-------------------------------- MODULE Json --------------------------------
(***************************************************************************)
(* Strings on the wire: the decoder and the encoder of src/lsp/json.c.     *)
(*                                                                         *)
(* A string is the sequence of its bytes.  Objects, arrays and literals    *)
(* are TLA+ values in the modules that use this one: the parser there is a *)
(* plain recursive descent, while here two passes over the bytes must      *)
(* agree, the first to size a buffer and the second to fill it.            *)
(***************************************************************************)
EXTENDS Integers, Sequences, SequencesExt, FiniteSetsExt

Quote     == 34
Backslash == 92
SmallU    == 117

\* The escapes of one letter and the byte each stands for.
ShortEscape == (34 :> 34) @@ (92 :> 92) @@ (47 :> 47) @@ (98 :> 8) @@ (102 :> 12)
                 @@ (110 :> 10) @@ (114 :> 13) @@ (116 :> 9)

Tail6(v) == 128 + (v % 64)

\* utf8_emit: the bytes of a code point.
Utf8(cp) ==
  CASE cp < 128   -> <<cp>>
    [] cp \in 128 .. 2047   -> <<192 + (cp \div 64), Tail6(cp)>>
    [] cp \in 2048 .. 65535 -> <<224 + (cp \div 4096), Tail6(cp \div 64), Tail6(cp)>>
    [] cp >= 65536 -> <<240 + (cp \div 262144), Tail6(cp \div 4096), Tail6(cp \div 64), Tail6(cp)>>

Utf8Text(text) == FlattenSeq([k \in DOMAIN text |-> Utf8(text[k])])

HexDigit(b) ==
  CASE b \in 48 .. 57  -> b - 48
    [] b \in 97 .. 102 -> b - 87
    [] b \in 65 .. 70  -> b - 55
    [] OTHER -> 16

\* parse_hex4: the number in the four bytes from at, or -1.
Hex4(s, at) ==
  IF at + 3 > Len(s) \/ \E k \in at .. at + 3 : HexDigit(s[k]) = 16 THEN -1
  ELSE FoldLeft(LAMBDA v, k : 16 * v + HexDigit(s[at + k]), 0, <<0, 1, 2, 3>>)

Bad == [ok |-> FALSE, out |-> <<>>, width |-> 0]

Piece(out, width) == [ok |-> TRUE, out |-> out, width |-> width]

\* An escape \u at `at`: what it writes and how many bytes it takes; a high
\* surrogate takes the \u after it too.
UnicodeEscape(s, at) ==
  LET cp   == Hex4(s, at + 2)
      pair == cp \in 55296 .. 56319 /\ at + 7 <= Len(s)
                /\ s[at + 6] = Backslash /\ s[at + 7] = SmallU
      lo   == Hex4(s, at + 8)
  IN  IF cp = -1 \/ (pair /\ lo = -1) THEN Bad
      ELSE IF ~ pair THEN Piece(Utf8(cp), 6)
      ELSE IF lo \in 56320 .. 57343
        THEN Piece(Utf8(65536 + (cp - 55296) * 1024 + (lo - 56320)), 12)
        ELSE Piece(Utf8(cp) \o Utf8(lo), 12)

\* One turn of the decoding loop of jstring.
PieceAt(s, at) ==
  IF at > Len(s) THEN Bad
  ELSE IF s[at] # Backslash THEN Piece(<<s[at]>>, 1)
  ELSE IF at = Len(s) THEN Bad
  ELSE IF s[at + 1] = SmallU THEN UnicodeEscape(s, at)
  ELSE IF s[at + 1] \in DOMAIN ShortEscape THEN Piece(<<ShortEscape[s[at + 1]]>>, 2)
  ELSE Bad

\* jstring: the string after an opening quote, up to its closing one.
Decode(s) ==
  LET ends(at)  == at <= Len(s) /\ s[at] = Quote
      good[at \in 1 .. Len(s) + 1] ==
        \/ ends(at)
        \/ PieceAt(s, at).ok /\ good[at + PieceAt(s, at).width]
      out[at \in 1 .. Len(s) + 1] ==
        IF ends(at) THEN <<>> ELSE PieceAt(s, at).out \o out[at + PieceAt(s, at).width]
  IN  IF good[1] THEN [ok |-> TRUE, out |-> out[1]] ELSE [ok |-> FALSE, out |-> <<>>]

\* Mutant: a \u escape is counted as one character.
RawLengthOfCharacters(s) ==
  LET width(at) == IF s[at] # Backslash THEN 1 ELSE IF s[at + 1] = SmallU THEN 6 ELSE 2
      n[at \in 1 .. Len(s) + 1] ==
        IF at > Len(s) \/ s[at] = Quote THEN 0 ELSE 1 + n[at + width(at)]
  IN  n[1]

\* The first loop of jstring: an upper bound on the decoded length, an escaped
\* byte counted once.
RawLength(s) ==
  LET width(at) == IF s[at] = Backslash THEN 2 ELSE 1
      n[at \in 1 .. Len(s) + 1] ==
        IF at > Len(s) \/ s[at] = Quote THEN 0 ELSE 1 + n[at + width(at)]
  IN  n[1]

LowerHex(d) == IF d < 10 THEN 48 + d ELSE 87 + d

\* sb_jstrn: bytes as a string literal, without the opening quote.
EncodeByte(b) ==
  LET letter == {e \in DOMAIN ShortEscape \ {47} : ShortEscape[e] = b}
  IN  IF letter # {} THEN <<Backslash, Max(letter)>>
      ELSE IF b < 32 THEN <<Backslash, SmallU, 48, 48, LowerHex(b \div 16), LowerHex(b % 16)>>
      ELSE <<b>>

Encode(bytes) == FlattenSeq([k \in DOMAIN bytes |-> EncodeByte(bytes[k])]) \o <<Quote>>
=============================================================================
