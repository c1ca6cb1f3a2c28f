------------------------------- MODULE MCLsp --------------------------------
(***************************************************************************)
(* Two texts for Lsp.  The first declares p, has a rule p > q behind a     *)
(* character of four bytes and two units; the second has two-byte letters, *)
(* a name of two letters, a rule attacking p and a labelled rule:          *)
(*     p                                    p                              *)
(*     G p>q                                                               *)
(*                                          e pp>q                         *)
(*                                          l:q>-p                         *)
(***************************************************************************)
EXTENDS Lsp

p  == <<112>>
pp == <<112, 112>>
q  == <<113>>
l  == <<108>>

First  == p \o <<10, 119070, 32>> \o p \o <<62>> \o q
Second == p \o <<10, 10, 233, 32>> \o pp \o <<62>> \o q \o <<10>> \o l \o <<58>> \o q \o <<62, 45>> \o p

Atom(name, line, col) == [name |-> name, line |-> line, col |-> col, neg |-> FALSE]

FirstAst ==
  [decls |-> <<[name |-> p, kind |-> "fluent", line |-> 1, col |-> 1, neg |-> FALSE]>>,
   rules |-> <<[label |-> <<>>, line |-> 2, col |-> 6, head |-> Atom(q, 2, 8), body |-> <<Atom(p, 2, 6)>>]>>,
   actions |-> <<>>, inits |-> <<>>, sups |-> <<>>, diags |-> <<>>]

SecondAst ==
  [decls |-> <<[name |-> p, kind |-> "fluent", line |-> 1, col |-> 1, neg |-> FALSE]>>,
   rules |-> <<[label |-> <<>>, line |-> 3, col |-> 4, head |-> Atom(q, 3, 7), body |-> <<Atom(pp, 3, 4)>>],
               [label |-> l, line |-> 4, col |-> 1, head |-> [Atom(p, 4, 6) EXCEPT !.neg = TRUE],
                body |-> <<Atom(q, 4, 3)>>]>>,
   actions |-> <<>>, inits |-> <<>>, sups |-> <<>>,
   diags |-> <<[line |-> 3, col |-> 4, sev |-> "warning", msg |-> <<34>> \o pp \o <<34, 1>>, on |-> pp],
               [line |-> 4, col |-> 6, sev |-> "error", msg |-> <<10>>, on |-> p],
               [line |-> 4, col |-> 5, sev |-> "error", msg |-> <<233>>, on |-> <<45>>]>>]

MCTexts == {First, Second}
MCParsed(bytes) == IF bytes = Utf8Text(First) THEN FirstAst ELSE SecondAst
MCNames == {p, pp, q}

\* Cursors: on the names, on the character before, and past the end of a line.
MCCursors(text) ==
  IF text = First THEN {<<0, 0>>, <<1, 3>>, <<1, 5>>}
  ELSE IF text = Second THEN {<<2, 3>>, <<3, 5>>, <<3, 9>>}
  ELSE {<<0, 0>>}

Digits(n) == LET d(i) == LowerHex((n \div i) % 16) IN <<d(4096), d(256), d(16), d(1)>>

EscapeAll(cp) ==
  IF cp < 65536 THEN <<Backslash, SmallU>> \o Digits(cp)
  ELSE <<Backslash, SmallU>> \o Digits(55296 + ((cp - 65536) \div 1024))
         \o <<Backslash, SmallU>> \o Digits(56320 + ((cp - 65536) % 1024))

MCSpelled(text, way) ==
  IF way = "open" THEN Encode(Utf8Text(text))
  ELSE FlattenSeq([k \in DOMAIN text |-> EscapeAll(text[k])]) \o <<Quote>>
=============================================================================
