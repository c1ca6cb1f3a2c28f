-------------------------------- MODULE Lsp ---------------------------------
(***************************************************************************)
(* The language server, src/lsp/lsp.c, with the span model it navigates    *)
(* (harvest_model in src/lang/story.c) and an editor at the other end of   *)
(* two ordered pipes.                                                      *)
(*                                                                         *)
(* The editor holds a text as code points and speaks UTF-16 positions; the *)
(* server holds bytes, and the compiler's columns are bytes.  A reply of   *)
(* JSON null is Nothing, like an empty list.  Parsing and compiling a text *)
(* is the CONSTANT operator Parsed; the cursor, the names and the wording  *)
(* of replies are records.                                                 *)
(***************************************************************************)
EXTENDS Json

CONSTANTS Uris,         \* the documents
          Texts,        \* the texts an editor may hold, as code points
          Parsed(_),    \* bytes -> [decls, rules, actions, inits, sups, diags]
          Spelled(_, _),   \* (code points, "open" or "change"): the JSON string sent
          Cursors(_),   \* text -> the positions a request may name, 0-based, UTF-16
          Names,        \* the names a call hierarchy item may carry
          MaxDiags,     \* room for diagnostics in refresh
          MaxMessages,  \* bound on the messages of a session
          MaxQueue      \* bound on the messages under way to the server

VARIABLES editor,   \* uri -> the text of the editor's buffer, or Closed
          sent,     \* messages under way to the server
          docs,     \* the server's documents: Seq([uri, text, model])
          server,   \* [up, shutdown]
          out,      \* messages under way to the editor
          shown,    \* uri -> the squiggles the editor shows
          asked,    \* the id of the last request sent
          answered, \* history: the id of the last reply received
          turns     \* messages sent so far

vars == <<editor, sent, docs, server, out, shown, asked, answered, turns>>

Nothing == <<>>
Closed  == <<"closed">>
NoModel == [stale |-> TRUE]

-----------------------------------------------------------------------------
(* Positions.                                                              *)

NL == 10

\* line_start: the first byte of 1-based line l, or the end of the text.
LineStart(text, l) ==
  Min({Len(text) + 1} \cup {k \in DOMAIN text :
        Cardinality({j \in 1 .. k - 1 : text[j] = NL}) >= l - 1})

\* utf8_step: bytes and UTF-16 units of the character a byte leads.
Utf8Step(c) ==
  CASE c < 128 -> <<1, 1>>
    [] c >= 128 /\ c < 224 -> <<2, 1>>
    [] c >= 224 /\ c < 240 -> <<3, 1>>
    [] c >= 240 -> <<4, 2>>

\* Where the characters of line l start, and where it ends.
Starts(text, l) ==
  LET from[at \in Nat] ==
        IF at > Len(text) \/ text[at] = NL THEN <<at>>
        ELSE <<at>> \o from[at + Utf8Step(text[at])[1]]
  IN  from[LineStart(text, l)]

\* <<bytes, units>> before each character of a line, and before its end.
Columns(text, l) ==
  LET starts == Starts(text, l)
      units(k) == (k - 1) + Cardinality({j \in 1 .. k - 1 : Utf8Step(text[starts[j]])[2] = 2})
  IN  [k \in DOMAIN starts |-> <<starts[k] - starts[1], units(k)>>]

\* Mutant: a byte column is sent as it is.
ByteColumn(text, l, col) == col

\* byte_to_utf16 and its inverse: the first character not before the column,
\* or the end of the line.
ByteToUtf16(text, l, col) ==
  LET cols == Columns(text, l)
      past == {k \in DOMAIN cols : cols[k][1] >= col}
  IN  cols[Min(past \cup {Len(cols)})][2]

Utf16ToByte(text, l, col) ==
  LET cols == Columns(text, l)
      past == {k \in DOMAIN cols : cols[k][2] >= col}
  IN  cols[Min(past \cup {Len(cols)})][1]

\* write_range.
RangeOf(text, line, col, len) ==
  [line |-> line - 1, from |-> ByteToUtf16(text, line, col - 1),
   to |-> ByteToUtf16(text, line, col - 1 + len)]

Word(b) == b \in 97 .. 122 \/ b \in 65 .. 90 \/ b \in 48 .. 57 \/ b = 95

\* token_width: the identifier under a diagnostic, or one byte.
TokenWidth(text, line, col) ==
  LET at == LineStart(text, line) + col - 1
      word == {n \in 0 .. Len(text) : at + n <= Len(text) + 1
                 /\ \A k \in at .. at + n - 1 : Word(text[k])}
  IN  Max({1, Max(word)})

-----------------------------------------------------------------------------
(* The span model.                                                         *)

Occ(a, role, rule) == [name |-> a.name, role |-> role, line |-> a.line, col |-> a.col,
                       len |-> Len(a.name), neg |-> a.neg, rule |-> rule]

Occs(atoms, role, rule) == [k \in DOMAIN atoms |-> Occ(atoms[k], role, rule)]

\* harvest_model: declarations, then rules, actions, inits and superiorities.
Harvest(ast) ==
  LET labelled == SelectSeq(ast.rules, LAMBDA r : r.label # <<>>)
      decl(d)  == [name |-> d.name, kind |-> d.kind, line |-> d.line, col |-> d.col]
      rule(i)  == <<Occ(ast.rules[i].head, "head", i)>> \o Occs(ast.rules[i].body, "body", i)
      action(a) == Occs(a.requires, "body", 0) \o Occs(a.effects, "effect", 0)
  IN  [stale |-> FALSE,
       syms |-> [k \in DOMAIN ast.decls |-> decl(ast.decls[k])]
                  \o [k \in DOMAIN ast.actions |-> [name |-> ast.actions[k].name, kind |-> "action",
                        line |-> ast.actions[k].line, col |-> ast.actions[k].col]]
                  \o [k \in DOMAIN labelled |-> [name |-> labelled[k].label, kind |-> "rule",
                        line |-> labelled[k].line, col |-> labelled[k].col]],
       occs |-> Occs(ast.decls, "decl", 0)
                  \o FlattenSeq([i \in DOMAIN ast.rules |-> rule(i)])
                  \o FlattenSeq([i \in DOMAIN ast.actions |-> action(ast.actions[i])])
                  \o Occs(ast.inits, "body", 0) \o Occs(ast.sups, "body", 0),
       rules |-> [i \in DOMAIN ast.rules |-> [label |-> ast.rules[i].label, line |-> ast.rules[i].line]]]

Named(m, name) == SelectSeq(m.occs, LAMBDA o : o.name = name)

\* occ_at: the first occurrence covering a byte position.
OccAt(m, line, col) ==
  SelectSeq(m.occs, LAMBDA o : o.line = line /\ col \in o.col .. o.col + o.len - 1)

RuleName(m, r) == IF m.rules[r].label # <<>> THEN m.rules[r].label ELSE <<m.rules[r].line>>

\* The kind of the first symbol of a name; an undeclared head is a conclusion.
KindOf(m, name) ==
  LET s == SelectSeq(m.syms, LAMBDA y : y.name = name)
  IN  IF s = <<>> THEN "conclusion" ELSE s[1].kind

\* repr_occ: a name's declaration, else a head, else any occurrence.
Representative(m, name) ==
  LET o == Named(m, name)
      of(role) == SelectSeq(o, LAMBDA x : x.role = role)
  IN  SubSeq(of("decl") \o of("head") \o o, 1, 1)

OccRange(d, o) == RangeOf(d.text, o.line, o.col, o.len)

\* write_ch_item.
CallItem(d, name) ==
  [name |-> name, kind |-> KindOf(d.model, name),
   at |-> IF Representative(d.model, name) = <<>> THEN [line |-> 0, from |-> 0, to |-> 0]
          ELSE OccRange(d, Representative(d.model, name)[1])]

-----------------------------------------------------------------------------
(* Requests on a document d with its model.                                *)

\* on_definition: declarations and heads of the atom under the cursor.
Definition(d, hit) ==
  LET sites == SelectSeq(Named(d.model, hit.name), LAMBDA o : o.role \in {"decl", "head"})
  IN  [k \in DOMAIN sites |-> OccRange(d, sites[k])]

\* on_references: every occurrence, the declaration if asked for.
References(d, hit, incl) ==
  LET sites == SelectSeq(Named(d.model, hit.name), LAMBDA o : incl \/ o.role # "decl")
  IN  [k \in DOMAIN sites |-> OccRange(d, sites[k])]

\* on_hover: who concludes the atom, who attacks it, how many bodies read it.
Hover(d, hit) ==
  LET o == Named(d.model, hit.name)
      heads(neg) == SelectSeq(o, LAMBDA x : x.role = "head" /\ x.neg = neg)
      rules(s) == [k \in DOMAIN s |-> RuleName(d.model, s[k].rule)]
  IN  [name |-> hit.name, kind |-> KindOf(d.model, hit.name),
       concluded |-> rules(heads(FALSE)), attacked |-> rules(heads(TRUE)),
       used |-> Len(SelectSeq(o, LAMBDA x : x.role = "body" /\ x.rule > 0)),
       at |-> OccRange(d, hit)]

\* A sequence without the elements whose key came before.
FirstOfEach(s, Key(_)) ==
  FoldLeft(LAMBDA kept, x : IF \E k \in DOMAIN kept : Key(kept[k]) = Key(x) THEN kept
                            ELSE Append(kept, x), <<>>, s)

\* on_incoming_calls: the head of every rule whose body reads the name, once a rule.
Incoming(d, name) ==
  LET reads == FirstOfEach(SelectSeq(Named(d.model, name), LAMBDA o : o.role = "body" /\ o.rule > 0),
                           LAMBDA o : o.rule)
      head(r) == SelectSeq(d.model.occs, LAMBDA o : o.role = "head" /\ o.rule = r)[1]
  IN  [k \in DOMAIN reads |-> [item |-> CallItem(d, head(reads[k].rule).name),
                               from |-> OccRange(d, reads[k])]]

\* Mutant: attackers of the name are left out.
OutgoingOfConcluders(d, name) ==
  LET heads == SelectSeq(Named(d.model, name), LAMBDA o : o.role = "head" /\ ~ o.neg)
      body(r) == SelectSeq(d.model.occs, LAMBDA o : o.role = "body" /\ o.rule = r)
      reads == FirstOfEach(FlattenSeq([k \in DOMAIN heads |-> body(heads[k].rule)]),
                           LAMBDA o : o.name)
  IN  [k \in DOMAIN reads |-> [item |-> CallItem(d, reads[k].name), from |-> OccRange(d, reads[k])]]

\* on_outgoing_calls: the premises of every rule with the name as head, once a premise.
Outgoing(d, name) ==
  LET heads == SelectSeq(Named(d.model, name), LAMBDA o : o.role = "head" /\ o.rule > 0)
      body(r) == SelectSeq(d.model.occs, LAMBDA o : o.role = "body" /\ o.rule = r)
      reads == FirstOfEach(FlattenSeq([k \in DOMAIN heads |-> body(heads[k].rule)]),
                           LAMBDA o : o.name)
  IN  [k \in DOMAIN reads |-> [item |-> CallItem(d, reads[k].name), from |-> OccRange(d, reads[k])]]

\* on_document_symbol.
Outline(d) ==
  [k \in DOMAIN d.model.syms |->
     LET y == d.model.syms[k]
     IN  [name |-> y.name, kind |-> y.kind, at |-> RangeOf(d.text, y.line, y.col, Len(y.name))]]

\* The result of a request on the document it names; Nothing without a
\* document or without an atom under the cursor.
Result(d, m) ==
  LET hit == OccAt(d.model, m.line + 1, Utf16ToByte(d.text, m.line + 1, m.char) + 1)
  IN  CASE m.method = "documentSymbol" -> Outline(d)
        [] m.method = "incomingCalls" -> Incoming(d, m.name)
        [] m.method = "outgoingCalls" -> Outgoing(d, m.name)
        [] m.method = "definition" /\ hit # <<>> -> Definition(d, hit[1])
        [] m.method = "references" /\ hit # <<>> -> References(d, hit[1], m.incl)
        [] m.method = "hover" /\ hit # <<>> -> <<Hover(d, hit[1])>>
        [] m.method = "prepareCallHierarchy" /\ hit # <<>> -> <<CallItem(d, hit[1].name)>>
        [] OTHER -> Nothing

-----------------------------------------------------------------------------
(* The server.                                                             *)

DocOf(ds, uri) == {k \in DOMAIN ds : ds[k].uri = uri}

\* doc_put: replace the text and drop the model, or append the document.
DocPut(ds, uri, text) ==
  IF DocOf(ds, uri) = {} THEN Append(ds, [uri |-> uri, text |-> text, model |-> NoModel])
  ELSE [ds EXCEPT ![Min(DocOf(ds, uri))] = [@ EXCEPT !.text = text, !.model = NoModel]]

\* doc_remove: the last document takes its place.
DocRemove(ds, uri) ==
  IF DocOf(ds, uri) = {} THEN ds ELSE Front([ds EXCEPT ![Min(DocOf(ds, uri))] = Last(ds)])

DocText(ds, uri) == ds[Min(DocOf(ds, uri))].text

\* refresh: compile once, keep the model.
Refresh(ds, uri) == [ds EXCEPT ![Min(DocOf(ds, uri))] = [@ EXCEPT !.model = Harvest(Parsed(DocText(ds, uri)))]]

\* emit_diagnostics, at most as many as there is room for.
Diagnostics(text) ==
  LET diags == Parsed(text).diags
      one(g) == [at |-> RangeOf(text, g.line, g.col, TokenWidth(text, g.line, g.col)),
                 sev |-> g.sev, msg |-> Encode(g.msg)]
  IN  [k \in 1 .. Min({MaxDiags, Len(diags)}) |-> one(diags[k])]

\* emit_diagnostics and reply_result; a reply keeps the request it answers.
Publish(uri, diags) == [id |-> 0, uri |-> uri, result |-> diags, to |-> <<>>]
Reply(m, result)    == [id |-> m.id, uri |-> m.uri, result |-> result, to |-> <<m>>]

\* on_did_open and on_did_change: the last change carries the whole text; a
\* message without a text is dropped.
Synchronize(m) ==
  IF m.texts = <<>> \/ ~ Decode(Last(m.texts)).ok THEN UNCHANGED <<docs, out>>
  ELSE \E text \in {Decode(Last(m.texts)).out} :
         /\ docs' = Refresh(DocPut(docs, m.uri, text), m.uri)
         /\ out' = Append(out, Publish(m.uri, Diagnostics(text)))

\* Mutant: the document goes and its squiggles stay.
OnDidCloseSilently(m) == docs' = DocRemove(docs, m.uri) /\ out' = out

\* on_did_close clears the squiggles.
OnDidClose(m) ==
  /\ docs' = DocRemove(docs, m.uri)
  /\ out' = Append(out, Publish(m.uri, <<>>))

\* Requests that navigate, by position or by name.
Navigation == {"definition", "references", "documentSymbol", "hover", "prepareCallHierarchy",
               "incomingCalls", "outgoingCalls"}

Navigate(m) ==
  /\ docs' = docs
  /\ out' = Append(out, Reply(m, IF DocOf(docs, m.uri) = {} THEN Nothing
                                 ELSE Result(docs[Min(DocOf(docs, m.uri))], m)))

\* initialize, shutdown, and the error for a request nobody knows.
AnswerPlainly(m) ==
  /\ docs' = docs
  /\ out' = IF m.id = 0 THEN out ELSE Append(out, Reply(m, Nothing))

\* read_frame: the next message off the pipe.
ReadFrame == server.up /\ sent # <<>> /\ sent' = Tail(sent)

\* lsp_dispatch, one message a turn of lsp_run.
Serve ==
  /\ ReadFrame
  /\ LET m == Head(sent)
     IN  \/ m.method \in {"didOpen", "didChange"} /\ Synchronize(m)
         \/ m.method = "didClose" /\ OnDidClose(m)
         \/ m.method \in Navigation /\ Navigate(m)
         \/ m.method \in {"initialize", "shutdown", "unknown"} /\ AnswerPlainly(m)
         \/ m.method = "exit" /\ UNCHANGED <<docs, out>>
  /\ server' = [up |-> Head(sent).method # "exit",
                shutdown |-> server.shutdown \/ Head(sent).method = "shutdown"]
  /\ UNCHANGED <<editor, shown, asked, answered, turns>>

-----------------------------------------------------------------------------
(* The editor.                                                             *)

Message(method, uri) ==
  [method |-> method, id |-> 0, uri |-> uri, texts |-> <<>>, line |-> 0, char |-> 0,
   incl |-> TRUE, name |-> <<>>, seen |-> Closed]

\* Every message goes down the pipe in order.
Send(m) ==
  /\ server.up /\ turns < MaxMessages /\ Len(sent) < MaxQueue
  /\ turns' = turns + 1
  /\ sent' = Append(sent, m)
  /\ UNCHANGED <<docs, server, out, shown, answered>>

Open(uri, text) ==
  /\ editor[uri] = Closed
  /\ editor' = [editor EXCEPT ![uri] = text]
  /\ Send([Message("didOpen", uri) EXCEPT !.texts = <<Spelled(text, "open")>>])
  /\ UNCHANGED asked

\* Every keystroke sends the whole text; a change may carry earlier texts too.
Change(uri, steps) ==
  /\ editor[uri] # Closed
  /\ editor' = IF steps = <<>> THEN editor ELSE [editor EXCEPT ![uri] = Last(steps)]
  /\ Send([Message("didChange", uri) EXCEPT
             !.texts = [k \in DOMAIN steps |-> Spelled(steps[k], "change")]])
  /\ UNCHANGED asked

Close(uri) ==
  /\ editor[uri] # Closed
  /\ editor' = [editor EXCEPT ![uri] = Closed]
  /\ Send(Message("didClose", uri))
  /\ UNCHANGED asked

\* A request gets the next id; `seen` is the text it is asked about.
Request(m) ==
  /\ asked' = asked + 1
  /\ Send([m EXCEPT !.id = asked + 1,
                     !.seen = IF m.uri \in Uris THEN editor[m.uri] ELSE Closed])
  /\ UNCHANGED editor

AskAt(uri, method, at) ==
  Request([Message(method, uri) EXCEPT !.line = at[1], !.char = at[2]])

AskReferences(uri, at, incl) ==
  Request([Message("references", uri) EXCEPT !.line = at[1], !.char = at[2], !.incl = incl])

AskCalls(uri, method, name) == Request([Message(method, uri) EXCEPT !.name = name])

AskPlainly(method) == Request(Message(method, ""))

\* exit is a notification.
Exit == Send(Message("exit", "")) /\ UNCHANGED <<editor, asked>>

\* A squiggle as the editor shows it: the message as its JSON reader has it.
Squiggle(g) == [g EXCEPT !.msg = Decode(g.msg).out]

Receive ==
  /\ out # <<>>
  /\ LET r == Head(out)
     IN  IF r.id = 0
           THEN /\ shown' = [shown EXCEPT ![r.uri] = [k \in DOMAIN r.result |-> Squiggle(r.result[k])]]
                /\ answered' = answered
           ELSE shown' = shown /\ answered' = r.id
  /\ out' = Tail(out)
  /\ UNCHANGED <<editor, sent, docs, server, asked, turns>>

Init ==
  /\ editor = [u \in Uris |-> Closed]
  /\ sent = <<>> /\ out = <<>>
  /\ docs = <<>>
  /\ server = [up |-> TRUE, shutdown |-> FALSE]
  /\ shown = [u \in Uris |-> <<>>]
  /\ asked = 0 /\ answered = 0 /\ turns = 0

Edit(uri) ==
  \/ \E text \in Texts : Open(uri, text) \/ Change(uri, <<text>>)
  \/ \E text \in Texts : \E typo \in Texts \ {text} : Change(uri, <<typo, text>>)
  \/ Change(uri, <<>>)
  \/ Close(uri)

Ask(uri) ==
  \/ \E at \in Cursors(editor[uri]) :
       \/ \E method \in {"definition", "hover", "prepareCallHierarchy"} : AskAt(uri, method, at)
       \/ \E incl \in BOOLEAN : AskReferences(uri, at, incl)
  \/ \E name \in Names, method \in {"incomingCalls", "outgoingCalls"} : AskCalls(uri, method, name)
  \/ Request(Message("documentSymbol", uri))

Next ==
  \/ Serve
  \/ Receive
  \/ \E uri \in Uris : Edit(uri) \/ Ask(uri)
  \/ \E method \in {"initialize", "shutdown", "unknown"} : AskPlainly(method)
  \/ Exit

\* lsp_run reads on while it is up and there is something to read (only Serve
\* shortens the queue, and it takes every message); so does the editor.
Spec == Init /\ [][Next]_vars /\ WF_sent(ReadFrame) /\ WF_vars(Receive)

-----------------------------------------------------------------------------
(* Properties.                                                             *)

\* The editor's view of a position: the characters of a line with the UTF-16
\* units before each, none of the server's arithmetic.
LineOf(text, l) ==
  LET ends == {k \in DOMAIN text : text[k] = NL}
      starts == {1} \cup {k + 1 : k \in ends}
      start == IF l >= Cardinality(starts) THEN Len(text) + 1 ELSE SetToSortSeq(starts, <)[l + 1]
      stop == Min({k \in ends : k >= start} \cup {Len(text) + 1}) - 1
  IN  SubSeq(text, start, stop)

UnitsBefore(chars, k) ==
  (k - 1) + Cardinality({j \in 1 .. k - 1 : chars[j] >= 65536})

\* What a range selects on the editor's screen.
Selected(text, range) ==
  LET chars == LineOf(text, range.line)
  IN  SelectSeq([k \in DOMAIN chars |-> <<UnitsBefore(chars, k), chars[k]>>],
                LAMBDA c : c[1] >= range.from /\ c[1] < range.to)

Letters(selection) == [k \in DOMAIN selection |-> selection[k][2]]

\* The identifier under a cursor, as the editor sees it.
IdentifierAt(text, line, char) ==
  LET chars == LineOf(text, line)
      under == {k \in DOMAIN chars : UnitsBefore(chars, k) = char /\ Word(chars[k])}
      from(k) == Min({i \in 1 .. k : \A j \in i .. k : Word(chars[j])})
      to(k) == Max({i \in k .. Len(chars) : \A j \in k .. i : Word(chars[j])})
  IN  IF under = {} THEN <<>> ELSE LET k == Min(under) IN SubSeq(chars, from(k), to(k))

AtomsOf(ast, name) ==
  SelectSeq(ast.decls \o FlattenSeq([i \in DOMAIN ast.rules |-> <<ast.rules[i].head>>]),
            LAMBDA a : a.name = name)

\* Every reply under way to the editor, with the request it answers.
Replies == {out[k] : k \in {j \in DOMAIN out : out[j].id > 0}}

\* A navigation answer is about the text on screen when it was asked and the
\* atom under the cursor: each place it names reads as that atom there, with
\* characters of several bytes or units to its left, and a definition names
\* every declaration and every head (on_definition, on_references, on_hover).
NavigationFollowsTheScreen ==
  \A r \in Replies :
    LET m == r.to[1]
        atom == IdentifierAt(m.seen, m.line, m.char)
        reads(range) == Letters(Selected(m.seen, range)) = atom
    IN  m.method \in Navigation /\ m.seen # Closed =>
          /\ m.method \in {"definition", "references"} => \A k \in DOMAIN r.result : reads(r.result[k])
          /\ m.method = "definition" =>
               Len(r.result) = Len(AtomsOf(Parsed(Utf8Text(m.seen)), atom))
          /\ m.method \in {"hover", "prepareCallHierarchy"} =>
               \A k \in DOMAIN r.result : r.result[k].name = atom /\ reads(r.result[k].at)

\* The call hierarchy is one relation read both ways: q is a premise of p
\* exactly when p is fed by q, in every document as it is refreshed
\* (on_incoming_calls, on_outgoing_calls).
CallsReadBothWays ==
  \A k \in DOMAIN docs : out # <<>> /\ Last(out).id = 0 /\ Last(out).uri = docs[k].uri =>
    \A p \in Names :
      {c.item.name : c \in ToSet(Outgoing(docs[k], p))} \cap Names
        = {q \in Names : \E c \in ToSet(Incoming(docs[k], q)) : c.item.name = p}

\* The buffer jstring sizes in its first pass holds what its second pass
\* writes, however a text is spelled, and the text arrives as typed.
TextsArriveWhole ==
  sent # <<>> => \A w \in ToSet(Last(sent).texts) :
    /\ Decode(w).ok
    /\ Len(Decode(w).out) <= RawLength(w)
    /\ \E text \in Texts : Decode(w).out = Utf8Text(text)

\* What the editor should show for a text: each message and the token it is on.
Expected(text) ==
  LET diags == Parsed(Utf8Text(text)).diags
  IN  [k \in 1 .. Min({MaxDiags, Len(diags)}) |-> <<diags[k].msg, diags[k].on>>]

Shows(u) ==
  IF editor[u] = Closed THEN shown[u] = <<>>
  ELSE [k \in DOMAIN shown[u] |-> <<shown[u][k].msg, Letters(Selected(editor[u], shown[u][k].at))>>]
         = Expected(editor[u])

ScreensAreCurrent == ~ server.up \/ \A u \in Uris : Shows(u)

\* When the typing stops, the squiggles are those of the text on screen, on
\* the tokens they are about, and none for a closed document (refresh,
\* publish_empty).
SquigglesSettle == <>[]ScreensAreCurrent
=============================================================================
