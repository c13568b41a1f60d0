----------------------------- MODULE SourceParser -----------------------------
(***************************************************************************)
(* From the lines of a character file to its symbols and references        *)
(* (FromSyntax in src/internal/parser/adapter/adapter.go), and from there  *)
(* to the reference rows of the SQL export (src/internal/index/index.go).  *)
(* A line has a kind; a key line has its key and a value, for a trigger    *)
(* the commands it names in their order.                                   *)
(***************************************************************************)
EXTENDS Naturals, Sequences, FiniteSets

CONSTANTS
  Nobody,        \* no section, no controller, no type, no parsed reference
  SourceLine     \* the lines that a file can have

LineKind == {"section", "comment", "blank", "malformed", "key"}

ASSUME SourceLineAssumption ==
  \A t \in SourceLine :
    /\ t.kind \in LineKind
    /\ t.section # Nobody
    /\ t.kind = "key" /\ t.key = "trigger" => t.value \in Seq(STRING)
ASSUME NobodyAssumption == Nobody \notin {"changestate", "selfstate", "state"}

VARIABLES
  syntax,      \* the lines read so far
  document,    \* what FromSyntax has made of them
  export       \* resolveReferenceRows: the references taken, the rows and the keys used

parservars == <<syntax, document, export>>

\* The state id "+1" is written "-10" in every name.
StateID(raw) == IF raw = "+1" THEN "-10" ELSE raw

EmptyDocument ==
  [line |-> 0, section |-> Nobody, controller |-> Nobody,
   symbols |-> <<>>, refs |-> <<>>, diagnostics |-> <<>>]

Symbol(kind, name, line) == [kind |-> kind, name |-> name, line |-> line]

Diagnose(doc, code) == [doc EXCEPT !.diagnostics = Append(@, code)]

\* A header opens its section; an empty one leaves the lines after it without any.
Header(doc, token) ==
  LET start == [doc EXCEPT !.section = IF token.section = "" THEN Nobody ELSE token.section,
                           !.controller = Nobody]
      symbol(kind) == Append(doc.symbols, Symbol(kind, StateID(token.arg), doc.line))
  IN CASE token.section = "" -> Diagnose(start, "malformed-section")
       [] token.section = "statedef" ->
            LET named == [start EXCEPT !.symbols = symbol("statedef")]
            IN IF token.arg = "" THEN Diagnose(named, "malformed-statedef") ELSE named
       [] token.section = "state" ->
            [start EXCEPT !.symbols = symbol("controller"),
                          !.controller = [line |-> doc.line, type |-> Nobody, pending |-> <<>>]]
       [] OTHER -> start

Changes(type) == type \in {"changestate", "selfstate"}

Clear(doc) == [doc EXCEPT !.controller.pending = <<>>]

\* The pending value becomes a reference on the line that completes it.
EmitStateReference(doc) ==
  LET pending == doc.controller.pending
      value == pending[1]
  IN IF pending = <<>> THEN doc
     ELSE IF ~Changes(doc.controller.type) \/ value.text = "" THEN Clear(doc)
     ELSE [Clear(doc) EXCEPT !.refs = Append(@,
             [kind |-> "state", target |-> StateID(value.text), source |-> doc.controller.line,
              line |-> doc.line, span |-> value.line, occurrence |-> 0,
              dynamic |-> value.text = "expression"])]

\* Mutant: another type leaves the value for the next one.
SetTypeKeeps(doc, type) ==
  LET typed == [doc EXCEPT !.controller.type = type]
  IN IF Changes(type) THEN EmitStateReference(typed) ELSE typed

SetType(doc, type) ==
  LET typed == [doc EXCEPT !.controller.type = type]
  IN IF Changes(type) THEN EmitStateReference(typed) ELSE Clear(typed)

ControllerLine(doc, token) ==
  CASE token.key = "type" -> SetType(doc, token.value)
    [] token.key = "value" ->
         LET kept == [doc EXCEPT !.controller.pending = <<[text |-> token.value, line |-> doc.line]>>]
         IN IF Changes(doc.controller.type) THEN EmitStateReference(kept) ELSE kept
    [] token.key = "trigger" ->
         [doc EXCEPT !.refs = @ \o [i \in DOMAIN token.value |->
            [kind |-> "command", target |-> token.value[i], source |-> doc.controller.line,
             line |-> doc.line, span |-> doc.line, occurrence |-> i - 1, dynamic |-> FALSE]]]
    [] token.key = "triggerx" -> Diagnose(doc, "malformed-trigger")
    [] OTHER -> doc

CommandName(doc, token) ==
  LET checked == IF token.value = "unquoted" THEN Diagnose(doc, "unquoted-command-name") ELSE doc
  IN IF token.value = "" THEN Diagnose(Diagnose(doc, "unquoted-command-name"), "malformed-command")
     ELSE [checked EXCEPT !.symbols = Append(@, Symbol("command", token.value, doc.line))]

Feed(last, token) ==
  LET doc == [last EXCEPT !.line = @ + 1]
  IN IF token.kind = "section" THEN Header(doc, token)
     ELSE IF token.kind \in {"comment", "blank"} THEN doc
     ELSE IF doc.section = Nobody THEN Diagnose(doc, "orphan-line")
     ELSE IF token.kind = "malformed" /\ doc.section = "positional" THEN doc
     ELSE IF token.kind = "malformed" \/ token.key = "" THEN Diagnose(doc, "malformed-line")
     ELSE IF doc.section = "command" /\ token.key = "name" THEN CommandName(doc, token)
     ELSE IF doc.section = "state" THEN ControllerLine(doc, token)
     ELSE doc

\* A file is read line by line, and its references are exported afterwards.
FromSyntax(t) ==
  /\ export.taken = <<>>
  /\ syntax' = Append(syntax, t)
  /\ document' = Feed(document, t)
  /\ UNCHANGED export

\* Mutant: the commands of a line share an id.
ReferenceIDOfLine(ref) == <<ref.kind, ref.line>>

\* The names a resolved reference is found by again: its id, which tells apart the
\* commands of a line, then its place.
ReferenceID(ref) == <<ref.kind, ref.line, ref.occurrence>>
Keys(ref) == <<ReferenceID(ref), <<ref.line>>>>

\* The parsed references that have a key, by their numbers, and how often it was used.
Candidates(key) == {i \in DOMAIN document.refs : \E n \in 1..2 : Keys(document.refs[i])[n] = key}
Used(key) == IF key \in DOMAIN export.used THEN export.used[key] ELSE 0
Has(key) == Used(key) < Cardinality(Candidates(key))

\* The next parsed reference of a key.
NextOf(key) == CHOOSE i \in Candidates(key) :
               Cardinality({j \in Candidates(key) : j < i}) = Used(key)

\* Mutant: the key leaves out where the reference stands.
RowNowhere(id, ref) ==
  [id |-> id, ref |-> ref, key |-> <<ref.source, ref.target, ref.kind, 1>>]

\* A row of the export with the primary key of its table.
Row(id, ref) ==
  [id |-> id, ref |-> ref, key |-> <<ref.source, ref.target, ref.kind, ref.span>>]

\* A row made from the resolution alone stands on the first line.
Lost(ref) ==
  [id |-> ReferenceID(ref), ref |-> Nobody, key |-> <<ref.source, ref.target, ref.kind, 1>>]

\* The references are resolved once each, in the order of the resolver.  The resolution of
\* reference i takes the next parsed one that a key of it still has.
ResolveReference(i) ==
  LET ref == document.refs[i]
      key == IF Has(Keys(ref)[1]) THEN Keys(ref)[1] ELSE Keys(ref)[2]
      found == document.refs[NextOf(key)]
  IN /\ \A n \in DOMAIN export.taken : export.taken[n] # i
     /\ export' =
          [taken |-> Append(export.taken, i),
           rows |-> Append(export.rows, IF Has(key) THEN Row(ReferenceID(found), found) ELSE Lost(ref)),
           used |-> IF ~Has(key) THEN export.used
                    ELSE [k \in DOMAIN export.used \cup {key} |->
                            IF k = key THEN Used(key) + 1 ELSE export.used[k]]]
     /\ UNCHANGED <<syntax, document>>

\* Rows whose ids collide are numbered.
Disambiguated ==
  [i \in DOMAIN export.rows |->
     <<export.rows[i].id, Cardinality({j \in 1..i - 1 : export.rows[j].id = export.rows[i].id})>>]

ParserInit ==
  /\ syntax = <<>>
  /\ document = EmptyDocument
  /\ export = [taken |-> <<>>, rows |-> <<>>, used |-> <<>>]

ParserNext ==
  \/ \E t \in SourceLine : FromSyntax(t)
  \/ \E i \in DOMAIN document.refs : ResolveReference(i)

ParserSpec == ParserInit /\ [][ParserNext]_parservars
-------------------------------------------------------------------------------
(* Properties *)

\* The headers of controllers in a file, and the lines of a section by their numbers.
ControllerHeaders(file) ==
  {h \in DOMAIN file : file[h].kind = "section" /\ file[h].section = "state"}
SectionLines(file, h) ==
  {i \in h + 1 .. Len(file) : \A j \in h + 1 .. i : file[j].kind # "section"}

Assigns(file, i, key) == file[i].kind = "key" /\ file[i].key = key

\* The value of line i counts when the type in force is a state change, or comes later
\* in the section with no other type or value in between.
Counts(file, h, i) ==
  /\ Assigns(file, i, "value")
  /\ file[i].value # ""
  /\ \E j \in SectionLines(file, h) :
       /\ Assigns(file, j, "type") /\ Changes(file[j].value)
       /\ \/ j < i /\ \A k \in j + 1 .. i - 1 : ~Assigns(file, k, "type")
          \/ i < j /\ \A k \in i + 1 .. j - 1 : ~Assigns(file, k, "type") /\ ~Assigns(file, k, "value")

StateChanges(file) ==
  {p \in ControllerHeaders(file) \X (1..Len(file)) :
     p[2] \in SectionLines(file, p[1]) /\ Counts(file, p[1], p[2])}

\* The state references of a document are exactly the values that count in its
\* controllers, once each, under their own controller and with their target, whichever
\* of type and value comes first and whatever stands between them (FromSyntax).
FindsStateChanges ==
  LET refs == document.refs
      states == {i \in DOMAIN refs : refs[i].kind = "state"}
  IN /\ {<<refs[i].source, refs[i].span>> : i \in states} = StateChanges(syntax)
     /\ \A i, j \in states : i # j => refs[i].span # refs[j].span
     /\ \A i \in states : refs[i].target = StateID(syntax[refs[i].span].value)

\* Every reference of a document has a row of its own in the export, in whatever order
\* the resolver gives them, and no two rows share an id (resolveReferenceRows).
ExportsEach ==
  /\ Len(export.rows) = Len(export.taken)
  /\ \A n \in DOMAIN export.rows : export.rows[n].ref = document.refs[export.taken[n]]
  /\ \A m, n \in DOMAIN export.rows : m # n => Disambiguated[m] # Disambiguated[n]

\* "Output can be piped directly into sqlite3": no two rows are inserted under one
\* primary key (Export in index.go).
KeysDistinct ==
  \A m, n \in DOMAIN export.rows : m # n => export.rows[m].key # export.rows[n].key

\* Rows that share their key are of one trigger line that names a command twice.
KeysShared ==
  \A m, n \in DOMAIN export.rows :
    m # n /\ export.rows[m].key = export.rows[n].key =>
      LET a == export.rows[m].ref
          b == export.rows[n].ref
      IN a.kind = "command" /\ a.line = b.line /\ a.target = b.target
===============================================================================
