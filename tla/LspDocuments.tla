----------------------------- MODULE LspDocuments -----------------------------
(***************************************************************************)
(* The documents a language server holds in memory                         *)
(* (src/internal/lsp/server.go).  A document is kept under several keys:   *)
(* its path as spelled, the cleaned path and the URI made from the path.   *)
(* The editor names documents by URI, by an equivalent URI that is escaped *)
(* differently, or by the bare path.                                       *)
(***************************************************************************)
EXTENDS Semantics

CONSTANT Empty    \* the text with no symbols and no references

ASSUME EmptyAssumption == Empty \in DOMAIN Text

VARIABLES
  docs,     \* the document stored under each key
  latest,   \* history: the text given last under each spelling still open
  eclipsed  \* history: clean spellings of which another spelling was given or closed
            \* since they were given their text

dvars == <<docs, latest, eclipsed>>

Key == {"path", "uri", "escaped"} \X Path
PathForURI(key) == key[2]
Aliases(p) == {<<"path", p>>, <<"path", Clean(p)>>, <<"uri", p>>}

DocumentsInit ==
  /\ docs = [k \in Key |-> None]
  /\ latest = [p \in Path |-> None]
  /\ eclipsed = {}

SetDocument(p, text) ==
  /\ docs' = [k \in Key |-> IF k \in Aliases(p) THEN [path |-> p, text |-> text]
                            ELSE docs[k]]
  /\ latest' = [latest EXCEPT ![p] = text]
  /\ eclipsed' = (eclipsed \cup {Clean(p)}) \ {p}

\* textDocument/didOpen, and textDocument/didChange with the whole new text.
DidOpen(key, text) == SetDocument(PathForURI(key), text)

\* Mutant: the URI made from the path stays.
DidCloseKeepsURI(key) ==
  LET p == PathForURI(key) IN
  /\ docs' = [k \in Key |-> IF k \in {<<"path", p>>, <<"path", Clean(p)>>, key} THEN None
                             ELSE docs[k]]
  /\ latest' = [latest EXCEPT ![p] = None]
  /\ eclipsed' = (eclipsed \cup {Clean(p)}) \ {p}

\* textDocument/didClose.
DidClose(key) ==
  LET p == PathForURI(key) IN
  /\ docs' = [k \in Key |-> IF k \in Aliases(p) \cup {key} THEN None ELSE docs[k]]
  /\ latest' = [latest EXCEPT ![p] = None]
  /\ eclipsed' = (eclipsed \cup {Clean(p)}) \ {p}

\* A request may carry the text of its document, which is then stored.
Request(key, text) ==
  IF text = Empty THEN UNCHANGED dvars ELSE SetDocument(PathForURI(key), text)

DocumentsNext ==
  \E key \in Key : \/ \E t \in DOMAIN Text \ {Empty} : DidOpen(key, t) \/ Request(key, t)
                   \/ DidClose(key)

DocumentsSpec == DocumentsInit /\ [][DocumentsNext]_dvars

\* The document a request is answered from.
DocumentAt(key) ==
  IF docs[key] # None THEN docs[key]
  ELSE LET bare == <<"path", PathForURI(key)>>
       IN IF docs[bare] # None THEN docs[bare]
          ELSE [path |-> PathForURI(key), text |-> Empty]

\* Mutant: the document itself is collected again.
OthersAndItself(d) == {k \in Key : docs[k] # None}

Others(d) == {k \in Key : docs[k] # None /\ docs[k].path # d.path}

\* The documents as the diagnostics request collects them: others once for each key.
DiagnosedWorkspace(d) ==
  [k \in Others(d) \cup {None} |-> IF k = None THEN d ELSE docs[k]]

\* As hover, definition and references collect them: others once for each path.
QueriedWorkspace(d) ==
  [p \in {d.path} \cup {docs[k].path : k \in Others(d)} |->
     IF p = d.path THEN d
     ELSE docs[CHOOSE k \in Others(d) : docs[k].path = p]]

\* Both kinds of ids are made from the cleaned path.
SymbolID(p, symbol) == <<symbol.name, symbol.line, Clean(p)>>
IDOf(p, ref) == <<ref.kind, ref.line, ref.occurrence, Clean(p)>>

ASSUME IDAssumption == None \notin Key /\
  \A p \in Path, t \in DOMAIN Text : \A s \in DOMAIN Text[t].symbols :
    LET e == [path |-> p, symbol |-> Text[t].symbols[s]]
    IN None # e /\ None # SymbolID(p, e.symbol)

AllReferences(ws) ==
  UNION {{[path |-> ws[i].path, ref |-> r] : r \in ToSet(Refs(ws[i]))} : i \in DOMAIN ws}

\* The id of what the resolver finds for one reference of the workspace.
ResolvedID(ws, e) ==
  LET target == Resolution(ws, e.path, e.ref).target
  IN IF target = None THEN None ELSE SymbolID(target.path, target.symbol)

\* The resolved references with the id of the one that is asked about: a request looks
\* for its reference in the resolver's list by this id.
Namesakes(ws, p, ref) ==
  {e \in AllReferences(ws) : /\ IDOf(e.path, e.ref) = IDOf(p, ref)
                          /\ ResolvedID(ws, e) # None}

\* textDocument/definition and references take the first of them, by path.
TargetID(ws, p, ref) ==
  LET found == Namesakes(ws, p, ref)
  IN IF found = {} THEN None
     ELSE ResolvedID(ws, CHOOSE e \in found : \A f \in found : Rank(e.path) <= Rank(f.path))

\* textDocument/hover takes the last.
HoveredID(ws, p, ref) ==
  LET found == Namesakes(ws, p, ref)
  IN IF found = {} THEN None
     ELSE ResolvedID(ws, CHOOSE e \in found : \A f \in found : Rank(e.path) >= Rank(f.path))

\* The codes the diagnostics request reports for a reference of the document.
DiagnosticClass(d, ref) == Resolution(DiagnosedWorkspace(d), d.path, ref).class

\* Mutant: whatever has the name.
DefinitionsOfName(d, ref) ==
  {e \in Definitions(QueriedWorkspace(d)) : e.symbol.name = ref.target}

\* textDocument/definition on a reference: where symbols with the target's id stand.
DefinitionsOf(d, ref) ==
  LET ws == QueriedWorkspace(d)
  IN {e \in Definitions(ws) : SymbolID(e.path, e.symbol) = TargetID(ws, d.path, ref)}

\* textDocument/references: with no target every resolved reference is listed.
ReferencesTo(d, target) ==
  LET ws == QueriedWorkspace(d)
  IN {e \in AllReferences(ws) : LET id == ResolvedID(ws, e)
                             IN id # None /\ (target = None \/ id = target)}
-------------------------------------------------------------------------------
(* Properties *)

\* A request that names its document by the URI of its path is answered from the
\* newest text.  By the bare path or an escaped URI it is, unless another spelling of
\* the path was given or closed since: these keys are then the other spelling's, and
\* after its closing they hold nothing.  No request is answered from a text that was
\* closed or that belongs to another file (the aliases of SetDocument and
\* RemoveDocument, under any order of openings and closings).
AnswersOpenText ==
  /\ \A p \in Path : latest[p] # None =>
       LET newest == [path |-> p, text |-> latest[p]] IN
       /\ DocumentAt(<<"uri", p>>) = newest
       /\ p \notin eclipsed =>
            DocumentAt(<<"path", p>>) = newest /\ DocumentAt(<<"escaped", p>>) = newest
  /\ \A k \in Key : LET d == DocumentAt(k) IN
       d.text # Empty => /\ latest[d.path] = d.text
                         /\ PathForURI(k) \in {d.path, Clean(d.path)}

OpenDocuments == {[path |-> p, text |-> latest[p]] : p \in {q \in Path : latest[q] # None}}

\* No other spelling of the document's path is open: its references have their ids
\* for themselves.
OnlySpelling(d) == \A e \in OpenDocuments : Clean(e.path) = Clean(d.path) => e = d

\* Hover, definition and references find something for the same references.  For a
\* file open under one spelling they also find the same: what they lead to has the
\* name that the reference uses, and the list of its references leads back.  With a
\* second spelling open they may answer from the other text.
QueriesAgree ==
  \A d \in OpenDocuments : \A ref \in ToSet(Refs(d)) :
    LET id == TargetID(QueriedWorkspace(d), d.path, ref)
        hovered == HoveredID(QueriedWorkspace(d), d.path, ref)
    IN /\ id # None <=> DefinitionsOf(d, ref) # {}
       /\ id # None <=> hovered # None
       /\ OnlySpelling(d) =>
            /\ hovered = id
            /\ \A e \in DefinitionsOf(d, ref) : e.symbol.name = ref.target
            /\ id # None => [path |-> d.path, ref |-> ref] \in ReferencesTo(d, id)

\* The resolver classifies a reference alike in the documents that the diagnostics
\* request collects and in those of the other requests, save one case: a target in
\* another document is called ambiguous when that document is collected once for each
\* of its keys.
DiagnosticsAgree ==
  \A d \in OpenDocuments : \A ref \in ToSet(Refs(d)) :
    LET asked == Resolution(QueriedWorkspace(d), d.path, ref) IN
    \/ DiagnosticClass(d, ref) = asked.class
    \/ /\ DiagnosticClass(d, ref) = "ambiguous"
       /\ asked.class = "exact"
       /\ asked.target.path # d.path
===============================================================================
