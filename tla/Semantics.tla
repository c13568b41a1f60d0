------------------------------ MODULE Semantics ------------------------------
(***************************************************************************)
(* The resolver of references (src/internal/semantics/semantics.go): which *)
(* definition, if any, a state or command reference of a document stands   *)
(* for.  A workspace is a family of documents, a function into Document:   *)
(* one document may stand in it twice, and then its symbols count twice.   *)
(***************************************************************************)
EXTENDS Naturals, Sequences, SequencesExt

CONSTANTS
  Text,       \* text[t].symbols and text[t].refs, what the parser finds in a text
  PathOrder,  \* the paths in the order of their spelling, [dirs, name, ext] each
  None        \* no document, no target

Path == ToSet(PathOrder)

Rank(p) == CHOOSE i \in DOMAIN PathOrder : PathOrder[i] = p

Document == [path : Path, text : DOMAIN Text]

ASSUME NoneAssumption == None \notin DOMAIN Text /\ None \notin Document
ASSUME OrderAssumption == PathOrder \in Seq(Range(PathOrder))
ASSUME LinesAssumption ==
  \A t \in DOMAIN Text : \A s \in DOMAIN Text[t].symbols : Text[t].symbols[s].line \in Nat
\* The parser emits one state reference on a line, and numbers the commands of a line.
ASSUME OccurrencesAssumption ==
  \A t \in DOMAIN Text : \A r, q \in ToSet(Text[t].refs) :
    r.kind = q.kind /\ r.line = q.line /\ r.occurrence = q.occurrence => r = q

Symbols(d) == Text[d.text].symbols
Refs(d) == Text[d.text].refs

IsCharacter(p) == "chars" \in ToSet(p.dirs)
IsRuntime(p) == "data" \in ToSet(p.dirs)

\* The path without its "." steps.
Clean(p) == [p EXCEPT !.dirs = SelectSeq(p.dirs, LAMBDA d : d # ".")]

\* Each definition file makes its directory a package.
PackageRoots(docs) ==
  {Clean(d.path).dirs : d \in {e \in Range(docs) : e.path.ext = "def"}}

\* The innermost package around a path, or the path's own directory.
PackageRoot(p, roots) ==
  LET around == {r \in roots : IsPrefix(r, Clean(p).dirs)}
  IN IF around = {} THEN Clean(p).dirs
     ELSE CHOOSE r \in around : \A q \in around : Len(q) <= Len(r)

\* Every definition of the workspace; place tells apart two copies of a document.
Definitions(docs) ==
  UNION {{[path |-> docs[i].path, place |-> <<i, s>>,
           symbol |-> Symbols(docs[i])[s]] : s \in DOMAIN Symbols(docs[i])} :
         i \in DOMAIN docs}

Ahead(a, b) ==
  \/ Rank(a.path) < Rank(b.path)
  \/ Rank(a.path) = Rank(b.path) /\ a.symbol.line < b.symbol.line

Targets(docs, name, source) ==
  LET named == {e \in Definitions(docs) : e.symbol.name = name}
      home(p) == PackageRoot(p, PackageRoots(docs))
      local == {e \in named : home(e.path) = home(source)}
      shared == {e \in named : ~IsCharacter(e.path)}
  IN IF local # {} THEN local
     ELSE IF IsCharacter(source) THEN shared ELSE named

Several(targets) == \E e, f \in targets : e # f

FirstTarget(targets) ==
  CHOOSE e \in targets : \A f \in targets \ {e} : ~Ahead(f, e)

Unresolved(class) == [class |-> class, target |-> None]
Exact(e) == [class |-> "exact", target |-> [path |-> e.path, symbol |-> e.symbol]]

Resolution(docs, source, ref) ==
  LET targets == Targets(docs, ref.target, source)
  IN IF IsRuntime(source) \/ (ref.kind = "state" /\ ref.dynamic)
     THEN Unresolved("dynamic")
     ELSE IF targets = {} THEN Unresolved("invalid")
     ELSE IF ref.kind = "state" /\ Several(targets)
     THEN Unresolved("ambiguous")
     ELSE Exact(FirstTarget(targets))
==============================================================================
