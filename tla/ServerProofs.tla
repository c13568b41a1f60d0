----------------------------- MODULE ServerProofs -----------------------------
(***************************************************************************)
(* The servers of an editor and of an MCP client.  A request of an editor  *)
(* is answered from the newest text of its document, and the requests      *)
(* agree with each other, for any paths and texts.  What the MCP server    *)
(* answers and writes, for any plans, workspaces, files and requests,      *)
(* while other programs write the files.                                   *)
(***************************************************************************)
EXTENDS McpServer, WellFoundedInduction, TLAPS

--------------------------------------------------------------------------------
(* The language server *)

TypeInvariant ==
  /\ docs \in [Key -> Document \cup {None}]
  /\ latest \in [Path -> DOMAIN Text \cup {None}]

\* A document is stored only under keys made from its own path, with the text it was
\* given last; under its URI for as long as it is open, and under its path until another
\* spelling of that is given or closed.
KeysInvariant ==
  /\ \A k \in Key : docs[k] # None => /\ k \in Aliases(docs[k].path)
                                      /\ latest[docs[k].path] = docs[k].text
  /\ \A p \in Path : latest[p] # None =>
       /\ docs[<<"uri", p>>] = [path |-> p, text |-> latest[p]]
       /\ p \notin eclipsed => docs[<<"path", p>>] = [path |-> p, text |-> latest[p]]

DocumentsInvariant == TypeInvariant /\ KeysInvariant

\* Every path has its keys, and a key is its spelling and its path.
LEMMA KeyFacts ==
  /\ \A p \in Path : <<"path", p>> \in Key /\ <<"uri", p>> \in Key /\ <<"escaped", p>> \in Key
  /\ \A k \in Key : PathForURI(k) \in Path /\ k = <<k[1], PathForURI(k)>>
  BY DEF Key, PathForURI

\* No document is stored at first.
LEMMA InitInvariant == DocumentsInit => DocumentsInvariant
  BY KeyFacts, NoneAssumption DEF DocumentsInit, DocumentsInvariant, TypeInvariant, KeysInvariant

\* Storing a document overwrites every key it was stored under.
LEMMA SetInvariant ==
  ASSUME NEW p \in Path, NEW t \in DOMAIN Text, DocumentsInvariant, SetDocument(p, t)
  PROVE  DocumentsInvariant'
<1> USE DEF DocumentsInvariant
<1> DEFINE d == [path |-> p, text |-> t]
<1>1. d \in Document
  BY DEF Document
<1>2. /\ docs' = [k \in Key |-> IF k \in Aliases(p) THEN d ELSE docs[k]]
      /\ latest' = [latest EXCEPT ![p] = t]
      /\ eclipsed' = (eclipsed \cup {Clean(p)}) \ {p}
  BY DEF SetDocument
<1>3. TypeInvariant'
  BY <1>1, <1>2 DEF TypeInvariant
<1>4. ASSUME NEW k \in Key, docs'[k] # None
      PROVE  k \in Aliases(docs'[k].path) /\ latest'[docs'[k].path] = docs'[k].text
  <2>1. CASE k \in Aliases(p)
    BY <1>2, <2>1 DEF TypeInvariant
  <2>2. CASE k \notin Aliases(p)
    <3>1. docs'[k] = docs[k] /\ docs[k] \in Document
      BY <1>2, <1>4, <2>2 DEF TypeInvariant
    <3>2. docs[k].path # p
      BY <1>4, <2>2, <3>1 DEF KeysInvariant
    <3> QED
      BY <1>2, <1>4, <3>1, <3>2 DEF TypeInvariant, KeysInvariant, Document
  <2> QED
    BY <2>1, <2>2
<1>5. ASSUME NEW q \in Path, latest'[q] # None
      PROVE  /\ docs'[<<"uri", q>>] = [path |-> q, text |-> latest'[q]]
             /\ q \notin eclipsed' => docs'[<<"path", q>>] = [path |-> q, text |-> latest'[q]]
  <2>1. CASE q = p
    BY <1>2, <2>1, KeyFacts DEF TypeInvariant, Aliases
  <2>2. CASE q # p
    <3>1. <<"uri", q>> \notin Aliases(p)
      BY <2>2 DEF Aliases
    <3>2. q # Clean(p) => <<"path", q>> \notin Aliases(p)
      BY <2>2 DEF Aliases
    <3>3. latest'[q] = latest[q]
      BY <1>2, <2>2 DEF TypeInvariant
    <3>4. docs'[<<"uri", q>>] = [path |-> q, text |-> latest'[q]]
      BY <1>2, <1>5, <3>1, <3>3, KeyFacts DEF KeysInvariant
    <3>5. ASSUME q \notin eclipsed' PROVE docs'[<<"path", q>>] = [path |-> q, text |-> latest'[q]]
      <4>1. q \notin eclipsed /\ q # Clean(p)
        BY <1>2, <2>2, <3>5
      <4> QED
        BY <1>2, <1>5, <3>2, <3>3, <4>1, KeyFacts DEF KeysInvariant
    <3> QED
      BY <3>4, <3>5
  <2> QED
    BY <2>1, <2>2
<1> QED
  BY <1>3, <1>4, <1>5 DEF KeysInvariant

\* Closing a document removes it from every key it was stored under, and no other
\* document from its own URI.
LEMMA CloseInvariant ==
  ASSUME NEW key \in Key, DocumentsInvariant, DidClose(key)
  PROVE  DocumentsInvariant'
<1> USE DEF DocumentsInvariant
<1> DEFINE p == PathForURI(key)
<1>1. p \in Path /\ key = <<key[1], p>>
  BY KeyFacts
<1>2. /\ docs' = [k \in Key |-> IF k \in Aliases(p) \cup {key} THEN None ELSE docs[k]]
      /\ latest' = [latest EXCEPT ![p] = None]
      /\ eclipsed' = (eclipsed \cup {Clean(p)}) \ {p}
  BY DEF DidClose
<1> HIDE DEF p
<1>3. TypeInvariant'
  BY <1>1, <1>2 DEF TypeInvariant
<1>4. ASSUME NEW k \in Key, docs'[k] # None
      PROVE  k \in Aliases(docs'[k].path) /\ latest'[docs'[k].path] = docs'[k].text
  <2>1. docs'[k] = docs[k] /\ docs[k] \in Document /\ k \notin Aliases(p)
    BY <1>2, <1>4 DEF TypeInvariant
  <2>2. docs[k].path # p
    BY <1>4, <2>1 DEF KeysInvariant
  <2> QED
    BY <1>1, <1>2, <1>4, <2>1, <2>2 DEF TypeInvariant, KeysInvariant, Document
<1>5. ASSUME NEW q \in Path, latest'[q] # None
      PROVE  /\ docs'[<<"uri", q>>] = [path |-> q, text |-> latest'[q]]
             /\ q \notin eclipsed' => docs'[<<"path", q>>] = [path |-> q, text |-> latest'[q]]
  <2>1. q # p
    BY <1>1, <1>2, <1>5 DEF TypeInvariant
  <2>2. <<"uri", q>> \notin Aliases(p) \cup {key}
    BY <1>1, <2>1 DEF Aliases
  <2>3. q # Clean(p) => <<"path", q>> \notin Aliases(p) \cup {key}
    BY <1>1, <2>1 DEF Aliases
  <2>4. latest'[q] = latest[q]
    BY <1>2, <2>1 DEF TypeInvariant
  <2>5. docs'[<<"uri", q>>] = [path |-> q, text |-> latest'[q]]
    BY <1>2, <1>5, <2>2, <2>4, KeyFacts DEF KeysInvariant
  <2>6. ASSUME q \notin eclipsed' PROVE docs'[<<"path", q>>] = [path |-> q, text |-> latest'[q]]
    <3>1. q \notin eclipsed /\ q # Clean(p)
      BY <1>2, <2>1, <2>6
    <3> QED
      BY <1>2, <1>5, <2>3, <2>4, <3>1, KeyFacts DEF KeysInvariant
  <2> QED
    BY <2>5, <2>6
<1> QED
  BY <1>3, <1>4, <1>5 DEF KeysInvariant

\* The answer to a request comes from a stored document or from an empty one.
LEMMA AnswersAreOpen == DocumentsInvariant => AnswersOpenText
<1> SUFFICES ASSUME DocumentsInvariant PROVE AnswersOpenText
  OBVIOUS
<1> USE DEF DocumentsInvariant
<1>1. ASSUME NEW p \in Path, latest[p] # None
      PROVE  LET newest == [path |-> p, text |-> latest[p]] IN
             /\ DocumentAt(<<"uri", p>>) = newest
             /\ p \notin eclipsed =>
                  DocumentAt(<<"path", p>>) = newest /\ DocumentAt(<<"escaped", p>>) = newest
  <2> DEFINE newest == [path |-> p, text |-> latest[p]]
  <2>1. docs[<<"uri", p>>] = newest /\ (p \notin eclipsed => docs[<<"path", p>>] = newest)
    BY <1>1 DEF KeysInvariant
  <2>2. newest # None
    BY <1>1, NoneAssumption DEF TypeInvariant, Document
  <2>3. docs[<<"escaped", p>>] = None
    <3>1. <<"escaped", p>> \in Key /\ \A q : <<"escaped", p>> \notin Aliases(q)
      BY KeyFacts DEF Aliases
    <3> QED
      BY <3>1 DEF KeysInvariant
  <2>4. PathForURI(<<"escaped", p>>) = p
    BY DEF PathForURI
  <2> HIDE DEF newest
  <2>5. DocumentAt(<<"uri", p>>) = newest
    BY <2>1, <2>2 DEF DocumentAt
  <2>6. p \notin eclipsed => DocumentAt(<<"path", p>>) = newest
    BY <2>1, <2>2 DEF DocumentAt
  <2>7. p \notin eclipsed => DocumentAt(<<"escaped", p>>) = newest
    BY <2>1, <2>2, <2>3, <2>4 DEF DocumentAt
  <2> QED
    BY <2>5, <2>6, <2>7 DEF newest
<1>2. ASSUME NEW k \in Key, DocumentAt(k).text # Empty
      PROVE  /\ latest[DocumentAt(k).path] = DocumentAt(k).text
             /\ PathForURI(k) \in {DocumentAt(k).path, Clean(DocumentAt(k).path)}
  <2> DEFINE bare == <<"path", PathForURI(k)>>
  <2>1. bare \in Key /\ PathForURI(bare) = PathForURI(k)
    BY KeyFacts DEF PathForURI
  <2>2. PICK j \in {k, bare} : docs[j] # None /\ DocumentAt(k) = docs[j]
    BY <1>2 DEF DocumentAt
  <2>3. j \in Aliases(docs[j].path) /\ latest[docs[j].path] = docs[j].text
    BY <2>1, <2>2 DEF KeysInvariant
  <2>4. PathForURI(j) \in {docs[j].path, Clean(docs[j].path)}
    BY <2>3 DEF Aliases, PathForURI
  <2> QED
    BY <2>1, <2>2, <2>3, <2>4
<1> QED
  BY <1>1, <1>2 DEF AnswersOpenText

\* The invariant of the stored documents holds in every state.
THEOREM DocumentsInvariance == DocumentsSpec => []DocumentsInvariant
<1>1. DocumentsInvariant /\ [DocumentsNext]_dvars => DocumentsInvariant'
  <2> SUFFICES ASSUME DocumentsInvariant, [DocumentsNext]_dvars PROVE DocumentsInvariant'
    OBVIOUS
  <2>1. CASE UNCHANGED dvars
    BY <2>1 DEF dvars, DocumentsInvariant, TypeInvariant, KeysInvariant
  <2>2. CASE DocumentsNext
    <3>1. ASSUME NEW key \in Key, NEW t \in DOMAIN Text, DidOpen(key, t) \/ Request(key, t)
          PROVE  DocumentsInvariant'
      <4>1. CASE SetDocument(PathForURI(key), t)
        BY <4>1, SetInvariant, KeyFacts
      <4>2. CASE UNCHANGED dvars
        BY <2>1, <4>2
      <4> QED
        BY <3>1, <4>1, <4>2 DEF DidOpen, Request
    <3> QED
      BY <2>2, <3>1, CloseInvariant DEF DocumentsNext
  <2> QED
    BY <2>1, <2>2
<1> QED
  BY InitInvariant, <1>1, PTL DEF DocumentsSpec

\* Whatever documents are opened, changed and closed, under whichever spelling: an open
\* document asked by its own URI is answered from its newest text, by its path or an
\* escaped URI too unless another spelling of it came between, and no answer comes from
\* a closed text or another file (SetDocument, RemoveDocument).
THEOREM OpenTextAnswers == DocumentsSpec => []AnswersOpenText
  BY DocumentsInvariance, AnswersAreOpen, PTL
-------------------------------------------------------------------------------
(* References *)

\* The least of some numbers.
LEMMA SmallestOf ==
  ASSUME NEW S \in SUBSET Nat, S # {}
  PROVE  \E n \in S : \A m \in S : n <= m
<1> DEFINE R == {p \in Nat \X Nat : p[1] < p[2]}
<1>1. IsWellFoundedOn(R, Nat)
  BY NatLessThanWellFounded DEF OpToRel
<1>2. PICK n \in S : \A m \in S : <<m, n>> \notin R
  <2> HIDE DEF R
  <2> QED
    BY <1>1, WFMin
<1>3. ASSUME NEW m \in S PROVE n <= m
  <2>1. n \in Nat /\ m \in Nat /\ ~(m < n)
    BY <1>2
  <2> QED
    BY <2>1
<1> QED
  BY <1>3

\* Every path has a rank.
LEMMA RankType ==
  ASSUME NEW p \in Path
  PROVE  Rank(p) \in Nat /\ Rank(p) <= Len(PathOrder)
  BY OrderAssumption DEF OrderAssumption, Path, ToSet, Rank

\* The greatest of some ranks.
LEMMA LargestOf ==
  ASSUME NEW S \in SUBSET Nat, S # {}, NEW bound \in Nat, \A n \in S : n <= bound
  PROVE  \E n \in S : \A m \in S : n >= m
<1> DEFINE D == {bound - n : n \in S}
<1>1. D \in SUBSET Nat /\ D # {}
  <2>1. \A n \in S : bound - n \in Nat
    OBVIOUS
  <2>2. \A d \in D : d \in Nat
    BY <2>1
  <2> QED
    BY <2>2
<1>2. PICK d \in D : \A e \in D : d <= e
  <2> HIDE DEF D
  <2> QED
    BY <1>1, SmallestOf
<1>3. PICK n \in S : d = bound - n
  BY <1>2
<1>4. ASSUME NEW m \in S PROVE n >= m
  <2>1. bound - n <= bound - m
    BY <1>2, <1>3
  <2>2. n \in Nat /\ m \in Nat
    OBVIOUS
  <2> QED
    BY <2>1, <2>2
<1> QED
  BY <1>4

\* A workspace: what is collected are documents.
Typed(ws) == \A i \in DOMAIN ws : ws[i] \in Document

\* What a definition is: a symbol of a document of the workspace.
LEMMA DefinitionFacts ==
  ASSUME NEW ws, Typed(ws), NEW e \in Definitions(ws)
  PROVE  /\ \E i \in DOMAIN ws : \E s \in DOMAIN Symbols(ws[i]) :
              e = [path |-> ws[i].path, place |-> <<i, s>>, symbol |-> Symbols(ws[i])[s]]
         /\ e.path \in Path /\ e.symbol.line \in Nat
         /\ None # SymbolID(e.path, e.symbol) /\ None # [path |-> e.path, symbol |-> e.symbol]
<1>1. PICK i \in DOMAIN ws : \E s \in DOMAIN Symbols(ws[i]) :
        e = [path |-> ws[i].path, place |-> <<i, s>>, symbol |-> Symbols(ws[i])[s]]
  BY DEF Definitions
<1>2. PICK s \in DOMAIN Symbols(ws[i]) :
        e = [path |-> ws[i].path, place |-> <<i, s>>, symbol |-> Symbols(ws[i])[s]]
  BY <1>1
<1>3. ws[i].path \in Path /\ ws[i].text \in DOMAIN Text
  BY DEF Typed, Document
<1>4. e.path = ws[i].path /\ e.symbol = Text[ws[i].text].symbols[s] /\ s \in DOMAIN Text[ws[i].text].symbols
  BY <1>2 DEF Symbols
<1>5. e.symbol.line \in Nat
  BY <1>3, <1>4, LinesAssumption DEF LinesAssumption
<1>6. None # SymbolID(e.path, e.symbol) /\ None # [path |-> e.path, symbol |-> e.symbol]
  BY <1>3, <1>4, IDAssumption DEF IDAssumption
<1> QED
  BY <1>2, <1>3, <1>4, <1>5, <1>6

\* Of some targets one is the first.
LEMMA FirstIsTarget ==
  ASSUME NEW T, T # {}, \A e \in T : e.path \in Path /\ e.symbol.line \in Nat
  PROVE  FirstTarget(T) \in T
<1> DEFINE ranks == {Rank(e.path) : e \in T}
<1>1. ranks \in SUBSET Nat /\ ranks # {}
  BY RankType
<1>2. PICK n \in ranks : \A m \in ranks : n <= m
  <2> HIDE DEF ranks
  <2> QED
    BY <1>1, SmallestOf
<1> DEFINE lines == {e.symbol.line : e \in {f \in T : Rank(f.path) = n}}
<1>3. lines \in SUBSET Nat /\ lines # {}
  BY <1>2
<1>4. PICK l \in lines : \A m \in lines : l <= m
  <2> HIDE DEF lines
  <2> QED
    BY <1>3, SmallestOf
<1>5. PICK e \in T : Rank(e.path) = n /\ e.symbol.line = l
  BY <1>4
<1>6. ASSUME NEW f \in T PROVE ~Ahead(f, e)
  <2>1. n <= Rank(f.path) /\ n \in Nat /\ Rank(f.path) \in Nat
    BY <1>1, <1>2
  <2>2. Rank(f.path) = n => l <= f.symbol.line
    BY <1>4
  <2>3. l \in Nat /\ f.symbol.line \in Nat
    BY <1>3, <1>4
  <2> HIDE DEF ranks, lines
  <2>4. ~(Rank(f.path) < Rank(e.path))
    BY <1>5, <2>1
  <2>5. Rank(f.path) = Rank(e.path) => ~(f.symbol.line < e.symbol.line)
    BY <1>5, <2>2, <2>3
  <2> QED
    BY <2>4, <2>5 DEF Ahead
<1>7. \E x \in T : \A f \in T \ {x} : ~Ahead(f, x)
  BY <1>5, <1>6
<1> QED
  BY <1>7 DEF FirstTarget

\* Which definitions a reference may stand for, said of their path and symbol alone.
Home(ws, p) == PackageRoot(p, PackageRoots(ws))

HasLocal(ws, name, source) ==
  \E e \in Definitions(ws) : e.symbol.name = name /\ Home(ws, e.path) = Home(ws, source)

Admits(ws, name, source, p, symbol) ==
  /\ symbol.name = name
  /\ HasLocal(ws, name, source) => Home(ws, p) = Home(ws, source)
  /\ ~HasLocal(ws, name, source) /\ IsCharacter(source) => ~IsCharacter(p)

LEMMA TargetsAre ==
  ASSUME NEW ws, NEW name, NEW source
  PROVE  Targets(ws, name, source)
           = {e \in Definitions(ws) : Admits(ws, name, source, e.path, e.symbol)}
  BY DEF Targets, Admits, HasLocal, Home

\* A reference that resolves stands for one of its targets.
LEMMA ResolvedFacts ==
  ASSUME NEW ws, Typed(ws), NEW source, NEW ref, Resolution(ws, source, ref).target # None
  PROVE  \E e \in Targets(ws, ref.target, source) :
           /\ Resolution(ws, source, ref) = Exact(e)
           /\ e \in Definitions(ws) /\ Admits(ws, ref.target, source, e.path, e.symbol)
<1> DEFINE T == Targets(ws, ref.target, source)
<1>1. T # {} /\ Resolution(ws, source, ref) = Exact(FirstTarget(T))
  BY DEF Resolution, Unresolved
<1>2. \A e \in T : e \in Definitions(ws) /\ Admits(ws, ref.target, source, e.path, e.symbol)
  BY TargetsAre
<1> HIDE DEF T
<1>3. FirstTarget(T) \in T
  <2>1. \A e \in T : e.path \in Path /\ e.symbol.line \in Nat
    BY <1>2, DefinitionFacts
  <2> QED
    BY <1>1, <2>1, FirstIsTarget
<1> QED
  BY <1>1, <1>2, <1>3 DEF T

\* The open documents are documents, and so is all that is collected for a request.
\* Both collections hold the same documents; the queried one has each once.
LEMMA Collected ==
  ASSUME DocumentsInvariant, NEW d \in OpenDocuments
  PROVE  /\ d \in Document
         /\ Typed(QueriedWorkspace(d)) /\ Typed(DiagnosedWorkspace(d))
         /\ DOMAIN DiagnosedWorkspace(d) = Others(d) \cup {None} /\ None \notin Others(d)
         /\ d.path \in DOMAIN QueriedWorkspace(d) /\ QueriedWorkspace(d)[d.path] = d
         /\ DiagnosedWorkspace(d)[None] = d
         /\ \A k \in Others(d) : /\ DiagnosedWorkspace(d)[k] = docs[k] /\ docs[k].path # d.path
                                 /\ docs[k].path \in DOMAIN QueriedWorkspace(d)
                                 /\ QueriedWorkspace(d)[docs[k].path] = docs[k]
         /\ \A p \in DOMAIN QueriedWorkspace(d) :
              /\ QueriedWorkspace(d)[p].path = p
              /\ p # d.path => \E k \in Others(d) : QueriedWorkspace(d)[p] = docs[k]
<1> DEFINE Q == QueriedWorkspace(d)
<1>1. d \in Document
  BY DEF OpenDocuments, Document, DocumentsInvariant, TypeInvariant
<1>2. \A k \in Others(d) : /\ k \in Key /\ docs[k] \in Document /\ docs[k].path # d.path
                           /\ latest[docs[k].path] = docs[k].text
  BY DEF Others, DocumentsInvariant, TypeInvariant, KeysInvariant
<1>3. ASSUME NEW j \in Others(d), NEW k \in Others(d), docs[j].path = docs[k].path
      PROVE  docs[j] = docs[k]
  BY <1>2, <1>3 DEF Document
<1>4. None \notin Others(d)
  BY <1>2, IDAssumption DEF IDAssumption
<1>5. /\ DOMAIN Q = {d.path} \cup {docs[k].path : k \in Others(d)}
      /\ Q[d.path] = d
  BY DEF QueriedWorkspace
<1>6. ASSUME NEW k \in Others(d)
      PROVE  docs[k].path \in DOMAIN Q /\ Q[docs[k].path] = docs[k]
  <2> DEFINE p == docs[k].path
             j == CHOOSE i \in Others(d) : docs[i].path = p
  <2>1. j \in Others(d) /\ docs[j].path = p
    OBVIOUS
  <2>2. p \in DOMAIN Q /\ p # d.path
    BY <1>2, <1>5
  <2>3. Q[p] = docs[j]
    BY <2>2 DEF QueriedWorkspace
  <2> HIDE DEF j
  <2> QED
    BY <1>3, <2>1, <2>2, <2>3
<1> HIDE DEF Q
<1>7. ASSUME NEW p \in DOMAIN Q
      PROVE  /\ Q[p].path = p /\ Q[p] \in Document
             /\ p # d.path => \E k \in Others(d) : Q[p] = docs[k]
  BY <1>1, <1>2, <1>5, <1>6
<1>8. /\ DOMAIN DiagnosedWorkspace(d) = Others(d) \cup {None}
      /\ DiagnosedWorkspace(d)[None] = d
      /\ \A k \in Others(d) : DiagnosedWorkspace(d)[k] = docs[k]
  BY <1>4 DEF DiagnosedWorkspace
<1>9. Typed(DiagnosedWorkspace(d))
  BY <1>1, <1>2, <1>8 DEF Typed
<1>10. Typed(Q)
  BY <1>7 DEF Typed
<1> QED
  BY <1>1, <1>2, <1>4, <1>5, <1>6, <1>7, <1>8, <1>9, <1>10 DEF Q

\* What a reference of the workspace resolves to is a definition of the name it uses.
LEMMA ResolvedIDFacts ==
  ASSUME NEW ws, Typed(ws), NEW x, ResolvedID(ws, x) # None
  PROVE  \E e \in Definitions(ws) : /\ ResolvedID(ws, x) = SymbolID(e.path, e.symbol)
                                    /\ e.symbol.name = x.ref.target
<1>1. Resolution(ws, x.path, x.ref).target # None
  BY DEF ResolvedID
<1>2. PICK e \in Definitions(ws) : /\ Resolution(ws, x.path, x.ref) = Exact(e)
                                   /\ Admits(ws, x.ref.target, x.path, e.path, e.symbol)
  BY <1>1, ResolvedFacts
<1>3. Resolution(ws, x.path, x.ref).target = [path |-> e.path, symbol |-> e.symbol]
  BY <1>2 DEF Exact
<1> QED
  BY <1>1, <1>2, <1>3 DEF ResolvedID, Admits

\* The references that carry the id of the one asked about stand in documents.
LEMMA NamesakesFacts ==
  ASSUME NEW ws, Typed(ws), NEW p, NEW ref, NEW x \in Namesakes(ws, p, ref)
  PROVE  /\ x \in AllReferences(ws) /\ x.path \in Path /\ ResolvedID(ws, x) # None
         /\ IDOf(x.path, x.ref) = IDOf(p, ref)
         /\ \E i \in DOMAIN ws : ws[i].path = x.path /\ x.ref \in ToSet(Refs(ws[i]))
<1>1. x \in AllReferences(ws) /\ ResolvedID(ws, x) # None
      /\ IDOf(x.path, x.ref) = IDOf(p, ref)
  BY DEF Namesakes
<1>2. PICK i \in DOMAIN ws : x \in {[path |-> ws[i].path, ref |-> q] : q \in ToSet(Refs(ws[i]))}
  BY <1>1 DEF AllReferences
<1>3. ws[i].path = x.path /\ x.ref \in ToSet(Refs(ws[i]))
  BY <1>2
<1>4. x.path \in Path
  BY <1>2, <1>3 DEF Typed, Document
<1> QED
  BY <1>1, <1>3, <1>4

\* Of some references there is a first and a last by path.
LEMMA FirstAndLast ==
  ASSUME NEW found, found # {}, \A x \in found : x.path \in Path
  PROVE  /\ \E x \in found : \A y \in found : Rank(x.path) <= Rank(y.path)
         /\ \E x \in found : \A y \in found : Rank(x.path) >= Rank(y.path)
<1> DEFINE ranks == {Rank(x.path) : x \in found}
<1>1. ranks \in SUBSET Nat /\ ranks # {} /\ \A n \in ranks : n <= Len(PathOrder)
  BY RankType
<1>2. Len(PathOrder) \in Nat
  BY OrderAssumption DEF OrderAssumption
<1>3. PICK n \in ranks : \A m \in ranks : n <= m
  <2> HIDE DEF ranks
  <2> QED
    BY <1>1, SmallestOf
<1>4. PICK l \in ranks : \A m \in ranks : l >= m
  <2> HIDE DEF ranks
  <2> QED
    BY <1>1, <1>2, LargestOf
<1> QED
  BY <1>3, <1>4

\* Definition and hover answer from one of them, or find nothing.
LEMMA AnsweredFrom ==
  ASSUME NEW ws, Typed(ws), NEW p, NEW ref
  PROVE  \/ /\ Namesakes(ws, p, ref) = {}
            /\ TargetID(ws, p, ref) = None /\ HoveredID(ws, p, ref) = None
         \/ /\ \E x \in Namesakes(ws, p, ref) : TargetID(ws, p, ref) = ResolvedID(ws, x)
            /\ \E x \in Namesakes(ws, p, ref) : HoveredID(ws, p, ref) = ResolvedID(ws, x)
<1> DEFINE found == Namesakes(ws, p, ref)
<1>1. CASE found = {}
  BY <1>1 DEF TargetID, HoveredID
<1>2. CASE found # {}
  <2> DEFINE first == CHOOSE x \in found : \A y \in found : Rank(x.path) <= Rank(y.path)
             last == CHOOSE x \in found : \A y \in found : Rank(x.path) >= Rank(y.path)
  <2>1. TargetID(ws, p, ref) = ResolvedID(ws, first) /\ HoveredID(ws, p, ref) = ResolvedID(ws, last)
    BY <1>2 DEF TargetID, HoveredID
  <2>2. \A x \in found : x.path \in Path
    BY NamesakesFacts
  <2> HIDE DEF found
  <2>3. first \in found /\ last \in found
    BY <1>2, <2>2, FirstAndLast
  <2> HIDE DEF first, last
  <2> QED
    BY <2>1, <2>3 DEF found
<1> QED
  BY <1>1, <1>2

\* With one spelling of its file open, a reference has its id for itself.
LEMMA OwnNamesake ==
  ASSUME DocumentsInvariant, NEW d \in OpenDocuments, NEW ref \in ToSet(Refs(d)), OnlySpelling(d),
         NEW x \in Namesakes(QueriedWorkspace(d), d.path, ref)
  PROVE  x.path = d.path /\ x.ref = ref
<1> DEFINE ws == QueriedWorkspace(d)
<1>0. Typed(ws) /\ d \in Document
  BY Collected
<1>1. /\ IDOf(x.path, x.ref) = IDOf(d.path, ref)
      /\ \E i \in DOMAIN ws : ws[i].path = x.path /\ x.ref \in ToSet(Refs(ws[i]))
  BY <1>0, NamesakesFacts
<1>2. PICK i \in DOMAIN ws : ws[i].path = x.path /\ x.ref \in ToSet(Refs(ws[i]))
  BY <1>1
<1>3. ws[i] = d \/ \E k \in Others(d) : ws[i] = docs[k]
  <2>1. /\ ws[d.path] = d
        /\ \A q \in DOMAIN ws :
             /\ ws[q].path = q
             /\ q # d.path => \E k \in Others(d) : ws[q] = docs[k]
    BY Collected
  <2> HIDE DEF ws
  <2> QED
    BY <1>2, <2>1
<1>4. ws[i] \in OpenDocuments
  <2>1. ASSUME NEW k \in Others(d) PROVE docs[k] \in OpenDocuments
    <3>1. docs[k] \in Document /\ latest[docs[k].path] = docs[k].text
      BY DEF Others, DocumentsInvariant, TypeInvariant, KeysInvariant
    <3>2. latest[docs[k].path] # None
      BY <3>1, NoneAssumption DEF Document
    <3> QED
      BY <3>1, <3>2 DEF OpenDocuments, Document
  <2> QED
    BY <1>3, <2>1
<1>5. Clean(x.path) = Clean(d.path) /\ x.ref.kind = ref.kind /\ x.ref.line = ref.line
      /\ x.ref.occurrence = ref.occurrence
  BY <1>1 DEF IDOf
<1>6. ws[i] = d
  BY <1>2, <1>4, <1>5 DEF OnlySpelling
<1> HIDE DEF ws
<1>7. d.text \in DOMAIN Text /\ x.ref \in ToSet(Text[d.text].refs) /\ ref \in ToSet(Text[d.text].refs)
  BY <1>0, <1>2, <1>6 DEF Refs, Document
<1>8. x.ref = ref
  BY <1>5, <1>7, OccurrencesAssumption DEF OccurrencesAssumption
<1> QED
  BY <1>2, <1>6, <1>8

\* Hover, definition and references agree on what a reference stands for.
LEMMA QueriesConsistent == DocumentsInvariant => QueriesAgree
<1> SUFFICES ASSUME DocumentsInvariant, NEW d \in OpenDocuments, NEW ref \in ToSet(Refs(d))
             PROVE  LET id == TargetID(QueriedWorkspace(d), d.path, ref)
                        hovered == HoveredID(QueriedWorkspace(d), d.path, ref)
                    IN /\ id # None <=> DefinitionsOf(d, ref) # {}
                       /\ id # None <=> hovered # None
                       /\ OnlySpelling(d) =>
                            /\ hovered = id
                            /\ \A e \in DefinitionsOf(d, ref) : e.symbol.name = ref.target
                            /\ id # None => [path |-> d.path, ref |-> ref] \in ReferencesTo(d, id)
  BY DEF QueriesAgree
<1> DEFINE ws == QueriedWorkspace(d)
           id == TargetID(ws, d.path, ref)
           hovered == HoveredID(ws, d.path, ref)
           found == Namesakes(ws, d.path, ref)
           own == [path |-> d.path, ref |-> ref]
<1>1. Typed(ws) /\ d.path \in DOMAIN ws /\ ws[d.path] = d
  BY Collected
<1>2. DefinitionsOf(d, ref) = {e \in Definitions(ws) : SymbolID(e.path, e.symbol) = id}
  BY DEF DefinitionsOf
<1>3. \/ found = {} /\ id = None /\ hovered = None
      \/ /\ \E x \in found : id = ResolvedID(ws, x)
         /\ \E x \in found : hovered = ResolvedID(ws, x)
  BY <1>1, AnsweredFrom
<1>4. \A x \in found : ResolvedID(ws, x) # None
  BY <1>1, NamesakesFacts
<1>5. \A x \in found : \E e \in Definitions(ws) : /\ ResolvedID(ws, x) = SymbolID(e.path, e.symbol)
                                                 /\ e.symbol.name = x.ref.target
  BY <1>1, <1>4, ResolvedIDFacts
<1>6. \A e \in Definitions(ws) : SymbolID(e.path, e.symbol) # None
  BY <1>1, DefinitionFacts
<1>7. OnlySpelling(d) => \A x \in found : x.path = d.path /\ x.ref = ref
  BY OwnNamesake
<1>8. \A x \in found : x \in AllReferences(ws)
  BY <1>1, NamesakesFacts
<1>9. \A e \in AllReferences(ws) :
        ResolvedID(ws, e) # None /\ ResolvedID(ws, e) = id => e \in ReferencesTo(d, id)
  <2> HIDE DEF id
  <2> QED
    BY DEF ReferencesTo
<1>10. \A x \in found : x = [path |-> x.path, ref |-> x.ref]
  BY DEF Namesakes, AllReferences
<1> HIDE DEF ws, id, hovered, found
<1>11. id # None <=> DefinitionsOf(d, ref) # {}
  BY <1>2, <1>3, <1>4, <1>5, <1>6
<1>12. id # None <=> hovered # None
  BY <1>3, <1>4
<1>13. ASSUME OnlySpelling(d)
       PROVE  /\ hovered = id
              /\ \A e \in DefinitionsOf(d, ref) : e.symbol.name = ref.target
              /\ id # None => own \in ReferencesTo(d, id)
  <2>1. \A x \in found : x = own
    BY <1>7, <1>10, <1>13
  <2>2. hovered = id
    BY <1>3, <2>1
  <2>3. ASSUME NEW e \in DefinitionsOf(d, ref) PROVE e.symbol.name = ref.target
    <3>1. SymbolID(e.path, e.symbol) = id /\ id # None
      BY <1>2, <1>6, <2>3
    <3>2. PICK x \in found : id = ResolvedID(ws, x)
      BY <1>3, <3>1
    <3>3. PICK f \in Definitions(ws) : /\ id = SymbolID(f.path, f.symbol)
                                       /\ f.symbol.name = ref.target
      BY <1>5, <1>7, <1>13, <3>2
    <3> QED
      BY <3>1, <3>3 DEF SymbolID
  <2>4. ASSUME id # None PROVE own \in ReferencesTo(d, id)
    <3>1. PICK x \in found : id = ResolvedID(ws, x)
      BY <1>3, <2>4
    <3>2. own \in AllReferences(ws) /\ ResolvedID(ws, own) = id
      BY <1>8, <2>1, <3>1
    <3> QED
      BY <1>9, <2>4, <3>2
  <2> QED
    BY <2>2, <2>3, <2>4
<1> QED
  BY <1>11, <1>12, <1>13 DEF ws, id, hovered

\* For any texts and paths: hover, definition and references find something for the same
\* references; for a file open under one spelling what they find has the name that was
\* asked for, and its references lead back.
THEOREM QueriesAreConsistent == DocumentsSpec => []QueriesAgree
  BY DocumentsInvariance, QueriesConsistent, PTL

\* A workspace that holds all documents of another holds all its definitions.
LEMMA SameDefinitions ==
  ASSUME NEW ws, NEW other, \A i \in DOMAIN ws : \E j \in DOMAIN other : ws[i] = other[j]
  PROVE  \A e \in Definitions(ws) :
           \E f \in Definitions(other) : f.path = e.path /\ f.symbol = e.symbol
<1> SUFFICES ASSUME NEW e \in Definitions(ws)
             PROVE  \E f \in Definitions(other) : f.path = e.path /\ f.symbol = e.symbol
  OBVIOUS
<1>1. PICK i \in DOMAIN ws : \E s \in DOMAIN Symbols(ws[i]) :
        e = [path |-> ws[i].path, place |-> <<i, s>>, symbol |-> Symbols(ws[i])[s]]
  BY DEF Definitions
<1>2. PICK s \in DOMAIN Symbols(ws[i]) :
        e = [path |-> ws[i].path, place |-> <<i, s>>, symbol |-> Symbols(ws[i])[s]]
  BY <1>1
<1>3. PICK j \in DOMAIN other : ws[i] = other[j]
  OBVIOUS
<1> DEFINE f == [path |-> other[j].path, place |-> <<j, s>>, symbol |-> Symbols(other[j])[s]]
<1>4. f \in Definitions(other)
  <2>1. s \in DOMAIN Symbols(other[j])
    BY <1>2, <1>3
  <2> QED
    BY <2>1 DEF Definitions
<1>5. f.path = e.path /\ f.symbol = e.symbol
  BY <1>2, <1>3
<1> HIDE DEF f
<1> QED
  BY <1>4, <1>5

\* The two collections put the same definitions in scope of a name.
LEMMA SameScope ==
  ASSUME DocumentsInvariant, NEW d \in OpenDocuments, NEW name
  PROVE  \A p, symbol : Admits(QueriedWorkspace(d), name, d.path, p, symbol)
                          <=> Admits(DiagnosedWorkspace(d), name, d.path, p, symbol)
<1> DEFINE Q == QueriedWorkspace(d)
           D == DiagnosedWorkspace(d)
<1>1. /\ DOMAIN D = Others(d) \cup {None} /\ d.path \in DOMAIN Q /\ Q[d.path] = d /\ D[None] = d
      /\ \A k \in Others(d) : /\ D[k] = docs[k] /\ docs[k].path # d.path
                              /\ docs[k].path \in DOMAIN Q /\ Q[docs[k].path] = docs[k]
      /\ \A p \in DOMAIN Q : Q[p].path = p /\ (p # d.path => \E k \in Others(d) : Q[p] = docs[k])
  BY Collected
<1> HIDE DEF Q, D
<1>2. \A p \in DOMAIN Q : \E k \in DOMAIN D : Q[p] = D[k]
  BY <1>1
<1>3. \A k \in DOMAIN D : \E p \in DOMAIN Q : Q[p] = D[k]
  BY <1>1
<1>4. Range(Q) = Range(D)
  BY <1>2, <1>3 DEF Range
<1>5. PackageRoots(Q) = PackageRoots(D)
  BY <1>4 DEF PackageRoots
<1>6. \A p : Home(Q, p) = Home(D, p)
  BY <1>5 DEF Home
<1>7. \A e \in Definitions(Q) : \E f \in Definitions(D) : f.path = e.path /\ f.symbol = e.symbol
  BY <1>2, SameDefinitions
<1>8. \A e \in Definitions(D) : \E f \in Definitions(Q) : f.path = e.path /\ f.symbol = e.symbol
  BY <1>3, SameDefinitions
<1>9. HasLocal(Q, name, d.path) <=> HasLocal(D, name, d.path)
  BY <1>6, <1>7, <1>8 DEF HasLocal
<1> QED
  BY <1>6, <1>9 DEF Admits, Q, D

\* A definition of the queried documents stands among the diagnosed ones, under None if it
\* is the document's own; distinct ones stand there apart.
LEMMA CopyOf ==
  ASSUME DocumentsInvariant, NEW d \in OpenDocuments
  PROVE  /\ \A e, f \in Definitions(QueriedWorkspace(d)) : e # f =>
              \E x, y \in Definitions(DiagnosedWorkspace(d)) :
                /\ x # y /\ x.path = e.path /\ x.symbol = e.symbol
                /\ y.path = f.path /\ y.symbol = f.symbol
         /\ \A x, y \in Definitions(DiagnosedWorkspace(d)) : x # y =>
              \E e, f \in Definitions(QueriedWorkspace(d)) :
                /\ x.path = e.path /\ x.symbol = e.symbol /\ y.path = f.path /\ y.symbol = f.symbol
                /\ e = f => e.path # d.path
         /\ \A e \in Definitions(QueriedWorkspace(d)) :
              \E x \in Definitions(DiagnosedWorkspace(d)) : x.path = e.path /\ x.symbol = e.symbol
         /\ \A x \in Definitions(DiagnosedWorkspace(d)) :
              \E e \in Definitions(QueriedWorkspace(d)) : x.path = e.path /\ x.symbol = e.symbol
<1> DEFINE Q == QueriedWorkspace(d)
           D == DiagnosedWorkspace(d)
           At(ws, i, s) == [path |-> ws[i].path, place |-> <<i, s>>, symbol |-> Symbols(ws[i])[s]]
<1>1. /\ Typed(Q) /\ Typed(D)
      /\ DOMAIN D = Others(d) \cup {None} /\ d.path \in DOMAIN Q /\ Q[d.path] = d /\ D[None] = d
      /\ \A k \in Others(d) : /\ D[k] = docs[k] /\ docs[k].path # d.path
                              /\ docs[k].path \in DOMAIN Q /\ Q[docs[k].path] = docs[k]
      /\ \A p \in DOMAIN Q : Q[p].path = p /\ (p # d.path => \E k \in Others(d) : Q[p] = docs[k])
  BY Collected
<1> HIDE DEF Q, D
<1>2. \A ws, i, s : i \in DOMAIN ws /\ s \in DOMAIN Symbols(ws[i]) => At(ws, i, s) \in Definitions(ws)
  BY DEF Definitions
<1>3. \A p \in DOMAIN Q : \E k \in DOMAIN D : D[k] = Q[p]
  BY <1>1
<1>4. \A k \in DOMAIN D : D[k].path \in DOMAIN Q /\ Q[D[k].path] = D[k] /\ (D[k].path = d.path => k = None)
  BY <1>1
<1>5. ASSUME NEW e \in Definitions(Q)
      PROVE  \E k \in DOMAIN D : \E s \in DOMAIN Symbols(D[k]) :
               /\ e = [path |-> D[k].path, place |-> <<D[k].path, s>>, symbol |-> Symbols(D[k])[s]]
               /\ At(D, k, s) \in Definitions(D)
  <2>1. PICK p \in DOMAIN Q : \E s \in DOMAIN Symbols(Q[p]) : e = At(Q, p, s)
    BY <1>1, DefinitionFacts
  <2>2. PICK k \in DOMAIN D : D[k] = Q[p]
    BY <1>3
  <2>3. PICK s \in DOMAIN Symbols(Q[p]) : e = At(Q, p, s)
    BY <2>1
  <2>4. s \in DOMAIN Symbols(D[k]) /\ D[k].path = p
    BY <1>1, <2>2
  <2>5. e = [path |-> D[k].path, place |-> <<D[k].path, s>>, symbol |-> Symbols(D[k])[s]]
    BY <2>2, <2>3, <2>4
  <2>6. At(D, k, s) \in Definitions(D)
    BY <1>2, <2>4
  <2> HIDE DEF At
  <2> QED
    BY <2>4, <2>5, <2>6
<1>6. ASSUME NEW x \in Definitions(D)
      PROVE  \E k \in DOMAIN D : \E s \in DOMAIN Symbols(D[k]) :
               /\ x = At(D, k, s) /\ D[k].path = x.path
               /\ At(Q, D[k].path, s) \in Definitions(Q)
               /\ At(Q, D[k].path, s).path = x.path /\ At(Q, D[k].path, s).symbol = x.symbol
  <2>1. PICK k \in DOMAIN D : \E s \in DOMAIN Symbols(D[k]) : x = At(D, k, s)
    BY <1>1, DefinitionFacts
  <2> QED
    BY <1>2, <1>4, <2>1
<1>7. ASSUME NEW e \in Definitions(Q), NEW f \in Definitions(Q), e # f
      PROVE  \E x, y \in Definitions(D) : /\ x # y /\ x.path = e.path /\ x.symbol = e.symbol
                                          /\ y.path = f.path /\ y.symbol = f.symbol
  <2>1. PICK k \in DOMAIN D : \E s \in DOMAIN Symbols(D[k]) :
          /\ e = [path |-> D[k].path, place |-> <<D[k].path, s>>, symbol |-> Symbols(D[k])[s]]
          /\ At(D, k, s) \in Definitions(D)
    BY <1>5
  <2>2. PICK s \in DOMAIN Symbols(D[k]) :
          /\ e = [path |-> D[k].path, place |-> <<D[k].path, s>>, symbol |-> Symbols(D[k])[s]]
          /\ At(D, k, s) \in Definitions(D)
    BY <2>1
  <2>3. PICK j \in DOMAIN D : \E t \in DOMAIN Symbols(D[j]) :
          /\ f = [path |-> D[j].path, place |-> <<D[j].path, t>>, symbol |-> Symbols(D[j])[t]]
          /\ At(D, j, t) \in Definitions(D)
    BY <1>5
  <2>4. PICK t \in DOMAIN Symbols(D[j]) :
          /\ f = [path |-> D[j].path, place |-> <<D[j].path, t>>, symbol |-> Symbols(D[j])[t]]
          /\ At(D, j, t) \in Definitions(D)
    BY <2>3
  <2>5. At(D, k, s).place = <<k, s>> /\ At(D, j, t).place = <<j, t>>
    OBVIOUS
  <2>6. At(D, k, s) # At(D, j, t)
    BY <1>7, <2>2, <2>4, <2>5
  <2> QED
    BY <2>2, <2>4, <2>6
<1>8. ASSUME NEW x \in Definitions(D), NEW y \in Definitions(D), x # y
      PROVE  \E e, f \in Definitions(Q) :
               /\ x.path = e.path /\ x.symbol = e.symbol /\ y.path = f.path /\ y.symbol = f.symbol
               /\ e = f => e.path # d.path
  <2>1. PICK k \in DOMAIN D : \E s \in DOMAIN Symbols(D[k]) :
          /\ x = At(D, k, s) /\ D[k].path = x.path
          /\ At(Q, D[k].path, s) \in Definitions(Q)
          /\ At(Q, D[k].path, s).path = x.path /\ At(Q, D[k].path, s).symbol = x.symbol
    BY <1>6
  <2>2. PICK s \in DOMAIN Symbols(D[k]) :
          /\ x = At(D, k, s) /\ D[k].path = x.path
          /\ At(Q, D[k].path, s) \in Definitions(Q)
          /\ At(Q, D[k].path, s).path = x.path /\ At(Q, D[k].path, s).symbol = x.symbol
    BY <2>1
  <2>3. PICK j \in DOMAIN D : \E t \in DOMAIN Symbols(D[j]) :
          /\ y = At(D, j, t) /\ D[j].path = y.path
          /\ At(Q, D[j].path, t) \in Definitions(Q)
          /\ At(Q, D[j].path, t).path = y.path /\ At(Q, D[j].path, t).symbol = y.symbol
    BY <1>6
  <2>4. PICK t \in DOMAIN Symbols(D[j]) :
          /\ y = At(D, j, t) /\ D[j].path = y.path
          /\ At(Q, D[j].path, t) \in Definitions(Q)
          /\ At(Q, D[j].path, t).path = y.path /\ At(Q, D[j].path, t).symbol = y.symbol
    BY <2>3
  <2>5. ASSUME At(Q, D[k].path, s) = At(Q, D[j].path, t), x.path = d.path
        PROVE  FALSE
    <3>1. /\ At(Q, D[k].path, s).place = <<D[k].path, s>>
          /\ At(Q, D[j].path, t).place = <<D[j].path, t>>
      OBVIOUS
    <3>2. D[k].path = D[j].path /\ s = t
      BY <2>5, <3>1
    <3>3. k = None /\ j = None
      BY <1>4, <2>2, <2>5, <3>2
    <3> QED
      BY <1>8, <2>2, <2>4, <3>2, <3>3
  <2> QED
    BY <2>2, <2>4, <2>5
<1>9. \A e \in Definitions(Q) : \E x \in Definitions(D) : x.path = e.path /\ x.symbol = e.symbol
  BY <1>3, SameDefinitions
<1>10. \A x \in Definitions(D) : \E e \in Definitions(Q) : x.path = e.path /\ x.symbol = e.symbol
  <2>1. \A k \in DOMAIN D : \E p \in DOMAIN Q : D[k] = Q[p]
    BY <1>4
  <2> QED
    BY <2>1, SameDefinitions
<1> QED
  BY <1>7, <1>8, <1>9, <1>10 DEF Q, D

\* Diagnostics and definition classify a reference alike, but for targets in other
\* documents that are collected more than once.
LEMMA DiagnosticsConsistent == DocumentsInvariant => DiagnosticsAgree
<1> SUFFICES ASSUME DocumentsInvariant, NEW d \in OpenDocuments, NEW ref \in ToSet(Refs(d))
             PROVE  LET asked == Resolution(QueriedWorkspace(d), d.path, ref) IN
                    \/ DiagnosticClass(d, ref) = asked.class
                    \/ /\ DiagnosticClass(d, ref) = "ambiguous"
                       /\ asked.class = "exact"
                       /\ asked.target.path # d.path
  BY DEF DiagnosticsAgree
<1> DEFINE Q == QueriedWorkspace(d)
           D == DiagnosedWorkspace(d)
           TQ == Targets(Q, ref.target, d.path)
           TD == Targets(D, ref.target, d.path)
           scope(p, symbol) == Admits(Q, ref.target, d.path, p, symbol)
           asked == Resolution(Q, d.path, ref)
           told == Resolution(D, d.path, ref)
<1>1. Typed(Q)
  BY Collected
<1>2. /\ \A e : e \in TQ <=> e \in Definitions(Q) /\ scope(e.path, e.symbol)
      /\ \A x : x \in TD <=> x \in Definitions(D) /\ scope(x.path, x.symbol)
  BY TargetsAre, SameScope
<1> HIDE DEF scope
<1>3. TQ = {} <=> TD = {}
  <2>1. \A e \in Definitions(Q) : \E x \in Definitions(D) : x.path = e.path /\ x.symbol = e.symbol
    BY CopyOf
  <2>2. \A x \in Definitions(D) : \E e \in Definitions(Q) : x.path = e.path /\ x.symbol = e.symbol
    BY CopyOf
  <2> HIDE DEF Q, D, TQ, TD
  <2> QED
    BY <1>2, <2>1, <2>2
<1>4. Several(TQ) => Several(TD)
  <2> SUFFICES ASSUME NEW e \in TQ, NEW f \in TQ, e # f PROVE Several(TD)
    BY DEF Several
  <2>1. PICK x \in Definitions(D), y \in Definitions(D) :
          /\ x # y /\ x.path = e.path /\ x.symbol = e.symbol /\ y.path = f.path /\ y.symbol = f.symbol
    BY <1>2, CopyOf
  <2> HIDE DEF Q, D, TQ, TD
  <2>2. x \in TD /\ y \in TD
    BY <1>2, <2>1
  <2> QED
    BY <2>1, <2>2 DEF Several
<1>5. ASSUME Several(TD), ~Several(TQ), NEW e \in TQ PROVE e.path # d.path
  <2>1. PICK x \in TD, y \in TD : x # y
    BY <1>5 DEF Several
  <2>2. x \in Definitions(D) /\ y \in Definitions(D)
    BY <1>2, <2>1
  <2>3. PICK u \in Definitions(Q), v \in Definitions(Q) :
          /\ x.path = u.path /\ x.symbol = u.symbol /\ y.path = v.path /\ y.symbol = v.symbol
          /\ u = v => u.path # d.path
    BY <2>1, <2>2, CopyOf
  <2> HIDE DEF Q, D, TQ, TD
  <2>4. u \in TQ /\ v \in TQ
    BY <1>2, <2>1, <2>3
  <2> QED
    BY <1>5, <2>3, <2>4 DEF Several
<1>6. TQ # {} => FirstTarget(TQ) \in TQ
  <2>1. \A e \in TQ : e \in Definitions(Q)
    BY <1>2
  <2>2. \A e \in TQ : e.path \in Path /\ e.symbol.line \in Nat
    BY <1>1, <2>1, DefinitionFacts
  <2> HIDE DEF TQ
  <2> QED
    BY <2>2, FirstIsTarget
<1>7. DiagnosticClass(d, ref) = told.class
  BY DEF DiagnosticClass
<1> DEFINE quiet == IsRuntime(d.path) \/ (ref.kind = "state" /\ ref.dynamic)
           many(T) == ref.kind = "state" /\ Several(T)
<1>8. /\ asked = IF quiet THEN Unresolved("dynamic")
                 ELSE IF TQ = {} THEN Unresolved("invalid")
                 ELSE IF many(TQ) THEN Unresolved("ambiguous") ELSE Exact(FirstTarget(TQ))
      /\ told = IF quiet THEN Unresolved("dynamic")
                ELSE IF TD = {} THEN Unresolved("invalid")
                ELSE IF many(TD) THEN Unresolved("ambiguous") ELSE Exact(FirstTarget(TD))
  BY DEF Resolution
<1>9. /\ \A c : Unresolved(c).class = c
      /\ \A e : Exact(e).class = "exact" /\ Exact(e).target.path = e.path
  BY DEF Unresolved, Exact
<1>10. many(TQ) => many(TD)
  BY <1>4
<1>11. many(TD) /\ ~many(TQ) => \A e \in TQ : e.path # d.path
  BY <1>5
<1> HIDE DEF Q, D, TQ, TD, asked, told, quiet, many
<1>12. \/ told.class = asked.class
       \/ told.class = "ambiguous" /\ asked.class = "exact" /\ asked.target.path # d.path
  BY <1>3, <1>6, <1>8, <1>9, <1>10, <1>11
<1> QED
  BY <1>7, <1>12 DEF asked, Q

\* For any texts and keys: the resolver contradicts itself between the documents of the
\* diagnostics request and those of the other requests only by calling a target in
\* another document ambiguous, never one in the document.
THEOREM DiagnosticsAreConsistent == DocumentsSpec => []DiagnosticsAgree
  BY DocumentsInvariance, DiagnosticsConsistent, PTL

--------------------------------------------------------------------------------
(* The MCP server *)

AnyItem == UNION {Item(i) : i \in Nat \ {0}}

InProgress(p) == \E c \in checked["server"] : c.plan = p

\* A token in the store, or taken by an application that has not written yet, has been
\* issued once more than it was written.
TokenInvariant ==
  /\ issued \in [Plan -> Nat]
  /\ spent \in [Plan -> Nat]
  /\ tokens \subseteq Plan
  /\ checked = [a \in Applier |-> checked[a]]
  /\ \A p \in Plan : /\ p \in tokens => spent[p] < issued[p]
                     /\ InProgress(p) => spent[p] < issued[p]
                     /\ p \in tokens /\ InProgress(p) => spent[p] + 1 < issued[p]
                     /\ spent[p] <= issued[p]

\* Items that reach a method are requests of the client.
LEMMA AskedIsCall ==
  ASSUME inbox \in Seq(AnyItem), NEW name, Asks(name)
  PROVE  Asked \in Call
<1>1. Head(inbox) \in AnyItem
  BY DEF Asks
<1>2. PICK i \in Nat \ {0} : Head(inbox) \in Item(i)
  BY <1>1 DEF AnyItem
<1>3. Head(inbox).call # None
  BY DEF Asks, Reaches
<1> QED
  BY <1>2, <1>3 DEF Item, Asked

\* The handlers that touch neither documents nor the mutation service.
Quiet == Turned \/ Initialize \/ Discover \/ ResourceRead \/ UnknownMethod \/ UnknownTool
           \/ RefuseMutation

\* They change nothing that is written or answered from.
LEMMA QuietChangesNothing == Quiet => UNCHANGED <<dvars, mvars>>
  BY DEF Quiet, Turned, Initialize, Discover, ResourceRead, UnknownMethod, UnknownTool, RefuseMutation

\* Other programs have nothing to do with tokens, nor with the server's application.
LEMMA EnvironmentKeepsTokens ==
  ASSUME checked = [a \in Applier |-> checked[a]], Environment
  PROVE  /\ UNCHANGED <<tokens, issued, spent>>
         /\ checked'["server"] = checked["server"]
         /\ checked' = [a \in Applier |-> checked'[a]]
<1>1. \/ checked' = checked
      \/ \E S : checked' = [checked EXCEPT !["command"] = S]
  BY DEF Environment, OtherSaves, CommandWrite, CommandCheck, WriteFiles, GiveUp, Check
<1>2. UNCHANGED <<tokens, issued, spent>>
  BY DEF Environment, OtherSaves, CommandWrite, CommandCheck
<1> QED
  BY <1>1, <1>2 DEF Applier

\* Neither do the steps outside the handlers of previews and applications.
LEMMA OtherStepsKeepTokens ==
  ASSUME checked = [a \in Applier |-> checked[a]],
         [Next]_vars, ~PatchPreview, ~PatchApply, ~PatchWrite
  PROVE  /\ UNCHANGED <<tokens, issued, spent>>
         /\ checked'["server"] = checked["server"]
         /\ checked' = [a \in Applier |-> checked'[a]]
<1>1. CASE UNCHANGED vars
  BY <1>1 DEF vars, mvars
<1>2. CASE Handle
  BY <1>2, QuietChangesNothing DEF Handle, Quiet, Query, mvars
<1>3. CASE Environment
  BY <1>3, EnvironmentKeepsTokens
<1>4. CASE Next /\ ~Handle /\ ~Environment
  BY <1>4 DEF Next, Receive, ReceiveUnreadable, Send, mvars
<1> QED
  BY <1>1, <1>2, <1>3, <1>4

\* No token, no application and nothing written at first.
LEMMA InitTokens == Init => TokenInvariant
  BY DEF Init, MutationInit, TokenInvariant, InProgress, Applier

\* A preview counts before its token is armed, an application removes it before it
\* looks at the files, and what it then writes it writes once.
LEMMA NextTokens ==
  ASSUME TokenInvariant, inbox \in Seq(AnyItem), [Next]_vars
  PROVE  TokenInvariant'
<1>1. CASE PatchPreview
  <2> DEFINE plan == Asked.plan
  <2>1. /\ tokens' = tokens \cup {plan} /\ spent' = spent /\ checked' = checked
        /\ issued' = [issued EXCEPT ![plan] = @ + 1]
    BY <1>1 DEF PatchPreview, Issue
  <2>2. plan \in Plan
    <3>1. Asked \in Call /\ Asked.name = "patch_preview"
      BY <1>1, AskedIsCall DEF PatchPreview, Asks, Asked
    <3> QED
      BY <3>1, CallAssumption DEF CallAssumption
  <2> HIDE DEF plan
  <2>3. issued' = [p \in Plan |-> IF p = plan THEN issued[p] + 1 ELSE issued[p]]
    BY <2>1 DEF TokenInvariant
  <2>4. \A p \in Plan : issued[p] \in Nat /\ spent[p] \in Nat
    BY DEF TokenInvariant
  <2>5. issued' \in [Plan -> Nat] /\ spent' \in [Plan -> Nat]
    <3>1. \A p \in Plan : (IF p = plan THEN issued[p] + 1 ELSE issued[p]) \in Nat
      BY <2>4
    <3> QED
      BY <2>1, <2>3, <3>1 DEF TokenInvariant
  <2>6. ASSUME NEW p \in Plan
        PROVE  /\ p \in tokens' => spent'[p] < issued'[p]
               /\ InProgress(p)' => spent'[p] < issued'[p]
               /\ p \in tokens' /\ InProgress(p)' => spent'[p] + 1 < issued'[p]
               /\ spent'[p] <= issued'[p]
    <3>1. InProgress(p)' <=> InProgress(p)
      BY <2>1 DEF InProgress
    <3> QED
      BY <2>1, <2>3, <2>4, <3>1 DEF TokenInvariant
  <2> QED
    BY <2>1, <2>2, <2>5, <2>6 DEF TokenInvariant
<1>2. CASE PatchApply
  <2> DEFINE token == Asked.token
  <2>1. /\ token \in tokens /\ tokens' = tokens \ {token} /\ issued' = issued /\ spent' = spent
        /\ checked["server"] = {}
        /\ \/ checked' = checked
           \/ checked' = [checked EXCEPT !["server"] = {[root |-> Asked.root, plan |-> token]}]
    BY <1>2 DEF PatchApply, Consume, Consumable, Applying, Check
  <2> HIDE DEF token
  <2>2. /\ checked' = [a \in Applier |-> checked'[a]]
        /\ checked'["server"] \in {{}, {[root |-> Asked.root, plan |-> token]}}
    BY <2>1 DEF TokenInvariant, Applier
  <2>3. \A p \in Plan : InProgress(p)' => p = token
    BY <2>2 DEF InProgress
  <2>4. \A p \in Plan : issued[p] \in Nat /\ spent[p] \in Nat
    BY DEF TokenInvariant
  <2>5. ASSUME NEW p \in Plan
        PROVE  /\ p \in tokens' => spent'[p] < issued'[p]
               /\ InProgress(p)' => spent'[p] < issued'[p]
               /\ p \in tokens' /\ InProgress(p)' => spent'[p] + 1 < issued'[p]
               /\ spent'[p] <= issued'[p]
    BY <2>1, <2>3, <2>4 DEF TokenInvariant
  <2> QED
    BY <2>1, <2>2, <2>5 DEF TokenInvariant
<1>3. CASE PatchWrite
  <2>1. /\ tokens' = tokens /\ issued' = issued /\ checked' = [checked EXCEPT !["server"] = {}]
        /\ \/ spent' = spent
           \/ spent' = [p \in Plan |-> IF InProgress(p) THEN spent[p] + 1 ELSE spent[p]]
    BY <1>3 DEF PatchWrite, WriteFiles, GiveUp, InProgress
  <2>2. checked' = [a \in Applier |-> checked'[a]] /\ checked'["server"] = {}
    BY <2>1 DEF TokenInvariant, Applier
  <2>3. \A p \in Plan : ~InProgress(p)'
    BY <2>2 DEF InProgress
  <2>4. \A p \in Plan : issued[p] \in Nat /\ spent[p] \in Nat
    BY DEF TokenInvariant
  <2>5. spent' \in [Plan -> Nat]
    <3>1. \A p \in Plan : (IF InProgress(p) THEN spent[p] + 1 ELSE spent[p]) \in Nat
      BY <2>4
    <3> QED
      BY <2>1, <3>1 DEF TokenInvariant
  <2>6. ASSUME NEW p \in Plan
        PROVE  /\ p \in tokens' => spent'[p] < issued'[p]
               /\ spent'[p] <= issued'[p]
    BY <2>1, <2>4 DEF TokenInvariant
  <2> QED
    BY <2>1, <2>2, <2>3, <2>5, <2>6 DEF TokenInvariant
<1>4. CASE ~PatchPreview /\ ~PatchApply /\ ~PatchWrite
  <2>1. /\ UNCHANGED <<tokens, issued, spent>> /\ checked'["server"] = checked["server"]
        /\ checked' = [a \in Applier |-> checked'[a]]
    BY <1>4, OtherStepsKeepTokens DEF TokenInvariant
  <2>2. \A p : InProgress(p)' <=> InProgress(p)
    BY <2>1 DEF InProgress
  <2> QED
    BY <2>1, <2>2 DEF TokenInvariant
<1> QED
  BY <1>1, <1>2, <1>3, <1>4

-----------------------------------------------------------------------------
Outcomes == {"result", "tool_error", "-32700", "-32600", "-32601", "-32602", "-32022", "-32006"}
AnyResponse == [id : {m.id : m \in AnyItem} \cup {Null}, outcome : Outcomes]

\* What is left of the frame is its end, answers are answers, and an application belongs
\* to the request at the head of what is left.
FrameInvariant ==
  /\ frame \in Seq(AnyItem)
  /\ inbox \in Seq(AnyItem)
  /\ answers \in Seq(AnyResponse)
  /\ sent => frame = <<>> /\ inbox = <<>>
  /\ Len(inbox) <= Len(frame)
  /\ \A i \in 1 .. Len(inbox) : inbox[i] = frame[Len(frame) - Len(inbox) + i]
  /\ Applying => allowWrite /\ Asks("patch_apply")

\* A handler takes one item, and answers it unless it is a notification; an application
\* that has only looked at its files leaves its item where it is.
LEMMA HandlesOne ==
  ASSUME FrameInvariant, Handle
  PROVE  /\ inbox # <<>>
         /\ \/ UNCHANGED svars
            \/ /\ inbox' = Tail(inbox) /\ frame' = frame /\ sent' = sent /\ allowWrite' = allowWrite
               /\ \/ Head(inbox).id = NoID /\ answers' = answers
                  \/ /\ Head(inbox).id # NoID
                     /\ \E outcome \in Outcomes :
                          answers' = Append(answers, Response(Head(inbox).id, outcome))
<1>1. CASE Turned
  <2>1. inbox # <<>> /\ inbox' = Tail(inbox) /\ frame' = frame /\ sent' = sent
        /\ allowWrite' = allowWrite
    BY <1>1 DEF Turned, Answer
  <2>2. CASE Head(inbox).id = NoID
    BY <1>1, <2>1, <2>2 DEF Turned
  <2>3. CASE Head(inbox).id # NoID
    <3> DEFINE outcome == IF Head(inbox).call = None THEN "-32600" ELSE MetadataError(Head(inbox))
    <3>1. answers' = Append(answers, Response(Head(inbox).id, outcome))
      BY <1>1, <2>3 DEF Turned, Answer
    <3>2. outcome \in Outcomes
      BY <1>1, <2>3 DEF Turned, Reaches, MetadataError, Outcomes
    <3> QED
      BY <2>1, <2>3, <3>1, <3>2
  <2> QED
    BY <2>2, <2>3
<1>2. CASE Initialize \/ Discover \/ ResourceRead \/ UnknownMethod
  BY <1>2 DEF Initialize, Discover, ResourceRead, UnknownMethod, Answer, Asks, Reaches, Outcomes
<1>3. CASE Query \/ UnknownTool \/ RefuseMutation
  BY <1>3 DEF Query, UnknownTool, RefuseMutation, Answer, Asks, Reaches, Outcomes
<1>4. CASE PatchPreview \/ PatchApply
  BY <1>4 DEF PatchPreview, PatchApply, Answer, Asks, Reaches, Outcomes
<1>5. CASE PatchWrite
  <2>1. Asks("patch_apply")
    BY <1>5 DEF PatchWrite, WriteFiles, GiveUp, FrameInvariant, Applying
  <2> QED
    BY <1>5, <2>1 DEF PatchWrite, Answer, Asks, Reaches, Outcomes
<1> QED
  BY <1>1, <1>2, <1>3, <1>4, <1>5 DEF Handle

\* While the server applies a plan its request stays at the head.
LEMMA ApplyingAsks ==
  ASSUME FrameInvariant, TokenInvariant, [Next]_vars, Applying'
  PROVE  allowWrite' /\ Asks("patch_apply")'
<1>1. ASSUME Applying, UNCHANGED <<allowWrite, inbox>>
      PROVE  allowWrite' /\ Asks("patch_apply")'
  BY <1>1 DEF FrameInvariant, Asks, Reaches, MetadataError
<1>2. CASE PatchApply
  <2>1. allowWrite /\ Asks("patch_apply") /\ ~Applying
    BY <1>2 DEF PatchApply
  <2>2. UNCHANGED svars
    BY <1>2, <2>1 DEF PatchApply, Applying
  <2> QED
    BY <2>1, <2>2 DEF svars, Asks, Reaches, MetadataError
<1>3. CASE PatchWrite
  <2>1. checked' = [checked EXCEPT !["server"] = {}]
    BY <1>3 DEF PatchWrite, WriteFiles, GiveUp
  <2>2. checked'["server"] = {}
    BY <2>1 DEF TokenInvariant, Applier
  <2> QED
    BY <2>2 DEF Applying
<1>4. CASE ~PatchApply /\ ~PatchWrite
  <2>1. checked'["server"] = checked["server"]
    <3>1. CASE PatchPreview
      BY <3>1 DEF PatchPreview, Issue
    <3>2. CASE ~PatchPreview
      BY <1>4, <3>2, OtherStepsKeepTokens DEF TokenInvariant
    <3> QED
      BY <3>1, <3>2
  <2>2. Applying /\ allowWrite /\ Asks("patch_apply")
    BY <2>1 DEF Applying, FrameInvariant
  <2>3. ~sent /\ inbox # <<>>
    BY <2>2 DEF FrameInvariant, Asks
  <2>4. ~Handle
    <3>1. Reaches(Head(inbox)) /\ Head(inbox).call.name = "patch_apply"
      BY <2>2 DEF Asks
    <3> QED
      BY <1>4, <2>2, <3>1
         DEF Handle, Turned, Initialize, Discover, ResourceRead, UnknownMethod, Query, UnknownTool,
             RefuseMutation, PatchPreview, Asks
  <2>5. UNCHANGED <<allowWrite, inbox>>
    BY <2>3, <2>4 DEF Next, Receive, ReceiveUnreadable, Send, Environment, svars, vars
  <2> QED
    BY <1>1, <2>2, <2>5
<1> QED
  BY <1>2, <1>3, <1>4

\* Frames are sequences of items, taken from the front.
LEMMA NextFrame ==
  ASSUME FrameInvariant, TokenInvariant, [Next]_vars
  PROVE  FrameInvariant'
<1>1. Applying' => allowWrite' /\ Asks("patch_apply")'
  BY ApplyingAsks
<1>2. CASE UNCHANGED svars
  BY <1>1, <1>2 DEF svars, FrameInvariant
<1>3. CASE Handle /\ ~UNCHANGED svars
  <2>1. /\ inbox # <<>> /\ inbox' = Tail(inbox) /\ frame' = frame /\ sent' = sent
        /\ ~sent
    BY <1>3, HandlesOne DEF FrameInvariant
  <2>2. /\ inbox' \in Seq(AnyItem) /\ Len(inbox') = Len(inbox) - 1
        /\ \A i \in 1 .. Len(inbox') : inbox'[i] = inbox[i + 1]
    BY <2>1 DEF FrameInvariant
  <2>3. answers' \in Seq(AnyResponse)
    <3>1. Head(inbox) \in AnyItem
      BY <2>1 DEF FrameInvariant
    <3>2. \A outcome \in Outcomes : Response(Head(inbox).id, outcome) \in AnyResponse
      BY <3>1 DEF Response, AnyResponse
    <3>3. answers \in Seq(AnyResponse)
      BY DEF FrameInvariant
    <3>4. \/ answers' = answers
          \/ \E outcome \in Outcomes :
               answers' = Append(answers, Response(Head(inbox).id, outcome))
      BY <1>3, HandlesOne
    <3> QED
      BY <3>2, <3>3, <3>4
  <2>4. \A i \in 1 .. Len(inbox') : inbox'[i] = frame'[Len(frame') - Len(inbox') + i]
    BY <2>1, <2>2 DEF FrameInvariant
  <2> QED
    BY <1>1, <2>1, <2>2, <2>3, <2>4 DEF FrameInvariant
<1>4. ASSUME NEW items \in Frame, Receive(items)
      PROVE  FrameInvariant'
  BY <1>1, <1>4 DEF Frame, AnyItem, Receive, FrameInvariant
<1>5. CASE ReceiveUnreadable
  <2>1. \A code \in {"-32700", "-32600"} : Response(Null, code) \in AnyResponse
    BY DEF Response, AnyResponse, Outcomes
  <2>2. answers' \in Seq(AnyResponse)
    BY <1>5, <2>1 DEF ReceiveUnreadable
  <2> QED
    BY <1>1, <1>5, <2>2 DEF ReceiveUnreadable, FrameInvariant
<1>6. CASE Send
  BY <1>1, <1>6 DEF Send, FrameInvariant
<1> QED
  BY <1>2, <1>3, <1>4, <1>5, <1>6 DEF Next, Environment, vars, svars

\* Both invariants hold in every state.
LEMMA ServerTyped == Spec => [](FrameInvariant /\ TokenInvariant)
<1>1. Init => FrameInvariant
  <2>1. Init => frame = <<>> /\ inbox = <<>> /\ answers = <<>> /\ ~Applying
    BY DEF Init, ServerInit, MutationInit, Applying, Applier
  <2> QED
    BY <2>1 DEF FrameInvariant
<1>2. FrameInvariant /\ TokenInvariant /\ [Next]_vars => FrameInvariant' /\ TokenInvariant'
  <2>1. FrameInvariant => inbox \in Seq(AnyItem)
    BY DEF FrameInvariant
  <2> QED
    BY <2>1, NextFrame, NextTokens
<1> QED
  BY <1>1, <1>2, InitTokens, PTL DEF Spec

\* However requests, previews and other programs interleave, a plan is written at most as
\* often as it was previewed (Issue and Consume of the authorizer).
THEOREM PreviewsLimitWrites == Spec => []OneWritePerPreview
<1>1. TokenInvariant => OneWritePerPreview
  BY DEF TokenInvariant, OneWritePerPreview
<1> QED
  BY ServerTyped, <1>1, PTL

\* The items handled so far that are answered, and the order in which they were.
Handled == 1 .. Len(frame) - Len(inbox)
Requests == {j \in Handled : frame[j].id # NoID}
Matches(at) ==
  /\ \A i \in DOMAIN answers : answers[i].id = frame[at[i]].id
  /\ \A i, j \in DOMAIN answers : i < j => at[i] < at[j]
  /\ \A j \in Requests : \E i \in DOMAIN answers : at[i] = j

\* The answer to the next request comes after those to the requests before it.
LEMMA AnswersNext ==
  ASSUME FrameInvariant, Handle, ~UNCHANGED svars, NEW at \in [DOMAIN answers -> Requests], Matches(at)
  PROVE  \E to \in [DOMAIN answers' -> Requests'] : Matches(to)'
<1> DEFINE k == Len(frame) - Len(inbox) + 1
<1>1. /\ inbox # <<>> /\ inbox' = Tail(inbox) /\ frame' = frame
      /\ k \in 1 .. Len(frame) /\ Head(inbox) = frame[k]
  BY HandlesOne DEF FrameInvariant
<1>2. Handled' = Handled \cup {k} /\ k \notin Handled /\ \A j \in Handled : j \in Nat /\ j < k
  BY <1>1 DEF Handled, FrameInvariant
<1>3. CASE Head(inbox).id = NoID /\ answers' = answers
  <2>1. Requests' = Requests
    BY <1>1, <1>2, <1>3 DEF Requests
  <2>2. Matches(at)'
    BY <1>1, <1>3, <2>1 DEF Matches
  <2> QED
    BY <1>3, <2>1, <2>2
<1>4. ASSUME NEW outcome \in Outcomes, Head(inbox).id # NoID,
             answers' = Append(answers, Response(Head(inbox).id, outcome))
      PROVE  \E to \in [DOMAIN answers' -> Requests'] : Matches(to)'
  <2> DEFINE n == Len(answers) + 1
             to == [i \in 1 .. n |-> IF i = n THEN k ELSE at[i]]
  <2>1. Requests' = Requests \cup {k}
    BY <1>1, <1>2, <1>4 DEF Requests
  <2>2. /\ n \in Nat /\ DOMAIN answers = 1 .. (n - 1) /\ DOMAIN answers' = 1 .. n
        /\ \A i \in 1 .. (n - 1) : answers'[i] = answers[i]
        /\ answers'[n].id = frame[k].id
    <3>1. Response(Head(inbox).id, outcome) \in AnyResponse
      BY <1>1 DEF Response, AnyResponse, FrameInvariant
    <3> QED
      BY <1>1, <1>4, <3>1 DEF FrameInvariant, Response
  <2>3. to \in [DOMAIN answers' -> Requests']
    BY <2>1, <2>2
  <2>4. ASSUME NEW i \in DOMAIN answers'
        PROVE  answers'[i].id = frame'[to[i]].id
    BY <1>1, <2>2, <2>4 DEF Matches
  <2>5. ASSUME NEW i \in DOMAIN answers', NEW j \in DOMAIN answers', i < j
        PROVE  to[i] < to[j]
    <3>1. i \in DOMAIN answers /\ at[i] \in Requests
      BY <2>2, <2>5
    <3>2. CASE j = n
      BY <1>2, <2>2, <2>5, <3>1, <3>2 DEF Requests
    <3>3. CASE j # n
      BY <2>2, <2>5, <3>1, <3>3 DEF Matches
    <3> QED
      BY <3>2, <3>3
  <2>6. ASSUME NEW j \in Requests'
        PROVE  \E i \in DOMAIN answers' : to[i] = j
    <3>1. CASE j = k
      BY <2>2, <3>1
    <3>2. CASE j \in Requests
      <4>1. PICK i \in DOMAIN answers : at[i] = j
        BY <3>2 DEF Matches
      <4>2. i \in 1 .. n /\ i # n
        BY <2>2, <4>1
      <4> QED
        BY <2>2, <4>1, <4>2
    <3> QED
      BY <2>1, <3>1, <3>2
  <2> HIDE DEF to
  <2>7. \E at2 \in [DOMAIN answers' -> Requests'] :
          /\ \A i \in DOMAIN answers' : answers'[i].id = frame'[at2[i]].id
          /\ \A i, j \in DOMAIN answers' : i < j => at2[i] < at2[j]
          /\ \A j \in Requests' : \E i \in DOMAIN answers' : at2[i] = j
    BY <2>3, <2>4, <2>5, <2>6
  <2> QED
    BY <2>7 DEF Matches
<1> QED
  BY <1>3, <1>4, HandlesOne

\* A frame's answers are those to its requests, in their order, under their ids.
THEOREM AnswersInOrder == Spec => []AnsweredInOrder
<1>1. AnsweredInOrder <=> (frame # <<>> => \E at \in [DOMAIN answers -> Requests] : Matches(at))
  BY DEF AnsweredInOrder, Matches, Requests, Handled
<1>2. Init => AnsweredInOrder
  BY DEF Init, ServerInit, AnsweredInOrder
<1>3. ASSUME FrameInvariant, AnsweredInOrder, [Next]_vars
      PROVE  AnsweredInOrder'
  <2>1. CASE UNCHANGED svars
    BY <1>3, <2>1 DEF svars, AnsweredInOrder
  <2>2. CASE Handle /\ ~UNCHANGED svars
    <3>1. frame # <<>>
      BY <1>3, <2>2, HandlesOne DEF FrameInvariant
    <3>2. \E at \in [DOMAIN answers' -> Requests'] : Matches(at)'
      BY <1>1, <1>3, <2>2, <3>1, AnswersNext
    <3> QED
      BY <3>2 DEF AnsweredInOrder, Matches, Requests, Handled
  <2>3. ASSUME NEW items \in Frame, Receive(items)
        PROVE  AnsweredInOrder'
    <3>1. answers' = <<>> /\ Len(frame') - Len(inbox') = 0
      BY <2>3 DEF Receive, Frame
    <3> DEFINE none == [i \in {} |-> 0]
    <3>2. Requests' = {} /\ DOMAIN answers' = {}
      BY <3>1 DEF Requests, Handled
    <3>3. none \in [DOMAIN answers' -> Requests'] /\ Matches(none)'
      BY <3>2 DEF Matches
    <3> QED
      BY <3>3 DEF AnsweredInOrder, Matches, Requests, Handled
  <2>4. CASE ReceiveUnreadable
    BY <1>3, <2>4 DEF ReceiveUnreadable, AnsweredInOrder, FrameInvariant
  <2>5. CASE Send
    BY <2>5 DEF Send, AnsweredInOrder
  <2> QED
    BY <1>3, <2>1, <2>2, <2>3, <2>4, <2>5 DEF Next, Environment, vars, svars
<1>4. FrameInvariant /\ AnsweredInOrder /\ [Next]_vars => AnsweredInOrder'
  BY <1>3
<1> QED
  BY <1>2, <1>4, ServerTyped, PTL DEF Spec

\* Only a handler takes an item, looks at files for the server or writes for it.
LEMMA OnlyHandlesUnsent ==
  ASSUME FrameInvariant, TokenInvariant, [Next]_vars, ~sent,
         inbox' # inbox \/ checked'["server"] # checked["server"]
  PROVE  Handle
<1>1. Environment => checked'["server"] = checked["server"] /\ inbox' = inbox
  BY EnvironmentKeepsTokens DEF TokenInvariant, Environment, svars
<1> QED
  BY <1>1 DEF Next, Receive, ReceiveUnreadable, Send, mvars, svars, vars

\* Whatever is not answered with a result leaves the disk and the documents alone, and
\* of the tokens at most the one that was used.
THEOREM FailuresAreHarmless == Spec => FailuresChangeNothing
<1>1. ASSUME FrameInvariant, TokenInvariant, [Next]_vars, ~sent,
             inbox' # inbox \/ checked'["server"] # checked["server"],
             answers' = answers \/ Last(answers').outcome # "result"
      PROVE  /\ UNCHANGED <<disk, docs>>
             /\ \/ UNCHANGED tokens
                \/ /\ Asks("patch_apply")
                   /\ ~OutsideRoot(Asked.root)
                   /\ Consumable(Asked.token, Asked.snapshot)
                   /\ tokens' = tokens \ {Asked.token}
  <2>1. Handle
    BY <1>1, OnlyHandlesUnsent
  <2>2. ASSUME answers' = Append(answers, Response(Head(inbox).id, "result"))
        PROVE  FALSE
    <3>0. inbox # <<>>
      BY <1>1, <2>1, HandlesOne
    <3>1. Head(inbox) \in AnyItem
      BY <1>1, <3>0 DEF FrameInvariant
    <3>2. Response(Head(inbox).id, "result") \in AnyResponse
      BY <3>1 DEF Response, AnyResponse, Outcomes
    <3>3. answers' # answers /\ Last(answers') = Response(Head(inbox).id, "result")
      BY <1>1, <2>2, <3>2 DEF FrameInvariant, Last
    <3> QED
      BY <1>1, <3>3 DEF Response
  <2>3. CASE Quiet
    BY <2>3, QuietChangesNothing DEF dvars, mvars
  <2>4. CASE Query \/ PatchPreview
    BY <2>2, <2>4 DEF Query, PatchPreview, Answer
  <2>5. CASE PatchApply
    BY <2>5 DEF PatchApply, Consume, dvars
  <2>6. CASE PatchWrite
    BY <2>2, <2>6 DEF PatchWrite, GiveUp, Answer, dvars
  <2> QED
    BY <2>1, <2>3, <2>4, <2>5, <2>6 DEF Handle, Quiet
<1>2. FrameInvariant /\ TokenInvariant /\ [Next]_vars => [FailureHarmless]_vars
  BY <1>1 DEF FailureHarmless
<1> QED
  BY <1>2, ServerTyped, PTL DEF Spec, FailuresChangeNothing

-----------------------------------------------------------------------------
\* What an application has looked at is as its plan expects, but for what others saved
\* since.
CheckedInvariant ==
  /\ disk = [r \in Root |-> [f \in File |-> disk[r][f]]]
  /\ \A c \in checked["server"] :
       /\ c.root \in Root /\ c.plan \in Plan
       /\ ~OutsideRoot(c.root)
       /\ \A f \in DOMAIN c.plan.edits :
            disk[c.root][f] = c.plan.edits[f].old \/ <<c.root, f>> \in beside

\* One program's edits, whoever runs it.
LEMMA WrittenFacts ==
  ASSUME NEW root, NEW plan, disk = [r \in Root |-> [f \in File |-> disk[r][f]]],
         disk' = Applied(root, plan)
  PROVE  /\ disk' = [r \in Root |-> [f \in File |-> disk'[r][f]]]
         /\ \A r \in Root, f \in File :
              disk'[r][f] # disk[r][f] => <<r, f>> \in Files(root, plan)
  BY DEF Applied, Files

\* Other programs change only files that they are known to have saved.
LEMMA EnvironmentSaves ==
  ASSUME TokenInvariant, CheckedInvariant, Environment
  PROVE  /\ disk' = [r \in Root |-> [f \in File |-> disk'[r][f]]]
         /\ checked["server"] # {} =>
              /\ beside \subseteq beside'
              /\ \A r \in Root, f \in File : disk'[r][f] # disk[r][f] => <<r, f>> \in beside'
<1> USE DEF CheckedInvariant
<1>1. CASE OtherSaves
  <2>1. PICK h \in Hand : /\ disk' = [disk EXCEPT ![h.root][h.file] = h.content]
                         /\ SavedBeside({<<h.root, h.file>>})
    BY <1>1 DEF OtherSaves
  <2>2. disk' = [r \in Root |-> [f \in File |->
                   IF r = h.root /\ f = h.file THEN h.content ELSE disk[r][f]]]
    BY <2>1
  <2>3. checked["server"] # {} => beside \subseteq beside' /\ <<h.root, h.file>> \in beside'
    BY <2>1 DEF SavedBeside
  <2>4. disk' = [r \in Root |-> [f \in File |-> disk'[r][f]]]
    BY <2>2
  <2>5. ASSUME NEW r \in Root, NEW f \in File, disk'[r][f] # disk[r][f]
        PROVE  <<r, f>> = <<h.root, h.file>>
    BY <2>2, <2>5
  <2> QED
    BY <2>3, <2>4, <2>5
<1>2. CASE CommandWrite
  <2>1. CASE WriteFiles("command") /\ SavedBeside(UNION {Files(c.root, c.plan) : c \in checked["command"]})
    <3>1. PICK c \in checked["command"] : disk' = Applied(c.root, c.plan)
      BY <2>1 DEF WriteFiles
    <3>2. /\ disk' = [r \in Root |-> [f \in File |-> disk'[r][f]]]
          /\ \A r \in Root, f \in File :
               disk'[r][f] # disk[r][f] => <<r, f>> \in Files(c.root, c.plan)
      BY <3>1, WrittenFacts
    <3>3. checked["server"] # {} => beside \subseteq beside' /\ Files(c.root, c.plan) \subseteq beside'
      BY <2>1, <3>1 DEF SavedBeside
    <3> QED
      BY <3>2, <3>3
  <2>2. CASE GiveUp("command") /\ UNCHANGED beside
    BY <2>2 DEF GiveUp
  <2> QED
    BY <1>2, <2>1, <2>2 DEF CommandWrite
<1>3. ASSUME NEW p \in Plan, CommandCheck(p)
      PROVE  UNCHANGED <<disk, beside>>
  BY <1>3 DEF CommandCheck
<1> QED
  BY <1>1, <1>2, <1>3 DEF Environment

\* An application looks, and others save beside it.
LEMMA NextChecked ==
  ASSUME FrameInvariant, TokenInvariant, CheckedInvariant, [Next]_vars
  PROVE  CheckedInvariant'
<1>1. CASE UNCHANGED <<disk, checked, beside, served>>
  BY <1>1 DEF CheckedInvariant, OutsideRoot
<1>2. CASE Environment
  <2>1. checked'["server"] = checked["server"]
    BY <1>2, EnvironmentKeepsTokens DEF TokenInvariant
  <2>2. /\ disk' = [r \in Root |-> [f \in File |-> disk'[r][f]]]
        /\ checked["server"] # {} =>
             /\ beside \subseteq beside'
             /\ \A r \in Root, f \in File : disk'[r][f] # disk[r][f] => <<r, f>> \in beside'
    BY <1>2, EnvironmentSaves
  <2>3. served' = served
    BY <1>2 DEF Environment, svars
  <2>4. ASSUME NEW c \in checked["server"]
        PROVE  /\ c.root \in Root /\ c.plan \in Plan /\ ~OutsideRoot(c.root)'
               /\ \A f \in DOMAIN c.plan.edits :
                    disk'[c.root][f] = c.plan.edits[f].old \/ <<c.root, f>> \in beside'
    <3>1. c.root \in Root /\ c.plan \in Plan /\ ~OutsideRoot(c.root)
      BY DEF CheckedInvariant
    <3>2. DOMAIN c.plan.edits \subseteq File
      BY <3>1, PlanAssumption DEF PlanAssumption
    <3>3. \A f \in DOMAIN c.plan.edits :
            disk[c.root][f] = c.plan.edits[f].old \/ <<c.root, f>> \in beside
      BY DEF CheckedInvariant
    <3>4. ~OutsideRoot(c.root)'
      BY <2>3, <3>1 DEF OutsideRoot
    <3> QED
      BY <2>2, <3>1, <3>2, <3>3, <3>4
  <2> QED
    BY <2>1, <2>2, <2>4 DEF CheckedInvariant
<1>3. CASE PatchApply
  <2>1. PICK root, token : root = Asked.root /\ token = Asked.token
    OBVIOUS
  <2>2. /\ disk' = disk /\ beside' = beside /\ ~OutsideRoot(root)
        /\ \/ checked' = checked
           \/ /\ Fresh(root, token)
              /\ checked' = [checked EXCEPT !["server"] = {[root |-> root, plan |-> token]}]
    BY <1>3, <2>1 DEF PatchApply, Consume, Check
  <2>3. root \in Root /\ token \in Plan
    <3>1. Asked \in Call /\ Asked.name = "patch_apply"
      BY <1>3, AskedIsCall DEF PatchApply, Asks, Asked, FrameInvariant
    <3>2. token \in tokens
      BY <1>3, <2>1 DEF PatchApply, Consume, Consumable
    <3> QED
      BY <2>1, <3>1, <3>2, CallAssumption DEF CallAssumption, TokenInvariant
  <2>4. served' = served
    BY <1>3 DEF PatchApply, Answer, svars
  <2>5. CASE checked' = checked
    BY <1>1, <2>2, <2>4, <2>5
  <2>6. CASE Fresh(root, token) /\ checked'["server"] = {[root |-> root, plan |-> token]}
    <3>1. ~OutsideRoot(root)'
      BY <2>2, <2>4 DEF OutsideRoot
    <3>2. \A f \in DOMAIN token.edits : disk'[root][f] = token.edits[f].old
      BY <2>2, <2>6 DEF Fresh
    <3>3. disk' = [r \in Root |-> [f \in File |-> disk'[r][f]]]
      BY <2>2 DEF CheckedInvariant
    <3>4. ASSUME NEW c \in checked'["server"]
          PROVE  /\ c.root \in Root /\ c.plan \in Plan
                 /\ ~OutsideRoot(c.root)'
                 /\ \A f \in DOMAIN c.plan.edits :
                      disk'[c.root][f] = c.plan.edits[f].old \/ <<c.root, f>> \in beside'
      <4>1. c.root = root /\ c.plan = token
        BY <2>6
      <4> QED
        BY <2>3, <3>1, <3>2, <4>1
    <3> QED
      BY <3>3, <3>4 DEF CheckedInvariant
  <2> QED
    BY <2>2, <2>5, <2>6 DEF TokenInvariant, Applier
<1>4. CASE PatchWrite
  <2>1. checked'["server"] = {}
    BY <1>4 DEF PatchWrite, WriteFiles, GiveUp, TokenInvariant, Applier
  <2>2. disk' = disk \/ \E c \in checked["server"] : disk' = Applied(c.root, c.plan)
    BY <1>4 DEF PatchWrite, WriteFiles, GiveUp
  <2>3. disk' = [r \in Root |-> [f \in File |-> disk'[r][f]]]
    BY <2>2, WrittenFacts DEF CheckedInvariant
  <2> QED
    BY <2>1, <2>3 DEF CheckedInvariant
<1>5. CASE Handle /\ ~PatchApply /\ ~PatchWrite
  <2>1. UNCHANGED mvars \/ PatchPreview
    BY <1>5, QuietChangesNothing DEF Handle, Quiet, Query
  <2>2. UNCHANGED <<disk, checked, beside>>
    BY <2>1 DEF PatchPreview, Issue, mvars
  <2>3. served' = served
    BY <1>5 DEF Handle, Turned, Initialize, Discover, ResourceRead, UnknownMethod, Query, UnknownTool,
                RefuseMutation, PatchPreview, Answer
  <2> QED
    BY <1>1, <2>2, <2>3
<1>6. CASE Next /\ ~Handle /\ ~Environment
  BY <1>1, <1>6 DEF Next, Receive, ReceiveUnreadable, Send, mvars
<1>7. CASE UNCHANGED vars
  BY <1>1, <1>7 DEF vars, mvars, svars
<1> QED
  BY <1>2, <1>3, <1>4, <1>5, <1>6, <1>7

\* The server writes only the plans of tokens it holds, nothing when it may not write,
\* and under no other root than the one it serves, if any; a file that it overwrites
\* holds what the plan expects or was saved by another program since the application
\* looked (patch_apply).
THEOREM ServerWritesOnlyPlans == Spec => ServerWritesPlanned
<1>1. Init => CheckedInvariant
  BY DEF Init, MutationInit, CheckedInvariant, Applier
<1>2. FrameInvariant /\ TokenInvariant /\ CheckedInvariant /\ [Next]_vars => CheckedInvariant'
  BY NextChecked
<1>3. ASSUME FrameInvariant, TokenInvariant, CheckedInvariant, [Next]_vars,
             disk' # disk, inbox' # inbox
      PROVE  /\ allowWrite
             /\ \E p \in Plan, r \in Root :
                  /\ disk' = Applied(r, p)
                  /\ spent'[p] = spent[p] + 1
                  /\ served \in {"", r}
                  /\ \A f \in DOMAIN p.edits : disk[r][f] = p.edits[f].old \/ <<r, f>> \in beside
  <2>1. PatchWrite
    BY <1>3, QuietChangesNothing
       DEF vars, svars, mvars, Next, Handle, Quiet, Receive, ReceiveUnreadable, Send, Environment,
           Query, PatchPreview, Issue, PatchApply, Consume
  <2>2. PICK c \in checked["server"] : disk' = Applied(c.root, c.plan)
    BY <1>3, <2>1 DEF PatchWrite, WriteFiles, GiveUp
  <2>3. spent' = [p \in Plan |-> IF \E e \in checked["server"] : e.plan = p
                                THEN spent[p] + 1 ELSE spent[p]]
    BY <1>3, <2>1 DEF PatchWrite, GiveUp
  <2>4. /\ c.root \in Root /\ c.plan \in Plan /\ ~OutsideRoot(c.root)
        /\ \A f \in DOMAIN c.plan.edits :
             disk[c.root][f] = c.plan.edits[f].old \/ <<c.root, f>> \in beside
    BY <1>3 DEF CheckedInvariant
  <2>5. spent'[c.plan] = spent[c.plan] + 1
    BY <2>3, <2>4
  <2>6. served \in {"", c.root}
    BY <2>4 DEF OutsideRoot
  <2>7. allowWrite
    BY <1>3, <2>2 DEF FrameInvariant, Applying
  <2> QED
    BY <2>2, <2>4, <2>5, <2>6, <2>7
<1>4. FrameInvariant /\ TokenInvariant /\ CheckedInvariant /\ [Next]_vars => [WritesPlanned]_vars
  BY <1>3 DEF WritesPlanned
<1> QED
  BY <1>1, <1>2, <1>4, ServerTyped, PTL DEF Spec, ServerWritesPlanned
===============================================================================
