----------------------------- MODULE SourceProofs -----------------------------
(***************************************************************************)
(* What TLAPS proves of the loops over sources, lines and references: a    *)
(* corpus counts every source once, for any sources, references and        *)
(* startup manifests; the parser finds exactly the state changes of a      *)
(* file, for any lines in any order; and the export has a row of its own   *)
(* for every reference, whatever order the resolver gives them.            *)
(***************************************************************************)
EXTENDS SourceLoading, SourceParser, FunctionTheorems, FiniteSetTheorems, SequenceTheorems, TLAPS

-----------------------------------------------------------------------------
(* Loading *)

Status == {"deduplicated", "resolved", "missing"}

LoadState ==
  [loading : BOOLEAN, root : SourceFile, documents : Seq(SourceFile), seen : SUBSET SourceFile,
   errors : Nat, next : Nat \ {0}]

LoadingType ==
  /\ entries \in Seq(SourceFile)
  /\ corpus \in [seen : SUBSET SourceFile, statuses : Seq(Status), resolved : Nat, errors : Nat]
  /\ load \in LoadState

\* What the first steps of loading s have seen, and the errors they have found: step n
\* comes next.
SeenBefore(s, n) == {s} \cup {FilesOf[s][i] : i \in {j \in DOMAIN FilesOf[s] : j < n}}
StartedBefore(s, n) ==
  {i \in DOMAIN StartupFiles[s] : StartupFiles[s][i] \in Readable /\ i + Len(FilesOf[s]) < n}
ErrorsBefore(s, n) ==
  (UNION {ErrorsAt(0, f) : f \in SeenBefore(s, n) \cap Readable})
    \cup {<<0, f, 1>> : f \in SeenBefore(s, n) \ (Readable \cup Optional)}
    \cup (UNION {ErrorsAt(i, StartupFiles[s][i]) : i \in StartedBefore(s, n)})

\* A workspace that is being loaded has found the errors of the steps behind it.
CountedInv ==
  load.loading =>
    IF load.root \in Readable
    THEN /\ load.next <= Len(References) + Len(Startup) + 1
         /\ load.next <= Len(References) + 1 => load.seen = SeenBefore(load.root, load.next)
         /\ IsFiniteSet(ErrorsBefore(load.root, load.next))
         /\ load.errors = Cardinality(ErrorsBefore(load.root, load.next))
    ELSE load.errors = 1 /\ load.next = 1

\* The documents up to m come from the references, one each, and the others from the
\* startup manifest.
Split(m) ==
  LET documents == load.documents
      last == Len(documents)
  IN /\ \A i, j \in 1..m : documents[i] = documents[j] => i = j
     /\ \A i \in 1..m : /\ documents[i] \in {load.root} \cup SourcesOf(References)
                        /\ load.loading => documents[i] \in load.seen
     /\ \A i \in m + 1..last :
          \E k \in DOMAIN Startup : k + Len(References) < load.next /\ documents[i] = Startup[k]
     /\ \A i, j \in m + 1..last : documents[i] = documents[j] => i = j
     /\ load.next <= Len(References) + 1 => m = last

DocumentsInv == \E m \in 0..Len(load.documents) : Split(m)

\* The status that the list of entries gives its entry i.
StatusAt(list, i) ==
  IF \E j \in 1..i - 1 : list[j] = list[i] THEN "deduplicated"
  ELSE IF Complaints(list[i]) = {} THEN "resolved" ELSE "missing"

\* The sources counted so far are those of the entries, without the one that is loading.
Counted == corpus.seen \ (IF load.loading THEN {load.root} ELSE {})

CorpusInv ==
  /\ corpus.seen = SourcesOf(entries)
  /\ IsFiniteSet(corpus.seen)
  /\ \A s \in Counted : IsFiniteSet(Complaints(s))
  /\ load.loading => /\ entries # <<>>
                     /\ entries[Len(entries)] = load.root
                     /\ \A i \in 1..Len(entries) - 1 : entries[i] # load.root
  /\ corpus.resolved = Cardinality({s \in Counted : Complaints(s) = {}})
  /\ IsFiniteSet(UNION {{s} \X Complaints(s) : s \in Counted})
  /\ corpus.errors = Cardinality(UNION {{s} \X Complaints(s) : s \in Counted})
  /\ Len(corpus.statuses) = Len(entries) - (IF load.loading THEN 1 ELSE 0)
  /\ \A i \in DOMAIN corpus.statuses : corpus.statuses[i] = StatusAt(entries, i)

LoadingInv == LoadingType /\ CountedInv /\ DocumentsInv /\ CorpusInv

\* The errors of a document are as many as it has.
LEMMA ErrorsAtSize ==
  ASSUME NEW place, NEW f \in SourceFile
  PROVE  IsFiniteSet(ErrorsAt(place, f)) /\ Cardinality(ErrorsAt(place, f)) = ErrorsOf[f]
<1> DEFINE F == [n \in 1..ErrorsOf[f] |-> <<place, f, n>>]
<1>1. ErrorsOf[f] \in Nat
  BY SourceAssumption DEF SourceAssumption
<1>2. F \in Bijection(1..ErrorsOf[f], ErrorsAt(place, f))
  <2>1. F \in [1..ErrorsOf[f] -> ErrorsAt(place, f)]
    BY DEF ErrorsAt
  <2>2. \A m, n \in 1..ErrorsOf[f] : F[m] = F[n] => m = n
    OBVIOUS
  <2>3. \A e \in ErrorsAt(place, f) : \E n \in 1..ErrorsOf[f] : F[n] = e
    BY DEF ErrorsAt
  <2> QED
    BY <2>1, <2>2, <2>3 DEF Bijection, Injection, Surjection, IsInjective
<1>3. IsFiniteSet(1..ErrorsOf[f]) /\ Cardinality(1..ErrorsOf[f]) = ErrorsOf[f]
  <2>1. 1 \in Int /\ ErrorsOf[f] \in Int
    BY <1>1
  <2>2. /\ IsFiniteSet(1..ErrorsOf[f])
        /\ Cardinality(1..ErrorsOf[f]) = IF 1 > ErrorsOf[f] THEN 0 ELSE ErrorsOf[f] - 1 + 1
    BY <2>1, FS_Interval
  <2> QED
    BY <1>1, <2>2
<1> HIDE DEF F
<1>4. ExistsBijection(1..ErrorsOf[f], ErrorsAt(place, f))
  BY <1>2 DEF ExistsBijection
<1> QED
  BY <1>3, <1>4, FS_Bijection

\* Two sets that have nothing in common are as many as both together.
LEMMA DisjointSum ==
  ASSUME NEW S, NEW T, IsFiniteSet(S), IsFiniteSet(T), S \cap T = {}
  PROVE  IsFiniteSet(S \cup T) /\ Cardinality(S \cup T) = Cardinality(S) + Cardinality(T)
<1>1. Cardinality(S) \in Nat /\ Cardinality(T) \in Nat
  BY FS_CardinalityType
<1>2. Cardinality(S \cap T) = 0
  BY FS_EmptySet
<1>3. /\ IsFiniteSet(S \cup T)
      /\ Cardinality(S \cup T) = Cardinality(S) + Cardinality(T) - Cardinality(S \cap T)
  BY FS_Union
<1> QED
  BY <1>1, <1>2, <1>3

\* The three kinds of errors.
LEMMA ErrorsKinds ==
  ASSUME NEW s, NEW n, NEW e
  PROVE  e \in ErrorsBefore(s, n) <=>
           \/ \E f \in SeenBefore(s, n) : f \in Readable /\ e \in ErrorsAt(0, f)
           \/ \E f \in SeenBefore(s, n) : f \notin Readable /\ f \notin Optional /\ e = <<0, f, 1>>
           \/ \E i \in StartedBefore(s, n) : e \in ErrorsAt(i, StartupFiles[s][i])
<1> DEFINE Read == UNION {ErrorsAt(0, f) : f \in SeenBefore(s, n) \cap Readable}
           Missing == {<<0, f, 1>> : f \in SeenBefore(s, n) \ (Readable \cup Optional)}
           Started == UNION {ErrorsAt(i, StartupFiles[s][i]) : i \in StartedBefore(s, n)}
<1>1. e \in Read <=> \E f \in SeenBefore(s, n) : f \in Readable /\ e \in ErrorsAt(0, f)
  OBVIOUS
<1>2. e \in Missing <=> \E f \in SeenBefore(s, n) : f \notin Readable /\ f \notin Optional /\ e = <<0, f, 1>>
  OBVIOUS
<1>3. e \in Started <=> \E i \in StartedBefore(s, n) : e \in ErrorsAt(i, StartupFiles[s][i])
  OBVIOUS
<1>4. ErrorsBefore(s, n) = Read \cup Missing \cup Started
  BY DEF ErrorsBefore
<1> HIDE DEF Read, Missing, Started
<1> QED
  BY <1>1, <1>2, <1>3, <1>4

\* Before the first step only the definition file was read.
LEMMA NoErrorsBefore ==
  ASSUME NEW s \in Readable
  PROVE  SeenBefore(s, 1) = {s} /\ ErrorsBefore(s, 1) = ErrorsAt(0, s)
<1>0. s \in SourceFile /\ Len(FilesOf[s]) \in Nat
      /\ DOMAIN FilesOf[s] = 1..Len(FilesOf[s])
      /\ DOMAIN StartupFiles[s] = 1..Len(StartupFiles[s])
  BY SourceAssumption DEF SourceAssumption
<1>1. SeenBefore(s, 1) = {s}
  BY <1>0 DEF SeenBefore
<1>2. StartedBefore(s, 1) = {}
  BY <1>0 DEF StartedBefore
<1> QED
  BY <1>1, <1>2 DEF ErrorsBefore

\* A reference adds the errors of its source if it is the first to it.
LEMMA ReferenceStep ==
  ASSUME NEW s \in Readable, NEW n \in DOMAIN FilesOf[s]
  PROVE  LET f == FilesOf[s][n]
             old == ErrorsBefore(s, n)
             all == ErrorsBefore(s, n + 1)
         IN /\ SeenBefore(s, n + 1) = SeenBefore(s, n) \cup {f}
            /\ all = IF f \in SeenBefore(s, n) THEN old
                     ELSE IF f \in Readable THEN old \cup ErrorsAt(0, f)
                     ELSE IF f \in Optional THEN old ELSE old \cup {<<0, f, 1>>}
            /\ f \notin SeenBefore(s, n) => /\ old \cap ErrorsAt(0, f) = {}
                                            /\ <<0, f, 1>> \notin old
<1> DEFINE f == FilesOf[s][n]
<1>0. /\ s \in SourceFile /\ Len(FilesOf[s]) \in Nat
      /\ DOMAIN FilesOf[s] = 1..Len(FilesOf[s])
      /\ DOMAIN StartupFiles[s] = 1..Len(StartupFiles[s])
  BY SourceAssumption DEF SourceAssumption
<1>1. SeenBefore(s, n + 1) = SeenBefore(s, n) \cup {f}
  BY <1>0 DEF SeenBefore
<1>2. StartedBefore(s, n + 1) = {} /\ StartedBefore(s, n) = {}
  BY <1>0 DEF StartedBefore
<1>3. \A g : g \in SeenBefore(s, n + 1) <=> g \in SeenBefore(s, n) \/ g = f
  BY <1>1
<1> HIDE DEF f
<1>4. ErrorsBefore(s, n + 1) = IF f \in SeenBefore(s, n) THEN ErrorsBefore(s, n)
                     ELSE IF f \in Readable THEN ErrorsBefore(s, n) \cup ErrorsAt(0, f)
                     ELSE IF f \in Optional THEN ErrorsBefore(s, n)
                     ELSE ErrorsBefore(s, n) \cup {<<0, f, 1>>}
  <2>1. CASE f \in SeenBefore(s, n)
    BY <1>2, <1>3, <2>1, ErrorsKinds
  <2>2. CASE f \notin SeenBefore(s, n) /\ f \in Readable
    BY <1>2, <1>3, <2>2, ErrorsKinds
  <2>3. CASE f \notin SeenBefore(s, n) /\ f \notin Readable
    <3>1. \A e : e \in ErrorsBefore(s, n + 1) <=>
                    \/ e \in ErrorsBefore(s, n)
                    \/ f \notin Optional /\ e = <<0, f, 1>>
      <4> TAKE e
      <4> QED
        BY <1>2, <1>3, <2>3, ErrorsKinds
    <3> QED
      BY <2>3, <3>1
  <2> QED
    BY <2>1, <2>2, <2>3
<1>5. \A e \in ErrorsBefore(s, n) : e[2] \in SeenBefore(s, n)
  BY <1>2, ErrorsKinds DEF ErrorsAt
<1>6. \A e \in ErrorsAt(0, f) \cup {<<0, f, 1>>} : e[2] = f
  BY DEF ErrorsAt
<1> QED
  BY <1>1, <1>4, <1>5, <1>6 DEF f

\* A file of the startup manifest adds its errors at its own place.
LEMMA StartupStep ==
  ASSUME NEW s \in Readable, NEW i \in DOMAIN StartupFiles[s]
  PROVE  LET f == StartupFiles[s][i]
             n == Len(FilesOf[s]) + i
             old == ErrorsBefore(s, n)
         IN /\ ErrorsBefore(s, n + 1) = IF f \in Readable THEN old \cup ErrorsAt(i, f) ELSE old
            /\ old \cap ErrorsAt(i, f) = {}
<1> DEFINE f == StartupFiles[s][i]
           n == Len(FilesOf[s]) + i
<1>0. /\ s \in SourceFile /\ Len(FilesOf[s]) \in Nat
      /\ DOMAIN FilesOf[s] = 1..Len(FilesOf[s])
      /\ Len(StartupFiles[s]) \in Nat
      /\ DOMAIN StartupFiles[s] = 1..Len(StartupFiles[s])
  BY SourceAssumption DEF SourceAssumption
<1>1. SeenBefore(s, n + 1) = SeenBefore(s, n)
  BY <1>0 DEF SeenBefore
<1>2. StartedBefore(s, n + 1) = StartedBefore(s, n) \cup (IF f \in Readable THEN {i} ELSE {})
  BY <1>0 DEF StartedBefore
<1>3. i \notin StartedBefore(s, n) /\ 0 # i
  BY <1>0 DEF StartedBefore
<1>5. \A e \in ErrorsBefore(s, n) : e[1] # i
  BY <1>3, ErrorsKinds DEF ErrorsAt
<1>6. \A e \in ErrorsAt(i, f) : e[1] = i
  BY DEF ErrorsAt
<1>7. ErrorsBefore(s, n + 1) =
        ErrorsBefore(s, n) \cup (IF f \in Readable THEN ErrorsAt(i, f) ELSE {})
  BY <1>1, <1>2, ErrorsKinds
<1> QED
  BY <1>5, <1>6, <1>7

\* After the last step all errors have been found.
LEMMA AllErrorsBefore ==
  ASSUME NEW s \in Readable
  PROVE  ErrorsBefore(s, Len(FilesOf[s]) + Len(StartupFiles[s]) + 1) = Complaints(s)
<1>0. /\ s \in SourceFile /\ Len(FilesOf[s]) \in Nat
      /\ DOMAIN FilesOf[s] = 1..Len(FilesOf[s])
      /\ Len(StartupFiles[s]) \in Nat
      /\ DOMAIN StartupFiles[s] = 1..Len(StartupFiles[s])
  BY SourceAssumption DEF SourceAssumption
<1> DEFINE files == Len(FilesOf[s])
           started == Len(StartupFiles[s])
           n == files + started + 1
<1>a. /\ files \in Nat /\ started \in Nat
      /\ DOMAIN FilesOf[s] = 1..files /\ DOMAIN StartupFiles[s] = 1..started
  BY <1>0
<1> HIDE DEF files, started
<1>1. SeenBefore(s, n) = {s} \cup SourcesOf(FilesOf[s])
  <2>1. \A j \in DOMAIN FilesOf[s] : j < n
    BY <1>a
  <2>2. {j \in DOMAIN FilesOf[s] : j < n} = DOMAIN FilesOf[s]
    BY <2>1
  <2> QED
    BY <2>2 DEF SeenBefore, SourcesOf
<1>2. StartedBefore(s, n) = {i \in DOMAIN StartupFiles[s] : StartupFiles[s][i] \in Readable}
  <2>1. \A i \in DOMAIN StartupFiles[s] : i + files < n
    BY <1>a
  <2> QED
    BY <2>1 DEF StartedBefore, files
<1> QED
  BY <1>1, <1>2 DEF ErrorsBefore, Complaints, files, started

\* The lists that a workspace goes through.
LEMMA ListsOfRoot ==
  ASSUME LoadingType
  PROVE  /\ References \in Seq(SourceFile) /\ Startup \in Seq(SourceFile)
         /\ Len(References) \in Nat /\ DOMAIN References = 1..Len(References)
         /\ Len(Startup) \in Nat /\ DOMAIN Startup = 1..Len(Startup)
         /\ \A i, j \in DOMAIN Startup : Startup[i] = Startup[j] => i = j
         /\ load.root \notin Readable => Len(References) = 0 /\ Len(Startup) = 0
         /\ load.root \in Readable => References = FilesOf[load.root] /\ Startup = StartupFiles[load.root]
<1>1. load.root \in SourceFile
  BY DEF LoadingType, LoadState
<1>2. CASE load.root \in Readable
  BY <1>1, <1>2, SourceAssumption DEF SourceAssumption, References, Startup
<1>3. CASE load.root \notin Readable
  BY <1>3 DEF References, Startup
<1> QED
  BY <1>2, <1>3

\* Nothing is loaded at first.
LEMMA LoadingStart == LoadingInit => LoadingInv
<1> SUFFICES ASSUME LoadingInit PROVE LoadingInv
  OBVIOUS
<1> USE DEF LoadingInit, NoWorkspace
<1>1. LoadingType
  BY DEF LoadingType, LoadState
<1>2. CountedInv
  BY DEF CountedInv
<1>3. DocumentsInv
  <2>1. Len(load.documents) = 0
    OBVIOUS
  <2>2. Split(0)
    BY <2>1 DEF Split
  <2> QED
    BY <2>1, <2>2 DEF DocumentsInv
<1>4. CorpusInv
  <2>1. SourcesOf(entries) = {} /\ Len(entries) = 0
    BY DEF SourcesOf
  <2>2. Counted = {}
    BY DEF Counted
  <2>3. {t \in Counted : Complaints(t) = {}} = {} /\ UNION {{t} \X Complaints(t) : t \in Counted} = {}
    BY <2>2
  <2>4. IsFiniteSet({}) /\ Cardinality({}) = 0
    BY FS_EmptySet
  <2>5. corpus.seen = {} /\ corpus.errors = 0 /\ corpus.resolved = 0 /\ ~load.loading
    OBVIOUS
  <2>6. Len(corpus.statuses) = 0 /\ DOMAIN corpus.statuses = {}
    OBVIOUS
  <2>7. /\ Cardinality({t \in Counted : Complaints(t) = {}}) = 0
        /\ IsFiniteSet(UNION {{t} \X Complaints(t) : t \in Counted})
        /\ Cardinality(UNION {{t} \X Complaints(t) : t \in Counted}) = 0
    BY <2>3, <2>4
  <2> HIDE DEF LoadingInit, NoWorkspace
  <2>8. \A s \in Counted : IsFiniteSet(Complaints(s))
    BY <2>2
  <2>9. \A i \in DOMAIN corpus.statuses : corpus.statuses[i] = StatusAt(entries, i)
    BY <2>6
  <2>a. corpus.seen = SourcesOf(entries) /\ IsFiniteSet(corpus.seen)
    BY <2>1, <2>4, <2>5
  <2>b. Len(corpus.statuses) = Len(entries) - (IF load.loading THEN 1 ELSE 0)
    BY DEF LoadingInit, NoWorkspace
  <2> QED
    BY <2>5, <2>7, <2>8, <2>9, <2>a, <2>b DEF CorpusInv
<1> QED
  BY <1>1, <1>2, <1>3, <1>4 DEF LoadingInv

\* A source that is loaded is one more document.
LEMMA LoadTyped ==
  ASSUME NEW w \in LoadState, NEW s \in SourceFile
  PROVE  AddDocument(w, s) \in LoadState /\ Load(w, s) \in LoadState
<1>1. ErrorsOf[s] \in Nat
  BY SourceAssumption DEF SourceAssumption
<1>2. AddDocument(w, s) \in LoadState
  <2>1. Append(w.documents, s) \in Seq(SourceFile)
    BY DEF LoadState
  <2>2. w.errors + ErrorsOf[s] \in Nat /\ w.seen \cup {s} \subseteq SourceFile
    BY <1>1 DEF LoadState
  <2> QED
    BY <2>1, <2>2 DEF AddDocument, LoadState
<1> DEFINE more == IF s \in Optional THEN 0 ELSE 1
<1>3. [w EXCEPT !.seen = @ \cup {s}, !.errors = @ + more] \in LoadState
  <2>1. more \in Nat
    OBVIOUS
  <2> HIDE DEF more
  <2>2. w.errors + more \in Nat /\ w.seen \cup {s} \subseteq SourceFile
    BY <2>1 DEF LoadState
  <2> QED
    BY <2>2 DEF LoadState
<1> QED
  BY <1>2, <1>3 DEF Load

\* The types of what is loaded and counted.
LEMMA LoadingTypeKept == LoadingType /\ [LoadingNext]_loadvars => LoadingType'
<1> SUFFICES ASSUME LoadingType, [LoadingNext]_loadvars PROVE LoadingType'
  OBVIOUS
<1>0. load \in LoadState
  BY DEF LoadingType
<1>a. \A w \in LoadState : [w EXCEPT !.next = @ + 1] \in LoadState
  BY DEF LoadState
<1>1. CASE LoadReference
  <2>1. References[load.next] \in SourceFile
    BY <1>0, <1>1, ListsOfRoot DEF LoadReference, LoadState
  <2>2. load' \in LoadState
    BY <1>0, <1>a, <1>1, <2>1, LoadTyped DEF LoadReference
  <2> QED
    BY <1>1, <2>2 DEF LoadReference, LoadingType
<1>2. CASE LoadStartupFile
  <2> DEFINE f == Startup[load.next - Len(References)]
             w == IF f \in Readable THEN AddDocument(load, f) ELSE load
  <2>1. f \in SourceFile
    BY <1>0, <1>2, ListsOfRoot DEF LoadStartupFile, LoadState
  <2>2. w \in LoadState
    BY <1>0, <2>1, LoadTyped
  <2>3. load' = [w EXCEPT !.next = @ + 1]
    BY <1>2 DEF LoadStartupFile
  <2> HIDE DEF w
  <2>4. load' \in LoadState
    BY <1>a, <2>2, <2>3
  <2> QED
    BY <1>2, <2>4 DEF LoadStartupFile, LoadingType
<1>3. CASE CountSource
  <2>1. load' \in LoadState
    BY <1>0, <1>3 DEF CountSource, LoadState
  <2> DEFINE resolved == load.errors = 0
             status == IF resolved THEN "resolved" ELSE "missing"
             more == IF resolved THEN 1 ELSE 0
  <2>2. /\ status \in Status /\ more \in Nat
        /\ corpus' = [corpus EXCEPT !.statuses = Append(@, status), !.resolved = @ + more,
                                    !.errors = @ + load.errors]
    BY <1>3 DEF CountSource, Status
  <2>3. load.errors \in Nat
    BY <1>0 DEF LoadState
  <2> HIDE DEF status, more, resolved
  <2>4. Append(corpus.statuses, status) \in Seq(Status)
    BY <2>2 DEF LoadingType
  <2>5. corpus.resolved + more \in Nat /\ corpus.errors + load.errors \in Nat
    BY <2>2, <2>3 DEF LoadingType
  <2>6. corpus' \in [seen : SUBSET SourceFile, statuses : Seq(Status), resolved : Nat, errors : Nat]
    BY <2>2, <2>4, <2>5 DEF LoadingType
  <2> QED
    BY <1>3, <2>1, <2>6 DEF CountSource, LoadingType
<1>4. ASSUME NEW s \in SourceFile, EnterSource(s) PROVE LoadingType'
  <2>1. ErrorsOf[s] \in Nat
    BY SourceAssumption DEF SourceAssumption
  <2>2. OpenRoot(s) \in LoadState
    <3>1. <<s>> \in Seq(SourceFile) /\ <<>> \in Seq(SourceFile) /\ {s} \subseteq SourceFile
      OBVIOUS
    <3>2. NoWorkspace(s) \in LoadState
      BY <3>1 DEF NoWorkspace, LoadState
    <3> QED
      BY <2>1, <3>1, <3>2 DEF OpenRoot, LoadState
  <2>3. load' \in LoadState
    BY <1>0, <1>4, <2>2 DEF EnterSource
  <2>4. entries' \in Seq(SourceFile)
    BY <1>4 DEF EnterSource, LoadingType
  <2>5. Append(corpus.statuses, "deduplicated") \in Seq(Status) /\ corpus.seen \cup {s} \subseteq SourceFile
    BY DEF LoadingType, Status
  <2>6. CASE s \in corpus.seen
    BY <1>4, <2>3, <2>4, <2>5, <2>6 DEF EnterSource, LoadingType
  <2>7. CASE s \notin corpus.seen
    BY <1>4, <2>3, <2>4, <2>5, <2>7 DEF EnterSource, LoadingType
  <2> QED
    BY <2>6, <2>7
<1>5. CASE UNCHANGED loadvars
  BY <1>5 DEF loadvars, LoadingType
<1> QED
  BY <1>1, <1>2, <1>3, <1>4, <1>5 DEF LoadingNext

\* The errors of the steps behind a workspace stay counted.
LEMMA CountedKept ==
  LoadingType /\ LoadingType' /\ CountedInv /\ [LoadingNext]_loadvars => CountedInv'
<1> SUFFICES ASSUME LoadingType, LoadingType', CountedInv, [LoadingNext]_loadvars PROVE CountedInv'
  OBVIOUS
<1>0. ErrorsOf \in [SourceFile -> Nat] /\ Readable \subseteq SourceFile
  BY SourceAssumption DEF SourceAssumption
<1> DEFINE root == load.root
           n == load.next
<1>a. root \in SourceFile /\ n \in Nat \ {0} /\ load.errors \in Nat /\ load.loading \in BOOLEAN
  BY DEF LoadingType, LoadState
<1>1. CASE LoadReference
  <2> DEFINE f == References[n]
  <2>1. root \in Readable /\ n \in DOMAIN FilesOf[root] /\ f = FilesOf[root][n] /\ f \in SourceFile
    BY <1>1, <1>a, ListsOfRoot DEF LoadReference
  <2>2. /\ load.seen = SeenBefore(root, n) /\ IsFiniteSet(ErrorsBefore(root, n))
        /\ load.errors = Cardinality(ErrorsBefore(root, n))
    BY <1>1, <1>a, <2>1, ListsOfRoot DEF LoadReference, CountedInv
  <2>3. load'.loading /\ load'.root = root /\ load'.next = n + 1 /\ n <= Len(References)
    BY <1>1 DEF LoadReference, Load, AddDocument, LoadingType
  <2>4. References' = References /\ Startup' = Startup
    BY <2>3 DEF References, Startup
  <2>5. /\ load'.seen = load.seen \cup {f}
        /\ load'.errors = IF f \in load.seen THEN load.errors
                          ELSE IF f \in Readable THEN load.errors + ErrorsOf[f]
                          ELSE IF f \in Optional THEN load.errors ELSE load.errors + 1
    BY <1>1, <1>a DEF LoadReference, Load, AddDocument, LoadingType
  <2> HIDE DEF f, root, n
  <2>6. /\ SeenBefore(root, n + 1) = SeenBefore(root, n) \cup {f}
        /\ ErrorsBefore(root, n + 1) =
              IF f \in SeenBefore(root, n) THEN ErrorsBefore(root, n)
              ELSE IF f \in Readable THEN ErrorsBefore(root, n) \cup ErrorsAt(0, f)
              ELSE IF f \in Optional THEN ErrorsBefore(root, n)
              ELSE ErrorsBefore(root, n) \cup {<<0, f, 1>>}
        /\ f \notin SeenBefore(root, n) => /\ ErrorsBefore(root, n) \cap ErrorsAt(0, f) = {}
                                           /\ <<0, f, 1>> \notin ErrorsBefore(root, n)
    BY <2>1, ReferenceStep
  <2>7. /\ IsFiniteSet(ErrorsBefore(root, n + 1))
        /\ load'.errors = Cardinality(ErrorsBefore(root, n + 1))
    <3>1. CASE f \in SeenBefore(root, n) \/ (f \notin Readable /\ f \in Optional)
      BY <2>2, <2>5, <2>6, <3>1
    <3>2. CASE f \notin SeenBefore(root, n) /\ f \in Readable
      BY <2>1, <2>2, <2>5, <2>6, <3>2, ErrorsAtSize, DisjointSum
    <3>3. CASE f \notin SeenBefore(root, n) /\ f \notin Readable /\ f \notin Optional
      BY <2>2, <2>5, <2>6, <3>3, FS_AddElement
    <3> QED
      BY <3>1, <3>2, <3>3
  <2>8. n + 1 <= Len(References) + Len(Startup) + 1
    BY <1>a, <2>3, ListsOfRoot DEF n
  <2> QED
    BY <2>1, <2>2, <2>3, <2>4, <2>5, <2>6, <2>7, <2>8 DEF CountedInv, root
<1>2. CASE LoadStartupFile
  <2> DEFINE i == n - Len(References)
             f == Startup[i]
  <2>1. /\ root \in Readable /\ i \in DOMAIN StartupFiles[root] /\ f = StartupFiles[root][i]
        /\ f \in SourceFile /\ n = Len(FilesOf[root]) + i /\ i > 0
    BY <1>2, <1>a, ListsOfRoot DEF LoadStartupFile
  <2>2. /\ IsFiniteSet(ErrorsBefore(root, n)) /\ load.errors = Cardinality(ErrorsBefore(root, n))
    BY <1>2, <2>1 DEF LoadStartupFile, CountedInv
  <2>3. load'.loading /\ load'.root = root /\ load'.next = n + 1
    BY <1>2 DEF LoadStartupFile, AddDocument, LoadingType
  <2>4. References' = References /\ Startup' = Startup
    BY <2>3 DEF References, Startup
  <2>5. load'.errors = IF f \in Readable THEN load.errors + ErrorsOf[f] ELSE load.errors
    BY <1>2, <1>a DEF LoadStartupFile, AddDocument, LoadingType
  <2>6. ~(n + 1 <= Len(References) + 1) /\ n + 1 <= Len(References) + Len(Startup) + 1
    BY <1>2, <1>a, ListsOfRoot DEF LoadStartupFile
  <2> HIDE DEF f, i, root, n
  <2>7. /\ ErrorsBefore(root, n + 1) =
              IF f \in Readable THEN ErrorsBefore(root, n) \cup ErrorsAt(i, f) ELSE ErrorsBefore(root, n)
        /\ ErrorsBefore(root, n) \cap ErrorsAt(i, f) = {}
    BY <2>1, StartupStep
  <2>8. /\ IsFiniteSet(ErrorsBefore(root, n + 1))
        /\ load'.errors = Cardinality(ErrorsBefore(root, n + 1))
    <3>1. CASE f \notin Readable
      BY <2>2, <2>5, <2>7, <3>1
    <3>2. CASE f \in Readable
      BY <2>1, <2>2, <2>5, <2>7, <3>2, ErrorsAtSize, DisjointSum
    <3> QED
      BY <3>1, <3>2
  <2> QED
    BY <2>1, <2>3, <2>4, <2>6, <2>8 DEF CountedInv, root
<1>3. CASE CountSource
  BY <1>3 DEF CountSource, CountedInv, LoadingType
<1>4. ASSUME NEW s \in SourceFile, EnterSource(s) PROVE CountedInv'
  <2>1. CASE s \in corpus.seen
    BY <1>4, <2>1 DEF EnterSource, CountedInv
  <2>2. CASE s \notin corpus.seen /\ s \notin Readable
    BY <1>4, <2>2 DEF EnterSource, OpenRoot, NoWorkspace, CountedInv
  <2>3. CASE s \notin corpus.seen /\ s \in Readable
    <3>1. /\ load'.loading /\ load'.root = s /\ load'.next = 1 /\ load'.seen = {s}
          /\ load'.errors = ErrorsOf[s]
      BY <1>4, <2>3 DEF EnterSource, OpenRoot, NoWorkspace
    <3>2. /\ SeenBefore(s, 1) = {s} /\ IsFiniteSet(ErrorsBefore(s, 1))
          /\ Cardinality(ErrorsBefore(s, 1)) = ErrorsOf[s]
      BY <2>3, NoErrorsBefore, ErrorsAtSize
    <3>3. Len(References') \in Nat /\ Len(Startup') \in Nat
      BY <2>3, <3>1, <1>0, SourceAssumption DEF SourceAssumption, References, Startup
    <3> QED
      BY <2>3, <3>1, <3>2, <3>3 DEF CountedInv
  <2> QED
    BY <2>1, <2>2, <2>3
<1>5. CASE UNCHANGED loadvars
  BY <1>5 DEF loadvars, CountedInv, References, Startup
<1> QED
  BY <1>1, <1>2, <1>3, <1>4, <1>5 DEF LoadingNext

\* Where a document of a workspace comes from is not lost.
LEMMA DocumentsKept ==
  LoadingType /\ LoadingType' /\ DocumentsInv /\ [LoadingNext]_loadvars => DocumentsInv'
<1> SUFFICES ASSUME LoadingType, LoadingType', DocumentsInv, [LoadingNext]_loadvars
             PROVE  DocumentsInv'
  OBVIOUS
<1> PICK m \in 0..Len(load.documents) : Split(m)
  BY DEF DocumentsInv
<1> DEFINE last == Len(load.documents)
           n == load.next
<1>a. /\ load.documents \in Seq(SourceFile) /\ last \in Nat /\ n \in Nat \ {0} /\ m \in 0..last
      /\ DOMAIN load.documents = 1..last
  BY DEF LoadingType, LoadState
<1>b. /\ \A i, j \in 1..m : load.documents[i] = load.documents[j] => i = j
      /\ \A i \in 1..m : /\ load.documents[i] \in {load.root} \cup SourcesOf(References)
                         /\ load.loading => load.documents[i] \in load.seen
      /\ \A i \in m + 1..last :
           \E k \in DOMAIN Startup : k + Len(References) < n /\ load.documents[i] = Startup[k]
      /\ \A i, j \in m + 1..last : load.documents[i] = load.documents[j] => i = j
      /\ n <= Len(References) + 1 => m = last
  BY DEF Split
<1>1. CASE LoadReference
  <2> DEFINE f == References[n]
  <2>1. load'.root = load.root /\ load'.next = n + 1 /\ load'.loading /\ load.loading
    BY <1>1 DEF LoadReference, Load, AddDocument, LoadingType
  <2>2. References' = References /\ Startup' = Startup
    BY <2>1 DEF References, Startup
  <2>3. f \in SourcesOf(References) /\ n <= Len(References)
    BY <1>1, <1>a, ListsOfRoot DEF LoadReference, SourcesOf
  <2>4. m = last
    BY <1>a, <2>3, ListsOfRoot DEF Split
  <2>5. load'.seen = load.seen \cup {f}
    BY <1>1 DEF LoadReference, Load, AddDocument, LoadingType
  <2>6. CASE f \in load.seen \/ f \notin Readable
    <3>1. load'.documents = load.documents
      BY <1>1, <2>6 DEF LoadReference, Load, LoadingType
    <3>2. Split(m)'
      BY <1>a, <2>1, <2>2, <2>4, <2>5, <3>1, ListsOfRoot DEF Split
    <3> QED
      BY <3>1, <3>2 DEF DocumentsInv
  <2>7. CASE f \notin load.seen /\ f \in Readable
    <3>1. load'.documents = Append(load.documents, f)
      BY <1>1, <2>7 DEF LoadReference, Load, AddDocument, LoadingType
    <3>2. /\ Len(load'.documents) = last + 1 /\ load'.documents[last + 1] = f
          /\ \A i \in 1..last : load'.documents[i] = load.documents[i]
      BY <1>a, <2>3, <3>1
    <3>3. \A i \in 1..last : load.documents[i] \in load.seen
      BY <1>b, <2>1, <2>4
    <3>4. \A i, j \in 1..last + 1 : load'.documents[i] = load'.documents[j] => i = j
      <4> TAKE i, j \in 1..last + 1
      <4> HIDE DEF last, f
      <4>1. \A k \in 1..last + 1 : k = last + 1 \/ k \in 1..last
        BY <1>a
      <4> QED
        BY <1>b, <2>4, <2>7, <3>2, <3>3, <4>1
    <3>5. \A i \in 1..last + 1 : /\ load'.documents[i] \in {load.root} \cup SourcesOf(References)
                                 /\ load'.documents[i] \in load'.seen
      <4> TAKE i \in 1..last + 1
      <4>1. CASE i = last + 1
        BY <2>3, <2>5, <3>2, <4>1
      <4>2. CASE i \in 1..last
        <5> HIDE DEF last, f, n
        <5>1. load'.documents[i] = load.documents[i]
          BY <3>2, <4>2
        <5>2. load.documents[i] \in {load.root} \cup SourcesOf(References)
          BY <1>b, <2>4, <4>2
        <5>3. load.documents[i] \in load.seen
          BY <3>3, <4>2
        <5> QED
          BY <2>5, <5>1, <5>2, <5>3
      <4>3. i = last + 1 \/ i \in 1..last
        BY <1>a
      <4> QED
        BY <4>1, <4>2, <4>3
    <3>6. PICK all \in Nat : all = last + 1
      BY <1>a
    <3>7. \A i \in all + 1..last + 1 : FALSE
      BY <1>a, <3>6
    <3> HIDE DEF last, f, n
    <3>8. Split(all)'
      BY <2>1, <2>2, <3>2, <3>4, <3>5, <3>6, <3>7 DEF Split
    <3> QED
      BY <3>2, <3>6, <3>8 DEF DocumentsInv
  <2> QED
    BY <2>6, <2>7
<1>2. CASE LoadStartupFile
  <2> DEFINE k == n - Len(References)
             f == Startup[k]
  <2>1. /\ load'.root = load.root /\ load'.next = n + 1 /\ load'.loading /\ load.loading
        /\ load'.documents = IF f \in Readable THEN Append(load.documents, f) ELSE load.documents
        /\ load.seen \subseteq load'.seen
    BY <1>2 DEF LoadStartupFile, AddDocument, LoadingType
  <2>2. References' = References /\ Startup' = Startup
    BY <2>1 DEF References, Startup
  <2>4. Len(References) \in Nat /\ DOMAIN Startup \subseteq Nat
    BY ListsOfRoot
  <2>3. k \in DOMAIN Startup /\ k + Len(References) = n /\ ~(n + 1 <= Len(References) + 1)
    <3>1. n > Len(References) /\ n <= Len(References) + Len(Startup)
      BY <1>2 DEF LoadStartupFile
    <3>2. Len(Startup) \in Nat /\ DOMAIN Startup = 1..Len(Startup)
      BY ListsOfRoot
    <3> HIDE DEF n, last, f
    <3> QED
      BY <1>a, <2>4, <3>1, <3>2
  <2>5. \A i \in m + 1..last : /\ load.documents[i] # f
                               /\ \E j \in DOMAIN Startup : j + Len(References) < n + 1
                                                            /\ load.documents[i] = Startup[j]
    <3> TAKE i \in m + 1..last
    <3>1. PICK j \in DOMAIN Startup : j + Len(References) < n /\ load.documents[i] = Startup[j]
      BY DEF Split
    <3>2. j # k /\ j + Len(References) < n + 1
      BY <1>a, <2>3, <2>4, <3>1
    <3> QED
      BY <2>3, <3>1, <3>2, ListsOfRoot
  <2>6. CASE f \notin Readable
    <3>1. load'.documents = load.documents
      BY <2>1, <2>6
    <3>2. \A i \in 1..m : load.documents[i] \in load'.seen
      BY <1>b, <2>1
    <3>3. \A i \in m + 1..last :
            \E x \in DOMAIN Startup' : x + Len(References') < load'.next
                                         /\ load'.documents[i] = Startup'[x]
      BY <2>1, <2>2, <2>5, <3>1
    <3>4. ~(load'.next <= Len(References') + 1)
      BY <2>1, <2>2, <2>3
    <3>a. /\ \A i, j \in 1..m : load'.documents[i] = load'.documents[j] => i = j
          /\ \A i, j \in m + 1..last : load'.documents[i] = load'.documents[j] => i = j
      BY <1>b, <3>1
    <3>b. \A i \in 1..m : /\ load'.documents[i] \in {load'.root} \cup SourcesOf(References')
                          /\ load'.documents[i] \in load'.seen
      BY <1>b, <2>1, <2>2, <3>1, <3>2
    <3>c. Len(load'.documents) = last
      BY <3>1
    <3> HIDE DEF k, f, n, last
    <3>5. Split(m)'
      BY <3>3, <3>4, <3>a, <3>b, <3>c DEF Split
    <3> QED
      BY <3>1, <3>5 DEF DocumentsInv
  <2>7. CASE f \in Readable
    <3>2. /\ Len(load'.documents) = last + 1 /\ load'.documents[last + 1] = f
          /\ \A i \in 1..last : load'.documents[i] = load.documents[i]
      BY <1>a, <2>1, <2>7
    <3>3. \A i, j \in 1..m : load'.documents[i] = load'.documents[j] => i = j
      <4> TAKE i, j \in 1..m
      <4> HIDE DEF last, f, n, k
      <4>1. i \in 1..last /\ j \in 1..last
        BY <1>a
      <4> QED
        BY <1>b, <3>2, <4>1
    <3>4. \A i \in 1..m : /\ load'.documents[i] \in {load.root} \cup SourcesOf(References)
                          /\ load'.documents[i] \in load'.seen
      <4> TAKE i \in 1..m
      <4> HIDE DEF last, f, n, k
      <4>1. load'.documents[i] = load.documents[i]
        BY <1>a, <3>2
      <4> QED
        BY <1>b, <2>1, <4>1
    <3>5. \A i \in m + 1..last + 1 :
            \E j \in DOMAIN Startup : j + Len(References) < n + 1 /\ load'.documents[i] = Startup[j]
      <4> TAKE i \in m + 1..last + 1
      <4>1. CASE i = last + 1
        <5>1. k + Len(References) < n + 1
          <6> HIDE DEF k, n
          <6> QED
            BY <1>a, <2>3
        <5>2. load'.documents[i] = Startup[k]
          BY <3>2, <4>1
        <5> QED
          BY <2>3, <5>1, <5>2
      <4>2. CASE i \in m + 1..last
        <5> HIDE DEF last, k, n, f
        <5>1. i \in 1..last
          BY <1>a, <4>2
        <5> QED
          BY <2>5, <3>2, <4>2, <5>1
      <4> QED
        BY <1>a, <4>1, <4>2
    <3>6. \A i, j \in m + 1..last + 1 : load'.documents[i] = load'.documents[j] => i = j
      <4> TAKE i, j \in m + 1..last + 1
      <4> HIDE DEF last, f
      <4>1. \A l \in m + 1..last + 1 : l = last + 1 \/ (l \in m + 1..last /\ l \in 1..last)
        BY <1>a
      <4> QED
        BY <1>b, <2>5, <3>2, <4>1
    <3>8. m \in 0..Len(load'.documents)
      BY <1>a, <3>2
    <3>9. ~(load'.next <= Len(References') + 1)
      BY <2>1, <2>2, <2>3
    <3>10. /\ \A i \in 1..m : load'.documents[i] \in {load'.root} \cup SourcesOf(References')
           /\ \A i \in m + 1..last + 1 :
                \E x \in DOMAIN Startup' : x + Len(References') < load'.next
                                             /\ load'.documents[i] = Startup'[x]
      BY <2>1, <2>2, <3>4, <3>5
    <3> HIDE DEF last, f, n, k
    <3>7. Split(m)'
      BY <3>2, <3>3, <3>4, <3>6, <3>9, <3>10 DEF Split
    <3> QED
      BY <3>7, <3>8 DEF DocumentsInv
  <2> QED
    BY <2>6, <2>7
<1>3. CASE CountSource
  <2>1. /\ load'.root = load.root /\ load'.next = n /\ ~load'.loading
        /\ load'.documents = load.documents
    BY <1>3 DEF CountSource, LoadingType, LoadState
  <2>2. References' = References /\ Startup' = Startup
    BY <2>1 DEF References, Startup
  <2> HIDE DEF last, n
  <2>3. Split(m)'
    <3>1. /\ \A i, j \in 1..m : load'.documents[i] = load'.documents[j] => i = j
          /\ \A i \in 1..m : load'.documents[i] \in {load'.root} \cup SourcesOf(References')
      BY <1>b, <2>1, <2>2
    <3>2. /\ Len(load'.documents) = last
          /\ \A i \in m + 1..last :
               \E x \in DOMAIN Startup' : x + Len(References') < load'.next
                                            /\ load'.documents[i] = Startup'[x]
          /\ \A i, j \in m + 1..last : load'.documents[i] = load'.documents[j] => i = j
          /\ load'.next <= Len(References') + 1 => m = last
      BY <1>b, <2>1, <2>2 DEF last
    <3> QED
      BY <2>1, <3>1, <3>2 DEF Split
  <2> QED
    BY <2>1, <2>3 DEF DocumentsInv
<1>4. ASSUME NEW s \in SourceFile, EnterSource(s) PROVE DocumentsInv'
  <2>1. CASE s \in corpus.seen
    <3>1. load' = load
      BY <1>4, <2>1 DEF EnterSource
    <3>2. Split(m)'
      BY <3>1 DEF Split, References, Startup
    <3> QED
      BY <3>1, <3>2 DEF DocumentsInv
  <2>2. CASE s \notin corpus.seen /\ s \notin Readable
    <3>1. load'.documents = <<>>
      BY <1>4, <2>2 DEF EnterSource, OpenRoot, NoWorkspace
    <3>2. Len(load'.documents) = 0
      BY <3>1
    <3>3. Split(0)'
      BY <3>2 DEF Split
    <3> QED
      BY <3>2, <3>3 DEF DocumentsInv
  <2>3. CASE s \notin corpus.seen /\ s \in Readable
    <3>1. load'.root = s /\ load'.seen = {s} /\ load'.documents = <<s>>
      BY <1>4, <2>3 DEF EnterSource, OpenRoot, NoWorkspace
    <3>2. Len(load'.documents) = 1 /\ load'.documents[1] = s
      BY <3>1
    <3>3. Split(1)'
      BY <3>1, <3>2 DEF Split
    <3> QED
      BY <3>2, <3>3 DEF DocumentsInv
  <2> QED
    BY <2>1, <2>2, <2>3
<1>5. CASE UNCHANGED loadvars
  <2>1. load' = load
    BY <1>5 DEF loadvars
  <2>2. Split(m)'
    BY <2>1 DEF Split, References, Startup
  <2> QED
    BY <2>1, <2>2 DEF DocumentsInv
<1> QED
  BY <1>1, <1>2, <1>3, <1>4, <1>5 DEF LoadingNext

\* The errors of one source, marked with it, are as many as its errors.
LEMMA MarkedSize ==
  ASSUME NEW s, NEW S, IsFiniteSet(S)
  PROVE  IsFiniteSet({s} \X S) /\ Cardinality({s} \X S) = Cardinality(S)
<1> DEFINE F == [e \in S |-> <<s, e>>]
<1>1. F \in Bijection(S, {s} \X S)
  <2>1. F \in [S -> {s} \X S]
    OBVIOUS
  <2>2. \A d, e \in S : F[d] = F[e] => d = e
    OBVIOUS
  <2>3. \A p \in {s} \X S : \E e \in S : F[e] = p
    OBVIOUS
  <2> QED
    BY <2>1, <2>2, <2>3 DEF Bijection, Injection, Surjection, IsInjective
<1> HIDE DEF F
<1>2. ExistsBijection(S, {s} \X S)
  BY <1>1 DEF ExistsBijection
<1> QED
  BY <1>2, FS_Bijection

\* A workspace that is loaded has found all its errors.
LEMMA AllErrorsFound ==
  ASSUME LoadingType, CountedInv, load.loading, load.next > Len(References) + Len(Startup)
  PROVE  IsFiniteSet(Complaints(load.root)) /\ load.errors = Cardinality(Complaints(load.root))
<1>1. CASE load.root \in Readable
  <2>1. load.next = Len(FilesOf[load.root]) + Len(StartupFiles[load.root]) + 1
    <3>1. load.next \in Nat /\ load.next <= Len(References) + Len(Startup) + 1
      BY <1>1 DEF CountedInv, LoadingType, LoadState
    <3>2. load.next = Len(References) + Len(Startup) + 1
      BY <3>1, ListsOfRoot
    <3> QED
      BY <1>1, <3>2, ListsOfRoot
  <2>2. ErrorsBefore(load.root, load.next) = Complaints(load.root)
    BY <1>1, <2>1, AllErrorsBefore
  <2> QED
    BY <1>1, <2>2 DEF CountedInv
<1>2. CASE load.root \notin Readable
  <2>1. Complaints(load.root) = {} \cup {<<0, load.root, 1>>}
    BY <1>2 DEF Complaints
  <2>2. IsFiniteSet({}) /\ Cardinality({}) = 0
    BY FS_EmptySet
  <2>3. IsFiniteSet(Complaints(load.root)) /\ Cardinality(Complaints(load.root)) = 0 + 1
    <3> DEFINE e == <<0, load.root, 1>>
    <3> HIDE DEF e
    <3>1. IsFiniteSet({} \cup {e}) /\ Cardinality({} \cup {e}) = Cardinality({}) + 1
      BY <2>2, FS_AddElement
    <3> QED
      BY <2>1, <2>2, <3>1 DEF e
  <2>4. load.errors = 1
    BY <1>2 DEF CountedInv
  <2> QED
    BY <2>3, <2>4
<1> QED
  BY <1>1, <1>2

\* One more entry of a select file.
LEMMA OneMoreEntry ==
  ASSUME NEW list \in Seq(SourceFile), NEW s \in SourceFile
  PROVE  LET more == Append(list, s)
         IN /\ SourcesOf(more) = SourcesOf(list) \cup {s}
            /\ Len(more) = Len(list) + 1 /\ more[Len(list) + 1] = s
            /\ \A i \in 1..Len(list) : more[i] = list[i]
<1> DEFINE more == Append(list, s)
<1>1. Len(list) \in Nat /\ DOMAIN list = 1..Len(list) /\ DOMAIN more = 1..Len(list) + 1
  OBVIOUS
<1>2. /\ Len(more) = Len(list) + 1 /\ more[Len(list) + 1] = s
      /\ \A i \in 1..Len(list) : more[i] = list[i]
  OBVIOUS
<1> HIDE DEF more
<1>3. \A i \in DOMAIN more : i \in 1..Len(list) \/ i = Len(list) + 1
  BY <1>1
<1>4. SourcesOf(more) \subseteq SourcesOf(list) \cup {s}
  BY <1>1, <1>2, <1>3 DEF SourcesOf
<1>5. SourcesOf(list) \cup {s} \subseteq SourcesOf(more)
  BY <1>1, <1>2 DEF SourcesOf
<1> QED
  BY <1>2, <1>4, <1>5 DEF more

\* Later entries change no status.
LEMMA StatusStays ==
  ASSUME NEW list \in Seq(SourceFile), NEW s \in SourceFile, NEW i \in 1..Len(list)
  PROVE  StatusAt(Append(list, s), i) = StatusAt(list, i)
<1>1. \A j \in 1..i : Append(list, s)[j] = list[j]
  OBVIOUS
<1> DEFINE more == Append(list, s)
<1> HIDE DEF more
<1>2. \A j \in 1..i : more[j] = list[j]
  BY <1>1 DEF more
<1>3. i \in 1..i /\ 1..i - 1 \subseteq 1..i
  OBVIOUS
<1> QED
  BY <1>2, <1>3 DEF StatusAt, more

\* What is counted stays right.
LEMMA CorpusKept ==
  LoadingType /\ LoadingType' /\ CountedInv /\ CorpusInv /\ [LoadingNext]_loadvars => CorpusInv'
<1> SUFFICES ASSUME LoadingType, LoadingType', CountedInv, CorpusInv, [LoadingNext]_loadvars
             PROVE  CorpusInv'
  OBVIOUS
<1>a. /\ entries \in Seq(SourceFile) /\ Len(entries) \in Nat /\ corpus.statuses \in Seq(Status)
      /\ load.loading \in BOOLEAN /\ load.errors \in Nat /\ load.root \in SourceFile
      /\ corpus.resolved \in Nat /\ corpus.errors \in Nat
      /\ DOMAIN corpus.statuses = 1..Len(corpus.statuses)
  BY DEF LoadingType, LoadState
<1>b. \A i \in DOMAIN corpus.statuses : corpus.statuses[i] = StatusAt(entries, i)
  BY DEF CorpusInv
<1>1. CASE UNCHANGED <<entries, corpus>> /\ load'.loading = load.loading /\ load'.root = load.root
  <2>1. Counted' = Counted
    BY <1>1 DEF Counted
  <2> QED
    BY <1>1, <2>1 DEF CorpusInv
<1>2. CASE LoadReference \/ LoadStartupFile
  BY <1>1, <1>2 DEF LoadReference, LoadStartupFile, Load, AddDocument, LoadingType, LoadState
<1>3. CASE CountSource
  <2> DEFINE root == load.root
             resolved == load.errors = 0
             status == IF resolved THEN "resolved" ELSE "missing"
             more == IF resolved THEN 1 ELSE 0
             size == Len(entries)
  <2>1. /\ entries' = entries /\ corpus'.seen = corpus.seen /\ ~load'.loading /\ load.loading
        /\ corpus'.statuses = Append(corpus.statuses, status)
        /\ corpus'.resolved = corpus.resolved + more
        /\ corpus'.errors = corpus.errors + load.errors
    BY <1>3 DEF CountSource, LoadingType, LoadState
  <2>2. IsFiniteSet(Complaints(root)) /\ load.errors = Cardinality(Complaints(root))
    BY <1>3, AllErrorsFound DEF CountSource
  <2>3. Complaints(root) = {} <=> resolved
    BY <2>2, FS_EmptySet
  <2>4. /\ entries # <<>> /\ entries[size] = root /\ \A i \in 1..size - 1 : entries[i] # root
        /\ Len(corpus.statuses) = size - 1
    BY <1>a, <2>1 DEF CorpusInv
  <2>5. size \in Nat \ {0}
    BY <1>a, <2>4
  <2>6. root \in corpus.seen
    <3>1. size \in DOMAIN entries
      BY <1>a, <2>5
    <3> QED
      BY <2>4, <3>1 DEF CorpusInv, SourcesOf
  <2>7. Counted' = Counted \cup {root} /\ root \notin Counted
    BY <2>1, <2>6 DEF Counted
  <2> HIDE DEF root, resolved, status, more
  <2>8. \A s \in Counted' : IsFiniteSet(Complaints(s))
    BY <2>2, <2>7 DEF CorpusInv
  <2>9. corpus'.resolved = Cardinality({s \in Counted' : Complaints(s) = {}})
    <3> DEFINE old == {s \in Counted : Complaints(s) = {}}
    <3>1. IsFiniteSet(old)
      <4>1. IsFiniteSet(corpus.seen) /\ old \subseteq corpus.seen
        BY DEF CorpusInv, Counted
      <4> QED
        BY <4>1, FS_Subset
    <3>2. corpus.resolved = Cardinality(old) /\ root \notin old
      BY <2>7 DEF CorpusInv
    <3>3. {s \in Counted' : Complaints(s) = {}} = IF resolved THEN old \cup {root} ELSE old
      BY <2>3, <2>7
    <3> HIDE DEF old
    <3>4. CASE resolved
      <4>1. Cardinality(old \cup {root}) = Cardinality(old) + 1
        BY <3>1, <3>2, FS_AddElement
      <4> QED
        BY <2>1, <3>2, <3>3, <3>4, <4>1 DEF more
    <3>5. CASE ~resolved
      <4>1. more = 0
        BY <3>5 DEF more
      <4>2. corpus'.resolved = corpus.resolved
        BY <1>a, <2>1, <4>1
      <4> QED
        BY <3>2, <3>3, <3>5, <4>2
    <3> QED
      BY <3>4, <3>5
  <2>10. /\ IsFiniteSet(UNION {{s} \X Complaints(s) : s \in Counted'})
         /\ corpus'.errors = Cardinality(UNION {{s} \X Complaints(s) : s \in Counted'})
    <3> DEFINE old == UNION {{s} \X Complaints(s) : s \in Counted}
               new == {root} \X Complaints(root)
    <3>1. IsFiniteSet(old) /\ corpus.errors = Cardinality(old)
      BY DEF CorpusInv
    <3>2. IsFiniteSet(new) /\ load.errors = Cardinality(new)
      BY <2>2, MarkedSize
    <3>3. old \cap new = {}
      BY <2>7
    <3>4. UNION {{s} \X Complaints(s) : s \in Counted'} = old \cup new
      BY <2>7
    <3> HIDE DEF old, new
    <3> QED
      BY <2>1, <3>1, <3>2, <3>3, <3>4, DisjointSum
  <2>11. status = StatusAt(entries, size)
    BY <2>3, <2>4, <2>5 DEF StatusAt, status
  <2>12. /\ Len(corpus'.statuses) = size
         /\ \A i \in DOMAIN corpus'.statuses : corpus'.statuses[i] = StatusAt(entries, i)
    <3>1. /\ Len(corpus'.statuses) = size /\ DOMAIN corpus'.statuses = 1..size
          /\ corpus'.statuses[size] = status
          /\ \A i \in 1..size - 1 : corpus'.statuses[i] = corpus.statuses[i]
      <4> HIDE DEF size
      <4>1. Len(corpus.statuses) = size - 1
        BY <2>4
      <4> QED
        BY <1>a, <2>1, <2>5, <4>1
    <3>2. \A i \in 1..size : i = size \/ i \in 1..size - 1
      BY <2>5
    <3>3. \A i \in 1..size - 1 : corpus.statuses[i] = StatusAt(entries, i)
      BY <1>a, <1>b, <2>4
    <3> QED
      BY <2>11, <3>1, <3>2, <3>3
  <2>14. corpus'.seen = SourcesOf(entries') /\ IsFiniteSet(corpus'.seen)
    BY <2>1 DEF CorpusInv
  <2>15. Len(corpus'.statuses) = Len(entries') - (IF load'.loading THEN 1 ELSE 0)
    BY <2>1, <2>5, <2>12
  <2> QED
    BY <2>1, <2>8, <2>9, <2>10, <2>12, <2>14, <2>15 DEF CorpusInv
<1>4. ASSUME NEW s \in SourceFile, EnterSource(s) PROVE CorpusInv'
  <2> DEFINE size == Len(entries)
  <2>1. /\ ~load.loading /\ entries' = Append(entries, s) /\ Counted = corpus.seen
        /\ Len(corpus.statuses) = size
    BY <1>4, <1>a DEF EnterSource, Counted, CorpusInv
  <2>2. /\ SourcesOf(entries') = SourcesOf(entries) \cup {s}
        /\ Len(entries') = size + 1 /\ entries'[size + 1] = s
        /\ \A i \in 1..size : entries'[i] = entries[i]
    BY <1>a, <2>1, OneMoreEntry
  <2>3. s \in corpus.seen <=> \E i \in 1..size : entries[i] = s
    <3>1. DOMAIN entries = 1..size
      BY <1>a
    <3>2. corpus.seen = {entries[i] : i \in 1..size}
      BY <3>1 DEF CorpusInv, SourcesOf
    <3> HIDE DEF size
    <3> QED
      BY <3>2
  <2>4. \A i \in 1..size : corpus.statuses[i] = StatusAt(entries', i)
    BY <1>a, <1>b, <2>1, StatusStays
  <2>a. IsFiniteSet(corpus.seen) /\ corpus.seen = SourcesOf(entries)
    BY DEF CorpusInv
  <2>5. CASE s \in corpus.seen
    <3>1. /\ corpus'.seen = corpus.seen /\ corpus'.resolved = corpus.resolved
          /\ corpus'.errors = corpus.errors /\ load' = load
          /\ corpus'.statuses = Append(corpus.statuses, "deduplicated")
      BY <1>4, <2>5 DEF EnterSource, LoadingType
    <3>2. Counted' = Counted
      BY <3>1 DEF Counted
    <3>3. "deduplicated" = StatusAt(entries', size + 1)
      <4>1. \E j \in 1..size : entries'[j] = entries'[size + 1]
        BY <2>2, <2>3, <2>5
      <4>2. 1..(size + 1) - 1 = 1..size
        BY <1>a
      <4> QED
        BY <4>1, <4>2 DEF StatusAt
    <3>4. /\ Len(corpus'.statuses) = size + 1 /\ DOMAIN corpus'.statuses = 1..size + 1
          /\ corpus'.statuses[size + 1] = "deduplicated"
          /\ \A i \in 1..size : corpus'.statuses[i] = corpus.statuses[i]
      BY <1>a, <2>1, <3>1
    <3>5. \A i \in DOMAIN corpus'.statuses : corpus'.statuses[i] = StatusAt(entries', i)
      <4>1. \A i \in 1..size + 1 : i = size + 1 \/ i \in 1..size
        BY <1>a
      <4> QED
        BY <2>4, <3>3, <3>4, <4>1
    <3>7. corpus'.seen = SourcesOf(entries') /\ IsFiniteSet(corpus'.seen)
      BY <2>2, <2>5, <2>a, <3>1
    <3>8. Len(corpus'.statuses) = Len(entries') - (IF load'.loading THEN 1 ELSE 0)
      BY <1>a, <2>1, <2>2, <3>1, <3>4
    <3> QED
      BY <2>1, <3>1, <3>2, <3>5, <3>7, <3>8 DEF CorpusInv
  <2>6. CASE s \notin corpus.seen
    <3>1. /\ corpus'.seen = corpus.seen \cup {s} /\ corpus'.resolved = corpus.resolved
          /\ corpus'.errors = corpus.errors /\ corpus'.statuses = corpus.statuses
          /\ load'.loading /\ load'.root = s
      BY <1>4, <2>6 DEF EnterSource, OpenRoot, NoWorkspace, LoadingType
    <3>2. Counted' = Counted
      BY <2>1, <2>6, <3>1 DEF Counted
    <3>3. entries' # <<>> /\ \A i \in 1..Len(entries') - 1 : entries'[i] # load'.root
      <4>1. 1..Len(entries') - 1 = 1..size /\ Len(entries') # 0
        BY <1>a, <2>2
      <4> QED
        BY <2>2, <2>3, <2>6, <3>1, <4>1
    <3>4. entries'[Len(entries')] = load'.root
      BY <2>2, <3>1
    <3>5. \A i \in DOMAIN corpus'.statuses : corpus'.statuses[i] = StatusAt(entries', i)
      BY <1>a, <2>1, <2>4, <3>1
    <3>7. corpus'.seen = SourcesOf(entries')
      BY <2>2, <2>a, <3>1
    <3>8. IsFiniteSet(corpus'.seen)
      BY <2>a, <3>1, FS_AddElement
    <3>9. Len(corpus'.statuses) = Len(entries') - (IF load'.loading THEN 1 ELSE 0)
      BY <1>a, <2>1, <2>2, <3>1
    <3> QED
      BY <3>1, <3>2, <3>3, <3>4, <3>5, <3>7, <3>8, <3>9 DEF CorpusInv
  <2> QED
    BY <2>5, <2>6
<1>5. CASE UNCHANGED loadvars
  BY <1>1, <1>5 DEF loadvars
<1> QED
  BY <1>2, <1>3, <1>4, <1>5 DEF LoadingNext

\* All that is known of loading stays so.
LEMMA LoadingInvariance == LoadingSpec => []LoadingInv
<1>1. LoadingInv /\ [LoadingNext]_loadvars => LoadingInv'
  BY LoadingTypeKept, CountedKept, DocumentsKept, CorpusKept DEF LoadingInv
<1> QED
  BY <1>1, LoadingStart, PTL DEF LoadingSpec

\* However often a select file declares a source, and workspaces reference it, it is counted
\* once and deduplicated afterwards, and no workspace holds a document twice unless its
\* startup manifest names a file that it had already (BuildManifest,
\* LoadWorkspaceWithProfile).
THEOREM SourcesCountOnce == LoadingSpec => []CountsSourcesOnce
<1>1. LoadingInv => CorpusCountsOnce
  <2> SUFFICES ASSUME LoadingInv, ~load.loading PROVE CorpusCountsOnce
    BY DEF CorpusCountsOnce
  <2>1. Counted = SourcesOf(entries)
    BY DEF LoadingInv, CorpusInv, Counted
  <2>2. /\ entries \in Seq(SourceFile) /\ Len(entries) \in Nat /\ corpus.statuses \in Seq(Status)
    BY DEF LoadingInv, LoadingType
  <2>3. Len(corpus.statuses) = Len(entries)
    BY <2>2 DEF LoadingInv, CorpusInv
  <2>4. /\ corpus.statuses = [i \in DOMAIN corpus.statuses |-> corpus.statuses[i]]
        /\ DOMAIN corpus.statuses = DOMAIN entries
    BY <2>2, <2>3
  <2>5. corpus.statuses = [i \in DOMAIN entries |->
          IF \E j \in 1..i - 1 : entries[j] = entries[i] THEN "deduplicated"
          ELSE IF Complaints(entries[i]) = {} THEN "resolved" ELSE "missing"]
    BY <2>4 DEF LoadingInv, CorpusInv, StatusAt
  <2> QED
    BY <2>1, <2>5 DEF CorpusCountsOnce, LoadingInv, CorpusInv
<1>2. LoadingInv => DocumentsOnce
  <2> SUFFICES ASSUME LoadingInv, NEW i \in DOMAIN load.documents, NEW j \in DOMAIN load.documents,
                      i # j, load.documents[i] = load.documents[j]
               PROVE  load.documents[i] \in SourcesOf(Startup) \cap ({load.root} \cup SourcesOf(References))
    BY DEF DocumentsOnce
  <2>1. PICK m \in 0..Len(load.documents) : Split(m)
    BY DEF LoadingInv, DocumentsInv
  <2> DEFINE last == Len(load.documents)
  <2>2. DOMAIN load.documents = 1..last /\ last \in Nat
    BY DEF LoadingInv, LoadingType, LoadState
  <2>3. /\ i \in 1..m \/ i \in m + 1..last
        /\ j \in 1..m \/ j \in m + 1..last
    BY <2>2
  <2>4. /\ \A k \in 1..m : load.documents[k] \in {load.root} \cup SourcesOf(References)
        /\ \A k \in m + 1..last : load.documents[k] \in SourcesOf(Startup)
    BY <2>1 DEF Split, SourcesOf
  <2>5. /\ \A k, l \in 1..m : load.documents[k] = load.documents[l] => k = l
        /\ \A k, l \in m + 1..last : load.documents[k] = load.documents[l] => k = l
    BY <2>1 DEF Split
  <2> QED
    BY <2>3, <2>4, <2>5
<1> QED
  BY <1>1, <1>2, LoadingInvariance, PTL DEF CountsSourcesOnce

-----------------------------------------------------------------------------
(* State references *)

\* Controller h has not been closed by another header.
Open(file, h) ==
  h \in ControllerHeaders(file) /\ \A j \in h + 1 .. Len(file) : file[j].kind # "section"

\* The last type of controller h is a state change.
ChangeInForce(file, h) ==
  \E j \in h + 1 .. Len(file) : /\ Assigns(file, j, "type") /\ Changes(file[j].value)
                                /\ \A k \in j + 1 .. Len(file) : ~Assigns(file, k, "type")

\* The value on line i of controller h is still to get its type.
Waits(file, h, i) ==
  /\ i \in h + 1 .. Len(file) /\ Assigns(file, i, "value")
  /\ \A k \in i + 1 .. Len(file) : ~Assigns(file, k, "type") /\ ~Assigns(file, k, "value")

\* One more line.
LEMMA OneMoreLine ==
  ASSUME NEW file \in Seq(SourceLine), NEW t \in SourceLine
  PROVE  LET more == Append(file, t)
         IN /\ Len(file) \in Nat /\ DOMAIN file = 1..Len(file)
            /\ DOMAIN more = 1..Len(file) + 1 /\ Len(more) = Len(file) + 1
            /\ more[Len(file) + 1] = t
            /\ \A i \in 1..Len(file) : more[i] = file[i]
  OBVIOUS

\* The headers of controllers and their lines with one more line.
LEMMA MoreLines ==
  ASSUME NEW file \in Seq(SourceLine), NEW t \in SourceLine
  PROVE  LET more == Append(file, t)
             n == Len(file)
         IN /\ ControllerHeaders(more) =
                 ControllerHeaders(file) \cup
                   (IF t.kind = "section" /\ t.section = "state" THEN {n + 1} ELSE {})
            /\ SectionLines(more, n + 1) = {}
            /\ \A h \in ControllerHeaders(file) :
                 SectionLines(more, h) =
                   SectionLines(file, h) \cup
                     (IF Open(file, h) /\ t.kind # "section" THEN {n + 1} ELSE {})
<1> DEFINE more == Append(file, t)
           n == Len(file)
<1>1. /\ n \in Nat /\ DOMAIN file = 1..n /\ DOMAIN more = 1..n + 1 /\ Len(more) = n + 1
      /\ more[n + 1] = t /\ \A i \in 1..n : more[i] = file[i]
  BY OneMoreLine
<1> HIDE DEF more, n
<1>2. ControllerHeaders(more) =
        ControllerHeaders(file) \cup
          (IF t.kind = "section" /\ t.section = "state" THEN {n + 1} ELSE {})
  <2>1. \A i \in DOMAIN more : i \in DOMAIN file \/ i = n + 1
    BY <1>1
  <2>2. \A i \in DOMAIN file : i \in DOMAIN more /\ i # n + 1
    BY <1>1
  <2>3. n + 1 \in DOMAIN more
    BY <1>1
  <2> QED
    BY <1>1, <2>1, <2>2, <2>3 DEF ControllerHeaders
<1>3. SectionLines(more, n + 1) = {}
  BY <1>1 DEF SectionLines
<1>4. ASSUME NEW h \in ControllerHeaders(file)
      PROVE  SectionLines(more, h) =
               SectionLines(file, h) \cup
                 (IF Open(file, h) /\ t.kind # "section" THEN {n + 1} ELSE {})
  <2>1. h \in 1..n
    BY <1>1 DEF ControllerHeaders
  <2>2. \A i \in h + 1..n : i \in SectionLines(more, h) <=> i \in SectionLines(file, h)
    <3> TAKE i \in h + 1..n
    <3>1. \A j \in h + 1..i : j \in 1..n
      BY <1>1, <2>1
    <3>2. i \in h + 1..n + 1
      BY <1>1, <2>1
    <3> QED
      BY <1>1, <3>1, <3>2 DEF SectionLines, n
  <2>3. n + 1 \in SectionLines(more, h) <=> Open(file, h) /\ t.kind # "section"
    <3>1. n + 1 \in h + 1..n + 1 /\ \A j \in h + 1..n + 1 : j = n + 1 \/ j \in h + 1..n
      BY <1>1, <2>1
    <3>2. \A j \in h + 1..n : j \in h + 1..n + 1 /\ j \in 1..n
      BY <1>1, <2>1
    <3> QED
      BY <1>1, <3>1, <3>2 DEF SectionLines, Open, n
  <2>4. \A i \in SectionLines(more, h) : i = n + 1 \/ i \in h + 1..n
    BY <1>1, <2>1 DEF SectionLines
  <2>5. \A i \in SectionLines(file, h) : i \in h + 1..n
    BY DEF SectionLines, n
  <2> QED
    BY <2>2, <2>3, <2>4, <2>5
<1> QED
  BY <1>2, <1>3, <1>4 DEF more, n

\* The values that count, by header and line.
LEMMA StateChangesAt ==
  ASSUME NEW file \in Seq(SourceLine), NEW h, NEW i
  PROVE  <<h, i>> \in StateChanges(file) <=>
           h \in ControllerHeaders(file) /\ i \in SectionLines(file, h) /\ Counts(file, h, i)
<1>1. \A g \in ControllerHeaders(file) : g \in Nat
  BY DEF ControllerHeaders
<1>2. h \in ControllerHeaders(file) /\ i \in SectionLines(file, h) => i \in 1..Len(file)
  BY <1>1 DEF SectionLines
<1> QED
  BY <1>2 DEF StateChanges

\* A further line makes an earlier value count if it is the type that the value waits for.
LEMMA EarlierValues ==
  ASSUME NEW file \in Seq(SourceLine), NEW t \in SourceLine, NEW h, NEW i \in 1..Len(file)
  PROVE  <<h, i>> \in StateChanges(Append(file, t)) <=>
           \/ <<h, i>> \in StateChanges(file)
           \/ /\ t.kind = "key" /\ t.key = "type" /\ Changes(t.value)
              /\ Open(file, h) /\ Waits(file, h, i) /\ file[i].value # ""
<1> DEFINE more == Append(file, t)
           n == Len(file)
<1>1. /\ n \in Nat /\ DOMAIN file = 1..n /\ DOMAIN more = 1..n + 1 /\ Len(more) = n + 1
      /\ more[n + 1] = t /\ \A k \in 1..n : more[k] = file[k]
  BY OneMoreLine
<1>2. more \in Seq(SourceLine)
  OBVIOUS
<1>3. /\ ControllerHeaders(more) =
           ControllerHeaders(file) \cup
             (IF t.kind = "section" /\ t.section = "state" THEN {n + 1} ELSE {})
      /\ SectionLines(more, n + 1) = {}
      /\ \A g \in ControllerHeaders(file) :
           SectionLines(more, g) =
             SectionLines(file, g) \cup
               (IF Open(file, g) /\ t.kind # "section" THEN {n + 1} ELSE {})
  BY MoreLines
<1>4. /\ <<h, i>> \in StateChanges(file) <=>
           h \in ControllerHeaders(file) /\ i \in SectionLines(file, h) /\ Counts(file, h, i)
      /\ <<h, i>> \in StateChanges(more) <=>
           h \in ControllerHeaders(more) /\ i \in SectionLines(more, h) /\ Counts(more, h, i)
  BY <1>2, StateChangesAt
<1> HIDE DEF more, n
<1>5. ASSUME h \in ControllerHeaders(file), i \in SectionLines(file, h)
      PROVE  Counts(more, h, i) <=>
               \/ Counts(file, h, i)
               \/ /\ t.kind = "key" /\ t.key = "type" /\ Changes(t.value)
                  /\ Open(file, h) /\ Waits(file, h, i) /\ file[i].value # ""
  <2>1. h \in 1..n /\ i \in 1..n /\ i \in h + 1..n
    BY <1>1, <1>5 DEF ControllerHeaders, SectionLines, n
  <2>2. \A k \in 1..n : \A key : Assigns(more, k, key) <=> Assigns(file, k, key)
    BY <1>1 DEF Assigns
  <2>3. \A j \in SectionLines(file, h) : j \in 1..n /\ j \in h + 1..n
    BY <2>1 DEF SectionLines, n
  <2> DEFINE Before(f, j) == j < i /\ \A k \in j + 1 .. i - 1 : ~Assigns(f, k, "type")
             After(f, j) == /\ i < j
                            /\ \A k \in i + 1 .. j - 1 : ~Assigns(f, k, "type") /\ ~Assigns(f, k, "value")
             Type(f, j) == Assigns(f, j, "type") /\ Changes(f[j].value)
  <2>4. \A j \in 1..n : Before(more, j) <=> Before(file, j)
    <3> TAKE j \in 1..n
    <3>1. \A k \in j + 1..i - 1 : k \in 1..n
      BY <1>1, <2>1
    <3> QED
      BY <2>2, <3>1
  <2>5. \A j \in 1..n : After(more, j) <=> After(file, j)
    <3> TAKE j \in 1..n
    <3>1. \A k \in i + 1..j - 1 : k \in 1..n
      BY <1>1, <2>1
    <3> QED
      BY <2>2, <3>1
  <2>6. \A j \in 1..n : Type(more, j) <=> Type(file, j)
    BY <1>1, <2>2
  <2>7. ~Before(more, n + 1)
    BY <1>1, <2>1
  <2>8. After(more, n + 1) <=>
          \A k \in i + 1..n : ~Assigns(file, k, "type") /\ ~Assigns(file, k, "value")
    <3>1. i < n + 1 /\ (n + 1) - 1 = n /\ \A k \in i + 1..n : k \in 1..n
      BY <1>1, <2>1
    <3> QED
      BY <2>2, <3>1
  <2>9. Type(more, n + 1) <=> t.kind = "key" /\ t.key = "type" /\ Changes(t.value)
    BY <1>1 DEF Assigns
  <2>10. /\ Counts(file, h, i) <=>
              /\ Assigns(file, i, "value") /\ file[i].value # ""
              /\ \E j \in SectionLines(file, h) : Type(file, j) /\ (Before(file, j) \/ After(file, j))
         /\ Counts(more, h, i) <=>
              /\ Assigns(more, i, "value") /\ more[i].value # ""
              /\ \E j \in SectionLines(more, h) : Type(more, j) /\ (Before(more, j) \/ After(more, j))
    BY DEF Counts
  <2>11. Waits(file, h, i) <=>
           /\ Assigns(file, i, "value")
           /\ \A k \in i + 1..n : ~Assigns(file, k, "type") /\ ~Assigns(file, k, "value")
    BY <2>1 DEF Waits, n
  <2>12. SectionLines(more, h) =
           SectionLines(file, h) \cup (IF Open(file, h) /\ t.kind # "section" THEN {n + 1} ELSE {})
    BY <1>3, <1>5
  <2>13. Assigns(more, i, "value") <=> Assigns(file, i, "value")
    BY <2>1, <2>2
  <2>14. more[i].value = file[i].value
    BY <1>1, <2>1
  <2> HIDE DEF Before, After, Type
  <2>15. (\E j \in SectionLines(more, h) : Type(more, j) /\ (Before(more, j) \/ After(more, j))) <=>
           \/ \E j \in SectionLines(file, h) : Type(file, j) /\ (Before(file, j) \/ After(file, j))
           \/ /\ Open(file, h) /\ t.kind # "section"
              /\ Type(more, n + 1) /\ After(more, n + 1)
    BY <2>3, <2>4, <2>5, <2>6, <2>7, <2>12
  <2> QED
    BY <2>8, <2>9, <2>10, <2>11, <2>13, <2>14, <2>15
<1>6. h \in ControllerHeaders(file) /\ i \in SectionLines(more, h) => i \in SectionLines(file, h)
  BY <1>1, <1>3 DEF n
<1>7. Open(file, h) /\ Waits(file, h, i) =>
        h \in ControllerHeaders(file) /\ i \in SectionLines(file, h)
  <2> SUFFICES ASSUME Open(file, h), Waits(file, h, i)
               PROVE  h \in ControllerHeaders(file) /\ i \in SectionLines(file, h)
    OBVIOUS
  <2>1. h \in 1..n /\ i \in h + 1..n
    BY <1>1 DEF Open, Waits, ControllerHeaders, n
  <2>2. \A j \in h + 1..i : j \in h + 1..n
    BY <1>1, <2>1
  <2> QED
    BY <2>1, <2>2 DEF Open, SectionLines, n
<1> QED
  BY <1>3, <1>4, <1>5, <1>6, <1>7 DEF more

\* A further line counts if it is a value, and the type in force is a state change.
LEMMA LastValue ==
  ASSUME NEW file \in Seq(SourceLine), NEW t \in SourceLine, NEW h
  PROVE  <<h, Len(file) + 1>> \in StateChanges(Append(file, t)) <=>
           /\ t.kind = "key" /\ t.key = "value" /\ t.value # ""
           /\ Open(file, h) /\ ChangeInForce(file, h)
<1> DEFINE more == Append(file, t)
           n == Len(file)
<1>1. /\ n \in Nat /\ DOMAIN file = 1..n /\ DOMAIN more = 1..n + 1 /\ Len(more) = n + 1
      /\ more[n + 1] = t /\ \A k \in 1..n : more[k] = file[k]
  BY OneMoreLine
<1>2. more \in Seq(SourceLine)
  OBVIOUS
<1>3. /\ ControllerHeaders(more) =
           ControllerHeaders(file) \cup
             (IF t.kind = "section" /\ t.section = "state" THEN {n + 1} ELSE {})
      /\ SectionLines(more, n + 1) = {}
      /\ \A g \in ControllerHeaders(file) :
           SectionLines(more, g) =
             SectionLines(file, g) \cup
               (IF Open(file, g) /\ t.kind # "section" THEN {n + 1} ELSE {})
  BY MoreLines
<1>4. <<h, n + 1>> \in StateChanges(more) <=>
        h \in ControllerHeaders(more) /\ n + 1 \in SectionLines(more, h) /\ Counts(more, h, n + 1)
  BY <1>2, StateChangesAt
<1> HIDE DEF more, n
<1>5. n + 1 \notin SectionLines(file, h)
  BY <1>1 DEF SectionLines, n
<1>6. h \in ControllerHeaders(more) /\ n + 1 \in SectionLines(more, h) <=>
        Open(file, h) /\ t.kind # "section"
  BY <1>3, <1>5 DEF Open
<1>7. ASSUME Open(file, h), t.kind # "section"
      PROVE  Counts(more, h, n + 1) <=>
               t.kind = "key" /\ t.key = "value" /\ t.value # "" /\ ChangeInForce(file, h)
  <2>1. h \in ControllerHeaders(file) /\ h \in 1..n
    BY <1>1, <1>7 DEF Open, ControllerHeaders
  <2>2. \A k \in 1..n : \A key : Assigns(more, k, key) <=> Assigns(file, k, key)
    BY <1>1 DEF Assigns
  <2>3. \A j : j \in SectionLines(more, h) <=> j \in h + 1..n \/ j = n + 1
    <3>1. SectionLines(file, h) = h + 1..n
      <4>1. \A j \in h + 1..n : \A k \in h + 1..j : k \in h + 1..n
        BY <1>1, <2>1
      <4> QED
        BY <1>7, <4>1 DEF SectionLines, Open, n
    <3> QED
      BY <1>3, <1>7, <2>1, <3>1
  <2> DEFINE Last(j) == \A k \in j + 1..n : ~Assigns(file, k, "type")
  <2>4. \A j \in h + 1..n : /\ j \in 1..n /\ j < n + 1
                            /\ Last(j) <=> \A k \in j + 1 .. (n + 1) - 1 : ~Assigns(more, k, "type")
    <3> TAKE j \in h + 1..n
    <3>1. (n + 1) - 1 = n /\ \A k \in j + 1..n : k \in 1..n
      BY <1>1, <2>1
    <3> QED
      BY <1>1, <2>1, <2>2, <3>1
  <2>5. \A j \in h + 1..n : ~(n + 1 < j)
    BY <1>1, <2>1
  <2>6. Counts(more, h, n + 1) <=>
          /\ Assigns(more, n + 1, "value") /\ t.value # ""
          /\ \E j \in SectionLines(more, h) :
               /\ Assigns(more, j, "type") /\ Changes(more[j].value)
               /\ \/ j < n + 1 /\ \A k \in j + 1 .. (n + 1) - 1 : ~Assigns(more, k, "type")
                  \/ n + 1 < j /\ \A k \in n + 1 + 1 .. j - 1 : ~Assigns(more, k, "type") /\ ~Assigns(more, k, "value")
    BY <1>1 DEF Counts
  <2>7. ChangeInForce(file, h) <=>
          \E j \in h + 1..n : Assigns(file, j, "type") /\ Changes(file[j].value) /\ Last(j)
    BY DEF ChangeInForce, n
  <2>8. ~(n + 1 < n + 1)
    BY <1>1
  <2> HIDE DEF Last
  <2>9. (\E j \in SectionLines(more, h) :
           /\ Assigns(more, j, "type") /\ Changes(more[j].value)
           /\ \/ j < n + 1 /\ \A k \in j + 1 .. (n + 1) - 1 : ~Assigns(more, k, "type")
              \/ n + 1 < j /\ \A k \in n + 1 + 1 .. j - 1 : ~Assigns(more, k, "type") /\ ~Assigns(more, k, "value"))
        <=> ChangeInForce(file, h)
    BY <1>1, <2>2, <2>3, <2>4, <2>5, <2>7, <2>8
  <2>10. Assigns(more, n + 1, "value") <=> t.kind = "key" /\ t.key = "value"
    BY <1>1 DEF Assigns
  <2> QED
    BY <2>6, <2>9, <2>10
<1>8. t.kind = "key" => t.kind # "section"
  OBVIOUS
<1> QED
  BY <1>4, <1>6, <1>7, <1>8 DEF more, n

\* What a further line means for the type in force and the value that waits.
LEMMA TypeAndValue ==
  ASSUME NEW file \in Seq(SourceLine), NEW t \in SourceLine, NEW h, Open(file, h),
         t.kind # "section"
  PROVE  LET more == Append(file, t)
             type == t.kind = "key" /\ t.key = "type"
             value == t.kind = "key" /\ t.key = "value"
         IN /\ Open(more, h)
            /\ ChangeInForce(more, h) <=> IF type THEN Changes(t.value) ELSE ChangeInForce(file, h)
            /\ \A i : Waits(more, h, i) <=>
                 IF type \/ value THEN value /\ i = Len(file) + 1 ELSE Waits(file, h, i)
<1> DEFINE more == Append(file, t)
           n == Len(file)
           type == t.kind = "key" /\ t.key = "type"
           value == t.kind = "key" /\ t.key = "value"
<1>1. /\ n \in Nat /\ DOMAIN file = 1..n /\ DOMAIN more = 1..n + 1 /\ Len(more) = n + 1
      /\ more[n + 1] = t /\ \A k \in 1..n : more[k] = file[k]
  BY OneMoreLine
<1> HIDE DEF more, n
<1>2. h \in 1..n /\ h \in DOMAIN more
  BY <1>1 DEF Open, ControllerHeaders
<1>3. \A k : k \in h + 1..n + 1 <=> k \in h + 1..n \/ k = n + 1
  BY <1>1, <1>2
<1>4. \A k \in h + 1..n : k \in 1..n
  BY <1>1, <1>2
<1>5. /\ \A k \in 1..n : \A key : Assigns(more, k, key) <=> Assigns(file, k, key)
      /\ Assigns(more, n + 1, "type") <=> type
      /\ Assigns(more, n + 1, "value") <=> value
  BY <1>1 DEF Assigns
<1>6. Open(more, h)
  BY <1>1, <1>2, <1>3, <1>4 DEF Open, ControllerHeaders, n
<1>7. \A j \in h + 1..n : \A k : k \in j + 1..n + 1 <=> k \in j + 1..n \/ k = n + 1
  BY <1>1, <1>2
<1>8. \A j \in h + 1..n : \A k \in j + 1..n : k \in 1..n
  BY <1>1, <1>2
<1>9. \A k \in n + 1 + 1..n + 1 : FALSE
  BY <1>1
<1>10. ChangeInForce(more, h) <=> IF type THEN Changes(t.value) ELSE ChangeInForce(file, h)
  <2> DEFINE Last(f, m, j) == /\ Assigns(f, j, "type") /\ Changes(f[j].value)
                              /\ \A k \in j + 1..m : ~Assigns(f, k, "type")
  <2>1. \A j \in h + 1..n : Last(more, n + 1, j) <=> ~type /\ Last(file, n, j)
    BY <1>1, <1>4, <1>5, <1>7, <1>8
  <2>2. Last(more, n + 1, n + 1) <=> type /\ Changes(t.value)
    BY <1>1, <1>5, <1>9
  <2>3. /\ ChangeInForce(more, h) <=> \E j \in h + 1..n + 1 : Last(more, n + 1, j)
        /\ ChangeInForce(file, h) <=> \E j \in h + 1..n : Last(file, n, j)
    BY <1>1 DEF ChangeInForce, n
  <2> HIDE DEF Last
  <2> QED
    BY <1>3, <2>1, <2>2, <2>3
<1>11. ASSUME NEW i
       PROVE  Waits(more, h, i) <=>
                IF type \/ value THEN value /\ i = n + 1 ELSE Waits(file, h, i)
  <2>1. ~(type /\ value)
    OBVIOUS
  <2>2. CASE i = n + 1
    <3>1. i \notin h + 1..n /\ i \in h + 1..n + 1
      BY <1>1, <1>2, <2>2
    <3> QED
      BY <1>1, <1>5, <1>9, <2>1, <2>2, <3>1 DEF Waits, n
  <2>3. CASE i \in h + 1..n
    <3>1. i # n + 1
      BY <1>1, <2>3
    <3> QED
      BY <1>1, <1>3, <1>4, <1>5, <1>7, <1>8, <2>3, <3>1 DEF Waits, n
  <2>4. CASE i \notin h + 1..n + 1
    BY <1>1, <1>3, <2>4 DEF Waits, n
  <2> QED
    BY <1>3, <2>2, <2>3, <2>4
<1> QED
  BY <1>6, <1>10, <1>11 DEF more, n

\* What the file makes count stays the same unless the line is a type or a value.
LEMMA ChangesKept ==
  ASSUME NEW file \in Seq(SourceLine), NEW t \in SourceLine,
         \/ ~(t.kind = "key" /\ t.key \in {"type", "value"})
         \/ \A h : ~Open(file, h)
  PROVE  StateChanges(Append(file, t)) = StateChanges(file)
<1> DEFINE more == Append(file, t)
           n == Len(file)
<1>1. n \in Nat /\ DOMAIN file = 1..n /\ DOMAIN more = 1..n + 1 /\ Len(more) = n + 1
  BY OneMoreLine
<1>2. \A h : \A i \in 1..n : <<h, i>> \in StateChanges(more) <=> <<h, i>> \in StateChanges(file)
  BY EarlierValues
<1>3. \A h : <<h, n + 1>> \notin StateChanges(more)
  BY LastValue
<1>4. StateChanges(more) \subseteq (DOMAIN more) \X (1..n + 1)
  BY <1>1 DEF StateChanges, ControllerHeaders
<1>5. StateChanges(file) \subseteq (DOMAIN file) \X (1..n)
  BY <1>1 DEF StateChanges, ControllerHeaders
<1>6. \A i \in 1..n + 1 : i \in 1..n \/ i = n + 1
  BY <1>1
<1>7. \A h, i : <<h, i>> \in StateChanges(more) <=> <<h, i>> \in StateChanges(file)
  <2> TAKE h, i
  <2> HIDE DEF more, n
  <2>1. CASE i \in 1..n
    BY <1>2, <2>1
  <2>2. CASE i = n + 1
    <3>1. n + 1 \notin 1..n
      BY <1>1
    <3> QED
      BY <1>3, <1>5, <2>2, <3>1
  <2>3. CASE i \notin 1..n + 1
    <3>1. i \notin 1..n
      BY <1>1, <2>3
    <3> QED
      BY <1>4, <1>5, <2>3, <3>1
  <2> QED
    BY <1>6, <2>1, <2>2, <2>3
<1> HIDE DEF more, n
<1> DEFINE S == StateChanges(more)
           T == StateChanges(file)
           A == DOMAIN more
           B == 1..n + 1
           C == DOMAIN file
           D == 1..n
<1>8. S \subseteq A \X B /\ T \subseteq C \X D /\ \A h, i : <<h, i>> \in S <=> <<h, i>> \in T
  BY <1>4, <1>5, <1>7
<1> HIDE DEF S, T, A, B, C, D
<1>9. ASSUME NEW p \in S PROVE p \in T
  <2>1. PICK h \in A, i \in B : p = <<h, i>>
    BY <1>8, <1>9
  <2> QED
    BY <1>8, <1>9, <2>1
<1>10. ASSUME NEW p \in T PROVE p \in S
  <2>1. PICK h \in C, i \in D : p = <<h, i>>
    BY <1>8, <1>10
  <2> QED
    BY <1>8, <1>10, <2>1
<1>11. S = T
  BY <1>9, <1>10
<1> QED
  BY <1>11 DEF S, T, more

-----------------------------------------------------------------------------
(* The document *)

Target == {StateID(t.value) : t \in SourceLine} \cup STRING

Reference ==
  [kind : {"state", "command"}, target : Target, source : Nat, line : Nat, span : Nat,
   occurrence : Nat, dynamic : BOOLEAN]

DocumentFields == {"line", "section", "controller", "symbols", "refs", "diagnostics"}
ControllerFields == {"line", "type", "pending"}

\* The controller c is the open one, and what it remembers is what the file says.
ControllerInv(file, c) ==
  /\ DOMAIN c = ControllerFields
  /\ Open(file, c.line)
  /\ Changes(c.type) <=> ChangeInForce(file, c.line)
  /\ \/ c.pending = <<>> /\ \A i : Waits(file, c.line, i) => Changes(c.type)
     \/ /\ ~Changes(c.type)
        /\ \E i : /\ Waits(file, c.line, i)
                  /\ c.pending = <<[text |-> file[i].value, line |-> i]>>

DocumentInv(file, doc) ==
  /\ DOMAIN doc = DocumentFields
  /\ doc.line = Len(file)
  /\ IF doc.section = "state" THEN ControllerInv(file, doc.controller)
     ELSE \A h : ~Open(file, h)

\* A reference stands on a line of the file and is told apart by its id.
PlaceInv(file, refs) ==
  /\ refs \in Seq(Reference)
  /\ \A i \in DOMAIN refs :
       /\ refs[i].line \in 1..Len(file) /\ refs[i].span \in 1..Len(file)
       /\ refs[i].kind = "state" => refs[i].occurrence = 0
       /\ refs[i].kind = "command" => refs[i].span = refs[i].line
  /\ \A i, j \in DOMAIN refs : i # j => ReferenceID(refs[i]) # ReferenceID(refs[j])

StatesOf(refs) == {i \in DOMAIN refs : refs[i].kind = "state"}

StatesInv(file, refs) ==
  /\ {<<refs[i].source, refs[i].span>> : i \in StatesOf(refs)} = StateChanges(file)
  /\ \A i, j \in StatesOf(refs) : i # j => refs[i].span # refs[j].span
  /\ \A i \in StatesOf(refs) : refs[i].target = StateID(file[refs[i].span].value)

\* A line of another section, or one that a controller passes over.
Passes(doc, t) ==
  t.kind # "section" /\ ~(doc.section = "state" /\ t.kind = "key" /\ t.key \in {"type", "value", "trigger"})

\* Such a line leaves all but the line number, the symbols and the diagnostics.
LEMMA FeedPasses ==
  ASSUME NEW file, NEW doc, NEW t \in SourceLine, DocumentInv(file, doc), Passes(doc, t)
  PROVE  LET next == Feed(doc, t)
         IN /\ DOMAIN next = DOMAIN doc /\ next.line = doc.line + 1 /\ next.section = doc.section
            /\ next.controller = doc.controller /\ next.refs = doc.refs
<1> DEFINE Same(next) == /\ DOMAIN next = DOMAIN doc /\ next.line = doc.line + 1
                         /\ next.section = doc.section /\ next.controller = doc.controller
                         /\ next.refs = doc.refs
<1>1. DOMAIN doc = DocumentFields
  BY DEF DocumentInv, DocumentFields
<1> DEFINE d == [doc EXCEPT !.line = @ + 1]
<1>2. Same(d)
  BY <1>1
<1>3. \A e : Same(e) => \A code : Same(Diagnose(e, code))
  BY <1>1 DEF Diagnose
<1>4. \A e : Same(e) => \A symbols : Same([e EXCEPT !.symbols = symbols])
  BY <1>1
<1> HIDE DEF d
<1>5. Same(CommandName(d, t))
  <2> HIDE DEF Same
  <2>1. Same(IF t.value = "unquoted" THEN Diagnose(d, "unquoted-command-name") ELSE d)
    BY <1>2, <1>3
  <2> QED
    BY <1>2, <1>3, <1>4, <2>1 DEF CommandName
<1>6. doc.section = "state" /\ t.kind = "key" => Same(ControllerLine(d, t))
  <2> HIDE DEF Same
  <2> QED
    BY <1>2, <1>3 DEF ControllerLine, Passes
<1>7. d.section = doc.section
  BY <1>2
<1>8. t.kind \in LineKind
  BY SourceLineAssumption DEF SourceLineAssumption
<1> HIDE DEF Same
<1>9. Same(Feed(doc, t))
  BY <1>2, <1>3, <1>5, <1>6, <1>7, <1>8 DEF Feed, Passes, LineKind, d
<1> QED
  BY <1>9 DEF Same

\* The reference from a value of controller h, emitted on a line.
StateReference(h, text, span, line) ==
  [kind |-> "state", target |-> StateID(text), source |-> h, line |-> line, span |-> span,
   occurrence |-> 0, dynamic |-> text = "expression"]

\* The key lines that a controller heeds.
LEMMA ControllerFed ==
  ASSUME NEW file, NEW doc, NEW t \in SourceLine, DocumentInv(file, doc),
         doc.section = "state", t.kind = "key", t.key \in {"type", "value", "trigger"}
  PROVE  LET d == [doc EXCEPT !.line = @ + 1]
         IN /\ Feed(doc, t) = ControllerLine(d, t)
            /\ DOMAIN d = DOMAIN doc /\ d.line = doc.line + 1 /\ d.section = "state"
            /\ d.controller = doc.controller /\ d.refs = doc.refs
<1> DEFINE d == [doc EXCEPT !.line = @ + 1]
<1>1. /\ DOMAIN d = DOMAIN doc /\ d.line = doc.line + 1 /\ d.section = "state"
      /\ d.controller = doc.controller /\ d.refs = doc.refs
  BY DEF DocumentInv, DocumentFields
<1>2. Nobody # "state"
  BY NobodyAssumption DEF NobodyAssumption
<1>3. Feed(doc, t) = ControllerLine(d, t)
  BY <1>1, <1>2 DEF Feed
<1> QED
  BY <1>1, <1>3

\* A reference is emitted for the pending value if the type is a state change.
LEMMA Emitted ==
  ASSUME NEW d, DOMAIN d = DocumentFields,
         DOMAIN d.controller = ControllerFields,
         Changes(d.controller.type)
  PROVE  LET c == d.controller
             value == c.pending[1]
             next == EmitStateReference(d)
         IN /\ DOMAIN next = DOMAIN d /\ next.line = d.line /\ next.section = d.section
            /\ DOMAIN next.controller = ControllerFields
            /\ next.controller.line = c.line /\ next.controller.type = c.type
            /\ next.controller.pending = <<>>
            /\ next.refs = IF c.pending = <<>> \/ value.text = "" THEN d.refs
                           ELSE Append(d.refs, StateReference(c.line, value.text, value.line, d.line))
<1> DEFINE c == d.controller
           value == c.pending[1]
           next == EmitStateReference(d)
<1>1. CASE c.pending = <<>>
  <2>1. next = d
    BY <1>1 DEF EmitStateReference
  <2> QED
    BY <1>1, <2>1
<1>2. /\ DOMAIN Clear(d) = DOMAIN d /\ Clear(d).line = d.line /\ Clear(d).section = d.section
      /\ DOMAIN Clear(d).controller = ControllerFields
      /\ Clear(d).controller.line = c.line /\ Clear(d).controller.type = c.type
      /\ Clear(d).controller.pending = <<>> /\ Clear(d).refs = d.refs
  BY DEF Clear, DocumentFields, ControllerFields
<1>3. CASE c.pending # <<>> /\ value.text = ""
  <2>1. next = Clear(d)
    BY <1>3 DEF EmitStateReference
  <2> QED
    BY <1>2, <1>3, <2>1
<1>4. CASE c.pending # <<>> /\ value.text # ""
  <2> DEFINE ref == StateReference(c.line, value.text, value.line, d.line)
  <2>1. next = [Clear(d) EXCEPT !.refs = Append(@, ref)]
    BY <1>4 DEF EmitStateReference, StateReference
  <2> HIDE DEF ref, next
  <2>2. /\ DOMAIN next = DOMAIN d /\ next.line = d.line /\ next.section = d.section
        /\ next.controller = Clear(d).controller /\ next.refs = Append(d.refs, ref)
    BY <1>2, <2>1
  <2> QED
    BY <1>2, <1>4, <2>2 DEF ref, next
<1> QED
  BY <1>1, <1>3, <1>4

\* A type clears the pending value, and emits it if it is a state change.
TypeFed(doc, t, next) ==
  LET c == doc.controller
      value == c.pending[1]
  IN /\ DOMAIN next = DOMAIN doc /\ next.line = doc.line + 1 /\ next.section = "state"
     /\ DOMAIN next.controller = ControllerFields
     /\ next.controller.line = c.line /\ next.controller.type = t.value
     /\ next.controller.pending = <<>>
     /\ ~Changes(t.value) \/ c.pending = <<>> \/ value.text = "" => next.refs = doc.refs
     /\ Changes(t.value) /\ c.pending # <<>> /\ value.text # "" =>
          next.refs = Append(doc.refs, StateReference(c.line, value.text, value.line, next.line))

LEMMA FeedType ==
  ASSUME NEW file, NEW doc, NEW t \in SourceLine, DocumentInv(file, doc),
         doc.section = "state", t.kind = "key", t.key = "type"
  PROVE  TypeFed(doc, t, Feed(doc, t))
<1> DEFINE c == doc.controller
           d == [doc EXCEPT !.line = @ + 1]
           typed == [d EXCEPT !.controller.type = t.value]
           next == Feed(doc, t)
<1>1. /\ next = ControllerLine(d, t)
      /\ DOMAIN d = DOMAIN doc /\ d.line = doc.line + 1 /\ d.section = "state"
      /\ d.controller = doc.controller /\ d.refs = doc.refs
  BY ControllerFed
<1>2. /\ DOMAIN doc = DocumentFields
      /\ DOMAIN c = ControllerFields
  BY DEF DocumentInv, ControllerInv
<1> HIDE DEF d, next
<1>3. /\ DOMAIN typed = DOMAIN doc /\ typed.line = doc.line + 1 /\ typed.section = "state"
      /\ DOMAIN typed.controller = ControllerFields
      /\ typed.controller.line = c.line /\ typed.controller.type = t.value
      /\ typed.controller.pending = c.pending /\ typed.refs = doc.refs
  BY <1>1, <1>2 DEF DocumentFields, ControllerFields
<1>4. next = IF Changes(t.value) THEN EmitStateReference(typed) ELSE Clear(typed)
  BY <1>1 DEF ControllerLine, SetType
<1> HIDE DEF typed, c
<1>5. CASE Changes(t.value)
  <2>1. /\ DOMAIN typed = DocumentFields
        /\ Changes(typed.controller.type)
    BY <1>2, <1>3, <1>5
  <2>2. LET last == typed.controller.pending[1]
        IN /\ DOMAIN next = DOMAIN typed /\ next.line = typed.line /\ next.section = typed.section
           /\ DOMAIN next.controller = ControllerFields
           /\ next.controller.line = typed.controller.line
           /\ next.controller.type = typed.controller.type
           /\ next.controller.pending = <<>>
           /\ next.refs = IF typed.controller.pending = <<>> \/ last.text = "" THEN typed.refs
                          ELSE Append(typed.refs, StateReference(typed.controller.line,
                                                  last.text, last.line, typed.line))
    BY <1>3, <1>4, <1>5, <2>1, Emitted
  <2> QED
    BY <1>3, <1>5, <2>2 DEF c, next, TypeFed
<1>6. CASE ~Changes(t.value)
  <2>1. /\ DOMAIN next = DOMAIN typed /\ next.line = typed.line /\ next.section = typed.section
        /\ DOMAIN next.controller = ControllerFields
        /\ next.controller.line = typed.controller.line
        /\ next.controller.type = typed.controller.type
        /\ next.controller.pending = <<>> /\ next.refs = typed.refs
    BY <1>2, <1>3, <1>4, <1>6 DEF Clear, DocumentFields, ControllerFields
  <2> QED
    BY <1>3, <1>6, <2>1 DEF c, next, TypeFed
<1> QED
  BY <1>5, <1>6

\* A value is emitted at once if the type is a state change, and becomes the pending one
\* otherwise.
ValueFed(doc, t, next) ==
  LET c == doc.controller
  IN /\ DOMAIN next = DOMAIN doc /\ next.line = doc.line + 1 /\ next.section = "state"
     /\ DOMAIN next.controller = ControllerFields
     /\ next.controller.line = c.line /\ next.controller.type = c.type
     /\ Changes(c.type) => next.controller.pending = <<>>
     /\ ~Changes(c.type) => next.controller.pending = <<[text |-> t.value, line |-> next.line]>>
     /\ ~Changes(c.type) \/ t.value = "" => next.refs = doc.refs
     /\ Changes(c.type) /\ t.value # "" =>
          next.refs = Append(doc.refs, StateReference(c.line, t.value, next.line, next.line))

LEMMA FeedValue ==
  ASSUME NEW file, NEW doc, NEW t \in SourceLine, DocumentInv(file, doc),
         doc.section = "state", t.kind = "key", t.key = "value"
  PROVE  ValueFed(doc, t, Feed(doc, t))
<1> DEFINE c == doc.controller
           d == [doc EXCEPT !.line = @ + 1]
           value == [text |-> t.value, line |-> d.line]
           kept == [d EXCEPT !.controller.pending = <<value>>]
           next == Feed(doc, t)
<1>1. /\ next = ControllerLine(d, t)
      /\ DOMAIN d = DOMAIN doc /\ d.line = doc.line + 1 /\ d.section = "state"
      /\ d.controller = doc.controller /\ d.refs = doc.refs
  BY ControllerFed
<1>2. /\ DOMAIN doc = DocumentFields
      /\ DOMAIN c = ControllerFields
  BY DEF DocumentInv, ControllerInv
<1>3. <<value>> # <<>> /\ <<value>>[1] = value /\ value.text = t.value /\ value.line = d.line
  OBVIOUS
<1> HIDE DEF d, next, value
<1>4. /\ DOMAIN kept = DOMAIN doc /\ kept.line = doc.line + 1 /\ kept.section = "state"
      /\ DOMAIN kept.controller = ControllerFields
      /\ kept.controller.line = c.line /\ kept.controller.type = c.type
      /\ kept.controller.pending = <<value>> /\ kept.refs = doc.refs
  BY <1>1, <1>2 DEF DocumentFields, ControllerFields
<1>5. next = IF Changes(c.type) THEN EmitStateReference(kept) ELSE kept
  BY <1>1 DEF ControllerLine, value
<1> HIDE DEF kept, c
<1>6. CASE Changes(c.type)
  <2>1. /\ DOMAIN kept = DocumentFields
        /\ Changes(kept.controller.type)
    BY <1>2, <1>4, <1>6
  <2>2. LET last == kept.controller.pending[1]
        IN /\ DOMAIN next = DOMAIN kept /\ next.line = kept.line /\ next.section = kept.section
           /\ DOMAIN next.controller = ControllerFields
           /\ next.controller.line = kept.controller.line
           /\ next.controller.type = kept.controller.type
           /\ next.controller.pending = <<>>
           /\ next.refs = IF kept.controller.pending = <<>> \/ last.text = "" THEN kept.refs
                          ELSE Append(kept.refs, StateReference(kept.controller.line,
                                                  last.text, last.line, kept.line))
    BY <1>4, <1>5, <1>6, <2>1, Emitted
  <2>3. LET last == kept.controller.pending[1]
        IN last.text = t.value /\ last.line = doc.line + 1 /\ kept.controller.pending # <<>>
    BY <1>1, <1>3, <1>4
  <2> HIDE DEF value
  <2> QED
    BY <1>4, <1>6, <2>2, <2>3 DEF c, next, ValueFed
<1>7. CASE ~Changes(c.type)
  BY <1>1, <1>4, <1>5, <1>7 DEF c, next, value, ValueFed
<1> QED
  BY <1>6, <1>7

\* The commands of a trigger line become references, in their order.
LEMMA FeedTrigger ==
  ASSUME NEW file, NEW doc, NEW t \in SourceLine, DocumentInv(file, doc),
         doc.section = "state", t.kind = "key", t.key = "trigger"
  PROVE  LET next == Feed(doc, t)
         IN /\ DOMAIN next = DOMAIN doc /\ next.line = doc.line + 1 /\ next.section = "state"
            /\ next.controller = doc.controller
            /\ next.refs = doc.refs \o [i \in DOMAIN t.value |->
                 [kind |-> "command", target |-> t.value[i], source |-> doc.controller.line,
                  line |-> next.line, span |-> next.line, occurrence |-> i - 1, dynamic |-> FALSE]]
<1> DEFINE d == [doc EXCEPT !.line = @ + 1]
           next == Feed(doc, t)
<1>1. /\ next = ControllerLine(d, t)
      /\ DOMAIN d = DOMAIN doc /\ d.line = doc.line + 1 /\ d.section = "state"
      /\ d.controller = doc.controller /\ d.refs = doc.refs
  BY ControllerFed
<1>2. DOMAIN doc = DocumentFields
  BY DEF DocumentInv, DocumentFields
<1> HIDE DEF d, next
<1> DEFINE commands == [i \in DOMAIN t.value |->
             [kind |-> "command", target |-> t.value[i], source |-> d.controller.line,
              line |-> d.line, span |-> d.line, occurrence |-> i - 1, dynamic |-> FALSE]]
<1>3. next = [d EXCEPT !.refs = @ \o commands]
  BY <1>1 DEF ControllerLine
<1>4. commands = [i \in DOMAIN t.value |->
        [kind |-> "command", target |-> t.value[i], source |-> doc.controller.line,
         line |-> doc.line + 1, span |-> doc.line + 1, occurrence |-> i - 1, dynamic |-> FALSE]]
  BY <1>1
<1> HIDE DEF commands
<1>5. /\ DOMAIN next = DOMAIN doc /\ next.line = doc.line + 1 /\ next.section = "state"
      /\ next.controller = doc.controller /\ next.refs = doc.refs \o commands
  BY <1>1, <1>2, <1>3
<1> QED
  BY <1>4, <1>5 DEF next

\* A header closes the controller and opens one in a state section; it adds no reference.
LEMMA FeedHeader ==
  ASSUME NEW file, NEW doc, NEW t \in SourceLine, DocumentInv(file, doc), t.kind = "section"
  PROVE  LET next == Feed(doc, t)
         IN /\ DOMAIN next = DOMAIN doc /\ next.line = doc.line + 1 /\ next.refs = doc.refs
            /\ next.section = "state" <=> t.section = "state"
            /\ t.section = "state" =>
                 next.controller = [line |-> next.line, type |-> Nobody, pending |-> <<>>]
<1> DEFINE d == [doc EXCEPT !.line = @ + 1]
           next == Feed(doc, t)
           start == [d EXCEPT !.section = IF t.section = "" THEN Nobody ELSE t.section,
                              !.controller = Nobody]
<1>1. DOMAIN doc = DocumentFields
  BY DEF DocumentInv, DocumentFields
<1>2. DOMAIN d = DOMAIN doc /\ d.line = doc.line + 1 /\ d.refs = doc.refs
  BY <1>1
<1>3. next = Header(d, t)
  BY DEF Feed
<1>4. Nobody # "state"
  BY NobodyAssumption DEF NobodyAssumption
<1> HIDE DEF d, next
<1>5. /\ DOMAIN start = DOMAIN doc /\ start.line = doc.line + 1 /\ start.refs = doc.refs
      /\ start.section = IF t.section = "" THEN Nobody ELSE t.section
  BY <1>1, <1>2
<1>6. CASE t.section = ""
  <2>1. next = Diagnose(start, "malformed-section")
    BY <1>3, <1>6 DEF Header
  <2> HIDE DEF start
  <2> QED
    BY <1>1, <1>4, <1>5, <1>6, <2>1 DEF Diagnose, next, DocumentFields
<1>7. CASE t.section = "statedef"
  <2> DEFINE named == [start EXCEPT !.symbols = Append(d.symbols, Symbol("statedef", StateID(t.arg), d.line))]
  <2>1. next = IF t.arg = "" THEN Diagnose(named, "malformed-statedef") ELSE named
    BY <1>3, <1>7 DEF Header
  <2> HIDE DEF start
  <2>2. DOMAIN named = DOMAIN doc /\ named.line = doc.line + 1 /\ named.refs = doc.refs
        /\ named.section = "statedef"
    BY <1>1, <1>5, <1>7
  <2> HIDE DEF named
  <2> QED
    BY <1>1, <1>7, <2>1, <2>2 DEF Diagnose, next, DocumentFields
<1>8. CASE t.section = "state"
  <2>1. next = [start EXCEPT !.symbols = Append(d.symbols, Symbol("controller", StateID(t.arg), d.line)),
                             !.controller = [line |-> d.line, type |-> Nobody, pending |-> <<>>]]
    BY <1>3, <1>8 DEF Header
  <2> HIDE DEF start
  <2> QED
    BY <1>1, <1>2, <1>5, <1>8, <2>1 DEF next
<1>9. CASE t.section \notin {"", "statedef", "state"}
  <2>1. next = start
    BY <1>3, <1>9 DEF Header
  <2> QED
    BY <1>5, <1>9, <2>1 DEF next
<1> QED
  BY <1>6, <1>7, <1>8, <1>9

\* Without an open controller a line opens one only if it is a header of one.
LEMMA NothingOpen ==
  ASSUME NEW file \in Seq(SourceLine), NEW t \in SourceLine,
         t.kind = "section" \/ \A h : ~Open(file, h)
  PROVE  \A h : Open(Append(file, t), h) <=>
                  t.kind = "section" /\ t.section = "state" /\ h = Len(file) + 1
<1> DEFINE more == Append(file, t)
           n == Len(file)
<1>1. /\ n \in Nat /\ DOMAIN file = 1..n /\ DOMAIN more = 1..n + 1 /\ Len(more) = n + 1
      /\ more[n + 1] = t /\ \A i \in 1..n : more[i] = file[i]
  BY OneMoreLine
<1> HIDE DEF more, n
<1> SUFFICES ASSUME NEW h
             PROVE  Open(more, h) <=> t.kind = "section" /\ t.section = "state" /\ h = n + 1
  BY DEF more, n
<1>2. CASE h = n + 1
  <2>1. \A j \in h + 1..n + 1 : FALSE
    BY <1>1, <1>2
  <2>2. h \in DOMAIN more /\ more[h] = t
    BY <1>1, <1>2
  <2> QED
    BY <1>1, <1>2, <2>1, <2>2 DEF Open, ControllerHeaders
<1>3. CASE h \in 1..n
  <2>1. h # n + 1 /\ n + 1 \in h + 1..n + 1
    BY <1>1, <1>3
  <2>2. \A j \in h + 1..n : j \in 1..n /\ j \in h + 1..n + 1
    BY <1>1, <1>3
  <2>3. Open(more, h) => t.kind # "section" /\ Open(file, h)
    BY <1>1, <1>3, <2>1, <2>2 DEF Open, ControllerHeaders, n
  <2> QED
    BY <2>1, <2>3
<1>4. CASE h \notin 1..n + 1
  <2>1. h # n + 1
    BY <1>1, <1>4
  <2> QED
    BY <1>1, <1>4, <2>1 DEF Open, ControllerHeaders
<1> QED
  BY <1>1, <1>2, <1>3, <1>4

\* The document follows the file.
LEMMA DocumentKept ==
  ASSUME NEW file \in Seq(SourceLine), NEW doc, NEW t \in SourceLine, DocumentInv(file, doc)
  PROVE  DocumentInv(Append(file, t), Feed(doc, t))
<1> DEFINE more == Append(file, t)
           next == Feed(doc, t)
           c == doc.controller
<1>1. Len(more) = Len(file) + 1 /\ Len(file) \in Nat
  BY OneMoreLine
<1>2. /\ DOMAIN doc = DocumentFields
      /\ doc.line = Len(file)
      /\ doc.section = "state" => ControllerInv(file, c)
      /\ doc.section # "state" => \A h : ~Open(file, h)
  BY DEF DocumentInv, DocumentFields
<1> HIDE DEF more, next, c
<1>3. CASE t.kind = "section"
  <2>1. /\ DOMAIN next = DOMAIN doc /\ next.line = doc.line + 1
        /\ next.section = "state" <=> t.section = "state"
        /\ t.section = "state" =>
             next.controller = [line |-> next.line, type |-> Nobody, pending |-> <<>>]
    BY <1>3, FeedHeader DEF next
  <2>2. \A h : Open(more, h) <=> t.section = "state" /\ h = Len(more)
    BY <1>1, <1>3, NothingOpen DEF more
  <2>3. CASE t.section = "state"
    <3>1. /\ DOMAIN next.controller = ControllerFields
          /\ next.controller.line = Len(more) /\ next.controller.type = Nobody
          /\ next.controller.pending = <<>>
      BY <1>1, <1>2, <2>1, <2>3 DEF ControllerFields
    <3>2. \A j \in Len(more) + 1..Len(more) : FALSE
      BY <1>1
    <3>3. ~ChangeInForce(more, Len(more)) /\ \A i : ~Waits(more, Len(more), i)
      BY <3>2 DEF ChangeInForce, Waits
    <3>4. ~Changes(Nobody)
      BY NobodyAssumption DEF NobodyAssumption, Changes
    <3>5. ControllerInv(more, next.controller)
      BY <2>2, <2>3, <3>1, <3>3, <3>4 DEF ControllerInv
    <3> QED
      BY <1>1, <1>2, <2>1, <2>3, <3>5 DEF DocumentInv, more, next
  <2>4. CASE t.section # "state"
    BY <1>1, <1>2, <2>1, <2>2, <2>4 DEF DocumentInv, more, next
  <2> QED
    BY <2>3, <2>4
<1>4. CASE t.kind # "section" /\ doc.section # "state"
  <2>1. Passes(doc, t)
    BY <1>4 DEF Passes
  <2>2. DOMAIN next = DOMAIN doc /\ next.line = doc.line + 1 /\ next.section = doc.section
    BY <2>1, FeedPasses DEF next
  <2>3. \A h : ~Open(more, h)
    BY <1>2, <1>4, NothingOpen DEF more
  <2> QED
    BY <1>1, <1>2, <1>4, <2>2, <2>3 DEF DocumentInv, more, next
<1>5. CASE t.kind # "section" /\ doc.section = "state"
  <2> DEFINE h == c.line
             type == t.kind = "key" /\ t.key = "type"
             value == t.kind = "key" /\ t.key = "value"
  <2>1. ControllerInv(file, c) /\ Open(file, h) /\ DOMAIN c = ControllerFields
    BY <1>2, <1>5 DEF ControllerInv
  <2>2. /\ Open(more, h)
        /\ ChangeInForce(more, h) <=> IF type THEN Changes(t.value) ELSE ChangeInForce(file, h)
        /\ \A i : Waits(more, h, i) <=>
             IF type \/ value THEN value /\ i = Len(file) + 1 ELSE Waits(file, h, i)
    BY <1>5, <2>1, TypeAndValue DEF more
  <2>3. more[Len(file) + 1] = t /\ \A i \in 1..Len(file) : more[i] = file[i]
    BY OneMoreLine DEF more
  <2>4. DOMAIN next = DOMAIN doc /\ next.line = doc.line + 1 /\ next.section = "state"
    <3>1. CASE type
      <4>1. TypeFed(doc, t, next)
        BY <1>5, <3>1, FeedType DEF next
      <4> QED
        BY <4>1 DEF TypeFed
    <3>2. CASE value
      <4>1. ValueFed(doc, t, next)
        BY <1>5, <3>2, FeedValue DEF next
      <4> QED
        BY <4>1 DEF ValueFed
    <3>3. CASE t.kind = "key" /\ t.key = "trigger"
      BY <1>5, <3>3, FeedTrigger DEF next
    <3>4. CASE Passes(doc, t)
      BY <1>5, <3>4, FeedPasses DEF next
    <3> QED
      BY <1>5, <3>1, <3>2, <3>3, <3>4 DEF Passes
  <2>5. ControllerInv(more, next.controller)
    <3>1. CASE type
      <4>1. /\ DOMAIN next.controller = ControllerFields
            /\ next.controller.line = h /\ next.controller.type = t.value
            /\ next.controller.pending = <<>>
        <5>1. TypeFed(doc, t, next)
          BY <1>5, <3>1, FeedType DEF next
        <5> QED
          BY <5>1 DEF TypeFed, c
      <4>2. ~value
        BY <3>1
      <4> QED
        BY <2>2, <3>1, <4>1, <4>2 DEF ControllerInv
    <3>2. CASE value
      <4>1. /\ DOMAIN next.controller = ControllerFields
            /\ next.controller.line = h /\ next.controller.type = c.type
            /\ Changes(c.type) => next.controller.pending = <<>>
            /\ ~Changes(c.type) =>
                 next.controller.pending = <<[text |-> t.value, line |-> next.line]>>
        <5>1. ValueFed(doc, t, next)
          BY <1>5, <3>2, FeedValue DEF next
        <5> QED
          BY <5>1 DEF ValueFed, c
      <4>2. ~type /\ next.line = Len(file) + 1
        BY <1>2, <2>4, <3>2
      <4>3. Changes(c.type) <=> ChangeInForce(file, h)
        BY <2>1 DEF ControllerInv
      <4>4. CASE Changes(c.type)
        BY <2>2, <3>2, <4>1, <4>2, <4>3, <4>4 DEF ControllerInv
      <4>5. CASE ~Changes(c.type)
        <5>1. Waits(more, h, Len(file) + 1)
          BY <2>2, <3>2, <4>2
        <5>2. next.controller.pending = <<[text |-> more[Len(file) + 1].value, line |-> Len(file) + 1]>>
          BY <2>3, <4>1, <4>2, <4>5
        <5> QED
          BY <2>2, <3>2, <4>1, <4>2, <4>3, <4>5, <5>1, <5>2 DEF ControllerInv
      <4> QED
        BY <4>4, <4>5
    <3>3. CASE ~type /\ ~value
      <4>1. next.controller = c
        <5>1. CASE t.kind = "key" /\ t.key = "trigger"
          BY <1>5, <5>1, FeedTrigger DEF next, c
        <5>2. CASE Passes(doc, t)
          BY <1>5, <5>2, FeedPasses DEF next, c
        <5> QED
          BY <1>5, <3>3, <5>1, <5>2 DEF Passes
      <4>2. \A i : Waits(file, h, i) => i \in 1..Len(file)
        BY <1>1, <2>1 DEF Waits, Open, ControllerHeaders
      <4>3. /\ Open(more, h)
            /\ ChangeInForce(more, h) <=> ChangeInForce(file, h)
            /\ \A i : Waits(more, h, i) <=> Waits(file, h, i)
        BY <2>2, <3>3
      <4> HIDE DEF h, type, value
      <4>a. Changes(c.type) <=> ChangeInForce(more, h)
        BY <2>1, <4>3 DEF ControllerInv, h
      <4>4. CASE c.pending = <<>> /\ \A i : Waits(file, h, i) => Changes(c.type)
        BY <2>1, <4>1, <4>3, <4>4, <4>a DEF ControllerInv, h
      <4>5. CASE /\ ~Changes(c.type)
                 /\ \E i : Waits(file, h, i) /\ c.pending = <<[text |-> file[i].value, line |-> i]>>
        <5>1. PICK i : Waits(file, h, i) /\ c.pending = <<[text |-> file[i].value, line |-> i]>>
          BY <4>5
        <5>2. Waits(more, h, i) /\ c.pending = <<[text |-> more[i].value, line |-> i]>>
          BY <2>3, <4>2, <4>3, <5>1
        <5> QED
          BY <2>1, <4>1, <4>3, <4>5, <4>a, <5>2 DEF ControllerInv, h
      <4> QED
        BY <2>1, <4>4, <4>5 DEF ControllerInv, h
    <3> QED
      BY <3>1, <3>2, <3>3
  <2> QED
    BY <1>1, <1>2, <2>4, <2>5 DEF DocumentInv, more, next
<1> QED
  BY <1>3, <1>4, <1>5

\* References that stay in a longer file.
LEMMA SameReferences ==
  ASSUME NEW file \in Seq(SourceLine), NEW t \in SourceLine, NEW refs, PlaceInv(file, refs)
  PROVE  LET more == Append(file, t)
         IN /\ PlaceInv(more, refs)
            /\ StatesInv(file, refs) /\ StateChanges(more) = StateChanges(file) => StatesInv(more, refs)
<1> DEFINE more == Append(file, t)
<1>1. /\ Len(file) \in Nat /\ Len(more) = Len(file) + 1
      /\ \A i \in 1..Len(file) : more[i] = file[i] /\ i \in 1..Len(more)
  BY OneMoreLine
<1> HIDE DEF more
<1>2. PlaceInv(more, refs)
  BY <1>1 DEF PlaceInv
<1>3. StatesInv(file, refs) /\ StateChanges(more) = StateChanges(file) => StatesInv(more, refs)
  BY <1>1 DEF PlaceInv, StatesInv, StatesOf
<1> QED
  BY <1>2, <1>3 DEF more

\* A new reference for a value that counts from now on.
LEMMA OneMoreState ==
  ASSUME NEW file \in Seq(SourceLine), NEW t \in SourceLine, NEW refs, NEW ref \in Reference,
         PlaceInv(file, refs), StatesInv(file, refs),
         ref.kind = "state", ref.line = Len(file) + 1, ref.span \in 1..Len(file) + 1,
         ref.occurrence = 0, ref.target = StateID(Append(file, t)[ref.span].value),
         \A i \in StatesOf(refs) : refs[i].span # ref.span,
         StateChanges(Append(file, t)) = StateChanges(file) \cup {<<ref.source, ref.span>>}
  PROVE  PlaceInv(Append(file, t), Append(refs, ref)) /\ StatesInv(Append(file, t), Append(refs, ref))
<1> DEFINE more == Append(file, t)
           all == Append(refs, ref)
           n == Len(refs)
<1>1. /\ Len(file) \in Nat /\ Len(more) = Len(file) + 1
      /\ \A i \in 1..Len(file) : more[i] = file[i] /\ i \in 1..Len(more)
  BY OneMoreLine
<1>2. /\ refs \in Seq(Reference) /\ n \in Nat /\ DOMAIN refs = 1..n
  BY DEF PlaceInv
<1>3. /\ all \in Seq(Reference) /\ DOMAIN all = 1..n + 1 /\ all[n + 1] = ref
      /\ \A i \in 1..n : all[i] = refs[i]
  BY <1>2
<1>4. \A i \in 1..n + 1 : i = n + 1 \/ i \in DOMAIN refs
  BY <1>2
<1>5. \A i \in DOMAIN refs : i \in 1..n + 1 /\ i # n + 1 /\ all[i] = refs[i]
  BY <1>2, <1>3
<1>a. n + 1 \in 1..n + 1
  BY <1>2
<1>6. \A i \in DOMAIN refs : refs[i].line # ref.line
  BY <1>1 DEF PlaceInv
<1>7. \A i \in DOMAIN refs : ReferenceID(refs[i]) # ReferenceID(ref)
  BY <1>6 DEF ReferenceID
<1> HIDE DEF more, all, n
<1>8. PlaceInv(more, all)
  <2>1. \A i \in DOMAIN all :
          /\ all[i].line \in 1..Len(more) /\ all[i].span \in 1..Len(more)
          /\ all[i].kind = "state" => all[i].occurrence = 0
          /\ all[i].kind = "command" => all[i].span = all[i].line
    <3> TAKE i \in DOMAIN all
    <3>1. CASE i = n + 1
      <4>1. Len(file) + 1 \in 1..Len(more) /\ 1..Len(file) + 1 = 1..Len(more)
        BY <1>1
      <4> QED
        BY <1>3, <3>1, <4>1
    <3>2. CASE i \in DOMAIN refs
      BY <1>1, <1>5, <3>2 DEF PlaceInv
    <3> QED
      BY <1>3, <1>4, <3>1, <3>2
  <2>2. \A i, j \in DOMAIN all : i # j => ReferenceID(all[i]) # ReferenceID(all[j])
    BY <1>3, <1>4, <1>5, <1>7 DEF PlaceInv
  <2> QED
    BY <1>3, <2>1, <2>2 DEF PlaceInv
<1>9. StatesOf(all) = StatesOf(refs) \cup {n + 1}
  BY <1>3, <1>4, <1>5, <1>a DEF StatesOf
<1>10. StatesInv(more, all)
  <2>1. {<<all[i].source, all[i].span>> : i \in StatesOf(all)} = StateChanges(more)
    <3>1. {<<all[i].source, all[i].span>> : i \in StatesOf(all)} =
            {<<refs[i].source, refs[i].span>> : i \in StatesOf(refs)} \cup {<<ref.source, ref.span>>}
      BY <1>3, <1>5, <1>9 DEF StatesOf
    <3> QED
      BY <3>1 DEF StatesInv, more
  <2>2. \A i, j \in StatesOf(all) : i # j => all[i].span # all[j].span
    BY <1>3, <1>5, <1>9 DEF StatesInv, StatesOf
  <2>3. \A i \in StatesOf(all) : all[i].target = StateID(more[all[i].span].value)
    <3> TAKE i \in StatesOf(all)
    <3>1. CASE i = n + 1
      BY <1>3, <3>1 DEF more
    <3>2. CASE i \in StatesOf(refs)
      BY <1>1, <1>5, <3>2 DEF StatesInv, StatesOf, PlaceInv
    <3> QED
      BY <1>9, <3>1, <3>2
  <2> QED
    BY <2>1, <2>2, <2>3 DEF StatesInv
<1> QED
  BY <1>8, <1>10 DEF more, all

\* The commands of a further line.
LEMMA MoreCommands ==
  ASSUME NEW file \in Seq(SourceLine), NEW t \in SourceLine, NEW refs, NEW commands \in Seq(Reference),
         PlaceInv(file, refs), StatesInv(file, refs), StateChanges(Append(file, t)) = StateChanges(file),
         \A i \in DOMAIN commands :
           /\ commands[i].kind = "command" /\ commands[i].occurrence = i - 1
           /\ commands[i].line = Len(file) + 1 /\ commands[i].span = Len(file) + 1
  PROVE  PlaceInv(Append(file, t), refs \o commands) /\ StatesInv(Append(file, t), refs \o commands)
<1> DEFINE more == Append(file, t)
           all == refs \o commands
           n == Len(refs)
           m == Len(commands)
<1>1. /\ Len(file) \in Nat /\ Len(more) = Len(file) + 1
      /\ \A i \in 1..Len(file) : more[i] = file[i] /\ i \in 1..Len(more)
  BY OneMoreLine
<1>2. /\ refs \in Seq(Reference) /\ n \in Nat /\ DOMAIN refs = 1..n
      /\ m \in Nat /\ DOMAIN commands = 1..m
  BY DEF PlaceInv
<1>3. /\ all \in Seq(Reference) /\ DOMAIN all = 1..n + m
      /\ \A i \in 1..n : all[i] = refs[i]
      /\ \A i \in n + 1..n + m : all[i] = commands[i - n]
  BY <1>2
<1> HIDE DEF all
<1>4. \A i \in 1..n + m : i \in DOMAIN refs \/ (i \in n + 1..n + m /\ i - n \in DOMAIN commands)
  BY <1>2
<1>5. \A i \in DOMAIN refs : i \in DOMAIN all /\ all[i] = refs[i]
  BY <1>2, <1>3
<1>6. \A i \in n + 1..n + m :
        /\ all[i].kind = "command" /\ all[i].occurrence = (i - n) - 1
        /\ all[i].line = Len(file) + 1 /\ all[i].span = Len(file) + 1
  <2> TAKE i \in n + 1..n + m
  <2>1. i - n \in DOMAIN commands
    BY <1>2
  <2> QED
    BY <1>3, <2>1
<1>7. \A i \in DOMAIN refs : refs[i].line # Len(file) + 1
  BY <1>1 DEF PlaceInv
<1> HIDE DEF more
<1>8. PlaceInv(more, all)
  <2>1. \A i \in DOMAIN all :
          /\ all[i].line \in 1..Len(more) /\ all[i].span \in 1..Len(more)
          /\ all[i].kind = "state" => all[i].occurrence = 0
          /\ all[i].kind = "command" => all[i].span = all[i].line
    <3> TAKE i \in DOMAIN all
    <3>1. CASE i \in n + 1..n + m
      <4>1. Len(file) + 1 \in 1..Len(more)
        BY <1>1
      <4> QED
        BY <1>6, <3>1, <4>1
    <3>2. CASE i \in DOMAIN refs
      BY <1>1, <1>5, <3>2 DEF PlaceInv
    <3> QED
      BY <1>3, <1>4, <3>1, <3>2
  <2>2. \A i, j \in DOMAIN all : i # j => ReferenceID(all[i]) # ReferenceID(all[j])
    <3> SUFFICES ASSUME NEW i \in DOMAIN all, NEW j \in DOMAIN all, i # j
                 PROVE  ReferenceID(all[i]) # ReferenceID(all[j])
      OBVIOUS
    <3>1. CASE i \in DOMAIN refs /\ j \in DOMAIN refs
      BY <1>5, <3>1 DEF PlaceInv
    <3>2. CASE i \in DOMAIN refs /\ j \in n + 1..n + m
      BY <1>5, <1>6, <1>7, <3>2 DEF ReferenceID
    <3>3. CASE i \in n + 1..n + m /\ j \in DOMAIN refs
      BY <1>5, <1>6, <1>7, <3>3 DEF ReferenceID
    <3>4. CASE i \in n + 1..n + m /\ j \in n + 1..n + m
      <4>1. (i - n) - 1 # (j - n) - 1
        BY <1>2, <3>4
      <4> QED
        BY <1>6, <3>4, <4>1 DEF ReferenceID
    <3> QED
      BY <1>3, <1>4, <3>1, <3>2, <3>3, <3>4
  <2> QED
    BY <1>3, <2>1, <2>2 DEF PlaceInv
<1>9. StatesOf(all) = StatesOf(refs)
  <2>1. \A i \in StatesOf(all) : i \in StatesOf(refs)
    BY <1>3, <1>4, <1>5, <1>6 DEF StatesOf
  <2> QED
    BY <1>5, <2>1 DEF StatesOf
<1>10. StatesInv(more, all)
  <2>1. {<<all[i].source, all[i].span>> : i \in StatesOf(all)} =
          {<<refs[i].source, refs[i].span>> : i \in StatesOf(refs)}
    BY <1>5, <1>9 DEF StatesOf
  <2>2. \A i \in StatesOf(refs) : all[i] = refs[i] /\ more[refs[i].span] = file[refs[i].span]
    BY <1>1, <1>5 DEF StatesOf, PlaceInv
  <2>3. {<<all[i].source, all[i].span>> : i \in StatesOf(all)} = StateChanges(more)
    BY <2>1 DEF StatesInv, more
  <2>4. \A i, j \in StatesOf(all) : i # j => all[i].span # all[j].span
    BY <1>9, <2>2 DEF StatesInv
  <2>5. \A i \in StatesOf(all) : all[i].target = StateID(more[all[i].span].value)
    BY <1>9, <2>2 DEF StatesInv
  <2> QED
    BY <2>3, <2>4, <2>5 DEF StatesInv
<1> QED
  BY <1>8, <1>10 DEF more, all

\* Of the lines up to n, S has the pairs of T and <<h, i>>.
JoinsPair(S, T, n, h, i) ==
  \A g : \A j \in 1..n : <<g, j>> \in S <=> <<g, j>> \in T \/ (g = h /\ j = i)

\* How the values that count grow, pair by pair.
LEMMA ChangesJoin ==
  ASSUME NEW file \in Seq(SourceLine), NEW t \in SourceLine, NEW h, NEW i \in 1..Len(file) + 1,
         JoinsPair(StateChanges(Append(file, t)), StateChanges(file), Len(file) + 1, h, i)
  PROVE  StateChanges(Append(file, t)) = StateChanges(file) \cup {<<h, i>>}
<1> DEFINE more == Append(file, t)
           n == Len(file)
           S == StateChanges(more)
           T == StateChanges(file)
<1>1. n \in Nat /\ DOMAIN file = 1..n /\ DOMAIN more = 1..n + 1 /\ Len(more) = n + 1
  BY OneMoreLine
<1>2. S \subseteq (DOMAIN more) \X (1..n + 1)
  BY <1>1 DEF StateChanges, ControllerHeaders
<1>3. T \subseteq (DOMAIN file) \X (1..n + 1)
  BY <1>1 DEF StateChanges, ControllerHeaders
<1> HIDE DEF more, n, S, T
<1>4. \A g : \A j \in 1..n + 1 : <<g, j>> \in S <=> <<g, j>> \in T \/ (g = h /\ j = i)
  BY DEF S, T, more, n, JoinsPair
<1>5. ASSUME NEW p \in S PROVE p \in T \cup {<<h, i>>}
  <2>1. PICK g \in DOMAIN more, j \in 1..n + 1 : p = <<g, j>>
    BY <1>2, <1>5
  <2> QED
    BY <1>4, <1>5, <2>1
<1>6. ASSUME NEW p \in T PROVE p \in S
  <2>1. PICK g \in DOMAIN file, j \in 1..n + 1 : p = <<g, j>>
    BY <1>3, <1>6
  <2> QED
    BY <1>4, <1>6, <2>1
<1>7. <<h, i>> \in S
  BY <1>4 DEF n
<1>8. S = T \cup {<<h, i>>}
  BY <1>5, <1>6, <1>7
<1> QED
  BY <1>8 DEF S, T, more

\* One controller is open, one value waits, and a value counts for one controller.
LEMMA OneController ==
  ASSUME NEW file \in Seq(SourceLine), NEW h, Open(file, h)
  PROVE  /\ h \in 1..Len(file)
         /\ \A g : Open(file, g) => g = h
         /\ \A i, j : Waits(file, h, i) /\ Waits(file, h, j) => i = j
         /\ \A g : \A i \in h + 1..Len(file) : <<g, i>> \in StateChanges(file) => g = h
<1> DEFINE n == Len(file)
<1>1. n \in Nat /\ DOMAIN file = 1..n
  OBVIOUS
<1> HIDE DEF n
<1>2. /\ h \in 1..n /\ file[h].kind = "section" /\ \A j \in h + 1..n : file[j].kind # "section"
  BY <1>1 DEF Open, ControllerHeaders, n
<1>3. ASSUME NEW g, Open(file, g) PROVE g = h
  <2>1. /\ g \in 1..n /\ file[g].kind = "section" /\ \A j \in g + 1..n : file[j].kind # "section"
    BY <1>1, <1>3 DEF Open, ControllerHeaders, n
  <2>2. g \notin h + 1..n /\ h \notin g + 1..n
    BY <1>2, <2>1
  <2> QED
    BY <1>1, <1>2, <2>1, <2>2
<1>4. ASSUME NEW i, NEW j, Waits(file, h, i), Waits(file, h, j) PROVE i = j
  <2>1. i \in h + 1..n /\ j \in h + 1..n /\ j \notin i + 1..n /\ i \notin j + 1..n
    BY <1>4 DEF Waits, n
  <2> QED
    BY <1>1, <1>2, <2>1
<1>5. ASSUME NEW g, NEW i \in h + 1..n, <<g, i>> \in StateChanges(file) PROVE g = h
  <2>1. /\ g \in 1..n /\ file[g].kind = "section" /\ i \in g + 1..n
        /\ \A j \in g + 1..i : file[j].kind # "section"
    BY <1>1, <1>5, StateChangesAt DEF ControllerHeaders, SectionLines, n
  <2>2. h \notin g + 1..i /\ g \notin h + 1..n
    BY <1>2, <2>1
  <2> QED
    BY <1>1, <1>2, <2>1, <2>2
<1> QED
  BY <1>2, <1>3, <1>4, <1>5 DEF n

\* A value that waits counts already if the type in force is a state change.
LEMMA WaitingCounts ==
  ASSUME NEW file \in Seq(SourceLine), NEW h, Open(file, h), NEW i, Waits(file, h, i)
  PROVE  <<h, i>> \in StateChanges(file) <=> file[i].value # "" /\ ChangeInForce(file, h)
<1> DEFINE n == Len(file)
<1>1. n \in Nat /\ DOMAIN file = 1..n
  OBVIOUS
<1> HIDE DEF n
<1>2. /\ h \in ControllerHeaders(file) /\ h \in 1..n
      /\ \A j \in h + 1..n : file[j].kind # "section"
  BY <1>1 DEF Open, ControllerHeaders, n
<1>3. /\ i \in h + 1..n /\ Assigns(file, i, "value")
      /\ \A k \in i + 1..n : ~Assigns(file, k, "type") /\ ~Assigns(file, k, "value")
  BY DEF Waits, n
<1>4. SectionLines(file, h) = h + 1..n
  <2>1. \A j \in h + 1..n : \A k \in h + 1..j : k \in h + 1..n
    BY <1>1, <1>2
  <2> QED
    BY <1>2, <2>1 DEF SectionLines, n
<1>5. ~Assigns(file, i, "type")
  BY <1>3 DEF Assigns
<1> DEFINE Type(j) == Assigns(file, j, "type") /\ Changes(file[j].value)
           Last(j) == \A k \in j + 1..n : ~Assigns(file, k, "type")
           Before(j) == j < i /\ \A k \in j + 1..i - 1 : ~Assigns(file, k, "type")
           After(j) == /\ i < j
                       /\ \A k \in i + 1..j - 1 : ~Assigns(file, k, "type") /\ ~Assigns(file, k, "value")
<1>6. \A j \in h + 1..n : Type(j) => j \notin i + 1..n /\ j # i
  BY <1>3, <1>5
<1>7. \A j \in h + 1..n : j \in i + 1..n \/ j = i \/ j < i
  BY <1>1, <1>2, <1>3
<1>8. ASSUME NEW j \in h + 1..n, j < i PROVE Before(j) <=> Last(j)
  <2>1. \A k \in j + 1..n : k \in j + 1..i - 1 \/ k = i \/ k \in i + 1..n
    BY <1>1, <1>2, <1>3, <1>8
  <2>2. \A k \in j + 1..i - 1 : k \in j + 1..n
    BY <1>1, <1>2, <1>3, <1>8
  <2> QED
    BY <1>3, <1>5, <1>8, <2>1, <2>2
<1>9. \A j \in h + 1..n : i < j => j \in i + 1..n
  BY <1>1, <1>2, <1>3
<1>10. (\E j \in h + 1..n : Type(j) /\ (Before(j) \/ After(j))) <=> \E j \in h + 1..n : Type(j) /\ Last(j)
  <2>1. \A j \in h + 1..n : Type(j) => j < i
    BY <1>6, <1>7
  <2>2. \A j \in h + 1..n : Type(j) => ~After(j)
    BY <1>6, <1>9
  <2> HIDE DEF Type, Before, After, Last
  <2> QED
    BY <1>8, <2>1, <2>2
<1>11. ChangeInForce(file, h) <=> \E j \in h + 1..n : Type(j) /\ Last(j)
  BY DEF ChangeInForce, n
<1>12. Counts(file, h, i) <=>
         file[i].value # "" /\ \E j \in h + 1..n : Type(j) /\ (Before(j) \/ After(j))
  BY <1>3, <1>4 DEF Counts
<1> HIDE DEF Type, Before, After, Last
<1>13. Counts(file, h, i) <=> file[i].value # "" /\ ChangeInForce(file, h)
  BY <1>10, <1>11, <1>12
<1> QED
  BY <1>2, <1>3, <1>4, <1>13, StateChangesAt

\* A reference for a value is one.
LEMMA StateReferenceTyped ==
  ASSUME NEW h \in Nat, NEW text, StateID(text) \in Target, NEW span \in Nat, NEW line \in Nat
  PROVE  LET ref == StateReference(h, text, span, line)
         IN /\ ref \in Reference /\ ref.kind = "state" /\ ref.line = line /\ ref.span = span
            /\ ref.occurrence = 0 /\ ref.source = h /\ ref.target = StateID(text)
BY DEF StateReference, Reference

\* The references follow the file.
LEMMA ReferencesKept ==
  ASSUME NEW file \in Seq(SourceLine), NEW doc, NEW t \in SourceLine,
         DocumentInv(file, doc), PlaceInv(file, doc.refs), StatesInv(file, doc.refs)
  PROVE  /\ PlaceInv(Append(file, t), Feed(doc, t).refs)
         /\ StatesInv(Append(file, t), Feed(doc, t).refs)
<1> DEFINE more == Append(file, t)
           next == Feed(doc, t)
           n == Len(file)
           c == doc.controller
           h == c.line
<1>1. /\ n \in Nat /\ DOMAIN file = 1..n /\ Len(more) = n + 1 /\ more[n + 1] = t
      /\ \A i \in 1..n : more[i] = file[i] /\ file[i] \in SourceLine
  BY OneMoreLine
<1>2. /\ doc.line = n
      /\ doc.section = "state" => ControllerInv(file, c)
      /\ doc.section # "state" => \A g : ~Open(file, g)
  BY DEF DocumentInv
<1> HIDE DEF more, next, n, c, h
<1>3. ASSUME next.refs = doc.refs, StateChanges(more) = StateChanges(file)
      PROVE  PlaceInv(more, next.refs) /\ StatesInv(more, next.refs)
  BY <1>3, SameReferences DEF more
<1>4. CASE t.kind = "section"
  <2>1. next.refs = doc.refs
    BY <1>4, FeedHeader DEF next
  <2>2. StateChanges(more) = StateChanges(file)
    BY <1>4, ChangesKept DEF more
  <2> QED
    BY <1>3, <2>1, <2>2 DEF more, next
<1>5. CASE Passes(doc, t)
  <2>1. next.refs = doc.refs
    BY <1>5, FeedPasses DEF next
  <2>2. StateChanges(more) = StateChanges(file)
    BY <1>2, <1>5, ChangesKept DEF more, Passes
  <2> QED
    BY <1>3, <2>1, <2>2 DEF more, next
<1>6. ASSUME doc.section = "state", t.kind = "key", t.key \in {"type", "value", "trigger"}
      PROVE  PlaceInv(more, next.refs) /\ StatesInv(more, next.refs)
  <2>1. ControllerInv(file, c) /\ Open(file, h)
    BY <1>2, <1>6 DEF ControllerInv, h
  <2>2. /\ h \in 1..n /\ \A g : Open(file, g) => g = h
        /\ \A i, j : Waits(file, h, i) /\ Waits(file, h, j) => i = j
        /\ \A g : \A i \in h + 1..n : <<g, i>> \in StateChanges(file) => g = h
    BY <2>1, OneController DEF n
  <2>3. h \in Nat /\ n + 1 \in Nat
    BY <1>1, <2>2
  <2>4. CASE t.key = "trigger"
    <3> DEFINE commands == [i \in DOMAIN t.value |->
                 [kind |-> "command", target |-> t.value[i], source |-> doc.controller.line,
                  line |-> n + 1, span |-> n + 1, occurrence |-> i - 1, dynamic |-> FALSE]]
    <3>1. next.refs = doc.refs \o commands
      <4>1. next.line = n + 1
        BY <1>2, <1>6, <2>4, FeedTrigger DEF next
      <4>2. next.refs = doc.refs \o [i \in DOMAIN t.value |->
              [kind |-> "command", target |-> t.value[i], source |-> doc.controller.line,
               line |-> next.line, span |-> next.line, occurrence |-> i - 1, dynamic |-> FALSE]]
        BY <1>6, <2>4, FeedTrigger DEF next
      <4> QED
        BY <4>1, <4>2
    <3>2. t.value \in Seq(STRING)
      BY <1>6, <2>4, SourceLineAssumption DEF SourceLineAssumption
    <3>3. DOMAIN t.value = 1..Len(t.value) /\ Len(t.value) \in Nat
      BY <3>2
    <3>4. \A i \in DOMAIN t.value :
            /\ commands[i] \in Reference /\ commands[i].kind = "command"
            /\ commands[i].occurrence = i - 1
            /\ commands[i].line = n + 1 /\ commands[i].span = n + 1
      <4> TAKE i \in DOMAIN t.value
      <4>1. t.value[i] \in Target /\ i - 1 \in Nat
        BY <3>2, <3>3 DEF Target
      <4> QED
        BY <2>3, <4>1 DEF Reference, c, h
    <3>5. DOMAIN commands = DOMAIN t.value
      OBVIOUS
    <3>a. commands = [i \in DOMAIN commands |-> commands[i]]
      OBVIOUS
    <3> HIDE DEF commands
    <3>6. commands \in Seq(Reference)
      <4>1. commands \in [1..Len(t.value) -> Reference]
        BY <3>3, <3>4, <3>5, <3>a
      <4> QED
        BY <3>3, <4>1
    <3>7. StateChanges(more) = StateChanges(file)
      BY <2>4, ChangesKept DEF more
    <3> QED
      BY <3>1, <3>4, <3>5, <3>6, <3>7, MoreCommands DEF more, n
  <2>5. ASSUME NEW i \in h + 1..n + 1, <<h, i>> \notin StateChanges(file),
               StateChanges(more) = StateChanges(file) \cup {<<h, i>>},
               next.refs = Append(doc.refs, StateReference(h, more[i].value, i, n + 1))
        PROVE  PlaceInv(more, next.refs) /\ StatesInv(more, next.refs)
    <3> DEFINE ref == StateReference(h, more[i].value, i, n + 1)
    <3>1. i \in 1..n + 1 /\ i \in Nat /\ more[i] \in SourceLine
      BY <1>1, <2>2
    <3>2. /\ ref \in Reference /\ ref.kind = "state" /\ ref.line = n + 1 /\ ref.span = i
          /\ ref.occurrence = 0 /\ ref.source = h /\ ref.target = StateID(more[i].value)
      <4>1. StateID(more[i].value) \in Target
        BY <3>1 DEF Target
      <4> QED
        BY <2>3, <3>1, <4>1, StateReferenceTyped
    <3>3. \A k \in StatesOf(doc.refs) : doc.refs[k].span # i
      <4> SUFFICES ASSUME NEW k \in StatesOf(doc.refs), doc.refs[k].span = i PROVE FALSE
        OBVIOUS
      <4>1. <<doc.refs[k].source, i>> \in StateChanges(file)
        BY DEF StatesInv
      <4>2. doc.refs[k].span \in 1..n
        BY DEF PlaceInv, StatesOf, n
      <4>3. i \in h + 1..n
        BY <1>1, <2>2, <2>5, <4>2
      <4> QED
        BY <2>2, <2>5, <4>1, <4>3
    <3> HIDE DEF ref
    <3>4. next.refs = Append(doc.refs, ref)
      BY <2>5 DEF ref
    <3> QED
      <4>1. /\ ref.line = Len(file) + 1 /\ ref.span \in 1..Len(file) + 1
            /\ ref.target = StateID(Append(file, t)[ref.span].value)
        BY <3>1, <3>2 DEF more, n
      <4>2. StateChanges(Append(file, t)) = StateChanges(file) \cup {<<ref.source, ref.span>>}
        BY <2>5, <3>2 DEF more
      <4>3. \A k \in StatesOf(doc.refs) : doc.refs[k].span # ref.span
        BY <3>2, <3>3
      <4>4. /\ PlaceInv(Append(file, t), Append(doc.refs, ref))
            /\ StatesInv(Append(file, t), Append(doc.refs, ref))
        BY <3>2, <4>1, <4>2, <4>3, OneMoreState
      <4> QED
        BY <3>4, <4>4 DEF more
  <2>6. ASSUME NEW i \in h + 1..n + 1,
               \A g : \A j \in 1..n + 1 :
                 <<g, j>> \in StateChanges(more) <=>
                   <<g, j>> \in StateChanges(file) \/ (g = h /\ j = i)
        PROVE  StateChanges(more) = StateChanges(file) \cup {<<h, i>>}
    <3>1. i \in 1..n + 1
      BY <1>1, <2>2
    <3> QED
      <4>1. JoinsPair(StateChanges(Append(file, t)), StateChanges(file), Len(file) + 1, h, i)
        BY <2>6 DEF more, n, JoinsPair
      <4>2. i \in 1..Len(file) + 1
        BY <3>1 DEF n
      <4>3. StateChanges(Append(file, t)) = StateChanges(file) \cup {<<h, i>>}
        BY <4>1, <4>2, ChangesJoin
      <4> QED
        BY <4>3 DEF more
  <2>7. /\ \A g : \A j \in 1..n :
             <<g, j>> \in StateChanges(more) <=>
               \/ <<g, j>> \in StateChanges(file)
               \/ /\ t.key = "type" /\ Changes(t.value)
                  /\ g = h /\ Waits(file, h, j) /\ file[j].value # ""
        /\ \A g : <<g, n + 1>> \in StateChanges(more) <=>
             t.key = "value" /\ t.value # "" /\ g = h /\ ChangeInForce(file, h)
    <3>1. \A g : Open(file, g) <=> g = h
      BY <2>1, <2>2
    <3>2. \A g : \A j \in 1..n :
            <<g, j>> \in StateChanges(more) <=>
               \/ <<g, j>> \in StateChanges(file)
               \/ /\ t.kind = "key" /\ t.key = "type" /\ Changes(t.value)
                  /\ Open(file, g) /\ Waits(file, g, j) /\ file[j].value # ""
      BY EarlierValues DEF more, n
    <3>3. \A g : <<g, n + 1>> \in StateChanges(more) <=>
            /\ t.kind = "key" /\ t.key = "value" /\ t.value # ""
            /\ Open(file, g) /\ ChangeInForce(file, g)
      BY LastValue DEF more, n
    <3> QED
      BY <1>6, <3>1, <3>2, <3>3
  <2>8. \A j \in 1..n + 1 : j \in 1..n \/ j = n + 1
    BY <1>1
  <2>9. \A g, j : <<g, j>> \in StateChanges(file) => j \in 1..n
    BY DEF StateChanges, n
  <2>10. \A j \in 1..n : j # n + 1
    BY <1>1
  <2>a. \A i : Waits(file, h, i) =>
          /\ i \in 1..n /\ i \in h + 1..n + 1
          /\ <<h, i>> \in StateChanges(file) <=> file[i].value # "" /\ ChangeInForce(file, h)
    <3> TAKE i
    <3> HAVE Waits(file, h, i)
    <3>1. i \in h + 1..n
      BY DEF Waits, n
    <3>2. i \in 1..n /\ i \in h + 1..n + 1
      BY <1>1, <2>2, <3>1
    <3> QED
      BY <2>1, <3>2, WaitingCounts
  <2>b. /\ Changes(c.type) <=> ChangeInForce(file, h)
        /\ \/ c.pending = <<>> /\ \A i : Waits(file, h, i) => Changes(c.type)
           \/ /\ ~Changes(c.type)
              /\ \E i : /\ Waits(file, h, i)
                        /\ c.pending = <<[text |-> file[i].value, line |-> i]>>
    BY <2>1 DEF ControllerInv, h
  <2>c. ASSUME \A g : \A j \in 1..n + 1 :
                 <<g, j>> \in StateChanges(more) <=> <<g, j>> \in StateChanges(file)
        PROVE  StateChanges(more) = StateChanges(file)
    <3>1. \A p \in StateChanges(more) : \E g : \E j \in 1..n + 1 : p = <<g, j>>
      BY <1>1 DEF StateChanges
    <3>2. \A p \in StateChanges(file) : \E g : \E j \in 1..n + 1 : p = <<g, j>>
      <4>1. \A j \in 1..n : j \in 1..n + 1
        BY <1>1
      <4> QED
        BY <4>1 DEF StateChanges, n
    <3>3. ASSUME NEW p \in StateChanges(more) PROVE p \in StateChanges(file)
      <4>1. PICK g : \E j \in 1..n + 1 : p = <<g, j>>
        BY <3>1, <3>3
      <4> QED
        BY <2>c, <3>3, <4>1
    <3>4. ASSUME NEW p \in StateChanges(file) PROVE p \in StateChanges(more)
      <4>1. PICK g : \E j \in 1..n + 1 : p = <<g, j>>
        BY <3>2, <3>4
      <4> QED
        BY <2>c, <3>4, <4>1
    <3> QED
      BY <3>3, <3>4
  <2>11. CASE t.key = "type"
    <3>1. TypeFed(doc, t, next) /\ next.line = n + 1
      <4>1. TypeFed(doc, t, next)
        BY <1>6, <2>11, FeedType DEF next
      <4> QED
        BY <1>2, <4>1 DEF TypeFed
    <3>2. /\ ~Changes(t.value) \/ c.pending = <<>> \/ c.pending[1].text = "" => next.refs = doc.refs
          /\ Changes(t.value) /\ c.pending # <<>> /\ c.pending[1].text # "" =>
               next.refs = Append(doc.refs, StateReference(h, c.pending[1].text, c.pending[1].line, n + 1))
      BY <3>1 DEF TypeFed, c, h
    <3>3. \A g : <<g, n + 1>> \notin StateChanges(more)
      BY <2>7, <2>11
    <3>4. CASE ~Changes(t.value)
      <4>1. \A g : \A j \in 1..n + 1 :
              <<g, j>> \in StateChanges(more) <=> <<g, j>> \in StateChanges(file)
        BY <2>7, <2>8, <2>9, <2>10, <3>3, <3>4
      <4> QED
        BY <1>3, <2>c, <3>2, <3>4, <4>1
    <3>5. CASE Changes(t.value) /\ c.pending = <<>> /\ \A i : Waits(file, h, i) => Changes(c.type)
      <4>1. \A g : \A j \in 1..n + 1 :
              <<g, j>> \in StateChanges(more) <=> <<g, j>> \in StateChanges(file)
        BY <2>7, <2>8, <2>9, <2>10, <2>a, <2>b, <3>3, <3>5
      <4> QED
        BY <1>3, <2>c, <3>2, <3>5, <4>1
    <3>6. CASE Changes(t.value) /\ ~Changes(c.type)
               /\ \E i : /\ Waits(file, h, i)
                         /\ c.pending = <<[text |-> file[i].value, line |-> i]>>
      <4>1. PICK i : Waits(file, h, i) /\ c.pending = <<[text |-> file[i].value, line |-> i]>>
        BY <3>6
      <4>2. c.pending # <<>> /\ c.pending[1].text = file[i].value /\ c.pending[1].line = i
        BY <4>1
      <4>3. \A j : Waits(file, h, j) <=> j = i
        BY <2>2, <4>1
      <4>4. CASE file[i].value = ""
        <5>1. \A g : \A j \in 1..n + 1 :
                <<g, j>> \in StateChanges(more) <=> <<g, j>> \in StateChanges(file)
          BY <2>7, <2>8, <2>9, <2>10, <3>3, <4>3, <4>4
        <5>2. next.refs = doc.refs
          BY <3>2, <4>2, <4>4
        <5> QED
          BY <1>3, <2>c, <5>1, <5>2
      <4>5. CASE file[i].value # ""
        <5>1. i \in h + 1..n + 1 /\ i \in 1..n /\ <<h, i>> \notin StateChanges(file)
          BY <2>a, <2>b, <3>6, <4>1
        <5>2. \A g : \A j \in 1..n + 1 :
                <<g, j>> \in StateChanges(more) <=>
                  <<g, j>> \in StateChanges(file) \/ (g = h /\ j = i)
          BY <2>7, <2>8, <2>9, <2>10, <2>11, <3>3, <3>6, <4>3, <4>5, <5>1
        <5>3. StateChanges(more) = StateChanges(file) \cup {<<h, i>>}
          BY <2>6, <5>1, <5>2
        <5>4. next.refs = Append(doc.refs, StateReference(h, more[i].value, i, n + 1))
          BY <1>1, <3>2, <3>6, <4>2, <4>5, <5>1
        <5> QED
          BY <2>5, <5>1, <5>3, <5>4
      <4> QED
        BY <4>4, <4>5
    <3> QED
      BY <2>b, <3>4, <3>5, <3>6
  <2>12. CASE t.key = "value"
    <3>1. ValueFed(doc, t, next) /\ next.line = n + 1
      <4>1. ValueFed(doc, t, next)
        BY <1>6, <2>12, FeedValue DEF next
      <4> QED
        BY <1>2, <4>1 DEF ValueFed
    <3>2. /\ ~Changes(c.type) \/ t.value = "" => next.refs = doc.refs
          /\ Changes(c.type) /\ t.value # "" =>
               next.refs = Append(doc.refs, StateReference(h, t.value, n + 1, n + 1))
      BY <3>1 DEF ValueFed, c, h
    <3>3. \A g : \A j \in 1..n :
            <<g, j>> \in StateChanges(more) <=> <<g, j>> \in StateChanges(file)
      BY <2>7, <2>12
    <3>4. CASE ~Changes(c.type) \/ t.value = ""
      <4>1. \A g : \A j \in 1..n + 1 :
              <<g, j>> \in StateChanges(more) <=> <<g, j>> \in StateChanges(file)
        BY <2>7, <2>8, <2>9, <2>10, <2>b, <3>3, <3>4
      <4> QED
        BY <1>3, <2>c, <3>2, <3>4, <4>1
    <3>5. CASE Changes(c.type) /\ t.value # ""
      <4>1. n + 1 \in h + 1..n + 1 /\ <<h, n + 1>> \notin StateChanges(file)
        BY <1>1, <2>2, <2>9, <2>10
      <4>2. \A g : \A j \in 1..n + 1 :
              <<g, j>> \in StateChanges(more) <=>
                <<g, j>> \in StateChanges(file) \/ (g = h /\ j = n + 1)
        BY <2>7, <2>8, <2>9, <2>10, <2>12, <2>b, <3>3, <3>5
      <4>3. StateChanges(more) = StateChanges(file) \cup {<<h, n + 1>>}
        BY <2>6, <4>1, <4>2
      <4>4. next.refs = Append(doc.refs, StateReference(h, more[n + 1].value, n + 1, n + 1))
        BY <1>1, <3>2, <3>5
      <4> QED
        BY <2>5, <4>1, <4>3, <4>4
    <3> QED
      BY <3>4, <3>5
  <2> QED
    BY <1>6, <2>4, <2>11, <2>12
<1>7. t.kind = "section" \/ Passes(doc, t)
        \/ (doc.section = "state" /\ t.kind = "key" /\ t.key \in {"type", "value", "trigger"})
  BY DEF Passes
<1> QED
  BY <1>4, <1>5, <1>6, <1>7 DEF more, next

ParserInv ==
  /\ syntax \in Seq(SourceLine)
  /\ DocumentInv(syntax, document)
  /\ PlaceInv(syntax, document.refs)
  /\ StatesInv(syntax, document.refs)

\* Nothing is read at first.
LEMMA ParserStart == ParserInit => ParserInv
<1> SUFFICES ASSUME ParserInit PROVE ParserInv
  OBVIOUS
<1>1. /\ syntax = <<>> /\ document.refs = <<>> /\ document.line = 0 /\ document.section = Nobody
      /\ DOMAIN document = DocumentFields
  BY DEF ParserInit, EmptyDocument, DocumentFields
<1>2. syntax \in Seq(SourceLine) /\ Len(syntax) = 0 /\ DOMAIN syntax = {}
  BY <1>1
<1>3. DocumentInv(syntax, document)
  BY <1>1, <1>2, NobodyAssumption DEF NobodyAssumption, DocumentInv, Open, ControllerHeaders
<1>4. DOMAIN document.refs = {} /\ document.refs \in Seq(Reference)
  BY <1>1
<1>5. PlaceInv(syntax, document.refs)
  BY <1>4 DEF PlaceInv
<1>6. StatesOf(document.refs) = {} /\ StateChanges(syntax) = {}
  BY <1>2, <1>4 DEF StatesOf, StateChanges, ControllerHeaders
<1>7. StatesInv(syntax, document.refs)
  BY <1>6 DEF StatesInv
<1> QED
  BY <1>2, <1>3, <1>5, <1>7 DEF ParserInv

\* Every line keeps the references right.
LEMMA ParserKept == ParserInv /\ [ParserNext]_parservars => ParserInv'
<1> SUFFICES ASSUME ParserInv, [ParserNext]_parservars PROVE ParserInv'
  OBVIOUS
<1>1. ASSUME NEW t \in SourceLine, FromSyntax(t) PROVE ParserInv'
  <2>1. syntax' = Append(syntax, t) /\ document' = Feed(document, t)
    BY <1>1 DEF FromSyntax
  <2>2. syntax \in Seq(SourceLine) /\ Append(syntax, t) \in Seq(SourceLine)
    BY DEF ParserInv
  <2>3. DocumentInv(Append(syntax, t), Feed(document, t))
    BY <2>2, DocumentKept DEF ParserInv
  <2>4. /\ PlaceInv(Append(syntax, t), Feed(document, t).refs)
        /\ StatesInv(Append(syntax, t), Feed(document, t).refs)
    BY <2>2, ReferencesKept DEF ParserInv
  <2> QED
    BY <2>1, <2>2, <2>3, <2>4 DEF ParserInv
<1>2. CASE UNCHANGED <<syntax, document>>
  BY <1>2 DEF ParserInv
<1> QED
  BY <1>1, <1>2 DEF ParserNext, ResolveReference, parservars

LEMMA ParserInvariance == ParserSpec => []ParserInv
BY ParserStart, ParserKept, PTL DEF ParserSpec

\* Whichever of type and value comes first in a controller and whatever stands between
\* them, the document has one state reference for each value that counts, under its own
\* controller and with its target, and no other (FromSyntax).
THEOREM StateChangesFound == ParserSpec => []FindsStateChanges
<1>1. ParserInv => FindsStateChanges
  BY DEF ParserInv, StatesInv, StatesOf, FindsStateChanges
<1> QED
  BY <1>1, ParserInvariance, PTL

-----------------------------------------------------------------------------
(* The export *)

ExportRow ==
  [id : {"state", "command"} \X Nat \X Nat, ref : Reference,
   key : Nat \X Target \X {"state", "command"} \X Nat]

TakenBy(i) == \E n \in DOMAIN export.taken : export.taken[n] = i

\* The references taken are different ones, each has its own row, and its id was used once.
ExportInv ==
  /\ DOMAIN export = {"taken", "rows", "used"}
  /\ export.taken \in Seq(Nat) /\ export.rows \in Seq(ExportRow)
  /\ Len(export.rows) = Len(export.taken)
  /\ \A m, n \in DOMAIN export.taken : export.taken[m] = export.taken[n] => m = n
  /\ \A n \in DOMAIN export.taken :
       /\ export.taken[n] \in DOMAIN document.refs
       /\ export.rows[n] = Row(ReferenceID(document.refs[export.taken[n]]),
                               document.refs[export.taken[n]])
  /\ \A i \in DOMAIN document.refs :
       Used(ReferenceID(document.refs[i])) = IF TakenBy(i) THEN 1 ELSE 0
  /\ export.taken = <<>> => DOMAIN export.used = {}

\* No other reference has the id of a reference among its keys.
LEMMA IdsApart ==
  ASSUME ParserInv, NEW i \in DOMAIN document.refs
  PROVE  LET id == ReferenceID(document.refs[i])
         IN /\ Candidates(id) = {i} /\ Cardinality(Candidates(id)) = 1
            /\ Used(id) = 0 => Has(id) /\ NextOf(id) = i
<1> DEFINE id == ReferenceID(document.refs[i])
<1>1. \A j \in DOMAIN document.refs : ReferenceID(document.refs[j]) = id => j = i
  BY DEF ParserInv, PlaceInv
<1>2. \A j \in DOMAIN document.refs : <<document.refs[j].line>> # id
  BY DEF ReferenceID
<1>3. \A ref : Keys(ref)[1] = ReferenceID(ref) /\ Keys(ref)[2] = <<ref.line>>
  BY DEF Keys
<1>4. \A n \in 1..2 : n = 1 \/ n = 2
  OBVIOUS
<1> HIDE DEF id
<1>5. Candidates(id) = {i}
  <2>1. \A j \in Candidates(id) : j = i
    <3> TAKE j \in Candidates(id)
    <3>1. PICK n \in 1..2 : Keys(document.refs[j])[n] = id
      BY DEF Candidates
    <3>2. j \in DOMAIN document.refs
      BY DEF Candidates
    <3>3. Keys(document.refs[j])[1] = ReferenceID(document.refs[j])
      BY <1>3
    <3>4. Keys(document.refs[j])[2] = <<document.refs[j].line>>
      BY <1>3
    <3>5. n # 2
      BY <1>2, <3>1, <3>2, <3>4
    <3>6. ReferenceID(document.refs[j]) = id
      BY <1>4, <3>1, <3>3, <3>5
    <3> QED
      BY <1>1, <3>2, <3>6
  <2>2. i \in Candidates(id)
    <3>1. Keys(document.refs[i])[1] = id
      BY <1>3 DEF id
    <3> QED
      BY <3>1 DEF Candidates
  <2> QED
    BY <2>1, <2>2
<1>6. Cardinality({i}) = 1
  BY FS_Singleton
<1>7. ASSUME Used(id) = 0 PROVE Has(id) /\ NextOf(id) = i
  <2>1. Has(id)
    BY <1>5, <1>6, <1>7 DEF Has
  <2>2. i \in Nat
    BY DEF ParserInv, PlaceInv
  <2>3. {j \in Candidates(id) : j < i} = {}
    BY <1>5, <2>2
  <2>4. Cardinality({j \in Candidates(id) : j < i}) = Used(id)
    BY <1>7, <2>3, FS_EmptySet
  <2>5. NextOf(id) \in Candidates(id)
    BY <1>5, <2>4 DEF NextOf
  <2> QED
    BY <1>5, <2>1, <2>5
<1> QED
  BY <1>5, <1>6, <1>7 DEF id

\* A row of the export.
LEMMA RowTyped ==
  ASSUME NEW ref \in Reference
  PROVE  /\ Row(ReferenceID(ref), ref) \in ExportRow
         /\ Row(ReferenceID(ref), ref).ref = ref /\ Row(ReferenceID(ref), ref).id = ReferenceID(ref)
         /\ Row(ReferenceID(ref), ref).key = <<ref.source, ref.target, ref.kind, ref.span>>
BY DEF Row, ReferenceID, Reference, ExportRow

\* Every resolution finds the reference it is for.
LEMMA ExportKept == ParserInv /\ ExportInv /\ [ParserNext]_parservars => ExportInv'
<1> SUFFICES ASSUME ParserInv, ExportInv, [ParserNext]_parservars PROVE ExportInv'
  OBVIOUS
<1>1. ASSUME NEW t \in SourceLine, FromSyntax(t) PROVE ExportInv'
  <2>1. export' = export /\ export.taken = <<>>
    BY <1>1 DEF FromSyntax
  <2>2. DOMAIN export.taken = {} /\ DOMAIN export.used = {}
    BY <2>1 DEF ExportInv
  <2>3. \A k : Used(k)' = 0
    BY <2>1, <2>2 DEF Used
  <2>4. \A i : ~TakenBy(i)'
    BY <2>1, <2>2 DEF TakenBy
  <2>5. \A i \in DOMAIN document'.refs :
          Used(ReferenceID(document.refs[i]))' = IF TakenBy(i)' THEN 1 ELSE 0
    BY <2>1, <2>2, <2>4 DEF Used
  <2> QED
    BY <2>1, <2>2, <2>5 DEF ExportInv
<1>2. ASSUME NEW i \in DOMAIN document.refs, ResolveReference(i) PROVE ExportInv'
  <2> DEFINE refs == document.refs
             ref == refs[i]
             id == ReferenceID(ref)
             size == Len(export.taken)
  <2>1. document' = document /\ ~TakenBy(i)
    BY <1>2 DEF ResolveReference, TakenBy
  <2>2. Used(id) = 0
    BY <2>1 DEF ExportInv
  <2>3. Has(id) /\ NextOf(id) = i
    BY <2>2, IdsApart
  <2>4. Keys(ref)[1] = id
    BY DEF Keys
  <2>5. export' =
          [taken |-> Append(export.taken, i),
           rows |-> Append(export.rows, Row(id, ref)),
           used |-> [k \in DOMAIN export.used \cup {id} |-> IF k = id THEN 1 ELSE export.used[k]]]
    <3>1. (IF Has(Keys(ref)[1]) THEN Keys(ref)[1] ELSE Keys(ref)[2]) = id
      BY <2>3, <2>4
    <3> DEFINE found == refs[NextOf(id)]
    <3>2. export' =
            [taken |-> Append(export.taken, i),
             rows |-> Append(export.rows, IF Has(id) THEN Row(ReferenceID(found), found) ELSE Lost(ref)),
             used |-> IF ~Has(id) THEN export.used
                      ELSE [k \in DOMAIN export.used \cup {id} |->
                              IF k = id THEN Used(id) + 1 ELSE export.used[k]]]
      <4> HIDE DEF id
      <4> QED
        BY <1>2, <3>1 DEF ResolveReference
    <3>3. found = ref /\ ReferenceID(found) = id /\ Used(id) + 1 = 1
      BY <2>2, <2>3
    <3> HIDE DEF id, ref, found
    <3> QED
      BY <2>3, <3>2, <3>3
  <2>6. /\ export.taken \in Seq(Nat) /\ export.rows \in Seq(ExportRow) /\ Len(export.rows) = size
        /\ size \in Nat /\ DOMAIN export.taken = 1..size /\ i \in Nat
    BY DEF ExportInv, ParserInv, PlaceInv
  <2>7. ref \in Reference
    BY DEF ParserInv, PlaceInv
  <2>8. Row(id, ref) \in ExportRow
    BY <2>7, RowTyped
  <2> DEFINE taken == Append(export.taken, i)
             rows == Append(export.rows, Row(id, ref))
             used == [k \in DOMAIN export.used \cup {id} |-> IF k = id THEN 1 ELSE export.used[k]]
  <2>9. /\ taken \in Seq(Nat) /\ Len(taken) = size + 1 /\ DOMAIN taken = 1..size + 1
        /\ taken[size + 1] = i /\ \A n \in 1..size : taken[n] = export.taken[n]
    BY <2>6
  <2>10. /\ rows \in Seq(ExportRow) /\ Len(rows) = size + 1
         /\ rows[size + 1] = Row(id, ref) /\ \A n \in 1..size : rows[n] = export.rows[n]
    <3> DEFINE row == Row(id, ref)
    <3>1. row \in ExportRow
      BY <2>8
    <3> HIDE DEF row
    <3>2. /\ Append(export.rows, row) \in Seq(ExportRow) /\ Len(Append(export.rows, row)) = size + 1
          /\ Append(export.rows, row)[size + 1] = row
          /\ \A n \in 1..size : Append(export.rows, row)[n] = export.rows[n]
      BY <2>6, <3>1
    <3> QED
      BY <3>2 DEF row
  <2>11. DOMAIN used = DOMAIN export.used \cup {id} /\ used[id] = 1
         /\ \A k \in DOMAIN export.used : k # id => used[k] = export.used[k]
    OBVIOUS
  <2> HIDE DEF taken, rows, used, id, ref, size
  <2>12. /\ DOMAIN export' = {"taken", "rows", "used"}
         /\ export'.taken = taken /\ export'.rows = rows /\ export'.used = used
    BY <2>5 DEF taken, rows, used
  <2>13. \A n \in 1..size + 1 : n \in 1..size \/ n = size + 1
    BY <2>6
  <2>14. \A n \in 1..size : n \in 1..size + 1 /\ n # size + 1
    BY <2>6
  <2>15. size + 1 \in 1..size + 1
    BY <2>6
  <2>16. \A j : TakenBy(j)' <=> TakenBy(j) \/ j = i
    BY <2>6, <2>9, <2>12, <2>13, <2>14, <2>15 DEF TakenBy
  <2>17. \A m, n \in DOMAIN taken : taken[m] = taken[n] => m = n
    <3> TAKE m, n \in DOMAIN taken
    <3>1. \A l \in 1..size : taken[l] # i
      BY <2>1, <2>6, <2>9 DEF TakenBy
    <3>2. \A k, l \in 1..size : taken[k] = taken[l] => k = l
      BY <2>6, <2>9 DEF ExportInv
    <3>3. /\ m \in 1..size \/ m = size + 1
          /\ n \in 1..size \/ n = size + 1
      BY <2>9, <2>13
    <3> QED
      BY <2>9, <3>1, <3>2, <3>3
  <2>18. \A n \in DOMAIN taken :
           taken[n] \in DOMAIN refs /\ rows[n] = Row(ReferenceID(refs[taken[n]]), refs[taken[n]])
    <3> TAKE n \in DOMAIN taken
    <3>1. CASE n = size + 1
      BY <2>9, <2>10, <3>1 DEF ref, id
    <3>2. CASE n \in 1..size
      BY <2>6, <2>9, <2>10, <3>2 DEF ExportInv
    <3> QED
      BY <2>9, <2>13, <3>1, <3>2
  <2>19. ASSUME NEW j \in DOMAIN refs
         PROVE  Used(ReferenceID(refs[j]))' = IF TakenBy(j)' THEN 1 ELSE 0
    <3>1. CASE j = i
      <4>1. ReferenceID(refs[j])' = id
        BY <2>1, <3>1 DEF ReferenceID, ref, id
      <4> QED
        BY <2>11, <2>12, <2>16, <3>1, <4>1 DEF Used
    <3>2. CASE j # i
      <4>1. ReferenceID(refs[j]) # id
        BY <3>2 DEF id, ref, ParserInv, PlaceInv
      <4>2. Used(ReferenceID(refs[j])) = IF TakenBy(j) THEN 1 ELSE 0
        BY DEF ExportInv
      <4>3. ReferenceID(refs[j])' = ReferenceID(refs[j])
        BY <2>1 DEF ReferenceID
      <4>4. Used(ReferenceID(refs[j]))' = Used(ReferenceID(refs[j]))
        BY <2>11, <2>12, <4>1, <4>3 DEF Used
      <4> QED
        BY <2>16, <3>2, <4>2, <4>4
    <3> QED
      BY <3>1, <3>2
  <2>20. taken # <<>>
    BY <2>9, <2>6
  <2> QED
    BY <2>1, <2>9, <2>10, <2>12, <2>17, <2>18, <2>19, <2>20 DEF ExportInv
<1>3. CASE UNCHANGED parservars
  BY <1>3 DEF parservars, ExportInv, Used, TakenBy
<1> QED
  BY <1>1, <1>2, <1>3 DEF ParserNext

\* Before anything is exported.
LEMMA NothingExported == ParserInit => ExportInv
<1> SUFFICES ASSUME ParserInit PROVE ExportInv
  OBVIOUS
<1>1. /\ DOMAIN export = {"taken", "rows", "used"} /\ export.taken = <<>> /\ export.rows = <<>>
      /\ export.used = <<>> /\ document.refs = <<>>
  BY DEF ParserInit, EmptyDocument
<1>2. DOMAIN export.taken = {} /\ DOMAIN export.used = {} /\ DOMAIN document.refs = {}
  BY <1>1
<1>3. /\ export.taken \in Seq(Nat) /\ export.rows \in Seq(ExportRow)
      /\ Len(export.rows) = Len(export.taken)
  BY <1>1
<1> QED
  BY <1>1, <1>2, <1>3 DEF ExportInv

\* A row stands for the reference that the resolution was for.
LEMMA RowIsOwn ==
  ASSUME ParserInv, ExportInv, NEW n \in DOMAIN export.rows
  PROVE  LET taken == export.taken[n]
             own == document.refs[taken]
         IN /\ taken \in DOMAIN document.refs /\ own \in Reference
            /\ export.rows[n].ref = own /\ export.rows[n].id = ReferenceID(own)
            /\ export.rows[n].key = <<own.source, own.target, own.kind, own.span>>
<1> DEFINE own == document.refs[export.taken[n]]
<1>1. /\ export.taken[n] \in DOMAIN document.refs
      /\ export.rows[n] = Row(ReferenceID(own), own)
  BY DEF ExportInv
<1>2. own \in Reference
  BY <1>1 DEF ParserInv, PlaceInv
<1> QED
  BY <1>1, <1>2, RowTyped

\* Every reference of a document gets a row of its own, in whatever order the resolver
\* gives them: a key that was used up never sends it to the row of another
\* (resolveReferenceRows).
THEOREM ReferencesExported == ParserSpec => []ExportsEach
<1>1. ParserInv /\ ExportInv => ExportsEach
  <2> SUFFICES ASSUME ParserInv, ExportInv PROVE ExportsEach
    OBVIOUS
  <2>1. DOMAIN export.rows = DOMAIN export.taken /\ Len(export.rows) = Len(export.taken)
    BY DEF ExportInv
  <2>2. ASSUME NEW n \in DOMAIN export.rows
        PROVE  export.rows[n].ref = document.refs[export.taken[n]]
    BY <2>2, RowIsOwn
  <2>3. ASSUME NEW m \in DOMAIN export.rows, NEW n \in DOMAIN export.rows, m # n
        PROVE  Disambiguated[m] # Disambiguated[n]
    <3>1. export.taken[m] # export.taken[n]
      BY <2>1, <2>3 DEF ExportInv
    <3>2. export.rows[m].id # export.rows[n].id
      BY RowIsOwn, <3>1 DEF ParserInv, PlaceInv
    <3> QED
      BY <3>2 DEF Disambiguated
  <2> QED
    BY <2>1, <2>2, <2>3 DEF ExportsEach
<1> QED
  BY <1>1, NothingExported, ExportKept, ParserInvariance, PTL DEF ParserSpec

\* The insertion of two rows under one primary key happens for no other reason than a
\* trigger line that names one command twice.
THEOREM KeysSharedOnOneLine == ParserSpec => []KeysShared
<1>1. ParserInv /\ ExportInv => KeysShared
  <2> SUFFICES ASSUME ParserInv, ExportInv, NEW m \in DOMAIN export.rows,
                      NEW n \in DOMAIN export.rows, m # n,
                      export.rows[m].key = export.rows[n].key
               PROVE  /\ export.rows[m].ref.kind = "command"
                      /\ export.rows[m].ref.line = export.rows[n].ref.line
                      /\ export.rows[m].ref.target = export.rows[n].ref.target
    BY DEF KeysShared
  <2> DEFINE a == document.refs[export.taken[m]]
             b == document.refs[export.taken[n]]
  <2>1. /\ export.taken[m] \in DOMAIN document.refs /\ a \in Reference
        /\ export.rows[m].ref = a
        /\ export.rows[m].key = <<a.source, a.target, a.kind, a.span>>
    BY RowIsOwn
  <2>2. /\ export.taken[n] \in DOMAIN document.refs /\ b \in Reference
        /\ export.rows[n].ref = b
        /\ export.rows[n].key = <<b.source, b.target, b.kind, b.span>>
    BY RowIsOwn
  <2>3. export.taken[m] # export.taken[n]
    BY DEF ExportInv
  <2>4. a.target = b.target /\ a.kind = b.kind /\ a.span = b.span
    <3> HIDE DEF a, b
    <3>1. <<a.source, a.target, a.kind, a.span>> = <<b.source, b.target, b.kind, b.span>>
      BY <2>1, <2>2
    <3> QED
      BY <3>1
  <2>5. a.kind # "state"
    BY <2>1, <2>2, <2>3, <2>4 DEF ParserInv, StatesInv, StatesOf
  <2>6. a.kind = "command"
    BY <2>1, <2>5 DEF Reference
  <2>7. a.line = b.line
    BY <2>1, <2>2, <2>4, <2>6 DEF ParserInv, PlaceInv
  <2> QED
    BY <2>1, <2>2, <2>4, <2>6, <2>7
<1> QED
  BY <1>1, NothingExported, ExportKept, ParserInvariance, PTL DEF ParserSpec
===============================================================================
