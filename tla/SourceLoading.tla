----------------------------- MODULE SourceLoading -----------------------------
(***************************************************************************)
(* What a workspace loads for a definition file                            *)
(* (LoadWorkspaceWithProfile in src/internal/workspace/workspace.go), and  *)
(* a corpus run over all entries of a select file, which loads one         *)
(* workspace after another (BuildManifest in                               *)
(* src/internal/corpus/corpus.go).  A source stands for its canonical      *)
(* path: differently spelled references to one file are the same source    *)
(* already.  Of the diagnostics only the errors are counted.               *)
(***************************************************************************)
EXTENDS Naturals, Sequences, FiniteSets

CONSTANTS
  SourceFile,
  Readable,       \* the sources that can be read
  Optional,       \* common sources: one that is missing is passed over
  FilesOf,        \* FilesOf[s]: the sources that the [Files] section of s names, in order
  StartupFiles,   \* StartupFiles[s]: the sources of the startup manifest, if s is a select file
  ErrorsOf        \* ErrorsOf[s]: how many errors the document of s has

ASSUME SourceAssumption ==
  /\ Readable \subseteq SourceFile
  /\ FilesOf \in [SourceFile -> Seq(SourceFile)]
  /\ StartupFiles \in [SourceFile -> Seq(SourceFile)]
  /\ \A s \in SourceFile : \A i, j \in DOMAIN StartupFiles[s] :
       StartupFiles[s][i] = StartupFiles[s][j] => i = j
  /\ ErrorsOf \in [SourceFile -> Nat]

VARIABLES
  entries,    \* the sources of the select file, as far as it was read
  corpus,     \* what BuildManifest has seen and counted
  load        \* the workspace that is loaded, or was loaded last

loadvars == <<entries, corpus, load>>

NoWorkspace(root) ==
  [loading |-> FALSE, root |-> root, documents |-> <<>>, seen |-> {}, errors |-> 0, next |-> 1]

LoadingInit ==
  /\ entries = <<>>
  /\ corpus = [seen |-> {}, statuses |-> <<>>, resolved |-> 0, errors |-> 0]
  /\ \E s \in SourceFile : load = NoWorkspace(s)

\* --- one workspace ----------------------------------------------------------
OpenRoot(root) ==
  IF root \in Readable
  THEN [NoWorkspace(root) EXCEPT !.loading = TRUE, !.documents = <<root>>, !.seen = {root},
                                 !.errors = ErrorsOf[root]]
  ELSE [NoWorkspace(root) EXCEPT !.loading = TRUE, !.errors = 1]

AddDocument(result, s) ==
  [result EXCEPT !.documents = Append(@, s), !.errors = @ + ErrorsOf[s], !.seen = @ \cup {s}]

\* Mutant: a source is loaded for each reference to it.
LoadAgain(result, s) ==
  IF s \in Readable THEN AddDocument(result, s)
  ELSE [result EXCEPT !.seen = @ \cup {s}, !.errors = @ + (IF s \in Optional THEN 0 ELSE 1)]

\* A source is loaded on the first reference to it.
Load(result, s) ==
  IF s \in result.seen THEN result
  ELSE IF s \in Readable THEN AddDocument(result, s)
  ELSE [result EXCEPT !.seen = @ \cup {s}, !.errors = @ + (IF s \in Optional THEN 0 ELSE 1)]

References == IF load.root \in Readable THEN FilesOf[load.root] ELSE <<>>
Startup == IF load.root \in Readable THEN StartupFiles[load.root] ELSE <<>>

LoadReference ==
  /\ load.loading
  /\ load.next <= Len(References)
  /\ load' = [Load(load, References[load.next]) EXCEPT !.next = @ + 1]
  /\ UNCHANGED <<entries, corpus>>

\* The files of a startup manifest are loaded after the others, whether they are loaded
\* or not; one that cannot be read is passed over.
LoadStartupFile ==
  /\ load.loading
  /\ load.next > Len(References)
  /\ load.next <= Len(References) + Len(Startup)
  /\ LET s == Startup[load.next - Len(References)]
     IN load' = [(IF s \in Readable THEN AddDocument(load, s) ELSE load) EXCEPT !.next = @ + 1]
  /\ UNCHANGED <<entries, corpus>>

\* --- all entries of a select file -------------------------------------------
\* An entry whose source was seen before is not loaded again.
EnterSource(s) ==
  /\ ~load.loading
  /\ entries' = Append(entries, s)
  /\ IF s \in corpus.seen
     THEN /\ corpus' = [corpus EXCEPT !.statuses = Append(@, "deduplicated")]
          /\ UNCHANGED load
     ELSE /\ corpus' = [corpus EXCEPT !.seen = @ \cup {s}]
          /\ load' = OpenRoot(s)

CountSource ==
  /\ load.loading
  /\ load.next > Len(References) + Len(Startup)
  /\ LET resolved == load.errors = 0
     IN corpus' = [corpus EXCEPT !.statuses = Append(@, IF resolved THEN "resolved" ELSE "missing"),
                                 !.resolved = @ + (IF resolved THEN 1 ELSE 0),
                                 !.errors = @ + load.errors]
  /\ load' = [load EXCEPT !.loading = FALSE]
  /\ UNCHANGED entries

LoadingNext ==
  \/ LoadReference \/ LoadStartupFile \/ CountSource
  \/ \E s \in SourceFile : EnterSource(s)

LoadingSpec == LoadingInit /\ [][LoadingNext]_loadvars
--------------------------------------------------------------------------------
(* Properties *)

SourcesOf(list) == {list[i] : i \in DOMAIN list}

\* The errors of a document, one by one; place is 0, or its number in the startup manifest.
ErrorsAt(place, f) == {<<place, f, n>> : n \in 1..ErrorsOf[f]}

\* The errors that the workspace of a source has to report.
Complaints(s) ==
  LET files == {s} \cup SourcesOf(FilesOf[s])
      started == {i \in DOMAIN StartupFiles[s] : StartupFiles[s][i] \in Readable}
  IN IF s \notin Readable THEN {<<0, s, 1>>}
     ELSE (UNION {ErrorsAt(0, f) : f \in files \cap Readable})
            \cup {<<0, f, 1>> : f \in files \ (Readable \cup Optional)}
            \cup (UNION {ErrorsAt(i, StartupFiles[s][i]) : i \in started})

\* A corpus counts every source once however often it is declared and referenced: those
\* resolved, and the errors of all; every further entry of a source is deduplicated.
CorpusCountsOnce ==
  ~load.loading =>
    /\ corpus.resolved = Cardinality({s \in SourcesOf(entries) : Complaints(s) = {}})
    /\ corpus.errors = Cardinality(UNION {{s} \X Complaints(s) : s \in SourcesOf(entries)})
    /\ corpus.statuses = [i \in DOMAIN entries |->
         IF \E j \in 1..i - 1 : entries[j] = entries[i] THEN "deduplicated"
         ELSE IF Complaints(entries[i]) = {} THEN "resolved" ELSE "missing"]

\* A workspace holds a document twice only if its startup manifest names the definition
\* file itself or a file that it references directly.
DocumentsOnce ==
  \A i, j \in DOMAIN load.documents : i # j /\ load.documents[i] = load.documents[j] =>
    load.documents[i] \in SourcesOf(Startup) \cap ({load.root} \cup SourcesOf(References))

CountsSourcesOnce == CorpusCountsOnce /\ DocumentsOnce
================================================================================
