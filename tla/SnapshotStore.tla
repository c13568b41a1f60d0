----------------------------- MODULE SnapshotStore -----------------------------
(***************************************************************************)
(* The SQLite store of document snapshots (src/internal/repository).  A    *)
(* write is a transaction of several statements, each of which may fail.   *)
(* A row names its own document path, which need not be the document it is *)
(* stored with.  Foreign keys are enforced on one connection of the pool   *)
(* only.                                                                   *)
(***************************************************************************)
EXTENDS Naturals, Sequences

CONSTANTS
  Doc,        \* document paths, canonical
  Version,    \* versions of a document
  RowID,      \* the ids of symbols, references and diagnostics with their lines
  RowsOf,     \* RowsOf[d][v][t]: the rows version v of d has for table t
  EdgesOf,    \* EdgesOf[d][v]: the dependency edges in version v of d, <<source, target>>
  Nothing     \* no document, no rows, no transaction

Table == {"symbol", "reference", "diagnostic"}

\* The document a row names, its key under that, and the version it tells of.
TableRow == Doc \X RowID \X Version

ASSUME RowsAssumption == RowsOf \in [Doc -> [Version -> [Table -> SUBSET TableRow]]]
ASSUME EdgesAssumption == EdgesOf \in [Doc -> [Version -> SUBSET (Doc \X Doc)]]
ASSUME NothingAssumption == Nothing \notin Version

VARIABLES
  committed,  \* the database every reader sees
  tx,         \* the write transaction under way, Nothing if there is none
  abandoned,  \* a transaction left open by a failed deletion holds the write lock
  stored,     \* history: the version last stored for each document
  cut,        \* history: edges of stored documents removed with their target
  lent        \* history: <<table, row>> that a stored snapshot wrote under another's path

rvars == <<committed, tx, abandoned, stored, cut, lent>>

Migration == 1..2

EmptyDatabase ==
  [schema |-> {}, doc |-> [d \in Doc |-> Nothing],
   rows |-> [t \in Table |-> {}], edges |-> {}]

RepositoryInit ==
  /\ committed = EmptyDatabase
  /\ tx = Nothing
  /\ abandoned = FALSE
  /\ stored = [d \in Doc |-> Nothing]
  /\ cut = {}
  /\ lent = {}

Step(do, table, d, v) == [do |-> do, table |-> table, doc |-> d, version |-> v]

MigrateSteps == [i \in Migration |-> Step("migrate", Nothing, Nothing, i)]

RowTable(n) == CASE n = 1 -> "symbol" [] n = 2 -> "reference" [] n = 3 -> "diagnostic"

\* Mutant: the edges are written before their document.
UpsertStepEdgesFirst(d, v, n) ==
  CASE n = 1 -> Step("edges", Nothing, d, v)
    [] n = 2 -> Step("document", Nothing, d, v)
    [] OTHER -> Step("rows", RowTable(n - 2), d, v)

\* upsertDocument: the document, its rows table by table, its edges.
UpsertStep(d, v, n) ==
  CASE n = 1 -> Step("document", Nothing, d, v)
    [] n = 5 -> Step("edges", Nothing, d, v)
    [] OTHER -> Step("rows", RowTable(n - 1), d, v)

UpsertSteps(docs) ==
  [n \in 1..(5 * Len(docs)) |->
     LET entry == docs[(n + 4) \div 5] IN UpsertStep(entry[1], entry[2], ((n - 1) % 5) + 1)]

DeleteStep(d, n) ==
  CASE n = 4 -> Step("deleteEdges", Nothing, d, Nothing)
    [] n = 5 -> Step("deleteDocument", Nothing, d, Nothing)
    [] OTHER -> Step("deleteRows", <<"reference", "symbol", "diagnostic">>[n], d, Nothing)

DeleteSteps(d) == [n \in 1..5 |-> DeleteStep(d, n)]

\* Removing a document removes its rows too where foreign keys are enforced.
Cascade(db, d, enforced) ==
  IF ~enforced THEN db
  ELSE [db EXCEPT !.rows = [t \in Table |-> {r \in @[t] : r[1] # d}],
                  !.edges = {e \in @ : e[1] # d}]

Effect(db, s, enforced) ==
  CASE s.do = "migrate" -> [db EXCEPT !.schema = @ \cup {s.version}]
    [] s.do \in {"document", "deleteDocument"} ->
         [Cascade(db, s.doc, enforced) EXCEPT !.doc[s.doc] = s.version]
    [] s.do = "rows" ->
         [db EXCEPT !.rows[s.table] = {r \in @ : r[1] # s.doc} \cup RowsOf[s.doc][s.version][s.table]]
    [] s.do = "deleteRows" -> [db EXCEPT !.rows[s.table] = {r \in @ : r[1] # s.doc}]
    [] s.do = "edges" ->
         [db EXCEPT !.edges = {e \in @ : e[1] # s.doc} \cup EdgesOf[s.doc][s.version]]
    [] s.do = "deleteEdges" ->
         [db EXCEPT !.edges = {e \in @ : e[1] # s.doc /\ e[2] # s.doc}]

\* A row or an edge may name another document than the one it is stored with: its key
\* must not be there already, and where foreign keys are enforced that document must be
\* stored.
Violates(db, s, enforced) ==
  \/ /\ s.do = "rows"
     /\ LET new == RowsOf[s.doc][s.version][s.table]
            left == {r \in db.rows[s.table] : r[1] # s.doc}
        IN \E r \in new :
             \/ \E x \in left \cup (new \ {r}) : x[1] = r[1] /\ x[2] = r[2]
             \/ enforced /\ db.doc[r[1]] = Nothing
  \/ /\ s.do = "edges"
     /\ \E e \in EdgesOf[s.doc][s.version] :
          \/ e \in db.edges /\ e[1] # s.doc
          \/ enforced /\ db.doc[e[1]] = Nothing

Begin(kind, docs, steps) ==
  /\ tx = Nothing
  /\ \E enforced \in BOOLEAN :
       tx' = [kind |-> kind, docs |-> docs, steps |-> steps, work |-> committed,
              enforced |-> enforced]
  /\ UNCHANGED <<committed, abandoned, stored, cut, lent>>

\* Open: the schema is brought to the current version, or was newer or current already.
Migrate == /\ Migration \ committed.schema # {}
           /\ Begin("migrate", <<>>, MigrateSteps)

\* UpsertDocumentSnapshot of one, UpsertWorkspaceSnapshot of several documents.
Upsert(docs) ==
  /\ committed.schema = Migration
  /\ Begin("upsert", docs, UpsertSteps(docs))

Delete(d) ==
  /\ committed.schema = Migration
  /\ Begin("delete", <<<<d, Nothing>>>>, DeleteSteps(d))

Execute ==
  /\ tx # Nothing
  /\ tx.steps # <<>>
  /\ ~abandoned
  /\ ~Violates(tx.work, Head(tx.steps), tx.enforced)
  /\ tx' = [tx EXCEPT !.work = Effect(@, Head(tx.steps), tx.enforced), !.steps = Tail(@)]
  /\ UNCHANGED <<committed, abandoned, stored, cut, lent>>

\* Mutant: what was done before the failure is committed.
RollBackKeeps ==
  /\ tx # Nothing
  /\ committed' = tx.work
  /\ tx' = Nothing
  /\ UNCHANGED <<abandoned, stored, cut, lent>>

\* A statement or the commit fails, or the context is cancelled: the transaction is
\* rolled back, by its own deferred call or by the cancelled context.
RollBack ==
  /\ tx # Nothing
  /\ tx' = Nothing
  /\ UNCHANGED <<committed, abandoned, stored, cut, lent>>

\* A deletion that fails without a cancelled context leaves its transaction open.
Abandon ==
  /\ tx # Nothing
  /\ tx.kind = "delete"
  /\ tx.steps \notin {<<>>, DeleteSteps(tx.docs[1][1])}
  /\ tx' = Nothing
  /\ abandoned' = TRUE
  /\ UNCHANGED <<committed, stored, cut, lent>>

\* The rows of some snapshots that name another document.
LentBy(docs) ==
  {x \in Table \X TableRow : \E i \in DOMAIN docs :
     /\ docs[i][2] # Nothing
     /\ x[2] \in RowsOf[docs[i][1]][docs[i][2]][x[1]]
     /\ x[2][1] # docs[i][1]}

Commit ==
  /\ tx # Nothing
  /\ tx.steps = <<>>
  /\ committed' = tx.work
  /\ stored' = [d \in Doc |-> IF \E i \in DOMAIN tx.docs : tx.docs[i][1] = d
                              THEN tx.docs[CHOOSE i \in DOMAIN tx.docs :
                                     /\ tx.docs[i][1] = d
                                     /\ \A j \in DOMAIN tx.docs : tx.docs[j][1] = d => j <= i][2]
                              ELSE stored[d]]
  /\ cut' = {e \in cut : stored'[e[1]] # Nothing /\ e \notin tx.work.edges}
              \cup IF tx.kind = "delete" THEN {e \in committed.edges : e[2] = tx.docs[1][1]} ELSE {}
  /\ lent' = {x \in lent \cup LentBy(tx.docs) : x[2] \in tx.work.rows[x[1]]}
  /\ tx' = Nothing
  /\ UNCHANGED abandoned

\* The process ends; the database rolls back what was not committed.
Restart ==
  /\ tx' = Nothing
  /\ abandoned' = FALSE
  /\ UNCHANGED <<committed, stored, cut, lent>>

RepositoryNext ==
  \/ Migrate
  \/ \E d \in Doc, v \in Version : Upsert(<<<<d, v>>>>)
  \/ \E c, d \in Doc, v \in Version : c # d /\ Upsert(<<<<c, v>>, <<d, v>>>>)
  \/ \E d \in Doc : Delete(d)
  \/ Execute \/ RollBack \/ Abandon \/ Commit \/ Restart

RepositorySpec == RepositoryInit /\ [][RepositoryNext]_rvars
--------------------------------------------------------------------------------
(* Properties *)

\* What version v of d says of d itself.
Own(t, d, v) == IF v = Nothing THEN {} ELSE {r \in RowsOf[d][v][t] : r[1] = d}

\* Among these rows, those of d are what version v of d says, and what others say of d.
Whole(rowset, t, d, v, others) ==
  /\ Own(t, d, v) \subseteq rowset
  /\ \A r \in rowset : r[1] = d => r \in Own(t, d, v) \/ <<t, r>> \in others

\* Whatever statements, commits or processes failed in between, readers see of each
\* document the snapshot that was stored last: all its rows, and no others but those that
\* the snapshots of other documents wrote under its path after that, and that stay there
\* until the document is stored or deleted.  The schema is migrated wholly or not at all.
CommittedWhole ==
  /\ committed.schema \in {{}, Migration}
  /\ \A d \in Doc : /\ committed.doc[d] = stored[d]
                    /\ \A t \in Table : Whole(committed.rows[t], t, d, stored[d], lent)

\* The store keeps every dependency that a stored document declares for itself, save
\* those whose target was deleted after the document was stored; those come back only
\* when the document is stored again (DeleteDocumentSnapshot).
OwnEdgesKept ==
  \A d \in Doc : stored[d] # Nothing =>
    {e \in EdgesOf[d][stored[d]] : e[1] = d} \subseteq committed.edges \cup cut
================================================================================
