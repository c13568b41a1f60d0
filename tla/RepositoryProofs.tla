--------------------------- MODULE RepositoryProofs ---------------------------
(***************************************************************************)
(* What TLAPS proves of the repository, for any documents, edges and       *)
(* failures: the database that readers see holds whole snapshots, and no   *)
(* stored document loses a dependency of its own to another's transaction. *)
(***************************************************************************)
EXTENDS SnapshotStore, Paging, Dependents, TLAPS

Stored == Version \cup {Nothing}
Database ==
  [schema : SUBSET Migration, doc : [Doc -> Stored], rows : [Table -> SUBSET TableRow],
   edges : SUBSET (Doc \X Doc)]

\* The statements of transactions.
Statement ==
  {Step("migrate", Nothing, Nothing, i) : i \in Migration}
    \cup {Step("document", Nothing, d, v) : d \in Doc, v \in Version}
    \cup {Step("edges", Nothing, d, v) : d \in Doc, v \in Version}
    \cup {Step("rows", t, d, v) : t \in Table, d \in Doc, v \in Version}
    \cup {Step("deleteRows", t, d, Nothing) : t \in Table, d \in Doc}
    \cup {Step("deleteEdges", Nothing, d, Nothing) : d \in Doc}
    \cup {Step("deleteDocument", Nothing, d, Nothing) : d \in Doc}

Transaction ==
  [kind : {"migrate", "upsert", "delete"}, docs : Seq(Doc \X Stored), steps : Seq(Statement),
   work : Database, enforced : BOOLEAN]

StoreType ==
  /\ committed \in Database
  /\ tx # Nothing => tx \in Transaction
  /\ stored \in [Doc -> Stored]

\* The documents that the transaction under way writes, and what it makes of them.
Writes(d, v) == \E i \in DOMAIN tx.docs : tx.docs[i] = <<d, v>>
Touches(d) == \E v \in Stored : Writes(d, v)

\* What is left to do after the first k of the statements.
RowsLeft(k, t, d) ==
  \E j \in DOMAIN tx.steps : /\ j > k /\ tx.steps[j].do \in {"rows", "deleteRows"}
                             /\ tx.steps[j].table = t /\ tx.steps[j].doc = d
EdgesLeft(k, d) ==
  \E j \in DOMAIN tx.steps : j > k /\ tx.steps[j].do = "edges" /\ tx.steps[j].doc = d
DocumentLeft(d) ==
  \E j \in DOMAIN tx.steps : /\ tx.steps[j].do \in {"document", "deleteDocument"}
                             /\ tx.steps[j].doc = d

\* The statements that are left are of the documents written, each one's document before
\* its rows and edges.
StepFits(k) ==
  LET s == tx.steps[k] IN
  /\ s.do # "migrate" => Writes(s.doc, s.version)
  /\ s.do = "document" => EdgesLeft(k, s.doc) /\ \A t \in Table : RowsLeft(k, t, s.doc)
  /\ s.do = "deleteEdges" => tx.kind = "delete"

StepsInv ==
  /\ \A i, j \in DOMAIN tx.docs : tx.docs[i][1] = tx.docs[j][1] => i = j
  /\ \A k \in DOMAIN tx.steps : StepFits(k)
  /\ tx.kind = "delete" => \E d \in Doc : tx.docs = <<<<d, Nothing>>>>

\* What the transaction has not done yet is left to do, and it touches nothing else.
SchemaInv ==
  \A i \in Migration : i \in tx.work.schema
                         \/ \E j \in DOMAIN tx.steps : /\ tx.steps[j].do = "migrate"
                                                       /\ tx.steps[j].version = i

\* The rows that name another document than the one they were stored with.
Others == lent \cup LentBy(tx.docs)

RowsInv ==
  \A d \in Doc :
    /\ ~Touches(d) => /\ tx.work.doc[d] = committed.doc[d]
                      /\ \A t \in Table : Whole(tx.work.rows[t], t, d, stored[d], Others)
    /\ \A v \in Stored : Writes(d, v) =>
         /\ tx.work.doc[d] = v \/ DocumentLeft(d)
         /\ \A t \in Table : Whole(tx.work.rows[t], t, d, v, Others) \/ RowsLeft(0, t, d)

\* The edges a version of d declares for d itself.
OwnEdges(d, v) == {e \in EdgesOf[d][v] : e[1] = d}

EdgesInv ==
  /\ \A e \in committed.edges :
       \/ e \in tx.work.edges
       \/ Touches(e[1])
       \/ tx.kind = "delete" /\ e[2] = tx.docs[1][1]
  /\ \A d \in Doc, v \in Version :
       Writes(d, v) => OwnEdges(d, v) \subseteq tx.work.edges \/ EdgesLeft(0, d)

TxInv == tx # Nothing => StepsInv /\ SchemaInv /\ RowsInv /\ EdgesInv

StoreInv == StoreType /\ TxInv /\ CommittedWhole /\ OwnEdgesKept
-----------------------------------------------------------------------------
\* Rows that are whole stay so when more of them are known to be of other snapshots.
LEMMA WholeGrows ==
  ASSUME NEW R, NEW t, NEW d, NEW v, NEW A, NEW B, A \subseteq B, Whole(R, t, d, v, A)
  PROVE  Whole(R, t, d, v, B)
  BY DEF Whole

\* The statements for the i-th of several documents are those from 5 (i - 1) + 1 on.
LEMMA Fives ==
  ASSUME NEW n \in Nat
  PROVE  /\ \A k \in 1 .. 5 * n : /\ (k + 4) \div 5 \in 1 .. n
                                  /\ ((k - 1) % 5) + 1 \in 1 .. 5
                                  /\ k = 5 * ((k + 4) \div 5 - 1) + (((k - 1) % 5) + 1)
         /\ \A i \in 1 .. n, m \in 1 .. 5 :
              /\ 5 * (i - 1) + m \in 1 .. 5 * n
              /\ (5 * (i - 1) + m + 4) \div 5 = i
              /\ ((5 * (i - 1) + m - 1) % 5) + 1 = m
<1>1. ASSUME NEW k \in 1 .. 5 * n
      PROVE  /\ (k + 4) \div 5 \in 1 .. n
             /\ ((k - 1) % 5) + 1 \in 1 .. 5
             /\ k = 5 * ((k + 4) \div 5 - 1) + (((k - 1) % 5) + 1)
  OBVIOUS
<1>2. ASSUME NEW i \in 1 .. n, NEW m \in 1 .. 5
      PROVE  /\ 5 * (i - 1) + m \in 1 .. 5 * n
             /\ (5 * (i - 1) + m + 4) \div 5 = i
             /\ ((5 * (i - 1) + m - 1) % 5) + 1 = m
  OBVIOUS
<1> QED
  BY <1>1, <1>2

\* The statements of an upsert: five for each document, the document's own first.
LEMMA UpsertPlan ==
  ASSUME NEW docs \in Seq(Doc \X Version)
  PROVE  /\ UpsertSteps(docs) \in Seq(Statement)
         /\ DOMAIN UpsertSteps(docs) = 1 .. 5 * Len(docs)
         /\ \A k \in 1 .. 5 * Len(docs) :
              \E i \in 1 .. Len(docs), m \in 1 .. 5 :
                k = 5 * (i - 1) + m /\ UpsertSteps(docs)[k] = UpsertStep(docs[i][1], docs[i][2], m)
         /\ \A i \in 1 .. Len(docs), m \in 1 .. 5 :
              /\ 5 * (i - 1) + m \in 1 .. 5 * Len(docs)
              /\ UpsertSteps(docs)[5 * (i - 1) + m] = UpsertStep(docs[i][1], docs[i][2], m)
<1> DEFINE steps == UpsertSteps(docs)
           L == Len(docs)
<1>0. L \in Nat /\ \A i \in 1 .. L : docs[i][1] \in Doc /\ docs[i][2] \in Version
  OBVIOUS
<1>1. \A d \in Doc, v \in Version, m \in 1 .. 5 : UpsertStep(d, v, m) \in Statement
  <2> SUFFICES ASSUME NEW d \in Doc, NEW v \in Version, NEW m \in 1 .. 5
               PROVE  UpsertStep(d, v, m) \in Statement
    OBVIOUS
  <2>1. m \in {2, 3, 4} => RowTable(m - 1) \in Table
    BY DEF RowTable, Table
  <2>2. m \in {2, 3, 4} => UpsertStep(d, v, m) = Step("rows", RowTable(m - 1), d, v)
    BY DEF UpsertStep
  <2>3. m = 1 => UpsertStep(d, v, m) = Step("document", Nothing, d, v)
    BY DEF UpsertStep
  <2>4. m = 5 => UpsertStep(d, v, m) = Step("edges", Nothing, d, v)
    BY DEF UpsertStep
  <2>5. m \in {1, 2, 3, 4, 5}
    OBVIOUS
  <2> QED
    BY <2>1, <2>2, <2>3, <2>4, <2>5 DEF Statement
<1>2. /\ DOMAIN steps = 1 .. 5 * L
      /\ \A k \in 1 .. 5 * L :
           steps[k] = UpsertStep(docs[(k + 4) \div 5][1], docs[(k + 4) \div 5][2], ((k - 1) % 5) + 1)
  BY DEF UpsertSteps
<1>3. ASSUME NEW k \in 1 .. 5 * L
      PROVE  /\ steps[k] \in Statement
             /\ \E i \in 1 .. L, m \in 1 .. 5 :
                  k = 5 * (i - 1) + m /\ steps[k] = UpsertStep(docs[i][1], docs[i][2], m)
  <2>1. /\ (k + 4) \div 5 \in 1 .. L
        /\ ((k - 1) % 5) + 1 \in 1 .. 5
        /\ k = 5 * ((k + 4) \div 5 - 1) + (((k - 1) % 5) + 1)
    BY <1>0, Fives
  <2>2. PICK i \in 1 .. L, m \in 1 .. 5 : i = (k + 4) \div 5 /\ m = ((k - 1) % 5) + 1
    BY <2>1
  <2>3. k = 5 * (i - 1) + m
    BY <2>1, <2>2
  <2>4. steps[k] = UpsertStep(docs[i][1], docs[i][2], m)
    BY <1>2, <2>2
  <2> HIDE DEF steps, L
  <2> QED
    BY <1>0, <1>1, <2>3, <2>4
<1>4. ASSUME NEW i \in 1 .. L, NEW m \in 1 .. 5
      PROVE  /\ 5 * (i - 1) + m \in 1 .. 5 * L
             /\ steps[5 * (i - 1) + m] = UpsertStep(docs[i][1], docs[i][2], m)
  <2>1. /\ 5 * (i - 1) + m \in 1 .. 5 * L
        /\ (5 * (i - 1) + m + 4) \div 5 = i
        /\ ((5 * (i - 1) + m - 1) % 5) + 1 = m
    BY <1>0, Fives
  <2>2. PICK k \in 1 .. 5 * L : k = 5 * (i - 1) + m
    BY <2>1
  <2>3. (k + 4) \div 5 = i /\ ((k - 1) % 5) + 1 = m
    BY <2>1, <2>2
  <2>4. steps[k] = UpsertStep(docs[i][1], docs[i][2], m)
    BY <1>2, <2>3
  <2> QED
    BY <2>2, <2>4
<1>5. steps \in Seq(Statement)
  <2>1. steps = [k \in 1 .. 5 * L |-> steps[k]]
    BY DEF UpsertSteps
  <2>2. 5 * L \in Nat
    BY <1>0
  <2> HIDE DEF steps
  <2> QED
    BY <1>3, <2>1, <2>2
<1> QED
  BY <1>2, <1>3, <1>4, <1>5

\* What each of the five statements does.
LEMMA UpsertStepFacts ==
  ASSUME NEW d, NEW v
  PROVE  /\ UpsertStep(d, v, 1) = Step("document", Nothing, d, v)
         /\ UpsertStep(d, v, 2) = Step("rows", "symbol", d, v)
         /\ UpsertStep(d, v, 3) = Step("rows", "reference", d, v)
         /\ UpsertStep(d, v, 4) = Step("rows", "diagnostic", d, v)
         /\ UpsertStep(d, v, 5) = Step("edges", Nothing, d, v)
  BY DEF UpsertStep, RowTable

\* On the committed database every document is as it was stored.
LEMMA CommittedBegins ==
  ASSUME StoreInv, UNCHANGED <<committed, stored, lent>>, tx'.work = committed, NEW d \in Doc
  PROVE  /\ tx'.work.doc[d] = committed'.doc[d]
         /\ \A t \in Table : Whole(tx'.work.rows[t], t, d, stored'[d], Others')
<1>1. lent \subseteq Others'
  BY DEF Others
<1>2. ASSUME NEW t \in Table
      PROVE  Whole(tx'.work.rows[t], t, d, stored'[d], Others')
  <2>1. Whole(committed.rows[t], t, d, stored[d], lent)
    BY DEF StoreInv, CommittedWhole
  <2>2. Whole(committed.rows[t], t, d, stored[d], Others')
    BY <1>1, <2>1, WholeGrows
  <2> QED
    BY <2>2
<1> QED
  BY <1>2

\* A transaction starts with everything left to do, on the committed database.
LEMMA UpsertBegins ==
  ASSUME StoreInv, NEW docs \in Seq(Doc \X Version),
         \A i, j \in DOMAIN docs : docs[i][1] = docs[j][1] => i = j, Upsert(docs)
  PROVE  StoreInv'
<1> DEFINE L == Len(docs)
           at(i, m) == 5 * (i - 1) + m
<1>0. /\ committed \in Database /\ stored \in [Doc -> Stored] /\ committed.schema = Migration
      /\ L \in Nat /\ DOMAIN docs = 1 .. L
      /\ \A i \in 1 .. L : docs[i][1] \in Doc /\ docs[i][2] \in Version
                             /\ docs[i] = <<docs[i][1], docs[i][2]>>
  BY DEF StoreInv, StoreType, Upsert
<1>1. UNCHANGED <<committed, stored, cut, lent>>
  BY DEF Upsert, Begin
<1>2. PICK enforced \in BOOLEAN :
        tx' = [kind |-> "upsert", docs |-> docs, steps |-> UpsertSteps(docs), work |-> committed,
               enforced |-> enforced]
  BY DEF Upsert, Begin
<1>3. /\ tx'.kind = "upsert" /\ tx'.docs = docs /\ tx'.steps = UpsertSteps(docs)
      /\ tx'.work = committed
  BY <1>2
<1>4. /\ UpsertSteps(docs) \in Seq(Statement) /\ DOMAIN tx'.steps = 1 .. 5 * L
      /\ \A k \in 1 .. 5 * L : \E i \in 1 .. L, m \in 1 .. 5 :
           k = at(i, m) /\ tx'.steps[k] = UpsertStep(docs[i][1], docs[i][2], m)
      /\ \A i \in 1 .. L, m \in 1 .. 5 :
           at(i, m) \in 1 .. 5 * L /\ tx'.steps[at(i, m)] = UpsertStep(docs[i][1], docs[i][2], m)
  BY <1>3, UpsertPlan
<1>5. StoreType'
  <2>1. docs \in Seq(Doc \X Stored)
    BY <1>0 DEF Stored
  <2>2. tx' \in Transaction
    BY <1>0, <1>2, <1>4, <2>1 DEF Transaction
  <2> QED
    BY <1>0, <1>1, <2>2 DEF StoreType
<1>6. ASSUME NEW i \in 1 .. L, NEW k \in Nat, k < at(i, 2)
      PROVE  /\ EdgesLeft(k, docs[i][1])'
             /\ \A t \in Table : RowsLeft(k, t, docs[i][1])'
  <2>1. ASSUME NEW m \in 2 .. 5
        PROVE  at(i, m) \in DOMAIN tx'.steps /\ at(i, m) > k
    <3>1. m \in 1 .. 5 /\ at(i, m) >= at(i, 2) /\ at(i, 2) \in Nat
      BY <1>0
    <3> HIDE DEF at
    <3>2. at(i, m) \in 1 .. 5 * L
      BY <1>4, <3>1
    <3> QED
      BY <1>0, <1>4, <1>6, <3>1, <3>2
  <2>2. tx'.steps[at(i, 5)] = Step("edges", Nothing, docs[i][1], docs[i][2])
    BY <1>4, UpsertStepFacts
  <2>3. EdgesLeft(k, docs[i][1])'
    <3>1. 5 \in 2 .. 5
      OBVIOUS
    <3> HIDE DEF at
    <3> QED
      BY <2>1, <2>2, <3>1 DEF EdgesLeft, Step
  <2>4. ASSUME NEW t \in Table
        PROVE  RowsLeft(k, t, docs[i][1])'
    <3>1. \E m \in 2 .. 4 : tx'.steps[at(i, m)] = Step("rows", t, docs[i][1], docs[i][2])
      <4>1. /\ tx'.steps[at(i, 2)] = Step("rows", "symbol", docs[i][1], docs[i][2])
            /\ tx'.steps[at(i, 3)] = Step("rows", "reference", docs[i][1], docs[i][2])
            /\ tx'.steps[at(i, 4)] = Step("rows", "diagnostic", docs[i][1], docs[i][2])
        BY <1>4, UpsertStepFacts
      <4>2. 2 \in 2 .. 4 /\ 3 \in 2 .. 4 /\ 4 \in 2 .. 4
        OBVIOUS
      <4> HIDE DEF at
      <4> QED
        BY <4>1, <4>2 DEF Table
    <3>2. PICK m \in 2 .. 4 : tx'.steps[at(i, m)] = Step("rows", t, docs[i][1], docs[i][2])
      BY <3>1
    <3>3. m \in 2 .. 5
      OBVIOUS
    <3> HIDE DEF at
    <3> QED
      BY <2>1, <3>2, <3>3 DEF RowsLeft, Step
  <2> QED
    BY <2>3, <2>4
<1>7. \A i \in 1 .. L : Writes(docs[i][1], docs[i][2])'
  BY <1>0, <1>3 DEF Writes
<1>8. StepsInv'
  <2>1. ASSUME NEW k \in DOMAIN tx'.steps
        PROVE  StepFits(k)'
    <3>1. PICK i \in 1 .. L, m \in 1 .. 5 :
            k = at(i, m) /\ tx'.steps[k] = UpsertStep(docs[i][1], docs[i][2], m)
      <4>1. k \in 1 .. 5 * L
        BY <1>4, <2>1
      <4> HIDE DEF at
      <4> QED
        BY <1>4, <4>1
    <3>2. tx'.steps[k] \in {Step("document", Nothing, docs[i][1], docs[i][2]),
                            Step("edges", Nothing, docs[i][1], docs[i][2])}
                           \cup {Step("rows", t, docs[i][1], docs[i][2]) : t \in Table}
      <4>1. m \in {1, 2, 3, 4, 5}
        OBVIOUS
      <4> QED
        BY <3>1, <4>1, UpsertStepFacts DEF Table
    <3>3. tx'.steps[k].doc = docs[i][1] /\ tx'.steps[k].version = docs[i][2]
          /\ tx'.steps[k].do \in {"document", "edges", "rows"}
      BY <3>2 DEF Step
    <3>4. tx'.steps[k].do = "document" => m = 1
      <4>1. m # 1 => m \in {2, 3, 4, 5}
        OBVIOUS
      <4> QED
        BY <3>1, <4>1, UpsertStepFacts DEF Step
    <3>5. m = 1 => k \in Nat /\ k < at(i, 2)
      BY <3>1
    <3>6. Writes(docs[i][1], docs[i][2])'
      BY <1>7
    <3>7. tx'.steps[k].do = "document" =>
            EdgesLeft(k, docs[i][1])' /\ \A t \in Table : RowsLeft(k, t, docs[i][1])'
      BY <1>6, <3>4, <3>5
    <3>8. PICK d, v : d = docs[i][1] /\ v = docs[i][2]
      OBVIOUS
    <3>9. tx'.steps[k].doc = d /\ tx'.steps[k].version = v
      BY <3>3, <3>8
    <3>10. Writes(d, v)'
      BY <3>6, <3>8 DEF Writes
    <3>11. tx'.steps[k].do = "document" => EdgesLeft(k, d)' /\ \A t \in Table : RowsLeft(k, t, d)'
      BY <3>7, <3>8 DEF EdgesLeft, RowsLeft
    <3> QED
      BY <3>3, <3>9, <3>10, <3>11 DEF StepFits, Writes, EdgesLeft, RowsLeft
  <2>2. \A i, j \in DOMAIN tx'.docs : tx'.docs[i][1] = tx'.docs[j][1] => i = j
    BY <1>3
  <2> QED
    BY <1>3, <2>1, <2>2 DEF StepsInv
<1>9. SchemaInv'
  BY <1>0, <1>3 DEF SchemaInv
<1>10. ASSUME NEW d \in Doc, NEW v \in Stored, Writes(d, v)'
       PROVE  DocumentLeft(d)' /\ EdgesLeft(0, d)' /\ \A t \in Table : RowsLeft(0, t, d)'
  <2>1. PICK i \in 1 .. L : docs[i] = <<d, v>>
    BY <1>0, <1>3, <1>10 DEF Writes
  <2>2. 0 < at(i, 2) /\ 1 \in 1 .. 5
    OBVIOUS
  <2>3. at(i, 1) \in DOMAIN tx'.steps /\ tx'.steps[at(i, 1)] = Step("document", Nothing, d, v)
    <3>1. UpsertStep(docs[i][1], docs[i][2], 1) = Step("document", Nothing, d, v)
      BY <2>1, UpsertStepFacts
    <3> HIDE DEF at
    <3> QED
      BY <1>4, <2>2, <3>1
  <2>4. DocumentLeft(d)'
    BY <2>3 DEF DocumentLeft, Step
  <2> QED
    BY <1>6, <2>1, <2>2, <2>4
<1>11. RowsInv' /\ EdgesInv'
  <2>1. Version \subseteq Stored
    BY DEF Stored
  <2>2. EdgesInv'
    BY <1>1, <1>3, <1>10, <2>1 DEF EdgesInv
  <2>3. ASSUME NEW d \in Doc
        PROVE  /\ tx'.work.doc[d] = committed'.doc[d]
               /\ \A t \in Table : Whole(tx'.work.rows[t], t, d, stored'[d], Others')
    BY <1>1, <1>3, CommittedBegins
  <2>4. ASSUME NEW d \in Doc, NEW v \in Stored, Writes(d, v)'
        PROVE  DocumentLeft(d)' /\ \A t \in Table : RowsLeft(0, t, d)'
    BY <1>10, <2>4
  <2>5. RowsInv'
    BY <2>3, <2>4 DEF RowsInv
  <2> QED
    BY <2>2, <2>5
<1>12. CommittedWhole' /\ OwnEdgesKept'
  BY <1>1 DEF StoreInv, CommittedWhole, OwnEdgesKept
<1> QED
  BY <1>5, <1>8, <1>9, <1>11, <1>12 DEF StoreInv, TxInv

\* Opening an old database: its migrations are left to do.
LEMMA MigrateBegins ==
  ASSUME StoreInv, Migrate
  PROVE  StoreInv'
<1>1. UNCHANGED <<committed, stored, cut, lent>>
  BY DEF Migrate, Begin
<1>2. PICK enforced \in BOOLEAN :
        tx' = [kind |-> "migrate", docs |-> <<>>, steps |-> MigrateSteps, work |-> committed,
               enforced |-> enforced]
  BY DEF Migrate, Begin
<1>3. /\ tx'.kind = "migrate" /\ tx'.docs = <<>> /\ tx'.steps = MigrateSteps
      /\ tx'.work = committed
  BY <1>2
<1>4. /\ DOMAIN tx'.steps = 1 .. 2
      /\ \A i \in 1 .. 2 : tx'.steps[i] = Step("migrate", Nothing, Nothing, i)
  BY <1>3 DEF MigrateSteps, Migration
<1>5. StoreType'
  <2>1. MigrateSteps \in Seq(Statement)
    <3>1. MigrateSteps = [i \in 1 .. 2 |-> MigrateSteps[i]]
      BY DEF MigrateSteps, Migration
    <3>2. \A i \in 1 .. 2 : MigrateSteps[i] \in Statement
      BY <1>3, <1>4 DEF Statement, Migration
    <3> QED
      BY <3>1, <3>2
  <2>2. committed \in Database /\ stored \in [Doc -> Stored] /\ <<>> \in Seq(Doc \X Stored)
    BY DEF StoreInv, StoreType
  <2>3. tx' \in Transaction
    BY <1>2, <2>1, <2>2 DEF Transaction
  <2> QED
    BY <1>1, <2>2, <2>3 DEF StoreType
<1>6. \A d, v : ~Writes(d, v)'
  BY <1>3 DEF Writes
<1>7. StepsInv'
  BY <1>3, <1>4 DEF StepsInv, StepFits, Step
<1>8. SchemaInv'
  BY <1>4 DEF SchemaInv, Step, Migration
<1>9. RowsInv' /\ EdgesInv'
  <2>1. ASSUME NEW d \in Doc
        PROVE  /\ tx'.work.doc[d] = committed'.doc[d]
               /\ \A t \in Table : Whole(tx'.work.rows[t], t, d, stored'[d], Others')
    BY <1>1, <1>3, CommittedBegins
  <2>2. RowsInv'
    BY <1>6, <2>1 DEF RowsInv
  <2> QED
    BY <1>1, <1>3, <1>6, <2>2 DEF EdgesInv
<1>10. CommittedWhole' /\ OwnEdgesKept'
  BY <1>1 DEF StoreInv, CommittedWhole, OwnEdgesKept
<1> QED
  BY <1>5, <1>7, <1>8, <1>9, <1>10 DEF StoreInv, TxInv

\* Deleting a document: its rows, the edges from it and to it, the document.
LEMMA DeleteBegins ==
  ASSUME StoreInv, NEW x \in Doc, Delete(x)
  PROVE  StoreInv'
<1>1. UNCHANGED <<committed, stored, cut, lent>> /\ committed.schema = Migration
  BY DEF Delete, Begin
<1>2. PICK enforced \in BOOLEAN :
        tx' = [kind |-> "delete", docs |-> <<<<x, Nothing>>>>, steps |-> DeleteSteps(x),
               work |-> committed, enforced |-> enforced]
  BY DEF Delete, Begin
<1>3. /\ tx'.kind = "delete" /\ tx'.docs = <<<<x, Nothing>>>> /\ tx'.steps = DeleteSteps(x)
      /\ tx'.work = committed
  BY <1>2
<1>4. /\ DOMAIN tx'.steps = 1 .. 5
      /\ tx'.steps[1] = Step("deleteRows", "reference", x, Nothing)
      /\ tx'.steps[2] = Step("deleteRows", "symbol", x, Nothing)
      /\ tx'.steps[3] = Step("deleteRows", "diagnostic", x, Nothing)
      /\ tx'.steps[4] = Step("deleteEdges", Nothing, x, Nothing)
      /\ tx'.steps[5] = Step("deleteDocument", Nothing, x, Nothing)
  BY <1>3 DEF DeleteSteps, DeleteStep
<1>5. StoreType'
  <2>1. DeleteSteps(x) \in Seq(Statement)
    <3>1. \A n \in 1 .. 5 : n \in {1, 2, 3, 4, 5}
      OBVIOUS
    <3>2. \A n \in 1 .. 5 : DeleteStep(x, n) \in Statement
      BY <3>1 DEF DeleteStep, Statement, Table
    <3>3. DeleteSteps(x) = [n \in 1 .. 5 |-> DeleteSteps(x)[n]]
      BY DEF DeleteSteps
    <3>4. \A n \in 1 .. 5 : DeleteSteps(x)[n] \in Statement
      BY <3>2 DEF DeleteSteps
    <3> QED
      BY <3>3, <3>4
  <2>2. committed \in Database /\ stored \in [Doc -> Stored] /\ <<<<x, Nothing>>>> \in Seq(Doc \X Stored)
    BY DEF StoreInv, StoreType, Stored
  <2>3. tx' \in Transaction
    BY <1>2, <2>1, <2>2 DEF Transaction
  <2> QED
    BY <1>1, <2>2, <2>3 DEF StoreType
<1>6. \A d, v : Writes(d, v)' <=> d = x /\ v = Nothing
  BY <1>3 DEF Writes
<1>7. StepsInv'
  <2>1. \A k \in DOMAIN tx'.steps : k \in {1, 2, 3, 4, 5}
    BY <1>4
  <2>2. ASSUME NEW k \in DOMAIN tx'.steps PROVE StepFits(k)'
    <3>1. /\ tx'.steps[k].doc = x /\ tx'.steps[k].version = Nothing
          /\ tx'.steps[k].do # "document"
      BY <1>4, <2>1 DEF Step
    <3> QED
      BY <1>3, <3>1 DEF StepFits, Writes
  <2> QED
    BY <1>3, <2>2 DEF StepsInv
<1>8. SchemaInv'
  BY <1>1, <1>3 DEF SchemaInv
<1>9. DocumentLeft(x)' /\ \A t \in Table : RowsLeft(0, t, x)'
  <2>1. DocumentLeft(x)'
    BY <1>4 DEF DocumentLeft, Step
  <2>2. ASSUME NEW t \in Table PROVE RowsLeft(0, t, x)'
    BY <1>4 DEF RowsLeft, Step, Table
  <2> QED
    BY <2>1, <2>2
<1>10. RowsInv'
  <2>1. ASSUME NEW d \in Doc
        PROVE  /\ tx'.work.doc[d] = committed'.doc[d]
               /\ \A t \in Table : Whole(tx'.work.rows[t], t, d, stored'[d], Others')
    BY <1>1, <1>3, CommittedBegins
  <2>2. ASSUME NEW d \in Doc, NEW v \in Stored, Writes(d, v)'
        PROVE  DocumentLeft(d)' /\ \A t \in Table : RowsLeft(0, t, d)'
    BY <1>6, <1>9, <2>2
  <2> QED
    BY <2>1, <2>2 DEF RowsInv
<1>11. EdgesInv'
  <2>1. \A d \in Doc, v \in Version : ~Writes(d, v)'
    BY <1>6, NothingAssumption DEF NothingAssumption
  <2> QED
    BY <1>1, <1>3, <2>1 DEF EdgesInv
<1>12. CommittedWhole' /\ OwnEdgesKept'
  BY <1>1 DEF StoreInv, CommittedWhole, OwnEdgesKept
<1> QED
  BY <1>5, <1>7, <1>8, <1>10, <1>11, <1>12 DEF StoreInv, TxInv

\* The rows stored with a version of a document.
Given(t, d, v) == IF v = Nothing THEN {} ELSE RowsOf[d][v][t]

\* Rows of the document alone may go.
Shrinks(R, new, d) == new \subseteq R /\ \A r \in R : r[1] # d => r \in new

\* What a statement does to a database, and what it leaves alone.
EffectOf(db, s, new) ==
  /\ s.do \in {"migrate", "document", "deleteDocument", "rows", "deleteRows", "edges", "deleteEdges"}
  /\ s.do = "migrate" =>
       /\ s.version \in Migration /\ new.schema = db.schema \cup {s.version}
       /\ new.doc = db.doc /\ new.rows = db.rows /\ new.edges = db.edges
  /\ s.do # "migrate" => new.schema = db.schema /\ s.doc \in Doc /\ s.version \in Stored
  /\ s.do \in {"document", "deleteDocument"} =>
       /\ new.doc = [db.doc EXCEPT ![s.doc] = s.version]
       /\ \A t \in Table : Shrinks(db.rows[t], new.rows[t], s.doc)
       /\ \A e \in db.edges : e[1] # s.doc => e \in new.edges
  /\ s.do \in {"deleteDocument", "deleteEdges"} => s.version = Nothing
  /\ s.do \in {"rows", "deleteRows"} =>
       /\ s.table \in Table /\ \A t \in Table \ {s.table} : new.rows[t] = db.rows[t]
       /\ new.rows[s.table] = {r \in db.rows[s.table] : r[1] # s.doc}
                                \cup Given(s.table, s.doc, s.version)
       /\ new.doc = db.doc /\ new.edges = db.edges
  /\ s.do = "edges" =>
       /\ s.version \in Version /\ new.doc = db.doc /\ new.rows = db.rows
       /\ new.edges = {e \in db.edges : e[1] # s.doc} \cup EdgesOf[s.doc][s.version]
  /\ s.do = "deleteEdges" =>
       /\ new.doc = db.doc /\ new.rows = db.rows
       /\ new.edges = {e \in db.edges : e[1] # s.doc /\ e[2] # s.doc}

\* Effect does that and yields a database.
LEMMA EffectFacts ==
  ASSUME NEW db \in Database, NEW s \in Statement, NEW enforced \in BOOLEAN
  PROVE  /\ Effect(db, s, enforced) \in Database
         /\ EffectOf(db, s, Effect(db, s, enforced))
<1> DEFINE new == Effect(db, s, enforced)
           without(d) == Cascade(db, d, enforced)
<1>1. \A d \in Doc : /\ without(d) \in Database
                     /\ without(d).schema = db.schema /\ without(d).doc = db.doc
                     /\ \A t \in Table : Shrinks(db.rows[t], without(d).rows[t], d)
                     /\ \A e \in db.edges : e[1] # d => e \in without(d).edges
  <2> SUFFICES ASSUME NEW d \in Doc
               PROVE  /\ without(d) \in Database
                      /\ without(d).schema = db.schema /\ without(d).doc = db.doc
                      /\ \A t \in Table : Shrinks(db.rows[t], without(d).rows[t], d)
                      /\ \A e \in db.edges : e[1] # d => e \in without(d).edges
    OBVIOUS
  <2>1. CASE ~enforced
    BY <2>1 DEF Cascade, Shrinks
  <2>2. CASE enforced
    <3> DEFINE tables == [t \in Table |-> {r \in db.rows[t] : r[1] # d}]
               left == {e \in db.edges : e[1] # d}
    <3>1. without(d) = [db EXCEPT !.rows = tables, !.edges = left]
      BY <2>2 DEF Cascade
    <3>2. tables \in [Table -> SUBSET TableRow] /\ left \in SUBSET (Doc \X Doc)
      BY DEF Database
    <3>3. \A t \in Table : Shrinks(db.rows[t], tables[t], d)
      BY DEF Shrinks
    <3>4. \A e \in db.edges : e[1] # d => e \in left
      OBVIOUS
    <3> HIDE DEF tables, left
    <3>5. /\ without(d) \in Database /\ without(d).rows = tables /\ without(d).edges = left
          /\ without(d).schema = db.schema /\ without(d).doc = db.doc
      BY <3>1, <3>2 DEF Database
    <3> QED
      BY <3>3, <3>4, <3>5
  <2> QED
    BY <2>1, <2>2
<1>2. ASSUME NEW i \in Migration, s = Step("migrate", Nothing, Nothing, i)
      PROVE  /\ new \in Database /\ s.do = "migrate" /\ s.version = i
             /\ new.schema = db.schema \cup {i}
             /\ new.doc = db.doc /\ new.rows = db.rows /\ new.edges = db.edges
  <2>1. new = [db EXCEPT !.schema = @ \cup {i}] /\ s.do = "migrate" /\ s.version = i
    BY <1>2 DEF Effect, Step
  <2> QED
    BY <2>1 DEF Database
<1>3. ASSUME NEW d \in Doc, NEW v \in Stored, NEW do \in {"document", "deleteDocument"},
             s = Step(do, Nothing, d, v)
      PROVE  /\ new \in Database /\ s.do = do /\ s.doc = d /\ s.version = v
             /\ new.schema = db.schema /\ new.doc = [db.doc EXCEPT ![d] = v]
             /\ \A t \in Table : Shrinks(db.rows[t], new.rows[t], d)
             /\ \A e \in db.edges : e[1] # d => e \in new.edges
  <2>1. s.do = do /\ s.doc = d /\ s.version = v
    BY <1>3 DEF Step
  <2>2. new = [without(d) EXCEPT !.doc[d] = v]
    <3>1. s.do \in {"document", "deleteDocument"}
      BY <2>1
    <3>2. Effect(db, s, enforced) = [Cascade(db, s.doc, enforced) EXCEPT !.doc[s.doc] = s.version]
      BY <3>1 DEF Effect
    <3> QED
      BY <2>1, <3>2
  <2> DEFINE base == without(d)
  <2> DEFINE docs == [base.doc EXCEPT ![d] = v]
  <2>3. base \in Database /\ new = [base EXCEPT !.doc = docs]
    BY <1>1, <2>2
  <2> HIDE DEF without, base
  <2>4. docs \in [Doc -> Stored]
    BY <2>3 DEF Database
  <2> HIDE DEF docs
  <2>5. /\ new \in Database /\ new.schema = base.schema /\ new.rows = base.rows
        /\ new.edges = base.edges /\ new.doc = docs
    BY <2>3, <2>4 DEF Database
  <2> QED
    BY <1>1, <2>1, <2>5 DEF base, docs
<1>4. ASSUME NEW t \in Table, NEW d \in Doc, NEW v \in Stored, NEW do \in {"rows", "deleteRows"},
             s = Step(do, t, d, v), do = "rows" <=> v \in Version
      PROVE  /\ new \in Database /\ s.do = do /\ s.table = t /\ s.doc = d /\ s.version = v
             /\ new.schema = db.schema /\ new.doc = db.doc /\ new.edges = db.edges
             /\ new.rows[t] = {r \in db.rows[t] : r[1] # d} \cup Given(t, d, v)
             /\ \A u \in Table \ {t} : new.rows[u] = db.rows[u]
  <2>1. s.do = do /\ s.table = t /\ s.doc = d /\ s.version = v
    BY <1>4 DEF Step
  <2> DEFINE kept == {r \in db.rows[t] : r[1] # d} \cup Given(t, d, v)
             tables == [db.rows EXCEPT ![t] = kept]
  <2>2. new = [db EXCEPT !.rows = tables]
    <3>1. CASE do = "rows"
      <4>1. Given(t, d, v) = RowsOf[d][v][t]
        BY <1>4, <3>1, NothingAssumption DEF Given, NothingAssumption
      <4> QED
        BY <2>1, <3>1, <4>1 DEF Effect
    <3>2. CASE do = "deleteRows"
      <4>1. Given(t, d, v) = {}
        BY <1>4, <3>2 DEF Given, Stored
      <4> QED
        BY <2>1, <3>2, <4>1 DEF Effect
    <3> QED
      BY <3>1, <3>2
  <2>3. kept \in SUBSET TableRow
    <3>1. Given(t, d, v) \in SUBSET TableRow
      BY RowsAssumption DEF Given, Stored, RowsAssumption
    <3>2. db.rows[t] \in SUBSET TableRow
      BY DEF Database
    <3> QED
      BY <3>1, <3>2
  <2> HIDE DEF kept
  <2>4. /\ tables \in [Table -> SUBSET TableRow] /\ tables[t] = kept
        /\ \A u \in Table \ {t} : tables[u] = db.rows[u]
    BY <2>3 DEF Database
  <2> HIDE DEF tables
  <2>5. /\ new \in Database /\ new.rows = tables /\ new.schema = db.schema
        /\ new.doc = db.doc /\ new.edges = db.edges
    BY <2>2, <2>4 DEF Database
  <2> QED
    BY <2>1, <2>4, <2>5 DEF kept
<1>5. ASSUME NEW d \in Doc, NEW v \in Version, s = Step("edges", Nothing, d, v)
      PROVE  /\ new \in Database /\ s.do = "edges" /\ s.doc = d /\ s.version = v
             /\ new.schema = db.schema /\ new.doc = db.doc /\ new.rows = db.rows
             /\ new.edges = {e \in db.edges : e[1] # d} \cup EdgesOf[d][v]
  <2>1. s.do = "edges" /\ s.doc = d /\ s.version = v
    BY <1>5 DEF Step
  <2>2. new = [db EXCEPT !.edges = {e \in @ : e[1] # d} \cup EdgesOf[d][v]]
    BY <2>1 DEF Effect
  <2>3. EdgesOf[d][v] \subseteq Doc \X Doc
    BY EdgesAssumption DEF EdgesAssumption
  <2> QED
    BY <2>1, <2>2, <2>3 DEF Database
<1>6. ASSUME NEW d \in Doc, s = Step("deleteEdges", Nothing, d, Nothing)
      PROVE  /\ new \in Database /\ s.do = "deleteEdges" /\ s.doc = d /\ s.version = Nothing
             /\ new.schema = db.schema /\ new.doc = db.doc /\ new.rows = db.rows
             /\ new.edges = {e \in db.edges : e[1] # d /\ e[2] # d}
  <2>1. s.do = "deleteEdges" /\ s.doc = d /\ s.version = Nothing
    BY <1>6 DEF Step
  <2>2. new = [db EXCEPT !.edges = {e \in @ : e[1] # d /\ e[2] # d}]
    BY <2>1 DEF Effect
  <2> QED
    BY <2>1, <2>2 DEF Database
<1> HIDE DEF new
<1>7. Version \subseteq Stored /\ Nothing \in Stored
  BY DEF Stored
<1>8. \/ \E i \in Migration : s = Step("migrate", Nothing, Nothing, i)
      \/ \E d \in Doc, v \in Version : s = Step("document", Nothing, d, v)
      \/ \E d \in Doc : s = Step("deleteDocument", Nothing, d, Nothing)
      \/ \E t \in Table, d \in Doc, v \in Version : s = Step("rows", t, d, v)
      \/ \E t \in Table, d \in Doc : s = Step("deleteRows", t, d, Nothing)
      \/ \E d \in Doc, v \in Version : s = Step("edges", Nothing, d, v)
      \/ \E d \in Doc : s = Step("deleteEdges", Nothing, d, Nothing)
  BY DEF Statement
<1>9. CASE \E i \in Migration : s = Step("migrate", Nothing, Nothing, i)
  BY <1>2, <1>9 DEF new, EffectOf
<1>10. CASE \E d \in Doc, v \in Version : s = Step("document", Nothing, d, v)
  <2>1. PICK d \in Doc, v \in Version : s = Step("document", Nothing, d, v)
    BY <1>10
  <2>2. v \in Stored /\ "document" \in {"document", "deleteDocument"}
    BY <1>7
  <2>3. /\ new \in Database /\ s.do = "document" /\ s.doc = d /\ s.version = v
        /\ new.schema = db.schema /\ new.doc = [db.doc EXCEPT ![d] = v]
        /\ \A t \in Table : Shrinks(db.rows[t], new.rows[t], d)
        /\ \A e \in db.edges : e[1] # d => e \in new.edges
    BY <1>3, <2>1, <2>2
  <2> QED
    BY <2>2, <2>3 DEF new, EffectOf
<1>11. CASE \E d \in Doc : s = Step("deleteDocument", Nothing, d, Nothing)
  <2>1. PICK d \in Doc : s = Step("deleteDocument", Nothing, d, Nothing)
    BY <1>11
  <2>2. Nothing \in Stored /\ "deleteDocument" \in {"document", "deleteDocument"}
    BY <1>7
  <2>3. /\ new \in Database /\ s.do = "deleteDocument" /\ s.doc = d /\ s.version = Nothing
        /\ new.schema = db.schema /\ new.doc = [db.doc EXCEPT ![d] = Nothing]
        /\ \A t \in Table : Shrinks(db.rows[t], new.rows[t], d)
        /\ \A e \in db.edges : e[1] # d => e \in new.edges
    BY <1>3, <2>1, <2>2
  <2> QED
    BY <2>2, <2>3 DEF new, EffectOf
<1>12. CASE \E t \in Table, d \in Doc, v \in Version : s = Step("rows", t, d, v)
  <2>1. PICK t \in Table, d \in Doc, v \in Version : s = Step("rows", t, d, v)
    BY <1>12
  <2>2. v \in Stored /\ "rows" \in {"rows", "deleteRows"}
    BY <1>7
  <2>3. /\ new \in Database /\ s.do = "rows" /\ s.table = t /\ s.doc = d /\ s.version = v
        /\ new.schema = db.schema /\ new.doc = db.doc /\ new.edges = db.edges
        /\ new.rows[t] = {r \in db.rows[t] : r[1] # d} \cup Given(t, d, v)
        /\ \A u \in Table \ {t} : new.rows[u] = db.rows[u]
    BY <1>4, <2>1, <2>2
  <2> QED
    BY <2>2, <2>3 DEF new, EffectOf
<1>13. CASE \E t \in Table, d \in Doc : s = Step("deleteRows", t, d, Nothing)
  <2>1. PICK t \in Table, d \in Doc : s = Step("deleteRows", t, d, Nothing)
    BY <1>13
  <2>2. /\ Nothing \in Stored /\ "deleteRows" \in {"rows", "deleteRows"}
        /\ "deleteRows" = "rows" <=> Nothing \in Version
    BY <1>7, NothingAssumption DEF NothingAssumption
  <2>3. /\ new \in Database /\ s.do = "deleteRows" /\ s.table = t /\ s.doc = d
        /\ s.version = Nothing
        /\ new.schema = db.schema /\ new.doc = db.doc /\ new.edges = db.edges
        /\ new.rows[t] = {r \in db.rows[t] : r[1] # d} \cup Given(t, d, Nothing)
        /\ \A u \in Table \ {t} : new.rows[u] = db.rows[u]
    BY <1>4, <2>1, <2>2
  <2> QED
    BY <2>2, <2>3 DEF new, EffectOf
<1>14. CASE \E d \in Doc, v \in Version : s = Step("edges", Nothing, d, v)
  BY <1>5, <1>7, <1>14 DEF new, EffectOf
<1>15. CASE \E d \in Doc : s = Step("deleteEdges", Nothing, d, Nothing)
  BY <1>6, <1>7, <1>15 DEF new, EffectOf
<1> QED
  BY <1>8, <1>9, <1>10, <1>11, <1>12, <1>13, <1>14, <1>15

\* The facts about the statement that is executed and those that are left after it.
LEMMA Executed ==
  ASSUME StoreInv, Execute
  PROVE  /\ tx \in Transaction /\ tx' \in Transaction /\ tx # Nothing
         /\ tx.steps # <<>> /\ Head(tx.steps) = tx.steps[1] /\ Head(tx.steps) \in Statement
         /\ StepFits(1)
         /\ tx'.work = Effect(tx.work, Head(tx.steps), tx.enforced)
         /\ tx'.docs = tx.docs /\ tx'.kind = tx.kind
         /\ \A k \in DOMAIN tx'.steps : k + 1 \in DOMAIN tx.steps /\ tx'.steps[k] = tx.steps[k + 1]
         /\ \A k \in DOMAIN tx.steps : k = 1 \/ k - 1 \in DOMAIN tx'.steps
<1>1. tx # Nothing /\ tx \in Transaction /\ tx.steps # <<>> /\ tx.steps \in Seq(Statement)
  BY DEF StoreInv, StoreType, Execute, Transaction
<1>2. Head(tx.steps) = tx.steps[1] /\ Head(tx.steps) \in Statement /\ 1 \in DOMAIN tx.steps
  BY <1>1
<1>3. tx' = [tx EXCEPT !.work = Effect(tx.work, Head(tx.steps), tx.enforced),
                       !.steps = Tail(tx.steps)]
  BY DEF Execute
<1>4. Effect(tx.work, Head(tx.steps), tx.enforced) \in Database
  BY <1>1, <1>2, EffectFacts DEF Transaction
<1>5. Tail(tx.steps) \in Seq(Statement)
  BY <1>1
<1>6. /\ tx' \in Transaction /\ tx'.steps = Tail(tx.steps) /\ tx'.docs = tx.docs /\ tx'.kind = tx.kind
      /\ tx'.work = Effect(tx.work, Head(tx.steps), tx.enforced)
  BY <1>1, <1>3, <1>4, <1>5 DEF Transaction
<1>7. /\ \A k \in DOMAIN tx'.steps : k + 1 \in DOMAIN tx.steps /\ tx'.steps[k] = tx.steps[k + 1]
      /\ \A k \in DOMAIN tx.steps : k = 1 \/ k - 1 \in DOMAIN tx'.steps
  BY <1>1, <1>6
<1> QED
  BY <1>1, <1>2, <1>6, <1>7 DEF StoreInv, TxInv, StepsInv

\* What is left after the first k statements is left after one less of one less.
LEMMA LeftShifts ==
  ASSUME StoreInv, Execute
  PROVE  /\ \A k \in Nat, d \in Doc : EdgesLeft(k + 1, d) => EdgesLeft(k, d)'
         /\ \A k \in Nat, d \in Doc, t \in Table : RowsLeft(k + 1, t, d) => RowsLeft(k, t, d)'
         /\ \A d \in Doc : EdgesLeft(0, d) =>
              EdgesLeft(0, d)' \/ (Head(tx.steps).do = "edges" /\ Head(tx.steps).doc = d)
         /\ \A d \in Doc, t \in Table : RowsLeft(0, t, d) =>
              \/ RowsLeft(0, t, d)'
              \/ /\ Head(tx.steps).do \in {"rows", "deleteRows"}
                 /\ Head(tx.steps).table = t /\ Head(tx.steps).doc = d
         /\ \A d \in Doc : DocumentLeft(d) =>
              \/ DocumentLeft(d)'
              \/ /\ Head(tx.steps).do \in {"document", "deleteDocument"}
                 /\ Head(tx.steps).doc = d
<1>1. /\ Head(tx.steps) = tx.steps[1] /\ tx.steps \in Seq(Statement) /\ tx'.steps \in Seq(Statement)
      /\ \A k \in DOMAIN tx'.steps : k + 1 \in DOMAIN tx.steps /\ tx'.steps[k] = tx.steps[k + 1]
      /\ \A k \in DOMAIN tx.steps : k = 1 \/ k - 1 \in DOMAIN tx'.steps
  BY Executed DEF Transaction
<1>2. ASSUME NEW j \in DOMAIN tx.steps, j # 1
      PROVE  j - 1 \in DOMAIN tx'.steps /\ tx'.steps[j - 1] = tx.steps[j] /\ j \in Nat
  BY <1>1, <1>2
<1>3. ASSUME NEW k \in Nat, NEW d \in Doc, EdgesLeft(k + 1, d)
      PROVE  EdgesLeft(k, d)'
  <2>1. PICK j \in DOMAIN tx.steps : j > k + 1 /\ tx.steps[j].do = "edges" /\ tx.steps[j].doc = d
    BY <1>3 DEF EdgesLeft
  <2>2. j - 1 \in DOMAIN tx'.steps /\ tx'.steps[j - 1] = tx.steps[j] /\ j - 1 > k
    BY <1>1, <1>2, <2>1
  <2> QED
    BY <2>1, <2>2 DEF EdgesLeft
<1>4. ASSUME NEW k \in Nat, NEW d \in Doc, NEW t \in Table, RowsLeft(k + 1, t, d)
      PROVE  RowsLeft(k, t, d)'
  <2>1. PICK j \in DOMAIN tx.steps : /\ j > k + 1 /\ tx.steps[j].do \in {"rows", "deleteRows"}
                                     /\ tx.steps[j].table = t /\ tx.steps[j].doc = d
    BY <1>4 DEF RowsLeft
  <2>2. j - 1 \in DOMAIN tx'.steps /\ tx'.steps[j - 1] = tx.steps[j] /\ j - 1 > k
    BY <1>1, <1>2, <2>1
  <2> QED
    BY <2>1, <2>2 DEF RowsLeft
<1>5. ASSUME NEW d \in Doc, EdgesLeft(0, d), ~(Head(tx.steps).do = "edges" /\ Head(tx.steps).doc = d)
      PROVE  EdgesLeft(0, d)'
  <2>1. PICK j \in DOMAIN tx.steps : tx.steps[j].do = "edges" /\ tx.steps[j].doc = d
    BY <1>5 DEF EdgesLeft
  <2>2. j # 1
    BY <1>1, <1>5, <2>1
  <2>3. j - 1 \in DOMAIN tx'.steps /\ tx'.steps[j - 1] = tx.steps[j] /\ j - 1 > 0
    BY <1>1, <1>2, <2>2
  <2> QED
    BY <2>1, <2>3 DEF EdgesLeft
<1>6. ASSUME NEW d \in Doc, NEW t \in Table, RowsLeft(0, t, d),
             ~(/\ Head(tx.steps).do \in {"rows", "deleteRows"}
               /\ Head(tx.steps).table = t /\ Head(tx.steps).doc = d)
      PROVE  RowsLeft(0, t, d)'
  <2>1. PICK j \in DOMAIN tx.steps : /\ tx.steps[j].do \in {"rows", "deleteRows"}
                                     /\ tx.steps[j].table = t /\ tx.steps[j].doc = d
    BY <1>6 DEF RowsLeft
  <2>2. j # 1
    BY <1>1, <1>6, <2>1
  <2>3. j - 1 \in DOMAIN tx'.steps /\ tx'.steps[j - 1] = tx.steps[j] /\ j - 1 > 0
    BY <1>1, <1>2, <2>2
  <2> QED
    BY <2>1, <2>3 DEF RowsLeft
<1>7. ASSUME NEW d \in Doc, DocumentLeft(d),
             ~(Head(tx.steps).do \in {"document", "deleteDocument"} /\ Head(tx.steps).doc = d)
      PROVE  DocumentLeft(d)'
  <2>1. PICK j \in DOMAIN tx.steps : /\ tx.steps[j].do \in {"document", "deleteDocument"}
                                     /\ tx.steps[j].doc = d
    BY <1>7 DEF DocumentLeft
  <2>2. j # 1
    BY <1>1, <1>7, <2>1
  <2>3. j - 1 \in DOMAIN tx'.steps /\ tx'.steps[j - 1] = tx.steps[j]
    BY <1>1, <1>2, <2>2
  <2> QED
    BY <2>1, <2>3 DEF DocumentLeft
<1>8. \A d \in Doc : EdgesLeft(0, d) =>
        EdgesLeft(0, d)' \/ (Head(tx.steps).do = "edges" /\ Head(tx.steps).doc = d)
  <2> SUFFICES ASSUME NEW d \in Doc, EdgesLeft(0, d),
                      ~(Head(tx.steps).do = "edges" /\ Head(tx.steps).doc = d)
               PROVE  EdgesLeft(0, d)'
    OBVIOUS
  <2> QED
    BY <1>5
<1>9. \A d \in Doc, t \in Table : RowsLeft(0, t, d) =>
        \/ RowsLeft(0, t, d)'
        \/ /\ Head(tx.steps).do \in {"rows", "deleteRows"}
           /\ Head(tx.steps).table = t /\ Head(tx.steps).doc = d
  BY <1>6
<1>10. \A d \in Doc : DocumentLeft(d) =>
         \/ DocumentLeft(d)'
         \/ /\ Head(tx.steps).do \in {"document", "deleteDocument"}
            /\ Head(tx.steps).doc = d
  BY <1>7
<1>11. /\ \A k \in Nat, d \in Doc : EdgesLeft(k + 1, d) => EdgesLeft(k, d)'
       /\ \A k \in Nat, d \in Doc, t \in Table : RowsLeft(k + 1, t, d) => RowsLeft(k, t, d)'
  BY <1>3, <1>4
<1> QED
  BY <1>8, <1>9, <1>10, <1>11

\* Each statement makes true what is no longer left to do.
LEMMA ExecuteInv ==
  ASSUME StoreInv, Execute
  PROVE  StoreInv'
<1> DEFINE s == Head(tx.steps)
           db == tx.work
           new == tx'.work
<1>1. UNCHANGED <<committed, stored, cut, lent>>
  BY DEF Execute
<1>2. /\ tx' \in Transaction
      /\ tx'.docs = tx.docs /\ tx'.kind = tx.kind /\ db \in Database /\ s \in Statement
      /\ new = Effect(db, s, tx.enforced) /\ tx.enforced \in BOOLEAN
      /\ StepsInv /\ SchemaInv /\ RowsInv /\ EdgesInv /\ StepFits(1) /\ s = tx.steps[1]
  BY Executed DEF Transaction, StoreInv, TxInv
<1>3. \A d, v : Writes(d, v)' <=> Writes(d, v)
  BY <1>2 DEF Writes
<1>4. \A d : Touches(d)' <=> Touches(d)
  BY <1>3 DEF Touches
<1>5. \A d, v, w : Writes(d, v) /\ Writes(d, w) => v = w
  BY <1>2 DEF StepsInv, Writes
<1>6. EffectOf(db, s, new)
  BY <1>2, EffectFacts
<1>7. s.do # "migrate" => Writes(s.doc, s.version) /\ Touches(s.doc) /\ s.doc \in Doc /\ s.version \in Stored
  <2>1. s.do # "migrate" => Writes(s.doc, s.version)
    BY <1>2 DEF StepFits
  <2>2. s.do # "migrate" => s.doc \in Doc /\ s.version \in Stored
    BY <1>2, <1>6 DEF EffectOf
  <2> QED
    BY <2>1, <2>2 DEF Touches
<1>8. StepsInv'
  <2>1. ASSUME NEW k \in DOMAIN tx'.steps PROVE StepFits(k)'
    <3>1. PICK q : q = tx.steps[k + 1]
      OBVIOUS
    <3>2. k + 1 \in DOMAIN tx.steps /\ tx'.steps[k] = q /\ k \in Nat /\ q \in Statement
      BY <3>1, Executed DEF Transaction
    <3>3. StepFits(k + 1)
      BY <1>2, <3>2 DEF StepsInv
    <3>4. q.do # "migrate" => q.doc \in Doc
      BY <1>2, <3>2, EffectFacts DEF EffectOf
    <3>5. q.do = "document" => EdgesLeft(k, q.doc)' /\ \A t \in Table : RowsLeft(k, t, q.doc)'
      <4>1. PICK d : d = q.doc
        OBVIOUS
      <4>2. ASSUME q.do = "document"
            PROVE  EdgesLeft(k + 1, d) /\ d \in Doc /\ \A t \in Table : RowsLeft(k + 1, t, d)
        BY <3>1, <3>3, <3>4, <4>1, <4>2 DEF StepFits
      <4>3. q.do = "document" => EdgesLeft(k, d)' /\ \A t \in Table : RowsLeft(k, t, d)'
        BY <3>2, <4>2, LeftShifts
      <4> QED
        BY <4>1, <4>3
    <3> QED
      BY <1>2, <3>1, <3>2, <3>3, <3>5 DEF StepFits, Writes
  <2> QED
    BY <1>2, <2>1 DEF StepsInv
<1>9. SchemaInv'
  <2>1. ASSUME NEW i \in Migration
        PROVE  i \in new.schema \/ \E j \in DOMAIN tx'.steps : tx'.steps[j].do = "migrate"
                                                               /\ tx'.steps[j].version = i
    <3>1. db.schema \subseteq new.schema
      BY <1>2, <1>6 DEF EffectOf
    <3>2. ASSUME NEW j \in DOMAIN tx.steps, tx.steps[j].do = "migrate", tx.steps[j].version = i, j # 1
          PROVE  j - 1 \in DOMAIN tx'.steps /\ tx'.steps[j - 1] = tx.steps[j]
      <4>1. j - 1 \in DOMAIN tx'.steps /\ tx'.steps[j - 1] = tx.steps[(j - 1) + 1]
        BY <3>2, Executed
      <4>2. j \in Nat
        BY Executed DEF Transaction
      <4> QED
        BY <4>1, <4>2
    <3>3. s.do = "migrate" /\ s.version = i => i \in new.schema
      BY <1>2, <1>6 DEF EffectOf
    <3> QED
      BY <1>2, <3>1, <3>2, <3>3 DEF SchemaInv
  <2> QED
    BY <2>1 DEF SchemaInv
<1>10. ASSUME NEW d \in Doc, NEW t \in Table, NEW v, Whole(db.rows[t], t, d, v, Others),
              ~(s.do \in {"rows", "deleteRows"} /\ s.table = t /\ s.doc = d),
              ~(s.do \in {"document", "deleteDocument"} /\ s.doc = d)
       PROVE  Whole(new.rows[t], t, d, v, Others')
  <2>1. Others' = Others
    BY <1>1, <1>2 DEF Others, LentBy
  <2>2. \A r \in Own(t, d, v) : r[1] = d
    BY DEF Own
  <2>3. CASE s.do \in {"document", "deleteDocument"}
    <3>1. Shrinks(db.rows[t], new.rows[t], s.doc)
      BY <1>6, <2>3 DEF EffectOf
    <3> QED
      BY <1>10, <2>1, <2>2, <2>3, <3>1 DEF Shrinks, Whole
  <2>4. CASE s.do \in {"rows", "deleteRows"} /\ s.table = t
    <3>1. new.rows[t] = {r \in db.rows[t] : r[1] # s.doc} \cup Given(t, s.doc, s.version)
      BY <1>6, <2>4 DEF EffectOf
    <3>2. ASSUME NEW r \in Given(t, s.doc, s.version), r[1] = d
          PROVE  <<t, r>> \in Others
      <4>1. PICK i \in DOMAIN tx.docs : tx.docs[i] = <<s.doc, s.version>>
        BY <1>7, <2>4 DEF Writes
      <4>2. s.version # Nothing /\ s.version \in Version /\ r \in RowsOf[s.doc][s.version][t]
        BY <1>7, <2>4, <3>2 DEF Given, Stored
      <4>3. r \in TableRow
        BY <1>7, <2>4, <4>2, RowsAssumption DEF RowsAssumption
      <4>4. r[1] # s.doc
        BY <1>10, <2>4, <3>2
      <4> QED
        BY <4>1, <4>2, <4>3, <4>4 DEF Others, LentBy
    <3>3. Own(t, d, v) \subseteq db.rows[t] /\ d # s.doc
      BY <1>10, <2>4 DEF Whole
    <3>4. Own(t, d, v) \subseteq new.rows[t]
      BY <2>2, <3>1, <3>3
    <3>5. ASSUME NEW r \in new.rows[t], r[1] = d
          PROVE  r \in Own(t, d, v) \/ <<t, r>> \in Others
      BY <1>10, <3>1, <3>2, <3>5 DEF Whole
    <3> QED
      BY <2>1, <3>4, <3>5 DEF Whole
  <2>5. CASE ~(s.do \in {"rows", "deleteRows"} /\ s.table = t)
             /\ s.do \notin {"document", "deleteDocument"}
    <3>1. new.rows[t] = db.rows[t]
      BY <1>6, <2>5 DEF EffectOf
    <3> QED
      BY <1>10, <2>1, <3>1
  <2> QED
    BY <2>3, <2>4, <2>5
<1>10a. ASSUME NEW d \in Doc, ~Touches(d)
       PROVE  /\ new.doc[d] = db.doc[d]
              /\ \A t \in Table : Whole(new.rows[t], t, d, stored'[d], Others')
  <2>1. s.do # "migrate" => d # s.doc
    BY <1>7, <1>10a
  <2>2. new.doc[d] = db.doc[d]
    BY <1>2, <1>6, <2>1 DEF EffectOf, Database
  <2>3. \A t \in Table : Whole(db.rows[t], t, d, stored[d], Others)
    BY <1>2, <1>10a DEF RowsInv
  <2>4. \A t \in Table : Whole(new.rows[t], t, d, stored[d], Others')
    BY <1>10, <2>1, <2>3
  <2> QED
    BY <1>1, <2>2, <2>4
<1>11. ASSUME NEW d \in Doc, NEW v \in Stored, Writes(d, v)
       PROVE  new.doc[d] = v \/ DocumentLeft(d)'
  <2>1. db.doc[d] = v \/ DocumentLeft(d)
    BY <1>2, <1>11 DEF RowsInv
  <2>2. CASE s.do \in {"document", "deleteDocument"}
    <3>1. new.doc = [db.doc EXCEPT ![s.doc] = s.version] /\ s.doc \in Doc
      BY <1>2, <1>7, <2>2, <1>6 DEF EffectOf
    <3>2. s.doc = d => s.version = v
      BY <1>5, <1>7, <1>11, <2>2
    <3> QED
      BY <1>2, <2>1, <3>1, <3>2, LeftShifts DEF Database
  <2>3. CASE s.do \notin {"document", "deleteDocument"}
    <3>1. new.doc = db.doc
      BY <1>2, <2>3, <1>6 DEF EffectOf
    <3> QED
      BY <2>1, <2>3, <3>1, LeftShifts
  <2> QED
    BY <2>2, <2>3
<1>12. ASSUME NEW d \in Doc, NEW v \in Stored, NEW t \in Table, Writes(d, v)
       PROVE  Whole(new.rows[t], t, d, v, Others') \/ RowsLeft(0, t, d)'
  <2>1. Whole(db.rows[t], t, d, v, Others) \/ RowsLeft(0, t, d)
    BY <1>2, <1>12 DEF RowsInv
  <2>2. CASE s.do \in {"rows", "deleteRows"} /\ s.table = t /\ s.doc = d
    <3>1. s.version = v
      BY <1>5, <1>7, <1>12, <2>2
    <3>2. new.rows[t] = {r \in db.rows[t] : r[1] # d} \cup Given(t, d, v)
      BY <1>6, <2>2, <3>1 DEF EffectOf
    <3>3. Own(t, d, v) = {r \in Given(t, d, v) : r[1] = d}
      BY DEF Own, Given
    <3> QED
      BY <3>2, <3>3 DEF Whole
  <2>3. CASE s.do = "document" /\ s.doc = d
    <3>1. RowsLeft(1, t, d)
      BY <1>2, <2>3 DEF StepFits
    <3>2. 0 \in Nat /\ 0 + 1 = 1
      OBVIOUS
    <3> QED
      BY <3>1, <3>2, LeftShifts
  <2>4. CASE s.do = "deleteDocument" /\ s.doc = d
    <3>1. s.version = Nothing /\ new.rows[t] \subseteq db.rows[t]
      BY <2>4, <1>6 DEF EffectOf, Shrinks
    <3>2. v = Nothing /\ Own(t, d, v) = {}
      BY <1>5, <1>7, <1>12, <2>4, <3>1 DEF Own
    <3>3. RowsLeft(0, t, d) => RowsLeft(0, t, d)'
      BY <2>4, LeftShifts
    <3>4. Others' = Others
      BY <1>1, <1>2 DEF Others, LentBy
    <3>5. Whole(db.rows[t], t, d, v, Others) => Whole(new.rows[t], t, d, v, Others)
      BY <3>1, <3>2 DEF Whole
    <3> QED
      BY <2>1, <3>3, <3>4, <3>5
  <2>5. CASE /\ ~(s.do \in {"rows", "deleteRows"} /\ s.table = t /\ s.doc = d)
             /\ ~(s.do \in {"document", "deleteDocument"} /\ s.doc = d)
    <3>1. Whole(db.rows[t], t, d, v, Others) => Whole(new.rows[t], t, d, v, Others')
      BY <1>10, <2>5
    <3>2. RowsLeft(0, t, d) => RowsLeft(0, t, d)'
      BY <2>5, LeftShifts
    <3> QED
      BY <2>1, <3>1, <3>2
  <2> QED
    BY <2>2, <2>3, <2>4, <2>5
<1>13. RowsInv'
  <2>1. ASSUME NEW d \in Doc
        PROVE  ~Touches(d)' => /\ new.doc[d] = committed'.doc[d]
                               /\ \A t \in Table : Whole(new.rows[t], t, d, stored'[d], Others')
    BY <1>1, <1>2, <1>4, <1>10a DEF RowsInv
  <2>2. ASSUME NEW d \in Doc, NEW v \in Stored, Writes(d, v)'
        PROVE  /\ new.doc[d] = v \/ DocumentLeft(d)'
               /\ \A t \in Table : Whole(new.rows[t], t, d, v, Others') \/ RowsLeft(0, t, d)'
    BY <1>3, <1>11, <1>12, <2>2
  <2> QED
    BY <2>1, <2>2 DEF RowsInv
<1>14. ASSUME NEW e \in committed.edges
       PROVE  e \in new.edges \/ Touches(e[1]) \/ (tx.kind = "delete" /\ e[2] = tx.docs[1][1])
  <2>1. e \in db.edges \/ Touches(e[1]) \/ (tx.kind = "delete" /\ e[2] = tx.docs[1][1])
    BY <1>2, <1>14 DEF EdgesInv
  <2>2. CASE s.do = "deleteEdges"
    <3>1. tx.kind = "delete" /\ s.doc = tx.docs[1][1]
      BY <1>2, <1>7, <2>2 DEF StepFits, StepsInv, Writes
    <3>2. new.edges = {x \in db.edges : x[1] # s.doc /\ x[2] # s.doc}
      BY <1>2, <2>2, <1>6 DEF EffectOf
    <3> QED
      BY <1>7, <2>1, <2>2, <3>1, <3>2
  <2>3. CASE s.do # "deleteEdges"
    <3>1. e \in db.edges => e \in new.edges \/ (s.do # "migrate" /\ e[1] = s.doc)
      BY <1>2, <2>3, <1>6 DEF EffectOf
    <3> QED
      BY <1>7, <2>1, <3>1
  <2> QED
    BY <2>2, <2>3
<1>15. ASSUME NEW d \in Doc, NEW v \in Version, Writes(d, v)
       PROVE  OwnEdges(d, v) \subseteq new.edges \/ EdgesLeft(0, d)'
  <2>1. OwnEdges(d, v) \subseteq db.edges \/ EdgesLeft(0, d)
    BY <1>2, <1>15 DEF EdgesInv
  <2>2. \A e \in OwnEdges(d, v) : e[1] = d /\ e \in EdgesOf[d][v]
    BY DEF OwnEdges
  <2>3. CASE s.do = "edges" /\ s.doc = d
    <3>1. s.version = v
      BY <1>5, <1>7, <1>15, <2>3
    <3> QED
      BY <1>2, <2>2, <2>3, <3>1, <1>6 DEF EffectOf
  <2>4. CASE s.do = "document" /\ s.doc = d
    <3>1. EdgesLeft(1, d)
      BY <1>2, <2>4 DEF StepFits
    <3>2. 0 \in Nat /\ 0 + 1 = 1
      OBVIOUS
    <3> QED
      BY <3>1, <3>2, LeftShifts
  <2>5. s.do \notin {"deleteEdges", "deleteDocument"} \/ s.doc # d
    <3>1. s.do \in {"deleteEdges", "deleteDocument"} => s.version = Nothing
      BY <1>6 DEF EffectOf
    <3> QED
      BY <1>5, <1>7, <1>15, <3>1, NothingAssumption DEF NothingAssumption
  <2>6. s.do # "deleteEdges"
    <3>1. s.do = "deleteEdges" => tx.kind = "delete" /\ s.version = Nothing
      BY <1>2, <1>6 DEF StepFits, EffectOf
    <3>2. tx.kind = "delete" => \A c, w : Writes(c, w) => w = Nothing
      BY <1>2 DEF StepsInv, Writes
    <3> QED
      BY <1>15, <3>1, <3>2, NothingAssumption DEF NothingAssumption
  <2>7. CASE ~(s.do \in {"edges", "document"} /\ s.doc = d)
    <3>1. \A e \in db.edges : e[1] = d => e \in new.edges
      BY <1>2, <2>5, <2>6, <2>7, <1>6 DEF EffectOf
    <3>2. EdgesLeft(0, d) => EdgesLeft(0, d)'
      BY <2>7, LeftShifts
    <3> QED
      BY <2>1, <2>2, <3>1, <3>2
  <2> QED
    BY <2>3, <2>4, <2>7
<1>16. EdgesInv'
  BY <1>1, <1>2, <1>3, <1>4, <1>14, <1>15 DEF EdgesInv
<1>17. StoreType' /\ CommittedWhole' /\ OwnEdgesKept'
  BY <1>1, <1>2 DEF StoreInv, StoreType, CommittedWhole, OwnEdgesKept
<1> QED
  BY <1>8, <1>9, <1>13, <1>16, <1>17 DEF StoreInv, TxInv

\* A commit publishes a transaction that has nothing left to do.
LEMMA CommitInv ==
  ASSUME StoreInv, Commit
  PROVE  StoreInv'
<1>1. /\ tx # Nothing /\ tx \in Transaction /\ tx.steps = <<>> /\ committed' = tx.work
      /\ tx' = Nothing /\ StepsInv /\ SchemaInv /\ RowsInv /\ EdgesInv /\ CommittedWhole
      /\ OwnEdgesKept /\ committed \in Database /\ stored \in [Doc -> Stored]
  BY DEF StoreInv, TxInv, StoreType, Commit
<1>2. /\ \A d : ~DocumentLeft(d) /\ ~EdgesLeft(0, d)
      /\ \A t, d : ~RowsLeft(0, t, d)
  BY <1>1 DEF DocumentLeft, EdgesLeft, RowsLeft
<1>3. \A i \in DOMAIN tx.docs : tx.docs[i] \in Doc \X Stored
  BY <1>1 DEF Transaction
<1>4. ASSUME NEW d \in Doc, NEW v \in Stored, Writes(d, v)
      PROVE  stored'[d] = v
  <2>1. PICK i \in DOMAIN tx.docs : tx.docs[i] = <<d, v>>
    BY <1>4 DEF Writes
  <2>2. \A j \in DOMAIN tx.docs : tx.docs[j][1] = d => j = i
    BY <1>1, <2>1 DEF StepsInv
  <2>3. i <= i
    BY <1>1, <2>1 DEF Transaction
  <2> DEFINE last == CHOOSE k \in DOMAIN tx.docs :
                       /\ tx.docs[k][1] = d
                       /\ \A j \in DOMAIN tx.docs : tx.docs[j][1] = d => j <= k
  <2>4. last = i
    BY <2>1, <2>2, <2>3
  <2>5. stored'[d] = tx.docs[last][2]
    BY <2>1 DEF Commit
  <2> HIDE DEF last
  <2> QED
    BY <2>1, <2>4, <2>5
<1>5. ASSUME NEW d \in Doc, ~Touches(d)
      PROVE  stored'[d] = stored[d]
  <2>1. \A i \in DOMAIN tx.docs : tx.docs[i][1] # d
    BY <1>3, <1>5 DEF Touches, Writes
  <2> QED
    BY <2>1 DEF Commit
<1>6. StoreType'
  <2>1. \A d \in Doc : stored'[d] \in Stored
    BY <1>1, <1>4, <1>5 DEF Touches
  <2>2. stored' = [d \in Doc |-> stored'[d]]
    BY DEF Commit
  <2>3. committed' \in Database
    BY <1>1 DEF Transaction
  <2> QED
    BY <1>1, <2>1, <2>2, <2>3 DEF StoreType
<1>7. CommittedWhole'
  <2>1. committed'.schema \in {{}, Migration}
    <3>1. Migration \subseteq tx.work.schema
      BY <1>1 DEF SchemaInv
    <3>2. tx.work.schema \subseteq Migration
      BY <1>1 DEF Transaction, Database
    <3> QED
      BY <1>1, <3>1, <3>2
  <2>2. ASSUME NEW d \in Doc
        PROVE  /\ committed'.doc[d] = stored'[d]
               /\ \A t \in Table : Whole(committed'.rows[t], t, d, stored'[d], lent')
    <3> DEFINE published(v) == \A t \in Table : Whole(tx.work.rows[t], t, d, v, lent')
    <3>0. ASSUME NEW v, \A t \in Table : Whole(tx.work.rows[t], t, d, v, Others)
          PROVE  published(v)
      <4> SUFFICES ASSUME NEW t \in Table PROVE Whole(tx.work.rows[t], t, d, v, lent')
        OBVIOUS
      <4>1. Whole(tx.work.rows[t], t, d, v, Others)
        BY <3>0
      <4>2. \A r \in tx.work.rows[t] : <<t, r>> \in Others => <<t, r>> \in lent'
        BY DEF Others, Commit
      <4> QED
        BY <4>1, <4>2 DEF Whole
    <3> HIDE DEF published
    <3>1. CASE ~Touches(d)
      <4>1. /\ tx.work.doc[d] = committed.doc[d] /\ committed.doc[d] = stored[d]
            /\ \A t \in Table : Whole(tx.work.rows[t], t, d, stored[d], Others)
        BY <1>1, <3>1 DEF RowsInv, CommittedWhole
      <4>2. published(stored[d])
        BY <3>0, <4>1
      <4> QED
        BY <1>1, <1>5, <3>1, <4>1, <4>2 DEF published
    <3>2. CASE Touches(d)
      <4>1. PICK v \in Stored : Writes(d, v)
        BY <3>2 DEF Touches
      <4>2. stored'[d] = v
        BY <1>4, <4>1
      <4>3. tx.work.doc[d] = v /\ \A t \in Table : Whole(tx.work.rows[t], t, d, v, Others)
        BY <1>1, <1>2, <4>1 DEF RowsInv
      <4>4. published(v)
        BY <3>0, <4>3
      <4> QED
        BY <1>1, <4>2, <4>3, <4>4 DEF published
    <3> QED
      BY <3>1, <3>2
  <2> QED
    BY <2>1, <2>2 DEF CommittedWhole
<1>8. OwnEdgesKept'
  <2> SUFFICES ASSUME NEW d \in Doc, stored'[d] # Nothing,
                      NEW e \in EdgesOf[d][stored'[d]], e[1] = d
               PROVE  e \in committed'.edges \/ e \in cut'
    BY DEF OwnEdgesKept
  <2>1. CASE Touches(d)
    <3>1. PICK v \in Stored : Writes(d, v)
      BY <2>1 DEF Touches
    <3>2. stored'[d] = v /\ v \in Version
      BY <1>4, <3>1 DEF Stored
    <3>3. OwnEdges(d, v) \subseteq tx.work.edges
      BY <1>1, <1>2, <3>1, <3>2 DEF EdgesInv
    <3> QED
      BY <1>1, <3>2, <3>3 DEF OwnEdges
  <2>2. CASE ~Touches(d)
    <3>1. stored'[d] = stored[d]
      BY <1>5, <2>2
    <3>2. e \in committed.edges \/ e \in cut
      BY <1>1, <3>1 DEF OwnEdgesKept
    <3>3. /\ \A x \in cut : stored'[x[1]] # Nothing /\ x \notin tx.work.edges => x \in cut'
          /\ tx.kind = "delete" => \A x \in committed.edges : x[2] = tx.docs[1][1] => x \in cut'
      BY DEF Commit
    <3>4. CASE e \in cut
      BY <1>1, <3>3, <3>4
    <3>5. CASE e \in committed.edges
      BY <1>1, <2>2, <3>3, <3>5 DEF EdgesInv
    <3> QED
      BY <3>2, <3>4, <3>5
  <2> QED
    BY <2>1, <2>2
<1> QED
  BY <1>1, <1>6, <1>7, <1>8 DEF StoreInv, TxInv

\* Where the transaction ends without a commit, what readers see is what it was.
LEMMA NoCommitInv ==
  ASSUME StoreInv, RollBack \/ Abandon \/ Restart
  PROVE  StoreInv'
  BY DEF StoreInv, StoreType, TxInv, CommittedWhole, OwnEdgesKept, RollBack, Abandon, Restart

LEMMA StoreInit ==
  ASSUME RepositoryInit
  PROVE  StoreInv
<1>1. StoreType
  BY DEF RepositoryInit, StoreType, EmptyDatabase, Database, Stored
<1>2. CommittedWhole
  BY DEF RepositoryInit, CommittedWhole, EmptyDatabase, Whole, Own
<1>3. TxInv /\ OwnEdgesKept
  BY DEF RepositoryInit, TxInv, OwnEdgesKept
<1> QED
  BY <1>1, <1>2, <1>3 DEF StoreInv

LEMMA StoreStep ==
  ASSUME StoreInv, [RepositoryNext]_rvars
  PROVE  StoreInv'
<1>1. ASSUME NEW d \in Doc, NEW v \in Version, Upsert(<<<<d, v>>>>)
      PROVE  StoreInv'
  <2>1. /\ <<<<d, v>>>> \in Seq(Doc \X Version)
        /\ \A i, j \in DOMAIN <<<<d, v>>>> : i = j
    OBVIOUS
  <2> QED
    BY <1>1, <2>1, UpsertBegins
<1>2. ASSUME NEW c \in Doc, NEW d \in Doc, NEW v \in Version, c # d, Upsert(<<<<c, v>>, <<d, v>>>>)
      PROVE  StoreInv'
  <2> DEFINE docs == <<<<c, v>>, <<d, v>>>>
  <2>1. docs \in Seq(Doc \X Version)
    OBVIOUS
  <2>2. DOMAIN docs = {1, 2} /\ docs[1][1] = c /\ docs[2][1] = d
    OBVIOUS
  <2>3. \A i, j \in DOMAIN docs : docs[i][1] = docs[j][1] => i = j
    <3> HIDE DEF docs
    <3> QED
      BY <1>2, <2>2
  <2>4. Upsert(docs)
    BY <1>2
  <2> HIDE DEF docs
  <2> QED
    BY <2>1, <2>3, <2>4, UpsertBegins
<1>3. CASE UNCHANGED rvars
  <2>1. /\ tx' = tx /\ committed' = committed /\ stored' = stored /\ cut' = cut
        /\ lent' = lent
    BY <1>3 DEF rvars
  <2>2. TxInv <=> TxInv'
    <3>1. \A d, v : Writes(d, v) <=> Writes(d, v)'
      BY <2>1 DEF Writes
    <3>2. \A k, d : EdgesLeft(k, d) <=> EdgesLeft(k, d)'
      BY <2>1 DEF EdgesLeft
    <3>3. \A k, t, d : RowsLeft(k, t, d) <=> RowsLeft(k, t, d)'
      BY <2>1 DEF RowsLeft
    <3>4. \A d : DocumentLeft(d) <=> DocumentLeft(d)'
      BY <2>1 DEF DocumentLeft
    <3>5. \A d : Touches(d) <=> Touches(d)'
      BY <3>1 DEF Touches
    <3>6. StepsInv <=> StepsInv'
      BY <2>1 DEF StepsInv, StepFits, Writes, EdgesLeft, RowsLeft
    <3>7. (SchemaInv <=> SchemaInv') /\ (RowsInv <=> RowsInv') /\ (EdgesInv <=> EdgesInv')
      BY <2>1, <3>1, <3>2, <3>3, <3>4, <3>5 DEF SchemaInv, RowsInv, EdgesInv, Others, LentBy
    <3> QED
      BY <2>1, <3>6, <3>7 DEF TxInv
  <2> QED
    BY <2>1, <2>2 DEF StoreInv, StoreType, CommittedWhole, OwnEdgesKept
<1> QED
  BY <1>1, <1>2, <1>3, MigrateBegins, DeleteBegins, ExecuteInv, CommitInv, NoCommitInv
  DEF RepositoryNext

\* The invariant of the transaction under way holds in every state.
THEOREM StoreInvariance == RepositorySpec => []StoreInv
  BY StoreInit, StoreStep, PTL DEF RepositorySpec

\* Readers only ever see whole snapshots, the last ones stored, however many statements,
\* commits and processes fail and whether or not foreign keys are enforced.
THEOREM SnapshotsAreWhole == RepositorySpec => []CommittedWhole
<1>1. StoreInv => CommittedWhole
  BY DEF StoreInv
<1> QED
  BY <1>1, StoreInvariance, PTL

\* A stored document keeps the dependencies it declares for itself until their target is
\* deleted: no other document's upsert, deletion or cascade takes them away.
THEOREM DependenciesAreKept == RepositorySpec => []OwnEdgesKept
<1>1. StoreInv => OwnEdgesKept
  BY DEF StoreInv
<1> QED
  BY <1>1, StoreInvariance, PTL
-----------------------------------------------------------------------------
(* Paging *)

\* The values of the variables, and the page sizes that follow from them.
PagingType ==
  /\ list \in {"operations", "symbols", "diagnostics", "references"}
  /\ rows \in 0..MaxRows /\ limit \in Nat /\ budget \in Nat
  /\ cursor \in Nat \cup {NoCursor}
  /\ pages \in Nat /\ received \in Seq(Nat)
  /\ pages = 0 => received = <<>> /\ cursor = NoCursor

\* The lists of which EveryRowOnce says that the pages hold all rows.
Paged ==
  \/ list = "operations"
  \/ list = "symbols" /\ Limit = Budget
  \/ list = "diagnostics" /\ DiagnosticLimit < Budget /\ rows <= 2 * DiagnosticLimit

\* The rows received are those before the cursor, and each page brought one at least.
PagedInv ==
  Paged =>
    /\ received = [i \in 1..Len(received) |-> i]
    /\ cursor # NoCursor => /\ Len(received) = cursor /\ cursor <= rows /\ pages <= cursor
                            /\ list = "operations" => cursor < rows
                            /\ list = "diagnostics" => cursor = DiagnosticLimit
    /\ Done => Len(received) = rows

\* The symbols received come from before the cursor.
MovingInv ==
  list = "symbols" =>
    /\ \A i, j \in 1..Len(received) : i < j => received[i] < received[j]
    /\ cursor # NoCursor => \A i \in 1..Len(received) : received[i] <= cursor

PagingInv == PagingType /\ PagedInv /\ MovingInv

\* Limits after defaults are positive.
LEMMA Limits ==
  ASSUME limit \in Nat, budget \in Nat
  PROVE  /\ Limit \in Nat \ {0} /\ Budget \in Nat \ {0} /\ DiagnosticLimit \in Nat \ {0}
         /\ DiagnosticLimit <= Limit /\ DiagnosticLimit <= Budget
         /\ Smaller(Limit, Budget) = DiagnosticLimit
<1>1. Limit \in Nat \ {0}
  BY PagingAssumption DEF PagingAssumption, Limit
<1>2. Budget \in Nat \ {0}
  BY <1>1 DEF Budget
<1> QED
  BY <1>1, <1>2 DEF DiagnosticLimit, Smaller

\* A window is the rows after its start, as many as fit.
LEMMA WindowFacts ==
  ASSUME NEW from \in Nat, NEW size \in Nat, rows \in Nat
  PROVE  /\ Window(from, size) \in Seq(Nat)
         /\ Len(Window(from, size)) \in Nat
         /\ Len(Window(from, size)) = IF rows <= from THEN 0
                                      ELSE IF size <= rows - from THEN size ELSE rows - from
         /\ \A i \in 1..Len(Window(from, size)) : Window(from, size)[i] = from + i
<1> DEFINE n == Smaller(size, rows - Smaller(from, rows))
<1>1. n \in Nat /\ n = IF rows <= from THEN 0 ELSE IF size <= rows - from THEN size ELSE rows - from
  BY DEF Smaller
<1>2. Window(from, size) = [i \in 1..n |-> from + i]
  BY DEF Window
<1> HIDE DEF n
<1> QED
  BY <1>1, <1>2

\* One more page, of any rows, appended to those received.
LEMMA Appended ==
  ASSUME NEW r \in Seq(Nat), NEW w \in Seq(Nat)
  PROVE  /\ r \o w \in Seq(Nat) /\ Len(r \o w) = Len(r) + Len(w)
         /\ \A i \in 1..Len(r) : (r \o w)[i] = r[i]
         /\ \A i \in 1..Len(r \o w) : i > Len(r) => i - Len(r) \in 1..Len(w) /\ (r \o w)[i] = w[i - Len(r)]
  OBVIOUS

\* Each list's page and its cursor.
LEMMA PageFacts ==
  ASSUME PagingType, NEW c \in Nat \cup {NoCursor}
  PROVE  /\ Offset(c) \in Nat
         /\ Page(c).next \in Nat \cup {NoCursor}
         /\ \E from, size \in Nat :
              /\ Page(c).items = Window(from, size)
              /\ list # "references" => from = Offset(c)
              /\ list = "operations" =>
                   /\ size = Limit
                   /\ Page(c).next = IF Offset(c) + Limit < rows THEN Offset(c) + Limit ELSE NoCursor
              /\ list = "symbols" =>
                   /\ size = DiagnosticLimit
                   /\ Page(c).next # NoCursor => Page(c).next = Offset(c) + Budget
                                                  /\ Offset(c) + Budget <= rows
                   /\ Page(c).next = NoCursor => \/ rows < Offset(c) + Budget
                                                 \/ rows < Offset(c) + Limit
                                                 \/ Budget < Limit
              /\ list = "diagnostics" =>
                   /\ size = DiagnosticLimit
                   /\ Page(c).next # NoCursor => /\ Page(c).next = DiagnosticLimit
                                                 /\ Offset(c) + DiagnosticLimit < rows
                   /\ Page(c).next = NoCursor => \/ rows <= Offset(c) + DiagnosticLimit
                                                 \/ DiagnosticLimit = Budget
              /\ list = "references" => Page(c).next = NoCursor
<1>0. /\ rows \in Nat /\ Limit \in Nat \ {0} /\ Budget \in Nat \ {0} /\ DiagnosticLimit \in Nat \ {0}
      /\ DiagnosticLimit <= Limit /\ DiagnosticLimit <= Budget /\ Smaller(Limit, Budget) = DiagnosticLimit
      /\ DiagnosticLimit \in {Limit, Budget}
  BY Limits, PagingAssumption DEF PagingType, PagingAssumption, DiagnosticLimit, Smaller
<1>1. Offset(c) \in Nat
  BY DEF Offset
<1>2. NoCursor \notin Nat
  BY PagingAssumption DEF PagingAssumption
<1> DEFINE o == Offset(c)
<1> HIDE DEF o
<1>3. o \in Nat /\ Offset(c) = o
  BY <1>1 DEF o
<1>4. CASE list = "operations"
  <2>1. Page(c) = OperationsPage(c)
    BY <1>4 DEF Page
  <2>2. /\ Page(c).items = Window(o, Limit)
        /\ Page(c).next = LET end == Smaller(Smaller(o, rows) + Limit, rows)
                          IN IF end < rows THEN end ELSE NoCursor
    BY <1>3, <2>1 DEF OperationsPage
  <2>3. Page(c).next = IF o + Limit < rows THEN o + Limit ELSE NoCursor
    BY <1>0, <1>3, <2>2 DEF Smaller
  <2> QED
    BY <1>0, <1>3, <1>4, <2>2, <2>3
<1>5. CASE list = "symbols"
  <2>1. Page(c) = SymbolsPage(c)
    BY <1>5 DEF Page
  <2> DEFINE visited == Len(Window(o, Budget))
             kept == Len(Window(o, DiagnosticLimit))
  <2>2. /\ Page(c).items = Window(o, DiagnosticLimit)
        /\ Page(c).next = IF visited = Budget /\ kept = Limit THEN o + visited ELSE NoCursor
    BY <1>0, <1>3, <2>1 DEF SymbolsPage
  <2>3. /\ visited = IF rows <= o THEN 0 ELSE IF Budget <= rows - o THEN Budget ELSE rows - o
        /\ kept = IF rows <= o THEN 0
                  ELSE IF DiagnosticLimit <= rows - o THEN DiagnosticLimit ELSE rows - o
    BY <1>0, <1>3, WindowFacts
  <2> HIDE DEF visited, kept
  <2>4. CASE visited = Budget /\ kept = Limit
    <3>1. Page(c).next = o + Budget /\ o + Budget <= rows /\ Page(c).next \in Nat
      <4>1. Page(c).next = o + Budget
        BY <2>2, <2>4
      <4>2. Budget <= rows - o
        BY <1>0, <1>3, <2>3, <2>4
      <4> QED
        BY <1>0, <1>3, <4>1, <4>2
    <3> QED
      BY <1>0, <1>2, <1>3, <1>5, <2>2, <3>1
  <2>5. CASE ~(visited = Budget /\ kept = Limit)
    <3>1. rows < o + Budget \/ rows < o + Limit \/ Budget < Limit
      BY <1>0, <1>3, <2>3, <2>5
    <3> QED
      BY <1>0, <1>3, <1>5, <2>2, <2>5, <3>1
  <2> QED
    BY <2>4, <2>5
<1>6. CASE list = "diagnostics"
  <2>1. Page(c) = DiagnosticsPage(c)
    BY <1>6 DEF Page
  <2> DEFINE visited == Len(Window(o, Budget))
             kept == Len(Window(o, DiagnosticLimit))
  <2>2. /\ Page(c).items = Window(o, DiagnosticLimit)
        /\ Page(c).next = IF visited > kept THEN kept ELSE NoCursor
    BY <1>0, <1>3, <2>1 DEF DiagnosticsPage
  <2>3. /\ visited = IF rows <= o THEN 0 ELSE IF Budget <= rows - o THEN Budget ELSE rows - o
        /\ kept = IF rows <= o THEN 0
                  ELSE IF DiagnosticLimit <= rows - o THEN DiagnosticLimit ELSE rows - o
    BY <1>0, <1>3, WindowFacts
  <2> HIDE DEF visited, kept
  <2>4. /\ Page(c).next \in Nat \cup {NoCursor}
        /\ Page(c).next # NoCursor => Page(c).next = DiagnosticLimit /\ o + DiagnosticLimit < rows
        /\ Page(c).next = NoCursor => rows <= o + DiagnosticLimit \/ DiagnosticLimit = Budget
    BY <1>0, <1>2, <1>3, <2>2, <2>3
  <2> QED
    BY <1>0, <1>3, <1>6, <2>2, <2>4
<1>7. CASE list = "references"
  <2>1. Page(c).items = Window(0, Limit) /\ Page(c).next = NoCursor
    BY <1>7 DEF Page, FirstPage
  <2> QED
    BY <1>0, <1>1, <1>7, <2>1
<1> QED
  BY <1>4, <1>5, <1>6, <1>7 DEF PagingType

LEMMA PagingStart == PagingInit => PagingInv
  BY PagingAssumption DEF PagingInit, PagingInv, PagingType, PagedInv, MovingInv, PagingAssumption, Done

\* Each page starts where the rows received end, or where the cursor says.
LEMMA PagingStep ==
  ASSUME PagingInv, NextPage
  PROVE  PagingInv'
<1> DEFINE o == Offset(cursor)
           w == Page(cursor).items
           c == Page(cursor).next
<1>1. /\ UNCHANGED <<list, rows, limit, budget>>
      /\ cursor' = c /\ received' = received \o w /\ pages' = pages + 1
      /\ PagingType /\ PagedInv /\ MovingInv /\ ~Done /\ rows \in Nat /\ received \in Seq(Nat)
      /\ pages \in Nat /\ NoCursor \notin Nat
  BY PagingAssumption DEF NextPage, PagingInv, PagingType, PagingAssumption
<1>2. UNCHANGED <<Limit, Budget, DiagnosticLimit>>
  BY <1>1 DEF Limit, Budget, DiagnosticLimit
<1>3. /\ Limit \in Nat \ {0} /\ Budget \in Nat \ {0} /\ DiagnosticLimit \in Nat \ {0}
      /\ DiagnosticLimit <= Limit /\ DiagnosticLimit <= Budget
      /\ DiagnosticLimit \in {Limit, Budget}
  BY <1>1, Limits DEF PagingType, DiagnosticLimit, Smaller
<1>4. /\ o \in Nat /\ c \in Nat \cup {NoCursor} /\ cursor \in Nat \cup {NoCursor}
      /\ cursor # NoCursor => o = cursor
      /\ cursor = NoCursor => o = 0 /\ pages = 0 /\ received = <<>>
  BY <1>1, PageFacts DEF PagingType, Offset, Done
<1>5. PICK from \in Nat, size \in Nat :
        /\ w = Window(from, size)
        /\ list # "references" => from = o
        /\ list = "operations" =>
             /\ size = Limit
             /\ c = IF o + Limit < rows THEN o + Limit ELSE NoCursor
        /\ list = "symbols" =>
             /\ size = DiagnosticLimit
             /\ c # NoCursor => c = o + Budget /\ o + Budget <= rows
             /\ c = NoCursor => rows < o + Budget \/ rows < o + Limit \/ Budget < Limit
        /\ list = "diagnostics" =>
             /\ size = DiagnosticLimit
             /\ c # NoCursor => c = DiagnosticLimit /\ o + DiagnosticLimit < rows
             /\ c = NoCursor => rows <= o + DiagnosticLimit \/ DiagnosticLimit = Budget
        /\ list = "references" => c = NoCursor
  BY <1>1, <1>4, PageFacts
<1> HIDE DEF o, w, c
<1>6. /\ w \in Seq(Nat) /\ Len(w) \in Nat
      /\ Len(w) = IF rows <= from THEN 0 ELSE IF size <= rows - from THEN size ELSE rows - from
      /\ \A i \in 1..Len(w) : w[i] = from + i
  BY <1>1, <1>5, WindowFacts
<1>7. /\ received' \in Seq(Nat) /\ Len(received') = Len(received) + Len(w)
      /\ Len(received) \in Nat
      /\ \A i \in 1..Len(received) : received'[i] = received[i]
      /\ \A i \in 1..Len(received') : i > Len(received) =>
           i - Len(received) \in 1..Len(w) /\ received'[i] = from + (i - Len(received))
  <2>1. /\ received' \in Seq(Nat) /\ Len(received') = Len(received) + Len(w)
        /\ \A i \in 1..Len(received) : received'[i] = received[i]
        /\ \A i \in 1..Len(received') : i > Len(received) =>
             i - Len(received) \in 1..Len(w) /\ received'[i] = w[i - Len(received)]
    BY <1>1, <1>6, Appended
  <2>2. Len(received) \in Nat
    BY <1>1
  <2>3. ASSUME NEW i \in 1..Len(received'), i > Len(received)
        PROVE  i - Len(received) \in 1..Len(w) /\ received'[i] = from + (i - Len(received))
    <3>1. PICK k : k = i - Len(received)
      OBVIOUS
    <3>2. k \in 1..Len(w) /\ received'[i] = w[k]
      BY <2>1, <2>3, <3>1
    <3>3. w[k] = from + k
      BY <1>6, <3>2
    <3> QED
      BY <3>1, <3>2, <3>3
  <2> QED
    BY <2>1, <2>2, <2>3
<1>8. PagingType'
  <2>1. received' \in Seq(Nat) /\ cursor' \in Nat \cup {NoCursor} /\ pages' \in Nat /\ pages' # 0
    BY <1>1, <1>4, <1>7
  <2> QED
    BY <1>1, <2>1 DEF PagingType
<1>9. PagedInv'
  <2> SUFFICES ASSUME Paged'
               PROVE  /\ received' = [i \in 1..Len(received') |-> i]
                      /\ cursor' # NoCursor =>
                           /\ Len(received') = cursor' /\ cursor' <= rows /\ pages' <= cursor'
                           /\ list = "operations" => cursor' < rows
                           /\ list = "diagnostics" => cursor' = DiagnosticLimit
                      /\ cursor' = NoCursor => Len(received') = rows
    BY <1>1, <1>2 DEF PagedInv, Done
  <2>1. Paged /\ list # "references"
    BY <1>1, <1>2 DEF Paged
  <2>2. /\ received = [i \in 1..Len(received) |-> i] /\ Len(received) = o /\ pages <= o /\ o <= rows
        /\ list = "diagnostics" => o \in {0, DiagnosticLimit}
    <3>1. received = [i \in 1..Len(received) |-> i]
      BY <1>1, <2>1 DEF PagedInv
    <3>2. CASE cursor = NoCursor
      BY <1>1, <1>4, <3>1, <3>2
    <3>3. CASE cursor # NoCursor
      BY <1>1, <1>4, <2>1, <3>1, <3>3 DEF PagedInv
    <3> QED
      BY <3>2, <3>3
  <2>3. \A i \in 1..Len(received') : received'[i] = i
    <3> SUFFICES ASSUME NEW i \in 1..Len(received') PROVE received'[i] = i
      OBVIOUS
    <3>1. CASE i <= Len(received)
      <4>1. i \in 1..Len(received)
        BY <1>7, <3>1
      <4> QED
        BY <1>7, <2>2, <4>1
    <3>2. CASE i > Len(received)
      BY <1>4, <1>5, <1>7, <2>1, <2>2, <3>2
    <3> QED
      BY <1>7, <3>1, <3>2
  <2>4. received' = [i \in 1..Len(received') |-> i]
    BY <1>7, <2>3
  <2>5. /\ cursor' # NoCursor =>
             /\ o + Len(w) = cursor' /\ cursor' <= rows /\ pages + 1 <= cursor'
             /\ list = "operations" => cursor' < rows
             /\ list = "diagnostics" => cursor' = DiagnosticLimit
        /\ cursor' = NoCursor => o + Len(w) = rows
    <3>1. CASE list = "operations"
      BY <1>1, <1>3, <1>4, <1>5, <1>6, <2>2, <3>1
    <3>2. CASE list = "symbols" /\ Limit = Budget
      BY <1>1, <1>3, <1>4, <1>5, <1>6, <2>2, <3>2
    <3>3. CASE list = "diagnostics" /\ DiagnosticLimit < Budget /\ rows <= 2 * DiagnosticLimit
      BY <1>1, <1>3, <1>4, <1>5, <1>6, <2>2, <3>3
    <3> QED
      BY <2>1, <3>1, <3>2, <3>3 DEF Paged
  <2> QED
    BY <1>1, <1>7, <2>2, <2>4, <2>5
<1>10. MovingInv'
  <2>1. ASSUME list = "symbols"
        PROVE  /\ \A i, j \in 1..Len(received') : i < j => received'[i] < received'[j]
               /\ cursor' # NoCursor => \A i \in 1..Len(received') : received'[i] <= cursor'
    <3>1. \A i \in 1..Len(received) : received[i] <= o /\ received[i] \in Nat
      BY <1>1, <1>4, <2>1 DEF MovingInv
    <3>2. \A i, j \in 1..Len(received) : i < j => received[i] < received[j]
      BY <1>1, <2>1 DEF MovingInv
    <3>3. ASSUME NEW i \in 1..Len(received'), NEW j \in 1..Len(received'), i < j
          PROVE  received'[i] < received'[j]
      <4>1. CASE j <= Len(received)
        <5>1. i \in 1..Len(received) /\ j \in 1..Len(received)
          BY <1>7, <3>3, <4>1
        <5> QED
          BY <1>7, <3>2, <3>3, <5>1
      <4>2. CASE j > Len(received) /\ i <= Len(received)
        <5>1. i \in 1..Len(received) /\ received'[i] = received[i]
          BY <1>7, <3>3, <4>2
        <5>2. received'[j] = o + (j - Len(received)) /\ j - Len(received) >= 1
          <6>1. from = o
            BY <1>5, <2>1
          <6>2. j - Len(received) \in 1..Len(w) /\ received'[j] = from + (j - Len(received))
            BY <1>7, <4>2
          <6> QED
            BY <6>1, <6>2
        <5> QED
          BY <1>4, <1>7, <3>1, <5>1, <5>2
      <4>3. CASE i > Len(received)
        <5>1. j > Len(received)
          BY <1>7, <3>3, <4>3
        <5>2. /\ received'[i] = o + (i - Len(received)) /\ i - Len(received) \in 1..Len(w)
              /\ received'[j] = o + (j - Len(received)) /\ j - Len(received) \in 1..Len(w)
          BY <1>5, <1>7, <2>1, <4>3, <5>1
        <5>3. i \in Nat /\ j \in Nat
          BY <1>7
        <5> QED
          BY <1>4, <1>7, <3>3, <5>2, <5>3
      <4> QED
        BY <1>7, <4>1, <4>2, <4>3
    <3>4. ASSUME cursor' # NoCursor, NEW i \in 1..Len(received')
          PROVE  received'[i] <= cursor'
      <4>1. cursor' = o + Budget /\ o + Budget <= rows
        BY <1>1, <1>5, <2>1, <3>4
      <4>2. CASE i <= Len(received)
        <5>1. i \in 1..Len(received)
          BY <1>7, <4>2
        <5> QED
          BY <1>3, <1>4, <1>7, <3>1, <4>1, <5>1
      <4>3. CASE i > Len(received)
        <5>1. received'[i] = o + (i - Len(received)) /\ i - Len(received) <= Len(w)
          BY <1>5, <1>6, <1>7, <2>1, <4>3
        <5>2. Len(w) <= Budget
          BY <1>1, <1>3, <1>4, <1>5, <1>6, <2>1
        <5> QED
          BY <1>3, <1>4, <1>6, <1>7, <4>1, <5>1, <5>2
      <4> QED
        BY <1>7, <4>2, <4>3
    <3> QED
      BY <3>3, <3>4
  <2> QED
    BY <1>1, <1>2, <2>1 DEF MovingInv
<1> QED
  BY <1>8, <1>9, <1>10 DEF PagingInv

LEMMA PagingStutters ==
  ASSUME PagingInv, UNCHANGED pvars
  PROVE  PagingInv'
  BY DEF PagingInv, PagingType, PagedInv, MovingInv, Paged, Done, pvars, Limit, Budget, DiagnosticLimit

THEOREM PagingInvariance == PagingSpec => []PagingInv
<1>1. PagingInv /\ [NextPage]_pvars => PagingInv'
  BY PagingStep, PagingStutters
<1> QED
  BY PagingStart, <1>1, PTL DEF PagingSpec

\* For lists, pages and budgets of any size: where the cursors are meant to lead through
\* a list, the client ends with every row, once and in order.
THEOREM PagesAreComplete == PagingSpec => []EveryRowOnce
<1>1. PagingInv => EveryRowOnce
  <2> SUFFICES ASSUME PagingInv, Paged
               PROVE  /\ received = [i \in 1..Len(received) |-> i]
                      /\ Done => Len(received) = rows
                      /\ pages > MaxRows => Done
    BY DEF EveryRowOnce, Paged
  <2>1. /\ received = [i \in 1..Len(received) |-> i]
        /\ Done => Len(received) = rows
        /\ cursor # NoCursor => cursor <= rows /\ pages <= cursor
    BY DEF PagingInv, PagedInv
  <2>2. /\ rows \in Nat /\ rows <= MaxRows /\ MaxRows \in Nat /\ pages \in Nat
        /\ cursor \in Nat \cup {NoCursor}
    BY PagingAssumption DEF PagingInv, PagingType, PagingAssumption
  <2>3. pages > MaxRows => Done
    <3>1. cursor # NoCursor => pages <= MaxRows
      <4>1. cursor # NoCursor => cursor \in Nat /\ pages <= cursor /\ cursor <= rows
        BY <2>1, <2>2
      <4> QED
        BY <2>2, <4>1
    <3>2. pages > MaxRows => pages > 0 /\ ~(pages <= MaxRows)
      BY <2>2
    <3> QED
      BY <3>1, <3>2 DEF Done
  <2> QED
    BY <2>1, <2>3
<1> QED
  BY <1>1, PagingInvariance, PTL

\* Whatever the size of the list, of the pages and of what a query may visit: a client
\* that follows the symbol cursor gets no symbol twice and each after those before it.
THEOREM PagesMove == PagingSpec => []PagesMoveForward
<1>1. PagingInv => PagesMoveForward
  BY DEF PagingInv, MovingInv, PagesMoveForward
<1> QED
  BY <1>1, PagingInvariance, PTL
-----------------------------------------------------------------------------
(* Dependents *)

\* The search stays among the paths.
SearchType ==
  /\ edges \subseteq DocumentPath \X DocumentPath
  /\ changed \subseteq DocumentPath
  /\ waiting \subseteq DocumentPath
  /\ seen \subseteq DocumentPath

\* Nothing on the way is lost and nothing else is picked up.
SearchInvariant ==
  /\ SearchType
  /\ changed \subseteq seen \cup waiting
  /\ \A e \in edges : e[2] \in seen => e[1] \in seen \cup waiting
  /\ \A S \in SUBSET DocumentPath : changed \subseteq S /\ Closed(S) => seen \cup waiting \subseteq S

\* The search starts with the changed documents on the work list.
LEMMA SearchInit == DependentsInit => SearchInvariant
  BY DEF DependentsInit, SearchInvariant, SearchType

\* One visit keeps the invariant: the dependents of what is visited are on the work list
\* or were visited before, and a closed set with the visited document has them too.
LEMMA VisitInvariant == SearchInvariant /\ [Visit]_tvars => SearchInvariant'
<1> SUFFICES ASSUME SearchInvariant, [Visit]_tvars
             PROVE  SearchInvariant'
  OBVIOUS
<1>1. CASE UNCHANGED tvars
  BY <1>1 DEF SearchInvariant, SearchType, Closed, tvars
<1>2. CASE Visit
  <2>1. PICK p \in waiting : /\ seen' = seen \cup {p}
                             /\ waiting' = (waiting \cup DependsOn(p)) \ seen'
    BY <1>2 DEF Visit
  <2>2. edges' = edges /\ changed' = changed
    BY <1>2 DEF Visit
  <2>3. \A q : q \in DependsOn(p) <=> \E e \in edges : e[2] = p /\ e[1] = q
    BY DEF DependsOn
  <2>4. SearchType'
    BY <2>1, <2>2, <2>3 DEF SearchInvariant, SearchType
  <2>5. seen' \cup waiting' = seen \cup waiting \cup DependsOn(p)
    BY <2>1
  <2>6. (changed \subseteq seen \cup waiting)'
    BY <2>2, <2>5 DEF SearchInvariant
  <2>7. (\A e \in edges : e[2] \in seen => e[1] \in seen \cup waiting)'
    BY <2>1, <2>2, <2>3, <2>5 DEF SearchInvariant
  <2>8. ASSUME NEW S \in SUBSET DocumentPath, changed \subseteq S, Closed(S)
        PROVE  seen' \cup waiting' \subseteq S
    <3>1. seen \cup waiting \subseteq S
      BY <2>8 DEF SearchInvariant
    <3>2. DependsOn(p) \subseteq S
      BY <2>1, <2>3, <2>8, <3>1 DEF Closed
    <3> QED
      BY <2>5, <3>1, <3>2
  <2>9. (\A S \in SUBSET DocumentPath : changed \subseteq S /\ Closed(S) => seen \cup waiting \subseteq S)'
    BY <2>2, <2>8 DEF Closed
  <2> QED
    BY <2>4, <2>6, <2>7, <2>9 DEF SearchInvariant
<1> QED
  BY <1>1, <1>2

\* When the work list is empty, what was visited is the least set that holds the changes
\* and is closed under dependence (TransitiveDependents).
THEOREM DependentsExact == DependentsSpec => []ExactlyDependents
<1>1. SearchInvariant => ExactlyDependents
  BY DEF SearchInvariant, ExactlyDependents, Closed
<1> QED
  BY SearchInit, VisitInvariant, <1>1, PTL DEF DependentsSpec
==============================================================================
