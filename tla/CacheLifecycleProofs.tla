------------------------ MODULE CacheLifecycleProofs ------------------------
(***************************************************************************)
(* What TLAPS proves of CacheLifecycle for every set of processes, every   *)
(* set of identities and every set of faults.                              *)
(***************************************************************************)
EXTENDS CacheLifecycle, TLAPS
-----------------------------------------------------------------------------
\* Who holds the lock has its file on the disk.
LockInv == \A p \in Process : Holds(p) => lock

\* An index on the disk is named by identity.json, unless that was truncated or written
\* over unread; the one process about to name or use the database knows it for its own.
NameInv ==
  /\ db \in Identity => unread \/ name \in {db, "torn"}
  /\ \A p \in Process :
       /\ pc[p] = "opened" => db \in {"empty"} \cup Identity
       /\ pc[p] \in {"naming", "open"} => unread \/ db \in {"empty", identity[p]}
       /\ pc[p] = "open" => name = identity[p]

Inv == TypeOK /\ OneWriter /\ LockReleased /\ LockInv /\ NameInv
-----------------------------------------------------------------------------
USE DEF TypeOK, cachevars, Holds, Goto, Returning

\* Nobody holds anything at first.
LEMMA InvInit == CacheInit => Inv
  BY DEF CacheInit, Inv, OneWriter, LockReleased, LockInv, NameInv, HoldPoints

\* The types are kept by every step.
LEMMA TypeInductive == TypeOK /\ [CacheNext]_cachevars => TypeOK'
<1> USE DEF HoldPoints
<1> SUFFICES ASSUME TypeOK, [CacheNext]_cachevars PROVE TypeOK'
  OBVIOUS
<1>1. CASE Rot
  BY <1>1 DEF Rot
<1>2. ASSUME NEW p \in Process, CallOpen(p) \/ Save(p) \/ Close(p) \/ Crash(p)
      PROVE TypeOK'
  BY <1>2 DEF CallOpen, Save, Close, Crash
<1>3. ASSUME NEW p \in Process, CacheStep(p)
      PROVE TypeOK'
  <2>1. CASE TakeLock(p)
    BY <2>1 DEF TakeLock
  <2>2. CASE Locked(p) \/ LockFails(p)
    BY <2>2 DEF Locked, LockFails
  <2>3. CASE WriteFails(p)
    BY <2>3 DEF WriteFails
  <2>4. CASE OpenDatabase(p)
    BY <2>4 DEF OpenDatabase
  <2>5. CASE OpenDatabaseFails(p)
    BY <2>5 DEF OpenDatabaseFails
  <2>6. CASE IdentityDiffers(p)
    BY <2>6 DEF IdentityDiffers
  <2>7. CASE TruncateName(p)
    BY <2>7 DEF TruncateName
  <2>8. CASE WriteName(p)
    BY <2>8 DEF WriteName
  <2>9. CASE MoveDatabase(p)
    BY <2>9 DEF MoveDatabase
  <2>10. CASE Unlock(p)
    BY <2>10 DEF Unlock, RemoveLockFile
  <2>11. CASE RemoveLock(p)
    BY <2>11 DEF RemoveLock, RemoveLockFile
  <2> QED
    BY <1>3, <2>1, <2>2, <2>3, <2>4, <2>5, <2>6, <2>7, <2>8, <2>9, <2>10, <2>11 DEF CacheStep
<1>4. CASE UNCHANGED cachevars
  BY <1>4
<1> QED
  BY <1>1, <1>2, <1>3, <1>4 DEF CacheNext

\* A process that goes on holding the lock, the others staying where they are.
LEMMA StillHeld ==
  ASSUME OneWriter, LockReleased, LockInv, TypeOK, TypeOK',
         NEW p \in Process, Holds(p), Holds(p)', lock' = lock,
         \A q \in Process : q # p => pc'[q] = pc[q]
  PROVE  OneWriter' /\ LockReleased' /\ LockInv'
<1> USE DEF OneWriter, LockReleased, LockInv
<1>1. \A q \in Process : Holds(q)' => Holds(q)
  OBVIOUS
<1> QED
  BY <1>1

\* A process that holds no lock after its step; the others stay where they are.
LEMMA NotHeld ==
  ASSUME OneWriter, LockReleased, LockInv, TypeOK, TypeOK', NEW p \in Process, ~Holds(p)',
         \/ ~Holds(p) /\ lock' = lock /\ orphaned' = orphaned
         \/ Holds(p) /\ lock' = FALSE /\ orphaned' = orphaned
         \/ lock' = lock /\ orphaned',
         \A q \in Process : q # p => pc'[q] = pc[q]
  PROVE  OneWriter' /\ LockReleased' /\ LockInv'
<1> USE DEF OneWriter, LockReleased, LockInv
<1>1. \A q \in Process : Holds(q)' => q # p /\ Holds(q)
  OBVIOUS
<1>2. \A q \in Process : q # p /\ Holds(q) => Holds(q)'
  OBVIOUS
<1> QED
  BY <1>1, <1>2

\* The lock file stands for its holder, through quarantine and reopening too.
LEMMA LockInductive ==
  Inv /\ TypeOK' /\ [CacheNext]_cachevars => OneWriter' /\ LockReleased' /\ LockInv'
<1> SUFFICES ASSUME Inv, TypeOK', [CacheNext]_cachevars
             PROVE  OneWriter' /\ LockReleased' /\ LockInv'
  OBVIOUS
<1>0. TypeOK /\ OneWriter /\ LockReleased /\ LockInv
  BY DEF Inv
<1>1. CASE Rot
  BY <1>0, <1>1 DEF Rot, OneWriter, LockReleased, LockInv
<1>2. ASSUME NEW p \in Process, CacheStep(p) \/ CallOpen(p) \/ Save(p) \/ Close(p) \/ Crash(p)
      PROVE OneWriter' /\ LockReleased' /\ LockInv'
  <2>0. CallOpen(p) \/ CacheStep(p) \/ Close(p) \/ Crash(p)
          => \A q \in Process : q # p => pc'[q] = pc[q]
    BY <1>0 DEF CacheStep, CallOpen, Close, Crash, TakeLock, Locked, LockFails, WriteFails, OpenDatabase,
       OpenDatabaseFails, IdentityDiffers, TruncateName, WriteName, MoveDatabase,
       Unlock, RemoveLock
  <2>1. CASE WriteFails(p) \/ OpenDatabase(p) \/ OpenDatabaseFails(p)
    <3>1. Holds(p) /\ Holds(p)' /\ lock' = lock
      BY <1>0, <2>1 DEF WriteFails, OpenDatabase, OpenDatabaseFails, HoldPoints
    <3> QED
      BY <1>0, <2>0, <2>1, <3>1, StillHeld DEF CacheStep
  <2>2. CASE IdentityDiffers(p) \/ TruncateName(p) \/ WriteName(p)
    <3>1. Holds(p) /\ Holds(p)' /\ lock' = lock
      BY <1>0, <2>2 DEF IdentityDiffers, TruncateName, WriteName, HoldPoints
    <3> QED
      BY <1>0, <2>0, <2>2, <3>1, StillHeld DEF CacheStep
  <2>3. CASE MoveDatabase(p) \/ Close(p)
    <3>1. Holds(p) /\ Holds(p)' /\ lock' = lock
      BY <1>0, <2>3 DEF MoveDatabase, Close, HoldPoints
    <3> QED
      BY <1>0, <2>0, <2>3, <3>1, StillHeld DEF CacheStep
  <2>4. CASE Unlock(p) \/ RemoveLock(p)
    <3>1. /\ ~Holds(p)'
          /\ \/ Holds(p) /\ lock' = FALSE /\ orphaned' = orphaned
             \/ lock' = lock /\ orphaned'
      BY <1>0, <2>4 DEF Unlock, RemoveLock, RemoveLockFile, HoldPoints
    <3> QED
      BY <1>0, <2>0, <2>4, <3>1, NotHeld DEF CacheStep
  <2>5. CASE CallOpen(p) \/ Locked(p) \/ LockFails(p)
    <3>1. ~Holds(p) /\ ~Holds(p)' /\ lock' = lock /\ orphaned' = orphaned
      BY <1>0, <2>5 DEF CallOpen, Locked, LockFails, HoldPoints
    <3> QED
      BY <1>0, <2>0, <2>5, <3>1, NotHeld DEF CacheStep
  <2>6. CASE Crash(p)
    <3>1. ~Holds(p)' /\ lock' = lock /\ orphaned'
      BY <1>0, <2>6 DEF Crash, HoldPoints
    <3> QED
      BY <1>0, <2>0, <2>6, <3>1, NotHeld
  <2>7. CASE TakeLock(p)
    <3>1. Holds(p)' /\ ~lock /\ lock' = TRUE
      BY <1>0, <2>7 DEF TakeLock, HoldPoints
    <3>2. \A q \in Process : Holds(q)' => q = p
      BY <1>0, <2>0, <2>7, <3>1 DEF LockInv, CacheStep
    <3> QED
      BY <3>1, <3>2 DEF OneWriter, LockReleased, LockInv
  <2>8. CASE Save(p)
    BY <1>0, <2>8 DEF Save, OneWriter, LockReleased, LockInv
  <2> QED
    BY <1>2, <2>1, <2>2, <2>3, <2>4, <2>5, <2>6, <2>7, <2>8 DEF CacheStep
<1>3. CASE UNCHANGED cachevars
  BY <1>0, <1>3 DEF OneWriter, LockReleased, LockInv
<1> QED
  BY <1>1, <1>2, <1>3 DEF CacheNext

\* No database is taken for another identity's.
LEMMA NameInductive == Inv /\ TypeOK' /\ [CacheNext]_cachevars => NameInv'
<1> SUFFICES ASSUME Inv, TypeOK', [CacheNext]_cachevars PROVE NameInv'
  OBVIOUS
<1> USE IdentityAssumption DEF Inv, OneWriter, LockInv, NameInv, HoldPoints
<1>1. CASE Rot
  BY <1>1 DEF Rot
<1>2. ASSUME NEW p \in Process, CallOpen(p) \/ Save(p) \/ Close(p) \/ Crash(p)
      PROVE NameInv'
  <2>1. CASE CallOpen(p)
    <3>1. pc'[p] = "again" /\ db' = db /\ name' = name /\ unread' = unread
      BY <2>1 DEF CallOpen
    <3>2. PICK i \in Identity : identity' = [identity EXCEPT ![p] = i]
      BY <2>1 DEF CallOpen
    <3>3. pc' = [pc EXCEPT ![p] = "again"]
      BY <2>1 DEF CallOpen, Goto
    <3>4. \A q \in Process : q # p => pc'[q] = pc[q] /\ identity'[q] = identity[q]
      BY <3>2, <3>3
    <3> QED
      BY <3>1, <3>4
  <2>2. CASE Save(p)
    BY <2>2 DEF Save
  <2>3. CASE Close(p)
    BY <2>3 DEF Close
  <2>4. CASE Crash(p)
    BY <2>4 DEF Crash
  <2> QED
    BY <1>2, <2>1, <2>2, <2>3, <2>4
<1>3. ASSUME NEW p \in Process, CacheStep(p)
      PROVE NameInv'
  <2>1. CASE TakeLock(p)
    BY <2>1 DEF TakeLock
  <2>2. CASE Locked(p) \/ LockFails(p)
    BY <2>2 DEF Locked, LockFails
  <2>3. CASE WriteFails(p)
    BY <2>3 DEF WriteFails
  <2>4. CASE OpenDatabase(p)
    BY <2>4 DEF OpenDatabase
  <2>5. CASE OpenDatabaseFails(p)
    BY <2>5 DEF OpenDatabaseFails
  <2>6. CASE IdentityDiffers(p)
    BY <2>6 DEF IdentityDiffers
  <2>7. CASE TruncateName(p)
    <3>1. unread' \/ db \in {"empty", identity[p]}
      <4> SUFFICES ASSUME ~unread' PROVE db \in {"empty", identity[p]}
        OBVIOUS
      <4>1. db \in {"empty"} \cup Identity /\ name \in {"none", identity[p]} /\ ~unread
        BY <2>7 DEF TruncateName
      <4>2. "torn" \notin Identity /\ "none" \notin Identity /\ identity[p] \in Identity
        BY IdentityAssumption
      <4>3. db \in Identity => name \in {db, "torn"}
        BY <4>1 DEF NameInv
      <4> QED
        BY <4>1, <4>2, <4>3
    <3>2. \A q \in Process : q # p => pc[q] \notin {"opened", "naming", "open"}
      BY <2>7 DEF TruncateName
    <3>3. \A q \in Process : q # p => pc'[q] = pc[q]
      BY <2>7 DEF TruncateName
    <3>4. pc'[p] = "naming"
      BY <2>7 DEF TruncateName
    <3> QED
      BY <2>7, <3>1, <3>2, <3>3, <3>4 DEF TruncateName
  <2>8. CASE WriteName(p)
    BY <2>8 DEF WriteName
  <2>9. CASE MoveDatabase(p)
    <3>1. /\ pc[p] \in HoldPoints /\ pc'[p] \in {"unlocking", "unlocking again"}
          /\ db' = "none" \/ (db' = db /\ name' = name /\ unread' = unread)
      BY <2>9 DEF MoveDatabase
    <3>2. \A q \in Process : q # p => pc'[q] = pc[q] /\ pc[q] \notin {"opened", "naming", "open"}
      BY <2>9, <3>1 DEF MoveDatabase
    <3>3. \A q \in Process : pc'[q] \notin {"opened", "naming", "open"}
      BY <3>1, <3>2
    <3>4. db' \in Identity => unread' \/ name' \in {db', "torn"}
      <4>1. CASE db' = "none"
        BY <4>1
      <4>2. CASE db' = db /\ name' = name /\ unread' = unread
        BY <4>2
      <4> QED
        BY <3>1, <4>1, <4>2
    <3> QED
      BY <3>3, <3>4 DEF NameInv
  <2>10. CASE Unlock(p)
    <3>1. \A q \in Process : q # p => pc'[q] = pc[q]
      BY <2>10 DEF Unlock
    <3>2. pc'[p] \in {"idle", "again"}
      BY <2>10 DEF Unlock
    <3> QED
      BY <2>10, <3>1, <3>2 DEF Unlock
  <2>11. CASE RemoveLock(p)
    BY <2>11 DEF RemoveLock
  <2> QED
    BY <1>3, <2>1, <2>2, <2>3, <2>4, <2>5, <2>6, <2>7, <2>8, <2>9, <2>10, <2>11 DEF CacheStep
<1>4. CASE UNCHANGED cachevars
  BY <1>4
<1> QED
  BY <1>1, <1>2, <1>3, <1>4 DEF CacheNext
-----------------------------------------------------------------------------
\* The invariant holds in every state.
THEOREM Invariance == CacheSpec => []Inv
<1>1. Inv /\ [CacheNext]_cachevars => Inv'
  BY TypeInductive, LockInductive, NameInductive DEF Inv
<1> QED
  BY <1>1, InvInit, PTL DEF CacheSpec

\* Types are kept by every step of every process, dying ones included.
THEOREM TypeCorrect == CacheSpec => []TypeOK
  BY Invariance, PTL DEF Inv

\* One writer at a time, whoever dies, fails or quarantines.
THEOREM OneWriterHolds == CacheSpec => []OneWriter
  BY Invariance, PTL DEF Inv

\* Only a process that died, or could not remove it, leaves the lock file behind.
THEOREM LockIsReleased == CacheSpec => []LockReleased
  BY Invariance, PTL DEF Inv

\* An opened cache is empty or one's own, unless an identity.json that could not be read
\* was written over since the index was made.
THEOREM IndexIsOwn == CacheSpec => []OwnIndex
<1>1. Inv => OwnIndex
  BY DEF Inv, NameInv, OwnIndex
<1> QED
  BY <1>1, Invariance, PTL
=============================================================================
