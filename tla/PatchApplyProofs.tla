-------------------------- MODULE PatchApplyProofs --------------------------
(***************************************************************************)
(* What TLAPS proves of PatchApply for every number of files, every bound  *)
(* on the versions and every set of faults.                                *)
(***************************************************************************)
EXTENDS PatchApply, TLAPS
-----------------------------------------------------------------------------
\* The strengthening: what holds at each point of the code between two calls.

\* The loop's set of files is empty outside a loop, within the plan in one, and
\* the loop over the plan takes the files in order.
HeldInv ==
  /\ pc \in RestPoints \cup {"open", "opening"} => held = {}
  /\ pc \in ApplyPoints => held \subseteq scope
  /\ pc \in ForwardPoints => \A f \in held, g \in scope \ held : f < g

\* A command that runs has not returned yet.
QuietInv == pc # "idle" => outcome = "none"

\* A plan edits files that existed when it was made.
ScopeInv == \A f \in scope : hash[f] # Absent

\* Outside the plan, and everywhere before the first rename, nothing changed.
OthersInv ==
  /\ pc = "planned" => \A f \in File \ touched : disk[f] = hash[f]
  /\ pc \in ApplyPoints =>
       \A f \in File \ touched : f \notin scope => disk[f] = hash[f]

\* Each backup taken holds the original, each file before the loop's turn is as
\* planned, and each one after it has its new bytes.
BackupsInv ==
  \A f \in held :
    /\ backup[f] # Absent
    /\ f \notin touched => backup[f] = hash[f]

ForwardInv ==
  pc \in ForwardPoints =>
    /\ BackupsInv
    /\ \A f \in scope \ held : f \notin touched => disk[f] = hash[f]
    /\ \A f \in held :
         \/ pc \in MovedPoints /\ IsLast(f, held)
         \/ disk[f] # Absent /\ (f \notin touched => disk[f] = new)

\* The file whose stale backup is about to be removed exists.
StagedInv ==
  pc = "staged" =>
    \A f \in scope \ held : IsFirst(f, scope \ held) => disk[f] # Absent

CleanupInv ==
  pc = "cleanup" =>
    \A f \in scope : disk[f] # Absent /\ (f \notin touched => disk[f] = new)

UndoInv ==
  pc \in UndoPoints =>
    /\ BackupsInv
    /\ \A f \in scope \ held :
         f \notin touched =>
           disk[f] = hash[f] \/ ("undo" \in Faults /\ backup[f] = hash[f])

\* At the recoverable points the journal lists exactly the backups taken.
JournalInv == pc \in RecoverablePoints => journal = JournalOf(held)

RecoverInv ==
  /\ pc \in RecoverPoints => journal.state = "ok" /\ held \subseteq journal.backups
  /\ pc = "recovering" => \A f \in held : IsFirst(f, held) => backup[f] # Absent
  /\ outcome = "recovered" => journal = NoJournal
  /\ passed # {} => "undo" \in Faults

\* After a crash at a recoverable point every planned file is as before the
\* apply, or the journal names a backup that is; the loop of Recover has it still
\* before it or passed it over.
CrashInv ==
  crashedAt \in RecoverablePoints =>
    /\ pc \in {"idle"} \cup RecoverPoints
    /\ \A f \in scope \ touched :
         /\ f \in journal.backups /\ backup[f] # Absent => backup[f] = hash[f]
         /\ \/ disk[f] = hash[f]
            \/ /\ backup[f] = hash[f]
               /\ journal.state = "ok" /\ f \in journal.backups
               /\ pc \in RecoverPoints => f \in held \/ f \in passed
            \/ outcome = "recovered" /\ f \in passed /\ backup[f] = hash[f]

Inv ==
  /\ TypeOK /\ NoFileLost /\ HeldInv /\ QuietInv /\ ScopeInv /\ OthersInv
  /\ ForwardInv /\ StagedInv /\ CleanupInv /\ UndoInv
  /\ JournalInv /\ RecoverInv /\ CrashInv
  /\ FailedRestores /\ AppliedCompletely
-----------------------------------------------------------------------------
\* The sets of program points and the value sets are known to every proof below.
USE DEF File, Content, TypeOK, vars, shared, command, history,
  Points, ApplyPoints, ForwardPoints, UndoPoints, RecoverPoints, RestPoints,
  StagedPoints, MovedPoints, RecoverablePoints, Outcomes

\* Every action of ApplyAtomic, Recover, a crash and an edit keeps the types.
LEMMA TypeInductive == TypeOK /\ [Next]_vars => TypeOK'
<1> SUFFICES ASSUME TypeOK, [Next]_vars PROVE TypeOK'
  OBVIOUS
<1>1. CASE MakePlan
  BY <1>1 DEF MakePlan
<1>2. CASE Prepare
  BY <1>2 DEF Prepare
<1>3. CASE Refuse
  BY <1>3 DEF Refuse
<1>4. CASE JournalTruncate
  BY <1>4 DEF JournalTruncate, TornJournal
<1>5. CASE JournalWrite
  BY <1>5 DEF JournalWrite, JournalOf
<1>6. CASE OpenFails
  BY <1>6 DEF OpenFails
<1>7. CASE RelistFails
  BY <1>7 DEF RelistFails
<1>8. CASE Stage
  BY <1>8 DEF Stage
<1>9. CASE StageFails
  BY <1>9 DEF StageFails
<1>10. CASE ClearBackup
  BY <1>10 DEF ClearBackup
<1>11. CASE Backup
  BY <1>11 DEF Backup
<1>12. CASE BackupFails
  BY <1>12 DEF BackupFails
<1>13. CASE Replace
  BY <1>13 DEF Replace
<1>14. CASE ReplaceFails
  BY <1>14 DEF ReplaceFails
<1>15. CASE Cleanup
  BY <1>15 DEF Cleanup
<1>16. CASE Finish
  BY <1>16 DEF Finish, NoJournal
<1>17. CASE UndoRemove
  BY <1>17 DEF UndoRemove
<1>18. CASE UndoRename
  BY <1>18 DEF UndoRename
<1>19. CASE UndoDone
  BY <1>19 DEF UndoDone
<1>20. CASE RecoverRead
  BY <1>20 DEF RecoverRead
<1>21. CASE RecoverUnreadable
  BY <1>21 DEF RecoverUnreadable
<1>22. CASE RecoverSkip
  <2>1. \E f \in held : held' = held \ {f} /\ (passed' = passed \/ passed' = passed \cup {f})
    BY <1>22 DEF RecoverSkip
  <2>2. held' \in SUBSET File /\ passed' \in SUBSET File
    BY <2>1
  <2>3. UNCHANGED <<shared, pc, scope, hash, new, outcome, crashedAt, touched>>
    BY <1>22 DEF RecoverSkip
  <2> QED
    BY <2>2, <2>3
<1>23. CASE RecoverRemove
  BY <1>23 DEF RecoverRemove
<1>24. CASE RecoverRename
  BY <1>24 DEF RecoverRename
<1>25. CASE RecoverDone
  BY <1>25 DEF RecoverDone, NoJournal
<1>26. CASE RecoverFails
  BY <1>26 DEF RecoverFails
<1>27. CASE Crash
  BY <1>27 DEF Crash
<1>28. CASE Edit
  BY <1>28 DEF Edit
<1>29. CASE UNCHANGED vars
  BY <1>29
<1> QED
  BY <1>1, <1>2, <1>3, <1>4, <1>5, <1>6, <1>7, <1>8, <1>9, <1>10, <1>11,
     <1>12, <1>13, <1>14, <1>15, <1>16, <1>17, <1>18, <1>19, <1>20, <1>21,
     <1>22, <1>23, <1>24, <1>25, <1>26, <1>27, <1>28, <1>29 DEF Next, ApplyStep,
     RecoverStep

\* A new plan starts afresh: its hashes are the files as they are.
LEMMA MakePlanKeeps == Inv /\ TypeOK' /\ MakePlan => Inv'
<1> SUFFICES ASSUME Inv, TypeOK', MakePlan
             PROVE  Inv'
  OBVIOUS
<1> QED
  BY DEF Inv, MakePlan, NoFileLost, HeldInv, QuietInv, ScopeInv, OthersInv,
         ForwardInv, StagedInv, CleanupInv, UndoInv, JournalInv, RecoverInv,
         CrashInv, FailedRestores, AppliedCompletely, BackupsInv

\* prepare passes only when every planned file is as hashed.
LEMMA PrepareKeeps == Inv /\ TypeOK' /\ Prepare => Inv'
<1> SUFFICES ASSUME Inv, TypeOK', Prepare
             PROVE  Inv'
  OBVIOUS
<1>1. ForwardInv'
  BY DEF Inv, Prepare, ForwardInv, Fresh, HeldInv, BackupsInv
<1>2. NoFileLost' /\ HeldInv' /\ QuietInv' /\ ScopeInv' /\ OthersInv' /\
     StagedInv' /\ CleanupInv' /\ UndoInv' /\ JournalInv' /\ RecoverInv' /\
     CrashInv' /\ FailedRestores' /\ AppliedCompletely'
  BY DEF Inv, Prepare, NoFileLost, HeldInv, QuietInv, ScopeInv, OthersInv,
         StagedInv, CleanupInv, UndoInv, JournalInv, RecoverInv, CrashInv,
         FailedRestores, AppliedCompletely, BackupsInv
<1>3. QED
  BY <1>1, <1>2 DEF Inv

\* A refused plan changed no file.
LEMMA RefuseKeeps == Inv /\ TypeOK' /\ Refuse => Inv'
<1> SUFFICES ASSUME Inv, TypeOK', Refuse
             PROVE  Inv'
  OBVIOUS
<1> QED
  BY DEF Inv, Refuse, NoFileLost, HeldInv, QuietInv, ScopeInv, OthersInv,
         ForwardInv, StagedInv, CleanupInv, UndoInv, JournalInv, RecoverInv,
         CrashInv, FailedRestores, AppliedCompletely, BackupsInv

\* A torn journal only exists at points that promise no recovery.
LEMMA JournalTruncateKeeps == Inv /\ TypeOK' /\ JournalTruncate => Inv'
<1> SUFFICES ASSUME Inv, TypeOK', JournalTruncate
             PROVE  Inv'
  OBVIOUS
<1>1. RecoverInv'
  BY DEF Inv, JournalTruncate, RecoverInv, QuietInv
<1>2. NoFileLost' /\ HeldInv' /\ QuietInv' /\ ScopeInv' /\ OthersInv' /\
     ForwardInv' /\ StagedInv' /\ CleanupInv' /\ UndoInv' /\ JournalInv' /\
     CrashInv' /\ FailedRestores' /\ AppliedCompletely'
  BY DEF Inv, JournalTruncate, NoFileLost, HeldInv, QuietInv, ScopeInv,
         OthersInv, ForwardInv, StagedInv, CleanupInv, UndoInv, JournalInv,
         CrashInv, FailedRestores, AppliedCompletely, BackupsInv
<1>3. QED
  BY <1>1, <1>2 DEF Inv

\* The journal written lists exactly the backups taken.
LEMMA JournalWriteKeeps == Inv /\ TypeOK' /\ JournalWrite => Inv'
<1> SUFFICES ASSUME Inv, TypeOK', JournalWrite
             PROVE  Inv'
  OBVIOUS
<1>1. RecoverInv'
  BY DEF Inv, JournalWrite, RecoverInv, QuietInv
<1>2. NoFileLost' /\ HeldInv' /\ QuietInv' /\ ScopeInv' /\ OthersInv' /\
     ForwardInv' /\ StagedInv' /\ CleanupInv' /\ UndoInv' /\ JournalInv' /\
     CrashInv' /\ FailedRestores' /\ AppliedCompletely'
  BY DEF Inv, JournalWrite, NoFileLost, HeldInv, QuietInv, ScopeInv,
         OthersInv, ForwardInv, StagedInv, CleanupInv, UndoInv, JournalInv,
         CrashInv, FailedRestores, AppliedCompletely, BackupsInv
<1>3. QED
  BY <1>1, <1>2 DEF Inv

\* Failing before the first rename returns with every file untouched.
LEMMA OpenFailsKeeps == Inv /\ TypeOK' /\ OpenFails => Inv'
<1> SUFFICES ASSUME Inv, TypeOK', OpenFails
             PROVE  Inv'
  OBVIOUS
<1>1. FailedRestores'
  BY DEF Inv, OpenFails, FailedRestores, ForwardInv, HeldInv
<1>2. NoFileLost' /\ HeldInv' /\ QuietInv' /\ ScopeInv' /\ OthersInv' /\
     ForwardInv' /\ StagedInv' /\ CleanupInv' /\ UndoInv' /\ JournalInv' /\
     RecoverInv' /\ CrashInv' /\ AppliedCompletely'
  BY DEF Inv, OpenFails, NoFileLost, HeldInv, QuietInv, ScopeInv, OthersInv,
         ForwardInv, StagedInv, CleanupInv, UndoInv, JournalInv, RecoverInv,
         CrashInv, AppliedCompletely, BackupsInv
<1>3. QED
  BY <1>1, <1>2 DEF Inv

\* rollback starts with every backup still holding its original.
LEMMA RelistFailsKeeps == Inv /\ TypeOK' /\ RelistFails => Inv'
<1> SUFFICES ASSUME Inv, TypeOK', RelistFails
             PROVE  Inv'
  OBVIOUS
<1>1. UndoInv'
  BY DEF Inv, RelistFails, UndoInv, ForwardInv, HeldInv, BackupsInv
<1>2. NoFileLost' /\ HeldInv' /\ QuietInv' /\ ScopeInv' /\ OthersInv' /\
     ForwardInv' /\ StagedInv' /\ CleanupInv' /\ JournalInv' /\ RecoverInv' /\
     CrashInv' /\ FailedRestores' /\ AppliedCompletely'
  BY DEF Inv, RelistFails, NoFileLost, HeldInv, QuietInv, ScopeInv, OthersInv,
         ForwardInv, StagedInv, CleanupInv, JournalInv, RecoverInv, CrashInv,
         FailedRestores, AppliedCompletely, BackupsInv
<1>3. QED
  BY <1>1, <1>2 DEF Inv

\* The temporary file changes no file of the plan.
LEMMA StageKeeps == Inv /\ TypeOK' /\ Stage => Inv'
<1> SUFFICES ASSUME Inv, TypeOK', Stage
             PROVE  Inv'
  OBVIOUS
<1>1. StagedInv'
  <2>1. PICK f \in scope \ held : IsFirst(f, scope \ held) /\ disk[f] # Absent
    BY DEF Stage
  <2>2. \A g \in scope \ held : IsFirst(g, scope \ held) => g = f
    BY <2>1, NAssumption DEF Inv, IsFirst
  <2> QED
    BY <2>1, <2>2 DEF Inv, Stage, StagedInv
<1>2. NoFileLost' /\ HeldInv' /\ QuietInv' /\ ScopeInv' /\ OthersInv' /\
     ForwardInv' /\ CleanupInv' /\ UndoInv' /\ JournalInv' /\ RecoverInv' /\
     CrashInv' /\ FailedRestores' /\ AppliedCompletely'
  BY DEF Inv, Stage, NoFileLost, HeldInv, QuietInv, ScopeInv, OthersInv,
         ForwardInv, CleanupInv, UndoInv, JournalInv, RecoverInv, CrashInv,
         FailedRestores, AppliedCompletely, BackupsInv
<1>3. QED
  BY <1>1, <1>2 DEF Inv

\* rollback starts with the files after this one untouched.
LEMMA StageFailsKeeps == Inv /\ TypeOK' /\ StageFails => Inv'
<1> SUFFICES ASSUME Inv, TypeOK', StageFails
             PROVE  Inv'
  OBVIOUS
<1>1. UndoInv'
  BY DEF Inv, StageFails, UndoInv, ForwardInv, HeldInv, BackupsInv
<1>2. NoFileLost' /\ HeldInv' /\ QuietInv' /\ ScopeInv' /\ OthersInv' /\
     ForwardInv' /\ StagedInv' /\ CleanupInv' /\ JournalInv' /\ RecoverInv' /\
     CrashInv' /\ FailedRestores' /\ AppliedCompletely'
  BY DEF Inv, StageFails, NoFileLost, HeldInv, QuietInv, ScopeInv, OthersInv,
         ForwardInv, StagedInv, CleanupInv, JournalInv, RecoverInv, CrashInv,
         FailedRestores, AppliedCompletely, BackupsInv
<1>3. QED
  BY <1>1, <1>2 DEF Inv

\* The backup removed is an old one: its file still exists.
LEMMA ClearBackupKeeps == Inv /\ TypeOK' /\ ClearBackup => Inv'
<1> SUFFICES ASSUME Inv, TypeOK', ClearBackup
             PROVE  Inv'
  OBVIOUS
<1>1. NoFileLost'
  BY DEF Inv, ClearBackup, NoFileLost, StagedInv
<1>2. FailedRestores' /\ AppliedCompletely'
  BY DEF Inv, ClearBackup, FailedRestores, AppliedCompletely, QuietInv
<1>3. HeldInv' /\ QuietInv' /\ ScopeInv' /\ OthersInv' /\ ForwardInv' /\
     StagedInv' /\ CleanupInv' /\ UndoInv' /\ JournalInv' /\ RecoverInv' /\
     CrashInv'
  BY DEF Inv, ClearBackup, HeldInv, QuietInv, ScopeInv, OthersInv, ForwardInv,
         StagedInv, CleanupInv, UndoInv, JournalInv, RecoverInv, CrashInv,
         BackupsInv
<1>4. QED
  BY <1>1, <1>2, <1>3 DEF Inv

\* The original moves to its backup; its path is empty until replaced.
LEMMA BackupKeeps == Inv /\ TypeOK' /\ Backup => Inv'
<1> SUFFICES ASSUME Inv, TypeOK', Backup
             PROVE  Inv'
  OBVIOUS
<1>1. HeldInv'
  BY NAssumption DEF Inv, Backup, HeldInv, IsFirst
<1>2. ForwardInv'
  BY NAssumption DEF Inv, Backup, ForwardInv, HeldInv, BackupsInv, IsFirst,
                     IsLast
<1>3. FailedRestores' /\ AppliedCompletely'
  BY DEF Inv, Backup, FailedRestores, AppliedCompletely, QuietInv
<1>4. NoFileLost' /\ QuietInv' /\ ScopeInv' /\ OthersInv' /\ StagedInv' /\
     CleanupInv' /\ UndoInv' /\ JournalInv' /\ RecoverInv' /\ CrashInv'
  BY DEF Inv, Backup, NoFileLost, QuietInv, ScopeInv, OthersInv, StagedInv,
         CleanupInv, UndoInv, JournalInv, RecoverInv, CrashInv, BackupsInv
<1>5. QED
  BY <1>1, <1>2, <1>3, <1>4 DEF Inv

\* A file that cannot be renamed stays as planned.
LEMMA BackupFailsKeeps == Inv /\ TypeOK' /\ BackupFails => Inv'
<1> SUFFICES ASSUME Inv, TypeOK', BackupFails
             PROVE  Inv'
  OBVIOUS
<1>1. UndoInv'
  BY DEF Inv, BackupFails, UndoInv, ForwardInv, HeldInv, BackupsInv
<1>2. NoFileLost' /\ HeldInv' /\ QuietInv' /\ ScopeInv' /\ OthersInv' /\
     ForwardInv' /\ StagedInv' /\ CleanupInv' /\ JournalInv' /\ RecoverInv' /\
     CrashInv' /\ FailedRestores' /\ AppliedCompletely'
  BY DEF Inv, BackupFails, NoFileLost, HeldInv, QuietInv, ScopeInv, OthersInv,
         ForwardInv, StagedInv, CleanupInv, JournalInv, RecoverInv, CrashInv,
         FailedRestores, AppliedCompletely, BackupsInv
<1>3. QED
  BY <1>1, <1>2 DEF Inv

\* The new bytes fill the empty path; after the last file all have them.
LEMMA ReplaceKeeps == Inv /\ TypeOK' /\ Replace => Inv'
<1> SUFFICES ASSUME Inv, TypeOK', Replace
             PROVE  Inv'
  OBVIOUS
<1>1. NoFileLost'
  BY AbsentAssumption DEF Inv, Replace, NoFileLost
<1>2. OthersInv'
  BY DEF Inv, Replace, OthersInv, HeldInv, IsLast
<1>3. ForwardInv'
  BY AbsentAssumption DEF Inv, Replace, ForwardInv, HeldInv, BackupsInv,
                          IsLast
<1>4. CleanupInv'
  <2>1. PICK f \in held :
          IsLast(f, held) /\ disk' = [disk EXCEPT ![f] = new]
    BY DEF Replace
  <2>2. \A g \in held : IsLast(g, held) => g = f
    BY <2>1, NAssumption DEF Inv, IsLast
  <2>3. ASSUME pc' = "cleanup", NEW g \in scope
        PROVE  disk'[g] # Absent /\ (g \notin touched => disk'[g] = new)
    BY <2>1, <2>2, <2>3, AbsentAssumption DEF Inv, Replace, ForwardInv, HeldInv
  <2> QED
    BY <2>3 DEF Replace, CleanupInv
<1>5. FailedRestores' /\ AppliedCompletely'
  BY DEF Inv, Replace, FailedRestores, AppliedCompletely, QuietInv
<1>6. HeldInv' /\ QuietInv' /\ ScopeInv' /\ StagedInv' /\ UndoInv' /\
     JournalInv' /\ RecoverInv' /\ CrashInv'
  BY DEF Inv, Replace, HeldInv, QuietInv, ScopeInv, StagedInv, UndoInv,
         JournalInv, RecoverInv, CrashInv, BackupsInv
<1>7. QED
  BY <1>1, <1>2, <1>3, <1>4, <1>5, <1>6 DEF Inv

\* rollback starts with the last path empty and its backup in place.
LEMMA ReplaceFailsKeeps == Inv /\ TypeOK' /\ ReplaceFails => Inv'
<1> SUFFICES ASSUME Inv, TypeOK', ReplaceFails
             PROVE  Inv'
  OBVIOUS
<1>1. UndoInv'
  BY DEF Inv, ReplaceFails, UndoInv, ForwardInv, HeldInv, BackupsInv
<1>2. NoFileLost' /\ HeldInv' /\ QuietInv' /\ ScopeInv' /\ OthersInv' /\
     ForwardInv' /\ StagedInv' /\ CleanupInv' /\ JournalInv' /\ RecoverInv' /\
     CrashInv' /\ FailedRestores' /\ AppliedCompletely'
  BY DEF Inv, ReplaceFails, NoFileLost, HeldInv, QuietInv, ScopeInv,
         OthersInv, ForwardInv, StagedInv, CleanupInv, JournalInv, RecoverInv,
         CrashInv, FailedRestores, AppliedCompletely, BackupsInv
<1>3. QED
  BY <1>1, <1>2 DEF Inv

\* A backup is removed only when its file has its new bytes.
LEMMA CleanupKeeps == Inv /\ TypeOK' /\ Cleanup => Inv'
<1> SUFFICES ASSUME Inv, TypeOK', Cleanup
             PROVE  Inv'
  OBVIOUS
<1>1. NoFileLost'
  BY DEF Inv, Cleanup, NoFileLost, CleanupInv, HeldInv, IsFirst
<1>2. FailedRestores' /\ AppliedCompletely'
  BY DEF Inv, Cleanup, FailedRestores, AppliedCompletely, QuietInv
<1>3. HeldInv' /\ QuietInv' /\ ScopeInv' /\ OthersInv' /\ ForwardInv' /\
     StagedInv' /\ CleanupInv' /\ UndoInv' /\ JournalInv' /\ RecoverInv' /\
     CrashInv'
  BY DEF Inv, Cleanup, HeldInv, QuietInv, ScopeInv, OthersInv, ForwardInv,
         StagedInv, CleanupInv, UndoInv, JournalInv, RecoverInv, CrashInv,
         BackupsInv
<1>4. QED
  BY <1>1, <1>2, <1>3 DEF Inv

\* Success is returned when every file has its new bytes.
LEMMA FinishKeeps == Inv /\ TypeOK' /\ Finish => Inv'
<1> SUFFICES ASSUME Inv, TypeOK', Finish
             PROVE  Inv'
  OBVIOUS
<1>1. AppliedCompletely'
  BY DEF Inv, Finish, AppliedCompletely, CleanupInv, OthersInv
<1>2. NoFileLost' /\ HeldInv' /\ QuietInv' /\ ScopeInv' /\ OthersInv' /\
     ForwardInv' /\ StagedInv' /\ CleanupInv' /\ UndoInv' /\ JournalInv' /\
     RecoverInv' /\ CrashInv' /\ FailedRestores'
  BY DEF Inv, Finish, NoFileLost, HeldInv, QuietInv, ScopeInv, OthersInv,
         ForwardInv, StagedInv, CleanupInv, UndoInv, JournalInv, RecoverInv,
         CrashInv, FailedRestores, BackupsInv
<1>3. QED
  BY <1>1, <1>2 DEF Inv

\* rollback removes only a file whose original is in its backup.
LEMMA UndoRemoveKeeps == Inv /\ TypeOK' /\ UndoRemove => Inv'
<1> SUFFICES ASSUME Inv, TypeOK', UndoRemove
             PROVE  Inv'
  OBVIOUS
<1>1. NoFileLost'
  BY DEF Inv, UndoRemove, NoFileLost, UndoInv, BackupsInv, IsFirst
<1>2. OthersInv'
  BY DEF Inv, UndoRemove, OthersInv, HeldInv, IsFirst
<1>3. FailedRestores' /\ AppliedCompletely'
  BY DEF Inv, UndoRemove, FailedRestores, AppliedCompletely, QuietInv
<1>4. HeldInv' /\ QuietInv' /\ ScopeInv' /\ ForwardInv' /\ StagedInv' /\
     CleanupInv' /\ UndoInv' /\ JournalInv' /\ RecoverInv' /\ CrashInv'
  BY DEF Inv, UndoRemove, HeldInv, QuietInv, ScopeInv, ForwardInv, StagedInv,
         CleanupInv, UndoInv, JournalInv, RecoverInv, CrashInv, BackupsInv
<1>5. QED
  BY <1>1, <1>2, <1>3, <1>4 DEF Inv

\* A backup renamed back is the original.
LEMMA UndoRenameKeeps == Inv /\ TypeOK' /\ UndoRename => Inv'
<1> SUFFICES ASSUME Inv, TypeOK', UndoRename
             PROVE  Inv'
  OBVIOUS
<1>1. NoFileLost'
  BY DEF Inv, UndoRename, NoFileLost, UndoInv, BackupsInv, IsFirst
<1>2. OthersInv'
  BY DEF Inv, UndoRename, OthersInv, HeldInv, IsFirst
<1>3. UndoInv'
  BY DEF Inv, UndoRename, UndoInv, BackupsInv, HeldInv, IsFirst
<1>4. FailedRestores' /\ AppliedCompletely'
  BY DEF Inv, UndoRename, FailedRestores, AppliedCompletely, QuietInv
<1>5. HeldInv' /\ QuietInv' /\ ScopeInv' /\ ForwardInv' /\ StagedInv' /\
     CleanupInv' /\ JournalInv' /\ RecoverInv' /\ CrashInv'
  BY DEF Inv, UndoRename, HeldInv, QuietInv, ScopeInv, ForwardInv, StagedInv,
         CleanupInv, JournalInv, RecoverInv, CrashInv, BackupsInv
<1>6. QED
  BY <1>1, <1>2, <1>3, <1>4, <1>5 DEF Inv

\* An error is returned when every backup was renamed back.
LEMMA UndoDoneKeeps == Inv /\ TypeOK' /\ UndoDone => Inv'
<1> SUFFICES ASSUME Inv, TypeOK', UndoDone
             PROVE  Inv'
  OBVIOUS
<1>1. FailedRestores'
  BY DEF Inv, UndoDone, FailedRestores, UndoInv
<1>2. NoFileLost' /\ HeldInv' /\ QuietInv' /\ ScopeInv' /\ OthersInv' /\
     ForwardInv' /\ StagedInv' /\ CleanupInv' /\ UndoInv' /\ JournalInv' /\
     RecoverInv' /\ CrashInv' /\ AppliedCompletely'
  BY DEF Inv, UndoDone, NoFileLost, HeldInv, QuietInv, ScopeInv, OthersInv,
         ForwardInv, StagedInv, CleanupInv, UndoInv, JournalInv, RecoverInv,
         CrashInv, AppliedCompletely, BackupsInv
<1>3. QED
  BY <1>1, <1>2 DEF Inv

\* Recover starts from the backups the journal lists.
LEMMA RecoverReadKeeps == Inv /\ TypeOK' /\ RecoverRead => Inv'
<1> SUFFICES ASSUME Inv, TypeOK', RecoverRead
             PROVE  Inv'
  OBVIOUS
<1>1. CrashInv'
  BY DEF Inv, RecoverRead, CrashInv, RecoverInv, NoJournal
<1>2. NoFileLost' /\ HeldInv' /\ QuietInv' /\ ScopeInv' /\ OthersInv' /\
     ForwardInv' /\ StagedInv' /\ CleanupInv' /\ UndoInv' /\ JournalInv' /\
     RecoverInv' /\ FailedRestores' /\ AppliedCompletely'
  BY DEF Inv, RecoverRead, NoFileLost, HeldInv, QuietInv, ScopeInv,
         OthersInv, ForwardInv, StagedInv, CleanupInv, UndoInv, JournalInv,
         RecoverInv, FailedRestores, AppliedCompletely, BackupsInv
<1>3. QED
  BY <1>1, <1>2 DEF Inv

\* A torn journal makes Recover return, changing nothing.
LEMMA RecoverUnreadableKeeps == Inv /\ TypeOK' /\ RecoverUnreadable => Inv'
<1> SUFFICES ASSUME Inv, TypeOK', RecoverUnreadable
             PROVE  Inv'
  OBVIOUS
<1>1. CrashInv'
  BY DEF Inv, RecoverUnreadable, CrashInv, RecoverInv, NoJournal
<1>2. NoFileLost' /\ HeldInv' /\ QuietInv' /\ ScopeInv' /\ OthersInv' /\
     ForwardInv' /\ StagedInv' /\ CleanupInv' /\ UndoInv' /\ JournalInv' /\
     RecoverInv' /\ FailedRestores' /\ AppliedCompletely'
  BY DEF Inv, RecoverUnreadable, NoFileLost, HeldInv, QuietInv, ScopeInv,
         OthersInv, ForwardInv, StagedInv, CleanupInv, UndoInv, JournalInv,
         RecoverInv, FailedRestores, AppliedCompletely, BackupsInv
<1>3. QED
  BY <1>1, <1>2 DEF Inv

\* A listed backup that is gone was put back before; one that os.Stat could not see
\* stays as it is.
LEMMA RecoverSkipKeeps == Inv /\ TypeOK' /\ RecoverSkip => Inv'
<1> SUFFICES ASSUME Inv, TypeOK', RecoverSkip
             PROVE  Inv'
  OBVIOUS
<1>1. CrashInv'
  BY DEF Inv, RecoverSkip, CrashInv, ScopeInv, RecoverInv
<1>2. NoFileLost' /\ HeldInv' /\ QuietInv' /\ ScopeInv' /\ OthersInv' /\
     ForwardInv' /\ StagedInv' /\ CleanupInv' /\ UndoInv' /\ JournalInv' /\
     RecoverInv' /\ FailedRestores' /\ AppliedCompletely'
  BY DEF Inv, RecoverSkip, NoFileLost, HeldInv, QuietInv, ScopeInv, OthersInv,
         ForwardInv, StagedInv, CleanupInv, UndoInv, JournalInv, RecoverInv,
         FailedRestores, AppliedCompletely, BackupsInv
<1>3. QED
  BY <1>1, <1>2 DEF Inv

\* Recover removes a target only after its backup was seen.
LEMMA RecoverRemoveKeeps == Inv /\ TypeOK' /\ RecoverRemove => Inv'
<1> SUFFICES ASSUME Inv, TypeOK', RecoverRemove
             PROVE  Inv'
  OBVIOUS
<1>1. RecoverInv'
  BY DEF Inv, RecoverRemove, RecoverInv, IsFirst
<1>2. CrashInv'
  BY DEF Inv, RecoverRemove, CrashInv, ScopeInv, RecoverInv, IsFirst
<1>3. FailedRestores' /\ AppliedCompletely'
  BY DEF Inv, RecoverRemove, FailedRestores, AppliedCompletely, QuietInv
<1>4. NoFileLost' /\ HeldInv' /\ QuietInv' /\ ScopeInv' /\ OthersInv' /\
     ForwardInv' /\ StagedInv' /\ CleanupInv' /\ UndoInv' /\ JournalInv'
  BY DEF Inv, RecoverRemove, NoFileLost, HeldInv, QuietInv, ScopeInv,
         OthersInv, ForwardInv, StagedInv, CleanupInv, UndoInv, JournalInv,
         BackupsInv
<1>5. QED
  BY <1>1, <1>2, <1>3, <1>4 DEF Inv

\* Recover's rename puts the original back.
LEMMA RecoverRenameKeeps == Inv /\ TypeOK' /\ RecoverRename => Inv'
<1> SUFFICES ASSUME Inv, TypeOK', RecoverRename
             PROVE  Inv'
  OBVIOUS
<1>1. NoFileLost'
  BY DEF Inv, RecoverRename, NoFileLost, RecoverInv, IsFirst
<1>2. CrashInv'
  BY DEF Inv, RecoverRename, CrashInv, ScopeInv, RecoverInv, IsFirst
<1>3. FailedRestores' /\ AppliedCompletely'
  BY DEF Inv, RecoverRename, FailedRestores, AppliedCompletely, QuietInv
<1>4. HeldInv' /\ QuietInv' /\ ScopeInv' /\ OthersInv' /\ ForwardInv' /\
     StagedInv' /\ CleanupInv' /\ UndoInv' /\ JournalInv' /\ RecoverInv'
  BY DEF Inv, RecoverRename, HeldInv, QuietInv, ScopeInv, OthersInv,
         ForwardInv, StagedInv, CleanupInv, UndoInv, JournalInv, RecoverInv,
         BackupsInv
<1>5. QED
  BY <1>1, <1>2, <1>3, <1>4 DEF Inv

\* The journal goes when every listed backup is back in place.
LEMMA RecoverDoneKeeps == Inv /\ TypeOK' /\ RecoverDone => Inv'
<1> SUFFICES ASSUME Inv, TypeOK', RecoverDone
             PROVE  Inv'
  OBVIOUS
<1>1. CrashInv'
  BY DEF Inv, RecoverDone, CrashInv, RecoverInv, NoJournal
<1>2. NoFileLost' /\ HeldInv' /\ QuietInv' /\ ScopeInv' /\ OthersInv' /\
     ForwardInv' /\ StagedInv' /\ CleanupInv' /\ UndoInv' /\ JournalInv' /\
     RecoverInv' /\ FailedRestores' /\ AppliedCompletely'
  BY DEF Inv, RecoverDone, NoFileLost, HeldInv, QuietInv, ScopeInv, OthersInv,
         ForwardInv, StagedInv, CleanupInv, UndoInv, JournalInv, RecoverInv,
         FailedRestores, AppliedCompletely, BackupsInv
<1>3. QED
  BY <1>1, <1>2 DEF Inv

\* A failing Recover leaves the journal for the next one.
LEMMA RecoverFailsKeeps == Inv /\ TypeOK' /\ RecoverFails => Inv'
<1> SUFFICES ASSUME Inv, TypeOK', RecoverFails
             PROVE  Inv'
  OBVIOUS
<1> QED
  BY DEF Inv, RecoverFails, NoFileLost, HeldInv, QuietInv, ScopeInv,
         OthersInv, ForwardInv, StagedInv, CleanupInv, UndoInv, JournalInv,
         RecoverInv, CrashInv, FailedRestores, AppliedCompletely, BackupsInv

\* A crash keeps the disk; where it strikes decides what Recover owes.
LEMMA CrashKeeps == Inv /\ TypeOK' /\ Crash => Inv'
<1> SUFFICES ASSUME Inv, TypeOK', Crash
             PROVE  Inv'
  OBVIOUS
<1>1. CrashInv'
  BY DEF Inv, Crash, CrashInv, ForwardInv, BackupsInv, JournalInv, JournalOf,
         HeldInv, QuietInv
<1>2. NoFileLost' /\ HeldInv' /\ QuietInv' /\ ScopeInv' /\ OthersInv' /\
     ForwardInv' /\ StagedInv' /\ CleanupInv' /\ UndoInv' /\ JournalInv' /\
     RecoverInv' /\ FailedRestores' /\ AppliedCompletely'
  BY DEF Inv, Crash, NoFileLost, HeldInv, QuietInv, ScopeInv, OthersInv,
         ForwardInv, StagedInv, CleanupInv, UndoInv, JournalInv, RecoverInv,
         FailedRestores, AppliedCompletely, BackupsInv
<1>3. QED
  BY <1>1, <1>2 DEF Inv

\* An edit by another program excuses only the file it wrote.
LEMMA EditKeeps == Inv /\ TypeOK' /\ Edit => Inv'
<1> SUFFICES ASSUME Inv, TypeOK', Edit
             PROVE  Inv'
  OBVIOUS
<1>1. NoFileLost'
  BY AbsentAssumption DEF Inv, Edit, NoFileLost
<1>2. ForwardInv'
  BY AbsentAssumption DEF Inv, Edit, ForwardInv, BackupsInv
<1>3. StagedInv'
  BY AbsentAssumption DEF Inv, Edit, StagedInv
<1>6. CleanupInv'
  BY AbsentAssumption DEF Inv, Edit, CleanupInv
<1>4. HeldInv' /\ QuietInv' /\ ScopeInv' /\ OthersInv' /\ UndoInv' /\
     JournalInv' /\ RecoverInv' /\ CrashInv' /\ FailedRestores' /\
     AppliedCompletely'
  BY DEF Inv, Edit, HeldInv, QuietInv, ScopeInv, OthersInv, UndoInv,
         JournalInv, RecoverInv, CrashInv, FailedRestores, AppliedCompletely,
         BackupsInv
<1>5. QED
  BY <1>1, <1>2, <1>3, <1>4, <1>6 DEF Inv

\* The invariant holds of an untouched workspace.
LEMMA InvInit == Init => Inv
  BY AbsentAssumption DEF Init, Inv, NoFileLost, HeldInv, QuietInv, ScopeInv,
     OthersInv, ForwardInv, StagedInv, CleanupInv, UndoInv, BackupsInv, JournalInv,
     RecoverInv, CrashInv, FailedRestores, AppliedCompletely, NoJournal

\* Every step keeps the invariant.
LEMMA InvInductive == Inv /\ [Next]_vars => Inv'
<1> SUFFICES ASSUME Inv, [Next]_vars PROVE Inv'
  OBVIOUS
<1>1. TypeOK'
  BY TypeInductive DEF Inv
<1>2. CASE Next
  BY <1>1, <1>2, MakePlanKeeps, PrepareKeeps, RefuseKeeps,
     JournalTruncateKeeps, JournalWriteKeeps, OpenFailsKeeps,
     RelistFailsKeeps, StageKeeps, StageFailsKeeps, ClearBackupKeeps,
     BackupKeeps, BackupFailsKeeps, ReplaceKeeps, ReplaceFailsKeeps,
     CleanupKeeps, FinishKeeps, UndoRemoveKeeps, UndoRenameKeeps,
     UndoDoneKeeps, RecoverReadKeeps, RecoverUnreadableKeeps,
     RecoverSkipKeeps, RecoverRemoveKeeps, RecoverRenameKeeps,
     RecoverDoneKeeps, RecoverFailsKeeps, CrashKeeps, EditKeeps DEF Next, ApplyStep, RecoverStep
<1>3. CASE UNCHANGED vars
  <2>1. /\ disk' = disk /\ backup' = backup /\ journal' = journal /\ pc' = pc
        /\ scope' = scope /\ hash' = hash /\ new' = new /\ held' = held
        /\ outcome' = outcome /\ crashedAt' = crashedAt /\ touched' = touched
        /\ passed' = passed
    BY <1>3
  <2>2. NoFileLost' /\ HeldInv' /\ QuietInv' /\ ScopeInv' /\ OthersInv'
    BY <2>1 DEF Inv, NoFileLost, HeldInv, QuietInv, ScopeInv, OthersInv
  <2>3. ForwardInv' /\ StagedInv' /\ CleanupInv'
    BY <2>1 DEF Inv, ForwardInv, StagedInv, CleanupInv, BackupsInv
  <2>4. UndoInv' /\ JournalInv' /\ RecoverInv'
    BY <2>1 DEF Inv, UndoInv, JournalInv, RecoverInv, BackupsInv
  <2>5. CrashInv' /\ FailedRestores' /\ AppliedCompletely'
    BY <2>1 DEF Inv, CrashInv, BackupsInv, FailedRestores, AppliedCompletely
  <2> QED
    BY <1>1, <2>2, <2>3, <2>4, <2>5 DEF Inv
<1> QED
  BY <1>2, <1>3

-----------------------------------------------------------------------------
\* Every variable keeps to its type.
THEOREM TypeCorrect == Spec => []TypeOK
<1>1. Init => TypeOK
  BY AbsentAssumption DEF Init, NoJournal
<1> QED
  BY <1>1, TypeInductive, PTL DEF Spec

\* The conjunction of what holds at each point of ApplyAtomic, rollback and Recover.
THEOREM Invariance == Spec => []Inv
  BY InvInit, InvInductive, PTL DEF Spec

\* Neither failing calls, nor crashes at any point, nor later commands delete the
\* last copy of a file: Recover's and rollback's Remove(path) always have a backup.
THEOREM NoFileIsLost == Spec => []NoFileLost
  BY Invariance, PTL DEF Inv

\* ApplyAtomic "retains backups until every replacement succeeds".
THEOREM OriginalsAreRetained == Spec => []OriginalsRetained
<1>1. Inv => OriginalsRetained
  BY DEF Inv, OriginalsRetained, ForwardInv, UndoInv, BackupsInv
<1> QED
  BY <1>1, Invariance, PTL

\* A typed transaction error means that rollback put every file back.
THEOREM FailureRestores == Spec => []FailedRestores
  BY Invariance, PTL DEF Inv

\* Success means the planned bytes in the planned files and no others.
THEOREM SuccessIsComplete == Spec => []AppliedCompletely
  BY Invariance, PTL DEF Inv

\* Recover restores the files of an apply that died at a recoverable point, or, for
\* a file whose backup it could not stat, returns with the old bytes in the backup.
THEOREM RecoveryRestores == Spec => []RecoverRestores
<1>1. Inv => RecoverRestores
  BY DEF Inv, RecoverRestores, CrashInv, RecoverInv, NoJournal
<1> QED
  BY <1>1, Invariance, PTL

-----------------------------------------------------------------------------
(* Refinement: ApplyAtomic implements AtomicPatch when calls of the forward path may
   fail but the process does not die, the calls of the rollback and of the cleanup
   succeed and no other program writes the files. *)

OnlyForwardFaults == Faults \subseteq {"io"}

\* Without the other faults no file is foreign, and a backup exists exactly for
\* the files the running command holds: a journal left by a failed apply lists
\* backups that are gone, so running Recover over it changes no file.
CleanInv ==
  /\ touched = {}
  /\ pc # "recovering"
  /\ pc \notin RecoverPoints => \A f \in File \ held : backup[f] = Absent
  /\ pc \in RecoverPoints => \A f \in File : backup[f] = Absent

\* No backup exists at first.
LEMMA CleanInit == Init => CleanInv
  BY DEF Init, CleanInv

\* Without crashes, edits and failing undo, backups are only the held ones.
LEMMA CleanInductive ==
  OnlyForwardFaults /\ Inv /\ Inv' /\ CleanInv /\ [Next]_vars => CleanInv'
<1> SUFFICES ASSUME OnlyForwardFaults, Inv, Inv', CleanInv, [Next]_vars
             PROVE  CleanInv'
  OBVIOUS
<1> USE DEF Inv, OnlyForwardFaults, CleanInv
<1>1. CASE MakePlan
  BY <1>1 DEF MakePlan
<1>2. CASE ApplyStep
  <2>1. CASE Prepare \/ Refuse \/ JournalTruncate \/ JournalWrite \/ OpenFails
    BY <1>2, <2>1 DEF Prepare, Refuse, JournalTruncate, JournalWrite, OpenFails
  <2>2. CASE RelistFails \/ Stage \/ StageFails \/ BackupFails \/ ReplaceFails
    BY <1>2, <2>2 DEF RelistFails, Stage, StageFails, BackupFails, ReplaceFails
  <2>3. CASE ClearBackup
    BY <2>3 DEF ClearBackup
  <2>4. CASE Backup
    BY <2>4 DEF Backup
  <2>5. CASE Replace
    BY <2>5 DEF Replace
  <2>6. CASE Cleanup
    BY <2>6 DEF Cleanup
  <2>7. CASE Finish
    BY <2>7 DEF Finish
  <2>8. CASE UndoRemove \/ UndoDone
    BY <2>8 DEF UndoRemove, UndoDone
  <2>9. CASE UndoRename
    BY <2>9 DEF UndoRename
  <2> QED
    BY <1>2, <2>1, <2>2, <2>3, <2>4, <2>5, <2>6, <2>7, <2>8, <2>9 DEF ApplyStep
<1>3. CASE RecoverRead \/ RecoverUnreadable
  BY <1>3 DEF RecoverRead, RecoverUnreadable, HeldInv
<1>4. CASE RecoverStep
  BY <1>4 DEF RecoverStep, RecoverSkip, RecoverRemove, RecoverRename, RecoverDone,
     RecoverFails
<1>5. CASE Crash \/ Edit
  BY <1>5 DEF Crash, Edit
<1>6. CASE UNCHANGED vars
  BY <1>6
<1> QED
  BY <1>1, <1>2, <1>3, <1>4, <1>5, <1>6 DEF Next

-----------------------------------------------------------------------------
\* The mapped variables, named to keep the proof readable.
content == IF pc \in ForwardPoints \cup UndoPoints THEN Restored ELSE disk
status ==
  CASE pc \in ForwardPoints \cup UndoPoints -> "running"
    [] pc = "cleanup" -> "committed"
    [] OTHER -> "idle"
plan == [scope |-> scope, version |-> new]

\* The first state maps to the first state of AtomicPatch.
LEMMA MappedInit == Init => Atomic!Init
  BY DEF Init, Atomic!Init

\* Every step maps to a step of AtomicPatch or changes nothing it sees.
LEMMA MappedStep ==
  OnlyForwardFaults /\ Inv /\ Inv' /\ CleanInv /\ CleanInv' /\ [Next]_vars
    => [Atomic!Next]_(Atomic!avars)
<1> SUFFICES ASSUME OnlyForwardFaults, Inv, Inv', CleanInv, CleanInv', [Next]_vars
             PROVE  [Atomic!Next]_(Atomic!avars)
  OBVIOUS
<1>0. TypeOK /\ TypeOK'
  BY DEF Inv
<1> DEFINE Still == content' = content /\ plan' = plan /\ status' = status
<1>a. Still => [Atomic!Next]_(Atomic!avars)
  BY DEF Atomic!avars, content, plan, status
<1>1. CASE MakePlan
  BY <1>0, <1>1 DEF MakePlan, Atomic!Next, Atomic!Plan
<1>2. CASE Prepare
  BY <1>0, <1>2 DEF Prepare, Atomic!Next, Atomic!Start, Restored, Inv, HeldInv
<1>3. CASE Refuse
  BY <1>a, <1>3 DEF Refuse, content, plan, status
<1>4. CASE JournalTruncate \/ JournalWrite \/ RelistFails \/ Stage \/ StageFails
           \/ BackupFails \/ ReplaceFails
  BY <1>a, <1>4 DEF JournalTruncate, JournalWrite, RelistFails, Stage, StageFails,
     BackupFails, ReplaceFails, content, plan, status, Restored
<1>5. CASE OpenFails
  BY <1>0, <1>5 DEF OpenFails, Atomic!Next, Atomic!Abort, Restored, Inv, HeldInv
<1>6. CASE ClearBackup
  BY <1>0, <1>a, <1>6 DEF ClearBackup, content, plan, status, Restored
<1>7. CASE Backup
  BY <1>0, <1>a, <1>7 DEF Backup, content, plan, status, Restored
<1>8. CASE Replace
  <2>1. CASE held # scope
    BY <1>0, <1>a, <1>8, <2>1 DEF Replace, content, plan, status, Restored
  <2>2. CASE held = scope
    <3>1. \A f \in scope : disk'[f] = new
      BY <1>0, <1>8, <2>2 DEF Replace, Inv, CleanInv, CleanupInv
    <3>2. \A f \in File \ scope : disk'[f] = Restored[f]
      BY <1>0, <1>8, <2>2 DEF Replace, Restored
    <3>3. disk' = [f \in File |-> IF f \in scope THEN new ELSE Restored[f]]
      BY <1>0, <3>1, <3>2
    <3> QED
      BY <1>8, <2>2, <3>3 DEF Replace, Atomic!Next, Atomic!Commit
  <2> QED
    BY <2>1, <2>2
<1>9. CASE Cleanup
  BY <1>a, <1>9 DEF Cleanup, content, plan, status
<1>10. CASE Finish
  BY <1>10 DEF Finish, Atomic!Next, Atomic!Return
<1>11. CASE UndoRemove
  BY <1>0, <1>a, <1>11 DEF UndoRemove, content, plan, status, Restored
<1>12. CASE UndoRename
  BY <1>0, <1>a, <1>12 DEF UndoRename, content, plan, status, Restored,
     OnlyForwardFaults
<1>13. CASE UndoDone
  BY <1>0, <1>13 DEF UndoDone, Atomic!Next, Atomic!Abort, Restored
<1>14. CASE RecoverRead \/ RecoverUnreadable
  BY <1>a, <1>14 DEF RecoverRead, RecoverUnreadable, content, plan, status
<1>15. CASE RecoverStep
  BY <1>0, <1>a, <1>15 DEF RecoverStep, RecoverSkip, RecoverRemove, RecoverRename,
     RecoverDone, RecoverFails, content, plan, status, Inv, CleanInv
<1>16. CASE Crash \/ Edit
  BY <1>16 DEF Crash, Edit, OnlyForwardFaults
<1>17. CASE UNCHANGED vars
  BY <1>a, <1>17 DEF content, plan, status, Restored
<1> QED
  BY <1>1, <1>2, <1>3, <1>4, <1>5, <1>6, <1>7, <1>8, <1>9, <1>10, <1>11, <1>12,
     <1>13, <1>14, <1>15, <1>16, <1>17 DEF Next, ApplyStep

\* With failing calls of the forward path alone, ApplyAtomic takes every planned
\* file to its new content in one step or changes none, also when Recover is run
\* over the journals its failures leave behind.
THEOREM Refinement == ASSUME OnlyForwardFaults PROVE Spec => AllOrNothing
<1>1. CleanInv /\ [][Inv /\ Inv' /\ [Next]_vars]_vars => []CleanInv
  <2>1. CleanInv /\ [Inv /\ Inv' /\ [Next]_vars]_vars => CleanInv'
    BY CleanInductive DEF CleanInv
  <2> QED
    BY <2>1, PTL
<1> QED
  BY <1>1, CleanInit, CleanInductive, MappedInit, MappedStep, Invariance, PTL
     DEF Spec, AllOrNothing, Atomic!Spec
=============================================================================
