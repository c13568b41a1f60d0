----------------------------- MODULE PatchApply -----------------------------
(***************************************************************************)
(* internal/patch: ApplyAtomic and Recover, one action for each call that  *)
(* changes the file system.  A crash can strike between any two of them,   *)
(* each call can fail, and another program can write the same files.       *)
(*                                                                         *)
(* Files are 1 .. N in the order prepare sorts their paths.  A file's      *)
(* bytes are a version number, the content hash of a file is its version,  *)
(* and every write of new bytes uses a version never seen before.          *)
(***************************************************************************)
EXTENDS Naturals

CONSTANTS
  N,           \* number of files in the workspace
  MaxVersion,  \* bound on the versions written: plans and foreign edits
  Absent,      \* content of a path at which there is no file
  Faults       \* what may go wrong, a subset of FaultKinds

\* "crash": the process dies; "io": a call fails before the last replacement;
\* "undo": a call of rollback or Recover fails; "cleanup": a removal after the
\* last replacement fails; "edit": another program writes a file.
FaultKinds == {"crash", "io", "undo", "cleanup", "edit"}

ASSUME NAssumption == N \in Nat \ {0}
ASSUME BoundAssumption == MaxVersion \in Nat
ASSUME AbsentAssumption == Absent \notin Nat
ASSUME FaultsAssumption == Faults \subseteq FaultKinds

File == 1 .. N
Content == Nat \cup {Absent}

VARIABLES
  disk,     \* disk[f]: the bytes at path f
  backup,   \* backup[f]: the bytes at path f + ".ikm-backup"
  journal,  \* .ikm-patch-journal.json: absent, torn, or a list of backups
  stray,    \* files beside which an .ikm-patch-* temporary was left behind
  clock,    \* the last version number used
  pc,       \* where the ikm process is
  scope,    \* the files the plan edits
  hash,     \* the contents the plan was computed from (its ContentHash)
  new,      \* the version the plan writes
  held,     \* the loop's files: backups taken, still to remove, or to restore
  outcome,  \* what the last command returned
  crashedAt,\* history: where the apply died, "none" if it did not
  touched,  \* history: files another program wrote since the plan
  passed    \* history: files the last Recover passed over though backed up

shared == <<disk, backup, journal, stray, clock>>
command == <<pc, scope, hash, new, held, outcome, crashedAt>>
history == <<touched, passed>>
vars == <<shared, command, history>>
-----------------------------------------------------------------------------
IsFirst(f, S) == f \in S /\ \A g \in S : f <= g
IsLast(f, S) == f \in S /\ \A g \in S : g <= f

NoJournal == [state |-> "none", backups |-> {}]
TornJournal == [state |-> "torn", backups |-> {}]
\* Mutant: the journal names the next file's backup.
JournalOfOffByOne(S) == [state |-> "ok", backups |-> {f + 1 : f \in S}]
JournalOf(S) == [state |-> "ok", backups |-> S]

\* The temporary for a file exists from "staged" until it is renamed.
StagedPoints == {"staged", "cleared"}
MovedPoints == {"moved", "journaling", "listed"}
ForwardPoints == {"open", "opening", "stage"} \cup StagedPoints \cup MovedPoints
UndoPoints == {"undo", "undoing"}
RecoverPoints == {"recover", "recovering"}
ApplyPoints == ForwardPoints \cup UndoPoints \cup {"cleanup"}
RestPoints == {"idle", "planned"}
Points == RestPoints \cup ApplyPoints \cup RecoverPoints
Outcomes == {"none", "refused", "failed", "applied", "crashed",
             "recovered", "unreadable", "unrecovered"}

TypeOK ==
  /\ disk \in [File -> Content]
  /\ backup \in [File -> Content]
  /\ journal \in [state : {"none", "torn", "ok"}, backups : SUBSET File]
  /\ stray \in SUBSET File
  /\ clock \in Nat
  /\ pc \in Points
  /\ scope \in SUBSET File
  /\ hash \in [File -> Content]
  /\ new \in Nat
  /\ held \in SUBSET File
  /\ outcome \in Outcomes
  /\ crashedAt \in ApplyPoints \cup {"none"}
  /\ touched \in SUBSET File
  /\ passed \in SUBSET File

Init ==
  /\ disk = [f \in File |-> 0]
  /\ backup = [f \in File |-> Absent]
  /\ journal = NoJournal
  /\ stray = {}
  /\ clock = 0
  /\ pc = "idle"
  /\ scope = {}
  /\ hash = disk
  /\ new = 0
  /\ held = {}
  /\ outcome = "none"
  /\ crashedAt = "none"
  /\ touched = {}
  /\ passed = {}
-----------------------------------------------------------------------------
\* The plan is made: PreviewPatch reads the files it edits and records their
\* hashes.  Nothing stops a plan while an interrupted journal is lying about.
MakePlan ==
  /\ pc = "idle"
  /\ clock < MaxVersion
  /\ \E S \in SUBSET {f \in File : disk[f] # Absent} \ {{}} :
       scope' = S
  /\ hash' = disk
  /\ clock' = clock + 1
  /\ new' = clock'
  /\ pc' = "planned"
  /\ outcome' = "none"
  /\ crashedAt' = "none"
  /\ touched' = {}
  /\ passed' = {}
  /\ UNCHANGED <<disk, backup, journal, stray, held>>

\* prepare: every file is read and its hash compared before anything is written.
Fresh == \A f \in scope : disk[f] = hash[f]

Prepare ==
  /\ pc = "planned"
  /\ Fresh
  /\ pc' = "open"
  /\ UNCHANGED <<shared, scope, hash, new, held, outcome, crashedAt, history>>

Refuse ==
  /\ pc = "planned"
  /\ ~Fresh
  /\ pc' = "idle"
  /\ outcome' = "refused"
  /\ UNCHANGED <<shared, scope, hash, new, held, crashedAt, history>>
-----------------------------------------------------------------------------
\* os.WriteFile of the journal: it truncates, then writes; either can fail.
JournalTruncate ==
  /\ \/ pc = "open" /\ pc' = "opening"
     \/ pc = "moved" /\ pc' = "journaling"
  /\ journal' = TornJournal
  /\ UNCHANGED <<disk, backup, stray, clock, scope, hash, new, held, outcome,
                 crashedAt, history>>

\* Mutant: the journal is written before the new backup joins its list.
JournalWriteBeforeAppend ==
  /\ \/ pc = "opening" /\ pc' = "stage"
     \/ pc = "journaling" /\ pc' = "listed"
  /\ journal' = JournalOf({f \in held : ~IsLast(f, held)})
  /\ UNCHANGED <<disk, backup, stray, clock, scope, hash, new, held, outcome,
                 crashedAt, history>>

JournalWrite ==
  /\ \/ pc = "opening" /\ pc' = "stage"
     \/ pc = "journaling" /\ pc' = "listed"
  /\ journal' = JournalOf(held)
  /\ UNCHANGED <<disk, backup, stray, clock, scope, hash, new, held, outcome,
                 crashedAt, history>>

\* The first journal write fails: nothing is held, ApplyAtomic just returns.
OpenFails ==
  /\ "io" \in Faults
  /\ pc \in {"open", "opening"}
  /\ pc' = "idle"
  /\ outcome' = "failed"
  /\ UNCHANGED <<shared, scope, hash, new, held, crashedAt, history>>

\* A later journal write fails: rollback, and the temporary stays behind.
RelistFails ==
  /\ "io" \in Faults
  /\ pc \in {"moved", "journaling"}
  /\ pc' = "undo"
  /\ \E f \in held : IsLast(f, held) /\ stray' = stray \cup {f}
  /\ UNCHANGED <<disk, backup, journal, clock, scope, hash, new, held, outcome,
                 crashedAt, history>>
-----------------------------------------------------------------------------
\* The body of the loop over the files, one file after the other.
Stage ==
  /\ pc = "stage"
  /\ \E f \in scope \ held : IsFirst(f, scope \ held) /\ disk[f] # Absent
  /\ pc' = "staged"
  /\ UNCHANGED <<shared, scope, hash, new, held, outcome, crashedAt, history>>

\* Stat, CreateTemp, Write, Sync, Close or Chmod fails; the temporary is removed.
StageFails ==
  /\ pc = "stage"
  /\ \E f \in scope \ held :
       IsFirst(f, scope \ held) /\ ("io" \in Faults \/ disk[f] = Absent)
  /\ pc' = "undo"
  /\ UNCHANGED <<shared, scope, hash, new, held, outcome, crashedAt, history>>

\* os.Remove(backupPath): an older backup of the same file goes.
ClearBackup ==
  /\ pc = "staged"
  /\ pc' = "cleared"
  /\ \E f \in scope \ held :
       /\ IsFirst(f, scope \ held)
       /\ backup' = [backup EXCEPT ![f] = Absent]
  /\ UNCHANGED <<disk, journal, stray, clock, scope, hash, new, held, outcome,
                 crashedAt, history>>

\* os.Rename(path, backupPath), and the file joins the backups.
Backup ==
  /\ pc = "cleared"
  /\ pc' = "moved"
  /\ \E f \in scope \ held :
       /\ IsFirst(f, scope \ held)
       /\ disk[f] # Absent
       /\ backup' = [backup EXCEPT ![f] = disk[f]]
       /\ disk' = [disk EXCEPT ![f] = Absent]
       /\ held' = held \cup {f}
  /\ UNCHANGED <<journal, stray, clock, scope, hash, new, outcome, crashedAt,
                 history>>

BackupFails ==
  /\ pc = "cleared"
  /\ \E f \in scope \ held :
       IsFirst(f, scope \ held) /\ ("io" \in Faults \/ disk[f] = Absent)
  /\ pc' = "undo"
  /\ UNCHANGED <<shared, scope, hash, new, held, outcome, crashedAt, history>>

\* Mutant: a backup is removed as soon as its own file is replaced.
ReplaceDropsBackup ==
  /\ pc = "listed"
  /\ pc' = IF held = scope THEN "cleanup" ELSE "stage"
  /\ \E f \in held :
       /\ IsLast(f, held)
       /\ disk' = [disk EXCEPT ![f] = new]
       /\ backup' = [backup EXCEPT ![f] = Absent]
  /\ UNCHANGED <<journal, stray, clock, scope, hash, new, held, outcome,
                 crashedAt, history>>

\* Mutant: the loop ends after its first file.
ReplaceOnce ==
  /\ pc = "listed"
  /\ pc' = "cleanup"
  /\ \E f \in held :
       IsLast(f, held) /\ disk' = [disk EXCEPT ![f] = new]
  /\ UNCHANGED <<backup, journal, stray, clock, scope, hash, new, held, outcome,
                 crashedAt, history>>

\* os.Rename(name, path): the new bytes take the path, whatever is there.
Replace ==
  /\ pc = "listed"
  /\ pc' = IF held = scope THEN "cleanup" ELSE "stage"
  /\ \E f \in held :
       IsLast(f, held) /\ disk' = [disk EXCEPT ![f] = new]
  /\ UNCHANGED <<backup, journal, stray, clock, scope, hash, new, held, outcome,
                 crashedAt, history>>

ReplaceFails ==
  /\ "io" \in Faults
  /\ pc = "listed"
  /\ pc' = "undo"
  /\ \E f \in held : IsLast(f, held) /\ stray' = stray \cup {f}
  /\ UNCHANGED <<disk, backup, journal, clock, scope, hash, new, held, outcome,
                 crashedAt, history>>
-----------------------------------------------------------------------------
\* After the last replacement the backups are removed, then the journal; the
\* errors of both are ignored.
Cleanup ==
  /\ pc = "cleanup"
  /\ \E f \in held :
       /\ IsFirst(f, held)
       /\ held' = held \ {f}
       /\ \/ backup' = [backup EXCEPT ![f] = Absent]
          \/ "cleanup" \in Faults /\ UNCHANGED backup
  /\ UNCHANGED <<disk, journal, stray, clock, pc, scope, hash, new, outcome,
                 crashedAt, history>>

Finish ==
  /\ pc = "cleanup"
  /\ held = {}
  /\ pc' = "idle"
  /\ outcome' = "applied"
  /\ \/ journal' = NoJournal
     \/ "cleanup" \in Faults /\ UNCHANGED journal
  /\ UNCHANGED <<disk, backup, stray, clock, scope, hash, new, held, crashedAt,
                 history>>
-----------------------------------------------------------------------------
\* Mutant: the backup is removed in place of the new file.
UndoRemoveBackup ==
  /\ pc = "undo"
  /\ pc' = "undoing"
  /\ \E f \in held : IsFirst(f, held) /\ backup' = [backup EXCEPT ![f] = Absent]
  /\ UNCHANGED <<disk, journal, stray, clock, scope, hash, new, held, outcome,
                 crashedAt, history>>

\* rollback: Remove(path), Rename(backup, path) for each backup taken.  Both
\* errors are ignored, and the journal is left where it is.
UndoRemove ==
  /\ pc = "undo"
  /\ pc' = "undoing"
  /\ \E f \in held :
       /\ IsFirst(f, held)
       /\ \/ disk' = [disk EXCEPT ![f] = Absent]
          \/ "undo" \in Faults /\ UNCHANGED disk
  /\ UNCHANGED <<backup, journal, stray, clock, scope, hash, new, held, outcome,
                 crashedAt, history>>

\* Mutant: rollback removes the new file and never renames the backup back.
UndoRenameForgotten ==
  /\ pc = "undoing"
  /\ pc' = "undo"
  /\ \E f \in held : IsFirst(f, held) /\ held' = held \ {f}
  /\ UNCHANGED <<shared, scope, hash, new, outcome, crashedAt, history>>

UndoRename ==
  /\ pc = "undoing"
  /\ pc' = "undo"
  /\ \E f \in held :
       /\ IsFirst(f, held)
       /\ held' = held \ {f}
       /\ \/ /\ disk' = [disk EXCEPT ![f] = backup[f]]
             /\ backup' = [backup EXCEPT ![f] = Absent]
          \/ "undo" \in Faults /\ UNCHANGED <<disk, backup>>
  /\ UNCHANGED <<journal, stray, clock, scope, hash, new, outcome, crashedAt,
                 history>>

UndoDone ==
  /\ pc = "undo"
  /\ held = {}
  /\ pc' = "idle"
  /\ outcome' = "failed"
  /\ UNCHANGED <<shared, scope, hash, new, held, crashedAt, history>>
-----------------------------------------------------------------------------
\* Recover: the backups the journal lists go back over their targets.
RecoverRead ==
  /\ pc = "idle"
  /\ journal.state = "ok"
  /\ pc' = "recover"
  /\ held' = journal.backups
  /\ outcome' = "none"
  /\ passed' = {}
  /\ UNCHANGED <<shared, scope, hash, new, crashedAt, touched>>

RecoverUnreadable ==
  /\ pc = "idle"
  /\ journal.state = "torn"
  /\ outcome' = "unreadable"
  /\ UNCHANGED <<shared, pc, scope, hash, new, held, crashedAt, history>>

\* Mutant: the loop does not go on to the next backup.
RecoverSkipStays ==
  /\ pc = "recover"
  /\ \E f \in held : IsFirst(f, held) /\ backup[f] = Absent
  /\ UNCHANGED vars

\* os.Stat(backup) returns an error and the loop goes on: there is no backup (the
\* file was put back already, or never moved), or the call itself failed and the
\* file is passed over with its backup in place.
RecoverSkip ==
  /\ pc = "recover"
  /\ \E f \in held :
       /\ IsFirst(f, held)
       /\ held' = held \ {f}
       /\ \/ backup[f] = Absent /\ UNCHANGED passed
          \/ /\ "undo" \in Faults /\ backup[f] # Absent
             /\ passed' = passed \cup {f}
  /\ UNCHANGED <<shared, pc, scope, hash, new, outcome, crashedAt, touched>>

\* Mutant: the target is removed without a look at its backup.
RecoverRemoveUnchecked ==
  /\ pc = "recover"
  /\ pc' = "recovering"
  /\ \E f \in held :
       IsFirst(f, held) /\ disk' = [disk EXCEPT ![f] = Absent]
  /\ UNCHANGED <<backup, journal, stray, clock, scope, hash, new, held, outcome,
                 crashedAt, history>>

RecoverRemove ==
  /\ pc = "recover"
  /\ pc' = "recovering"
  /\ \E f \in held :
       /\ IsFirst(f, held)
       /\ backup[f] # Absent
       /\ \/ disk' = [disk EXCEPT ![f] = Absent]
          \/ "undo" \in Faults /\ UNCHANGED disk
  /\ UNCHANGED <<backup, journal, stray, clock, scope, hash, new, held, outcome,
                 crashedAt, history>>

RecoverRename ==
  /\ pc = "recovering"
  /\ pc' = "recover"
  /\ \E f \in held :
       /\ IsFirst(f, held)
       /\ held' = held \ {f}
       /\ disk' = [disk EXCEPT ![f] = backup[f]]
       /\ backup' = [backup EXCEPT ![f] = Absent]
  /\ UNCHANGED <<journal, stray, clock, scope, hash, new, outcome, crashedAt,
                 history>>

RecoverDone ==
  /\ pc = "recover"
  /\ held = {}
  /\ pc' = "idle"
  /\ journal' = NoJournal
  /\ outcome' = "recovered"
  /\ UNCHANGED <<disk, backup, stray, clock, scope, hash, new, held, crashedAt,
                 history>>

\* The rename or the removal of the journal fails: Recover returns the error
\* with the journal in place, and can be run again.
RecoverFails ==
  /\ "undo" \in Faults
  /\ \/ pc = "recovering"
     \/ pc = "recover" /\ held = {}
  /\ pc' = "idle"
  /\ held' = {}
  /\ outcome' = "unrecovered"
  /\ UNCHANGED <<shared, scope, hash, new, crashedAt, history>>
-----------------------------------------------------------------------------
\* The process dies; what is on the disk stays.
Crash ==
  /\ "crash" \in Faults
  /\ pc \in ApplyPoints \cup RecoverPoints
  /\ pc' = "idle"
  /\ held' = {}
  /\ outcome' = "crashed"
  /\ crashedAt' = IF pc \in ApplyPoints THEN pc ELSE crashedAt
  /\ stray' = stray \cup
       {f \in File : \/ pc \in StagedPoints /\ IsFirst(f, scope \ held)
                     \/ pc \in MovedPoints /\ IsLast(f, held)}
  /\ UNCHANGED <<disk, backup, journal, clock, scope, hash, new, history>>

\* Another program saves a file.
Edit ==
  /\ "edit" \in Faults
  /\ clock < MaxVersion
  /\ clock' = clock + 1
  /\ \E f \in File :
       /\ disk' = [disk EXCEPT ![f] = clock']
       /\ touched' = touched \cup {f}
  /\ UNCHANGED <<backup, journal, stray, command, passed>>

ApplyStep ==
  \/ Prepare \/ Refuse
  \/ JournalTruncate \/ JournalWrite \/ OpenFails \/ RelistFails
  \/ Stage \/ StageFails \/ ClearBackup \/ Backup \/ BackupFails
  \/ Replace \/ ReplaceFails \/ Cleanup \/ Finish
  \/ UndoRemove \/ UndoRename \/ UndoDone

RecoverStep ==
  RecoverSkip \/ RecoverRemove \/ RecoverRename \/ RecoverDone \/ RecoverFails

Next ==
  \/ MakePlan \/ ApplyStep
  \/ RecoverRead \/ RecoverUnreadable \/ RecoverStep
  \/ Crash \/ Edit

\* A command that runs goes on to its next call; nobody has to start one.
Fairness == WF_vars(ApplyStep \/ RecoverStep)

Spec == Init /\ [][Next]_vars /\ Fairness
-----------------------------------------------------------------------------
\* No file disappears: the last copy of a file's bytes is never deleted, whatever
\* fails, wherever the process dies and whichever commands follow.
NoFileLost == \A f \in File : disk[f] # Absent \/ backup[f] # Absent

\* While ApplyAtomic moves files or rolls back, the bytes the plan was made from
\* are still at the path or in its backup ("retains backups until every
\* replacement succeeds").  The files another program wrote are excepted.
OriginalsRetained ==
  pc \in ForwardPoints \cup UndoPoints =>
    \A f \in scope \ touched : hash[f] \in {disk[f], backup[f]}

\* An apply that returned an error put every file back; only when rollback's own
\* rename failed may the original still be in its backup.
FailedRestores ==
  outcome = "failed" =>
    \A f \in scope \ touched :
      \/ disk[f] = hash[f]
      \/ "undo" \in Faults /\ backup[f] = hash[f]

\* An apply that returned success left the planned bytes in every planned file
\* and changed no other.
AppliedCompletely ==
  outcome = "applied" =>
    \A f \in File \ touched : disk[f] = IF f \in scope THEN new ELSE hash[f]

\* Where the process may die so that Recover finds every backup listed: not
\* between the rename to a backup and the journal that names it, and not once
\* backups are being removed.
RecoverablePoints == {"stage", "staged", "cleared", "listed"}

\* A crash at one of these points followed by Recover, itself run and interrupted
\* any number of times, gives back the files as they were before the apply.  The
\* one exception is a file whose backup os.Stat could not see: Recover passes it
\* over, removes the journal and returns success, and the file's old bytes are
\* left in a backup that no journal names.
RecoverRestores ==
  outcome = "recovered" /\ crashedAt \in RecoverablePoints =>
    \A f \in scope \ touched :
      disk[f] = hash[f] \/ (f \in passed /\ backup[f] = hash[f])

\* Every recovered workspace is the complete pre-state or the complete
\* post-state of the plan.
RecoveredPreOrPost ==
  outcome = "recovered" /\ crashedAt # "none" =>
    \/ \A f \in scope \ touched : disk[f] = hash[f]
    \/ \A f \in scope \ touched : disk[f] = new

\* A command that was started returns.
Returns == pc \in ApplyPoints \cup RecoverPoints ~> pc \in RestPoints
-----------------------------------------------------------------------------
\* The workspace as a failing apply would leave it, until the last replacement.
Restored == [f \in File |-> IF f \in held THEN backup[f] ELSE disk[f]]

Atomic == INSTANCE AtomicPatch WITH
  content <- IF pc \in ForwardPoints \cup UndoPoints THEN Restored ELSE disk,
  plan    <- [scope |-> scope, version |-> new],
  status  <- CASE pc \in ForwardPoints \cup UndoPoints -> "running"
               [] pc = "cleanup" -> "committed"
               [] OTHER -> "idle"

\* Without crashes, foreign edits or failures of the rollback itself, ApplyAtomic
\* is the all-or-nothing step of AtomicPatch.
AllOrNothing == Atomic!Spec
=============================================================================
