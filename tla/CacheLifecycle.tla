---------------------------- MODULE CacheLifecycle ----------------------------
(***************************************************************************)
(* internal/cache: processes that open and close the disposable index      *)
(* cache of a workspace.  They share a directory with the writer's lock    *)
(* file, the database and identity.json; every call that changes one of    *)
(* these is an action, and a process can die between any two.              *)
(***************************************************************************)
CONSTANTS
  Process,
  Identity,  \* schema, tool, profile, config, root and snapshot a cache is for
  Faults     \* what may go wrong, a subset of FaultKinds

\* "crash": a process dies; "cancel": the context of Open is cancelled; "io": a call
\* that writes, renames or removes a file fails; "read": identity.json is there and
\* cannot be read; "rot": the database file is damaged.
FaultKinds == {"crash", "cancel", "io", "read", "rot"}

ASSUME IdentityAssumption ==
  {"none", "empty", "damaged", "torn"} \cap Identity = {}
ASSUME FaultsAssumption == Faults \subseteq FaultKinds

VARIABLES
  lock,      \* writer.lock exists
  db,        \* index.sqlite: none, empty, damaged, or the identity it was built for
  name,      \* identity.json: none, torn (truncated and not yet written) or written
  pc,        \* where each process is
  identity,  \* the identity each process opens the cache with
  returned,  \* what the process's last command returned
  orphaned,  \* history: a process died, or could not remove its lock file
  unread     \* history: since the database was begun or last saved to, identity.json
             \* was written over without having been read

cachevars == <<lock, db, name, pc, identity, returned, orphaned, unread>>
-----------------------------------------------------------------------------
\* In quarantine: "moving" the database, then "unlocking"; with the suffix "again"
\* when Open then calls itself.
HoldPoints == {"locked", "opened", "naming", "open", "closing",
               "moving", "unlocking", "moving again", "unlocking again"}
OpenPoints == ({"again"} \cup HoldPoints) \ {"open", "closing"}

TypeOK ==
  /\ lock \in BOOLEAN
  /\ db \in {"none", "empty", "damaged"} \cup Identity
  /\ name \in {"none", "torn"} \cup Identity
  /\ pc \in [Process -> {"idle", "again"} \cup HoldPoints]
  /\ identity \in [Process -> Identity]
  /\ returned \in [Process -> {"none", "locked", "error", "opened", "closed"}]
  /\ orphaned \in BOOLEAN
  /\ unread \in BOOLEAN

CacheInit ==
  /\ lock = FALSE
  /\ db = "none"
  /\ name = "none"
  /\ pc = [p \in Process |-> "idle"]
  /\ identity \in [Process -> Identity]
  /\ returned = [p \in Process |-> "none"]
  /\ orphaned = FALSE
  /\ unread = FALSE

Goto(p, next) == pc' = [pc EXCEPT ![p] = next]
Returning(p, what) == returned' = [returned EXCEPT ![p] = what]
-----------------------------------------------------------------------------
\* Open is called; the command line or the server decides for which identity.
CallOpen(p) ==
  /\ pc[p] = "idle"
  /\ Goto(p, "again")
  /\ \E i \in Identity : identity' = [identity EXCEPT ![p] = i]
  /\ Returning(p, "none")
  /\ UNCHANGED <<lock, db, name, orphaned, unread>>

\* Mutant: the lock file is opened without O_EXCL.
TakeLockShared(p) ==
  /\ pc[p] = "again"
  /\ lock' = TRUE
  /\ Goto(p, "locked")
  /\ UNCHANGED <<db, name, identity, returned, orphaned, unread>>

\* OpenFile(writer.lock, O_CREATE|O_EXCL).
TakeLock(p) ==
  /\ pc[p] = "again"
  /\ ~lock
  /\ lock' = TRUE
  /\ Goto(p, "locked")
  /\ UNCHANGED <<db, name, identity, returned, orphaned, unread>>

Locked(p) ==
  /\ pc[p] = "again"
  /\ lock
  /\ Goto(p, "idle")
  /\ Returning(p, "locked")
  /\ UNCHANGED <<lock, db, name, identity, orphaned, unread>>

\* The directory or the lock file cannot be made.
LockFails(p) ==
  /\ "io" \in Faults
  /\ pc[p] = "again"
  /\ Goto(p, "idle")
  /\ Returning(p, "error")
  /\ UNCHANGED <<lock, db, name, identity, orphaned, unread>>

\* Open goes on to write identity.json when that names its identity, is not there or
\* cannot be read: a mismatch is looked for only in what was read.
NotDiffering(p) == name \in {"none", identity[p]} \/ "read" \in Faults

\* Writing the process id into the lock, or writing identity.json, fails: Close.
WriteFails(p) ==
  /\ "io" \in Faults
  /\ pc[p] \in {"locked", "opened", "naming"}
  /\ pc[p] = "opened" => NotDiffering(p)
  /\ Goto(p, "closing")
  /\ Returning(p, "error")
  /\ UNCHANGED <<lock, db, name, identity, orphaned, unread>>

\* Mutant: a new database is taken to be for whatever identity.json names.
OpenDatabaseTagged(p) ==
  /\ pc[p] = "locked"
  /\ db # "damaged"
  /\ db' = IF db = "none" THEN name ELSE db
  /\ Goto(p, "opened")
  /\ UNCHANGED <<lock, name, identity, returned, orphaned, unread>>

\* OpenSQLite and the migrations; a file that is not there is created.
OpenDatabase(p) ==
  /\ pc[p] = "locked"
  /\ db # "damaged"
  /\ db' = IF db = "none" THEN "empty" ELSE db
  /\ Goto(p, "opened")
  /\ UNCHANGED <<lock, name, identity, returned, orphaned, unread>>

\* Either fails: the database is quarantined and Open returns.  Both look at the
\* context first, and its error is taken for a database that cannot be opened, as is
\* that of a failing file system.
OpenDatabaseFails(p) ==
  /\ pc[p] = "locked"
  /\ db = "damaged" \/ "cancel" \in Faults \/ "io" \in Faults
  /\ Goto(p, "moving")
  /\ Returning(p, "error")
  /\ UNCHANGED <<lock, db, name, identity, orphaned, unread>>

\* identity.json is there and names another identity, or is not complete.
IdentityDiffers(p) ==
  /\ pc[p] = "opened"
  /\ name \notin {"none", identity[p]}
  /\ Goto(p, "moving again")
  /\ UNCHANGED <<lock, db, name, identity, returned, orphaned, unread>>

\* Mutant: identity.json is written over whatever was read from it.
TruncateNameUnchecked(p) ==
  /\ pc[p] = "opened"
  /\ name' = "torn"
  /\ Goto(p, "naming")
  /\ UNCHANGED <<lock, db, identity, returned, orphaned, unread>>

\* os.WriteFile(identity.json) truncates the file, then writes it.
TruncateName(p) ==
  /\ pc[p] = "opened"
  /\ NotDiffering(p)
  /\ name' = "torn"
  /\ unread' = (unread \/ name \notin {"none", identity[p]})
  /\ Goto(p, "naming")
  /\ UNCHANGED <<lock, db, identity, returned, orphaned>>

WriteName(p) ==
  /\ pc[p] = "naming"
  /\ name' = identity[p]
  /\ Goto(p, "open")
  /\ Returning(p, "opened")
  /\ UNCHANGED <<lock, db, identity, orphaned, unread>>
-----------------------------------------------------------------------------
\* quarantine: the database is renamed and the lock removed; the errors of both are
\* ignored.  identity.json stays.
MoveDatabase(p) ==
  /\ \/ pc[p] = "moving" /\ Goto(p, "unlocking")
     \/ pc[p] = "moving again" /\ Goto(p, "unlocking again")
  /\ \/ db' = "none" /\ unread' = FALSE
     \/ "io" \in Faults /\ UNCHANGED <<db, unread>>
  /\ UNCHANGED <<lock, name, identity, returned, orphaned>>

\* os.Remove(writer.lock), its error ignored.
RemoveLockFile ==
  \/ lock' = FALSE /\ UNCHANGED orphaned
  \/ "io" \in Faults /\ orphaned' = TRUE /\ UNCHANGED lock

\* Mutant: quarantine leaves the lock file.
UnlockForgotten(p) ==
  /\ \/ pc[p] = "unlocking" /\ Goto(p, "idle")
     \/ pc[p] = "unlocking again" /\ Goto(p, "again")
  /\ UNCHANGED <<lock, db, name, identity, returned, orphaned, unread>>

Unlock(p) ==
  /\ \/ pc[p] = "unlocking" /\ Goto(p, "idle")
     \/ pc[p] = "unlocking again" /\ Goto(p, "again")
  /\ RemoveLockFile
  /\ UNCHANGED <<db, name, identity, returned, unread>>

\* The process commits an index to the cache it opened.
Save(p) ==
  /\ pc[p] = "open"
  /\ db' = identity[p]
  /\ unread' = FALSE
  /\ UNCHANGED <<lock, name, pc, identity, returned, orphaned>>

\* Close: the database is closed, then the lock removed.
Close(p) ==
  /\ pc[p] = "open"
  /\ Goto(p, "closing")
  /\ Returning(p, "closed")
  /\ UNCHANGED <<lock, db, name, identity, orphaned, unread>>

RemoveLock(p) ==
  /\ pc[p] = "closing"
  /\ RemoveLockFile
  /\ Goto(p, "idle")
  /\ UNCHANGED <<db, name, identity, returned, unread>>
-----------------------------------------------------------------------------
\* A process dies: the lock file stays where it is.
Crash(p) ==
  /\ "crash" \in Faults
  /\ pc[p] # "idle"
  /\ Goto(p, "idle")
  /\ Returning(p, "none")
  /\ orphaned' = TRUE
  /\ UNCHANGED <<lock, db, name, identity, unread>>

\* The database file is damaged while nobody has it open.
Rot ==
  /\ "rot" \in Faults
  /\ ~lock
  /\ db # "none"
  /\ db' = "damaged"
  /\ UNCHANGED <<lock, name, pc, identity, returned, orphaned, unread>>

CacheStep(p) ==
  \/ TakeLock(p) \/ Locked(p) \/ LockFails(p) \/ WriteFails(p)
  \/ OpenDatabase(p) \/ OpenDatabaseFails(p)
  \/ IdentityDiffers(p) \/ TruncateName(p) \/ WriteName(p)
  \/ MoveDatabase(p) \/ Unlock(p) \/ RemoveLock(p)

CacheNext ==
  \/ Rot
  \/ \E p \in Process : CallOpen(p) \/ CacheStep(p) \/ Save(p) \/ Close(p) \/ Crash(p)

\* A process inside Open or Close goes on; nobody has to call them.
Fairness == \A p \in Process : WF_cachevars(CacheStep(p))

CacheSpec == CacheInit /\ [][CacheNext]_cachevars /\ Fairness
-----------------------------------------------------------------------------
Holds(p) == pc[p] \in HoldPoints

\* "One writer lock": no two processes are between taking the lock and giving it
\* up, also while one of them quarantines the database and opens it again.
OneWriter == \A p, q \in Process : Holds(p) /\ Holds(q) => p = q

\* Every way out of Open that does not return a cache gives the lock up: a lock
\* file that nobody holds is only left by a process that died or could not remove it.
LockReleased == lock => orphaned \/ \E p \in Process : Holds(p)

\* A cache that was opened has no index built for another identity, whoever died
\* while creating or quarantining it and whichever calls failed.  The one exception
\* is an index whose identity.json could not be read: Open then writes its own
\* identity over it, and keeps the index for itself and for those who come later,
\* until it is saved to or quarantined.
OwnIndex ==
  \A p \in Process : pc[p] = "open" => unread \/ db \in {"empty", identity[p]}

\* "Cancellation or process failure cannot replace the last complete cache": a
\* complete index is only moved away by a process of another identity.
CompleteKept ==
  [][(db \in Identity /\ db' = "none") =>
       \E p \in Process : (pc'[p] # pc[p] /\ identity[p] # db)]_cachevars

\* "Incompatible caches are quarantined and rebuilt": Open returns.
OpenReturns ==
  \A p \in Process : pc[p] \in OpenPoints ~> pc[p] \notin OpenPoints
=============================================================================
