--------------------------- MODULE WorkspaceSession ---------------------------
(***************************************************************************)
(* A workspace session shared by several callers                           *)
(* (src/internal/workspace/session.go): each scan cancels the one that is  *)
(* registered, looks once whether it was cancelled itself, and stores its  *)
(* snapshot under the lock.  Between the look and the store others run.    *)
(* A scan stands for its snapshot; scans are numbered in starting order.   *)
(***************************************************************************)
EXTENDS Naturals, FiniteSets

CONSTANTS
  MaxScans,   \* scans started in a behavior
  NoScan      \* no snapshot yet, nothing registered

ASSUME ScansAssumption == MaxScans \in Nat /\ NoScan \notin Nat

VARIABLES
  started,    \* scans started so far
  at,         \* at[n]: where scan n is
  cancelled,  \* scans whose context is cancelled
  running,    \* the scan registered as running
  current,    \* the scan whose snapshot is current
  generation,
  saved,     \* history: the scans that saved, first to last
  overtaken   \* history: some scan was cancelled between its look and its store

wvars == <<started, at, cancelled, running, current, generation, saved, overtaken>>

Scans == 1..MaxScans

SessionInit ==
  /\ started = 0
  /\ at = [n \in Scans |-> "new"]
  /\ cancelled = {}
  /\ running = NoScan
  /\ current = NoScan
  /\ generation = 0
  /\ saved = {}
  /\ overtaken = FALSE

CancelRegistered == IF running = NoScan THEN cancelled ELSE cancelled \cup {running}

\* Mutant: a new scan leaves the running one alone.
StartBeside ==
  /\ started < MaxScans
  /\ started' = started + 1
  /\ at' = [at EXCEPT ![started'] = "discovering"]
  /\ running' = started'
  /\ UNCHANGED <<cancelled, current, generation, saved, overtaken>>

Start ==
  /\ started < MaxScans
  /\ started' = started + 1
  /\ at' = [at EXCEPT ![started'] = "discovering"]
  /\ cancelled' = CancelRegistered
  /\ running' = started'
  /\ overtaken' = (overtaken \/ \E n \in cancelled' : at[n] = "storing")
  /\ UNCHANGED <<current, generation, saved>>

\* The caller cancels its own context.
CallerCancels(n) ==
  /\ at[n] \in {"discovering", "storing"}
  /\ n \notin cancelled
  /\ cancelled' = cancelled \cup {n}
  /\ overtaken' = (overtaken \/ at[n] = "storing")
  /\ UNCHANGED <<started, at, running, current, generation, saved>>

\* Discover fails; the scan stays registered.
DiscoverFails(n) ==
  /\ at[n] = "discovering"
  /\ at' = [at EXCEPT ![n] = "failed"]
  /\ UNCHANGED <<started, cancelled, running, current, generation, saved, overtaken>>

\* A cancelled scan returns the current snapshot with its error.
Look(n) ==
  /\ at[n] = "discovering"
  /\ at' = [at EXCEPT ![n] = IF n \in cancelled THEN "quit" ELSE "storing"]
  /\ UNCHANGED <<started, cancelled, running, current, generation, saved, overtaken>>

\* Whatever is registered by now is unregistered.
Store(n) ==
  /\ at[n] = "storing"
  /\ at' = [at EXCEPT ![n] = "stored"]
  /\ current' = n
  /\ generation' = generation + 1
  /\ running' = NoScan
  /\ saved' = saved \cup {n}
  /\ UNCHANGED <<started, cancelled, overtaken>>

SessionNext ==
  \/ Start
  \/ \E n \in Scans : CallerCancels(n) \/ DiscoverFails(n) \/ Look(n) \/ Store(n)

SessionSpec == SessionInit /\ [][SessionNext]_wvars
-------------------------------------------------------------------------------
(* Properties *)

\* Unless a scan was cancelled between its look and its store, the current snapshot is
\* that of the newest scan that saved, and a scan that was superseded never stores;
\* the generation counts the stores in any case.
NewestScanKept ==
  /\ generation = Cardinality(saved)
  /\ current \in saved \cup {NoScan}
  /\ ~overtaken =>
       /\ current # NoScan => \A n \in saved : n <= current
       /\ \A n \in Scans : at[n] = "storing" => n \notin cancelled /\ \A m \in saved : m < n
===============================================================================
