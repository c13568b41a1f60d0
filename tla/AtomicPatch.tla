----------------------------- MODULE AtomicPatch -----------------------------
(***************************************************************************)
(* What a transactional patch promises, with nothing said about journals,  *)
(* backups or temporary files: the planned files all take the planned      *)
(* content in one step, or none of them changes.                           *)
(***************************************************************************)
EXTENDS Naturals

CONSTANT File

VARIABLES
  content,   \* what each file holds, seen from outside the transaction
  plan,      \* the files the plan edits and the version it writes to them
  status     \* "idle", "running" or "committed" (the result is not yet returned)

avars == <<content, plan, status>>

Init ==
  /\ content = [f \in File |-> 0]
  /\ plan = [scope |-> {}, version |-> 0]
  /\ status = "idle"

Plan ==
  /\ status = "idle"
  /\ plan' \in [scope : SUBSET File, version : Nat]
  /\ UNCHANGED <<content, status>>

Start ==
  /\ status = "idle"
  /\ status' = "running"
  /\ UNCHANGED <<content, plan>>

Commit ==
  /\ status = "running"
  /\ status' = "committed"
  /\ content' = [f \in File |->
                   IF f \in plan.scope THEN plan.version ELSE content[f]]
  /\ UNCHANGED plan

Abort ==
  /\ status = "running"
  /\ status' = "idle"
  /\ UNCHANGED <<content, plan>>

Return ==
  /\ status = "committed"
  /\ status' = "idle"
  /\ UNCHANGED <<content, plan>>

Next == Plan \/ Start \/ Commit \/ Abort \/ Return

Spec == Init /\ [][Next]_avars
==============================================================================
