--------------------------- MODULE PatchConcurrent ---------------------------
(***************************************************************************)
(* Two ikm processes run ApplyAtomic on one workspace.  They share the     *)
(* files, the backups and the one journal of the root; no lock keeps them  *)
(* apart.  Neither crashes and no call fails by itself.                    *)
(***************************************************************************)
EXTENDS Naturals

CONSTANTS N, MaxVersion, Absent

VARIABLES
  disk, backup, journal, stray, clock,
  apc, ascope, ahash, anew, aheld, aoutcome,
  bpc, bscope, bhash, bnew, bheld, boutcome

shared == <<disk, backup, journal, stray, clock>>
aCommand == <<apc, ascope, ahash, anew, aheld, aoutcome>>
bCommand == <<bpc, bscope, bhash, bnew, bheld, boutcome>>

A == INSTANCE PatchApply WITH
  Faults <- {}, crashedAt <- "none", touched <- {}, passed <- {},
  pc <- apc, scope <- ascope, hash <- ahash, new <- anew, held <- aheld,
  outcome <- aoutcome
B == INSTANCE PatchApply WITH
  Faults <- {}, crashedAt <- "none", touched <- {}, passed <- {},
  pc <- bpc, scope <- bscope, hash <- bhash, new <- bnew, held <- bheld,
  outcome <- boutcome

Init == A!Init /\ B!Init

Next ==
  \/ (A!MakePlan \/ A!ApplyStep) /\ UNCHANGED bCommand
  \/ (B!MakePlan \/ B!ApplyStep) /\ UNCHANGED aCommand

Spec == Init /\ [][Next]_<<shared, aCommand, bCommand>>

\* The result of an apply that returned success is in place, unless the other
\* process applied a plan made from that result.
Visible(scope, new, otherScope, otherHash, otherNew, otherOutcome) ==
  \A f \in scope :
    \/ disk[f] = new
    \/ /\ otherOutcome = "applied" /\ f \in otherScope
       /\ otherHash[f] = new /\ disk[f] = otherNew

\* Once both commands returned, each of them took place as a whole or not at
\* all, one after the other.
Serialized ==
  apc = "idle" /\ bpc = "idle" =>
    /\ aoutcome = "applied" =>
         Visible(ascope, anew, bscope, bhash, bnew, boutcome)
    /\ boutcome = "applied" =>
         Visible(bscope, bnew, ascope, ahash, anew, aoutcome)
    /\ aoutcome \in {"failed", "refused"} => \A f \in 1 .. N : disk[f] # anew
    /\ boutcome \in {"failed", "refused"} => \A f \in 1 .. N : disk[f] # bnew
==============================================================================
