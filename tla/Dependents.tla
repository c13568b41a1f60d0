------------------------------ MODULE Dependents ------------------------------
(***************************************************************************)
(* The documents to analyze again after a change: the changed ones and     *)
(* everything that depends on them through any number of edges             *)
(* (TransitiveDependents in src/internal/repository/invalidation.go).      *)
(* The order of the work list does not matter to the result: it is a set.  *)
(***************************************************************************)
EXTENDS Naturals, FiniteSets

CONSTANT DocumentPath     \* canonical document paths

VARIABLES
  edges,      \* <<source, target>>: the source depends on the target
  changed,
  waiting,    \* the work list
  seen

tvars == <<edges, changed, waiting, seen>>

DependsOn(p) == {e[1] : e \in {f \in edges : f[2] = p}}

DependentsInit ==
  /\ edges \in SUBSET (DocumentPath \X DocumentPath)
  /\ changed \in SUBSET DocumentPath
  /\ waiting = changed
  /\ seen = {}

\* Mutant: only direct dependents are found.
VisitDirect ==
  /\ \E p \in waiting :
       /\ seen' = seen \cup {p} \cup DependsOn(p)
       /\ waiting' = waiting \ {p}
  /\ UNCHANGED <<edges, changed>>

\* Mutant: what was seen is put on the work list again.
VisitAgain ==
  /\ \E p \in waiting :
       /\ seen' = seen \cup {p}
       /\ waiting' = (waiting \ {p}) \cup DependsOn(p)
  /\ UNCHANGED <<edges, changed>>

Visit ==
  /\ \E p \in waiting :
       /\ seen' = seen \cup {p}
       /\ waiting' = (waiting \cup DependsOn(p)) \ seen'
  /\ UNCHANGED <<edges, changed>>

DependentsSpec == DependentsInit /\ [][Visit]_tvars /\ WF_tvars(Visit)
-------------------------------------------------------------------------------
(* Properties *)

\* A set that a change cannot leave.
Closed(S) == \A e \in edges : e[2] \in S => e[1] \in S

\* The work list ends with the changed documents and their dependents, however the
\* edges run: nothing that depends on a change is missing, nothing else is in it.
ExactlyDependents ==
  waiting = {} =>
    /\ changed \subseteq seen
    /\ Closed(seen)
    /\ \A S \in SUBSET DocumentPath : changed \subseteq S /\ Closed(S) => seen \subseteq S

\* The work list comes to its end, also where edges run in circles.
SearchEnds == <>(waiting = {})
===============================================================================
