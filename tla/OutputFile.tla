------------------------------ MODULE OutputFile ------------------------------
(***************************************************************************)
(* ikm index --output and ikm corpus --output (src/cmd/ikm/main.go): the   *)
(* text goes to a temporary file, the old output is removed, and the       *)
(* temporary file takes its name.  Several commands may write the same     *)
(* output; each call may fail and each process may die between two calls.  *)
(***************************************************************************)
EXTENDS Naturals, FiniteSets

CONSTANTS
  Command,   \* the processes, each standing for the text it writes
  Missing,   \* there is no such file
  Old,       \* the text that was there before
  Source     \* the text of an input file

ASSUME TextAssumption ==
  Missing # Old /\ Missing # Source /\ Old # Source /\ {Missing, Old, Source} \cap Command = {}

VARIABLES
  target,    \* what the output path holds
  alias,     \* which input the output path names: "none", one "named" on the command line
             \* or in select.def, one "loaded" by a definition, or one "linked" to, under
             \* another name
  rosters,   \* the commands that are ikm corpus; the others are ikm index
  temp,      \* temp[c]: "none", "partial" or "whole", the temporary file of c
  step,      \* step[c]: what c does next
  errors     \* errors[c]: what c loaded has error diagnostics

uvars == <<target, alias, rosters, temp, step, errors>>

OutputInit ==
  /\ alias \in {"none", "named", "loaded", "linked"}
  /\ rosters \in SUBSET Command
  /\ target \in IF alias = "none" THEN {Missing, Old} ELSE {Source}
  /\ temp = [c \in Command |-> "none"]
  /\ step = [c \in Command |-> "load"]
  /\ errors \in [Command -> BOOLEAN]

Go(c, next) == step' = [step EXCEPT ![c] = next]

\* ikm corpus protects the files that select.def names, not those that these load.
Protected(c) == alias = "named" \/ (alias = "loaded" /\ c \notin rosters)

\* Error diagnostics and an output path that is a protected input end the command;
\* another name is only told for that of an input where both can be looked at.
Validate(c) ==
  /\ step[c] = "load"
  /\ \/ (errors[c] \/ Protected(c) \/ alias = "linked") /\ Go(c, "failed")
     \/ ~errors[c] /\ ~Protected(c) /\ Go(c, "create")
  /\ UNCHANGED <<target, alias, rosters, temp, errors>>

CreateTemp(c) ==
  /\ step[c] = "create"
  /\ temp' = [temp EXCEPT ![c] = "partial"]
  /\ Go(c, "write")
  /\ UNCHANGED <<target, alias, rosters, errors>>

\* Written, closed and given its mode.
WriteTemp(c) ==
  /\ step[c] = "write"
  /\ temp' = [temp EXCEPT ![c] = "whole"]
  /\ Go(c, "stat")
  /\ UNCHANGED <<target, alias, rosters, errors>>

\* An old output that cannot be looked at is taken for none.
LookForOld(c) ==
  /\ step[c] = "stat"
  /\ Go(c, "rename") \/ (target # Missing /\ Go(c, "remove"))
  /\ UNCHANGED <<target, alias, rosters, temp, errors>>

\* Removing fails when another command removed the file first.
RemoveOld(c) ==
  /\ step[c] = "remove"
  /\ Go(c, IF target = Missing THEN "cleanup" ELSE "rename")
  /\ target' = Missing
  /\ UNCHANGED <<alias, rosters, temp, errors>>

Rename(c) ==
  /\ step[c] = "rename"
  /\ target' = c
  /\ temp' = [temp EXCEPT ![c] = "none"]
  /\ Go(c, "done")
  /\ UNCHANGED <<alias, rosters, errors>>

\* Mutant: a failed call returns without the deferred removal.
CallFailsUncleaned(c) ==
  /\ step[c] \in {"create", "write", "remove", "rename"}
  /\ Go(c, "failed")
  /\ UNCHANGED <<target, alias, rosters, temp, errors>>

CallFails(c) ==
  /\ \/ step[c] \in {"write", "remove", "rename"} /\ Go(c, "cleanup")
     \/ step[c] = "create" /\ Go(c, "failed")
  /\ UNCHANGED <<target, alias, rosters, temp, errors>>

\* The deferred removal of the temporary file; its error is ignored.
CleanUp(c) ==
  /\ step[c] = "cleanup"
  /\ \/ temp' = [temp EXCEPT ![c] = "none"] /\ Go(c, "failed")
     \/ Go(c, "left") /\ UNCHANGED temp
  /\ UNCHANGED <<target, alias, rosters, errors>>

Dies(c) ==
  /\ step[c] \notin {"done", "failed", "left", "dead"}
  /\ Go(c, "dead")
  /\ UNCHANGED <<target, alias, rosters, temp, errors>>

OutputNext ==
  \E c \in Command :
    \/ Validate(c) \/ CreateTemp(c) \/ WriteTemp(c) \/ LookForOld(c) \/ RemoveOld(c)
    \/ Rename(c) \/ CallFails(c) \/ CleanUp(c) \/ Dies(c)

OutputSpec == OutputInit /\ [][OutputNext]_uvars
-------------------------------------------------------------------------------
(* Properties *)

\* An input that each command protects is never overwritten; ikm corpus overwrites one
\* that a definition loads ("Output paths may not alias a loaded source file").  The output holds one whole
\* text, what was there before only while no command has succeeded; it is gone only if it
\* never was there, or while a command is between removing and renaming, or fails or dies
\* there.  A command that returns leaves no temporary file unless removing that fails.
OutputWhole ==
  /\ alias # "none" /\ (\A c \in Command : Protected(c)) => target = Source
  /\ target \in {Old, Source} => \A c \in Command : step[c] # "done"
  /\ target \in Command => step[target] = "done" /\ ~errors[target]
  /\ target = Missing => \A c \in Command : step[c] # "done" \/
       \E d \in Command \ {c} : step[d] \in {"rename", "cleanup", "failed", "left", "dead"}
  /\ \A c \in Command : step[c] \in {"done", "failed"} => temp[c] = "none"
===============================================================================
