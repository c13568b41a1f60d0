---------------------------- MODULE StartupManifest ----------------------------
(***************************************************************************)
(* The files the game loads before play                                    *)
(* (src/internal/workspace/startup_manifest.go): a depth-first walk from   *)
(* the configuration and the select file along the references of           *)
(* definition files.  References are kept in maps, so their order is any.  *)
(* A file is read once; the walk gives up below a depth of MaxDepth.       *)
(***************************************************************************)
EXTENDS Naturals, Sequences, SequencesExt, FiniteSets

CONSTANTS
  ManifestFile,       \* files of the workspace
  Definition, \* those ending in .def, the only ones that are followed
  MaxDepth    \* 64 in the code

ASSUME ManifestAssumption == IsFiniteSet(ManifestFile) /\ Definition \subseteq ManifestFile /\ MaxDepth \in Nat

VARIABLES
  names,      \* names[f]: the files that f names, missing ones left out
  roots,      \* the files named by the configuration and the select file
  todo,       \* roots not walked yet
  stack,      \* the walk: [file, depth, left], left being the references not followed yet
  walked,     \* the files the walk has entered
  manifest    \* the files listed

fvars == <<names, roots, todo, stack, walked, manifest>>

ManifestInit ==
  /\ names \in [ManifestFile -> SUBSET ManifestFile]
  /\ \A f \in ManifestFile \ Definition : names[f] = {}
  /\ roots \in SUBSET ManifestFile
  /\ todo = roots
  /\ stack = <<>>
  /\ walked = {}
  /\ manifest = {}

StackFrame(f, depth) == [file |-> f, depth |-> depth, left |-> names[f]]

\* walk: nothing happens below the limit, for a file walked before, or for one that is
\* no definition file.
Walk(f, depth, base) ==
  IF depth > MaxDepth \/ f \in walked
  THEN /\ stack' = base
       /\ UNCHANGED walked
  ELSE /\ walked' = walked \cup {f}
       /\ stack' = IF f \in Definition THEN Append(base, StackFrame(f, depth)) ELSE base

WalkRoot ==
  /\ stack = <<>>
  /\ \E f \in todo :
       /\ todo' = todo \ {f}
       /\ manifest' = manifest \cup {f}
       /\ Walk(f, 0, <<>>)
  /\ UNCHANGED <<names, roots>>

\* Mutant: the loop over the references returns after the first.
FollowOne ==
  /\ stack # <<>>
  /\ \E f \in Last(stack).left :
       /\ manifest' = manifest \cup {f}
       /\ Walk(f, Last(stack).depth + 1, [stack EXCEPT ![Len(stack)].left = {}])
  /\ UNCHANGED <<names, roots, todo>>

\* The next reference of the file on top of the stack is listed and followed.
Follow ==
  /\ stack # <<>>
  /\ \E f \in Last(stack).left :
       /\ manifest' = manifest \cup {f}
       /\ Walk(f, Last(stack).depth + 1, [stack EXCEPT ![Len(stack)].left = @ \ {f}])
  /\ UNCHANGED <<names, roots, todo>>

ReturnFrom ==
  /\ stack # <<>>
  /\ Last(stack).left = {}
  /\ stack' = Front(stack)
  /\ UNCHANGED <<names, roots, todo, walked, manifest>>

ManifestNext == WalkRoot \/ Follow \/ ReturnFrom

ManifestSpec == ManifestInit /\ [][ManifestNext]_fvars

ManifestDone == todo = {} /\ stack = <<>>
--------------------------------------------------------------------------------
(* Properties *)

Named(S) == S \cup UNION {names[f] : f \in S}

\* The files reached from the roots over any number of references: those in every set
\* that holds the roots and what its files name.
Complete(S) == roots \subseteq S /\ \A f \in S : names[f] \subseteq S
Reachable == {f \in ManifestFile : \A S \in SUBSET ManifestFile : Complete(S) => f \in S}

\* The manifest lists files that are reached, and in the end all of them, in whatever
\* order the maps are read and whatever cycles there are; only where the depth limit can
\* be met the walk may lose some.  The roots and what they name are never lost.
ManifestComplete ==
  /\ manifest \subseteq Reachable
  /\ ManifestDone => /\ Named(roots) \subseteq manifest
                     /\ Cardinality(Definition \cap Reachable) <= MaxDepth + 1 => manifest = Reachable
================================================================================
