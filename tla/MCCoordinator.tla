---------------------------- MODULE MCCoordinator ----------------------------
\* A select file and a character definition that it names; both are analysed, so a
\* file is at once a root and a dependency of another root.
EXTENDS Coordinator, FiniteSets, TLC

CONSTANTS select, character

MCFile == {select, character}
MCRoot == {select, character}
MCRefs == [r \in MCRoot |-> IF r = select THEN {character} ELSE {}]

\* The calls are alike.
MCSymmetry == Permutations(Call)

\* Bound: at a time one file whose snapshot failed, or one valid result that leaves out
\* a file that is there.
FewFailures ==
  LET overlooking == {r \in Root : /\ roots[r].valid
                                   /\ \E f \in Workspace(r, roots[r].result) :
                                        roots[r].result[f] = Absent /\ content[f] # Absent}
  IN Cardinality(misread) + Cardinality(overlooking) <= 1
=============================================================================
