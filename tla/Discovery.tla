------------------------------ MODULE Discovery ------------------------------
(***************************************************************************)
(* What a scan lists of a workspace and the id its snapshot gets           *)
(* (src/internal/workspace/discovery.go).  A tree gives each path its      *)
(* content or Gone, and says how far a scan gets with it: a file that      *)
(* cannot be looked at is passed over, one that cannot be read is listed   *)
(* without a hash.  Paths are numbers in the order of their spelling.      *)
(***************************************************************************)
EXTENDS Naturals, FiniteSets

CONSTANTS
  Entry,      \* paths of a tree, 1..n
  Skipped,    \* the paths that ignore rules, exclusions and binary endings leave out
  Contents,   \* what a path holds: [size, text, access]
  MaxBytes,   \* files above this size are listed without a hash
  Gone

ASSUME EntryAssumption ==
  /\ IsFiniteSet(Entry) /\ MaxBytes \in Nat
  /\ Contents \subseteq [size : Nat, text : STRING, access : {"none", "listed", "read"}]
  /\ Gone \notin Contents

Tree == [Entry -> Contents \cup {Gone}]

Candidate(tree) == {p \in Entry \ Skipped : tree[p] # Gone /\ tree[p].access # "none"}

\* The walk stops once maxFiles files are listed, in path order.
Listed(tree, maxFiles) ==
  {p \in Candidate(tree) : Cardinality({q \in Candidate(tree) : q <= p}) <= maxFiles}

Truncated(tree, maxFiles) == Cardinality(Candidate(tree)) >= maxFiles

\* Mutant: files are told apart by their size alone.
FileRecordUnhashed(tree, p) == [path |-> p, size |-> tree[p].size, hash |-> {}]

Hashed(content) == content.size <= MaxBytes /\ content.access = "read"

FileRecord(tree, p) ==
  [path |-> p, size |-> tree[p].size, hash |-> IF Hashed(tree[p]) THEN {tree[p].text} ELSE {}]

\* Only the files that entry points and the startup manifest name count for the id.
SnapshotID(tree, active, maxFiles) ==
  [files |-> {FileRecord(tree, p) : p \in Listed(tree, maxFiles) \cap active},
   truncated |-> Truncated(tree, maxFiles)]
------------------------------------------------------------------------------
(* Properties *)

\* An edit goes unnoticed by the snapshot id only where it may: the file is not active,
\* is left out or beyond the budget, could not be looked at before or after, or was not
\* hashed before or after, too large or unreadable, and keeps its size.  An edit of an
\* inactive file is noticed only when it moves the budget.  A snapshot that does not say
\* it is truncated lists every file that could be looked at.
EditNoticed(before, after, active, maxFiles) ==
  LET edited == {p \in Entry : before[p] # after[p]}
      same == SnapshotID(before, active, maxFiles) = SnapshotID(after, active, maxFiles)
      seen(p) == p \in active /\ p \in Listed(before, maxFiles) \cup Listed(after, maxFiles)
      unhashed(p) == before[p] # Gone /\ after[p] # Gone /\ before[p].size = after[p].size
                       /\ ~Hashed(before[p]) /\ ~Hashed(after[p])
  IN /\ \A p \in edited : same /\ seen(p) => unhashed(p)
     /\ /\ edited \cap active = {}
        /\ Cardinality(Candidate(before)) = Cardinality(Candidate(after))
        => same
     /\ ~Truncated(after, maxFiles) => Listed(after, maxFiles) = Candidate(after)
==============================================================================
