----------------------------- MODULE RuntimeOracle -----------------------------
(***************************************************************************)
(* The comparison of two runtime snapshots (diffJSON in                    *)
(* src/internal/oracle/oracle.go).  A snapshot says what stands at each of *)
(* its paths: a map, a list with its length, or a scalar as it is spelled. *)
(* The paths are compared one after another; the code goes depth first and *)
(* by sorted keys, here the order is left open.                            *)
(***************************************************************************)
EXTENDS Integers, Sequences

CONSTANTS
  PathStep,    \* the keys of maps and the indexes of lists
  Read(_),     \* what a scalar as it is spelled is read as: integers of 64 bits exactly,
               \* other numbers as a double
  Snapshot     \* the snapshots that are compared

Scalar(spelled) == [type |-> "scalar", scalar |-> spelled, length |-> 0]
Map == [type |-> "map", scalar |-> "none", length |-> 0]
List(length) == [type |-> "list", scalar |-> "none", length |-> length]
Above(path, n) == SubSeq(path, 1, n)

\* What is above a path is a collection.
ASSUME SnapshotAssumption ==
  \A v \in Snapshot :
    /\ DOMAIN v \subseteq Seq(PathStep) /\ <<>> \in DOMAIN v
    /\ \A path \in DOMAIN v :
         /\ v[path] \in {Scalar(v[path].scalar), Map, List(v[path].length)}
         /\ \A n \in 0..Len(path) - 1 :
              Above(path, n) \in DOMAIN v /\ v[Above(path, n)].type # "scalar"

VARIABLES
  expected, actual,   \* the snapshots after their scalars were read
  pending,            \* the paths that are still to be compared
  mismatches          \* what was reported

oraclevars == <<expected, actual, pending, mismatches>>

Normalized(v) ==
  [path \in DOMAIN v |->
     IF v[path].type = "scalar" THEN Scalar(Read(v[path].scalar)) ELSE v[path]]

OracleInit ==
  /\ expected \in {Normalized(v) : v \in Snapshot}
  /\ actual \in {Normalized(v) : v \in Snapshot}
  /\ pending = {<<>>}
  /\ mismatches = <<>>

\* A report says where the value stands.  Its text (jsonPointer) is left out: it does not
\* tell the key "a.b" from the key "b" of the map at "a".
Report(path, kind) == mismatches' = Append(mismatches, [path |-> path, kind |-> kind])

\* The comparison goes on below a path, or does not.
Below(v, path) == {p \in DOMAIN v : Len(p) = Len(path) + 1 /\ Above(p, Len(path)) = path}
Continue(path, more) ==
  /\ pending' = (pending \ {path}) \cup more
  /\ UNCHANGED <<expected, actual>>

DiffMissing(path) ==
  /\ path \notin DOMAIN actual
  /\ Report(path, "missing") /\ Continue(path, {})

DiffUnexpected(path) ==
  /\ path \notin DOMAIN expected
  /\ Report(path, "unexpected") /\ Continue(path, {})

Comparable(path, type) ==
  path \in DOMAIN expected /\ path \in DOMAIN actual /\ expected[path].type = type

DiffScalar(path) ==
  /\ Comparable(path, "scalar")
  /\ IF expected[path] = actual[path] THEN UNCHANGED mismatches ELSE Report(path, "value")
  /\ Continue(path, {})

DiffType(path) ==
  /\ Comparable(path, "map") \/ Comparable(path, "list")
  /\ actual[path].type # expected[path].type
  /\ Report(path, "type") /\ Continue(path, {})

\* Mutant: keys that only the actual map has are not looked for.
DiffMapOneWay(path) ==
  /\ Comparable(path, "map") /\ actual[path].type = "map"
  /\ UNCHANGED mismatches
  /\ Continue(path, Below(expected, path))

\* The keys that are expected, and those that only the actual map has.
DiffMap(path) ==
  /\ Comparable(path, "map") /\ actual[path].type = "map"
  /\ UNCHANGED mismatches
  /\ Continue(path, Below(expected, path) \cup Below(actual, path))

\* The length, the common part, and the rest of the longer list.
DiffList(path) ==
  /\ Comparable(path, "list") /\ actual[path].type = "list"
  /\ IF expected[path].length = actual[path].length THEN UNCHANGED mismatches
     ELSE Report(path, "length")
  /\ Continue(path, Below(expected, path) \cup Below(actual, path))

OracleNext ==
  \E path \in pending :
    \/ DiffMissing(path) \/ DiffUnexpected(path) \/ DiffScalar(path)
    \/ DiffType(path) \/ DiffMap(path) \/ DiffList(path)

OracleSpec == OracleInit /\ [][OracleNext]_oraclevars
--------------------------------------------------------------------------------
(* Properties *)

Differs(path) ==
  \/ path \notin DOMAIN expected
  \/ path \notin DOMAIN actual
  \/ expected[path] # actual[path]

Under(path, above) == Len(above) <= Len(path) /\ Above(path, Len(above)) = above

\* The snapshots match exactly when nothing is reported (Match): every report is a
\* difference, missing or unexpected where one side has nothing, every difference is
\* reported or lies under one that is, and nothing is reported twice, for itself or
\* under another report, except under lists of different lengths.
DifferencesFound ==
  LET reported == {mismatches[i].path : i \in DOMAIN mismatches}
  IN /\ \A i \in DOMAIN mismatches :
          LET m == mismatches[i]
          IN /\ Differs(m.path)
             /\ m.kind = "missing" <=> m.path \notin DOMAIN actual
             /\ m.kind = "unexpected" <=> m.path \notin DOMAIN expected
             /\ m.kind = "length" => expected[m.path].type = "list" /\ actual[m.path].type = "list"
     /\ \A i, j \in DOMAIN mismatches : i # j =>
          /\ mismatches[i].path # mismatches[j].path
          /\ Under(mismatches[j].path, mismatches[i].path) => mismatches[i].kind = "length"
     /\ pending = {} =>
          \A path \in DOMAIN expected \cup DOMAIN actual :
            Differs(path) => \E above \in reported : Under(path, above)
================================================================================
