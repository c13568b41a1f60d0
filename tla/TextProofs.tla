------------------------------ MODULE TextProofs ------------------------------
(***************************************************************************)
(* What TLAPS proves of expressions, of edits and of snapshots: a verdict  *)
(* that is not dynamic is final, for any expression and any inputs; a plan *)
(* gives the text that its edits describe, for any file and any edits in   *)
(* any order, or is refused for a reason; and the differences of two       *)
(* snapshots are reported, each once.                                      *)
(***************************************************************************)
EXTENDS Evaluator, TextEdits, RuntimeOracle, FiniteSetTheorems, FunctionTheorems,
        SequenceTheorems, TLAPS

-----------------------------------------------------------------------------
(* Verdicts *)

Verdict == [class : {"finite", "dynamic", "unsupported"}, kind : {"none", "bool", "int", "string"},
            value : Int]

\* A verdict now that stands later: it is the same, unless it is dynamic.
Stands(v) == v.now.class # "dynamic" => v.now = v.later

EvaluatorType ==
  /\ known \in [Run -> Inputs]
  /\ results \in Seq([Run -> Verdict])

\* What is known now is known later.
KnownInv ==
  /\ \A input \in {"random", "command", "statetype", "posY"} :
       known.now[input] \in {Absent, known.later[input]}
  /\ DOMAIN known.now.vars \subseteq DOMAIN known.later.vars
  /\ \A n \in DOMAIN known.now.vars : known.now.vars[n] = known.later.vars[n]

EvaluatorInv == EvaluatorType /\ KnownInv /\ VerdictsFinal

LEMMA Classes ==
  /\ Dynamic \in Verdict /\ Dynamic.class = "dynamic"
  /\ Unsupported \in Verdict /\ Unsupported.class = "unsupported"
  /\ \A kind \in {"bool", "int", "string"} : \A value \in Int : Finite(kind, value) \in Verdict
  /\ \A condition \in BOOLEAN : Truth(condition) \in Verdict
BY DEF Dynamic, Unsupported, Finite, Truth, Verdict

\* The integers stay integers.
LEMMA Integral ==
  ASSUME NEW l \in Int, NEW r \in Int
  PROVE  /\ Wrap(l) \in Int
         /\ r # 0 => Quotient(l, r) \in Int
<1>1. Half \in Nat \ {0}
  BY HalfAssumption
<1>2. Wrap(l) \in Int
  BY <1>1 DEF Wrap
<1>3. ASSUME r # 0 PROVE Quotient(l, r) \in Int
  <2> DEFINE abs(n) == IF n < 0 THEN -n ELSE n
  <2>1. abs(l) \in Nat /\ abs(r) \in Nat \ {0}
    BY <1>3
  <2>2. \A a \in Nat, b \in Nat \ {0} : a \div b \in Int
    OBVIOUS
  <2>3. abs(l) \div abs(r) \in Int
    BY <2>1, <2>2
  <2> QED
    BY <2>3 DEF Quotient
<1> QED
  BY <1>2, <1>3

\* An operation on two values is typed.
LEMMA OperationTyped ==
  ASSUME NEW op, NEW l \in Verdict, NEW r \in Verdict
  PROVE  op \in LogicalOperators \cup Equalities \cup Comparisons \cup ArithmeticOperators =>
           EvalBinary(op, l, r) \in Verdict
<1> SUFFICES ASSUME op \in LogicalOperators \cup Equalities \cup Comparisons \cup ArithmeticOperators
             PROVE  EvalBinary(op, l, r) \in Verdict
  OBVIOUS
<1>1. l.value \in Int /\ r.value \in Int
  BY DEF Verdict
<1>2. \A v \in Verdict : Both(l, r, v) \in Verdict
  BY Classes DEF Both
<1>3. CASE op \in LogicalOperators
  BY <1>3, Classes DEF EvalBinary, Logical
<1>4. CASE op \in Equalities
  <2>1. Equality(op, l, r) \in Verdict
    BY Classes DEF Equality
  <2> QED
    BY <1>2, <1>4, <2>1 DEF EvalBinary, LogicalOperators, Equalities
<1>5. CASE op \in Comparisons
  <2>1. Compare(op, l.value, r.value) \in Verdict
    BY <1>1, <1>5 DEF Compare, Comparisons, Truth, Finite, Verdict
  <2> QED
    BY <1>2, <1>5, <2>1, Classes DEF EvalBinary, LogicalOperators, Equalities, Comparisons
<1>6. CASE op \in ArithmeticOperators
  <2> DEFINE a == l.value
             b == r.value
  <2>1. a \in Int /\ b \in Int
    BY <1>1
  <2> HIDE DEF a, b
  <2>2. Arithmetic(op, a, b) \in Verdict
    <3>1. CASE op = "+"
      <4>1. a + b \in Int
        BY <2>1
      <4> QED
        BY <3>1, <4>1, Integral, Classes DEF Arithmetic
    <3>2. CASE op = "-"
      <4>1. a - b \in Int
        BY <2>1
      <4> QED
        BY <3>2, <4>1, Integral, Classes DEF Arithmetic
    <3>3. CASE op = "*"
      <4>1. a * b \in Int
        BY <2>1
      <4> QED
        BY <3>3, <4>1, Integral, Classes DEF Arithmetic
    <3>4. CASE op \in {"/", "%"} /\ b = 0
      BY <3>4, Classes DEF Arithmetic
    <3>5. CASE op = "/" /\ b # 0
      <4>1. Quotient(a, b) \in Int
        BY <2>1, <3>5, Integral
      <4> QED
        BY <3>5, <4>1, Integral, Classes DEF Arithmetic
    <3>6. CASE op = "%" /\ b # 0
      <4>1. Quotient(a, b) \in Int
        BY <2>1, <3>6, Integral
      <4>2. a - b * Quotient(a, b) \in Int
        BY <2>1, <4>1
      <4> QED
        BY <3>6, <4>2, Classes DEF Arithmetic
    <3> QED
      BY <1>6, <3>1, <3>2, <3>3, <3>4, <3>5, <3>6 DEF ArithmeticOperators
  <2> QED
    BY <1>2, <1>6, <2>2, Classes
    DEF EvalBinary, LogicalOperators, Equalities, Comparisons, ArithmeticOperators, a, b
<1> QED
  BY <1>3, <1>4, <1>5, <1>6

\* An operation on two values that stand gives one that stands.
LEMMA OperationStands ==
  ASSUME NEW op, NEW l, NEW r, Stands(l), Stands(r)
  PROVE  LET now == EvalBinary(op, l.now, r.now)
         IN now.class # "dynamic" => now = EvalBinary(op, l.later, r.later)
<1> DEFINE now == EvalBinary(op, l.now, r.now)
           later == EvalBinary(op, l.later, r.later)
<1>1. CASE l.now = l.later /\ r.now = r.later
  BY <1>1
<1>2. ASSUME l.now.class = "dynamic" \/ r.now.class = "dynamic",
             op \in LogicalOperators
      PROVE  now.class # "dynamic" => now = later
  BY <1>2, Classes DEF Stands, EvalBinary, Logical
<1>3. ASSUME l.now.class = "dynamic" \/ r.now.class = "dynamic",
             op \notin LogicalOperators
      PROVE  now.class # "dynamic" => now = later
  <2>1. \A v, w : LET b == Both(l.now, r.now, v)
                  IN b.class # "dynamic" => b = Both(l.later, r.later, w)
    BY <1>3, Classes DEF Both, Stands
  <2>2. (\E v : now = Both(l.now, r.now, v)) /\ (\E w : later = Both(l.later, r.later, w))
    BY <1>3 DEF EvalBinary
  <2> QED
    BY <2>1, <2>2
<1> QED
  BY <1>1, <1>2, <1>3 DEF Stands

\* The results after a node has taken its arguments.
LEMMA Left ==
  ASSUME EvaluatorType, NEW n \in Nat, NEW result \in [Run -> Verdict], Leave(n, result)
  PROVE  /\ known' = known /\ results' \in Seq([Run -> Verdict])
         /\ VerdictsFinal /\ Stands(result) => VerdictsFinal'
<1> DEFINE rest == SubSeq(results, 1, Len(results) - n)
<1>1. /\ results \in Seq([Run -> Verdict]) /\ Len(results) >= n
      /\ results' = Append(rest, result) /\ known' = known
  BY DEF EvaluatorType, Leave
<1>2. Len(results) - n \in Nat /\ Len(results) - n <= Len(results)
  BY <1>1
<1>3. /\ rest \in Seq([Run -> Verdict]) /\ Len(rest) = Len(results) - n
      /\ \A i \in 1..Len(results) - n : rest[i] = results[i] /\ i \in DOMAIN results
  BY <1>1, <1>2
<1> HIDE DEF rest
<1>4. /\ results' \in Seq([Run -> Verdict]) /\ DOMAIN results' = 1..Len(rest) + 1
      /\ results'[Len(rest) + 1] = result /\ \A i \in 1..Len(rest) : results'[i] = rest[i]
  <2> DEFINE R == [Run -> Verdict]
  <2>1. rest \in Seq(R) /\ result \in R
    BY <1>3
  <2> HIDE DEF R
  <2>2. /\ Append(rest, result) \in Seq(R) /\ DOMAIN Append(rest, result) = 1..Len(rest) + 1
        /\ Append(rest, result)[Len(rest) + 1] = result
        /\ \A i \in 1..Len(rest) : Append(rest, result)[i] = rest[i]
    BY <2>1
  <2> QED
    BY <1>1, <2>2 DEF R
<1>5. ASSUME VerdictsFinal, Stands(result) PROVE VerdictsFinal'
  <2> SUFFICES ASSUME NEW i \in DOMAIN results' PROVE Stands(results'[i])
    BY DEF VerdictsFinal, Stands
  <2>1. CASE i = Len(rest) + 1
    BY <1>4, <1>5, <2>1
  <2>2. CASE i \in 1..Len(rest)
    BY <1>3, <1>4, <1>5, <2>2 DEF VerdictsFinal, Stands
  <2> QED
    BY <1>3, <1>4, <2>1, <2>2
<1> QED
  BY <1>1, <1>4, <1>5

\* An argument on the stack is typed and stands.
LEMMA ArgFacts ==
  ASSUME EvaluatorType, VerdictsFinal, NEW n \in Nat, n < Len(results)
  PROVE  /\ Arg(n, "now") \in Verdict /\ Arg(n, "later") \in Verdict
         /\ Stands([now |-> Arg(n, "now"), later |-> Arg(n, "later")])
<1>1. Len(results) - n \in DOMAIN results /\ results \in Seq([Run -> Verdict])
  BY DEF EvaluatorType
<1>2. results[Len(results) - n] \in [Run -> Verdict]
  BY <1>1
<1> QED
  BY <1>1, <1>2 DEF Arg, Run, VerdictsFinal, Stands

\* One run of the inputs: what is given.
LEMMA InputFacts ==
  ASSUME EvaluatorType, NEW run \in Run
  PROVE  /\ \A input \in {known[run].random, known[run].command, known[run].statetype, known[run].posY} :
              /\ Given(input, "int") \in Verdict /\ Given(input, "string") \in Verdict
         /\ \A n \in DOMAIN known[run].vars : known[run].vars[n] \in Int
<1>1. known[run] \in Inputs
  BY DEF EvaluatorType
<1> QED
  BY <1>1, InputsAssumption, Classes DEF InputsAssumption, Given

\* What is given now is given later.
LEMMA GivenStands ==
  ASSUME NEW now, NEW later, NEW kind, now \in {Absent, later}
  PROVE  Given(now, kind).class # "dynamic" => Given(now, kind) = Given(later, kind)
BY Classes DEF Given

LEMMA LeafStands ==
  ASSUME EvaluatorInv, NEW op \in LeafOperators, NEW value \in Literals
  PROVE  LET result == [run \in Run |-> EvalLeaf(op, value, known[run])]
         IN result \in [Run -> Verdict] /\ Stands(result)
<1> DEFINE result == [run \in Run |-> EvalLeaf(op, value, known[run])]
<1>1. \A run \in Run : EvalLeaf(op, value, known[run]) \in Verdict
  BY InputFacts, LiteralsAssumption, Classes DEF EvaluatorInv, EvalLeaf, LeafOperators, LiteralsAssumption
<1>2. EvalLeaf(op, value, known.now).class # "dynamic" =>
        EvalLeaf(op, value, known.now) = EvalLeaf(op, value, known.later)
  <2>1. \A kind : \A input \in {"random", "command", "statetype", "posY"} :
          LET now == Given(known.now[input], kind)
          IN now.class # "dynamic" => now = Given(known.later[input], kind)
    BY GivenStands DEF EvaluatorInv, KnownInv
  <2>2. CASE op \in {"int", "string", "unsupported"}
    BY <2>2 DEF EvalLeaf
  <2>3. CASE op = "random"
    BY <2>1, <2>3 DEF EvalLeaf
  <2>4. CASE op = "command"
    BY <2>1, <2>4 DEF EvalLeaf
  <2>5. CASE op = "statetype"
    BY <2>1, <2>5 DEF EvalLeaf
  <2>6. CASE op = "pos y"
    BY <2>1, <2>6 DEF EvalLeaf
  <2> QED
    BY <2>2, <2>3, <2>4, <2>5, <2>6 DEF LeafOperators
<1> QED
  BY <1>1, <1>2 DEF Stands, Run

LEMMA UnaryStands ==
  ASSUME EvaluatorInv, NEW op, Len(results) >= 1
  PROVE  LET result == [run \in Run |-> EvalUnary(op, Arg(0, run))]
         IN result \in [Run -> Verdict] /\ Stands(result)
<1>1. \A v \in Verdict : EvalUnary(op, v) \in Verdict
  <2> TAKE v \in Verdict
  <2>1. v.value \in Int
    BY DEF Verdict
  <2>2. -v.value \in Int
    BY <2>1
  <2>3. Wrap(-v.value) \in Int
    BY <2>2, Integral
  <2> QED
    BY <2>3, Classes DEF EvalUnary
<1>2. \A v : v.class = "dynamic" => EvalUnary(op, v) = v
  BY DEF EvalUnary
<1>3. Len(results) \in Nat
  BY DEF EvaluatorInv, EvaluatorType
<1> QED
  BY <1>1, <1>2, <1>3, ArgFacts DEF EvaluatorInv, Stands, Run

LEMMA VarStands ==
  ASSUME EvaluatorInv, Len(results) >= 1
  PROVE  LET result == [run \in Run |-> EvalVar(Arg(0, run), known[run])]
         IN result \in [Run -> Verdict] /\ Stands(result)
<1>1. \A v \in Verdict, run \in Run : EvalVar(v, known[run]) \in Verdict
  BY InputFacts, Classes DEF EvaluatorInv, EvalVar
<1>2. \A v : LET now == EvalVar(v, known.now)
             IN now.class # "dynamic" => now = EvalVar(v, known.later)
  BY Classes DEF EvalVar, EvaluatorInv, KnownInv
<1>3. \A v : v.class = "dynamic" => EvalVar(v, known.now) = v
  BY DEF EvalVar
<1>4. Len(results) \in Nat
  BY DEF EvaluatorInv, EvaluatorType
<1>5. /\ Arg(0, "now") \in Verdict /\ Arg(0, "later") \in Verdict
      /\ Arg(0, "now").class # "dynamic" => Arg(0, "now") = Arg(0, "later")
  BY <1>4, ArgFacts DEF EvaluatorInv, Stands
<1> QED
  BY <1>1, <1>2, <1>3, <1>5 DEF Stands, Run

LEMMA BinaryStands ==
  ASSUME EvaluatorInv, Len(results) >= 2,
         NEW op \in LogicalOperators \cup Equalities \cup Comparisons \cup ArithmeticOperators
  PROVE  LET result == [run \in Run |-> EvalBinary(op, Arg(1, run), Arg(0, run))]
         IN result \in [Run -> Verdict] /\ Stands(result)
<1> DEFINE l == [now |-> Arg(1, "now"), later |-> Arg(1, "later")]
           r == [now |-> Arg(0, "now"), later |-> Arg(0, "later")]
<1>1. Len(results) \in Nat
  BY DEF EvaluatorInv, EvaluatorType
<1>2. /\ Arg(0, "now") \in Verdict /\ Arg(0, "later") \in Verdict /\ Stands(r)
      /\ Arg(1, "now") \in Verdict /\ Arg(1, "later") \in Verdict /\ Stands(l)
  BY <1>1, ArgFacts DEF EvaluatorInv
<1>3. \A run \in Run : EvalBinary(op, Arg(1, run), Arg(0, run)) \in Verdict
  BY <1>2, OperationTyped DEF Run
<1> HIDE DEF l, r
<1>4. LET now == EvalBinary(op, l.now, r.now)
      IN now.class # "dynamic" => now = EvalBinary(op, l.later, r.later)
  BY <1>2, OperationStands
<1>5. /\ l.now = Arg(1, "now") /\ l.later = Arg(1, "later")
      /\ r.now = Arg(0, "now") /\ r.later = Arg(0, "later")
  BY DEF l, r
<1> QED
  BY <1>3, <1>4, <1>5 DEF Stands, Run

LEMMA CondStands ==
  ASSUME EvaluatorInv, Len(results) >= 3
  PROVE  LET result == [run \in Run |-> EvalCond(Arg(2, run), Arg(1, run), Arg(0, run))]
         IN result \in [Run -> Verdict] /\ Stands(result)
<1>1. Len(results) \in Nat
  BY DEF EvaluatorInv, EvaluatorType
<1>2. \A n \in 0..2 : /\ Arg(n, "now") \in Verdict /\ Arg(n, "later") \in Verdict
                      /\ Arg(n, "now").class # "dynamic" => Arg(n, "now") = Arg(n, "later")
  BY <1>1, ArgFacts DEF EvaluatorInv, Stands
<1>3. \A u, v, w \in Verdict : EvalCond(u, v, w) \in Verdict
  BY Classes DEF EvalCond
<1>4. \A u, v, w, x, y :
        LET now == EvalCond(u, v, w)
        IN /\ v.class # "dynamic" => v = x
           /\ w.class # "dynamic" => w = y
           /\ now.class # "dynamic"
           => now = EvalCond(u, x, y)
  BY Classes DEF EvalCond
<1>5. \A u, v, w : u.class = "dynamic" => EvalCond(u, v, w) = u
  BY DEF EvalCond
<1> QED
  BY <1>2, <1>3, <1>4, <1>5 DEF Stands, Run

\* One node more.
LEMMA NodeStands ==
  EvaluatorInv /\ [EvaluatorNext]_evalvars => EvaluatorInv'
<1> SUFFICES ASSUME EvaluatorInv, [EvaluatorNext]_evalvars PROVE EvaluatorInv'
  OBVIOUS
<1>1. ASSUME NEW n \in Nat, NEW result, Leave(n, result),
             result \in [Run -> Verdict] /\ Stands(result)
      PROVE  EvaluatorInv'
  <2>1. known' = known /\ results' \in Seq([Run -> Verdict]) /\ VerdictsFinal'
    BY <1>1, Left DEF EvaluatorInv
  <2> QED
    BY <2>1 DEF EvaluatorInv, EvaluatorType, KnownInv
<1>2. CASE EvaluateLeaf
  BY <1>1, <1>2, LeafStands DEF EvaluateLeaf
<1>3. CASE EvaluateUnary
  BY <1>1, <1>3, UnaryStands DEF EvaluateUnary, Leave
<1>4. CASE EvaluateVar
  BY <1>1, <1>4, VarStands DEF EvaluateVar, Leave
<1>5. CASE EvaluateBinary
  BY <1>1, <1>5, BinaryStands DEF EvaluateBinary, Leave
<1>6. CASE EvaluateCond
  BY <1>1, <1>6, CondStands DEF EvaluateCond, Leave
<1>7. CASE UNCHANGED evalvars
  BY <1>7 DEF evalvars, EvaluatorInv, EvaluatorType, KnownInv, VerdictsFinal
<1> QED
  BY <1>2, <1>3, <1>4, <1>5, <1>6, <1>7 DEF EvaluatorNext

\* A verdict that is not dynamic is final: whatever else becomes known later, Evaluate says
\* the same of the expression (src/internal/expr/expr.go).
THEOREM VerdictsAreFinal == EvaluatorSpec => []VerdictsFinal
<1>1. EvaluatorInit => EvaluatorInv
  <2> SUFFICES ASSUME EvaluatorInit PROVE EvaluatorInv
    OBVIOUS
  <2>1. results \in Seq([Run -> Verdict]) /\ DOMAIN results = {}
    BY DEF EvaluatorInit
  <2>2. known \in [Run -> Inputs] /\ KnownInv
    BY DEF EvaluatorInit, KnownInv
  <2> QED
    BY <2>1, <2>2 DEF EvaluatorInv, EvaluatorType, VerdictsFinal
<1>2. EvaluatorInv => VerdictsFinal
  BY DEF EvaluatorInv
<1> QED
  BY <1>1, <1>2, NodeStands, PTL DEF EvaluatorSpec

-----------------------------------------------------------------------------
(* Places *)

\* The least of some numbers.
LEMMA LeastNumber ==
  ASSUME NEW S \in SUBSET Nat, S # {}
  PROVE  \E n \in S : \A m \in S : n <= m
<1> DEFINE R == {p \in Nat \X Nat : p[1] < p[2]}
<1>1. IsWellFoundedOn(R, Nat)
  BY NatLessThanWellFounded DEF OpToRel
<1> HIDE DEF R
<1>2. PICK n \in S : \A m \in S : <<m, n>> \notin R
  BY <1>1, WFMin
<1>3. ASSUME NEW m \in S PROVE n <= m
  <2>1. n \in Nat /\ m \in Nat /\ ~(m < n)
    BY <1>2 DEF R
  <2> QED
    BY <2>1
<1> QED
  BY <1>3

\* The greatest of some numbers up to a last one.
LEMMA GreatestNumber ==
  ASSUME NEW last \in Nat, NEW S \in SUBSET (0..last), S # {}
  PROVE  \E n \in S : \A m \in S : m <= n
<1> DEFINE T == {last - n : n \in S}
<1>0. \A n \in S : n \in 0..last
  OBVIOUS
<1>1. T \in SUBSET Nat /\ T # {}
  <2>1. \A n \in S : last - n \in Nat
    BY <1>0
  <2> QED
    BY <2>1
<1> HIDE DEF T
<1>2. PICK t \in T : \A u \in T : t <= u
  BY <1>1, LeastNumber
<1>3. PICK n \in S : t = last - n
  BY DEF T
<1>4. ASSUME NEW m \in S PROVE m <= n
  <2>1. last - m \in T
    BY DEF T
  <2>2. last - n <= last - m /\ m \in Int /\ n \in Int
    BY <1>2, <1>3, <2>1
  <2> QED
    BY <2>2
<1> QED
  BY <1>4

\* Every line start has more newlines before it than the bytes before.
LEMMA NewlineCounts ==
  ASSUME data \in Seq(Byte)
  PROVE  /\ \A n \in Nat : IsFiniteSet(Newlines(n)) /\ Cardinality(Newlines(n)) \in Nat
         /\ \A m, n \in 0..Len(data) : m <= n => /\ Newlines(m) \subseteq Newlines(n)
                                                 /\ Cardinality(Newlines(m)) <= Cardinality(Newlines(n))
         /\ \A m \in 0..Len(data), n \in LineStarts :
              m < n => Cardinality(Newlines(m)) < Cardinality(Newlines(n))
<1>1. ASSUME NEW n \in Nat
      PROVE  IsFiniteSet(Newlines(n)) /\ Cardinality(Newlines(n)) \in Nat
  <2>1. IsFiniteSet(1..n)
    BY FS_Interval
  <2>2. Newlines(n) \in SUBSET (1..n)
    BY DEF Newlines
  <2>3. IsFiniteSet(Newlines(n))
    BY <2>1, <2>2, FS_Subset
  <2> QED
    BY <2>3, FS_CardinalityType
<1>2. ASSUME NEW m \in 0..Len(data), NEW n \in 0..Len(data), m <= n
      PROVE  /\ Newlines(m) \subseteq Newlines(n)
             /\ Cardinality(Newlines(m)) <= Cardinality(Newlines(n))
             /\ Cardinality(Newlines(m)) = Cardinality(Newlines(n)) => Newlines(m) = Newlines(n)
  <2>1. Newlines(m) \subseteq Newlines(n)
    BY <1>2 DEF Newlines
  <2>2. IsFiniteSet(Newlines(n))
    BY <1>1
  <2> QED
    BY <2>1, <2>2, FS_Subset
<1>3. ASSUME NEW m \in 0..Len(data), NEW n \in LineStarts, m < n
      PROVE  Cardinality(Newlines(m)) < Cardinality(Newlines(n))
  <2>1. n \in 0..Len(data) /\ n \in Newlines(n) /\ n \notin Newlines(m)
    BY <1>3 DEF LineStarts, Newlines
  <2>2. /\ Cardinality(Newlines(m)) <= Cardinality(Newlines(n))
        /\ Cardinality(Newlines(m)) # Cardinality(Newlines(n))
    BY <1>2, <1>3, <2>1
  <2>3. Cardinality(Newlines(m)) \in Nat /\ Cardinality(Newlines(n)) \in Nat
    BY <1>1, <2>1
  <2> QED
    BY <2>2, <2>3
<1> QED
  BY <1>1, <1>2, <1>3

\* The line of a byte starts behind the last newline before it.
LEMMA PlaceOfByte ==
  ASSUME data \in Seq(Byte), NEW b \in 0..Len(data)
  PROVE  \E s \in LineStarts :
           /\ s \in 0..b /\ Newlines(s) = Newlines(b) /\ \A i \in s + 1..b : data[i] # LF
           /\ PlaceOf(b) = [line |-> Cardinality(Newlines(b)) + 1, column |-> b - s + 1,
                            shown |-> /\ \A i \in s + 1..b : data[i] # CR
                                      /\ b < Len(data) => RuneStart(data[b + 1])]
<1> DEFINE before == Newlines(b)
           start == IF before = {} THEN 0 ELSE CHOOSE i \in before : \A j \in before : j <= i
<1>1. PlaceOf(b) = [line |-> Cardinality(before) + 1, column |-> b - start + 1,
                    shown |-> /\ \A i \in start + 1..b : data[i] # CR
                              /\ b < Len(data) => RuneStart(data[b + 1])]
  BY DEF PlaceOf
<1>2. before \in SUBSET (0..b) /\ \A i \in before : i \in 1..b /\ data[i] = LF
  BY DEF Newlines
<1>3. CASE before = {}
  <2>1. start = 0
    BY <1>3
  <2>2. 0 \in LineStarts /\ 0 \in 0..b /\ Newlines(0) = before
    BY <1>3 DEF LineStarts, Newlines
  <2>3. \A i \in 0 + 1..b : data[i] # LF
    BY <1>3 DEF Newlines
  <2> QED
    BY <1>1, <2>1, <2>2, <2>3
<1>4. CASE before # {}
  <2>1. \E i \in before : \A j \in before : j <= i
    <3>1. b \in Nat
      OBVIOUS
    <3> HIDE DEF before
    <3> QED
      BY <1>2, <1>4, <3>1, GreatestNumber
  <2>2. start \in before /\ \A j \in before : j <= start
    BY <1>4, <2>1
  <2> HIDE DEF start
  <2>3. start \in LineStarts /\ start \in 0..b
    BY <1>2, <2>2 DEF LineStarts, Newlines
  <2>4. \A i \in start + 1..b : data[i] # LF
    <3> SUFFICES ASSUME NEW i \in start + 1..b, data[i] = LF PROVE FALSE
      OBVIOUS
    <3>1. i \in before /\ ~(i <= start)
      BY <1>2, <2>2 DEF Newlines
    <3> QED
      BY <2>2, <3>1
  <2>5. Newlines(start) = before
    BY <1>2, <2>2 DEF Newlines
  <2> QED
    BY <1>1, <2>3, <2>4, <2>5
<1> QED
  BY <1>3, <1>4

\* A line ends at its first CR or LF.
LEMMA EndOfLine ==
  ASSUME data \in Seq(Byte), NEW s \in 0..Len(data)
  PROVE  /\ LineEnd(s) \in s..Len(data)
         /\ \A b \in s..Len(data) : b <= LineEnd(s) <=> \A i \in s + 1..b : data[i] \notin {CR, LF}
         /\ LineEnd(s) < Len(data) => data[LineEnd(s) + 1] \in {CR, LF}
<1> DEFINE ends == {i \in s + 1 .. Len(data) : data[i] \in {CR, LF}}
           first == CHOOSE i \in ends : \A j \in ends : i <= j
<1>0. Len(data) \in Nat
  OBVIOUS
<1>1. LineEnd(s) = IF ends = {} THEN Len(data) ELSE first - 1
  BY DEF LineEnd
<1>2. CASE ends = {}
  BY <1>0, <1>1, <1>2
<1>3. CASE ends # {}
  <2>1. \E i \in ends : \A j \in ends : i <= j
    <3>1. ends \in SUBSET Nat
      OBVIOUS
    <3> HIDE DEF ends
    <3> QED
      BY <1>3, <3>1, LeastNumber
  <2>2. first \in ends /\ \A j \in ends : first <= j
    BY <2>1
  <2> HIDE DEF first
  <2>3. first \in s + 1..Len(data) /\ data[first] \in {CR, LF}
    BY <2>2
  <2>4. LineEnd(s) = first - 1 /\ LineEnd(s) \in s..Len(data) /\ LineEnd(s) + 1 = first
    BY <1>0, <1>1, <1>3, <2>3
  <2>5. ASSUME NEW b \in s..Len(data)
        PROVE  b <= LineEnd(s) <=> \A i \in s + 1..b : data[i] \notin {CR, LF}
    <3>1. CASE b <= LineEnd(s)
      <4>1. \A i \in s + 1..b : i \notin ends
        BY <1>0, <2>2, <2>4, <3>1
      <4>2. \A i \in s + 1..b : i \in s + 1..Len(data)
        BY <1>0
      <4> QED
        BY <3>1, <4>1, <4>2
    <3>2. CASE ~(b <= LineEnd(s))
      <4>1. first \in s + 1..b
        BY <1>0, <2>3, <2>4, <3>2
      <4> QED
        BY <2>3, <3>2, <4>1
    <3> QED
      BY <3>1, <3>2
  <2> QED
    BY <2>3, <2>4, <2>5
<1> QED
  BY <1>2, <1>3

\* ByteAt finds the byte that a place shows, and no other.
LEMMA ByteAtPlace ==
  ASSUME data \in Seq(Byte), NEW b \in 0..Len(data), NEW place \in Place,
         place.line >= 1, place.column >= 1
  PROVE  ByteAt(place) = b <=> AtPlace(b, place)
<1> DEFINE starts == {s \in LineStarts : Cardinality(Newlines(s)) + 1 = place.line}
           start == CHOOSE s \in starts : TRUE
           byte == start + place.column - 1
           end == LineEnd(start)
<1>1. ByteAt(place) = IF starts = {} \/ byte > end \/ (byte < end /\ ~RuneStart(data[byte + 1]))
                      THEN NoPlace ELSE byte
  BY DEF ByteAt
<1>2. b # NoPlace /\ Len(data) \in Nat /\ place.line \in Int /\ place.column \in Int
  BY NoPlaceAssumption DEF NoPlaceAssumption, Place
<1>3. LineStarts \subseteq 0..Len(data)
  BY DEF LineStarts, Newlines
<1>4. \A s, t \in starts : s = t
  <2> SUFFICES ASSUME NEW s \in starts, NEW t \in starts, s < t PROVE FALSE
    BY <1>3
  <2>1. Cardinality(Newlines(s)) < Cardinality(Newlines(t))
    BY <1>3, NewlineCounts
  <2>2. Cardinality(Newlines(s)) \in Nat /\ Cardinality(Newlines(t)) \in Nat
    BY <1>3, NewlineCounts
  <2> QED
    BY <1>2, <2>1, <2>2
<1>5. PICK s \in LineStarts :
           /\ s \in 0..b /\ Newlines(s) = Newlines(b) /\ \A i \in s + 1..b : data[i] # LF
           /\ PlaceOf(b) = [line |-> Cardinality(Newlines(b)) + 1, column |-> b - s + 1,
                            shown |-> /\ \A i \in s + 1..b : data[i] # CR
                                      /\ b < Len(data) => RuneStart(data[b + 1])]
  BY PlaceOfByte
<1>6. AtPlace(b, place) <=> /\ \A i \in s + 1..b : data[i] # CR
                            /\ b < Len(data) => RuneStart(data[b + 1])
                            /\ place.line = Cardinality(Newlines(b)) + 1
                            /\ place.column = b - s + 1
  BY <1>5 DEF AtPlace
<1>7. s \in 0..Len(data)
  BY <1>5
<1>8. /\ LineEnd(s) \in s..Len(data)
      /\ b <= LineEnd(s) <=> \A i \in s + 1..b : data[i] # CR
      /\ LineEnd(s) < Len(data) => data[LineEnd(s) + 1] \in {CR, LF}
  <2>1. /\ LineEnd(s) \in s..Len(data)
        /\ LineEnd(s) < Len(data) => data[LineEnd(s) + 1] \in {CR, LF}
    BY <1>7, EndOfLine
  <2>2. b \in s..Len(data)
    BY <1>2, <1>5
  <2>3. b <= LineEnd(s) <=> \A i \in s + 1..b : data[i] \notin {CR, LF}
    BY <1>7, <2>2, EndOfLine
  <2> QED
    BY <1>5, <2>1, <2>3
<1>9. \A c \in {CR, LF} : RuneStart(c)
  BY DEF CR, LF, RuneStart
<1>10. ASSUME ByteAt(place) = b PROVE AtPlace(b, place)
  <2>1. /\ starts # {} /\ byte = b /\ ~(byte > end) /\ ~(byte < end /\ ~RuneStart(data[byte + 1]))
    BY <1>1, <1>2, <1>10
  <2>2. start \in starts
    BY <2>1
  <2> HIDE DEF start
  <2>3. start \in 0..Len(data) /\ start <= b /\ start \in LineStarts /\ b - start + 1 = place.column
    BY <1>2, <1>3, <2>1, <2>2
  <2>4. LineEnd(start) \in start..Len(data) /\ b <= LineEnd(start)
    BY <2>1, <2>3, EndOfLine
  <2>5. \A i \in start + 1..b : data[i] \notin {CR, LF}
    BY <1>2, <2>3, <2>4, EndOfLine
  <2>6. Newlines(b) = Newlines(start)
    BY <1>2, <2>3, <2>5 DEF Newlines
  <2>7. s = start
    BY <1>4, <1>5, <2>2, <2>6
  <2>8. b < Len(data) => RuneStart(data[b + 1])
    <3>1. CASE b < LineEnd(s)
      BY <2>1, <2>7, <3>1
    <3>2. CASE b = LineEnd(s)
      BY <1>8, <1>9, <3>2
    <3> QED
      BY <1>2, <1>8, <2>4, <2>7, <3>1, <3>2
  <2> QED
    BY <1>6, <2>2, <2>3, <2>5, <2>6, <2>7, <2>8
<1>11. ASSUME AtPlace(b, place) PROVE ByteAt(place) = b
  <2>1. s \in starts
    BY <1>5, <1>6, <1>11
  <2>2. start = s
    BY <1>4, <2>1
  <2> HIDE DEF start
  <2>3. byte = b
    BY <1>2, <1>5, <1>6, <1>11, <2>2
  <2>4. ~(b > LineEnd(s)) /\ (b < LineEnd(s) => b < Len(data))
    BY <1>2, <1>6, <1>8, <1>11
  <2> QED
    BY <1>1, <1>6, <1>11, <2>1, <2>2, <2>3, <2>4
<1> QED
  BY <1>10, <1>11

\* An edit that is where it says, and replaces what is there.
Placed(e) ==
  /\ 0 <= e.start /\ e.start <= e.end /\ e.end <= Len(data)
  /\ SubSeq(data, e.start + 1, e.end) = e.old
  /\ e.places # NoPlace => AtPlace(e.start, e.places.start) /\ AtPlace(e.end, e.places.end)

LEMMA AcceptedPlaced ==
  ASSUME data \in Seq(Byte), NEW e \in PossibleEdit
  PROVE  Accepted(e) <=> Placed(e)
<1> SUFFICES ASSUME 0 <= e.start, e.start <= e.end, e.end <= Len(data)
             PROVE  Accepted(e) <=> Placed(e)
  BY DEF Accepted, ValidSpan, Placed
<1>1. e.start \in 0..Len(data) /\ e.end \in 0..Len(data)
  BY PossibleEditAssumption DEF PossibleEditAssumption
<1>2. CASE e.places = NoPlace
  BY <1>2 DEF Accepted, ValidSpan, Placed
<1>3. CASE e.places # NoPlace
  <2> DEFINE a == e.places.start
             b == e.places.end
  <2>1. a \in Place /\ b \in Place
    BY <1>3, PossibleEditAssumption DEF PossibleEditAssumption
  <2>2. ASSUME AtPlace(e.start, a), AtPlace(e.end, b)
        PROVE  a.line >= 1 /\ a.column >= 1 /\ b.line >= 1 /\ b.column >= 1 /\ a.line <= b.line
    <3>1. ASSUME NEW byte \in 0..Len(data), NEW place, AtPlace(byte, place)
          PROVE  place.line = Cardinality(Newlines(byte)) + 1 /\ place.column >= 1
      <4>1. PICK s \in 0..byte : PlaceOf(byte).line = Cardinality(Newlines(byte)) + 1
                                 /\ PlaceOf(byte).column = byte - s + 1
        BY PlaceOfByte
      <4> QED
        BY <3>1, <4>1 DEF AtPlace
    <3>2. /\ a.line = Cardinality(Newlines(e.start)) + 1 /\ a.column >= 1
          /\ b.line = Cardinality(Newlines(e.end)) + 1 /\ b.column >= 1
      BY <1>1, <2>2, <3>1
    <3>3. /\ Cardinality(Newlines(e.start)) \in Nat /\ Cardinality(Newlines(e.end)) \in Nat
          /\ Cardinality(Newlines(e.start)) <= Cardinality(Newlines(e.end))
      <4>1. \A m, n \in 0..Len(data) : m <= n => Cardinality(Newlines(m)) <= Cardinality(Newlines(n))
        BY NewlineCounts
      <4>2. e.start \in Nat /\ e.end \in Nat
        BY <1>1
      <4>3. Cardinality(Newlines(e.start)) \in Nat /\ Cardinality(Newlines(e.end)) \in Nat
        BY <4>2, NewlineCounts
      <4> QED
        BY <1>1, <4>1, <4>3
    <3> QED
      BY <3>2, <3>3
  <2>3. ASSUME a.line >= 1, a.column >= 1, b.line >= 1, b.column >= 1
        PROVE  /\ ByteAt(a) = e.start <=> AtPlace(e.start, a)
               /\ ByteAt(b) = e.end <=> AtPlace(e.end, b)
    BY <1>1, <2>1, <2>3, ByteAtPlace
  <2>4. ValidSpan(e) <=> /\ a.line >= 1 /\ a.column >= 1 /\ b.line >= 1 /\ b.column >= 1
                         /\ a.line <= b.line /\ ByteAt(a) = e.start /\ ByteAt(b) = e.end
    BY <1>3 DEF ValidSpan
  <2>5. ValidSpan(e) <=> AtPlace(e.start, a) /\ AtPlace(e.end, b)
    BY <2>2, <2>3, <2>4
  <2> QED
    BY <1>3, <2>5 DEF Accepted, Placed
<1> QED
  BY <1>2, <1>3

-----------------------------------------------------------------------------
(* Order *)

Sorted ==
  /\ order \in [DOMAIN edits -> DOMAIN edits]
  /\ \A i, j \in DOMAIN edits : i < j =>
       LET a == order[i]
           b == order[j]
       IN ~EditBefore(edits[b], edits[a]) /\ (a < b \/ EditBefore(edits[a], edits[b]))

AllPlaced == \A n \in DOMAIN edits : Placed(edits[n])

LEMMA EditFacts ==
  ASSUME edits \in Seq(PossibleEdit), NEW n \in DOMAIN edits
  PROVE  /\ edits[n] \in PossibleEdit /\ edits[n].start \in Int /\ edits[n].end \in Int
         /\ edits[n].new \in Seq(Byte) /\ n \in Nat /\ n # 0
         /\ ~TextBefore(edits[n].new, edits[n].new) /\ ~EditBefore(edits[n], edits[n])
<1> DEFINE e == edits[n]
<1>1. e \in PossibleEdit /\ n \in Nat /\ n # 0
  OBVIOUS
<1> HIDE DEF e
<1>2. e.start \in Int /\ e.end \in Int /\ e.new \in Seq(Byte)
  BY <1>1, PossibleEditAssumption DEF PossibleEditAssumption
<1>3. \A i \in DOMAIN e.new : e.new[i] \in Int
  <2>1. \A i \in DOMAIN e.new : e.new[i] \in Byte
    BY <1>2
  <2>2. \A x \in Byte : x \in Int
    BY DEF Byte
  <2> QED
    BY <2>1, <2>2
<1>4. ~TextBefore(e.new, e.new)
  BY <1>3 DEF TextBefore
<1>5. ~EditBefore(e, e)
  BY <1>2, <1>4 DEF EditBefore
<1> QED
  BY <1>1, <1>2, <1>4, <1>5 DEF e

\* Every edit is in the order, and once.
LEMMA SortedOnto ==
  ASSUME edits \in Seq(PossibleEdit), Sorted
  PROVE  /\ \A i, j \in DOMAIN edits : order[i] = order[j] => i = j
         /\ \A n \in DOMAIN edits : \E i \in DOMAIN edits : order[i] = n
<1> DEFINE D == DOMAIN edits
<1>1. order \in [D -> D] /\ D = 1..Len(edits) /\ Len(edits) \in Nat
  BY DEF Sorted
<1>2. ASSUME NEW i \in D, NEW j \in D, i < j PROVE order[i] # order[j]
  <2> SUFFICES ASSUME order[i] = order[j] PROVE FALSE
    OBVIOUS
  <2>1. order[i] \in D /\ ~EditBefore(edits[order[i]], edits[order[i]])
    BY <1>1, EditFacts
  <2>2. order[i] \in Nat
    BY <1>1, <2>1
  <2> QED
    BY <1>2, <2>1, <2>2 DEF Sorted
<1>3. \A i, j \in D : order[i] = order[j] => i = j
  <2> SUFFICES ASSUME NEW i \in D, NEW j \in D, order[i] = order[j] PROVE i = j
    OBVIOUS
  <2>1. i \in Int /\ j \in Int
    BY <1>1
  <2>2. ~(i < j) /\ ~(j < i)
    BY <1>2
  <2> QED
    BY <2>1, <2>2
<1>4. IsFiniteSet(D)
  BY <1>1, FS_Interval
<1> HIDE DEF D
<1>5. order \in Injection(D, D)
  BY <1>1, <1>3 DEF Injection, IsInjective
<1>6. order \in Surjection(D, D)
  BY <1>4, <1>5, FS_Injection
<1> QED
  BY <1>3, <1>6 DEF Surjection, D

\* The first of two edits does not start behind the other.
LEMMA StartsSorted ==
  ASSUME edits \in Seq(PossibleEdit), Sorted, NEW i \in DOMAIN edits, NEW j \in DOMAIN edits, i < j
  PROVE  LET a == edits[order[i]]
             b == edits[order[j]]
         IN a.start <= b.start /\ (a.start = b.start => a.end <= b.end)
<1>1. order[i] \in DOMAIN edits /\ order[j] \in DOMAIN edits
  BY DEF Sorted
<1>2. /\ edits[order[i]].start \in Int /\ edits[order[i]].end \in Int
      /\ edits[order[j]].start \in Int /\ edits[order[j]].end \in Int
  BY <1>1, EditFacts
<1>3. ~EditBefore(edits[order[j]], edits[order[i]])
  BY DEF Sorted
<1> QED
  BY <1>2, <1>3 DEF EditBefore

\* If no neighbours overlap, no two edits do.
LEMMA Apart ==
  ASSUME edits \in Seq(PossibleEdit), Sorted, ~Overlaps,
         NEW i \in DOMAIN edits, NEW j \in DOMAIN edits, i < j
  PROVE  edits[order[i]].end <= edits[order[j]].start
<1>1. Len(edits) \in Nat /\ DOMAIN edits = 1..Len(edits)
  OBVIOUS
<1>2. i + 1 \in 2..Len(edits) /\ i + 1 \in DOMAIN edits /\ (i + 1) - 1 = i
  BY <1>1
<1>3. order[i] \in DOMAIN edits /\ order[i + 1] \in DOMAIN edits /\ order[j] \in DOMAIN edits
  BY <1>2 DEF Sorted
<1>4. /\ edits[order[i]].end \in Int /\ edits[order[i + 1]].start \in Int
      /\ edits[order[j]].start \in Int
  BY <1>3, EditFacts
<1>5. edits[order[i]].end <= edits[order[i + 1]].start
  <2>1. ~(edits[order[(i + 1) - 1]].end > edits[order[i + 1]].start)
    BY <1>2 DEF Overlaps
  <2> QED
    BY <1>2, <1>4, <2>1
<1>6. CASE i + 1 = j
  BY <1>5, <1>6
<1>7. CASE i + 1 < j
  <2>1. edits[order[i + 1]].start <= edits[order[j]].start
    BY <1>2, <1>7, StartsSorted
  <2> QED
    BY <1>4, <1>5, <2>1
<1> QED
  BY <1>1, <1>6, <1>7

LEMMA ApartSound ==
  ASSUME edits \in Seq(PossibleEdit), Sorted, AllPlaced, ~Overlaps
  PROVE  Sound
<1>1. ASSUME NEW m \in DOMAIN edits, NEW n \in DOMAIN edits, m # n
      PROVE  edits[m].start >= edits[n].end \/ edits[n].start >= edits[m].end
  <2>1. PICK i \in DOMAIN edits, j \in DOMAIN edits : order[i] = m /\ order[j] = n
    BY SortedOnto
  <2>2. i \in Int /\ j \in Int /\ i # j
    BY <1>1, <2>1
  <2>3. /\ edits[m].start \in Int /\ edits[n].start \in Int
        /\ edits[m].end \in Int /\ edits[n].end \in Int
    BY EditFacts
  <2>4. CASE i < j
    BY <2>1, <2>3, <2>4, Apart
  <2>5. CASE j < i
    BY <2>1, <2>3, <2>5, Apart
  <2> QED
    BY <2>2, <2>4, <2>5
<1> QED
  BY <1>1 DEF Sound, AllPlaced, Placed

LEMMA OverlapUnsound ==
  ASSUME edits \in Seq(PossibleEdit), Sorted, Overlaps
  PROVE  ~Sound
<1> SUFFICES ASSUME Sound PROVE FALSE
  OBVIOUS
<1>1. PICK i \in 2..Len(edits) : edits[order[i - 1]].end > edits[order[i]].start
  BY DEF Overlaps
<1>2. i \in DOMAIN edits /\ i - 1 \in DOMAIN edits /\ i - 1 < i
  OBVIOUS
<1> DEFINE m == order[i - 1]
           n == order[i]
<1>3. m \in DOMAIN edits /\ n \in DOMAIN edits
  BY <1>2 DEF Sorted
<1>4. m # n
  BY <1>2, SortedOnto
<1>5. /\ edits[m].start \in Int /\ edits[n].start \in Int
      /\ edits[m].end \in Int /\ edits[n].end \in Int
  BY <1>3, EditFacts
<1>6. /\ edits[m].start <= edits[n].start
      /\ edits[m].start = edits[n].start => edits[m].end <= edits[n].end
  BY <1>2, StartsSorted
<1>7. edits[m].end > edits[n].start
  BY <1>1
<1> HIDE DEF m, n
<1>8. edits[m].start >= edits[n].end \/ edits[n].start >= edits[m].end
  BY <1>3, <1>4 DEF Sound
<1>9. edits[n].start <= edits[n].end
  BY <1>3 DEF Sound
<1> QED
  BY <1>5, <1>6, <1>7, <1>8, <1>9

-----------------------------------------------------------------------------
(* Replacing *)

Origin == Nat \X Nat

\* The edits already made, and where the part of the file that none of them moves ends.
Made == {order[k] : k \in left + 1..Len(edits)}
Border == IF left = Len(edits) THEN Len(data) ELSE edits[order[left + 1]].start

\* The bytes that the edits of a set leave and write.
BytesOf(some) ==
  {<<0, i>> : i \in {j \in DOMAIN data : \A n \in some : j <= edits[n].start \/ j > edits[n].end}}
    \cup UNION {{<<n, i>> : i \in DOMAIN edits[n].new} : n \in some}

\* The text so far is what the edits made say, and the same as the file before the border.
TextInv ==
  /\ Border <= Len(text)
  /\ \A i \in 1..Border : text[i] = <<0, i>>
  /\ {text[i] : i \in DOMAIN text} = BytesOf(Made)
  /\ \A i, j \in DOMAIN text : i < j => text[i] # text[j] /\ ~Before(text[j], text[i])

\* What Before says of the bytes of the file and of the edits.
LEMMA BeforeFacts ==
  ASSUME NEW n \in Nat, n # 0, NEW k \in Nat
  PROVE  /\ \A i \in Nat : /\ Before(<<n, k>>, <<0, i>>) => edits[n].end <= i - 1
                           /\ Before(<<0, i>>, <<n, k>>) => i <= edits[n].start
         /\ \A l \in Nat : Before(<<n, k>>, <<n, l>>) => k < l
         /\ \A m \in Nat \ {0, n}, l \in Nat :
              Before(<<m, l>>, <<n, k>>) =>
                IF edits[m].start = edits[n].end /\ edits[n].start = edits[m].end
                THEN \/ TextBefore(edits[m].new, edits[n].new)
                     \/ edits[m].new = edits[n].new /\ m < n
                ELSE edits[m].end <= edits[n].start
<1>1. \A i \in Nat : Before(<<n, k>>, <<0, i>>) => edits[n].end <= i - 1
  BY DEF Before, Together, Span
<1>2. \A i \in Nat : Before(<<0, i>>, <<n, k>>) => i <= edits[n].start
  BY DEF Before, Together, Span
<1>3. \A l \in Nat : Before(<<n, k>>, <<n, l>>) => k < l
  BY DEF Before
<1>4. \A m \in Nat \ {0, n}, l \in Nat :
        Before(<<m, l>>, <<n, k>>) =>
          IF edits[m].start = edits[n].end /\ edits[n].start = edits[m].end
          THEN \/ TextBefore(edits[m].new, edits[n].new)
               \/ edits[m].new = edits[n].new /\ m < n
          ELSE edits[m].end <= edits[n].start
  BY DEF Before, Together, Span
<1> QED
  BY <1>1, <1>2, <1>3, <1>4

\* Two sequences one after the other.
LEMMA Joined ==
  ASSUME NEW S, NEW b \in Seq(S), NEW c \in Seq(S)
  PROVE  /\ b \o c \in Seq(S) /\ Len(b \o c) = Len(b) + Len(c)
         /\ \A i \in 1..Len(b) : (b \o c)[i] = b[i]
         /\ \A i \in 1..Len(c) : (b \o c)[Len(b) + i] = c[i]
OBVIOUS

\* A piece in the middle of a sequence replaced by another one.
Splice(t, new, s, e) == SubSeq(t, 1, s) \o new \o SubSeq(t, e + 1, Len(t))

SpliceOf(v, t, new, s, e) ==
  /\ v \in Seq(Origin) /\ Len(v) = s + Len(new) + (Len(t) - e)
  /\ \A i \in 1..s : v[i] = t[i]
  /\ \A i \in 1..Len(new) : v[s + i] = new[i]
  /\ \A i \in 1..Len(t) - e : v[s + Len(new) + i] = t[e + i]

LEMMA Spliced ==
  ASSUME NEW t \in Seq(Origin), NEW new \in Seq(Origin), NEW s \in Nat, NEW e \in Nat,
         s <= e, e <= Len(t)
  PROVE  SpliceOf(Splice(t, new, s, e), t, new, s, e)
<1> DEFINE a == SubSeq(t, 1, s)
           c == SubSeq(t, e + 1, Len(t))
           m == Len(new)
<1>1. Len(t) \in Nat /\ m \in Nat /\ Len(t) - e \in Nat
  OBVIOUS
<1>2. a \in Seq(Origin) /\ Len(a) = s /\ \A i \in 1..s : a[i] = t[i]
  BY <1>1
<1>3. c \in Seq(Origin) /\ Len(c) = Len(t) - e /\ \A i \in 1..Len(t) - e : c[i] = t[e + i]
  <2>1. e + 1 \in 1..Len(t) + 1
    BY <1>1
  <2>2. \A i \in 1..Len(t) - e : (e + 1) + i - 1 = e + i
    BY <1>1
  <2> QED
    BY <1>1, <2>1, <2>2, SubSeqProperties
<1> HIDE DEF a, c
<1> DEFINE b == a \o new
<1>4. /\ b \in Seq(Origin) /\ Len(b) = s + m
      /\ \A i \in 1..s : b[i] = a[i]
      /\ \A i \in 1..m : b[s + i] = new[i]
  <2>1. a \in Seq(Origin) /\ new \in Seq(Origin)
    BY <1>2
  <2>2. /\ b \in Seq(Origin) /\ Len(b) = Len(a) + Len(new)
        /\ \A i \in 1..Len(a) : b[i] = a[i]
        /\ \A i \in 1..Len(new) : b[Len(a) + i] = new[i]
    BY <2>1, Joined
  <2> HIDE DEF b
  <2> QED
    BY <1>2, <2>2
<1> HIDE DEF b
<1> DEFINE u == b \o c
<1>5. /\ u \in Seq(Origin) /\ Len(u) = s + m + (Len(t) - e)
      /\ \A i \in 1..s + m : u[i] = b[i]
      /\ \A i \in 1..Len(t) - e : u[s + m + i] = c[i]
  <2>1. b \in Seq(Origin) /\ c \in Seq(Origin)
    BY <1>3, <1>4
  <2>2. /\ u \in Seq(Origin) /\ Len(u) = Len(b) + Len(c)
        /\ \A i \in 1..Len(b) : u[i] = b[i]
        /\ \A i \in 1..Len(c) : u[Len(b) + i] = c[i]
    BY <2>1, Joined
  <2> HIDE DEF u
  <2> QED
    BY <1>3, <1>4, <2>2
<1> HIDE DEF u
<1>6. \A i \in 1..s : u[i] = t[i]
  <2> TAKE i \in 1..s
  <2>1. i \in 1..s + m
    BY <1>1
  <2> QED
    BY <1>2, <1>4, <1>5, <2>1
<1>7. \A i \in 1..m : u[s + i] = new[i]
  <2> TAKE i \in 1..m
  <2>1. s + i \in 1..s + m
    BY <1>1
  <2> QED
    BY <1>4, <1>5, <2>1
<1>8. \A i \in 1..Len(t) - e : u[s + m + i] = t[e + i]
  BY <1>3, <1>5
<1>9. SpliceOf(u, t, new, s, e)
  BY <1>5, <1>6, <1>7, <1>8 DEF SpliceOf
<1> QED
  BY <1>9 DEF Splice, u, b, a, c

\* What holds while the edits are made.
ReplacingInv ==
  /\ data \in Seq(Byte) /\ edits \in Seq(PossibleEdit)
  /\ Sorted /\ AllPlaced /\ ~Overlaps
  /\ left \in 0..Len(edits)
  /\ text \in Seq(Origin)
  /\ TextInv

\* The bytes of a set of edits, one by one.
LEMMA BytesOfKinds ==
  ASSUME NEW some, NEW o
  PROVE  o \in BytesOf(some) <=>
           \/ \E i \in DOMAIN data : /\ \A n \in some : i <= edits[n].start \/ i > edits[n].end
                                     /\ o = <<0, i>>
           \/ \E n \in some : \E i \in DOMAIN edits[n].new : o = <<n, i>>
<1> DEFINE Kept == {<<0, i>> : i \in {j \in DOMAIN data :
                                        \A n \in some : j <= edits[n].start \/ j > edits[n].end}}
           New == UNION {{<<n, i>> : i \in DOMAIN edits[n].new} : n \in some}
<1>1. o \in Kept <=> \E i \in DOMAIN data :
                       /\ \A n \in some : i <= edits[n].start \/ i > edits[n].end
                       /\ o = <<0, i>>
  OBVIOUS
<1>2. o \in New <=> \E n \in some : \E i \in DOMAIN edits[n].new : o = <<n, i>>
  OBVIOUS
<1> QED
  BY <1>1, <1>2 DEF BytesOf

\* The edits made lie behind the one that is made next.
LEMMA MadeBehind ==
  ASSUME ReplacingInv, left > 0
  PROVE  LET n == order[left]
             e == edits[n]
         IN /\ n \in DOMAIN edits /\ n \in Nat /\ n # 0
            /\ e.start \in Nat /\ e.end \in Nat /\ e.start <= e.end /\ e.end <= Len(data)
            /\ e.new \in Seq(Byte)
            /\ Border \in Nat /\ e.end <= Border /\ Border <= Len(data)
            /\ \A k \in Made :
                 /\ k \in DOMAIN edits /\ k \in Nat /\ k # 0 /\ k # n
                 /\ edits[k].start \in Int /\ edits[k].end \in Int /\ edits[k].start <= edits[k].end
                 /\ e.end <= edits[k].start
                 /\ ~EditBefore(edits[k], e) /\ (n < k \/ EditBefore(e, edits[k]))
<1> DEFINE n == order[left]
           e == edits[n]
<1>1. /\ Len(edits) \in Nat /\ DOMAIN edits = 1..Len(edits) /\ left \in 1..Len(edits)
      /\ Len(data) \in Nat /\ order \in [DOMAIN edits -> DOMAIN edits]
  BY DEF ReplacingInv, Sorted
<1>2. \A k \in DOMAIN edits :
        /\ edits[k].start \in Nat /\ edits[k].end \in Nat /\ edits[k].start <= edits[k].end
        /\ edits[k].end <= Len(data) /\ k \in Nat /\ k # 0 /\ edits[k].new \in Seq(Byte)
  <2> TAKE k \in DOMAIN edits
  <2>1. /\ edits[k].start \in Int /\ edits[k].end \in Int
        /\ k \in Nat /\ k # 0 /\ edits[k].new \in Seq(Byte)
    BY EditFacts DEF ReplacingInv
  <2>2. 0 <= edits[k].start /\ edits[k].start <= edits[k].end /\ edits[k].end <= Len(data)
    BY DEF ReplacingInv, AllPlaced, Placed
  <2> QED
    BY <2>1, <2>2
<1>3. n \in DOMAIN edits
  BY <1>1
<1>4. ASSUME NEW q \in left + 1..Len(edits)
      PROVE  LET k == order[q]
             IN /\ k \in DOMAIN edits /\ k # n /\ e.end <= edits[k].start
                /\ ~EditBefore(edits[k], e) /\ (n < k \/ EditBefore(e, edits[k]))
  <2>1. q \in DOMAIN edits /\ left \in DOMAIN edits /\ left < q
    BY <1>1
  <2>2. order[q] \in DOMAIN edits
    BY <1>1, <2>1
  <2>3. order[q] # n
    <3>1. \A i, j \in DOMAIN edits : order[i] = order[j] => i = j
      BY SortedOnto DEF ReplacingInv
    <3> QED
      BY <2>1, <3>1
  <2>4. e.end <= edits[order[q]].start
    BY <2>1, Apart DEF ReplacingInv
  <2>5. ~EditBefore(edits[order[q]], e) /\ (n < order[q] \/ EditBefore(e, edits[order[q]]))
    BY <2>1 DEF ReplacingInv, Sorted
  <2> QED
    BY <2>2, <2>3, <2>4, <2>5
<1>5. Border \in Nat /\ e.end <= Border /\ Border <= Len(data)
  <2>1. CASE left = Len(edits)
    BY <1>1, <1>2, <1>3, <2>1 DEF Border
  <2>2. CASE left # Len(edits)
    <3>1. left + 1 \in left + 1..Len(edits)
      <4>1. left \in Int /\ Len(edits) \in Int /\ left <= Len(edits)
        BY <1>1
      <4> QED
        BY <2>2, <4>1
    <3>2. order[left + 1] \in DOMAIN edits /\ e.end <= edits[order[left + 1]].start
      BY <1>4, <3>1
    <3>3. /\ edits[order[left + 1]].start \in Nat
          /\ edits[order[left + 1]].start <= edits[order[left + 1]].end
          /\ edits[order[left + 1]].end <= Len(data)
          /\ edits[order[left + 1]].end \in Nat
      BY <1>2, <3>2
    <3>4. Border = edits[order[left + 1]].start
      BY <2>2 DEF Border
    <3> QED
      BY <1>1, <3>2, <3>3, <3>4
  <2> QED
    BY <2>1, <2>2
<1>6. ASSUME NEW k \in Made
      PROVE  /\ k \in DOMAIN edits /\ k # n /\ e.end <= edits[k].start
             /\ ~EditBefore(edits[k], e) /\ (n < k \/ EditBefore(e, edits[k]))
  <2>1. PICK q \in left + 1..Len(edits) : k = order[q]
    BY DEF Made
  <2> QED
    BY <1>4, <2>1
<1> HIDE DEF n, e
<1>7. /\ n \in Nat /\ n # 0 /\ e.start \in Nat /\ e.end \in Nat /\ e.start <= e.end
      /\ e.end <= Len(data) /\ e.new \in Seq(Byte)
  BY <1>2, <1>3 DEF e
<1>8. \A k \in Made : /\ edits[k].start \in Int /\ edits[k].end \in Int
                      /\ edits[k].start <= edits[k].end /\ k \in Nat /\ k # 0
  BY <1>2, <1>6
<1> QED
  BY <1>3, <1>5, <1>6, <1>7, <1>8 DEF n, e

\* The text behind the border is made of later bytes.
LEMMA BehindBorder ==
  ASSUME ReplacingInv, left > 0, NEW j \in edits[order[left]].end + 1..Len(text)
  PROVE  /\ text[j] \in BytesOf(Made)
         /\ \/ \E i \in DOMAIN data : text[j] = <<0, i>> /\ i > edits[order[left]].end
            \/ \E k \in Made : \E l \in DOMAIN edits[k].new : text[j] = <<k, l>>
<1> DEFINE f == edits[order[left]].end
<1>1. /\ f \in Nat /\ Border \in Nat /\ f <= Border /\ Border <= Len(data)
      /\ Border <= Len(text) /\ Len(text) \in Nat /\ DOMAIN text = 1..Len(text)
      /\ Len(data) \in Nat /\ DOMAIN data = 1..Len(data)
  BY MadeBehind DEF ReplacingInv, TextInv
<1>2. \A i \in 1..Border : text[i] = <<0, i>>
  BY DEF ReplacingInv, TextInv
<1> HIDE DEF f
<1>3. j \in DOMAIN text /\ f < j /\ j \in Int
  BY <1>1 DEF f
<1>4. text[j] \in BytesOf(Made)
  BY <1>3 DEF ReplacingInv, TextInv
<1>5. ASSUME NEW i \in DOMAIN data, text[j] = <<0, i>> PROVE i > f
  <2> SUFFICES ASSUME i <= f PROVE FALSE
    BY <1>1
  <2>1. i \in 1..Border /\ i \in DOMAIN text /\ i < j
    BY <1>1, <1>3
  <2>2. text[i] # text[j]
    BY <1>3, <2>1 DEF ReplacingInv, TextInv
  <2> QED
    BY <1>2, <1>5, <2>1, <2>2
<1> QED
  BY <1>4, <1>5, BytesOfKinds DEF f

\* One edit made.
LEMMA ReplacedFacts ==
  ASSUME ReplacingInv, left > 0
  PROVE  LET n == order[left]
             s == edits[n].start
             f == edits[n].end
             m == Len(edits[n].new)
             u == Replaced(n)
         IN /\ u \in Seq(Origin) /\ Len(u) = s + m + (Len(text) - f)
            /\ f <= Len(text) /\ m \in Nat /\ DOMAIN edits[n].new = 1..m
            /\ \A i \in 1..s : u[i] = <<0, i>> /\ text[i] = <<0, i>> /\ i \in DOMAIN data
            /\ \A i \in 1..m : u[s + i] = <<n, i>>
            /\ \A i \in 1..Len(text) - f : u[s + m + i] = text[f + i]
<1> DEFINE n == order[left]
           s == edits[n].start
           f == edits[n].end
           m == Len(edits[n].new)
           new == [i \in DOMAIN edits[n].new |-> <<n, i>>]
           u == Splice(text, new, s, f)
<1>1. /\ n \in Nat /\ s \in Nat /\ f \in Nat /\ s <= f /\ Border \in Nat /\ f <= Border
      /\ Border <= Len(data) /\ edits[n].new \in Seq(Byte)
  BY MadeBehind
<1>2. /\ text \in Seq(Origin) /\ Border <= Len(text) /\ \A i \in 1..Border : text[i] = <<0, i>>
      /\ DOMAIN data = 1..Len(data)
  BY DEF ReplacingInv, TextInv
<1>3. m \in Nat /\ DOMAIN edits[n].new = 1..m /\ Len(text) \in Nat /\ Len(data) \in Nat
  <2>1. edits[n].new \in Seq(Byte)
    BY <1>1
  <2>2. m \in Nat /\ DOMAIN edits[n].new = 1..m
    BY <2>1
  <2>3. Len(text) \in Nat
    BY <1>2
  <2>4. Len(data) \in Nat
    BY DEF ReplacingInv
  <2> QED
    BY <2>2, <2>3, <2>4
<1>4. new \in Seq(Origin) /\ Len(new) = m /\ \A i \in 1..m : new[i] = <<n, i>>
  <2>1. new \in [1..m -> Origin]
    BY <1>1, <1>3 DEF Origin
  <2> QED
    BY <1>3, <2>1
<1>5. Replaced(n) = u
  BY DEF Replaced, Splice
<1>6. f <= Len(text)
  BY <1>1, <1>2, <1>3
<1> HIDE DEF n, s, f, m, new
<1>7. /\ u \in Seq(Origin) /\ Len(u) = s + Len(new) + (Len(text) - f)
      /\ \A i \in 1..s : u[i] = text[i]
      /\ \A i \in 1..Len(new) : u[s + i] = new[i]
      /\ \A i \in 1..Len(text) - f : u[s + Len(new) + i] = text[f + i]
  <2>1. /\ text \in Seq(Origin) /\ new \in Seq(Origin) /\ s \in Nat /\ f \in Nat
        /\ s <= f /\ f <= Len(text)
    BY <1>1, <1>2, <1>4, <1>6
  <2>2. SpliceOf(u, text, new, s, f)
    BY <2>1, Spliced
  <2> HIDE DEF u
  <2> QED
    BY <2>2 DEF SpliceOf
<1> HIDE DEF u
<1>8. \A i \in 1..s : u[i] = <<0, i>> /\ text[i] = <<0, i>> /\ i \in DOMAIN data
  <2> TAKE i \in 1..s
  <2>1. i \in 1..Border /\ i \in 1..Len(data)
    BY <1>1, <1>3
  <2> QED
    BY <1>2, <1>7, <2>1
<1>9. /\ u \in Seq(Origin) /\ Len(u) = s + m + (Len(text) - f)
      /\ \A i \in 1..m : u[s + i] = <<n, i>>
      /\ \A i \in 1..Len(text) - f : u[s + m + i] = text[f + i]
  BY <1>4, <1>7
<1>10. Replaced(n) \in Seq(Origin) /\ Len(Replaced(n)) = s + m + (Len(text) - f)
       /\ (\A i \in 1..s : Replaced(n)[i] = <<0, i>> /\ text[i] = <<0, i>> /\ i \in DOMAIN data)
       /\ (\A i \in 1..m : Replaced(n)[s + i] = <<n, i>>)
       /\ (\A i \in 1..Len(text) - f : Replaced(n)[s + m + i] = text[f + i])
  BY <1>5, <1>8, <1>9
<1> QED
  BY <1>3, <1>6, <1>10 DEF n, s, f, m

\* The bytes of the text after one more edit.
LEMMA ReplacedBytes ==
  ASSUME ReplacingInv, left > 0
  PROVE  LET n == order[left]
             u == Replaced(n)
         IN {u[i] : i \in DOMAIN u} = BytesOf(Made \cup {n})
<1> DEFINE n == order[left]
           s == edits[n].start
           f == edits[n].end
           m == Len(edits[n].new)
           u == Replaced(n)
           all == Made \cup {n}
<1>1. /\ n \in Nat /\ n # 0 /\ s \in Nat /\ f \in Nat /\ s <= f /\ Border \in Nat /\ f <= Border
      /\ \A k \in Made : /\ k \in Nat /\ k # 0 /\ k # n /\ edits[k].start \in Int
                         /\ edits[k].end \in Int /\ f <= edits[k].start
                         /\ edits[k].start <= edits[k].end
  BY MadeBehind
<1>2. /\ u \in Seq(Origin) /\ Len(u) = s + m + (Len(text) - f)
      /\ f <= Len(text) /\ m \in Nat /\ DOMAIN edits[n].new = 1..m
      /\ \A i \in 1..s : u[i] = <<0, i>> /\ text[i] = <<0, i>> /\ i \in DOMAIN data
      /\ \A i \in 1..m : u[s + i] = <<n, i>>
      /\ \A i \in 1..Len(text) - f : u[s + m + i] = text[f + i]
  BY ReplacedFacts
<1>3. /\ Len(text) \in Nat /\ DOMAIN text = 1..Len(text) /\ Border <= Len(text)
      /\ \A i \in 1..Border : text[i] = <<0, i>>
      /\ {text[i] : i \in DOMAIN text} = BytesOf(Made)
      /\ DOMAIN data = 1..Len(data) /\ Len(data) \in Nat
  BY DEF ReplacingInv, TextInv
<1>4. \A j \in f + 1..Len(text) :
        /\ text[j] \in BytesOf(Made)
        /\ \/ \E i \in DOMAIN data : text[j] = <<0, i>> /\ i > f
           \/ \E k \in Made : \E l \in DOMAIN edits[k].new : text[j] = <<k, l>>
  BY BehindBorder
<1>5. DOMAIN u = 1..s + m + (Len(text) - f)
  BY <1>2
<1> HIDE DEF n, s, f, m, u, all
<1>6. /\ s \in Nat /\ f \in Nat /\ m \in Nat /\ s <= f /\ f <= Len(text) /\ Len(text) \in Nat
       /\ DOMAIN text = 1..Len(text) /\ Border \in Nat /\ f <= Border /\ Border <= Len(text)
       /\ DOMAIN edits[n].new = 1..m
  BY <1>1, <1>2, <1>3
<1>7. ASSUME NEW i \in DOMAIN data, i <= s PROVE <<0, i>> \in BytesOf(all)
  <2>1. \A k \in all : i <= edits[k].start
    BY <1>1, <1>3, <1>7 DEF all, s
  <2> QED
    BY <2>1, BytesOfKinds
<1>8. ASSUME NEW i \in 1..m PROVE <<n, i>> \in BytesOf(all)
  <2>1. n \in all /\ i \in DOMAIN edits[n].new
    BY <1>2 DEF all
  <2> QED
    BY <2>1, BytesOfKinds
<1>9. ASSUME NEW j \in f + 1..Len(text) PROVE text[j] \in BytesOf(all)
  <2>1. CASE \E i \in DOMAIN data : text[j] = <<0, i>> /\ i > f
    <3>1. PICK i \in DOMAIN data : text[j] = <<0, i>> /\ i > f
      BY <2>1
    <3>2. <<0, i>> \in BytesOf(Made)
      BY <1>4, <3>1
    <3>3. \A k \in Made : i <= edits[k].start \/ i > edits[k].end
      <4> SUFFICES ASSUME NEW k \in Made PROVE i <= edits[k].start \/ i > edits[k].end
        OBVIOUS
      <4>1. \A other \in Made : other # 0
        BY <1>1
      <4> QED
        BY <3>2, <4>1, BytesOfKinds
    <3>4. \A k \in all : i <= edits[k].start \/ i > edits[k].end
      BY <3>1, <3>3 DEF all, f
    <3> QED
      BY <3>1, <3>4, BytesOfKinds
  <2>2. CASE \E k \in Made : \E l \in DOMAIN edits[k].new : text[j] = <<k, l>>
    BY <2>2, BytesOfKinds DEF all
  <2> QED
    BY <1>4, <2>1, <2>2
<1>10. ASSUME NEW p \in DOMAIN u PROVE u[p] \in BytesOf(all)
  <2>1. CASE p <= s
    <3>1. p \in 1..s
      BY <1>5, <1>6, <2>1
    <3>2. p \in DOMAIN data /\ u[p] = <<0, p>>
      BY <1>2, <3>1
    <3> QED
      BY <1>7, <2>1, <3>2
  <2>2. CASE s < p /\ p <= s + m
    <3>1. p - s \in 1..m /\ s + (p - s) = p
      BY <1>5, <1>6, <2>2
    <3>2. u[p] = <<n, p - s>>
      BY <1>2, <3>1
    <3> QED
      BY <1>8, <3>1, <3>2
  <2>3. CASE s + m < p
    <3> DEFINE j == p - s - m
    <3>1. /\ j \in 1..Len(text) - f /\ s + m + j = p /\ f + j \in f + 1..Len(text)
      BY <1>5, <1>6, <2>3
    <3> HIDE DEF j
    <3>2. u[p] = text[f + j]
      BY <1>2, <3>1
    <3> QED
      BY <1>9, <3>1, <3>2
  <2> QED
    BY <1>5, <1>6, <2>1, <2>2, <2>3
<1>11. ASSUME NEW o \in BytesOf(Made), \A i \in 1..f : o # <<0, i>>
       PROVE  \E p \in DOMAIN u : u[p] = o
  <2>1. PICK j \in DOMAIN text : text[j] = o
    BY <1>3
  <2>2. ~(j <= f)
    <3> SUFFICES ASSUME j <= f PROVE FALSE
      OBVIOUS
    <3>1. j \in 1..Border /\ j \in 1..f
      BY <1>1, <1>3
    <3> QED
      BY <1>3, <1>11, <2>1, <3>1
  <2> DEFINE p == s + m + (j - f)
  <2>3. /\ j - f \in 1..Len(text) - f /\ p \in DOMAIN u /\ f + (j - f) = j
    BY <1>5, <1>6, <2>2
  <2>4. u[p] = text[f + (j - f)]
    BY <1>2, <2>3
  <2> QED
    BY <2>1, <2>3, <2>4
<1>12. ASSUME NEW o \in BytesOf(all) PROVE \E p \in DOMAIN u : u[p] = o
  <2>1. ASSUME NEW i \in DOMAIN data, o = <<0, i>>,
               \A k \in all : i <= edits[k].start \/ i > edits[k].end
        PROVE  \E p \in DOMAIN u : u[p] = o
    <3>1. i <= s \/ i > f
      BY <2>1 DEF all, s, f
    <3>2. CASE i <= s
      <4>1. i \in Nat /\ i >= 1
        BY <1>3
      <4>2. i \in 1..s /\ i \in DOMAIN u
        BY <1>5, <1>6, <3>2, <4>1
      <4> QED
        BY <1>2, <2>1, <4>2
    <3>3. CASE i > f
      <4>1. o \in BytesOf(Made)
        BY <2>1, BytesOfKinds DEF all
      <4>2. \A a \in 1..f : a # i
        BY <1>1, <1>3, <3>3
      <4>3. \A a \in 1..f : o # <<0, a>>
        BY <2>1, <4>2
      <4> QED
        BY <1>11, <4>1, <4>3
    <3> QED
      BY <3>1, <3>2, <3>3
  <2>2. ASSUME NEW k \in Made, NEW l \in DOMAIN edits[k].new, o = <<k, l>>
        PROVE  \E p \in DOMAIN u : u[p] = o
    <3>1. o \in BytesOf(Made)
      BY <2>2, BytesOfKinds
    <3>2. \A a \in 1..f : o # <<0, a>>
      BY <1>1, <2>2
    <3> QED
      BY <1>11, <3>1, <3>2
  <2>3. ASSUME NEW l \in DOMAIN edits[n].new, o = <<n, l>>
        PROVE  \E p \in DOMAIN u : u[p] = o
    <3>1. l \in 1..m /\ s + l \in DOMAIN u
      BY <1>5, <1>6
    <3> QED
      BY <1>2, <2>3, <3>1
  <2> QED
    BY <2>1, <2>2, <2>3, BytesOfKinds DEF all
<1>13. {u[p] : p \in DOMAIN u} = BytesOf(all)
  BY <1>10, <1>12
<1> QED
  BY <1>13 DEF u, n, all

\* Which of two bytes stands first after one more edit.
LEMMA ReplacedOrder ==
  ASSUME ReplacingInv, left > 0
  PROVE  LET u == Replaced(order[left])
         IN \A p, q \in DOMAIN u : p < q => u[p] # u[q] /\ ~Before(u[q], u[p])
<1> DEFINE n == order[left]
           s == edits[n].start
           f == edits[n].end
           m == Len(edits[n].new)
           u == Replaced(n)
<1>1. /\ n \in DOMAIN edits /\ n \in Nat /\ n # 0 /\ s \in Nat /\ f \in Nat /\ s <= f
      /\ \A k \in Made :
           /\ k \in Nat /\ k # 0 /\ k # n /\ k \in DOMAIN edits
           /\ edits[k].start \in Int /\ edits[k].end \in Int
           /\ f <= edits[k].start /\ edits[k].start <= edits[k].end
           /\ ~EditBefore(edits[k], edits[n]) /\ (n < k \/ EditBefore(edits[n], edits[k]))
  BY MadeBehind
<1>2. /\ u \in Seq(Origin) /\ Len(u) = s + m + (Len(text) - f)
      /\ f <= Len(text) /\ m \in Nat
      /\ \A i \in 1..s : u[i] = <<0, i>> /\ text[i] = <<0, i>> /\ i \in DOMAIN data
      /\ \A i \in 1..m : u[s + i] = <<n, i>>
      /\ \A i \in 1..Len(text) - f : u[s + m + i] = text[f + i]
  BY ReplacedFacts
<1>3. /\ Len(text) \in Nat /\ DOMAIN text = 1..Len(text)
      /\ \A i, j \in DOMAIN text : i < j => text[i] # text[j] /\ ~Before(text[j], text[i])
  BY DEF ReplacingInv, TextInv
<1>4. \A j \in f + 1..Len(text) :
        \/ \E i \in DOMAIN data : text[j] = <<0, i>> /\ i > f
        \/ \E k \in Made : \E l \in DOMAIN edits[k].new : text[j] = <<k, l>>
  BY BehindBorder
<1>5. /\ DOMAIN u = 1..s + m + (Len(text) - f)
      /\ DOMAIN data \subseteq Nat
      /\ \A k \in Made : DOMAIN edits[k].new \subseteq Nat
  <2>1. \A k \in Made : edits[k].new \in Seq(Byte)
    BY <1>1, EditFacts DEF ReplacingInv
  <2> QED
    BY <1>2, <2>1 DEF ReplacingInv
<1>6. ~TextBefore(edits[n].new, edits[n].new)
  BY <1>1, EditFacts DEF ReplacingInv
<1>7. ASSUME NEW l \in Nat
       PROVE  /\ \A i \in Nat : /\ Before(<<n, l>>, <<0, i>>) => f <= i - 1
                                /\ Before(<<0, i>>, <<n, l>>) => i <= s
              /\ \A i \in Nat : Before(<<n, l>>, <<n, i>>) => l < i
              /\ \A k \in Nat \ {0, n}, i \in Nat :
                   Before(<<k, i>>, <<n, l>>) =>
                     IF edits[k].start = f /\ s = edits[k].end
                     THEN \/ TextBefore(edits[k].new, edits[n].new)
                          \/ edits[k].new = edits[n].new /\ k < n
                     ELSE edits[k].end <= s
  BY <1>1, BeforeFacts
<1> HIDE DEF n, s, f, m, u
<1>8. /\ s \in Nat /\ f \in Nat /\ m \in Nat /\ s <= f /\ f <= Len(text)
       /\ Len(text) \in Nat /\ DOMAIN text = 1..Len(text) /\ n \in Nat /\ n # 0
  BY <1>1, <1>2, <1>3
<1>9. ASSUME NEW i \in 1..s, NEW l \in 1..m
      PROVE  <<0, i>> # <<n, l>> /\ ~Before(<<n, l>>, <<0, i>>)
  <2>1. Before(<<n, l>>, <<0, i>>) => f <= i - 1
    BY <1>7, <1>8
  <2> QED
    BY <1>8, <2>1
<1>10. ASSUME NEW i \in 1..m, NEW l \in 1..m, i < l
      PROVE  <<n, i>> # <<n, l>> /\ ~Before(<<n, l>>, <<n, i>>)
  <2>1. Before(<<n, l>>, <<n, i>>) => l < i
    BY <1>7, <1>8
  <2> QED
    BY <1>8, <1>10, <2>1
<1>11. ASSUME NEW l \in 1..m, NEW k \in Made, NEW i \in Nat
      PROVE  <<n, l>> # <<k, i>> /\ ~Before(<<k, i>>, <<n, l>>)
  <2> SUFFICES ASSUME Before(<<k, i>>, <<n, l>>) PROVE FALSE
    BY <1>1
  <2>1. IF edits[k].start = f /\ s = edits[k].end
        THEN \/ TextBefore(edits[k].new, edits[n].new)
             \/ edits[k].new = edits[n].new /\ k < n
        ELSE edits[k].end <= s
    <3>1. l \in Nat /\ k \in Nat \ {0, n}
      BY <1>1, <1>8
    <3> QED
      BY <1>7, <3>1
  <2>2. edits[k].start = f /\ s = edits[k].end /\ s = f
    BY <1>1, <2>1
  <2>3. edits[k].start = edits[n].start /\ edits[k].end = edits[n].end
    BY <2>2 DEF s, f
  <2>4. ~TextBefore(edits[k].new, edits[n].new)
    BY <1>1, <2>3 DEF EditBefore
  <2>5. edits[k].new = edits[n].new /\ k < n
    BY <2>1, <2>2, <2>4
  <2>6. EditBefore(edits[n], edits[k])
    BY <1>1, <2>5
  <2>7. TextBefore(edits[n].new, edits[k].new)
    <3>1. s \in Int /\ f \in Int
      BY <1>1
    <3> QED
      BY <2>3, <2>6, <3>1 DEF EditBefore, s, f
  <2> QED
    BY <1>6, <2>5, <2>7
<1>12. ASSUME NEW l \in 1..m, NEW j \in f + 1..Len(text)
       PROVE  <<n, l>> # text[j] /\ ~Before(text[j], <<n, l>>)
  <2>1. CASE \E i \in DOMAIN data : text[j] = <<0, i>> /\ i > f
    <3>1. PICK i \in DOMAIN data : text[j] = <<0, i>> /\ i > f
      BY <2>1
    <3>2. i \in Nat
      BY <1>5
    <3>3. Before(<<0, i>>, <<n, l>>) => i <= s
      BY <1>7, <1>8, <3>2
    <3> QED
      BY <1>8, <3>1, <3>2, <3>3
  <2>2. CASE \E k \in Made : \E i \in DOMAIN edits[k].new : text[j] = <<k, i>>
    BY <1>5, <1>11, <2>2
  <2> QED
    BY <1>4, <2>1, <2>2
<1>13. ASSUME NEW p \in DOMAIN u
       PROVE  \/ p \in 1..s
              \/ p - s \in 1..m /\ u[p] = <<n, p - s>>
              \/ /\ s + m < p /\ p - s - m + f \in f + 1..Len(text)
                 /\ u[p] = text[p - s - m + f]
  <2>1. p \in Nat /\ p >= 1 /\ p <= s + m + (Len(text) - f)
    BY <1>5, <1>8
  <2>2. CASE p <= s
    BY <1>1, <2>1, <2>2
  <2>3. CASE s < p /\ p <= s + m
    <3>1. p - s \in 1..m /\ s + (p - s) = p
      BY <1>8, <2>1, <2>3
    <3> QED
      BY <1>2, <3>1
  <2>4. CASE s + m < p
    <3> DEFINE i == p - s - m
    <3>1. /\ i \in 1..Len(text) - f /\ s + m + i = p /\ f + i = p - s - m + f
          /\ f + i \in f + 1..Len(text)
      BY <1>8, <2>1, <2>4
    <3>2. u[s + m + i] = text[f + i]
      BY <1>2, <3>1
    <3> QED
      BY <2>4, <3>1, <3>2
  <2> QED
    BY <1>8, <2>1, <2>2, <2>3, <2>4
<1>14. ASSUME NEW p \in DOMAIN u, NEW q \in DOMAIN u, p < q
       PROVE  u[p] # u[q] /\ ~Before(u[q], u[p])
  <2>1. p \in Int /\ q \in Int
    BY <1>5, <1>8
  <2>2. CASE p \in 1..s
    <3>1. p \in DOMAIN text /\ u[p] = text[p] /\ u[p] = <<0, p>>
      <4>1. p \in DOMAIN text
        BY <1>8, <2>2
      <4>2. u[p] = <<0, p>> /\ text[p] = <<0, p>>
        BY <1>2, <2>2
      <4> QED
        BY <4>1, <4>2
    <3>2. CASE q \in 1..s
      <4>1. q \in DOMAIN text
        BY <1>8, <3>2
      <4>2. u[q] = <<0, q>> /\ text[q] = <<0, q>>
        BY <1>2, <3>2
      <4> QED
        BY <1>3, <1>14, <3>1, <4>1, <4>2
    <3>3. CASE q - s \in 1..m /\ u[q] = <<n, q - s>>
      BY <1>9, <2>2, <3>1, <3>3
    <3>4. CASE s + m < q /\ q - s - m + f \in f + 1..Len(text) /\ u[q] = text[q - s - m + f]
      <4>1. p < q - s - m + f /\ q - s - m + f \in DOMAIN text
        BY <1>8, <2>1, <2>2, <3>4
      <4> QED
        BY <1>3, <3>1, <3>4, <4>1
    <3> QED
      BY <1>13, <3>2, <3>3, <3>4
  <2>3. CASE p - s \in 1..m /\ u[p] = <<n, p - s>>
    <3>1. ~(q \in 1..s)
      BY <1>14, <1>8, <2>1, <2>3
    <3>2. CASE q - s \in 1..m /\ u[q] = <<n, q - s>>
      <4>1. p - s < q - s
        BY <1>1, <1>14, <2>1
      <4> QED
        BY <1>10, <2>3, <3>2, <4>1
    <3>3. CASE s + m < q /\ q - s - m + f \in f + 1..Len(text) /\ u[q] = text[q - s - m + f]
      BY <1>12, <2>3, <3>3
    <3> QED
      BY <1>13, <3>1, <3>2, <3>3
  <2>4. CASE s + m < p /\ p - s - m + f \in f + 1..Len(text) /\ u[p] = text[p - s - m + f]
    <3>1. ~(q \in 1..s) /\ ~(q - s \in 1..m)
      BY <1>14, <1>8, <2>1, <2>4
    <3>2. s + m < q /\ q - s - m + f \in f + 1..Len(text) /\ u[q] = text[q - s - m + f]
      BY <1>13, <3>1
    <3>3. /\ p - s - m + f < q - s - m + f
          /\ p - s - m + f \in DOMAIN text /\ q - s - m + f \in DOMAIN text
      BY <1>14, <1>8, <2>1, <2>4, <3>2
    <3> QED
      BY <1>3, <2>4, <3>2, <3>3
  <2> QED
    BY <1>13, <2>2, <2>3, <2>4
<1> QED
  BY <1>14 DEF u, n

\* The file and its edits say which edits are sound and which bytes come first.
LEMMA Fixed ==
  ASSUME UNCHANGED <<data, edits>>
  PROVE  /\ Sound' = Sound /\ AllPlaced' = AllPlaced
<1>1. Sound' = Sound
  BY DEF Sound, AtPlace, PlaceOf, Newlines
<1>2. AllPlaced' = AllPlaced
  BY DEF AllPlaced, Placed, AtPlace, PlaceOf, Newlines
<1> QED
  BY <1>1, <1>2

\* One more edit made keeps what holds while the edits are made.
LEMMA ReplaceKeeps ==
  ASSUME ReplacingInv, Replace
  PROVE  ReplacingInv'
<1> DEFINE n == order[left]
           u == Replaced(n)
<1>1. /\ left > 0 /\ text' = u /\ left' = left - 1
      /\ data' = data /\ edits' = edits /\ order' = order
  BY DEF Replace
<1>2. /\ Len(edits) \in Nat /\ DOMAIN edits = 1..Len(edits) /\ left \in 1..Len(edits)
  BY <1>1 DEF ReplacingInv
<1>3. /\ n \in DOMAIN edits /\ edits[n].start \in Nat /\ edits[n].end \in Nat
      /\ edits[n].start <= edits[n].end /\ edits[n].end <= Border /\ Border \in Nat
      /\ Border <= Len(text)
  BY <1>1, MadeBehind DEF ReplacingInv, TextInv
<1>4. Sorted' /\ AllPlaced' /\ ~Overlaps'
  <2>1. AllPlaced'
    BY <1>1, Fixed DEF ReplacingInv
  <2>2. Sorted'
    BY <1>1 DEF ReplacingInv, Sorted
  <2>3. ~Overlaps'
    BY <1>1 DEF ReplacingInv, Overlaps
  <2> QED
    BY <2>1, <2>2, <2>3
<1>5. u \in Seq(Origin) /\ Border' = edits[n].start /\ Border' <= Len(u)
      /\ \A i \in 1..edits[n].start : u[i] = <<0, i>>
  <2>1. Border' = edits[n].start
    <3>1. left' # Len(edits') /\ left' + 1 = left
      BY <1>1, <1>2
    <3> QED
      BY <1>1, <3>1 DEF Border
  <2>2. /\ u \in Seq(Origin) /\ Len(edits[n].new) \in Nat /\ edits[n].end <= Len(text)
        /\ Len(u) = edits[n].start + Len(edits[n].new) + (Len(text) - edits[n].end)
        /\ \A i \in 1..edits[n].start : u[i] = <<0, i>>
    BY <1>1, ReplacedFacts
  <2>3. Len(text) \in Nat
    BY DEF ReplacingInv
  <2> HIDE DEF u
  <2>4. edits[n].start <= Len(u)
    BY <1>3, <2>2, <2>3
  <2> QED
    BY <2>1, <2>2, <2>4
<1>6. Made' = Made \cup {n}
  <2>1. left' + 1..Len(edits) = (left + 1..Len(edits)) \cup {left}
    BY <1>1, <1>2
  <2>2. Made' = {order[k] : k \in left' + 1..Len(edits)}
    BY <1>1 DEF Made
  <2> QED
    BY <2>1, <2>2 DEF Made
<1>7. {u[i] : i \in DOMAIN u} = BytesOf(Made \cup {n})
  BY <1>1, ReplacedBytes
<1>8. BytesOf(Made)' = BytesOf(Made \cup {n})
  BY <1>1, <1>6 DEF BytesOf
<1>9. \A p, q \in DOMAIN u : p < q => u[p] # u[q] /\ ~Before(u[q], u[p])
  BY <1>1, ReplacedOrder
<1> HIDE DEF u
<1>10. {text[i] : i \in DOMAIN text}' = BytesOf(Made)'
  BY <1>1, <1>7, <1>8
<1>11. (\A i, j \in DOMAIN text : i < j => text[i] # text[j] /\ ~Before(text[j], text[i]))'
  BY <1>1, <1>9 DEF Before, Together, Span
<1>12. TextInv'
  <2>1. Border' <= Len(text') /\ \A i \in 1..Border' : text'[i] = <<0, i>>
    BY <1>1, <1>5
  <2> QED
    BY <1>10, <1>11, <2>1 DEF TextInv
<1> QED
  BY <1>1, <1>2, <1>4, <1>5, <1>12 DEF ReplacingInv

\* Before the first edit is made, the text is the file.
LEMMA ReplacingStarts ==
  ASSUME data \in Seq(Byte), edits \in Seq(PossibleEdit), Sorted, AllPlaced, StartReplacing
  PROVE  ReplacingInv'
<1>1. /\ left' = Len(edits) /\ text' = [i \in DOMAIN data |-> <<0, i>>] /\ ~Overlaps
      /\ data' = data /\ edits' = edits /\ order' = order
  BY DEF StartReplacing
<1>2. Len(edits) \in Nat /\ DOMAIN data = 1..Len(data) /\ Len(data) \in Nat
  OBVIOUS
<1>3. Sorted' /\ AllPlaced' /\ ~Overlaps'
  <2>1. AllPlaced'
    BY <1>1, Fixed
  <2>2. Sorted'
    BY <1>1 DEF Sorted
  <2>3. ~Overlaps'
    BY <1>1 DEF Overlaps
  <2> QED
    BY <2>1, <2>2, <2>3
<1>4. Made' = {} /\ Border' = Len(data)
  <2>1. left' + 1..Len(edits') = {}
    BY <1>1, <1>2
  <2> QED
    BY <1>1, <2>1 DEF Made, Border
<1>5. text' \in Seq(Origin) /\ Len(text') = Len(data) /\ DOMAIN text' = DOMAIN data
      /\ \A i \in DOMAIN data : text'[i] = <<0, i>>
  <2>1. text' \in [1..Len(data) -> Origin]
    BY <1>1, <1>2 DEF Origin
  <2> QED
    BY <1>1, <1>2, <2>1
<1>6. {text[i] : i \in DOMAIN text}' = BytesOf(Made)'
  BY <1>1, <1>4, <1>5 DEF BytesOf
<1>7. (\A i, j \in DOMAIN text : i < j => text[i] # text[j] /\ ~Before(text[j], text[i]))'
  <2> SUFFICES ASSUME NEW i \in DOMAIN data, NEW j \in DOMAIN data, i < j
               PROVE  <<0, i>> # <<0, j>> /\ ~Before(<<0, j>>, <<0, i>>)'
    BY <1>5 DEF Before, Together, Span
  <2>1. ~(j < i) /\ i # j
    BY <1>2
  <2> QED
    BY <2>1 DEF Before
<1>8. TextInv'
  <2>1. Border' <= Len(text') /\ \A i \in 1..Border' : text'[i] = <<0, i>>
    BY <1>2, <1>4, <1>5
  <2> QED
    BY <1>6, <1>7, <2>1 DEF TextInv
<1> QED
  BY <1>1, <1>2, <1>3, <1>5, <1>8 DEF ReplacingInv

EditsInv ==
  /\ data \in Seq(Byte) /\ edits \in Seq(PossibleEdit)
  /\ phase \in {"collecting", "sorted", "replacing", "refused"}
  /\ phase = "refused" => ~Sound
  /\ phase = "sorted" => Sorted /\ AllPlaced
  /\ phase = "replacing" => ReplacingInv

LEMMA EditsInvInit == EditsInit => EditsInv
  BY FileTextAssumption DEF FileTextAssumption, EditsInit, EditsInv

LEMMA EditsInvNext == EditsInv /\ [EditsNext]_editvars => EditsInv'
<1> SUFFICES ASSUME EditsInv, [EditsNext]_editvars PROVE EditsInv'
  OBVIOUS
<1>1. data \in Seq(Byte) /\ edits \in Seq(PossibleEdit)
  BY DEF EditsInv
<1>2. ASSUME NEW e \in PossibleEdit, Collect(e) PROVE EditsInv'
  BY <1>1, <1>2 DEF EditsInv, Collect
<1>3. CASE Refuse
  <2>1. UNCHANGED <<data, edits>> /\ phase' = "refused"
    BY <1>3 DEF Refuse
  <2>2. ~AllPlaced
    <3>1. PICK n \in DOMAIN edits : ~Accepted(edits[n])
      BY <1>3 DEF Refuse
    <3>2. edits[n] \in PossibleEdit
      BY <1>1
    <3> QED
      BY <1>1, <3>1, <3>2, AcceptedPlaced DEF AllPlaced
  <2>3. ~Sound
    BY <2>2 DEF Sound, AllPlaced, Placed
  <2>4. ~Sound'
    BY <2>1, <2>3, Fixed
  <2> QED
    BY <1>1, <2>1, <2>4 DEF EditsInv
<1>4. CASE Sort
  <2>1. UNCHANGED <<data, edits>> /\ phase' = "sorted"
    BY <1>4 DEF Sort
  <2>2. AllPlaced
    <3> SUFFICES ASSUME NEW n \in DOMAIN edits PROVE Placed(edits[n])
      BY DEF AllPlaced
    <3>1. edits[n] \in PossibleEdit /\ Accepted(edits[n])
      BY <1>1, <1>4 DEF Sort
    <3> QED
      BY <1>1, <3>1, AcceptedPlaced
  <2>3. AllPlaced'
    BY <2>1, <2>2, Fixed
  <2>4. Sorted'
    BY <1>4 DEF Sort, Sorted
  <2> QED
    BY <1>1, <2>1, <2>3, <2>4 DEF EditsInv
<1>5. CASE RefuseOverlap
  <2>1. UNCHANGED <<data, edits>> /\ phase' = "refused" /\ phase = "sorted" /\ Overlaps
    BY <1>5 DEF RefuseOverlap
  <2>2. ~Sound
    BY <1>1, <2>1, OverlapUnsound DEF EditsInv
  <2>3. ~Sound'
    BY <2>1, <2>2, Fixed
  <2> QED
    BY <1>1, <2>1, <2>3 DEF EditsInv
<1>6. CASE StartReplacing
  <2>1. UNCHANGED <<data, edits>> /\ phase' = "replacing" /\ phase = "sorted"
    BY <1>6 DEF StartReplacing
  <2>2. ReplacingInv'
    BY <1>1, <1>6, <2>1, ReplacingStarts DEF EditsInv
  <2> QED
    BY <1>1, <2>1, <2>2 DEF EditsInv
<1>7. CASE Replace
  <2>1. UNCHANGED <<data, edits>> /\ phase' = "replacing" /\ phase = "replacing"
    BY <1>7 DEF Replace
  <2>2. ReplacingInv'
    BY <1>7, <2>1, ReplaceKeeps DEF EditsInv
  <2> QED
    BY <1>1, <2>1, <2>2 DEF EditsInv
<1>8. CASE UNCHANGED editvars
  <2>1. UNCHANGED <<data, edits, phase, order, left, text>>
    BY <1>8 DEF editvars
  <2>2. Sound' = Sound /\ AllPlaced' = AllPlaced
    BY <2>1, Fixed
  <2>3. Sorted' = Sorted
    BY <2>1 DEF Sorted
  <2>4. ReplacingInv' = ReplacingInv
    <3>1. Overlaps' = Overlaps
      BY <2>1 DEF Overlaps
    <3>2. TextInv' = TextInv
      BY <2>1 DEF TextInv, Border, Made, BytesOf, Before, Together, Span
    <3> QED
      BY <2>1, <2>2, <2>3, <3>1, <3>2 DEF ReplacingInv
  <2> QED
    BY <2>1, <2>2, <2>3, <2>4 DEF EditsInv
<1> QED
  BY <1>2, <1>3, <1>4, <1>5, <1>6, <1>7, <1>8 DEF EditsNext

\* The last edit made, the file is what its edits say.
LEMMA AllMade ==
  ASSUME ReplacingInv, left = 0
  PROVE  /\ Sound /\ {text[i] : i \in DOMAIN text} = Written
         /\ \A i, j \in DOMAIN text : i < j => text[i] # text[j] /\ ~Before(text[j], text[i])
<1>1. Sound
  BY ApartSound DEF ReplacingInv
<1>2. Made = DOMAIN edits
  <2>1. order \in [DOMAIN edits -> DOMAIN edits] /\ left + 1..Len(edits) = DOMAIN edits
    BY DEF ReplacingInv, Sorted
  <2>2. \A n \in DOMAIN edits : \E i \in DOMAIN edits : order[i] = n
    BY SortedOnto DEF ReplacingInv
  <2> QED
    BY <2>1, <2>2 DEF Made
<1>3. BytesOf(Made) = Written
  BY <1>2 DEF BytesOf, Written
<1> QED
  BY <1>1, <1>3 DEF ReplacingInv, TextInv

\* A plan gives the text that its edits describe, in whatever order it lists them, each byte
\* once and in its place, and is refused exactly when an edit is not where it says, or not
\* what is there, or when two edits overlap (prepare in src/internal/patch/patch.go).
THEOREM PatchesAsWritten == EditsSpec => []PatchedAsWritten
<1>1. EditsInv => PatchedAsWritten
  BY AllMade DEF EditsInv, PatchedAsWritten
<1> QED
  BY <1>1, EditsInvInit, EditsInvNext, PTL DEF EditsSpec

-----------------------------------------------------------------------------
(* Snapshots *)

\* The beginning of a path.
LEMMA Beginning ==
  ASSUME NEW x \in Seq(PathStep), NEW n \in 0..Len(x)
  PROVE  /\ Above(x, n) \in Seq(PathStep) /\ Len(Above(x, n)) = n
         /\ \A i \in 1..n : Above(x, n)[i] = x[i]
  BY DEF Above

\* One path lies under another if it begins with it.
LEMMA UnderBegins ==
  ASSUME NEW x \in Seq(PathStep), NEW q \in Seq(PathStep)
  PROVE  Under(x, q) <=> Len(q) <= Len(x) /\ \A i \in 1..Len(q) : x[i] = q[i]
<1>1. Len(q) \in Nat /\ Len(x) \in Nat
  OBVIOUS
<1>2. SUFFICES ASSUME Len(q) <= Len(x)
               PROVE  Above(x, Len(q)) = q <=> \A i \in 1..Len(q) : x[i] = q[i]
  BY DEF Under
<1> DEFINE a == Above(x, Len(q))
<1>3. a \in Seq(PathStep) /\ Len(a) = Len(q) /\ \A i \in 1..Len(q) : a[i] = x[i]
  BY <1>1, <1>2, Beginning
<1> HIDE DEF a
<1>4. ASSUME \A i \in 1..Len(q) : x[i] = q[i] PROVE a = q
  <2>1. \A i \in 1..Len(a) : a[i] = q[i]
    BY <1>3, <1>4
  <2> QED
    BY <1>3, <2>1, SeqEqual
<1> QED
  BY <1>3, <1>4 DEF a

LEMMA UnderOrders ==
  ASSUME NEW x \in Seq(PathStep), NEW p \in Seq(PathStep), NEW q \in Seq(PathStep)
  PROVE  /\ Under(x, x)
         /\ Under(x, p) /\ Under(p, q) => Under(x, q)
         /\ Under(x, p) /\ Len(x) <= Len(p) => x = p
         /\ Under(x, p) => Len(p) <= Len(x)
<1>1. Len(x) \in Nat /\ Len(p) \in Nat /\ Len(q) \in Nat
  OBVIOUS
<1>2. Under(x, x)
  BY <1>1, UnderBegins
<1>3. ASSUME Under(x, p), Under(p, q) PROVE Under(x, q)
  <2>1. /\ Len(p) <= Len(x) /\ \A i \in 1..Len(p) : x[i] = p[i]
        /\ Len(q) <= Len(p) /\ \A i \in 1..Len(q) : p[i] = q[i]
    BY <1>3, UnderBegins
  <2>2. \A i \in 1..Len(q) : x[i] = q[i]
    BY <1>1, <2>1
  <2> QED
    BY <1>1, <2>1, <2>2, UnderBegins
<1>4. ASSUME Under(x, p), Len(x) <= Len(p) PROVE x = p
  <2>1. Len(p) <= Len(x) /\ \A i \in 1..Len(p) : x[i] = p[i]
    BY <1>4, UnderBegins
  <2>2. Len(x) = Len(p)
    BY <1>1, <1>4, <2>1
  <2> QED
    BY <2>1, <2>2, SeqEqual
<1>5. Under(x, p) => Len(p) <= Len(x)
  BY DEF Under
<1> QED
  BY <1>2, <1>3, <1>4, <1>5

\* A path one step below another.
Child(c, p) == Len(c) = Len(p) + 1 /\ Above(c, Len(p)) = p

LEMMA ChildUnder ==
  ASSUME NEW c \in Seq(PathStep), NEW p \in Seq(PathStep), NEW q \in Seq(PathStep), Child(c, p)
  PROVE  /\ Under(c, p) /\ c # p /\ ~Under(p, c)
         /\ Under(c, q) => c = q \/ Under(p, q)
         /\ Child(q, p) /\ Under(c, q) => c = q
<1>1. Len(c) \in Nat /\ Len(p) \in Nat /\ Len(q) \in Nat /\ Len(c) = Len(p) + 1
  BY DEF Child
<1>2. Under(c, p)
  BY <1>1 DEF Under, Child
<1>3. c # p /\ ~Under(p, c)
  BY <1>1 DEF Under
<1>4. ASSUME Under(c, q), c # q PROVE Under(p, q)
  <2>1. ~(Len(c) <= Len(q))
    BY <1>4, UnderOrders
  <2>2. /\ \A i \in 1..Len(q) : c[i] = q[i]
        /\ \A i \in 1..Len(p) : c[i] = p[i]
    BY <1>2, <1>4, UnderBegins
  <2>3. Len(q) <= Len(p)
    BY <1>1, <2>1
  <2>4. \A i \in 1..Len(q) : p[i] = q[i]
    BY <1>1, <2>2, <2>3
  <2> QED
    BY <2>3, <2>4, UnderBegins
<1>5. Child(q, p) /\ Under(c, q) => c = q
  BY <1>1, UnderOrders DEF Child
<1> QED
  BY <1>2, <1>3, <1>4, <1>5

\* What SnapshotAssumption says of a snapshot, and reading its scalars keeps.
Tree(v) ==
  /\ DOMAIN v \subseteq Seq(PathStep) /\ <<>> \in DOMAIN v
  /\ \A path \in DOMAIN v :
       /\ v[path].type \in {"scalar", "map", "list"}
       /\ v[path].type = "map" => v[path] = Map
       /\ v[path].type = "list" => v[path] = List(v[path].length)
       /\ \A n \in 0..Len(path) - 1 :
            Above(path, n) \in DOMAIN v /\ v[Above(path, n)].type # "scalar"

\* Whatever lies under a path lies under one of the paths just below it.
LEMMA Deeper ==
  ASSUME NEW v, Tree(v), NEW x \in DOMAIN v, NEW w \in Seq(PathStep), Under(x, w), x # w
  PROVE  /\ w \in DOMAIN v /\ v[w].type # "scalar"
         /\ \E c \in Below(v, w) : Under(x, c)
<1>1. x \in Seq(PathStep) /\ Len(x) \in Nat /\ Len(w) \in Nat
  BY DEF Tree
<1>2. Len(w) < Len(x)
  BY <1>1, UnderOrders
<1>3. w \in DOMAIN v /\ v[w].type # "scalar"
  <2>1. Above(x, Len(w)) = w /\ Len(w) \in 0..Len(x) - 1
    BY <1>1, <1>2 DEF Under
  <2> QED
    BY <2>1 DEF Tree
<1> DEFINE c == Above(x, Len(w) + 1)
<1>4. /\ c \in Seq(PathStep) /\ Len(c) = Len(w) + 1
      /\ \A i \in 1..Len(w) + 1 : c[i] = x[i]
  <2>1. Len(w) + 1 \in 0..Len(x)
    BY <1>1, <1>2
  <2> QED
    BY <1>1, <2>1, Beginning
<1>5. c \in DOMAIN v
  <2>1. CASE Len(w) + 1 = Len(x)
    <3>1. \A i \in 1..Len(x) : c[i] = x[i]
      BY <1>4, <2>1
    <3>2. c = x
      BY <1>1, <1>4, <2>1, <3>1, SeqEqual
    <3> QED
      BY <3>2
  <2>2. CASE Len(w) + 1 # Len(x)
    <3>1. Len(w) + 1 \in 0..Len(x) - 1
      BY <1>1, <1>2, <2>2
    <3> QED
      BY <3>1 DEF Tree
  <2> QED
    BY <2>1, <2>2
<1> HIDE DEF c
<1>6. Under(c, w)
  <2>1. \A i \in 1..Len(w) : x[i] = w[i]
    BY <1>1, UnderBegins
  <2>2. \A i \in 1..Len(w) : c[i] = w[i]
    BY <1>1, <1>4, <2>1
  <2> QED
    BY <1>1, <1>4, <2>2, UnderBegins
<1>7. Under(x, c)
  <2>1. Len(c) <= Len(x) /\ \A i \in 1..Len(c) : x[i] = c[i]
    BY <1>1, <1>2, <1>4
  <2> QED
    BY <1>1, <1>4, <2>1, UnderBegins
<1> QED
  BY <1>3, <1>4, <1>5, <1>6, <1>7 DEF Below, Under

Paths == DOMAIN expected \cup DOMAIN actual

\* What DifferencesFound says of one report.
RightReport(path, kind) ==
  /\ Differs(path)
  /\ kind = "missing" <=> path \notin DOMAIN actual
  /\ kind = "unexpected" <=> path \notin DOMAIN expected
  /\ kind = "length" => expected[path].type = "list" /\ actual[path].type = "list"

Kinds == {"missing", "unexpected", "value", "type", "length"}

OracleType ==
  /\ Tree(expected) /\ Tree(actual)
  /\ pending \subseteq Paths
  /\ mismatches \in Seq([path : Paths, kind : Kinds])

ReportsRight == \A i \in DOMAIN mismatches : RightReport(mismatches[i].path, mismatches[i].kind)

\* Nothing is reported twice, for itself or under another report, except under lists of
\* different lengths.
ReportsApart ==
  \A i, j \in DOMAIN mismatches : i # j =>
    /\ mismatches[i].path # mismatches[j].path
    /\ Under(mismatches[j].path, mismatches[i].path) => mismatches[i].kind = "length"

\* What is pending lies under nothing else that is, and above no report.
PendingApart ==
  /\ \A w \in pending, i \in DOMAIN mismatches :
       /\ ~Under(mismatches[i].path, w)
       /\ Under(w, mismatches[i].path) => mismatches[i].kind = "length"
  /\ \A v, w \in pending : Under(v, w) => v = w

\* A difference is reported, or something above it is, or is pending.
AllCovered ==
  \A x \in Paths : Differs(x) => \/ \E i \in DOMAIN mismatches : Under(x, mismatches[i].path)
                                 \/ \E w \in pending : Under(x, w)

OracleInv == OracleType /\ ReportsRight /\ ReportsApart /\ PendingApart /\ AllCovered

LEMMA PathsArePaths ==
  ASSUME OracleType
  PROVE  /\ Paths \subseteq Seq(PathStep) /\ pending \subseteq Seq(PathStep)
         /\ \A i \in DOMAIN mismatches : mismatches[i].path \in Seq(PathStep)
<1>1. Paths \subseteq Seq(PathStep)
  BY DEF OracleType, Tree, Paths
<1>2. \A i \in DOMAIN mismatches : mismatches[i].path \in Paths
  <2> DEFINE Reports == [path : Paths, kind : Kinds]
  <2>1. mismatches \in Seq(Reports)
    BY DEF OracleType
  <2> HIDE DEF Reports
  <2>2. \A i \in DOMAIN mismatches : mismatches[i] \in Reports
    BY <2>1
  <2> QED
    BY <2>2 DEF Reports
<1> QED
  BY <1>1, <1>2 DEF OracleType

\* What the paths that are now pending have to do with the others.
LEMMA MoreApart ==
  ASSUME OracleInv, NEW w \in pending, NEW c \in Paths, Child(c, w)
  PROVE  /\ Under(c, w) /\ ~Under(w, c)
         /\ \A i \in DOMAIN mismatches :
              /\ ~Under(mismatches[i].path, c)
              /\ Under(c, mismatches[i].path) => mismatches[i].kind = "length"
         /\ \A v \in pending \ {w} : ~Under(c, v) /\ ~Under(v, c)
         /\ \A d \in Paths : Child(d, w) /\ Under(c, d) => c = d
<1> USE DEF OracleInv
<1>1. /\ Paths \subseteq Seq(PathStep) /\ pending \subseteq Seq(PathStep)
      /\ \A i \in DOMAIN mismatches : mismatches[i].path \in Seq(PathStep)
  BY PathsArePaths
<1>2. c \in Seq(PathStep) /\ w \in Seq(PathStep)
  BY <1>1
<1>3. Under(c, w) /\ ~Under(w, c)
  BY <1>2, ChildUnder
<1>4. ASSUME NEW i \in DOMAIN mismatches
      PROVE  /\ ~Under(mismatches[i].path, c)
             /\ Under(c, mismatches[i].path) => mismatches[i].kind = "length"
  <2> DEFINE p == mismatches[i].path
  <2>1. p \in Seq(PathStep) /\ ~Under(p, w) /\ (Under(w, p) => mismatches[i].kind = "length")
    BY <1>1 DEF PendingApart
  <2> HIDE DEF p
  <2>2. ~Under(p, c)
    BY <1>2, <1>3, <2>1, UnderOrders
  <2>3. Under(c, p) => c = p \/ Under(w, p)
    BY <1>2, <2>1, ChildUnder
  <2>4. c # p
    BY <1>3, <2>1
  <2> QED
    BY <2>1, <2>2, <2>3, <2>4 DEF p
<1>5. ASSUME NEW v \in pending \ {w}
      PROVE  ~Under(c, v) /\ ~Under(v, c)
  <2>1. v \in Seq(PathStep) /\ ~Under(v, w) /\ ~Under(w, v)
    BY <1>1 DEF PendingApart
  <2>2. ~Under(v, c)
    BY <1>2, <1>3, <2>1, UnderOrders
  <2>3. c # v
    BY <1>3, <2>1
  <2> QED
    BY <1>2, <2>1, <2>2, <2>3, ChildUnder
<1>6. \A d \in Paths : Child(d, w) /\ Under(c, d) => c = d
  BY <1>1, <1>2, ChildUnder
<1> QED
  BY <1>3, <1>4, <1>5, <1>6

\* One path compared, without a report: what differs under it lies under a path that is
\* now pending.
LEMMA QuietStep ==
  ASSUME OracleInv, NEW w \in pending, NEW more \in SUBSET {c \in Paths : Child(c, w)},
         UNCHANGED mismatches, Continue(w, more),
         \A x \in Paths : Differs(x) /\ Under(x, w) => \E c \in more : Under(x, c)
  PROVE  OracleInv'
<1> USE DEF OracleInv, Continue
<1>1. /\ Paths \subseteq Seq(PathStep) /\ pending \subseteq Seq(PathStep)
      /\ \A i \in DOMAIN mismatches : mismatches[i].path \in Seq(PathStep)
  BY PathsArePaths
<1>2. \A c \in more : c \in Paths /\ Child(c, w) /\ c \in Seq(PathStep) /\ w \in Seq(PathStep)
  BY <1>1
<1>3. Paths' = Paths /\ \A x : Differs(x)' = Differs(x)
  BY DEF Paths, Differs
<1>4. OracleType'
  BY <1>2, <1>3 DEF OracleType
<1>5. ReportsRight'
  BY DEF ReportsRight, RightReport, Differs
<1>6. ReportsApart'
  BY DEF ReportsApart
<1>7. PendingApart'
  <2>1. \A c \in more, i \in DOMAIN mismatches :
          /\ ~Under(mismatches[i].path, c)
          /\ Under(c, mismatches[i].path) => mismatches[i].kind = "length"
    BY <1>2, MoreApart
  <2>2. \A c \in more, v \in pending \ {w} : ~Under(c, v) /\ ~Under(v, c)
    BY <1>2, MoreApart
  <2>3. \A c, d \in more : Under(c, d) => c = d
    BY <1>2, MoreApart
  <2>4. \A u \in pending', i \in DOMAIN mismatches :
          /\ ~Under(mismatches[i].path, u)
          /\ Under(u, mismatches[i].path) => mismatches[i].kind = "length"
    BY <2>1 DEF PendingApart
  <2>5. \A u, v \in pending' : Under(u, v) => u = v
    BY <2>2, <2>3 DEF PendingApart
  <2> QED
    BY <2>4, <2>5 DEF PendingApart
<1>8. AllCovered'
  <2> SUFFICES ASSUME NEW x \in Paths, Differs(x),
                      \A i \in DOMAIN mismatches : ~Under(x, mismatches[i].path)
               PROVE  \E u \in pending' : Under(x, u)
    BY <1>3 DEF AllCovered
  <2>1. PICK u \in pending : Under(x, u)
    BY DEF AllCovered
  <2>2. CASE u = w
    BY <2>1, <2>2
  <2>3. CASE u # w
    BY <2>1, <2>3
  <2> QED
    BY <2>2, <2>3
<1> QED
  BY <1>4, <1>5, <1>6, <1>7, <1>8

\* One path compared and reported: only lists are looked into all the same.
LEMMA ReportStep ==
  ASSUME OracleInv, NEW w \in pending, NEW more \in SUBSET {c \in Paths : Child(c, w)},
         NEW kind \in Kinds, RightReport(w, kind),
         kind # "length" => more = {},
         Report(w, kind), Continue(w, more)
  PROVE  OracleInv'
<1> USE DEF OracleInv, Continue
<1> DEFINE new == [path |-> w, kind |-> kind]
           D == DOMAIN mismatches
           N == Len(mismatches) + 1
<1>1. /\ Paths \subseteq Seq(PathStep) /\ pending \subseteq Seq(PathStep)
      /\ \A i \in D : mismatches[i].path \in Seq(PathStep)
  BY PathsArePaths
<1>2. /\ w \in Paths /\ w \in Seq(PathStep)
      /\ \A c \in more : c \in Paths /\ Child(c, w)
  BY <1>1 DEF OracleType
<1>3. Paths' = Paths /\ \A x : Differs(x)' = Differs(x)
  BY DEF Paths, Differs
<1>4. /\ mismatches' \in Seq([path : Paths, kind : Kinds])
      /\ DOMAIN mismatches' = D \cup {N} /\ N \notin D
      /\ \A i \in D : mismatches'[i] = mismatches[i]
      /\ mismatches'[N] = new
  <2>1. mismatches \in Seq([path : Paths, kind : Kinds]) /\ new \in [path : Paths, kind : Kinds]
    BY <1>2 DEF OracleType
  <2> HIDE DEF new
  <2>2. mismatches' = Append(mismatches, new)
    BY DEF Report, new
  <2> QED
    BY <2>1, <2>2
<1>5. new.path = w /\ new.kind = kind
  OBVIOUS
<1> HIDE DEF new, D, N
<1>6. OracleType'
  BY <1>2, <1>3, <1>4 DEF OracleType
<1>7. ReportsRight'
  <2>1. \A i \in D \cup {N} : RightReport(mismatches'[i].path, mismatches'[i].kind)
    BY <1>4, <1>5 DEF ReportsRight, D
  <2> QED
    BY <1>3, <1>4, <2>1 DEF ReportsRight, RightReport, Differs
<1>8. \A i \in D : /\ ~Under(mismatches[i].path, w)
                   /\ Under(w, mismatches[i].path) => mismatches[i].kind = "length"
                   /\ mismatches[i].path # w
  <2>1. Under(w, w)
    BY <1>2, UnderOrders
  <2> QED
    BY <2>1 DEF PendingApart, D
<1>9. ReportsApart'
  <2> SUFFICES ASSUME NEW i \in D \cup {N}, NEW j \in D \cup {N}, i # j
               PROVE  /\ mismatches'[i].path # mismatches'[j].path
                      /\ Under(mismatches'[j].path, mismatches'[i].path) =>
                           mismatches'[i].kind = "length"
    BY <1>4 DEF ReportsApart
  <2>1. CASE i \in D /\ j \in D
    BY <1>4, <2>1 DEF ReportsApart, D
  <2>2. CASE i = N /\ j \in D
    BY <1>4, <1>5, <1>8, <2>2
  <2>3. CASE i \in D /\ j = N
    BY <1>4, <1>5, <1>8, <2>3
  <2> QED
    BY <2>1, <2>2, <2>3
<1>10. PendingApart'
  <2>1. \A c \in more, i \in D :
          /\ ~Under(mismatches[i].path, c)
          /\ Under(c, mismatches[i].path) => mismatches[i].kind = "length"
    BY <1>2, MoreApart DEF D
  <2>2. \A c \in more, v \in pending \ {w} : ~Under(c, v) /\ ~Under(v, c)
    BY <1>2, MoreApart
  <2>3. \A c, d \in more : Under(c, d) => c = d
    BY <1>2, MoreApart
  <2>4. \A u \in pending', i \in D :
          /\ ~Under(mismatches[i].path, u)
          /\ Under(u, mismatches[i].path) => mismatches[i].kind = "length"
    BY <2>1 DEF PendingApart, D
  <2>5. \A u \in pending' : ~Under(w, u) /\ (Under(u, w) => kind = "length")
    <3>1. \A c \in more : ~Under(w, c) /\ kind = "length"
      BY <1>2, MoreApart
    <3>2. \A v \in pending \ {w} : ~Under(v, w) /\ ~Under(w, v)
      BY DEF PendingApart
    <3> QED
      BY <3>1, <3>2
  <2>6. \A u \in pending', i \in D \cup {N} :
          /\ ~Under(mismatches'[i].path, u)
          /\ Under(u, mismatches'[i].path) => mismatches'[i].kind = "length"
    BY <1>4, <1>5, <2>4, <2>5
  <2>7. \A u, v \in pending' : Under(u, v) => u = v
    BY <2>2, <2>3 DEF PendingApart
  <2> QED
    BY <1>4, <2>6, <2>7 DEF PendingApart
<1>11. AllCovered'
  <2> SUFFICES ASSUME NEW x \in Paths, Differs(x)
               PROVE  \/ \E i \in D \cup {N} : Under(x, mismatches'[i].path)
                      \/ \E u \in pending' : Under(x, u)
    BY <1>3, <1>4 DEF AllCovered
  <2>1. CASE \E i \in D : Under(x, mismatches[i].path)
    BY <1>4, <2>1
  <2>2. CASE \E u \in pending : Under(x, u)
    <3>1. PICK u \in pending : Under(x, u)
      BY <2>2
    <3>2. CASE u = w
      BY <1>4, <1>5, <3>1, <3>2
    <3>3. CASE u # w
      BY <3>1, <3>3
    <3> QED
      BY <3>2, <3>3
  <2> QED
    BY <2>1, <2>2 DEF AllCovered, D
<1> QED
  BY <1>6, <1>7, <1>9, <1>10, <1>11

LEMMA OracleInvInit == OracleInit => OracleInv
<1> SUFFICES ASSUME OracleInit PROVE OracleInv
  OBVIOUS
<1>1. ASSUME NEW v \in Snapshot PROVE Tree(Normalized(v))
  <2> DEFINE u == Normalized(v)
  <2>1. /\ DOMAIN v \subseteq Seq(PathStep) /\ <<>> \in DOMAIN v
        /\ \A path \in DOMAIN v :
             /\ v[path] \in {Scalar(v[path].scalar), Map, List(v[path].length)}
             /\ \A n \in 0..Len(path) - 1 :
                  Above(path, n) \in DOMAIN v /\ v[Above(path, n)].type # "scalar"
    BY SnapshotAssumption DEF SnapshotAssumption
  <2>2. \A path \in DOMAIN v : /\ v[path].type \in {"scalar", "map", "list"}
                               /\ v[path].type = "map" => v[path] = Map
                               /\ v[path].type = "list" => v[path] = List(v[path].length)
    <3> TAKE path \in DOMAIN v
    <3>1. CASE v[path] = Scalar(v[path].scalar)
      <4>1. v[path].type = "scalar"
        BY ONLY <3>1 DEF Scalar
      <4> QED
        BY <4>1
    <3>2. CASE v[path] = Map
      <4>1. v[path].type = "map"
        BY ONLY <3>2 DEF Map
      <4> QED
        BY <3>2, <4>1
    <3>3. CASE v[path] = List(v[path].length)
      <4>1. v[path].type = "list"
        BY ONLY <3>3 DEF List
      <4> QED
        BY <3>3, <4>1
    <3> QED
      BY <2>1, <3>1, <3>2, <3>3
  <2>3. /\ DOMAIN u = DOMAIN v
        /\ \A path \in DOMAIN v : /\ u[path].type = v[path].type
                                  /\ v[path].type # "scalar" => u[path] = v[path]
    BY DEF Normalized, Scalar
  <2> HIDE DEF u
  <2>4. \A path \in DOMAIN u :
          /\ u[path].type \in {"scalar", "map", "list"}
          /\ u[path].type = "map" => u[path] = Map
          /\ u[path].type = "list" => u[path] = List(u[path].length)
    <3> TAKE path \in DOMAIN u
    <3>1. path \in DOMAIN v /\ u[path].type = v[path].type
          /\ (v[path].type # "scalar" => u[path] = v[path])
      BY <2>3
    <3> QED
      BY <2>2, <3>1
  <2>5. \A path \in DOMAIN u : \A n \in 0..Len(path) - 1 :
          Above(path, n) \in DOMAIN u /\ u[Above(path, n)].type # "scalar"
    BY <2>1, <2>3
  <2>6. Tree(u)
    BY <2>1, <2>3, <2>4, <2>5 DEF Tree
  <2> QED
    BY <2>6 DEF u
<1>2. Tree(expected) /\ Tree(actual) /\ pending = {<<>>} /\ mismatches = <<>>
  BY <1>1 DEF OracleInit
<1>3. Paths \subseteq Seq(PathStep) /\ <<>> \in Paths
  BY <1>2 DEF Tree, Paths
<1>4. OracleType
  BY <1>2, <1>3 DEF OracleType
<1>5. ReportsRight /\ ReportsApart
  BY <1>2 DEF ReportsRight, ReportsApart
<1>6. PendingApart
  BY <1>2 DEF PendingApart
<1>7. AllCovered
  <2> SUFFICES ASSUME NEW x \in Paths PROVE Under(x, <<>>)
    BY <1>2 DEF AllCovered
  <2>1. x \in Seq(PathStep) /\ Len(x) \in Nat
    BY <1>3
  <2>2. <<>> \in Seq(PathStep) /\ Len(<<>>) = 0
    OBVIOUS
  <2>3. Len(<<>>) <= Len(x) /\ \A i \in 1..Len(<<>>) : x[i] = <<>>[i]
    BY <2>1, <2>2
  <2> QED
    BY <2>1, <2>2, <2>3, UnderBegins
<1> QED
  BY <1>4, <1>5, <1>6, <1>7 DEF OracleInv

LEMMA OracleInvNext == OracleInv /\ [OracleNext]_oraclevars => OracleInv'
<1> SUFFICES ASSUME OracleInv, [OracleNext]_oraclevars PROVE OracleInv'
  OBVIOUS
<1>1. ASSUME UNCHANGED oraclevars PROVE OracleInv'
  BY <1>1 DEF oraclevars, OracleInv, OracleType, ReportsRight, RightReport, ReportsApart,
     PendingApart, AllCovered, Paths, Differs
<1>2. ASSUME NEW w \in pending,
             DiffMissing(w) \/ DiffUnexpected(w) \/ DiffScalar(w)
               \/ DiffType(w) \/ DiffMap(w) \/ DiffList(w)
      PROVE  OracleInv'
  <2> DEFINE more == Below(expected, w) \cup Below(actual, w)
  <2>1. w \in Paths /\ w \in Seq(PathStep) /\ Paths \subseteq Seq(PathStep)
    BY PathsArePaths DEF OracleInv, OracleType
  <2>2. /\ {} \in SUBSET {c \in Paths : Child(c, w)}
        /\ more \in SUBSET {c \in Paths : Child(c, w)}
    BY DEF Below, Paths, Child
  <2>3. ASSUME NEW x \in Paths, Under(x, w), x # w
        PROVE  \/ w \in DOMAIN expected /\ expected[w].type # "scalar" /\ \E c \in more : Under(x, c)
               \/ w \in DOMAIN actual /\ actual[w].type # "scalar" /\ \E c \in more : Under(x, c)
    <3>1. CASE x \in DOMAIN expected
      BY <2>1, <2>3, <3>1, Deeper DEF OracleInv, OracleType
    <3>2. CASE x \in DOMAIN actual
      BY <2>1, <2>3, <3>2, Deeper DEF OracleInv, OracleType
    <3> QED
      BY <3>1, <3>2 DEF Paths
  <2> HIDE DEF more
  <2>4. CASE DiffMissing(w)
    <3>1. "missing" \in Kinds /\ RightReport(w, "missing")
      BY <2>1, <2>4 DEF DiffMissing, RightReport, Differs, Paths, Kinds
    <3>2. Report(w, "missing") /\ Continue(w, {})
      BY <2>4 DEF DiffMissing
    <3> QED
      BY <2>2, <3>1, <3>2, ReportStep
  <2>5. CASE DiffUnexpected(w)
    <3>1. "unexpected" \in Kinds /\ RightReport(w, "unexpected")
      BY <2>1, <2>5 DEF DiffUnexpected, RightReport, Differs, Paths, Kinds
    <3>2. Report(w, "unexpected") /\ Continue(w, {})
      BY <2>5 DEF DiffUnexpected
    <3> QED
      BY <2>2, <3>1, <3>2, ReportStep
  <2>6. CASE DiffScalar(w)
    <3>1. CASE expected[w] = actual[w]
      <4>1. ~Differs(w) /\ actual[w].type = "scalar" /\ expected[w].type = "scalar"
        BY <2>6, <3>1 DEF DiffScalar, Comparable, Differs
      <4>2. \A x \in Paths : Under(x, w) => x = w
        BY <2>3, <4>1
      <4>3. UNCHANGED mismatches /\ Continue(w, {})
        BY <2>6, <3>1 DEF DiffScalar
      <4> QED
        BY <2>2, <4>1, <4>2, <4>3, QuietStep
    <3>2. CASE expected[w] # actual[w]
      <4>1. "value" \in Kinds /\ RightReport(w, "value")
        BY <2>6, <3>2 DEF DiffScalar, Comparable, RightReport, Differs, Kinds
      <4>2. Report(w, "value") /\ Continue(w, {})
        BY <2>6, <3>2 DEF DiffScalar
      <4> QED
        BY <2>2, <4>1, <4>2, ReportStep
    <3> QED
      BY <3>1, <3>2
  <2>7. CASE DiffType(w)
    <3>1. "type" \in Kinds /\ RightReport(w, "type")
      BY <2>7 DEF DiffType, Comparable, RightReport, Differs, Kinds
    <3>2. Report(w, "type") /\ Continue(w, {})
      BY <2>7 DEF DiffType
    <3> QED
      BY <2>2, <3>1, <3>2, ReportStep
  <2>8. CASE DiffMap(w)
    <3>1. w \in DOMAIN expected /\ w \in DOMAIN actual /\ expected[w] = Map /\ actual[w] = Map
      BY <2>8 DEF DiffMap, Comparable, OracleInv, OracleType, Tree
    <3>2. \A x \in Paths : Differs(x) /\ Under(x, w) => \E c \in more : Under(x, c)
      BY <2>3, <3>1 DEF Differs
    <3>3. UNCHANGED mismatches /\ Continue(w, more)
      BY <2>8 DEF DiffMap, more
    <3> QED
      BY <2>2, <3>2, <3>3, QuietStep
  <2>9. CASE DiffList(w)
    <3>1. /\ w \in DOMAIN expected /\ w \in DOMAIN actual
          /\ expected[w].type = "list" /\ actual[w].type = "list"
          /\ expected[w] = List(expected[w].length) /\ actual[w] = List(actual[w].length)
      BY <2>9 DEF DiffList, Comparable, OracleInv, OracleType, Tree
    <3>2. CASE expected[w].length = actual[w].length
      <4>1. \A x \in Paths : Differs(x) /\ Under(x, w) => \E c \in more : Under(x, c)
        BY <2>3, <3>1, <3>2 DEF Differs
      <4>2. UNCHANGED mismatches /\ Continue(w, more)
        BY <2>9, <3>2 DEF DiffList, more
      <4> QED
        BY <2>2, <4>1, <4>2, QuietStep
    <3>3. CASE expected[w].length # actual[w].length
      <4>1. "length" \in Kinds /\ RightReport(w, "length")
        BY <3>1, <3>3 DEF RightReport, Differs, Kinds
      <4>2. Report(w, "length") /\ Continue(w, more)
        BY <2>9, <3>3 DEF DiffList, more
      <4> QED
        BY <2>2, <4>1, <4>2, ReportStep
    <3> QED
      BY <3>2, <3>3
  <2> QED
    BY <1>2, <2>4, <2>5, <2>6, <2>7, <2>8, <2>9
<1> QED
  BY <1>1, <1>2 DEF OracleNext

\* Every report is a difference of its kind, every difference is reported or lies under one
\* that is, and none is reported twice: for any two snapshots, in whatever order their paths
\* are compared (diffJSONValues in src/internal/oracle/oracle.go).
THEOREM DifferencesAreFound == OracleSpec => []DifferencesFound
<1>1. OracleInv => DifferencesFound
  BY DEF OracleInv, ReportsRight, RightReport, ReportsApart, AllCovered, Paths, DifferencesFound
<1> QED
  BY <1>1, OracleInvInit, OracleInvNext, PTL DEF OracleSpec
===============================================================================
