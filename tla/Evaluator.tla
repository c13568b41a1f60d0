------------------------------- MODULE Evaluator -------------------------------
(***************************************************************************)
(* The evaluator of trigger expressions (Evaluate in                       *)
(* src/internal/expr/expr.go), which classifies what cannot be known       *)
(* without the running game.  It descends into the arguments of a node and *)
(* then decides from their results alone, so an evaluation is the sequence *)
(* of the nodes it returns from, each of which takes the results of its    *)
(* arguments from a stack.  One expression is evaluated with the inputs    *)
(* that are known now and with more of them later, node by node.           *)
(***************************************************************************)
EXTENDS Integers, Sequences

CONSTANTS
  Half,      \* an integer is one of -Half .. Half - 1 (2^63 in the code)
  Absent,    \* a runtime input that is not given
  Literals,  \* the values of the literals; strings are numbered
  Inputs     \* what can be known of the running game

ASSUME HalfAssumption == Half \in Nat \ {0}
ASSUME LiteralsAssumption == Literals \subseteq Int
ASSUME InputsAssumption ==
  \A in \in Inputs :
    /\ {in.random, in.command, in.statetype, in.posY} \subseteq Int \cup {Absent}
    /\ DOMAIN in.vars \subseteq Int
    /\ \A n \in DOMAIN in.vars : in.vars[n] \in Int

VARIABLES
  known,    \* the inputs known now, and those known later
  results   \* what the arguments still to be used were evaluated to, now and later

evalvars == <<known, results>>

Run == {"now", "later"}

Finite(kind, value) == [class |-> "finite", kind |-> kind, value |-> value]
Dynamic == [class |-> "dynamic", kind |-> "none", value |-> 0]
Unsupported == [class |-> "unsupported", kind |-> "none", value |-> 0]

Truth(condition) == Finite("bool", IF condition THEN 1 ELSE 0)
BooleanLike(r) == r.kind \in {"bool", "int"}

\* Integers wrap around; division and remainder truncate towards zero.
Wrap(n) == ((n + Half) % (2 * Half)) - Half
Quotient(l, r) ==
  LET abs(n) == IF n < 0 THEN -n ELSE n
      q == abs(l) \div abs(r)
  IN IF (l < 0) = (r < 0) THEN q ELSE -q

Given(in, kind) == IF in = Absent THEN Dynamic ELSE Finite(kind, in)

LogicalOperators == {"&&", "||"}
Equalities == {"==", "!=", "="}
Comparisons == {"<", "<=", ">", ">="}
ArithmeticOperators == {"+", "-", "*", "/", "%"}

\* A node without arguments; the arguments of an unsupported one are not looked at.
EvalLeaf(op, value, in) ==
  CASE op \in {"int", "string"} -> Finite(op, value)
    [] op = "random" -> Given(in.random, "int")
    [] op = "command" -> Given(in.command, "string")
    [] op = "statetype" -> Given(in.statetype, "string")
    [] op = "pos y" -> Given(in.posY, "int")
    [] OTHER -> Unsupported
LeafOperators == {"int", "string", "random", "command", "statetype", "pos y", "unsupported"}

EvalUnary(op, a) ==
  IF a.class # "finite" THEN a
  ELSE IF op = "!" THEN IF BooleanLike(a) THEN Truth(a.value = 0) ELSE Unsupported
  ELSE IF a.kind = "int" THEN Finite("int", Wrap(-a.value)) ELSE Unsupported

EvalVar(a, in) ==
  IF a.class # "finite" THEN a
  ELSE IF a.kind # "int" THEN Unsupported
  ELSE IF a.value \notin DOMAIN in.vars THEN Dynamic
  ELSE Finite("int", in.vars[a.value])

EvalCond(a, then, else) ==
  IF a.class # "finite" THEN a
  ELSE IF ~BooleanLike(a) THEN Unsupported
  ELSE IF a.value # 0 THEN then ELSE else

\* Mutant: only the left value is looked at.
BothLeft(l, r, result) == IF l.class # "finite" THEN l ELSE result

\* The class of an operation on both values, unless both are finite.
Both(l, r, result) ==
  IF "unsupported" \in {l.class, r.class} THEN Unsupported
  ELSE IF "dynamic" \in {l.class, r.class} THEN Dynamic
  ELSE result

Compare(op, l, r) ==
  CASE op = "<" -> Truth(l < r) [] op = "<=" -> Truth(l <= r)
    [] op = ">" -> Truth(l > r) [] op = ">=" -> Truth(l >= r)

Arithmetic(op, l, r) ==
  CASE op = "+" -> Finite("int", Wrap(l + r))
    [] op = "-" -> Finite("int", Wrap(l - r))
    [] op = "*" -> Finite("int", Wrap(l * r))
    [] op \in {"/", "%"} /\ r = 0 -> Unsupported
    [] op = "/" /\ r # 0 -> Finite("int", Wrap(Quotient(l, r)))
    [] op = "%" /\ r # 0 -> Finite("int", l - r * Quotient(l, r))

\* && stops at a false left side, || evaluates both sides whatever the left one is.
Logical(op, l, r) ==
  IF l.class # "finite" THEN l
  ELSE IF ~BooleanLike(l) THEN Unsupported
  ELSE IF op = "&&" /\ l.value = 0 THEN Truth(FALSE)
  ELSE IF r.class # "finite" THEN r
  ELSE IF op = "||" /\ l.value # 0 THEN Truth(TRUE)
  ELSE IF ~BooleanLike(r) THEN Unsupported
  ELSE Truth(r.value # 0)

Equality(op, l, r) ==
  IF l.kind # r.kind THEN Unsupported ELSE Truth((l.value = r.value) = (op # "!="))

EvalBinary(op, l, r) ==
  LET integers == l.kind = "int" /\ r.kind = "int"
  IN IF op \in LogicalOperators THEN Logical(op, l, r)
     ELSE IF op \in Equalities THEN Both(l, r, Equality(op, l, r))
     ELSE IF ~integers THEN Both(l, r, Unsupported)
     ELSE IF op \in Comparisons THEN Both(l, r, Compare(op, l.value, r.value))
     ELSE Both(l, r, Arithmetic(op, l.value, r.value))

\* --- the nodes of an expression, arguments first ----------------------------
EvaluatorInit ==
  /\ results = <<>>
  /\ known \in {k \in [Run -> Inputs] :
       /\ \A input \in {"random", "command", "statetype", "posY"} :
            k.now[input] \in {Absent, k.later[input]}
       /\ DOMAIN k.now.vars \subseteq DOMAIN k.later.vars
       /\ \A n \in DOMAIN k.now.vars : k.now.vars[n] = k.later.vars[n]}

\* The argument at a place of the stack, counted from its top.
Arg(place, run) == results[Len(results) - place][run]

\* The node takes its arguments from the stack and leaves its own result.
Leave(arguments, result) ==
  /\ Len(results) >= arguments
  /\ results' = Append(SubSeq(results, 1, Len(results) - arguments), result)
  /\ UNCHANGED known

EvaluateLeaf ==
  \E op \in LeafOperators, value \in Literals :
    Leave(0, [run \in Run |-> EvalLeaf(op, value, known[run])])
EvaluateUnary ==
  \E op \in {"!", "-"} : Leave(1, [run \in Run |-> EvalUnary(op, Arg(0, run))])
EvaluateVar == Leave(1, [run \in Run |-> EvalVar(Arg(0, run), known[run])])
EvaluateBinary ==
  \E op \in LogicalOperators \cup Equalities \cup Comparisons \cup ArithmeticOperators :
    Leave(2, [run \in Run |-> EvalBinary(op, Arg(1, run), Arg(0, run))])
EvaluateCond == Leave(3, [run \in Run |-> EvalCond(Arg(2, run), Arg(1, run), Arg(0, run))])

EvaluatorNext == EvaluateLeaf \/ EvaluateUnary \/ EvaluateVar \/ EvaluateBinary \/ EvaluateCond

EvaluatorSpec == EvaluatorInit /\ [][EvaluatorNext]_evalvars
--------------------------------------------------------------------------------
(* Properties *)

\* A verdict that is not "dynamic" is final: of no expression does an input that is given
\* later change it (Evaluate).
VerdictsFinal ==
  \A i \in DOMAIN results : results[i].now.class # "dynamic" => results[i].now = results[i].later
================================================================================
