------------------------------ MODULE Expressions ------------------------------
(***************************************************************************)
(* The parser of trigger expressions (src/internal/expr/expr.go), by       *)
(* precedence, over the tokens of the lexer; its integers are those of     *)
(* Evaluator.  An error anywhere makes Parse return no node, so the        *)
(* recovery after the first one is left out.                               *)
(***************************************************************************)
EXTENDS Evaluator, SequencesExt

CONSTANT Failed    \* no node

Token(kind, value) == [kind |-> kind, value |-> value]

\* The operators of each level, the loosest first.
Levels == <<{"||"}, {"&&"}, {"==", "!=", "="}, {"<", "<=", ">", ">="},
            {"+", "-"}, {"*", "/", "%"}>>
Names == {"var", "random", "command", "pos", "statetype", "cond", "y", "f"}

Node(op, value, args) == [op |-> op, value |-> value, args |-> args]
Parsed(node, rest) == [node |-> node, rest |-> rest]

Starts(tokens, kinds) == tokens # <<>> /\ Head(tokens).kind \in kinds

RECURSIVE Level(_, _), Chain(_, _), Unary(_), Arguments(_, _), Primary(_)

\* One level of binary operators, each associating to the left.
Level(n, tokens) ==
  IF n > Len(Levels) THEN Unary(tokens) ELSE Chain(n, Level(n + 1, tokens))

\* Mutant: operators associate to the right.
ChainToTheRight(n, left) ==
  IF left = Failed THEN Failed
  ELSE IF ~Starts(left.rest, Levels[n]) THEN left
  ELSE LET right == Level(n, Tail(left.rest))
       IN IF right = Failed THEN Failed
          ELSE Parsed(Node(Head(left.rest).kind, 0, <<left.node, right.node>>), right.rest)

Chain(n, left) ==
  IF left = Failed THEN Failed
  ELSE IF ~Starts(left.rest, Levels[n]) THEN left
  ELSE LET right == Level(n + 1, Tail(left.rest))
       IN IF right = Failed THEN Failed
          ELSE Chain(n, Parsed(Node(Head(left.rest).kind, 0, <<left.node, right.node>>),
                               right.rest))

Unary(tokens) ==
  IF ~Starts(tokens, {"!", "-"}) THEN Primary(tokens)
  ELSE LET operand == Unary(Tail(tokens))
       IN IF operand = Failed THEN Failed
          ELSE Parsed(Node(Head(tokens).kind, 0, <<operand.node>>), operand.rest)

\* Expressions between commas up to the closing parenthesis, after the ones before.
Arguments(before, tokens) ==
  LET arg == Level(1, tokens)
  IN IF arg = Failed THEN Failed
     ELSE LET args == Append(before, arg.node)
          IN CASE Starts(arg.rest, {")"}) -> [args |-> args, rest |-> Tail(arg.rest)]
               [] Starts(arg.rest, {","}) -> Arguments(args, Tail(arg.rest))
               [] OTHER -> Failed

\* The arguments in parentheses; count is how many there must be.
Group(tokens, count) ==
  IF ~Starts(tokens, {"("}) THEN Failed
  ELSE LET group == Arguments(<<>>, Tail(tokens))
       IN IF group # Failed /\ Len(group.args) = count THEN group ELSE Failed

Literal(value) == IF value < Half THEN value ELSE Half - 1

Primary(tokens) ==
  IF tokens = <<>> THEN Failed
  ELSE LET first == Head(tokens)
           rest == Tail(tokens)
           leaf == Parsed(Node(first.kind, 0, <<>>), rest)
           empty == Starts(rest, {"("}) /\ Starts(Tail(rest), {")"})
           call(count) == LET group == Group(rest, count)
                          IN IF group = Failed THEN Failed
                             ELSE Parsed(Node(first.kind, 0, group.args), group.rest)
       IN CASE first.kind = "int" -> Parsed(Node("int", Literal(first.value), <<>>), rest)
            [] first.kind = "string" -> Parsed(Node("string", first.value, <<>>), rest)
            [] first.kind = "(" -> LET group == Group(tokens, 1)
                                   IN IF group = Failed THEN Failed
                                      ELSE Parsed(group.args[1], group.rest)
            [] first.kind = "var" -> call(1)
            [] first.kind = "cond" -> call(3)
            [] first.kind = "pos" ->
                 IF ~Starts(rest, Names) THEN Failed
                 ELSE Parsed(Node("pos", IF Head(rest).kind = "y" THEN 1 ELSE 0, <<>>), Tail(rest))
            [] first.kind \in {"command", "statetype"} -> leaf
            [] first.kind = "random" ->
                 IF empty THEN Parsed(leaf.node, Tail(Tail(rest)))
                 ELSE IF Starts(rest, {"("}) THEN Failed ELSE leaf
            [] first.kind \in {"f", "y"} ->
                 IF empty THEN Parsed(leaf.node, Tail(Tail(rest)))
                 ELSE IF ~Starts(rest, {"("}) THEN leaf
                 ELSE LET group == Arguments(<<>>, Tail(rest))
                      IN IF group = Failed THEN Failed
                         ELSE Parsed(Node(first.kind, 0, group.args), group.rest)
            [] OTHER -> Failed

\* Tokens after the expression are an error.
Parse(tokens) ==
  LET all == Level(1, tokens)
  IN IF all = Failed \/ all.rest # <<>> THEN Failed ELSE all.node

--------------------------------------------------------------------------------
(* Properties *)

Comma(list) == IF list = <<>> THEN <<>>
               ELSE Tail(FlattenSeq([i \in DOMAIN list |-> <<Token(",", 0)>> \o list[i]]))

\* A node written down with no more parentheses than the precedence n around it asks for.
RECURSIVE Printed(_, _)
Printed(n, node) ==
  LET level == IF Len(node.args) = 2 /\ node.op \notin Names
               THEN CHOOSE i \in DOMAIN Levels : node.op \in Levels[i]
               ELSE 7
      paren(tokens) == <<Token("(", 0)>> \o tokens \o <<Token(")", 0)>>
      name == <<Token(node.op, node.value)>>
      text == CASE level < 7 -> Printed(level, node.args[1]) \o name
                                  \o Printed(level + 1, node.args[2])
                [] node.op \in {"!", "-"} -> name \o Printed(7, node.args[1])
                [] node.op = "pos" -> <<Token("pos", 0), Token(IF node.value = 1 THEN "y" ELSE "f", 0)>>
                [] node.args # <<>> ->
                     name \o paren(Comma([i \in DOMAIN node.args |-> Printed(1, node.args[i])]))
                [] OTHER -> name
  IN IF level < n THEN paren(text) ELSE text

\* Every tree is the parse of what is written for it, and of nothing longer or shorter.
ParsesBack(node) ==
  LET tokens == Printed(1, node)
  IN /\ Parse(tokens) = node
     /\ Parse(Append(tokens, Token("int", 1))) = Failed
     /\ node.op \notin {"int", "string", "random", "command", "statetype", "f", "y"} =>
          Parse(Front(tokens)) # node
================================================================================
