------------------------------- MODULE FsmBuild -------------------------------
(***************************************************************************)
(* The walk over the parse tree of a token's pattern (src/src/             *)
(* parsetree.cc, LexExpression::walk to ReItem::walk): every node takes    *)
(* the automata of its parts and returns its own, here on a stack.         *)
(***************************************************************************)
EXTENDS FsmGraph

CONSTANTS
  MaxOps, MaxStack,    \* bounds of the expression
  MaxSize,             \* bound of the states of a part
  Literals,            \* the literal strings of the grammar
  Ops,                 \* the operators it uses
  Isolated             \* whether x{,n} is left out where a word of x may come
                       \* back to the start state of its machine

ASSUME FsmBuildAssumption ==
  /\ {MaxOps, MaxStack, MaxSize} \subseteq Nat
  /\ Literals \subseteq Seq(Char)
  /\ Isolated \in BOOLEAN

VARIABLES
  stack,         \* the automata of the expressions that are evaluated
  ops            \* how many nodes were walked

vars == <<stack, ops>>

\* op: the node that made it; known: see RegLang's live; plain: no priorities;
\* minimal: just minimized.
Entry(op, g, known, plain, minimal) ==
  [op |-> op, g |-> g, known |-> known, plain |-> plain, minimal |-> minimal]

dotFsm == orFsm(Char)
dotStarFsm == rangeStarFsm(Char)

\* A pair of descriptors under a key of its own; the node's number is the order.
Prior(p) == [ordering |-> ops, priority |-> p]

OptionalType(g) == unionOp(g, lambdaFsm)
PlusType(g) == concatOp(g, afterOpMinimize(starOp(g)))
MinType(g, lower) == concatOp(afterOpMinimize(repeatOp(g, lower)), afterOpMinimize(starOp(g)))
RangeType(g, lower, upper) ==
  concatOp(afterOpMinimize(repeatOp(g, lower)), afterOpMinimize(optionalRepeatOp(g, upper - lower)))
StrongSubtractType(g, h) == subtractOp(g, concatOp(concatOp(dotStarFsm, h), dotStarFsm))
StarStarType(g) ==
  starOp(leaveFsmPrior(allTransPrior(g, ops, Prior(1)), ops, Prior(0)))
RightStartType(g, h) ==
  concatOp(allTransPrior(g, ops, Prior(0)), startFsmPrior(h, ops, Prior(1)))
LeftType(g, h) ==
  concatOp(allTransPrior(g, ops, Prior(1)), allTransPrior(h, ops, Prior(0)))

Small == \A i \in DOMAIN stack : Cardinality(stack[i].g.states) <= MaxSize
Walked == ops < MaxOps /\ Small /\ ops' = ops + 1

Push(op, g, known) ==
  /\ Walked /\ Len(stack) < MaxStack
  /\ stack' = Append(stack, Entry(op, g, known, TRUE, FALSE))

Top == Last(stack)
Below == stack[Len(stack) - 1]
Has1 == stack # <<>>
Has2 == Len(stack) > 1
Plain2 == Has2 /\ Top.plain /\ Below.plain
Known2 == Has2 /\ Top.known /\ Below.known

Replace(n, op, g, known, plain, minimize) ==
  stack' = Append(SubSeq(stack, 1, Len(stack) - n),
             Entry(op, IF minimize THEN afterOpMinimize(g) ELSE g, known, plain, minimize))

\* LexFactorRep, LexFactorNeg: one part.
Unary(op, f(_), known, plain) ==
  /\ op \in Ops /\ Walked /\ Has1 /\ Top.plain
  /\ Replace(1, op, f(Top.g), known, plain, TRUE)

\* LexExpression, LexTerm: two parts.  Inside a chain of the same operator
\* nothing is minimized (lastInSeq).
Binary(op, f(_, _), known, plain, minimize) ==
  /\ op \in Ops /\ Walked /\ Has2
  /\ Replace(2, op, f(Below.g, Top.g), known, plain, minimize)

Leaf ==
  \/ \E str \in Literals : Push("literal", concatFsm(str), TRUE)
  \/ Push("any", dotFsm, TRUE)
  \/ Push("any*", dotStarFsm, TRUE)
  \/ "empty" \in Ops /\ Push("empty", emptyFsm, FALSE)

LexExpression ==
  \/ \E minimize \in BOOLEAN : Binary("|", unionOp, Known2, Plain2, minimize)
  \/ Binary("&", intersectOp, FALSE, Plain2, TRUE)
  \/ Binary("-", subtractOp, FALSE, Plain2, TRUE)
  \/ Has2 /\ Top.plain /\ Binary("--", StrongSubtractType, FALSE, Plain2, TRUE)

LexTerm ==
  \/ \E minimize \in BOOLEAN : Plain2 /\ Binary(".", concatOp, Known2, TRUE, minimize)
  \/ Plain2 /\ Known2 /\ Binary(":>", RightStartType, FALSE, FALSE, TRUE)
  \/ Plain2 /\ Known2 /\ Binary("<:", LeftType, FALSE, FALSE, TRUE)

\* The start state becomes final where it is: any way back to it ends a word too.
Optional == Has1 /\ (Isolated => isStartStateIsolated(Top.g))

LexFactorRep ==
  \/ Unary("*", starOp, Top.known, TRUE)
  \/ /\ Has1 /\ Top.known /\ ~isFinState(Top.g, Top.g.start)
     /\ Unary("**", StarStarType, FALSE, FALSE)
  \/ Unary("?", OptionalType, Top.known, TRUE)
  \/ Unary("+", PlusType, Top.known, TRUE)
  \/ Unary("{2}", LAMBDA g : repeatOp(g, 2), Top.known, TRUE)
  \/ Unary("{3}", LAMBDA g : repeatOp(g, 3), Top.known, TRUE)
  \/ Unary("{2,}", LAMBDA g : MinType(g, 2), Top.known, TRUE)
  \/ /\ Optional
     /\ \/ Unary("{,2}", LAMBDA g : optionalRepeatOp(g, 2), Top.known, TRUE)
        \/ Unary("{,3}", LAMBDA g : optionalRepeatOp(g, 3), Top.known, TRUE)
        \/ Unary("{1,3}", LAMBDA g : RangeType(g, 1, 3), Top.known, TRUE)

LexFactorNeg ==
  \/ Unary("!", LAMBDA g : subtractOp(dotStarFsm, g), FALSE, TRUE)
  \/ Unary("^", LAMBDA g : subtractOp(dotFsm, g), FALSE, TRUE)

Init == stack = <<>> /\ ops = 0
Next == Leaf \/ LexExpression \/ LexTerm \/ LexFactorRep \/ LexFactorNeg

Spec == Init /\ [][Next]_vars
=============================================================================
