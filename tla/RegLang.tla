------------------------------- MODULE RegLang -------------------------------
(***************************************************************************)
(* What the patterns of a colm lexer mean: every operation takes languages *)
(* to a language.  A language is cut at words of length MaxWord, which all *)
(* operations respect.  The values are on a stack, as in the evaluation of *)
(* an expression tree.                                                     *)
(*                                                                         *)
(* The operations with priorities (":>", "<:" and "**") decide between     *)
(* staying in a machine and leaving it one character ahead, by what the    *)
(* machine can still read: live is the set of words that it can read.  It  *)
(* is not kept after an intersection or a difference, where it does not    *)
(* follow from the operands.  A machine with priorities is not plain: they *)
(* go on to act when it is part of a larger machine.  A value keeps the    *)
(* operator that made it.                                                  *)
(***************************************************************************)
EXTENDS Integers, Sequences, SequencesExt, FiniteSets

CONSTANTS Char, MaxWord, MaxStack

VARIABLE value      \* the languages on the stack

Words == UNION {[1..n -> Char] : n \in 0..MaxWord}
PrefixesOf(A) == UNION {Prefixes(w) : w \in A}

Cat(A, B) == {w \in Words : \E n \in 0..Len(w) :
                SubSeq(w, 1, n) \in A /\ SubSeq(w, n + 1, Len(w)) \in B}
RECURSIVE Power(_, _)
Power(A, n) == IF n = 0 THEN {<<>>} ELSE Cat(A, Power(A, n - 1))
Closure(A) == UNION {Power(A, n) : n \in 0..MaxWord}
UpTo(A, n) == Power(A \cup {<<>>}, n)

\* A word of A and a word of B: meet tells if one can go over to the other there.
Guarded(A, B, meet(_, _)) ==
  {w \in Words : \E n \in 0..Len(w) :
     /\ SubSeq(w, 1, n) \in A /\ SubSeq(w, n + 1, Len(w)) \in B
     /\ meet(SubSeq(w, 1, n), SubSeq(w, n + 1, Len(w)))}

\* A word is left only where it cannot be made longer.
Stays(live, u, v) == v = <<>> \/ Append(u, Head(v)) \notin live
\* A word is left as soon as the next machine can start.
Leaves(A, live, u, v) ==
  \A n \in 0..(Len(u) - 1) : SubSeq(u, 1, n) \in A => <<u[n + 1]>> \notin live

RECURSIVE Greedy(_, _, _)
Greedy(A, live, n) ==
  IF n = 0 THEN {<<>>}
  ELSE {<<>>} \cup Guarded(A, Greedy(A, live, n - 1), LAMBDA u, v : Stays(live, u, v))

Value(words, live, plain) == [words |-> words, live |-> live, plain |-> plain]
Known(x) == x.live # {}
BothKnown(live, S) == IF \A x \in S : Known(x) THEN live ELSE {}

Or(x, y) == Value(x.words \cup y.words, BothKnown(x.live \cup y.live, {x, y}), x.plain /\ y.plain)
Intersect(x, y) == Value(x.words \cap y.words, {}, x.plain /\ y.plain)
Subtract(x, y) == Value(x.words \ y.words, {}, x.plain /\ y.plain)
Concat(x, y) ==
  Value(Cat(x.words, y.words), BothKnown(x.live \cup Cat(x.words, y.live), {x, y}), TRUE)
Star(x) == Value(Closure(x.words), BothKnown(Cat(Closure(x.words), x.live), {x}), TRUE)
Exact(x, n) ==
  Value(Power(x.words, n), BothKnown(Cat(UpTo(x.words, n - 1), x.live), {x}), TRUE)
AtMost(x, n) ==
  Value(UpTo(x.words, n), BothKnown(Cat(UpTo(x.words, n - 1), x.live), {x}), TRUE)
WordsOf(keys) == {w \in Words : \A i \in DOMAIN w : w[i] \in keys}
All == Value(Words, Words, TRUE)
Epsilon == Value({<<>>}, {<<>>}, TRUE)
Nothing == Value({}, {}, TRUE)
OneOf(keys) == Value({<<c>> : c \in keys}, PrefixesOf({<<c>> : c \in keys}), TRUE)

\* The last n values are taken, and the value v put in their place.
Made(n, op, v) ==
  /\ value' # <<>> /\ Last(value').op = op
  /\ value' = Append(SubSeq(value, 1, Len(value) - n),
                     [op |-> op, words |-> v.words, live |-> v.live, plain |-> v.plain])

Push(op, v) == Len(value) < MaxStack /\ Made(0, op, v)
Unary(op, f(_)) == value # <<>> /\ Last(value).plain /\ Made(1, op, f(Last(value)))
Binary(op, f(_, _)) ==
  Len(value) > 1 /\ Made(2, op, f(value[Len(value) - 1], Last(value)))

Plain2 == Len(value) > 1 /\ \A i \in {Len(value) - 1, Len(value)} : value[i].plain
Known2 == Plain2 /\ \A i \in {Len(value) - 1, Len(value)} : Known(value[i])

\* Without a word of y in it.
Without(x, y) == Subtract(x, Concat(All, Concat(y, All)))
\* All of x that can be read, then y; and x until y begins.
Finish(x, y) == Value(Guarded(x.words, y.words, LAMBDA u, v : Stays(x.live, u, v)), {}, FALSE)
Until(x, y) ==
  Value(Guarded(x.words, y.words, LAMBDA u, v : Leaves(x.words, y.live, u, v)), {}, FALSE)
Longest(x) == Value(Greedy(x.words, x.live, MaxWord), {}, FALSE)

Init == value = <<>>

Next ==
  \/ \E w \in Words : Push("literal", Value({w}, PrefixesOf({w}), TRUE))
  \/ Push("any", OneOf(Char)) \/ Push("any*", All) \/ Push("empty", Nothing)
  \/ Binary("|", Or) \/ Binary("&", Intersect) \/ Binary("-", Subtract)
  \/ value # <<>> /\ Last(value).plain /\ Binary("--", Without)
  \/ Plain2 /\ Binary(".", Concat)
  \/ Known2 /\ (Binary("<:", Finish) \/ Binary(":>", Until))
  \/ Unary("*", Star)
  \/ Unary("?", LAMBDA x : Or(x, Epsilon))
  \/ Unary("+", LAMBDA x : Concat(x, Star(x)))
  \/ Unary("{2}", LAMBDA x : Exact(x, 2)) \/ Unary("{3}", LAMBDA x : Exact(x, 3))
  \/ Unary("{,2}", LAMBDA x : AtMost(x, 2)) \/ Unary("{,3}", LAMBDA x : AtMost(x, 3))
  \/ Unary("{2,}", LAMBDA x : Concat(Exact(x, 2), Star(x)))
  \/ Unary("{1,3}", LAMBDA x : Concat(x, AtMost(x, 2)))
  \/ /\ value # <<>> /\ Known(Last(value)) /\ <<>> \notin Last(value).words
     /\ Unary("**", Longest)
  \/ Unary("!", LAMBDA x : Subtract(All, x)) \/ Unary("^", LAMBDA x : Subtract(OneOf(Char), x))

  \* They are all taken, as the tokens of a region.
  \/ value # <<>> /\ value' = <<>>

Spec == Init /\ [][Next]_value
=============================================================================
