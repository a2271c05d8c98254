---------------------------- MODULE GrammarLang -----------------------------
(***************************************************************************)
(* What a grammar means, apart from any parser: the derivations of a word, *)
(* and the sets that textbooks define for it, each as a least fixpoint.    *)
(* A grammar gr has gr.lhs and gr.rhs for its productions, nonterminals    *)
(* gr.nonTerm, for each of them a terminal gr.dup[x] that stands for it,   *)
(* and for each parser k the production gr.rootDef[k] of its root, which   *)
(* is followed by gr.eof[k].                                               *)
(***************************************************************************)
EXTENDS Integers, Sequences, FiniteSets, SequencesExt

Of(gr, x) == {p \in DOMAIN gr.rhs : gr.lhs[p] = x}
Symbols(gr) == UNION {Range(gr.rhs[p]) : p \in DOMAIN gr.rhs}
                 \cup {gr.dup[x] : x \in gr.nonTerm}

RECURSIVE ReachBy(_, _)
ReachBy(edges, S) ==
  LET more == {e[2] : e \in {d \in edges : d[1] \in S}} \ S
  IN IF more = {} THEN S ELSE ReachBy(edges, S \cup more)
-----------------------------------------------------------------------------
(* Nullable, FIRST, FOLLOW. *)

RECURSIVE NullableFrom(_, _)
NullableFrom(gr, N) ==
  LET more == {gr.lhs[p] : p \in {q \in DOMAIN gr.rhs : Range(gr.rhs[q]) \subseteq N}}
  IN IF more \subseteq N THEN N ELSE NullableFrom(gr, N \cup more)
Nullable(gr) == NullableFrom(gr, {})

\* What a derivation of x may begin with: x itself, what stands behind nullable
\* elements in a production, or the terminal for x.
Begins(gr) ==
  LET N == Nullable(gr)
      Leads(p) == {i \in DOMAIN gr.rhs[p] : \A j \in 1..(i - 1) : gr.rhs[p][j] \in N}
      edges == UNION {{<<gr.lhs[p], gr.rhs[p][i]>> : i \in Leads(p)} : p \in DOMAIN gr.rhs}
                 \cup {<<x, gr.dup[x]>> : x \in gr.nonTerm}
  IN [x \in Symbols(gr) |-> ReachBy(edges, {x}) \ gr.nonTerm]

\* The terminals that seq, followed by one of after, can begin with.
RECURSIVE FirstOf(_, _, _, _)
FirstOf(begins, N, seq, after) ==
  IF seq = <<>> THEN after
  ELSE begins[Head(seq)] \cup
         IF Head(seq) \in N THEN FirstOf(begins, N, Tail(seq), after) ELSE {}

\* Pairs <<x, a>>: a can follow x.
RECURSIVE FollowFrom(_, _, _, _)
FollowFrom(gr, begins, N, F) ==
  LET Behind(x) == {f[2] : f \in {e \in F : e[1] = x}}
      more == UNION {UNION {{<<gr.rhs[p][i], a>> :
                  a \in FirstOf(begins, N, SubSeq(gr.rhs[p], i + 1, Len(gr.rhs[p])), Behind(gr.lhs[p]))}
                : i \in {j \in DOMAIN gr.rhs[p] : gr.rhs[p][j] \in gr.nonTerm}} : p \in DOMAIN gr.rhs}
  IN IF more \subseteq F THEN F ELSE FollowFrom(gr, begins, N, F \cup more)
Follow(gr) ==
  FollowFrom(gr, Begins(gr), Nullable(gr),
             {<<gr.start[k], gr.eof[k]>> : k \in DOMAIN gr.start})
-----------------------------------------------------------------------------
(* LR(0) states are sets of items <<production, how far>>. *)

Dot(gr, item) == IF item[2] < Len(gr.rhs[item[1]]) THEN gr.rhs[item[1]][item[2] + 1] ELSE 0
RECURSIVE Closure(_, _)
Closure(gr, I) ==
  LET more == UNION {{<<p, 0>> : p \in Of(gr, Dot(gr, item))} :
                       item \in {i \in I : Dot(gr, i) \in gr.nonTerm}}
  IN IF more \subseteq I THEN I ELSE Closure(gr, I \cup more)
Goto(gr, I, x) == Closure(gr, {<<i[1], i[2] + 1>> : i \in {j \in I : Dot(gr, j) = x}})
After(gr, I) == {Dot(gr, i) : i \in I} \ {0}

RECURSIVE CanonicalFrom(_, _, _)
CanonicalFrom(gr, C, new) ==
  LET more == UNION {{Goto(gr, I, x) : x \in After(gr, I)} : I \in new} \ C
  IN IF more = {} THEN C ELSE CanonicalFrom(gr, C \cup more, more)
Start(gr, k) == Closure(gr, {<<gr.rootDef[k], 0>>})
Canonical(gr) == LET starts == {Start(gr, k) : k \in DOMAIN gr.start}
                 IN CanonicalFrom(gr, starts, starts)

RECURSIVE Along(_, _, _)
Along(gr, I, seq) == IF seq = <<>> THEN I ELSE Along(gr, Goto(gr, I, Head(seq)), Tail(seq))
-----------------------------------------------------------------------------
(* Lookaheads <<state, production, terminal>>. *)

\* LALR(1): an item of a state passes what can follow its nonterminal to the
\* productions of it, an item what follows it over its next element.
RECURSIVE ItemsAheadFrom(_, _, _, _, _)
ItemsAheadFrom(gr, begins, N, S, new) ==
  LET open == {t \in new : Dot(gr, t[2]) # 0}
      down == UNION {LET rest == SubSeq(gr.rhs[t[2][1]], t[2][2] + 2, Len(gr.rhs[t[2][1]]))
                     IN {<<t[1], <<p, 0>>, a>> : p \in Of(gr, Dot(gr, t[2])),
                                                a \in FirstOf(begins, N, rest, {t[3]})}
                     : t \in {u \in open : Dot(gr, u[2]) \in gr.nonTerm}}
      over == {<<Goto(gr, t[1], Dot(gr, t[2])), <<t[2][1], t[2][2] + 1>>, t[3]>> : t \in open}
      more == (down \cup over) \ S
  IN IF more = {} THEN S ELSE ItemsAheadFrom(gr, begins, N, S \cup more, more)
LALR(gr) ==
  LET roots == {<<Start(gr, k), <<gr.rootDef[k], 0>>, gr.eof[k]>> : k \in DOMAIN gr.start}
      ahead == ItemsAheadFrom(gr, Begins(gr), Nullable(gr), roots, roots)
      ends == {t \in ahead : Dot(gr, t[2]) = 0 /\ t[2][1] \notin Range(gr.rootDef)}
  IN {<<t[1], t[2][1], t[3]>> : t \in ends}

\* The lookaheads that are computed from states instead of transitions: what
\* follows a nonterminal is every terminal with which its state can be left.
Terminals(gr, I) ==
  (After(gr, I) \ gr.nonTerm) \cup {gr.dup[x] : x \in After(gr, I) \cap gr.nonTerm}
Ends(gr, C) ==
  UNION {UNION {{<<Goto(gr, I, x), Along(gr, I, gr.rhs[p]), p>> : p \in Of(gr, x)}
                  : x \in After(gr, I) \cap gr.nonTerm} : I \in C}
EofLeaves(gr) == {<<Goto(gr, Start(gr, k), gr.start[k]), gr.eof[k]>> : k \in DOMAIN gr.start}

RECURSIVE StateAheadFrom(_, _, _, _)
StateAheadFrom(leave, ends, R, new) ==
  LET more == UNION {{<<e[2], e[3], l[2]>> : l \in {m \in new : m[1] = e[1]}} : e \in ends} \ R
      keys == {<<r[1], r[3]>> : r \in more} \ leave
  IN IF more = {} THEN R ELSE StateAheadFrom(leave \cup keys, ends, R \cup more, keys)
StateAhead(gr, C) ==
  LET leave == UNION {{<<I, a>> : a \in Terminals(gr, I)} : I \in C} \cup EofLeaves(gr)
  IN StateAheadFrom(leave, Ends(gr, C), {}, leave)
-----------------------------------------------------------------------------
(* Derivations, as trees of at most a number of leaves and of productions.  *)

Leaf(x) == [prod |-> 0, sym |-> x, of |-> <<>>]
RECURSIVE Size(_)
Size(t) == FoldLeft(LAMBDA n, c : n + Size(c), IF t.prod = 0 THEN 0 ELSE 1, t.of)
RECURSIVE Leaves(_)
Leaves(t) == IF t.prod = 0 THEN 1 ELSE FoldLeft(LAMBDA n, c : n + Leaves(c), 0, t.of)

\* Trees of x, and rows of trees of the elements of seq; N are the nullables.
RECURSIVE Trees(_, _, _, _, _)
RECURSIVE Forests(_, _, _, _, _)
Trees(gr, N, x, leaves, size) ==
  (IF leaves = 0 THEN {}
   ELSE {Leaf(y) : y \in IF x \in gr.nonTerm THEN {gr.dup[x]} ELSE {x}})
    \cup IF size = 0 THEN {}
         ELSE UNION {{[prod |-> p, sym |-> x, of |-> f] : f \in Forests(gr, N, gr.rhs[p], leaves, size - 1)}
                       : p \in Of(gr, x)}
Forests(gr, N, seq, leaves, size) ==
  IF seq = <<>> THEN {<<>>}
  ELSE LET needed == Cardinality({i \in 2..Len(seq) : seq[i] \notin N})
       IN IF needed > leaves THEN {}
          ELSE UNION {{<<t>> \o f : f \in Forests(gr, N, Tail(seq), leaves - Leaves(t), size - Size(t))}
                        : t \in Trees(gr, N, Head(seq), leaves - needed, size)}

\* The trees that precedence allows: no operand of an operator is an operation
\* of a lower level, nor one of the same level on the wrong side.
Level(gr, p) == gr.pred[gr.predOf[p]]
HasLevel(gr, p) == p # 0 /\ gr.predOf[p] # 0
Allowed(gr, p, i, q) ==
  HasLevel(gr, p) /\ HasLevel(gr, q) =>
    \/ Level(gr, q).value > Level(gr, p).value
    \/ /\ Level(gr, q).value = Level(gr, p).value
       /\ Level(gr, p).type = IF i = 1 THEN "left" ELSE "right"
RECURSIVE Respects(_, _)
Respects(gr, t) ==
  \A i \in DOMAIN t.of : Allowed(gr, t.prod, i, t.of[i].prod) /\ Respects(gr, t.of[i])

Parses(gr, k, leaves, size) ==
  {t \in Trees(gr, Nullable(gr), gr.start[k], leaves, size) : Respects(gr, t)}
=============================================================================
