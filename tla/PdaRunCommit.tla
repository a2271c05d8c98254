---------------------------- MODULE PdaRunCommit ----------------------------
(* Proofs about what was shifted, for every grammar.  A parser keeps the     *)
(* nodes it shifted on the stack and, under the ones that were reduced, as   *)
(* children: Shifted is what one would get by taking back the stack node by  *)
(* node.  It is shown to be well defined in every state, to grow by one node *)
(* with a shift, to lose the last one with an unshift and to be left alone   *)
(* by everything else, and from that: what was shifted before a commit stays *)
(* (CommitsHold), and shift_count counts it (ShiftsCounted).                 *)
EXTENDS PdaRunRetry, FunctionTheorems

USE DEF nodeVars, stateVars, scanVars, btVars, stepVars, endVars, codeVars, driverVars
USE DEF Backtrack, NoDeck, NoChecks
USE DEF Idle, Record, parserVars

-----------------------------------------------------------------------------
(* The order of the shifts is well defined, and what a step does to it. *)

\* The cells of e were shifted one after the other, to the stack s; k cells were there.
Grown(p, s, k, e) ==
  /\ e \in Seq(Ref) /\ Len(e) <= k
  /\ \E st \in [Nat -> Seq(Ref)] : Chain(p, e, st, Len(e)) /\ st[Len(e)] = s

\* What the stack was before its top was shifted is a stack.
LEMMA BackType ==
  ASSUME NEW p \in [Ref -> Node], NEW s \in Seq(Ref)
  PROVE  Back(p, s) \in Seq(Ref)
<1>1. CASE s = <<>>
  BY <1>1 DEF Back
<1>2. CASE s # <<>>
  <2>1. Head(s) \in Ref /\ Tail(s) \in Seq(Ref)
    BY <1>2, HeadTailType
  <2> DEFINE c == p[Head(s)].child
  <2>2. c \in Seq(Ref)
    BY <2>1, NodeSeqs
  <2> HIDE DEF c
  <2>3. Reverse(c) \in Seq(Ref)
    BY <2>2, ReverseSet
  <2>4. Reverse(c) \o Tail(s) \in Seq(Ref)
    BY <2>1, <2>3, ConcatSet
  <2>5. QED BY <1>2, <2>4 DEF Back, Unfold, c
<1>3. QED BY <1>1, <1>2

\* The cells under a stack are those that were shifted, in that order (OrderOf).
LEMMA OrderIs ==
  ASSUME NEW p \in [Ref -> Node], NEW s \in Seq(Ref), NEW lv, Cardinality(lv) \in Nat,
         NEW e, Grown(p, s, Cardinality(lv), e)
  PROVE  OrderOf(p, s, lv) = e
<1> DEFINE k == Cardinality(lv)
           A == Seq(Ref)
           F(f) == [i \in 0..k |->
                      IF i = 0 THEN s ELSE CHOOSE x \in {Back(p, t) : t \in {f[i - 1]}} : TRUE]
           at == CHOOSE f : f = F(f)
           step == [i \in 1..k |-> [t \in A |-> Back(p, t)]]
<1>1. k \in Nat /\ step \in [1..k -> [A -> A]]
  BY BackType
<1>2. PICK g : Iteration(g, A, s, k, step)
  <2> HIDE DEF step, A, k
  <2>1. s \in A
    BY DEF A
  <2>2. QED BY <1>1, <2>1, Iterates
<1>3. g \in [0..k -> A] /\ g[0] = s /\ \A i \in 1..k : g[i] = Back(p, g[i - 1])
  <2>1. g \in [0..k -> A] /\ g[0] = s /\ \A i \in 1..k : g[i] = step[i][g[i - 1]]
    BY <1>2 DEF Iteration
  <2>2. \A i \in 1..k : g[i - 1] \in A
    BY <2>1
  <2> HIDE DEF A, k
  <2>3. \A i \in 1..k : step[i][g[i - 1]] = Back(p, g[i - 1])
    BY <2>2
  <2>4. QED BY <2>1, <2>3
<1>4. \A x : (CHOOSE y \in {Back(p, t) : t \in {x}} : TRUE) = Back(p, x)
  OBVIOUS
<1>5. g = F(g)
  <2>1. \A i \in 0..k : i # 0 => i \in 1..k
    BY <1>1
  <2> HIDE DEF A, k
  <2>2. QED BY <1>3, <1>4, <2>1
<1>6. at = F(at)
  BY <1>5
<1>7. at[0] = s /\ \A i \in 1..k : at[i] = Back(p, at[i - 1])
  <2>1. 0 \in 0..k /\ \A i \in 1..k : i \in 0..k /\ i # 0
    BY <1>1
  <2> HIDE DEF at, k
  <2>2. QED BY <1>4, <1>6, <2>1
<1> DEFINE n == Len(e)
<1>8. e \in Seq(Ref) /\ n \in Nat /\ n <= k /\ DOMAIN e = 1..n
  BY DEF Grown
<1>9. PICK st \in [Nat -> Seq(Ref)] : Chain(p, e, st, n) /\ st[n] = s
  BY DEF Grown
<1>10. st[0] = <<>> /\ \A i \in 1..n : st[i] # <<>> /\ Head(st[i]) = e[i] /\ st[i - 1] = Back(p, st[i])
  BY <1>9 DEF Chain, Back
<1> HIDE DEF at, F, step, n, k, A
<1>11. \A i \in 0..n : at[i] = st[n - i]
  <2> DEFINE S == {i \in Nat : i <= n => at[i] = st[n - i]}
  <2>1. 0 \in S
    BY <1>7, <1>8, <1>9
  <2>2. ASSUME NEW i \in Nat, i \in S PROVE i + 1 \in S
    <3> SUFFICES ASSUME i + 1 <= n PROVE at[i + 1] = st[n - (i + 1)]
      OBVIOUS
    <3>1. n - i \in 1..n /\ (n - i) - 1 = n - (i + 1) /\ i + 1 \in 1..k /\ (i + 1) - 1 = i
      BY <1>1, <1>8
    <3>2. at[i] = st[n - i]
      BY <1>8, <2>2
    <3>3. QED BY <1>7, <1>10, <3>1, <3>2
  <2>3. Nat \subseteq S
    <3> HIDE DEF S
    <3>1. QED BY <2>1, <2>2, NatSetInduction
  <2>4. QED BY <1>8, <2>3
<1>12. \A i \in 0..k : i >= n => at[i] = <<>>
  <2> DEFINE S == {i \in Nat : i >= n /\ i <= k => at[i] = <<>>}
  <2>0. at[n] = <<>>
    <3>1. n \in 0..n /\ n - n = 0
      BY <1>8
    <3>2. QED BY <1>10, <1>11, <3>1
  <2>1. 0 \in S
    BY <1>8, <2>0, SMTT(60)
  <2>2. ASSUME NEW i \in Nat, i \in S PROVE i + 1 \in S
    <3> SUFFICES ASSUME i + 1 >= n, i + 1 <= k PROVE at[i + 1] = <<>>
      OBVIOUS
    <3>1. i + 1 \in 1..k /\ (i + 1) - 1 = i /\ i <= k /\ (i + 1 = n \/ i >= n)
      BY <1>1, <1>8
    <3>2. CASE i + 1 = n
      BY <2>0, <3>2
    <3>3. CASE i >= n
      <4>1. at[i] = <<>>
        BY <2>2, <3>1, <3>3
      <4>2. QED BY <1>7, <3>1, <4>1 DEF Back
    <3>4. QED BY <3>1, <3>2, <3>3
  <2>3. Nat \subseteq S
    <3> HIDE DEF S
    <3>1. QED BY <2>1, <2>2, NatSetInduction
  <2>4. \A i \in 0..k : i \in Nat /\ i <= k
    BY <1>1
  <2>5. QED BY <2>3, <2>4
<1> DEFINE Ends0(i) == at[i] = <<>> /\ (i > 0 => at[i - 1] # <<>>)
           m == CHOOSE i \in 0..k : Ends0(i)
<1>13. n \in 0..k /\ Ends0(n)
  <2>1. n \in 0..k /\ n >= n /\ (n > 0 => n - 1 \in 0..n /\ n - (n - 1) = 1 /\ 1 \in 1..n)
    BY <1>1, <1>8
  <2>2. at[n] = <<>>
    BY <1>12, <2>1
  <2>3. n > 0 => at[n - 1] # <<>>
    <3>1. n > 0 => at[n - 1] = st[1] /\ st[1] # <<>>
      BY <1>10, <1>11, <2>1
    <3>2. QED BY <3>1
  <2>4. QED BY <2>1, <2>2, <2>3
<1>14. \A i \in 0..k : Ends0(i) => i = n
  <2> SUFFICES ASSUME NEW i \in 0..k, Ends0(i) PROVE i = n
    OBVIOUS
  <2>1. ~(i < n)
    <3> SUFFICES ASSUME i < n PROVE FALSE
      OBVIOUS
    <3>1. i \in 0..n /\ n - i \in 1..n
      <4> HIDE DEF Ends0
      <4>1. k \in Nat /\ n \in Nat /\ i \in 0..k /\ i < n
        BY <1>1, <1>8
      <4>2. QED BY ONLY <4>1
    <3>2. QED BY <1>10, <1>11, <3>1
  <2>2. ~(i > n)
    <3> SUFFICES ASSUME i > n PROVE FALSE
      OBVIOUS
    <3>1. i > 0 /\ i - 1 \in 0..k /\ i - 1 >= n
      BY <1>1, <1>8
    <3>2. QED BY <1>12, <3>1
  <2>3. QED BY <1>1, <1>8, <2>1, <2>2
<1>15. m = n
  <2> HIDE DEF Ends0
  <2>1. QED BY <1>13, <1>14
<1>16. OrderOf(p, s, lv) = [i \in 1..m |-> Head(at[m - i])]
  BY DEF OrderOf, m, at, F, k, Ends0
<1>17. \A i \in 1..n : Head(at[n - i]) = e[i]
  <2>1. \A i \in 1..n : n - i \in 0..n /\ n - (n - i) = i
    BY <1>8
  <2>2. QED BY <1>10, <1>11, <2>1
<1> HIDE DEF m, Ends0
<1>18. OrderOf(p, s, lv) = [i \in 1..n |-> e[i]]
  BY <1>15, <1>16, <1>17
<1>19. QED BY <1>8, <1>18

\* A chain that is not empty, without its last cell.
LEMMA GrownMore ==
  ASSUME NEW p, NEW x \in Ref, NEW stk \in Seq(Ref), NEW k \in Nat, NEW e,
         Grown(p, <<x>> \o stk, k, e)
  PROVE  \E d \in Seq(Ref) : /\ Len(e) \in Nat \ {0} /\ e = Append(d, x)
                             /\ Len(d) = Len(e) - 1
                             /\ \A i \in 1..Len(d) : d[i] = e[i]
                             /\ Grown(p, Unfold(p, x, stk), k, d)
<1> DEFINE s == <<x>> \o stk
           n == Len(e)
           d == SubSeq(e, 1, n - 1)
<1>1. s # <<>> /\ Head(s) = x /\ Tail(s) = stk
  BY ConsParts
<1> HIDE DEF s
<1>2. e \in Seq(Ref) /\ n \in Nat /\ n <= k
  BY DEF Grown
<1>3. PICK st \in [Nat -> Seq(Ref)] : Chain(p, e, st, n) /\ st[n] = s
  BY DEF Grown, s
<1>4. n # 0
  BY <1>1, <1>3 DEF Chain
<1>5. /\ n - 1 \in Nat /\ Chain(p, e, st, n - 1) /\ e[n] = x
      /\ st[n - 1] = Unfold(p, x, stk)
  <2> HIDE DEF n
  <2>1. n \in Nat /\ n # 0 /\ Chain(p, e, st, n)
    BY <1>2, <1>3, <1>4
  <2>2. /\ n - 1 \in Nat /\ Chain(p, e, st, n - 1) /\ Head(st[n]) = e[n]
        /\ st[n - 1] = Unfold(p, e[n], Tail(st[n]))
    <3>1. n - 1 \in Nat /\ n \in 1..n /\ \A i \in 1..(n - 1) : i \in 1..n
      BY <2>1
    <3>2. QED BY <2>1, <3>1, Zenon DEF Chain
  <2>3. QED BY <1>1, <1>3, <2>2
<1>6. /\ d \in Seq(Ref) /\ Len(d) = n - 1 /\ \A i \in 1..(n - 1) : d[i] = e[i]
      /\ e = Append(d, x)
  <2>1. n - 1 \in 0..n /\ n > 0
    <3> HIDE DEF n
    <3>1. QED BY <1>2, <1>4
  <2>2. d \in Seq(Ref) /\ Len(d) = n - 1 /\ \A i \in 1..(n - 1) : d[i] = e[i]
    BY <1>2, <2>1, Cut, ZenonT(60)
  <2>3. e = Append(d, e[n])
    BY <1>2, <2>1, LastOff
  <2>4. QED BY <1>5, <2>2, <2>3
<1> HIDE DEF d, n
<1>7. Chain(p, d, st, n - 1)
  BY <1>5, <1>6, ChainKept
<1>8. Grown(p, Unfold(p, x, stk), k, d)
  <2>1. Len(d) <= k
    BY <1>2, <1>6
  <2>2. d \in Seq(Ref) /\ Chain(p, d, st, Len(d)) /\ st[Len(d)] = Unfold(p, x, stk)
    BY <1>5, <1>6, <1>7
  <2>3. QED BY <2>1, <2>2, Zenon DEF Grown
<1>9. Len(d) = Len(e) - 1 /\ Len(e) \in Nat \ {0}
  BY <1>2, <1>4, <1>6 DEF n
<1>10. \A i \in 1..Len(d) : d[i] = e[i]
  BY <1>6
<1>11. QED BY <1>6, <1>8, <1>9, <1>10, Zenon

\* A stack was grown from the same cells when they have the same children.
LEMMA OrderKept ==
  ASSUME NEW p, NEW q \in [Ref -> Node], NEW s \in Seq(Ref),
         NEW k \in Nat, NEW j \in Nat,
         NEW e, Grown(p, s, k, e), NEW u, Grown(q, s, j, u),
         \A i \in 1..Len(e) : q[e[i]].child = p[e[i]].child
  PROVE  u = e
<1> DEFINE lv == 1..(k + j)
<1>1. Cardinality(lv) = k + j /\ k + j \in Nat
  <2>1. 1 \in Int /\ k + j \in Int /\ (1 > k + j => k + j = 0) /\ (k + j) - 1 + 1 = k + j
    OBVIOUS
  <2>2. Cardinality(1..(k + j)) = IF 1 > k + j THEN 0 ELSE (k + j) - 1 + 1
    BY <2>1, FS_Interval
  <2>3. QED BY <2>1, <2>2
<1> HIDE DEF lv
<1>2. Grown(q, s, Cardinality(lv), u)
  <2>1. u \in Seq(Ref) /\ Len(u) <= j
    BY DEF Grown
  <2>2. Len(u) <= k + j
    BY <2>1
  <2>3. QED BY <1>1, <2>1, <2>2 DEF Grown
<1>3. Grown(q, s, Cardinality(lv), e)
  <2>1. e \in Seq(Ref) /\ Len(e) <= k /\ Len(e) \in Nat
    BY DEF Grown
  <2>2. Len(e) <= k + j
    BY <2>1
  <2>3. PICK st \in [Nat -> Seq(Ref)] : Chain(p, e, st, Len(e)) /\ st[Len(e)] = s
    BY DEF Grown
  <2>4. Chain(q, e, st, Len(e))
    BY <2>1, <2>3, ChainKept
  <2>5. QED BY <1>1, <2>1, <2>2, <2>3, <2>4 DEF Grown
<1>4. OrderOf(q, s, lv) = u
  BY <1>1, <1>2, OrderIs
<1>5. OrderOf(q, s, lv) = e
  BY <1>1, <1>3, OrderIs
<1>6. QED BY <1>4, <1>5

\* The same, of two trees.
LEMMA SameOrder ==
  ASSUME NEW p \in [Ref -> Node], NEW q \in [Ref -> Node], NEW s \in Seq(Ref),
         NEW k \in Nat, NEW j \in Nat,
         NEW e, Grown(p, s, k, e), NEW u, Grown(q, s, j, u),
         \A i \in 1..Len(e) : q[e[i]].child = p[e[i]].child
  PROVE  u = e
BY OrderKept

\* A stack that was shifted to was grown from one cell more.
LEMMA PushedOrder ==
  ASSUME NEW p \in [Ref -> Node], NEW q \in [Ref -> Node], NEW x \in Ref, NEW stk \in Seq(Ref),
         NEW k \in Nat, NEW j \in Nat, NEW e, Grown(p, Unfold(p, x, stk), k, e),
         NEW u, Grown(q, <<x>> \o stk, j, u),
         \A i \in 1..Len(u) : p[u[i]].child = q[u[i]].child
  PROVE  u = Append(e, x)
<1> DEFINE s == Unfold(p, x, stk)
<1>1. PICK d \in Seq(Ref) :
        /\ Len(u) \in Nat \ {0} /\ u = Append(d, x) /\ Len(d) = Len(u) - 1
        /\ \A i \in 1..Len(d) : d[i] = u[i]
        /\ Grown(q, Unfold(q, x, stk), j, d)
  <2> HIDE DEF s
  <2>1. QED BY GrownMore
<1>2. u[Len(u)] = x /\ Len(u) \in 1..Len(u) /\ \A i \in 1..Len(d) : i \in 1..Len(u)
  <2>1. Len(u) \in 1..Len(u) /\ \A i \in 1..(Len(u) - 1) : i \in 1..Len(u)
    BY <1>1
  <2>2. Append(d, x)[Len(d) + 1] = x
    BY <1>1
  <2>3. Len(d) + 1 = Len(u)
    BY <1>1
  <2>4. QED BY <1>1, <2>1, <2>2, <2>3
<1>3. Unfold(q, x, stk) = s
  BY <1>2 DEF Unfold
<1>4. s \in Seq(Ref)
  <2>1. p[x].child \in Seq(Ref)
    BY NodeSeqs
  <2>2. Reverse(p[x].child) \in Seq(Ref)
    BY <2>1, ReverseSet
  <2>3. QED BY <2>2, ConcatSet DEF Unfold
<1> HIDE DEF s
<1>5. \A i \in 1..Len(d) : p[d[i]].child = q[d[i]].child
  BY <1>1, <1>2
<1>6. PICK t \in Seq(Ref) : t = s
  BY <1>4
<1>7. Grown(q, t, j, d) /\ Grown(p, t, k, e)
  BY <1>1, <1>3, <1>6 DEF s
<1>8. e = d
  BY <1>5, <1>7, OrderKept
<1>9. QED BY <1>1, <1>8

-----------------------------------------------------------------------------
(* What is shifted. *)

\* The cells e are what the stack stk and the input a were made from; none of them is in a.
Made(p, stk, a, lv, e) ==
  /\ Grown(p, Before(p, stk, a), Cardinality(lv), e)
  /\ \A i \in 1..Len(e) : e[i] \in lv /\ e[i] \notin ToSet(a)

\* So are the first cells of a trail.
LEMMA TrailMade ==
  ASSUME NEW p \in [Ref -> Node], NEW stk \in Seq(Ref), NEW a \in Seq(Ref), NEW lv,
         IsFiniteSet(lv), Trail(p, stk, a, lv), a # <<>> => Behind(p, Tail(a)),
         \A x \in Ref : InParse(p, stk, a, x) => x \in lv
  PROVE  \E e \in Seq(Ref) : Made(p, stk, a, lv, e)
<1>1. PICK u \in Seq(Ref), st \in [Nat -> Seq(Ref)], n \in Nat : TrailOf(p, stk, a, lv, u, st, n)
  BY DEF Trail
<1>2. IsInjective(u) /\ Chain(p, u, st, n) /\ st[n] = Before(p, stk, a) /\ Ends(u, n, a)
  BY <1>1 DEF TrailOf
<1>3. ASSUME NEW i \in 1..n PROVE i \in DOMAIN u /\ u[i] \in lv /\ u[i] \notin ToSet(a)
  <2>1. CASE a = <<>>
    <3>1. Behind(p, a)
      BY <2>1 DEF Behind
    <3>2. u[i] \in Ref /\ InParse(p, stk, a, u[i]) /\ u[i] \notin ToSet(a)
      BY <1>1, <3>1, ShiftedBelow
    <3>3. i \in DOMAIN u
      BY <1>2, EndsAt
    <3>4. QED BY <3>2, <3>3
  <2>2. CASE a # <<>>
    <3>1. ReducedFront(p, a)
      BY <2>2 DEF ReducedFront
    <3>2. i \in DOMAIN u /\ u[i] \in Ref /\ InParse(p, stk, a, u[i]) /\ u[i] \notin ToSet(a)
      BY <1>1, <3>1, UnreducedBelow
    <3>3. QED BY <3>2
  <2>3. QED BY <2>1, <2>2
<1> DEFINE e == SubSeq(u, 1, n)
<1>4. e \in Seq(Ref) /\ Len(e) = n /\ \A i \in 1..n : e[i] = u[i]
  <2>1. n <= Len(u)
    <3>1. Len(a) \in Nat /\ Len(u) = n + Len(a)
      BY <1>2 DEF Ends
    <3>2. QED BY <3>1
  <2>2. n \in 0..Len(u)
    BY <2>1
  <2>3. u \in Seq(Ref)
    OBVIOUS
  <2>4. QED BY ONLY <2>2, <2>3, Cut, ZenonT(60)
<1> HIDE DEF e
<1>5. n <= Cardinality(lv) /\ Cardinality(lv) \in Nat
  <2> DEFINE f == [i \in 1..n |-> u[i]]
  <2>1. f \in [1..n -> lv]
    BY <1>3
  <2>2. \A i, j \in 1..n : f[i] = f[j] => i = j
    BY <1>2, <1>3 DEF IsInjective
  <2> HIDE DEF f
  <2>3. f \in Injection(1..n, lv)
    BY <2>1, <2>2, Fun_IsInj
  <2>4. Cardinality(1..n) <= Cardinality(lv)
    BY <2>3, FS_Injection
  <2>5. Cardinality(1..n) = n
    <3>1. 1 \in Int /\ n \in Int /\ (1 > n => 0 = n) /\ n - 1 + 1 = n
      OBVIOUS
    <3>2. QED BY <3>1, FS_Interval
  <2>6. QED BY <2>4, <2>5, FS_CardinalityType
<1>6. Chain(p, e, st, n)
  BY <1>2, <1>4, ChainKept
<1>7. Grown(p, Before(p, stk, a), Cardinality(lv), e)
  BY <1>2, <1>4, <1>5, <1>6 DEF Grown
<1>8. QED BY <1>3, <1>4, <1>7 DEF Made

\* The stack before the front of the input was made is a stack.
LEMMA BeforeType ==
  ASSUME NEW p \in [Ref -> Node], NEW stk \in Seq(Ref), NEW a \in Seq(Ref)
  PROVE  Before(p, stk, a) \in Seq(Ref)
<1>1. CASE a = <<>>
  BY <1>1 DEF Before
<1>2. CASE a # <<>>
  <2>1. Head(a) \in Ref
    BY <1>2, HeadTailType
  <2> DEFINE c == p[Head(a)].child
  <2>2. c \in Seq(Ref)
    BY <2>1, NodeSeqs
  <2> HIDE DEF c
  <2>3. Reverse(c) \o stk \in Seq(Ref)
    BY <2>2, ReverseSet, ConcatSet
  <2>4. QED BY <1>2, <2>3 DEF Before, Unfold, c
<1>3. QED BY <1>1, <1>2

\* What was shifted is what the stack and the input were made from.
LEMMA ShiftedNow ==
  ASSUME RInv, ~parse_error
  PROVE  /\ Shifted \in Seq(Ref) /\ Cardinality(live) \in Nat
         /\ Made(pt, stack, Ahead, live, Shifted)
<1>0. /\ IInv /\ ListsInv /\ IsFiniteSet(live) /\ Trail(pt, stack, Ahead, live)
      /\ pt \in [Ref -> Node] /\ stack \in Seq(Ref) /\ Ahead \in Seq(Ref)
      /\ Ahead # <<>> => Behind(pt, Tail(Ahead))
  BY ListTypes, AheadShape DEF RInv, CountInv, TInv, LInv, TrailInv
<1>1. \A x \in Ref : InParse(pt, stack, Ahead, x) => x \in live
  BY <1>0, InParseLive
<1>2. Cardinality(live) \in Nat
  BY <1>0, FS_CardinalityType
<1> DEFINE a == Ahead
           s == Before(pt, stack, a)
<1>3. s \in Seq(Ref)
  BY <1>0, BeforeType
<1> HIDE DEF a
<1>4. PICK e \in Seq(Ref) : Made(pt, stack, a, live, e)
  BY <1>0, <1>1, TrailMade DEF a
<1>5. Grown(pt, s, Cardinality(live), e)
  BY <1>4 DEF Made
<1> HIDE DEF s
<1>6. OrderOf(pt, s, live) = e
  BY <1>0, <1>2, <1>3, <1>5, OrderIs
<1>7. Shifted = e
  BY <1>6 DEF Shifted, s, a
<1>8. QED BY <1>2, <1>4, <1>7 DEF a

\* The cells that were shifted, in terms of the state.
NowMade ==
  /\ Shifted \in Seq(Ref) /\ Cardinality(live) \in Nat /\ pt \in [Ref -> Node]
  /\ Grown(pt, Before(pt, stack, Ahead), Cardinality(live), Shifted)
  /\ \A i \in 1..Len(Shifted) : Shifted[i] \in live /\ Shifted[i] \notin ToSet(Ahead)

\* As long as the parse has not failed, what was shifted is well defined.
LEMMA NowHolds == RInv /\ ~parse_error => NowMade
<1> SUFFICES ASSUME RInv, ~parse_error PROVE NowMade
  OBVIOUS
<1>1. pt \in [Ref -> Node]
  BY ListTypes DEF RInv, TInv, LInv
<1>2. QED BY <1>1, ShiftedNow DEF NowMade, Made

\* It is so after every step.
LEMMA NextMade == (RInv /\ ~parse_error => NowMade)'
BY NowHolds, PTL

\* A step after which the stack was made from the same stack: nothing is shifted or taken
\* back by it.
LEMMA SameShifted ==
  ASSUME NowMade, NowMade', NEW s \in Seq(Ref),
         Before(pt, stack, Ahead) = s, Before(pt', stack', Ahead') = s,
         \A x \in live : x \notin ToSet(Ahead) => pt'[x].child = pt[x].child
  PROVE  Shifted' = Shifted
<1> DEFINE e == Shifted
           u == Shifted'
           k == Cardinality(live)
           j == Cardinality(live')
           p == pt
           q == pt'
<1>1. /\ e \in Seq(Ref) /\ k \in Nat /\ Grown(p, s, k, e) /\ p \in [Ref -> Node]
      /\ \A i \in 1..Len(e) : e[i] \in live /\ e[i] \notin ToSet(Ahead)
  BY DEF NowMade
<1>2. u \in Seq(Ref) /\ j \in Nat /\ Grown(q, s, j, u) /\ q \in [Ref -> Node]
  BY DEF NowMade
<1> HIDE DEF e, u, k, j
<1>3. \A i \in 1..Len(e) : q[e[i]].child = p[e[i]].child
  BY <1>1
<1> HIDE DEF p, q
<1>4. u = e
  <2>1. s \in Seq(Ref) /\ k \in Nat /\ j \in Nat /\ q \in [Ref -> Node] /\ p \in [Ref -> Node]
    BY <1>1, <1>2
  <2>2. Grown(p, s, k, e) /\ Grown(q, s, j, u)
    BY <1>1, <1>2
  <2>3. QED BY ONLY <1>3, <2>1, <2>2, SameOrder
<1>5. QED BY <1>4 DEF e, u

\* A step after which one cell more was shifted.
LEMMA PushShifted ==
  ASSUME NowMade, NowMade', NEW x \in Ref, NEW stk \in Seq(Ref),
         Before(pt, stack, Ahead) = Unfold(pt, x, stk), Before(pt', stack', Ahead') = <<x>> \o stk,
         \A y \in live' : y \notin ToSet(Ahead') => pt'[y].child = pt[y].child
  PROVE  Shifted' = Append(Shifted, x)
<1> DEFINE e == Shifted
           u == Shifted'
           k == Cardinality(live)
           j == Cardinality(live')
           p == pt
           q == pt'
<1>1. e \in Seq(Ref) /\ k \in Nat /\ Grown(p, Unfold(p, x, stk), k, e) /\ p \in [Ref -> Node]
  BY DEF NowMade
<1>2. /\ u \in Seq(Ref) /\ j \in Nat /\ Grown(q, <<x>> \o stk, j, u) /\ q \in [Ref -> Node]
      /\ \A i \in 1..Len(u) : u[i] \in live' /\ u[i] \notin ToSet(Ahead')
  BY DEF NowMade
<1> HIDE DEF e, u, k, j
<1>3. \A i \in 1..Len(u) : p[u[i]].child = q[u[i]].child
  BY <1>2
<1> HIDE DEF p, q
<1>4. u = Append(e, x)
  <2>1. x \in Ref /\ stk \in Seq(Ref) /\ k \in Nat /\ j \in Nat /\ q \in [Ref -> Node] /\ p \in [Ref -> Node]
    BY <1>1, <1>2
  <2>2. Grown(p, Unfold(p, x, stk), k, e) /\ Grown(q, <<x>> \o stk, j, u)
    BY <1>1, <1>2
  <2>3. QED BY ONLY <1>3, <2>1, <2>2, PushedOrder, SMTT(60)
<1>5. QED BY <1>4 DEF e, u

\* A step after which the top of the stack is taken back.
LEMMA PopShifted ==
  ASSUME NowMade, NowMade', NEW x \in Ref, NEW stk \in Seq(Ref),
         Before(pt, stack, Ahead) = <<x>> \o stk, Before(pt', stack', Ahead') = Unfold(pt', x, stk),
         \A y \in live : y \notin ToSet(Ahead) => pt'[y].child = pt[y].child
  PROVE  Shifted = Append(Shifted', x)
<1> DEFINE e == Shifted
           u == Shifted'
           k == Cardinality(live)
           j == Cardinality(live')
           p == pt
           q == pt'
<1>1. /\ e \in Seq(Ref) /\ k \in Nat /\ Grown(p, <<x>> \o stk, k, e) /\ p \in [Ref -> Node]
      /\ \A i \in 1..Len(e) : e[i] \in live /\ e[i] \notin ToSet(Ahead)
  BY DEF NowMade
<1>2. u \in Seq(Ref) /\ j \in Nat /\ Grown(q, Unfold(q, x, stk), j, u) /\ q \in [Ref -> Node]
  BY DEF NowMade
<1> HIDE DEF e, u, k, j
<1>3. \A i \in 1..Len(e) : q[e[i]].child = p[e[i]].child
  BY <1>1
<1> HIDE DEF p, q
<1>4. e = Append(u, x)
  <2>1. x \in Ref /\ stk \in Seq(Ref) /\ k \in Nat /\ j \in Nat /\ q \in [Ref -> Node] /\ p \in [Ref -> Node]
    BY <1>1, <1>2
  <2>2. Grown(q, Unfold(q, x, stk), j, u) /\ Grown(p, <<x>> \o stk, k, e)
    BY <1>1, <1>2
  <2>3. QED BY ONLY <1>3, <2>1, <2>2, PushedOrder
<1>5. QED BY <1>4 DEF e, u

-----------------------------------------------------------------------------
(* What a step does to what was shifted. *)

\* The commit point stays, or is put where the shifts are.
CommitHere == commit_shift_count' \in {commit_shift_count, shift_count'}

\* Nothing was shifted or taken back;
StaysShifted == Shifted' = Shifted /\ shift_count' = shift_count /\ CommitHere
\* a node was shifted, and counted;
GetsShifted ==
  (\E x \in Ref : Shifted' = Append(Shifted, x)) /\ shift_count' = shift_count + 1 /\ CommitHere
\* a node that a frame rejects was put on the stack, and not counted;
GetsRejected ==
  /\ \E x \in Ref : Shifted' = Append(Shifted, x)
  /\ \E f \in Frame, v \in EnvVal : Outcome[f][v].reject
  /\ UNCHANGED <<shift_count, commit_shift_count>>
\* the last node was taken back, and there was no commit after it;
LosesLast ==
  /\ Shifted' \in Seq(Ref)
  /\ \E x \in Ref : Shifted = Append(Shifted', x)
  /\ shift_count' = shift_count - 1 /\ shift_count # commit_shift_count
  /\ UNCHANGED commit_shift_count
\* the parse failed;
GivesUp ==
  /\ Shifted' = Shifted /\ parse_error' /\ UNCHANGED commit_shift_count
  /\ \/ shift_count' = shift_count
     \/ shift_count' = shift_count - 1 /\ shift_count # commit_shift_count
\* or it ended with the program.
Exits == parse_error' /\ induce_exit'
\* One of them is what every step does.
Moves == StaysShifted \/ GetsShifted \/ GetsRejected \/ LosesLast \/ GivesUp \/ Exits

\* The stack, the input and the children are what they were.
LEMMA SameMade ==
  ASSUME NowMade, NowMade', stack \in Seq(Ref), Ahead \in Seq(Ref), live \subseteq Ref,
         stack' = stack, Ahead' = Ahead, \A x \in Ref : pt'[x].child = pt[x].child
  PROVE  Shifted' = Shifted
<1> DEFINE a == Ahead
           s == Before(pt, stack, a)
<1>1. Before(pt', stack', Ahead') = s
  <2>1. CASE a = <<>>
    BY <2>1 DEF Before
  <2>2. CASE a # <<>>
    <3>1. Head(a) \in Ref
      BY <2>2, HeadTailType
    <3> HIDE DEF a
    <3>2. Unfold(pt', Head(a), stack) = Unfold(pt, Head(a), stack)
      BY <3>1 DEF Unfold
    <3>3. QED BY <2>2, <3>2 DEF Before, a
  <2>3. QED BY <2>1, <2>2
<1>2. s \in Seq(Ref)
  BY BeforeType DEF NowMade
<1> HIDE DEF s
<1>3. \A x \in live : x \notin ToSet(Ahead) => pt'[x].child = pt[x].child
  OBVIOUS
<1>4. Before(pt, stack, Ahead) = s
  BY DEF s
<1>5. QED BY <1>1, <1>2, <1>3, <1>4, SameShifted

\* The steps that leave the nodes and the lists as they are.
LEMMA KeptShifted ==
  ASSUME UNCHANGED <<nodeVars, red_lel>>
  PROVE  Shifted' = Shifted
BY DEF Shifted, Ahead

\* A token is sent to parse_token.
LEMMA EnterParserShifted ==
  ASSUME RInv, NowMade, NowMade', NEW node \in Node, NEW n \in Int, EnterParser(node, n),
         pc = "scan", node.child = <<>>,
         UNCHANGED <<stack, red_lel, shift_count, commit_shift_count>>
  PROVE  StaysShifted
<1>1. PICK r \in Ref :
        /\ Fresh(r) /\ live' = live \cup {r}
        /\ pt' = [pt EXCEPT ![r] = [node EXCEPT !.state = pda_cs,
                                                !.has_rcode = Transfer(n)]]
        /\ parse_input' = <<r>>
  BY DEF EnterParser
<1> DEFINE m == [node EXCEPT !.state = pda_cs, !.has_rcode = Transfer(n)]
<1>2. m.child = <<>>
  BY DEF Node
<1>3. pt' = [pt EXCEPT ![r] = m] /\ r \notin live
  BY <1>1 DEF Fresh
<1> HIDE DEF m
<1>4. pt'[r] = m /\ \A x \in Ref : x # r => pt'[x] = pt[x]
  BY <1>3, ListTypes DEF RInv, TInv, LInv
<1>5. ~parse_error /\ parse_input = <<>> /\ red_lel = <<>> /\ TInv /\ IInv
  BY DEF RInv, TInv, LInv, FlowInv, EmptyInv, ListsInv
<1>6. Ahead = <<>> /\ Ahead' = <<r>>
  <2>1. <<>> \o <<r>> = <<r>> /\ <<>> \o <<>> = <<>>
    OBVIOUS
  <2>2. QED BY <1>1, <1>5, <2>1 DEF Ahead
<1>7. pt[r].child = <<>>
  BY <1>3, <1>5, NoChildren
<1>8. \A x \in Ref : pt'[x].child = pt[x].child
  BY <1>2, <1>4, <1>7
<1>9. stack \in Seq(Ref) /\ live \subseteq Ref
  BY <1>5, ListTypes DEF IInv, TypeOK, NodesOK
<1>10. Before(pt, stack, Ahead) = stack
  BY <1>6 DEF Before
<1>11. Before(pt', stack', Ahead') = stack
  BY <1>2, <1>4, <1>6, <1>9, BeforeToken
<1>12. \A x \in live : x \notin ToSet(Ahead) => pt'[x].child = pt[x].child
  BY <1>8, <1>9
<1>13. Shifted' = Shifted
  BY <1>9, <1>10, <1>11, <1>12, SameShifted
<1>14. QED BY <1>13 DEF StaysShifted, CommitHere

\* Ignored text is read.
LEMMA IgnoreShifted ==
  ASSUME RInv, NowMade, NowMade', NEW node \in Node, Ignore(node), pc = "scan", node.child = <<>>
  PROVE  StaysShifted
<1>1. PICK r \in Ref :
        /\ Fresh(r) /\ live' = live \cup {r}
        /\ pt' = [pt EXCEPT ![r] = [node EXCEPT !.has_rcode = Transfer(rc_block_count),
                                                !.retry_region = RetryRegion]]
  BY DEF Ignore
<1> DEFINE m == [node EXCEPT !.has_rcode = Transfer(rc_block_count),
                             !.retry_region = RetryRegion]
<1>2. m.child = <<>>
  BY DEF Node
<1>3. pt' = [pt EXCEPT ![r] = m] /\ r \notin live
  BY <1>1 DEF Fresh
<1> HIDE DEF m
<1>4. pt'[r] = m /\ \A x \in Ref : x # r => pt'[x] = pt[x]
  BY <1>3, ListTypes DEF RInv, TInv, LInv
<1>5. /\ ~parse_error /\ TInv /\ IInv
      /\ UNCHANGED <<stack, parse_input, red_lel, shift_count, commit_shift_count>>
  BY DEF Ignore, RInv, TInv, LInv, FlowInv
<1>6. pt[r].child = <<>>
  BY <1>3, <1>5, NoChildren
<1>7. \A x \in Ref : pt'[x].child = pt[x].child
  BY <1>2, <1>4, <1>6
<1>8. Ahead' = Ahead /\ Ahead \in Seq(Ref)
  BY <1>5, AheadShape DEF Ahead
<1>9. stack \in Seq(Ref) /\ live \subseteq Ref
  BY <1>5, ListTypes DEF IInv, TypeOK, NodesOK
<1>10. Shifted' = Shifted
  BY <1>5, <1>7, <1>8, <1>9, SameMade
<1>11. QED BY <1>5, <1>10 DEF StaysShifted, CommitHere

\* The scanning that sends a node to parse_token.
LEMMA EnteredShifted ==
  ASSUME RInv, NowMade, NowMade', ScanCollectIgnore \/ ScanEof \/ ScanTree \/ ScanToken
  PROVE  StaysShifted
<1>0. IInv /\ StatesOK /\ CodeOK /\ ScannerOK /\ rc_block_count \in Int
  BY DEF RInv, TInv, LInv, IInv, TypeOK, CodeOK
<1>1. CASE ScanCollectIgnore
  <2> DEFINE node == [Blank EXCEPT !.id = CiLel[region], !.retry_region = RetryRegion]
  <2>1. CiLel[region] \in Term /\ RetryRegion \in Nat
    BY <1>0, <1>1, RetryRegionType, RegionAssumption DEF ScannerOK, ScanCollectIgnore
  <2>2. node \in Node
    BY <2>1, BlankType DEF Node, Id
  <2>3. node.child = <<>>
    BY <2>1 DEF Blank
  <2>4. /\ EnterParser(node, rc_block_count) /\ pc = "scan" /\ rc_block_count \in Int
        /\ UNCHANGED <<stack, red_lel, shift_count, commit_shift_count>>
    BY <1>0, <1>1 DEF ScanCollectIgnore
  <2> HIDE DEF node
  <2>5. QED BY <2>2, <2>3, <2>4, EnterParserShifted
<1>2. CASE ScanEof
  <2> DEFINE node == [Blank EXCEPT !.id = EofId]
             writes == RunFrame(EofFrame[region]).env # env
             k == rc_block_count + (IF writes THEN MakeSteps ELSE 0)
  <2>1. node \in Node
    BY BlankType, IdAssumption DEF Node, Id
  <2>2. node.child = <<>>
    BY DEF Blank
  <2>3. /\ EnterParser(node, k) /\ pc = "scan" /\ k \in Int
        /\ UNCHANGED <<stack, red_lel, shift_count, commit_shift_count>>
    BY <1>0, <1>2 DEF ScanEof, MakeSteps
  <2> HIDE DEF node, k
  <2>4. QED BY <2>1, <2>2, <2>3, EnterParserShifted
<1>3. CASE ScanTree
  <2> DEFINE node == [Blank EXCEPT !.id = ItemId[Head(input)], !.artificial = TRUE,
                                   !.text = <<Head(input)>>]
  <2>1. ItemId[Head(input)] \in Term /\ <<Head(input)>> \in Seq(Item)
    BY <1>0, <1>3, TreeItemType DEF ScanTree, Item
  <2>2. node \in Node
    BY <2>1, BlankType DEF Node, Id
  <2>3. node.child = <<>>
    BY <2>1 DEF Blank
  <2>4. /\ EnterParser(node, rc_block_count) /\ pc = "scan" /\ rc_block_count \in Int
        /\ UNCHANGED <<stack, red_lel, shift_count, commit_shift_count>>
    BY <1>0, <1>3 DEF ScanTree
  <2> HIDE DEF node
  <2>5. QED BY <2>2, <2>3, <2>4, EnterParserShifted
<1>4. CASE ScanToken
  <2>1. PICK t \in Matches :
          EnterParser([Blank EXCEPT !.id = t.id, !.retry_region = RetryRegion,
                                    !.text = Taken(MatchLen(t))], rc_block_count)
    BY <1>4 DEF ScanToken
  <2> DEFINE node == [Blank EXCEPT !.id = t.id, !.retry_region = RetryRegion,
                                   !.text = Taken(MatchLen(t))]
  <2>2. /\ t.id \in Term /\ Taken(MatchLen(t)) \in Seq(Item) /\ RetryRegion \in Nat
    <3>1. pc = "scan"
      BY <1>4 DEF ScanToken
    <3>2. QED BY <1>0, <3>1, MatchType, RetryRegionType
  <2>3. node \in Node
    BY <2>2, BlankType DEF Node, Id
  <2>4. node.child = <<>>
    BY <2>2 DEF Blank
  <2>5. EnterParser(node, rc_block_count)
    BY <2>1
  <2>6. /\ pc = "scan"
        /\ UNCHANGED <<stack, red_lel, shift_count, commit_shift_count>>
    BY <1>4 DEF ScanToken
  <2> HIDE DEF node
  <2>7. QED BY <1>0, <2>3, <2>4, <2>5, <2>6, EnterParserShifted
<1>5. QED BY <1>1, <1>2, <1>3, <1>4

\* The scanning of ignored text.
LEMMA IgnoredShifted ==
  ASSUME RInv, NowMade, NowMade', ScanIgnoreTree \/ ScanIgnore
  PROVE  StaysShifted
<1>0. IInv
  BY DEF RInv, TInv, LInv
<1>1. CASE ScanIgnoreTree
  <2> DEFINE node == [Blank EXCEPT !.id = ItemId[Head(input)], !.artificial = TRUE,
                                   !.text = <<Head(input)>>]
  <2>1. ItemId[Head(input)] \in Id /\ <<Head(input)>> \in Seq(Item)
    BY <1>0, <1>1, TreeItemType DEF ScanIgnoreTree, Item, Id
  <2>2. node \in Node
    BY <2>1, BlankType DEF Node
  <2>3. node.child = <<>>
    BY DEF Blank
  <2>4. Ignore(node) /\ pc = "scan"
    BY <1>1 DEF ScanIgnoreTree
  <2> HIDE DEF node
  <2>5. QED BY <2>2, <2>3, <2>4, IgnoreShifted
<1>2. CASE ScanIgnore
  <2>1. PICK t \in Matches :
          Ignore([Blank EXCEPT !.id = t.id, !.right_flag = (pre_region >= 0),
                               !.text = Taken(MatchLen(t))])
    BY <1>2 DEF ScanIgnore
  <2> DEFINE m == [Blank EXCEPT !.id = t.id, !.right_flag = (pre_region >= 0),
                                !.text = Taken(MatchLen(t))]
  <2>2. /\ t.id \in Id /\ Taken(MatchLen(t)) \in Seq(Item)
        /\ (pre_region >= 0) \in BOOLEAN
    <3>1. pc = "scan"
      BY <1>2 DEF ScanIgnore
    <3>2. QED BY <1>0, <3>1, MatchType DEF Id
  <2>3. m \in Node
    BY <2>2, BlankType DEF Node
  <2>4. m.child = <<>>
    BY DEF Blank
  <2>5. Ignore(m) /\ pc = "scan"
    BY <1>2, <2>1 DEF ScanIgnore
  <2> HIDE DEF m
  <2>6. QED BY <2>3, <2>4, <2>5, IgnoreShifted
<1>3. QED BY <1>1, <1>2

\* The retry of a nonterminal that has run its reverse code is left alone.
LEMMA BtDeckShifted ==
  ASSUME RInv, NowMade, NowMade', BtDeck
  PROVE  StaysShifted
<1> DEFINE n == [pt[Lel] EXCEPT !.has_rcode = FALSE]
<1>0. /\ TInv /\ IInv /\ pt \in [Ref -> Node] /\ live \subseteq Ref /\ stack \in Seq(Ref)
      /\ Ahead \in Seq(Ref)
  BY ListTypes, AheadSet DEF RInv, TInv, LInv, IInv, TypeOK, NodesOK
<1>1. /\ pt' = [pt EXCEPT ![Lel] = n] /\ pc = "backtrack" /\ parse_input # <<>>
      /\ UNCHANGED <<stack, parse_input, red_lel, live, shift_count, commit_shift_count>>
  BY DEF BtDeck
<1>2. Lel \in Ref /\ pt[Lel] \in Node
  BY <1>0, <1>1, LelType
<1>3. n.child = pt[Lel].child
  BY <1>2 DEF Node
<1> HIDE DEF n
<1>4. \A r \in Ref : pt'[r].child = pt[r].child
  <2>1. pt'[Lel] = n /\ \A r \in Ref : r # Lel => pt'[r] = pt[r]
    BY <1>0, <1>1, <1>2
  <2>2. QED BY <1>3, <2>1
<1>5. Ahead' = Ahead
  BY <1>1 DEF Ahead
<1>6. Shifted' = Shifted
  BY <1>0, <1>1, <1>4, <1>5, SameMade
<1>7. QED BY <1>1, <1>6 DEF StaysShifted, CommitHere

\* Ignored text is sent back.
LEMMA BtIgnoreShifted ==
  ASSUME RInv, NowMade, NowMade', BtIgnore
  PROVE  StaysShifted
<1> DEFINE x == Head(accum_ignore)
<1>0. /\ TInv /\ IInv /\ pt \in [Ref -> Node] /\ accum_ignore \in Seq(Ref) /\ live \subseteq Ref
      /\ stack \in Seq(Ref) /\ Ahead \in Seq(Ref)
  BY ListTypes, AheadSet DEF RInv, TInv, LInv, IInv, TypeOK, NodesOK
<1>1. /\ pt' = [pt EXCEPT ![x] = Blank] /\ pc = "backtrack"
      /\ accum_ignore # <<>>
      /\ UNCHANGED <<stack, parse_input, red_lel, shift_count, commit_shift_count>>
  BY DEF BtIgnore, SendBack
<1>2. x \in Ref /\ x \in ToSet(accum_ignore)
  <2>1. Head(accum_ignore) \in Ref
    BY <1>0, <1>1, HeadTailType
  <2>2. ToSet(accum_ignore) = {Head(accum_ignore)} \cup ToSet(Tail(accum_ignore))
    BY <1>0, <1>1, HeadSet, Zenon
  <2>3. QED BY <2>1, <2>2
<1> HIDE DEF x
<1>3. ~parse_error
  BY <1>1 DEF RInv, TInv, LInv, FlowInv
<1>4. pt[x].child = <<>>
  BY <1>0, <1>2, <1>3, NoChildren
<1>5. pt'[x] = Blank /\ \A r \in Ref : r # x => pt'[r] = pt[r]
  BY <1>0, <1>1, <1>2, BlankType
<1>6. \A r \in Ref : pt'[r].child = pt[r].child
  BY <1>4, <1>5 DEF Blank
<1>7. Ahead' = Ahead
  BY <1>1 DEF Ahead
<1>8. Shifted' = Shifted
  BY <1>0, <1>1, <1>6, <1>7, SameMade
<1>9. QED BY <1>1, <1>8 DEF StaysShifted, CommitHere

\* A token is sent back.
LEMMA BtSendBackShifted ==
  ASSUME RInv, NowMade, NowMade', BtSendBack
  PROVE  StaysShifted
<1> DEFINE x == Lel
<1>0. /\ TInv /\ IInv /\ pt \in [Ref -> Node] /\ stack \in Seq(Ref) /\ live \subseteq Ref
  BY ListTypes DEF RInv, TInv, LInv, IInv, TypeOK, NodesOK
<1>1. /\ pt' = [pt EXCEPT ![x] = Blank] /\ pc = "backtrack" /\ parse_input # <<>>
      /\ IsTerm(x) /\ parse_input' = <<>>
      /\ UNCHANGED <<stack, red_lel, shift_count, commit_shift_count>>
  BY DEF BtSendBack, SendBack
<1>2. ~parse_error /\ red_lel = <<>> /\ x \in Ref
  BY <1>0, <1>1, LelType DEF TInv, LInv, FlowInv, ListsInv
<1>3. Ahead = <<x>>
  BY <1>0, <1>1, <1>2, Alone
<1>4. Trail(pt, stack, <<x>>, live)
  BY <1>0, <1>2, <1>3 DEF TInv, TrailInv
<1> HIDE DEF x
<1>5. pt[x].child = <<>>
  <2>1. Head(<<x>>) = x /\ <<x>> # <<>> /\ <<x>> \in Seq(Ref)
    BY <1>2
  <2>2. Tok(pt, x)
    BY <1>1 DEF Tok, IsTerm
  <2>3. pt[x] \in Node
    BY <1>0, <1>2
  <2>4. pt[Head(<<x>>)].cause_reduce \in Int
    BY <2>1, <2>3 DEF Node
  <2>5. pt[Head(<<x>>)].child = <<>>
    BY <1>0, <1>4, <2>1, <2>2, <2>4, TrailFront
  <2>6. QED BY <2>1, <2>5
<1>6. pt'[x] = Blank /\ \A r \in Ref : r # x => pt'[r] = pt[r]
  BY <1>0, <1>1, <1>2, BlankType
<1>7. \A r \in Ref : pt'[r].child = pt[r].child
  BY <1>5, <1>6 DEF Blank
<1>8. Before(pt, stack, Ahead) = stack
  BY <1>0, <1>3, <1>5, BeforeToken
<1>9. Ahead' = <<>>
  <2>1. <<>> \o <<>> = <<>>
    OBVIOUS
  <2>2. QED BY <1>1, <1>2, <2>1 DEF Ahead
<1>10. Before(pt', stack', Ahead') = stack
  BY <1>1, <1>9 DEF Before
<1>11. \A r \in live : r \notin ToSet(Ahead) => pt'[r].child = pt[r].child
  BY <1>0, <1>7
<1>12. Shifted' = Shifted
  BY <1>0, <1>8, <1>10, <1>11, SameShifted
<1>13. QED BY <1>1, <1>12 DEF StaysShifted, CommitHere

-----------------------------------------------------------------------------
(* Shifts, and what takes them back. *)

\* A token in front of the input was made from nothing.
FrontAlone ==
  TInv /\ ~parse_error /\ Ahead # <<>> /\ Tok(pt, Head(Ahead)) => Before(pt, stack, Ahead) = stack

\* It is so whenever a step begins.
LEMMA FrontIsAlone == FrontAlone
<1> SUFFICES ASSUME TInv, ~parse_error, Ahead # <<>>, Tok(pt, Head(Ahead))
             PROVE  Before(pt, stack, Ahead) = stack
  BY DEF FrontAlone
<1> DEFINE a == Ahead
           x == Head(a)
<1>0. pt \in [Ref -> Node] /\ stack \in Seq(Ref) /\ a \in Seq(Ref)
  BY ListTypes, AheadSet DEF TInv, LInv
<1>1. Trail(pt, stack, a, live)
  BY DEF TInv, TrailInv
<1>2. a # <<>> /\ Tok(pt, x)
  OBVIOUS
<1>3. x \in Ref
  BY <1>0, <1>2, HeadTailType
<1> HIDE DEF a
<1>4. pt[x] \in Node
  BY <1>0, <1>3
<1>5. pt[Head(a)].cause_reduce \in Int
  BY <1>4 DEF Node
<1>6. pt[x].child = <<>>
  BY <1>0, <1>1, <1>2, <1>5, TrailFront
<1> HIDE DEF x
<1>7. Unfold(pt, x, stack) = stack
  BY <1>0, <1>6, BeforeToken
<1>8. Before(pt, stack, a) = stack
  BY <1>2, <1>7 DEF Before, x
<1>9. QED BY <1>8 DEF a

\* It is so after every step.
LEMMA NextAlone == FrontAlone'
BY FrontIsAlone, PTL

\* What is behind the front of the input was made from nothing, after it has gone.
LEMMA BehindAlone ==
  ASSUME TInv', ~parse_error', NEW b \in Seq(Ref), Behind(pt, b), Ahead' = b,
         \A i \in DOMAIN b : pt'[b[i]].id = pt[b[i]].id
  PROVE  Before(pt', stack', Ahead') = stack'
<1>1. CASE b = <<>>
  BY <1>1 DEF Before
<1>2. CASE b # <<>>
  <2>1. Len(b) = 1 /\ Tok(pt, b[1])
    BY <1>2 DEF Behind
  <2>2. 1 \in DOMAIN b /\ Head(b) = b[1]
    BY <2>1
  <2>3. Tok(pt', Head(b))
    BY <2>1, <2>2 DEF Tok
  <2>4. Ahead' # <<>> /\ Tok(pt', Head(Ahead'))
    BY <1>2, <2>3
  <2>5. QED BY <2>4, NextAlone DEF FrontAlone
<1>3. QED BY <1>1, <1>2

\* The node in front is shifted.
LEMMA ShiftShifted ==
  ASSUME RInv, RInv', NowMade, NowMade', Shift
  PROVE  GetsShifted
<1> DEFINE a == parse_input
           x == Lel
<1>0. /\ TInv /\ IInv /\ ListsInv /\ pt \in [Ref -> Node] /\ stack \in Seq(Ref) /\ a \in Seq(Ref)
      /\ shift_count \in Int /\ TInv'
  BY ListTypes DEF RInv, TInv, LInv, IInv, TypeOK, CountsOK
<1>1. /\ pc = "again" /\ a # <<>>
      /\ stack' = <<x>> \o stack /\ parse_input' = Tail(a)
      /\ UNCHANGED <<red_lel, parse_error, live>>
      /\ shift_count' = shift_count + 1 /\ CommitHere
  BY DEF Shift, Commit, CommitHere
<1>2. ~parse_error /\ red_lel = <<>> /\ ~parse_error'
  BY <1>0, <1>1 DEF TInv, LInv, FlowInv, ListsInv
<1>3. PICK cut \in RightCuts(pt, accum_ignore) : pt' = ShiftPt(cut)
  BY DEF Shift
<1>4. /\ x \in Ref /\ x = Head(a)
      /\ \A r \in Ref : pt'[r].child = pt[r].child /\ pt'[r].id = pt[r].id
  <2>1. x \in Ref
    BY <1>0, <1>1, LelType
  <2>2. /\ \A r \in Ref : r # x => SameCore(pt[r], pt'[r])
        /\ pt'[x].id = pt[x].id /\ pt'[x].child = pt[x].child
    BY <1>0, <1>1, <1>3, ShiftPtCore
  <2>3. QED BY <2>1, <2>2 DEF SameCore, Lel
<1>5. Ahead = a /\ Behind(pt, Tail(a)) /\ Tail(a) \in Seq(Ref)
  BY <1>0, <1>1, <1>2, AheadSet, AheadShape, HeadTailType
<1> HIDE DEF a, x
<1>6. Before(pt, stack, Ahead) = Unfold(pt, x, stack)
  BY <1>1, <1>4, <1>5 DEF Before
<1>7. Ahead' = Tail(a)
  <2>1. <<>> \o Tail(a) = Tail(a)
    BY <1>5
  <2>2. QED BY <1>1, <1>2, <2>1 DEF Ahead
<1>8. Before(pt', stack', Ahead') = <<x>> \o stack
  <2> DEFINE b == Tail(a)
  <2>1. b \in Seq(Ref) /\ Behind(pt, b) /\ Ahead' = b
    BY <1>5, <1>7
  <2> HIDE DEF b
  <2>2. \A i \in DOMAIN b : pt'[b[i]].id = pt[b[i]].id
    BY <1>4, <2>1
  <2>3. Before(pt', stack', Ahead') = stack'
    BY <1>0, <1>2, <2>1, <2>2, BehindAlone
  <2>4. QED BY <1>1, <2>3
<1>9. live' \subseteq Ref
  BY <1>0, <1>1 DEF IInv, TypeOK, NodesOK
<1>10. \A y \in live' : y \notin ToSet(Ahead') => pt'[y].child = pt[y].child
  BY <1>4, <1>9
<1>11. Shifted' = Append(Shifted, x)
  BY <1>0, <1>4, <1>6, <1>8, <1>10, PushShifted
<1>12. QED BY <1>1, <1>4, <1>11 DEF GetsShifted

\* The frame of a reduction has run.
LEMMA ReturnShifted ==
  ASSUME RInv, RInv', NowMade, NowMade', ~parse_error', ReductionReturn
  PROVE  StaysShifted \/ GetsRejected
<1> DEFINE r == red_lel[1]
           o == RunFrame(red_lel[2])
           writes == o.env # env
           made == IF writes THEN MakeSteps ELSE 0
           n == Returned(pt[r], rc_block_count + made, o.reject)
           a == Ahead
<1>0. /\ TInv /\ IInv /\ ListsInv /\ pt \in [Ref -> Node] /\ stack \in Seq(Ref)
      /\ parse_input \in Seq(Ref) /\ live \subseteq Ref /\ env \in EnvVal /\ TInv'
  BY ListTypes DEF RInv, TInv, LInv, IInv, TypeOK, NodesOK, CodeOK
<1>1. /\ pc = "reduction" /\ red_lel # <<>> /\ red_lel' = <<>>
      /\ live' = live /\ UNCHANGED <<shift_count, commit_shift_count>>
  BY <1>0 DEF ReductionReturn, ReductionWaits, IInv
<1>2. r \in Ref /\ red_lel[2] \in Frame
  BY <1>0, <1>1 DEF NodesOK, IInv, TypeOK
<1>3. ~parse_error
  BY <1>0, <1>1 DEF TInv, LInv, FlowInv
<1>4. ~induce_exit'
  BY DEF ReductionReturn
<1>5. /\ pt' = [pt EXCEPT ![r] = n]
      /\ stack' = IF o.reject THEN <<r>> \o stack ELSE stack
      /\ parse_input' = IF o.reject THEN parse_input ELSE <<r>> \o parse_input
  BY <1>4 DEF ReductionReturn, PushRejected
<1>6. o.reject => \E f \in Frame, v \in EnvVal : Outcome[f][v].reject
  <2>1. red_lel[2] # 0
    BY <1>2, TableAssumption
  <2>2. o = Outcome[red_lel[2]][env]
    BY <2>1 DEF RunFrame
  <2>3. QED BY <1>0, <1>2, <2>2
<1>7. n.child = pt[r].child /\ n.id = pt[r].id
  <2>1. pt[r] \in Node
    BY <1>0, <1>2
  <2> HIDE DEF r
  <2>2. QED BY <2>1 DEF Returned, Node
<1>8. /\ a \in Seq(Ref) /\ a = <<r>> \o parse_input
      /\ Behind(pt, parse_input)
  BY <1>0, <1>1, <1>3, AheadSet, AheadShape
<1> HIDE DEF n, r, a
<1>9. pt'[r] = n /\ \A x \in Ref : x # r => pt'[x] = pt[x]
  BY <1>0, <1>2, <1>5
<1>10. \A x \in Ref : pt'[x].child = pt[x].child /\ pt'[x].id = pt[x].id
  BY <1>7, <1>9
<1>11. CASE o.reject
  <2>1. stack' = <<r>> \o stack /\ parse_input' = parse_input
    BY <1>5, <1>11
  <2>2. Ahead' = parse_input
    <3>1. <<>> \o parse_input = parse_input
      BY <1>0
    <3>2. QED BY <1>1, <2>1, <3>1 DEF Ahead
  <2>3. Before(pt, stack, Ahead) = Unfold(pt, r, stack)
    <3>1. a # <<>> /\ Head(a) = r
      BY <1>0, <1>2, <1>8, ConsParts
    <3>2. QED BY <3>1 DEF Before, a
  <2>4. Before(pt', stack', Ahead') = <<r>> \o stack
    <3> DEFINE b == parse_input
    <3>1. b \in Seq(Ref) /\ Behind(pt, b) /\ Ahead' = b
      BY <1>0, <1>8, <2>2
    <3> HIDE DEF b
    <3>2. \A i \in DOMAIN b : pt'[b[i]].id = pt[b[i]].id
      BY <1>10, <3>1
    <3>3. Before(pt', stack', Ahead') = stack'
      BY <1>0, <3>1, <3>2, BehindAlone
    <3>4. QED BY <2>1, <3>3
  <2>5. \A y \in live' : y \notin ToSet(Ahead') => pt'[y].child = pt[y].child
    BY <1>0, <1>1, <1>10
  <2>6. Shifted' = Append(Shifted, r)
    BY <1>0, <1>2, <2>3, <2>4, <2>5, PushShifted
  <2>7. QED BY <1>1, <1>2, <1>6, <1>11, <2>6 DEF GetsRejected
<1>12. CASE ~o.reject
  <2>1. stack' = stack /\ parse_input' = a
    BY <1>5, <1>8, <1>12
  <2>2. Ahead' = Ahead
    <3>1. <<>> \o a = a
      BY <1>8
    <3>2. Ahead' = a
      BY <1>1, <2>1, <3>1 DEF Ahead
    <3>3. QED BY <3>2 DEF a
  <2>3. Ahead \in Seq(Ref)
    BY <1>8 DEF a
  <2>4. Shifted' = Shifted
    BY <1>0, <1>10, <2>1, <2>2, <2>3, SameMade
  <2>5. QED BY <1>1, <2>4 DEF StaysShifted, CommitHere
<1>13. QED BY <1>11, <1>12

\* The top of the stack is taken back.
LEMMA BtUnshiftShifted ==
  ASSUME RInv, RInv', NowMade, NowMade', BtUnshift
  PROVE  LosesLast
<1> DEFINE top == Head(stack)
           stk == Tail(stack)
           bare == parse_input = <<>>
           left == bare /\ IsTerm(top) /\ pt[top].left_ignore # <<>>
           n == [pt[top] EXCEPT !.left_ignore = <<>>]
           p1 == IF left THEN [pt EXCEPT ![top] = n] ELSE pt
           a == parse_input
           b == <<top>> \o a
<1>0. /\ TInv /\ IInv /\ ListsInv /\ pt \in [Ref -> Node] /\ a \in Seq(Ref) /\ live \subseteq Ref
  BY ListTypes DEF RInv, TInv, LInv, IInv, TypeOK, NodesOK
<1>1. /\ stack' = stk /\ parse_input' = b
      /\ pt' = IF bare THEN detach_right_ignore(p1, stk) ELSE p1
      /\ pc = "backtrack"
      /\ a = <<>> \/ Tok(pt, Head(a))
      /\ UNCHANGED <<red_lel, commit_shift_count>>
      /\ shift_count' = shift_count - 1 /\ shift_count # commit_shift_count
  BY DEF BtUnshift, AtUnshift, Tok, IsTerm, Lel, CountBack, AtCommit
<1>2. ~parse_error /\ red_lel = <<>>
  BY <1>0, <1>1 DEF TInv, LInv, FlowInv, ListsInv
<1>3. top \in Ref /\ stk \in Seq(Ref) /\ stack \in Seq(Ref) /\ stack # <<>> /\ pt[top] \in Node
  BY <1>0, HeadTailType, ListTypes DEF BtUnshift
<1>4. SameCore(pt[top], n) /\ n \in Node
  <2> HIDE DEF top
  <2>1. QED BY <1>3, EmptySeq DEF Node, SameCore
<1>5. p1 \in [Ref -> Node] /\ \A r \in Ref : SameCore(pt[r], p1[r])
  <2>1. CASE left
    <3> HIDE DEF n, top
    <3>1. p1 = [pt EXCEPT ![top] = n]
      BY <2>1
    <3>2. p1 \in [Ref -> Node] /\ p1[top] = n /\ \A r \in Ref : r # top => p1[r] = pt[r]
      BY <1>0, <1>3, <1>4, <3>1
    <3> HIDE DEF p1
    <3>3. QED BY <1>4, <3>2 DEF SameCore
  <2>2. CASE ~left
    BY <1>0, <2>2 DEF SameCore
  <2>3. QED BY <2>1, <2>2
<1> HIDE DEF p1, n
<1>6. \A r \in Ref : pt'[r].child = pt[r].child
  <2>1. CASE bare
    <3>1. \A r \in Ref : SameCore(p1[r], pt'[r])
      BY <1>1, <1>3, <1>5, <2>1, DetachCore
    <3>2. QED BY <1>5, <3>1 DEF SameCore
  <2>2. CASE ~bare
    BY <1>1, <1>5, <2>2 DEF SameCore
  <2>3. QED BY <2>1, <2>2
<1>7. Ahead = a
  BY <1>0, <1>2, AheadSet
<1> HIDE DEF a
<1>8. stack = <<top>> \o stk
  BY <1>3
<1>9. Before(pt, stack, Ahead) = <<top>> \o stk
  <2>1. CASE a = <<>>
    BY <1>7, <1>8, <2>1 DEF Before
  <2>2. CASE a # <<>>
    <3>1. Ahead # <<>> /\ Tok(pt, Head(Ahead))
      BY <1>1, <1>7, <2>2
    <3>2. Before(pt, stack, Ahead) = stack
      BY <1>0, <1>2, <3>1, FrontIsAlone DEF FrontAlone
    <3>3. QED BY <1>8, <3>2
  <2>3. QED BY <2>1, <2>2
<1> HIDE DEF top, stk, b
<1>10. b \in Seq(Ref) /\ b # <<>> /\ Head(b) = top
  BY <1>0, <1>3, ConsParts DEF b
<1>11. Ahead' = b
  <2>1. <<>> \o b = b
    BY <1>10
  <2>2. QED BY <1>1, <1>2, <2>1 DEF Ahead
<1>12. Before(pt', stack', Ahead') = Unfold(pt', top, stk)
  BY <1>1, <1>10, <1>11 DEF Before
<1>13. \A y \in live : y \notin ToSet(Ahead) => pt'[y].child = pt[y].child
  BY <1>0, <1>6
<1>14. Shifted = Append(Shifted', top)
  BY <1>3, <1>9, <1>12, <1>13, PopShifted
<1>15. Shifted' \in Seq(Ref)
  BY DEF NowMade
<1>16. QED BY <1>1, <1>3, <1>14, <1>15 DEF LosesLast

-----------------------------------------------------------------------------
(* Reductions, and what takes them back. *)

\* A reduction is taken back: its children are on the stack again.
LEMMA BtUnreduceShifted ==
  ASSUME RInv, RInv', NowMade, NowMade', BtUnreduce
  PROVE  StaysShifted
<1> DEFINE a == parse_input
           x == Lel
           u == pt[x]
           inp == Tail(a)
           stk == Reverse(u.child) \o stack
           p1 == [pt EXCEPT ![x] = Blank]
           y == Head(inp)
           s == stack_top_target(p1, stk)
           n == HandBack(u, p1[y], s)
           p2 == IF inp = <<>> THEN p1 ELSE [p1 EXCEPT ![y] = n]
<1>0. /\ TInv /\ TInv' /\ LInv /\ IInv /\ ListsInv /\ pt \in [Ref -> Node] /\ a \in Seq(Ref)
      /\ stack \in Seq(Ref) /\ live \subseteq Ref
  BY ListTypes DEF RInv, TInv, LInv, IInv, TypeOK, NodesOK
<1>1. /\ stack' = stk /\ parse_input' = inp
      /\ pt' = detach_right_ignore(p2, stk)
      /\ pc = "backtrack" /\ a # <<>>
      /\ UNCHANGED <<red_lel, parse_error, shift_count, commit_shift_count>>
  BY DEF BtUnreduce
<1>2. /\ u \in Node /\ inp \in Seq(Ref) /\ x \in Ref /\ u.child \in Seq(Ref)
      /\ ToSet(a) = {x} \cup ToSet(inp) /\ x = Head(a)
  <2>1. u \in Node /\ inp \in Seq(Ref) /\ x \in Ref
    BY <1>0, <1>1, LelType
  <2>2. ToSet(a) = {x} \cup ToSet(inp)
    BY <1>0, <1>1, LelInput
  <2>3. QED BY <2>1, <2>2, NodeSeqs DEF Lel
<1>3. ~parse_error /\ red_lel = <<>> /\ ~parse_error'
  BY <1>0, <1>1 DEF LInv, FlowInv, ListsInv
<1>4. Ahead = a /\ Behind(pt, inp)
  BY <1>0, <1>1, <1>3, AheadSet, AheadShape
<1>5. inp # <<>> => y \in Ref /\ y # x
  <2> SUFFICES ASSUME inp # <<>> PROVE y \in Ref /\ y # x
    OBVIOUS
  <2>1. 1 \in DOMAIN inp /\ y = inp[1]
    BY <1>2
  <2>2. QED BY <1>0, <1>1, <2>1, TailWaits
<1>6. stk \in Seq(Ref)
  <2>1. Reverse(u.child) \in Seq(Ref)
    BY <1>2, ReverseSet
  <2>2. QED BY <1>0, <2>1, ConcatSet
<1>7. p1 \in [Ref -> Node] /\ p1[x] = Blank /\ \A z \in Ref : z # x => p1[z] = pt[z]
  BY <1>0, <1>2, BlankType
<1>8. stk = Unfold(pt, x, stack)
  BY DEF Unfold
<1>9. s \in State
  BY <1>6, <1>7, TopTargetType
<1> HIDE DEF p1, stk, inp, s, a, x
<1>10. /\ p2 \in [Ref -> Node]
       /\ \A z \in Ref : z # x => p2[z].child = pt[z].child /\ p2[z].id = pt[z].id
  <2>1. CASE inp = <<>>
    BY <1>7, <2>1
  <2>2. CASE inp # <<>>
    <3>1. y \in Ref /\ y # x /\ p1[y] = pt[y] /\ p1[y] \in Node
      BY <1>5, <1>7, <2>2
    <3>2. n \in Node /\ n.id = p1[y].id /\ n.child = p1[y].child
      <4> HIDE DEF u, y
      <4>1. n \in Node
        BY <1>2, <1>9, <3>1, HandBackType
      <4>2. QED BY <1>2, <3>1, <4>1, HandBackKeeps
    <3> HIDE DEF n, y
    <3>3. p2 = [p1 EXCEPT ![y] = n]
      BY <2>2
    <3> HIDE DEF p2
    <3>4. p2 \in [Ref -> Node] /\ p2[y] = n /\ \A z \in Ref : z # y => p2[z] = p1[z]
      BY <1>7, <3>1, <3>2, <3>3
    <3>5. QED BY <1>7, <3>1, <3>2, <3>4
  <2>3. QED BY <2>1, <2>2
<1> HIDE DEF p2, y
<1>11. \A z \in Ref : z # x => pt'[z].child = pt[z].child /\ pt'[z].id = pt[z].id
  <2>1. \A z \in Ref : SameCore(p2[z], pt'[z])
    BY <1>1, <1>6, <1>10, DetachCore
  <2>2. QED BY <1>10, <2>1 DEF SameCore
<1>12. Ahead' = inp
  <2>1. <<>> \o inp = inp
    BY <1>2
  <2>2. QED BY <1>1, <1>3, <2>1 DEF Ahead
<1>13. Before(pt, stack, Ahead) = stk
  BY <1>1, <1>2, <1>4, <1>8 DEF Before
<1>14. Before(pt', stack', Ahead') = stk
  <2>1. \A i \in DOMAIN inp : pt'[inp[i]].id = pt[inp[i]].id
    <3>1. \A i \in DOMAIN inp : inp[i] \in Ref /\ inp[i] # x
      <4>1. \A i \in DOMAIN Tail(parse_input) :
               Tail(parse_input)[i] \in Ref /\ Tail(parse_input)[i] # Lel
        BY <1>0, <1>1, TailWaits DEF a
      <4>2. QED BY <4>1 DEF inp, a, x
    <3>2. QED BY <1>11, <3>1
  <2>2. Before(pt', stack', Ahead') = stack'
    BY <1>0, <1>2, <1>3, <1>4, <1>12, <2>1, BehindAlone
  <2>3. QED BY <1>1, <2>2
<1>15. x \in ToSet(Ahead)
  BY <1>2, <1>4
<1>16. \A z \in live : z \notin ToSet(Ahead) => pt'[z].child = pt[z].child
  BY <1>0, <1>11, <1>15
<1>17. Shifted' = Shifted
  BY <1>6, <1>13, <1>14, <1>16, SameShifted
<1>18. QED BY <1>1, <1>17 DEF StaysShifted, CommitHere

\* The parser is ready to reduce: the children are those of before.
LEMMA ReadyChildren ==
  ASSUME TInv, pc = "again", parse_input # <<>>, HasTrans(pda_cs, pt[Lel].id), Act.prod # 0,
         NEW cut \in RightCuts(pt, accum_ignore), NEW q, q = ReducePt(cut)
  PROVE  \A y \in Ref : q[y].child = pt[y].child
<1>0. IInv /\ LInv /\ pt \in [Ref -> Node] /\ stack \in Seq(Ref)
  BY ListTypes DEF TInv, LInv
<1>1. CASE Act.shift
  <2>1. q = ShiftPt(cut)
    BY <1>1 DEF ReducePt
  <2>2. QED BY <1>0, <2>1, ShiftPtCore DEF SameCore
<1>2. CASE ~Act.shift
  <2>1. q = attach_right_ignore(pt, stack, accum_ignore, cut) \/ q = pt
    BY <1>2 DEF ReducePt
  <2>2. QED BY <1>0, <2>1, AttachCore DEF SameCore
<1>3. QED BY <1>1, <1>2

\* A reduction is done: its node is in front of the token that caused it.
LEMMA ReduceShifted ==
  ASSUME RInv, RInv', NowMade, NowMade', Reduce
  PROVE  StaysShifted \/ GetsShifted
<1>0. /\ TInv /\ TInv' /\ LInv /\ IInv /\ ListsInv /\ live \subseteq Ref /\ pt \in [Ref -> Node]
      /\ stack \in Seq(Ref) /\ parse_input \in Seq(Ref) /\ shift_count \in Int
  BY ListTypes DEF RInv, TInv, LInv, IInv, TypeOK, NodesOK, CountsOK
<1>1. /\ pc = "again" /\ parse_input # <<>> /\ HasTrans(pda_cs, pt[Lel].id) /\ Act.prod # 0
      /\ shift_count' = shift_count + (IF Act.shift THEN 1 ELSE 0) /\ CommitHere
  BY DEF Reduce, Commit, CommitHere
<1>2. PICK cut \in RightCuts(pt, accum_ignore), r \in Ref :
       LET p == Caused(ReducePt(cut))
       IN /\ Fresh(r) /\ live' = live \cup {r}
          /\ pt' = [[p EXCEPT ![Lel].retry_lower = 0] EXCEPT ![r] = Reduction(p[Lel])]
          /\ accum_ignore' = ReduceAccum(cut)
          /\ pda_cs' = IF Children = <<>> THEN pda_cs ELSE p[Children[1]].state
          /\ IF Prod[Act.prod].frame = 0
             THEN /\ parse_input' = <<r>> \o ReduceInput
                  /\ UNCHANGED <<red_lel, pc>>
             ELSE /\ parse_input' = ReduceInput
                  /\ red_lel' = <<r, Prod[Act.prod].frame>> /\ pc' = "reduction"
  BY DEF Reduce
<1> DEFINE len == Prod[Act.prod].len
           q == ReducePt(cut)
           p == Caused(q)
           n == [p[Lel] EXCEPT !.retry_lower = 0]
           m == Reduction(p[Lel])
           b == SubSeq(ReduceStack, len + 1, Len(ReduceStack))
           c == Reverse(SubSeq(ReduceStack, 1, len))
           a == ReduceInput
           s == ReduceStack
           x == Lel
<1>3. q \in [Ref -> Node] /\ s \in Seq(Ref) /\ a \in Seq(Ref) /\ x \in Ref
  BY <1>0, <1>1, ReducePtType, LelType
<1>4. ~parse_error /\ red_lel = <<>>
  BY <1>0, <1>1 DEF LInv, FlowInv, ListsInv
<1>5. \A y \in Ref : q[y].child = pt[y].child
  BY <1>0, <1>1, ReadyChildren
<1>6. p \in [Ref -> Node] /\ \A y \in Ref : p[y].child = q[y].child
  <2>1. p \in [Ref -> Node]
    BY <1>3, CausedFields
  <2>2. /\ \A y \in Ref : a = <<>> \/ y # Head(a) => p[y] = q[y]
        /\ a # <<>> => p[Head(a)].child = q[Head(a)].child
    BY <1>3, CausedOnly
  <2>3. QED BY <2>1, <2>2
<1>7. pt' = [[p EXCEPT ![x] = n] EXCEPT ![r] = m] /\ r \notin live /\ stack' = b
  BY <1>2 DEF Fresh, Reduce
<1>8. len \in 0..Len(s)
  <2>1. pt[Lel].retry_lower \in Nat
    BY <1>0, <1>1, LelType DEF Node
  <2>2. Act.prod \in DOMAIN Prod
    BY <1>0, <1>1, <2>1, ActType DEF Act
  <2>3. QED BY <1>3, <2>2, TableAssumption DEF Reduce
<1>9. m.child = c
  BY DEF Reduction, Children, Blank
<1>10. s = Reverse(c) \o b
  <2> DEFINE k == SubSeq(s, 1, len)
  <2> HIDE DEF s, len
  <2>1. k \in Seq(Ref) /\ s = k \o SubSeq(s, len + 1, Len(s))
    BY <1>3, <1>8, SplitSet
  <2>2. c = Reverse(k) /\ b = SubSeq(s, len + 1, Len(s))
    BY DEF s
  <2> HIDE DEF b, c, k
  <2>3. Reverse(c) = k
    BY <2>1, <2>2, ReverseTwice
  <2>4. QED BY <2>1, <2>2, <2>3
<1>11. r # x
  <2>1. x \in ToSet(parse_input)
    BY <1>0, <1>1, LelInput
  <2>2. x \in live
    BY <1>0, <2>1 DEF ListsInv, OneOwner, Apart, SetsApart
  <2>3. QED BY <1>7, <2>2
<1>12. /\ Ahead = parse_input /\ Lel = Head(parse_input)
  BY <1>0, <1>4, AheadSet DEF Lel
<1>13. ~Act.shift => s = stack /\ Tok(pt, x)
  BY <1>0, <1>1, ReduceTable DEF ReduceStack, IsTerm, Tok
<1>14. Act.shift => s = <<x>> \o stack
  BY DEF ReduceStack
<1> HIDE DEF p, q
<1>15. n.child = p[x].child
  <2>1. p[x] \in Node
    BY <1>3, <1>6
  <2>2. QED BY <2>1 DEF Node
<1> HIDE DEF n, m, len, a, b, c, s, x
<1>16. /\ pt'[r] = m /\ pt'[x] = n
       /\ \A y \in Ref : y # r /\ y # x => pt'[y] = p[y]
  BY <1>3, <1>6, <1>7, <1>11
<1>17. \A y \in Ref : y # r => pt'[y].child = pt[y].child
  BY <1>3, <1>5, <1>6, <1>15, <1>16
<1>18. s = Unfold(pt', r, b)
  BY <1>9, <1>10, <1>16 DEF Unfold
<1>19. <<r>> \o a \in Seq(Ref) /\ <<r>> \o a # <<>> /\ Head(<<r>> \o a) = r
       /\ ToSet(<<r>> \o a) = {r} \cup ToSet(a)
  BY <1>3, ConsSet, ConsParts
<1>20. Ahead' = <<r>> \o a
  <2>1. \/ parse_input' = <<r>> \o a /\ red_lel' = <<>>
        \/ parse_input' = a /\ red_lel' # <<>> /\ red_lel'[1] = r
    BY <1>2, <1>4 DEF a
  <2>2. <<>> \o (<<r>> \o a) = <<r>> \o a
    BY <1>19
  <2>3. QED BY <2>1, <2>2 DEF Ahead
<1>21. Before(pt', stack', Ahead') = s
  BY <1>7, <1>18, <1>19, <1>20 DEF Before
<1>22. r \in ToSet(Ahead') /\ live' \subseteq Ref
  BY <1>0, <1>2, <1>19, <1>20
<1>23. CASE Act.shift
  <2>1. Before(pt, stack, Ahead) = Unfold(pt, x, stack)
    BY <1>1, <1>12 DEF Before, x
  <2>2. Before(pt', stack', Ahead') = <<x>> \o stack
    BY <1>14, <1>21, <1>23
  <2>3. \A y \in live' : y \notin ToSet(Ahead') => pt'[y].child = pt[y].child
    BY <1>17, <1>22
  <2>4. Shifted' = Append(Shifted, x)
    BY <1>0, <1>3, <2>1, <2>2, <2>3, PushShifted
  <2>5. QED BY <1>1, <1>3, <1>23, <2>4 DEF GetsShifted
<1>24. CASE ~Act.shift
  <2>1. Before(pt, stack, Ahead) = s
    <3>1. Ahead # <<>> /\ Tok(pt, Head(Ahead))
      BY <1>1, <1>12, <1>13, <1>24 DEF x
    <3>2. Before(pt, stack, Ahead) = stack
      BY <1>0, <1>4, <3>1, FrontIsAlone DEF FrontAlone
    <3>3. QED BY <1>13, <1>24, <3>2
  <2>2. \A y \in live : y \notin ToSet(Ahead) => pt'[y].child = pt[y].child
    BY <1>0, <1>7, <1>17
  <2>3. Shifted' = Shifted
    BY <1>3, <1>21, <2>1, <2>2, SameShifted
  <2>4. QED BY <1>0, <1>1, <1>24, <2>3 DEF StaysShifted
<1>25. QED BY <1>23, <1>24

\* What each step does to what was shifted.
LEMMA StepMoves == RInv /\ RInv' /\ [Next]_vars => Moves
<1> SUFFICES ASSUME RInv, RInv', [Next]_vars PROVE Moves OBVIOUS
<1>0. FlowInv /\ TypeOK /\ shift_count \in Int
  BY DEF RInv, TInv, LInv, IInv, TypeOK, CountsOK
<1>1. CASE BtFail
  <2>1. /\ UNCHANGED <<nodeVars, red_lel>> /\ parse_error' /\ UNCHANGED commit_shift_count
        /\ \/ shift_count' = shift_count
           \/ shift_count' = shift_count - 1 /\ shift_count # commit_shift_count
    BY <1>1 DEF BtFail, AtCommit, CountBack
  <2>2. QED BY <2>1, KeptShifted DEF Moves, GivesUp
<1>2. CASE \/ ScanPreRegion \/ ScanLater \/ ScanNextRegion \/ ScanNull \/ ScanGenerate
           \/ NoTransition \/ AgainOut \/ Done \/ Drive \/ UNCHANGED vars
  <2>1. UNCHANGED <<nodeVars, red_lel, shift_count, commit_shift_count>>
    <3>1. CASE \/ ScanPreRegion \/ ScanLater \/ ScanNextRegion \/ ScanNull \/ ScanGenerate
      BY <3>1 DEF ScanPreRegion, ScanLater, ScanNextRegion, ScanNull, ScanGenerate
    <3>2. CASE NoTransition \/ AgainOut \/ Done
      BY <3>2 DEF NoTransition, AgainOut, Done
    <3>3. CASE Drive \/ UNCHANGED vars
      BY <3>3 DEF Drive, Send, SendEof, ParseFrag, vars
    <3>4. QED BY <1>2, <3>1, <3>2, <3>3
  <2>2. QED BY <2>1, KeptShifted DEF Moves, StaysShifted, CommitHere
<1>3. CASE BtReverse \/ BtNext \/ BtStop \/ BtRetry
  <2>1. UNCHANGED <<nodeVars, red_lel, shift_count, commit_shift_count>>
    BY <1>3 DEF BtReverse, BtNext, BtStop, BtRetry
  <2>2. QED BY <2>1, KeptShifted DEF Moves, StaysShifted, CommitHere
<1>4. CASE \/ ScanCollectIgnore \/ ScanEof \/ ScanTree \/ ScanToken
           \/ ScanIgnoreTree \/ ScanIgnore \/ Shift \/ Reduce
           \/ BtUnshift \/ BtSendBack \/ BtIgnore \/ BtDeck \/ BtUnreduce
  <2>1. pc \in {"scan", "again", "backtrack"} /\ parse_error' = parse_error
    <3>1. CASE ScanCollectIgnore \/ ScanEof \/ ScanTree \/ ScanToken
      BY <3>1 DEF ScanCollectIgnore, ScanEof, ScanTree, ScanToken
    <3>2. CASE ScanIgnoreTree \/ ScanIgnore
      BY <3>2 DEF ScanIgnoreTree, ScanIgnore, Ignore
    <3>3. CASE Shift \/ Reduce
      BY <3>3 DEF Shift, Reduce
    <3>4. CASE BtUnshift \/ BtSendBack \/ BtIgnore \/ BtDeck \/ BtUnreduce
      BY <3>4 DEF BtUnshift, AtUnshift, BtSendBack, BtIgnore, BtDeck, BtUnreduce
    <3>5. QED BY <1>4, <3>1, <3>2, <3>3, <3>4
  <2>2. ~parse_error /\ ~parse_error'
    BY <1>0, <2>1 DEF FlowInv
  <2>3. NowMade /\ NowMade'
    BY <2>2, NowHolds, NextMade
  <2>4. CASE ScanCollectIgnore \/ ScanEof \/ ScanTree \/ ScanToken
    BY <2>3, <2>4, EnteredShifted DEF Moves
  <2>5. CASE ScanIgnoreTree \/ ScanIgnore
    BY <2>3, <2>5, IgnoredShifted DEF Moves
  <2>6. CASE Shift
    BY <2>3, <2>6, ShiftShifted DEF Moves
  <2>7. CASE Reduce
    BY <2>3, <2>7, ReduceShifted DEF Moves
  <2>8. CASE BtUnshift
    BY <2>3, <2>8, BtUnshiftShifted DEF Moves
  <2>9. CASE BtSendBack \/ BtIgnore \/ BtDeck \/ BtUnreduce
    BY <2>3, <2>9, BtSendBackShifted, BtIgnoreShifted, BtDeckShifted, BtUnreduceShifted DEF Moves
  <2>10. QED BY <1>4, <2>4, <2>5, <2>6, <2>7, <2>8, <2>9
<1>5. CASE ReductionReturn
  <2>1. CASE induce_exit'
    BY <1>5, <2>1 DEF ReductionReturn, Moves, Exits
  <2>2. CASE ~induce_exit'
    <3>1. pc = "reduction" /\ parse_error' = parse_error
      BY <1>5, <2>2 DEF ReductionReturn
    <3>2. ~parse_error /\ ~parse_error'
      BY <1>0, <3>1 DEF FlowInv
    <3>3. NowMade /\ NowMade'
      BY <3>2, NowHolds, NextMade
    <3>4. QED BY <1>5, <3>2, <3>3, ReturnShifted DEF Moves
  <2>3. QED BY <2>1, <2>2
<1>6. QED BY <1>1, <1>2, <1>3, <1>4, <1>5 DEF Next, ParseStep

-----------------------------------------------------------------------------
(* The commit. *)

\* A node more.
LEMMA AppendParts ==
  ASSUME NEW s \in Seq(Ref), NEW x \in Ref
  PROVE  /\ Append(s, x) \in Seq(Ref) /\ Len(Append(s, x)) = Len(s) + 1 /\ Len(s) \in Nat
         /\ \A i \in 1..Len(s) : Append(s, x)[i] = s[i]
OBVIOUS

\* No element is what comes before the first.
LEMMA NonePrefix ==
  ASSUME NEW s \in Seq(Ref), NEW k \in Int, k < 1
  PROVE  SubSeq(s, 1, k) = <<>>
OBVIOUS

\* The first elements of a sequence are a prefix of one that begins with them.
LEMMA PrefixOf ==
  ASSUME NEW s \in Seq(Ref), NEW t \in Seq(Ref), NEW k \in Int,
         k <= Len(s), k <= Len(t), \A i \in 1..k : t[i] = s[i]
  PROVE  IsPrefix(SubSeq(s, 1, k), t)
<1> DEFINE u == SubSeq(s, 1, k)
<1>1. CASE k < 1
  <2>1. u = <<>>
    BY <1>1, NonePrefix
  <2> HIDE DEF u
  <2>2. IsPrefix(u, t)
    BY <2>1, PrefixMore
  <2>3. QED BY <2>2 DEF u
<1>2. CASE k >= 1
  <2>1. u \in Seq(Ref) /\ Len(u) = k /\ \A i \in 1..k : u[i] = s[i]
    <3>1. k \in 0..Len(s)
      BY <1>2
    <3>2. QED BY <3>1, Cut
  <2> HIDE DEF u
  <2>2. Len(u) <= Len(t) /\ \A i \in 1..Len(u) : u[i] = t[i]
    BY <2>1
  <2>3. IsPrefix(u, t)
    BY <2>1, <2>2, PrefixRest
  <2>4. QED BY <2>3 DEF u
<1>3. QED BY <1>1, <1>2

\* The count of the shifts is between the commit point and the number of nodes that
\* were shifted.
CommitInv ==
  /\ shift_count \in Int /\ commit_shift_count \in Int
  /\ ~induce_exit =>
       /\ Shifted \in Seq(Ref)
       /\ commit_shift_count <= shift_count /\ shift_count <= Len(Shifted)

\* What moves it keeps the invariant, and what was committed.
LEMMA CommitMoves ==
  ASSUME CommitInv, CountsOK', Moves, induce_exit => induce_exit'
  PROVE  /\ CommitInv'
         /\ induce_exit' \/ (IsPrefix(Committed, Shifted') /\ CommittedLen <= CommittedLen')
<1>1. shift_count' \in Int /\ commit_shift_count' \in Int
  BY DEF CountsOK
<1>2. CASE induce_exit'
  BY <1>1, <1>2 DEF CommitInv
<1>3. CASE ~induce_exit'
  <2> DEFINE s == Shifted
             t == Shifted'
             c == commit_shift_count
             k == Len(s) - (shift_count - c)
             m == Len(t) - (shift_count' - commit_shift_count')
  <2>1. /\ s \in Seq(Ref) /\ Len(s) \in Nat /\ c \in Int /\ shift_count \in Int
        /\ c <= shift_count /\ shift_count <= Len(s)
    BY <1>3 DEF CommitInv
  <2>2. t \in Seq(Ref) /\ Len(t) \in Nat
    <3>1. CASE StaysShifted \/ GivesUp
      BY <2>1, <3>1 DEF StaysShifted, GivesUp
    <3>2. CASE GetsShifted \/ GetsRejected
      <4>1. PICK x \in Ref : t = Append(s, x)
        BY <3>2 DEF GetsShifted, GetsRejected
      <4> HIDE DEF s, t
      <4>2. QED BY <2>1, <4>1, AppendParts
    <3>3. CASE LosesLast
      BY <3>3 DEF LosesLast
    <3>4. QED BY <1>3, <3>1, <3>2, <3>3 DEF Moves, Exits
  <2>3. /\ commit_shift_count' <= shift_count' /\ shift_count' <= Len(t)
        /\ k <= m /\ \A i \in 1..k : t[i] = s[i]
    <3>1. CASE StaysShifted \/ GivesUp
      <4>1. t = s
        BY <3>1 DEF StaysShifted, GivesUp
      <4>2. /\ shift_count' = shift_count \/ (shift_count' = shift_count - 1 /\ shift_count # c)
            /\ commit_shift_count' \in {c, shift_count'}
        BY <3>1 DEF StaysShifted, GivesUp, CommitHere
      <4> HIDE DEF s, t
      <4>3. QED BY <1>1, <2>1, <4>1, <4>2
    <3>2. CASE GetsShifted \/ GetsRejected
      <4>1. PICK x \in Ref : t = Append(s, x)
        BY <3>2 DEF GetsShifted, GetsRejected
      <4>2. /\ shift_count' \in {shift_count, shift_count + 1}
            /\ commit_shift_count' \in {c, shift_count'}
        BY <3>2 DEF GetsShifted, GetsRejected, CommitHere
      <4> HIDE DEF s, t
      <4>3. Len(t) = Len(s) + 1 /\ \A i \in 1..Len(s) : t[i] = s[i]
        BY <2>1, <4>1, AppendParts
      <4>4. \A i \in 1..k : i \in 1..Len(s)
        BY <2>1
      <4>5. commit_shift_count' <= shift_count' /\ shift_count' <= Len(t) /\ k <= m
        BY <1>1, <2>1, <4>2, <4>3
      <4>6. QED BY <4>3, <4>4, <4>5
    <3>3. CASE LosesLast
      <4>1. PICK x \in Ref : s = Append(t, x)
        BY <3>3 DEF LosesLast
      <4>2. /\ shift_count' = shift_count - 1 /\ shift_count # c /\ commit_shift_count' = c
        BY <3>3 DEF LosesLast
      <4> HIDE DEF s, t, c
      <4>3. Len(s) = Len(t) + 1 /\ \A i \in 1..Len(t) : s[i] = t[i]
        BY <2>2, <4>1, AppendParts
      <4>4. k <= Len(t) /\ k = m /\ c <= shift_count - 1 /\ shift_count - 1 <= Len(t)
        BY <2>1, <2>2, <4>2, <4>3
      <4> HIDE DEF k, m
      <4>5. k \in Int
        BY <2>1 DEF k
      <4>6. \A i \in 1..k : i \in 1..Len(t)
        BY <2>2, <4>4, <4>5
      <4>7. QED BY <2>1, <4>2, <4>3, <4>4, <4>5, <4>6
    <3>4. QED BY <1>3, <3>1, <3>2, <3>3 DEF Moves, Exits
  <2>4. CommitInv'
    BY <1>1, <2>2, <2>3 DEF CommitInv
  <2>5. k \in Int /\ k <= Len(s) /\ k <= Len(t)
    <3> HIDE DEF s, t, c
    <3>1. QED BY <1>1, <2>1, <2>2, <2>3, SMTT(60)
  <2>6. Committed = SubSeq(s, 1, k) /\ CommittedLen = k /\ CommittedLen' = m
    BY DEF Committed, CommittedLen
  <2> HIDE DEF s, t, c, k, m
  <2>7. IsPrefix(SubSeq(s, 1, k), t)
    BY <2>1, <2>2, <2>3, <2>5, PrefixOf
  <2>8. IsPrefix(Committed, Shifted') /\ CommittedLen <= CommittedLen'
    BY <2>3, <2>6, <2>7 DEF t
  <2>9. QED BY <2>4, <2>8
<1>4. QED BY <1>2, <1>3

\* The flags of a failed parse and of the end of the program stay up.
LEMMA FlagsStay ==
  [Next]_vars => (parse_error => parse_error') /\ (induce_exit => induce_exit')
<1> SUFFICES ASSUME [Next]_vars
             PROVE  (parse_error => parse_error') /\ (induce_exit => induce_exit')
  OBVIOUS
<1>1. CASE \/ ScanPreRegion \/ ScanLater \/ ScanCollectIgnore \/ ScanNextRegion \/ ScanNull
           \/ ScanTree \/ ScanIgnoreTree \/ ScanIgnore \/ ScanToken
  <2>1. UNCHANGED <<parse_error, induce_exit>>
    <3>1. CASE ScanPreRegion \/ ScanLater \/ ScanCollectIgnore \/ ScanNextRegion \/ ScanNull
      BY <3>1 DEF ScanPreRegion, ScanLater, ScanCollectIgnore, ScanNextRegion, ScanNull
    <3>2. CASE ScanTree \/ ScanToken
      BY <3>2 DEF ScanTree, ScanToken
    <3>3. CASE ScanIgnoreTree \/ ScanIgnore
      BY <3>3 DEF ScanIgnoreTree, ScanIgnore, Ignore
    <3>4. QED BY <1>1, <3>1, <3>2, <3>3
  <2>2. QED BY <2>1
<1>2. CASE NoTransition \/ Shift \/ Reduce \/ AgainOut \/ Done
  <2>1. UNCHANGED <<parse_error, induce_exit>>
    <3>1. CASE NoTransition \/ AgainOut \/ Done
      BY <3>1 DEF NoTransition, AgainOut, Done
    <3>2. CASE Shift
      BY <3>2 DEF Shift
    <3>3. CASE Reduce
      BY <3>3 DEF Reduce
    <3>4. QED BY <1>2, <3>1, <3>2, <3>3
  <2>2. QED BY <2>1
<1>3. CASE ReductionReturn
  <2>1. CASE induce_exit'
    BY <1>3, <2>1 DEF ReductionReturn
  <2>2. CASE ~induce_exit'
    <3>1. parse_error' = parse_error /\ induce_exit' = (induce_exit \/ RunFrame(red_lel[2]).exit)
      BY <1>3, <2>2 DEF ReductionReturn
    <3>2. QED BY <3>1
  <2>3. QED BY <2>1, <2>2
<1>4. CASE BtFail
  <2>1. parse_error' = TRUE /\ induce_exit' = induce_exit
    BY <1>4 DEF BtFail
  <2>2. QED BY <2>1
<1>5. CASE \/ BtReverse \/ BtNext \/ BtStop \/ BtRetry \/ BtUnshift
           \/ BtSendBack \/ BtIgnore \/ BtDeck \/ BtUnreduce
  <2>1. UNCHANGED <<parse_error, induce_exit>>
    <3>1. CASE BtReverse \/ BtNext \/ BtStop \/ BtRetry
      BY <3>1 DEF BtReverse, BtNext, BtStop, BtRetry
    <3>2. CASE BtUnshift \/ BtSendBack \/ BtIgnore \/ BtDeck \/ BtUnreduce
      BY <3>2 DEF BtUnshift, AtUnshift, BtSendBack, BtIgnore, BtDeck, BtUnreduce
    <3>3. QED BY <1>5, <3>1, <3>2
  <2>2. QED BY <2>1
<1>6. CASE Drive \/ UNCHANGED vars
  <2>1. UNCHANGED <<parse_error, induce_exit>>
    BY <1>6 DEF Drive, Send, SendEof, ParseFrag, vars
  <2>2. QED BY <2>1
<1>7. CASE ScanEof
  <2>1. parse_error' = parse_error /\ induce_exit' = (induce_exit \/ RunFrame(EofFrame[region]).exit)
    BY <1>7 DEF ScanEof
  <2>2. QED BY <2>1
<1>8. CASE ScanGenerate
  <2>1. PICK t \in Matches : induce_exit' = (induce_exit \/ RunFrame(GenFrame[t.id]).exit)
    BY <1>8 DEF ScanGenerate
  <2>2. parse_error' = parse_error
    BY <1>8 DEF ScanGenerate
  <2>3. QED BY <2>1, <2>2
<1>9. QED BY <1>1, <1>2, <1>3, <1>4, <1>5, <1>6, <1>7, <1>8 DEF Next, ParseStep

\* At first nothing was shifted.
LEMMA InitShifted == Init => Shifted = <<>>
<1> SUFFICES ASSUME Init PROVE Shifted = <<>> OBVIOUS
<1>1. pt = [r \in Ref |-> Blank] /\ live = {} /\ stack = <<>> /\ red_lel = <<>> /\ parse_input = <<>>
  BY DEF Init
<1>2. Ahead = <<>> /\ Before(pt, stack, Ahead) = <<>>
  BY <1>1 DEF Ahead, Before
<1>3. pt \in [Ref -> Node] /\ Cardinality(live) = 0
  BY <1>1, BlankType, FS_EmptySet
<1> DEFINE e == <<>>
           st == [i \in Nat |-> <<>>]
<1>4. /\ e \in Seq(Ref) /\ st \in [Nat -> Seq(Ref)] /\ st[0] = <<>> /\ Len(e) = 0 /\ 1..0 = {}
      /\ 0 <= 0
  OBVIOUS
<1> HIDE DEF st
<1>5. Chain(pt, e, st, 0)
  BY <1>4 DEF Chain
<1> HIDE DEF e
<1>6. Grown(pt, <<>>, Cardinality(live), e)
  BY <1>3, <1>4, <1>5 DEF Grown
<1>7. <<>> \in Seq(Ref) /\ Cardinality(live) \in Nat
  BY <1>3
<1>8. OrderOf(pt, <<>>, live) = e
  BY <1>3, <1>6, <1>7, OrderIs
<1>9. QED BY <1>2, <1>8 DEF Shifted, e

\* Every step keeps the invariant of the commit, and what was committed.
LEMMA NextCommit ==
  RInv /\ RInv' /\ CommitInv /\ [Next]_vars
    => /\ CommitInv'
       /\ induce_exit' \/ (IsPrefix(Committed, Shifted') /\ CommittedLen <= CommittedLen')
<1> SUFFICES ASSUME RInv, RInv', CommitInv, [Next]_vars
             PROVE  /\ CommitInv'
                    /\ induce_exit' \/ (IsPrefix(Committed, Shifted') /\ CommittedLen <= CommittedLen')
  OBVIOUS
<1>1. Moves
  BY StepMoves
<1>2. CountsOK'
  BY DEF RInv, TInv, LInv, IInv, TypeOK
<1>3. (parse_error => parse_error') /\ (induce_exit => induce_exit')
  BY FlagsStay
<1>4. QED BY <1>1, <1>2, <1>3, CommitMoves

-----------------------------------------------------------------------------
(* The count of the shifts. *)

\* No frame rejects the node that it runs for.
NoRejects == \A f \in Frame, v \in EnvVal : ~Outcome[f][v].reject

\* shift_count is the number of the nodes that were shifted; with that they are a sequence.
CountedInv == shift_count \in Int /\ (parse_error \/ shift_count = Len(Shifted))

\* Every step that adds a node counts it, every step that takes one back counts it off.
LEMMA CountMoves ==
  ASSUME NoRejects, CountedInv, shift_count' \in Int, Moves, parse_error => parse_error',
         ~parse_error => Shifted \in Seq(Ref)
  PROVE  CountedInv'
<1>1. CASE parse_error'
  BY <1>1 DEF CountedInv
<1>2. CASE ~parse_error'
  <2> DEFINE s == Shifted
             t == Shifted'
  <2>1. s \in Seq(Ref) /\ shift_count = Len(s)
    BY <1>2 DEF CountedInv
  <2>2. shift_count' = Len(t)
    <3>1. CASE StaysShifted
      BY <2>1, <3>1 DEF StaysShifted
    <3>2. CASE GetsShifted
      <4>1. PICK x \in Ref : t = Append(s, x)
        BY <3>2 DEF GetsShifted
      <4>2. shift_count' = shift_count + 1
        BY <3>2 DEF GetsShifted
      <4> HIDE DEF s, t
      <4>3. Len(t) = Len(s) + 1
        BY <2>1, <4>1, AppendParts
      <4>4. QED BY <2>1, <4>2, <4>3
    <3>3. CASE GetsRejected
      BY <3>3 DEF GetsRejected, NoRejects
    <3>4. CASE LosesLast
      <4>1. PICK x \in Ref : s = Append(t, x)
        BY <3>4 DEF LosesLast
      <4>2. shift_count' = shift_count - 1 /\ t \in Seq(Ref)
        BY <3>4 DEF LosesLast
      <4> HIDE DEF s, t
      <4>3. Len(s) = Len(t) + 1 /\ Len(t) \in Nat
        BY <4>1, <4>2, AppendParts
      <4>4. QED BY <2>1, <4>2, <4>3
    <3>5. CASE GivesUp \/ Exits
      BY <1>2, <3>5 DEF GivesUp, Exits
    <3>6. QED BY <3>1, <3>2, <3>3, <3>4, <3>5 DEF Moves
  <2>3. QED BY <2>2 DEF CountedInv
<1>3. QED BY <1>1, <1>2

\* Every step keeps the count.
LEMMA NextCounted ==
  NoRejects /\ RInv /\ RInv' /\ CountedInv /\ [Next]_vars => CountedInv'
<1> SUFFICES ASSUME NoRejects, RInv, RInv', CountedInv, [Next]_vars PROVE CountedInv'
  OBVIOUS
<1>1. Moves /\ (parse_error => parse_error')
  BY StepMoves, FlagsStay
<1>2. shift_count' \in Int
  BY DEF RInv, TInv, LInv, IInv, TypeOK, CountsOK
<1>3. ~parse_error => Shifted \in Seq(Ref)
  BY NowHolds DEF NowMade
<1>4. QED BY <1>1, <1>2, <1>3, CountMoves

\* At first nothing was shifted and nothing was counted.
LEMMA InitCounted == Init => CommitInv /\ CountedInv
<1> SUFFICES ASSUME Init PROVE CommitInv /\ CountedInv OBVIOUS
<1>1. shift_count = 0 /\ commit_shift_count = -1
  BY DEF Init
<1>2. Shifted \in Seq(Ref) /\ Len(Shifted) = 0
  <2>1. Shifted = <<>>
    BY InitShifted
  <2>2. QED BY <2>1
<1>3. QED BY <1>1, <1>2 DEF CommitInv, CountedInv

\* What RetriesCounted rests on holds in every state.
LEMMA Reached == Spec => []RInv
<1>1. Init => RInv
  BY InitInv, InitLists, InitPath, InitTrail, InitCount, InitRegions DEF RInv, TInv, LInv
<1>2. RInv /\ [Next]_vars => RInv'
  BY NextCount
<1>3. QED BY <1>1, <1>2, PTL DEF Spec

\* For every grammar, input and choice of commits: nothing that was shifted before a commit
\* is taken back after it, however often the parser goes back and parses again
\* (pda_run.c: commit_shift_count and shift_count in parse_token).
THEOREM CommitsHold == Spec => CommitHeld
<1> DEFINE CommitStays == induce_exit' \/ (IsPrefix(Committed, Shifted') /\ CommittedLen <= CommittedLen')
<1>1. Init => CommitInv
  BY InitCounted
<1>2. RInv /\ RInv' /\ CommitInv /\ [Next]_vars => CommitInv' /\ [CommitStays]_vars
  BY NextCommit
<1>3. CommitHeld <=> [][CommitStays]_vars
  BY DEF CommitHeld
<1> HIDE DEF CommitStays
<1>4. QED BY <1>1, <1>2, <1>3, Reached, PTL DEF Spec

\* For every grammar whose frames reject nothing: shift_count is the number of the nodes that
\* were shifted and not taken back, until the parse fails.  A frame that rejects its node
\* leaves it on the stack uncounted, for the parser to take back at once
\* (pda_run.c: shift_count in parse_token).
THEOREM ShiftsCounted == NoRejects /\ Spec => []ShiftCountExact
<1>1. Init => CountedInv
  BY InitCounted
<1>2. NoRejects /\ RInv /\ RInv' /\ CountedInv /\ [Next]_vars => CountedInv'
  BY NextCounted
<1>3. CountedInv => ShiftCountExact
  BY DEF CountedInv, ShiftCountExact
<1>4. CASE NoRejects
  <2>1. RInv /\ RInv' /\ CountedInv /\ [Next]_vars => CountedInv'
    BY <1>2, <1>4
  <2>2. QED BY <1>1, <1>3, <2>1, Reached, PTL DEF Spec
<1>5. QED BY <1>4
=============================================================================
