------------------------------ MODULE SeqSets ------------------------------
(***************************************************************************)
(* Facts about sequences that proofs need and the library does not have.   *)
(* First, sequences used as linked lists: what a list holds, and that it   *)
(* holds nothing twice, when elements are put in front, taken off, lists   *)
(* are joined, cut and turned around.  Then what a queue of buffers needs: *)
(* the least place with a property, iteration, sequences of sequences that *)
(* are joined, prefixes, and cuts.                                         *)
(***************************************************************************)
EXTENDS Integers, Sequences, SequencesExt, SequenceTheorems, FiniteSetTheorems,
        WellFoundedInduction, TLAPS

\* A sequence holds what stands at one of its places.
LEMMA InSet ==
  ASSUME NEW S, NEW s \in Seq(S), NEW x
  PROVE  x \in ToSet(s) <=> \E i \in 1..Len(s) : x = s[i]
<1>1. DOMAIN s = 1..Len(s)
  OBVIOUS
<1>2. QED BY <1>1, Zenon DEF ToSet

\* A concatenation holds what its parts hold, each once if these share nothing.
LEMMA ConcatSet ==
  ASSUME NEW S, NEW s \in Seq(S), NEW u \in Seq(S)
  PROVE  /\ s \o u \in Seq(S)
         /\ ToSet(s \o u) = ToSet(s) \cup ToSet(u)
         /\ IsInjective(s \o u) <=>
              IsInjective(s) /\ IsInjective(u) /\ ToSet(s) \cap ToSet(u) = {}
<1> DEFINE t == s \o u
           n == Len(s)
           m == Len(u)
<1>1. /\ t \in Seq(S) /\ n \in Nat /\ m \in Nat
      /\ DOMAIN s = 1..n /\ DOMAIN u = 1..m /\ DOMAIN t = 1..(n + m)
      /\ \A i \in 1..n : t[i] = s[i]
  OBVIOUS
<1>2. \A j \in 1..m : n + j \in 1..(n + m) /\ t[n + j] = u[j]
  OBVIOUS
<1>3. \A i \in 1..(n + m) : i \in 1..n \/ \E j \in 1..m : i = n + j
  <2> SUFFICES ASSUME NEW i \in 1..(n + m), i \notin 1..n PROVE \E j \in 1..m : i = n + j
    OBVIOUS
  <2>1. i - n \in 1..m /\ i = n + (i - n)
    BY <1>1
  <2>2. QED BY <2>1
<1> HIDE DEF t, n, m
<1>4. ToSet(t) = ToSet(s) \cup ToSet(u)
  <2>1. ASSUME NEW x \in ToSet(t) PROVE x \in ToSet(s) \cup ToSet(u)
    <3>1. PICK i \in 1..(n + m) : x = t[i]
      BY <1>1, Zenon DEF ToSet
    <3>2. CASE i \in 1..n
      <4>1. x = s[i]
        BY <1>1, <3>1, <3>2
      <4>2. QED BY <3>2, <4>1, InSet DEF n
    <3>3. CASE i \notin 1..n
      <4>1. PICK j \in 1..m : i = n + j
        BY <1>3, <3>3
      <4>2. x = u[j]
        BY <1>2, <3>1, <4>1
      <4>3. QED BY <4>2, InSet DEF m
    <3>4. QED BY <3>2, <3>3
  <2>2. ToSet(s) \subseteq ToSet(t)
    BY <1>1 DEF ToSet
  <2>3. ToSet(u) \subseteq ToSet(t)
    BY <1>1, <1>2 DEF ToSet
  <2>4. QED BY <2>1, <2>2, <2>3
<1>5. IsInjective(t) => IsInjective(s) /\ IsInjective(u) /\ ToSet(s) \cap ToSet(u) = {}
  <2> SUFFICES ASSUME IsInjective(t)
               PROVE  IsInjective(s) /\ IsInjective(u) /\ ToSet(s) \cap ToSet(u) = {}
    OBVIOUS
  <2>1. IsInjective(s)
    BY <1>1 DEF IsInjective
  <2>2. IsInjective(u)
    <3> SUFFICES ASSUME NEW i \in 1..m, NEW j \in 1..m, u[i] = u[j] PROVE i = j
      BY <1>1 DEF IsInjective
    <3>1. n + i = n + j
      BY <1>1, <1>2 DEF IsInjective
    <3>2. QED BY <1>1, <3>1
  <2>3. ASSUME NEW x \in ToSet(s), x \in ToSet(u) PROVE FALSE
    <3>1. PICK i \in 1..n : x = s[i]
      BY <1>1, <2>3 DEF ToSet
    <3>2. PICK j \in 1..m : x = u[j]
      BY <1>1, <2>3 DEF ToSet
    <3>3. t[i] = t[n + j] /\ i \in DOMAIN t /\ n + j \in DOMAIN t
      <4>1. i \in 1..(n + m) /\ n + j \in 1..(n + m)
        BY <1>1
      <4>2. t[i] = x /\ t[n + j] = x
        BY <1>1, <1>2, <3>1, <3>2
      <4>3. QED BY <1>1, <4>1, <4>2, Zenon
    <3>4. i = n + j
      BY <3>3 DEF IsInjective
    <3>5. QED BY <1>1, <3>4
  <2>4. QED BY <2>1, <2>2, <2>3
<1>6. IsInjective(s) /\ IsInjective(u) /\ ToSet(s) \cap ToSet(u) = {} => IsInjective(t)
  <2> SUFFICES ASSUME IsInjective(s), IsInjective(u), ToSet(s) \cap ToSet(u) = {},
                      NEW i \in 1..(n + m), NEW j \in 1..(n + m), t[i] = t[j]
               PROVE  i = j
    BY <1>1 DEF IsInjective
  <2>1. ASSUME NEW a \in 1..n, NEW b \in 1..m PROVE t[a] # t[n + b]
    <3>1. t[a] \in ToSet(s) /\ t[n + b] \in ToSet(u)
      BY <1>1, <1>2 DEF ToSet
    <3>2. QED BY <3>1
  <2>2. CASE i \in 1..n /\ j \in 1..n
    BY <1>1, <2>2 DEF IsInjective
  <2>3. CASE i \notin 1..n /\ j \notin 1..n
    <3>1. PICK a \in 1..m : i = n + a
      BY <1>3, <2>3
    <3>2. PICK b \in 1..m : j = n + b
      BY <1>3, <2>3
    <3>3. a = b
      BY <1>1, <1>2, <3>1, <3>2 DEF IsInjective
    <3>4. QED BY <3>1, <3>2, <3>3
  <2>4. QED BY <1>3, <2>1, <2>2, <2>3
<1>7. QED BY <1>1, <1>4, <1>5, <1>6 DEF t

LEMMA ConsSet ==
  ASSUME NEW S, NEW e \in S, NEW s \in Seq(S)
  PROVE  /\ <<e>> \o s \in Seq(S)
         /\ ToSet(<<e>> \o s) = {e} \cup ToSet(s)
         /\ IsInjective(<<e>> \o s) <=> IsInjective(s) /\ e \notin ToSet(s)
<1>1. <<e>> \in Seq(S) /\ DOMAIN <<e>> = {1} /\ <<e>>[1] = e
  OBVIOUS
<1>2. ToSet(<<e>>) = {e} /\ IsInjective(<<e>>)
  BY <1>1 DEF ToSet, IsInjective
<1>3. /\ <<e>> \o s \in Seq(S)
      /\ ToSet(<<e>> \o s) = ToSet(<<e>>) \cup ToSet(s)
      /\ IsInjective(<<e>> \o s) <=>
           IsInjective(<<e>>) /\ IsInjective(s) /\ ToSet(<<e>>) \cap ToSet(s) = {}
  BY <1>1, ConcatSet
<1>4. {e} \cap ToSet(s) = {} <=> e \notin ToSet(s)
  OBVIOUS
<1>5. QED BY <1>2, <1>3, <1>4, Zenon

LEMMA HeadSet ==
  ASSUME NEW S, NEW s \in Seq(S), s # <<>>
  PROVE  /\ Head(s) \in S /\ Tail(s) \in Seq(S)
         /\ s = <<Head(s)>> \o Tail(s)
         /\ ToSet(s) = {Head(s)} \cup ToSet(Tail(s))
         /\ IsInjective(s) <=> IsInjective(Tail(s)) /\ Head(s) \notin ToSet(Tail(s))
<1>1. Head(s) \in S /\ Tail(s) \in Seq(S) /\ s = <<Head(s)>> \o Tail(s)
  OBVIOUS
<1> DEFINE e == Head(s)
           u == Tail(s)
<1>2. e \in S /\ u \in Seq(S) /\ s = <<e>> \o u
  BY <1>1
<1> HIDE DEF e, u
<1>3. /\ ToSet(<<e>> \o u) = {e} \cup ToSet(u)
      /\ IsInjective(<<e>> \o u) <=> IsInjective(u) /\ e \notin ToSet(u)
  BY <1>2, ConsSet
<1>4. QED BY <1>2, <1>3, Zenon DEF e, u

LEMMA EmptySet == ToSet(<<>>) = {} /\ IsInjective(<<>>)
BY DEF ToSet, IsInjective

LEMMA OneSet ==
  ASSUME NEW S, NEW e \in S
  PROVE  <<e>> \in Seq(S) /\ ToSet(<<e>>) = {e} /\ IsInjective(<<e>>)
<1>1. <<e>> \in Seq(S) /\ DOMAIN <<e>> = {1} /\ <<e>>[1] = e
  OBVIOUS
<1>2. QED BY <1>1 DEF ToSet, IsInjective

LEMMA SetType == ASSUME NEW S, NEW s \in Seq(S) PROVE ToSet(s) \subseteq S
BY DEF ToSet

\* Reversing changes neither what a sequence holds nor that it holds it once.
LEMMA ReverseSet ==
  ASSUME NEW S, NEW s \in Seq(S)
  PROVE  /\ Reverse(s) \in Seq(S)
         /\ ToSet(Reverse(s)) = ToSet(s)
         /\ IsInjective(s) => IsInjective(Reverse(s))
<1> DEFINE t == Reverse(s)
           n == Len(s)
<1>1. t \in Seq(S) /\ n \in Nat /\ DOMAIN t = 1..n /\ DOMAIN s = 1..n
  BY DEF Reverse
<1>2. \A i \in 1..n : n - i + 1 \in 1..n /\ t[i] = s[n - i + 1]
  BY DEF Reverse
<1>3. \A i \in 1..n : t[n - i + 1] = s[i]
  <2> SUFFICES ASSUME NEW i \in 1..n PROVE t[n - i + 1] = s[i]
    OBVIOUS
  <2>1. n - i + 1 \in 1..n /\ n - (n - i + 1) + 1 = i
    BY <1>1
  <2>2. QED BY <1>2, <2>1
<1> HIDE DEF t, n
<1>4. ToSet(t) = ToSet(s)
  <2>1. ToSet(t) \subseteq ToSet(s)
    BY <1>1, <1>2 DEF ToSet
  <2>2. ToSet(s) \subseteq ToSet(t)
    BY <1>1, <1>2, <1>3 DEF ToSet
  <2>3. QED BY <2>1, <2>2
<1>5. IsInjective(s) => IsInjective(t)
  <2> SUFFICES ASSUME IsInjective(s), NEW i \in 1..n, NEW j \in 1..n, t[i] = t[j]
               PROVE  i = j
    BY <1>1 DEF IsInjective
  <2>1. n - i + 1 = n - j + 1
    BY <1>1, <1>2 DEF IsInjective
  <2>2. QED BY <1>1, <2>1
<1>6. QED BY <1>1, <1>4, <1>5 DEF t

\* Cut in two, a sequence without duplicates gives two that share nothing.
LEMMA SplitSet ==
  ASSUME NEW S, NEW s \in Seq(S), NEW n \in 0..Len(s)
  PROVE  /\ SubSeq(s, 1, n) \in Seq(S) /\ SubSeq(s, n + 1, Len(s)) \in Seq(S)
         /\ s = SubSeq(s, 1, n) \o SubSeq(s, n + 1, Len(s))
         /\ ToSet(s) = ToSet(SubSeq(s, 1, n)) \cup ToSet(SubSeq(s, n + 1, Len(s)))
         /\ IsInjective(s) =>
              /\ IsInjective(SubSeq(s, 1, n)) /\ IsInjective(SubSeq(s, n + 1, Len(s)))
              /\ ToSet(SubSeq(s, 1, n)) \cap ToSet(SubSeq(s, n + 1, Len(s))) = {}
<1>1. SubSeq(s, 1, n) \in Seq(S) /\ SubSeq(s, n + 1, Len(s)) \in Seq(S)
  OBVIOUS
<1>2. SubSeq(s, 1, n) \o SubSeq(s, n + 1, Len(s)) = s
  <2>1. SubSeq(s, 1, n) \o SubSeq(s, n + 1, Len(s)) = SubSeq(s, 1, Len(s))
    <3> 1 \in 1..(Len(s) + 1) /\ n \in (1 - 1)..Len(s) /\ Len(s) \in n..Len(s)
      OBVIOUS
    <3> QED BY ConcatAdjacentSubSeq
  <2>2. QED BY <2>1, SubSeqFull
<1> DEFINE a == SubSeq(s, 1, n)
           b == SubSeq(s, n + 1, Len(s))
<1>3. a \in Seq(S) /\ b \in Seq(S) /\ s = a \o b
  BY <1>1, <1>2
<1> HIDE DEF a, b
<1>4. /\ ToSet(s) = ToSet(a) \cup ToSet(b)
      /\ IsInjective(s) => IsInjective(a) /\ IsInjective(b) /\ ToSet(a) \cap ToSet(b) = {}
  BY <1>3, ConcatSet
<1>5. QED BY <1>3, <1>4 DEF a, b

-----------------------------------------------------------------------------
(* Numbers. *)

\* Of some natural numbers one is the least.
LEMMA LeastNat ==
  ASSUME NEW T \in SUBSET Nat, T # {}
  PROVE  \E m \in T : \A k \in T : m <= k
<1> DEFINE D == {0..k : k \in T}
<1>1. IsWellFoundedOn(StrictSubsetOrdering(Nat), FiniteSubsetsOf(Nat))
  BY FS_StrictSubsetOrderingWellFounded
<1>2. D \subseteq FiniteSubsetsOf(Nat) /\ D # {}
  <2>1. ASSUME NEW k \in T PROVE 0..k \in FiniteSubsetsOf(Nat)
    <3>1. IsFiniteSet(0..k)
      BY FS_Interval
    <3>2. QED BY <3>1 DEF FiniteSubsetsOf
  <2>2. QED BY <2>1
<1>3. PICK x \in D : \A y \in D : ~(<<y, x>> \in StrictSubsetOrdering(Nat))
  <2> HIDE DEF D
  <2>1. QED BY <1>1, <1>2, WFMin
<1>4. PICK m \in T : x = 0..m
  OBVIOUS
<1>5. ASSUME NEW k \in T, k < m PROVE FALSE
  <2>1. /\ 0..k \subseteq 0..m /\ 0..k \subseteq Nat /\ 0..m \subseteq Nat
        /\ m \in 0..m /\ m \notin 0..k
    BY <1>5
  <2>2. <<0..k, 0..m>> \in StrictSubsetOrdering(Nat)
    BY <2>1 DEF StrictSubsetOrdering
  <2>3. QED BY <1>3, <1>4, <2>2
<1>6. QED BY <1>5

\* Induction, over a set of numbers.
LEMMA NatSetInduction ==
  ASSUME NEW S, 0 \in S, \A n \in Nat : n \in S => n + 1 \in S
  PROVE  Nat \subseteq S
<1> SUFFICES ASSUME Nat \ S # {} PROVE FALSE
  OBVIOUS
<1>1. PICK m \in Nat \ S : \A k \in Nat \ S : m <= k
  BY LeastNat
<1>2. m - 1 \in Nat /\ m - 1 \in S
  BY <1>1
<1>3. QED BY <1>1, <1>2

\* The least and the greatest of some of the places of a list.
LEMMA MinPlace ==
  ASSUME NEW T \in SUBSET Nat, T # {}
  PROVE  Min(T) \in T /\ \A k \in T : Min(T) <= k
<1>1. PICK m \in T : \A k \in T : m <= k
  BY LeastNat
<1>2. QED BY <1>1, Zenon DEF Min

\* Of some places of a sequence one is the last.
LEMMA MaxPlace ==
  ASSUME NEW n \in Nat, NEW T \in SUBSET (1..n), T # {}
  PROVE  Max(T) \in T /\ \A k \in T : k <= Max(T)
<1> DEFINE U == {n - k : k \in T}
<1>1. U \in SUBSET Nat /\ U # {}
  <2>1. \A k \in T : n - k \in Nat
    <3>1. \A k \in 1..n : n - k \in Nat
      OBVIOUS
    <3>2. QED BY <3>1
  <2>2. QED BY <2>1
<1>2. PICK m \in U : \A k \in U : m <= k
  <2> HIDE DEF U
  <2>1. QED BY <1>1, LeastNat
<1>3. PICK x \in T : m = n - x
  OBVIOUS
<1>4. \A k \in T : x >= k
  BY <1>2, <1>3
<1>5. Max(T) \in T /\ \A k \in T : Max(T) >= k
  BY <1>4, Zenon DEF Max
<1>6. \A k \in T : k \in Int
  BY 1..n \subseteq Int
<1>7. QED BY <1>5, <1>6

\* The places of a list that come before the others are as many as the last of them says.
LEMMA DownSet ==
  ASSUME NEW n \in Nat, NEW T \in SUBSET (1..n),
         \A k \in T : \A j \in 1..n : j <= k => j \in T
  PROVE  Cardinality(T) \in 0..n /\ T = 1..Cardinality(T)
<1> DEFINE U == {k \in Nat : k + 1 \notin T}
<1>1. U \in SUBSET Nat /\ n \in U
  OBVIOUS
<1>2. PICK m \in U : \A k \in U : m <= k
  <2> HIDE DEF U
  <2>1. U # {}
    BY <1>1
  <2>2. QED BY <1>1, <2>1, LeastNat
<1>3. m \in 0..n /\ m + 1 \notin T
  BY <1>1, <1>2
<1>4. \A k \in T : k <= m
  <2> SUFFICES ASSUME NEW k \in T, ~(k <= m) PROVE FALSE
    OBVIOUS
  <2>1. m + 1 \in 1..n /\ m + 1 <= k
    BY <1>3
  <2>2. QED BY <1>3, <2>1
<1>5. \A k \in 1..m : k \in T
  <2> SUFFICES ASSUME NEW k \in 1..m, k \notin T PROVE FALSE
    OBVIOUS
  <2>1. k - 1 \in U /\ ~(m <= k - 1)
    BY <1>3
  <2>2. QED BY <1>2, <2>1
<1>6. T = 1..m
  <2>1. \A k \in T : k \in 1..m
    <3>1. \A k \in 1..n : k <= m => k \in 1..m
      BY <1>3
    <3>2. QED BY <1>4, <3>1
  <2>2. QED BY <1>5, <2>1, Zenon
<1>7. Cardinality(1..m) = m
  <2>1. Cardinality(1..m) = IF 1 > m THEN 0 ELSE m - 1 + 1
    BY <1>3, FS_Interval
  <2>2. QED BY <1>3, <2>1
<1>8. QED BY <1>3, <1>6, <1>7

\* A function that recursion on the numbers up to n defines.
Iteration(f, A, base, n, step) ==
  f \in [0..n -> A] /\ f[0] = base /\ \A i \in 1..n : f[i] = step[i][f[i - 1]]

\* A step that stays in a set can be iterated.
LEMMA Iterates ==
  ASSUME NEW A, NEW base \in A, NEW n \in Nat, NEW step \in [1..n -> [A -> A]]
  PROVE  \E f : Iteration(f, A, base, n, step)
<1> DEFINE Good(f, m) == f \in [0..m -> A] /\ f[0] = base /\ \A i \in 1..m : f[i] = step[i][f[i - 1]]
           S == {m \in Nat : m <= n => \E f : Good(f, m)}
<1>1. 0 \in S
  <2>1. Good([i \in 0..0 |-> base], 0)
    OBVIOUS
  <2>2. QED BY <2>1
<1>2. ASSUME NEW m \in Nat, m \in S PROVE m + 1 \in S
  <2> SUFFICES ASSUME m + 1 <= n PROVE \E f : Good(f, m + 1)
    OBVIOUS
  <2>1. PICK f : Good(f, m)
    BY <1>2
  <2> DEFINE v == step[m + 1][f[m]]
             g == [i \in 0..(m + 1) |-> IF i = m + 1 THEN v ELSE f[i]]
  <2>2. f[m] \in A /\ v \in A
    <3>1. f[m] \in A
      BY <2>1
    <3>2. m + 1 \in 1..n
      OBVIOUS
    <3>3. QED BY <3>1, <3>2
  <2> HIDE DEF v
  <2>3. g \in [0..(m + 1) -> A]
    BY <2>1, <2>2
  <2>4. g[0] = base /\ \A i \in 0..m : g[i] = f[i]
    BY <2>1
  <2>5. g[m + 1] = v /\ g[m] = f[m]
    OBVIOUS
  <2> HIDE DEF g
  <2>6. ASSUME NEW i \in 1..(m + 1) PROVE g[i] = step[i][g[i - 1]]
    <3>1. CASE i = m + 1
      BY <2>5, <3>1 DEF v
    <3>2. CASE i # m + 1
      <4>1. i \in 1..m /\ i \in 0..m /\ i - 1 \in 0..m
        BY <3>2
      <4>2. QED BY <2>1, <2>4, <4>1
    <3>3. QED BY <3>1, <3>2
  <2>7. QED BY <2>3, <2>4, <2>6
<1>3. n \in S
  <2> HIDE DEF S
  <2>1. QED BY <1>1, <1>2, NatSetInduction
<1>4. QED BY <1>3 DEF Iteration

-----------------------------------------------------------------------------
(* Sequences of sequences. *)

\* What FlattenSeq computes, from the first sequence to the last.
LEMMA FlatChar ==
  ASSUME NEW S, NEW ss \in Seq(Seq(S)), NEW g, g[0] = <<>>,
         \A i \in 0..Len(ss) : g[i] \in Seq(S),
         \A i \in 1..Len(ss) : g[i] = g[i - 1] \o ss[i]
  PROVE  FlattenSeq(ss) = g[Len(ss)]
<1> DEFINE n == Len(ss)
<1>0. n \in Nat /\ \A i \in 1..n : ss[i] \in Seq(S)
  OBVIOUS
<1>1. CASE n = 0
  <2>1. ss = <<>>
    BY <1>1
  <2>2. QED BY <1>1, <2>1 DEF FlattenSeq
<1>2. CASE n # 0
  <2> DEFINE IsFlat(f) == f = [i \in 1..n |-> IF i = 1 THEN ss[i] ELSE f[i - 1] \o ss[i]]
             fl == CHOOSE f : IsFlat(f)
             h == [i \in 1..n |-> g[i]]
  <2>1. IsFlat(h)
    <3>1. ASSUME NEW i \in 1..n
          PROVE  h[i] = IF i = 1 THEN ss[i] ELSE h[i - 1] \o ss[i]
      <4>1. CASE i = 1
        <5>1. g[1] = <<>> \o ss[1] /\ ss[1] \in Seq(S)
          <6>1. 1 \in 1..n /\ 1 - 1 = 0
            BY <4>1
          <6>2. QED BY <1>0, <6>1
        <5>2. <<>> \o ss[1] = ss[1]
          BY <5>1
        <5>3. QED BY <4>1, <5>1, <5>2
      <4>2. CASE i # 1
        <5>1. i - 1 \in 1..n
          BY <1>0, <4>2
        <5>2. QED BY <4>2, <5>1
      <4>3. QED BY <4>1, <4>2
    <3>2. QED BY <3>1
  <2>2. IsFlat(fl)
    <3> HIDE DEF IsFlat
    <3>1. QED BY <2>1
  <2>3. FlattenSeq(ss) = fl[n]
    BY <1>2 DEF FlattenSeq
  <2> DEFINE P == {k \in Nat : k \in 1..n => fl[k] = g[k]}
  <2> HIDE DEF fl
  <2>4. \A i \in 1..n : fl[i] = IF i = 1 THEN ss[i] ELSE fl[i - 1] \o ss[i]
    BY <2>2
  <2> HIDE DEF IsFlat
  <2>5. ASSUME NEW k \in Nat, k \in P PROVE k + 1 \in P
    <3> SUFFICES ASSUME k + 1 \in 1..n PROVE fl[k + 1] = g[k + 1]
      OBVIOUS
    <3>1. g[k + 1] = g[k] \o ss[k + 1]
      <4>1. (k + 1) - 1 = k
        OBVIOUS
      <4>2. QED BY <4>1
    <3>2. CASE k = 0
      <4>1. fl[k + 1] = ss[k + 1] /\ <<>> \o ss[k + 1] = ss[k + 1]
        BY <1>0, <2>4, <3>2
      <4>2. QED BY <3>1, <3>2, <4>1
    <3>3. CASE k # 0
      <4>1. k \in 1..n /\ (k + 1) - 1 = k /\ k + 1 # 1
        <5>1. k + 1 <= n
          OBVIOUS
        <5> HIDE DEF n
        <5>2. QED BY <1>0, <3>3, <5>1
      <4>2. fl[k + 1] = fl[k] \o ss[k + 1]
        BY <2>4, <4>1
      <4>3. fl[k] = g[k]
        BY <2>5, <4>1
      <4>4. QED BY <3>1, <4>2, <4>3
    <3>4. QED BY <3>2, <3>3
  <2>6. Nat \subseteq P
    <3>1. 0 \in P
      OBVIOUS
    <3> HIDE DEF P
    <3>2. QED BY <2>5, <3>1, NatSetInduction
  <2>7. n \in 1..n /\ n \in Nat
    BY <1>0, <1>2
  <2>8. QED BY <2>3, <2>6, <2>7
<1>3. QED BY <1>1, <1>2

\* The sequence is there.
LEMMA FlatStages ==
  ASSUME NEW S, NEW ss \in Seq(Seq(S))
  PROVE  \E g \in [0..Len(ss) -> Seq(S)] :
           g[0] = <<>> /\ \A i \in 1..Len(ss) : g[i] = g[i - 1] \o ss[i]
<1> DEFINE n == Len(ss)
           A == Seq(S)
           step == [i \in 1..n |-> [a \in A |-> a \o ss[i]]]
<1>1. n \in Nat /\ <<>> \in A /\ \A i \in 1..n : ss[i] \in A
  OBVIOUS
<1>2. \A a, b \in A : a \o b \in A
  OBVIOUS
<1> HIDE DEF A, n
<1>3. step \in [1..n -> [A -> A]]
  BY <1>1, <1>2
<1>4. \A i \in 1..n : \A a \in A : step[i][a] = a \o ss[i]
  OBVIOUS
<1> HIDE DEF step
<1>5. PICK g : Iteration(g, A, <<>>, n, step)
  BY <1>1, <1>3, Iterates
<1>6. \A i \in 1..n : g[i] = g[i - 1] \o ss[i]
  <2>1. \A i \in 1..n : i - 1 \in 0..n
    BY <1>1
  <2>2. QED BY <1>4, <1>5, <2>1 DEF Iteration
<1>7. QED BY <1>5, <1>6 DEF Iteration, n, A

\* Flattening.
LEMMA FlatEmpty == FlattenSeq(<<>>) = <<>>
BY DEF FlattenSeq

\* Sequences of characters, joined, are a sequence of characters.
LEMMA FlatType ==
  ASSUME NEW S, NEW ss \in Seq(Seq(S))
  PROVE  FlattenSeq(ss) \in Seq(S)
<1>1. PICK g \in [0..Len(ss) -> Seq(S)] :
        g[0] = <<>> /\ \A i \in 1..Len(ss) : g[i] = g[i - 1] \o ss[i]
  BY FlatStages
<1>2. FlattenSeq(ss) = g[Len(ss)]
  BY <1>1, FlatChar
<1>3. Len(ss) \in 0..Len(ss)
  OBVIOUS
<1>4. QED BY <1>2, <1>3

\* One sequence more is joined at the end.
LEMMA FlatAppend ==
  ASSUME NEW S, NEW ss \in Seq(Seq(S)), NEW s \in Seq(S)
  PROVE  FlattenSeq(Append(ss, s)) = FlattenSeq(ss) \o s
<1> DEFINE n == Len(ss)
           tt == Append(ss, s)
<1>1. /\ n \in Nat /\ tt \in Seq(Seq(S)) /\ Len(tt) = n + 1
      /\ tt[n + 1] = s /\ \A i \in 1..n : tt[i] = ss[i]
  OBVIOUS
<1> HIDE DEF tt
<1>2. PICK g \in [0..Len(tt) -> Seq(S)] :
        g[0] = <<>> /\ \A i \in 1..Len(tt) : g[i] = g[i - 1] \o tt[i]
  BY <1>1, FlatStages
<1>3. FlattenSeq(tt) = g[n + 1]
  BY <1>1, <1>2, FlatChar
<1>4. FlattenSeq(ss) = g[n]
  <2>1. \A i \in 0..n : i \in 0..Len(tt)
    BY <1>1
  <2>2. \A i \in 1..n : i \in 1..Len(tt)
    BY <1>1
  <2>3. \A i \in 0..n : g[i] \in Seq(S)
    BY <1>2, <2>1
  <2>4. \A i \in 1..n : g[i] = g[i - 1] \o ss[i]
    BY <1>1, <1>2, <2>2
  <2> HIDE DEF n
  <2>5. QED BY <1>2, <2>3, <2>4, FlatChar DEF n
<1>5. g[n + 1] = g[n] \o s
  <2>1. n + 1 \in 1..Len(tt) /\ (n + 1) - 1 = n
    BY <1>1
  <2>2. QED BY <1>1, <1>2, <2>1
<1>6. QED BY <1>3, <1>4, <1>5 DEF tt

\* The last sequence of some, and those before it.
LEMMA LastOff ==
  ASSUME NEW S, NEW b \in Seq(S), Len(b) > 0
  PROVE  /\ SubSeq(b, 1, Len(b) - 1) \in Seq(S) /\ Len(SubSeq(b, 1, Len(b) - 1)) = Len(b) - 1
         /\ b[Len(b)] \in S
         /\ b = Append(SubSeq(b, 1, Len(b) - 1), b[Len(b)])
<1> DEFINE n == Len(b)
           t == SubSeq(b, 1, n - 1)
           u == Append(t, b[n])
<1>1. n \in Nat /\ n - 1 \in Nat /\ b[n] \in S
  OBVIOUS
<1>2. t \in Seq(S) /\ Len(t) = n - 1 /\ \A i \in 1..(n - 1) : t[i] = b[i]
  <2>1. ASSUME NEW k \in Nat, k < n
        PROVE  /\ SubSeq(b, 1, k) \in Seq(S) /\ Len(SubSeq(b, 1, k)) = k
               /\ \A i \in 1..k : SubSeq(b, 1, k)[i] = b[i]
    BY <2>1
  <2>2. n - 1 < n
    BY <1>1
  <2> HIDE DEF n
  <2>3. QED BY <1>1, <2>1, <2>2
<1> HIDE DEF t
<1>3. u \in Seq(S) /\ Len(u) = n /\ u[n] = b[n] /\ \A i \in 1..(n - 1) : u[i] = b[i]
  <2>1. (n - 1) + 1 = n
    BY <1>1
  <2>2. QED BY <1>1, <1>2, <2>1
<1>4. \A i \in 1..n : u[i] = b[i]
  <2>1. \A i \in 1..n : i = n \/ i \in 1..(n - 1)
    BY <1>1
  <2> HIDE DEF u, n
  <2>2. QED BY <1>3, <2>1
<1>5. u = b
  <2> HIDE DEF u
  <2>1. QED BY <1>3, <1>4
<1>6. QED BY <1>1, <1>2, <1>5 DEF t

\* Concatenation is associative.
LEMMA Assoc ==
  ASSUME NEW S, NEW a \in Seq(S), NEW b \in Seq(S), NEW c \in Seq(S)
  PROVE  (a \o b) \o c = a \o (b \o c)
OBVIOUS

\* An element at the end of a concatenation.
LEMMA ConcatAppend ==
  ASSUME NEW S, NEW a \in Seq(S), NEW b \in Seq(S), NEW e \in S
  PROVE  a \o Append(b, e) = Append(a \o b, e)
OBVIOUS

\* Joining goes part by part.
LEMMA FlatConcat ==
  ASSUME NEW S, NEW a \in Seq(Seq(S)), NEW b \in Seq(Seq(S))
  PROVE  FlattenSeq(a \o b) = FlattenSeq(a) \o FlattenSeq(b)
<1> DEFINE A == Seq(S)
           Holds(c) == FlattenSeq(a \o c) = FlattenSeq(a) \o FlattenSeq(c)
           P == {k \in Nat : \A c \in Seq(A) : Len(c) = k => Holds(c)}
<1>1. FlattenSeq(a) \in A
  BY FlatType
<1>2. 0 \in P
  <2> SUFFICES ASSUME NEW c \in Seq(A), Len(c) = 0 PROVE Holds(c)
    OBVIOUS
  <2>1. c = <<>> /\ a \o c = a
    OBVIOUS
  <2>2. FlattenSeq(a) \o <<>> = FlattenSeq(a)
    BY <1>1
  <2>3. QED BY <2>1, <2>2, FlatEmpty
<1>3. ASSUME NEW k \in Nat, k \in P PROVE k + 1 \in P
  <2> SUFFICES ASSUME NEW c \in Seq(A), Len(c) = k + 1 PROVE Holds(c)
    OBVIOUS
  <2> DEFINE d == SubSeq(c, 1, Len(c) - 1)
             e == c[Len(c)]
  <2>1. d \in Seq(A) /\ Len(d) = k /\ e \in A /\ c = Append(d, e)
    <3>1. Len(c) > 0 /\ Len(c) - 1 = k
      OBVIOUS
    <3> HIDE DEF A
    <3>2. QED BY <3>1, LastOff
  <2> HIDE DEF d, e
  <2>2. Holds(d)
    BY <1>3, <2>1
  <2>3. a \o c = Append(a \o d, e) /\ a \o d \in Seq(A)
    <3>1. a \o d \in Seq(A)
      BY <2>1
    <3> HIDE DEF A
    <3>2. a \in Seq(A)
      BY DEF A
    <3>3. QED BY <2>1, <3>1, <3>2, ConcatAppend
  <2>4. FlattenSeq(a \o c) = FlattenSeq(a \o d) \o e
    BY <2>1, <2>3, FlatAppend
  <2>5. FlattenSeq(c) = FlattenSeq(d) \o e
    BY <2>1, FlatAppend
  <2>6. FlattenSeq(d) \in A
    BY <2>1, FlatType
  <2>7. (FlattenSeq(a) \o FlattenSeq(d)) \o e = FlattenSeq(a) \o (FlattenSeq(d) \o e)
    <3>1. FlattenSeq(a) \in Seq(S) /\ FlattenSeq(d) \in Seq(S) /\ e \in Seq(S)
      BY <1>1, <2>1, <2>6
    <3> DEFINE x == FlattenSeq(a)
               y == FlattenSeq(d)
    <3> HIDE DEF x, y, A
    <3>2. (x \o y) \o e = x \o (y \o e)
      BY <3>1, Assoc, SMTT(60) DEF x, y
    <3>3. QED BY <3>2 DEF x, y
  <2>8. QED BY <2>2, <2>4, <2>5, <2>7
<1>4. Nat \subseteq P
  <2> HIDE DEF P
  <2>1. QED BY <1>2, <1>3, NatSetInduction
<1>5. Len(b) \in P /\ b \in Seq(A)
  BY <1>4
<1>6. QED BY <1>5

-----------------------------------------------------------------------------
(* Prefixes. *)

\* A prefix, and what follows it.
LEMMA PrefixRest ==
  ASSUME NEW S, NEW s \in Seq(S), NEW t \in Seq(S)
  PROVE  /\ IsPrefix(s, t) => Len(s) <= Len(t) /\ \A i \in 1..Len(s) : s[i] = t[i]
         /\ Len(s) <= Len(t) /\ (\A i \in 1..Len(s) : s[i] = t[i]) => IsPrefix(s, t)
<1> DEFINE n == Len(s)
<1>1. n \in Nat /\ Len(t) \in Nat /\ SubSeq(s, 1, n) = s
  OBVIOUS
<1>2. ASSUME n <= Len(t)
      PROVE  /\ SubSeq(t, 1, n) \in Seq(S) /\ Len(SubSeq(t, 1, n)) = n
             /\ \A i \in 1..n : SubSeq(t, 1, n)[i] = t[i]
  BY <1>1, <1>2
<1>3. ASSUME IsPrefix(s, t) PROVE n <= Len(t) /\ \A i \in 1..n : s[i] = t[i]
  <2>1. n <= Len(t) /\ s = SubSeq(t, 1, n)
    BY <1>1, <1>3 DEF IsPrefix
  <2> HIDE DEF n
  <2>2. QED BY <1>2, <2>1
<1>4. ASSUME n <= Len(t), \A i \in 1..n : s[i] = t[i] PROVE IsPrefix(s, t)
  <2> DEFINE u == SubSeq(t, 1, n)
  <2>1. u \in Seq(S) /\ Len(u) = n /\ \A i \in 1..n : u[i] = s[i]
    BY <1>2, <1>4
  <2> HIDE DEF u
  <2>2. u = s
    BY <2>1
  <2>3. QED BY <1>1, <1>4, <2>2 DEF IsPrefix, u
<1>5. QED BY <1>3, <1>4

\* A sequence is a prefix of what it is continued to; a prefix of a prefix is one, and so is
\* the shorter one of two; a prefix that is as long is the whole.
LEMMA PrefixFacts ==
  ASSUME NEW S, NEW s \in Seq(S), NEW t \in Seq(S), NEW u \in Seq(S)
  PROVE  /\ IsPrefix(<<>>, t)
         /\ IsPrefix(t, t \o u)
         /\ IsPrefix(s, t) /\ IsPrefix(t, u) => IsPrefix(s, u)
         /\ IsPrefix(s, u) /\ IsPrefix(t, u) /\ Len(s) <= Len(t) => IsPrefix(s, t)
         /\ IsPrefix(s, t) /\ Len(t) <= Len(s) => s = t
<1>1. IsPrefix(<<>>, t)
  <2>1. Len(<<>>) = 0 /\ 0 <= Len(t) /\ SubSeq(<<>>, 1, 0) = <<>> /\ SubSeq(t, 1, 0) = <<>>
    OBVIOUS
  <2>2. QED BY <2>1 DEF IsPrefix
<1>2. IsPrefix(t, t \o u)
  <2>1. t \o u \in Seq(S) /\ Len(t) <= Len(t \o u) /\ \A i \in 1..Len(t) : t[i] = (t \o u)[i]
    OBVIOUS
  <2>2. QED BY <2>1, PrefixRest
<1>3. Len(s) \in Nat /\ Len(t) \in Nat /\ Len(u) \in Nat
  OBVIOUS
<1>4. ASSUME IsPrefix(s, t), IsPrefix(t, u) PROVE IsPrefix(s, u)
  <2>1. Len(s) <= Len(t) /\ \A i \in 1..Len(s) : s[i] = t[i]
    BY <1>4, PrefixRest
  <2>2. Len(t) <= Len(u) /\ \A i \in 1..Len(t) : t[i] = u[i]
    BY <1>4, PrefixRest
  <2>3. Len(s) <= Len(u) /\ \A i \in 1..Len(s) : s[i] = u[i]
    BY <1>3, <2>1, <2>2
  <2>4. QED BY <2>3, PrefixRest
<1>5. ASSUME IsPrefix(s, u), IsPrefix(t, u), Len(s) <= Len(t) PROVE IsPrefix(s, t)
  <2>1. \A i \in 1..Len(s) : s[i] = u[i]
    BY <1>5, PrefixRest
  <2>2. \A i \in 1..Len(t) : t[i] = u[i]
    BY <1>5, PrefixRest
  <2>3. \A i \in 1..Len(s) : s[i] = t[i]
    BY <1>3, <1>5, <2>1, <2>2
  <2>4. QED BY <1>5, <2>3, PrefixRest
<1>6. ASSUME IsPrefix(s, t), Len(t) <= Len(s) PROVE s = t
  <2>1. Len(s) <= Len(t) /\ \A i \in 1..Len(s) : s[i] = t[i]
    BY <1>6, PrefixRest
  <2>2. Len(s) = Len(t)
    BY <1>3, <1>6, <2>1
  <2>3. QED BY <2>1, <2>2
<1>7. QED BY <1>1, <1>2, <1>4, <1>5, <1>6

\* A prefix that ends inside a part is continued with the rest of that part.
LEMMA PrefixInto ==
  ASSUME NEW S, NEW s \in Seq(S), NEW a \in Seq(S), NEW b \in Seq(S), NEW c \in Seq(S),
         IsPrefix(s, a \o (b \o c)), Len(a) <= Len(s), Len(s) <= Len(a) + Len(b)
  PROVE  /\ SubSeq(b, Len(s) - Len(a) + 1, Len(b)) \in Seq(S)
         /\ s \o SubSeq(b, Len(s) - Len(a) + 1, Len(b)) = a \o b
<1> DEFINE n == Len(s)
           m == Len(a)
           l == Len(b)
           t == a \o (b \o c)
           d == n - m
           v == SubSeq(b, d + 1, l)
           w == s \o v
           x == a \o b
<1>1. n \in Nat /\ m \in Nat /\ l \in Nat /\ t \in Seq(S) /\ m <= n /\ n <= m + l
  OBVIOUS
<1>2. d \in 0..l
  BY <1>1
<1>3. \A i \in 1..n : s[i] = t[i]
  <2>1. IsPrefix(s, t)
    OBVIOUS
  <2> HIDE DEF t
  <2>2. QED BY <1>1, <2>1, PrefixRest
<1>4. /\ \A i \in 1..m : t[i] = a[i]
      /\ \A i \in (m + 1)..(m + l) : t[i] = b[i - m]
  <2>1. b \o c \in Seq(S) /\ \A i \in 1..l : (b \o c)[i] = b[i]
    OBVIOUS
  <2>2. \A i \in 1..m : t[i] = a[i]
    BY <2>1
  <2>3. Len(b \o c) >= l /\ Len(b \o c) \in Nat
    OBVIOUS
  <2>4. \A i \in (m + 1)..(m + Len(b \o c)) : t[i] = (b \o c)[i - m]
    BY <2>1
  <2> HIDE DEF t, l, m
  <2>5. \A i \in (m + 1)..(m + l) : i \in (m + 1)..(m + Len(b \o c)) /\ i - m \in 1..l
    BY <1>1, <2>3
  <2>6. QED BY <2>1, <2>2, <2>4, <2>5
<1>5. v \in Seq(S) /\ Len(v) = l - d /\ \A i \in 1..(l - d) : v[i] = b[d + i]
  <2>1. d + 1 \in 1..(l + 1)
    BY <1>1, <1>2
  <2> HIDE DEF d
  <2>2. QED BY <1>1, <1>2, <2>1
<1>6. w \in Seq(S) /\ Len(w) = m + l
  <2> HIDE DEF v
  <2>1. w \in Seq(S) /\ Len(w) = n + Len(v)
    BY <1>5
  <2>2. QED BY <1>1, <1>5, <2>1
<1>7. x \in Seq(S) /\ Len(x) = m + l
  OBVIOUS
<1>8. \A i \in 1..(m + l) : w[i] = x[i]
  <2> SUFFICES ASSUME NEW i \in 1..(m + l) PROVE w[i] = x[i]
    OBVIOUS
  <2>1. x[i] = IF i <= m THEN a[i] ELSE b[i - m]
    OBVIOUS
  <2>2. w[i] = IF i <= n THEN s[i] ELSE v[i - n]
    <3> HIDE DEF v
    <3>1. Len(v) = l - d
      BY <1>5
    <3>2. QED BY <1>1, <1>5, <3>1
  <2>3. CASE i <= m
    BY <1>1, <1>3, <1>4, <2>1, <2>2, <2>3
  <2>4. CASE i > m /\ i <= n
    BY <1>1, <1>3, <1>4, <2>1, <2>2, <2>4
  <2>5. CASE i > n
    <3>1. i - n \in 1..(l - d) /\ d + (i - n) = i - m
      BY <1>1, <2>5
    <3>2. v[i - n] = b[i - m]
      BY <1>5, <3>1
    <3> HIDE DEF w, x, v
    <3>3. ~(i <= m) /\ ~(i <= n)
      BY <1>1, <2>5
    <3>4. QED BY <2>1, <2>2, <3>2, <3>3
  <2>6. QED BY <1>1, <2>3, <2>4, <2>5
<1>9. w = x
  <2> HIDE DEF w, x
  <2>1. QED BY <1>6, <1>7, <1>8
<1>10. QED BY <1>5, <1>9

\* A buffer that is joined to the ones before it.
LEMMA PrefixTrans ==
  ASSUME NEW S, NEW s \in Seq(S), NEW t \in Seq(S), NEW u \in Seq(S),
         IsPrefix(s, t), IsPrefix(t, u)
  PROVE  IsPrefix(s, u)
BY PrefixFacts

\* A sequence is a prefix of what it is continued by.
LEMMA PrefixMore ==
  ASSUME NEW S, NEW s \in Seq(S), NEW t \in Seq(S)
  PROVE  IsPrefix(s, s \o t) /\ IsPrefix(<<>>, s)
BY PrefixFacts

\* The elements of a concatenation.
LEMMA Joined ==
  ASSUME NEW S, NEW a \in Seq(S), NEW b \in Seq(S)
  PROVE  /\ a \o b \in Seq(S) /\ Len(a \o b) = Len(a) + Len(b)
         /\ \A i \in 1..(Len(a) + Len(b)) : (a \o b)[i] = IF i <= Len(a) THEN a[i] ELSE b[i - Len(a)]
OBVIOUS

\* A sequence is what comes up to a place and what comes after it.
LEMMA Cut ==
  ASSUME NEW S, NEW s \in Seq(S), NEW k \in 0..Len(s)
  PROVE  /\ SubSeq(s, 1, k) \in Seq(S) /\ Len(SubSeq(s, 1, k)) = k
         /\ \A i \in 1..k : SubSeq(s, 1, k)[i] = s[i]
         /\ SubSeq(s, k + 1, Len(s)) \in Seq(S) /\ Len(SubSeq(s, k + 1, Len(s))) = Len(s) - k
         /\ \A i \in 1..(Len(s) - k) : SubSeq(s, k + 1, Len(s))[i] = s[k + i]
         /\ s = SubSeq(s, 1, k) \o SubSeq(s, k + 1, Len(s))
<1> DEFINE n == Len(s)
           a == SubSeq(s, 1, k)
           b == SubSeq(s, k + 1, n)
           u == a \o b
<1>1. n \in Nat /\ k \in Nat /\ k <= n
  OBVIOUS
<1>2. a \in Seq(S) /\ Len(a) = k /\ \A i \in 1..k : a[i] = s[i]
  OBVIOUS
<1>3. b \in Seq(S) /\ Len(b) = n - k /\ \A i \in 1..(n - k) : b[i] = s[k + i]
  OBVIOUS
<1> HIDE DEF a, b
<1>4. u \in Seq(S) /\ Len(u) = n
  BY <1>1, <1>2, <1>3
<1>5. ASSUME NEW i \in 1..n PROVE u[i] = s[i]
  <2>1. u[i] = IF i <= k THEN a[i] ELSE b[i - k]
    BY <1>1, <1>2, <1>3
  <2>2. CASE i <= k
    BY <1>2, <2>1, <2>2
  <2>3. CASE i > k
    <3>1. i - k \in 1..(n - k) /\ k + (i - k) = i /\ ~(i <= k)
      BY <1>1, <2>3
    <3>2. QED BY <1>3, <2>1, <3>1
  <2>4. i <= k \/ i > k
    BY <1>1
  <2> HIDE DEF u
  <2>5. QED BY <2>2, <2>3, <2>4
<1>6. u = s
  <2> HIDE DEF u
  <2>1. QED BY <1>4, <1>5
<1>7. QED BY <1>2, <1>3, <1>6 DEF a, b

\* One more, at the end of the first or in front of the last.
LEMMA CutOne ==
  ASSUME NEW S, NEW s \in Seq(S), NEW k \in 1..Len(s)
  PROVE  /\ SubSeq(s, 1, k) = Append(SubSeq(s, 1, k - 1), s[k])
         /\ SubSeq(s, k, Len(s)) = <<s[k]>> \o SubSeq(s, k + 1, Len(s))
         /\ s[k] \in S
<1> DEFINE n == Len(s)
           a == SubSeq(s, 1, k)
           b == SubSeq(s, 1, k - 1)
           c == SubSeq(s, k, n)
           d == SubSeq(s, k + 1, n)
<1>1. n \in Nat /\ k \in 0..n /\ k - 1 \in 0..n /\ s[k] \in S /\ (k - 1) + 1 = k
  OBVIOUS
<1>2. a \in Seq(S) /\ Len(a) = k /\ \A i \in 1..k : a[i] = s[i]
  BY <1>1, Cut
<1>3. b \in Seq(S) /\ Len(b) = k - 1 /\ \A i \in 1..(k - 1) : b[i] = s[i]
  BY <1>1, Cut
<1>4. /\ SubSeq(s, (k - 1) + 1, n) \in Seq(S) /\ Len(SubSeq(s, (k - 1) + 1, n)) = n - (k - 1)
      /\ \A i \in 1..(n - (k - 1)) : SubSeq(s, (k - 1) + 1, n)[i] = s[(k - 1) + i]
  BY <1>1, Cut
<1>5. c \in Seq(S) /\ Len(c) = n - k + 1 /\ \A i \in 1..(n - k + 1) : c[i] = s[k + i - 1]
  <2>1. n - (k - 1) = n - k + 1 /\ \A i \in 1..(n - k + 1) : (k - 1) + i = k + i - 1
    BY <1>1
  <2> HIDE DEF n
  <2>2. QED BY <1>1, <1>4, <2>1
<1>6. d \in Seq(S) /\ Len(d) = n - k /\ \A i \in 1..(n - k) : d[i] = s[k + i]
  BY <1>1, Cut
<1> HIDE DEF a, b, c, d
<1>7. a = Append(b, s[k])
  <2> DEFINE u == Append(b, s[k])
  <2>1. u \in Seq(S) /\ Len(u) = k /\ u[k] = s[k] /\ \A i \in 1..(k - 1) : u[i] = b[i]
    BY <1>1, <1>3
  <2>2. \A i \in 1..k : i = k \/ i \in 1..(k - 1)
    BY <1>1
  <2> HIDE DEF u
  <2>3. \A i \in 1..k : u[i] = a[i]
    BY <1>2, <1>3, <2>1, <2>2
  <2>4. u = a
    BY <1>2, <2>1, <2>3
  <2>5. QED BY <2>4 DEF u
<1>8. c = <<s[k]>> \o d
  <2> DEFINE u == <<s[k]>> \o d
  <2>1. u \in Seq(S) /\ Len(u) = n - k + 1
    <3>1. <<s[k]>> \in Seq(S) /\ Len(<<s[k]>>) = 1
      BY <1>1
    <3>2. u \in Seq(S) /\ Len(u) = 1 + Len(d)
      <4> DEFINE v == <<s[k]>>
      <4> HIDE DEF v
      <4>1. v \in Seq(S) /\ Len(v) = 1
        BY <3>1 DEF v
      <4>2. v \o d \in Seq(S) /\ Len(v \o d) = Len(v) + Len(d)
        BY <1>6, <4>1, Joined
      <4>3. QED BY <4>1, <4>2 DEF v
    <3> HIDE DEF u, n
    <3>3. QED BY <1>1, <1>6, <3>2
  <2>2. ASSUME NEW i \in 1..(n - k + 1) PROVE u[i] = c[i]
    <3>1. u[i] = IF i = 1 THEN s[k] ELSE d[i - 1]
      BY <1>1, <1>6
    <3>2. i # 1 => i - 1 \in 1..(n - k) /\ k + (i - 1) = k + i - 1
      BY <1>1
    <3>3. k + 1 - 1 = k
      BY <1>1
    <3> HIDE DEF u, n
    <3>4. QED BY <1>5, <1>6, <3>1, <3>2, <3>3
  <2> HIDE DEF u
  <2>3. u = c
    BY <1>5, <2>1, <2>2
  <2>4. QED BY <2>3 DEF u
<1>9. QED BY <1>1, <1>7, <1>8 DEF a, b, c, d

\* What is in some sequences, up to a place and after it.
LEMMA FlatCut ==
  ASSUME NEW S, NEW ss \in Seq(Seq(S)), NEW k \in 0..Len(ss)
  PROVE  /\ FlattenSeq(SubSeq(ss, 1, k)) \in Seq(S)
         /\ FlattenSeq(SubSeq(ss, k + 1, Len(ss))) \in Seq(S)
         /\ FlattenSeq(ss) = FlattenSeq(SubSeq(ss, 1, k)) \o FlattenSeq(SubSeq(ss, k + 1, Len(ss)))
<1> DEFINE a == SubSeq(ss, 1, k)
           b == SubSeq(ss, k + 1, Len(ss))
<1>1. a \in Seq(Seq(S)) /\ b \in Seq(Seq(S)) /\ ss = a \o b
  BY Cut
<1> HIDE DEF a, b
<1>2. FlattenSeq(a \o b) = FlattenSeq(a) \o FlattenSeq(b)
  BY <1>1, FlatConcat
<1>3. FlattenSeq(a) \in Seq(S) /\ FlattenSeq(b) \in Seq(S)
  BY <1>1, FlatType
<1>4. QED BY <1>1, <1>2, <1>3 DEF a, b

\* One sequence alone is joined to itself.
LEMMA FlatOne ==
  ASSUME NEW S, NEW s \in Seq(S)
  PROVE  FlattenSeq(<<s>>) = s
<1>1. <<>> \in Seq(Seq(S)) /\ <<s>> = Append(<<>>, s)
  OBVIOUS
<1>2. FlattenSeq(Append(<<>>, s)) = FlattenSeq(<<>>) \o s
  BY <1>1, FlatAppend
<1>3. <<>> \o s = s
  OBVIOUS
<1>4. QED BY <1>1, <1>2, <1>3, FlatEmpty

\* The sequence at a place is joined between those before and those after it.
LEMMA FlatCutOne ==
  ASSUME NEW S, NEW ss \in Seq(Seq(S)), NEW k \in 1..Len(ss)
  PROVE  /\ ss[k] \in Seq(S)
         /\ FlattenSeq(SubSeq(ss, 1, k)) = FlattenSeq(SubSeq(ss, 1, k - 1)) \o ss[k]
         /\ FlattenSeq(SubSeq(ss, k, Len(ss))) = ss[k] \o FlattenSeq(SubSeq(ss, k + 1, Len(ss)))
<1> DEFINE A == Seq(S)
           a == SubSeq(ss, 1, k - 1)
           b == SubSeq(ss, k + 1, Len(ss))
<1>1. k - 1 \in 0..Len(ss) /\ k \in 0..Len(ss)
  OBVIOUS
<1>2. /\ SubSeq(ss, 1, k) = Append(a, ss[k]) /\ SubSeq(ss, k, Len(ss)) = <<ss[k]>> \o b
      /\ ss[k] \in A
  <2> HIDE DEF A
  <2>1. ss \in Seq(A)
    BY DEF A
  <2>2. QED BY <2>1, CutOne
<1>3. a \in Seq(A) /\ b \in Seq(A)
  <2> HIDE DEF A
  <2>1. ss \in Seq(A)
    BY DEF A
  <2>2. QED BY <1>1, <2>1, Cut
<1> HIDE DEF a, b
<1>4. FlattenSeq(Append(a, ss[k])) = FlattenSeq(a) \o ss[k]
  BY <1>2, <1>3, FlatAppend
<1>5. <<ss[k]>> \in Seq(Seq(S))
  BY <1>2
<1>6. FlattenSeq(<<ss[k]>> \o b) = FlattenSeq(<<ss[k]>>) \o FlattenSeq(b)
  BY <1>3, <1>5, FlatConcat
<1>7. FlattenSeq(<<ss[k]>>) = ss[k]
  BY <1>2, FlatOne
<1>8. QED BY <1>2, <1>4, <1>6, <1>7 DEF a, b

\* What never falls from one number to the next never falls.
LEMMA Rising ==
  ASSUME NEW n \in Nat, NEW f \in [0..n -> Nat], \A i \in 1..n : f[i - 1] <= f[i]
  PROVE  \A i, j \in 0..n : i <= j => f[i] <= f[j]
<1> DEFINE S == {d \in Nat : \A i \in 0..n : i + d <= n => f[i] <= f[i + d]}
<1>1. 0 \in S
  OBVIOUS
<1>2. ASSUME NEW d \in Nat, d \in S PROVE d + 1 \in S
  <2> SUFFICES ASSUME NEW i \in 0..n, i + (d + 1) <= n PROVE f[i] <= f[i + (d + 1)]
    OBVIOUS
  <2>1. i + d \in 0..n /\ i + (d + 1) \in 1..n /\ (i + (d + 1)) - 1 = i + d /\ i + (d + 1) \in 0..n
    OBVIOUS
  <2>2. f[i] <= f[i + d]
    BY <1>2, <2>1
  <2>3. f[i + d] <= f[i + (d + 1)]
    BY <2>1
  <2>4. f[i] \in Nat /\ f[i + d] \in Nat /\ f[i + (d + 1)] \in Nat
    BY <2>1
  <2>5. QED BY <2>2, <2>3, <2>4
<1>3. Nat \subseteq S
  <2> HIDE DEF S
  <2>1. QED BY <1>1, <1>2, NatSetInduction
<1>4. ASSUME NEW i \in 0..n, NEW j \in 0..n, i <= j PROVE f[i] <= f[j]
  <2>1. j - i \in Nat /\ i + (j - i) = j /\ j <= n
    BY <1>4
  <2>2. PICK d \in Nat : d = j - i
    BY <2>1
  <2>3. d \in S /\ i + d = j
    BY <1>3, <2>1, <2>2
  <2>4. i + d <= n => f[i] <= f[i + d]
    BY <2>3
  <2>5. QED BY <2>1, <2>3, <2>4
<1>5. QED BY <1>4

\* An element at the end, as a concatenation; and a sequence that ends with it.
LEMMA EndConcat ==
  ASSUME NEW S, NEW a \in Seq(S), NEW b \in S
  PROVE  Append(a, b) = a \o <<b>> /\ <<b>> \in Seq(S)
OBVIOUS

\* A sequence that is as long as another and one, and agrees with it.
LEMMA EndsWith ==
  ASSUME NEW S, NEW a \in Seq(S), NEW e \in S, NEW r \in Seq(S),
         Len(r) = Len(a) + 1, r[Len(a) + 1] = e, \A i \in 1..Len(a) : r[i] = a[i]
  PROVE  r = Append(a, e)
<1> DEFINE n == Len(a)
           y == Append(a, e)
<1>1. n \in Nat /\ y \in Seq(S) /\ Len(y) = n + 1 /\ y[n + 1] = e /\ \A i \in 1..n : y[i] = a[i]
  OBVIOUS
<1>2. \A i \in 1..(n + 1) : i \in 1..n \/ i = n + 1
  BY <1>1
<1> HIDE DEF y
<1>3. \A i \in 1..(n + 1) : r[i] = y[i]
  BY <1>1, <1>2
<1>4. r = y
  BY <1>1, <1>3
<1>5. QED BY <1>4 DEF y

\* What comes after a place of a sequence that is continued.
LEMMA CutJoined ==
  ASSUME NEW S, NEW d \in Seq(S), NEW w \in Seq(S), NEW o \in 0..Len(d)
  PROVE  SubSeq(d \o w, o + 1, Len(d) + Len(w)) = SubSeq(d, o + 1, Len(d)) \o w
<1> DEFINE c == d \o w
           m == Len(d)
           l == Len(w)
           x == SubSeq(c, o + 1, m + l)
           y == SubSeq(d, o + 1, m)
           z == y \o w
<1>1. m \in Nat /\ l \in Nat /\ o \in Nat /\ o <= m
  OBVIOUS
<1>2. /\ c \in Seq(S) /\ Len(c) = m + l
      /\ \A i \in 1..(m + l) : c[i] = IF i <= m THEN d[i] ELSE w[i - m]
  BY Joined
<1>3. /\ y \in Seq(S) /\ Len(y) = m - o /\ \A i \in 1..(m - o) : y[i] = d[o + i]
  BY Cut
<1> HIDE DEF c, y
<1>4. x \in Seq(S) /\ Len(x) = m + l - o /\ \A i \in 1..(m + l - o) : x[i] = c[o + i]
  <2>1. o \in 0..Len(c)
    BY <1>1, <1>2
  <2>2. /\ SubSeq(c, o + 1, Len(c)) \in Seq(S) /\ Len(SubSeq(c, o + 1, Len(c))) = Len(c) - o
        /\ \A i \in 1..(Len(c) - o) : SubSeq(c, o + 1, Len(c))[i] = c[o + i]
    BY <1>2, <2>1, Cut
  <2> DEFINE v == SubSeq(c, o + 1, Len(c))
             n == Len(c)
  <2>3. x = v /\ n = m + l
    BY <1>2
  <2>4. v \in Seq(S) /\ Len(v) = n - o /\ \A i \in 1..(n - o) : v[i] = c[o + i]
    BY <2>2
  <2> HIDE DEF m, l, x, v, n
  <2>5. QED BY <1>1, <2>3, <2>4
<1>5. /\ z \in Seq(S) /\ Len(z) = (m - o) + l
      /\ \A i \in 1..((m - o) + l) : z[i] = IF i <= m - o THEN y[i] ELSE w[i - (m - o)]
  <2>1. z \in Seq(S) /\ Len(z) = Len(y) + l
        /\ \A i \in 1..(Len(y) + l) : z[i] = IF i <= Len(y) THEN y[i] ELSE w[i - Len(y)]
    BY <1>3, Joined
  <2> HIDE DEF z, m, l
  <2>2. QED BY <1>3, <2>1
<1> HIDE DEF x, z, m, l
<1>6. ASSUME NEW i \in 1..(m + l - o) PROVE x[i] = z[i]
  <2>1. o + i \in 1..(m + l) /\ i \in 1..((m - o) + l)
    BY <1>1
  <2>2. x[i] = IF o + i <= m THEN d[o + i] ELSE w[(o + i) - m]
    BY <1>2, <1>4, <2>1
  <2>3. z[i] = IF i <= m - o THEN y[i] ELSE w[i - (m - o)]
    BY <1>5, <2>1
  <2>4. (o + i) - m = i - (m - o) /\ (o + i <= m <=> i <= m - o)
        /\ (i <= m - o => i \in 1..(m - o))
    BY <1>1
  <2>5. QED BY <1>3, <2>2, <2>3, <2>4
<1>7. m + l - o = (m - o) + l
  BY <1>1
<1>8. x = z
  BY <1>4, <1>5, <1>6, <1>7
<1>9. QED BY <1>8 DEF x, z, c, y, m, l

\* The places of a list that come after the others are the last ones.
LEMMA UpSet ==
  ASSUME NEW n \in Nat, NEW a \in 1..(n + 1), NEW U \in SUBSET (a..n),
         \A k \in U : \A j \in a..n : k <= j => j \in U
  PROVE  /\ Cardinality(U) \in 0..(n - a + 1)
         /\ \A j \in a..n : j \in U <=> j > n - Cardinality(U)
<1>1. CASE U = {}
  <2>1. Cardinality(U) = 0
    BY <1>1, FS_EmptySet
  <2>2. QED BY <1>1, <2>1
<1>2. CASE U # {}
  <2>1. U \in SUBSET Nat
    OBVIOUS
  <2>2. PICK m \in U : \A k \in U : m <= k
    BY <1>2, <2>1, LeastNat
  <2>3. m \in a..n /\ m \in Nat
    BY <2>2
  <2>4. \A j \in a..n : j \in U <=> m <= j
    BY <2>2
  <2>5. U = m..n
    <3>1. \A j \in U : j \in m..n
      <4>1. \A j \in a..n : m <= j => j \in m..n
        BY <2>3
      <4>2. QED BY <2>2, <4>1
    <3>2. \A j \in m..n : j \in U
      <4>1. \A j \in m..n : j \in a..n /\ m <= j
        BY <2>3
      <4>2. QED BY <2>4, <4>1
    <3>3. QED BY <3>1, <3>2, Zenon
  <2>6. Cardinality(m..n) = n - m + 1
    <3>1. Cardinality(m..n) = IF m > n THEN 0 ELSE n - m + 1
      BY <2>3, FS_Interval
    <3>2. QED BY <2>3, <3>1
  <2>7. Cardinality(U) = n - m + 1
    BY <2>5, <2>6
  <2>8. n - m + 1 \in 0..(n - a + 1) /\ n - (n - m + 1) = m - 1
    BY <2>3
  <2>9. \A j \in a..n : m <= j <=> j > m - 1
    BY <2>3
  <2>10. QED BY <2>4, <2>7, <2>8, <2>9
<1>3. QED BY <1>1, <1>2

\* A sequence turned around.
LEMMA Reversed ==
  ASSUME NEW S, NEW s \in Seq(S)
  PROVE  Reverse(s) \in Seq(S)
<1>1. Len(s) \in Nat /\ \A i \in 1..Len(s) : Len(s) - i + 1 \in 1..Len(s) /\ s[Len(s) - i + 1] \in S
  OBVIOUS
<1>2. QED BY <1>1 DEF Reverse
=============================================================================
