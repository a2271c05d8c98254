----------------------------- MODULE PdaRunTrail -----------------------------
(***************************************************************************)
(* What the parser has done and not taken back, as a trail: the cells that *)
(* it shifted, in that order, and after them those of its input.  Going    *)
(* backward, the parser finds its way by two numbers in the nodes, how many *)
(* reductions a token has caused and which alternative of a reduction is   *)
(* next; the trail says that they always lead it to the token that a retry *)
(* belongs to, in the state that it belongs to.                            *)
(***************************************************************************)
EXTENDS PdaRunPath

\* The first n cells of e were shifted one after the other; st[i] was the stack
\* when the i-th had been.
Chain(p, e, st, n) ==
  /\ st[0] = <<>>
  /\ \A i \in 1..n : /\ st[i] # <<>> /\ Head(st[i]) = e[i]
                     /\ st[i - 1] = Unfold(p, e[i], Tail(st[i]))

\* The cells behind the first n are those of a.
Ends(e, n, a) == Len(e) = n + Len(a) /\ \A j \in DOMAIN a : e[n + j] = a[j]

\* The state in which the parser came to the i-th cell.
StateAt(p, e, i) == IF i = 1 THEN StartState ELSE Target(p, e[i - 1])

\* The t-th cell is a token that caused the reductions from the i-th cell on.
Tok(p, x) == p[x].id \in Term
Covers(p, e, t, i) == t \in DOMAIN e /\ t > i /\ Tok(p, e[t]) /\ t - p[e[t]].cause_reduce <= i

\* A token holds no retry of a reduction, and the reductions that it counts are
\* just before it.
TokenOK(p, e, i) ==
  /\ p[e[i]].child = <<>> /\ p[e[i]].retry_upper = 0
  /\ p[e[i]].cause_reduce < i
  /\ \A j \in DOMAIN e : i - p[e[i]].cause_reduce <= j /\ j < i => ~Tok(p, e[j])

\* The retry of a reduction is a token's, which counts it, and which had a choice
\* in the state in which the reduction was done.
ReductionOK(p, e, i) ==
  /\ p[e[i]].id \in NonTerm
  /\ p[e[i]].retry_lower = 0 /\ p[e[i]].retry_region = 0
  /\ p[e[i]].retry_upper # 0 =>
       \E t \in DOMAIN e : Covers(p, e, t, i) /\ HasTrans(StateAt(p, e, i), p[e[t]].id)

\* Every cell of the trail is a token or a reduction, and accounts for its numbers.
Causes(p, e) ==
  \A i \in DOMAIN e : IF Tok(p, e[i]) THEN TokenOK(p, e, i) ELSE ReductionOK(p, e, i)

-----------------------------------------------------------------------------
(* Chains. *)

\* A sequence that gets a first element, ...
LEMMA ConsParts ==
  ASSUME NEW S, NEW x \in S, NEW s \in Seq(S)
  PROVE  /\ <<x>> \o s \in Seq(S) /\ <<x>> \o s # <<>> /\ Len(<<x>> \o s) = Len(s) + 1
         /\ Head(<<x>> \o s) = x /\ Tail(<<x>> \o s) = s
         /\ (<<x>> \o s)[1] = x /\ \A i \in DOMAIN s : (<<x>> \o s)[i + 1] = s[i]
OBVIOUS

\* ... and where the others are then.
LEMMA ConsAt ==
  \A S : \A x \in S : \A s \in Seq(S) : \A i \in DOMAIN s : (<<x>> \o s)[i + 1] = s[i]
OBVIOUS

\* A chain stays one when only what it does not look at has changed.
LEMMA ChainKept ==
  ASSUME NEW n \in Nat, NEW p, NEW q, NEW e, NEW e2, NEW st, Chain(p, e, st, n),
         \A i \in 1..n : e2[i] = e[i] /\ q[e[i]].child = p[e[i]].child
  PROVE  Chain(q, e2, st, n)
BY DEF Chain, Unfold

\* A shift makes the chain longer, ...
LEMMA ChainShift ==
  ASSUME NEW n \in Nat, NEW p, NEW e, NEW st \in [Nat -> Seq(Ref)], Chain(p, e, st, n),
         NEW stk \in Seq(Ref), e[n + 1] \in Ref, st[n] = Unfold(p, e[n + 1], stk)
  PROVE  LET s == <<e[n + 1]>> \o stk
             st2 == [st EXCEPT ![n + 1] = s]
         IN /\ st2 \in [Nat -> Seq(Ref)] /\ st2[n + 1] = s
            /\ Chain(p, e, st2, n + 1)
<1> DEFINE x == e[n + 1]
           s == <<x>> \o stk
           st2 == [st EXCEPT ![n + 1] = s]
<1>0. x \in Ref
  OBVIOUS
<1>01. st[n] = Unfold(p, x, stk) /\ x = e[n + 1]
  OBVIOUS
<1> HIDE DEF x
<1>1. s \in Seq(Ref) /\ s # <<>> /\ Head(s) = x /\ Tail(s) = stk
  BY <1>0, ConsParts, ZenonT(60)
<1>2. n + 1 \in Nat /\ n + 1 # 0 /\ \A i \in 1..(n + 1) : i - 1 \in Nat /\ i - 1 # n + 1
                                       /\ (i = n + 1 \/ i \in 1..n) /\ i \in Nat
  BY SMTT(60)
<1> HIDE DEF s
<1>3. st2 \in [Nat -> Seq(Ref)] /\ st2[n + 1] = s /\ \A i \in Nat : i # n + 1 => st2[i] = st[i]
  BY <1>1, <1>2
<1> HIDE DEF st2
<1>4. ASSUME NEW i \in 1..(n + 1)
      PROVE  st2[i] # <<>> /\ Head(st2[i]) = e[i] /\ st2[i - 1] = Unfold(p, e[i], Tail(st2[i]))
  <2>1. st2[i - 1] = st[i - 1]
    BY <1>2, <1>3
  <2>2. CASE i = n + 1
    <3>1. i - 1 = n
      BY <2>2
    <3>2. QED BY <1>01, <1>1, <1>3, <2>1, <2>2, <3>1
  <2>3. CASE i # n + 1
    <3>1. i \in 1..n /\ st2[i] = st[i]
      BY <1>2, <1>3, <2>3
    <3>2. QED BY <2>1, <3>1 DEF Chain
  <2>4. QED BY <2>2, <2>3
<1>5. st2[0] = <<>>
  BY <1>2, <1>3 DEF Chain
<1>6. QED BY <1>3, <1>4, <1>5 DEF Chain, s, st2, x

\* ... and taking the top of the stack back makes it shorter.
LEMMA ChainUnshift ==
  ASSUME NEW n \in Nat, n # 0, NEW p, NEW e, NEW st, Chain(p, e, st, n)
  PROVE  /\ n - 1 \in Nat /\ Chain(p, e, st, n - 1)
         /\ st[n] # <<>> /\ Head(st[n]) = e[n]
         /\ st[n - 1] = Unfold(p, e[n], Tail(st[n]))
<1>1. n - 1 \in Nat /\ n \in 1..n /\ \A i \in 1..(n - 1) : i \in 1..n
  OBVIOUS
<1>2. QED BY <1>1 DEF Chain

-----------------------------------------------------------------------------
(* Causes. *)

\* The nodes of e say the same to q and to p; the state stored in a node matters
\* only where a reduction follows.
SameCause(m, n) ==
  /\ n.id = m.id /\ n.child = m.child /\ n.cause_reduce = m.cause_reduce
  /\ n.retry_upper = m.retry_upper /\ n.retry_region = m.retry_region
  /\ m.id \notin Term => n.retry_lower = m.retry_lower

\* The cells account for the same numbers when only what they do not look at changes.
LEMMA CausesKept ==
  ASSUME NEW e \in Seq(Ref), NEW p, NEW q, Causes(p, e),
         \A i \in DOMAIN e : SameCause(p[e[i]], q[e[i]]),
         \A i \in DOMAIN e : i > 1 /\ ~Tok(p, e[i]) => q[e[i - 1]].state = p[e[i - 1]].state
  PROVE  Causes(q, e)
<1> SUFFICES ASSUME NEW i \in DOMAIN e
             PROVE  IF Tok(q, e[i]) THEN TokenOK(q, e, i) ELSE ReductionOK(q, e, i)
  BY DEF Causes
<1>1. \A j \in DOMAIN e : Tok(q, e[j]) <=> Tok(p, e[j])
  BY DEF SameCause, Tok
<1>2. i \in 1..Len(e) /\ Len(e) \in Nat
  OBVIOUS
<1>3. CASE Tok(q, e[i])
  <2>1. TokenOK(p, e, i)
    BY <1>1, <1>3 DEF Causes
  <2>2. p[e[i]].cause_reduce = q[e[i]].cause_reduce /\ SameCause(p[e[i]], q[e[i]])
    BY DEF SameCause
  <2>3. ASSUME NEW j \in DOMAIN e, i - q[e[i]].cause_reduce <= j, j < i, Tok(q, e[j])
        PROVE  FALSE
    <3>1. ~Tok(p, e[j])
      BY <2>1, <2>2, <2>3 DEF TokenOK
    <3>2. QED BY <1>1, <2>3, <3>1
  <2>4. QED BY <1>3, <2>1, <2>2, <2>3 DEF TokenOK, SameCause
<1>4. CASE ~Tok(q, e[i])
  <2>1. ReductionOK(p, e, i) /\ SameCause(p[e[i]], q[e[i]])
    BY <1>1, <1>4 DEF Causes
  <2>2. StateAt(q, e, i) = StateAt(p, e, i)
    <3>1. CASE i = 1
      BY <3>1 DEF StateAt
    <3>2. CASE i # 1
      <4>1. i - 1 \in DOMAIN e /\ i > 1
        BY <1>2, <3>2
      <4>2. q[e[i - 1]].state = p[e[i - 1]].state /\ q[e[i - 1]].id = p[e[i - 1]].id
        BY <1>1, <1>4, <4>1 DEF SameCause
      <4>3. QED BY <3>2, <4>2 DEF StateAt, Target, Found
    <3>3. QED BY <3>1, <3>2
  <2>3. ASSUME NEW t \in DOMAIN e, Covers(p, e, t, i) PROVE Covers(q, e, t, i) /\ q[e[t]].id = p[e[t]].id
    BY <2>3 DEF Covers, SameCause, Tok
  <2>4. q[e[i]].id \in NonTerm /\ q[e[i]].retry_lower = 0 /\ q[e[i]].retry_region = 0
        /\ q[e[i]].retry_upper = p[e[i]].retry_upper
    BY <1>1, <1>4, <2>1 DEF ReductionOK, SameCause, Tok
  <2>5. QED BY <1>4, <2>1, <2>2, <2>3, <2>4 DEF ReductionOK
<1>5. QED BY <1>3, <1>4

\* A token enters, ...
LEMMA CausesAppend ==
  ASSUME NEW e \in Seq(Ref), NEW x \in Ref, NEW p, Causes(p, e),
         p[x].id \in Term, p[x].child = <<>>, p[x].retry_upper = 0, p[x].cause_reduce = 0
  PROVE  Causes(p, Append(e, x))
<1> DEFINE u == Append(e, x)
           n == Len(e)
<1>1. /\ n \in Nat /\ DOMAIN e = 1..n /\ DOMAIN u = 1..(n + 1)
      /\ \A i \in 1..n : u[i] = e[i]
      /\ u[n + 1] = x
  OBVIOUS
<1> HIDE DEF u, n
<1> SUFFICES ASSUME NEW i \in DOMAIN u
             PROVE  IF Tok(p, u[i]) THEN TokenOK(p, u, i) ELSE ReductionOK(p, u, i)
  BY DEF Causes, u
<1>2. CASE i = n + 1
  BY <1>1, <1>2 DEF Tok, TokenOK
<1>3. CASE i # n + 1
  <2>1. /\ i \in DOMAIN e /\ u[i] = e[i] /\ i \in Nat
        /\ IF Tok(p, e[i]) THEN TokenOK(p, e, i) ELSE ReductionOK(p, e, i)
    BY <1>1, <1>3 DEF Causes
  <2>2. CASE Tok(p, u[i])
    <3>1. \A j \in DOMAIN u : j < i => j \in DOMAIN e /\ u[j] = e[j]
      BY <1>1, <2>1
    <3>2. QED BY <2>1, <2>2, <3>1 DEF TokenOK
  <2>3. CASE ~Tok(p, u[i])
    <3>1. StateAt(p, u, i) = StateAt(p, e, i)
      <4>1. i # 1 => i - 1 \in 1..n
        BY <1>1, <2>1
      <4>2. QED BY <1>1, <4>1 DEF StateAt
    <3>2. \A t \in DOMAIN e : t \in DOMAIN u /\ u[t] = e[t]
      BY <1>1
    <3>3. QED BY <2>1, <2>3, <3>1, <3>2 DEF ReductionOK, Covers
  <2>4. QED BY <2>2, <2>3
<1>4. QED BY <1>2, <1>3

\* ... and leaves when it causes nothing.
LEMMA CausesDrop ==
  ASSUME NEW e \in Seq(Ref), NEW p, Causes(p, e), NEW n \in Nat, Len(e) = n + 1,
         p[e[n + 1]].cause_reduce = 0
  PROVE  Causes(p, SubSeq(e, 1, n))
<1> DEFINE u == SubSeq(e, 1, n)
<1>1. /\ DOMAIN e = 1..(n + 1) /\ DOMAIN u = 1..n
      /\ \A i \in 1..n : u[i] = e[i]
  OBVIOUS
<1> HIDE DEF u
<1> SUFFICES ASSUME NEW i \in DOMAIN u
             PROVE  IF Tok(p, u[i]) THEN TokenOK(p, u, i) ELSE ReductionOK(p, u, i)
  BY DEF Causes, u
<1>2. /\ i \in DOMAIN e /\ u[i] = e[i] /\ i \in 1..n
      /\ IF Tok(p, e[i]) THEN TokenOK(p, e, i) ELSE ReductionOK(p, e, i)
  BY <1>1 DEF Causes
<1>3. CASE Tok(p, u[i])
  <2>1. \A j \in DOMAIN u : j \in DOMAIN e /\ u[j] = e[j]
    BY <1>1
  <2>2. QED BY <1>2, <1>3, <2>1 DEF TokenOK
<1>4. CASE ~Tok(p, u[i])
  <2>1. StateAt(p, u, i) = StateAt(p, e, i)
    <3>1. i # 1 => i - 1 \in 1..n
      BY <1>2
    <3>2. QED BY <1>1, <3>1 DEF StateAt
  <2>2. ASSUME NEW t \in DOMAIN e, Covers(p, e, t, i)
        PROVE  Covers(p, u, t, i) /\ t \in DOMAIN u /\ u[t] = e[t]
    <3>1. t # n + 1
      BY <1>1, <1>2, <2>2 DEF Covers
    <3>2. t \in DOMAIN u /\ u[t] = e[t]
      BY <1>1, <3>1
    <3>3. QED BY <2>2, <3>2 DEF Covers
  <2>3. ReductionOK(p, e, i)
    BY <1>2, <1>4
  <2>4. QED BY <1>2, <1>4, <2>1, <2>2, <2>3 DEF ReductionOK
<1>5. QED BY <1>3, <1>4

\* In u there is a place for one more, at k, in e.
Opened(u, e, k) == \A i \in DOMAIN e : u[IF i < k THEN i ELSE i + 1] = e[i]

\* A reduction is done at the end of the trail, or before the token that causes it;
\* a retry that it has is this token's.
CausedAt(p, q, e, u, k, r) ==
  /\ k = Len(e) \/ k = Len(e) + 1
  /\ Len(u) = Len(e) + 1 /\ Opened(u, e, k) /\ u[k] = r
  /\ \A i \in DOMAIN e : i < k => SameCause(p[e[i]], q[e[i]])
  /\ \A i \in DOMAIN e : i < k /\ i > 1 /\ ~Tok(p, e[i])
        => q[e[i - 1]].state = p[e[i - 1]].state
  /\ q[r].id \in NonTerm /\ q[r].id \notin Term
  /\ q[r].retry_lower = 0 /\ q[r].retry_region = 0
  /\ q[r].retry_upper # 0 => k = Len(e) /\ HasTrans(StateAt(q, u, k), q[e[k]].id)
  /\ k = Len(e) => /\ Tok(p, e[k]) /\ q[e[k]].id = p[e[k]].id
                   /\ q[e[k]].child = p[e[k]].child
                   /\ q[e[k]].retry_upper = p[e[k]].retry_upper
                   /\ p[e[k]].cause_reduce \in Nat
                   /\ q[e[k]].cause_reduce = p[e[k]].cause_reduce + 1

\* A reduction in front of the token that causes it, which counts one more.
LEMMA CausesInsert ==
  ASSUME NEW e \in Seq(Ref), NEW p, NEW q, Causes(p, e), NEW k \in Nat, k > 0,
         NEW u \in Seq(Ref), NEW r \in Ref, CausedAt(p, q, e, u, k, r)
  PROVE  Causes(q, u)
<1> USE DEF CausedAt, Opened
<1> DEFINE n == Len(e)
<1>1. /\ n \in Nat /\ DOMAIN e = 1..n /\ DOMAIN u = 1..(n + 1)
      /\ \A i \in 1..n : i < k => u[i] = e[i]
      /\ k = n => u[n + 1] = e[n]
      /\ k = n \/ k = n + 1
  <2>1. ASSUME k = n PROVE u[n + 1] = e[n]
    <3>1. n \in DOMAIN e /\ ~(n < k)
      BY <2>1
    <3>2. QED BY <3>1
  <2>2. QED BY <2>1
<1> HIDE DEF n
<1>2. \A i \in 1..(n + 1) : i < k \/ i = k \/ (i = n + 1 /\ k = n)
  BY <1>1
<1>3. \A i \in 1..n : i < k => (Tok(q, u[i]) <=> Tok(p, e[i]))
  BY <1>1, SMTT(60) DEF SameCause, Tok
<1>4. ASSUME k = n
      PROVE  /\ Tok(q, u[n + 1]) /\ TokenOK(p, e, n) /\ n \in DOMAIN e
             /\ q[u[n + 1]].cause_reduce = p[e[n]].cause_reduce + 1
             /\ q[u[n + 1]].id = p[e[n]].id
  <2>1. n \in DOMAIN e /\ k = Len(e)
    BY <1>1, <1>4 DEF n
  <2>2. Tok(p, e[n]) /\ TokenOK(p, e, n)
    BY <1>4, <2>1 DEF Causes
  <2>3. QED BY <1>1, <1>4, <2>1, <2>2 DEF Tok
<1> SUFFICES ASSUME NEW i \in 1..(n + 1)
             PROVE  IF Tok(q, u[i]) THEN TokenOK(q, u, i) ELSE ReductionOK(q, u, i)
  BY <1>1 DEF Causes
<1>5. CASE i < k
  <2>1. /\ i \in 1..n /\ u[i] = e[i] /\ SameCause(p[e[i]], q[e[i]])
        /\ IF Tok(p, e[i]) THEN TokenOK(p, e, i) ELSE ReductionOK(p, e, i)
    BY <1>1, <1>5 DEF Causes
  <2>2. CASE Tok(q, u[i])
    <3>1. \A j \in DOMAIN u : j < i => j \in DOMAIN e /\ (Tok(q, u[j]) <=> Tok(p, e[j]))
      <4>1. \A j \in DOMAIN u : j < i => j \in 1..n /\ j < k
        BY <1>1, <1>5, <2>1
      <4>2. QED BY <1>1, <1>3, <4>1
    <3>2. TokenOK(p, e, i)
      BY <1>3, <1>5, <2>1, <2>2
    <3>3. QED BY <2>1, <2>2, <3>1, <3>2 DEF TokenOK, SameCause
  <2>3. CASE ~Tok(q, u[i])
    <3>1. ReductionOK(p, e, i) /\ ~Tok(p, e[i])
      BY <1>3, <1>5, <2>1, <2>3
    <3>2. StateAt(q, u, i) = StateAt(p, e, i)
      <4>1. CASE i = 1
        BY <4>1 DEF StateAt
      <4>2. CASE i # 1
        <5>1. i - 1 \in 1..n /\ i - 1 < k /\ i > 1
          BY <1>1, <1>5, <2>1, <4>2
        <5>2. q[e[i - 1]].state = p[e[i - 1]].state /\ q[e[i - 1]].id = p[e[i - 1]].id
              /\ u[i - 1] = e[i - 1]
          BY <1>1, <1>5, <2>1, <3>1, <5>1 DEF SameCause
        <5>3. QED BY <4>2, <5>2 DEF StateAt, Target, Found
      <4>3. QED BY <4>1, <4>2
    <3>3. ASSUME NEW t \in DOMAIN e, Covers(p, e, t, i)
          PROVE  \E v \in DOMAIN u : Covers(q, u, v, i) /\ q[u[v]].id = p[e[t]].id
      <4>1. CASE t < k
        <5>1. t \in DOMAIN u /\ u[t] = e[t] /\ SameCause(p[e[t]], q[e[t]])
          BY <1>1, <4>1
        <5>2. QED BY <3>3, <5>1 DEF Covers, SameCause, Tok
      <4>2. CASE ~(t < k)
        <5>1. t = n /\ k = n
          BY <1>1, <4>2
        <5>2. n + 1 \in DOMAIN u /\ p[e[n]].cause_reduce \in Nat
          BY <1>1, <5>1 DEF n
        <5>3. (n + 1) - q[u[n + 1]].cause_reduce <= i
          <6>1. n - p[e[n]].cause_reduce <= i
            BY <3>3, <5>1 DEF Covers
          <6>2. QED BY <1>1, <1>4, <2>1, <5>1, <5>2, <6>1
        <5>4. n + 1 > i
          BY <1>1, <2>1
        <5>5. QED BY <1>4, <5>1, <5>2, <5>3, <5>4 DEF Covers
      <4>3. QED BY <4>1, <4>2
    <3>4. q[u[i]].retry_upper # 0 =>
            \E v \in DOMAIN u : Covers(q, u, v, i) /\ HasTrans(StateAt(q, u, i), q[u[v]].id)
      BY <2>1, <3>1, <3>2, <3>3 DEF ReductionOK, SameCause
    <3>5. QED BY <2>1, <2>3, <3>1, <3>4 DEF ReductionOK, SameCause, Tok
  <2>4. QED BY <2>2, <2>3
<1>6. CASE i = k
  <2>1. ~Tok(q, u[i]) /\ u[i] = r
    BY <1>6 DEF Tok
  <2>2. ASSUME q[r].retry_upper # 0
        PROVE  \E t \in DOMAIN u : Covers(q, u, t, i) /\ HasTrans(StateAt(q, u, i), q[u[t]].id)
    <3>1. k = n /\ HasTrans(StateAt(q, u, i), q[e[n]].id)
      BY <1>6, <2>2 DEF n
    <3>2. n + 1 \in DOMAIN u /\ p[e[n]].cause_reduce \in Nat /\ u[n + 1] = e[n]
      BY <1>1, <3>1 DEF n
    <3>3. n + 1 > i /\ (n + 1) - q[u[n + 1]].cause_reduce <= i
      BY <1>1, <1>4, <1>6, <3>1, <3>2
    <3>4. QED BY <1>4, <3>1, <3>2, <3>3 DEF Covers
  <2>3. QED BY <2>1, <2>2 DEF ReductionOK
<1>7. CASE i = n + 1 /\ k = n
  <2>1. /\ Tok(q, u[i]) /\ TokenOK(p, e, n) /\ u[i] = e[n] /\ k = Len(e)
        /\ q[u[i]].cause_reduce = p[e[n]].cause_reduce + 1 /\ p[e[n]].cause_reduce \in Nat
    BY <1>1, <1>4, <1>7 DEF n
  <2>2. q[u[i]].child = <<>> /\ q[u[i]].retry_upper = 0 /\ q[u[i]].cause_reduce < i
    BY <1>1, <1>7, <2>1 DEF TokenOK
  <2>3. ASSUME NEW j \in DOMAIN u, i - q[u[i]].cause_reduce <= j, j < i
        PROVE  ~Tok(q, u[j])
    <3>1. CASE j = k
      BY <3>1 DEF Tok
    <3>2. CASE j # k
      <4>1. j \in 1..n /\ j < k /\ j < n /\ n - p[e[n]].cause_reduce <= j
        BY <1>1, <1>7, <2>1, <2>3, <3>2
      <4>2. ~Tok(p, e[j])
        BY <1>1, <2>1, <4>1 DEF TokenOK
      <4>3. QED BY <1>3, <4>1, <4>2
    <3>3. QED BY <3>1, <3>2
  <2>4. QED BY <2>1, <2>2, <2>3 DEF TokenOK
<1>8. QED BY <1>2, <1>5, <1>6, <1>7

\* A reduction is taken back: it was the last thing done, or is just before the token
\* that caused it.
Uncaused(p, q, e, u, k) ==
  /\ (k = Len(e) \/ k + 1 = Len(e)) /\ ~Tok(p, e[k])
  /\ Len(u) = Len(e) - 1
  /\ \A i \in DOMAIN e : i < k => u[i] = e[i]
  /\ k + 1 = Len(e) => u[k] = e[k + 1]
  /\ \A i \in DOMAIN e : i < k => SameCause(p[e[i]], q[e[i]])
  /\ \A i \in DOMAIN e : i < k /\ i > 1 /\ ~Tok(p, e[i])
        => q[e[i - 1]].state = p[e[i - 1]].state
  /\ k + 1 = Len(e) =>
       /\ Tok(p, e[k + 1]) /\ q[e[k + 1]].id = p[e[k + 1]].id
       /\ q[e[k + 1]].child = p[e[k + 1]].child
       /\ q[e[k + 1]].retry_upper = p[e[k + 1]].retry_upper
       /\ p[e[k + 1]].cause_reduce \in Nat
       /\ q[e[k + 1]].cause_reduce = p[e[k + 1]].cause_reduce - 1

\* A reduction is taken out again, and the token behind it counts one less.
LEMMA CausesRemove ==
  ASSUME NEW e \in Seq(Ref), NEW p, NEW q, Causes(p, e), NEW k \in DOMAIN e,
         NEW u \in Seq(Ref), Uncaused(p, q, e, u, k)
  PROVE  Causes(q, u)
<1> USE DEF Uncaused
<1> DEFINE n == Len(e)
<1>1. /\ n \in Nat /\ DOMAIN e = 1..n /\ DOMAIN u = 1..(n - 1) /\ k \in 1..n
      /\ \A i \in 1..n : i < k => u[i] = e[i]
      /\ k + 1 = n => u[k] = e[k + 1]
      /\ k = n \/ k + 1 = n
  OBVIOUS
<1> HIDE DEF n
<1>2. \A i \in 1..(n - 1) : i < k \/ (i = k /\ k + 1 = n)
  BY <1>1
<1>3. \A i \in 1..n : i < k => (Tok(q, u[i]) <=> Tok(p, e[i]))
  BY <1>1 DEF SameCause, Tok
<1>4. ASSUME k + 1 = n
      PROVE  /\ Tok(q, u[k]) /\ TokenOK(p, e, n) /\ n \in DOMAIN e /\ u[k] = e[n]
             /\ q[u[k]].cause_reduce = p[e[n]].cause_reduce - 1
             /\ q[u[k]].id = p[e[n]].id /\ p[e[n]].cause_reduce \in Nat
             /\ q[u[k]].child = p[e[n]].child /\ q[u[k]].retry_upper = p[e[n]].retry_upper
  <2>1. n \in DOMAIN e /\ k + 1 = Len(e) /\ k + 1 \in Int
    BY <1>1, <1>4 DEF n
  <2>2. Tok(p, e[n]) /\ TokenOK(p, e, n)
    BY <1>4, <2>1 DEF Causes
  <2>3. QED BY <1>1, <1>4, <2>1, <2>2 DEF Tok
<1> SUFFICES ASSUME NEW i \in 1..(n - 1)
             PROVE  IF Tok(q, u[i]) THEN TokenOK(q, u, i) ELSE ReductionOK(q, u, i)
  BY <1>1 DEF Causes
<1>5. CASE i < k
  <2>1. /\ i \in 1..n /\ u[i] = e[i] /\ SameCause(p[e[i]], q[e[i]])
        /\ IF Tok(p, e[i]) THEN TokenOK(p, e, i) ELSE ReductionOK(p, e, i)
    BY <1>1, <1>5 DEF Causes
  <2>2. CASE Tok(q, u[i])
    <3>1. \A j \in DOMAIN u : j < i => j \in DOMAIN e /\ (Tok(q, u[j]) <=> Tok(p, e[j]))
      <4>1. \A j \in DOMAIN u : j < i => j \in 1..n /\ j < k
        BY <1>1, <1>5, <2>1
      <4>2. QED BY <1>1, <1>3, <4>1
    <3>2. TokenOK(p, e, i)
      BY <1>3, <1>5, <2>1, <2>2
    <3>3. QED BY <2>1, <2>2, <3>1, <3>2 DEF TokenOK, SameCause
  <2>3. CASE ~Tok(q, u[i])
    <3>1. ReductionOK(p, e, i) /\ ~Tok(p, e[i])
      BY <1>3, <1>5, <2>1, <2>3
    <3>2. StateAt(q, u, i) = StateAt(p, e, i)
      <4>1. CASE i = 1
        BY <4>1 DEF StateAt
      <4>2. CASE i # 1
        <5>1. i - 1 \in 1..n /\ i - 1 < k /\ i > 1
          BY <1>1, <1>5, <2>1, <4>2
        <5>2. q[e[i - 1]].state = p[e[i - 1]].state /\ q[e[i - 1]].id = p[e[i - 1]].id
              /\ u[i - 1] = e[i - 1]
          BY <1>1, <1>5, <2>1, <3>1, <5>1 DEF SameCause
        <5>3. QED BY <4>2, <5>2 DEF StateAt, Target, Found
      <4>3. QED BY <4>1, <4>2
    <3>3. ASSUME NEW t \in DOMAIN e, Covers(p, e, t, i)
          PROVE  \E v \in DOMAIN u : Covers(q, u, v, i) /\ q[u[v]].id = p[e[t]].id
      <4>1. CASE t < k
        <5>1. t \in DOMAIN u /\ u[t] = e[t] /\ SameCause(p[e[t]], q[e[t]])
          BY <1>1, <4>1
        <5>2. QED BY <3>3, <5>1 DEF Covers, SameCause, Tok
      <4>2. CASE ~(t < k)
        <5>1. t = n /\ k + 1 = n
          <6>1. t # k
            BY <3>3 DEF Covers
          <6>2. QED BY <1>1, <4>2, <6>1
        <5>2. k \in DOMAIN u
          BY <1>1, <5>1
        <5>3. k - q[u[k]].cause_reduce <= i
          <6>1. n - p[e[n]].cause_reduce <= i
            BY <3>3, <5>1 DEF Covers
          <6>2. QED BY <1>1, <1>4, <2>1, <5>1, <5>2, <6>1
        <5>4. QED BY <1>4, <1>5, <5>1, <5>2, <5>3 DEF Covers
      <4>3. QED BY <4>1, <4>2
    <3>4. q[u[i]].retry_upper # 0 =>
            \E v \in DOMAIN u : Covers(q, u, v, i) /\ HasTrans(StateAt(q, u, i), q[u[v]].id)
      BY <2>1, <3>1, <3>2, <3>3 DEF ReductionOK, SameCause
    <3>5. QED BY <2>1, <2>3, <3>1, <3>4 DEF ReductionOK, SameCause, Tok
  <2>4. QED BY <2>2, <2>3
<1>6. CASE i = k /\ k + 1 = n
  <2>1. /\ Tok(q, u[i]) /\ TokenOK(p, e, n)
        /\ q[u[i]].cause_reduce = p[e[n]].cause_reduce - 1 /\ p[e[n]].cause_reduce \in Nat
        /\ q[u[i]].child = p[e[n]].child /\ q[u[i]].retry_upper = p[e[n]].retry_upper
    BY <1>1, <1>4, <1>6
  <2>2. q[u[i]].child = <<>> /\ q[u[i]].retry_upper = 0 /\ q[u[i]].cause_reduce < i
    BY <1>1, <1>6, <2>1 DEF TokenOK
  <2>3. ASSUME NEW j \in DOMAIN u, i - q[u[i]].cause_reduce <= j, j < i
        PROVE  ~Tok(q, u[j])
    <3>1. j \in 1..n /\ j < k /\ j < n /\ n - p[e[n]].cause_reduce <= j
      BY <1>1, <1>6, <2>1, <2>3
    <3>2. ~Tok(p, e[j])
      BY <1>1, <2>1, <3>1 DEF TokenOK
    <3>3. QED BY <1>3, <3>1, <3>2
  <2>4. QED BY <2>1, <2>2, <2>3 DEF TokenOK
<1>7. QED BY <1>2, <1>5, <1>6

-----------------------------------------------------------------------------
(* The trail of a parser. *)

\* x is on the stack, in the input, or a child.
InParse(p, stk, a, x) ==
  \/ x \in ToSet(stk) \/ x \in ToSet(a)
  \/ \E r \in Ref : x \in ToSet(p[r].child)

\* What was shifted and not taken back, and what is in the input a, is a trail e
\* that explains the stack and the causes; no cell besides has an untried action.
TrailOf(p, stk, a, lv, e, st, n) ==
  /\ IsInjective(e) /\ Ends(e, n, a)
  /\ Chain(p, e, st, n) /\ st[n] = Before(p, stk, a)
  /\ \A i \in DOMAIN e : InParse(p, stk, a, e[i])
  /\ \A x \in lv : x \notin ToSet(e) => ~Untried(p[x])
  /\ Causes(p, e)

\* A stack and an input have a trail.
Trail(p, stk, a, lv) ==
  \E e \in Seq(Ref), st \in [Nat -> Seq(Ref)], n \in Nat : TrailOf(p, stk, a, lv, e, st, n)

\* Where the cells of the input are in the trail.
LEMMA EndsAt ==
  ASSUME NEW e \in Seq(Ref), NEW n \in Nat, NEW a \in Seq(Ref), Ends(e, n, a)
  PROVE  /\ Len(a) \in Nat /\ DOMAIN a = 1..Len(a) /\ DOMAIN e = 1..(n + Len(a))
         /\ \A j \in DOMAIN a : n + j \in DOMAIN e /\ e[n + j] = a[j]
         /\ \A i \in DOMAIN e : i \in Nat /\ i >= 1 /\ (i > 1 => i - 1 \in DOMAIN e)
         /\ \A i \in 1..n : i \in DOMAIN e
         /\ a # <<>> => n + 1 \in DOMAIN e /\ e[n + 1] = Head(a)
         /\ Len(a) > 1 => n + 2 \in DOMAIN e /\ e[n + 2] = a[2]
         /\ \A i \in DOMAIN e : i > n + 1 => Len(a) > 1
         /\ ToSet(a) \subseteq ToSet(e)
<1> DEFINE m == Len(a)
<1>1. m \in Nat /\ DOMAIN a = 1..m /\ (a # <<>> => m >= 1 /\ Head(a) = a[1])
  OBVIOUS
<1>2. DOMAIN e = 1..(n + m) /\ \A j \in DOMAIN a : e[n + j] = a[j]
  BY DEF Ends
<1>3. n \in Nat
  OBVIOUS
<1> HIDE DEF m
<1>4. \A j \in 1..m : n + j \in 1..(n + m)
  BY <1>1, <1>3
<1>5. \A i \in 1..(n + m) : i \in Nat /\ i >= 1 /\ (i > 1 => i - 1 \in 1..(n + m))
                              /\ (i > n + 1 => m > 1)
  BY <1>1, <1>3
<1>6. \A i \in 1..n : i \in 1..(n + m)
  BY <1>1, <1>3
<1>7. a # <<>> => n + 1 \in DOMAIN e /\ e[n + 1] = Head(a)
  <2>1. a # <<>> => 1 \in 1..m
    BY <1>1
  <2>2. QED BY <1>1, <1>2, <1>4, <2>1
<1>8. m > 1 => n + 2 \in DOMAIN e /\ e[n + 2] = a[2]
  <2>1. m > 1 => 2 \in 1..m
    BY <1>1
  <2>2. QED BY <1>1, <1>2, <1>4, <2>1
<1>9. ASSUME NEW j \in DOMAIN a PROVE a[j] \in ToSet(e)
  <2>1. n + j \in DOMAIN e /\ a[j] = e[n + j]
    BY <1>1, <1>2, <1>4
  <2>2. QED BY <2>1, Zenon DEF ToSet
<1>10. ToSet(a) \subseteq ToSet(e)
  BY <1>9, Zenon DEF ToSet
<1>11. QED BY <1>1, <1>2, <1>4, <1>5, <1>6, <1>7, <1>8, <1>10 DEF m

\* The front of the input, when it is a token, was made from nothing.
LEMMA BeforeToken ==
  ASSUME NEW p, NEW stk \in Seq(Ref), NEW x, p[x].child = <<>>
  PROVE  /\ Unfold(p, x, stk) = stk
         /\ Before(p, stk, <<x>>) = stk
<1>1. Reverse(<<>>) \o stk = stk
  BY DEF Reverse
<1>2. Unfold(p, x, stk) = stk
  BY <1>1 DEF Unfold
<1>3. <<x>> # <<>> /\ Head(<<x>>) = x
  OBVIOUS
<1>4. QED BY <1>2, <1>3 DEF Before

\* The nodes of the parse say the same to q and to p; only the front of the input,
\* which no reduction follows, may be in another state.
Stays(p, q, stk, a, lv, lv2) ==
  /\ \A x \in Ref : InParse(p, stk, a, x) =>
        /\ SameCause(p[x], q[x])
        /\ q[x].state = p[x].state \/ (a # <<>> /\ x = Head(a))
  /\ Len(a) > 1 => Tok(p, a[2])
  /\ \A r \in Ref : q[r].child = p[r].child \/ ToSet(p[r].child) = {}
  /\ \A x \in lv2 : \/ x \in ToSet(a) \/ ~Untried(q[x])
                    \/ x \in lv /\ (Untried(q[x]) => Untried(p[x]))

\* Steps that leave the stack and the input as they are.
LEMMA TrailKept ==
  ASSUME NEW p, NEW q, NEW stk, NEW a \in Seq(Ref), NEW lv, NEW lv2,
         Trail(p, stk, a, lv), Stays(p, q, stk, a, lv, lv2)
  PROVE  Trail(q, stk, a, lv2)
<1> USE DEF Stays
<1>1. PICK e \in Seq(Ref), st \in [Nat -> Seq(Ref)], n \in Nat : TrailOf(p, stk, a, lv, e, st, n)
  BY DEF Trail
<1>2. /\ n \in Nat
      /\ \A i \in DOMAIN e : i \in Nat /\ i >= 1 /\ (i > 1 => i - 1 \in DOMAIN e)
      /\ \A i \in 1..n : i \in DOMAIN e
      /\ a # <<>> => n + 1 \in DOMAIN e /\ e[n + 1] = Head(a)
      /\ Len(a) > 1 => n + 2 \in DOMAIN e /\ e[n + 2] = a[2]
      /\ \A i \in DOMAIN e : i > n + 1 => Len(a) > 1
      /\ ToSet(a) \subseteq ToSet(e)
  <2>1. Ends(e, n, a) /\ n \in Nat
    BY <1>1 DEF TrailOf
  <2>2. QED BY <2>1, EndsAt, ZenonT(60)
<1>3. \A i \in DOMAIN e : /\ e[i] \in Ref /\ InParse(p, stk, a, e[i])
                          /\ SameCause(p[e[i]], q[e[i]])
                          /\ q[e[i]].state = p[e[i]].state \/ (a # <<>> /\ e[i] = Head(a))
  BY <1>1 DEF TrailOf
<1>4. Chain(q, e, st, n)
  <2>1. \A i \in 1..n : q[e[i]].child = p[e[i]].child
    BY <1>2, <1>3 DEF SameCause
  <2>2. Chain(p, e, st, n)
    BY <1>1 DEF TrailOf
  <2>3. QED BY <2>1, <2>2, ChainKept
<1>5. Before(q, stk, a) = Before(p, stk, a)
  BY <1>2, <1>3 DEF Before, Unfold, SameCause
<1>6. \A i \in DOMAIN e : InParse(q, stk, a, e[i])
  BY <1>3 DEF InParse
<1>7. \A x \in lv2 : x \notin ToSet(e) => ~Untried(q[x])
  BY <1>1, <1>2 DEF TrailOf
<1>8. Causes(q, e)
  <2>1. ASSUME NEW i \in DOMAIN e, i > 1, ~Tok(p, e[i])
        PROVE  q[e[i - 1]].state = p[e[i - 1]].state
    <3>1. i - 1 \in DOMAIN e
      BY <1>2, <2>1
    <3>2. ASSUME a # <<>>, e[i - 1] = Head(a) PROVE FALSE
      <4>1. i - 1 = n + 1
        BY <1>1, <1>2, <3>1, <3>2 DEF TrailOf, IsInjective
      <4>2. i \in Int /\ n \in Int
        BY <1>2
      <4>3. i = n + 2 /\ i > n + 1
        <5>1. \A j, k \in Int : j - 1 = k + 1 => j = k + 2 /\ j > k + 1
          OBVIOUS
        <5>2. QED BY <4>1, <4>2, <5>1
      <4>4. Len(a) > 1 /\ e[i] = a[2]
        BY <1>2, <4>3
      <4>5. QED BY <2>1, <4>4
    <3>3. QED BY <1>3, <3>1, <3>2
  <2>2. Causes(p, e)
    BY <1>1 DEF TrailOf
  <2>3. QED BY <1>3, <2>1, <2>2, CausesKept
<1>9. TrailOf(q, stk, a, lv2, e, st, n)
  BY <1>1, <1>4, <1>5, <1>6, <1>7, <1>8 DEF TrailOf
<1>10. QED BY <1>9 DEF Trail

\* A token enters.
LEMMA TrailEnter ==
  ASSUME NEW p, NEW stk \in Seq(Ref), NEW lv, NEW x \in Ref, Trail(p, stk, <<>>, lv),
         ~InParse(p, stk, <<>>, x),
         p[x].id \in Term, p[x].child = <<>>, p[x].retry_upper = 0, p[x].cause_reduce = 0
  PROVE  Trail(p, stk, <<x>>, lv \cup {x})
<1>1. PICK e \in Seq(Ref), st \in [Nat -> Seq(Ref)], n \in Nat : TrailOf(p, stk, <<>>, lv, e, st, n)
  BY DEF Trail
<1> DEFINE u == Append(e, x)
<1>2. /\ n \in Nat /\ Len(e) = n /\ u \in Seq(Ref) /\ Len(u) = n + 1 /\ u[n + 1] = x
      /\ \A i \in 1..n : u[i] = e[i]
      /\ DOMAIN e = 1..n /\ DOMAIN u = 1..(n + 1)
      /\ \A i \in DOMAIN u : i = n + 1 \/ i \in DOMAIN e
  <2>1. Len(e) = n /\ n \in Nat
    BY <1>1 DEF TrailOf, Ends
  <2>2. /\ u \in Seq(Ref) /\ Len(u) = Len(e) + 1 /\ u[Len(e) + 1] = x
        /\ \A i \in 1..Len(e) : u[i] = e[i]
        /\ DOMAIN e = 1..Len(e) /\ DOMAIN u = 1..(Len(e) + 1)
    OBVIOUS
  <2> HIDE DEF u
  <2>3. \A i \in 1..(n + 1) : i = n + 1 \/ i \in 1..n
    BY <2>1
  <2>4. QED BY <2>1, <2>2, <2>3
<1>3. Causes(p, u)
  BY <1>1, CausesAppend DEF TrailOf
<1> HIDE DEF u
<1>4. \A i \in 1..n : e[i] # x
  BY <1>1, <1>2 DEF TrailOf
<1>5. IsInjective(u)
  <2>1. IsInjective(e)
    BY <1>1 DEF TrailOf
  <2> SUFFICES ASSUME NEW i \in DOMAIN u, NEW j \in DOMAIN u, u[i] = u[j] PROVE i = j
    BY DEF IsInjective
  <2>2. CASE i = n + 1 \/ j = n + 1
    BY <1>2, <1>4, <2>2
  <2>3. CASE i # n + 1 /\ j # n + 1
    BY <1>2, <2>1, <2>3 DEF IsInjective
  <2>4. QED BY <2>2, <2>3
<1>6. Ends(u, n, <<x>>)
  BY <1>2 DEF Ends
<1>7. Chain(p, u, st, n)
  BY <1>1, <1>2, ChainKept DEF TrailOf
<1>8. st[n] = Before(p, stk, <<x>>)
  <2>1. st[n] = stk
    BY <1>1 DEF TrailOf, Before
  <2>2. QED BY <2>1, BeforeToken
<1>9. x \in ToSet(<<x>>)
  BY OneSet
<1>10. \A i \in DOMAIN u : InParse(p, stk, <<x>>, u[i])
  BY <1>1, <1>2, <1>9, EmptySet DEF TrailOf, InParse
<1>11. \A y \in ToSet(e) \cup {x} : y \in ToSet(u)
  <2>1. \A i \in DOMAIN e : i \in DOMAIN u /\ u[i] = e[i]
    BY <1>2
  <2>2. n + 1 \in DOMAIN u
    BY <1>2, SMTT(60)
  <2>3. QED BY <1>2, <2>1, <2>2 DEF ToSet
<1>12. \A y \in lv \cup {x} : y \notin ToSet(u) => ~Untried(p[y])
  BY <1>1, <1>11 DEF TrailOf
<1>13. TrailOf(p, stk, <<x>>, lv \cup {x}, u, st, n)
  BY <1>3, <1>5, <1>6, <1>7, <1>8, <1>10, <1>12 DEF TrailOf
<1>14. QED BY <1>2, <1>13 DEF Trail

\* A token is sent back.
LEMMA TrailDrop ==
  ASSUME NEW p, NEW stk \in Seq(Ref), NEW lv, NEW x \in Ref, Trail(p, stk, <<x>>, lv),
         Tok(p, x), p[x].cause_reduce = 0
  PROVE  Trail(p, stk, <<>>, lv \ {x})
<1>1. PICK e \in Seq(Ref), st \in [Nat -> Seq(Ref)], n \in Nat :
        TrailOf(p, stk, <<x>>, lv, e, st, n)
  BY DEF Trail
<1> DEFINE u == SubSeq(e, 1, n)
<1>2. Len(e) = n + 1 /\ e[n + 1] = x
  <2>1. 1 \in DOMAIN <<x>> /\ <<x>>[1] = x /\ Len(<<x>>) = 1
    OBVIOUS
  <2>2. QED BY <1>1, <2>1 DEF TrailOf, Ends
<1>3. /\ u \in Seq(Ref) /\ Len(u) = n /\ \A i \in 1..n : u[i] = e[i]
      /\ DOMAIN e = 1..(n + 1) /\ DOMAIN u = 1..n /\ n \in Nat
      /\ \A i \in DOMAIN u : i \in DOMAIN e /\ i # n + 1
  <2>1. n \in Nat /\ DOMAIN e = 1..(n + 1)
    BY <1>2
  <2>2. u \in Seq(Ref) /\ Len(u) = n /\ DOMAIN u = 1..n /\ \A i \in 1..n : u[i] = e[i]
    BY <1>2, SMTT(60)
  <2> HIDE DEF u
  <2>3. \A i \in 1..n : i \in 1..(n + 1) /\ i # n + 1
    BY <2>1
  <2>4. QED BY <2>1, <2>2, <2>3
<1>4. Causes(p, u)
  BY <1>1, <1>2, CausesDrop DEF TrailOf
<1> HIDE DEF u
<1>5. IsInjective(e) /\ n + 1 \in DOMAIN e
  BY <1>1, <1>3 DEF TrailOf
<1>6. IsInjective(u) /\ \A i \in DOMAIN u : u[i] # x
  BY <1>2, <1>3, <1>5 DEF IsInjective
<1>7. Ends(u, n, <<>>)
  BY <1>3 DEF Ends
<1>8. Chain(p, u, st, n)
  BY <1>1, <1>3, ChainKept DEF TrailOf
<1>9. st[n] = Before(p, stk, <<>>)
  <2>1. p[x].child = <<>>
    BY <1>1, <1>2, <1>5 DEF TrailOf, Causes, TokenOK
  <2>2. st[n] = stk
    BY <1>1, <2>1, BeforeToken DEF TrailOf
  <2>3. QED BY <2>2 DEF Before
<1>10. \A i \in DOMAIN u : InParse(p, stk, <<>>, u[i])
  <2>1. ToSet(<<x>>) = {x}
    BY OneSet
  <2>2. \A i \in DOMAIN u : u[i] = e[i] /\ i \in DOMAIN e /\ u[i] # x
    BY <1>3, <1>6
  <2>3. \A i \in DOMAIN u : InParse(p, stk, <<x>>, u[i])
    BY <1>1, <2>2 DEF TrailOf
  <2>4. QED BY <2>1, <2>2, <2>3 DEF InParse
<1>11. \A y \in ToSet(e) : y = x \/ y \in ToSet(u)
  <2>1. \A i \in 1..(n + 1) : i = n + 1 \/ i \in 1..n
    BY <1>3
  <2>2. \A i \in DOMAIN e : i = n + 1 \/ (i \in DOMAIN u /\ u[i] = e[i])
    BY <1>3, <2>1
  <2>3. QED BY <1>2, <2>2 DEF ToSet
<1>12. \A y \in lv \ {x} : y \notin ToSet(u) => ~Untried(p[y])
  BY <1>1, <1>11 DEF TrailOf
<1>13. TrailOf(p, stk, <<>>, lv \ {x}, u, st, n)
  BY <1>4, <1>6, <1>7, <1>8, <1>9, <1>10, <1>12 DEF TrailOf
<1>14. QED BY <1>3, <1>13 DEF Trail

\* The front of a sequence, and the cells behind it.
LEMMA FirstParts ==
  \A S : \A b \in Seq(S) : /\ b # <<>> => Head(b) = b[1] /\ Len(b) >= 1
                           /\ b = <<>> => Len(b) = 0
OBVIOUS

\* The last of the first k cells.
LEMMA LastShifted == \A k \in Nat : k # 0 => k \in 1..k /\ k + 1 # 1 /\ (k + 1) - 1 = k
OBVIOUS

\* What a sequence is without its first element.
LEMMA TailParts ==
  ASSUME NEW S, NEW a \in Seq(S), a # <<>>
  PROVE  /\ Head(a) \in S /\ Head(a) = a[1] /\ Tail(a) \in Seq(S)
         /\ Len(a) \in Nat /\ Len(Tail(a)) \in Nat /\ Len(a) = Len(Tail(a)) + 1
         /\ \A j \in DOMAIN Tail(a) : j + 1 \in DOMAIN a /\ Tail(a)[j] = a[j + 1]
         /\ Tail(a) # <<>> => Head(Tail(a)) = a[2] /\ Len(a) > 1
         /\ Len(a) > 1 => Tail(a) # <<>>
<1> DEFINE b == Tail(a)
<1>1. /\ Head(a) \in S /\ Head(a) = a[1] /\ b \in Seq(S) /\ Len(a) \in Nat
      /\ Len(b) = Len(a) - 1 /\ Len(b) \in Nat /\ DOMAIN a = 1..Len(a)
      /\ DOMAIN b = 1..Len(b)
  OBVIOUS
<1>2. \A j \in 1..Len(b) : b[j] = a[j + 1]
  OBVIOUS
<1>3. (b # <<>> => Head(b) = b[1] /\ Len(b) >= 1) /\ (b = <<>> => Len(b) = 0)
  BY <1>1, FirstParts, Zenon
<1> HIDE DEF b
<1>4. \A j \in 1..Len(b) : j + 1 \in 1..Len(a)
  BY <1>1
<1>5. Len(a) = Len(b) + 1
  BY <1>1
<1>6. ASSUME b # <<>> PROVE Head(b) = a[2] /\ Len(a) > 1
  <2>1. 1 \in 1..Len(b) /\ 1 + 1 = 2 /\ Len(a) > 1
    BY <1>1, <1>3, <1>5, <1>6
  <2>2. QED BY <1>2, <1>3, <1>6, <2>1
<1>7. Len(a) > 1 => b # <<>>
  BY <1>3, <1>5
<1>8. QED BY <1>1, <1>2, <1>4, <1>5, <1>6, <1>7 DEF b

\* The cell in front of the input, when it is shifted.
LEMMA TrailShift ==
  ASSUME NEW p, NEW stk \in Seq(Ref), NEW a \in Seq(Ref), NEW lv, Trail(p, stk, a, lv),
         a # <<>>, Len(a) > 1 => Tok(p, a[2])
  PROVE  Trail(p, <<Head(a)>> \o stk, Tail(a), lv)
<1>1. PICK e \in Seq(Ref), st \in [Nat -> Seq(Ref)], n \in Nat : TrailOf(p, stk, a, lv, e, st, n)
  BY DEF Trail
<1>2. /\ Ends(e, n, a) /\ n \in Nat /\ n + 1 \in Nat /\ Causes(p, e) /\ Chain(p, e, st, n)
      /\ e \in Seq(Ref) /\ a \in Seq(Ref)
  BY <1>1 DEF TrailOf
<1>02. /\ n + 1 \in DOMAIN e /\ e[n + 1] = Head(a)
       /\ \A j \in DOMAIN a : e[n + j] = a[j]
       /\ Len(a) > 1 => n + 2 \in DOMAIN e /\ e[n + 2] = a[2]
  <2>1. Ends(e, n, a)
    BY <1>2
  <2>2. n + 1 \in DOMAIN e /\ e[n + 1] = Head(a)
    BY <2>1, EndsAt
  <2>3. \A j \in DOMAIN a : e[n + j] = a[j]
    BY <2>1, EndsAt, SMTT(60)
  <2>4. Len(a) > 1 => n + 2 \in DOMAIN e /\ e[n + 2] = a[2]
    BY <2>1, EndsAt
  <2>5. QED BY <2>2, <2>3, <2>4
<1>03. st[n] = Unfold(p, Head(a), stk)
  BY <1>1 DEF TrailOf, Before
<1> DEFINE x == Head(a)
           b == Tail(a)
           s == <<x>> \o stk
<1>3. /\ x \in Ref /\ b \in Seq(Ref) /\ Len(b) \in Nat /\ Len(a) = Len(b) + 1
      /\ \A j \in DOMAIN b : j \in Int /\ j + 1 \in DOMAIN a /\ b[j] = a[j + 1]
      /\ b # <<>> => Head(b) = a[2] /\ Len(a) > 1
  <2>1. \A j \in DOMAIN b : j \in Int
    OBVIOUS
  <2>2. QED BY <2>1, TailParts
<1>4. /\ n + 1 \in DOMAIN e /\ e[n + 1] = x
      /\ \A j \in DOMAIN a : e[n + j] = a[j]
      /\ Len(a) > 1 => n + 2 \in DOMAIN e /\ e[n + 2] = a[2]
  BY <1>02
<1>5. Len(e) = n + Len(a)
  BY <1>2 DEF Ends
<1>6. Causes(p, e) /\ st[n] = Unfold(p, x, stk) /\ Chain(p, e, st, n)
  BY <1>2, <1>03
<1> HIDE DEF x, b, s
<1>7. ASSUME b # <<>> PROVE p[Head(b)].child = <<>>
  BY <1>3, <1>4, <1>6, <1>7, ZenonT(60) DEF Causes, TokenOK
<1> DEFINE st2 == [st EXCEPT ![n + 1] = <<e[n + 1]>> \o stk]
<1>8. st2 \in [Nat -> Seq(Ref)] /\ st2[n + 1] = s /\ Chain(p, e, st2, n + 1)
  <2>1. e[n + 1] \in Ref /\ st[n] = Unfold(p, e[n + 1], stk) /\ s = <<e[n + 1]>> \o stk
    BY <1>3, <1>4, <1>6 DEF s
  <2> HIDE DEF st2
  <2>2. QED BY <1>2, <2>1, ChainShift DEF st2
<1> HIDE DEF st2
<1>9. s \in Seq(Ref) /\ ToSet(s) = {x} \cup ToSet(stk)
  <2>1. /\ <<x>> \o stk \in Seq(Ref)
        /\ ToSet(<<x>> \o stk) = {x} \cup ToSet(stk)
    BY <1>3, ConsSet, ZenonT(60)
  <2>2. QED BY <2>1 DEF s
<1>10. ToSet(a) = {x} \cup ToSet(b)
  BY HeadSet, Zenon DEF x, b
<1>11. Ends(e, n + 1, b)
  <2>1. Len(e) = (n + 1) + Len(b)
    BY <1>2, <1>3, <1>5
  <2>2. ASSUME NEW j \in DOMAIN b PROVE e[(n + 1) + j] = b[j]
    <3>1. (n + 1) + j = n + (j + 1)
      BY <1>2, <1>3, SMTT(60)
    <3>2. QED BY <1>3, <1>4, <3>1
  <2>3. QED BY <2>1, <2>2 DEF Ends
<1>12. s = Before(p, s, b)
  BY <1>7, <1>9, BeforeToken DEF Before
<1>13. \A i \in DOMAIN e : InParse(p, s, b, e[i])
  BY <1>1, <1>9, <1>10 DEF TrailOf, InParse
<1>14. TrailOf(p, s, b, lv, e, st2, n + 1)
  BY <1>1, <1>6, <1>8, <1>11, <1>12, <1>13 DEF TrailOf
<1>15. QED BY <1>2, <1>8, <1>14 DEF Trail, s, b, x

\* The top of the stack, when it is taken back.
LEMMA TrailUnshift ==
  ASSUME NEW p, NEW stk \in Seq(Ref), NEW a \in Seq(Ref), NEW lv, Trail(p, stk, a, lv),
         stk # <<>>, a = <<>> \/ Tok(p, Head(a))
  PROVE  Trail(p, Tail(stk), <<Head(stk)>> \o a, lv)
<1>1. PICK e \in Seq(Ref), st \in [Nat -> Seq(Ref)], n \in Nat : TrailOf(p, stk, a, lv, e, st, n)
  BY DEF Trail
<1>2. /\ Ends(e, n, a) /\ n \in Nat /\ Chain(p, e, st, n) /\ Causes(p, e)
      /\ e \in Seq(Ref) /\ a \in Seq(Ref)
  BY <1>1 DEF TrailOf
<1>3. st[n] = stk
  <2>1. CASE a = <<>>
    BY <1>1, <2>1 DEF TrailOf, Before
  <2>2. CASE a # <<>>
    <3>1. n + 1 \in DOMAIN e /\ e[n + 1] = Head(a)
      BY <1>2, <2>2, EndsAt
    <3>2. p[Head(a)].child = <<>>
      BY <1>2, <2>2, <3>1 DEF Causes, TokenOK
    <3>3. QED BY <1>1, <2>2, <3>2, BeforeToken DEF TrailOf, Before
  <2>3. QED BY <2>1, <2>2
<1>4. n # 0
  BY <1>2, <1>3 DEF Chain
<1>05. /\ n - 1 \in Nat /\ Chain(p, e, st, n - 1) /\ Head(st[n]) = e[n]
       /\ st[n - 1] = Unfold(p, e[n], Tail(st[n]))
  <2>1. Chain(p, e, st, n)
    BY <1>2
  <2>2. n - 1 \in Nat /\ Chain(p, e, st, n - 1)
    BY <1>4, <2>1, ChainUnshift
  <2>3. Head(st[n]) = e[n]
    BY <1>4, <2>1, ChainUnshift
  <2>4. st[n - 1] = Unfold(p, e[n], Tail(st[n]))
    <3>1. n \in 1..n
      BY <1>2, <1>4, LastShifted, Zenon
    <3>2. QED BY <2>1, <3>1, Zenon DEF Chain
  <2>5. QED BY <2>2, <2>3, <2>4
<1> DEFINE x == Head(stk)
           s == Tail(stk)
           b == <<x>> \o a
<1>5. /\ n - 1 \in Nat /\ Chain(p, e, st, n - 1) /\ x = e[n]
      /\ st[n - 1] = Unfold(p, x, s)
  BY <1>3, <1>05
<1>6. x \in Ref /\ s \in Seq(Ref) /\ ToSet(stk) = {x} \cup ToSet(s)
  BY HeadSet, Zenon
<1>7. b \in Seq(Ref) /\ ToSet(b) = {x} \cup ToSet(a)
  BY <1>6, ConsSet, Zenon
<1>8. /\ b # <<>> /\ Head(b) = x /\ Len(b) = Len(a) + 1 /\ Len(a) \in Nat
      /\ DOMAIN b = 1..(Len(a) + 1) /\ DOMAIN a = 1..Len(a) /\ b[1] = x
      /\ \A j \in DOMAIN a : b[j + 1] = a[j]
  <2>1. x \in Ref
    BY <1>6
  <2> HIDE DEF x
  <2>2. Len(a) \in Nat /\ DOMAIN a = 1..Len(a)
    OBVIOUS
  <2>3. /\ b # <<>> /\ Head(b) = x /\ Len(b) = Len(a) + 1 /\ b[1] = x
        /\ \A j \in DOMAIN a : b[j + 1] = a[j]
    <3>1. a \in Seq(Ref)
      OBVIOUS
    <3>2. /\ <<x>> \o a # <<>> /\ Head(<<x>> \o a) = x /\ Len(<<x>> \o a) = Len(a) + 1
          /\ (<<x>> \o a)[1] = x /\ \A j \in DOMAIN a : (<<x>> \o a)[j + 1] = a[j]
      <4>1. <<x>> \o a # <<>> /\ Head(<<x>> \o a) = x
        BY <2>1, <3>1, ConsParts
      <4>2. Len(<<x>> \o a) = Len(a) + 1
        BY <2>1, <3>1, ConsParts
      <4>3. (<<x>> \o a)[1] = x
        BY <2>1, <3>1, ConsParts
      <4>4. \A j \in DOMAIN a : (<<x>> \o a)[j + 1] = a[j]
        BY <2>1, <3>1, ConsAt, Zenon
      <4>5. QED BY <4>1, <4>2, <4>3, <4>4
    <3>3. QED BY <3>2
  <2>4. DOMAIN b = 1..Len(b)
    BY <1>7
  <2>5. QED BY <2>2, <2>3, <2>4
<1>9. Len(e) = n + Len(a) /\ \A j \in DOMAIN a : e[n + j] = a[j]
  BY <1>2 DEF Ends
<1> HIDE DEF b, s, x
<1>10. Ends(e, n - 1, b)
  <2>1. Len(e) = (n - 1) + Len(b)
    BY <1>2, <1>8, <1>9
  <2>2. ASSUME NEW j \in DOMAIN b PROVE e[(n - 1) + j] = b[j]
    <3>1. CASE j = 1
      <4>1. (n - 1) + j = n
        BY <1>2, <3>1
      <4>2. QED BY <1>5, <1>8, <3>1, <4>1
    <3>2. CASE j # 1
      <4>1. j - 1 \in DOMAIN a /\ (n - 1) + j = n + (j - 1) /\ (j - 1) + 1 = j
        <5>1. j \in 1..(Len(a) + 1) /\ Len(a) \in Nat /\ n \in Nat
          BY <1>2, <1>8
        <5>2. \A m, k \in Nat : \A i \in 1..(m + 1) : i # 1 =>
                i - 1 \in 1..m /\ (k - 1) + i = k + (i - 1) /\ (i - 1) + 1 = i
          OBVIOUS
        <5>3. QED BY <1>8, <3>2, <5>1, <5>2
      <4>2. e[n + (j - 1)] = a[j - 1] /\ b[(j - 1) + 1] = a[j - 1]
        BY <1>8, <1>9, <4>1
      <4>3. QED BY <4>1, <4>2
    <3>3. QED BY <3>1, <3>2
  <2>3. QED BY <2>1, <2>2 DEF Ends
<1>11. st[n - 1] = Before(p, s, b)
  BY <1>5, <1>8 DEF Before
<1>12. \A i \in DOMAIN e : InParse(p, s, b, e[i])
  BY <1>1, <1>6, <1>7 DEF TrailOf, InParse
<1>13. TrailOf(p, s, b, lv, e, st, n - 1)
  BY <1>1, <1>5, <1>10, <1>11, <1>12 DEF TrailOf
<1>14. QED BY <1>5, <1>13 DEF Trail, s, b, x

\* Just before a token that caused reductions is a reduction.
LEMMA TokenBefore ==
  ASSUME NEW p, NEW e, NEW n \in Nat, NEW k \in Nat, k = n + 1, TokenOK(p, e, k),
         p[e[k]].cause_reduce \in Int, p[e[k]].cause_reduce > 0
  PROVE  n >= 1 /\ (n \in DOMAIN e => ~Tok(p, e[n]))
<1> DEFINE c == p[e[k]].cause_reduce
<1>1. c < k /\ \A j \in DOMAIN e : k - c <= j /\ j < k => ~Tok(p, e[j])
  BY DEF TokenOK
<1>2. c \in Int /\ c > 0
  OBVIOUS
<1> HIDE DEF c
<1>3. n >= 1 /\ k - c <= n /\ n < k
  BY <1>1, <1>2
<1>4. QED BY <1>1, <1>3

\* Behind the front of the input is the second cell only.
LEMMA TokenBehind ==
  \A n, m \in Nat : \A t \in 1..(n + m) : t > n + 1 /\ m <= 2 => m = 2 /\ t = n + 2
OBVIOUS

\* What the trail says of the front of the input: a token that caused reductions has
\* one of them on top of the stack, a reduction in front of the token that caused it
\* has its retry in the state that it was reduced in.
LEMMA TrailFront ==
  ASSUME NEW p, NEW stk \in Seq(Ref), NEW a \in Seq(Ref), NEW lv, Trail(p, stk, a, lv),
         a # <<>>, p[Head(a)].cause_reduce \in Int
  PROVE  /\ Tok(p, Head(a)) =>
              /\ p[Head(a)].child = <<>> /\ p[Head(a)].retry_upper = 0
              /\ p[Head(a)].cause_reduce > 0 => stk # <<>> /\ ~Tok(p, Head(stk))
         /\ ~Tok(p, Head(a)) =>
              /\ p[Head(a)].id \in NonTerm
              /\ p[Head(a)].retry_lower = 0 /\ p[Head(a)].retry_region = 0
         /\ Len(a) > 1 /\ Tok(p, a[2]) /\ p[a[2]].cause_reduce \in Int =>
              /\ p[a[2]].retry_upper = 0 /\ p[a[2]].child = <<>>
              /\ p[a[2]].cause_reduce > 0 => ~Tok(p, Head(a))
         /\ ~Tok(p, Head(a)) /\ p[Head(a)].retry_upper # 0 /\ Len(a) <= 2 =>
              /\ Len(a) = 2 /\ Tok(p, a[2])
              /\ HasTrans(stack_top_target(p, Unfold(p, Head(a), stk)), p[a[2]].id)
<1>1. PICK e \in Seq(Ref), st \in [Nat -> Seq(Ref)], n \in Nat : TrailOf(p, stk, a, lv, e, st, n)
  BY DEF Trail
<1>01. n \in Nat /\ Ends(e, n, a) /\ e \in Seq(Ref) /\ a \in Seq(Ref)
  BY <1>1 DEF TrailOf
<1>02. /\ a # <<>> => n + 1 \in DOMAIN e /\ e[n + 1] = Head(a)
       /\ Len(a) > 1 => n + 2 \in DOMAIN e /\ e[n + 2] = a[2]
       /\ DOMAIN e = 1..(n + Len(a)) /\ Len(a) \in Nat
       /\ \A i \in 1..n : i \in DOMAIN e
  <2>1. Ends(e, n, a)
    BY <1>01
  <2>2. a # <<>> => n + 1 \in DOMAIN e /\ e[n + 1] = Head(a)
    BY <2>1, EndsAt
  <2>3. DOMAIN e = 1..(n + Len(a)) /\ Len(a) \in Nat
    BY <2>1, EndsAt
  <2>4. Len(a) > 1 => n + 2 \in DOMAIN e /\ e[n + 2] = a[2]
    BY <2>1, EndsAt
  <2>5. \A i \in 1..n : i \in DOMAIN e
    BY <2>1, EndsAt
  <2>6. QED BY <2>2, <2>3, <2>4, <2>5
<1>03. n + 1 \in DOMAIN e /\ e[n + 1] = Head(a)
  BY <1>02, Zenon
<1> DEFINE x == Head(a)
           m == Len(a)
<1>2. /\ n \in Nat /\ Chain(p, e, st, n) /\ Causes(p, e)
      /\ st[n] = Unfold(p, x, stk)
  BY <1>1 DEF TrailOf, Before
<1>3. /\ n + 1 \in DOMAIN e /\ e[n + 1] = x
      /\ Len(a) > 1 => n + 2 \in DOMAIN e /\ e[n + 2] = a[2]
      /\ DOMAIN e = 1..(n + Len(a)) /\ Len(a) \in Nat
      /\ \A i \in 1..n : i \in DOMAIN e
  BY <1>02, <1>03
<1>04. p[x].cause_reduce \in Int
  OBVIOUS
<1> HIDE DEF x
<1>4. ASSUME Tok(p, x)
      PROVE  /\ p[x].child = <<>> /\ p[x].retry_upper = 0
             /\ p[x].cause_reduce > 0 => stk # <<>> /\ ~Tok(p, Head(stk))
  <2>1. TokenOK(p, e, n + 1)
    BY <1>2, <1>3, <1>4 DEF Causes
  <2>2. ASSUME p[x].cause_reduce > 0 PROVE stk # <<>> /\ ~Tok(p, Head(stk))
    <3>1. p[e[n + 1]].cause_reduce \in Int /\ p[e[n + 1]].cause_reduce > 0 /\ n + 1 \in Nat
      <4>1. n + 1 \in Nat
        BY <1>2
      <4>2. e[n + 1] = x
        BY <1>3
      <4>3. QED BY <1>04, <2>2, <4>1, <4>2
    <3>2. n >= 1 /\ (n \in DOMAIN e => ~Tok(p, e[n]))
      BY <1>2, <2>1, <3>1, TokenBefore
    <3>3. n \in 1..n /\ ~Tok(p, e[n])
      <4>1. n \in 1..n
        BY <1>2, <3>2
      <4>2. QED BY <1>3, <3>2, <4>1
    <3>4. st[n] # <<>> /\ Head(st[n]) = e[n]
      BY <1>2, <3>3 DEF Chain
    <3>5. st[n] = stk
      BY <1>2, <1>3, <2>1, BeforeToken DEF TokenOK
    <3>6. QED BY <3>3, <3>4, <3>5
  <2>3. QED BY <1>3, <2>1, <2>2 DEF TokenOK
<1>5. ASSUME ~Tok(p, x)
      PROVE  ReductionOK(p, e, n + 1)
  BY <1>2, <1>3, <1>5 DEF Causes
<1>6. ASSUME Len(a) > 1, Tok(p, a[2]), p[a[2]].cause_reduce \in Int
      PROVE  /\ p[a[2]].retry_upper = 0 /\ p[a[2]].child = <<>>
             /\ p[a[2]].cause_reduce > 0 => ~Tok(p, x)
  <2>1. TokenOK(p, e, n + 2) /\ e[n + 2] = a[2]
    BY <1>2, <1>3, <1>6 DEF Causes
  <2>2. ASSUME p[a[2]].cause_reduce > 0 PROVE ~Tok(p, x)
    <3>1. /\ p[e[n + 2]].cause_reduce \in Int /\ p[e[n + 2]].cause_reduce > 0
          /\ n + 2 \in Nat /\ n + 1 \in Nat /\ n + 2 = (n + 1) + 1
      <4>1. n + 2 \in Nat /\ n + 1 \in Nat /\ n + 2 = (n + 1) + 1
        BY <1>2
      <4>2. QED BY <1>6, <2>1, <2>2, <4>1
    <3>2. n + 1 \in DOMAIN e => ~Tok(p, e[n + 1])
      BY <2>1, <3>1, TokenBefore
    <3>3. QED BY <1>3, <3>2
  <2>3. QED BY <2>1, <2>2 DEF TokenOK
<1>7. ASSUME ~Tok(p, x), p[x].retry_upper # 0, Len(a) <= 2
      PROVE  /\ Len(a) = 2 /\ Tok(p, a[2])
             /\ HasTrans(stack_top_target(p, Unfold(p, x, stk)), p[a[2]].id)
  <2>1. PICK t \in DOMAIN e : Covers(p, e, t, n + 1) /\ HasTrans(StateAt(p, e, n + 1), p[e[t]].id)
    BY <1>3, <1>5, <1>7 DEF ReductionOK
  <2>2. Len(a) = 2 /\ t = n + 2
    <3>1. t > n + 1 /\ t \in 1..(n + m) /\ n \in Nat /\ m \in Nat /\ m <= 2
      BY <1>2, <1>3, <1>7, <2>1 DEF Covers
    <3>2. QED BY <3>1, TokenBehind DEF m
  <2>3. e[t] = a[2] /\ Tok(p, a[2])
    BY <1>3, <2>1, <2>2 DEF Covers
  <2>4. StateAt(p, e, n + 1) = stack_top_target(p, st[n])
    <3>1. CASE n = 0
      BY <1>2, <3>1 DEF StateAt, Chain, stack_top_target
    <3>2. CASE n # 0
      <4>1. n \in 1..n /\ n + 1 # 1 /\ (n + 1) - 1 = n
        BY <1>2, <3>2, LastShifted
      <4>2. st[n] # <<>> /\ Head(st[n]) = e[n]
        BY <1>2, <4>1 DEF Chain
      <4>3. QED BY <4>1, <4>2 DEF StateAt, stack_top_target
    <3>3. QED BY <3>1, <3>2
  <2>5. QED BY <1>2, <2>1, <2>2, <2>3, <2>4
<1>8. ~Tok(p, x) => p[x].id \in NonTerm /\ p[x].retry_lower = 0 /\ p[x].retry_region = 0
  BY <1>3, <1>5 DEF ReductionOK
<1>9. QED BY <1>4, <1>6, <1>7, <1>8 DEF x

-----------------------------------------------------------------------------
\* Where a cell x enters a sequence, or leaves it, at k.
Inserted(e, k, x) == [i \in 1..(Len(e) + 1) |-> IF i < k THEN e[i] ELSE IF i = k THEN x ELSE e[i - 1]]
Removed(e, k) == [i \in 1..(Len(e) - 1) |-> IF i < k THEN e[i] ELSE e[i + 1]]

\* What a cell changes that enters, ...
LEMMA InsertedParts ==
  ASSUME NEW e \in Seq(Ref), NEW k \in 1..(Len(e) + 1), NEW x \in Ref,
         IsInjective(e), x \notin ToSet(e)
  PROVE  LET u == Inserted(e, k, x)
         IN /\ u \in Seq(Ref) /\ Len(u) = Len(e) + 1 /\ u[k] = x
            /\ \A i \in DOMAIN e : u[IF i < k THEN i ELSE i + 1] = e[i]
            /\ \A i \in DOMAIN u : i = k \/ \E j \in DOMAIN e : u[i] = e[j]
            /\ IsInjective(u)
            /\ \A y \in ToSet(e) \cup {x} : y \in ToSet(u)
<1> DEFINE n == Len(e)
           u == Inserted(e, k, x)
<1>1. /\ n \in Nat /\ DOMAIN e = 1..n /\ k \in 1..(n + 1)
      /\ \A i \in 1..n : e[i] \in Ref
  OBVIOUS
<1>2. u = [i \in 1..(n + 1) |-> IF i < k THEN e[i] ELSE IF i = k THEN x ELSE e[i - 1]]
  BY DEF Inserted
<1>3. \A i \in 1..n : e[i] # x
  BY <1>1, InSet
<1> HIDE DEF u, n
<1>4. \A i \in 1..(n + 1) : /\ i < k \/ i = k \/ i > k
                            /\ i < k => i \in 1..n
                            /\ i > k => i - 1 \in 1..n /\ ~(i < k) /\ i # k
  BY <1>1
<1>5. /\ DOMAIN u = 1..(n + 1)
      /\ \A i \in 1..(n + 1) : /\ i < k => u[i] = e[i]
                               /\ i > k => u[i] = e[i - 1]
      /\ u[k] = x
  BY <1>1, <1>2, <1>4
<1>6. u \in Seq(Ref) /\ Len(u) = n + 1
  <2>1. \A i \in 1..(n + 1) : u[i] \in Ref
    BY <1>1, <1>4, <1>5
  <2>2. n + 1 \in Nat
    BY <1>1
  <2>3. u \in [1..(n + 1) -> Ref]
    BY <1>2, <1>5, <2>1
  <2>4. QED BY <2>2, <2>3
<1>7. ASSUME NEW i \in 1..n PROVE u[IF i < k THEN i ELSE i + 1] = e[i]
  <2>1. CASE i < k
    <3>1. i \in 1..(n + 1)
      BY <1>1
    <3>2. QED BY <1>5, <2>1, <3>1
  <2>2. CASE ~(i < k)
    <3>1. i + 1 \in 1..(n + 1) /\ i + 1 > k /\ (i + 1) - 1 = i
      BY <1>1, <2>2
    <3>2. u[i + 1] = e[(i + 1) - 1]
      BY <1>5, <3>1
    <3>3. QED BY <2>2, <3>1, <3>2
  <2>3. QED BY <2>1, <2>2
<1>8. ASSUME NEW i \in 1..(n + 1), i # k
      PROVE  \E j \in 1..n : u[i] = e[j] /\ (i < k => j = i) /\ (i > k => j = i - 1)
  <2>1. CASE i < k
    <3>1. i \in 1..n /\ ~(i > k)
      BY <1>1, <2>1
    <3>2. QED BY <1>5, <2>1, <3>1
  <2>2. CASE i > k
    <3>1. i - 1 \in 1..n /\ ~(i < k)
      BY <1>1, <2>2
    <3>2. QED BY <1>5, <2>2, <3>1
  <2>3. i < k \/ i > k
    BY <1>4, <1>8
  <2>4. QED BY <2>1, <2>2, <2>3
<1>9. IsInjective(u)
  <2> SUFFICES ASSUME NEW i \in DOMAIN u, NEW j \in DOMAIN u, u[i] = u[j] PROVE i = j
    BY DEF IsInjective
  <2>1. CASE i = k /\ j = k
    BY <2>1
  <2>2. CASE i = k /\ j # k
    BY <1>3, <1>5, <1>8, <2>2, ZenonT(60)
  <2>3. CASE i # k /\ j = k
    BY <1>3, <1>5, <1>8, <2>3
  <2>4. CASE i # k /\ j # k
    <3>1. PICK c \in 1..n : u[i] = e[c] /\ (i < k => c = i) /\ (i > k => c = i - 1)
      BY <1>5, <1>8, <2>4
    <3>2. PICK d \in 1..n : u[j] = e[d] /\ (j < k => d = j) /\ (j > k => d = j - 1)
      BY <1>5, <1>8, <2>4
    <3>3. c = d
      BY <1>1, <3>1, <3>2 DEF IsInjective
    <3>4. i \in 1..(n + 1) /\ j \in 1..(n + 1) /\ n \in Nat /\ k \in 1..(n + 1)
      BY <1>1, <1>5
    <3>5. QED BY <2>4, <3>1, <3>2, <3>3, <3>4
  <2>5. QED BY <2>1, <2>2, <2>3, <2>4
<1>10. ASSUME NEW y \in ToSet(e) \cup {x} PROVE y \in ToSet(u)
  <2>1. CASE y = x
    <3>1. k \in DOMAIN u /\ u[k] = x
      BY <1>1, <1>5
    <3>2. QED BY <2>1, <3>1, Zenon DEF ToSet
  <2>2. CASE y \in ToSet(e)
    <3>1. PICK i \in 1..n : y = e[i]
      BY <2>2, InSet DEF n
    <3>2. (IF i < k THEN i ELSE i + 1) \in DOMAIN u
      BY <1>1, <1>5
    <3>3. QED BY <1>7, <3>1, <3>2, Zenon DEF ToSet
  <2>3. QED BY <2>1, <2>2
<1>11. QED BY <1>1, <1>5, <1>6, <1>7, <1>8, <1>9, <1>10 DEF u, n

\* ... and one that leaves.
LEMMA RemovedParts ==
  ASSUME NEW e \in Seq(Ref), NEW k \in DOMAIN e, IsInjective(e)
  PROVE  LET u == Removed(e, k)
         IN /\ u \in Seq(Ref) /\ Len(u) = Len(e) - 1
            /\ \A i \in DOMAIN e : i < k => u[i] = e[i]
            /\ \A i \in DOMAIN e : i > k => u[i - 1] = e[i]
            /\ \A i \in DOMAIN u : \E j \in DOMAIN e : u[i] = e[j] /\ j # k
            /\ IsInjective(u)
            /\ \A y \in ToSet(e) : y = e[k] \/ y \in ToSet(u)
<1> DEFINE n == Len(e)
           u == Removed(e, k)
<1>1. /\ n \in Nat /\ DOMAIN e = 1..n /\ k \in 1..n
      /\ \A i \in 1..n : e[i] \in Ref
  OBVIOUS
<1>2. u = [i \in 1..(n - 1) |-> IF i < k THEN e[i] ELSE e[i + 1]]
  BY DEF Removed
<1> HIDE DEF u, n
<1>3. \A i \in 1..(n - 1) : i \in 1..n /\ i + 1 \in 1..n /\ (~(i < k) => i + 1 # k /\ i + 1 > k)
  BY <1>1
<1>4. /\ DOMAIN u = 1..(n - 1)
      /\ \A i \in 1..(n - 1) : u[i] = IF i < k THEN e[i] ELSE e[i + 1]
  BY <1>2
<1>5. u \in Seq(Ref) /\ Len(u) = n - 1
  <2>1. \A i \in 1..(n - 1) : u[i] \in Ref
    BY <1>1, <1>3, <1>4
  <2>2. n - 1 \in Nat
    BY <1>1
  <2>3. u \in [1..(n - 1) -> Ref]
    BY <1>2, <1>4, <2>1
  <2>4. QED BY <2>2, <2>3
<1>6. ASSUME NEW i \in 1..n, i < k PROVE i \in 1..(n - 1) /\ u[i] = e[i]
  <2>1. i \in 1..(n - 1)
    BY <1>1, <1>6
  <2>2. QED BY <1>4, <1>6, <2>1
<1>7. ASSUME NEW i \in 1..n, i > k PROVE i - 1 \in 1..(n - 1) /\ u[i - 1] = e[i]
  <2>1. i - 1 \in 1..(n - 1) /\ ~(i - 1 < k) /\ (i - 1) + 1 = i
    BY <1>1, <1>7
  <2>2. u[i - 1] = e[(i - 1) + 1]
    BY <1>4, <2>1
  <2>3. QED BY <2>1, <2>2
<1>8. ASSUME NEW i \in 1..(n - 1)
      PROVE  \E j \in 1..n : u[i] = e[j] /\ j # k /\ (i < k => j = i) /\ (~(i < k) => j = i + 1)
  <2>1. CASE i < k
    <3>1. i \in 1..n /\ i # k
      BY <1>1, <2>1
    <3>2. QED BY <1>4, <2>1, <3>1
  <2>2. CASE ~(i < k)
    <3>1. i + 1 \in 1..n /\ i + 1 # k
      BY <1>3, <2>2
    <3>2. QED BY <1>4, <2>2, <3>1
  <2>3. QED BY <2>1, <2>2
<1>9. IsInjective(u)
  <2> SUFFICES ASSUME NEW i \in DOMAIN u, NEW j \in DOMAIN u, u[i] = u[j] PROVE i = j
    BY DEF IsInjective
  <2>1. PICK c \in 1..n : u[i] = e[c] /\ (i < k => c = i) /\ (~(i < k) => c = i + 1)
    BY <1>4, <1>8
  <2>2. PICK d \in 1..n : u[j] = e[d] /\ (j < k => d = j) /\ (~(j < k) => d = j + 1)
    BY <1>4, <1>8
  <2>3. c = d
    BY <1>1, <2>1, <2>2 DEF IsInjective
  <2>4. i \in 1..(n - 1) /\ j \in 1..(n - 1) /\ n \in Nat /\ k \in 1..n
    BY <1>1, <1>4
  <2>5. QED BY <2>1, <2>2, <2>3, <2>4
<1>10. ASSUME NEW y \in ToSet(e), y # e[k] PROVE y \in ToSet(u)
  <2>1. PICK i \in 1..n : y = e[i]
    BY <1>10, InSet DEF n
  <2>2. i # k /\ (i < k \/ i > k)
    BY <1>1, <1>10, <2>1
  <2>3. \E m \in DOMAIN u : u[m] = y
    BY <1>4, <1>6, <1>7, <2>1, <2>2
  <2>4. QED BY <2>3, Zenon DEF ToSet
<1>11. QED BY <1>1, <1>4, <1>5, <1>6, <1>7, <1>8, <1>9, <1>10 DEF u, n

-----------------------------------------------------------------------------
\* A reduction and the taking back of one, at the front of the input: what is
\* behind is a token, the one that caused it, or nothing.
Behind(p, a) == a = <<>> \/ (Len(a) = 1 /\ Tok(p, a[1]))

\* Where the front of the input is in the trail.
LEMMA AtMostOneMore ==
  \A n, m, k \in Nat : k = n + m /\ (m = 0 \/ m = 1) =>
    /\ n + 1 \in 1..(k + 1)
    /\ \A i \in 1..n : i \in 1..k /\ i < n + 1
    /\ \A i \in 1..k : i < n + 1 => i \in 1..n
    /\ m = 1 => n + 1 \in 1..k
    /\ m = 0 => k = n
OBVIOUS

\* The cells of the input are the last of the trail.
LEMMA EndsOne ==
  ASSUME NEW e \in Seq(Ref), NEW n \in Nat, NEW a \in Seq(Ref), Ends(e, n, a), NEW p, Behind(p, a)
  PROVE  /\ DOMAIN e = 1..Len(e) /\ Len(e) \in Nat /\ n + 1 \in 1..(Len(e) + 1)
         /\ \A i \in 1..n : i \in DOMAIN e /\ i < n + 1
         /\ \A i \in DOMAIN e : i < n + 1 => i \in 1..n
         /\ a = <<>> => Len(e) = n /\ ToSet(a) = {} /\ Len(a) = 0
         /\ a # <<>> => /\ Len(e) = n + 1 /\ n + 1 \in DOMAIN e /\ e[n + 1] = a[1]
                        /\ ToSet(a) = {a[1]} /\ Head(a) = a[1] /\ DOMAIN a = {1}
                        /\ a[1] \in Ref /\ Tok(p, a[1]) /\ Len(a) = 1
<1>1. Len(e) = n + Len(a) /\ Len(a) \in Nat /\ Len(e) \in Nat /\ DOMAIN e = 1..Len(e)
  BY DEF Ends
<1>2. \A j \in DOMAIN a : e[n + j] = a[j]
  BY DEF Ends
<1>3. ASSUME a # <<>>
      PROVE  /\ Len(a) = 1 /\ a[1] \in Ref /\ Head(a) = a[1] /\ DOMAIN a = {1} /\ Tok(p, a[1])
             /\ ToSet(a) = {a[1]} /\ e[n + 1] = a[1]
  <2>1. Len(a) = 1 /\ Tok(p, a[1])
    BY <1>3 DEF Behind
  <2>2. DOMAIN a = 1..1 /\ 1..1 = {1} /\ a[1] \in Ref /\ Head(a) = a[1]
    BY <2>1
  <2>3. ToSet(a) = {a[1]} /\ e[n + 1] = a[1]
    BY <1>2, <2>2 DEF ToSet
  <2>4. QED BY <2>1, <2>2, <2>3
<1>4. a = <<>> => Len(a) = 0 /\ ToSet(a) = {}
  BY EmptySet
<1>5. Len(a) = 0 \/ Len(a) = 1
  BY <1>3, <1>4
<1>6. n \in Nat
  OBVIOUS
<1>7. /\ n + 1 \in 1..(Len(e) + 1)
      /\ \A i \in 1..n : i \in 1..Len(e) /\ i < n + 1
      /\ \A i \in 1..Len(e) : i < n + 1 => i \in 1..n
      /\ Len(a) = 1 => n + 1 \in 1..Len(e)
      /\ Len(a) = 0 => Len(e) = n
  BY <1>1, <1>5, <1>6, AtMostOneMore, Zenon
<1>8. QED BY <1>1, <1>3, <1>4, <1>7, Zenon

\* The nodes below the front of the input stay what they are.
Below(p, q, stk, a) ==
  \A x \in Ref : InParse(p, stk, a, x) /\ x \notin ToSet(a) =>
     SameCause(p[x], q[x]) /\ q[x].state = p[x].state

\* The token counts one reduction more.
Counts(p, q, a) ==
  a # <<>> => /\ q[a[1]].id = p[a[1]].id /\ q[a[1]].child = p[a[1]].child
              /\ q[a[1]].retry_upper = p[a[1]].retry_upper
              /\ p[a[1]].cause_reduce \in Nat
              /\ q[a[1]].cause_reduce = p[a[1]].cause_reduce + 1

\* What becomes of the nodes in a reduction: the top of the stack becomes the
\* children of the new node r, which goes in front of the token that causes it.
Reduces(p, q, stk, stk2, a, r) ==
  /\ Behind(p, a) /\ ~InParse(p, stk, a, r) /\ Below(p, q, stk, a) /\ Counts(p, q, a)
  /\ q[r].id \in NonTerm /\ q[r].id \notin Term
  /\ q[r].retry_lower = 0 /\ q[r].retry_region = 0
  /\ q[r].retry_upper # 0 => a # <<>> /\ HasTrans(stack_top_target(q, stk), q[a[1]].id)
  /\ q[r].child \in Seq(Ref) /\ stk = Unfold(q, r, stk2)
  /\ \A x \in Ref : q[x].child = p[x].child \/ ToSet(p[x].child) = {}

\* The cells that are below the front of the input.
LEMMA ShiftedBelow ==
  ASSUME NEW p, NEW stk, NEW a \in Seq(Ref), NEW lv, NEW e \in Seq(Ref), NEW st, NEW n \in Nat,
         TrailOf(p, stk, a, lv, e, st, n), Behind(p, a), NEW i \in 1..n
  PROVE  e[i] \in Ref /\ InParse(p, stk, a, e[i]) /\ e[i] \notin ToSet(a)
<1>1. Ends(e, n, a) /\ IsInjective(e)
  BY DEF TrailOf
<1>2. i \in DOMAIN e /\ i < n + 1
  BY <1>1, EndsOne
<1>3. e[i] \in Ref /\ InParse(p, stk, a, e[i])
  <2>1. e[i] \in Ref
    BY <1>2
  <2>2. QED BY <1>2, <2>1 DEF TrailOf
<1>4. CASE a = <<>>
  <2>1. ToSet(a) = {}
    BY <1>1, <1>4, EndsOne
  <2>2. QED BY <1>3, <2>1
<1>5. CASE a # <<>>
  <2>1. n + 1 \in DOMAIN e /\ e[n + 1] = a[1]
    BY <1>1, <1>5, EndsOne
  <2>2. ToSet(a) = {a[1]}
    BY <1>1, <1>5, EndsOne
  <2>3. i # n + 1
    BY <1>2
  <2>4. e[i] # e[n + 1]
    BY <1>1, <1>2, <2>1, <2>3, Zenon DEF IsInjective
  <2>5. QED BY <1>3, <2>1, <2>2, <2>4
<1>6. QED BY <1>4, <1>5

\* Before the front of the input, which is a token or nothing, was the stack.
LEMMA ShiftedAll ==
  ASSUME NEW p, NEW stk \in Seq(Ref), NEW a \in Seq(Ref), NEW lv, NEW e \in Seq(Ref), NEW st,
         NEW n \in Nat, TrailOf(p, stk, a, lv, e, st, n), Behind(p, a)
  PROVE  st[n] = stk
<1>1. Ends(e, n, a) /\ Causes(p, e) /\ st[n] = Before(p, stk, a)
  BY DEF TrailOf
<1>2. CASE a = <<>>
  BY <1>1, <1>2 DEF Before
<1>3. CASE a # <<>>
  <2>1. n + 1 \in DOMAIN e /\ e[n + 1] = a[1]
    BY <1>1, <1>3, EndsOne
  <2>2. Head(a) = a[1] /\ Tok(p, a[1])
    BY <1>1, <1>3, EndsOne
  <2>3. TokenOK(p, e, n + 1)
    BY <1>1, <2>1, <2>2, Zenon DEF Causes
  <2>4. p[Head(a)].child = <<>>
    BY <2>1, <2>2, <2>3 DEF TokenOK
  <2>5. Before(p, stk, a) = Unfold(p, Head(a), stk)
    BY <1>3, Zenon DEF Before
  <2>6. Unfold(p, Head(a), stk) = stk
    BY <2>4, BeforeToken
  <2>7. QED BY <1>1, <2>5, <2>6
<1>4. QED BY <1>2, <1>3

\* The state that the parser is in when n cells are shifted.
LEMMA StateAtTop ==
  ASSUME NEW q, NEW e, NEW st, NEW n \in Nat, Chain(q, e, st, n), NEW u,
         n # 0 => u[n] = e[n]
  PROVE  StateAt(q, u, n + 1) = stack_top_target(q, st[n])
<1>1. CASE n = 0
  BY <1>1 DEF StateAt, Chain, stack_top_target
<1>2. CASE n # 0
  <2>1. n \in 1..n /\ n + 1 # 1 /\ (n + 1) - 1 = n
    BY <1>2, LastShifted
  <2>2. st[n] # <<>> /\ Head(st[n]) = e[n]
    BY <2>1 DEF Chain
  <2>3. QED BY <1>2, <2>1, <2>2 DEF StateAt, stack_top_target
<1>3. QED BY <1>1, <1>2

\* Arithmetic: where the second cell of the input is.
LEMMA SecondAt == \A n \in Nat : ~(n + 1 < n + 1) /\ (n + 1) + 1 = n + 2 /\ n + 1 > 0 /\ n + 1 \in Nat
OBVIOUS

\* The input has a first cell and one more at most.
LEMMA SecondOnly == \A m \in Nat : \A j \in 1..(m + 1) : j = 1 \/ (m # 0 /\ (m = 1 => j = 2))
OBVIOUS

\* Arithmetic: one cell more.
LEMMA AddOne == \A n, m, k, b \in Nat : k = n + m /\ b = m + 1 => k + 1 = n + b
OBVIOUS

\* A cell in front of the others.
LEMMA ConsEnds ==
  ASSUME NEW e \in Seq(Ref), NEW n \in Nat, NEW a \in Seq(Ref), NEW p, Behind(p, a), Ends(e, n, a),
         NEW r \in Ref, NEW u \in Seq(Ref), Len(u) = Len(e) + 1, u[n + 1] = r,
         Opened(u, e, n + 1)
  PROVE  Ends(u, n, <<r>> \o a)
<1> DEFINE b == <<r>> \o a
<1>1. b \in Seq(Ref) /\ Len(b) = Len(a) + 1 /\ b[1] = r
  BY ConsParts
<1>2. \A j \in DOMAIN a : b[j + 1] = a[j]
  BY ConsParts
<1> HIDE DEF b
<1>3. DOMAIN b = 1..Len(b) /\ Len(b) \in Nat /\ Len(a) \in Nat /\ Len(e) \in Nat /\ n \in Nat
  BY <1>1
<1>4. Len(u) = n + Len(b)
  <2>1. Len(e) = n + Len(a)
    BY DEF Ends
  <2>2. QED BY <1>1, <1>3, <2>1, AddOne
<1>5. ASSUME NEW j \in DOMAIN b PROVE u[n + j] = b[j]
  <2>1. CASE j = 1
    BY <1>1, <2>1
  <2>2. CASE j # 1
    <3>1. Len(a) # 0 /\ (Len(a) = 1 => j = 2)
      BY <1>1, <1>3, <2>2, SecondOnly
    <3>2. a # <<>>
      BY <3>1, EndsOne
    <3>3. Len(a) = 1 /\ n + 1 \in DOMAIN e /\ e[n + 1] = a[1] /\ 1 \in DOMAIN a
      BY <3>2, EndsOne
    <3>4. u[n + 2] = a[1]
      BY <1>3, <3>3, SecondAt DEF Opened
    <3>5. b[1 + 1] = a[1]
      BY <1>2, <3>3, Zenon
    <3>6. j = 2 /\ 1 + 1 = 2
      BY <3>1, <3>3
    <3>7. QED BY <3>4, <3>5, <3>6
  <2>3. QED BY <2>1, <2>2
<1>6. QED BY <1>4, <1>5 DEF Ends, b

\* In a reduction the top of the stack goes behind the new node, ...
LEMMA ReducedInParse ==
  ASSUME NEW p, NEW q, NEW stk \in Seq(Ref), NEW stk2 \in Seq(Ref), NEW a \in Seq(Ref),
         NEW r \in Ref, Reduces(p, q, stk, stk2, a, r)
  PROVE  /\ \A x \in Ref : InParse(p, stk, a, x) => InParse(q, stk2, <<r>> \o a, x)
         /\ InParse(q, stk2, <<r>> \o a, r)
<1> DEFINE c == q[r].child
           b == <<r>> \o a
<1>1. /\ c \in Seq(Ref) /\ stk = Reverse(c) \o stk2
      /\ \A x \in Ref : q[x].child = p[x].child \/ ToSet(p[x].child) = {}
  BY DEF Reduces, Unfold
<1>2. ToSet(b) = {r} \cup ToSet(a)
  BY ConsSet
<1> HIDE DEF b
<1>3. ToSet(stk) = ToSet(c) \cup ToSet(stk2)
  <2>1. Reverse(c) \in Seq(Ref) /\ ToSet(Reverse(c)) = ToSet(c)
    BY <1>1, ReverseSet
  <2>2. ToSet(Reverse(c) \o stk2) = ToSet(Reverse(c)) \cup ToSet(stk2)
    BY <2>1, ConcatSet
  <2>3. QED BY <1>1, <2>1, <2>2
<1>4. ASSUME NEW x \in Ref, InParse(p, stk, a, x) PROVE InParse(q, stk2, b, x)
  <2>1. CASE x \in ToSet(stk)
    <3>1. x \in ToSet(q[r].child) \/ x \in ToSet(stk2)
      BY <1>3, <2>1
    <3>2. QED BY <3>1 DEF InParse
  <2>2. CASE x \in ToSet(a)
    BY <1>2, <2>2 DEF InParse
  <2>3. CASE \E y \in Ref : x \in ToSet(p[y].child)
    <3>1. PICK y \in Ref : x \in ToSet(p[y].child)
      BY <2>3
    <3>2. x \in ToSet(q[y].child)
      BY <1>1, <3>1
    <3>3. QED BY <3>2 DEF InParse
  <2>4. QED BY <1>4, <2>1, <2>2, <2>3 DEF InParse
<1>5. InParse(q, stk2, b, r)
  BY <1>2 DEF InParse
<1>6. QED BY <1>4, <1>5 DEF b

\* ... and the causes go on explaining what there is.
LEMMA ReducedCauses ==
  ASSUME NEW p, NEW q, NEW stk \in Seq(Ref), NEW stk2 \in Seq(Ref), NEW a \in Seq(Ref),
         NEW r \in Ref, Reduces(p, q, stk, stk2, a, r), NEW lv,
         NEW e \in Seq(Ref), NEW st, NEW n \in Nat, TrailOf(p, stk, a, lv, e, st, n),
         NEW u \in Seq(Ref), u = Inserted(e, n + 1, r), Len(u) = Len(e) + 1, u[n + 1] = r,
         Opened(u, e, n + 1)
  PROVE  Causes(q, u) /\ Chain(q, u, st, n)
<1> DEFINE k == n + 1
<1>1. Behind(p, a) /\ Below(p, q, stk, a) /\ Counts(p, q, a)
  BY DEF Reduces
<1>2. Ends(e, n, a) /\ Chain(p, e, st, n) /\ Causes(p, e)
  BY DEF TrailOf
<1>3. ASSUME NEW i \in 1..n
      PROVE  i \in DOMAIN e /\ u[i] = e[i] /\ SameCause(p[e[i]], q[e[i]])
             /\ q[e[i]].state = p[e[i]].state
  <2>1. i \in DOMAIN e /\ i < n + 1
    BY <1>1, <1>2, EndsOne
  <2>2. u[i] = e[i]
    BY <2>1 DEF Opened
  <2>3. e[i] \in Ref /\ InParse(p, stk, a, e[i]) /\ e[i] \notin ToSet(a)
    BY <1>1, ShiftedBelow
  <2>4. QED BY <1>1, <2>1, <2>2, <2>3 DEF Below
<1>4. Chain(q, u, st, n)
  <2>1. \A i \in 1..n : u[i] = e[i] /\ q[e[i]].child = p[e[i]].child
    BY <1>3 DEF SameCause
  <2>2. Chain(p, e, st, n)
    BY <1>2
  <2> HIDE DEF k
  <2>3. QED BY <2>1, <2>2 DEF Chain, Unfold
<1>5. StateAt(q, u, k) = stack_top_target(q, stk)
  <2>1. st[n] = stk
    BY <1>1, ShiftedAll
  <2>2. Chain(q, u, st, n)
    BY <1>4
  <2>3. StateAt(q, u, n + 1) = stack_top_target(q, st[n])
    BY <2>2, StateAtTop
  <2>4. QED BY <2>1, <2>3
<1>6. /\ k \in Nat /\ k > 0
      /\ a = <<>> => k = Len(e) + 1 /\ k # Len(e)
      /\ a # <<>> => k = Len(e) /\ k \in DOMAIN e /\ e[k] = a[1] /\ Tok(p, a[1])
  <2>1. k \in Nat /\ k > 0
    BY SecondAt
  <2>2. a = <<>> => Len(e) = n
    BY <1>1, <1>2, EndsOne
  <2>3. a # <<>> => k = Len(e) /\ k \in DOMAIN e /\ e[k] = a[1] /\ Tok(p, a[1])
    BY <1>1, <1>2, EndsOne
  <2>4. n + 1 # n
    OBVIOUS
  <2>5. QED BY <2>1, <2>2, <2>3, <2>4
<1>7. \A i \in DOMAIN e : i < k => i \in 1..n
  BY <1>1, <1>2, EndsOne
<1>8. \A i \in DOMAIN e : i < k => SameCause(p[e[i]], q[e[i]])
  BY <1>3, <1>7
<1>9. \A i \in DOMAIN e : i < k /\ i > 1 /\ ~Tok(p, e[i]) => q[e[i - 1]].state = p[e[i - 1]].state
  <2>1. \A m \in Nat : \A i \in 1..m : i > 1 => i - 1 \in 1..m
    OBVIOUS
  <2>2. n \in Nat
    OBVIOUS
  <2>3. \A i \in DOMAIN e : i < k /\ i > 1 => i - 1 \in 1..n
    BY <1>7, <2>1, <2>2, Zenon
  <2>4. QED BY <1>3, <2>3
<1>10. q[r].retry_upper # 0 => k = Len(e) /\ HasTrans(StateAt(q, u, k), q[e[k]].id)
  <2>1. q[r].retry_upper # 0 => a # <<>> /\ HasTrans(stack_top_target(q, stk), q[a[1]].id)
    BY DEF Reduces
  <2>2. QED BY <1>5, <1>6, <2>1, Zenon
<1>11. k = Len(e) => /\ Tok(p, e[k]) /\ q[e[k]].id = p[e[k]].id
                     /\ q[e[k]].child = p[e[k]].child
                     /\ q[e[k]].retry_upper = p[e[k]].retry_upper
                     /\ p[e[k]].cause_reduce \in Nat
                     /\ q[e[k]].cause_reduce = p[e[k]].cause_reduce + 1
  <2>1. k = Len(e) => e[k] = a[1] /\ a # <<>> /\ Tok(p, a[1])
    BY <1>6
  <2>2. QED BY <1>1, <2>1 DEF Counts
<1>12. /\ q[r].id \in NonTerm /\ q[r].id \notin Term
       /\ q[r].retry_lower = 0 /\ q[r].retry_region = 0
  BY DEF Reduces
<1>13. (k = Len(e) \/ k = Len(e) + 1) /\ Len(u) = Len(e) + 1 /\ u[k] = r /\ Opened(u, e, k)
  BY <1>6
<1> HIDE DEF k
<1>14. CausedAt(p, q, e, u, k, r)
  BY <1>8, <1>9, <1>10, <1>11, <1>12, <1>13 DEF CausedAt
<1>15. Causes(q, u)
  BY <1>2, <1>6, <1>14, CausesInsert
<1>16. QED BY <1>4, <1>15

\* A reduction enters the trail in front of the input.
LEMMA TrailInsert ==
  ASSUME NEW p, NEW q, NEW stk \in Seq(Ref), NEW stk2 \in Seq(Ref), NEW a \in Seq(Ref),
         NEW lv, NEW lv2, NEW r \in Ref, Trail(p, stk, a, lv), Reduces(p, q, stk, stk2, a, r),
         \A x \in lv2 : \/ x = r \/ x \in ToSet(a) \/ ~Untried(q[x])
                        \/ x \in lv /\ (Untried(q[x]) => Untried(p[x]))
  PROVE  Trail(q, stk2, <<r>> \o a, lv2)
<1>1. PICK e \in Seq(Ref), st \in [Nat -> Seq(Ref)], n \in Nat : TrailOf(p, stk, a, lv, e, st, n)
  BY DEF Trail
<1>2. Behind(p, a) /\ ~InParse(p, stk, a, r) /\ stk = Unfold(q, r, stk2)
  BY DEF Reduces
<1>3. /\ Ends(e, n, a) /\ IsInjective(e)
      /\ \A i \in DOMAIN e : InParse(p, stk, a, e[i])
      /\ \A x \in lv : x \notin ToSet(e) => ~Untried(p[x])
  BY <1>1 DEF TrailOf
<1> DEFINE k == n + 1
           u == Inserted(e, k, r)
           b == <<r>> \o a
<1>4. k \in 1..(Len(e) + 1) /\ ToSet(a) \subseteq ToSet(e)
  <2>1. n + 1 \in 1..(Len(e) + 1)
    BY <1>2, <1>3, EndsOne
  <2>2. ToSet(a) \subseteq ToSet(e)
    BY <1>3, EndsAt
  <2>3. QED BY <2>1, <2>2
<1>5. r \notin ToSet(e)
  <2>1. \A i \in DOMAIN e : e[i] # r
    BY <1>2, <1>3
  <2>2. QED BY <2>1, Zenon DEF ToSet
<1>6. /\ u \in Seq(Ref) /\ Len(u) = Len(e) + 1 /\ u[k] = r
      /\ Opened(u, e, k)
      /\ \A i \in DOMAIN u : i = k \/ \E j \in DOMAIN e : u[i] = e[j]
      /\ IsInjective(u)
      /\ \A y \in ToSet(e) \cup {r} : y \in ToSet(u)
  <2> HIDE DEF k
  <2>1. QED BY <1>3, <1>4, <1>5, InsertedParts DEF Opened
<1>7. Causes(q, u) /\ Chain(q, u, st, n)
  <2>1. u = Inserted(e, n + 1, r)
    OBVIOUS
  <2> HIDE DEF u
  <2>2. QED BY <1>1, <1>6, <2>1, ReducedCauses
<1> HIDE DEF u
<1>8. Ends(u, n, b)
  BY <1>2, <1>3, <1>6, ConsEnds
<1>9. st[n] = Before(q, stk2, b)
  <2>1. st[n] = stk
    BY <1>1, <1>2, ShiftedAll
  <2>2. b # <<>> /\ Head(b) = r
    BY ConsParts
  <2>3. QED BY <1>2, <2>1, <2>2 DEF Before
<1>10. ASSUME NEW i \in DOMAIN u PROVE InParse(q, stk2, b, u[i])
  <2>1. CASE i = k
    BY <1>6, <2>1, ReducedInParse
  <2>2. CASE i # k
    <3>1. PICK j \in DOMAIN e : u[i] = e[j]
      BY <1>6, <2>2
    <3>2. e[j] \in Ref
      OBVIOUS
    <3>3. InParse(p, stk, a, e[j])
      BY <1>3
    <3>4. QED BY <3>1, <3>2, <3>3, ReducedInParse
  <2>3. QED BY <2>1, <2>2
<1>11. ASSUME NEW x \in lv2, x \notin ToSet(u) PROVE ~Untried(q[x])
  <2>1. x \notin ToSet(e) /\ x # r /\ x \notin ToSet(a)
    BY <1>4, <1>6, <1>11
  <2>2. QED BY <1>3, <2>1
<1> HIDE DEF b
<1>12. TrailOf(q, stk2, b, lv2, u, st, n)
  BY <1>6, <1>7, <1>8, <1>9, <1>10, <1>11 DEF TrailOf
<1>13. QED BY <1>6, <1>12 DEF Trail, b

-----------------------------------------------------------------------------
\* What becomes of the nodes when a reduction is taken back: the children of the
\* front of the input are on the stack again, the token behind counts one less.
Uncounts(p, q, b) ==
  b # <<>> => /\ q[b[1]].id = p[b[1]].id /\ q[b[1]].child = p[b[1]].child
              /\ q[b[1]].retry_upper = p[b[1]].retry_upper
              /\ p[b[1]].cause_reduce \in Nat
              /\ q[b[1]].cause_reduce = p[b[1]].cause_reduce - 1
Unreduces(p, q, stk, stk2, a) ==
  /\ a # <<>> /\ ~Tok(p, a[1]) /\ Behind(p, Tail(a)) /\ p[a[1]].child \in Seq(Ref)
  /\ Below(p, q, stk, a) /\ Uncounts(p, q, Tail(a))
  /\ stk2 = Unfold(p, a[1], stk)
  /\ \A x \in Ref : x # a[1] => q[x].child = p[x].child

\* Arithmetic: the input is one cell, ...
LEMMA OneMore ==
  \A n \in Nat : \A k \in Nat : k = n + 1 =>
    /\ n + 1 \in 1..k /\ n + 1 \in Nat
    /\ \A i \in 1..n : i \in 1..k /\ i < n + 1 /\ i \in Nat /\ i # n + 1
    /\ \A i \in 1..k : i < n + 1 => i \in 1..n
    /\ (n + 1) + 1 # k /\ k - 1 = n + 0
OBVIOUS

\* ... or two.
LEMMA TwoMore ==
  \A n \in Nat : \A k \in Nat : k = n + 2 =>
    /\ n + 1 \in 1..k /\ n + 1 \in Nat
    /\ \A i \in 1..n : i \in 1..k /\ i < n + 1 /\ i \in Nat /\ i # n + 1
    /\ \A i \in 1..k : i < n + 1 => i \in 1..n
    /\ n + 2 \in 1..k /\ n + 2 > n + 1 /\ (n + 2) - 1 = n + 1 /\ (n + 1) + 1 = n + 2
    /\ n + 2 # n + 1 /\ (n + 1) + 1 = k
    /\ k - 1 = n + 1
OBVIOUS

\* Where the cells of an input are in the trail when a reduction is in front.
LEMMA EndsTwo ==
  ASSUME NEW e \in Seq(Ref), NEW n \in Nat, NEW a \in Seq(Ref), Ends(e, n, a), a # <<>>,
         NEW p, Behind(p, Tail(a))
  PROVE  LET b == Tail(a)
         IN /\ DOMAIN e = 1..Len(e) /\ Len(e) \in Nat /\ b \in Seq(Ref) /\ a[1] \in Ref
            /\ n + 1 \in DOMAIN e /\ n + 1 \in Nat /\ e[n + 1] = a[1] /\ ToSet(a) = {a[1]} \cup ToSet(b)
            /\ \A i \in 1..n : i \in DOMAIN e /\ i < n + 1 /\ i # n + 1
            /\ \A i \in DOMAIN e : i < n + 1 => i \in 1..n
            /\ b = <<>> => ToSet(b) = {} /\ n + 1 = Len(e) /\ (n + 1) + 1 # Len(e)
            /\ b # <<>> => /\ (n + 1) + 1 = Len(e) /\ n + 2 \in DOMAIN e /\ n + 2 > n + 1
                           /\ n + 2 = (n + 1) + 1 /\ (n + 2) - 1 = n + 1 /\ n + 2 # n + 1
                           /\ e[n + 2] = b[1] /\ ToSet(b) = {b[1]} /\ DOMAIN b = {1}
                           /\ b[1] \in Ref /\ Tok(p, b[1]) /\ Head(b) = b[1]
            /\ Len(e) - 1 = n + Len(b)
<1> DEFINE b == Tail(a)
<1>1. /\ b \in Seq(Ref) /\ Len(b) \in Nat /\ Len(a) = Len(b) + 1 /\ a[1] \in Ref
      /\ Head(a) = a[1] /\ \A j \in DOMAIN b : j + 1 \in DOMAIN a /\ b[j] = a[j + 1]
  BY TailParts
<1>2. ToSet(a) = {a[1]} \cup ToSet(b)
  BY <1>1, HeadSet
<1>3. /\ Len(e) = n + Len(a) /\ Len(e) \in Nat /\ DOMAIN e = 1..Len(e) /\ Len(a) \in Nat
      /\ \A j \in DOMAIN a : e[n + j] = a[j]
  BY DEF Ends
<1>4. Behind(p, b)
  OBVIOUS
<1> HIDE DEF b
<1>5. b = <<>> => Len(b) = 0 /\ ToSet(b) = {}
  BY EmptySet
<1>6. ASSUME b # <<>>
      PROVE  Len(b) = 1 /\ Tok(p, b[1]) /\ DOMAIN b = {1} /\ b[1] \in Ref
             /\ ToSet(b) = {b[1]} /\ Head(b) = b[1]
  <2>1. Len(b) = 1 /\ Tok(p, b[1])
    BY <1>4, <1>6 DEF Behind
  <2>2. DOMAIN b = 1..1 /\ 1..1 = {1} /\ b[1] \in Ref /\ Head(b) = b[1]
    BY <1>1, <2>1
  <2>3. ToSet(b) = {b[1]}
    BY <2>2 DEF ToSet
  <2>4. QED BY <2>1, <2>2, <2>3
<1>7. Len(b) = 0 \/ Len(b) = 1
  BY <1>5, <1>6
<1>8. /\ n + 1 \in 1..Len(e) /\ n + 1 \in Nat
      /\ \A i \in 1..n : i \in 1..Len(e) /\ i < n + 1 /\ i \in Nat /\ i # n + 1
      /\ \A i \in 1..Len(e) : i < n + 1 => i \in 1..n
      /\ Len(b) = 1 => /\ n + 2 \in 1..Len(e) /\ n + 2 > n + 1 /\ (n + 2) - 1 = n + 1
                       /\ (n + 1) + 1 = n + 2
                       /\ n + 2 # n + 1 /\ (n + 1) + 1 = Len(e)
      /\ Len(b) = 0 => n + 1 = Len(e) /\ (n + 1) + 1 # Len(e)
      /\ Len(e) - 1 = n + Len(b)
  <2>1. n \in Nat /\ Len(e) \in Nat /\ 0 # 1
    BY <1>3
  <2>2. CASE Len(b) = 0
    <3>1. Len(e) = n + 1
      BY <1>1, <1>3, <2>2
    <3>2. QED BY <2>1, <2>2, <3>1, OneMore, Zenon
  <2>3. CASE Len(b) = 1
    <3>1. Len(e) = n + 2
      BY <1>1, <1>3, <2>3
    <3>2. QED BY <2>1, <2>3, <3>1, TwoMore, Zenon
  <2>4. QED BY <1>7, <2>2, <2>3
<1>9. e[n + 1] = a[1]
  <2>1. 1 \in DOMAIN a
    BY <1>1
  <2>2. QED BY <1>3, <2>1, Zenon
<1>10. b # <<>> => e[n + 2] = b[1]
  <2>1. b # <<>> => 1 \in DOMAIN b
    BY <1>6
  <2>2. b # <<>> => 1 + 1 \in DOMAIN a /\ b[1] = a[1 + 1]
    BY <1>1, <2>1, Zenon
  <2>3. 1 + 1 = 2
    OBVIOUS
  <2>4. QED BY <1>3, <2>2, <2>3, Zenon
<1>11. QED BY <1>1, <1>2, <1>3, <1>5, <1>6, <1>8, <1>9, <1>10, Zenon DEF b

\* Behind the front of the input is the token that caused it.
WithToken(p, a, b) == a # <<>> /\ b = Tail(a) /\ b # <<>> /\ Behind(p, b)

\* The end of the trail when there is such a token, ...
LEMMA EndsTwoToken ==
  ASSUME NEW e \in Seq(Ref), NEW n \in Nat, NEW a \in Seq(Ref), Ends(e, n, a),
         NEW p, NEW b, WithToken(p, a, b)
  PROVE  /\ (n + 1) + 1 = Len(e) /\ n + 2 \in DOMAIN e /\ n + 2 > n + 1
         /\ n + 2 = (n + 1) + 1 /\ (n + 2) - 1 = n + 1 /\ n + 2 # n + 1
         /\ e[n + 2] = b[1] /\ ToSet(b) = {b[1]} /\ DOMAIN b = {1}
         /\ b[1] \in Ref /\ Tok(p, b[1]) /\ Head(b) = b[1]
BY EndsTwo, SMTT(60) DEF WithToken

\* ... and when there is none.
LEMMA EndsTwoNone ==
  ASSUME NEW e \in Seq(Ref), NEW n \in Nat, NEW a \in Seq(Ref), Ends(e, n, a), a # <<>>,
         NEW p, NEW b, b = Tail(a), Behind(p, b), b = <<>>
  PROVE  ToSet(b) = {} /\ n + 1 = Len(e) /\ (n + 1) + 1 # Len(e) /\ Len(b) = 0
<1>1. ToSet(b) = {} /\ n + 1 = Len(e) /\ (n + 1) + 1 # Len(e)
  BY EndsTwo, SMTT(60)
<1>2. Len(b) = 0
  <2>1. Len(<<>>) = 0
    OBVIOUS
  <2>2. QED BY <2>1, Zenon
<1>3. QED BY <1>1, <1>2

\* Where the cell at k has left e.
Closed(u, e, k) ==
  /\ \A i \in DOMAIN e : i < k => u[i] = e[i]
  /\ \A i \in DOMAIN e : i > k => u[i - 1] = e[i]

\* A reduction is in front of the input.
ReducedFront(p, a) == a # <<>> /\ Behind(p, Tail(a))

\* Where it is in the trail.
LEMMA EndsFront ==
  ASSUME NEW e \in Seq(Ref), NEW n \in Nat, NEW a \in Seq(Ref), Ends(e, n, a),
         NEW p, ReducedFront(p, a)
  PROVE  /\ n + 1 \in DOMAIN e /\ e[n + 1] = a[1] /\ Tail(a) \in Seq(Ref)
         /\ ToSet(a) = {a[1]} \cup ToSet(Tail(a))
BY EndsTwo DEF ReducedFront

\* The cells that are below a reduction in front of the input.
LEMMA UnreducedBelow ==
  ASSUME NEW p, NEW stk, NEW a \in Seq(Ref), NEW lv, NEW e \in Seq(Ref), NEW st, NEW n \in Nat,
         TrailOf(p, stk, a, lv, e, st, n), ReducedFront(p, a), NEW i \in 1..n
  PROVE  i \in DOMAIN e /\ e[i] \in Ref /\ InParse(p, stk, a, e[i]) /\ e[i] \notin ToSet(a)
<1> DEFINE b == Tail(a)
<1>1. Ends(e, n, a) /\ IsInjective(e) /\ Behind(p, b) /\ a # <<>>
  BY DEF TrailOf, ReducedFront
<1>01. Ends(e, n, a) /\ IsInjective(e)
  BY DEF TrailOf
<1>2. i \in DOMAIN e /\ i < n + 1 /\ i # n + 1
  BY <1>1, EndsTwo
<1>3. e[i] \in Ref
  BY <1>2
<1>4. InParse(p, stk, a, e[i])
  BY <1>2 DEF TrailOf
<1>5. n + 1 \in DOMAIN e /\ e[n + 1] = a[1] /\ ToSet(a) = {a[1]} \cup ToSet(b)
  BY <1>1, EndsTwo
<1>6. e[i] # a[1]
  BY <1>1, <1>2, <1>5 DEF IsInjective
<1>7. e[i] \notin ToSet(b)
  <2>1. CASE b = <<>>
    <3>1. ToSet(b) = {}
      BY <1>1, <2>1, EndsTwo
    <3>2. QED BY <3>1
  <2>2. CASE b # <<>>
    <3>1. n + 2 \in DOMAIN e /\ n + 2 > n + 1 /\ e[n + 2] = b[1] /\ ToSet(b) = {b[1]}
      <4>1. WithToken(p, a, b)
        BY <1>1, <2>2 DEF WithToken
      <4> HIDE DEF b
      <4>2. QED BY <1>01, <4>1, EndsTwoToken
    <3>2. i # n + 2
      BY <1>2, <3>1
    <3>3. e[i] # e[n + 2]
      BY <1>1, <1>2, <3>1, <3>2, Zenon DEF IsInjective
    <3>4. QED BY <3>1, <3>3
  <2>3. QED BY <2>1, <2>2
<1>8. QED BY <1>2, <1>3, <1>4, <1>5, <1>6, <1>7

\* What is left when a reduction is taken out of the trail.
LEMMA UnreducedCauses ==
  ASSUME NEW p, NEW q, NEW stk \in Seq(Ref), NEW stk2, NEW a \in Seq(Ref),
         Unreduces(p, q, stk, stk2, a), NEW lv,
         NEW e \in Seq(Ref), NEW st, NEW n \in Nat, TrailOf(p, stk, a, lv, e, st, n),
         NEW u \in Seq(Ref), Len(u) = Len(e) - 1, Closed(u, e, n + 1)
  PROVE  Causes(q, u) /\ Chain(q, u, st, n) /\ Ends(u, n, Tail(a))
<1> DEFINE k == n + 1
           b == Tail(a)
<1>1. /\ a # <<>> /\ ~Tok(p, a[1]) /\ Behind(p, b) /\ Below(p, q, stk, a)
      /\ Uncounts(p, q, b)
  BY DEF Unreduces
<1>2. Ends(e, n, a) /\ Chain(p, e, st, n) /\ Causes(p, e)
  BY DEF TrailOf
<1>3. ASSUME NEW i \in 1..n
      PROVE  i \in DOMAIN e /\ u[i] = e[i] /\ SameCause(p[e[i]], q[e[i]])
             /\ q[e[i]].state = p[e[i]].state
  <2>1. i \in DOMAIN e /\ i < n + 1
    BY <1>1, <1>2, EndsTwo
  <2>2. u[i] = e[i]
    BY <2>1 DEF Closed
  <2>3. e[i] \in Ref /\ InParse(p, stk, a, e[i]) /\ e[i] \notin ToSet(a)
    <3>1. ReducedFront(p, a)
      BY <1>1 DEF ReducedFront
    <3>2. QED BY <3>1, UnreducedBelow
  <2>4. QED BY <1>1, <2>1, <2>2, <2>3 DEF Below
<1>4. Chain(q, u, st, n)
  <2>1. \A i \in 1..n : u[i] = e[i] /\ q[e[i]].child = p[e[i]].child
    BY <1>3 DEF SameCause
  <2>2. Chain(p, e, st, n)
    BY <1>2
  <2> HIDE DEF k, b
  <2>3. QED BY <2>1, <2>2 DEF Chain, Unfold
<1>5. /\ b \in Seq(Ref) /\ k \in DOMAIN e /\ k \in Nat /\ e[k] = a[1]
      /\ \A i \in DOMAIN e : i < k => i \in 1..n
      /\ Len(e) - 1 = n + Len(b)
  BY <1>1, <1>2, EndsTwo
<1>6. b = <<>> => k = Len(e) /\ k + 1 # Len(e) /\ Len(b) = 0
  BY <1>1, <1>2, EndsTwoNone
<1>7. b # <<>> => /\ k + 1 = Len(e) /\ k + 1 \in DOMAIN e /\ e[k + 1] = b[1] /\ Tok(p, b[1])
                  /\ k + 1 > k /\ (k + 1) - 1 = k /\ DOMAIN b = {1}
  <2>1. ASSUME b # <<>>
        PROVE  /\ k + 1 = Len(e) /\ n + 2 \in DOMAIN e /\ e[n + 2] = b[1] /\ Tok(p, b[1])
               /\ n + 2 > k /\ (n + 2) - 1 = k /\ n + 2 = k + 1 /\ DOMAIN b = {1}
    <3>1. WithToken(p, a, b)
      BY <1>1, <2>1 DEF WithToken
    <3> HIDE DEF b
    <3>2. n + 2 = k + 1
      OBVIOUS
    <3>3. /\ (n + 1) + 1 = Len(e) /\ n + 2 \in DOMAIN e /\ e[n + 2] = b[1] /\ Tok(p, b[1])
          /\ n + 2 > n + 1 /\ (n + 2) - 1 = n + 1 /\ DOMAIN b = {1}
      BY <1>2, <3>1, EndsTwoToken
    <3>4. QED BY <3>2, <3>3
  <2> HIDE DEF k, b
  <2>2. QED BY <2>1
<1>8. b # <<>> => u[k] = b[1]
  BY <1>7 DEF Closed
<1>9. Ends(u, n, b)
  <2>1. Len(u) = n + Len(b)
    BY <1>5
  <2>2. \A j \in DOMAIN b : u[n + j] = b[j]
    <3>1. CASE b = <<>>
      BY <3>1
    <3>2. CASE b # <<>>
      BY <1>7, <1>8, <3>2
    <3>3. QED BY <3>1, <3>2
  <2>3. QED BY <2>1, <2>2 DEF Ends
<1>10. \A i \in DOMAIN e : i < k => u[i] = e[i] /\ SameCause(p[e[i]], q[e[i]])
  BY <1>3, <1>5
<1>11. \A i \in DOMAIN e : i < k /\ i > 1 /\ ~Tok(p, e[i]) => q[e[i - 1]].state = p[e[i - 1]].state
  <2>1. \A m \in Nat : \A i \in 1..m : i > 1 => i - 1 \in 1..m
    OBVIOUS
  <2>2. n \in Nat
    OBVIOUS
  <2>3. \A i \in DOMAIN e : i < k /\ i > 1 => i - 1 \in 1..n
    BY <1>5, <2>1, <2>2, Zenon
  <2>4. QED BY <1>3, <2>3
<1>12. k + 1 = Len(e) =>
         /\ u[k] = e[k + 1]
         /\ Tok(p, e[k + 1]) /\ q[e[k + 1]].id = p[e[k + 1]].id
         /\ q[e[k + 1]].child = p[e[k + 1]].child
         /\ q[e[k + 1]].retry_upper = p[e[k + 1]].retry_upper
         /\ p[e[k + 1]].cause_reduce \in Nat
         /\ q[e[k + 1]].cause_reduce = p[e[k + 1]].cause_reduce - 1
  <2>1. k + 1 = Len(e) => b # <<>> /\ e[k + 1] = b[1]
    BY <1>6, <1>7
  <2>2. QED BY <1>1, <1>7, <1>8, <2>1 DEF Uncounts
<1>13. (k = Len(e) \/ k + 1 = Len(e)) /\ ~Tok(p, e[k]) /\ Len(u) = Len(e) - 1
  BY <1>1, <1>5, <1>6, <1>7
<1> HIDE DEF k, b
<1>14. Uncaused(p, q, e, u, k)
  BY <1>10, <1>11, <1>12, <1>13 DEF Uncaused
<1>15. Causes(q, u)
  BY <1>2, <1>5, <1>14, CausesRemove
<1>16. QED BY <1>4, <1>9, <1>15 DEF b

\* The nodes of the input and of the stack when the reduction is taken back.
LEMMA UnreducedInParse ==
  ASSUME NEW p, NEW q, NEW stk \in Seq(Ref), NEW stk2 \in Seq(Ref), NEW a \in Seq(Ref),
         Unreduces(p, q, stk, stk2, a), NEW x \in Ref, InParse(p, stk, a, x), x # a[1]
  PROVE  InParse(q, stk2, Tail(a), x)
<1> DEFINE c == p[a[1]].child
           b == Tail(a)
<1>1. /\ a # <<>> /\ c \in Seq(Ref) /\ stk2 = Reverse(c) \o stk
      /\ \A y \in Ref : y # a[1] => q[y].child = p[y].child
  BY DEF Unreduces, Unfold
<1>2. ToSet(a) = {a[1]} \cup ToSet(b)
  <2>1. Head(a) = a[1]
    BY <1>1
  <2>2. QED BY <1>1, <2>1, HeadSet
<1> HIDE DEF b
<1>3. ToSet(stk2) = ToSet(c) \cup ToSet(stk)
  <2>1. Reverse(c) \in Seq(Ref) /\ ToSet(Reverse(c)) = ToSet(c)
    BY <1>1, ReverseSet
  <2>2. ToSet(Reverse(c) \o stk) = ToSet(Reverse(c)) \cup ToSet(stk)
    BY <2>1, ConcatSet
  <2>3. QED BY <1>1, <2>1, <2>2
<1>4. InParse(q, stk2, b, x)
  <2>1. CASE x \in ToSet(stk) \/ x \in ToSet(c)
    BY <1>3, <2>1 DEF InParse
  <2>2. CASE x \in ToSet(a)
    BY <1>2, <2>2 DEF InParse
  <2>3. CASE \E y \in Ref : x \in ToSet(p[y].child)
    <3>1. PICK y \in Ref : x \in ToSet(p[y].child)
      BY <2>3
    <3>2. CASE y = a[1]
      BY <2>1, <3>1, <3>2
    <3>3. CASE y # a[1]
      <4>1. x \in ToSet(q[y].child)
        BY <1>1, <3>1, <3>3
      <4>2. QED BY <4>1 DEF InParse
    <3>4. QED BY <3>2, <3>3
  <2>4. QED BY <2>1, <2>2, <2>3 DEF InParse
<1>5. QED BY <1>4 DEF b

\* A reduction at the front of the input leaves the trail.
LEMMA TrailRemove ==
  ASSUME NEW p, NEW q, NEW stk \in Seq(Ref), NEW stk2 \in Seq(Ref), NEW a \in Seq(Ref),
         NEW lv, NEW lv2, Trail(p, stk, a, lv), Unreduces(p, q, stk, stk2, a),
         \A x \in lv2 : \/ x \in ToSet(Tail(a)) \/ ~Untried(q[x])
                        \/ x # a[1] /\ x \in lv /\ (Untried(q[x]) => Untried(p[x]))
  PROVE  Trail(q, stk2, Tail(a), lv2)
<1>1. PICK e \in Seq(Ref), st \in [Nat -> Seq(Ref)], n \in Nat : TrailOf(p, stk, a, lv, e, st, n)
  BY DEF Trail
<1>2. a # <<>> /\ Behind(p, Tail(a)) /\ stk2 = Unfold(p, a[1], stk)
  BY DEF Unreduces
<1>3. /\ Ends(e, n, a) /\ IsInjective(e) /\ st[n] = Before(p, stk, a)
      /\ \A i \in DOMAIN e : InParse(p, stk, a, e[i])
      /\ \A x \in lv : x \notin ToSet(e) => ~Untried(p[x])
  BY <1>1 DEF TrailOf
<1>03. Ends(e, n, a)
  BY <1>3
<1> DEFINE k == n + 1
           u == Removed(e, k)
           b == Tail(a)
<1>04. /\ n + 1 \in DOMAIN e /\ e[n + 1] = a[1] /\ Tail(a) \in Seq(Ref)
       /\ ToSet(a) = {a[1]} \cup ToSet(Tail(a))
  <2>1. ReducedFront(p, a)
    BY <1>2 DEF ReducedFront
  <2>2. QED BY <1>03, <2>1, EndsFront
<1>4. k \in DOMAIN e /\ e[k] = a[1] /\ b \in Seq(Ref)
  BY <1>04, Zenon
<1>5. ToSet(b) \subseteq ToSet(e)
  <2>1. ToSet(a) \subseteq ToSet(e)
    BY <1>3, EndsAt
  <2>2. ToSet(a) = {a[1]} \cup ToSet(b)
    BY <1>04, Zenon
  <2>3. QED BY <2>1, <2>2
<1>6. /\ u \in Seq(Ref) /\ Len(u) = Len(e) - 1 /\ Closed(u, e, k)
      /\ \A i \in DOMAIN u : \E j \in DOMAIN e : u[i] = e[j] /\ j # k
      /\ IsInjective(u)
      /\ \A y \in ToSet(e) : y = e[k] \/ y \in ToSet(u)
  <2> HIDE DEF k
  <2>1. QED BY <1>3, <1>4, RemovedParts, ZenonT(60) DEF Closed
<1> HIDE DEF u
<1>7. Causes(q, u) /\ Chain(q, u, st, n) /\ Ends(u, n, b)
  BY <1>1, <1>6, UnreducedCauses
<1>8. st[n] = Before(q, stk2, b)
  <2>1. st[n] = stk2
    <3>1. Head(a) = a[1]
      BY <1>2
    <3>2. QED BY <1>2, <1>3, <3>1 DEF Before
  <2>2. CASE b = <<>>
    BY <2>1, <2>2 DEF Before
  <2>3. CASE b # <<>>
    <3>1. n + 2 \in DOMAIN e /\ e[n + 2] = b[1] /\ Tok(p, b[1]) /\ Head(b) = b[1]
      <4>1. WithToken(p, a, b)
        BY <1>2, <2>3 DEF WithToken
      <4> HIDE DEF b
      <4>2. QED BY <1>03, <4>1, EndsTwoToken
    <3>2. Causes(p, e)
      BY <1>1 DEF TrailOf
    <3>3. TokenOK(p, e, n + 2)
      BY <3>1, <3>2, Zenon DEF Causes
    <3>4. p[b[1]].child = <<>>
      BY <3>1, <3>3 DEF TokenOK
    <3>5. q[Head(b)].child = <<>>
      <4>1. Uncounts(p, q, b)
        BY DEF Unreduces
      <4>2. QED BY <2>3, <3>1, <3>4, <4>1 DEF Uncounts
    <3>6. Unfold(q, Head(b), stk2) = stk2
      BY <3>5, BeforeToken
    <3>7. QED BY <2>1, <2>3, <3>6 DEF Before
  <2>4. QED BY <2>2, <2>3
<1>9. ASSUME NEW i \in DOMAIN u PROVE InParse(q, stk2, b, u[i])
  <2>1. PICK j \in DOMAIN e : u[i] = e[j] /\ j # k
    BY <1>6
  <2>2. e[j] \in Ref /\ e[j] # a[1]
    <3>1. e[j] # e[k]
      BY <1>3, <1>4, <2>1, Zenon DEF IsInjective
    <3>2. e[j] \in Ref
      OBVIOUS
    <3>3. QED BY <1>4, <3>1, <3>2
  <2>3. InParse(p, stk, a, e[j])
    BY <1>3
  <2>4. QED BY <2>1, <2>2, <2>3, UnreducedInParse
<1>10. ASSUME NEW x \in lv2, x \notin ToSet(u) PROVE ~Untried(q[x])
  <2>1. x = e[k] \/ x \notin ToSet(e)
    BY <1>6, <1>10
  <2>2. CASE x \in ToSet(b)
    <3>1. \E i \in DOMAIN u : u[i] = x
      <4>1. x \in ToSet(e)
        BY <1>5, <2>2
      <4>2. CASE b = <<>>
        BY <2>2, <4>2, EmptySet
      <4>3. CASE b # <<>>
        <5>1. ToSet(b) = {b[1]} /\ 1 \in DOMAIN b
          <6>1. WithToken(p, a, b)
            BY <1>2, <4>3 DEF WithToken
          <6> HIDE DEF b
          <6>2. ToSet(b) = {b[1]} /\ DOMAIN b = {1}
            BY <1>03, <6>1, EndsTwoToken
          <6>3. QED BY <6>2
        <5>2. n + 1 \in DOMAIN u /\ u[n + 1] = b[1]
          <6>1. Ends(u, n, b) /\ b \in Seq(Ref) /\ u \in Seq(Ref)
            BY <1>4, <1>6, <1>7
          <6>2. \A j \in DOMAIN b : n + j \in DOMAIN u /\ u[n + j] = b[j]
            BY <6>1, EndsAt, ZenonT(60)
          <6>3. QED BY <5>1, <6>2, Zenon
        <5>3. QED BY <2>2, <5>1, <5>2
      <4>4. QED BY <4>2, <4>3
    <3>2. QED BY <1>10, <3>1, Zenon DEF ToSet
  <2>3. CASE x \notin ToSet(b)
    BY <1>3, <1>4, <2>1, <2>3
  <2>4. QED BY <2>2, <2>3
<1> HIDE DEF b, k
<1>11. TrailOf(q, stk2, b, lv2, u, st, n)
  BY <1>6, <1>7, <1>8, <1>9, <1>10 DEF TrailOf
<1>12. QED BY <1>6, <1>11 DEF Trail, b
=============================================================================
