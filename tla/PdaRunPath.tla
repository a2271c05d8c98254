------------------------------ MODULE PdaRunPath -----------------------------
(***************************************************************************)
(* The stack is a path of the automaton, forward and backward.  Unreducing a *)
(* node puts its children back on the stack and must restore a path, so the *)
(* invariant speaks about the children of every node as well; while the    *)
(* parser walks backward, the states stored in the nodes are all that is   *)
(* left of the path.                                                       *)
(***************************************************************************)
EXTENDS PdaRunProofs

USE DEF nodeVars, stateVars, scanVars, btVars, stepVars, endVars, codeVars, driverVars
USE DEF Backtrack, NoDeck, NoChecks
USE DEF Idle, Record, parserVars

\* A node that was reduced begins where it stands: its first child was shifted in
\* the state s.  (The children of a tree that was sent are no part of the parse.)
Based(p, x, s) ==
  p[x].id \notin Term /\ p[x].child # <<>> => p[p[x].child[1]].state = s
\* The cell x was shifted with a transition of the automaton, and so was what it
\* was reduced from.
Settled(p, x) == Found(p, x) /\ Based(p, x, p[x].state)
\* The cells of stk, the top first, were shifted one on the other.
Path(p, stk) ==
  \A i \in DOMAIN stk : Settled(p, stk[i]) /\ p[stk[i]].state = Under(p, stk, i)
\* The cells of c, the oldest first, were shifted one on the other.
Linked(p, c) ==
  \A i \in DOMAIN c : Settled(p, c[i]) /\ (i > 1 => p[c[i]].state = Target(p, c[i - 1]))

-----------------------------------------------------------------------------
\* Shifting in the state on top makes the path longer.
LEMMA PathCons ==
  ASSUME NEW p, NEW stk \in Seq(Ref), NEW x \in Ref,
         Path(p, stk), Settled(p, x), p[x].state = stack_top_target(p, stk)
  PROVE  Path(p, <<x>> \o stk) /\ stack_top_target(p, <<x>> \o stk) = Target(p, x)
<1> DEFINE s == <<x>> \o stk
<1>1. s \in Seq(Ref) /\ Len(s) = Len(stk) + 1 /\ s[1] = x /\ s # <<>> /\ Head(s) = x
  OBVIOUS
<1>2. \A i \in 1..Len(stk) : s[i + 1] = stk[i]
  OBVIOUS
<1>3. stack_top_target(p, stk) = Under(p, s, 1)
  <2>1. CASE stk = <<>>
    BY <1>1, <2>1 DEF stack_top_target, Under
  <2>2. CASE stk # <<>>
    <3>1. Len(stk) >= 1 /\ Head(stk) = stk[1] /\ s[2] = stk[1]
      BY <1>2, <2>2
    <3> HIDE DEF s
    <3>2. Len(s) # 1 /\ s[1 + 1] = Head(stk)
      BY <1>1, <3>1
    <3>3. QED BY <2>2, <3>2 DEF stack_top_target, Under
  <2>3. QED BY <2>1, <2>2
<1> HIDE DEF s
<1>4. ASSUME NEW i \in DOMAIN s
      PROVE  Settled(p, s[i]) /\ p[s[i]].state = Under(p, s, i)
  <2>1. CASE i = 1
    BY <1>1, <1>3, <2>1
  <2>2. CASE i # 1
    <3>1. i - 1 \in DOMAIN stk /\ s[i] = stk[i - 1]
      BY <1>1, <1>2, <2>2
    <3>2. Under(p, s, i) = Under(p, stk, i - 1)
      <4>1. CASE i = Len(s)
        BY <1>1, <4>1 DEF Under
      <4>2. CASE i # Len(s)
        <5>1. i \in 1..Len(stk) /\ s[i + 1] = stk[(i - 1) + 1] /\ i - 1 # Len(stk)
          BY <1>1, <1>2, <4>2
        <5>2. QED BY <4>2, <5>1 DEF Under
      <4>3. QED BY <4>1, <4>2
    <3>3. QED BY <3>1, <3>2 DEF Path
  <2>3. QED BY <2>1, <2>2
<1>5. QED BY <1>1, <1>4 DEF Path, stack_top_target, s

\* What is below the top of a path is a path to the state the top was shifted in.
LEMMA PathTail ==
  ASSUME NEW p, NEW stk \in Seq(Ref), stk # <<>>, Path(p, stk)
  PROVE  /\ Path(p, Tail(stk)) /\ Settled(p, Head(stk))
         /\ p[Head(stk)].state = stack_top_target(p, Tail(stk))
<1> DEFINE t == Tail(stk)
<1>1. t \in Seq(Ref) /\ Len(t) = Len(stk) - 1 /\ Head(stk) = stk[1] /\ 1 \in DOMAIN stk
      /\ Len(stk) \in Nat
  OBVIOUS
<1>2. \A i \in 1..Len(t) : t[i] = stk[i + 1]
  OBVIOUS
<1>3. Settled(p, stk[1]) /\ p[stk[1]].state = Under(p, stk, 1)
  BY <1>1 DEF Path
<1> HIDE DEF t
<1>4. Under(p, stk, 1) = stack_top_target(p, t)
  <2>1. CASE t = <<>>
    BY <1>1, <2>1 DEF Under, stack_top_target
  <2>2. CASE t # <<>>
    <3>1. 1 \in 1..Len(t) /\ Head(t) = t[1] /\ Len(stk) # 1
      BY <1>1, <2>2
    <3>2. QED BY <1>2, <2>2, <3>1 DEF Under, stack_top_target
  <2>3. QED BY <2>1, <2>2
<1>5. ASSUME NEW i \in DOMAIN t
      PROVE  Settled(p, t[i]) /\ p[t[i]].state = Under(p, t, i)
  <2>1. i + 1 \in DOMAIN stk /\ t[i] = stk[i + 1] /\ i \in Nat
    BY <1>1, <1>2
  <2>2. Under(p, t, i) = Under(p, stk, i + 1)
    <3>1. CASE i = Len(t)
      BY <1>1, <3>1 DEF Under
    <3>2. CASE i # Len(t)
      <4>1. t[i + 1] = stk[(i + 1) + 1] /\ i + 1 # Len(stk)
        BY <1>1, <1>2, <3>2
      <4>2. QED BY <3>2, <4>1 DEF Under
    <3>3. QED BY <3>1, <3>2
  <2>3. QED BY <2>1, <2>2 DEF Path
<1>6. QED BY <1>1, <1>3, <1>4, <1>5 DEF Path, t

\* What is taken from the stack by a reduction is a list of children.
LEMMA PathSplit ==
  ASSUME NEW p, NEW stk \in Seq(Ref), Path(p, stk), NEW k \in 0..Len(stk)
  PROVE  LET c == Reverse(SubSeq(stk, 1, k))
             b == SubSeq(stk, k + 1, Len(stk))
         IN /\ Path(p, b) /\ Linked(p, c)
            /\ c # <<>> => p[c[1]].state = stack_top_target(p, b)
            /\ c = <<>> => b = stk
<1> DEFINE c == Reverse(SubSeq(stk, 1, k))
           b == SubSeq(stk, k + 1, Len(stk))
<1>1. /\ c \in Seq(Ref) /\ Len(c) = k /\ \A i \in 1..k : c[i] = stk[k + 1 - i]
  BY DEF Reverse
<1>2. /\ b \in Seq(Ref) /\ Len(b) = Len(stk) - k
      /\ \A i \in 1..Len(b) : b[i] = stk[k + i]
  OBVIOUS
<1>3. k = 0 => b = stk
  OBVIOUS
<1> HIDE DEF c, b
<1>4. Path(p, b)
  <2> SUFFICES ASSUME NEW i \in DOMAIN b
               PROVE  Settled(p, b[i]) /\ p[b[i]].state = Under(p, b, i)
    BY DEF Path
  <2>1. k + i \in DOMAIN stk /\ b[i] = stk[k + i]
    BY <1>2
  <2>2. Under(p, b, i) = Under(p, stk, k + i)
    <3>1. CASE i = Len(b)
      BY <1>2, <3>1 DEF Under
    <3>2. CASE i # Len(b)
      <4>1. b[i + 1] = stk[(k + i) + 1] /\ k + i # Len(stk)
        BY <1>2, <3>2
      <4>2. QED BY <3>2, <4>1 DEF Under
    <3>3. QED BY <3>1, <3>2
  <2>3. QED BY <2>1, <2>2 DEF Path
<1>5. Linked(p, c)
  <2> SUFFICES ASSUME NEW i \in DOMAIN c
               PROVE  Settled(p, c[i]) /\ (i > 1 => p[c[i]].state = Target(p, c[i - 1]))
    BY DEF Linked
  <2>1. i \in 1..k /\ k + 1 - i \in DOMAIN stk /\ c[i] = stk[k + 1 - i]
    BY <1>1
  <2>2. ASSUME i > 1 PROVE Under(p, stk, k + 1 - i) = Target(p, c[i - 1])
    <3>1. c[i - 1] = stk[(k + 1 - i) + 1] /\ k + 1 - i # Len(stk)
      BY <1>1, <2>1, <2>2
    <3>2. QED BY <3>1 DEF Under
  <2>3. QED BY <2>1, <2>2 DEF Path
<1>6. ASSUME c # <<>> PROVE p[c[1]].state = stack_top_target(p, b)
  <2>1. k \in DOMAIN stk /\ c[1] = stk[k]
    BY <1>1, <1>6
  <2>2. Under(p, stk, k) = stack_top_target(p, b)
    <3>1. CASE k = Len(stk)
      <4>1. b = <<>>
        BY <1>2, <3>1
      <4>2. QED BY <3>1, <4>1 DEF Under, stack_top_target
    <3>2. CASE k # Len(stk)
      <4>1. b # <<>> /\ Head(b) = stk[k + 1]
        BY <1>2, <3>2
      <4>2. QED BY <3>2, <4>1 DEF Under, stack_top_target
    <3>3. QED BY <3>1, <3>2
  <2>3. QED BY <2>1, <2>2 DEF Path
<1>7. c = <<>> => b = stk
  BY <1>1, <1>3
<1>8. QED BY <1>4, <1>5, <1>6, <1>7 DEF c, b

\* ... and comes back as what it was.
LEMMA PathJoin ==
  ASSUME NEW p, NEW stk \in Seq(Ref), Path(p, stk), NEW c \in Seq(Ref), Linked(p, c),
         c # <<>> => p[c[1]].state = stack_top_target(p, stk)
  PROVE  Path(p, Reverse(c) \o stk)
<1> DEFINE s == Reverse(c) \o stk
           n == Len(c)
<1>1. /\ s \in Seq(Ref) /\ Len(s) = n + Len(stk)
      /\ \A i \in 1..n : s[i] = c[n + 1 - i]
      /\ \A i \in 1..Len(stk) : s[n + i] = stk[i]
      /\ n \in Nat /\ Len(stk) \in Nat
  BY DEF Reverse
<1> HIDE DEF s
<1> SUFFICES ASSUME NEW i \in DOMAIN s
             PROVE  Settled(p, s[i]) /\ p[s[i]].state = Under(p, s, i)
  BY DEF Path, s
<1>2. i \in 1..(n + Len(stk))
  BY <1>1
<1>3. CASE i > n
  <2>1. i - n \in DOMAIN stk /\ s[i] = stk[i - n]
    <3>1. i - n \in 1..Len(stk) /\ n + (i - n) = i
      BY <1>1, <1>2, <1>3
    <3>2. QED BY <1>1, <3>1
  <2>2. Under(p, s, i) = Under(p, stk, i - n)
    <3>1. CASE i = Len(s)
      BY <1>1, <3>1 DEF Under
    <3>2. CASE i # Len(s)
      <4>1. (i - n) + 1 \in 1..Len(stk) /\ n + ((i - n) + 1) = i + 1 /\ i - n # Len(stk)
        <5>1. Len(s) = n + Len(stk) /\ n \in Nat /\ Len(stk) \in Nat
          BY <1>1
        <5> HIDE DEF n
        <5>2. QED BY <5>1, <1>2, <1>3, <3>2
      <4>2. s[i + 1] = stk[(i - n) + 1]
        BY <1>1, <4>1
      <4>3. QED BY <3>2, <4>1, <4>2 DEF Under
    <3>3. QED BY <3>1, <3>2
  <2>3. QED BY <2>1, <2>2 DEF Path
<1>4. CASE i < n
  <2>1. /\ n + 1 - i \in DOMAIN c /\ s[i] = c[n + 1 - i] /\ n + 1 - i > 1
        /\ s[i + 1] = c[(n + 1 - i) - 1] /\ i # Len(s)
    <3>1. i \in 1..n /\ i + 1 \in 1..n /\ n + 1 - (i + 1) = (n + 1 - i) - 1
      <4>1. n \in Nat /\ i \in Nat /\ i >= 1
        BY <1>1, <1>2
      <4> HIDE DEF n
      <4>2. QED BY <4>1, <1>4
    <3>2. s[i] = c[n + 1 - i] /\ s[i + 1] = c[(n + 1 - i) - 1]
      BY <1>1, <3>1
    <3>3. n + 1 - i \in 1..n /\ n + 1 - i > 1 /\ i # Len(s)
      <4>1. n \in Nat /\ Len(stk) \in Nat /\ Len(s) = n + Len(stk)
        BY <1>1
      <4> HIDE DEF n
      <4>2. QED BY <4>1, <1>4, <3>1
    <3>4. QED BY <3>2, <3>3
  <2>2. QED BY <2>1 DEF Linked, Under
<1>5. CASE i = n
  <2>1. c # <<>> /\ 1 \in DOMAIN c /\ s[i] = c[1]
    <3>1. n \in 1..n /\ n + 1 - n = 1
      BY <1>2, <1>5
    <3>2. QED BY <1>1, <1>5, <3>1
  <2>2. Under(p, s, i) = stack_top_target(p, stk)
    <3>1. CASE stk = <<>>
      BY <1>1, <1>5, <3>1 DEF Under, stack_top_target
    <3>2. CASE stk # <<>>
      <4>1. Len(stk) >= 1 /\ Head(stk) = stk[1]
        BY <3>2
      <4>2. i # Len(s) /\ s[i + 1] = Head(stk)
        BY <1>1, <1>5, <4>1
      <4>3. QED BY <3>2, <4>2 DEF Under, stack_top_target
    <3>3. QED BY <3>1, <3>2
  <2>3. QED BY <2>1, <2>2 DEF Linked
<1>6. QED BY <1>1, <1>2, <1>3, <1>4, <1>5

-----------------------------------------------------------------------------
\* The cells of S have the same place in the parse in q as in p.
Agree(p, q, S) ==
  \A r \in S : q[r].id = p[r].id /\ q[r].state = p[r].state /\ q[r].child = p[r].child

\* What is said of cells that are kept, with all that is below them, stays true.
LEMMA AgreePath ==
  ASSUME NEW p \in [Ref -> Node], NEW q, NEW S \in SUBSET Ref, Agree(p, q, S),
         \A r \in S : ToSet(p[r].child) \subseteq S
  PROVE  /\ \A r \in S : Found(q, r) = Found(p, r) /\ Target(q, r) = Target(p, r)
         /\ \A r \in S : \A s : Based(p, r, s) => Based(q, r, s)
         /\ \A r \in S : Settled(p, r) => Settled(q, r)
         /\ \A stk \in Seq(Ref) : ToSet(stk) \subseteq S =>
              /\ stack_top_target(q, stk) = stack_top_target(p, stk)
              /\ Path(p, stk) => Path(q, stk)
              /\ Linked(p, stk) => Linked(q, stk)
<1>1. \A r \in S : Found(q, r) = Found(p, r) /\ Target(q, r) = Target(p, r)
  BY DEF Agree, Found, Target
<1>2. ASSUME NEW r \in S, NEW s, Based(p, r, s) PROVE Based(q, r, s)
  <2>1. ASSUME q[r].id \notin Term, q[r].child # <<>> PROVE q[q[r].child[1]].state = s
    <3>1. q[r].child = p[r].child /\ p[r].child \in Seq(Ref) /\ p[r].id \notin Term
      BY <2>1, NodeSeqs DEF Agree
    <3>2. 1 \in DOMAIN p[r].child
      BY <2>1, <3>1
    <3>3. p[r].child[1] \in S
      BY <3>1, <3>2, InSet
    <3>4. QED BY <1>2, <2>1, <3>1, <3>3 DEF Agree, Based
  <2>2. QED BY <2>1 DEF Based
<1>3. ASSUME NEW r \in S, Settled(p, r) PROVE Settled(q, r)
  <2>1. Based(q, r, p[r].state) /\ q[r].state = p[r].state
    BY <1>2, <1>3 DEF Settled, Agree
  <2>2. QED BY <1>1, <1>3, <2>1 DEF Settled
<1>4. ASSUME NEW stk \in Seq(Ref), ToSet(stk) \subseteq S
      PROVE  /\ stack_top_target(q, stk) = stack_top_target(p, stk)
             /\ Path(p, stk) => Path(q, stk)
             /\ Linked(p, stk) => Linked(q, stk)
  <2>1. \A i \in DOMAIN stk : stk[i] \in S
    BY <1>4, InSet
  <2>2. stack_top_target(q, stk) = stack_top_target(p, stk)
    <3>1. stk # <<>> => Head(stk) \in S
      BY <1>4, <2>1
    <3>2. QED BY <1>1, <3>1 DEF stack_top_target
  <2>3. ASSUME NEW i \in DOMAIN stk PROVE Under(q, stk, i) = Under(p, stk, i)
    <3>1. i # Len(stk) => stk[i + 1] \in S
      BY <2>1
    <3>2. QED BY <1>1, <3>1 DEF Under
  <2>4. ASSUME Path(p, stk) PROVE Path(q, stk)
    BY <1>3, <2>1, <2>3, <2>4 DEF Path, Agree
  <2>5. ASSUME Linked(p, stk) PROVE Linked(q, stk)
    <3> SUFFICES ASSUME NEW i \in DOMAIN stk
                 PROVE  /\ Settled(q, stk[i])
                        /\ i > 1 => q[stk[i]].state = Target(q, stk[i - 1])
      BY DEF Linked
    <3>1. stk[i] \in S /\ (i > 1 => stk[i - 1] \in S)
      BY <2>1
    <3>2. QED BY <1>1, <1>3, <2>5, <3>1 DEF Linked, Agree
  <2>6. QED BY <2>2, <2>4, <2>5
<1>5. QED BY <1>1, <1>2, <1>3, <1>4

-----------------------------------------------------------------------------
\* What is left of a node when its ignored text and its flags are put aside.
SameCore(m, n) ==
  /\ n.id = m.id /\ n.state = m.state /\ n.child = m.child
  /\ n.retry_lower = m.retry_lower /\ n.retry_upper = m.retry_upper
  /\ n.retry_region = m.retry_region /\ n.cause_reduce = m.cause_reduce

\* Cells that keep their core keep their place.
LEMMA CoreAgree ==
  ASSUME NEW p \in [Ref -> Node], NEW q, \A r \in Ref : SameCore(p[r], q[r])
  PROVE  Agree(p, q, Ref) /\ \A r \in Ref : ToSet(p[r].child) \subseteq Ref
BY NodeSeqs, SetType DEF Agree, SameCore

\* When every cell keeps its place, so does the stack and so do the children.
LEMMA CorePath ==
  ASSUME NEW p \in [Ref -> Node], NEW q, \A r \in Ref : SameCore(p[r], q[r])
  PROVE  /\ \A stk \in Seq(Ref) :
              /\ stack_top_target(q, stk) = stack_top_target(p, stk)
              /\ Path(p, stk) => Path(q, stk)
         /\ \A r \in Ref : Found(q, r) = Found(p, r)
         /\ \A r \in Ref : \A s : Based(p, r, s) => Based(q, r, s)
         /\ (\A r \in Ref : Linked(p, p[r].child)) => \A r \in Ref : Linked(q, q[r].child)
<1>1. Agree(p, q, Ref) /\ \A r \in Ref : ToSet(p[r].child) \subseteq Ref
  BY CoreAgree
<1>2. \A stk \in Seq(Ref) : ToSet(stk) \subseteq Ref
  BY SetType
<1>3. Ref \in SUBSET Ref
  OBVIOUS
<1>4. /\ \A r \in Ref : Found(q, r) = Found(p, r)
      /\ \A r \in Ref : \A s : Based(p, r, s) => Based(q, r, s)
      /\ \A stk \in Seq(Ref) :
           /\ stack_top_target(q, stk) = stack_top_target(p, stk)
           /\ Path(p, stk) => Path(q, stk)
           /\ Linked(p, stk) => Linked(q, stk)
  BY <1>1, <1>2, <1>3, AgreePath
<1>5. \A r \in Ref : q[r].child = p[r].child /\ p[r].child \in Seq(Ref)
  BY NodeSeqs DEF SameCore
<1>6. QED BY <1>4, <1>5

\* Ignored text is moved about without a change to the core of any cell.
LEMMA AttachCore ==
  ASSUME NEW p \in [Ref -> Node], NEW stk \in Seq(Ref), NEW acc, NEW cut
  PROVE  \A r \in Ref : SameCore(p[r], attach_right_ignore(p, stk, acc, cut)[r])
<1>1. CASE acc # <<>> /\ TakesRight(p, stk)
  <2> DEFINE x == Head(stk)
             l == Reverse(SubSeq(acc, cut + 1, Len(acc)))
             n == [p[x] EXCEPT !.right_ignore = l]
             q == [p EXCEPT ![x] = n]
  <2>1. x \in Ref
    BY <1>1, HeadTailType DEF TakesRight
  <2>2. attach_right_ignore(p, stk, acc, cut) = q
    BY <1>1 DEF attach_right_ignore
  <2>3. SameCore(p[x], n)
    <3>1. p[x] \in Node
      BY <2>1
    <3> HIDE DEF x, l
    <3>2. QED BY <3>1 DEF SameCore, Node
  <2> HIDE DEF x, n
  <2>4. q[x] = n /\ \A r \in Ref : r # x => q[r] = p[r]
    BY <2>1
  <2> HIDE DEF q
  <2>5. QED BY <2>2, <2>3, <2>4 DEF SameCore
<1>2. CASE ~(acc # <<>> /\ TakesRight(p, stk))
  BY <1>2 DEF attach_right_ignore, SameCore
<1>3. QED BY <1>1, <1>2

LEMMA DetachCore ==
  ASSUME NEW p \in [Ref -> Node], NEW stk \in Seq(Ref)
  PROVE  \A r \in Ref : SameCore(p[r], detach_right_ignore(p, stk)[r])
<1>1. CASE HasRight(p, stk)
  <2> DEFINE x == Head(stk)
             n == [p[x] EXCEPT !.right_ignore = <<>>]
             q == [p EXCEPT ![x] = n]
  <2>1. x \in Ref
    BY <1>1, HeadTailType DEF HasRight
  <2>2. detach_right_ignore(p, stk) = q
    BY <1>1 DEF detach_right_ignore
  <2>3. SameCore(p[x], n)
    <3>1. p[x] \in Node
      BY <2>1
    <3> HIDE DEF x
    <3>2. QED BY <3>1 DEF SameCore, Node
  <2> HIDE DEF x, n
  <2>4. q[x] = n /\ \A r \in Ref : r # x => q[r] = p[r]
    BY <2>1
  <2> HIDE DEF q
  <2>5. QED BY <2>2, <2>3, <2>4 DEF SameCore
<1>2. CASE ~HasRight(p, stk)
  BY <1>2 DEF detach_right_ignore, SameCore
<1>3. QED BY <1>1, <1>2

LEMMA ShiftPtCore ==
  ASSUME IInv, parse_input # <<>>, NEW cut \in RightCuts(pt, accum_ignore)
  PROVE  LET q == ShiftPt(cut)
         IN /\ \A r \in Ref : r # Lel => SameCore(pt[r], q[r])
            /\ q[Lel].id = pt[Lel].id /\ q[Lel].child = pt[Lel].child
            /\ q[Lel].cause_reduce = pt[Lel].cause_reduce /\ q[Lel].state = pda_cs
            /\ q[Lel].retry_upper = pt[Lel].retry_upper
            /\ q[Lel].retry_region = pt[Lel].retry_region
            /\ q[Lel].retry_lower = IF MoreActs THEN pt[Lel].retry_lower + 1 ELSE 0
<1> DEFINE tok == pt[Lel].id \in Term
           right == tok /\ pt[Lel].cause_reduce = 0
           p1 == IF right THEN attach_right_ignore(pt, stack, accum_ignore, cut) ELSE pt
           rest == IF right THEN AfterRight(pt, stack, accum_ignore, cut)
                   ELSE accum_ignore
           n == p1[Lel]
           li == IF tok THEN Reverse(rest) ELSE n.left_ignore
           rl == IF MoreActs THEN n.retry_lower + 1 ELSE 0
           shifted == [n EXCEPT !.state = pda_cs, !.left_ignore = li, !.retry_lower = rl]
           q == [p1 EXCEPT ![Lel] = shifted]
<1>1. p1 \in [Ref -> Node]
  BY AttachType, ListTypes
<1>2. \A r \in Ref : SameCore(pt[r], p1[r])
  <2>1. \A r \in Ref : SameCore(pt[r], pt[r])
    BY DEF SameCore
  <2>2. QED BY <2>1, ListTypes, AttachCore
<1>3. ShiftPt(cut) = q
  BY DEF ShiftPt
<1>4. Lel \in Ref
  BY LelType
<1> HIDE DEF p1, li
<1>5. n \in Node /\ SameCore(pt[Lel], n)
  BY <1>1, <1>2, <1>4
<1>6. rl = IF MoreActs THEN pt[Lel].retry_lower + 1 ELSE 0
  BY <1>5 DEF SameCore
<1> HIDE DEF n, rl
<1>7. /\ shifted.id = n.id /\ shifted.child = n.child
      /\ shifted.cause_reduce = n.cause_reduce /\ shifted.state = pda_cs
      /\ shifted.retry_upper = n.retry_upper /\ shifted.retry_region = n.retry_region
      /\ shifted.retry_lower = rl
  BY <1>5 DEF Node
<1> HIDE DEF shifted
<1>8. q[Lel] = shifted /\ \A r \in Ref : r # Lel => q[r] = p1[r]
  BY <1>1, <1>4
<1> HIDE DEF q
<1>9. QED BY <1>2, <1>3, <1>5, <1>6, <1>7, <1>8 DEF SameCore

-----------------------------------------------------------------------------
(* The inductive invariant. *)

\* A token that has caused reductions waits in the input until they are taken back:
\* it has no retry of its own (that is with the reduction).
Waiting(r) == pt[r].id \in Term /\ pt[r].retry_lower = 0 /\ pt[r].cause_reduce > 0

\* What is behind the front of the input has caused the reduction that is in front
\* of it, and waits; while a frame runs, so does the front.  Ignored text that was read
\* before a token is in accum_ignore only until that token is shifted.
InputInv ==
  /\ \A r \in Ref : pt[r].cause_reduce >= 0
  /\ \A i \in DOMAIN parse_input : i > 1 \/ pc = "reduction" => Waiting(parse_input[i])
  /\ pc \in {"again", "reduction"} /\ accum_ignore # <<>>
       => parse_input # <<>> /\ (Len(parse_input) > 1 \/ IsTerm(Lel))

\* The flags of the backtracking are down going forward; a failed parse is over.
FlowInv ==
  /\ pc # "backtrack" => ~on_deck /\ ~check_next
  /\ pc \in {"scan", "again", "reduction"} => ~stop
  /\ pc = "backtrack" /\ stop => check_stop
  /\ parse_error => pc \in {"done", "idle"}

\* A reduction that its action rejected is put on the stack as it is, to be taken back
\* by the next turn of the loop: the state stored in it is not that of a shift.  This is
\* the one exception to the path.  The flags say that nothing is looked up meanwhile,
\* and the retry that the node does not have makes the loop undo it.
Rejected ==
  /\ pc = "backtrack" /\ ~on_deck /\ ~check_next /\ ~stop /\ stack # <<>>
  /\ IF parse_input = <<>> THEN accum_ignore = <<>> ELSE Waiting(Lel)
  /\ Path(pt, Tail(stack)) /\ pt[Head(stack)].retry_lower = 0
  /\ Based(pt, Head(stack), stack_top_target(pt, Tail(stack)))

\* The stack is a path; going forward, the state of the automaton is its end.
StackInv ==
  IF pc = "backtrack" THEN Path(pt, stack) \/ Rejected
  ELSE Path(pt, stack) /\ pda_cs = stack_top_target(pt, stack)
\* The front of the input can be shifted, or unreduced, onto the stack: what it was
\* reduced from begins where the stack ends, and if it is a token with alternatives
\* left, it was last tried in that state.
LelInv ==
  parse_input # <<>> =>
    /\ Based(pt, Lel, stack_top_target(pt, stack))
    /\ IsTerm(Lel) /\ pt[Lel].retry_lower # 0 => pt[Lel].state = stack_top_target(pt, stack)
\* So can the node whose frame runs.
RedInv ==
  red_lel # <<>> => /\ Based(pt, red_lel[1], stack_top_target(pt, stack))
                    /\ pt[red_lel[1]].retry_lower = 0
\* The children of every node are a piece of a path.
ChildInv == \A r \in Ref : Linked(pt, pt[r].child)
PathInv == ChildInv /\ (~parse_error => StackInv /\ LelInv /\ RedInv)

\* The inductive invariant.
LInv == IInv /\ ListsInv /\ InputInv /\ FlowInv /\ PathInv

-----------------------------------------------------------------------------
\* Steps that change no node, the input or the stack: what they must keep in order.
LEMMA KeptInput ==
  ASSUME InputInv, UNCHANGED nodeVars, pc' = pc \/ pc' \notin {"again", "reduction"}
  PROVE  InputInv'
<1>1. \A r \in Ref : pt'[r].cause_reduce >= 0
  BY DEF InputInv
<1>2. \A i \in DOMAIN parse_input' :
        i > 1 \/ pc' = "reduction" => Waiting(parse_input[i])
  BY DEF InputInv
<1>3. \A x : Waiting(x)' <=> (pt'[x].id \in Term /\ pt'[x].retry_lower = 0 /\ pt'[x].cause_reduce > 0)
  BY DEF Waiting
<1>4. \A i \in DOMAIN parse_input' : i > 1 \/ pc' = "reduction" => Waiting(parse_input[i])'
  BY <1>2, <1>3 DEF Waiting
<1>5. QED BY <1>1, <1>4 DEF InputInv, IsTerm, Lel

LEMMA KeptPath ==
  ASSUME PathInv, UNCHANGED <<nodeVars, red_lel>>,
         ~parse_error' => ~parse_error /\
            IF pc' = "backtrack" THEN Path(pt, stack) \/ Rejected'
            ELSE Path(pt, stack) /\ pda_cs' = stack_top_target(pt, stack)
  PROVE  PathInv'
<1>1. ChildInv'
  BY DEF PathInv, ChildInv
<1>2. ASSUME ~parse_error' PROVE StackInv' /\ LelInv' /\ RedInv'
  BY <1>2 DEF PathInv, StackInv, LelInv, RedInv, Lel, IsTerm
<1>3. QED BY <1>1, <1>2 DEF PathInv

\* The actions that leave every node where it is, going forward ...
LEMMA SteadyPath ==
  ASSUME LInv, LET Moves == \/ ScanPreRegion \/ ScanLater \/ ScanNextRegion \/ ScanNull
                            \/ ScanGenerate \/ NoTransition \/ AgainOut \/ Done
                            \/ Drive \/ UNCHANGED vars
               IN Moves
  PROVE  InputInv' /\ FlowInv' /\ PathInv'
<1>1. UNCHANGED <<nodeVars, red_lel, pda_cs, parse_error>>
  <2>1. CASE \/ ScanPreRegion \/ ScanLater \/ ScanNextRegion \/ ScanNull \/ ScanGenerate
    BY <2>1 DEF ScanPreRegion, ScanLater, ScanNextRegion, ScanNull, ScanGenerate
  <2>2. CASE NoTransition \/ AgainOut \/ Done
    BY <2>2 DEF NoTransition, AgainOut, Done
  <2>3. CASE Drive \/ UNCHANGED vars
    BY <2>3 DEF Drive, Send, SendEof, ParseFrag, vars
  <2>4. QED BY <2>1, <2>2, <2>3
<1>2. /\ pc' = pc \/ pc' \notin {"again", "reduction"}
      /\ UNCHANGED <<on_deck, check_next, check_stop>>
      /\ pc = "backtrack" => pc' = pc /\ UNCHANGED stop
      /\ pc' = "backtrack" /\ pc # "backtrack" => ~stop'
      /\ parse_error => pc' \in {"done", "idle"}
      /\ pc' \in {"scan", "again", "reduction"} => ~stop'
  <2>1. CASE \/ ScanPreRegion \/ ScanLater \/ ScanNextRegion \/ ScanNull \/ ScanGenerate
    <3>1. pc = "scan" /\ UNCHANGED <<on_deck, check_next, check_stop, stop, parse_error>>
      BY <2>1 DEF ScanPreRegion, ScanLater, ScanNextRegion, ScanNull, ScanGenerate
    <3>2. pc' \in {"scan", "idle", "backtrack"}
      BY <2>1 DEF ScanPreRegion, ScanLater, ScanNextRegion, ScanNull, ScanGenerate,
         SkipSend, EndRound
    <3>3. QED BY <3>1, <3>2 DEF LInv, FlowInv
  <2>2. CASE NoTransition \/ AgainOut \/ Done
    BY <2>2 DEF LInv, FlowInv, NoTransition, AgainOut, Done, EndRound, Stops
  <2>3. CASE Drive \/ UNCHANGED vars
    BY <2>3 DEF LInv, FlowInv, Drive, Send, SendEof, ParseFrag, vars
  <2>4. QED BY <2>1, <2>2, <2>3
<1>3. InputInv'
  BY <1>1, <1>2, KeptInput DEF LInv
<1>4. FlowInv'
  BY <1>1, <1>2 DEF LInv, FlowInv
<1>5. ASSUME pc = "backtrack", Rejected PROVE Rejected'
  BY <1>1, <1>2, <1>5 DEF Rejected, Waiting, Lel
<1>6. PathInv'
  BY <1>1, <1>2, <1>5, KeptPath DEF LInv, PathInv, StackInv
<1>7. QED BY <1>3, <1>4, <1>6

\* ... and backward, where they may look up the state from the top of the stack.
LEMMA BackPath ==
  ASSUME LInv, BtReverse \/ BtNext \/ BtStop \/ BtRetry \/ BtFail
  PROVE  InputInv' /\ FlowInv' /\ PathInv'
<1>1. UNCHANGED <<nodeVars, red_lel>> /\ pc = "backtrack" /\ ~parse_error
  BY DEF BtReverse, BtNext, BtStop, BtRetry, BtFail, AtUnshift, LInv, FlowInv
<1>2. Path(pt, stack) \/ Rejected
  BY <1>1 DEF LInv, PathInv, StackInv
<1>3. CASE BtReverse
  <2>1. pc' = pc /\ UNCHANGED <<parse_error, check_next, check_stop, stop>> /\ on_deck
    BY <1>3 DEF BtReverse
  <2>2. Path(pt, stack)
    BY <1>2, <2>1 DEF Rejected
  <2>3. InputInv'
    BY <1>1, <2>1, KeptInput DEF LInv
  <2>4. PathInv'
    BY <1>1, <2>1, <2>2, KeptPath DEF LInv
  <2>5. QED BY <1>1, <2>1, <2>3, <2>4 DEF LInv, FlowInv
<1>4. CASE BtNext
  <2>1. /\ check_next /\ ~check_next' /\ ~on_deck'
        /\ UNCHANGED <<parse_error, stop, check_stop>>
        /\ \/ pc' = pc
           \/ pc' = "done" /\ pda_cs' = stack_top_target(pt, stack)
    BY <1>4 DEF BtNext, Resume
  <2>2. Path(pt, stack)
    BY <1>2, <2>1 DEF Rejected
  <2>3. InputInv'
    BY <1>1, <2>1, KeptInput DEF LInv
  <2>4. PathInv'
    BY <1>1, <2>1, <2>2, KeptPath DEF LInv
  <2>5. QED BY <1>1, <2>1, <2>3, <2>4 DEF LInv, FlowInv
<1>5. CASE BtStop
  <2>1. /\ ~check_next' /\ ~on_deck' /\ UNCHANGED <<parse_error, stop>>
        /\ \/ pc' = pc /\ ~stop
           \/ stop /\ pc' = "done" /\ pda_cs' = stack_top_target(pt, stack)
    BY <1>5 DEF BtStop, Resume
  <2>2. InputInv'
    BY <1>1, <2>1, KeptInput DEF LInv
  <2>3. pc' = pc /\ Rejected => Rejected'
    BY <1>1, <2>1 DEF Rejected, Waiting, Lel
  <2>4. pc' # pc => Path(pt, stack)
    BY <1>2, <2>1 DEF Rejected
  <2>5. PathInv'
    BY <1>1, <1>2, <2>1, <2>3, <2>4, KeptPath DEF LInv
  <2>6. QED BY <1>1, <2>1, <2>2, <2>5 DEF FlowInv
<1>6. CASE BtRetry
  <2>1. /\ parse_input # <<>> /\ IsTerm(Lel) /\ pt[Lel].retry_lower # 0
        /\ pda_cs' = pt[Lel].state /\ pc' = "again" /\ ~on_deck' /\ ~check_next'
        /\ UNCHANGED <<parse_error, stop>> /\ ~check_stop /\ pc = "backtrack"
    BY <1>6 DEF BtRetry
  <2>2. Path(pt, stack)
    BY <1>2, <2>1 DEF Rejected, Waiting
  <2>3. pda_cs' = stack_top_target(pt, stack)
    BY <1>1, <2>1 DEF LInv, PathInv, LelInv
  <2>4. PathInv'
    BY <1>1, <2>1, <2>2, <2>3, KeptPath DEF LInv
  <2>5. QED
    <3>1. InputInv'
      BY <1>1, <2>1 DEF LInv, InputInv, Waiting, IsTerm, Lel
    <3>2. ~stop
      BY <1>1, <2>1 DEF LInv, FlowInv
    <3>3. QED BY <1>1, <2>1, <2>4, <3>1, <3>2 DEF FlowInv
<1>7. CASE BtFail
  <2>1. parse_error' = TRUE /\ pc' = "done" /\ ~on_deck' /\ ~check_next'
    BY <1>7 DEF BtFail, AtUnshift
  <2>2. InputInv'
    BY <1>1, <2>1, KeptInput DEF LInv
  <2>3. PathInv'
    BY <1>1, <2>1, KeptPath DEF LInv
  <2>4. QED BY <2>1, <2>2, <2>3 DEF FlowInv
<1>8. QED BY <1>3, <1>4, <1>5, <1>6, <1>7

-----------------------------------------------------------------------------
\* A cell in no list of the parser is not on the stack and has no parent there.
LEMMA OffStack ==
  ASSUME IInv, ListsInv, NEW x \in Ref,
         \/ x \notin live \/ x \in ToSet(parse_input) \/ x \in ToSet(accum_ignore)
         \/ x \in RedCells
  PROVE  x \notin ToSet(stack) /\ \A r \in Ref : x \notin ToSet(pt[r].child)
BY DEF ListsInv, OneOwner, Apart, SetsApart, Held

\* A change to a cell that is neither on the stack nor a child of any node.
LEMMA OneCellPath ==
  ASSUME IInv, ChildInv, NEW x \in Ref, x \notin ToSet(stack),
         \A r \in Ref : x \notin ToSet(pt[r].child),
         NEW q, Agree(pt, q, Ref \ {x})
  PROVE  /\ stack_top_target(q, stack) = stack_top_target(pt, stack)
         /\ Path(pt, stack) => Path(q, stack)
         /\ \A r \in Ref \ {x} : Linked(q, q[r].child)
         /\ Linked(q, pt[x].child)
         /\ \A r \in Ref \ {x} : \A s : Based(pt, r, s) => Based(q, r, s)
         /\ q[x].id = pt[x].id /\ q[x].child = pt[x].child =>
              \A s : Based(pt, x, s) => Based(q, x, s)
<1> DEFINE S == Ref \ {x}
<1>1. \A r \in Ref : pt[r].child \in Seq(Ref) /\ ToSet(pt[r].child) \subseteq S
  BY ListTypes, NodeSeqs, SetType
<1>2. ToSet(stack) \subseteq S
  BY ListTypes, SetType
<1>3. S \in SUBSET Ref /\ Agree(pt, q, S)
  OBVIOUS
<1> HIDE DEF S
<1>4. /\ \A r \in S : \A s : Based(pt, r, s) => Based(q, r, s)
      /\ \A stk \in Seq(Ref) : ToSet(stk) \subseteq S =>
           /\ stack_top_target(q, stk) = stack_top_target(pt, stk)
           /\ Path(pt, stk) => Path(q, stk)
           /\ Linked(pt, stk) => Linked(q, stk)
  <2>1. \A r \in S : ToSet(pt[r].child) \subseteq S
    BY <1>1, <1>3
  <2>2. QED BY <1>3, <2>1, ListTypes, AgreePath
<1>5. \A r \in Ref : Linked(q, pt[r].child)
  BY <1>1, <1>4 DEF ChildInv
<1>6. \A r \in S : q[r].child = pt[r].child
  BY <1>3 DEF Agree
<1>7. ASSUME q[x].id = pt[x].id, q[x].child = pt[x].child, NEW s, Based(pt, x, s)
      PROVE  Based(q, x, s)
  <2>1. CASE q[x].id \notin Term /\ q[x].child # <<>>
    <3>1. 1 \in DOMAIN pt[x].child
      BY <1>1, <1>7, <2>1
    <3>2. pt[x].child[1] \in S
      BY <1>1, <3>1, InSet
    <3>3. q[pt[x].child[1]].state = s
      BY <1>3, <1>7, <2>1, <3>2 DEF Agree, Based
    <3>4. QED BY <1>7, <3>3 DEF Based
  <2>2. CASE ~(q[x].id \notin Term /\ q[x].child # <<>>)
    BY <2>2 DEF Based
  <2>3. QED BY <2>1, <2>2
<1>8. QED BY <1>1, <1>2, <1>4, <1>5, <1>6, <1>7, ListTypes DEF S

\* The front of the input is in the input.
LEMMA LelInput ==
  ASSUME parse_input \in Seq(Ref), parse_input # <<>>
  PROVE  Lel \in ToSet(parse_input) /\ ToSet(parse_input) = {Lel} \cup ToSet(Tail(parse_input))
<1>1. ToSet(parse_input) = {Head(parse_input)} \cup ToSet(Tail(parse_input))
  BY HeadSet, Zenon
<1>2. QED BY <1>1 DEF Lel

\* A token enters parse_token.
LEMMA EnterParserPath ==
  ASSUME LInv, NEW node \in Node, NEW n \in Int, EnterParser(node, n), pc = "scan",
         node.child = <<>>, node.id \in Term, node.retry_lower = 0,
         node.cause_reduce = 0,
         UNCHANGED <<stack, accum_ignore, red_lel, pda_cs, parse_error, stop,
                     on_deck, check_next, check_stop>>
  PROVE  InputInv' /\ FlowInv' /\ PathInv'
<1>1. PICK r \in Ref :
        /\ Fresh(r)
        /\ pt' = [pt EXCEPT ![r] = [node EXCEPT !.state = pda_cs,
                                                !.has_rcode = Transfer(n)]]
        /\ parse_input' = <<r>>
  BY DEF EnterParser
<1> DEFINE m == [node EXCEPT !.state = pda_cs, !.has_rcode = Transfer(n)]
<1>2. /\ m.child = <<>> /\ m.id \in Term /\ m.retry_lower = 0 /\ m.cause_reduce = 0
  BY DEF Node
<1>3. pt' = [pt EXCEPT ![r] = m] /\ r \notin live
  BY <1>1 DEF Fresh
<1> HIDE DEF m
<1>4. pt'[r] = m /\ \A x \in Ref : x # r => pt'[x] = pt[x]
  BY <1>3, ListTypes DEF LInv
<1>5. r \notin ToSet(stack) /\ \A x \in Ref : r \notin ToSet(pt[x].child)
  BY <1>3, OffStack DEF LInv
<1>6. /\ stack_top_target(pt', stack) = stack_top_target(pt, stack)
      /\ Path(pt, stack) => Path(pt', stack)
      /\ \A x \in Ref \ {r} : Linked(pt', pt'[x].child)
  <2>1. Agree(pt, pt', Ref \ {r})
    BY <1>4 DEF Agree
  <2>2. QED BY <1>5, <2>1, OneCellPath DEF LInv, PathInv
<1>7. pc' \in {"done", "again"} /\ ~parse_error /\ ~stop /\ ~on_deck /\ ~check_next
      /\ red_lel' = <<>> /\ Lel' = r /\ parse_input' # <<>> /\ Len(parse_input') = 1
  BY <1>1 DEF EnterParser, LInv, FlowInv, ListsInv, Lel
<1>8. FlowInv'
  BY <1>7 DEF FlowInv
<1>9. InputInv'
  <2>1. \A x \in Ref : pt'[x].cause_reduce >= 0
    BY <1>2, <1>4 DEF LInv, InputInv
  <2>2. \A i \in DOMAIN parse_input' : i = 1
    BY <1>1
  <2>3. IsTerm(Lel)'
    BY <1>2, <1>4, <1>7 DEF IsTerm
  <2>4. QED BY <1>7, <2>1, <2>2, <2>3 DEF InputInv
<1>10. ChildInv'
  BY <1>2, <1>4, <1>6 DEF ChildInv, Linked
<1>11. StackInv'
  BY <1>6, <1>7 DEF LInv, PathInv, StackInv
<1>12. LelInv' /\ RedInv'
  BY <1>2, <1>4, <1>7 DEF LelInv, RedInv, Based
<1>13. QED BY <1>8, <1>9, <1>10, <1>11, <1>12 DEF PathInv

\* Ignored text is read.
LEMMA IgnorePath ==
  ASSUME LInv, NEW node \in Node, Ignore(node), pc = "scan", node.child = <<>>,
         node.cause_reduce = 0
  PROVE  InputInv' /\ FlowInv' /\ PathInv'
<1>1. PICK r \in Ref :
        /\ Fresh(r)
        /\ pt' = [pt EXCEPT ![r] = [node EXCEPT !.has_rcode = Transfer(rc_block_count),
                                                !.retry_region = RetryRegion]]
  BY DEF Ignore
<1> DEFINE m == [node EXCEPT !.has_rcode = Transfer(rc_block_count),
                             !.retry_region = RetryRegion]
<1>2. m.child = <<>> /\ m.cause_reduce = 0
  BY DEF Node
<1>3. pt' = [pt EXCEPT ![r] = m] /\ r \notin live
  BY <1>1 DEF Fresh
<1> HIDE DEF m
<1>4. pt'[r] = m /\ \A x \in Ref : x # r => pt'[x] = pt[x]
  BY <1>3, ListTypes DEF LInv
<1>5. r \notin ToSet(stack) /\ \A x \in Ref : r \notin ToSet(pt[x].child)
  BY <1>3, OffStack DEF LInv
<1>6. /\ stack_top_target(pt', stack) = stack_top_target(pt, stack)
      /\ Path(pt, stack) => Path(pt', stack)
      /\ \A x \in Ref \ {r} : Linked(pt', pt'[x].child)
      /\ \A x \in Ref \ {r} : \A s : Based(pt, x, s) => Based(pt', x, s)
  <2>1. Agree(pt, pt', Ref \ {r})
    BY <1>4 DEF Agree
  <2>2. QED BY <1>5, <2>1, OneCellPath DEF LInv, PathInv
<1>7. /\ pc' \in {"idle", "scan"} /\ ~parse_error /\ ~stop /\ ~on_deck /\ ~check_next
      /\ red_lel' = <<>>
      /\ UNCHANGED <<stack, parse_input, pda_cs, parse_error, stop, on_deck, check_next>>
  BY DEF Ignore, LInv, FlowInv, ListsInv
<1>8. FlowInv'
  BY <1>7 DEF FlowInv
<1>9. \A i \in DOMAIN parse_input : parse_input[i] \in Ref \ {r}
  <2>1. ToSet(parse_input) \subseteq live
    BY DEF LInv, ListsInv, OneOwner, Apart, SetsApart
  <2>2. QED BY <1>3, <2>1, ListTypes, InSet DEF LInv
<1>10. InputInv'
  <2>1. \A x \in Ref : pt'[x].cause_reduce >= 0
    BY <1>2, <1>4 DEF LInv, InputInv
  <2>2. ASSUME NEW i \in DOMAIN parse_input, i > 1
        PROVE  /\ pt'[parse_input[i]].id \in Term
               /\ pt'[parse_input[i]].retry_lower = 0
               /\ pt'[parse_input[i]].cause_reduce > 0
    <3>1. pt'[parse_input[i]] = pt[parse_input[i]]
      BY <1>4, <1>9
    <3>2. QED BY <2>2, <3>1 DEF LInv, InputInv, Waiting
  <2>3. QED BY <1>7, <2>1, <2>2 DEF InputInv, Waiting
<1>11. ChildInv'
  BY <1>2, <1>4, <1>6 DEF ChildInv, Linked
<1>12. StackInv'
  BY <1>6, <1>7 DEF LInv, PathInv, StackInv
<1>13. LelInv' /\ RedInv'
  <2>1. ASSUME parse_input # <<>>
        PROVE  Lel \in Ref \ {r} /\ Lel' = Lel
    BY <1>7, <1>9, <2>1, ListTypes DEF Lel, LInv
  <2>2. LelInv'
    BY <1>4, <1>6, <1>7, <2>1 DEF LInv, PathInv, LelInv, IsTerm
  <2>3. QED BY <1>7, <2>2 DEF RedInv
<1>14. QED BY <1>8, <1>10, <1>11, <1>12, <1>13 DEF PathInv

\* The scanning that sends a node to parse_token.
LEMMA EnteredPath ==
  ASSUME LInv, ScanCollectIgnore \/ ScanEof \/ ScanTree \/ ScanToken
  PROVE  InputInv' /\ FlowInv' /\ PathInv'
<1>0. IInv /\ StatesOK /\ CodeOK /\ ScannerOK /\ rc_block_count \in Int
  BY DEF LInv, IInv, TypeOK, CodeOK
<1>1. CASE ScanCollectIgnore
  <2> DEFINE node == [Blank EXCEPT !.id = CiLel[region], !.retry_region = RetryRegion]
  <2>1. CiLel[region] \in Term /\ RetryRegion \in Nat
    BY <1>0, <1>1, RetryRegionType, RegionAssumption DEF ScannerOK, ScanCollectIgnore
  <2>2. node \in Node
    BY <2>1, BlankType DEF Node, Id
  <2>3. node.child = <<>> /\ node.id \in Term /\ node.retry_lower = 0 /\ node.cause_reduce = 0
    BY <2>1 DEF Blank
  <2>4. /\ EnterParser(node, rc_block_count) /\ pc = "scan" /\ rc_block_count \in Int
        /\ UNCHANGED <<stack, accum_ignore, red_lel, pda_cs, parse_error, stop,
                       on_deck, check_next, check_stop>>
    BY <1>0, <1>1 DEF ScanCollectIgnore
  <2> HIDE DEF node
  <2>5. QED BY <2>2, <2>3, <2>4, EnterParserPath
<1>2. CASE ScanEof
  <2> DEFINE node == [Blank EXCEPT !.id = EofId]
             writes == RunFrame(EofFrame[region]).env # env
             k == rc_block_count + (IF writes THEN MakeSteps ELSE 0)
  <2>1. node \in Node
    BY BlankType, IdAssumption DEF Node, Id
  <2>2. node.child = <<>> /\ node.id \in Term /\ node.retry_lower = 0 /\ node.cause_reduce = 0
    BY IdAssumption DEF Blank
  <2>3. /\ EnterParser(node, k) /\ pc = "scan" /\ k \in Int
        /\ UNCHANGED <<stack, accum_ignore, red_lel, pda_cs, parse_error, stop,
                       on_deck, check_next, check_stop>>
    BY <1>0, <1>2 DEF ScanEof, MakeSteps
  <2> HIDE DEF node, k
  <2>4. QED BY <2>1, <2>2, <2>3, EnterParserPath
<1>3. CASE ScanTree
  <2> DEFINE node == [Blank EXCEPT !.id = ItemId[Head(input)], !.artificial = TRUE,
                                   !.text = <<Head(input)>>]
  <2>1. ItemId[Head(input)] \in Term /\ <<Head(input)>> \in Seq(Item)
    BY <1>0, <1>3, TreeItemType DEF ScanTree, Item
  <2>2. node \in Node
    BY <2>1, BlankType DEF Node, Id
  <2>3. node.child = <<>> /\ node.id \in Term /\ node.retry_lower = 0 /\ node.cause_reduce = 0
    BY <2>1 DEF Blank
  <2>4. /\ EnterParser(node, rc_block_count) /\ pc = "scan" /\ rc_block_count \in Int
        /\ UNCHANGED <<stack, accum_ignore, red_lel, pda_cs, parse_error, stop,
                       on_deck, check_next, check_stop>>
    BY <1>0, <1>3 DEF ScanTree
  <2> HIDE DEF node
  <2>5. QED BY <2>2, <2>3, <2>4, EnterParserPath
<1>4. CASE ScanToken
  <2>1. PICK t \in Matches :
          EnterParser([Blank EXCEPT !.id = t.id, !.retry_region = RetryRegion,
                                    !.text = Taken(MatchLen(t))], rc_block_count)
    BY <1>4 DEF ScanToken
  <2> DEFINE node == [Blank EXCEPT !.id = t.id, !.retry_region = RetryRegion,
                                   !.text = Taken(MatchLen(t))]
  <2>2. /\ t.id \in Term /\ Taken(MatchLen(t)) \in Seq(Item) /\ RetryRegion \in Nat
    <3>1. pc = "scan"
      BY <1>4 DEF ScanToken
    <3>2. QED BY <1>0, <3>1, MatchType, RetryRegionType
  <2>3. node \in Node
    BY <2>2, BlankType DEF Node, Id
  <2>4. node.child = <<>> /\ node.id \in Term /\ node.retry_lower = 0 /\ node.cause_reduce = 0
    BY <2>2 DEF Blank
  <2>5. EnterParser(node, rc_block_count)
    BY <2>1
  <2>6. /\ pc = "scan"
        /\ UNCHANGED <<stack, accum_ignore, red_lel, pda_cs, parse_error, stop,
                       on_deck, check_next, check_stop>>
    BY <1>4 DEF ScanToken
  <2> HIDE DEF node
  <2>7. QED BY <1>0, <2>3, <2>4, <2>5, <2>6, EnterParserPath
<1>5. QED BY <1>1, <1>2, <1>3, <1>4

\* The scanning of ignored text.
LEMMA IgnoredPath ==
  ASSUME LInv, ScanIgnoreTree \/ ScanIgnore
  PROVE  InputInv' /\ FlowInv' /\ PathInv'
<1>0. IInv
  BY DEF LInv
<1>1. CASE ScanIgnoreTree
  <2> DEFINE node == [Blank EXCEPT !.id = ItemId[Head(input)], !.artificial = TRUE,
                                   !.text = <<Head(input)>>]
  <2>1. ItemId[Head(input)] \in Id /\ <<Head(input)>> \in Seq(Item)
    BY <1>0, <1>1, TreeItemType DEF ScanIgnoreTree, Item, Id
  <2>2. node \in Node
    BY <2>1, BlankType DEF Node
  <2>3. node.child = <<>> /\ node.cause_reduce = 0
    BY DEF Blank
  <2>4. Ignore(node) /\ pc = "scan"
    BY <1>1 DEF ScanIgnoreTree
  <2> HIDE DEF node
  <2>5. QED BY <2>2, <2>3, <2>4, IgnorePath
<1>2. CASE ScanIgnore
  <2>1. PICK t \in Matches :
          Ignore([Blank EXCEPT !.id = t.id, !.right_flag = (pre_region >= 0),
                               !.text = Taken(MatchLen(t))])
    BY <1>2 DEF ScanIgnore
  <2> DEFINE m == [Blank EXCEPT !.id = t.id, !.right_flag = (pre_region >= 0),
                                !.text = Taken(MatchLen(t))]
  <2>2. /\ t.id \in Id /\ Taken(MatchLen(t)) \in Seq(Item)
        /\ (pre_region >= 0) \in BOOLEAN
    <3>1. pc = "scan"
      BY <1>2 DEF ScanIgnore
    <3>2. QED BY <1>0, <3>1, MatchType DEF Id
  <2>3. m \in Node
    BY <2>2, BlankType DEF Node
  <2>4. m.child = <<>> /\ m.cause_reduce = 0
    BY DEF Blank
  <2>5. Ignore(m) /\ pc = "scan"
    BY <1>2, <2>1 DEF ScanIgnore
  <2> HIDE DEF m
  <2>6. QED BY <2>3, <2>4, <2>5, IgnorePath
<1>3. QED BY <1>1, <1>2

\* What is left in the input when its front is shifted still waits.
LEMMA TailWaits ==
  ASSUME LInv, parse_input # <<>>
  PROVE  /\ Tail(parse_input) \in Seq(Ref)
         /\ Len(Tail(parse_input)) = Len(parse_input) - 1
         /\ \A i \in DOMAIN Tail(parse_input) :
              /\ Tail(parse_input)[i] \in Ref /\ Tail(parse_input)[i] # Lel
              /\ Tail(parse_input)[i] = parse_input[i + 1]
              /\ Waiting(Tail(parse_input)[i])
<1> DEFINE inp == parse_input
<1>1. inp \in Seq(Ref) /\ inp # <<>> /\ IsInjective(inp)
  BY ListTypes DEF LInv, ListsInv, OneOwner, Apart
<1>2. \A i \in DOMAIN inp : i > 1 => Waiting(inp[i])
  BY DEF LInv, InputInv
<1> HIDE DEF inp
<1>3. Tail(inp) \in Seq(Ref) /\ Len(Tail(inp)) = Len(inp) - 1 /\ Head(inp) = inp[1]
      /\ 1 \in DOMAIN inp
  BY <1>1
<1>4. ASSUME NEW i \in DOMAIN Tail(inp)
      PROVE  /\ Tail(inp)[i] \in Ref /\ Tail(inp)[i] # Head(inp)
             /\ Tail(inp)[i] = inp[i + 1] /\ Waiting(Tail(inp)[i])
  <2>1. i + 1 \in DOMAIN inp /\ Tail(inp)[i] = inp[i + 1] /\ i + 1 > 1
    BY <1>1, <1>3
  <2>2. inp[i + 1] # inp[1]
    BY <1>1, <1>3, <2>1 DEF IsInjective
  <2>3. QED BY <1>1, <1>2, <1>3, <2>1, <2>2
<1>5. QED BY <1>3, <1>4 DEF inp, Lel

\* The node that is shifted lengthens the path by its own transition.
LEMMA ShiftedPath ==
  ASSUME LInv, pc = "again", parse_input # <<>>, HasTrans(pda_cs, pt[Lel].id),
         NEW cut \in RightCuts(pt, accum_ignore),
         NEW q, q = ShiftPt(cut)
  PROVE  /\ Path(q, <<Lel>> \o stack) /\ stack_top_target(q, <<Lel>> \o stack) = Tr.targ
         /\ \A r \in Ref : Linked(q, q[r].child)
         /\ \A r \in Ref : r # Lel => SameCore(pt[r], q[r])
         /\ q[Lel].id = pt[Lel].id /\ q[Lel].cause_reduce = pt[Lel].cause_reduce
         /\ ~MoreActs => q[Lel].retry_lower = 0
<1>0. IInv /\ ListsInv /\ ChildInv
  BY DEF LInv, PathInv
<1>3. /\ \A r \in Ref : r # Lel => SameCore(pt[r], q[r])
      /\ q[Lel].id = pt[Lel].id /\ q[Lel].child = pt[Lel].child
      /\ q[Lel].cause_reduce = pt[Lel].cause_reduce /\ q[Lel].state = pda_cs
      /\ ~MoreActs => q[Lel].retry_lower = 0
  BY <1>0, ShiftPtCore
<1>4. Lel \in Ref /\ Lel \in ToSet(parse_input)
  <2>1. parse_input \in Seq(Ref)
    BY <1>0, ListTypes
  <2>2. QED BY <1>0, <2>1, LelType, LelInput
<1>5. Lel \notin ToSet(stack) /\ \A r \in Ref : Lel \notin ToSet(pt[r].child)
  BY <1>0, <1>4, OffStack
<1>6. Agree(pt, q, Ref \ {Lel})
  BY <1>3 DEF Agree, SameCore
<1>7. /\ Path(pt, stack) /\ pda_cs = stack_top_target(pt, stack)
      /\ Based(pt, Lel, stack_top_target(pt, stack))
  BY DEF LInv, FlowInv, PathInv, StackInv, LelInv
<1>8. /\ stack_top_target(q, stack) = pda_cs /\ Path(q, stack)
      /\ \A r \in Ref \ {Lel} : Linked(q, q[r].child)
      /\ Linked(q, pt[Lel].child)
      /\ Based(q, Lel, pda_cs)
  BY <1>0, <1>3, <1>4, <1>5, <1>6, <1>7, OneCellPath
<1>9. Settled(q, Lel) /\ Target(q, Lel) = Tr.targ
  BY <1>3, <1>8 DEF Settled, Found, Target, Tr
<1>10. Path(q, <<Lel>> \o stack) /\ stack_top_target(q, <<Lel>> \o stack) = Tr.targ
  BY <1>0, <1>3, <1>4, <1>8, <1>9, ListTypes, PathCons
<1>11. \A r \in Ref : Linked(q, q[r].child)
  BY <1>3, <1>8
<1>12. QED BY <1>3, <1>10, <1>11

LEMMA ShiftPath ==
  ASSUME LInv, Shift
  PROVE  InputInv' /\ FlowInv' /\ PathInv'
<1>0. IInv /\ ListsInv /\ ChildInv
  BY DEF LInv, PathInv
<1>1. /\ pc = "again" /\ pc' = "again" /\ parse_input # <<>>
      /\ HasTrans(pda_cs, pt[Lel].id) /\ pda_cs' = Trans[<<pda_cs, pt[Lel].id>>].targ
      /\ stack' = <<Lel>> \o stack /\ parse_input' = Tail(parse_input)
      /\ accum_ignore' = ShiftAccum
      /\ UNCHANGED <<red_lel, on_deck, check_next, check_stop, stop, parse_error>>
  BY DEF Shift, Tr
<1>2. PICK cut \in RightCuts(pt, accum_ignore) : pt' = ShiftPt(cut)
  BY DEF Shift
<1>3. /\ Path(pt', stack') /\ stack_top_target(pt', stack') = pda_cs'
      /\ \A r \in Ref : Linked(pt', pt'[r].child)
      /\ \A r \in Ref : r # Lel => SameCore(pt[r], pt'[r])
      /\ pt'[Lel].id = pt[Lel].id /\ pt'[Lel].cause_reduce = pt[Lel].cause_reduce
  BY <1>1, <1>2, ShiftedPath DEF Tr
<1>7. ~parse_error /\ ~stop /\ ~on_deck /\ ~check_next /\ red_lel = <<>>
  BY <1>1 DEF LInv, FlowInv, ListsInv
<1>10. ChildInv'
  BY <1>3 DEF ChildInv
<1>13. FlowInv'
  BY <1>1, <1>7 DEF FlowInv
<1>14. \A i \in DOMAIN parse_input' :
         /\ parse_input'[i] \in Ref /\ parse_input'[i] # Lel
         /\ pt'[parse_input'[i]].id \in Term
         /\ pt'[parse_input'[i]].retry_lower = 0
         /\ pt'[parse_input'[i]].cause_reduce > 0
  BY <1>1, <1>3, TailWaits DEF SameCore, Waiting
<1>15. parse_input' \in Seq(Ref) /\ (parse_input' # <<>> => 1 \in DOMAIN parse_input'
         /\ Head(parse_input') = parse_input'[1])
  BY <1>1, TailWaits
<1>16. InputInv'
  <2>1. \A r \in Ref : pt'[r].cause_reduce >= 0
    BY <1>3 DEF LInv, InputInv, SameCore
  <2>2. accum_ignore' # <<>> => parse_input' # <<>> /\ pt'[Head(parse_input')].id \in Term
    <3>1. ASSUME accum_ignore' # <<>> PROVE Len(parse_input) > 1
      BY <1>1, <3>1 DEF ShiftAccum, LInv, InputInv, IsTerm
    <3>2. Len(parse_input) > 1 => parse_input' # <<>>
      <4>1. Len(parse_input') = Len(parse_input) - 1
        BY <1>1, TailWaits
      <4>2. Len(parse_input) \in Nat
        BY <1>0, ListTypes
      <4>3. Len(parse_input) > 1 => Len(parse_input') # 0
        BY <4>1, <4>2
      <4>4. QED BY <4>3
    <3>3. QED BY <1>14, <1>15, <3>1, <3>2
  <2>3. QED BY <1>1, <1>14, <2>1, <2>2 DEF InputInv, Waiting, IsTerm, Lel
<1>17. LelInv'
  <2>1. ASSUME parse_input' # <<>>
        PROVE  pt'[Head(parse_input')].id \in Term /\ pt'[Head(parse_input')].retry_lower = 0
    BY <1>14, <1>15, <2>1
  <2>2. QED BY <2>1 DEF LelInv, Based, IsTerm, Lel
<1>18. QED
  BY <1>1, <1>3, <1>7, <1>10, <1>13, <1>16, <1>17 DEF PathInv, StackInv, RedInv

\* What the tables say of a reduction: a plain one is done on a terminal, a
\* shift-reduce has no alternatives and takes at least the node it shifts.
LEMMA ReduceTable ==
  ASSUME IInv, parse_input # <<>>, HasTrans(pda_cs, pt[Lel].id), Act.prod # 0
  PROVE  /\ ~Act.shift => IsTerm(Lel)
         /\ Act.shift => ~MoreActs /\ Prod[Act.prod].len > 0
<1> DEFINE k == <<pda_cs, pt[Lel].id>>
           rl == pt[Lel].retry_lower
           acts == Trans[k].acts
<1>1. rl \in Nat /\ k \in DOMAIN Trans /\ k[2] = pt[Lel].id /\ k[2] \in Term \cup NonTerm
  BY LelType, TransType DEF HasTrans, Node, Id
<1>2. acts \in Seq(Action)
  BY <1>1, TableAssumption
<1>3. Act = (IF rl < Len(acts) THEN acts[rl + 1] ELSE NoAction)
  BY DEF Act, ActAt, Tr
<1>4. MoreActs <=> (IF rl + 1 < Len(acts) THEN acts[rl + 2] ELSE NoAction) # NoAction
  <2>1. (rl + 1) + 1 = rl + 2
    BY <1>1
  <2>2. QED BY <2>1 DEF MoreActs, ActAt, Tr
<1>5. /\ k[2] \in NonTerm \/ (\E i \in DOMAIN acts : ShiftReduce(acts[i]))
           => Len(acts) = 1 /\ acts[1].shift
      /\ \A i \in DOMAIN acts : ShiftReduce(acts[i]) => Prod[acts[i].prod].len > 0
  BY <1>1, TableAssumption
<1>6. rl < Len(acts) /\ Act = acts[rl + 1]
  BY <1>3 DEF NoAction
<1>7. rl + 1 \in DOMAIN acts
  BY <1>1, <1>2, <1>6
<1> HIDE DEF acts, rl, k
<1>8. ASSUME ~Act.shift PROVE IsTerm(Lel)
  <2>1. ASSUME k[2] \in NonTerm PROVE FALSE
    <3>1. Len(acts) = 1 /\ acts[1].shift
      BY <1>5, <2>1
    <3>2. rl = 0 /\ rl + 1 = 1
      BY <1>1, <1>6, <3>1
    <3>3. QED BY <1>6, <1>8, <3>1, <3>2
  <2>2. QED BY <1>1, <2>1 DEF IsTerm
<1>9. ASSUME Act.shift PROVE ~MoreActs /\ Prod[Act.prod].len > 0
  <2>1. ShiftReduce(acts[rl + 1])
    BY <1>6, <1>9 DEF ShiftReduce
  <2>2. Len(acts) = 1
    BY <1>5, <1>7, <2>1
  <2>3. ~(rl + 1 < Len(acts))
    BY <1>1, <2>2
  <2>4. QED BY <1>4, <1>5, <1>6, <1>7, <2>1, <2>3
<1>10. QED BY <1>8, <1>9

\* The stack before a reduction: the path, with the node shifted first if the action
\* is a shift-reduce.
LEMMA ReadyPath ==
  ASSUME LInv, pc = "again", parse_input # <<>>, HasTrans(pda_cs, pt[Lel].id), Act.prod # 0,
         NEW cut \in RightCuts(pt, accum_ignore),
         NEW q, q = ReducePt(cut)
  PROVE  /\ Path(q, ReduceStack)
         /\ ~Act.shift => ReduceStack = stack /\ stack_top_target(q, stack) = pda_cs
         /\ \A x \in Ref : Linked(q, q[x].child)
         /\ \A x \in Ref : x # Lel => SameCore(pt[x], q[x])
         /\ q[Lel].id = pt[Lel].id /\ q[Lel].cause_reduce = pt[Lel].cause_reduce
<1>0. IInv
  BY DEF LInv
<1>1. CASE Act.shift
  <2>1. q = ShiftPt(cut) /\ ReduceStack = <<Lel>> \o stack
    BY <1>1 DEF ReducePt, ReduceStack
  <2>2. QED BY <1>1, <2>1, ShiftedPath
<1>2. CASE ~Act.shift
  <2>1. /\ Path(pt, stack) /\ stack_top_target(pt, stack) = pda_cs /\ ChildInv
    BY DEF LInv, FlowInv, PathInv, StackInv
  <2>2. q = attach_right_ignore(pt, stack, accum_ignore, cut) \/ q = pt
    BY <1>2 DEF ReducePt
  <2>3. \A x \in Ref : SameCore(pt[x], q[x])
    BY <1>0, <2>2, ListTypes, AttachCore DEF SameCore
  <2>4. /\ Path(q, stack) /\ stack_top_target(q, stack) = pda_cs
        /\ \A x \in Ref : Linked(q, q[x].child)
    BY <1>0, <2>1, <2>3, ListTypes, CorePath DEF ChildInv
  <2>5. Lel \in Ref
    BY <1>0, LelType
  <2>6. ReduceStack = stack
    BY <1>2 DEF ReduceStack
  <2>7. QED BY <1>2, <2>3, <2>4, <2>5, <2>6 DEF SameCore
<1>3. QED BY <1>1, <1>2

\* The input is told of the reduction, and Lel's retry goes with it.
CausedCore(q, p) ==
  \A x \in Ref : /\ p[x].id = q[x].id /\ p[x].state = q[x].state /\ p[x].child = q[x].child
                 /\ p[x].cause_reduce >= q[x].cause_reduce
                 /\ p[x].retry_lower = q[x].retry_lower

LEMMA CausedFields ==
  ASSUME NEW q \in [Ref -> Node], ReduceInput \in Seq(Ref), NEW p, p = Caused(q)
  PROVE  /\ p \in [Ref -> Node] /\ CausedCore(q, p)
         /\ ReduceInput # <<>> =>
              p[Head(ReduceInput)].cause_reduce = q[Head(ReduceInput)].cause_reduce + 1
<1>1. \A x \in Ref : q[x].cause_reduce \in Int
  BY DEF Node
<1>2. CASE ReduceInput # <<>>
  <2> DEFINE x == Head(ReduceInput)
             n == [q[x] EXCEPT !.cause_reduce = @ + 1]
  <2>1. x \in Ref /\ q[x] \in Node
    BY <1>2, HeadTailType
  <2>2. n \in Node
    BY <2>1, CauseType
  <2>3. /\ n.id = q[x].id /\ n.state = q[x].state /\ n.child = q[x].child
        /\ n.cause_reduce = q[x].cause_reduce + 1 /\ n.retry_lower = q[x].retry_lower
    BY <2>1 DEF Node
  <2>4. p = [q EXCEPT ![x] = n]
    BY <1>2 DEF Caused
  <2> HIDE DEF n, x
  <2>5. p \in [Ref -> Node] /\ p[x] = n /\ \A y \in Ref : y # x => p[y] = q[y]
    BY <2>1, <2>2, <2>4
  <2>6. CausedCore(q, p)
    <3>1. ASSUME NEW y \in Ref
          PROVE  /\ p[y].id = q[y].id /\ p[y].state = q[y].state
                 /\ p[y].child = q[y].child /\ p[y].cause_reduce >= q[y].cause_reduce
                 /\ p[y].retry_lower = q[y].retry_lower
      <4>1. q[y].cause_reduce \in Int
        BY <1>1
      <4>2. CASE y = x
        BY <2>3, <2>5, <4>1, <4>2
      <4>3. CASE y # x
        BY <2>5, <4>1, <4>3
      <4>4. QED BY <4>2, <4>3
    <3>2. QED BY <3>1 DEF CausedCore
  <2>7. p[x].cause_reduce = q[x].cause_reduce + 1
    BY <2>3, <2>5
  <2>8. QED BY <2>5, <2>6, <2>7 DEF x
<1>3. CASE ReduceInput = <<>>
  <2>1. p = q
    BY <1>3 DEF Caused
  <2>2. QED BY <1>1, <1>3, <2>1 DEF CausedCore
<1>4. QED BY <1>2, <1>3

\* What causes a reduction waits for it to be finished.
LEMMA InputWaits ==
  ASSUME LInv, pc = "again", parse_input # <<>>, HasTrans(pda_cs, pt[Lel].id), Act.prod # 0
  PROVE  /\ ReduceInput \in Seq(Ref)
         /\ \A i \in DOMAIN ReduceInput :
              /\ ReduceInput[i] \in Ref /\ pt[ReduceInput[i]].id \in Term
              /\ i > 1 => Waiting(ReduceInput[i])
              /\ Act.shift => Waiting(ReduceInput[i]) /\ ReduceInput[i] # Lel
              /\ ~Act.shift /\ i > 1 => ReduceInput[i] # Lel
         /\ ~Act.shift => ReduceInput = parse_input
         /\ Act.shift => Len(ReduceInput) = Len(parse_input) - 1
<1>0. IInv
  BY DEF LInv
<1>1. CASE Act.shift
  <2>1. ReduceInput = Tail(parse_input)
    BY <1>1 DEF ReduceInput
  <2>2. QED BY <1>1, <2>1, TailWaits DEF Waiting
<1>2. CASE ~Act.shift
  <2>1. ReduceInput = parse_input /\ IsTerm(Lel)
    BY <1>0, <1>2, ReduceTable DEF ReduceInput
  <2>2. parse_input \in Seq(Ref)
    BY <1>0, ListTypes
  <2>3. ASSUME NEW i \in DOMAIN parse_input
        PROVE  /\ parse_input[i] \in Ref /\ pt[parse_input[i]].id \in Term
               /\ i > 1 => Waiting(parse_input[i]) /\ parse_input[i] # Lel
    <3>1. CASE i = 1
      BY <2>1, <2>2, <3>1 DEF IsTerm, Lel
    <3>2. CASE i # 1
      <4>1. i > 1 /\ i - 1 \in DOMAIN Tail(parse_input) /\ (i - 1) + 1 = i
        BY <2>2, <3>2
      <4>2. QED BY <2>2, <4>1, TailWaits DEF Waiting
    <3>3. QED BY <3>1, <3>2
  <2>4. QED BY <1>2, <2>1, <2>2, <2>3
<1>3. QED BY <1>1, <1>2

LEMMA ReducePath ==
  ASSUME LInv, Reduce
  PROVE  InputInv' /\ FlowInv' /\ PathInv'
<1>0. IInv /\ ListsInv
  BY DEF LInv
<1>1. /\ pc = "again" /\ parse_input # <<>> /\ HasTrans(pda_cs, pt[Lel].id) /\ Act.prod # 0
      /\ UNCHANGED <<on_deck, check_next, check_stop, stop, parse_error>>
  BY DEF Reduce
<1>2. PICK cut \in RightCuts(pt, accum_ignore), r \in Ref :
       LET p == Caused(ReducePt(cut))
       IN /\ Fresh(r) /\ live' = live \cup {r}
          /\ pt' = [[p EXCEPT ![Lel].retry_lower = 0] EXCEPT ![r] = Reduction(p[Lel])]
          /\ accum_ignore' = ReduceAccum(cut)
          /\ pda_cs' = IF Children = <<>> THEN pda_cs ELSE p[Children[1]].state
          /\ IF Prod[Act.prod].frame = 0
             THEN /\ parse_input' = <<r>> \o ReduceInput
                  /\ UNCHANGED <<red_lel, pc>>
             ELSE /\ parse_input' = ReduceInput
                  /\ red_lel' = <<r, Prod[Act.prod].frame>> /\ pc' = "reduction"
  BY DEF Reduce
<1> DEFINE len == Prod[Act.prod].len
           q == ReducePt(cut)
           p == Caused(q)
           n == [p[Lel] EXCEPT !.retry_lower = 0]
           m == Reduction(p[Lel])
           b == SubSeq(ReduceStack, len + 1, Len(ReduceStack))
           c == Reverse(SubSeq(ReduceStack, 1, len))
<1>3. /\ q \in [Ref -> Node] /\ ReduceStack \in Seq(Ref) /\ ReduceInput \in Seq(Ref)
      /\ Lel \in Ref
  BY <1>0, <1>1, ReducePtType, LelType
<1>4. Apart(q, ReduceStack, ReduceInput, ReduceAccum(cut), {}, live)
  BY <1>0, <1>1, ReduceApart
<1>5. /\ Path(q, ReduceStack)
      /\ ~Act.shift => ReduceStack = stack /\ stack_top_target(q, stack) = pda_cs
      /\ \A x \in Ref : Linked(q, q[x].child)
      /\ \A x \in Ref : x # Lel => SameCore(pt[x], q[x])
      /\ q[Lel].id = pt[Lel].id /\ q[Lel].cause_reduce = pt[Lel].cause_reduce
  BY <1>1, ReadyPath
<1>6. /\ p \in [Ref -> Node] /\ CausedCore(q, p)
      /\ ReduceInput # <<>> =>
           p[Head(ReduceInput)].cause_reduce = q[Head(ReduceInput)].cause_reduce + 1
  BY <1>3, CausedFields
<1>7. /\ pt' = [[p EXCEPT ![Lel] = n] EXCEPT ![r] = m]
      /\ r \notin live /\ stack' = b /\ accum_ignore' = ReduceAccum(cut)
      /\ pda_cs' = IF c = <<>> THEN pda_cs ELSE p[c[1]].state
  BY <1>2 DEF Fresh, Reduce, Children
<1>8. len \in 0..Len(ReduceStack)
  <2>1. pt[Lel].retry_lower \in Nat
    BY <1>0, <1>1, LelType DEF Node
  <2>2. Act.prod \in DOMAIN Prod
    BY <1>0, <1>1, <2>1, ActType DEF Act
  <2>3. QED BY <1>3, <2>2, TableAssumption DEF Reduce
<1>9. m.child = c /\ m.retry_lower = 0 /\ m.cause_reduce = 0
  BY DEF Reduction, Children, Blank
<1>10. len = 0 => ~Act.shift
  BY <1>0, <1>1, ReduceTable
<1> HIDE DEF p
<1>11. /\ n.id = p[Lel].id /\ n.state = p[Lel].state /\ n.child = p[Lel].child
       /\ n.cause_reduce = p[Lel].cause_reduce /\ n.retry_lower = 0
  <2>1. p[Lel] \in Node
    BY <1>3, <1>6
  <2>2. QED BY <2>1 DEF Node
<1> HIDE DEF n, m, q, len
<1>12. /\ pt'[r] = m
       /\ r # Lel => pt'[Lel] = n
       /\ \A x \in Ref : x # r /\ x # Lel => pt'[x] = p[x]
  BY <1>3, <1>6, <1>7
<1>13. /\ r \notin ToSet(ReduceStack) /\ r \notin ToSet(ReduceInput)
       /\ \A x \in Ref : r \notin ToSet(q[x].child)
  BY <1>4, <1>7 DEF Apart, SetsApart, Held
<1>14. r # Lel
  <2>1. Lel \in ToSet(parse_input)
    <3>1. parse_input \in Seq(Ref)
      BY <1>0, ListTypes
    <3>2. QED BY <1>1, <3>1, LelInput
  <2>2. Lel \in live
    BY <1>0, <2>1 DEF ListsInv, OneOwner, Apart, SetsApart
  <2>3. QED BY <1>7, <2>2
<1> DEFINE S == Ref \ {r}
<1>15. Agree(q, pt', S)
  <2>1. ASSUME NEW x \in S
        PROVE  pt'[x].id = q[x].id /\ pt'[x].state = q[x].state /\ pt'[x].child = q[x].child
    <3>1. CASE x = Lel
      BY <1>6, <1>11, <1>12, <3>1 DEF CausedCore
    <3>2. CASE x # Lel
      BY <1>6, <1>12, <3>2 DEF CausedCore
    <3>3. QED BY <3>1, <3>2
  <2>2. QED BY <2>1 DEF Agree
<1>16. \A x \in Ref : q[x].child \in Seq(Ref) /\ ToSet(q[x].child) \subseteq S
  BY <1>3, <1>13, NodeSeqs, SetType
<1>17. ToSet(ReduceStack) \subseteq S
  BY <1>3, <1>13, SetType
<1>18. \A stk \in Seq(Ref) : ToSet(stk) \subseteq S =>
         /\ stack_top_target(pt', stk) = stack_top_target(q, stk)
         /\ Path(q, stk) => Path(pt', stk)
         /\ Linked(q, stk) => Linked(pt', stk)
  <2>1. S \in SUBSET Ref /\ \A x \in S : ToSet(q[x].child) \subseteq S
    BY <1>16
  <2>2. QED BY <1>3, <1>15, <2>1, AgreePath
<1>19. Path(pt', ReduceStack)
  BY <1>3, <1>5, <1>17, <1>18
<1>20. /\ Path(pt', b) /\ Linked(pt', c)
       /\ c # <<>> => pt'[c[1]].state = stack_top_target(pt', b)
       /\ c = <<>> => b = ReduceStack
  BY <1>3, <1>8, <1>19, PathSplit
<1>21. c \in Seq(Ref) /\ ToSet(c) \subseteq S /\ (c = <<>> => len = 0)
  <2>1. SubSeq(ReduceStack, 1, len) \in Seq(Ref) /\ Len(SubSeq(ReduceStack, 1, len)) = len
    BY <1>3, <1>8
  <2>2. c \in Seq(Ref) /\ Len(c) = len
    BY <2>1, ReverseType DEF Reverse
  <2>3. ToSet(c) \subseteq ToSet(ReduceStack)
    <3>1. ToSet(c) = ToSet(SubSeq(ReduceStack, 1, len))
      BY <2>1, ReverseSet
    <3>2. ToSet(SubSeq(ReduceStack, 1, len)) \subseteq ToSet(ReduceStack)
      <4> DEFINE rs == ReduceStack
      <4>1. rs \in Seq(Ref) /\ len \in 0..Len(rs)
        BY <1>3, <1>8
      <4> HIDE DEF rs
      <4>2. ToSet(rs) = ToSet(SubSeq(rs, 1, len)) \cup ToSet(SubSeq(rs, len + 1, Len(rs)))
        BY <4>1, SplitSet
      <4>3. QED BY <4>2 DEF rs
    <3>3. QED BY <3>1, <3>2
  <2>4. QED BY <1>17, <2>2, <2>3
<1> HIDE DEF b, c, S
<1>22. stack_top_target(pt', b) = pda_cs'
  <2>1. CASE c = <<>>
    <3>1. b = stack /\ ReduceStack = stack /\ stack_top_target(q, stack) = pda_cs
      BY <1>5, <1>10, <1>20, <1>21, <2>1
    <3>2. QED BY <1>3, <1>7, <1>17, <1>18, <2>1, <3>1
  <2>2. CASE c # <<>>
    <3>1. c[1] \in S /\ c[1] \in Ref
      BY <1>21, <2>2, InSet DEF S
    <3>2. pt'[c[1]].state = p[c[1]].state
      BY <1>6, <1>15, <3>1 DEF Agree, CausedCore
    <3>3. QED BY <1>7, <1>20, <2>2, <3>2
  <2>3. QED BY <2>1, <2>2
<1>23. ChildInv'
  <2>1. ASSUME NEW x \in Ref PROVE Linked(pt', pt'[x].child)
    <3>1. CASE x = r
      BY <1>9, <1>12, <1>20, <3>1
    <3>2. CASE x # r
      <4>1. pt'[x].child = q[x].child
        BY <1>15, <3>2 DEF Agree, S
      <4>2. QED BY <1>5, <1>16, <1>18, <4>1
    <3>3. QED BY <3>1, <3>2
  <2>2. QED BY <2>1 DEF ChildInv
<1>24. Based(pt', r, stack_top_target(pt', b)) /\ pt'[r].retry_lower = 0
  BY <1>9, <1>12, <1>20 DEF Based
<1>25. ASSUME NEW i \in DOMAIN ReduceInput
       PROVE  /\ pt'[ReduceInput[i]].id \in Term
              /\ pt'[ReduceInput[i]].retry_lower = 0
              /\ pt'[ReduceInput[i]].cause_reduce > 0
  <2> DEFINE x == ReduceInput[i]
  <2>1. /\ x \in Ref /\ pt[x].id \in Term /\ (i > 1 => Waiting(x))
        /\ Act.shift => Waiting(x) /\ x # Lel
        /\ ~Act.shift /\ i > 1 => x # Lel
        /\ ~Act.shift => ReduceInput = parse_input
    BY <1>1, InputWaits
  <2>2. x # r
    BY <1>3, <1>13, InSet
  <2>3. i \in Nat /\ i >= 1 /\ (i = 1 => x = Head(ReduceInput)) /\ ReduceInput # <<>>
    BY <1>3
  <2> HIDE DEF x
  <2>4. p[x].cause_reduce \in Int /\ q[x].cause_reduce \in Int
    <3>1. p[x] \in Node /\ q[x] \in Node
      BY <1>3, <1>6, <2>1
    <3>2. QED BY <3>1 DEF Node
  <2>5. p[x].id = q[x].id /\ p[x].cause_reduce >= q[x].cause_reduce
        /\ p[x].retry_lower = q[x].retry_lower
    BY <1>6, <2>1 DEF CausedCore
  <2>6. CASE x = Lel
    <3>1. i = 1 /\ x = Head(ReduceInput)
      BY <2>1, <2>3, <2>6
    <3>2. p[x].cause_reduce = q[x].cause_reduce + 1
      BY <1>6, <2>3, <3>1
    <3>3. q[x].cause_reduce >= 0
      BY <1>5, <2>1, <2>6 DEF LInv, InputInv
    <3>4. pt'[x] = n
      BY <1>12, <1>14, <2>6
    <3>5. QED BY <1>5, <1>11, <2>1, <2>4, <2>5, <2>6, <3>2, <3>3, <3>4 DEF x
  <2>7. CASE x # Lel
    <3>1. Waiting(x)
      <4>1. CASE Act.shift
        BY <2>1, <4>1
      <4>2. CASE ~Act.shift
        <5>1. i # 1
          BY <2>1, <2>3, <2>7, <4>2 DEF Lel
        <5>2. QED BY <2>1, <2>3, <5>1
      <4>3. QED BY <4>1, <4>2
    <3>2. pt'[x] = p[x]
      BY <1>12, <2>1, <2>2, <2>7
    <3>3. SameCore(pt[x], q[x])
      BY <1>5, <2>1, <2>7
    <3>4. QED BY <2>4, <2>5, <3>1, <3>2, <3>3 DEF x, SameCore, Waiting
  <2>8. QED BY <2>6, <2>7
<1>26. accum_ignore' # <<>> => ReduceInput # <<>>
  <2>1. CASE ~Act.shift
    BY <1>1, <2>1, InputWaits
  <2>2. CASE Act.shift
    <3>1. ASSUME accum_ignore' # <<>> PROVE Len(parse_input) > 1
      BY <1>1, <1>7, <2>2, <3>1 DEF ReduceAccum, ShiftAccum, LInv, InputInv, IsTerm
    <3>2. Len(ReduceInput) = Len(parse_input) - 1 /\ Len(parse_input) \in Nat
      BY <1>0, <1>1, <2>2, InputWaits, ListTypes
    <3>3. Len(parse_input) > 1 => Len(ReduceInput) # 0
      <4>1. \A i \in Nat : i > 1 => i - 1 # 0
        OBVIOUS
      <4>2. QED BY <3>2, <4>1
    <3>4. QED BY <3>1, <3>3
  <2>3. QED BY <2>1, <2>2
<1>27. \A x \in Ref : pt'[x].cause_reduce >= 0
  <2>1. ASSUME NEW x \in Ref PROVE pt'[x].cause_reduce >= 0
    <3>1. q[x].cause_reduce = pt[x].cause_reduce /\ pt[x].cause_reduce >= 0
      BY <1>5 DEF LInv, InputInv, SameCore
    <3>2. p[x].cause_reduce \in Int /\ pt[x].cause_reduce \in Int
      <4>1. p[x] \in Node /\ pt[x] \in Node
        BY <1>0, <1>6, ListTypes
      <4>2. QED BY <4>1 DEF Node
    <3>3. p[x].cause_reduce >= q[x].cause_reduce
      BY <1>6 DEF CausedCore
    <3>4. p[x].cause_reduce >= 0
      BY <3>1, <3>2, <3>3
    <3>5. pt'[x].cause_reduce \in {0, p[x].cause_reduce}
      BY <1>9, <1>11, <1>12
    <3>6. QED BY <3>4, <3>5
  <2>2. QED BY <2>1
<1>28. ~parse_error /\ ~stop /\ ~on_deck /\ ~check_next /\ red_lel = <<>>
  BY <1>0, <1>1 DEF LInv, FlowInv, ListsInv
<1>29. /\ stack' = b
       /\ \/ pc' = "again" /\ parse_input' = <<r>> \o ReduceInput /\ red_lel' = <<>>
          \/ pc' = "reduction" /\ parse_input' = ReduceInput /\ red_lel'[1] = r
  BY <1>1, <1>2, <1>7, <1>28
<1>30. FlowInv'
  BY <1>1, <1>28, <1>29 DEF FlowInv
<1>31. StackInv'
  BY <1>20, <1>22, <1>29 DEF StackInv
<1>32. ReduceInput # <<>> => 1 \in DOMAIN ReduceInput /\ Head(ReduceInput) = ReduceInput[1]
  BY <1>3
<1>33. RedInv'
  BY <1>24, <1>29 DEF RedInv
<1>34. CASE pc' = "again"
  <2>1. /\ parse_input' = <<r>> \o ReduceInput /\ Head(parse_input') = r
        /\ Len(parse_input') = Len(ReduceInput) + 1 /\ parse_input' # <<>>
        /\ \A i \in DOMAIN parse_input' :
             i > 1 => i - 1 \in DOMAIN ReduceInput /\ parse_input'[i] = ReduceInput[i - 1]
    <3>1. parse_input' = <<r>> \o ReduceInput
      BY <1>29, <1>34
    <3>2. QED BY <1>3, <3>1
  <2>2. LelInv'
    BY <1>24, <1>29, <2>1 DEF LelInv, Lel
  <2>3. accum_ignore' # <<>> => Len(parse_input') > 1
    BY <1>3, <1>26, <2>1
  <2>4. \A i \in DOMAIN parse_input' : i > 1 =>
          /\ pt'[parse_input'[i]].id \in Term
          /\ pt'[parse_input'[i]].retry_lower = 0
          /\ pt'[parse_input'[i]].cause_reduce > 0
    BY <1>25, <2>1
  <2>5. InputInv'
    BY <1>27, <1>34, <2>1, <2>3, <2>4 DEF InputInv, Waiting
  <2>6. QED BY <1>23, <1>30, <1>31, <1>33, <2>2, <2>5 DEF PathInv
<1>35. CASE pc' = "reduction"
  <2>1. parse_input' = ReduceInput
    BY <1>29, <1>35
  <2>2. parse_input' # <<>> =>
          pt'[Head(parse_input')].id \in Term /\ pt'[Head(parse_input')].retry_lower = 0
    BY <1>25, <1>32, <2>1
  <2>3. LelInv'
    BY <2>2 DEF LelInv, Lel, IsTerm, Based
  <2>4. InputInv'
    BY <1>25, <1>26, <1>27, <1>35, <2>1, <2>2 DEF InputInv, Waiting, IsTerm, Lel
  <2>5. QED BY <1>23, <1>30, <1>31, <1>33, <2>3, <2>4 DEF PathInv
<1>36. QED BY <1>29, <1>34, <1>35

LEMMA ReturnPath ==
  ASSUME LInv, ReductionReturn
  PROVE  InputInv' /\ FlowInv' /\ PathInv'
<1> DEFINE r == red_lel[1]
           o == RunFrame(red_lel[2])
           writes == o.env # env
           made == IF writes THEN MakeSteps ELSE 0
           n == Returned(pt[r], rc_block_count + made, o.reject)
<1>0. IInv /\ ListsInv
  BY DEF LInv
<1>1. /\ pc = "reduction" /\ r \in Ref /\ RedCells = {r} /\ red_lel # <<>> /\ red_lel' = <<>>
      /\ UNCHANGED <<accum_ignore, on_deck, check_next, check_stop, stop>>
  BY <1>0 DEF ReductionReturn, ReductionWaits, NodesOK, IInv, TypeOK, RedCells
<1>2. ~parse_error /\ ~stop /\ ~on_deck /\ ~check_next
  BY <1>1 DEF LInv, FlowInv
<1>3. \A i \in DOMAIN parse_input : Waiting(parse_input[i])
  BY <1>1 DEF LInv, InputInv
<1>4. accum_ignore # <<>> => parse_input # <<>>
  BY <1>1 DEF LInv, InputInv
<1>5. CASE induce_exit'
  <2>1. /\ UNCHANGED nodeVars /\ pc' = "done" /\ parse_error'
    BY <1>1, <1>5 DEF ReductionReturn
  <2>2. InputInv'
    BY <2>1, KeptInput DEF LInv
  <2>3. ChildInv'
    BY <2>1 DEF LInv, PathInv, ChildInv
  <2>4. QED BY <1>1, <1>2, <2>1, <2>2, <2>3 DEF FlowInv, PathInv
<1>6. CASE ~induce_exit'
  <2>1. /\ pt' = [pt EXCEPT ![r] = n]
        /\ stack' = IF o.reject THEN <<r>> \o stack ELSE stack
        /\ parse_input' = IF o.reject THEN parse_input ELSE <<r>> \o parse_input
        /\ pc' = IF o.reject THEN "backtrack" ELSE "again"
        /\ UNCHANGED <<pda_cs, parse_error>>
    BY <1>6 DEF ReductionReturn, PushRejected
  <2>2. /\ n.id = pt[r].id /\ n.child = pt[r].child
        /\ n.retry_lower = pt[r].retry_lower /\ n.cause_reduce = pt[r].cause_reduce
    <3>1. pt[r] \in Node
      BY <1>0, <1>1, ListTypes
    <3> HIDE DEF r
    <3>2. QED BY <3>1 DEF Returned, Node
  <2>3. Based(pt, r, stack_top_target(pt, stack)) /\ pt[r].retry_lower = 0
    BY <1>1, <1>2 DEF LInv, PathInv, RedInv
  <2> HIDE DEF n, r
  <2>4. pt'[r] = n /\ \A x \in Ref : x # r => pt'[x] = pt[x]
    BY <1>0, <1>1, <2>1, ListTypes
  <2>5. r \notin ToSet(stack) /\ \A x \in Ref : r \notin ToSet(pt[x].child)
    BY <1>0, <1>1, OffStack
  <2>6. /\ stack_top_target(pt', stack) = stack_top_target(pt, stack)
        /\ Path(pt, stack) => Path(pt', stack)
        /\ \A x \in Ref \ {r} : Linked(pt', pt'[x].child)
        /\ Linked(pt', pt[r].child)
        /\ Based(pt', r, stack_top_target(pt, stack))
    <3>1. Agree(pt, pt', Ref \ {r})
      BY <2>4 DEF Agree
    <3>2. QED BY <1>0, <1>1, <2>2, <2>3, <2>4, <2>5, <3>1, OneCellPath DEF LInv, PathInv
  <2>7. Path(pt', stack) /\ pda_cs = stack_top_target(pt', stack)
    BY <1>1, <1>2, <2>6 DEF LInv, PathInv, StackInv
  <2>8. \A i \in DOMAIN parse_input : parse_input[i] \in Ref /\ parse_input[i] # r
    <3>1. parse_input \in Seq(Ref) /\ r \notin ToSet(parse_input)
      BY <1>0, <1>1, ListTypes DEF ListsInv, OneOwner, Apart, SetsApart
    <3>2. QED BY <3>1, InSet
  <2>9. \A i \in DOMAIN parse_input :
          /\ pt'[parse_input[i]].id \in Term
          /\ pt'[parse_input[i]].retry_lower = 0
          /\ pt'[parse_input[i]].cause_reduce > 0
    BY <1>3, <2>4, <2>8 DEF Waiting
  <2>10. \A x \in Ref : pt'[x].cause_reduce >= 0
    BY <2>2, <2>4 DEF LInv, InputInv
  <2>11. ChildInv'
    BY <2>2, <2>4, <2>6 DEF ChildInv
  <2>12. FlowInv'
    BY <1>1, <1>2, <2>1 DEF FlowInv
  <2>13. parse_input \in Seq(Ref) /\ stack \in Seq(Ref)
    BY <1>0, ListTypes
  <2>14. CASE o.reject
    <3>1. /\ stack' = <<r>> \o stack /\ parse_input' = parse_input /\ pc' = "backtrack"
      BY <2>1, <2>14
    <3>2. stack' # <<>> /\ Head(stack') = r /\ Tail(stack') = stack
      BY <1>1, <2>13, <3>1
    <3>3. parse_input # <<>> =>
            /\ pt'[Head(parse_input)].id \in Term
            /\ pt'[Head(parse_input)].retry_lower = 0
            /\ pt'[Head(parse_input)].cause_reduce > 0
      BY <2>9, <2>13
    <3>4. Rejected'
      BY <1>1, <1>2, <1>4, <2>2, <2>3, <2>4, <2>6, <2>7, <3>1, <3>2, <3>3
      DEF Rejected, Waiting, Lel
    <3>5. LelInv'
      BY <3>1, <3>3 DEF LelInv, Lel, IsTerm, Based
    <3>6. InputInv'
      BY <2>9, <2>10, <3>1 DEF InputInv, Waiting
    <3>7. QED
      BY <1>1, <2>11, <2>12, <3>1, <3>4, <3>5, <3>6 DEF PathInv, StackInv, RedInv
  <2>15. CASE ~o.reject
    <3>1. /\ stack' = stack /\ parse_input' = <<r>> \o parse_input /\ pc' = "again"
      BY <2>1, <2>15
    <3>2. /\ Head(parse_input') = r /\ Len(parse_input') = Len(parse_input) + 1
          /\ parse_input' # <<>>
          /\ \A i \in DOMAIN parse_input' :
               i > 1 => i - 1 \in DOMAIN parse_input /\ parse_input'[i] = parse_input[i - 1]
      BY <1>1, <2>13, <3>1
    <3>3. LelInv'
      BY <2>2, <2>3, <2>4, <2>6, <3>1, <3>2 DEF LelInv, Lel
    <3>4. accum_ignore' # <<>> => Len(parse_input') > 1
      BY <1>1, <1>4, <2>13, <3>2
    <3>5. \A i \in DOMAIN parse_input' : i > 1 =>
            /\ pt'[parse_input'[i]].id \in Term
            /\ pt'[parse_input'[i]].retry_lower = 0
            /\ pt'[parse_input'[i]].cause_reduce > 0
      BY <2>9, <3>2
    <3>6. InputInv'
      BY <2>10, <3>1, <3>2, <3>4, <3>5 DEF InputInv, Waiting
    <3>7. QED
      BY <1>1, <2>1, <2>7, <2>11, <2>12, <3>1, <3>3, <3>6 DEF PathInv, StackInv, RedInv
  <2>16. QED BY <2>14, <2>15
<1>7. QED BY <1>5, <1>6

-----------------------------------------------------------------------------
(* Backward. *)

LEMMA BtUnshiftPath ==
  ASSUME LInv, BtUnshift
  PROVE  InputInv' /\ FlowInv' /\ PathInv'
<1> DEFINE top == Head(stack)
           stk == Tail(stack)
           bare == parse_input = <<>>
           left == bare /\ IsTerm(top) /\ pt[top].left_ignore # <<>>
           n == [pt[top] EXCEPT !.left_ignore = <<>>]
           p1 == IF left THEN [pt EXCEPT ![top] = n] ELSE pt
           inp == <<top>> \o parse_input
<1>0. IInv /\ ListsInv /\ pt \in [Ref -> Node]
  BY ListTypes DEF LInv
<1>1. /\ stack' = stk /\ parse_input' = inp
      /\ pt' = IF bare THEN detach_right_ignore(p1, stk) ELSE p1
      /\ pc = "backtrack" /\ ~on_deck /\ ~check_next /\ ~check_stop
      /\ UNCHANGED <<red_lel, pc, on_deck, check_next, check_stop, stop, parse_error>>
  BY DEF BtUnshift, AtUnshift
<1>2. ~stop /\ ~parse_error /\ red_lel = <<>>
  BY <1>0, <1>1 DEF LInv, FlowInv, ListsInv
<1>3. top \in Ref /\ stk \in Seq(Ref) /\ stack \in Seq(Ref) /\ stack # <<>> /\ pt[top] \in Node
      /\ parse_input \in Seq(Ref)
  BY <1>0, HeadTailType, ListTypes DEF BtUnshift
<1>4. SameCore(pt[top], n)
  <2> HIDE DEF top
  <2>1. QED BY <1>3 DEF Node, SameCore
<1>5. p1 \in [Ref -> Node] /\ \A r \in Ref : SameCore(pt[r], p1[r])
  <2>1. CASE left
    <3>1. n \in Node
      <4> HIDE DEF top
      <4>1. QED BY <1>3, EmptySeq DEF Node
    <3> HIDE DEF n, top
    <3>2. p1 = [pt EXCEPT ![top] = n]
      BY <2>1
    <3>3. p1 \in [Ref -> Node] /\ p1[top] = n /\ \A r \in Ref : r # top => p1[r] = pt[r]
      BY <1>0, <1>3, <3>1, <3>2
    <3> HIDE DEF p1
    <3>4. QED BY <1>4, <3>3 DEF SameCore
  <2>2. CASE ~left
    BY <1>0, <2>2 DEF SameCore
  <2>3. QED BY <2>1, <2>2
<1> HIDE DEF p1
<1>6. \A r \in Ref : SameCore(pt[r], pt'[r])
  <2>1. CASE bare
    <3>1. \A r \in Ref : SameCore(p1[r], pt'[r])
      BY <1>1, <1>3, <1>5, <2>1, DetachCore
    <3>2. QED BY <1>5, <3>1 DEF SameCore
  <2>2. CASE ~bare
    BY <1>1, <1>5, <2>2
  <2>3. QED BY <2>1, <2>2
<1>7. /\ Path(pt, stk) /\ Based(pt, top, stack_top_target(pt, stk))
      /\ pt[top].retry_lower # 0 => pt[top].state = stack_top_target(pt, stk)
  <2>1. CASE Path(pt, stack)
    <3>1. Path(pt, stk) /\ Settled(pt, top) /\ pt[top].state = stack_top_target(pt, stk)
      BY <1>3, <2>1, PathTail
    <3>2. QED BY <3>1 DEF Settled
  <2>2. CASE Rejected
    BY <2>2 DEF Rejected
  <2>3. QED BY <1>1, <1>2, <2>1, <2>2 DEF LInv, PathInv, StackInv
<1>8. /\ Path(pt', stk) /\ stack_top_target(pt', stk) = stack_top_target(pt, stk)
      /\ Based(pt', top, stack_top_target(pt', stk))
      /\ \A r \in Ref : Linked(pt', pt'[r].child)
  BY <1>0, <1>3, <1>6, <1>7, CorePath DEF LInv, PathInv, ChildInv
<1>9. parse_input # <<>> => Waiting(Head(parse_input))
  <2>1. CASE ~bare
    <3>1. IsTerm(Lel) /\ pt[Lel].retry_lower = 0 /\ pt[Lel].cause_reduce # 0
      BY <2>1 DEF BtUnshift, AtUnshift
    <3>2. pt[Lel].cause_reduce >= 0 /\ pt[Lel].cause_reduce \in Int
      <4>1. Lel \in Ref /\ pt[Lel] \in Node
        BY <1>0, <2>1, LelType
      <4>2. QED BY <4>1 DEF LInv, InputInv, Node
    <3>3. QED BY <3>1, <3>2 DEF Waiting, IsTerm, Lel
  <2>2. QED BY <2>1
<1>10. \A i \in DOMAIN parse_input : Waiting(parse_input[i]) /\ parse_input[i] \in Ref
  <2>1. \A i \in DOMAIN parse_input : i > 1 \/ i = 1
    BY <1>3
  <2>2. 1 \in DOMAIN parse_input => parse_input # <<>> /\ Head(parse_input) = parse_input[1]
    BY <1>3
  <2>3. QED BY <1>3, <1>9, <2>1, <2>2 DEF LInv, InputInv
<1> HIDE DEF top, stk
<1>11. /\ Head(inp) = top /\ inp # <<>>
       /\ \A i \in DOMAIN inp :
            i > 1 => i - 1 \in DOMAIN parse_input /\ inp[i] = parse_input[i - 1]
  BY <1>3
<1>12. InputInv'
  <2>1. \A i \in DOMAIN parse_input' : i > 1 =>
          /\ pt'[parse_input'[i]].id \in Term
          /\ pt'[parse_input'[i]].retry_lower = 0
          /\ pt'[parse_input'[i]].cause_reduce > 0
    <3> SUFFICES ASSUME NEW i \in DOMAIN inp, i > 1
                 PROVE  /\ pt'[inp[i]].id \in Term
                        /\ pt'[inp[i]].retry_lower = 0
                        /\ pt'[inp[i]].cause_reduce > 0
      BY <1>1
    <3>1. inp[i] \in Ref /\ Waiting(inp[i])
      BY <1>10, <1>11
    <3>2. QED BY <1>6, <3>1 DEF Waiting, SameCore
  <2>2. \A r \in Ref : pt'[r].cause_reduce >= 0
    BY <1>6 DEF LInv, InputInv, SameCore
  <2>3. QED BY <1>1, <2>1, <2>2 DEF InputInv, Waiting
<1>13. FlowInv'
  BY <1>1, <1>2 DEF FlowInv
<1>14. LelInv'
  <2>1. Lel' = top
    BY <1>1, <1>11 DEF Lel
  <2>2. pt'[top].retry_lower = pt[top].retry_lower /\ pt'[top].state = pt[top].state
    BY <1>3, <1>6 DEF SameCore
  <2>3. QED BY <1>1, <1>7, <1>8, <2>1, <2>2 DEF LelInv
<1>15. QED
  BY <1>1, <1>2, <1>8, <1>12, <1>13, <1>14 DEF PathInv, ChildInv, StackInv, RedInv

\* A cell that is off the stack is given back to the pool.
LEMMA FreedPath ==
  ASSUME LInv, NEW x \in Ref, x \in ToSet(parse_input) \/ x \in ToSet(accum_ignore),
         NEW q, q = [pt EXCEPT ![x] = Blank]
  PROVE  /\ q \in [Ref -> Node]
         /\ q[x] = Blank /\ \A r \in Ref : r # x => q[r] = pt[r]
         /\ x \notin ToSet(stack) /\ \A r \in Ref : x \notin ToSet(pt[r].child)
         /\ stack_top_target(q, stack) = stack_top_target(pt, stack)
         /\ Path(pt, stack) => Path(q, stack)
         /\ \A r \in Ref : Linked(q, q[r].child)
         /\ Linked(q, pt[x].child)
<1>0. IInv /\ ListsInv /\ ChildInv /\ pt \in [Ref -> Node]
  BY ListTypes DEF LInv, PathInv
<1>1. q \in [Ref -> Node] /\ q[x] = Blank /\ \A r \in Ref : r # x => q[r] = pt[r]
  BY <1>0, BlankType
<1>2. x \notin ToSet(stack) /\ \A r \in Ref : x \notin ToSet(pt[r].child)
  BY <1>0, OffStack
<1>3. Agree(pt, q, Ref \ {x})
  BY <1>1 DEF Agree
<1>4. /\ stack_top_target(q, stack) = stack_top_target(pt, stack)
      /\ Path(pt, stack) => Path(q, stack)
      /\ \A r \in Ref \ {x} : Linked(q, q[r].child)
      /\ Linked(q, pt[x].child)
  BY <1>0, <1>2, <1>3, OneCellPath
<1>5. Linked(q, q[x].child)
  BY <1>1 DEF Linked, Blank
<1>6. QED BY <1>1, <1>2, <1>4, <1>5

LEMMA SentBackPath ==
  ASSUME LInv, BtSendBack \/ BtIgnore
  PROVE  InputInv' /\ FlowInv' /\ PathInv'
<1>0. IInv /\ ListsInv /\ parse_input \in Seq(Ref) /\ accum_ignore \in Seq(Ref)
  BY ListTypes DEF LInv
<1>1. /\ pc = "backtrack" /\ ~on_deck /\ ~check_next /\ ~check_stop
      /\ stack' = stack /\ parse_input' = <<>> /\ check_stop' = TRUE
      /\ UNCHANGED <<red_lel, pc, parse_error>>
  BY DEF BtSendBack, BtIgnore, SendBack
<1>2. ~stop /\ ~parse_error /\ red_lel = <<>>
  BY <1>0, <1>1 DEF LInv, FlowInv, ListsInv
<1>3. PICK x \in Ref : /\ x \in ToSet(parse_input) \/ x \in ToSet(accum_ignore)
                       /\ pt' = [pt EXCEPT ![x] = Blank]
  <2>1. CASE BtSendBack
    <3>1. parse_input # <<>> /\ pt' = [pt EXCEPT ![Lel] = Blank]
      BY <2>1 DEF BtSendBack, SendBack
    <3>2. Lel \in Ref /\ Lel \in ToSet(parse_input)
      BY <1>0, <3>1, LelInput, LelType DEF LInv
    <3>3. QED BY <3>1, <3>2
  <2>2. CASE BtIgnore
    <3>1. accum_ignore # <<>> /\ pt' = [pt EXCEPT ![Head(accum_ignore)] = Blank]
      BY <2>2 DEF BtIgnore, SendBack
    <3>2. Head(accum_ignore) \in Ref
      BY <1>0, <3>1, HeadTailType
    <3>3. ToSet(accum_ignore) = {Head(accum_ignore)} \cup ToSet(Tail(accum_ignore))
      BY <1>0, <3>1, HeadSet, Zenon
    <3>4. QED BY <3>1, <3>2, <3>3
  <2>3. QED BY <2>1, <2>2
<1>4. ~Rejected
  BY DEF Rejected, Waiting, BtSendBack, BtIgnore
<1>5. Path(pt, stack)
  BY <1>1, <1>2, <1>4 DEF LInv, PathInv, StackInv
<1>6. /\ pt'[x] = Blank /\ \A r \in Ref : r # x => pt'[r] = pt[r]
      /\ Path(pt', stack)
      /\ \A r \in Ref : Linked(pt', pt'[r].child)
  BY <1>3, <1>5, FreedPath
<1>7. InputInv'
  <2>1. \A r \in Ref : pt'[r].cause_reduce >= 0
    BY <1>6 DEF LInv, InputInv, Blank
  <2>2. QED BY <1>1, <2>1 DEF InputInv
<1>8. QED
  BY <1>1, <1>2, <1>6, <1>7 DEF FlowInv, PathInv, ChildInv, StackInv, LelInv, RedInv

LEMMA BtDeckPath ==
  ASSUME LInv, BtDeck
  PROVE  InputInv' /\ FlowInv' /\ PathInv'
<1> DEFINE n == [pt[Lel] EXCEPT !.has_rcode = FALSE]
<1>0. IInv /\ ListsInv /\ pt \in [Ref -> Node] /\ parse_input \in Seq(Ref)
      /\ stack \in Seq(Ref)
  BY ListTypes DEF LInv
<1>1. /\ pt' = [pt EXCEPT ![Lel] = n] /\ pc = "backtrack"
      /\ parse_input # <<>> /\ ~IsTerm(Lel)
      /\ UNCHANGED <<stack, parse_input, red_lel, check_next, check_stop, stop,
                     parse_error, pc>>
  BY DEF BtDeck
<1>2. Lel \in Ref /\ pt[Lel] \in Node
  BY <1>0, <1>1, LelType
<1>3. SameCore(pt[Lel], n)
  BY <1>2 DEF Node, SameCore
<1> HIDE DEF n
<1>4. \A r \in Ref : SameCore(pt[r], pt'[r])
  <2>1. pt'[Lel] = n /\ \A r \in Ref : r # Lel => pt'[r] = pt[r]
    BY <1>0, <1>1, <1>2
  <2>2. QED BY <1>3, <2>1 DEF SameCore
<1>5. Path(pt, stack) /\ ~parse_error /\ red_lel = <<>>
  BY <1>0, <1>1 DEF Rejected, Waiting, IsTerm, LInv, FlowInv, PathInv, StackInv, ListsInv
<1>6. Based(pt, Lel, stack_top_target(pt, stack))
  BY <1>1, <1>5 DEF LInv, PathInv, LelInv
<1>7. /\ Path(pt', stack) /\ stack_top_target(pt', stack) = stack_top_target(pt, stack)
      /\ Based(pt', Lel, stack_top_target(pt', stack))
      /\ \A r \in Ref : Linked(pt', pt'[r].child)
  BY <1>0, <1>2, <1>4, <1>5, <1>6, CorePath DEF LInv, PathInv, ChildInv
<1>8. Lel' = Lel /\ ~IsTerm(Lel)'
  BY <1>1, <1>2, <1>4 DEF Lel, IsTerm, SameCore
<1>9. LelInv'
  BY <1>1, <1>7, <1>8 DEF LelInv
<1>10. InputInv'
  <2>1. \A r \in Ref : pt'[r].cause_reduce >= 0
    BY <1>4 DEF LInv, InputInv, SameCore
  <2>2. ASSUME NEW i \in DOMAIN parse_input, i > 1
        PROVE  /\ pt'[parse_input[i]].id \in Term
               /\ pt'[parse_input[i]].retry_lower = 0
               /\ pt'[parse_input[i]].cause_reduce > 0
    <3>1. parse_input[i] \in Ref /\ Waiting(parse_input[i])
      BY <1>0, <2>2 DEF LInv, InputInv
    <3>2. QED BY <1>4, <3>1 DEF Waiting, SameCore
  <2>3. QED BY <1>1, <2>1, <2>2 DEF InputInv, Waiting
<1>11. FlowInv'
  BY <1>1, <1>5 DEF LInv, FlowInv
<1>12. QED
  BY <1>1, <1>5, <1>7, <1>9, <1>10, <1>11 DEF PathInv, ChildInv, StackInv, RedInv

\* The retry of a reduction handed to the token that caused it.
LEMMA HandBackFields ==
  ASSUME NEW u \in Node, NEW token \in Node, NEW s
  PROVE  LET t == HandBack(u, token, s)
         IN /\ t.id = token.id /\ t.child = token.child
            /\ t.cause_reduce = token.cause_reduce - 1
            /\ t.retry_lower = token.retry_lower \/ t.state = s
<1> DEFINE t == [token EXCEPT !.cause_reduce = @ - 1]
<1>1. t \in Node
  BY CauseType
<1>2. /\ t.id = token.id /\ t.child = token.child /\ t.retry_lower = token.retry_lower
      /\ t.cause_reduce = token.cause_reduce - 1
  BY DEF Node
<1>3. HandBack(u, token, s) = IF u.retry_upper = 0 THEN t
        ELSE [t EXCEPT !.retry_lower = u.retry_upper, !.state = s]
  BY DEF HandBack
<1> HIDE DEF t
<1>4. CASE u.retry_upper = 0
  BY <1>2, <1>3, <1>4
<1>5. CASE u.retry_upper # 0
  <2> DEFINE v == [t EXCEPT !.retry_lower = u.retry_upper, !.state = s]
  <2>1. /\ v.id = t.id /\ v.child = t.child /\ v.cause_reduce = t.cause_reduce
        /\ v.state = s
    BY <1>1 DEF Node
  <2>2. QED BY <1>2, <1>3, <1>5, <2>1
<1>6. QED BY <1>4, <1>5

LEMMA BtUnreducePath ==
  ASSUME LInv, BtUnreduce
  PROVE  InputInv' /\ FlowInv' /\ PathInv'
<1> DEFINE u == pt[Lel]
           inp == Tail(parse_input)
           stk == Reverse(u.child) \o stack
           p1 == [pt EXCEPT ![Lel] = Blank]
           x == Head(inp)
           s == stack_top_target(p1, stk)
           n == HandBack(u, p1[x], s)
           p2 == IF inp = <<>> THEN p1 ELSE [p1 EXCEPT ![x] = n]
<1>0. /\ IInv /\ ListsInv /\ pt \in [Ref -> Node] /\ parse_input \in Seq(Ref)
      /\ stack \in Seq(Ref)
  BY ListTypes DEF LInv
<1>1. /\ stack' = stk /\ parse_input' = inp
      /\ pt' = detach_right_ignore(p2, stk)
      /\ pc = "backtrack" /\ parse_input # <<>> /\ ~IsTerm(Lel)
      /\ UNCHANGED <<red_lel, check_next, check_stop, stop, on_deck, parse_error, pc>>
  BY DEF BtUnreduce
<1>2. /\ u \in Node /\ inp \in Seq(Ref) /\ Lel \in Ref /\ u.child \in Seq(Ref)
      /\ Lel \in ToSet(parse_input)
  <2>1. u \in Node /\ inp \in Seq(Ref) /\ Lel \in Ref
    BY <1>0, <1>1, LelType
  <2>2. Lel \in ToSet(parse_input)
    BY <1>0, <1>1, LelInput
  <2>3. QED BY <2>1, <2>2, NodeSeqs
<1>3. Path(pt, stack) /\ ~parse_error /\ red_lel = <<>>
  BY <1>0, <1>1 DEF Rejected, Waiting, IsTerm, LInv, FlowInv, PathInv, StackInv, ListsInv
<1>4. Based(pt, Lel, stack_top_target(pt, stack))
  BY <1>1, <1>3 DEF LInv, PathInv, LelInv
<1>5. /\ p1 \in [Ref -> Node]
      /\ p1[Lel] = Blank /\ \A r \in Ref : r # Lel => p1[r] = pt[r]
      /\ Lel \notin ToSet(stack) /\ \A r \in Ref : Lel \notin ToSet(pt[r].child)
      /\ stack_top_target(p1, stack) = stack_top_target(pt, stack)
      /\ Path(p1, stack)
      /\ \A r \in Ref : Linked(p1, p1[r].child)
      /\ Linked(p1, u.child)
  BY <1>2, <1>3, FreedPath
<1> HIDE DEF p1
<1>6. u.child # <<>> => p1[u.child[1]].state = stack_top_target(p1, stack)
  <2> SUFFICES ASSUME u.child # <<>>
               PROVE  p1[u.child[1]].state = stack_top_target(p1, stack)
    OBVIOUS
  <2>1. 1 \in DOMAIN u.child
    BY <1>2
  <2>2. u.child[1] \in Ref /\ u.child[1] # Lel
    BY <1>2, <1>5, <2>1, InSet
  <2>3. pt[u.child[1]].state = stack_top_target(pt, stack)
    BY <1>1, <1>4 DEF Based, IsTerm
  <2>4. QED BY <1>5, <2>2, <2>3
<1>7. Path(p1, stk) /\ stk \in Seq(Ref)
  <2>1. Path(p1, stk)
    BY <1>0, <1>2, <1>5, <1>6, PathJoin
  <2>2. stk \in Seq(Ref)
    BY <1>0, <1>2, ReverseType, ConcatType
  <2>3. QED BY <2>1, <2>2
<1>8. ToSet(stk) = ToSet(u.child) \cup ToSet(stack)
  <2>1. Reverse(u.child) \in Seq(Ref) /\ ToSet(Reverse(u.child)) = ToSet(u.child)
    BY <1>2, ReverseSet
  <2>2. ToSet(Reverse(u.child) \o stack) = ToSet(Reverse(u.child)) \cup ToSet(stack)
    BY <1>0, <2>1, ConcatSet
  <2>3. QED BY <2>1, <2>2
<1>9. inp # <<>> =>
        /\ x \in Ref /\ x # Lel /\ pt[x].id \in Term /\ pt[x].retry_lower = 0
        /\ pt[x].cause_reduce > 0
        /\ x \notin ToSet(stk) /\ \A r \in Ref : x \notin ToSet(pt[r].child)
  <2> SUFFICES ASSUME inp # <<>>
               PROVE  /\ x \in Ref /\ x # Lel /\ pt[x].id \in Term
                      /\ pt[x].retry_lower = 0 /\ pt[x].cause_reduce > 0
                      /\ x \notin ToSet(stk) /\ \A r \in Ref : x \notin ToSet(pt[r].child)
    OBVIOUS
  <2>1. 1 \in DOMAIN inp /\ x = inp[1]
    BY <1>2
  <2>2. x \in Ref /\ x # Lel /\ Waiting(x)
    BY <1>1, <2>1, TailWaits
  <2>3. x \in ToSet(parse_input)
    <3>1. x \in ToSet(inp)
      BY <2>1, Zenon DEF ToSet
    <3>2. ToSet(parse_input) = {Lel} \cup ToSet(inp)
      BY <1>0, <1>1, LelInput
    <3>3. QED BY <3>1, <3>2
  <2>4. x \notin ToSet(stack) /\ \A r \in Ref : x \notin ToSet(pt[r].child)
    BY <1>0, <2>2, <2>3, OffStack
  <2>5. x \notin ToSet(stk)
    BY <1>2, <1>8, <2>4
  <2>6. QED BY <2>2, <2>4, <2>5 DEF Waiting
<1> HIDE DEF stk, inp
<1>10. /\ p2 \in [Ref -> Node]
       /\ \A r \in Ref : r # Lel /\ (inp = <<>> \/ r # x) => p2[r] = pt[r]
       /\ p2[Lel].cause_reduce = 0
       /\ inp # <<>> =>
            /\ p2[x].id \in Term /\ p2[x].cause_reduce >= 0
            /\ p2[x].retry_lower = 0 \/ p2[x].state = s
       /\ Path(p2, stk) /\ stack_top_target(p2, stk) = s
       /\ \A r \in Ref : Linked(p2, p2[r].child)
  <2>1. CASE inp = <<>>
    <3>1. p2 = p1
      BY <2>1
    <3>2. p1[Lel].cause_reduce = 0
      BY <1>5 DEF Blank
    <3>3. stack_top_target(p1, stk) = s
      OBVIOUS
    <3> HIDE DEF p2, s, n, x
    <3>4. p2 \in [Ref -> Node] /\ p2[Lel].cause_reduce = 0
          /\ \A r \in Ref : r # Lel => p2[r] = pt[r]
      BY <1>5, <3>1, <3>2
    <3>5. Path(p2, stk) /\ stack_top_target(p2, stk) = s
          /\ \A r \in Ref : Linked(p2, p2[r].child)
      BY <1>5, <1>7, <3>1, <3>3
    <3>6. QED BY <2>1, <3>4, <3>5
  <2>2. CASE inp # <<>>
    <3>1. /\ x \in Ref /\ x # Lel /\ p1[x] = pt[x] /\ p1[x] \in Node
      BY <1>5, <1>9, <2>2
    <3>2. /\ n \in Node /\ n.id = p1[x].id /\ n.child = p1[x].child
          /\ n.cause_reduce = p1[x].cause_reduce - 1
          /\ n.retry_lower = p1[x].retry_lower \/ n.state = s
      <4>1. s \in State
        BY <1>5, <1>7, TopTargetType
      <4> HIDE DEF u, s
      <4>2. n \in Node
        BY <1>2, <3>1, <4>1, HandBackType
      <4>3. QED BY <1>2, <3>1, <4>2, HandBackFields
    <3> HIDE DEF n
    <3>3. p2 = [p1 EXCEPT ![x] = n]
      BY <2>2
    <3> HIDE DEF p2
    <3>4. p2 \in [Ref -> Node] /\ p2[x] = n /\ \A r \in Ref : r # x => p2[r] = p1[r]
      BY <1>5, <3>1, <3>2, <3>3
    <3> DEFINE S == Ref \ {x}
    <3>5. /\ \A r \in Ref : p1[r].child \in Seq(Ref) /\ ToSet(p1[r].child) \subseteq S
      <4>1. ASSUME NEW r \in Ref PROVE x \notin ToSet(p1[r].child)
        <5>1. CASE r = Lel
          BY <1>5, <5>1, EmptySet DEF Blank
        <5>2. CASE r # Lel
          BY <1>5, <1>9, <2>2, <5>2
        <5>3. QED BY <5>1, <5>2
      <4>2. QED BY <1>5, <4>1, NodeSeqs, SetType
    <3>6. ToSet(stk) \subseteq S
      BY <1>7, <1>9, <2>2, SetType
    <3>7. S \in SUBSET Ref /\ Agree(p1, p2, S) /\ \A r \in S : ToSet(p1[r].child) \subseteq S
      BY <3>4, <3>5 DEF Agree
    <3>8. \A l \in Seq(Ref) : ToSet(l) \subseteq S =>
            /\ stack_top_target(p2, l) = stack_top_target(p1, l)
            /\ Path(p1, l) => Path(p2, l)
            /\ Linked(p1, l) => Linked(p2, l)
      <4> HIDE DEF S
      <4>1. QED BY <1>5, <3>7, AgreePath
    <3>9. Path(p2, stk) /\ stack_top_target(p2, stk) = s
      BY <1>7, <3>6, <3>8
    <3>10. ASSUME NEW r \in Ref PROVE Linked(p2, p2[r].child)
      <4>1. p2[r].child = p1[r].child
        BY <3>2, <3>4
      <4>2. QED BY <1>5, <3>5, <3>8, <4>1
    <3>11. p2[x].cause_reduce >= 0
      <4>1. pt[x].cause_reduce > 0 /\ pt[x].cause_reduce \in Int
        BY <1>9, <2>2, <3>1 DEF Node
      <4>2. QED BY <3>1, <3>2, <3>4, <4>1
    <3>12. p2[x].id \in Term /\ (p2[x].retry_lower = 0 \/ p2[x].state = s)
      BY <1>9, <2>2, <3>1, <3>2, <3>4
    <3>13. p2[Lel].cause_reduce = 0
      BY <1>2, <1>5, <3>1, <3>4 DEF Blank
    <3>14. \A r \in Ref : r # Lel /\ r # x => p2[r] = pt[r]
      BY <1>5, <3>4
    <3> HIDE DEF x, s
    <3>15. QED BY <2>2, <3>4, <3>9, <3>10, <3>11, <3>12, <3>13, <3>14
  <2>3. QED BY <2>1, <2>2
<1> HIDE DEF p2, s
<1>11. \A r \in Ref : SameCore(p2[r], pt'[r])
  BY <1>1, <1>7, <1>10, DetachCore
<1>12. /\ Path(pt', stk) /\ stack_top_target(pt', stk) = s
       /\ \A r \in Ref : Linked(pt', pt'[r].child)
  BY <1>7, <1>10, <1>11, CorePath
<1>13. LelInv'
  <2>1. CASE inp = <<>>
    BY <1>1, <2>1 DEF LelInv
  <2>2. CASE inp # <<>>
    <3>1. x \in Ref /\ p2[x].id \in Term /\ (p2[x].retry_lower = 0 \/ p2[x].state = s)
      BY <1>9, <1>10, <2>2
    <3>2. SameCore(p2[x], pt'[x]) /\ Lel' = x
      BY <1>1, <1>11, <3>1 DEF Lel
    <3>3. /\ pt'[x].id \in Term /\ (pt'[x].retry_lower = 0 \/ pt'[x].state = s)
      BY <3>1, <3>2 DEF SameCore
    <3>4. QED BY <1>1, <1>12, <3>2, <3>3 DEF LelInv, Based
  <2>3. QED BY <2>1, <2>2
<1>14. InputInv'
  <2>1. ASSUME NEW r \in Ref PROVE pt'[r].cause_reduce >= 0
    <3>1. p2[r].cause_reduce >= 0
      BY <1>10 DEF LInv, InputInv
    <3>2. QED BY <1>11, <3>1 DEF SameCore
  <2>2. ASSUME NEW i \in DOMAIN inp, i > 1
        PROVE  /\ pt'[inp[i]].id \in Term /\ pt'[inp[i]].retry_lower = 0
               /\ pt'[inp[i]].cause_reduce > 0
    <3>1. inp[i] \in Ref /\ inp[i] # Lel /\ Waiting(inp[i])
      BY <1>1, TailWaits DEF inp
    <3>2. inp[i] # x
      <4>1. IsInjective(parse_input)
        BY <1>0 DEF ListsInv, OneOwner, Apart
      <4>2. IsInjective(inp)
        BY <1>0, <1>1, <4>1, HeadSet DEF inp
      <4>3. 1 \in DOMAIN inp /\ x = inp[1] /\ i # 1
        BY <1>2, <2>2
      <4>4. QED BY <4>2, <4>3 DEF IsInjective
    <3>3. p2[inp[i]] = pt[inp[i]]
      BY <1>10, <3>1, <3>2
    <3>4. QED BY <1>11, <3>1, <3>3 DEF Waiting, SameCore
  <2>3. QED BY <1>1, <2>1, <2>2 DEF InputInv, Waiting
<1>15. FlowInv'
  BY <1>1, <1>3 DEF LInv, FlowInv
<1>16. QED
  BY <1>1, <1>3, <1>12, <1>13, <1>14, <1>15 DEF PathInv, ChildInv, StackInv, RedInv

-----------------------------------------------------------------------------
\* The empty stack is a path.
LEMMA InitPath == Init => InputInv /\ FlowInv /\ PathInv
<1> SUFFICES ASSUME Init PROVE InputInv /\ FlowInv /\ PathInv OBVIOUS
<1>1. \A r \in Ref : pt[r] = Blank
  BY DEF Init
<1>2. InputInv
  BY <1>1 DEF Init, InputInv, Blank
<1>3. FlowInv
  BY DEF Init, FlowInv
<1>4. ChildInv
  BY <1>1 DEF ChildInv, Linked, Blank
<1>5. StackInv /\ LelInv /\ RedInv
  BY DEF Init, StackInv, LelInv, RedInv, Path, stack_top_target
<1>6. QED BY <1>2, <1>3, <1>4, <1>5 DEF PathInv

\* Every step of the parser and of its driver keeps the path.
LEMMA NextPath == LInv /\ [Next]_vars => LInv'
<1> SUFFICES ASSUME LInv, [Next]_vars PROVE LInv' OBVIOUS
<1>1. IInv' /\ ListsInv'
  BY NextInv, NextLists DEF LInv
<1>2. InputInv' /\ FlowInv' /\ PathInv'
  <2>1. CASE ScanCollectIgnore \/ ScanEof \/ ScanTree \/ ScanToken
    BY <2>1, EnteredPath
  <2>2. CASE ScanIgnoreTree \/ ScanIgnore
    BY <2>2, IgnoredPath
  <2>3. CASE Shift \/ Reduce \/ ReductionReturn
    BY <2>3, ShiftPath, ReducePath, ReturnPath
  <2>4. CASE BtReverse \/ BtNext \/ BtStop \/ BtRetry \/ BtFail
    BY <2>4, BackPath
  <2>5. CASE BtUnshift \/ BtSendBack \/ BtIgnore \/ BtDeck \/ BtUnreduce
    BY <2>5, BtUnshiftPath, SentBackPath, BtDeckPath, BtUnreducePath
  <2>6. CASE \/ ScanPreRegion \/ ScanLater \/ ScanNextRegion \/ ScanNull
             \/ ScanGenerate \/ NoTransition \/ AgainOut \/ Done
             \/ Drive \/ UNCHANGED vars
    BY <2>6, SteadyPath
  <2>7. QED BY <2>1, <2>2, <2>3, <2>4, <2>5, <2>6 DEF Next, ParseStep
<1>3. QED BY <1>1, <1>2 DEF LInv

\* The invariant answers every lookup that the code makes without a check.
LEMMA PathAnswers == LInv => StackIsPath
<1> SUFFICES ASSUME LInv PROVE StackIsPath OBVIOUS
<1>0. IInv /\ stack \in Seq(Ref) /\ pt \in [Ref -> Node]
  BY ListTypes DEF LInv
<1>1. ASSUME pc \in {"idle", "scan", "again", "done"}, ~parse_error
      PROVE  /\ pda_cs = stack_top_target(pt, stack)
             /\ \A i \in DOMAIN stack : /\ Found(pt, stack[i])
                                        /\ pt[stack[i]].state = Under(pt, stack, i)
  BY <1>1 DEF LInv, PathInv, StackInv, Path, Settled
<1>2. ASSUME NEW p \in [Ref -> Node], NEW stk \in Seq(Ref), Path(p, stk)
      PROVE  TopFound(p, stk)
  BY <1>2, PathTail DEF TopFound, Settled
<1>3. ASSUME NoDeck, check_next \/ (check_stop /\ stop)
      PROVE  TopFound(pt, stack)
  <2>1. ~parse_error /\ pc = "backtrack" /\ ~Rejected
    BY <1>3 DEF LInv, FlowInv, Rejected
  <2>2. QED BY <1>0, <1>2, <2>1 DEF LInv, PathInv, StackInv
<1>4. ASSUME NoChecks, parse_input # <<>>, ~IsTerm(Lel)
      PROVE  TopFound(pt, Reverse(pt[Lel].child) \o stack)
  <2> DEFINE c == pt[Lel].child
  <2>1. ~parse_error /\ pc = "backtrack" /\ ~Rejected
    BY <1>4 DEF LInv, FlowInv, Rejected, Waiting, IsTerm
  <2>2. Path(pt, stack) /\ Based(pt, Lel, stack_top_target(pt, stack))
    BY <1>4, <2>1 DEF LInv, PathInv, StackInv, LelInv
  <2>3. Lel \in Ref /\ c \in Seq(Ref) /\ Linked(pt, c)
    BY <1>0, <1>4, LelType, NodeSeqs DEF LInv, PathInv, ChildInv
  <2>4. c # <<>> => pt[c[1]].state = stack_top_target(pt, stack)
    BY <1>4, <2>2 DEF Based, IsTerm
  <2> HIDE DEF c
  <2>5. Path(pt, Reverse(c) \o stack)
    BY <1>0, <2>2, <2>3, <2>4, PathJoin
  <2>6. Reverse(c) \o stack \in Seq(Ref)
    BY <1>0, <2>3, ReverseType, ConcatType
  <2>7. TopFound(pt, Reverse(c) \o stack)
    BY <1>0, <1>2, <2>5, <2>6
  <2>8. QED BY <2>7 DEF c
<1>5. QED BY <1>1, <1>3, <1>4 DEF StackIsPath

\* The stack is a path of the automaton whenever the parser goes forward, and every
\* unchecked lookup of stack_top_target (pdarun.c) finds its transition, whatever was
\* shifted, reduced, rejected, retried and taken back before: for every grammar,
\* scanner, program and input.
THEOREM PathHolds == Spec => []StackIsPath
<1>1. Init => LInv
  BY InitInv, InitLists, InitPath DEF LInv
<1>2. QED BY <1>1, NextPath, PathAnswers, PTL DEF Spec
=============================================================================
