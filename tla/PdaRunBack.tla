-------------------------- MODULE PdaRunBack --------------------------------
(* The assertions of the backtracking, proved.                               *)
(*                                                                           *)
(* parse_token (src/src/pdarun.c) takes back what it did from the last node   *)
(* shifted, and asserts on the way what kind of node it meets, and that the   *)
(* alternatives left to try (retry_upper) are where the code looks for them.  *)
(* Nothing in the state says so at once: it follows from the order in which   *)
(* the cells were shifted. PdaRunTrail states that order as a trail of the    *)
(* cells; here every step of the parser is shown to keep it.                  *)
EXTENDS PdaRunTrail

USE DEF nodeVars, stateVars, scanVars, btVars, stepVars, endVars, codeVars, driverVars
USE DEF Backtrack, NoDeck, NoChecks
USE DEF Idle, Record, parserVars

\* A node that has children is on the stack, in the input, or a child itself: ignored
\* text and free cells have none.
Parents(p, stk, a) == \A r \in Ref : p[r].child # <<>> => InParse(p, stk, a, r)

\* While there is no parse error there is a trail.
TrailInv == ~parse_error => Trail(pt, stack, Ahead, live) /\ Parents(pt, stack, Ahead)

\* The input holds a node only while parse_token is at work, and going backward only
\* until a flag is up: the flags go up when the node has been sent back.
EmptyInv ==
  parse_input # <<>> /\ ~parse_error =>
     /\ pc \in {"again", "reduction", "backtrack"}
     /\ pc = "backtrack" => ~check_next /\ ~stop

\* The inductive invariant.
TInv == LInv /\ EmptyInv /\ TrailInv

-----------------------------------------------------------------------------
\* The cells of the input are in the list of the input, or in red_lel.
LEMMA AheadSet ==
  ASSUME IInv
  PROVE  /\ Ahead \in Seq(Ref) /\ ToSet(Ahead) = RedCells \cup ToSet(parse_input)
         /\ red_lel = <<>> => Ahead = parse_input
         /\ red_lel # <<>> => red_lel[1] \in Ref /\ Ahead = <<red_lel[1]>> \o parse_input
<1>1. parse_input \in Seq(Ref)
  BY ListTypes
<1>2. CASE red_lel = <<>>
  <2>1. Ahead = parse_input
    BY <1>1, <1>2 DEF Ahead
  <2>2. RedCells = {}
    BY <1>2 DEF RedCells
  <2>3. QED BY <1>1, <1>2, <2>1, <2>2
<1>3. CASE red_lel # <<>>
  <2>1. red_lel[1] \in Ref
    BY <1>3 DEF IInv, TypeOK, NodesOK
  <2>2. Ahead = <<red_lel[1]>> \o parse_input
    BY <1>3 DEF Ahead
  <2>3. RedCells = {red_lel[1]}
    BY <1>3 DEF RedCells
  <2> DEFINE x == red_lel[1]
  <2> HIDE DEF x
  <2>4. <<x>> \o parse_input \in Seq(Ref) /\ ToSet(<<x>> \o parse_input) = {x} \cup ToSet(parse_input)
    BY <1>1, <2>1, ConsSet, ConsParts DEF x
  <2>5. QED BY <1>3, <2>1, <2>2, <2>3, <2>4 DEF x
<1>4. QED BY <1>2, <1>3

\* What is in the parse is allocated, and is no ignored text that is not attached.
LEMMA InParseLive ==
  ASSUME IInv, ListsInv, NEW x \in Ref, InParse(pt, stack, Ahead, x)
  PROVE  x \in live /\ x \notin ToSet(accum_ignore)
<1>1. ToSet(Ahead) = RedCells \cup ToSet(parse_input)
  BY AheadSet
<1>2. QED BY <1>1 DEF ListsInv, OneOwner, Apart, SetsApart, Held, InParse

\* Behind the front of the input are tokens that caused reductions.
Waits(p, a) ==
  \A i \in DOMAIN a : i > 1 => /\ Tok(p, a[i]) /\ p[a[i]].cause_reduce > 0
                               /\ p[a[i]].cause_reduce \in Int

\* A sequence longer than two has a second and a third element.
LEMMA ThirdAt == \A k \in Nat : ~(k <= 2) => 2 \in 1..k /\ 3 \in 1..k /\ 2 > 1 /\ 3 > 1
OBVIOUS

\* Arithmetic: a token that counts reductions counts the cell before it.
LEMMA JustBefore ==
  \A k \in Nat : \A c \in Int : c > 0 => (k + 3) - c <= k + 2 /\ k + 2 < k + 3
OBVIOUS

\* The cells of the input in the trail.
LEMMA InOrder ==
  ASSUME NEW e, NEW n \in Nat, NEW a \in Seq(Ref), Ends(e, n, a)
  PROVE  \A j \in DOMAIN a : e[n + j] = a[j] /\ n + j \in 1..Len(e)
BY DEF Ends

\* There is one at most.
LEMMA TrailShort ==
  ASSUME NEW p, NEW stk, NEW a \in Seq(Ref), NEW lv, Trail(p, stk, a, lv), Waits(p, a)
  PROVE  Len(a) <= 2
<1>0. Len(a) \in Nat /\ DOMAIN a = 1..Len(a)
  OBVIOUS
<1> SUFFICES ASSUME ~(Len(a) <= 2) PROVE FALSE
  OBVIOUS
<1>1. PICK e \in Seq(Ref), st \in [Nat -> Seq(Ref)], n \in Nat : TrailOf(p, stk, a, lv, e, st, n)
  BY DEF Trail
<1>2. Ends(e, n, a) /\ Causes(p, e) /\ DOMAIN e = 1..Len(e)
  BY <1>1 DEF TrailOf
<1>3. 2 \in DOMAIN a /\ 3 \in DOMAIN a /\ 2 > 1 /\ 3 > 1
  BY <1>0, ThirdAt, Zenon
<1>4. /\ n + 2 \in DOMAIN e /\ e[n + 2] = a[2]
      /\ n + 3 \in DOMAIN e /\ e[n + 3] = a[3]
  <2>1. \A j \in DOMAIN a : e[n + j] = a[j] /\ n + j \in DOMAIN e
    BY <1>2, InOrder, Zenon
  <2>2. QED BY <1>3, <2>1, Zenon
<1>5. /\ Tok(p, a[2]) /\ Tok(p, a[3])
      /\ p[a[3]].cause_reduce > 0 /\ p[a[3]].cause_reduce \in Int
  BY <1>3, Zenon DEF Waits
<1>6. TokenOK(p, e, n + 3)
  BY <1>2, <1>4, <1>5, Zenon DEF Causes
<1>7. (n + 3) - p[e[n + 3]].cause_reduce <= n + 2 /\ n + 2 < n + 3
  BY <1>4, <1>5, JustBefore, Zenon
<1>8. ~Tok(p, e[n + 2])
  BY <1>4, <1>6, <1>7, Zenon DEF TokenOK
<1>9. QED BY <1>4, <1>5, <1>8, Zenon

\* The second of two is what is left without the first.
LEMMA SecondOfTwo ==
  \A b \in Seq(Ref) : Len(b) > 1 /\ Len(b) <= 2 => Len(Tail(b)) = 1 /\ Tail(b)[1] = b[2]
<1> SUFFICES ASSUME NEW b \in Seq(Ref), Len(b) > 1, Len(b) <= 2
             PROVE  Len(Tail(b)) = 1 /\ Tail(b)[1] = b[2]
  OBVIOUS
<1>1. Len(b) = 2
  <2>1. \A k \in Nat : k > 1 /\ k <= 2 => k = 2
    OBVIOUS
  <2>2. Len(b) \in Nat
    OBVIOUS
  <2>3. QED BY <2>1, <2>2, Zenon
<1>2. b # <<>>
  BY <1>1
<1>3. Len(Tail(b)) = Len(b) - 1 /\ \A i \in 1..Len(Tail(b)) : Tail(b)[i] = b[i + 1]
  BY <1>2, HeadTailProperties
<1>4. Len(Tail(b)) = 1
  BY <1>1, <1>3
<1>5. Tail(b)[1] = b[1 + 1]
  BY <1>3, <1>4
<1>6. QED BY <1>4, <1>5

\* The shape of the input.
LEMMA AheadShape ==
  ASSUME TInv, ~parse_error
  PROVE  /\ Ahead \in Seq(Ref) /\ Len(Ahead) <= 2
         /\ Len(Ahead) > 1 => Tok(pt, Ahead[2])
         /\ Ahead # <<>> => Behind(pt, Tail(Ahead))
         /\ red_lel # <<>> => Behind(pt, parse_input)
<1>0. IInv /\ ListsInv /\ InputInv /\ Trail(pt, stack, Ahead, live)
  BY DEF TInv, LInv, TrailInv
<1>1. /\ Ahead \in Seq(Ref) /\ parse_input \in Seq(Ref)
      /\ red_lel = <<>> => Ahead = parse_input
      /\ red_lel # <<>> => red_lel[1] \in Ref /\ Ahead = <<red_lel[1]>> \o parse_input
  BY <1>0, AheadSet, ListTypes
<1>2. ASSUME NEW i \in DOMAIN Ahead, i > 1
      PROVE  Ahead[i] \in Ref /\ Waiting(Ahead[i])
  <2>1. CASE red_lel = <<>>
    BY <1>0, <1>1, <1>2, <2>1 DEF InputInv
  <2>2. CASE red_lel # <<>>
    <3>1. pc = "reduction"
      BY <1>0, <2>2 DEF ListsInv
    <3>2. i - 1 \in DOMAIN parse_input /\ Ahead[i] = parse_input[i - 1]
      BY <1>1, <1>2, <2>2
    <3>3. QED BY <1>0, <1>1, <3>1, <3>2 DEF InputInv
  <2>3. QED BY <2>1, <2>2
<1>3. Waits(pt, Ahead)
  <2>1. \A x \in Ref : pt[x].cause_reduce \in Int
    BY <1>0, ListTypes DEF Node
  <2>2. QED BY <1>2, <2>1 DEF Waiting, Tok, Waits
<1> DEFINE a == Ahead
<1> HIDE DEF a
<1>4. Len(a) <= 2
  BY <1>0, <1>1, <1>3, TrailShort DEF a
<1>5. a \in Seq(Ref) /\ \A i \in DOMAIN a : i > 1 => Tok(pt, a[i])
  BY <1>1, <1>3 DEF a, Waits
<1>6. Len(a) > 1 => Tok(pt, a[2])
  <2>1. Len(a) > 1 => 2 \in DOMAIN a
    BY <1>5
  <2>2. QED BY <1>5, <2>1
<1>7. a # <<>> => Behind(pt, Tail(a))
  <2>1. CASE Len(a) > 1
    <3>1. \A b \in Seq(Ref) : Len(b) > 1 /\ Len(b) <= 2 => Len(Tail(b)) = 1 /\ Tail(b)[1] = b[2]
      BY SecondOfTwo, Zenon
    <3>2. Len(Tail(a)) = 1 /\ Tail(a)[1] = a[2]
      BY <1>4, <1>5, <2>1, <3>1, Zenon
    <3>3. QED BY <1>6, <2>1, <3>2 DEF Behind
  <2>2. CASE ~(Len(a) > 1)
    <3>1. a # <<>> => Tail(a) = <<>>
      BY <1>5, <2>2
    <3>2. QED BY <3>1 DEF Behind
  <2>3. QED BY <2>1, <2>2
<1>8. red_lel # <<>> => Behind(pt, parse_input)
  <2>1. red_lel # <<>> => a # <<>> /\ Tail(a) = parse_input
    BY <1>1 DEF a
  <2>2. QED BY <1>7, <2>1
<1>9. QED BY <1>1, <1>4, <1>6, <1>7, <1>8 DEF a

-----------------------------------------------------------------------------
(* Steps that leave every cell where it is. *)

\* Nodes with children stay where they are.
LEMMA ParentsKept ==
  ASSUME NEW p, NEW q, NEW stk, NEW stk2, NEW a, NEW a2, Parents(p, stk, a),
         \A r \in Ref : q[r].child = p[r].child,
         \A r \in Ref : p[r].child # <<>> /\ (r \in ToSet(stk) \/ r \in ToSet(a))
                          => r \in ToSet(stk2) \/ r \in ToSet(a2)
  PROVE  Parents(q, stk2, a2)
BY DEF Parents, InParse

\* Nodes with the same core say the same to the trail, ...
LEMMA CoreCause ==
  ASSUME NEW m, NEW n, SameCore(m, n)
  PROVE  SameCause(m, n) /\ n.state = m.state /\ n.child = m.child /\ (Untried(n) <=> Untried(m))
BY DEF SameCore, SameCause, Untried

\* ... so that a step that changes none keeps it.
LEMMA CoreTrail ==
  ASSUME NEW p, NEW q, NEW stk, NEW a \in Seq(Ref), NEW lv, Trail(p, stk, a, lv),
         Parents(p, stk, a), Len(a) > 1 => Tok(p, a[2]), lv \subseteq Ref,
         \A r \in Ref : SameCore(p[r], q[r])
  PROVE  Trail(q, stk, a, lv) /\ Parents(q, stk, a)
<1>1. \A r \in Ref : /\ SameCause(p[r], q[r]) /\ q[r].state = p[r].state
                     /\ q[r].child = p[r].child /\ (Untried(q[r]) <=> Untried(p[r]))
  BY CoreCause
<1>2. Trail(q, stk, a, lv)
  <2>1. \A x \in Ref : InParse(p, stk, a, x) =>
           /\ SameCause(p[x], q[x])
           /\ q[x].state = p[x].state \/ (a # <<>> /\ x = Head(a))
    BY <1>1
  <2>2. \A r \in Ref : q[r].child = p[r].child \/ ToSet(p[r].child) = {}
    BY <1>1
  <2>3. \A x \in lv : \/ x \in ToSet(a) \/ ~Untried(q[x])
                      \/ x \in lv /\ (Untried(q[x]) => Untried(p[x]))
    BY <1>1
  <2>4. Stays(p, q, stk, a, lv, lv)
    BY <2>1, <2>2, <2>3, Zenon DEF Stays
  <2>5. QED BY <2>4, TrailKept
<1>3. Parents(q, stk, a)
  BY <1>1, ParentsKept
<1>4. QED BY <1>2, <1>3

\* A step that does not touch the nodes and the lists.
LEMMA KeptTrail ==
  ASSUME TrailInv, UNCHANGED <<nodeVars, red_lel>>, ~parse_error' => ~parse_error
  PROVE  TrailInv'
BY DEF TrailInv, Ahead

\* Such are the steps that decide what to do next, ...
LEMMA SteadyTrail ==
  ASSUME TInv, LET Moves == \/ ScanPreRegion \/ ScanLater \/ ScanNextRegion \/ ScanNull
                            \/ ScanGenerate \/ NoTransition \/ AgainOut \/ Done
                            \/ Drive \/ UNCHANGED vars
               IN Moves
  PROVE  EmptyInv' /\ TrailInv'
<1>1. UNCHANGED <<nodeVars, red_lel, parse_error, check_next>>
  <2>1. CASE \/ ScanPreRegion \/ ScanLater \/ ScanNextRegion \/ ScanNull \/ ScanGenerate
    BY <2>1 DEF ScanPreRegion, ScanLater, ScanNextRegion, ScanNull, ScanGenerate
  <2>2. CASE NoTransition \/ AgainOut \/ Done
    BY <2>2 DEF NoTransition, AgainOut, Done
  <2>3. CASE Drive \/ UNCHANGED vars
    BY <2>3 DEF Drive, Send, SendEof, ParseFrag, vars
  <2>4. QED BY <2>1, <2>2, <2>3
<1>2. TrailInv'
  BY <1>1, KeptTrail DEF TInv
<1>3. parse_input = <<>> \/ parse_error
      \/ (pc = "again" /\ pc' = "backtrack" /\ UNCHANGED stop) \/ UNCHANGED vars
  <2>1. CASE \/ ScanPreRegion \/ ScanLater \/ ScanNextRegion \/ ScanNull \/ ScanGenerate
    <3>1. pc = "scan"
      BY <2>1 DEF ScanPreRegion, ScanLater, ScanNextRegion, ScanNull, ScanGenerate
    <3>2. QED BY <3>1 DEF TInv, EmptyInv
  <2>2. CASE NoTransition
    BY <2>2 DEF NoTransition
  <2>3. CASE AgainOut
    BY <2>3 DEF AgainOut
  <2>4. CASE Done
    BY <2>4 DEF Done, TInv, EmptyInv
  <2>5. CASE Drive
    <3>1. pc = "idle"
      BY <2>5 DEF Drive, Send, SendEof, ParseFrag, Idle
    <3>2. QED BY <3>1 DEF TInv, EmptyInv
  <2>6. QED BY <2>1, <2>2, <2>3, <2>4, <2>5
<1>4. pc = "again" => ~stop /\ ~check_next
  BY DEF TInv, LInv, FlowInv
<1>5. EmptyInv'
  <2>1. CASE UNCHANGED vars
    <3>1. UNCHANGED <<parse_input, parse_error, pc, check_next, stop>>
      BY <2>1 DEF vars
    <3>2. QED BY <3>1 DEF TInv, EmptyInv
  <2>2. CASE ~(UNCHANGED vars)
    BY <1>1, <1>3, <1>4, <2>2 DEF EmptyInv
  <2>3. QED BY <2>1, <2>2
<1>6. QED BY <1>2, <1>5

\* ... going forward and going backward.
LEMMA BackTrail ==
  ASSUME TInv, BtReverse \/ BtNext \/ BtStop \/ BtRetry \/ BtFail
  PROVE  EmptyInv' /\ TrailInv'
<1>1. UNCHANGED <<nodeVars, red_lel>> /\ pc = "backtrack" /\ ~parse_error
  BY DEF BtReverse, BtNext, BtStop, BtRetry, BtFail, AtUnshift, TInv, LInv, FlowInv
<1>2. TrailInv'
  BY <1>1, KeptTrail DEF TInv
<1>3. EmptyInv'
  <2>1. CASE BtReverse
    BY <1>1, <2>1 DEF BtReverse, TInv, EmptyInv
  <2>2. CASE BtNext
    <3>1. check_next /\ parse_input' = parse_input
      BY <1>1, <2>2 DEF BtNext
    <3>2. QED BY <1>1, <3>1 DEF TInv, EmptyInv
  <2>3. CASE BtStop
    <3>1. CASE stop
      BY <1>1, <3>1 DEF TInv, EmptyInv
    <3>2. CASE ~stop
      BY <1>1, <2>3, <3>2 DEF BtStop, EmptyInv
    <3>3. QED BY <3>1, <3>2
  <2>4. CASE BtRetry
    BY <1>1, <2>4 DEF BtRetry, EmptyInv
  <2>5. CASE BtFail
    BY <2>5 DEF BtFail, EmptyInv
  <2>6. QED BY <2>1, <2>2, <2>3, <2>4, <2>5
<1>4. QED BY <1>2, <1>3

-----------------------------------------------------------------------------
(* Steps that read or give back text. *)

\* A cell that is not in the parse has no children.
LEMMA NoChildren ==
  ASSUME TInv, ~parse_error, NEW x \in Ref,
         x \notin live \/ x \in ToSet(accum_ignore)
  PROVE  ~InParse(pt, stack, Ahead, x) /\ pt[x].child = <<>>
<1>1. ~InParse(pt, stack, Ahead, x)
  BY InParseLive DEF TInv, LInv
<1>2. QED BY <1>1 DEF TInv, TrailInv, Parents

\* Going forward, the parser is in a state of the automaton.
LEMMA StateHeld ==
  ASSUME LInv, ~parse_error, pc # "backtrack"
  PROVE  pda_cs \in Nat
<1>0. IInv /\ stack \in Seq(Ref) /\ pt \in [Ref -> Node]
  BY ListTypes DEF LInv
<1>1. Path(pt, stack) /\ pda_cs = stack_top_target(pt, stack)
  BY DEF LInv, PathInv, StackInv
<1>2. StartState \in Nat
  BY IdAssumption
<1>3. ASSUME stack # <<>> PROVE Target(pt, Head(stack)) \in Nat
  <2>1. Found(pt, Head(stack))
    BY <1>0, <1>1, <1>3, PathTail DEF Settled
  <2>2. Target(pt, Head(stack)) \in PdaState
    BY <2>1, TableAssumption DEF Target, Found, HasTrans
  <2>3. QED BY <2>2, IdAssumption
<1>4. QED BY <1>1, <1>2, <1>3 DEF stack_top_target

\* A token enters parse_token.
LEMMA EnterParserTrail ==
  ASSUME TInv, NEW node \in Node, NEW n \in Int, EnterParser(node, n), pc = "scan",
         node.child = <<>>, node.id \in Term, node.retry_upper = 0,
         node.cause_reduce = 0,
         UNCHANGED <<stack, red_lel, parse_error, check_next, stop>>
  PROVE  EmptyInv' /\ TrailInv'
<1>1. PICK r \in Ref :
        /\ Fresh(r) /\ live' = live \cup {r}
        /\ pt' = [pt EXCEPT ![r] = [node EXCEPT !.state = pda_cs,
                                                !.has_rcode = Transfer(n)]]
        /\ parse_input' = <<r>>
  BY DEF EnterParser
<1> DEFINE m == [node EXCEPT !.state = pda_cs, !.has_rcode = Transfer(n)]
<1>2. m.child = <<>> /\ m.id \in Term /\ m.retry_upper = 0 /\ m.cause_reduce = 0
  BY DEF Node
<1>3. pt' = [pt EXCEPT ![r] = m] /\ r \notin live
  BY <1>1 DEF Fresh
<1> HIDE DEF m
<1>4. pt'[r] = m /\ \A x \in Ref : x # r => pt'[x] = pt[x]
  BY <1>3, ListTypes DEF TInv, LInv
<1>5. ~parse_error /\ parse_input = <<>> /\ red_lel = <<>> /\ IInv
  BY DEF TInv, LInv, FlowInv, EmptyInv, ListsInv
<1>6. Ahead = <<>> /\ Ahead' = <<r>>
  <2>1. <<>> \o <<r>> = <<r>> /\ <<>> \o <<>> = <<>>
    OBVIOUS
  <2>2. QED BY <1>1, <1>5, <2>1 DEF Ahead
<1>7. ~InParse(pt, stack, <<>>, r) /\ pt[r].child = <<>>
  BY <1>3, <1>5, <1>6, NoChildren
<1>8. Trail(pt, stack, <<>>, live) /\ Parents(pt, stack, <<>>)
  BY <1>5, <1>6 DEF TInv, TrailInv
<1>9. \A x \in Ref : pt'[x].child = pt[x].child
  BY <1>2, <1>4, <1>7
<1>10. Trail(pt', stack, <<>>, live)
  <2>1. Stays(pt, pt', stack, <<>>, live, live)
    <3>1. \A x \in Ref : InParse(pt, stack, <<>>, x) => pt'[x] = pt[x]
      BY <1>4, <1>7
    <3>2. \A x \in live : pt'[x] = pt[x] /\ x \in Ref
      BY <1>3, <1>4, <1>5 DEF IInv, TypeOK, NodesOK
    <3>3. ~(Len(<<>>) > 1)
      OBVIOUS
    <3>4. QED BY <1>9, <3>1, <3>2, <3>3 DEF Stays, SameCause
  <2>2. <<>> \in Seq(Ref)
    OBVIOUS
  <2>3. QED BY <1>8, <2>1, <2>2, TrailKept
<1>11. ~InParse(pt', stack, <<>>, r)
  BY <1>7, <1>9 DEF InParse
<1>12. Trail(pt', stack, <<r>>, live \cup {r})
  <2>1. Tok(pt', r) /\ pt'[r].id \in Term /\ pt'[r].child = <<>> /\ pt'[r].retry_upper = 0
        /\ pt'[r].cause_reduce = 0
    BY <1>2, <1>4 DEF Tok
  <2>2. stack \in Seq(Ref)
    BY <1>5, ListTypes
  <2>3. QED BY <1>10, <1>11, <2>1, <2>2, TrailEnter
<1>13. Parents(pt', stack, <<r>>)
  <2>1. ToSet(<<>>) = {}
    BY EmptySet
  <2>2. \A x \in Ref : x \notin ToSet(<<>>)
    BY <2>1
  <2>3. QED BY <1>8, <1>9, <2>2, ParentsKept
<1>14. TrailInv'
  BY <1>1, <1>5, <1>6, <1>12, <1>13 DEF TrailInv
<1>15. EmptyInv'
  <2>1. pc' \in {"done", "again"}
    BY DEF EnterParser
  <2>2. pc' = "again"
    <3>1. pda_cs \in Nat
      BY <1>5, StateHeld DEF TInv
    <3>2. QED BY <3>1 DEF EnterParser
  <2>3. QED BY <2>1, <2>2 DEF EmptyInv
<1>16. QED BY <1>14, <1>15

\* Ignored text is read.
LEMMA IgnoreTrail ==
  ASSUME TInv, NEW node \in Node, Ignore(node), pc = "scan", node.child = <<>>,
         node.retry_lower = 0, node.retry_upper = 0
  PROVE  EmptyInv' /\ TrailInv'
<1>1. PICK r \in Ref :
        /\ Fresh(r) /\ live' = live \cup {r}
        /\ pt' = [pt EXCEPT ![r] = [node EXCEPT !.has_rcode = Transfer(rc_block_count),
                                                !.retry_region = RetryRegion]]
  BY DEF Ignore
<1> DEFINE m == [node EXCEPT !.has_rcode = Transfer(rc_block_count),
                             !.retry_region = RetryRegion]
<1>2. m.child = <<>> /\ ~Untried(m)
  BY DEF Node, Untried
<1>3. pt' = [pt EXCEPT ![r] = m] /\ r \notin live
  BY <1>1 DEF Fresh
<1> HIDE DEF m
<1>4. pt'[r] = m /\ \A x \in Ref : x # r => pt'[x] = pt[x]
  BY <1>3, ListTypes DEF TInv, LInv
<1>5. /\ ~parse_error /\ IInv /\ parse_input = <<>>
      /\ UNCHANGED <<stack, parse_input, red_lel, parse_error>>
  BY DEF Ignore, TInv, LInv, FlowInv, EmptyInv
<1>6. ~InParse(pt, stack, Ahead, r) /\ pt[r].child = <<>>
  BY <1>3, <1>5, NoChildren
<1>7. \A x \in Ref : pt'[x].child = pt[x].child
  BY <1>2, <1>4, <1>6
<1>8. Ahead' = Ahead /\ Ahead \in Seq(Ref) /\ (Len(Ahead) > 1 => Tok(pt, Ahead[2]))
  BY <1>5, AheadShape DEF Ahead
<1>9. Stays(pt, pt', stack, Ahead, live, live \cup {r})
  <2>1. \A x \in Ref : InParse(pt, stack, Ahead, x) => pt'[x] = pt[x]
    BY <1>4, <1>6
  <2>2. \A x \in live : pt'[x] = pt[x]
    BY <1>3, <1>4, <1>5 DEF IInv, TypeOK, NodesOK
  <2>3. ~Untried(pt'[r])
    BY <1>2, <1>4
  <2>4. QED BY <1>7, <1>8, <2>1, <2>2, <2>3 DEF Stays, SameCause
<1>10. Trail(pt', stack, Ahead, live \cup {r})
  BY <1>5, <1>8, <1>9, TrailKept DEF TInv, TrailInv
<1>11. Parents(pt', stack, Ahead)
  BY <1>5, <1>7, ParentsKept DEF TInv, TrailInv
<1>12. TrailInv'
  BY <1>1, <1>5, <1>8, <1>10, <1>11 DEF TrailInv
<1>13. EmptyInv'
  BY <1>5 DEF EmptyInv
<1>14. QED BY <1>12, <1>13

\* The scanning that sends a node to parse_token.
LEMMA EnteredTrail ==
  ASSUME TInv, ScanCollectIgnore \/ ScanEof \/ ScanTree \/ ScanToken
  PROVE  EmptyInv' /\ TrailInv'
<1>0. IInv /\ StatesOK /\ CodeOK /\ ScannerOK /\ rc_block_count \in Int
  BY DEF TInv, LInv, IInv, TypeOK, CodeOK
<1>1. CASE ScanCollectIgnore
  <2> DEFINE node == [Blank EXCEPT !.id = CiLel[region], !.retry_region = RetryRegion]
  <2>1. CiLel[region] \in Term /\ RetryRegion \in Nat
    BY <1>0, <1>1, RetryRegionType, RegionAssumption DEF ScannerOK, ScanCollectIgnore
  <2>2. node \in Node
    BY <2>1, BlankType DEF Node, Id
  <2>3. node.child = <<>> /\ node.id \in Term /\ node.retry_upper = 0 /\ node.cause_reduce = 0
    BY <2>1 DEF Blank
  <2>4. /\ EnterParser(node, rc_block_count) /\ pc = "scan" /\ rc_block_count \in Int
        /\ UNCHANGED <<stack, red_lel, parse_error, check_next, stop>>
    BY <1>0, <1>1 DEF ScanCollectIgnore
  <2> HIDE DEF node
  <2>5. QED BY <2>2, <2>3, <2>4, EnterParserTrail
<1>2. CASE ScanEof
  <2> DEFINE node == [Blank EXCEPT !.id = EofId]
             writes == RunFrame(EofFrame[region]).env # env
             k == rc_block_count + (IF writes THEN MakeSteps ELSE 0)
  <2>1. node \in Node
    BY BlankType, IdAssumption DEF Node, Id
  <2>2. node.child = <<>> /\ node.id \in Term /\ node.retry_upper = 0 /\ node.cause_reduce = 0
    BY IdAssumption DEF Blank
  <2>3. /\ EnterParser(node, k) /\ pc = "scan" /\ k \in Int
        /\ UNCHANGED <<stack, red_lel, parse_error, check_next, stop>>
    BY <1>0, <1>2 DEF ScanEof, MakeSteps
  <2> HIDE DEF node, k
  <2>4. QED BY <2>1, <2>2, <2>3, EnterParserTrail
<1>3. CASE ScanTree
  <2> DEFINE node == [Blank EXCEPT !.id = ItemId[Head(input)], !.artificial = TRUE,
                                   !.text = <<Head(input)>>]
  <2>1. ItemId[Head(input)] \in Term /\ <<Head(input)>> \in Seq(Item)
    BY <1>0, <1>3, TreeItemType DEF ScanTree, Item
  <2>2. node \in Node
    BY <2>1, BlankType DEF Node, Id
  <2>3. node.child = <<>> /\ node.id \in Term /\ node.retry_upper = 0 /\ node.cause_reduce = 0
    BY <2>1 DEF Blank
  <2>4. /\ EnterParser(node, rc_block_count) /\ pc = "scan" /\ rc_block_count \in Int
        /\ UNCHANGED <<stack, red_lel, parse_error, check_next, stop>>
    BY <1>0, <1>3 DEF ScanTree
  <2> HIDE DEF node
  <2>5. QED BY <2>2, <2>3, <2>4, EnterParserTrail
<1>4. CASE ScanToken
  <2>1. PICK t \in Matches :
          EnterParser([Blank EXCEPT !.id = t.id, !.retry_region = RetryRegion,
                                    !.text = Taken(MatchLen(t))], rc_block_count)
    BY <1>4 DEF ScanToken
  <2> DEFINE node == [Blank EXCEPT !.id = t.id, !.retry_region = RetryRegion,
                                   !.text = Taken(MatchLen(t))]
  <2>2. /\ t.id \in Term /\ Taken(MatchLen(t)) \in Seq(Item) /\ RetryRegion \in Nat
    <3>1. pc = "scan"
      BY <1>4 DEF ScanToken
    <3>2. QED BY <1>0, <3>1, MatchType, RetryRegionType
  <2>3. node \in Node
    BY <2>2, BlankType DEF Node, Id
  <2>4. node.child = <<>> /\ node.id \in Term /\ node.retry_upper = 0 /\ node.cause_reduce = 0
    BY <2>2 DEF Blank
  <2>5. EnterParser(node, rc_block_count)
    BY <2>1
  <2>6. /\ pc = "scan"
        /\ UNCHANGED <<stack, red_lel, parse_error, check_next, stop>>
    BY <1>4 DEF ScanToken
  <2> HIDE DEF node
  <2>7. QED BY <1>0, <2>3, <2>4, <2>5, <2>6, EnterParserTrail
<1>5. QED BY <1>1, <1>2, <1>3, <1>4

\* The scanning of ignored text.
LEMMA IgnoredTrail ==
  ASSUME TInv, ScanIgnoreTree \/ ScanIgnore
  PROVE  EmptyInv' /\ TrailInv'
<1>0. IInv
  BY DEF TInv, LInv
<1>1. CASE ScanIgnoreTree
  <2> DEFINE node == [Blank EXCEPT !.id = ItemId[Head(input)], !.artificial = TRUE,
                                   !.text = <<Head(input)>>]
  <2>1. ItemId[Head(input)] \in Id /\ <<Head(input)>> \in Seq(Item)
    BY <1>0, <1>1, TreeItemType DEF ScanIgnoreTree, Item, Id
  <2>2. node \in Node
    BY <2>1, BlankType DEF Node
  <2>3. node.child = <<>> /\ node.retry_lower = 0 /\ node.retry_upper = 0
    BY DEF Blank
  <2>4. Ignore(node) /\ pc = "scan"
    BY <1>1 DEF ScanIgnoreTree
  <2> HIDE DEF node
  <2>5. QED BY <2>2, <2>3, <2>4, IgnoreTrail
<1>2. CASE ScanIgnore
  <2>1. PICK t \in Matches :
          Ignore([Blank EXCEPT !.id = t.id, !.right_flag = (pre_region >= 0),
                               !.text = Taken(MatchLen(t))])
    BY <1>2 DEF ScanIgnore
  <2> DEFINE m == [Blank EXCEPT !.id = t.id, !.right_flag = (pre_region >= 0),
                                !.text = Taken(MatchLen(t))]
  <2>2. /\ t.id \in Id /\ Taken(MatchLen(t)) \in Seq(Item)
        /\ (pre_region >= 0) \in BOOLEAN
    <3>1. pc = "scan"
      BY <1>2 DEF ScanIgnore
    <3>2. QED BY <1>0, <3>1, MatchType DEF Id
  <2>3. m \in Node
    BY <2>2, BlankType DEF Node
  <2>4. m.child = <<>> /\ m.retry_lower = 0 /\ m.retry_upper = 0
    BY DEF Blank
  <2>5. Ignore(m) /\ pc = "scan"
    BY <1>2, <2>1 DEF ScanIgnore
  <2> HIDE DEF m
  <2>6. QED BY <2>3, <2>4, <2>5, IgnoreTrail
<1>3. QED BY <1>1, <1>2

-----------------------------------------------------------------------------
(* Backward. *)

\* The retry of a nonterminal that has run its reverse code is left alone.
LEMMA BtDeckTrail ==
  ASSUME TInv, BtDeck
  PROVE  EmptyInv' /\ TrailInv'
<1> DEFINE n == [pt[Lel] EXCEPT !.has_rcode = FALSE]
<1>0. IInv /\ pt \in [Ref -> Node] /\ live \subseteq Ref
  BY ListTypes DEF TInv, LInv, IInv, TypeOK, NodesOK
<1>1. /\ pt' = [pt EXCEPT ![Lel] = n] /\ pc = "backtrack" /\ parse_input # <<>>
      /\ UNCHANGED <<stack, parse_input, red_lel, check_next, stop, parse_error, pc, live>>
  BY DEF BtDeck
<1>2. Lel \in Ref /\ pt[Lel] \in Node
  BY <1>0, <1>1, LelType
<1>3. SameCore(pt[Lel], n)
  BY <1>2 DEF Node, SameCore
<1> HIDE DEF n
<1>4. \A r \in Ref : SameCore(pt[r], pt'[r])
  <2>1. pt'[Lel] = n /\ \A r \in Ref : r # Lel => pt'[r] = pt[r]
    BY <1>0, <1>1, <1>2
  <2>2. QED BY <1>3, <2>1 DEF SameCore
<1>5. Ahead' = Ahead
  BY <1>1 DEF Ahead
<1>6. ASSUME ~parse_error
      PROVE  Trail(pt', stack, Ahead, live) /\ Parents(pt', stack, Ahead)
  <2>1. Trail(pt, stack, Ahead, live) /\ Parents(pt, stack, Ahead)
    BY <1>6 DEF TInv, TrailInv
  <2>2. Ahead \in Seq(Ref) /\ (Len(Ahead) > 1 => Tok(pt, Ahead[2]))
    BY <1>6, AheadShape
  <2>3. QED BY <1>0, <1>4, <2>1, <2>2, CoreTrail
<1>7. TrailInv'
  BY <1>1, <1>5, <1>6 DEF TrailInv
<1>8. EmptyInv'
  BY <1>1 DEF TInv, EmptyInv
<1>9. QED BY <1>7, <1>8

\* Ignored text is sent back.
LEMMA BtIgnoreTrail ==
  ASSUME TInv, BtIgnore
  PROVE  EmptyInv' /\ TrailInv'
<1> DEFINE x == Head(accum_ignore)
<1>0. IInv /\ pt \in [Ref -> Node] /\ accum_ignore \in Seq(Ref) /\ live \subseteq Ref
  BY ListTypes DEF TInv, LInv, IInv, TypeOK, NodesOK
<1>1. /\ pt' = [pt EXCEPT ![x] = Blank] /\ pc = "backtrack" /\ parse_input = <<>>
      /\ accum_ignore # <<>> /\ live' = live \ {x}
      /\ UNCHANGED <<stack, parse_input, red_lel, parse_error, pc>>
  BY DEF BtIgnore, SendBack
<1>2. x \in Ref /\ x \in ToSet(accum_ignore)
  <2>1. Head(accum_ignore) \in Ref
    BY <1>0, <1>1, HeadTailType
  <2>2. ToSet(accum_ignore) = {Head(accum_ignore)} \cup ToSet(Tail(accum_ignore))
    BY <1>0, <1>1, HeadSet, Zenon
  <2>3. QED BY <2>1, <2>2
<1> HIDE DEF x
<1>3. ~parse_error
  BY <1>1 DEF TInv, LInv, FlowInv
<1>4. ~InParse(pt, stack, Ahead, x) /\ pt[x].child = <<>>
  BY <1>2, <1>3, NoChildren
<1>5. pt'[x] = Blank /\ \A r \in Ref : r # x => pt'[r] = pt[r]
  BY <1>0, <1>1, <1>2, BlankType
<1>6. \A r \in Ref : pt'[r].child = pt[r].child
  BY <1>4, <1>5 DEF Blank
<1>7. Ahead' = Ahead /\ Ahead \in Seq(Ref) /\ (Len(Ahead) > 1 => Tok(pt, Ahead[2]))
  BY <1>1, <1>3, AheadShape DEF Ahead
<1>8. Stays(pt, pt', stack, Ahead, live, live \ {x})
  <2>1. \A r \in Ref : InParse(pt, stack, Ahead, r) => pt'[r] = pt[r]
    BY <1>4, <1>5
  <2>2. \A r \in live \ {x} : pt'[r] = pt[r]
    BY <1>0, <1>5
  <2>3. QED BY <1>6, <1>7, <2>1, <2>2 DEF Stays, SameCause
<1>9. Trail(pt', stack, Ahead, live \ {x})
  BY <1>3, <1>7, <1>8, TrailKept DEF TInv, TrailInv
<1>10. Parents(pt', stack, Ahead)
  BY <1>3, <1>6, ParentsKept DEF TInv, TrailInv
<1>11. TrailInv'
  BY <1>1, <1>7, <1>9, <1>10 DEF TrailInv
<1>12. EmptyInv'
  BY <1>1 DEF EmptyInv
<1>13. QED BY <1>11, <1>12

\* A sequence of one element.
LEMMA OneOnly ==
  \A s \in Seq(Ref) : s # <<>> /\ ~(Len(s) > 1) => s = <<Head(s)>> /\ Tail(s) = <<>>
<1> SUFFICES ASSUME NEW s \in Seq(Ref), s # <<>>, ~(Len(s) > 1)
             PROVE  s = <<Head(s)>> /\ Tail(s) = <<>>
  OBVIOUS
<1>1. Len(s) = 1
  <2>1. Len(s) \in Nat \ {0}
    BY EmptySeq
  <2>2. \A k \in Nat \ {0} : ~(k > 1) => k = 1
    OBVIOUS
  <2>3. QED BY <2>1, <2>2, Zenon
<1>2. Tail(s) = <<>>
  <2>1. Tail(s) \in Seq(Ref) /\ Len(Tail(s)) = Len(s) - 1
    BY HeadTailProperties
  <2>2. Len(Tail(s)) \notin Nat \ {0}
    BY <1>1, <2>1
  <2>3. QED BY <2>1, <2>2, EmptySeq, Zenon
<1>3. s[1] \in Ref /\ Head(s) = s[1]
  BY <1>1
<1>4. s = <<s[1]>>
  BY <1>1, <1>3
<1>5. QED BY <1>2, <1>3, <1>4

\* Behind a token in front of the input there is nothing.
LEMMA Alone ==
  ASSUME TInv, ~parse_error, red_lel = <<>>, parse_input # <<>>, IsTerm(Lel)
  PROVE  Ahead = <<Lel>> /\ parse_input = <<Lel>> /\ Tail(parse_input) = <<>>
<1>0. /\ IInv /\ parse_input \in Seq(Ref) /\ stack \in Seq(Ref) /\ pt \in [Ref -> Node]
      /\ InputInv /\ Ahead = parse_input /\ Lel \in Ref
      /\ Trail(pt, stack, parse_input, live)
  BY AheadSet, ListTypes, LelType DEF TInv, LInv, TrailInv
<1>1. \A r \in Ref : pt[r].cause_reduce \in Int
  BY <1>0 DEF Node
<1>2. Tok(pt, Head(parse_input))
  BY DEF Tok, IsTerm, Lel
<1>3. ASSUME Len(parse_input) > 1 PROVE FALSE
  <2>1. 2 \in DOMAIN parse_input /\ parse_input[2] \in Ref /\ 2 > 1
    BY <1>0, <1>3
  <2>2. Waiting(parse_input[2])
    BY <1>0, <2>1 DEF InputInv
  <2>3. Tok(pt, parse_input[2]) /\ pt[parse_input[2]].cause_reduce > 0
    BY <2>2 DEF Waiting, Tok
  <2>4. /\ pt[Head(parse_input)].cause_reduce \in Int
        /\ pt[parse_input[2]].cause_reduce \in Int
    BY <1>0, <1>1, <2>1 DEF Lel
  <2>5. ~Tok(pt, Head(parse_input))
    BY <1>0, <1>3, <2>3, <2>4, TrailFront
  <2>6. QED BY <1>2, <2>5
<1> DEFINE b == parse_input
<1>4. b \in Seq(Ref) /\ b # <<>> /\ ~(Len(b) > 1) /\ Head(b) = Lel
  BY <1>0, <1>3 DEF Lel
<1> HIDE DEF b
<1>5. b = <<Head(b)>> /\ Tail(b) = <<>>
  BY <1>4, OneOnly, Zenon
<1>6. QED BY <1>0, <1>4, <1>5 DEF b

\* A token is sent back.
LEMMA BtSendBackTrail ==
  ASSUME TInv, BtSendBack
  PROVE  EmptyInv' /\ TrailInv'
<1> DEFINE x == Lel
<1>0. IInv /\ pt \in [Ref -> Node] /\ stack \in Seq(Ref) /\ live \subseteq Ref
  BY ListTypes DEF TInv, LInv, IInv, TypeOK, NodesOK
<1>1. /\ pt' = [pt EXCEPT ![x] = Blank] /\ pc = "backtrack" /\ parse_input # <<>>
      /\ IsTerm(x) /\ pt[x].cause_reduce = 0 /\ live' = live \ {x} /\ parse_input' = <<>>
      /\ UNCHANGED <<stack, red_lel, parse_error, pc>>
  BY DEF BtSendBack, SendBack
<1>2. ~parse_error /\ red_lel = <<>> /\ x \in Ref /\ x \in ToSet(parse_input)
  <2>1. parse_input \in Seq(Ref)
    BY <1>0, ListTypes
  <2>2. QED BY <1>0, <1>1, <2>1, LelType, LelInput DEF TInv, LInv, FlowInv, ListsInv
<1>3. Ahead = <<x>>
  BY <1>1, <1>2, Alone
<1>4. Trail(pt, stack, <<x>>, live) /\ Parents(pt, stack, <<x>>)
  BY <1>2, <1>3 DEF TInv, TrailInv
<1>5. x \notin ToSet(stack) /\ \A r \in Ref : x \notin ToSet(pt[r].child)
  BY <1>0, <1>2, OffStack DEF TInv, LInv
<1> HIDE DEF x
<1>6. Tok(pt, x) /\ pt[x].cause_reduce = 0 /\ pt[x].child = <<>>
  <2>1. Head(<<x>>) = x /\ <<x>> # <<>> /\ <<x>> \in Seq(Ref)
    BY <1>2
  <2>2. Tok(pt, x)
    BY <1>1 DEF Tok, IsTerm
  <2>3. pt[Head(<<x>>)].cause_reduce \in Int
    BY <1>1, <2>1
  <2>4. pt[Head(<<x>>)].child = <<>>
    BY <1>0, <1>4, <2>1, <2>2, <2>3, TrailFront
  <2>5. QED BY <1>1, <2>1, <2>2, <2>4
<1>7. Trail(pt, stack, <<>>, live \ {x})
  BY <1>0, <1>2, <1>4, <1>6, TrailDrop
<1>8. pt'[x] = Blank /\ \A r \in Ref : r # x => pt'[r] = pt[r]
  BY <1>0, <1>1, <1>2, BlankType
<1>9. \A r \in Ref : pt'[r].child = pt[r].child
  BY <1>6, <1>8 DEF Blank
<1>10. ToSet(<<>>) = {} /\ ~(Len(<<>>) > 1) /\ <<>> \in Seq(Ref)
  BY EmptySet
<1>11. ~InParse(pt, stack, <<>>, x)
  BY <1>5, <1>10 DEF InParse
<1>12. Stays(pt, pt', stack, <<>>, live \ {x}, live \ {x})
  <2>1. \A r \in Ref : InParse(pt, stack, <<>>, r) => pt'[r] = pt[r]
    BY <1>8, <1>11
  <2>2. \A r \in live \ {x} : pt'[r] = pt[r]
    BY <1>0, <1>8
  <2>3. QED BY <1>9, <1>10, <2>1, <2>2 DEF Stays, SameCause
<1>13. Trail(pt', stack, <<>>, live \ {x})
  BY <1>7, <1>10, <1>12, TrailKept
<1>14. Parents(pt', stack, <<>>)
  <2>1. ToSet(<<x>>) = {x}
    BY OneSet
  <2>2. \A r \in Ref : pt[r].child # <<>> /\ (r \in ToSet(stack) \/ r \in ToSet(<<x>>))
            => r \in ToSet(stack) \/ r \in ToSet(<<>>)
    BY <1>6, <2>1
  <2>3. QED BY <1>4, <1>9, <2>2, ParentsKept
<1>15. Ahead' = <<>>
  <2>1. red_lel' = <<>> /\ parse_input' = <<>>
    BY <1>1, <1>2
  <2>2. <<>> \o <<>> = <<>>
    OBVIOUS
  <2>3. QED BY <2>1, <2>2 DEF Ahead
<1>16. TrailInv'
  BY <1>1, <1>13, <1>14, <1>15 DEF TrailInv
<1>17. EmptyInv'
  BY <1>1 DEF EmptyInv
<1>18. QED BY <1>16, <1>17

-----------------------------------------------------------------------------
(* Shifts. *)

\* A nonterminal is shifted in one way.
LEMMA NonTermOnce ==
  ASSUME IInv, parse_input # <<>>, HasTrans(pda_cs, pt[Lel].id), pt[Lel].id \in NonTerm,
         pt[Lel].retry_lower = 0
  PROVE  ~MoreActs
<1> DEFINE k == <<pda_cs, pt[Lel].id>>
<1>1. k \in DOMAIN Trans /\ k[2] \in NonTerm
  BY DEF HasTrans
<1>2. Len(Trans[k].acts) = 1
  BY <1>1, TableAssumption
<1>3. ~(0 + 1 < 1)
  OBVIOUS
<1>4. QED BY <1>2, <1>3 DEF MoreActs, ActAt, Tr

\* The front of the input is shifted.
LEMMA ShiftedTrail ==
  ASSUME TInv, pc = "again", parse_input # <<>>, HasTrans(pda_cs, pt[Lel].id),
         NEW cut \in RightCuts(pt, accum_ignore), NEW q, q = ShiftPt(cut)
  PROVE  /\ Trail(q, <<Lel>> \o stack, Tail(parse_input), live)
         /\ Parents(q, <<Lel>> \o stack, Tail(parse_input))
<1> DEFINE a == parse_input
           x == Lel
<1>0. /\ IInv /\ ListsInv /\ pt \in [Ref -> Node] /\ stack \in Seq(Ref) /\ a \in Seq(Ref)
      /\ live \subseteq Ref /\ ~parse_error /\ red_lel = <<>>
  BY ListTypes DEF TInv, LInv, IInv, TypeOK, NodesOK, FlowInv, ListsInv
<1>1. x \in Ref /\ x \in ToSet(a) /\ x = Head(a) /\ a # <<>>
  BY <1>0, LelType, LelInput DEF Lel
<1>2. Ahead = a /\ (Len(a) > 1 => Tok(pt, a[2]))
  BY <1>0, AheadSet, AheadShape
<1>3. Trail(pt, stack, a, live) /\ Parents(pt, stack, a)
  BY <1>0, <1>2 DEF TInv, TrailInv
<1>4. /\ \A r \in Ref : r # x => SameCore(pt[r], q[r])
      /\ q[x].id = pt[x].id /\ q[x].child = pt[x].child
      /\ q[x].cause_reduce = pt[x].cause_reduce
      /\ q[x].retry_upper = pt[x].retry_upper
      /\ q[x].retry_region = pt[x].retry_region
      /\ ~MoreActs => q[x].retry_lower = 0
  BY <1>0, ShiftPtCore
<1>5. pt[x].id \notin Term => q[x].retry_lower = pt[x].retry_lower
  <2> SUFFICES ASSUME pt[x].id \notin Term PROVE q[x].retry_lower = pt[x].retry_lower
    OBVIOUS
  <2>1. pt[Head(a)].cause_reduce \in Int
    BY <1>0, <1>1 DEF Node
  <2>2. ~Tok(pt, Head(a))
    BY <1>1 DEF Tok
  <2>3. pt[Head(a)].id \in NonTerm /\ pt[Head(a)].retry_lower = 0
    BY <1>0, <1>1, <1>3, <2>1, <2>2, TrailFront
  <2>4. ~MoreActs
    BY <1>0, <1>1, <2>3, NonTermOnce
  <2>5. QED BY <1>1, <1>4, <2>3, <2>4
<1> HIDE DEF a, x
<1>6. Stays(pt, q, stack, a, live, live)
  <2>1. ASSUME NEW r \in Ref
        PROVE  /\ SameCause(pt[r], q[r]) /\ q[r].child = pt[r].child
               /\ q[r].state = pt[r].state \/ (a # <<>> /\ r = Head(a))
               /\ r \in ToSet(a) \/ (Untried(q[r]) <=> Untried(pt[r]))
    <3>1. CASE r = x
      BY <1>1, <1>4, <1>5, <3>1 DEF SameCause
    <3>2. CASE r # x
      BY <1>4, <3>2, CoreCause
    <3>3. QED BY <3>1, <3>2
  <2>2. QED BY <1>0, <1>2, <2>1 DEF Stays
<1>7. Trail(q, stack, a, live)
  BY <1>0, <1>3, <1>6, TrailKept
<1>8. Len(a) > 1 => Tok(q, a[2])
  <2> SUFFICES ASSUME Len(a) > 1 PROVE Tok(q, a[2])
    OBVIOUS
  <2>1. a[2] \in Ref
    BY <1>0
  <2>2. q[a[2]].id = pt[a[2]].id
    BY <1>4, <2>1 DEF SameCore
  <2>3. QED BY <1>2, <2>2 DEF Tok
<1>9. Trail(q, <<Head(a)>> \o stack, Tail(a), live)
  BY <1>0, <1>1, <1>7, <1>8, TrailShift
<1>10. Parents(q, <<Head(a)>> \o stack, Tail(a))
  <2>1. ToSet(a) = {Head(a)} \cup ToSet(Tail(a))
    BY <1>0, <1>1, HeadSet, Zenon
  <2>2. Head(a) \in Ref
    BY <1>1
  <2>3. ToSet(<<Head(a)>> \o stack) = {Head(a)} \cup ToSet(stack)
    BY <1>0, <2>2, ConsSet
  <2>4. \A r \in Ref : pt[r].child # <<>> /\ (r \in ToSet(stack) \/ r \in ToSet(a))
            => r \in ToSet(<<Head(a)>> \o stack) \/ r \in ToSet(Tail(a))
    BY <2>1, <2>3
  <2>5. \A r \in Ref : q[r].child = pt[r].child
    BY <1>4 DEF SameCore
  <2>6. QED BY <1>3, <2>4, <2>5, ParentsKept
<1>11. QED BY <1>1, <1>9, <1>10 DEF a, x

\* The node in front is shifted.
LEMMA ShiftTrail ==
  ASSUME TInv, Shift
  PROVE  EmptyInv' /\ TrailInv'
<1>1. /\ pc = "again" /\ pc' = "again" /\ parse_input # <<>>
      /\ HasTrans(pda_cs, pt[Lel].id)
      /\ stack' = <<Lel>> \o stack /\ parse_input' = Tail(parse_input)
      /\ UNCHANGED <<red_lel, parse_error, live>>
  BY DEF Shift
<1>2. PICK cut \in RightCuts(pt, accum_ignore) : pt' = ShiftPt(cut)
  BY DEF Shift
<1>3. Trail(pt', stack', parse_input', live') /\ Parents(pt', stack', parse_input')
  BY <1>1, <1>2, ShiftedTrail
<1>4. IInv /\ red_lel = <<>>
  BY <1>1 DEF TInv, LInv, ListsInv
<1>5. Ahead' = parse_input'
  <2>1. Tail(parse_input) \in Seq(Ref)
    BY <1>1, <1>4, LelType
  <2>2. <<>> \o Tail(parse_input) = Tail(parse_input)
    BY <2>1
  <2>3. QED BY <1>1, <1>4, <2>2 DEF Ahead
<1>6. QED BY <1>1, <1>3, <1>5 DEF EmptyInv, TrailInv

\* The frame of a reduction has run.
LEMMA ReturnTrail ==
  ASSUME TInv, ReductionReturn
  PROVE  EmptyInv' /\ TrailInv'
<1> DEFINE r == red_lel[1]
           o == RunFrame(red_lel[2])
           writes == o.env # env
           made == IF writes THEN MakeSteps ELSE 0
           n == Returned(pt[r], rc_block_count + made, o.reject)
           a == Ahead
<1>0. /\ IInv /\ ListsInv /\ pt \in [Ref -> Node] /\ stack \in Seq(Ref)
      /\ parse_input \in Seq(Ref) /\ live \subseteq Ref
  BY ListTypes DEF TInv, LInv, IInv, TypeOK, NodesOK
<1>1. /\ pc = "reduction" /\ r \in Ref /\ red_lel # <<>> /\ red_lel' = <<>>
      /\ live' = live /\ UNCHANGED <<check_next, stop>>
  BY <1>0 DEF ReductionReturn, ReductionWaits, NodesOK, IInv, TypeOK
<1>2. ~parse_error /\ ~stop /\ ~check_next
  BY <1>1 DEF TInv, LInv, FlowInv
<1>3. CASE induce_exit'
  <2>1. parse_error'
    BY <1>3 DEF ReductionReturn
  <2>2. QED BY <2>1 DEF EmptyInv, TrailInv
<1>4. CASE ~induce_exit'
  <2>1. /\ pt' = [pt EXCEPT ![r] = n]
        /\ stack' = IF o.reject THEN <<r>> \o stack ELSE stack
        /\ parse_input' = IF o.reject THEN parse_input ELSE <<r>> \o parse_input
        /\ pc' = IF o.reject THEN "backtrack" ELSE "again"
    BY <1>4 DEF ReductionReturn, PushRejected
  <2>2. EmptyInv'
    BY <1>1, <1>2, <2>1 DEF EmptyInv
  <2>3. SameCause(pt[r], n) /\ (Untried(n) <=> Untried(pt[r]))
    <3>1. pt[r] \in Node
      BY <1>0, <1>1
    <3> HIDE DEF r
    <3>2. QED BY <3>1 DEF Returned, Node, SameCause, Untried
  <2>4. /\ a \in Seq(Ref) /\ a = <<r>> \o parse_input
        /\ Len(a) > 1 => Tok(pt, a[2])
    BY <1>0, <1>1, <1>2, AheadSet, AheadShape
  <2>5. Trail(pt, stack, a, live) /\ Parents(pt, stack, a)
    BY <1>2 DEF TInv, TrailInv
  <2> HIDE DEF n, r, a
  <2>6. a # <<>> /\ Head(a) = r /\ Tail(a) = parse_input
    BY <1>0, <1>1, <2>4, ConsParts
  <2>7. pt'[r] = n /\ \A x \in Ref : x # r => pt'[x] = pt[x]
    BY <1>0, <1>1, <2>1
  <2>8. Stays(pt, pt', stack, a, live, live)
    <3>1. ASSUME NEW x \in Ref
          PROVE  /\ SameCause(pt[x], pt'[x]) /\ pt'[x].child = pt[x].child
                 /\ pt'[x].state = pt[x].state \/ (a # <<>> /\ x = Head(a))
                 /\ Untried(pt'[x]) <=> Untried(pt[x])
      <4>1. CASE x = r
        BY <2>3, <2>6, <2>7, <4>1 DEF SameCause
      <4>2. CASE x # r
        BY <2>7, <4>2 DEF SameCause
      <4>3. QED BY <4>1, <4>2
    <3>2. QED BY <1>0, <2>4, <3>1 DEF Stays
  <2>9. Trail(pt', stack, a, live)
    BY <1>0, <2>4, <2>5, <2>8, TrailKept
  <2>10. \A x \in Ref : pt'[x].child = pt[x].child
    BY <2>3, <2>7 DEF SameCause
  <2>11. CASE o.reject
    <3>1. stack' = <<Head(a)>> \o stack /\ parse_input' = Tail(a)
      BY <2>1, <2>6, <2>11
    <3>2. Ahead' = Tail(a)
      <4>1. <<>> \o Tail(a) = Tail(a)
        BY <1>0, <2>6
      <4>2. QED BY <1>1, <3>1, <4>1 DEF Ahead
    <3>3. Len(a) > 1 => Tok(pt', a[2])
      <4> SUFFICES ASSUME Len(a) > 1 PROVE Tok(pt', a[2])
        OBVIOUS
      <4>1. a[2] \in Ref
        BY <2>4
      <4>2. pt'[a[2]].id = pt[a[2]].id
        BY <2>3, <2>7, <4>1 DEF SameCause
      <4>3. QED BY <2>4, <4>2 DEF Tok
    <3>4. Trail(pt', <<Head(a)>> \o stack, Tail(a), live)
      BY <1>0, <2>4, <2>6, <2>9, <3>3, TrailShift
    <3>5. Parents(pt', <<Head(a)>> \o stack, Tail(a))
      <4>1. ToSet(a) = {Head(a)} \cup ToSet(Tail(a))
        BY <2>4, <2>6, HeadSet, Zenon
      <4>2. Head(a) \in Ref
        BY <1>1, <2>6
      <4>3. ToSet(<<Head(a)>> \o stack) = {Head(a)} \cup ToSet(stack)
        BY <1>0, <4>2, ConsSet
      <4>4. \A x \in Ref : pt[x].child # <<>> /\ (x \in ToSet(stack) \/ x \in ToSet(a))
                => x \in ToSet(<<Head(a)>> \o stack) \/ x \in ToSet(Tail(a))
        BY <4>1, <4>3
      <4>5. QED BY <2>5, <2>10, <4>4, ParentsKept
    <3>6. TrailInv'
      BY <1>1, <3>1, <3>2, <3>4, <3>5 DEF TrailInv
    <3>7. QED BY <2>2, <3>6
  <2>12. CASE ~o.reject
    <3>1. stack' = stack /\ parse_input' = a
      BY <2>1, <2>4, <2>12
    <3>2. Ahead' = a
      <4>1. <<>> \o a = a
        BY <2>4
      <4>2. QED BY <1>1, <3>1, <4>1 DEF Ahead
    <3>3. Parents(pt', stack, a)
      BY <2>5, <2>10, ParentsKept
    <3>4. TrailInv'
      BY <1>1, <2>9, <3>1, <3>2, <3>3 DEF TrailInv
    <3>5. QED BY <2>2, <3>4
  <2>13. QED BY <2>11, <2>12
<1>5. QED BY <1>3, <1>4

\* The top of the stack is taken back.
LEMMA BtUnshiftTrail ==
  ASSUME TInv, BtUnshift
  PROVE  EmptyInv' /\ TrailInv'
<1> DEFINE top == Head(stack)
           stk == Tail(stack)
           bare == parse_input = <<>>
           left == bare /\ IsTerm(top) /\ pt[top].left_ignore # <<>>
           n == [pt[top] EXCEPT !.left_ignore = <<>>]
           p1 == IF left THEN [pt EXCEPT ![top] = n] ELSE pt
           a == parse_input
           b == <<top>> \o a
<1>0. /\ IInv /\ ListsInv /\ pt \in [Ref -> Node] /\ a \in Seq(Ref) /\ live \subseteq Ref
  BY ListTypes DEF TInv, LInv, IInv, TypeOK, NodesOK
<1>1. /\ stack' = stk /\ parse_input' = b
      /\ pt' = IF bare THEN detach_right_ignore(p1, stk) ELSE p1
      /\ pc = "backtrack" /\ ~check_next /\ ~check_stop
      /\ a = <<>> \/ Tok(pt, Head(a))
      /\ UNCHANGED <<live, red_lel, pc, check_next, stop, parse_error>>
  BY DEF BtUnshift, AtUnshift, Tok, IsTerm, Lel
<1>2. ~stop /\ ~parse_error /\ red_lel = <<>>
  BY <1>0, <1>1 DEF TInv, LInv, FlowInv, ListsInv
<1>3. top \in Ref /\ stk \in Seq(Ref) /\ stack \in Seq(Ref) /\ stack # <<>> /\ pt[top] \in Node
  BY <1>0, HeadTailType, ListTypes DEF BtUnshift
<1>4. SameCore(pt[top], n) /\ n \in Node
  <2> HIDE DEF top
  <2>1. QED BY <1>3, EmptySeq DEF Node, SameCore
<1>5. p1 \in [Ref -> Node] /\ \A r \in Ref : SameCore(pt[r], p1[r])
  <2>1. CASE left
    <3> HIDE DEF n, top
    <3>1. p1 = [pt EXCEPT ![top] = n]
      BY <2>1
    <3>2. p1 \in [Ref -> Node] /\ p1[top] = n /\ \A r \in Ref : r # top => p1[r] = pt[r]
      BY <1>0, <1>3, <1>4, <3>1
    <3> HIDE DEF p1
    <3>3. QED BY <1>4, <3>2 DEF SameCore
  <2>2. CASE ~left
    BY <1>0, <2>2 DEF SameCore
  <2>3. QED BY <2>1, <2>2
<1> HIDE DEF p1, n
<1>6. \A r \in Ref : SameCore(pt[r], pt'[r])
  <2>1. CASE bare
    <3>1. \A r \in Ref : SameCore(p1[r], pt'[r])
      BY <1>1, <1>3, <1>5, <2>1, DetachCore
    <3>2. QED BY <1>5, <3>1 DEF SameCore
  <2>2. CASE ~bare
    BY <1>1, <1>5, <2>2
  <2>3. QED BY <2>1, <2>2
<1>7. Ahead = a
  BY <1>0, <1>2, AheadSet
<1>8. Trail(pt, stack, a, live) /\ Parents(pt, stack, a)
  BY <1>2, <1>7 DEF TInv, TrailInv
<1> HIDE DEF a
<1>9. Trail(pt, Tail(stack), <<Head(stack)>> \o a, live)
  BY <1>0, <1>1, <1>3, <1>8, TrailUnshift
<1> HIDE DEF top, stk, b
<1>10. /\ b \in Seq(Ref) /\ b = <<top>> \o a /\ ToSet(b) = {top} \cup ToSet(a)
       /\ Len(b) > 1 => Tok(pt, b[2])
  <2>1. b \in Seq(Ref) /\ Len(b) = Len(a) + 1 /\ \A i \in DOMAIN a : b[i + 1] = a[i]
    BY <1>0, <1>3, ConsParts DEF b
  <2>2. ToSet(b) = {top} \cup ToSet(a)
    BY <1>0, <1>3, ConsSet DEF b
  <2>3. ASSUME Len(b) > 1 PROVE Tok(pt, b[2])
    <3>1. a # <<>> /\ 1 \in DOMAIN a /\ Head(a) = a[1]
      BY <1>0, <2>1, <2>3
    <3>2. b[1 + 1] = a[1]
      BY <2>1, <3>1
    <3>3. QED BY <1>1, <3>1, <3>2
  <2>4. QED BY <2>1, <2>2, <2>3 DEF b
<1>11. Trail(pt, stk, b, live) /\ Parents(pt, stk, b)
  <2>1. ToSet(stack) = {top} \cup ToSet(stk)
    BY <1>3, HeadSet, Zenon DEF top, stk
  <2>2. \A r \in Ref : pt[r].child # <<>> /\ (r \in ToSet(stack) \/ r \in ToSet(a))
            => r \in ToSet(stk) \/ r \in ToSet(b)
    BY <1>10, <2>1
  <2>3. QED BY <1>8, <1>9, <2>2, ParentsKept DEF top, stk, b
<1>12. Trail(pt', stk, b, live) /\ Parents(pt', stk, b)
  BY <1>0, <1>6, <1>10, <1>11, CoreTrail
<1>13. Ahead' = b
  <2>1. <<>> \o b = b
    BY <1>10
  <2>2. QED BY <1>1, <1>2, <2>1 DEF Ahead
<1>14. TrailInv'
  BY <1>1, <1>12, <1>13 DEF TrailInv
<1>15. EmptyInv'
  BY <1>1, <1>2 DEF EmptyInv
<1>16. QED BY <1>14, <1>15

-----------------------------------------------------------------------------
(* Reductions. *)

\* A sequence reversed twice is the sequence.
LEMMA ReverseTwice ==
  ASSUME NEW s \in Seq(Ref)
  PROVE  Reverse(Reverse(s)) = s
<1> DEFINE t == Reverse(s)
           u == Reverse(t)
           n == Len(s)
<1>1. n \in Nat /\ t \in Seq(Ref) /\ Len(t) = n /\ \A i \in 1..n : t[i] = s[n - i + 1]
  BY DEF Reverse
<1> HIDE DEF t
<1>2. u \in Seq(Ref) /\ Len(u) = n /\ \A i \in 1..n : u[i] = t[n - i + 1]
  BY <1>1 DEF Reverse
<1> HIDE DEF u
<1>3. ASSUME NEW i \in 1..n PROVE u[i] = s[i]
  <2>1. n - i + 1 \in 1..n /\ n - (n - i + 1) + 1 = i
    BY <1>1
  <2>2. QED BY <1>1, <1>2, <2>1
<1>4. u = s
  BY <1>1, <1>2, <1>3, SMTT(60)
<1>5. QED BY <1>4 DEF t, u

\* The element of a sequence of one.
LEMMA FirstIn == \A t \in Seq(Ref) : Len(t) = 1 => t[1] \in Ref
OBVIOUS

\* The parser is ready to reduce, and has shifted first in a shift-reduce.
LEMMA ReadyTrail ==
  ASSUME TInv, pc = "again", parse_input # <<>>, HasTrans(pda_cs, pt[Lel].id), Act.prod # 0,
         NEW cut \in RightCuts(pt, accum_ignore), NEW q, q = ReducePt(cut)
  PROVE  /\ Trail(q, ReduceStack, ReduceInput, live) /\ Parents(q, ReduceStack, ReduceInput)
         /\ Behind(q, ReduceInput) /\ (~Act.shift => ReduceInput = <<Lel>>)
         /\ Act.shift => q[Lel].retry_lower = 0
<1>0. /\ IInv /\ ListsInv /\ pt \in [Ref -> Node] /\ stack \in Seq(Ref)
      /\ parse_input \in Seq(Ref) /\ live \subseteq Ref /\ ~parse_error /\ red_lel = <<>>
  BY ListTypes DEF TInv, LInv, IInv, TypeOK, NodesOK, FlowInv, ListsInv
<1>1. Ahead = parse_input /\ Lel \in Ref /\ (Len(Ahead) > 1 => Tok(pt, Ahead[2]))
      /\ (Ahead # <<>> => Behind(pt, Tail(Ahead)))
  BY <1>0, AheadSet, AheadShape, LelType
<1>2. CASE Act.shift
  <2>1. q = ShiftPt(cut) /\ ReduceStack = <<Lel>> \o stack /\ ReduceInput = Tail(parse_input)
    BY <1>2 DEF ReducePt, ReduceStack, ReduceInput
  <2>2. /\ \A r \in Ref : q[r].id = pt[r].id
        /\ ~MoreActs => q[Lel].retry_lower = 0
    BY <1>0, <2>1, ShiftPtCore DEF SameCore
  <2>3. Behind(q, Tail(parse_input))
    <3>1. Tail(parse_input) \in Seq(Ref) /\ Behind(pt, Tail(parse_input))
      BY <1>0, <1>1, LelType
    <3> DEFINE b == Tail(parse_input)
    <3> HIDE DEF b
    <3>2. b \in Seq(Ref) /\ Behind(pt, b)
      BY <3>1 DEF b
    <3>3. Len(b) = 1 => b[1] \in Ref
      BY <3>2, FirstIn, Zenon
    <3>4. Behind(q, b)
      BY <2>2, <3>2, <3>3 DEF Behind, Tok
    <3>5. QED BY <3>4 DEF b
  <2>4. ~MoreActs
    BY <1>0, <1>2, ReduceTable
  <2>5. QED BY <1>2, <2>1, <2>2, <2>3, <2>4, ShiftedTrail
<1>3. CASE ~Act.shift
  <2>1. /\ q = attach_right_ignore(pt, stack, accum_ignore, cut) \/ q = pt
        /\ ReduceStack = stack /\ ReduceInput = parse_input
    BY <1>3 DEF ReducePt, ReduceStack, ReduceInput
  <2>2. \A x \in Ref : SameCore(pt[x], q[x])
    BY <1>0, <2>1, AttachCore DEF SameCore
  <2>3. IsTerm(Lel)
    BY <1>0, <1>3, ReduceTable
  <2>4. parse_input = <<Lel>>
    BY <1>0, <2>3, Alone
  <2>5. Trail(pt, stack, parse_input, live) /\ Parents(pt, stack, parse_input)
    BY <1>0, <1>1 DEF TInv, TrailInv
  <2>6. Trail(q, stack, parse_input, live) /\ Parents(q, stack, parse_input)
    <3>1. Len(parse_input) > 1 => Tok(pt, parse_input[2])
      BY <1>1
    <3>2. QED BY <1>0, <2>2, <2>5, <3>1, CoreTrail
  <2>7. Behind(q, <<Lel>>)
    <3> DEFINE x == Lel
    <3>1. q[x].id \in Term
      BY <1>1, <2>2, <2>3 DEF IsTerm, SameCore
    <3> HIDE DEF x
    <3>2. Len(<<x>>) = 1 /\ <<x>>[1] = x
      OBVIOUS
    <3>3. Behind(q, <<x>>)
      BY <3>1, <3>2 DEF Behind, Tok
    <3>4. QED BY <3>3 DEF x
  <2>8. QED BY <1>3, <2>1, <2>4, <2>6, <2>7
<1>4. QED BY <1>2, <1>3

\* The token counts the reduction, and is what it was.
LEMMA CausedOnly ==
  ASSUME NEW q \in [Ref -> Node], ReduceInput \in Seq(Ref), NEW p, p = Caused(q)
  PROVE  /\ \A y \in Ref : ReduceInput = <<>> \/ y # Head(ReduceInput) => p[y] = q[y]
         /\ ReduceInput # <<>> =>
              LET x == Head(ReduceInput)
              IN /\ p[x].id = q[x].id /\ p[x].child = q[x].child
                 /\ p[x].retry_upper = q[x].retry_upper
                 /\ p[x].cause_reduce = q[x].cause_reduce + 1
<1>1. CASE ReduceInput # <<>>
  <2> DEFINE x == Head(ReduceInput)
             n == [q[x] EXCEPT !.cause_reduce = @ + 1]
  <2>1. x \in Ref /\ q[x] \in Node
    BY <1>1, HeadTailType
  <2>2. /\ n.id = q[x].id /\ n.child = q[x].child /\ n.retry_upper = q[x].retry_upper
        /\ n.cause_reduce = q[x].cause_reduce + 1
    BY <2>1 DEF Node
  <2>3. p = [q EXCEPT ![x] = n]
    BY <1>1 DEF Caused
  <2> HIDE DEF n, x
  <2>4. p[x] = n /\ \A y \in Ref : y # x => p[y] = q[y]
    BY <2>1, <2>3
  <2>5. QED BY <1>1, <2>2, <2>4 DEF x
<1>2. CASE ReduceInput = <<>>
  BY <1>2 DEF Caused
<1>3. QED BY <1>1, <1>2

\* A reduction is done: its node is in front of the token that caused it.
LEMMA ReduceTrail ==
  ASSUME TInv, Reduce
  PROVE  EmptyInv' /\ TrailInv'
<1>0. LInv /\ IInv /\ ListsInv /\ live \subseteq Ref
  BY DEF TInv, LInv, IInv, TypeOK, NodesOK
<1>1. /\ pc = "again" /\ parse_input # <<>> /\ HasTrans(pda_cs, pt[Lel].id) /\ Act.prod # 0
      /\ parse_error' = parse_error
  BY DEF Reduce
<1>2. PICK cut \in RightCuts(pt, accum_ignore), r \in Ref :
       LET p == Caused(ReducePt(cut))
       IN /\ Fresh(r) /\ live' = live \cup {r}
          /\ pt' = [[p EXCEPT ![Lel].retry_lower = 0] EXCEPT ![r] = Reduction(p[Lel])]
          /\ accum_ignore' = ReduceAccum(cut)
          /\ pda_cs' = IF Children = <<>> THEN pda_cs ELSE p[Children[1]].state
          /\ IF Prod[Act.prod].frame = 0
             THEN /\ parse_input' = <<r>> \o ReduceInput
                  /\ UNCHANGED <<red_lel, pc>>
             ELSE /\ parse_input' = ReduceInput
                  /\ red_lel' = <<r, Prod[Act.prod].frame>> /\ pc' = "reduction"
  BY DEF Reduce
<1> DEFINE len == Prod[Act.prod].len
           q == ReducePt(cut)
           p == Caused(q)
           n == [p[Lel] EXCEPT !.retry_lower = 0]
           m == Reduction(p[Lel])
           b == SubSeq(ReduceStack, len + 1, Len(ReduceStack))
           c == Reverse(SubSeq(ReduceStack, 1, len))
           a == ReduceInput
           s == ReduceStack
           x == Lel
<1>3. q \in [Ref -> Node] /\ s \in Seq(Ref) /\ a \in Seq(Ref) /\ x \in Ref
  BY <1>0, <1>1, ReducePtType, LelType
<1>4. /\ Trail(q, s, a, live) /\ Parents(q, s, a) /\ Behind(q, a)
      /\ ~Act.shift => a = <<x>>
      /\ Act.shift => q[x].retry_lower = 0
  BY <1>1, ReadyTrail
<1>5. /\ ~Act.shift => stack_top_target(q, s) = pda_cs
      /\ \A y \in Ref : y # x => SameCore(pt[y], q[y])
      /\ q[x].id = pt[x].id /\ q[x].cause_reduce = pt[x].cause_reduce
  BY <1>0, <1>1, ReadyPath
<1>6. /\ \A i \in DOMAIN a : a[i] \in Ref /\ (Act.shift => a[i] # x)
  BY <1>0, <1>1, InputWaits
<1>7. /\ p \in [Ref -> Node]
      /\ \A y \in Ref : a = <<>> \/ y # Head(a) => p[y] = q[y]
      /\ a # <<>> => /\ p[Head(a)].id = q[Head(a)].id /\ p[Head(a)].child = q[Head(a)].child
                     /\ p[Head(a)].retry_upper = q[Head(a)].retry_upper
                     /\ p[Head(a)].cause_reduce = q[Head(a)].cause_reduce + 1
  BY <1>3, CausedOnly, CausedFields
<1>8. /\ pt' = [[p EXCEPT ![x] = n] EXCEPT ![r] = m]
      /\ r \notin live /\ stack' = b /\ live' = live \cup {r}
  BY <1>2 DEF Fresh, Reduce
<1>9. Act.prod \in DOMAIN Prod /\ len \in 0..Len(s)
  <2>1. pt[Lel].retry_lower \in Nat
    BY <1>0, <1>1, LelType DEF Node
  <2>2. Act.prod \in DOMAIN Prod
    BY <1>0, <1>1, <2>1, ActType DEF Act
  <2>3. QED BY <1>3, <2>2, TableAssumption DEF Reduce
<1>10. /\ m.child = c /\ m.retry_lower = 0 /\ m.retry_region = 0 /\ m.id \in NonTerm
       /\ m.retry_upper # 0 => MoreActs
  BY <1>9, TableAssumption DEF Reduction, Children, Blank
<1>11. MoreActs => ~Act.shift
  BY <1>0, <1>1, ReduceTable
<1>12. /\ r \notin ToSet(s) /\ r \notin ToSet(a) /\ ToSet(s) \cap ToSet(a) = {}
       /\ \A y \in Ref : r \notin ToSet(q[y].child)
  <2>1. Apart(q, s, a, ReduceAccum(cut), {}, live)
    BY <1>0, <1>1, ReduceApart
  <2>2. QED BY <1>8, <2>1 DEF Apart, SetsApart, Held
<1>13. r # x /\ pt[r].child = <<>>
  <2>1. x \in ToSet(parse_input)
    <3>1. parse_input \in Seq(Ref)
      BY <1>0, ListTypes
    <3>2. QED BY <1>1, <3>1, LelInput
  <2>2. x \in live
    BY <1>0, <2>1 DEF ListsInv, OneOwner, Apart, SetsApart
  <2>3. ~parse_error
    BY <1>0, <1>1 DEF LInv, FlowInv
  <2>4. QED BY <1>8, <2>2, <2>3, NoChildren
<1>14. /\ s = Reverse(c) \o b /\ c \in Seq(Ref) /\ b \in Seq(Ref)
       /\ ToSet(s) = ToSet(c) \cup ToSet(b)
  <2> DEFINE k == SubSeq(s, 1, len)
  <2> HIDE DEF s, len
  <2>1. /\ k \in Seq(Ref) /\ SubSeq(s, len + 1, Len(s)) \in Seq(Ref)
        /\ s = k \o SubSeq(s, len + 1, Len(s))
        /\ ToSet(s) = ToSet(k) \cup ToSet(SubSeq(s, len + 1, Len(s)))
    BY <1>3, <1>9, SplitSet
  <2>2. c = Reverse(k) /\ b = SubSeq(s, len + 1, Len(s))
    BY DEF s
  <2> HIDE DEF b, c, k
  <2>3. c \in Seq(Ref) /\ ToSet(c) = ToSet(k) /\ Reverse(c) = k
    BY <2>1, <2>2, ReverseSet, ReverseTwice
  <2>4. QED BY <2>1, <2>2, <2>3
<1>15. a # <<>> => Head(a) = a[1] /\ a[1] \in Ref /\ a[1] \in ToSet(a)
  <2> HIDE DEF a
  <2>1. a # <<>> => 1 \in DOMAIN a /\ Head(a) = a[1]
    BY <1>3
  <2>2. QED BY <1>3, <2>1, InSet
<1>16. HasTrans(pda_cs, pt[x].id)
  BY <1>1
<1> HIDE DEF p, q
<1>17. /\ n.id = p[x].id /\ n.state = p[x].state /\ n.child = p[x].child
       /\ n.cause_reduce = p[x].cause_reduce /\ n.retry_lower = 0
       /\ n.retry_upper = p[x].retry_upper /\ n.retry_region = p[x].retry_region
  <2>1. p[x] \in Node
    BY <1>3, <1>7
  <2>2. QED BY <2>1 DEF Node
<1> HIDE DEF n, m, len, a, b, c, s, x
<1>18. /\ pt'[r] = m /\ pt'[x] = n
       /\ \A y \in Ref : y # r /\ y # x => pt'[y] = p[y]
  BY <1>3, <1>7, <1>8, <1>13
<1>19. \A y \in Ref : y # r => pt'[y].child = q[y].child /\ pt'[y].id = q[y].id
                                 /\ pt'[y].retry_upper = q[y].retry_upper
  <2>1. \A y \in Ref : p[y].child = q[y].child /\ p[y].id = q[y].id
                         /\ p[y].retry_upper = q[y].retry_upper
    BY <1>7
  <2>2. QED BY <1>3, <1>17, <1>18, <2>1
<1>20. ASSUME NEW y \in Ref, y # r, y \notin ToSet(a)
       PROVE  SameCause(q[y], pt'[y]) /\ pt'[y].state = q[y].state
              /\ (Untried(pt'[y]) => Untried(q[y]))
  <2>1. p[y] = q[y]
    BY <1>7, <1>15, <1>20
  <2>2. CASE y = x
    <3>1. Act.shift
      BY <1>3, <1>4, <1>20, <2>2, OneSet
    <3>2. q[x].retry_lower = 0
      BY <1>4, <3>1
    <3>3. QED BY <1>17, <1>18, <2>1, <2>2, <3>2 DEF SameCause, Untried
  <2>3. CASE y # x
    BY <1>18, <1>20, <2>1, <2>3 DEF SameCause
  <2>4. QED BY <2>2, <2>3
<1>21. ~InParse(q, s, a, r)
  BY <1>12 DEF InParse
<1>22. Below(q, pt', s, a)
  BY <1>20, <1>21 DEF Below
<1>23. Counts(q, pt', a)
  <2> SUFFICES ASSUME a # <<>>
               PROVE  /\ pt'[a[1]].id = q[a[1]].id /\ pt'[a[1]].child = q[a[1]].child
                      /\ pt'[a[1]].retry_upper = q[a[1]].retry_upper
                      /\ q[a[1]].cause_reduce \in Nat
                      /\ pt'[a[1]].cause_reduce = q[a[1]].cause_reduce + 1
    BY DEF Counts
  <2> DEFINE y == a[1]
  <2>1. y \in Ref /\ y # r /\ y = Head(a)
    BY <1>12, <1>15
  <2> HIDE DEF y
  <2>2. p[y].cause_reduce = q[y].cause_reduce + 1
    BY <1>7, <2>1
  <2>3. pt'[y].cause_reduce = p[y].cause_reduce
    BY <1>17, <1>18, <2>1
  <2>4. q[y].cause_reduce \in Nat
    <3>1. q[y].cause_reduce = pt[y].cause_reduce
      BY <1>5, <2>1 DEF SameCore
    <3>2. pt[y].cause_reduce >= 0 /\ pt[y].cause_reduce \in Int
      <4>1. pt[y] \in Node
        BY <1>0, <2>1, ListTypes
      <4>2. QED BY <1>0, <2>1, <4>1 DEF LInv, InputInv, Node
    <3>3. QED BY <3>1, <3>2
  <2>5. QED BY <1>19, <2>1, <2>2, <2>3, <2>4 DEF y
<1>24. pt'[r].id \in NonTerm /\ pt'[r].id \notin Term
  BY <1>10, <1>18, IdAssumption
<1>25. pt'[r].retry_upper # 0 => a # <<>> /\ HasTrans(stack_top_target(pt', s), pt'[a[1]].id)
  <2> SUFFICES ASSUME pt'[r].retry_upper # 0
               PROVE  a # <<>> /\ HasTrans(stack_top_target(pt', s), pt'[a[1]].id)
    OBVIOUS
  <2>1. ~Act.shift
    BY <1>10, <1>11, <1>18
  <2>2. a = <<x>>
    BY <1>4, <2>1
  <2>3. a # <<>> /\ a[1] = x
    BY <2>2
  <2>4. pt'[x].id = pt[x].id
    BY <1>3, <1>5, <1>13, <1>19
  <2>5. stack_top_target(pt', s) = stack_top_target(q, s)
    <3>1. CASE s = <<>>
      BY <3>1 DEF stack_top_target
    <3>2. CASE s # <<>>
      <4>1. Head(s) \in Ref /\ Head(s) \in ToSet(s)
        <5>1. Head(s) \in Ref
          BY <1>3, <3>2, HeadTailType
        <5>2. ToSet(s) = {Head(s)} \cup ToSet(Tail(s))
          BY <1>3, <3>2, HeadSet, Zenon
        <5>3. QED BY <5>1, <5>2
      <4>2. Head(s) # r
        BY <1>12, <4>1
      <4>3. x \in ToSet(a)
        BY <1>3, <2>2, OneSet
      <4>4. CASE Head(s) = x
        BY <1>12, <4>1, <4>3, <4>4
      <4>5. CASE Head(s) # x
        <5>1. Head(s) # Head(a)
          BY <1>15, <2>3, <4>5
        <5>2. pt'[Head(s)] = q[Head(s)]
          BY <1>7, <1>18, <4>1, <4>2, <4>5, <5>1
        <5>3. QED BY <3>2, <5>2 DEF stack_top_target, Target, Found
      <4>6. QED BY <4>4, <4>5
    <3>3. QED BY <3>1, <3>2
  <2>6. stack_top_target(q, s) = pda_cs
    BY <1>5, <2>1
  <2>7. QED BY <1>16, <2>3, <2>4, <2>5, <2>6
<1>26. pt'[r].child = c /\ s = Unfold(pt', r, b)
  BY <1>10, <1>14, <1>18 DEF Unfold
<1>27. q[r].child = <<>> /\ ToSet(q[r].child) = {}
  <2>1. q[r].child = <<>>
    BY <1>5, <1>13 DEF SameCore
  <2>2. QED BY <2>1, EmptySet
<1>28. Reduces(q, pt', s, b, a, r)
  <2>1. \A y \in Ref : pt'[y].child = q[y].child \/ ToSet(q[y].child) = {}
    BY <1>19, <1>27
  <2>2. pt'[r].retry_lower = 0 /\ pt'[r].retry_region = 0
    BY <1>10, <1>18
  <2>3. Behind(q, a) /\ c \in Seq(Ref)
    BY <1>4, <1>14
  <2>4. QED BY <1>21, <1>22, <1>23, <1>24, <1>25, <1>26, <2>1, <2>2, <2>3 DEF Reduces
<1>29. Trail(pt', b, <<r>> \o a, live')
  <2>1. \A y \in live' : \/ y = r \/ y \in ToSet(a) \/ ~Untried(pt'[y])
                         \/ y \in live /\ (Untried(pt'[y]) => Untried(q[y]))
    BY <1>0, <1>8, <1>20
  <2>2. Trail(q, s, a, live)
    BY <1>4
  <2>3. QED BY <1>3, <1>14, <1>28, <2>1, <2>2, TrailInsert
<1>30. <<r>> \o a \in Seq(Ref) /\ ToSet(<<r>> \o a) = {r} \cup ToSet(a)
  BY <1>3, ConsSet, ConsParts
<1>31. Parents(pt', b, <<r>> \o a)
  <2> SUFFICES ASSUME NEW y \in Ref, pt'[y].child # <<>>
               PROVE  InParse(pt', b, <<r>> \o a, y)
    BY DEF Parents
  <2>1. CASE y = r
    BY <1>30, <2>1 DEF InParse
  <2>2. CASE y # r
    <3>1. InParse(q, s, a, y)
      BY <1>4, <1>19, <2>2 DEF Parents
    <3>2. CASE y \in ToSet(s)
      BY <1>14, <1>26, <3>2 DEF InParse
    <3>3. CASE y \in ToSet(a)
      BY <1>30, <3>3 DEF InParse
    <3>4. CASE \E z \in Ref : y \in ToSet(q[z].child)
      <4>1. PICK z \in Ref : y \in ToSet(q[z].child)
        BY <3>4
      <4>2. z # r
        BY <1>27, <4>1
      <4>3. y \in ToSet(pt'[z].child)
        BY <1>19, <4>1, <4>2
      <4>4. QED BY <4>3 DEF InParse
    <3>5. QED BY <3>1, <3>2, <3>3, <3>4 DEF InParse
  <2>3. QED BY <2>1, <2>2
<1>32. red_lel = <<>>
  BY <1>0, <1>1 DEF ListsInv
<1>33. /\ pc' \in {"again", "reduction"}
       /\ \/ parse_input' = <<r>> \o a /\ red_lel' = <<>>
          \/ parse_input' = a /\ red_lel' # <<>> /\ red_lel'[1] = r
  BY <1>1, <1>2, <1>32 DEF a
<1>34. Ahead' = <<r>> \o a
  <2>1. <<>> \o (<<r>> \o a) = <<r>> \o a
    BY <1>30
  <2>2. QED BY <1>33, <2>1 DEF Ahead
<1>35. TrailInv'
  BY <1>8, <1>29, <1>31, <1>34 DEF TrailInv
<1>36. EmptyInv'
  BY <1>33 DEF EmptyInv
<1>37. QED BY <1>35, <1>36

-----------------------------------------------------------------------------
(* Reductions that are taken back. *)

\* The token is given back what the reduction held.
LEMMA HandBackKeeps ==
  ASSUME NEW u \in Node, NEW token \in Node, NEW s
  PROVE  LET t == HandBack(u, token, s)
         IN /\ t.id = token.id /\ t.child = token.child
            /\ t.retry_upper = token.retry_upper
            /\ t.cause_reduce = token.cause_reduce - 1
<1> DEFINE t == [token EXCEPT !.cause_reduce = @ - 1]
<1>1. t \in Node
  BY CauseType
<1>2. /\ t.id = token.id /\ t.child = token.child /\ t.retry_upper = token.retry_upper
      /\ t.cause_reduce = token.cause_reduce - 1
  BY DEF Node
<1>3. HandBack(u, token, s) = IF u.retry_upper = 0 THEN t
        ELSE [t EXCEPT !.retry_lower = u.retry_upper, !.state = s]
  BY DEF HandBack
<1> HIDE DEF t
<1>4. CASE u.retry_upper = 0
  BY <1>2, <1>3, <1>4
<1>5. CASE u.retry_upper # 0
  <2> DEFINE v == [t EXCEPT !.retry_lower = u.retry_upper, !.state = s]
  <2>1. /\ v.id = t.id /\ v.child = t.child /\ v.cause_reduce = t.cause_reduce
        /\ v.retry_upper = t.retry_upper
    BY <1>1 DEF Node
  <2>2. QED BY <1>2, <1>3, <1>5, <2>1
<1>6. QED BY <1>4, <1>5

\* Arithmetic: one at most.
LEMMA NoThird == \A k \in Nat : k = 0 \/ k = 1 => ~(k > 1)
OBVIOUS

\* A reduction is taken back: its children are on the stack again.
LEMMA BtUnreduceTrail ==
  ASSUME TInv, BtUnreduce
  PROVE  EmptyInv' /\ TrailInv'
<1> DEFINE a == parse_input
           x == Lel
           u == pt[x]
           inp == Tail(a)
           stk == Reverse(u.child) \o stack
           p1 == [pt EXCEPT ![x] = Blank]
           y == Head(inp)
           s == stack_top_target(p1, stk)
           n == HandBack(u, p1[y], s)
           p2 == IF inp = <<>> THEN p1 ELSE [p1 EXCEPT ![y] = n]
<1>0. /\ LInv /\ IInv /\ ListsInv /\ pt \in [Ref -> Node] /\ a \in Seq(Ref)
      /\ stack \in Seq(Ref) /\ live \subseteq Ref
  BY ListTypes DEF TInv, LInv, IInv, TypeOK, NodesOK
<1>1. /\ stack' = stk /\ parse_input' = inp
      /\ pt' = detach_right_ignore(p2, stk) /\ live' = live \ {x}
      /\ pc = "backtrack" /\ a # <<>> /\ ~IsTerm(x) /\ ~check_next /\ ~check_stop
      /\ UNCHANGED <<red_lel, check_next, stop, parse_error, pc>>
  BY DEF BtUnreduce
<1>2. /\ u \in Node /\ inp \in Seq(Ref) /\ x \in Ref /\ u.child \in Seq(Ref)
      /\ ToSet(a) = {x} \cup ToSet(inp) /\ x = Head(a)
  <2>1. u \in Node /\ inp \in Seq(Ref) /\ x \in Ref
    BY <1>0, <1>1, LelType
  <2>2. ToSet(a) = {x} \cup ToSet(inp)
    BY <1>0, <1>1, LelInput
  <2>3. QED BY <2>1, <2>2, NodeSeqs DEF Lel
<1>3. ~parse_error /\ red_lel = <<>> /\ ~stop
  BY <1>0, <1>1 DEF LInv, FlowInv, ListsInv
<1>4. Ahead = a /\ Behind(pt, inp)
  BY <1>0, <1>1, <1>3, AheadSet, AheadShape
<1>5. Trail(pt, stack, a, live) /\ Parents(pt, stack, a)
  BY <1>3, <1>4 DEF TInv, TrailInv
<1>6. inp # <<>> => y \in Ref /\ y # x /\ y = inp[1] /\ y \in ToSet(inp)
                    /\ pt[y].cause_reduce \in Nat
  <2> SUFFICES ASSUME inp # <<>>
               PROVE  y \in Ref /\ y # x /\ y = inp[1] /\ y \in ToSet(inp)
                      /\ pt[y].cause_reduce \in Nat
    OBVIOUS
  <2>1. 1 \in DOMAIN inp /\ y = inp[1]
    BY <1>2
  <2>2. y \in Ref /\ y # x
    BY <1>0, <1>1, <2>1, TailWaits
  <2>3. y \in ToSet(inp)
    BY <2>1, Zenon DEF ToSet
  <2>4. pt[y].cause_reduce \in Nat
    <3> HIDE DEF y
    <3>1. pt[y].cause_reduce >= 0 /\ pt[y] \in Node
      BY <1>0, <2>2 DEF LInv, InputInv
    <3>2. QED BY <3>1 DEF Node
  <2>5. QED BY <2>1, <2>2, <2>3, <2>4
<1>7. stk \in Seq(Ref) /\ ToSet(stk) = ToSet(u.child) \cup ToSet(stack)
  <2>1. Reverse(u.child) \in Seq(Ref) /\ ToSet(Reverse(u.child)) = ToSet(u.child)
    BY <1>2, ReverseSet
  <2>2. QED BY <1>0, <2>1, ConcatSet
<1>8. p1 \in [Ref -> Node] /\ p1[x] = Blank /\ \A z \in Ref : z # x => p1[z] = pt[z]
  BY <1>0, <1>2, BlankType
<1>9. x # y => p1[y] = pt[y] \/ y \notin Ref
  BY <1>8
<1>10. stk = Unfold(pt, x, stack)
  BY DEF Unfold
<1>11. s \in State
  BY <1>7, <1>8, TopTargetType
<1> HIDE DEF p1, stk, inp, s, a, x
<1>12. /\ p2 \in [Ref -> Node] /\ p2[x] = Blank
       /\ \A z \in Ref : z # x /\ (inp = <<>> \/ z # y) => p2[z] = pt[z]
       /\ inp # <<>> =>
            /\ p2[y].id = pt[y].id /\ p2[y].child = pt[y].child
            /\ p2[y].retry_upper = pt[y].retry_upper
            /\ p2[y].cause_reduce = pt[y].cause_reduce - 1
  <2>1. CASE inp = <<>>
    BY <1>8, <2>1
  <2>2. CASE inp # <<>>
    <3>1. y \in Ref /\ y # x /\ p1[y] = pt[y] /\ p1[y] \in Node
      BY <1>6, <1>8, <2>2
    <3>2. /\ n \in Node /\ n.id = p1[y].id /\ n.child = p1[y].child
          /\ n.retry_upper = p1[y].retry_upper
          /\ n.cause_reduce = p1[y].cause_reduce - 1
      <4> HIDE DEF u, y
      <4>1. n \in Node
        BY <1>2, <1>11, <3>1, HandBackType
      <4>2. QED BY <1>2, <3>1, <4>1, HandBackKeeps
    <3> HIDE DEF n, y
    <3>3. p2 = [p1 EXCEPT ![y] = n]
      BY <2>2
    <3> HIDE DEF p2
    <3>4. p2 \in [Ref -> Node] /\ p2[y] = n /\ \A z \in Ref : z # y => p2[z] = p1[z]
      BY <1>8, <3>1, <3>2, <3>3
    <3>5. p2[x] = Blank
      BY <1>2, <1>8, <3>1, <3>4
    <3>6. QED BY <1>8, <2>2, <3>1, <3>2, <3>4, <3>5
  <2>3. QED BY <2>1, <2>2
<1> HIDE DEF p2, y
<1>13. \A z \in Ref : z # x => p2[z].child = pt[z].child
  BY <1>12
<1>14. a # <<>> /\ a[1] = x /\ inp = Tail(a)
  <2>1. a # <<>> => Head(a) = a[1]
    BY <1>0
  <2>2. a # <<>> /\ inp = Tail(a)
    BY <1>1 DEF inp
  <2>3. QED BY <1>2, <2>1, <2>2
<1>15. ~Tok(pt, x)
  BY <1>1 DEF Tok, IsTerm
<1>16. ASSUME NEW z \in Ref, z # x, z \notin ToSet(inp)
       PROVE  p2[z] = pt[z]
  BY <1>6, <1>12, <1>16
<1>17. Below(pt, p2, stack, a)
  BY <1>2, <1>16 DEF Below, SameCause
<1>18. Uncounts(pt, p2, inp)
  BY <1>6, <1>12 DEF Uncounts
<1>19. Unreduces(pt, p2, stack, stk, a)
  <2>1. pt[a[1]].child \in Seq(Ref) /\ stk = Unfold(pt, a[1], stack)
    BY <1>2, <1>10, <1>14
  <2>2. ~Tok(pt, a[1]) /\ Behind(pt, Tail(a)) /\ Uncounts(pt, p2, Tail(a))
    BY <1>4, <1>14, <1>15, <1>18
  <2>3. \A z \in Ref : z # a[1] => p2[z].child = pt[z].child
    BY <1>13, <1>14
  <2>4. QED BY <1>14, <1>17, <2>1, <2>2, <2>3 DEF Unreduces
<1>20. Trail(p2, stk, inp, live \ {x})
  <2>1. \A z \in live \ {x} : \/ z \in ToSet(Tail(a)) \/ ~Untried(p2[z])
                              \/ z # a[1] /\ z \in live /\ (Untried(p2[z]) => Untried(pt[z]))
    BY <1>0, <1>14, <1>16
  <2>2. Trail(p2, stk, Tail(a), live \ {x})
    BY <1>0, <1>5, <1>7, <1>19, <2>1, TrailRemove
  <2>3. QED BY <1>14, <2>2
<1>21. Parents(p2, stk, inp)
  <2> SUFFICES ASSUME NEW z \in Ref, p2[z].child # <<>>
               PROVE  InParse(p2, stk, inp, z)
    BY DEF Parents
  <2>1. z # x
    BY <1>12 DEF Blank
  <2>2. InParse(pt, stack, a, z)
    BY <1>5, <1>13, <2>1 DEF Parents
  <2>3. CASE z \in ToSet(stack)
    BY <1>7, <2>3 DEF InParse
  <2>4. CASE z \in ToSet(a)
    BY <1>2, <2>1, <2>4 DEF InParse
  <2>5. CASE \E w \in Ref : z \in ToSet(pt[w].child)
    <3>1. PICK w \in Ref : z \in ToSet(pt[w].child)
      BY <2>5
    <3>2. CASE w = x
      BY <1>7, <3>1, <3>2 DEF InParse
    <3>3. CASE w # x
      <4>1. z \in ToSet(p2[w].child)
        BY <1>13, <3>1, <3>3
      <4>2. QED BY <4>1 DEF InParse
    <3>4. QED BY <3>2, <3>3
  <2>6. QED BY <2>2, <2>3, <2>4, <2>5 DEF InParse
<1>22. \A z \in Ref : SameCore(p2[z], pt'[z])
  BY <1>1, <1>7, <1>12, DetachCore
<1>23. Trail(pt', stk, inp, live \ {x}) /\ Parents(pt', stk, inp)
  <2>1. ~(Len(inp) > 1)
    <3>1. Len(<<>>) = 0
      OBVIOUS
    <3>2. Len(inp) = 0 \/ Len(inp) = 1
      BY <1>4, <3>1 DEF Behind
    <3>3. Len(inp) \in Nat
      BY <1>2
    <3>4. QED BY <3>2, <3>3, NoThird, Zenon
  <2>2. Len(inp) > 1 => Tok(p2, inp[2])
    BY <2>1
  <2>3. live \ {x} \subseteq Ref
    BY <1>0
  <2>4. QED BY <1>2, <1>20, <1>21, <1>22, <2>2, <2>3, CoreTrail
<1>24. Ahead' = inp
  <2>1. <<>> \o inp = inp
    BY <1>2
  <2>2. QED BY <1>1, <1>3, <2>1 DEF Ahead
<1>25. TrailInv'
  BY <1>1, <1>23, <1>24 DEF TrailInv
<1>26. EmptyInv'
  BY <1>1, <1>3 DEF EmptyInv
<1>27. QED BY <1>25, <1>26

-----------------------------------------------------------------------------
(* The theorem. *)

\* At first nothing was shifted.
LEMMA InitTrail == Init => EmptyInv /\ TrailInv
<1> SUFFICES ASSUME Init PROVE EmptyInv /\ TrailInv OBVIOUS
<1>1. /\ \A r \in Ref : pt[r] = Blank
      /\ stack = <<>> /\ parse_input = <<>> /\ red_lel = <<>> /\ live = {}
  BY DEF Init
<1>2. Ahead = <<>>
  BY <1>1 DEF Ahead
<1> DEFINE e == <<>>
           st == [i \in Nat |-> <<>>]
<1>3. /\ e \in Seq(Ref) /\ st \in [Nat -> Seq(Ref)] /\ st[0] = <<>>
      /\ Len(e) = 0 /\ Len(<<>>) = 0 /\ DOMAIN e = {} /\ 0 = 0 + 0 /\ 1..0 = {}
  OBVIOUS
<1> HIDE DEF st
<1>4. Ends(e, 0, <<>>)
  BY <1>3 DEF Ends
<1>5. Chain(pt, e, st, 0)
  BY <1>3 DEF Chain
<1>6. Before(pt, <<>>, <<>>) = <<>>
  BY DEF Before
<1>7. Causes(pt, e) /\ IsInjective(e)
  BY <1>3 DEF Causes, IsInjective
<1> HIDE DEF e
<1>8. TrailOf(pt, <<>>, <<>>, {}, e, st, 0)
  BY <1>3, <1>4, <1>5, <1>6, <1>7 DEF TrailOf
<1>9. Trail(pt, <<>>, <<>>, {})
  <2>1. 0 \in Nat
    OBVIOUS
  <2>2. QED BY <1>3, <1>8, <2>1 DEF Trail
<1>10. Parents(pt, <<>>, <<>>)
  BY <1>1 DEF Parents, Blank
<1>11. QED BY <1>1, <1>2, <1>9, <1>10 DEF TrailInv, EmptyInv

\* Every step of the parser and of its driver keeps the trail.
LEMMA NextTrail == TInv /\ [Next]_vars => TInv'
<1> SUFFICES ASSUME TInv, [Next]_vars PROVE TInv' OBVIOUS
<1>1. LInv'
  BY NextPath DEF TInv
<1>2. EmptyInv' /\ TrailInv'
  <2>1. CASE ScanCollectIgnore \/ ScanEof \/ ScanTree \/ ScanToken
    BY <2>1, EnteredTrail
  <2>2. CASE ScanIgnoreTree \/ ScanIgnore
    BY <2>2, IgnoredTrail
  <2>3. CASE Shift \/ Reduce \/ ReductionReturn
    BY <2>3, ShiftTrail, ReduceTrail, ReturnTrail
  <2>4. CASE BtReverse \/ BtNext \/ BtStop \/ BtRetry \/ BtFail
    BY <2>4, BackTrail
  <2>5. CASE BtUnshift \/ BtSendBack \/ BtIgnore \/ BtDeck \/ BtUnreduce
    BY <2>5, BtUnshiftTrail, BtSendBackTrail, BtIgnoreTrail, BtDeckTrail, BtUnreduceTrail
  <2>6. CASE \/ ScanPreRegion \/ ScanLater \/ ScanNextRegion \/ ScanNull
             \/ ScanGenerate \/ NoTransition \/ AgainOut \/ Done
             \/ Drive \/ UNCHANGED vars
    BY <2>6, SteadyTrail
  <2>7. QED BY <2>1, <2>2, <2>3, <2>4, <2>5, <2>6 DEF Next, ParseStep
<1>3. QED BY <1>1, <1>2 DEF TInv

\* The second element of a pair of references.
LEMMA SecondIn == \A t \in Seq(Ref) : Len(t) = 2 => t[2] \in Ref
OBVIOUS

\* The trail answers what the backtracking asserts.
LEMMA TrailAnswers == TInv => BacktrackAsserts
<1> SUFFICES ASSUME TInv PROVE BacktrackAsserts OBVIOUS
<1> DEFINE a == parse_input
           x == Lel
<1>0. /\ LInv /\ IInv /\ ListsInv /\ pt \in [Ref -> Node] /\ stack \in Seq(Ref)
      /\ a \in Seq(Ref)
  BY ListTypes DEF TInv, LInv
<1> SUFFICES ASSUME NoChecks, a # <<>>
             PROVE  /\ AtUnshift /\ ~AtCommit /\ stack # <<>> => ~IsTerm(Head(stack))
                    /\ IF IsTerm(x) THEN pt[x].retry_upper = 0
                       ELSE pt[x].retry_upper # 0 =>
                              /\ Len(a) > 1
                              /\ pt[x].retry_lower = 0 /\ pt[a[2]].retry_upper = 0
  BY DEF BacktrackAsserts, AtUnshift
<1>1. ~parse_error /\ red_lel = <<>>
  BY <1>0 DEF LInv, FlowInv, ListsInv
<1>2. Ahead = a /\ Len(a) <= 2
  BY <1>0, <1>1, AheadSet, AheadShape
<1>3. Trail(pt, stack, a, live)
  BY <1>1, <1>2 DEF TInv, TrailInv
<1>4. x \in Ref /\ pt[x].cause_reduce \in Int /\ pt[x].cause_reduce >= 0 /\ x = Head(a)
  <2>1. x \in Ref /\ pt[x] \in Node
    BY <1>0, LelType
  <2>2. QED BY <1>0, <2>1 DEF LInv, InputInv, Node, Lel
<1> HIDE DEF a, x
<1>5. /\ Tok(pt, x) =>
           /\ pt[x].retry_upper = 0
           /\ pt[x].cause_reduce > 0 => ~Tok(pt, Head(stack))
      /\ ~Tok(pt, x) => pt[x].retry_lower = 0
      /\ Len(a) > 1 /\ Tok(pt, a[2]) /\ pt[a[2]].cause_reduce \in Int => pt[a[2]].retry_upper = 0
      /\ ~Tok(pt, x) /\ pt[x].retry_upper # 0 => Len(a) = 2 /\ Tok(pt, a[2])
  <2>1. pt[Head(a)].cause_reduce \in Int
    BY <1>4
  <2>2. QED BY <1>0, <1>2, <1>3, <1>4, <2>1, TrailFront
<1>6. ASSUME AtUnshift, ~AtCommit, stack # <<>> PROVE ~IsTerm(Head(stack))
  <2>1. IsTerm(x) /\ pt[x].cause_reduce # 0
    BY <1>6 DEF AtUnshift, a, x
  <2>2. pt[x].cause_reduce > 0
    BY <1>4, <2>1
  <2>3. QED BY <1>5, <2>1, <2>2 DEF IsTerm, Tok
<1>7. ASSUME ~IsTerm(x), pt[x].retry_upper # 0
      PROVE  Len(a) > 1 /\ pt[x].retry_lower = 0 /\ pt[a[2]].retry_upper = 0
  <2>1. ~Tok(pt, x)
    BY <1>7 DEF IsTerm, Tok
  <2>2. Len(a) = 2 /\ Tok(pt, a[2])
    BY <1>5, <1>7, <2>1
  <2>3. Len(a) > 1
    BY <2>2
  <2>4. pt[a[2]].cause_reduce \in Int
    <3>1. a[2] \in Ref
      BY <1>0, <2>2, SecondIn, Zenon
    <3>2. QED BY <1>0, <3>1 DEF Node
  <2>5. QED BY <1>5, <2>1, <2>2, <2>3, <2>4
<1>8. IsTerm(x) => pt[x].retry_upper = 0
  BY <1>5 DEF IsTerm, Tok
<1>9. QED BY <1>6, <1>7, <1>8

\* The assertions of the backtracking (pdarun.c, parse_token) hold, whatever was
\* shifted, reduced, rejected, retried and taken back before: for every grammar,
\* scanner, program and input.
THEOREM BacktrackingHolds == Spec => []BacktrackAsserts
<1>1. Init => TInv
  BY InitInv, InitLists, InitPath, InitTrail DEF TInv, LInv
<1>2. QED BY <1>1, NextTrail, TrailAnswers, PTL DEF Spec
=============================================================================
