---------------------------- MODULE PdaRunRetry -----------------------------
(* The count of the choices left to try, proved.                              *)
(*                                                                           *)
(* num_retry decides whether a parse that failed is given up or taken back to *)
(* a choice. It is added to and subtracted from at six places, going forward  *)
(* and backward, and a retry moves from node to node meanwhile: from the      *)
(* token to the reduction that it caused, and back. Here the count is shown   *)
(* to be the number of the choices that the nodes hold.                       *)
EXTENDS PdaRunBack, FiniteSetTheorems

USE DEF nodeVars, stateVars, scanVars, btVars, stepVars, endVars, codeVars, driverVars
USE DEF Backtrack, NoDeck, NoChecks
USE DEF Idle, Record, parserVars

\* The choices that the nodes in lv hold.
Acts(p, lv) == {r \in lv : Untried(p[r])}
Regs(p, lv) == {r \in lv : RegionRetries(p[r].retry_region) = 1}
ChoiceCount(p, lv) == Cardinality(Acts(p, lv)) + Cardinality(Regs(p, lv))

\* A condition counted as one choice.
One(b) == IF b THEN 1 ELSE 0

\* The token in front that has a choice left was shifted before, so that there is an
\* action in the state that it is tried in.
FrontInv ==
  ~parse_error /\ parse_input # <<>> /\ IsTerm(Lel) /\ pt[Lel].retry_lower # 0 => Found(pt, Lel)

\* The accounting, of finitely many nodes.
CountInv == IsFiniteSet(live) /\ FrontInv /\ RetryAccounting

\* A list of regions does not begin at 0: 0 is a node that remembers no region.
RegionInv == next_region_ind > 0

\* The inductive invariant.
RInv == TInv /\ CountInv /\ RegionInv

-----------------------------------------------------------------------------
(* Counting. *)

\* Two nodes hold the same choices.
SameRetry(m, n) == (Untried(m) <=> Untried(n)) /\ n.retry_region = m.retry_region

\* A node can be scanned in another region once.
LEMMA RegionOnce == \A rr : RegionRetries(rr) \in {0, 1}
BY DEF RegionRetries

\* What the accounting says, in these words.
LEMMA Accounts ==
  RetryAccounting <=>
    num_retry = ChoiceCount(pt, live) + One(trigger_undo) + One(AboutToRescan) - One(Taking)
BY DEF RetryAccounting, ChoiceCount, Acts, Regs, PendingActions, PendingRegions, One

\* The choices of finitely many nodes are finitely many.
LEMMA ChoicesNat ==
  ASSUME NEW p, NEW lv, IsFiniteSet(lv)
  PROVE  /\ IsFiniteSet(Acts(p, lv)) /\ IsFiniteSet(Regs(p, lv))
         /\ Cardinality(Acts(p, lv)) \in Nat /\ Cardinality(Regs(p, lv)) \in Nat
         /\ ChoiceCount(p, lv) \in Nat
<1>1. Acts(p, lv) \in SUBSET lv /\ Regs(p, lv) \in SUBSET lv
  BY DEF Acts, Regs
<1>2. IsFiniteSet(Acts(p, lv)) /\ IsFiniteSet(Regs(p, lv))
  BY <1>1, FS_Subset
<1>3. Cardinality(Acts(p, lv)) \in Nat /\ Cardinality(Regs(p, lv)) \in Nat
  BY <1>2, FS_CardinalityType
<1>4. QED BY <1>2, <1>3 DEF ChoiceCount

\* Nodes that hold the same choices hold as many.
LEMMA ChoicesSame ==
  ASSUME NEW p, NEW q, NEW lv, \A r \in lv : SameRetry(p[r], q[r])
  PROVE  Acts(q, lv) = Acts(p, lv) /\ Regs(q, lv) = Regs(p, lv) /\ ChoiceCount(q, lv) = ChoiceCount(p, lv)
BY DEF SameRetry, Acts, Regs, ChoiceCount

\* One more node.
LEMMA ChoicesAdd ==
  ASSUME NEW p, NEW q, NEW lv, IsFiniteSet(lv), NEW x, x \notin lv,
         \A r \in lv : SameRetry(p[r], q[r])
  PROVE  /\ IsFiniteSet(lv \cup {x})
         /\ ChoiceCount(q, lv \cup {x})
              = ChoiceCount(p, lv) + One(Untried(q[x])) + RegionRetries(q[x].retry_region)
<1> DEFINE rr == RegionRetries(q[x].retry_region)
<1>1. /\ IsFiniteSet(Acts(q, lv)) /\ IsFiniteSet(Regs(q, lv))
      /\ Cardinality(Acts(q, lv)) \in Nat /\ Cardinality(Regs(q, lv)) \in Nat
  BY ChoicesNat
<1>2. Acts(q, lv) = Acts(p, lv) /\ Regs(q, lv) = Regs(p, lv)
  BY ChoicesSame
<1>3. Cardinality(Acts(q, lv \cup {x})) = Cardinality(Acts(q, lv)) + One(Untried(q[x]))
  <2>1. CASE Untried(q[x])
    <3>1. Acts(q, lv \cup {x}) = Acts(q, lv) \cup {x} /\ x \notin Acts(q, lv)
      BY <2>1 DEF Acts
    <3>2. QED BY <1>1, <2>1, <3>1, FS_AddElement DEF One
  <2>2. CASE ~Untried(q[x])
    <3>1. Acts(q, lv \cup {x}) = Acts(q, lv)
      BY <2>2 DEF Acts
    <3>2. QED BY <1>1, <2>2, <3>1 DEF One
  <2>3. QED BY <2>1, <2>2
<1>4. Cardinality(Regs(q, lv \cup {x})) = Cardinality(Regs(q, lv)) + rr
  <2>1. CASE rr = 1
    <3>1. Regs(q, lv \cup {x}) = Regs(q, lv) \cup {x} /\ x \notin Regs(q, lv)
      BY <2>1 DEF Regs
    <3>2. QED BY <1>1, <2>1, <3>1, FS_AddElement
  <2>2. CASE rr = 0
    <3>1. Regs(q, lv \cup {x}) = Regs(q, lv)
      BY <2>2 DEF Regs
    <3>2. QED BY <1>1, <2>2, <3>1
  <2>3. rr \in {0, 1}
    BY RegionOnce
  <2>4. QED BY <2>1, <2>2, <2>3
<1>5. rr \in Nat /\ One(Untried(q[x])) \in Nat
  BY RegionOnce DEF One
<1>6. IsFiniteSet(lv \cup {x})
  BY FS_AddElement
<1> HIDE DEF rr
<1>7. ChoiceCount(q, lv \cup {x}) = ChoiceCount(p, lv) + One(Untried(q[x])) + rr
  BY <1>1, <1>2, <1>3, <1>4, <1>5 DEF ChoiceCount
<1>8. QED BY <1>6, <1>7 DEF rr

\* One node less.
LEMMA ChoicesFree ==
  ASSUME NEW p, NEW q, NEW lv, IsFiniteSet(lv), NEW x \in lv,
         \A r \in lv : r # x => SameRetry(p[r], q[r])
  PROVE  /\ IsFiniteSet(lv \ {x})
         /\ ChoiceCount(q, lv \ {x})
              = ChoiceCount(p, lv) - One(Untried(p[x])) - RegionRetries(p[x].retry_region)
<1> DEFINE lw == lv \ {x}
<1>1. IsFiniteSet(lw) /\ x \notin lw /\ lw \cup {x} = lv
  BY FS_RemoveElement
<1>2. \A r \in lw : SameRetry(q[r], p[r])
  BY DEF SameRetry
<1> HIDE DEF lw
<1>3. ChoiceCount(p, lv) = ChoiceCount(q, lw) + One(Untried(p[x])) + RegionRetries(p[x].retry_region)
  <2>1. ChoiceCount(p, lw \cup {x}) = ChoiceCount(q, lw) + One(Untried(p[x])) + RegionRetries(p[x].retry_region)
    BY <1>1, <1>2, ChoicesAdd
  <2>2. QED BY <1>1, <2>1
<1>4. ChoiceCount(q, lw) \in Nat /\ One(Untried(p[x])) \in Nat /\ RegionRetries(p[x].retry_region) \in Nat
  BY <1>1, ChoicesNat, RegionOnce DEF One
<1>5. ChoiceCount(q, lw) = ChoiceCount(p, lv) - One(Untried(p[x])) - RegionRetries(p[x].retry_region)
  BY <1>3, <1>4
<1>6. QED BY <1>1, <1>5 DEF lw

\* One node that has other actions left than before.
LEMMA ChoicesChange ==
  ASSUME NEW p, NEW q, NEW lv, IsFiniteSet(lv), NEW x \in lv,
         \A r \in lv : r # x => SameRetry(p[r], q[r]),
         q[x].retry_region = p[x].retry_region
  PROVE  ChoiceCount(q, lv) = ChoiceCount(p, lv) - One(Untried(p[x])) + One(Untried(q[x]))
<1> DEFINE lw == lv \ {x}
           rr == RegionRetries(q[x].retry_region)
<1>1. /\ IsFiniteSet(lw) /\ x \notin lw /\ lw \cup {x} = lv
      /\ \A r \in lw : SameRetry(q[r], q[r])
  BY FS_RemoveElement DEF SameRetry
<1>2. ChoiceCount(q, lw) = ChoiceCount(p, lv) - One(Untried(p[x])) - rr
  BY ChoicesFree
<1>3. ChoiceCount(q, lv) = ChoiceCount(q, lw) + One(Untried(q[x])) + rr
  <2> HIDE DEF lw
  <2>1. ChoiceCount(q, lw \cup {x}) = ChoiceCount(q, lw) + One(Untried(q[x])) + rr
    BY <1>1, ChoicesAdd
  <2>2. QED BY <1>1, <2>1
<1>4. /\ ChoiceCount(p, lv) \in Nat /\ rr \in Nat
      /\ One(Untried(q[x])) \in Nat /\ One(Untried(p[x])) \in Nat
  BY ChoicesNat, RegionOnce DEF One
<1>5. QED BY <1>2, <1>3, <1>4

\* The node keeps its choices when nothing that the parse is made of has changed.
LEMMA CoreRetry ==
  ASSUME NEW m, NEW n, SameCore(m, n)
  PROVE  SameRetry(m, n)
BY DEF SameCore, SameRetry, Untried

\* The same of the next state.
LEMMA AccountsNext ==
  RetryAccounting' <=>
    num_retry' = ChoiceCount(pt', live') + One(trigger_undo') + One(AboutToRescan') - One(Taking')
BY DEF RetryAccounting, ChoiceCount, Acts, Regs, PendingActions, PendingRegions, One

\* The count changes with the choices, and with what is pending, found or taken.
LEMMA CountStep ==
  ASSUME TInv, CountInv, IsFiniteSet(live'), FrontInv', NEW d \in Int,
         ChoiceCount(pt', live') = ChoiceCount(pt, live) + d,
         num_retry' = num_retry + d + (One(trigger_undo') - One(trigger_undo))
                      + (One(AboutToRescan') - One(AboutToRescan)) - (One(Taking') - One(Taking))
  PROVE  CountInv'
<1>1. /\ One(trigger_undo) \in Int /\ One(trigger_undo') \in Int /\ One(Taking) \in Int
      /\ One(AboutToRescan) \in Int /\ One(AboutToRescan') \in Int /\ One(Taking') \in Int
  BY DEF One
<1>2. ChoiceCount(pt, live) \in Int
  BY ChoicesNat DEF CountInv
<1>3. num_retry = ChoiceCount(pt, live) + One(trigger_undo) + One(AboutToRescan) - One(Taking)
  BY Accounts DEF CountInv
<1>4. num_retry' = ChoiceCount(pt', live') + One(trigger_undo') + One(AboutToRescan') - One(Taking')
  BY <1>1, <1>2, <1>3
<1>5. QED BY <1>4, AccountsNext DEF CountInv

\* What a step leaves when it moves no node.
LEMMA CountKept ==
  ASSUME TInv, CountInv, UNCHANGED <<pt, live, parse_input>>, ~parse_error' => ~parse_error,
         num_retry' = num_retry + (One(trigger_undo') - One(trigger_undo))
                      + (One(AboutToRescan') - One(AboutToRescan)) - (One(Taking') - One(Taking))
  PROVE  CountInv'
<1>1. ChoiceCount(pt', live') = ChoiceCount(pt, live) + 0
  <2>1. ChoiceCount(pt, live) \in Int
    BY ChoicesNat DEF CountInv
  <2>2. QED BY <2>1
<1>2. IsFiniteSet(live') /\ FrontInv'
  BY DEF CountInv, FrontInv, IsTerm, Lel, Found
<1>3. num_retry \in Int
  BY DEF TInv, LInv, IInv, TypeOK, CountsOK
<1>4. num_retry' = num_retry + 0 + (One(trigger_undo') - One(trigger_undo))
                      + (One(AboutToRescan') - One(AboutToRescan)) - (One(Taking') - One(Taking))
  BY <1>3
<1>5. QED BY <1>1, <1>2, <1>4, CountStep

\* What the node in front of the input holds: a token the retry of its own actions, a
\* reduction that of the token which caused it.
LEMMA FrontRetry ==
  ASSUME TInv, ~parse_error, red_lel = <<>>, parse_input # <<>>
  PROVE  /\ Lel \in Ref /\ pt[Lel] \in Node /\ Lel \in live
         /\ IsTerm(Lel) => pt[Lel].retry_upper = 0
         /\ ~IsTerm(Lel) =>
              /\ pt[Lel].id \in NonTerm
              /\ pt[Lel].retry_lower = 0 /\ pt[Lel].retry_region = 0
              /\ pt[Lel].retry_upper # 0 =>
                   /\ Len(parse_input) = 2
                   /\ HasTrans(stack_top_target(pt, Unfold(pt, Lel, stack)), pt[parse_input[2]].id)
<1> DEFINE a == parse_input
           x == Lel
<1>0. /\ LInv /\ IInv /\ ListsInv /\ pt \in [Ref -> Node] /\ stack \in Seq(Ref)
      /\ a \in Seq(Ref)
  BY ListTypes DEF TInv, LInv
<1>2. Ahead = a /\ Len(a) <= 2
  BY <1>0, AheadSet, AheadShape
<1>3. Trail(pt, stack, a, live)
  BY <1>2 DEF TInv, TrailInv
<1>4. x \in Ref /\ pt[x] \in Node /\ pt[x].cause_reduce \in Int /\ x = Head(a)
  <2>1. x \in Ref /\ pt[x] \in Node
    BY <1>0, LelType
  <2>2. QED BY <2>1 DEF Node, Lel
<1>5. x \in live
  <2>1. x \in ToSet(a)
    BY <1>0, LelInput
  <2>2. QED BY <1>0, <2>1 DEF ListsInv, OneOwner, Apart, SetsApart
<1> HIDE DEF a, x
<1>6. /\ Tok(pt, x) => pt[x].retry_upper = 0
      /\ ~Tok(pt, x) =>
           /\ pt[x].id \in NonTerm
           /\ pt[x].retry_lower = 0 /\ pt[x].retry_region = 0
      /\ ~Tok(pt, x) /\ pt[x].retry_upper # 0 =>
           Len(a) = 2 /\ HasTrans(stack_top_target(pt, Unfold(pt, x, stack)), pt[a[2]].id)
  <2>1. pt[Head(a)].cause_reduce \in Int /\ a # <<>>
    BY <1>4 DEF a
  <2>2. QED BY <1>0, <1>2, <1>3, <1>4, <2>1, TrailFront
<1>7. QED BY <1>4, <1>5, <1>6 DEF IsTerm, Tok, a, x

\* A choice that is being taken: its token has an action in the state of the parser.
LEMMA TakingFound ==
  ASSUME TInv, FrontInv, Taking
  PROVE  ~parse_error /\ IsTerm(Lel) /\ HasTrans(pda_cs, pt[Lel].id)
<1>1. pc = "again" /\ parse_input # <<>> /\ pt[Lel].retry_lower # 0
  BY DEF Taking
<1>2. ~parse_error /\ red_lel = <<>>
  BY <1>1 DEF TInv, LInv, FlowInv, ListsInv
<1>3. IsTerm(Lel)
  BY <1>1, <1>2, FrontRetry
<1>4. pt[Lel].state = stack_top_target(pt, stack) /\ pda_cs = stack_top_target(pt, stack)
  BY <1>1, <1>2, <1>3 DEF TInv, LInv, PathInv, LelInv, StackInv
<1>5. Found(pt, Lel)
  BY <1>1, <1>2, <1>3 DEF FrontInv
<1>6. QED BY <1>2, <1>3, <1>4, <1>5 DEF Found

\* The end of a round takes off the choice that an undo was to find.
LEMMA EndRoundCount ==
  ASSUME NEW stops, EndRound(stops), num_retry \in Int
  PROVE  /\ num_retry' = num_retry + (One(trigger_undo') - One(trigger_undo))
         /\ pc' # "again"
<1>1. CASE trigger_undo
  BY <1>1 DEF EndRound, One
<1>2. CASE ~trigger_undo
  BY <1>2 DEF EndRound, One
<1>3. QED BY <1>1, <1>2

\* A generation action runs, and the round ends.
LEMMA GenerateEnds ==
  ASSUME ScanGenerate
  PROVE  /\ pc = "scan" /\ UNCHANGED <<pt, live, parse_input, check_next, parse_error>>
         /\ \E stops : EndRound(stops)
<1>1. pc = "scan" /\ UNCHANGED <<pt, live, parse_input, check_next, parse_error>>
  BY DEF ScanGenerate
<1>2. PICK t \in Matches : EndRound(Stops \/ RunFrame(GenFrame[t.id]).exit)
  BY DEF ScanGenerate
<1>3. QED BY <1>1, <1>2

\* The steps that move no node, going forward: rounds that send nothing to the parser,
\* the end of a round, the statements of the program.
LEMMA SteadyCount ==
  ASSUME RInv, LET Moves == \/ ScanPreRegion \/ ScanLater \/ ScanNextRegion \/ ScanNull
                            \/ ScanGenerate \/ NoTransition \/ AgainOut \/ Done
                            \/ Drive \/ UNCHANGED vars
               IN Moves
  PROVE  CountInv'
<1>0. TInv /\ CountInv /\ FrontInv /\ num_retry \in Int
  BY DEF RInv, CountInv, TInv, LInv, IInv, TypeOK, CountsOK
<1>1. CASE UNCHANGED vars
  <2>1. Taking' = Taking /\ AboutToRescan' = AboutToRescan /\ trigger_undo' = trigger_undo
    BY <1>1 DEF vars, Taking, AboutToRescan, Lel
  <2>2. One(Taking') = One(Taking) /\ One(AboutToRescan') = One(AboutToRescan)
        /\ One(trigger_undo') = One(trigger_undo)
    BY <2>1
  <2>3. num_retry' = num_retry /\ UNCHANGED <<pt, live, parse_input, parse_error>>
    BY <1>1 DEF vars
  <2>4. One(Taking) \in Int /\ One(AboutToRescan) \in Int /\ One(trigger_undo) \in Int
    BY DEF One
  <2>5. QED BY <1>0, <2>2, <2>3, <2>4, CountKept
<1>2. CASE ~UNCHANGED vars
  <2>1. /\ UNCHANGED <<pt, live, parse_input, check_next, parse_error>>
        /\ num_retry' = num_retry + (One(trigger_undo') - One(trigger_undo))
        /\ pc # "backtrack" /\ pc' # "again"
        /\ Taking => NoTransition
    <3>1. CASE ScanPreRegion \/ ScanLater \/ ScanNull
      BY <1>0, <3>1 DEF ScanPreRegion, ScanLater, ScanNull, One, Taking
    <3>2. CASE ScanNextRegion
      <4>1. /\ pc = "scan" /\ UNCHANGED <<pt, live, parse_input, check_next, parse_error>>
            /\ EndRound(Stops)
        BY <3>2 DEF ScanNextRegion, SkipSend
      <4>2. num_retry' = num_retry + (One(trigger_undo') - One(trigger_undo)) /\ pc' # "again"
        BY <1>0, <4>1, EndRoundCount
      <4>3. ~Taking
        BY <4>1 DEF Taking
      <4>4. QED BY <4>1, <4>2, <4>3
    <3>3. CASE ScanGenerate
      <4>1. /\ pc = "scan" /\ UNCHANGED <<pt, live, parse_input, check_next, parse_error>>
            /\ \E stops : EndRound(stops)
        BY <3>3, GenerateEnds
      <4>2. num_retry' = num_retry + (One(trigger_undo') - One(trigger_undo)) /\ pc' # "again"
        BY <1>0, <4>1, EndRoundCount
      <4>3. ~Taking
        BY <4>1 DEF Taking
      <4>4. QED BY <4>1, <4>2, <4>3
    <3>4. CASE NoTransition \/ AgainOut
      BY <1>0, <3>4 DEF NoTransition, AgainOut, One, Taking
    <3>5. CASE Done
      BY <1>0, <3>5 DEF Done, EndRound, One, Taking
    <3>6. CASE Drive
      BY <1>0, <3>6 DEF Drive, Send, SendEof, ParseFrag, One, Taking
    <3>7. QED BY <1>2, <3>1, <3>2, <3>3, <3>4, <3>5, <3>6
  <2>2. ~Taking /\ ~Taking'
    <3>1. ~Taking
      BY <1>0, <2>1, TakingFound DEF NoTransition
    <3>2. QED BY <2>1, <3>1 DEF Taking
  <2>3. ~AboutToRescan /\ ~AboutToRescan'
    BY <1>0, <2>1 DEF AboutToRescan, TInv, LInv, FlowInv
  <2>4. num_retry' = num_retry + (One(trigger_undo') - One(trigger_undo))
                      + (One(AboutToRescan') - One(AboutToRescan)) - (One(Taking') - One(Taking))
    <3>1. One(Taking') = 0 /\ One(Taking) = 0 /\ One(AboutToRescan) = 0 /\ One(AboutToRescan') = 0
      BY <2>2, <2>3 DEF One
    <3>2. num_retry' \in Int
      BY <1>0, <2>1 DEF One
    <3>3. QED BY <2>1, <3>1, <3>2
  <2>5. QED BY <1>0, <2>1, <2>4, CountKept
<1>3. QED BY <1>1, <1>2

\* The steps back that move no node: reverse code, the two checks, a retry, giving up.
LEMMA BackCount ==
  ASSUME RInv, BtReverse \/ BtNext \/ BtStop \/ BtRetry \/ BtFail
  PROVE  CountInv'
<1>0. TInv /\ CountInv /\ num_retry \in Int
  BY DEF RInv, CountInv, TInv, LInv, IInv, TypeOK, CountsOK
<1>1. /\ UNCHANGED <<pt, live, parse_input, trigger_undo>> /\ pc = "backtrack"
      /\ ~parse_error' => ~parse_error
  <2>1. CASE BtReverse
    BY <2>1 DEF BtReverse
  <2>2. CASE BtStop \/ BtNext \/ BtRetry
    BY <2>2 DEF BtStop, BtNext, BtRetry
  <2>3. CASE BtFail
    BY <2>3 DEF BtFail, AtUnshift
  <2>4. QED BY <2>1, <2>2, <2>3
<1>2. ~Taking /\ One(Taking) = 0
  BY <1>1 DEF Taking, One
<1>3. One(trigger_undo') = One(trigger_undo) /\ One(trigger_undo) \in Int
      /\ One(AboutToRescan) \in Int /\ One(AboutToRescan') \in Int
  BY <1>1 DEF One
<1>4. CASE BtReverse \/ BtStop \/ BtFail
  <2>1. /\ UNCHANGED <<check_next, next, num_retry>> /\ pc' # "again"
    BY <1>1, <1>4 DEF BtReverse, BtStop, BtFail
  <2>2. One(AboutToRescan') = One(AboutToRescan)
    BY <2>1 DEF AboutToRescan
  <2>3. One(Taking') = 0
    BY <2>1 DEF Taking, One
  <2>4. QED BY <1>0, <1>1, <1>2, <1>3, <2>1, <2>2, <2>3, CountKept
<1>5. CASE BtNext
  <2>1. pc' # "again" /\ ~AboutToRescan'
    BY <1>1, <1>5 DEF BtNext, AboutToRescan
  <2>2. num_retry' = num_retry - One(AboutToRescan)
    <3>1. CASE next > 0 /\ RegionAt(next) # 0
      BY <1>5, <3>1 DEF BtNext, AboutToRescan, One
    <3>2. CASE ~(next > 0 /\ RegionAt(next) # 0)
      BY <1>0, <1>5, <3>2 DEF BtNext, AboutToRescan, One
    <3>3. QED BY <3>1, <3>2
  <2>3. One(Taking') = 0 /\ One(AboutToRescan') = 0
    BY <2>1 DEF Taking, One
  <2>4. QED BY <1>0, <1>1, <1>2, <1>3, <2>2, <2>3, CountKept
<1>6. CASE BtRetry
  <2>1. /\ pc' = "again" /\ num_retry' = num_retry - 1 /\ UNCHANGED <<check_next, next>>
        /\ parse_input # <<>> /\ pt[Lel].retry_lower # 0
    BY <1>6 DEF BtRetry
  <2>2. Taking'
    BY <1>1, <2>1 DEF Taking, Lel
  <2>3. One(Taking') = 1 /\ One(AboutToRescan') = One(AboutToRescan)
    BY <2>1, <2>2 DEF One, AboutToRescan
  <2>4. QED BY <1>0, <1>1, <1>2, <1>3, <2>1, <2>3, CountKept
<1>7. QED BY <1>4, <1>5, <1>6

-----------------------------------------------------------------------------
(* Nodes that come and go. *)

\* A node enters that has no action left: it can be scanned in another region at most.
LEMMA NewCount ==
  ASSUME RInv, NEW r \in Ref, r \notin live, live' = live \cup {r},
         NEW m, pt' = [pt EXCEPT ![r] = m], ~Untried(m), pc = "scan",
         num_retry' = num_retry + RegionRetries(m.retry_region),
         UNCHANGED <<trigger_undo, check_next>>, FrontInv', ~Taking'
  PROVE  CountInv'
<1>0. TInv /\ CountInv /\ num_retry \in Int /\ IsFiniteSet(live) /\ live \subseteq Ref
      /\ pt \in [Ref -> Node]
  BY ListTypes DEF RInv, CountInv, TInv, LInv, IInv, TypeOK, CountsOK, NodesOK
<1> DEFINE d == RegionRetries(m.retry_region)
<1>1. pt'[r] = m /\ \A x \in live : SameRetry(pt[x], pt'[x])
  BY <1>0 DEF SameRetry
<1>2. IsFiniteSet(live') /\ ChoiceCount(pt', live') = ChoiceCount(pt, live) + One(Untried(pt'[r])) + d
  <2> DEFINE q == pt'
  <2>1. q[r] = m /\ \A x \in live : SameRetry(pt[x], q[x])
    BY <1>1
  <2> HIDE DEF q
  <2>2. /\ IsFiniteSet(live \cup {r})
        /\ ChoiceCount(q, live \cup {r})
             = ChoiceCount(pt, live) + One(Untried(q[r])) + RegionRetries(q[r].retry_region)
    BY <1>0, <2>1, ChoicesAdd
  <2>3. QED BY <2>1, <2>2 DEF q
<1>3. One(Untried(pt'[r])) = 0 /\ d \in Int /\ ChoiceCount(pt, live) \in Int
  BY <1>0, <1>1, ChoicesNat, RegionOnce DEF One
<1>4. One(Taking) = 0 /\ One(Taking') = 0
  BY DEF Taking, One
<1>5. One(AboutToRescan) = 0 /\ One(AboutToRescan') = 0
  BY <1>0 DEF AboutToRescan, One, TInv, LInv, FlowInv
<1>6. One(trigger_undo') = One(trigger_undo) /\ One(trigger_undo) \in Int
  BY DEF One
<1> HIDE DEF d
<1>7. ChoiceCount(pt', live') = ChoiceCount(pt, live) + d
  BY <1>2, <1>3
<1>8. num_retry' = num_retry + d + (One(trigger_undo') - One(trigger_undo))
                      + (One(AboutToRescan') - One(AboutToRescan)) - (One(Taking') - One(Taking))
  BY <1>0, <1>3, <1>4, <1>5, <1>6 DEF d
<1>9. QED BY <1>0, <1>2, <1>3, <1>7, <1>8, CountStep

\* What is counted for a node when it is made is what it holds.
LEMMA RetriesSet ==
  ASSUME RegionInv
  PROVE  SetRetries = RegionRetries(RetryRegion)
BY DEF RegionInv, SetRetries, RegionRetries, RetryRegion

\* A token is sent to the parser.
LEMMA EnterParserCount ==
  ASSUME RInv, NEW node \in Node, NEW n, EnterParser(node, n), pc = "scan",
         node.retry_lower = 0, node.retry_upper = 0,
         num_retry' = num_retry + RegionRetries(node.retry_region),
         UNCHANGED <<trigger_undo, check_next>>
  PROVE  CountInv'
<1>0. pt \in [Ref -> Node]
  BY ListTypes DEF RInv, TInv, LInv
<1>1. PICK r \in Ref :
        /\ Fresh(r) /\ live' = live \cup {r}
        /\ pt' = [pt EXCEPT ![r] = [node EXCEPT !.state = pda_cs,
                                                !.has_rcode = Transfer(n)]]
        /\ parse_input' = <<r>>
  BY DEF EnterParser
<1> DEFINE m == [node EXCEPT !.state = pda_cs, !.has_rcode = Transfer(n)]
<1>2. m.retry_lower = 0 /\ m.retry_upper = 0 /\ m.retry_region = node.retry_region
  BY DEF Node
<1>3. pt' = [pt EXCEPT ![r] = m] /\ r \notin live
  BY <1>1 DEF Fresh
<1> HIDE DEF m
<1>4. pt'[r] = m /\ Lel' = r
  BY <1>0, <1>1, <1>3 DEF Lel
<1>5. FrontInv' /\ ~Taking'
  BY <1>2, <1>4 DEF FrontInv, Taking
<1>6. ~Untried(m) /\ num_retry' = num_retry + RegionRetries(m.retry_region)
  BY <1>2 DEF Untried
<1>7. QED BY <1>1, <1>3, <1>5, <1>6, NewCount

\* Ignored text is read.
LEMMA IgnoreCount ==
  ASSUME RInv, NEW node \in Node, Ignore(node), pc = "scan",
         node.retry_lower = 0, node.retry_upper = 0
  PROVE  CountInv'
<1>1. PICK r \in Ref :
        /\ Fresh(r) /\ live' = live \cup {r}
        /\ pt' = [pt EXCEPT ![r] = [node EXCEPT !.has_rcode = Transfer(rc_block_count),
                                                !.retry_region = RetryRegion]]
  BY DEF Ignore
<1> DEFINE m == [node EXCEPT !.has_rcode = Transfer(rc_block_count),
                             !.retry_region = RetryRegion]
<1>2. m.retry_lower = 0 /\ m.retry_upper = 0 /\ m.retry_region = RetryRegion
  BY DEF Node
<1>3. pt' = [pt EXCEPT ![r] = m] /\ r \notin live
  BY <1>1 DEF Fresh
<1> HIDE DEF m
<1>4. parse_input = <<>> /\ parse_input' = <<>>
  BY DEF RInv, TInv, LInv, FlowInv, EmptyInv, Ignore
<1>5. FrontInv' /\ ~Taking'
  BY <1>4 DEF FrontInv, Taking
<1>6. ~Untried(m) /\ num_retry' = num_retry + RegionRetries(m.retry_region)
      /\ UNCHANGED <<trigger_undo, check_next>>
  BY <1>2, RetriesSet DEF Untried, Ignore, RInv
<1>7. QED BY <1>1, <1>3, <1>5, <1>6, NewCount

\* The scanning of tokens.
LEMMA EnteredCount ==
  ASSUME RInv, ScanCollectIgnore \/ ScanEof \/ ScanTree \/ ScanToken
  PROVE  CountInv'
<1>0. IInv /\ StatesOK /\ ScannerOK /\ num_retry \in Int
  BY DEF RInv, TInv, LInv, IInv, TypeOK, CountsOK
<1>00. RegionRetries(0) = 0 /\ num_retry = num_retry + 0
  BY <1>0 DEF RegionRetries
<1>1. CASE ScanCollectIgnore
  <2> DEFINE node == [Blank EXCEPT !.id = CiLel[region], !.retry_region = RetryRegion]
  <2>1. CiLel[region] \in Term /\ RetryRegion \in Nat
    BY <1>0, <1>1, RetryRegionType, RegionAssumption DEF ScannerOK, ScanCollectIgnore
  <2>2. node \in Node
    BY <2>1, BlankType DEF Node, Id
  <2>3. node.retry_lower = 0 /\ node.retry_upper = 0 /\ node.retry_region = RetryRegion
    BY DEF Blank
  <2>4. /\ EnterParser(node, rc_block_count) /\ pc = "scan"
        /\ UNCHANGED <<trigger_undo, check_next>>
        /\ num_retry' = num_retry + RegionRetries(RetryRegion)
    BY <1>1, RetriesSet DEF ScanCollectIgnore, RInv
  <2> HIDE DEF node
  <2>5. QED BY <2>2, <2>3, <2>4, EnterParserCount
<1>2. CASE ScanEof
  <2> DEFINE node == [Blank EXCEPT !.id = EofId]
             writes == RunFrame(EofFrame[region]).env # env
             k == rc_block_count + (IF writes THEN MakeSteps ELSE 0)
  <2>1. node \in Node
    BY BlankType, IdAssumption DEF Node, Id
  <2>2. node.retry_lower = 0 /\ node.retry_upper = 0 /\ node.retry_region = 0
    BY DEF Blank
  <2>3. /\ EnterParser(node, k) /\ pc = "scan"
        /\ UNCHANGED <<trigger_undo, check_next, num_retry>>
    BY <1>2 DEF ScanEof
  <2> HIDE DEF node, k
  <2>4. QED BY <1>00, <2>1, <2>2, <2>3, EnterParserCount
<1>3. CASE ScanTree
  <2> DEFINE node == [Blank EXCEPT !.id = ItemId[Head(input)], !.artificial = TRUE,
                                   !.text = <<Head(input)>>]
  <2>1. ItemId[Head(input)] \in Term /\ <<Head(input)>> \in Seq(Item)
    BY <1>0, <1>3, TreeItemType DEF ScanTree, Item
  <2>2. node \in Node
    BY <2>1, BlankType DEF Node, Id
  <2>3. node.retry_lower = 0 /\ node.retry_upper = 0 /\ node.retry_region = 0
    BY DEF Blank
  <2>4. /\ EnterParser(node, rc_block_count) /\ pc = "scan"
        /\ UNCHANGED <<trigger_undo, check_next, num_retry>>
    BY <1>3 DEF ScanTree
  <2> HIDE DEF node
  <2>5. QED BY <1>00, <2>2, <2>3, <2>4, EnterParserCount
<1>4. CASE ScanToken
  <2>1. PICK t \in Matches :
          EnterParser([Blank EXCEPT !.id = t.id, !.retry_region = RetryRegion,
                                    !.text = Taken(MatchLen(t))], rc_block_count)
    BY <1>4 DEF ScanToken
  <2> DEFINE node == [Blank EXCEPT !.id = t.id, !.retry_region = RetryRegion,
                                   !.text = Taken(MatchLen(t))]
  <2>2. /\ t.id \in Term /\ Taken(MatchLen(t)) \in Seq(Item) /\ RetryRegion \in Nat
    <3>1. pc = "scan"
      BY <1>4 DEF ScanToken
    <3>2. QED BY <1>0, <3>1, MatchType, RetryRegionType
  <2>3. node \in Node
    BY <2>2, BlankType DEF Node, Id
  <2>4. node.retry_lower = 0 /\ node.retry_upper = 0 /\ node.retry_region = RetryRegion
    BY DEF Blank
  <2>5. EnterParser(node, rc_block_count)
    BY <2>1
  <2>6. /\ pc = "scan" /\ UNCHANGED <<trigger_undo, check_next>>
        /\ num_retry' = num_retry + RegionRetries(RetryRegion)
    BY <1>4, RetriesSet DEF ScanToken, RInv
  <2> HIDE DEF node
  <2>7. QED BY <2>3, <2>4, <2>5, <2>6, EnterParserCount
<1>5. QED BY <1>1, <1>2, <1>3, <1>4

\* The scanning of ignored text.
LEMMA IgnoredCount ==
  ASSUME RInv, ScanIgnoreTree \/ ScanIgnore
  PROVE  CountInv'
<1>0. IInv
  BY DEF RInv, TInv, LInv
<1>1. CASE ScanIgnoreTree
  <2> DEFINE node == [Blank EXCEPT !.id = ItemId[Head(input)], !.artificial = TRUE,
                                   !.text = <<Head(input)>>]
  <2>1. ItemId[Head(input)] \in Id /\ <<Head(input)>> \in Seq(Item)
    BY <1>0, <1>1, TreeItemType DEF ScanIgnoreTree, Item, Id
  <2>2. node \in Node
    BY <2>1, BlankType DEF Node
  <2>3. node.retry_lower = 0 /\ node.retry_upper = 0
    BY DEF Blank
  <2>4. Ignore(node) /\ pc = "scan"
    BY <1>1 DEF ScanIgnoreTree
  <2> HIDE DEF node
  <2>5. QED BY <2>2, <2>3, <2>4, IgnoreCount
<1>2. CASE ScanIgnore
  <2>1. PICK t \in Matches :
          Ignore([Blank EXCEPT !.id = t.id, !.right_flag = (pre_region >= 0),
                               !.text = Taken(MatchLen(t))])
    BY <1>2 DEF ScanIgnore
  <2> DEFINE m == [Blank EXCEPT !.id = t.id, !.right_flag = (pre_region >= 0),
                                !.text = Taken(MatchLen(t))]
  <2>2. /\ t.id \in Id /\ Taken(MatchLen(t)) \in Seq(Item)
        /\ (pre_region >= 0) \in BOOLEAN
    <3>1. pc = "scan"
      BY <1>2 DEF ScanIgnore
    <3>2. QED BY <1>0, <3>1, MatchType DEF Id
  <2>3. m \in Node
    BY <2>2, BlankType DEF Node
  <2>4. m.retry_lower = 0 /\ m.retry_upper = 0
    BY DEF Blank
  <2>5. Ignore(m) /\ pc = "scan"
    BY <1>2, <2>1 DEF ScanIgnore
  <2> HIDE DEF m
  <2>6. QED BY <2>3, <2>4, <2>5, IgnoreCount
<1>3. QED BY <1>1, <1>2

\* A node that is sent back had no action left; that it can be scanned in another region
\* is known to the check that comes next.
LEMMA SentBackCount ==
  ASSUME RInv, NEW x \in live, SendBack(x), pc = "backtrack", ~check_next,
         ~Untried(pt[x]), UNCHANGED <<num_retry, trigger_undo, pc>>, FrontInv'
  PROVE  CountInv'
<1>0. TInv /\ CountInv /\ num_retry \in Int /\ IsFiniteSet(live) /\ live \subseteq Ref
      /\ pt \in [Ref -> Node]
  BY ListTypes DEF RInv, CountInv, TInv, LInv, IInv, TypeOK, CountsOK, NodesOK
<1> DEFINE rr == pt[x].retry_region
           d == RegionRetries(rr)
<1>1. pt' = [pt EXCEPT ![x] = Blank] /\ live' = live \ {x} /\ check_next' = TRUE
      /\ next' = IF rr > 0 THEN rr + 1 ELSE 0
  BY DEF SendBack
<1>2. \A r \in live : r # x => SameRetry(pt[r], pt'[r])
  BY <1>0, <1>1 DEF SameRetry
<1>3. IsFiniteSet(live') /\ ChoiceCount(pt', live') = ChoiceCount(pt, live) - One(Untried(pt[x])) - d
  <2> DEFINE q == pt'
  <2>1. \A r \in live : r # x => SameRetry(pt[r], q[r])
    BY <1>2
  <2> HIDE DEF q
  <2>2. /\ IsFiniteSet(live \ {x})
        /\ ChoiceCount(q, live \ {x}) = ChoiceCount(pt, live) - One(Untried(pt[x])) - d
    BY <1>0, <2>1, ChoicesFree
  <2>3. QED BY <1>1, <2>2 DEF q
<1>4. One(Untried(pt[x])) = 0 /\ d \in Int /\ ChoiceCount(pt, live) \in Int
  BY <1>0, ChoicesNat, RegionOnce DEF One
<1>5. One(Taking) = 0 /\ One(Taking') = 0 /\ One(AboutToRescan) = 0
  BY DEF Taking, One, AboutToRescan
<1>6. One(AboutToRescan') = d
  <2>1. rr \in Nat
    <3>1. pt[x] \in Node
      BY <1>0
    <3>2. QED BY <3>1 DEF Node
  <2> HIDE DEF rr
  <2>2. CASE rr > 0 /\ RegionAt(rr + 1) # 0
    <3>1. AboutToRescan' /\ d = 1
      BY <1>1, <2>1, <2>2 DEF AboutToRescan, RegionRetries
    <3>2. QED BY <3>1 DEF One
  <2>3. CASE ~(rr > 0 /\ RegionAt(rr + 1) # 0)
    <3>1. ~AboutToRescan' /\ d = 0
      BY <1>1, <2>1, <2>3 DEF AboutToRescan, RegionRetries
    <3>2. QED BY <3>1 DEF One
  <2>4. QED BY <2>2, <2>3
<1>7. One(trigger_undo') = One(trigger_undo) /\ One(trigger_undo) \in Int
  BY DEF One
<1> HIDE DEF d
<1>8. ChoiceCount(pt', live') = ChoiceCount(pt, live) + (-d) /\ -d \in Int
  BY <1>3, <1>4
<1>9. num_retry' = num_retry + (-d) + (One(trigger_undo') - One(trigger_undo))
                      + (One(AboutToRescan') - One(AboutToRescan)) - (One(Taking') - One(Taking))
  BY <1>0, <1>4, <1>5, <1>6, <1>7
<1>10. QED BY <1>0, <1>3, <1>8, <1>9, CountStep

\* A token with nothing left to try goes back to the stream.
LEMMA BtSendBackCount ==
  ASSUME RInv, BtSendBack
  PROVE  CountInv'
<1>1. /\ pc = "backtrack" /\ parse_input # <<>> /\ IsTerm(Lel) /\ pt[Lel].retry_lower = 0
      /\ ~check_next /\ SendBack(Lel) /\ parse_input' = <<>>
      /\ UNCHANGED <<num_retry, trigger_undo, pc>>
  BY DEF BtSendBack
<1>2. TInv /\ ~parse_error /\ red_lel = <<>>
  BY <1>1 DEF RInv, TInv, LInv, FlowInv, ListsInv
<1>3. Lel \in live /\ ~Untried(pt[Lel])
  BY <1>1, <1>2, FrontRetry DEF Untried
<1>4. FrontInv'
  BY <1>1 DEF FrontInv
<1>5. QED BY <1>1, <1>3, <1>4, SentBackCount

\* Ignored text goes back to the stream.
LEMMA BtIgnoreCount ==
  ASSUME RInv, BtIgnore
  PROVE  CountInv'
<1> DEFINE x == Head(accum_ignore)
<1>1. /\ pc = "backtrack" /\ parse_input = <<>> /\ accum_ignore # <<>> /\ parse_input' = <<>>
      /\ ~check_next /\ SendBack(x)
      /\ UNCHANGED <<num_retry, trigger_undo, pc>>
  BY DEF BtIgnore
<1>2. TInv /\ LInv /\ IInv /\ ListsInv /\ ~parse_error /\ accum_ignore \in Seq(Ref)
  BY <1>1, ListTypes DEF RInv, TInv, LInv, FlowInv
<1>3. x \in Ref /\ x \in ToSet(accum_ignore)
  <2>1. x \in Ref
    BY <1>1, <1>2, HeadTailType
  <2>2. ToSet(accum_ignore) = {x} \cup ToSet(Tail(accum_ignore))
    BY <1>1, <1>2, HeadSet, Zenon
  <2>3. QED BY <2>1, <2>2
<1> HIDE DEF x
<1>4. x \in live
  BY <1>2, <1>3 DEF ListsInv, OneOwner, Apart, SetsApart
<1>5. ~InParse(pt, stack, Ahead, x)
  BY <1>2, <1>3, NoChildren
<1>6. ~Untried(pt[x])
  <2>1. PICK e \in Seq(Ref), st \in [Nat -> Seq(Ref)], n \in Nat : TrailOf(pt, stack, Ahead, live, e, st, n)
    BY <1>2 DEF TInv, TrailInv, Trail
  <2>2. x \notin ToSet(e)
    <3>1. \A i \in DOMAIN e : e[i] # x
      BY <1>5, <2>1 DEF TrailOf
    <3>2. QED BY <3>1, Zenon DEF ToSet
  <2>3. QED BY <1>4, <2>1, <2>2 DEF TrailOf
<1>7. FrontInv'
  BY <1>1 DEF FrontInv
<1>8. QED BY <1>1, <1>4, <1>6, <1>7, SentBackCount

-----------------------------------------------------------------------------
(* Nodes that are moved. *)

\* Nodes move that keep their choices, and none is being taken.
LEMMA MovedCount ==
  ASSUME RInv, live' = live, \A x \in Ref : SameRetry(pt[x], pt'[x]),
         UNCHANGED <<num_retry, trigger_undo, check_next, next>>, ~Taking, ~Taking', FrontInv'
  PROVE  CountInv'
<1>0. TInv /\ CountInv /\ num_retry \in Int /\ IsFiniteSet(live) /\ live \subseteq Ref
  BY DEF RInv, CountInv, TInv, LInv, IInv, TypeOK, CountsOK, NodesOK
<1> DEFINE q == pt'
<1>1. \A x \in live : SameRetry(pt[x], q[x])
  BY <1>0
<1>2. ChoiceCount(pt, live) \in Int
  BY <1>0, ChoicesNat
<1> HIDE DEF q
<1>3. ChoiceCount(q, live) = ChoiceCount(pt, live) + 0
  BY <1>1, <1>2, ChoicesSame
<1>4. One(Taking) = 0 /\ One(Taking') = 0 /\ One(AboutToRescan') = One(AboutToRescan)
      /\ One(trigger_undo') = One(trigger_undo)
  BY DEF Taking, AboutToRescan, One
<1>5. num_retry' = num_retry + 0 + (One(trigger_undo') - One(trigger_undo))
                      + (One(AboutToRescan') - One(AboutToRescan)) - (One(Taking') - One(Taking))
  <2>1. One(trigger_undo) \in Int /\ One(AboutToRescan) \in Int
    BY DEF One
  <2>2. QED BY <1>0, <1>4, <2>1
<1>6. IsFiniteSet(live')
  BY <1>0
<1>7. QED BY <1>0, <1>3, <1>5, <1>6, CountStep DEF q

\* The reverse code of a reduction is to be run.
LEMMA BtDeckCount ==
  ASSUME RInv, BtDeck
  PROVE  CountInv'
<1> DEFINE x == Lel
           n == [pt[x] EXCEPT !.has_rcode = FALSE]
<1>0. IInv /\ pt \in [Ref -> Node]
  BY ListTypes DEF RInv, TInv, LInv
<1>1. /\ pt' = [pt EXCEPT ![x] = n] /\ live' = live /\ parse_input' = parse_input
      /\ pc = "backtrack" /\ pc' = "backtrack" /\ parse_input # <<>> /\ ~IsTerm(x)
      /\ UNCHANGED <<num_retry, trigger_undo, check_next, next>>
  BY DEF BtDeck
<1>2. x \in Ref /\ pt[x] \in Node
  BY <1>0, <1>1, LelType
<1>3. n.id = pt[x].id /\ SameRetry(pt[x], n)
  <2> HIDE DEF x
  <2>1. QED BY <1>2 DEF SameRetry, Untried, Node
<1>4. Lel' = x
  BY <1>1 DEF Lel
<1> HIDE DEF n, x
<1>5. pt'[x] = n /\ \A r \in Ref : r # x => pt'[r] = pt[r]
  BY <1>0, <1>1, <1>2
<1>6. \A r \in Ref : SameRetry(pt[r], pt'[r])
  BY <1>3, <1>5 DEF SameRetry
<1>7. FrontInv'
  BY <1>1, <1>3, <1>4, <1>5 DEF FrontInv, IsTerm
<1>8. ~Taking /\ ~Taking'
  BY <1>1 DEF Taking
<1>9. QED BY <1>1, <1>6, <1>7, <1>8, MovedCount

\* The top of the stack becomes the input.
LEMMA BtUnshiftCount ==
  ASSUME RInv, BtUnshift
  PROVE  CountInv'
<1> DEFINE top == Head(stack)
           stk == Tail(stack)
           bare == parse_input = <<>>
           left == bare /\ IsTerm(top) /\ pt[top].left_ignore # <<>>
           n == [pt[top] EXCEPT !.left_ignore = <<>>]
           p1 == IF left THEN [pt EXCEPT ![top] = n] ELSE pt
           a == parse_input
           b == <<top>> \o a
<1>0. TInv /\ LInv /\ IInv /\ pt \in [Ref -> Node] /\ a \in Seq(Ref)
  BY ListTypes DEF RInv, TInv, LInv
<1>1. /\ parse_input' = b
      /\ pt' = IF bare THEN detach_right_ignore(p1, stk) ELSE p1
      /\ pc = "backtrack" /\ pc' = "backtrack"
      /\ UNCHANGED <<live, num_retry, trigger_undo, check_next, next>>
  BY DEF BtUnshift, AtUnshift
<1>2. ~parse_error
  BY <1>0, <1>1 DEF LInv, FlowInv
<1>3. top \in Ref /\ stk \in Seq(Ref) /\ stack \in Seq(Ref) /\ stack # <<>> /\ pt[top] \in Node
  BY <1>0, HeadTailType, ListTypes DEF BtUnshift
<1>4. SameCore(pt[top], n) /\ n \in Node
  <2> HIDE DEF top
  <2>1. QED BY <1>3, EmptySeq DEF Node, SameCore
<1>5. p1 \in [Ref -> Node] /\ \A r \in Ref : SameCore(pt[r], p1[r])
  <2>1. CASE left
    <3> HIDE DEF n, top
    <3>1. p1 = [pt EXCEPT ![top] = n]
      BY <2>1
    <3>2. p1 \in [Ref -> Node] /\ p1[top] = n /\ \A r \in Ref : r # top => p1[r] = pt[r]
      BY <1>0, <1>3, <1>4, <3>1
    <3> HIDE DEF p1
    <3>3. QED BY <1>4, <3>2 DEF SameCore
  <2>2. CASE ~left
    BY <1>0, <2>2 DEF SameCore
  <2>3. QED BY <2>1, <2>2
<1> HIDE DEF p1, n
<1>6. \A r \in Ref : SameCore(pt[r], pt'[r])
  <2>1. CASE bare
    <3>1. \A r \in Ref : SameCore(p1[r], pt'[r])
      BY <1>1, <1>3, <1>5, <2>1, DetachCore
    <3>2. QED BY <1>5, <3>1 DEF SameCore
  <2>2. CASE ~bare
    BY <1>1, <1>5, <2>2
  <2>3. QED BY <2>1, <2>2
<1>7. \A r \in Ref : SameRetry(pt[r], pt'[r])
  BY <1>6, CoreRetry
<1>8. IsTerm(top) /\ pt[top].retry_lower # 0 => Found(pt, top)
  <2>1. CASE Path(pt, stack)
    <3>1. Settled(pt, top)
      BY <1>3, <2>1, PathTail
    <3>2. QED BY <3>1 DEF Settled
  <2>2. CASE Rejected
    BY <2>2 DEF Rejected
  <2>3. QED BY <1>0, <1>1, <1>2, <2>1, <2>2 DEF LInv, PathInv, StackInv
<1>9. Lel' = top
  <2> HIDE DEF top, a
  <2>1. Head(<<top>> \o a) = top
    BY <1>0, <1>3, ConsParts
  <2>2. QED BY <1>1, <2>1 DEF Lel
<1> HIDE DEF top, b
<1>10. SameCore(pt[top], pt'[top])
  BY <1>3, <1>6
<1>11. FrontInv'
  BY <1>8, <1>9, <1>10 DEF FrontInv, IsTerm, SameCore, Found
<1>12. ~Taking /\ ~Taking'
  BY <1>1 DEF Taking
<1>13. QED BY <1>1, <1>7, <1>11, <1>12, MovedCount

\* Behind the front of the input, no token has a choice left.
LEMMA WaitingDone ==
  ASSUME TInv, TInv', parse_input' # <<>>
  PROVE  /\ pc' = "reduction" => Lel' \in Ref /\ pt'[Lel'].retry_lower = 0
         /\ parse_input # <<>> /\ parse_input' = Tail(parse_input) =>
              /\ Lel' \in Ref /\ Lel' # Lel
              /\ pt[Lel'].retry_lower = 0 /\ pt[Lel'].id \in Term
<1>1. parse_input' \in Seq(Ref) /\ 1 \in DOMAIN parse_input' /\ Lel' = parse_input'[1] /\ Lel' \in Ref
  <2>1. parse_input' \in Seq(Ref)
    BY DEF TInv, LInv, IInv, TypeOK, NodesOK
  <2> DEFINE a == parse_input'
  <2> HIDE DEF a
  <2>2. a # <<>> /\ a \in Seq(Ref) => 1 \in DOMAIN a /\ Head(a) = a[1] /\ a[1] \in Ref
    OBVIOUS
  <2>3. QED BY <2>1, <2>2 DEF a, Lel
<1>2. ASSUME pc' = "reduction" PROVE pt'[Lel'].retry_lower = 0
  <2>1. Waiting(parse_input[1])'
    BY <1>1, <1>2 DEF TInv, LInv, InputInv
  <2>2. QED BY <1>1, <2>1 DEF Waiting
<1>3. ASSUME parse_input # <<>>, parse_input' = Tail(parse_input)
      PROVE  Lel' # Lel /\ pt[Lel'].retry_lower = 0 /\ pt[Lel'].id \in Term
  <2> DEFINE t == Tail(parse_input)
  <2>1. \A i \in DOMAIN t : t[i] # Lel /\ Waiting(t[i])
    BY <1>3, TailWaits DEF TInv
  <2> HIDE DEF t
  <2>2. parse_input' = t
    BY <1>3 DEF t
  <2>3. QED BY <1>1, <2>1, <2>2 DEF Waiting
<1>4. QED BY <1>1, <1>2, <1>3

\* The frame of a reduction has run.
LEMMA ReturnCount ==
  ASSUME RInv, TInv', ReductionReturn
  PROVE  CountInv'
<1> DEFINE r == red_lel[1]
           o == RunFrame(red_lel[2])
           writes == o.env # env
           made == IF writes THEN MakeSteps ELSE 0
           m == Returned(pt[r], rc_block_count + made, o.reject)
<1>0. TInv /\ LInv /\ IInv /\ ListsInv /\ pt \in [Ref -> Node] /\ pc = "reduction"
      /\ parse_input \in Seq(Ref)
  BY ListTypes DEF RInv, TInv, LInv, ReductionReturn
<1>1. ~parse_error
  BY <1>0 DEF LInv, FlowInv
<1>2. /\ UNCHANGED <<live, num_retry, trigger_undo, check_next, next>>
      /\ \/ /\ pt' = pt /\ parse_input' = parse_input /\ pc' = "done" /\ parse_error' = TRUE
         \/ /\ pt' = [pt EXCEPT ![r] = m] /\ parse_input' = parse_input /\ pc' = "backtrack"
            /\ parse_error' = parse_error
         \/ /\ pt' = [pt EXCEPT ![r] = m] /\ parse_input' = <<r>> \o parse_input /\ pc' = "again"
            /\ parse_error' = parse_error
  BY DEF ReductionReturn
<1>3. red_lel # <<>> /\ r \in Ref /\ pt[r] \in Node
  BY <1>0 DEF ReductionReturn, ReductionWaits, NodesOK, IInv, TypeOK
<1>4. pt[r].retry_lower = 0
  BY <1>0, <1>1, <1>3 DEF LInv, PathInv, RedInv
<1>5. m.retry_lower = pt[r].retry_lower /\ m.id = pt[r].id /\ SameRetry(pt[r], m)
  <2> HIDE DEF r
  <2>1. QED BY <1>3 DEF Returned, SameRetry, Untried, Node
<1> HIDE DEF m, r
<1>6. \A x \in Ref : SameRetry(pt[x], pt'[x]) /\ pt'[x].retry_lower = pt[x].retry_lower
  <2>1. CASE pt' = pt
    BY <2>1 DEF SameRetry
  <2>2. CASE pt' = [pt EXCEPT ![r] = m]
    <3>1. pt'[r] = m /\ \A x \in Ref : x # r => pt'[x] = pt[x]
      BY <1>0, <1>3, <2>2
    <3>2. QED BY <1>5, <3>1 DEF SameRetry
  <2>3. QED BY <1>2, <2>1, <2>2
<1>7. ~Taking
  BY <1>0 DEF Taking
<1>8. parse_input' # <<>> => Lel' \in Ref /\ pt'[Lel'].retry_lower = 0
  <2>1. CASE parse_input' = parse_input
    <3>1. ASSUME parse_input # <<>> PROVE Lel \in Ref /\ pt[Lel].retry_lower = 0
      <4>1. parse_input # <<>> => 1 \in DOMAIN parse_input /\ Head(parse_input) = parse_input[1]
        BY <1>0
      <4>2. Waiting(parse_input[1])
        BY <1>0, <3>1, <4>1 DEF LInv, InputInv
      <4>3. QED BY <1>0, <3>1, <4>1, <4>2, LelType DEF Waiting, Lel
    <3>2. Lel' = Lel
      BY <2>1 DEF Lel
    <3>3. QED BY <1>6, <2>1, <3>1, <3>2
  <2>2. CASE parse_input' = <<r>> \o parse_input
    <3>1. Head(<<r>> \o parse_input) = r
      BY <1>0, <1>3, ConsParts
    <3>2. Lel' = r
      BY <2>2, <3>1 DEF Lel
    <3>3. QED BY <1>3, <1>4, <1>6, <3>2
  <2>3. QED BY <1>2, <2>1, <2>2
<1>9. ~Taking' /\ FrontInv'
  BY <1>8 DEF Taking, FrontInv
<1>10. QED BY <1>2, <1>6, <1>7, <1>9, MovedCount

-----------------------------------------------------------------------------
(* Actions, and reductions taken back. *)

\* An action of the node in front: the choice that was being taken is no more, and there
\* is one if the state has another action for the node.
LEMMA ActedCount ==
  ASSUME RInv, pc = "again", IsFiniteSet(live'),
         ChoiceCount(pt', live') = ChoiceCount(pt, live) + One(MoreActs) - One(Taking),
         num_retry' = num_retry + One(MoreActs),
         UNCHANGED <<trigger_undo, check_next>>,
         parse_input' # <<>> => pc' = "reduction" \/ pt'[Lel'].retry_lower = 0,
         parse_input' # <<>> /\ pc' = "reduction" => pt'[Lel'].retry_lower = 0
  PROVE  CountInv'
<1>0. TInv /\ CountInv /\ num_retry \in Int
  BY DEF RInv, TInv, LInv, IInv, TypeOK, CountsOK
<1>1. One(AboutToRescan) = 0 /\ One(AboutToRescan') = 0
  BY <1>0 DEF AboutToRescan, One, TInv, LInv, FlowInv
<1>2. FrontInv' /\ One(Taking') = 0
  BY DEF FrontInv, Taking, One
<1>3. One(trigger_undo') = One(trigger_undo) /\ One(trigger_undo) \in Int
      /\ One(MoreActs) \in Int /\ One(Taking) \in Int
  BY DEF One
<1> DEFINE d == One(MoreActs) - One(Taking)
<1>4. ChoiceCount(pt, live) \in Int
  BY <1>0, ChoicesNat DEF CountInv
<1>5. d \in Int /\ ChoiceCount(pt', live') = ChoiceCount(pt, live) + d
  BY <1>3, <1>4
<1>6. num_retry' = num_retry + d + (One(trigger_undo') - One(trigger_undo))
                      + (One(AboutToRescan') - One(AboutToRescan)) - (One(Taking') - One(Taking))
  BY <1>0, <1>1, <1>2, <1>3
<1> HIDE DEF d
<1>7. QED BY <1>0, <1>2, <1>5, <1>6, CountStep

\* The choices of the node in front when its action is done, in n: a token had the one that
\* was being taken.
LEMMA ActedFront ==
  ASSUME RInv, pc = "again", parse_input # <<>>, NEW n,
         n.retry_upper = pt[Lel].retry_upper
  PROVE  /\ n.retry_lower = 0 => One(Untried(n)) - One(Untried(pt[Lel])) = - One(Taking)
         /\ IsTerm(Lel) /\ n.retry_lower # 0 =>
              One(Untried(n)) - One(Untried(pt[Lel])) = 1 - One(Taking)
<1>1. TInv /\ ~parse_error /\ red_lel = <<>>
  BY DEF RInv, TInv, LInv, FlowInv, ListsInv
<1>2. /\ IsTerm(Lel) => pt[Lel].retry_upper = 0
      /\ ~IsTerm(Lel) => pt[Lel].retry_lower = 0
  BY <1>1, FrontRetry
<1>3. Taking <=> pt[Lel].retry_lower # 0
  BY DEF Taking
<1>4. QED BY <1>2, <1>3 DEF One, Untried

\* A node is shifted.
LEMMA ShiftCount ==
  ASSUME RInv, TInv', Shift
  PROVE  CountInv'
<1>0. TInv /\ LInv /\ IInv /\ IsFiniteSet(live) /\ live \subseteq Ref
  BY DEF RInv, CountInv, TInv, LInv, IInv, TypeOK, NodesOK
<1>1. /\ pc = "again" /\ pc' = "again" /\ parse_input # <<>>
      /\ HasTrans(pda_cs, pt[Lel].id)
      /\ parse_input' = Tail(parse_input) /\ live' = live
      /\ num_retry' = num_retry + (IF MoreActs THEN 1 ELSE 0)
      /\ UNCHANGED <<trigger_undo, check_next>>
  BY DEF Shift
<1>2. PICK cut \in RightCuts(pt, accum_ignore) : pt' = ShiftPt(cut)
  BY DEF Shift
<1> DEFINE x == Lel
           q == ShiftPt(cut)
<1>3. /\ \A r \in Ref : r # x => SameCore(pt[r], q[r])
      /\ q[x].retry_upper = pt[x].retry_upper /\ q[x].retry_region = pt[x].retry_region
      /\ q[x].retry_lower = IF MoreActs THEN pt[x].retry_lower + 1 ELSE 0
  BY <1>0, <1>1, ShiftPtCore
<1>4. ~parse_error /\ red_lel = <<>>
  BY <1>0, <1>1 DEF LInv, FlowInv, ListsInv
<1>5. /\ x \in Ref /\ x \in live /\ pt[x].retry_lower \in Nat
      /\ ~IsTerm(x) => pt[x].id \in NonTerm /\ pt[x].retry_lower = 0
  <2>1. /\ x \in Ref /\ x \in live /\ pt[x] \in Node
        /\ ~IsTerm(x) => pt[x].id \in NonTerm /\ pt[x].retry_lower = 0
    BY <1>0, <1>1, <1>4, FrontRetry
  <2>2. QED BY <2>1 DEF Node
<1>6. MoreActs => IsTerm(x)
  <2> SUFFICES ASSUME ~IsTerm(x) PROVE ~MoreActs
    BY DEF MoreActs
  <2>1. pt[Lel].id \in NonTerm /\ pt[Lel].retry_lower = 0
    BY <1>5
  <2> HIDE DEF x, q
  <2>2. QED BY <1>0, <1>1, <2>1, NonTermOnce
<1> HIDE DEF q
<1>7. One(Untried(q[x])) - One(Untried(pt[x])) = One(MoreActs) - One(Taking)
  <2> DEFINE n == q[x]
  <2>1. n.retry_upper = pt[Lel].retry_upper
    BY <1>3
  <2>2. CASE MoreActs
    <3>0. n.retry_lower = pt[x].retry_lower + 1 /\ pt[x].retry_lower \in Nat
      BY <1>3, <1>5, <2>2
    <3> HIDE DEF n
    <3>1. n.retry_lower # 0 /\ IsTerm(Lel)
      BY <1>6, <2>2, <3>0
    <3>2. One(Untried(n)) - One(Untried(pt[Lel])) = 1 - One(Taking)
      BY <1>1, <2>1, <3>1, ActedFront
    <3>3. QED BY <2>2, <3>2 DEF One, n
  <2>3. CASE ~MoreActs
    <3>1. n.retry_lower = 0
      BY <1>3, <2>3
    <3> HIDE DEF n
    <3>2. One(Untried(n)) - One(Untried(pt[Lel])) = - One(Taking)
      BY <1>1, <2>1, <3>1, ActedFront
    <3>3. One(MoreActs) = 0 /\ One(Taking) \in Int
      BY <2>3 DEF One
    <3>4. QED BY <3>2, <3>3 DEF n
  <2>4. QED BY <2>2, <2>3
<1>8. ChoiceCount(q, live) = ChoiceCount(pt, live) - One(Untried(pt[x])) + One(Untried(q[x]))
  <2>1. \A r \in live : r # x => SameRetry(pt[r], q[r])
    BY <1>0, <1>3, CoreRetry
  <2>2. IsFiniteSet(live) /\ x \in live /\ q[x].retry_region = pt[x].retry_region
    BY <1>0, <1>3, <1>5
  <2> HIDE DEF x
  <2>3. QED BY <2>1, <2>2, ChoicesChange
<1>9. ChoiceCount(pt', live') = ChoiceCount(pt, live) + One(MoreActs) - One(Taking)
  <2>1. /\ ChoiceCount(pt, live) \in Int /\ One(MoreActs) \in Int /\ One(Taking) \in Int
        /\ One(Untried(pt[x])) \in Int /\ One(Untried(q[x])) \in Int
    BY <1>0, ChoicesNat DEF One
  <2>2. pt' = q /\ live' = live
    BY <1>1, <1>2 DEF q
  <2> HIDE DEF x
  <2>3. QED BY <1>7, <1>8, <2>1, <2>2
<1>10. parse_input' # <<>> => pt'[Lel'].retry_lower = 0
  <2> SUFFICES ASSUME parse_input' # <<>> PROVE pt'[Lel'].retry_lower = 0
    OBVIOUS
  <2>1. Lel' \in Ref /\ Lel' # Lel /\ pt[Lel'].retry_lower = 0
    BY <1>0, <1>1, WaitingDone
  <2>2. SameCore(pt[Lel'], pt'[Lel'])
    BY <1>2, <1>3, <2>1 DEF q
  <2>3. QED BY <2>1, <2>2 DEF SameCore
<1>11. IsFiniteSet(live') /\ num_retry' = num_retry + One(MoreActs)
  BY <1>0, <1>1 DEF One
<1>12. QED BY <1>1, <1>9, <1>10, <1>11, ActedCount

\* The retries that the nodes hold when the reduction begins, and when it is counted.
LEMMA ReadyRetry ==
  ASSUME TInv, pc = "again", parse_input # <<>>, HasTrans(pda_cs, pt[Lel].id), Act.prod # 0,
         NEW cut \in RightCuts(pt, accum_ignore), NEW q, q = ReducePt(cut)
  PROVE  /\ \A y \in Ref : y # Lel => SameCore(pt[y], q[y])
         /\ q[Lel].retry_upper = pt[Lel].retry_upper
         /\ q[Lel].retry_region = pt[Lel].retry_region
<1>0. LInv /\ IInv /\ pt \in [Ref -> Node] /\ stack \in Seq(Ref) /\ Lel \in Ref
  BY ListTypes, LelType DEF TInv, LInv
<1>1. \A y \in Ref : y # Lel => SameCore(pt[y], q[y])
  BY <1>0, ReadyPath
<1>2. CASE Act.shift
  <2>1. q = ShiftPt(cut)
    BY <1>2 DEF ReducePt
  <2>2. QED BY <1>0, <1>1, <2>1, ShiftPtCore
<1>3. CASE ~Act.shift /\ pt[Lel].id \in Term
  <2>1. q = attach_right_ignore(pt, stack, accum_ignore, cut)
    BY <1>3 DEF ReducePt
  <2>2. SameCore(pt[Lel], q[Lel])
    BY <1>0, <2>1, AttachCore
  <2>3. QED BY <1>1, <2>2 DEF SameCore
<1>4. CASE ~Act.shift /\ pt[Lel].id \notin Term
  BY <1>1, <1>4 DEF ReducePt
<1>5. QED BY <1>2, <1>3, <1>4

\* The count of reductions is no retry.
LEMMA CausedRetry ==
  ASSUME NEW q \in [Ref -> Node], ReduceInput \in Seq(Ref), NEW p, p = Caused(q)
  PROVE  \A y \in Ref : /\ p[y].retry_lower = q[y].retry_lower
                        /\ p[y].retry_upper = q[y].retry_upper
                        /\ p[y].retry_region = q[y].retry_region
<1>1. CASE ReduceInput = <<>>
  BY <1>1 DEF Caused
<1>2. CASE ReduceInput # <<>>
  <2> DEFINE x == Head(ReduceInput)
             n == [q[x] EXCEPT !.cause_reduce = @ + 1]
  <2>1. x \in Ref /\ q[x] \in Node
    BY <1>2, HeadTailType
  <2>2. p = [q EXCEPT ![x] = n]
    BY <1>2 DEF Caused
  <2> HIDE DEF x
  <2>3. /\ n.retry_lower = q[x].retry_lower /\ n.retry_upper = q[x].retry_upper
        /\ n.retry_region = q[x].retry_region
    BY <2>1 DEF Node
  <2> HIDE DEF n
  <2>4. p[x] = n /\ \A y \in Ref : y # x => p[y] = q[y]
    BY <2>1, <2>2
  <2>5. QED BY <2>3, <2>4
<1>3. QED BY <1>1, <1>2

\* A reduction: when it is one of several actions, the node made holds the others.
LEMMA ReduceCount ==
  ASSUME RInv, TInv', Reduce
  PROVE  CountInv'
<1>0. TInv /\ LInv /\ IInv /\ ListsInv /\ IsFiniteSet(live) /\ live \subseteq Ref
  BY DEF RInv, CountInv, TInv, LInv, IInv, TypeOK, NodesOK
<1>1. /\ pc = "again" /\ parse_input # <<>> /\ HasTrans(pda_cs, pt[Lel].id) /\ Act.prod # 0
      /\ num_retry' = num_retry + (IF MoreActs THEN 1 ELSE 0)
      /\ UNCHANGED <<trigger_undo, check_next>>
  BY DEF Reduce
<1>2. PICK cut \in RightCuts(pt, accum_ignore), r \in Ref :
       LET p == Caused(ReducePt(cut))
       IN /\ Fresh(r) /\ live' = live \cup {r}
          /\ pt' = [[p EXCEPT ![Lel].retry_lower = 0] EXCEPT ![r] = Reduction(p[Lel])]
          /\ IF Prod[Act.prod].frame = 0
             THEN /\ parse_input' = <<r>> \o ReduceInput
                  /\ UNCHANGED <<red_lel, pc>>
             ELSE /\ parse_input' = ReduceInput
                  /\ red_lel' = <<r, Prod[Act.prod].frame>> /\ pc' = "reduction"
  BY DEF Reduce
<1> DEFINE q == ReducePt(cut)
           p == Caused(q)
           x == Lel
           n == [p[x] EXCEPT !.retry_lower = 0]
           p2 == [p EXCEPT ![x] = n]
           m == Reduction(p[x])
<1>3. q \in [Ref -> Node] /\ ReduceInput \in Seq(Ref)
  BY <1>0, <1>1, ReducePtType
<1>4. ~parse_error /\ red_lel = <<>>
  BY <1>0, <1>1 DEF LInv, FlowInv, ListsInv
<1>5. x \in Ref /\ x \in live
  BY <1>0, <1>1, <1>4, FrontRetry
<1>6. /\ \A y \in Ref : y # x => SameCore(pt[y], q[y])
      /\ q[x].retry_upper = pt[x].retry_upper /\ q[x].retry_region = pt[x].retry_region
  BY <1>0, <1>1, ReadyRetry
<1>7. p \in [Ref -> Node]
  BY <1>3, CausedFields
<1>8. \A y \in Ref : /\ p[y].retry_lower = q[y].retry_lower
                     /\ p[y].retry_upper = q[y].retry_upper
                     /\ p[y].retry_region = q[y].retry_region
  BY <1>3, CausedRetry
<1>9. pt' = [p2 EXCEPT ![r] = m] /\ r \notin live /\ live' = live \cup {r} /\ r # x
  BY <1>2, <1>5 DEF Fresh
<1>10. m.retry_lower = 0 /\ m.retry_region = 0 /\ (Untried(m) <=> MoreActs)
  <2>1. p[x].retry_lower \in Nat
    <3>1. p[x] \in Node
      BY <1>5, <1>7
    <3>2. QED BY <3>1 DEF Node
  <2>2. m.retry_lower = 0 /\ m.retry_region = 0
        /\ m.retry_upper = IF MoreActs THEN p[x].retry_lower + 1 ELSE 0
    BY DEF Reduction, Blank
  <2> HIDE DEF m, p, x
  <2>3. QED BY <2>1, <2>2 DEF Untried
<1>11. n.retry_lower = 0 /\ n.retry_upper = p[x].retry_upper /\ n.retry_region = p[x].retry_region
  <2>1. p[x] \in Node
    BY <1>5, <1>7
  <2> HIDE DEF p, x
  <2>2. QED BY <2>1 DEF Node
<1> HIDE DEF p, q, n, m
<1>12. p2[x] = n /\ \A y \in Ref : y # x => p2[y] = p[y]
  <2> HIDE DEF x
  <2>1. QED BY <1>5, <1>7
<1>13. p2[x].retry_lower = 0 /\ p2[x].retry_upper = pt[x].retry_upper
       /\ p2[x].retry_region = pt[x].retry_region
  BY <1>5, <1>6, <1>8, <1>11, <1>12
<1>14. \A y \in live : y # x => SameRetry(pt[y], p2[y])
  <2>1. ASSUME NEW y \in live, y # x PROVE SameRetry(pt[y], p2[y])
    <3>1. y \in Ref /\ SameCore(pt[y], q[y]) /\ p2[y] = p[y]
      BY <1>0, <1>6, <1>12, <2>1
    <3>2. QED BY <1>8, <3>1 DEF SameCore, SameRetry, Untried
  <2>2. QED BY <2>1
<1>15. pt'[r] = m /\ \A y \in live : pt'[y] = p2[y]
  <2>1. DOMAIN p2 = Ref
    BY <1>7
  <2> HIDE DEF p2
  <2>2. QED BY <1>0, <1>9, <2>1
<1>16. One(Untried(p2[x])) - One(Untried(pt[x])) = - One(Taking)
  <2> DEFINE z == p2[x]
  <2>1. z.retry_lower = 0 /\ z.retry_upper = pt[Lel].retry_upper
    BY <1>13
  <2> HIDE DEF z
  <2>2. One(Untried(z)) - One(Untried(pt[Lel])) = - One(Taking)
    BY <1>1, <2>1, ActedFront
  <2>3. QED BY <2>2 DEF z
<1> HIDE DEF p2, x
<1>17. ChoiceCount(p2, live) = ChoiceCount(pt, live) - One(Untried(pt[x])) + One(Untried(p2[x]))
  BY <1>0, <1>5, <1>13, <1>14, ChoicesChange
<1>18. /\ IsFiniteSet(live')
       /\ ChoiceCount(pt', live') = ChoiceCount(p2, live) + One(MoreActs)
  <2> DEFINE w == pt'
  <2>1. w[r] = m /\ \A y \in live : SameRetry(p2[y], w[y])
    BY <1>15 DEF SameRetry
  <2> HIDE DEF w
  <2>2. /\ IsFiniteSet(live \cup {r})
        /\ ChoiceCount(w, live \cup {r})
             = ChoiceCount(p2, live) + One(Untried(w[r])) + RegionRetries(w[r].retry_region)
    BY <1>0, <1>9, <2>1, ChoicesAdd
  <2>3. One(Untried(w[r])) = One(MoreActs) /\ RegionRetries(w[r].retry_region) = 0
    BY <1>10, <2>1 DEF One, RegionRetries
  <2>4. ChoiceCount(p2, live) \in Int /\ One(MoreActs) \in Int
    BY <1>0, ChoicesNat DEF One
  <2>5. ChoiceCount(w, live \cup {r}) = ChoiceCount(p2, live) + One(MoreActs)
    BY <2>2, <2>3, <2>4
  <2>6. QED BY <1>9, <2>2, <2>5 DEF w
<1>19. ChoiceCount(pt', live') = ChoiceCount(pt, live) + One(MoreActs) - One(Taking)
  <2>1. /\ ChoiceCount(pt, live) \in Int /\ One(MoreActs) \in Int /\ One(Taking) \in Int
        /\ One(Untried(pt[x])) \in Int /\ One(Untried(p2[x])) \in Int
    BY <1>0, ChoicesNat DEF One
  <2>2. QED BY <1>16, <1>17, <1>18, <2>1
<1>20. parse_input' # <<>> => pc' = "reduction" \/ pt'[Lel'].retry_lower = 0
  <2>1. CASE pc' = "reduction"
    BY <2>1
  <2>2. CASE pc' # "reduction"
    <3>1. parse_input' = <<r>> \o ReduceInput
      BY <1>2, <2>2
    <3>2. Head(<<r>> \o ReduceInput) = r
      BY <1>3, ConsParts
    <3>3. Lel' = r
      BY <3>1, <3>2 DEF Lel
    <3>4. QED BY <1>10, <1>15, <3>3
  <2>3. QED BY <2>1, <2>2
<1>21. parse_input' # <<>> /\ pc' = "reduction" => pt'[Lel'].retry_lower = 0
  BY <1>0, WaitingDone
<1>22. num_retry' = num_retry + One(MoreActs)
  BY <1>1 DEF One
<1>23. QED BY <1>1, <1>18, <1>19, <1>20, <1>21, <1>22, ActedCount

\* What a reduction that is taken back hands to the token that caused it.
LEMMA HandBackRetry ==
  ASSUME NEW u \in Node, NEW token \in Node, NEW s \in State
  PROVE  LET t == HandBack(u, token, s)
         IN /\ t.id = token.id
            /\ t.retry_upper = token.retry_upper /\ t.retry_region = token.retry_region
            /\ t.retry_lower = IF u.retry_upper = 0 THEN token.retry_lower ELSE u.retry_upper
            /\ u.retry_upper # 0 => t.state = s
<1> DEFINE t == [token EXCEPT !.cause_reduce = @ - 1]
<1>1. t \in Node
  BY CauseType
<1>2. /\ t.id = token.id /\ t.retry_upper = token.retry_upper
      /\ t.retry_region = token.retry_region /\ t.retry_lower = token.retry_lower
  BY DEF Node
<1>3. HandBack(u, token, s) = IF u.retry_upper = 0 THEN t
        ELSE [t EXCEPT !.retry_lower = u.retry_upper, !.state = s]
  BY DEF HandBack
<1> HIDE DEF t
<1>4. CASE u.retry_upper = 0
  BY <1>2, <1>3, <1>4
<1>5. CASE u.retry_upper # 0
  <2> DEFINE v == [t EXCEPT !.retry_lower = u.retry_upper, !.state = s]
  <2>1. /\ v.id = t.id /\ v.retry_upper = t.retry_upper /\ v.retry_region = t.retry_region
        /\ v.retry_lower = u.retry_upper /\ v.state = s
    BY <1>1 DEF Node
  <2>2. HandBack(u, token, s) = v
    BY <1>3, <1>5
  <2> HIDE DEF v
  <2>3. QED BY <1>2, <1>5, <2>1, <2>2
<1>6. QED BY <1>4, <1>5

\* A reduction is undone: the token that caused it gets the actions left.
LEMMA BtUnreduceCount ==
  ASSUME RInv, BtUnreduce
  PROVE  CountInv'
<1> DEFINE a == parse_input
           x == Lel
           u == pt[x]
           inp == Tail(a)
           stk == Reverse(u.child) \o stack
           p1 == [pt EXCEPT ![x] = Blank]
           y == Head(inp)
           s == stack_top_target(p1, stk)
           n == HandBack(u, p1[y], s)
           p2 == IF inp = <<>> THEN p1 ELSE [p1 EXCEPT ![y] = n]
           lw == live \ {x}
<1>0. /\ TInv /\ CountInv /\ LInv /\ IInv /\ ListsInv /\ pt \in [Ref -> Node] /\ a \in Seq(Ref)
      /\ stack \in Seq(Ref) /\ IsFiniteSet(live) /\ live \subseteq Ref
      /\ num_retry \in Int
  BY ListTypes DEF RInv, CountInv, TInv, LInv, IInv, TypeOK, NodesOK, CountsOK
<1>1. /\ parse_input' = inp /\ pt' = detach_right_ignore(p2, stk) /\ live' = lw
      /\ pc = "backtrack" /\ pc' = "backtrack" /\ a # <<>> /\ ~IsTerm(x)
      /\ UNCHANGED <<num_retry, trigger_undo, check_next, next>>
  BY DEF BtUnreduce
<1>2. ~parse_error /\ red_lel = <<>>
  BY <1>0, <1>1 DEF LInv, FlowInv, ListsInv
<1>3. /\ x \in Ref /\ u \in Node /\ x \in live /\ u.retry_lower = 0 /\ u.retry_region = 0
      /\ u.retry_upper # 0 =>
           Len(a) = 2 /\ HasTrans(stack_top_target(pt, Unfold(pt, x, stack)), pt[a[2]].id)
  BY <1>0, <1>1, <1>2, FrontRetry
<1>4. /\ inp \in Seq(Ref) /\ Len(inp) = Len(a) - 1
      /\ \A i \in DOMAIN inp : /\ inp[i] \in Ref /\ inp[i] # x /\ inp[i] = a[i + 1]
                               /\ Waiting(inp[i])
  BY <1>0, <1>1, TailWaits
<1>5. stk = Unfold(pt, x, stack)
  BY DEF Unfold
<1>6. p1 \in [Ref -> Node] /\ p1[x] = Blank /\ \A z \in Ref : z # x => p1[z] = pt[z]
  BY <1>0, <1>3, BlankType
<1>7. stk \in Seq(Ref) /\ x \notin ToSet(stk)
  <2>1. u.child \in Seq(Ref)
    BY <1>3, NodeSeqs
  <2>2. Reverse(u.child) \in Seq(Ref) /\ ToSet(Reverse(u.child)) = ToSet(u.child)
    BY <2>1, ReverseSet
  <2>3. stk \in Seq(Ref) /\ ToSet(stk) = ToSet(u.child) \cup ToSet(stack)
    BY <1>0, <2>2, ConcatSet
  <2>4. x \in ToSet(a)
    BY <1>0, <1>1, LelInput
  <2>5. x \notin ToSet(stack) /\ x \notin ToSet(u.child)
    BY <1>0, <1>3, <2>4, OffStack
  <2>6. QED BY <2>3, <2>5
<1>8. s = stack_top_target(pt, stk) /\ s \in State
  <2> HIDE DEF p1, stk, x
  <2>0. s \in State
    BY <1>6, <1>7, TopTargetType
  <2>1. CASE stk = <<>>
    BY <2>0, <2>1 DEF stack_top_target
  <2>2. CASE stk # <<>>
    <3>1. Head(stk) \in Ref /\ Head(stk) \in ToSet(stk)
      <4>1. stk \in Seq(Ref)
        BY <1>7
      <4>2. Head(stk) \in Ref
        BY <2>2, <4>1, HeadTailType
      <4>3. ToSet(stk) = {Head(stk)} \cup ToSet(Tail(stk))
        BY <2>2, <4>1, HeadSet, Zenon
      <4>4. QED BY <4>2, <4>3
    <3>2. p1[Head(stk)] = pt[Head(stk)]
      BY <1>6, <1>7, <3>1
    <3>3. Target(p1, Head(stk)) = Target(pt, Head(stk))
      BY <3>2 DEF Target, Found
    <3>4. QED BY <2>0, <2>2, <3>3 DEF stack_top_target
  <2>3. QED BY <2>1, <2>2
<1> HIDE DEF p1, stk, s
<1>9. ASSUME inp # <<>>
      PROVE  /\ y \in Ref /\ y # x /\ y \in lw /\ y = a[2] /\ p1[y] = pt[y] /\ pt[y] \in Node
             /\ pt[y].id \in Term /\ pt[y].retry_lower = 0 /\ pt[y].retry_upper = 0
  <2>1. 1 \in DOMAIN inp /\ y = inp[1] /\ 1 + 1 = 2 /\ Len(inp) > 0
    BY <1>4, <1>9
  <2>2. y \in Ref /\ y # x /\ y = a[2] /\ Waiting(y)
    <3> HIDE DEF inp
    <3>1. QED BY <1>4, <2>1
  <2>3. p1[y] = pt[y] /\ pt[y] \in Node
    <3> HIDE DEF y
    <3>1. QED BY <1>0, <1>6, <2>2
  <2>4. pt[y].id \in Term /\ pt[y].retry_lower = 0
    BY <2>2 DEF Waiting
  <2>5. y \in live
    <3>1. y \in ToSet(inp)
      BY <2>1, Zenon DEF ToSet
    <3>2. ToSet(a) = {x} \cup ToSet(inp)
      BY <1>0, <1>1, LelInput
    <3>3. y \in ToSet(a)
      BY <3>1, <3>2
    <3>4. QED BY <1>0, <3>3 DEF ListsInv, OneOwner, Apart, SetsApart
  <2>6. pt[y].retry_upper = 0
    <3>1. Ahead = a
      BY <1>0, <1>2, AheadSet
    <3>2. Trail(pt, stack, a, live)
      BY <1>0, <1>2, <3>1 DEF TInv, TrailInv
    <3>3. x = Head(a)
      BY DEF Lel
    <3>4. pt[Head(a)].cause_reduce \in Int /\ pt[y].cause_reduce \in Int
      <4>1. u.cause_reduce \in Int
        BY <1>3 DEF Node
      <4> HIDE DEF y
      <4>2. pt[y].cause_reduce \in Int
        BY <2>3 DEF Node
      <4>3. QED BY <3>3, <4>1, <4>2
    <3>5. Len(a) > 1
      <4>1. Len(a) \in Nat /\ Len(inp) \in Nat
        BY <1>0, <1>4
      <4>2. QED BY <1>4, <2>1, <4>1
    <3>6. Tok(pt, y)
      BY <2>4 DEF Tok
    <3> HIDE DEF a, y
    <3>7. a # <<>>
      BY <1>1
    <3>8. QED BY <1>0, <2>2, <3>2, <3>4, <3>5, <3>6, <3>7, TrailFront
  <2>7. y \in lw
    BY <2>2, <2>5
  <2>8. QED BY <2>2, <2>3, <2>4, <2>6, <2>7
<1>10. Untried(u) <=> u.retry_upper # 0
  BY <1>3 DEF Untried
<1>11. ASSUME inp # <<>>
       PROVE  /\ n.id = pt[y].id /\ n.retry_region = pt[y].retry_region
              /\ Untried(n) <=> Untried(u)
              /\ ~Untried(p1[y])
              /\ n.retry_lower # 0 => u.retry_upper # 0 /\ n.state = s
  <2>1. p1[y] = pt[y] /\ pt[y] \in Node /\ pt[y].retry_lower = 0 /\ pt[y].retry_upper = 0
    BY <1>9, <1>11
  <2>2. /\ n.id = pt[y].id /\ n.retry_upper = 0 /\ n.retry_region = pt[y].retry_region
        /\ n.retry_lower = IF u.retry_upper = 0 THEN 0 ELSE u.retry_upper
        /\ u.retry_upper # 0 => n.state = s
    <3> HIDE DEF u, y
    <3>1. QED BY <1>3, <1>8, <2>1, HandBackRetry
  <2> HIDE DEF n, u, y
  <2>3. QED BY <1>10, <2>1, <2>2 DEF Untried
<1> HIDE DEF n
<1>12. inp = <<>> => ~Untried(u)
  <2>1. inp = <<>> => Len(a) # 2
    <3>1. Len(<<>>) = 0 /\ Len(a) \in Nat /\ Len(inp) = Len(a) - 1
      BY <1>0, <1>4
    <3> HIDE DEF inp, a
    <3>2. QED BY <3>1
  <2>2. QED BY <1>3, <1>10, <2>1
<1>13. /\ IsFiniteSet(lw) /\ lw \subseteq Ref
       /\ ChoiceCount(p1, lw) = ChoiceCount(pt, live) - One(Untried(u))
  <2>1. \A z \in live : z # x => SameRetry(pt[z], p1[z])
    BY <1>0, <1>6 DEF SameRetry
  <2>2. /\ IsFiniteSet(lw)
        /\ ChoiceCount(p1, lw) = ChoiceCount(pt, live) - One(Untried(u)) - RegionRetries(u.retry_region)
    <3> HIDE DEF x
    <3>1. QED BY <1>0, <1>3, <2>1, ChoicesFree
  <2>3. RegionRetries(u.retry_region) = 0
    BY <1>3 DEF RegionRetries
  <2>4. ChoiceCount(pt, live) \in Int /\ One(Untried(u)) \in Int
    BY <1>0, ChoicesNat DEF One
  <2>5. QED BY <1>0, <2>2, <2>3, <2>4
<1>14. /\ p2 \in [Ref -> Node] /\ ChoiceCount(p2, lw) = ChoiceCount(p1, lw) + One(Untried(u))
       /\ inp # <<>> => p2[y] = n
  <2>1. ChoiceCount(p1, lw) \in Int /\ One(Untried(u)) \in Int
    BY <1>13, ChoicesNat DEF One
  <2>2. CASE inp = <<>>
    <3>1. p2 = p1 /\ One(Untried(u)) = 0
      BY <1>12, <2>2 DEF One
    <3>2. QED BY <1>6, <2>1, <2>2, <3>1
  <2>3. CASE inp # <<>>
    <3>1. /\ y \in Ref /\ y \in lw /\ p1[y] = pt[y] /\ pt[y] \in Node
          /\ n.retry_region = pt[y].retry_region /\ (Untried(n) <=> Untried(u)) /\ ~Untried(p1[y])
      BY <1>9, <1>11, <2>3
    <3>2. n \in Node
      <4>1. u \in Node /\ s \in State /\ p1[y] \in Node
        BY <1>3, <1>8, <3>1
      <4>2. n = HandBack(u, p1[y], s)
        BY DEF n
      <4> HIDE DEF u, y
      <4>3. QED BY <4>1, <4>2, HandBackType
    <3>3. p2 = [p1 EXCEPT ![y] = n]
      BY <2>3
    <3> HIDE DEF p2, y, lw
    <3>4. p2 \in [Ref -> Node] /\ p2[y] = n /\ \A z \in Ref : z # y => p2[z] = p1[z]
      BY <1>6, <3>1, <3>2, <3>3
    <3>5. \A z \in lw : z # y => SameRetry(p1[z], p2[z])
      BY <1>13, <3>4 DEF SameRetry
    <3>6. p2[y].retry_region = p1[y].retry_region
      BY <3>1, <3>4
    <3>7. ChoiceCount(p2, lw) = ChoiceCount(p1, lw) - One(Untried(p1[y])) + One(Untried(p2[y]))
      BY <1>13, <3>1, <3>5, <3>6, ChoicesChange
    <3>8. One(Untried(p1[y])) = 0 /\ One(Untried(p2[y])) = One(Untried(u))
      BY <3>1, <3>4 DEF One
    <3>9. QED BY <2>1, <3>4, <3>7, <3>8
  <2>4. QED BY <2>2, <2>3
<1> HIDE DEF p2
<1>15. \A z \in Ref : SameCore(p2[z], pt'[z])
  BY <1>1, <1>7, <1>14, DetachCore
<1>16. ChoiceCount(pt', lw) = ChoiceCount(pt, live) + 0
  <2> DEFINE q == pt'
  <2>1. \A z \in lw : SameRetry(p2[z], q[z])
    BY <1>13, <1>15, CoreRetry
  <2> HIDE DEF q, lw
  <2>2. ChoiceCount(q, lw) = ChoiceCount(p2, lw)
    BY <2>1, ChoicesSame
  <2>3. ChoiceCount(pt, live) \in Int /\ One(Untried(u)) \in Int
    BY <1>0, ChoicesNat DEF One
  <2>4. QED BY <1>13, <1>14, <2>2, <2>3 DEF q
<1>17. FrontInv'
  <2> SUFFICES ASSUME inp # <<>>, pt'[y].retry_lower # 0 PROVE Found(pt', y)
    BY <1>1 DEF FrontInv, Lel, Found
  <2>1. y \in Ref /\ y = a[2] /\ p2[y] = n /\ n.id = pt[y].id
    BY <1>9, <1>11, <1>14
  <2>2. SameCore(n, pt'[y])
    BY <1>15, <2>1
  <2>3. u.retry_upper # 0 /\ n.state = s
    BY <1>11, <2>2 DEF SameCore
  <2>4. HasTrans(s, pt[y].id)
    BY <1>3, <1>5, <1>8, <2>1, <2>3
  <2>5. pt'[y].state = s /\ pt'[y].id = pt[y].id
    BY <2>1, <2>2, <2>3 DEF SameCore
  <2>6. QED BY <2>4, <2>5 DEF Found
<1>18. num_retry' = num_retry + 0 + (One(trigger_undo') - One(trigger_undo))
                       + (One(AboutToRescan') - One(AboutToRescan)) - (One(Taking') - One(Taking))
  <2>1. One(Taking) = 0 /\ One(Taking') = 0 /\ One(AboutToRescan') = One(AboutToRescan)
        /\ One(trigger_undo') = One(trigger_undo)
    BY <1>1 DEF Taking, AboutToRescan, One
  <2>2. One(trigger_undo) \in Int /\ One(AboutToRescan) \in Int
    BY DEF One
  <2>3. QED BY <1>0, <1>1, <2>1, <2>2
<1>19. IsFiniteSet(live') /\ 0 \in Int /\ ChoiceCount(pt', live') = ChoiceCount(pt, live) + 0
  BY <1>1, <1>13, <1>16
<1>20. QED BY <1>0, <1>17, <1>18, <1>19, CountStep

-----------------------------------------------------------------------------
(* Where the list of regions begins. *)

\* Where the top of the stack leads to is a state with regions.
LEMMA RegionsOfTop ==
  ASSUME TInv, TopFound(pt, stack)
  PROVE  RegionInd(stack_top_target(pt, stack)) > 0
<1>1. stack_top_target(pt, stack) \in PdaState
  <2>1. CASE stack = <<>>
    BY <2>1, IdAssumption DEF stack_top_target
  <2>2. CASE stack # <<>>
    BY <2>2, TransType DEF stack_top_target, TopFound, Found, Target
  <2>3. QED BY <2>1, <2>2
<1>2. QED BY <1>1, RegionAssumption DEF RegionInd

\* The parser asks for the regions of a state only where it knows that state.
LEMMA NextRegions ==
  ASSUME TInv, RegionInv, [Next]_vars
  PROVE  RegionInv'
<1>0. /\ LInv /\ next_region_ind \in Nat /\ StackIsPath /\ stack \in Seq(Ref)
      /\ next_region_ind > 0
  BY PathAnswers, ListTypes DEF TInv, LInv, IInv, TypeOK, StatesOK, RegionInv
<1>1. CASE ScanNextRegion
  <2>1. next_region_ind' = next_region_ind + 1
    BY <1>1 DEF ScanNextRegion
  <2>2. QED BY <1>0, <2>1 DEF RegionInv
<1>2. CASE AgainOut
  <2>1. pc = "again" /\ next_region_ind' = RegionInd(pda_cs)
    BY <1>2 DEF AgainOut
  <2>2. ~parse_error
    BY <1>0, <2>1 DEF LInv, FlowInv
  <2>3. pda_cs = stack_top_target(pt, stack) /\ \A i \in DOMAIN stack : Found(pt, stack[i])
    BY <1>0, <2>1, <2>2 DEF StackIsPath
  <2>4. TopFound(pt, stack)
    <3>1. stack # <<>> => 1 \in DOMAIN stack /\ Head(stack) = stack[1]
      BY <1>0
    <3>2. QED BY <2>3, <3>1 DEF TopFound
  <2>5. QED BY <2>1, <2>3, <2>4, RegionsOfTop DEF RegionInv
<1>3. CASE BtNext
  <2>1. next_region_ind' = next_region_ind \/ (next > 0 /\ next_region_ind' = next)
    BY <1>3 DEF BtNext
  <2>2. QED BY <1>0, <2>1 DEF RegionInv
<1>4. CASE BtStop
  <2>1. \/ next_region_ind' = next_region_ind
        \/ NoDeck /\ check_stop /\ stop /\ next_region_ind' = RegionInd(stack_top_target(pt, stack))
    BY <1>4 DEF BtStop, Resume
  <2>2. CASE next_region_ind' = next_region_ind
    BY <1>0, <2>2 DEF RegionInv
  <2>3. CASE NoDeck /\ check_stop /\ stop /\ next_region_ind' = RegionInd(stack_top_target(pt, stack))
    <3>1. TopFound(pt, stack)
      BY <1>0, <2>3 DEF StackIsPath
    <3>2. QED BY <2>3, <3>1, RegionsOfTop DEF RegionInv
  <2>4. QED BY <2>1, <2>2, <2>3
<1>5. CASE ~(ScanNextRegion \/ AgainOut \/ BtNext \/ BtStop)
  <2>1. next_region_ind' = next_region_ind
    <3>1. CASE \/ ScanPreRegion \/ ScanLater \/ ScanNull \/ ScanGenerate
               \/ NoTransition \/ Done \/ Drive \/ UNCHANGED vars
      <4>1. CASE ScanPreRegion \/ ScanLater \/ ScanNull \/ ScanGenerate
        BY <4>1 DEF ScanPreRegion, ScanLater, ScanNull, ScanGenerate
      <4>2. CASE NoTransition \/ Done \/ UNCHANGED vars
        BY <4>2 DEF NoTransition, Done, vars
      <4>3. CASE Drive
        BY <4>3 DEF Drive, Send, SendEof, ParseFrag
      <4>4. QED BY <3>1, <4>1, <4>2, <4>3
    <3>2. CASE \/ ScanCollectIgnore \/ ScanEof \/ ScanTree \/ ScanToken
               \/ ScanIgnoreTree \/ ScanIgnore
      <4>1. CASE ScanCollectIgnore \/ ScanEof
        BY <4>1 DEF ScanCollectIgnore, ScanEof
      <4>2. CASE ScanTree \/ ScanToken
        BY <4>2 DEF ScanTree, ScanToken
      <4>3. CASE ScanIgnoreTree \/ ScanIgnore
        BY <4>3 DEF ScanIgnoreTree, ScanIgnore, Ignore
      <4>4. QED BY <3>2, <4>1, <4>2, <4>3
    <3>3. CASE Shift \/ Reduce \/ ReductionReturn
      <4>1. CASE Shift
        BY <4>1 DEF Shift
      <4>2. CASE Reduce
        BY <4>2 DEF Reduce
      <4>3. CASE ReductionReturn
        BY <4>3 DEF ReductionReturn
      <4>4. QED BY <3>3, <4>1, <4>2, <4>3
    <3>4. CASE BtReverse \/ BtRetry \/ BtFail \/ BtUnshift
      BY <3>4 DEF BtReverse, BtRetry, BtFail, BtUnshift
    <3>5. CASE BtSendBack \/ BtIgnore \/ BtDeck \/ BtUnreduce
      BY <3>5 DEF BtSendBack, BtIgnore, BtDeck, BtUnreduce
    <3>6. QED BY <1>5, <3>1, <3>2, <3>3, <3>4, <3>5 DEF Next, ParseStep
  <2>2. QED BY <1>0, <2>1 DEF RegionInv
<1>6. QED BY <1>1, <1>2, <1>3, <1>4, <1>5

-----------------------------------------------------------------------------
(* The theorem. *)

\* The parser begins with the regions of the start state.
LEMMA InitRegions == Init => RegionInv
BY IdAssumption, RegionAssumption DEF Init, RegionInv, RegionInd

\* At first there is no node and no choice.
LEMMA InitCount == Init => CountInv
<1> SUFFICES ASSUME Init PROVE CountInv OBVIOUS
<1>1. /\ live = {} /\ num_retry = 0 /\ ~trigger_undo /\ ~check_next /\ parse_input = <<>>
      /\ pc = "idle"
  BY DEF Init
<1>2. IsFiniteSet(live) /\ Cardinality({}) = 0
  BY <1>1, FS_EmptySet
<1>3. Acts(pt, live) = {} /\ Regs(pt, live) = {}
  BY <1>1 DEF Acts, Regs
<1>4. ChoiceCount(pt, live) = 0
  BY <1>2, <1>3 DEF ChoiceCount
<1>5. One(trigger_undo) = 0 /\ One(AboutToRescan) = 0 /\ One(Taking) = 0
  BY <1>1 DEF One, AboutToRescan, Taking
<1>6. RetryAccounting
  BY <1>1, <1>4, <1>5, Accounts
<1>7. QED BY <1>1, <1>2, <1>6 DEF CountInv, FrontInv

\* Every step keeps the inductive invariant.
LEMMA NextCount == RInv /\ [Next]_vars => RInv'
<1> SUFFICES ASSUME RInv, [Next]_vars PROVE RInv' OBVIOUS
<1>1. TInv'
  BY NextTrail DEF RInv
<1>2. CountInv'
  <2>1. CASE ScanCollectIgnore \/ ScanEof \/ ScanTree \/ ScanToken
    BY <2>1, EnteredCount
  <2>2. CASE ScanIgnoreTree \/ ScanIgnore
    BY <2>2, IgnoredCount
  <2>3. CASE Shift \/ Reduce \/ ReductionReturn
    BY <1>1, <2>3, ShiftCount, ReduceCount, ReturnCount
  <2>4. CASE BtReverse \/ BtNext \/ BtStop \/ BtRetry \/ BtFail
    BY <2>4, BackCount
  <2>5. CASE BtUnshift \/ BtSendBack \/ BtIgnore \/ BtDeck \/ BtUnreduce
    BY <2>5, BtUnshiftCount, BtSendBackCount, BtIgnoreCount, BtDeckCount, BtUnreduceCount
  <2>6. CASE \/ ScanPreRegion \/ ScanLater \/ ScanNextRegion \/ ScanNull
             \/ ScanGenerate \/ NoTransition \/ AgainOut \/ Done
             \/ Drive \/ UNCHANGED vars
    BY <2>6, SteadyCount
  <2>7. QED BY <2>1, <2>2, <2>3, <2>4, <2>5, <2>6 DEF Next, ParseStep
<1>3. RegionInv'
  BY NextRegions DEF RInv
<1>4. QED BY <1>1, <1>2, <1>3 DEF RInv

\* num_retry is the number of the choices that the nodes hold, with the one that is to be
\* undone or scanned again and without the one that is being taken: the parse is given up
\* only when none is left, and gone back only when there is one (pda_run.c: parse_token).
THEOREM RetriesCounted == Spec => []RetryAccounting
<1>1. Init => RInv
  BY InitInv, InitLists, InitPath, InitTrail, InitCount, InitRegions DEF RInv, TInv, LInv
<1>2. RInv /\ [Next]_vars => RInv'
  BY NextCount
<1>3. RInv => RetryAccounting
  BY DEF RInv, CountInv
<1>4. QED BY <1>1, <1>2, <1>3, PTL DEF Spec
=============================================================================
