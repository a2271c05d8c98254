---------------------------- MODULE PdaRunProofs ----------------------------
(***************************************************************************)
(* Theorems about the parser of PdaRun, for every grammar and scanner that *)
(* the assumptions on the tables describe, any number of cells and inputs  *)
(* of any length.                                                          *)
(***************************************************************************)
EXTENDS PdaRun, SeqSets

-----------------------------------------------------------------------------
(* The inductive invariant: the types, what the scanner has read, and that a *)
(* reduction waits for its frame only while there is one.                    *)

ReadInBounds == pc \in {"idle", "scan"} => tokpref <= Len(input)
ReductionWaits == pc = "reduction" => red_lel # <<>>
IInv == TypeOK /\ ScannerFresh /\ ReadInBounds /\ ReductionWaits

-----------------------------------------------------------------------------
(* Sequences. *)

LEMMA HeadTailType ==
  ASSUME NEW S, NEW s \in Seq(S), s # <<>>
  PROVE  Head(s) \in S /\ Tail(s) \in Seq(S)
OBVIOUS

LEMMA ConsType ==
  ASSUME NEW S, NEW e \in S, NEW s \in Seq(S)
  PROVE  <<e>> \o s \in Seq(S) /\ <<e>> \in Seq(S)
OBVIOUS

LEMMA ConcatType ==
  ASSUME NEW S, NEW s \in Seq(S), NEW t \in Seq(S)
  PROVE  s \o t \in Seq(S)
OBVIOUS

LEMMA SuffixType ==
  ASSUME NEW S, NEW s \in Seq(S), NEW m \in Nat
  PROVE  SubSeq(s, m + 1, Len(s)) \in Seq(S)
OBVIOUS

LEMMA PrefixType ==
  ASSUME NEW S, NEW s \in Seq(S), NEW n \in 0..Len(s)
  PROVE  /\ SubSeq(s, 1, n) \in Seq(S)
         /\ Len(SubSeq(s, 1, n)) = n
OBVIOUS

LEMMA ReverseType ==
  ASSUME NEW S, NEW s \in Seq(S)
  PROVE  Reverse(s) \in Seq(S) /\ Len(Reverse(s)) = Len(s)
BY DEF Reverse

LEMMA SplitSeq ==
  ASSUME NEW S, NEW s \in Seq(S), NEW n \in 0..Len(s)
  PROVE  SubSeq(s, 1, n) \o SubSeq(s, n + 1, Len(s)) = s
<1>1. SubSeq(s, 1, n) \o SubSeq(s, n + 1, Len(s)) = SubSeq(s, 1, Len(s))
  <2> 1 \in 1..(Len(s) + 1) /\ n \in (1 - 1)..Len(s) /\ Len(s) \in n..Len(s)
    OBVIOUS
  <2> QED BY ConcatAdjacentSubSeq
<1>2. QED BY <1>1, SubSeqFull

-----------------------------------------------------------------------------
(* Tables. *)

LEMMA BlankType == Blank \in Node
BY IdAssumption DEF Blank, Node, State

LEMMA CauseType ==
  ASSUME NEW n \in Node
  PROVE  /\ [n EXCEPT !.cause_reduce = @ + 1] \in Node
         /\ [n EXCEPT !.cause_reduce = @ - 1] \in Node
<1>1. \A k \in Int : [n EXCEPT !.cause_reduce = k] \in Node
  BY DEF Node
<1>2. n.cause_reduce \in Int
  BY DEF Node
<1>3. n.cause_reduce + 1 \in Int /\ n.cause_reduce - 1 \in Int
  BY <1>2
<1>4. QED BY <1>1, <1>3

LEMMA RegionType ==
  \A i \in Nat : /\ RegionAt(i) \in Region
                 /\ PreRegionAt(i) \in Region \cup {-1}
BY RegionAssumption DEF RegionAt, PreRegionAt

LEMMA RegionIndType == \A s \in State : RegionInd(s) \in Nat
BY RegionAssumption DEF RegionInd, State

LEMMA TransType ==
  ASSUME NEW s, NEW x, HasTrans(s, x)
  PROVE  /\ Trans[<<s, x>>] \in [targ : PdaState, acts : Seq(Action), commit : BOOLEAN]
         /\ s \in PdaState /\ x \in Id
BY TableAssumption DEF HasTrans

LEMMA TopTargetType ==
  ASSUME NEW p \in [Ref -> Node], NEW stk \in Seq(Ref)
  PROVE  stack_top_target(p, stk) \in State
<1>1. CASE stk = <<>>
  BY <1>1, IdAssumption DEF stack_top_target, Target, Found, State
<1>2. CASE stk # <<>>
  BY <1>2, TransType, HeadTailType DEF stack_top_target, Target, Found, State
<1>3. QED BY <1>1, <1>2

LEMMA OutcomeType ==
  ASSUME env \in EnvVal, NEW f \in Frame \cup {0}
  PROVE  RunFrame(f) \in [env : EnvVal, reject : BOOLEAN, exit : BOOLEAN]
BY ProgramAssumption DEF RunFrame

-----------------------------------------------------------------------------
LEMMA InitInv == Init => IInv
<1> SUFFICES ASSUME Init PROVE IInv OBVIOUS
<1>1. NodesOK
  BY BlankType DEF Init, NodesOK
<1>2. StatesOK
  BY RegionIndType, IdAssumption DEF Init, StatesOK, State, PC
<1>3. ScannerOK
  <2>1. RegionInd(StartState) \in Nat
    BY RegionIndType, IdAssumption DEF State
  <2>2. QED BY <2>1, RegionType DEF Init, ScannerOK
<1>4. FlagsOK
  BY DEF Init, FlagsOK
<1>5. CountsOK
  BY DEF Init, CountsOK
<1>6. CodeOK
  BY ProgramAssumption DEF Init, CodeOK
<1>7. ScannerFresh /\ ReadInBounds /\ ReductionWaits
  BY DEF Init, ScannerFresh, Taken, ReadInBounds, ReductionWaits
<1>8. QED BY <1>1, <1>2, <1>3, <1>4, <1>5, <1>6, <1>7 DEF IInv, TypeOK

-----------------------------------------------------------------------------
(* The scanner. *)

\* Between two calls and when it is called, all the scanner can read is input.
LEMMA TextIsInput ==
  ASSUME IInv, pc \in {"idle", "scan"}
  PROVE  Text = input
<1>1. tokpref \in 0..Len(input) /\ fsm = SubSeq(input, 1, tokpref)
  BY DEF IInv, TypeOK, ScannerOK, ScannerFresh, Taken, ReadInBounds
<1>2. QED BY <1>1, SplitSeq DEF Text, Unread, IInv, TypeOK, ScannerOK

LEMMA MatchType ==
  ASSUME IInv, pc = "scan", NEW t \in Matches
  PROVE  /\ t.id \in Term
         /\ Taken(MatchLen(t)) \in Seq(Item) /\ Drop(MatchLen(t)) \in Seq(Item)
<1> USE DEF IInv, TypeOK
<1>1. t \in Token
  <2>1. ScanRegion \in Region
    BY RegionAssumption DEF ScannerOK, ScanRegion
  <2>2. QED BY <2>1, RegionAssumption DEF Matches, RegionTokens
<1>2. Len(t.text) \in Nat /\ Len(t.text) <= Len(input)
  BY <1>1, TextIsInput DEF Matches, IsPrefix, Token
<1>3. MatchLen(t) = Len(t.text)
  BY <1>2, SMTT(60) DEF MatchLen, ScannerFresh, ScannerOK
<1>4. MatchLen(t) \in 0..Len(input)
  BY <1>2, <1>3 DEF ScannerOK
<1>5. QED BY <1>1, <1>4, PrefixType, SuffixType DEF Token, Taken, Drop, ScannerOK

LEMMA RetryRegionType ==
  ASSUME StatesOK
  PROVE  RetryRegion \in Nat /\ SetRetries \in {0, 1}
BY DEF RetryRegion, SetRetries, StatesOK

\* new_token points the scanner at the input, in the region of the parser.
LEMMA NewTokenType ==
  ASSUME NEW ind \in Nat, new_token(ind)
  PROVE  /\ region' \in Region /\ pre_region' \in Region \cup {-1}
         /\ fsm' = <<>> /\ tokpref' = 0
BY RegionType DEF new_token

LEMMA EndRoundType ==
  ASSUME NEW b \in BOOLEAN, CountsOK, FlagsOK, EndRound(b)
  PROVE  /\ pc' \in {"idle", "scan"} /\ trigger_undo' \in BOOLEAN
         /\ target_steps' \in Int /\ num_retry' \in Int
<1>1. trigger_undo' = FALSE
  BY DEF EndRound
<1>2. pc' \in {"idle", "scan"}
  BY DEF EndRound
<1>3. target_steps' \in Int /\ num_retry' \in Int
  BY DEF EndRound, CountsOK
<1>4. QED BY <1>1, <1>2, <1>3

\* The new input of the parser.
LEMMA EnterParserType ==
  ASSUME NodesOK, StatesOK, NEW node \in Node, NEW n \in Int, EnterParser(node, n)
  PROVE  /\ pt' \in [Ref -> Node] /\ live' \in SUBSET Ref
         /\ parse_input' \in Seq(Ref) /\ rc_block_count' = 0
         /\ pc' \in {"done", "again"}
<1>1. PICK r \in Ref :
        /\ live' = live \cup {r}
        /\ pt' = [pt EXCEPT ![r] = [node EXCEPT !.state = pda_cs,
                                                !.has_rcode = Transfer(n)]]
        /\ parse_input' = <<r>>
  BY DEF EnterParser
<1>2. [node EXCEPT !.state = pda_cs, !.has_rcode = Transfer(n)] \in Node
  <2>1. Transfer(n) \in BOOLEAN
    BY DEF Transfer
  <2>2. QED BY <2>1 DEF Node, StatesOK
<1>3. QED BY <1>1, <1>2 DEF EnterParser, NodesOK

\* Tuples of variables that actions leave unchanged are expanded everywhere.
USE DEF nodeVars, stateVars, scanVars, btVars, stepVars, endVars, codeVars, driverVars

LEMMA ScanLaterInv == IInv /\ ScanLater => IInv'
<1> SUFFICES ASSUME IInv, ScanLater PROVE IInv' OBVIOUS
<1> USE DEF IInv, TypeOK, ScanLater
<1>1. fsm' = input
  BY TextIsInput
<1>2. NodesOK' /\ CountsOK' /\ FlagsOK' /\ CodeOK'
  BY DEF NodesOK, CountsOK, FlagsOK, CodeOK
<1>3. StatesOK' /\ ScannerOK'
  BY <1>1 DEF StatesOK, ScannerOK, PC
<1>4. ScannerFresh' /\ ReadInBounds' /\ ReductionWaits'
  BY <1>1, SubSeqFull DEF ScannerOK, ScannerFresh, Taken, ReadInBounds, ReductionWaits
<1>5. QED BY <1>2, <1>3, <1>4

LEMMA ScanPreRegionInv == IInv /\ ScanPreRegion => IInv'
<1> SUFFICES ASSUME IInv, ScanPreRegion PROVE IInv' OBVIOUS
<1> USE DEF IInv, TypeOK, ScanPreRegion
<1>1. NodesOK' /\ CountsOK' /\ FlagsOK' /\ CodeOK'
  BY DEF NodesOK, CountsOK, FlagsOK, CodeOK
<1>2. StatesOK' /\ ScannerOK'
  BY DEF StatesOK, ScannerOK, PC
<1>3. ScannerFresh' /\ ReadInBounds' /\ ReductionWaits'
  BY DEF ScannerOK, ScannerFresh, Taken, ReadInBounds, ReductionWaits
<1>4. QED BY <1>1, <1>2, <1>3

LEMMA ScanCollectIgnoreInv == IInv /\ ScanCollectIgnore => IInv'
<1> SUFFICES ASSUME IInv, ScanCollectIgnore PROVE IInv' OBVIOUS
<1> USE DEF IInv, TypeOK, ScanCollectIgnore
<1> DEFINE node == [Blank EXCEPT !.id = CiLel[region], !.retry_region = RetryRegion]
<1>1. node \in Node
  BY BlankType, RetryRegionType, RegionAssumption DEF Node, ScannerOK, Id
<1>2. /\ pt' \in [Ref -> Node] /\ live' \in SUBSET Ref
      /\ parse_input' \in Seq(Ref) /\ rc_block_count' = 0
      /\ pc' \in {"done", "again"}
  BY <1>1, EnterParserType DEF CodeOK
<1>3. NodesOK' /\ StatesOK' /\ ScannerOK'
  BY <1>2 DEF NodesOK, StatesOK, ScannerOK, PC
<1>4. FlagsOK' /\ CodeOK'
  BY <1>2 DEF FlagsOK, CodeOK
<1>5. CountsOK'
  BY RetryRegionType DEF CountsOK
<1>6. ScannerFresh' /\ ReadInBounds' /\ ReductionWaits'
  BY <1>2 DEF ScannerFresh, ReadInBounds, ReductionWaits
<1>7. QED BY <1>3, <1>4, <1>5, <1>6

LEMMA ScanNextRegionInv == IInv /\ ScanNextRegion => IInv'
<1> SUFFICES ASSUME IInv, ScanNextRegion PROVE IInv' OBVIOUS
<1> USE DEF IInv, TypeOK, ScanNextRegion
<1>1. /\ region' \in Region /\ pre_region' \in Region \cup {-1}
      /\ fsm' = <<>> /\ tokpref' = 0
  BY NewTokenType DEF SkipSend, StatesOK
<1>2. /\ pc' \in {"idle", "scan"} /\ trigger_undo' \in BOOLEAN
      /\ target_steps' \in Int /\ num_retry' \in Int
  <2>1. Stops \in BOOLEAN
    BY DEF Stops, FlagsOK
  <2>2. QED BY <2>1, EndRoundType DEF SkipSend
<1>3. NodesOK' /\ CountsOK' /\ CodeOK'
  BY <1>2 DEF NodesOK, CountsOK, CodeOK
<1>4. FlagsOK'
  BY <1>2 DEF FlagsOK
<1>5. StatesOK' /\ ScannerOK'
  BY <1>1, <1>2 DEF StatesOK, ScannerOK, PC
<1>6. ScannerFresh' /\ ReadInBounds' /\ ReductionWaits'
  BY <1>1, <1>2 DEF ScannerOK, ScannerFresh, Taken, ReadInBounds, ReductionWaits
<1>7. QED BY <1>3, <1>4, <1>5, <1>6

LEMMA ScanNullInv == IInv /\ ScanNull => IInv'
<1> SUFFICES ASSUME IInv, ScanNull PROVE IInv' OBVIOUS
<1> USE DEF IInv, TypeOK, ScanNull
<1>1. NodesOK' /\ CountsOK' /\ FlagsOK' /\ CodeOK'
  BY DEF NodesOK, CountsOK, FlagsOK, CodeOK
<1>2. StatesOK' /\ ScannerOK'
  BY DEF StatesOK, ScannerOK, PC
<1>3. ScannerFresh' /\ ReadInBounds' /\ ReductionWaits'
  BY DEF ScannerFresh, ReadInBounds, ReductionWaits
<1>4. QED BY <1>1, <1>2, <1>3

\* The block a frame leaves in the reverse code.
LEMMA MakeReverseType ==
  ASSUME CodeOK, NEW b \in Block
  PROVE  /\ MakeReverse(b) \in Seq(Block) /\ EnvBlock \in Block
         /\ MakeSteps \in {1, 2}
<1>1. DeckBlock \in Block /\ EnvBlock \in Block
  BY ProgramAssumption DEF DeckBlock, EnvBlock, Block, CodeOK
<1>2. QED BY <1>1 DEF MakeReverse, MakeSteps, CodeOK

LEMMA ScanEofInv == IInv /\ ScanEof => IInv'
<1> SUFFICES ASSUME IInv, ScanEof PROVE IInv' OBVIOUS
<1> USE DEF IInv, TypeOK, ScanEof
<1> DEFINE o == RunFrame(EofFrame[region])
           made == IF o.env # env THEN MakeSteps ELSE 0
           node == [Blank EXCEPT !.id = EofId]
<1>1. o \in [env : EnvVal, reject : BOOLEAN, exit : BOOLEAN]
  BY OutcomeType, RegionAssumption DEF ScannerOK, CodeOK
<1>2. node \in Node
  BY BlankType, IdAssumption DEF Node, Id
<1>3. made \in {0, 1, 2}
  BY DEF MakeSteps
<1>4. /\ pt' \in [Ref -> Node] /\ live' \in SUBSET Ref
      /\ parse_input' \in Seq(Ref) /\ rc_block_count' = 0
      /\ pc' \in {"done", "again"}
  BY <1>2, <1>3, EnterParserType DEF CodeOK
<1>5. NodesOK' /\ StatesOK' /\ ScannerOK'
  BY <1>4 DEF NodesOK, StatesOK, ScannerOK, PC
<1>6. FlagsOK'
  BY <1>1 DEF FlagsOK
<1>7. CountsOK'
  BY <1>3 DEF CountsOK
<1>8. CodeOK'
  <2>1. EnvBlock \in Block
    BY DEF EnvBlock, Block, CodeOK
  <2>2. reverse_code' \in Seq(Block)
    BY <2>1, MakeReverseType DEF CodeOK
  <2>3. QED BY <1>1, <1>4, <2>2 DEF CodeOK
<1>9. ScannerFresh' /\ ReadInBounds' /\ ReductionWaits'
  BY <1>4 DEF ScannerFresh, ReadInBounds, ReductionWaits
<1>10. QED BY <1>5, <1>6, <1>7, <1>8, <1>9

LEMMA TreeItemType ==
  ASSUME IInv, pc = "scan", Scan \in {"tree", "ignore_tree"}
  PROVE  /\ Head(input) \in TreeItem \cup IgnoreTreeItem
         /\ ItemId[Head(input)] \in Term /\ Tail(input) \in Seq(Item)
<1> USE DEF IInv, TypeOK
<1>1. AtTree
  BY DEF Scan
<1>2. tokpref = 0 /\ Unread = input /\ input # <<>>
  BY <1>1, SubSeqFull DEF AtTree, ScannerFresh, ScannerOK, Unread
<1>3. Head(input) \in Item /\ Head(input) \notin Char /\ Tail(input) \in Seq(Item)
  BY <1>1, <1>2, HeadTailType DEF AtTree, ScannerOK
<1>4. QED BY <1>3, ProgramAssumption DEF Item

LEMMA ScanTreeInv == IInv /\ ScanTree => IInv'
<1> SUFFICES ASSUME IInv, ScanTree PROVE IInv' OBVIOUS
<1> USE DEF IInv, TypeOK, ScanTree
<1> DEFINE node == [Blank EXCEPT !.id = ItemId[Head(input)], !.artificial = TRUE,
                                 !.text = <<Head(input)>>]
<1>1. node \in Node
  <2>1. ItemId[Head(input)] \in Id /\ <<Head(input)>> \in Seq(Item)
    BY TreeItemType DEF Item, Id
  <2>2. QED BY <2>1, BlankType DEF Node
<1>2. /\ pt' \in [Ref -> Node] /\ live' \in SUBSET Ref
      /\ parse_input' \in Seq(Ref) /\ rc_block_count' = 0
      /\ pc' \in {"done", "again"}
  BY <1>1, EnterParserType DEF CodeOK
<1>3. NodesOK' /\ StatesOK'
  BY <1>2 DEF NodesOK, StatesOK, PC
<1>4. ScannerOK'
  BY TreeItemType DEF ScannerOK
<1>5. FlagsOK' /\ CodeOK'
  BY <1>2 DEF FlagsOK, CodeOK
<1>6. CountsOK'
  BY DEF CountsOK
<1>7. ScannerFresh' /\ ReadInBounds' /\ ReductionWaits'
  BY <1>2 DEF ScannerFresh, ReadInBounds, ReductionWaits
<1>8. QED BY <1>3, <1>4, <1>5, <1>6, <1>7

\* What the two kinds of ignored text have in common.
LEMMA IgnoreInv ==
  ASSUME IInv, NEW node \in Node, Ignore(node), input' \in Seq(Item)
  PROVE  IInv'
<1> USE DEF IInv, TypeOK, Ignore
<1>1. /\ region' \in Region /\ pre_region' \in Region \cup {-1}
      /\ fsm' = <<>> /\ tokpref' = 0
  BY NewTokenType DEF StatesOK
<1>2. pt' \in [Ref -> Node] /\ live' \in SUBSET Ref /\ accum_ignore' \in Seq(Ref)
  <2>1. PICK r \in Ref :
          /\ live' = live \cup {r}
          /\ pt' = [pt EXCEPT ![r] = [node EXCEPT !.has_rcode = Transfer(rc_block_count),
                                                  !.retry_region = RetryRegion]]
          /\ accum_ignore' = <<r>> \o accum_ignore
    OBVIOUS
  <2>2. Transfer(rc_block_count) \in BOOLEAN
    BY DEF Transfer
  <2>3. [node EXCEPT !.has_rcode = Transfer(rc_block_count),
                     !.retry_region = RetryRegion] \in Node
    BY <2>2, RetryRegionType DEF Node
  <2>4. QED BY <2>1, <2>3 DEF NodesOK
<1>3. NodesOK'
  BY <1>2 DEF NodesOK
<1>4. StatesOK' /\ ScannerOK'
  BY <1>1 DEF StatesOK, ScannerOK, PC
<1>5. FlagsOK'
  BY DEF FlagsOK
<1>6. CountsOK' /\ CodeOK'
  BY RetryRegionType DEF CountsOK, CodeOK
<1>7. ScannerFresh' /\ ReadInBounds' /\ ReductionWaits'
  BY <1>1 DEF ScannerOK, ScannerFresh, Taken, ReadInBounds, ReductionWaits
<1>8. QED BY <1>3, <1>4, <1>5, <1>6, <1>7

LEMMA ScanIgnoreTreeInv == IInv /\ ScanIgnoreTree => IInv'
<1> SUFFICES ASSUME IInv, ScanIgnoreTree PROVE IInv' OBVIOUS
<1>1. /\ ItemId[Head(input)] \in Id /\ <<Head(input)>> \in Seq(Item)
      /\ input' \in Seq(Item)
  BY TreeItemType DEF ScanIgnoreTree, Item, Id
<1>2. [Blank EXCEPT !.id = ItemId[Head(input)], !.artificial = TRUE,
                    !.text = <<Head(input)>>] \in Node
  BY <1>1, BlankType DEF Node
<1>3. QED BY <1>1, <1>2, IgnoreInv DEF ScanIgnoreTree

LEMMA ScanIgnoreInv == IInv /\ ScanIgnore => IInv'
<1> SUFFICES ASSUME IInv, ScanIgnore PROVE IInv' OBVIOUS
<1>1. PICK t \in Matches :
        /\ input' = Drop(MatchLen(t))
        /\ Ignore([Blank EXCEPT !.id = t.id, !.right_flag = (pre_region >= 0),
                                !.text = Taken(MatchLen(t))])
  BY DEF ScanIgnore
<1>2. /\ t.id \in Id /\ Taken(MatchLen(t)) \in Seq(Item) /\ input' \in Seq(Item)
  BY <1>1, MatchType DEF ScanIgnore, Id
<1>3. (pre_region >= 0) \in BOOLEAN
  OBVIOUS
<1>4. [Blank EXCEPT !.id = t.id, !.right_flag = (pre_region >= 0),
                    !.text = Taken(MatchLen(t))] \in Node
  BY <1>2, <1>3, BlankType DEF Node
<1>5. QED BY <1>1, <1>2, <1>4, IgnoreInv

LEMMA ScanTokenInv == IInv /\ ScanToken => IInv'
<1> SUFFICES ASSUME IInv, ScanToken PROVE IInv' OBVIOUS
<1> USE DEF IInv, TypeOK
<1>1. PICK t \in Matches :
        /\ input' = Drop(MatchLen(t))
        /\ EnterParser([Blank EXCEPT !.id = t.id, !.retry_region = RetryRegion,
                                     !.text = Taken(MatchLen(t))], rc_block_count)
  BY DEF ScanToken
<1>2. /\ t.id \in Id /\ Taken(MatchLen(t)) \in Seq(Item) /\ input' \in Seq(Item)
  BY <1>1, MatchType DEF ScanToken, Id
<1>3. [Blank EXCEPT !.id = t.id, !.retry_region = RetryRegion,
                    !.text = Taken(MatchLen(t))] \in Node
  BY <1>2, RetryRegionType, BlankType DEF Node
<1>4. /\ pt' \in [Ref -> Node] /\ live' \in SUBSET Ref
      /\ parse_input' \in Seq(Ref) /\ rc_block_count' = 0
      /\ pc' \in {"done", "again"}
  BY <1>1, <1>3, EnterParserType DEF CodeOK
<1> USE DEF ScanToken
<1>5. NodesOK' /\ StatesOK'
  BY <1>4 DEF NodesOK, StatesOK, PC
<1>6. ScannerOK'
  BY <1>2 DEF ScannerOK
<1>7. FlagsOK' /\ CodeOK'
  BY <1>4 DEF FlagsOK, CodeOK
<1>8. CountsOK'
  BY RetryRegionType DEF CountsOK
<1>9. ScannerFresh' /\ ReadInBounds' /\ ReductionWaits'
  BY <1>4 DEF ScannerFresh, ReadInBounds, ReductionWaits
<1>10. QED BY <1>5, <1>6, <1>7, <1>8, <1>9

LEMMA ScanGenerateInv == IInv /\ ScanGenerate => IInv'
<1> SUFFICES ASSUME IInv, ScanGenerate PROVE IInv' OBVIOUS
<1> USE DEF IInv, TypeOK
<1>1. PICK t \in Matches :
        /\ LET o == RunFrame(GenFrame[t.id])
           IN /\ env' = o.env /\ induce_exit' = (induce_exit \/ o.exit)
              /\ EndRound(Stops \/ o.exit)
        /\ input' = GenPush[t.id] \o Drop(MatchLen(t))
        /\ reverse_code' =
             MakeReverse([deck |-> FALSE, env |-> env, pulled |-> Taken(MatchLen(t)),
                          pushed |-> Len(GenPush[t.id])])
  BY DEF ScanGenerate
<1> DEFINE o == RunFrame(GenFrame[t.id])
           b == [deck |-> FALSE, env |-> env, pulled |-> Taken(MatchLen(t)),
                 pushed |-> Len(GenPush[t.id])]
<1>2. /\ t.id \in Term /\ Taken(MatchLen(t)) \in Seq(Item)
      /\ Drop(MatchLen(t)) \in Seq(Item)
  BY MatchType DEF ScanGenerate
<1>3. GenPush[t.id] \in Seq(Item) /\ GenFrame[t.id] \in Frame \cup {0}
  BY <1>2, ProgramAssumption
<1>4. o \in [env : EnvVal, reject : BOOLEAN, exit : BOOLEAN]
  BY <1>3, OutcomeType DEF CodeOK
<1>5. /\ pc' \in {"idle", "scan"} /\ trigger_undo' \in BOOLEAN
      /\ target_steps' \in Int /\ num_retry' \in Int
  <2>1. (Stops \/ o.exit) \in BOOLEAN
    OBVIOUS
  <2>2. QED BY <1>1, <2>1, EndRoundType
<1> USE DEF ScanGenerate
<1>6. /\ region' \in Region /\ pre_region' \in Region \cup {-1}
      /\ fsm' = <<>> /\ tokpref' = 0
  BY NewTokenType DEF StatesOK
<1>7. NodesOK' /\ StatesOK'
  BY <1>5 DEF NodesOK, StatesOK, PC
<1>8. input' \in Seq(Item)
  BY <1>1, <1>2, <1>3, ConcatType
<1>9. ScannerOK'
  BY <1>6, <1>8 DEF ScannerOK
<1>10. FlagsOK'
  BY <1>5 DEF FlagsOK
<1>11. MakeSteps \in {1, 2} /\ CountsOK'
  BY <1>5 DEF CountsOK, MakeSteps
<1>12. CodeOK'
  <2>1. b \in Block
    BY <1>2, <1>3 DEF Block, CodeOK
  <2>2. reverse_code' \in Seq(Block)
    BY <1>1, <2>1, MakeReverseType
  <2>3. QED BY <1>1, <1>4, <1>11, <2>2 DEF CodeOK
<1>13. ScannerFresh' /\ ReadInBounds' /\ ReductionWaits'
  BY <1>5, <1>6, <1>9 DEF ScannerOK, ScannerFresh, Taken, ReadInBounds, ReductionWaits
<1>14. QED BY <1>7, <1>9, <1>10, <1>11, <1>12, <1>13

-----------------------------------------------------------------------------
(* Forward. *)

LEMMA AttachType ==
  ASSUME NEW p \in [Ref -> Node], NEW stk \in Seq(Ref), NEW acc \in Seq(Ref),
         NEW cut \in RightCuts(p, acc)
  PROVE  /\ attach_right_ignore(p, stk, acc, cut) \in [Ref -> Node]
         /\ AfterRight(p, stk, acc, cut) \in Seq(Ref)
<1>1. cut \in 0..Len(acc)
  BY DEF RightCuts
<1>2. Reverse(SubSeq(acc, cut + 1, Len(acc))) \in Seq(Ref)
  <2>1. SubSeq(acc, cut + 1, Len(acc)) \in Seq(Ref)
    BY <1>1, SuffixType
  <2>2. QED BY <2>1, ReverseType
<1>3. SubSeq(acc, 1, cut) \in Seq(Ref)
  BY <1>1, PrefixType
<1>4. \A r \in Ref : \A q \in Seq(Ref) : [p[r] EXCEPT !.right_ignore = q] \in Node
  <2>1. \A n \in Node : \A q \in Seq(Ref) : [n EXCEPT !.right_ignore = q] \in Node
    BY DEF Node
  <2>2. QED BY <2>1
<1>5. QED
  <2>1. CASE acc # <<>> /\ TakesRight(p, stk)
    <3>1. Head(stk) \in Ref
      BY <2>1, HeadTailType DEF TakesRight
    <3>2. QED BY <2>1, <3>1, <1>2, <1>3, <1>4 DEF attach_right_ignore, AfterRight
  <2>2. CASE ~(acc # <<>> /\ TakesRight(p, stk))
    BY <2>2 DEF attach_right_ignore, AfterRight
  <2>3. QED BY <2>1, <2>2

LEMMA DetachType ==
  ASSUME NEW p \in [Ref -> Node], NEW stk \in Seq(Ref), NEW acc \in Seq(Ref)
  PROVE  /\ detach_right_ignore(p, stk) \in [Ref -> Node]
         /\ DetachedRight(p, stk, acc) \in Seq(Ref)
<1>1. \A r \in Ref : p[r].right_ignore \in Seq(Ref)
  BY DEF Node
<1>2. CASE HasRight(p, stk)
  <2>1. Head(stk) \in Ref
    BY <1>2, HeadTailType DEF HasRight
  <2>2. \A q \in Seq(Ref) : [p[Head(stk)] EXCEPT !.right_ignore = q] \in Node
    BY <2>1 DEF Node
  <2>3. detach_right_ignore(p, stk) \in [Ref -> Node]
    BY <1>2, <2>1, <2>2, EmptySeq DEF detach_right_ignore
  <2>4. DetachedRight(p, stk, acc) \in Seq(Ref)
    BY <1>1, <1>2, <2>1, ReverseType DEF DetachedRight
  <2>5. QED BY <2>3, <2>4
<1>3. CASE ~HasRight(p, stk)
  BY <1>3 DEF detach_right_ignore, DetachedRight
<1>4. QED BY <1>2, <1>3

\* The input of the parser and its transition.
LEMMA LelType ==
  ASSUME IInv, parse_input # <<>>
  PROVE  Lel \in Ref /\ pt[Lel] \in Node /\ Tail(parse_input) \in Seq(Ref)
BY HeadTailType DEF Lel, IInv, TypeOK, NodesOK

LEMMA ActType ==
  ASSUME IInv, parse_input # <<>>, HasTrans(pda_cs, pt[Lel].id), NEW k \in Nat
  PROVE  /\ Tr.targ \in PdaState
         /\ ActAt(k).shift \in BOOLEAN /\ ActAt(k).prod \in DOMAIN Prod \cup {0}
<1>1. Tr \in [targ : PdaState, acts : Seq(Action), commit : BOOLEAN]
  BY TransType DEF Tr
<1>2. Tr.targ \in PdaState /\ Tr.acts \in Seq(Action)
  BY <1>1
<1>3. ActAt(k) \in Action
  <2>1. NoAction \in Action
    BY DEF NoAction, Action
  <2>2. CASE k < Len(Tr.acts)
    <3>1. k + 1 \in 1..Len(Tr.acts)
      BY <1>2, <2>2
    <3>2. QED BY <1>2, <2>2, <3>1, ElementOfSeq DEF ActAt
  <2>3. CASE ~(k < Len(Tr.acts))
    BY <2>1, <2>3 DEF ActAt
  <2>4. QED BY <2>2, <2>3
<1>4. QED BY <1>2, <1>3 DEF Action

LEMMA ShiftPtType ==
  ASSUME IInv, parse_input # <<>>, NEW cut \in RightCuts(pt, accum_ignore)
  PROVE  ShiftPt(cut) \in [Ref -> Node]
<1> USE DEF IInv, TypeOK
<1> DEFINE tok == pt[Lel].id \in Term
           right == tok /\ pt[Lel].cause_reduce = 0
           p1 == IF right THEN attach_right_ignore(pt, stack, accum_ignore, cut) ELSE pt
           rest == IF right THEN AfterRight(pt, stack, accum_ignore, cut)
                   ELSE accum_ignore
           n == p1[Lel]
           shifted == [n EXCEPT !.state = pda_cs,
                         !.left_ignore = IF tok THEN Reverse(rest) ELSE n.left_ignore,
                         !.retry_lower = IF MoreActs THEN n.retry_lower + 1 ELSE 0]
<1>1. p1 \in [Ref -> Node] /\ rest \in Seq(Ref)
  BY AttachType DEF NodesOK
<1>2. n \in Node
  BY <1>1, LelType
<1>3. shifted \in Node
  <2>1. (IF tok THEN Reverse(rest) ELSE n.left_ignore) \in Seq(Ref)
    BY <1>1, <1>2, ReverseType DEF Node
  <2>2. n.retry_lower \in Nat
    BY <1>2 DEF Node
  <2> HIDE DEF tok, rest, n
  <2>3. (IF MoreActs THEN n.retry_lower + 1 ELSE 0) \in Nat
    BY <2>2
  <2>4. QED BY <1>2, <2>1, <2>3 DEF Node, StatesOK
<1>4. ShiftPt(cut) = [p1 EXCEPT ![Lel] = shifted]
  BY DEF ShiftPt
<1> HIDE DEF p1, shifted
<1>5. QED BY <1>1, <1>3, <1>4

LEMMA NoTransitionInv == IInv /\ NoTransition => IInv'
<1> SUFFICES ASSUME IInv, NoTransition PROVE IInv' OBVIOUS
<1> USE DEF IInv, TypeOK, NoTransition
<1>1. NodesOK' /\ CountsOK' /\ FlagsOK' /\ CodeOK'
  BY DEF NodesOK, CountsOK, FlagsOK, CodeOK
<1>2. StatesOK' /\ ScannerOK'
  BY DEF StatesOK, ScannerOK, PC
<1>3. ScannerFresh' /\ ReadInBounds' /\ ReductionWaits'
  BY DEF ScannerFresh, ReadInBounds, ReductionWaits
<1>4. QED BY <1>1, <1>2, <1>3

LEMMA ShiftInv == IInv /\ Shift => IInv'
<1> SUFFICES ASSUME IInv, Shift PROVE IInv' OBVIOUS
<1> USE DEF IInv, TypeOK, Shift
<1>1. pt' \in [Ref -> Node]
  BY ShiftPtType
<1>2. stack' \in Seq(Ref) /\ parse_input' \in Seq(Ref) /\ accum_ignore' \in Seq(Ref)
  BY LelType DEF NodesOK, ShiftAccum
<1>3. NodesOK'
  BY <1>1, <1>2 DEF NodesOK
<1>4. StatesOK' /\ ScannerOK'
  <2>1. Tr.targ \in PdaState
    BY ActType
  <2>2. QED BY <2>1 DEF StatesOK, ScannerOK, State
<1>5. CountsOK'
  BY DEF CountsOK, Commit
<1>6. FlagsOK' /\ CodeOK'
  BY DEF FlagsOK, CodeOK
<1>7. ScannerFresh' /\ ReadInBounds' /\ ReductionWaits'
  BY DEF ScannerFresh, ReadInBounds, ReductionWaits
<1>8. QED BY <1>3, <1>4, <1>5, <1>6, <1>7

LEMMA ReducePtType ==
  ASSUME IInv, pc = "again", parse_input # <<>>, HasTrans(pda_cs, pt[Lel].id),
         NEW cut \in RightCuts(pt, accum_ignore)
  PROVE  /\ ReducePt(cut) \in [Ref -> Node] /\ ReduceAccum(cut) \in Seq(Ref)
         /\ ReduceStack \in Seq(Ref) /\ ReduceInput \in Seq(Ref)
<1> USE DEF IInv, TypeOK
<1>1. ReducePt(cut) \in [Ref -> Node] /\ ReduceAccum(cut) \in Seq(Ref)
  BY ShiftPtType, AttachType, SMTT(60) DEF ReducePt, ReduceAccum, ShiftAccum, NodesOK
<1>2. ReduceStack \in Seq(Ref) /\ ReduceInput \in Seq(Ref)
  BY LelType DEF ReduceStack, ReduceInput, NodesOK
<1>3. QED BY <1>1, <1>2

LEMMA ReduceInv == IInv /\ Reduce => IInv'
<1> SUFFICES ASSUME IInv, Reduce PROVE IInv' OBVIOUS
<1> USE DEF IInv, TypeOK
<1>1. PICK cut \in RightCuts(pt, accum_ignore), r \in Ref :
       LET p == Caused(ReducePt(cut))
       IN /\ Fresh(r) /\ live' = live \cup {r}
          /\ pt' = [[p EXCEPT ![Lel].retry_lower = 0] EXCEPT ![r] = Reduction(p[Lel])]
          /\ accum_ignore' = ReduceAccum(cut)
          /\ pda_cs' = IF Children = <<>> THEN pda_cs ELSE p[Children[1]].state
          /\ IF Prod[Act.prod].frame = 0
             THEN /\ parse_input' = <<r>> \o ReduceInput
                  /\ UNCHANGED <<red_lel, pc>>
             ELSE /\ parse_input' = ReduceInput
                  /\ red_lel' = <<r, Prod[Act.prod].frame>> /\ pc' = "reduction"
  BY DEF Reduce
<1> DEFINE p == Caused(ReducePt(cut))
<1>2. /\ ReducePt(cut) \in [Ref -> Node] /\ ReduceAccum(cut) \in Seq(Ref)
      /\ ReduceStack \in Seq(Ref) /\ ReduceInput \in Seq(Ref)
  BY ReducePtType DEF Reduce
<1>3. p \in [Ref -> Node]
  <2>1. CASE ReduceInput = <<>>
    BY <1>2, <2>1 DEF Caused
  <2>2. CASE ReduceInput # <<>>
    <3>1. Head(ReduceInput) \in Ref
      BY <1>2, <2>2, HeadTailType
    <3>2. ReducePt(cut)[Head(ReduceInput)] \in Node
      BY <1>2, <3>1
    <3>3. [ReducePt(cut)[Head(ReduceInput)] EXCEPT !.cause_reduce = @ + 1] \in Node
      BY <3>2, CauseType
    <3>4. QED BY <1>2, <2>2, <3>1, <3>3 DEF Caused
  <2>3. QED BY <2>1, <2>2
<1>4. /\ Prod[Act.prod].len \in 0..Len(ReduceStack)
      /\ Prod[Act.prod].lhs \in Id /\ Prod[Act.prod].frame \in Frame \cup {0}
  <2>1. pt[Lel].retry_lower \in Nat
    BY LelType DEF Reduce, Node
  <2>2. Act.prod \in DOMAIN Prod
    BY <2>1, ActType DEF Reduce, Act
  <2>3. QED BY <1>2, <2>2, TableAssumption DEF Reduce, Id
<1>5. Children \in Seq(Ref) /\ stack' \in Seq(Ref)
  <2>1. SubSeq(ReduceStack, 1, Prod[Act.prod].len) \in Seq(Ref)
    BY <1>2, <1>4, PrefixType
  <2>2. Children \in Seq(Ref)
    BY <2>1, ReverseType DEF Children
  <2>3. Prod[Act.prod].len \in Nat
    BY <1>4
  <2>4. stack' \in Seq(Ref)
    BY <1>2, <2>3, SuffixType DEF Reduce
  <2>5. QED BY <2>2, <2>4
<1>6. p[Lel] \in Node /\ [p[Lel] EXCEPT !.retry_lower = 0] \in Node /\ Lel \in Ref
  <2>1. p[Lel] \in Node /\ Lel \in Ref
    BY <1>3, LelType DEF Reduce
  <2> HIDE DEF p
  <2>2. QED BY <2>1 DEF Node
<1>7. Reduction(p[Lel]) \in Node
  <2> HIDE DEF p
  <2>1. p[Lel].retry_lower \in Nat
    BY <1>6 DEF Node
  <2>2. (IF MoreActs THEN p[Lel].retry_lower + 1 ELSE 0) \in Nat
    BY <2>1
  <2>3. QED BY <1>4, <1>5, <2>2, BlankType DEF Reduction, Node
<1>8. pt' \in [Ref -> Node]
  <2> HIDE DEF p
  <2>1. pt' = [[p EXCEPT ![Lel].retry_lower = 0] EXCEPT ![r] = Reduction(p[Lel])]
    BY <1>1 DEF p
  <2>2. QED BY <1>3, <1>6, <1>7, <2>1
<1>9. /\ parse_input' \in Seq(Ref) /\ red_lel' \in {<<>>} \cup (Ref \X Frame)
      /\ pc' \in {"again", "reduction"} /\ (pc' = "reduction" => red_lel' # <<>>)
  <2>1. CASE Prod[Act.prod].frame = 0
    <3>1. parse_input' = <<r>> \o ReduceInput /\ red_lel' = red_lel /\ pc' = "again"
      BY <1>1, <2>1 DEF Reduce
    <3>2. parse_input' \in Seq(Ref)
      BY <1>2, <3>1, ConsType
    <3>3. QED BY <3>1, <3>2 DEF NodesOK
  <2>2. CASE Prod[Act.prod].frame # 0
    <3>1. red_lel' = <<r, Prod[Act.prod].frame>> /\ pc' = "reduction"
      BY <1>1, <2>2
    <3>2. Prod[Act.prod].frame \in Frame
      BY <1>4, <2>2
    <3>3. red_lel' \in Ref \X Frame /\ red_lel' # <<>>
      BY <3>1, <3>2
    <3>4. parse_input' \in Seq(Ref)
      BY <1>1, <1>2, <2>2
    <3>5. QED BY <3>1, <3>3, <3>4
  <2>3. QED BY <2>1, <2>2
<1>10. pda_cs' \in State
  <2>1. CASE Children = <<>>
    BY <1>1, <2>1 DEF StatesOK
  <2>2. CASE Children # <<>>
    <3>1. Children[1] \in Ref
      BY <1>5, <2>2
    <3> HIDE DEF p
    <3>2. p[Children[1]] \in Node
      BY <1>3, <3>1
    <3>3. pda_cs' = p[Children[1]].state
      BY <1>1, <2>2 DEF p
    <3>4. QED BY <3>2, <3>3 DEF Node
  <2>3. QED BY <2>1, <2>2
<1>11. NodesOK'
  BY <1>1, <1>2, <1>5, <1>8, <1>9 DEF NodesOK
<1> USE DEF Reduce
<1>12. StatesOK' /\ ScannerOK'
  BY <1>9, <1>10 DEF StatesOK, ScannerOK, PC
<1>13. CountsOK'
  BY DEF CountsOK, Commit
<1>14. FlagsOK' /\ CodeOK'
  BY DEF FlagsOK, CodeOK
<1>15. ScannerFresh' /\ ReadInBounds' /\ ReductionWaits'
  BY <1>9 DEF ScannerFresh, ReadInBounds, ReductionWaits
<1>16. QED BY <1>11, <1>12, <1>13, <1>14, <1>15

LEMMA ReturnedType ==
  ASSUME cur_state \in State, NEW node \in Node, NEW count, NEW reject
  PROVE  Returned(node, count, reject) \in Node
<1>1. Transfer(count) \in BOOLEAN
  BY DEF Transfer
<1>2. (IF reject THEN cur_state ELSE node.state) \in State
  BY DEF Node
<1>3. \A b \in BOOLEAN, q \in State :
        [node EXCEPT !.has_rcode = b, !.state = q] \in Node
  BY DEF Node
<1>4. QED BY <1>1, <1>2, <1>3 DEF Returned

LEMMA ReductionReturnInv == IInv /\ ReductionReturn => IInv'
<1> SUFFICES ASSUME IInv, ReductionReturn PROVE IInv' OBVIOUS
<1> USE DEF IInv, TypeOK
<1> DEFINE r == red_lel[1]
           o == RunFrame(red_lel[2])
           writes == o.env # env
           made == IF writes THEN MakeSteps ELSE 0
<1>1. r \in Ref /\ red_lel[2] \in Frame
  BY DEF ReductionReturn, ReductionWaits, NodesOK
<1>2. o \in [env : EnvVal, reject : BOOLEAN, exit : BOOLEAN]
  BY <1>1, OutcomeType DEF CodeOK
<1>3. made \in {0, 1, 2}
  BY DEF MakeSteps
<1>4. /\ env' = o.env /\ induce_exit' = (induce_exit \/ o.exit)
      /\ red_lel' = <<>> /\ live' = live /\ accum_ignore' = accum_ignore
  BY DEF ReductionReturn
<1>5. CASE induce_exit'
  <2>1. /\ pda_cs' = -1 /\ parse_error' = TRUE /\ pc' = "done"
        /\ UNCHANGED <<pt, stack, parse_input, reverse_code, rc_block_count, steps>>
    BY <1>4, <1>5 DEF ReductionReturn
  <2>2. NodesOK'
    BY <1>4, <2>1 DEF NodesOK
  <2> USE DEF ReductionReturn
  <2>3. StatesOK' /\ ScannerOK'
    BY <2>1 DEF StatesOK, ScannerOK, PC, State
  <2>4. CountsOK' /\ CodeOK'
    BY <1>2, <1>4, <2>1 DEF CountsOK, CodeOK
  <2>5. FlagsOK'
    BY <1>4, <2>1 DEF FlagsOK
  <2>6. ScannerFresh' /\ ReadInBounds' /\ ReductionWaits'
    BY <2>1 DEF ScannerFresh, ReadInBounds, ReductionWaits
  <2>7. QED BY <2>2, <2>3, <2>4, <2>5, <2>6
<1>6. CASE ~induce_exit'
  <2>1. /\ reverse_code' = IF writes THEN MakeReverse(EnvBlock) ELSE reverse_code
        /\ steps' = steps + made
        /\ rc_block_count' = 0
        /\ pt' = [pt EXCEPT ![r] =
                    Returned(@, rc_block_count + made, o.reject)]
        /\ stack' = IF o.reject THEN PushRejected(r) ELSE stack
        /\ parse_input' = IF o.reject THEN parse_input ELSE <<r>> \o parse_input
        /\ pc' = IF o.reject THEN "backtrack" ELSE "again"
        /\ UNCHANGED <<pda_cs, parse_error>>
    BY <1>4, <1>6 DEF ReductionReturn
  <2>2. pt' \in [Ref -> Node]
    <3>1. pt[r] \in Node
      BY <1>1 DEF NodesOK
    <3>2. Returned(pt[r], rc_block_count + made, o.reject) \in Node
      BY <3>1, ReturnedType DEF StatesOK
    <3>3. QED BY <1>1, <2>1, <3>2 DEF NodesOK
  <2>3. stack' \in Seq(Ref) /\ parse_input' \in Seq(Ref)
    BY <1>1, <2>1, ConsType DEF PushRejected, NodesOK
  <2>4. NodesOK'
    BY <1>4, <2>2, <2>3 DEF NodesOK
  <2>5. CountsOK'
    BY <1>3, <2>1 DEF ReductionReturn, CountsOK
  <2>6. CodeOK'
    <3>1. EnvBlock \in Block
      BY DEF EnvBlock, Block, CodeOK
    <3>2. reverse_code' \in Seq(Block)
      BY <2>1, <3>1, MakeReverseType DEF CodeOK
    <3>3. QED BY <1>2, <1>4, <2>1, <3>2 DEF CodeOK
  <2>7. pc' \in {"backtrack", "again"}
    BY <2>1
  <2> HIDE DEF o
  <2>8. StatesOK' /\ ScannerOK'
    BY <2>1, <2>7 DEF ReductionReturn, StatesOK, ScannerOK, PC
  <2>9. FlagsOK'
    BY <1>2, <1>4, <2>1 DEF ReductionReturn, FlagsOK
  <2>10. ScannerFresh' /\ ReadInBounds' /\ ReductionWaits'
    BY <2>7 DEF ScannerFresh, ReadInBounds, ReductionWaits
  <2>11. QED BY <2>4, <2>5, <2>6, <2>8, <2>9, <2>10
<1>7. QED BY <1>5, <1>6

LEMMA AgainOutInv == IInv /\ AgainOut => IInv'
<1> SUFFICES ASSUME IInv, AgainOut PROVE IInv' OBVIOUS
<1> USE DEF IInv, TypeOK, AgainOut
<1>1. NodesOK' /\ CountsOK' /\ FlagsOK' /\ CodeOK'
  BY DEF NodesOK, CountsOK, FlagsOK, CodeOK
<1>2. StatesOK' /\ ScannerOK'
  BY RegionIndType DEF StatesOK, ScannerOK, PC
<1>3. ScannerFresh' /\ ReadInBounds' /\ ReductionWaits'
  BY DEF ScannerFresh, ReadInBounds, ReductionWaits
<1>4. QED BY <1>1, <1>2, <1>3

-----------------------------------------------------------------------------
(* Backward. *)

USE DEF Backtrack, NoDeck, NoChecks

LEMMA BtReverseInv == IInv /\ BtReverse => IInv'
<1> SUFFICES ASSUME IInv, BtReverse PROVE IInv' OBVIOUS
<1> USE DEF IInv, TypeOK, BtReverse
<1> DEFINE b == Last(reverse_code)
<1>1. b \in Block /\ Front(reverse_code) \in Seq(Block)
  <2>1. Len(reverse_code) \in 1..Len(reverse_code)
    BY EmptySeq DEF CodeOK
  <2>2. b \in Block
    BY <2>1, ElementOfSeq DEF Last, CodeOK
  <2>3. Len(reverse_code) - 1 \in 0..Len(reverse_code)
    BY <2>1
  <2>4. QED BY <2>2, <2>3, PrefixType DEF Front, CodeOK
<1>2. input' \in Seq(Item)
  <2>1. b.pulled \in Seq(Item) /\ b.pushed \in Nat
    BY <1>1 DEF Block
  <2>2. Drop(b.pushed) \in Seq(Item)
    BY <2>1, SuffixType DEF Drop, ScannerOK
  <2>3. QED BY <2>1, <2>2, ConcatType
<1>3. NodesOK' /\ StatesOK'
  BY DEF NodesOK, StatesOK
<1>4. ScannerOK'
  BY <1>2 DEF ScannerOK
<1>5. CodeOK'
  BY <1>1 DEF CodeOK, Block
<1>6. CountsOK'
  BY DEF CountsOK
<1>7. FlagsOK'
  <2>1. b.deck \in BOOLEAN
    BY <1>1 DEF Block
  <2>2. on_deck' = ~b.deck
    OBVIOUS
  <2> HIDE DEF b
  <2>3. QED BY <2>1, <2>2 DEF FlagsOK
<1>8. ScannerFresh' /\ ReadInBounds' /\ ReductionWaits'
  BY DEF ScannerFresh, ReadInBounds, ReductionWaits
<1>9. QED BY <1>3, <1>4, <1>5, <1>6, <1>7, <1>8

LEMMA ResumeType ==
  ASSUME NodesOK
  PROVE  Resume \in State /\ RegionInd(Resume) \in Nat
BY TopTargetType, RegionIndType DEF Resume, NodesOK

LEMMA BtNextInv == IInv /\ BtNext => IInv'
<1> SUFFICES ASSUME IInv, BtNext PROVE IInv' OBVIOUS
<1> USE DEF IInv, TypeOK, BtNext
<1>1. NodesOK' /\ CountsOK' /\ CodeOK'
  BY DEF NodesOK, CountsOK, CodeOK
<1>2. FlagsOK'
  BY DEF FlagsOK
<1>3. StatesOK' /\ ScannerOK'
  BY ResumeType DEF StatesOK, ScannerOK, PC
<1>4. ScannerFresh' /\ ReadInBounds' /\ ReductionWaits'
  BY DEF ScannerFresh, ReadInBounds, ReductionWaits
<1>5. QED BY <1>1, <1>2, <1>3, <1>4

LEMMA BtStopInv == IInv /\ BtStop => IInv'
<1> SUFFICES ASSUME IInv, BtStop PROVE IInv' OBVIOUS
<1> USE DEF IInv, TypeOK, BtStop
<1>1. NodesOK' /\ CountsOK' /\ CodeOK'
  BY DEF NodesOK, CountsOK, CodeOK
<1>2. FlagsOK'
  BY DEF FlagsOK
<1>3. StatesOK' /\ ScannerOK'
  BY ResumeType DEF StatesOK, ScannerOK, PC
<1>4. ScannerFresh' /\ ReadInBounds' /\ ReductionWaits'
  BY DEF ScannerFresh, ReadInBounds, ReductionWaits
<1>5. QED BY <1>1, <1>2, <1>3, <1>4

LEMMA BtRetryInv == IInv /\ BtRetry => IInv'
<1> SUFFICES ASSUME IInv, BtRetry PROVE IInv' OBVIOUS
<1> USE DEF IInv, TypeOK, BtRetry
<1>1. NodesOK' /\ CountsOK' /\ FlagsOK' /\ CodeOK'
  BY DEF NodesOK, CountsOK, FlagsOK, CodeOK
<1>2. StatesOK' /\ ScannerOK'
  BY LelType DEF StatesOK, ScannerOK, PC, Node
<1>3. ScannerFresh' /\ ReadInBounds' /\ ReductionWaits'
  BY DEF ScannerFresh, ReadInBounds, ReductionWaits
<1>4. QED BY <1>1, <1>2, <1>3

LEMMA BtFailInv == IInv /\ BtFail => IInv'
<1> SUFFICES ASSUME IInv, BtFail PROVE IInv' OBVIOUS
<1> USE DEF IInv, TypeOK, BtFail, AtUnshift
<1>1. NodesOK' /\ CodeOK'
  BY DEF NodesOK, CodeOK
<1>2. CountsOK'
  BY DEF CountsOK, CountBack
<1>3. FlagsOK'
  BY DEF FlagsOK
<1>4. StatesOK' /\ ScannerOK'
  BY DEF StatesOK, ScannerOK, PC, State
<1>5. ScannerFresh' /\ ReadInBounds' /\ ReductionWaits'
  BY DEF ScannerFresh, ReadInBounds, ReductionWaits
<1>6. QED BY <1>1, <1>2, <1>3, <1>4, <1>5

LEMMA BtUnshiftInv == IInv /\ BtUnshift => IInv'
<1> SUFFICES ASSUME IInv, BtUnshift PROVE IInv' OBVIOUS
<1> USE DEF IInv, TypeOK
<1> DEFINE top == Head(stack)
           stk == Tail(stack)
           bare == parse_input = <<>>
           left == bare /\ IsTerm(top) /\ pt[top].left_ignore # <<>>
           acc == IF left THEN Reverse(pt[top].left_ignore) ELSE accum_ignore
           p1 == IF left THEN [pt EXCEPT ![top].left_ignore = <<>>] ELSE pt
<1>1. /\ stack' = stk /\ parse_input' = <<top>> \o parse_input
      /\ pt' = IF bare THEN detach_right_ignore(p1, stk) ELSE p1
      /\ accum_ignore' = IF bare THEN DetachedRight(p1, stk, acc) ELSE acc
  BY DEF BtUnshift
<1>2. top \in Ref /\ stk \in Seq(Ref) /\ pt[top] \in Node
  BY HeadTailType DEF BtUnshift, NodesOK
<1>3. acc \in Seq(Ref)
  BY <1>2, ReverseType DEF NodesOK, Node
<1>4. p1 \in [Ref -> Node]
  <2>1. \A q \in Seq(Ref) : [pt[top] EXCEPT !.left_ignore = q] \in Node
    BY <1>2 DEF Node
  <2>2. QED BY <1>2, <2>1, EmptySeq DEF NodesOK
<1>5. NodesOK'
  <2> HIDE DEF p1, acc, top, stk
  <2>1. pt' \in [Ref -> Node] /\ accum_ignore' \in Seq(Ref)
    BY <1>1, <1>2, <1>3, <1>4, DetachType
  <2>2. parse_input' \in Seq(Ref)
    BY <1>1, <1>2, ConsType DEF NodesOK
  <2>3. QED BY <1>1, <1>2, <2>1, <2>2 DEF BtUnshift, NodesOK
<1> USE DEF BtUnshift, AtUnshift
<1>6. CountsOK' /\ CodeOK'
  BY DEF CountsOK, CountBack, CodeOK
<1>7. FlagsOK'
  BY DEF FlagsOK
<1>8. StatesOK' /\ ScannerOK'
  BY DEF StatesOK, ScannerOK, PC
<1>9. ScannerFresh' /\ ReadInBounds' /\ ReductionWaits'
  BY DEF ScannerFresh, ReadInBounds, ReductionWaits
<1>10. QED BY <1>5, <1>6, <1>7, <1>8, <1>9

\* Nodes that leave the parser give their text back.
LEMMA SendBackType ==
  ASSUME IInv, NEW r \in Ref, SendBack(r)
  PROVE  /\ input' \in Seq(Item) /\ pt' \in [Ref -> Node] /\ live' \in SUBSET Ref
         /\ next' \in Nat /\ steps' \in Int
         /\ on_deck' \in BOOLEAN /\ stop' \in BOOLEAN
         /\ check_next' = TRUE /\ check_stop' = TRUE
<1> USE DEF IInv, TypeOK, SendBack
<1>1. pt[r] \in Node
  BY DEF NodesOK
<1>2. input' \in Seq(Item)
  <2>1. pt[r].text \in Seq(Item)
    BY <1>1 DEF Node
  <2>2. QED BY <2>1, ConcatType DEF TextBack, ScannerOK
<1>3. pt' \in [Ref -> Node] /\ live' \in SUBSET Ref
  BY BlankType DEF NodesOK
<1>4. next' \in Nat /\ steps' \in Int
  BY <1>1 DEF Node, CountsOK
<1>5. on_deck' \in BOOLEAN /\ stop' \in BOOLEAN
  OBVIOUS
<1>6. QED BY <1>2, <1>3, <1>4, <1>5

LEMMA BtSendBackInv == IInv /\ BtSendBack => IInv'
<1> SUFFICES ASSUME IInv, BtSendBack PROVE IInv' OBVIOUS
<1> USE DEF IInv, TypeOK, BtSendBack
<1>1. /\ input' \in Seq(Item) /\ pt' \in [Ref -> Node] /\ live' \in SUBSET Ref
      /\ next' \in Nat /\ steps' \in Int
      /\ on_deck' \in BOOLEAN /\ stop' \in BOOLEAN
      /\ check_next' = TRUE /\ check_stop' = TRUE
  BY LelType, SendBackType
<1>2. NodesOK' /\ StatesOK'
  BY <1>1, EmptySeq DEF NodesOK, StatesOK
<1>3. ScannerOK' /\ CountsOK' /\ CodeOK'
  BY <1>1 DEF ScannerOK, CountsOK, CodeOK
<1>4. FlagsOK'
  BY <1>1 DEF FlagsOK
<1>5. ScannerFresh' /\ ReadInBounds' /\ ReductionWaits'
  BY DEF ScannerFresh, ReadInBounds, ReductionWaits
<1>6. QED BY <1>2, <1>3, <1>4, <1>5

LEMMA BtIgnoreInv == IInv /\ BtIgnore => IInv'
<1> SUFFICES ASSUME IInv, BtIgnore PROVE IInv' OBVIOUS
<1> USE DEF IInv, TypeOK, BtIgnore
<1>1. Head(accum_ignore) \in Ref /\ Tail(accum_ignore) \in Seq(Ref)
  BY HeadTailType DEF NodesOK
<1>2. /\ input' \in Seq(Item) /\ pt' \in [Ref -> Node] /\ live' \in SUBSET Ref
      /\ next' \in Nat /\ steps' \in Int
      /\ on_deck' \in BOOLEAN /\ stop' \in BOOLEAN
      /\ check_next' = TRUE /\ check_stop' = TRUE
  BY <1>1, SendBackType
<1>3. NodesOK' /\ StatesOK'
  BY <1>1, <1>2 DEF NodesOK, StatesOK
<1>4. ScannerOK' /\ CountsOK' /\ CodeOK'
  BY <1>2 DEF ScannerOK, CountsOK, CodeOK
<1>5. FlagsOK'
  BY <1>2 DEF FlagsOK
<1>6. ScannerFresh' /\ ReadInBounds' /\ ReductionWaits'
  BY DEF ScannerFresh, ReadInBounds, ReductionWaits
<1>7. QED BY <1>3, <1>4, <1>5, <1>6

LEMMA BtDeckInv == IInv /\ BtDeck => IInv'
<1> SUFFICES ASSUME IInv, BtDeck PROVE IInv' OBVIOUS
<1> USE DEF IInv, TypeOK, BtDeck
<1>1. pt' \in [Ref -> Node]
  <2>1. [pt[Lel] EXCEPT !.has_rcode = FALSE] \in Node /\ Lel \in Ref
    BY LelType DEF Node
  <2>2. QED BY <2>1 DEF NodesOK
<1>2. NodesOK' /\ CountsOK' /\ CodeOK'
  BY <1>1 DEF NodesOK, CountsOK, CodeOK
<1>3. FlagsOK'
  BY DEF FlagsOK
<1>4. StatesOK' /\ ScannerOK'
  BY DEF StatesOK, ScannerOK
<1>5. ScannerFresh' /\ ReadInBounds' /\ ReductionWaits'
  BY DEF ScannerFresh, ReadInBounds, ReductionWaits
<1>6. QED BY <1>2, <1>3, <1>4, <1>5

LEMMA HandBackType ==
  ASSUME NEW u \in Node, NEW token \in Node, NEW s \in State
  PROVE  HandBack(u, token, s) \in Node
<1> DEFINE t == [token EXCEPT !.cause_reduce = @ - 1]
<1>1. t \in Node
  BY CauseType
<1>2. u.retry_upper \in Nat
  BY DEF Node
<1> HIDE DEF t
<1>3. [t EXCEPT !.retry_lower = u.retry_upper, !.state = s] \in Node
  BY <1>1, <1>2 DEF Node
<1>4. QED BY <1>1, <1>3 DEF HandBack, t

LEMMA BtUnreduceInv == IInv /\ BtUnreduce => IInv'
<1> SUFFICES ASSUME IInv, BtUnreduce PROVE IInv' OBVIOUS
<1> USE DEF IInv, TypeOK
<1> DEFINE u == pt[Lel]
           inp == Tail(parse_input)
           stk == Reverse(u.child) \o stack
           p1 == [pt EXCEPT ![Lel] = Blank]
           p2 == IF inp = <<>> THEN p1
                 ELSE [p1 EXCEPT ![Head(inp)] =
                         HandBack(u, @, stack_top_target(p1, stk))]
<1>1. /\ stack' = stk /\ parse_input' = inp
      /\ pt' = detach_right_ignore(p2, stk)
      /\ accum_ignore' = DetachedRight(p2, stk, accum_ignore)
      /\ live' = live \ {Lel}
  BY DEF BtUnreduce
<1>2. u \in Node /\ inp \in Seq(Ref) /\ Lel \in Ref
  BY LelType DEF BtUnreduce
<1>3. stk \in Seq(Ref)
  <2>1. u.child \in Seq(Ref)
    BY <1>2 DEF Node
  <2>2. QED BY <2>1, ReverseType, ConcatType DEF NodesOK
<1>4. p1 \in [Ref -> Node]
  BY <1>2, BlankType DEF NodesOK
<1>5. p2 \in [Ref -> Node]
  <2> HIDE DEF u, inp, stk, p1
  <2>1. CASE inp = <<>>
    BY <1>4, <2>1
  <2>2. CASE inp # <<>>
    <3>1. Head(inp) \in Ref /\ p1[Head(inp)] \in Node
      BY <1>2, <1>4, <2>2, HeadTailType
    <3>2. HandBack(u, p1[Head(inp)], stack_top_target(p1, stk)) \in Node
      BY <1>2, <1>3, <1>4, <3>1, TopTargetType, HandBackType
    <3>3. QED BY <1>4, <2>2, <3>1, <3>2
  <2>3. QED BY <2>1, <2>2
<1>6. NodesOK'
  <2> HIDE DEF u, inp, stk, p1, p2
  <2>1. pt' \in [Ref -> Node] /\ accum_ignore' \in Seq(Ref)
    BY <1>1, <1>3, <1>5, DetachType DEF NodesOK
  <2>2. QED BY <1>1, <1>2, <1>3, <2>1 DEF BtUnreduce, NodesOK
<1> USE DEF BtUnreduce
<1>7. CountsOK' /\ CodeOK'
  BY DEF CountsOK, CodeOK
<1>8. FlagsOK'
  BY DEF FlagsOK
<1>9. StatesOK' /\ ScannerOK'
  BY DEF StatesOK, ScannerOK
<1>10. ScannerFresh' /\ ReadInBounds' /\ ReductionWaits'
  BY DEF ScannerFresh, ReadInBounds, ReductionWaits
<1>11. QED BY <1>6, <1>7, <1>8, <1>9, <1>10

-----------------------------------------------------------------------------
(* The end of a round, and the program. *)

LEMMA DoneInv == IInv /\ Done => IInv'
<1> SUFFICES ASSUME IInv, Done PROVE IInv' OBVIOUS
<1> USE DEF IInv, TypeOK, Done
<1>1. /\ region' \in Region /\ pre_region' \in Region \cup {-1}
      /\ fsm' = <<>> /\ tokpref' = 0
  BY NewTokenType DEF StatesOK
<1>2. /\ pc' \in {"idle", "scan"} /\ trigger_undo' \in BOOLEAN
      /\ target_steps' \in Int /\ num_retry' \in Int
  <2>1. (Stops \/ (~parse_error /\ StopFinished)) \in BOOLEAN
    OBVIOUS
  <2>2. QED BY <2>1, EndRoundType
<1>3. NodesOK' /\ CountsOK' /\ CodeOK'
  BY <1>2 DEF NodesOK, CountsOK, CodeOK
<1>4. FlagsOK'
  BY <1>2 DEF FlagsOK
<1>5. StatesOK' /\ ScannerOK'
  BY <1>1, <1>2 DEF StatesOK, ScannerOK, PC
<1>6. ScannerFresh' /\ ReadInBounds' /\ ReductionWaits'
  BY <1>1, <1>2 DEF ScannerOK, ScannerFresh, Taken, ReadInBounds, ReductionWaits
<1>7. QED BY <1>3, <1>4, <1>5, <1>6

USE DEF Idle, Record, parserVars

LEMMA SendInv == \A c \in Chunks : IInv /\ Send(c) => IInv'
<1> SUFFICES ASSUME NEW c \in Chunks, IInv, Send(c) PROVE IInv' OBVIOUS
<1> USE DEF IInv, TypeOK, Send
<1>1. c \in Seq(Item)
  BY ProgramAssumption
<1>2. /\ input' \in Seq(Item) /\ sent' \in Seq(Item)
      /\ Len(input') = Len(input) + Len(c)
      /\ \A i \in 1..Len(input) : input'[i] = input[i]
  BY <1>1, ConcatProperties DEF ScannerOK
<1>3. NodesOK' /\ CountsOK' /\ CodeOK'
  BY DEF NodesOK, CountsOK, CodeOK
<1>4. FlagsOK'
  BY DEF FlagsOK
<1>5. StatesOK' /\ ScannerOK'
  BY <1>2 DEF StatesOK, ScannerOK, PC
<1>6. tokpref \in 0..Len(input) /\ tokpref' = tokpref /\ fsm' = fsm
  BY DEF ReadInBounds, ScannerOK
<1>7. SubSeq(input', 1, tokpref) = SubSeq(input, 1, tokpref)
  BY <1>2, <1>6 DEF ScannerOK
<1>8. ScannerFresh' /\ ReadInBounds' /\ ReductionWaits'
  BY <1>1, <1>2, <1>6, <1>7 DEF ScannerOK, ScannerFresh, Taken, ReadInBounds, ReductionWaits
<1>9. QED BY <1>3, <1>4, <1>5, <1>8

LEMMA SendEofInv == IInv /\ SendEof => IInv'
<1> SUFFICES ASSUME IInv, SendEof PROVE IInv' OBVIOUS
<1> USE DEF IInv, TypeOK, SendEof
<1>1. NodesOK' /\ CountsOK' /\ CodeOK'
  BY DEF NodesOK, CountsOK, CodeOK
<1>2. FlagsOK'
  BY DEF FlagsOK
<1>3. StatesOK' /\ ScannerOK'
  BY DEF StatesOK, ScannerOK
<1>4. ScannerFresh' /\ ReadInBounds' /\ ReductionWaits'
  BY DEF ScannerFresh, Taken, ReadInBounds, ReductionWaits
<1>5. QED BY <1>1, <1>2, <1>3, <1>4

LEMMA ParseFragInv == IInv /\ ParseFrag => IInv'
<1> SUFFICES ASSUME IInv, ParseFrag PROVE IInv' OBVIOUS
<1> USE DEF IInv, TypeOK, ParseFrag
<1>1. NodesOK' /\ CountsOK' /\ CodeOK'
  BY DEF NodesOK, CountsOK, CodeOK
<1>2. FlagsOK'
  BY DEF FlagsOK
<1>3. StatesOK' /\ ScannerOK'
  BY DEF StatesOK, ScannerOK, PC
<1>4. ScannerFresh' /\ ReadInBounds' /\ ReductionWaits'
  BY DEF ScannerFresh, Taken, ReadInBounds, ReductionWaits
<1>5. QED BY <1>1, <1>2, <1>3, <1>4

LEMMA StutterInv == IInv /\ UNCHANGED vars => IInv'
<1> SUFFICES ASSUME IInv, UNCHANGED vars PROVE IInv' OBVIOUS
<1> USE DEF IInv, TypeOK, vars
<1>1. NodesOK' /\ CountsOK' /\ CodeOK'
  BY DEF NodesOK, CountsOK, CodeOK
<1>2. FlagsOK'
  BY DEF FlagsOK
<1>3. StatesOK' /\ ScannerOK'
  BY DEF StatesOK, ScannerOK
<1>4. ScannerFresh' /\ ReadInBounds' /\ ReductionWaits'
  BY DEF ScannerFresh, Taken, ReadInBounds, ReductionWaits
<1>5. QED BY <1>1, <1>2, <1>3, <1>4

LEMMA NextInv == IInv /\ [Next]_vars => IInv'
<1> SUFFICES ASSUME IInv, [Next]_vars PROVE IInv' OBVIOUS
<1>1. CASE ParseStep
  BY <1>1, ScanPreRegionInv, ScanLaterInv, ScanCollectIgnoreInv, ScanNextRegionInv,
     ScanNullInv, ScanEofInv, ScanTreeInv, ScanIgnoreTreeInv, ScanIgnoreInv,
     ScanTokenInv, ScanGenerateInv, NoTransitionInv, ShiftInv, ReduceInv,
     ReductionReturnInv, AgainOutInv, BtReverseInv, BtNextInv, BtStopInv, BtRetryInv,
     BtFailInv, BtUnshiftInv, BtSendBackInv, BtIgnoreInv, BtDeckInv, BtUnreduceInv,
     DoneInv DEF ParseStep
<1>2. CASE Drive
  BY <1>2, SendInv, SendEofInv, ParseFragInv DEF Drive
<1>3. CASE UNCHANGED vars
  BY <1>3, StutterInv
<1>4. QED BY <1>1, <1>2, <1>3 DEF Next

-----------------------------------------------------------------------------
\* Whatever the grammar, the scanner and the program: every variable keeps its
\* type.  No list ever holds what is not a cell, a parser that has not failed
\* never gets to a state that its automaton does not have, the scanner never
\* takes more than there is, and a returning frame finds the node it was for.
THEOREM TypeCorrect == Spec => []TypeOK
<1>1. IInv => TypeOK
  BY DEF IInv
<1>2. QED BY <1>1, InitInv, NextInv, PTL DEF Spec

\* Between two calls and in front of every token, what the scanner has read is
\* what its automaton has seen, in every region, for input sent in pieces of
\* any size and wherever the parser went back to.
THEOREM ScannerIsFresh == Spec => []ScannerFresh
<1>1. IInv => ScannerFresh
  BY DEF IInv
<1>2. QED BY <1>1, InitInv, NextInv, PTL DEF Spec

-----------------------------------------------------------------------------
(* The commit point. *)

CommitBelow == commit_shift_count <= shift_count
CommitStep == commit_shift_count' <= shift_count' /\ commit_shift_count <= commit_shift_count'

LEMMA CommitStepHolds ==
  ASSUME CountsOK, CommitBelow, Next
  PROVE  CommitStep
<1> USE DEF CommitBelow, CommitStep, CountsOK
<1>1. CASE Shift
  BY <1>1 DEF Shift, Commit
<1>2. CASE Reduce
  BY <1>2, SMTT(60) DEF Reduce, Commit
<1>3. CASE BtFail
  BY <1>3 DEF BtFail, AtCommit, CountBack
<1>4. CASE BtUnshift
  BY <1>4 DEF BtUnshift, AtCommit, CountBack
<1>5. CASE ~(Shift \/ Reduce \/ BtFail \/ BtUnshift)
  <2>1. CASE \/ ScanPreRegion \/ ScanLater \/ ScanCollectIgnore \/ ScanNextRegion
             \/ ScanNull \/ ScanEof \/ ScanTree \/ ScanIgnoreTree \/ ScanIgnore
             \/ ScanToken \/ ScanGenerate
    <3>1. UNCHANGED <<shift_count, commit_shift_count>>
      BY <2>1 DEF ScanPreRegion, ScanLater, ScanCollectIgnore, ScanNextRegion,
         ScanNull, ScanEof, ScanTree, ScanIgnoreTree, ScanIgnore, Ignore,
         ScanToken, ScanGenerate
    <3>2. QED BY <3>1
  <2>2. CASE \/ NoTransition \/ ReductionReturn \/ AgainOut
             \/ BtReverse \/ BtNext \/ BtStop \/ BtRetry
             \/ BtSendBack \/ BtIgnore \/ BtDeck \/ BtUnreduce \/ Done
    <3>1. UNCHANGED <<shift_count, commit_shift_count>>
      BY <2>2 DEF NoTransition, ReductionReturn, AgainOut,
         BtReverse, BtNext, BtStop, BtRetry,
         BtSendBack, BtIgnore, BtDeck, BtUnreduce, Done
    <3>2. QED BY <3>1
  <2>3. CASE Drive
    <3>1. UNCHANGED <<shift_count, commit_shift_count>>
      BY <2>3 DEF Drive, Send, SendEof, ParseFrag
    <3>2. QED BY <3>1
  <2>4. QED BY <1>5, <2>1, <2>2, <2>3 DEF Next, ParseStep
<1>6. QED BY <1>1, <1>2, <1>3, <1>4, <1>5

\* For every grammar: the parser stops backing up by comparing the count of
\* shifts with the commit point for equality, and it can never get past it; nor
\* does the commit point ever move back.
THEOREM CommitNotPassed == Spec => CommitFloor
<1>1. Init => CommitBelow
  BY DEF Init, CommitBelow
<1>2. TypeOK /\ CommitBelow /\ [Next]_vars => CommitBelow'
  <2> SUFFICES ASSUME TypeOK, CommitBelow, [Next]_vars PROVE CommitBelow'
    OBVIOUS
  <2>1. CASE Next
    BY <2>1, CommitStepHolds DEF TypeOK, CommitStep, CommitBelow
  <2>2. CASE UNCHANGED vars
    BY <2>2 DEF vars, CommitBelow
  <2>3. QED BY <2>1, <2>2
<1>3. TypeOK /\ CommitBelow /\ [Next]_vars => [CommitStep]_vars
  BY CommitStepHolds DEF TypeOK
<1>4. CommitFloor <=> [][CommitStep]_vars
  BY DEF CommitFloor, CommitStep
<1>5. QED BY <1>1, <1>2, <1>3, <1>4, TypeCorrect, PTL DEF Spec

-----------------------------------------------------------------------------
(* The linked lists: no cell is in two of them.  Each action is taken apart  *)
(* into the few ways in which it can splice lists (the lemmas about Apart),  *)
(* and keeps the lists apart for every grammar.                              *)

\* The lists of a node are sequences of cells.
LEMMA NodeSeqs ==
  ASSUME NEW n \in Node
  PROVE  n.child \in Seq(Ref) /\ n.left_ignore \in Seq(Ref) /\ n.right_ignore \in Seq(Ref)
BY DEF Node

\* The lists of one cell change.
LEMMA HeldUpdate ==
  ASSUME NEW p \in [Ref -> Node], NEW x \in Ref, NEW n \in Node,
         NEW p2, p2 = [p EXCEPT ![x] = n]
  PROVE  /\ p2 \in [Ref -> Node]
         /\ p2[x] = n /\ \A r \in Ref : r # x => p2[r] = p[r]
OBVIOUS

\* The lists of the other cells stay free of duplicates.
LEMMA OnceUpdate ==
  ASSUME NEW p \in [Ref -> Node], NEW x \in Ref, NEW n \in Node,
         \A r \in Ref : ListsOnce(p[r]), ListsOnce(n),
         NEW p2, p2 = [p EXCEPT ![x] = n]
  PROVE  \A r \in Ref : ListsOnce(p2[r])
OBVIOUS

\* A step that changes no list.
LEMMA ApartFields ==
  ASSUME NEW p \in [Ref -> Node], NEW x \in Ref, NEW n \in Node,
         NEW stk, NEW inp, NEW acc, NEW red, NEW lv,
         Apart(p, stk, inp, acc, red, lv),
         n.child = p[x].child, n.left_ignore = p[x].left_ignore,
         n.right_ignore = p[x].right_ignore,
         NEW p2, p2 = [p EXCEPT ![x] = n]
  PROVE  Apart(p2, stk, inp, acc, red, lv)
<1>1. \A r \in Ref : Held(p2[r]) = Held(p[r])
  BY HeldUpdate DEF Held
<1>2. ListsOnce(n)
  BY DEF Apart, ListsOnce
<1>3. SetsApart(ToSet(stk), ToSet(inp), ToSet(acc), red, p2, lv)
  BY <1>1 DEF Apart, SetsApart
<1>4. QED BY <1>2, <1>3, OnceUpdate DEF Apart

\* Ignored text goes from accum_ignore to a cell.
LEMMA ApartAttach ==
  ASSUME NEW p \in [Ref -> Node], NEW x \in Ref, NEW n \in Node,
         NEW stk, NEW inp, NEW acc, NEW red, NEW lv,
         Apart(p, stk, inp, acc, red, lv),
         NEW l \in Seq(Ref), NEW rest \in Seq(Ref),
         IsInjective(l), IsInjective(rest),
         ToSet(l) \cup ToSet(rest) \subseteq ToSet(acc), ToSet(l) \cap ToSet(rest) = {},
         n.child = p[x].child,
         \/ n.left_ignore = l /\ n.right_ignore = p[x].right_ignore
         \/ n.left_ignore = p[x].left_ignore /\ n.right_ignore = l,
         NEW p2, p2 = [p EXCEPT ![x] = n]
  PROVE  Apart(p2, stk, inp, rest, red, lv)
<1>1. p2[x] = n /\ \A r \in Ref : r # x => p2[r] = p[r]
  BY HeldUpdate
<1>2. Held(p[x]) \cap ToSet(acc) = {}
  BY DEF Apart, SetsApart
<1>3. ListsOnce(n)
  BY <1>1, <1>2 DEF Apart, ListsOnce, Held
<1>4. Held(n) \subseteq Held(p[x]) \cup ToSet(l)
  BY <1>1 DEF Held
<1>5. SetsApart(ToSet(stk), ToSet(inp), ToSet(rest), red, p2, lv)
  <2>1. SetsApart(ToSet(stk), ToSet(inp), ToSet(acc), red, p, lv)
    BY DEF Apart
  <2>2. Held(p2[x]) = Held(n) /\ \A r \in Ref : r # x => Held(p2[r]) = Held(p[r])
    BY <1>1
  <2>3. QED BY <1>4, <2>1, <2>2 DEF SetsApart
<1>6. QED BY <1>1, <1>3, <1>5, OnceUpdate DEF Apart

\* A list of a cell becomes accum_ignore.
LEMMA ApartDetach ==
  ASSUME NEW p \in [Ref -> Node], NEW x \in Ref, NEW n \in Node,
         NEW stk, NEW inp, NEW acc, NEW red, NEW lv,
         Apart(p, stk, inp, acc, red, lv),
         NEW rest \in Seq(Ref), IsInjective(rest),
         n.child = p[x].child,
         \/ /\ n.left_ignore = <<>> /\ n.right_ignore = p[x].right_ignore
            /\ ToSet(rest) = ToSet(p[x].left_ignore)
         \/ /\ n.left_ignore = p[x].left_ignore /\ n.right_ignore = <<>>
            /\ ToSet(rest) = ToSet(p[x].right_ignore),
         NEW p2, p2 = [p EXCEPT ![x] = n]
  PROVE  Apart(p2, stk, inp, rest, red, lv)
<1>1. p2[x] = n /\ \A r \in Ref : r # x => p2[r] = p[r]
  BY HeldUpdate
<1>2. ListsOnce(p[x])
  BY DEF Apart
<1>3. ListsOnce(n)
  BY <1>2, EmptySet DEF ListsOnce
<1>4. Held(n) \cup ToSet(rest) \subseteq Held(p[x]) /\ Held(n) \cap ToSet(rest) = {}
  BY <1>1, <1>2, EmptySet DEF Held, ListsOnce
<1>5. SetsApart(ToSet(stk), ToSet(inp), ToSet(rest), red, p2, lv)
  <2>1. SetsApart(ToSet(stk), ToSet(inp), ToSet(acc), red, p, lv)
    BY DEF Apart
  <2>2. Held(p2[x]) = Held(n) /\ \A r \in Ref : r # x => Held(p2[r]) = Held(p[r])
    BY <1>1
  <2>3. QED BY <1>4, <2>1, <2>2 DEF SetsApart
<1>6. QED BY <1>1, <1>3, <1>5, OnceUpdate DEF Apart

\* The first cell of the input goes on the stack.
LEMMA ApartShift ==
  ASSUME NEW p, NEW stk \in Seq(Ref), NEW inp \in Seq(Ref), NEW acc, NEW red, NEW lv,
         Apart(p, stk, inp, acc, red, lv), inp # <<>>
  PROVE  Apart(p, <<Head(inp)>> \o stk, Tail(inp), acc, red, lv)
<1> DEFINE x == Head(inp)
           t == Tail(inp)
<1>1. /\ x \in Ref /\ t \in Seq(Ref) /\ ToSet(inp) = {x} \cup ToSet(t)
      /\ IsInjective(t) /\ x \notin ToSet(t)
  BY HeadSet DEF Apart
<1>2. x \notin ToSet(stk)
  BY <1>1 DEF Apart, SetsApart
<1> HIDE DEF x, t
<1>3. ToSet(<<x>> \o stk) = {x} \cup ToSet(stk) /\ IsInjective(<<x>> \o stk)
  BY <1>1, <1>2, ConsSet DEF Apart
<1>4. SetsApart({x} \cup ToSet(stk), ToSet(t), ToSet(acc), red, p, lv)
  BY <1>1 DEF Apart, SetsApart
<1>5. QED BY <1>1, <1>3, <1>4 DEF Apart, x, t

\* The top of the stack goes back to the input.
LEMMA ApartUnshift ==
  ASSUME NEW p, NEW stk \in Seq(Ref), NEW inp \in Seq(Ref), NEW acc, NEW red, NEW lv,
         Apart(p, stk, inp, acc, red, lv), stk # <<>>
  PROVE  Apart(p, Tail(stk), <<Head(stk)>> \o inp, acc, red, lv)
<1> DEFINE x == Head(stk)
           t == Tail(stk)
<1>1. /\ x \in Ref /\ t \in Seq(Ref) /\ ToSet(stk) = {x} \cup ToSet(t)
      /\ IsInjective(t) /\ x \notin ToSet(t)
  BY HeadSet DEF Apart
<1>2. x \notin ToSet(inp)
  BY <1>1 DEF Apart, SetsApart
<1> HIDE DEF x, t
<1>3. ToSet(<<x>> \o inp) = {x} \cup ToSet(inp) /\ IsInjective(<<x>> \o inp)
  BY <1>1, <1>2, ConsSet DEF Apart
<1>4. SetsApart(ToSet(t), {x} \cup ToSet(inp), ToSet(acc), red, p, lv)
  BY <1>1 DEF Apart, SetsApart
<1>5. QED BY <1>1, <1>3, <1>4 DEF Apart, x, t

\* The first n cells of the stack become the children of a new cell.
LEMMA ApartReduce ==
  ASSUME NEW p \in [Ref -> Node], NEW stk \in Seq(Ref), NEW inp, NEW acc, NEW lv,
         Apart(p, stk, inp, acc, {}, lv),
         NEW x \in Ref, x \notin lv, NEW n \in Node, NEW k \in 0..Len(stk),
         n.child = Reverse(SubSeq(stk, 1, k)),
         n.left_ignore = <<>>, n.right_ignore = <<>>,
         NEW p2, p2 = [p EXCEPT ![x] = n]
  PROVE  Apart(p2, SubSeq(stk, k + 1, Len(stk)), inp, acc, {x},
               lv \cup {x})
<1> DEFINE a == SubSeq(stk, 1, k)
           b == SubSeq(stk, k + 1, Len(stk))
<1>1. p2[x] = n /\ \A r \in Ref : r # x => p2[r] = p[r]
  BY HeldUpdate
<1>2. /\ a \in Seq(Ref) /\ ToSet(stk) = ToSet(a) \cup ToSet(b)
      /\ IsInjective(a) /\ IsInjective(b) /\ ToSet(a) \cap ToSet(b) = {}
  BY SplitSet DEF Apart
<1> HIDE DEF a, b
<1>3. ToSet(n.child) = ToSet(a) /\ IsInjective(n.child)
  BY <1>2, ReverseSet DEF a
<1>4. ListsOnce(n) /\ Held(n) = ToSet(a)
  BY <1>3, EmptySet DEF ListsOnce, Held
<1>5. SetsApart(ToSet(b), ToSet(inp), ToSet(acc), {x}, p2, lv \cup {x})
  <2>1. SetsApart(ToSet(stk), ToSet(inp), ToSet(acc), {}, p, lv)
    BY DEF Apart
  <2>2. Held(p2[x]) = Held(n) /\ \A r \in Ref : r # x => Held(p2[r]) = Held(p[r])
    BY <1>1
  <2>3. \A r \in Ref : /\ Held(p2[r]) \subseteq lv
                       /\ Held(p2[r]) \cap (ToSet(b) \cup ToSet(inp) \cup ToSet(acc)) = {}
    BY <1>2, <1>4, <2>1, <2>2 DEF SetsApart
  <2>4. \A r, q \in Ref : r # q => Held(p2[r]) \cap Held(p2[q]) = {}
    BY <1>2, <1>4, <2>1, <2>2 DEF SetsApart
  <2>5. /\ x \notin ToSet(stk) \cup ToSet(inp) \cup ToSet(acc)
        /\ \A r \in Ref : x \notin Held(p2[r])
    BY <2>1, <2>3 DEF SetsApart
  <2>6. /\ ToSet(b) \cap ToSet(inp) = {} /\ ToSet(b) \cap ToSet(acc) = {}
        /\ ToSet(inp) \cap ToSet(acc) = {}
        /\ ToSet(b) \cup ToSet(inp) \cup ToSet(acc) \subseteq lv
        /\ x \notin ToSet(b)
    BY <1>2, <2>1, <2>5 DEF SetsApart
  <2> DEFINE B == ToSet(b)
             I == ToSet(inp)
             A == ToSet(acc)
  <2> HIDE DEF B, I, A
  <2>7. \A r \in Ref : /\ Held(p2[r]) \subseteq lv \cup {x}
                       /\ Held(p2[r]) \cap (B \cup I \cup A \cup {x}) = {}
    BY <2>3, <2>5 DEF B, I, A
  <2>8. /\ B \cap I = {} /\ B \cap A = {} /\ I \cap A = {}
        /\ B \cup I \cup A \subseteq lv
        /\ x \notin B /\ x \notin I /\ x \notin A
    BY <2>5, <2>6 DEF B, I, A
  <2>9. SetsApart(B, I, A, {x}, p2, lv \cup {x})
    <3>1. /\ B \cap {x} = {} /\ I \cap {x} = {} /\ A \cap {x} = {}
          /\ B \cup I \cup A \cup {x} \subseteq lv \cup {x}
      BY <2>8
    <3>2. QED BY <2>4, <2>7, <2>8, <3>1, Zenon DEF SetsApart
  <2>10. QED BY <2>9 DEF B, I, A
<1>6. QED BY <1>1, <1>2, <1>4, <1>5, OnceUpdate DEF Apart, b

\* The node that was reduced becomes input, or goes on the stack.
LEMMA ApartReturn ==
  ASSUME NEW p, NEW stk \in Seq(Ref), NEW inp \in Seq(Ref), NEW acc, NEW lv, NEW x \in Ref,
         Apart(p, stk, inp, acc, {x}, lv)
  PROVE  /\ Apart(p, stk, <<x>> \o inp, acc, {}, lv)
         /\ Apart(p, <<x>> \o stk, inp, acc, {}, lv)
         /\ Apart(p, stk, inp, acc, {}, lv)
<1>1. x \notin ToSet(stk) /\ x \notin ToSet(inp)
  BY DEF Apart, SetsApart
<1>2. /\ ToSet(<<x>> \o inp) = {x} \cup ToSet(inp) /\ IsInjective(<<x>> \o inp)
      /\ ToSet(<<x>> \o stk) = {x} \cup ToSet(stk) /\ IsInjective(<<x>> \o stk)
  BY <1>1, ConsSet DEF Apart
<1>3. /\ SetsApart({x} \cup ToSet(stk), ToSet(inp), ToSet(acc), {}, p, lv)
      /\ SetsApart(ToSet(stk), {x} \cup ToSet(inp), ToSet(acc), {}, p, lv)
      /\ SetsApart(ToSet(stk), ToSet(inp), ToSet(acc), {}, p, lv)
  BY DEF Apart, SetsApart
<1>4. QED BY <1>2, <1>3 DEF Apart

\* A new cell that holds nothing.
LEMMA ApartNew ==
  ASSUME NEW p \in [Ref -> Node], NEW stk, NEW inp \in Seq(Ref), NEW acc \in Seq(Ref),
         NEW red, NEW lv,
         Apart(p, stk, inp, acc, red, lv),
         NEW x \in Ref, x \notin lv, NEW n \in Node,
         n.child = <<>>, n.left_ignore = <<>>, n.right_ignore = <<>>,
         NEW p2, p2 = [p EXCEPT ![x] = n]
  PROVE  /\ Apart(p2, stk, <<x>>, acc, red, lv \cup {x})
         /\ Apart(p2, stk, inp, <<x>> \o acc, red, lv \cup {x})
<1>1. p2[x] = n /\ \A r \in Ref : r # x => p2[r] = p[r]
  BY HeldUpdate
<1>2. ListsOnce(n) /\ Held(n) = {}
  BY EmptySet DEF ListsOnce, Held
<1>3. x \notin ToSet(acc)
  BY DEF Apart, SetsApart
<1>4. /\ ToSet(<<x>> \o acc) = {x} \cup ToSet(acc) /\ IsInjective(<<x>> \o acc)
      /\ ToSet(<<x>>) = {x} /\ IsInjective(<<x>>)
  BY <1>3, ConsSet, OneSet DEF Apart
<1>5. /\ SetsApart(ToSet(stk), {x}, ToSet(acc), red, p2, lv \cup {x})
      /\ SetsApart(ToSet(stk), ToSet(inp), {x} \cup ToSet(acc), red, p2, lv \cup {x})
  <2>1. SetsApart(ToSet(stk), ToSet(inp), ToSet(acc), red, p, lv)
    BY DEF Apart
  <2>2. Held(p2[x]) = {} /\ \A r \in Ref : r # x => Held(p2[r]) = Held(p[r])
    BY <1>1, <1>2
  <2>3. \A r \in Ref : /\ Held(p2[r]) \subseteq lv
                       /\ Held(p2[r]) \cap (ToSet(stk) \cup ToSet(inp) \cup ToSet(acc) \cup red) = {}
    BY <2>1, <2>2 DEF SetsApart
  <2>4. \A r, q \in Ref : r # q => Held(p2[r]) \cap Held(p2[q]) = {}
    BY <2>1, <2>2 DEF SetsApart
  <2>5. /\ x \notin ToSet(stk) \cup ToSet(inp) \cup ToSet(acc) \cup red
        /\ \A r \in Ref : x \notin Held(p2[r])
    BY <2>1, <2>3 DEF SetsApart
  <2> DEFINE A == ToSet(stk)
             B == ToSet(inp)
             C == ToSet(acc)
  <2> HIDE DEF A, B, C
  <2>6. SetsApart(A, {x}, C, red, p2, lv \cup {x})
    BY <2>1, <2>2, <2>3, <2>4, <2>5 DEF SetsApart, A, B, C
  <2>7. SetsApart(A, B, {x} \cup C, red, p2, lv \cup {x})
    BY <2>1, <2>2, <2>3, <2>4, <2>5 DEF SetsApart, A, B, C
  <2>8. QED BY <2>6, <2>7 DEF A, B, C
<1>6. QED BY <1>1, <1>2, <1>4, <1>5, OnceUpdate DEF Apart

\* A cell at the front of the input or of accum_ignore goes back to the pool.
LEMMA ApartFree ==
  ASSUME NEW p \in [Ref -> Node], NEW stk, NEW inp \in Seq(Ref), NEW acc \in Seq(Ref),
         NEW red, NEW lv, NEW x \in Ref,
         Apart(p, stk, inp, acc, red, lv),
         NEW p2, p2 = [p EXCEPT ![x] = Blank]
  PROVE  /\ inp # <<>> /\ x = Head(inp) =>
              /\ Apart(p2, stk, Tail(inp), acc, red, lv \ {x})
              /\ Apart(p2, stk, <<>>, acc, red, lv \ {x})
         /\ acc # <<>> /\ x = Head(acc) =>
              Apart(p2, stk, inp, Tail(acc), red, lv \ {x})
<1>1. p2[x] = Blank /\ \A r \in Ref : r # x => p2[r] = p[r]
  BY HeldUpdate, BlankType
<1>2. ListsOnce(Blank) /\ Held(Blank) = {}
  BY EmptySet DEF ListsOnce, Held, Blank
<1>3. SetsApart(ToSet(stk), ToSet(inp), ToSet(acc), red, p, lv)
  BY DEF Apart
<1>4. Held(p2[x]) = {} /\ \A r \in Ref : r # x => Held(p2[r]) = Held(p[r])
  BY <1>1, <1>2
<1>5. \A r \in Ref : ListsOnce(p2[r])
  BY <1>2, OnceUpdate, BlankType DEF Apart
<1>6. ASSUME inp # <<>>, x = Head(inp)
      PROVE  /\ Apart(p2, stk, Tail(inp), acc, red, lv \ {x})
             /\ Apart(p2, stk, <<>>, acc, red, lv \ {x})
  <2>1. /\ ToSet(inp) = {x} \cup ToSet(Tail(inp)) /\ x \notin ToSet(Tail(inp))
        /\ IsInjective(Tail(inp))
    BY <1>6, HeadSet DEF Apart
  <2> DEFINE t == ToSet(Tail(inp))
  <2> HIDE DEF t
  <2>2. /\ SetsApart(ToSet(stk), t, ToSet(acc), red, p2, lv \ {x})
        /\ SetsApart(ToSet(stk), {}, ToSet(acc), red, p2, lv \ {x})
    <3>1. \A r \in Ref : /\ Held(p2[r]) \subseteq lv \ {x}
                         /\ Held(p2[r]) \cap (ToSet(stk) \cup ToSet(inp) \cup ToSet(acc) \cup red) = {}
      BY <1>3, <1>4, <2>1 DEF SetsApart
    <3>2. \A r, q \in Ref : r # q => Held(p2[r]) \cap Held(p2[q]) = {}
      BY <1>3, <1>4 DEF SetsApart
    <3>3. QED BY <1>3, <2>1, <3>1, <3>2 DEF SetsApart, t
  <2>3. QED BY <1>1, <1>5, <2>1, <2>2, EmptySet DEF Apart, t
<1>7. ASSUME acc # <<>>, x = Head(acc)
      PROVE  Apart(p2, stk, inp, Tail(acc), red, lv \ {x})
  <2>1. /\ ToSet(acc) = {x} \cup ToSet(Tail(acc)) /\ x \notin ToSet(Tail(acc))
        /\ IsInjective(Tail(acc))
    BY <1>7, HeadSet DEF Apart
  <2> DEFINE t == ToSet(Tail(acc))
  <2> HIDE DEF t
  <2>2. SetsApart(ToSet(stk), ToSet(inp), t, red, p2, lv \ {x})
    <3>1. \A r \in Ref : /\ Held(p2[r]) \subseteq lv \ {x}
                         /\ Held(p2[r]) \cap (ToSet(stk) \cup ToSet(inp) \cup ToSet(acc) \cup red) = {}
      BY <1>3, <1>4, <2>1 DEF SetsApart
    <3>2. \A r, q \in Ref : r # q => Held(p2[r]) \cap Held(p2[q]) = {}
      BY <1>3, <1>4 DEF SetsApart
    <3>3. QED BY <1>3, <2>1, <3>1, <3>2 DEF SetsApart, t
  <2>3. QED BY <1>1, <1>5, <2>1, <2>2 DEF Apart, t
<1>8. QED BY <1>6, <1>7

\* A reduction is undone: the children go back on the stack, and the node to
\* the pool.
LEMMA ApartUnreduce ==
  ASSUME NEW p \in [Ref -> Node], NEW stk \in Seq(Ref), NEW inp \in Seq(Ref),
         NEW acc, NEW red, NEW lv,
         Apart(p, stk, inp, acc, red, lv), inp # <<>>,
         NEW p2, p2 = [p EXCEPT ![Head(inp)] = Blank]
  PROVE  Apart(p2, Reverse(p[Head(inp)].child) \o stk,
               Tail(inp), acc, red, lv \ {Head(inp)})
<1> DEFINE x == Head(inp)
           t == ToSet(Tail(inp))
           kids == Reverse(p[x].child)
<1>1. /\ x \in Ref /\ ToSet(inp) = {x} \cup t /\ x \notin t /\ IsInjective(Tail(inp))
  BY HeadSet DEF Apart
<1> HIDE DEF x, t
<1>2. p2[x] = Blank /\ \A r \in Ref : r # x => p2[r] = p[r]
  BY <1>1, HeldUpdate, BlankType DEF x
<1>3. ListsOnce(Blank) /\ Held(Blank) = {}
  BY EmptySet DEF ListsOnce, Held, Blank
<1>4. SetsApart(ToSet(stk), ToSet(inp), ToSet(acc), red, p, lv) /\ ListsOnce(p[x])
  BY <1>1 DEF Apart
<1>5. Held(p2[x]) = {} /\ \A r \in Ref : r # x => Held(p2[r]) = Held(p[r])
  BY <1>1, <1>2, <1>3
<1>6. \A r \in Ref : ListsOnce(p2[r])
  BY <1>1, <1>3, OnceUpdate, BlankType DEF Apart, x
<1>7. /\ kids \in Seq(Ref) /\ IsInjective(kids) /\ ToSet(kids) \subseteq Held(p[x])
  BY <1>1, <1>2, <1>4, NodeSeqs, ReverseSet DEF ListsOnce, Held
<1> HIDE DEF kids
<1>8. ToSet(kids) \cap ToSet(stk) = {}
  BY <1>1, <1>4, <1>7 DEF SetsApart
<1>9. ToSet(kids \o stk) = ToSet(kids) \cup ToSet(stk) /\ IsInjective(kids \o stk)
  BY <1>7, <1>8, ConcatSet DEF Apart
<1>10. SetsApart(ToSet(kids) \cup ToSet(stk), t, ToSet(acc), red, p2, lv \ {x})
  <2>1. \A r \in Ref :
          /\ Held(p2[r]) \subseteq lv \ {x}
          /\ Held(p2[r]) \cap (ToSet(kids) \cup ToSet(stk) \cup t \cup ToSet(acc) \cup red) = {}
    BY <1>1, <1>4, <1>5, <1>7 DEF SetsApart
  <2>2. \A r, q \in Ref : r # q => Held(p2[r]) \cap Held(p2[q]) = {}
    BY <1>4, <1>5 DEF SetsApart
  <2>3. ToSet(kids) \subseteq lv \ {x} /\ ToSet(kids) \cap (t \cup ToSet(acc) \cup red) = {}
    BY <1>1, <1>4, <1>7 DEF SetsApart
  <2>4. QED BY <1>1, <1>4, <2>1, <2>2, <2>3 DEF SetsApart
<1>11. QED BY <1>1, <1>2, <1>6, <1>9, <1>10 DEF Apart, x, t, kids

-----------------------------------------------------------------------------
USE DEF nodeVars, stateVars, scanVars, btVars, stepVars, endVars, codeVars, driverVars
USE DEF Idle, Record, parserVars

\* The inductive invariant of the lists.  A reduced node is in no list while its
\* frame runs, only red_lel knows it; that variable is empty at all other times.
ListsInv == OneOwner /\ (pc # "reduction" => red_lel = <<>>)

\* What the type invariant says of the lists.
LEMMA ListTypes ==
  ASSUME IInv
  PROVE  /\ pt \in [Ref -> Node] /\ live \in SUBSET Ref
         /\ stack \in Seq(Ref) /\ parse_input \in Seq(Ref) /\ accum_ignore \in Seq(Ref)
BY DEF IInv, TypeOK, NodesOK

\* attach_right_ignore and detach_right_ignore move ignored text between
\* accum_ignore and the top of the stack.
LEMMA AttachRightApart ==
  ASSUME NEW p \in [Ref -> Node], NEW stk \in Seq(Ref), NEW inp, NEW acc \in Seq(Ref),
         NEW red, NEW lv, NEW cut \in RightCuts(p, acc),
         Apart(p, stk, inp, acc, red, lv)
  PROVE  Apart(attach_right_ignore(p, stk, acc, cut), stk, inp,
               AfterRight(p, stk, acc, cut), red, lv)
<1>1. CASE acc # <<>> /\ TakesRight(p, stk)
  <2> DEFINE x == Head(stk)
             a == SubSeq(acc, 1, cut)
             b == SubSeq(acc, cut + 1, Len(acc))
             l == Reverse(b)
             n == [p[x] EXCEPT !.right_ignore = l]
             p2 == [p EXCEPT ![x] = n]
  <2>1. x \in Ref /\ p[x] \in Node
    BY <1>1, HeadTailType DEF TakesRight
  <2>2. cut \in 0..Len(acc)
    BY DEF RightCuts
  <2>3. /\ a \in Seq(Ref) /\ b \in Seq(Ref)
        /\ ToSet(acc) = ToSet(a) \cup ToSet(b)
        /\ IsInjective(a) /\ IsInjective(b) /\ ToSet(a) \cap ToSet(b) = {}
    BY <2>2, SplitSet DEF Apart
  <2>4. /\ l \in Seq(Ref) /\ IsInjective(l) /\ ToSet(l) = ToSet(b)
    <3> HIDE DEF b
    <3>1. QED BY <2>3, ReverseSet
  <2>5. n \in Node /\ n.child = p[x].child /\ n.left_ignore = p[x].left_ignore
        /\ n.right_ignore = l
    <3> HIDE DEF l, x
    <3>1. QED BY <2>1, <2>4 DEF Node
  <2>6. /\ attach_right_ignore(p, stk, acc, cut) = p2
        /\ AfterRight(p, stk, acc, cut) = a
    BY <1>1 DEF attach_right_ignore, AfterRight
  <2> HIDE DEF x, a, b, l, n
  <2>7. ToSet(l) \cup ToSet(a) \subseteq ToSet(acc) /\ ToSet(l) \cap ToSet(a) = {}
    BY <2>3, <2>4
  <2>8. p2 = [p EXCEPT ![x] = n]
    OBVIOUS
  <2> HIDE DEF p2
  <2>9. Apart(p2, stk, inp, a, red, lv)
    BY <2>1, <2>3, <2>4, <2>5, <2>7, <2>8, ApartAttach
  <2>10. QED BY <2>6, <2>9
<1>2. CASE ~(acc # <<>> /\ TakesRight(p, stk))
  BY <1>2 DEF attach_right_ignore, AfterRight
<1>3. QED BY <1>1, <1>2

LEMMA DetachRightApart ==
  ASSUME NEW p \in [Ref -> Node], NEW stk \in Seq(Ref), NEW inp, NEW acc \in Seq(Ref),
         NEW red, NEW lv,
         Apart(p, stk, inp, acc, red, lv)
  PROVE  Apart(detach_right_ignore(p, stk), stk, inp,
               DetachedRight(p, stk, acc), red, lv)
<1>1. CASE HasRight(p, stk)
  <2> DEFINE x == Head(stk)
             n == [p[x] EXCEPT !.right_ignore = <<>>]
             p2 == [p EXCEPT ![x] = n]
             rest == Reverse(p[x].right_ignore)
  <2>1. x \in Ref /\ p[x] \in Node /\ p[x].right_ignore \in Seq(Ref)
    BY <1>1, HeadTailType, NodeSeqs DEF HasRight
  <2>2. /\ detach_right_ignore(p, stk) = p2 /\ DetachedRight(p, stk, acc) = rest
    BY <1>1 DEF detach_right_ignore, DetachedRight
  <2> HIDE DEF x
  <2>3. IsInjective(p[x].right_ignore)
    BY <2>1 DEF Apart, ListsOnce
  <2>4. rest \in Seq(Ref) /\ IsInjective(rest) /\ ToSet(rest) = ToSet(p[x].right_ignore)
    BY <2>1, <2>3, ReverseSet
  <2>5. n \in Node /\ n.child = p[x].child /\ n.left_ignore = p[x].left_ignore
        /\ n.right_ignore = <<>>
    BY <2>1, EmptySeq DEF Node
  <2>6. p2 = [p EXCEPT ![x] = n]
    OBVIOUS
  <2> HIDE DEF n, p2, rest
  <2>7. Apart(p2, stk, inp, rest, red, lv)
    BY <2>1, <2>4, <2>5, <2>6, ApartDetach
  <2>8. QED BY <2>2, <2>7
<1>2. CASE ~HasRight(p, stk)
  BY <1>2 DEF detach_right_ignore, DetachedRight
<1>3. QED BY <1>1, <1>2

\* A step that leaves all the lists alone.
LEMMA KeptLists ==
  ASSUME ListsInv, UNCHANGED <<nodeVars, red_lel>>, pc' = "reduction" => pc = "reduction",
         pc' # "reduction" /\ pc = "reduction" => red_lel = <<>>
  PROVE  ListsInv'
BY DEF ListsInv, OneOwner, RedCells

\* A token enters parse_token: a new cell in the input.
LEMMA EnterParserLists ==
  ASSUME IInv, ListsInv, NEW node \in Node, NEW n \in Int, EnterParser(node, n),
         node.child = <<>>, node.left_ignore = <<>>, node.right_ignore = <<>>,
         pc = "scan", UNCHANGED <<stack, accum_ignore, red_lel>>
  PROVE  ListsInv'
<1>1. PICK r \in Ref :
        /\ Fresh(r) /\ live' = live \cup {r}
        /\ pt' = [pt EXCEPT ![r] = [node EXCEPT !.state = pda_cs,
                                                !.has_rcode = Transfer(n)]]
        /\ parse_input' = <<r>>
  BY DEF EnterParser
<1> DEFINE m == [node EXCEPT !.state = pda_cs, !.has_rcode = Transfer(n)]
<1>2. /\ m \in Node /\ m.child = <<>> /\ m.left_ignore = <<>> /\ m.right_ignore = <<>>
  <2>1. Transfer(n) \in BOOLEAN
    BY DEF Transfer
  <2>2. QED BY <2>1 DEF Node, IInv, TypeOK, StatesOK
<1>3. pt' = [pt EXCEPT ![r] = m] /\ r \notin live
  BY <1>1 DEF Fresh
<1> HIDE DEF m
<1>4. Apart(pt', stack, <<r>>, accum_ignore, RedCells, live \cup {r})
  BY <1>1, <1>2, <1>3, ListTypes, ApartNew DEF ListsInv, OneOwner
<1>5. pc' # "reduction" /\ red_lel = <<>> /\ red_lel' = <<>>
  BY DEF EnterParser, ListsInv
<1>6. QED BY <1>1, <1>4, <1>5 DEF ListsInv, OneOwner, RedCells

\* Ignored text is read: a new cell in accum_ignore.
LEMMA IgnoreLists ==
  ASSUME IInv, ListsInv, NEW node \in Node, Ignore(node), pc = "scan",
         node.child = <<>>, node.left_ignore = <<>>, node.right_ignore = <<>>
  PROVE  ListsInv'
<1>1. PICK r \in Ref :
        /\ Fresh(r) /\ live' = live \cup {r}
        /\ pt' = [pt EXCEPT ![r] = [node EXCEPT !.has_rcode = Transfer(rc_block_count),
                                                !.retry_region = RetryRegion]]
        /\ accum_ignore' = <<r>> \o accum_ignore
  BY DEF Ignore
<1> DEFINE m == [node EXCEPT !.has_rcode = Transfer(rc_block_count),
                             !.retry_region = RetryRegion]
<1>2. /\ m \in Node /\ m.child = <<>> /\ m.left_ignore = <<>> /\ m.right_ignore = <<>>
  <2>1. Transfer(rc_block_count) \in BOOLEAN /\ RetryRegion \in Nat
    BY RetryRegionType DEF Transfer, IInv, TypeOK
  <2>2. QED BY <2>1 DEF Node
<1>3. pt' = [pt EXCEPT ![r] = m] /\ r \notin live
  BY <1>1 DEF Fresh
<1> HIDE DEF m
<1>4. Apart(pt', stack, parse_input, <<r>> \o accum_ignore, RedCells, live \cup {r})
  BY <1>1, <1>2, <1>3, ListTypes, ApartNew DEF ListsInv, OneOwner
<1>5. /\ pc' # "reduction" /\ red_lel = <<>> /\ red_lel' = <<>>
      /\ stack' = stack /\ parse_input' = parse_input
  BY DEF Ignore, ListsInv
<1>6. QED BY <1>1, <1>4, <1>5 DEF ListsInv, OneOwner, RedCells

-----------------------------------------------------------------------------
\* What a shift does to the cell that is shifted and to the one below it.
LEMMA ShiftPtApart ==
  ASSUME IInv, OneOwner, parse_input # <<>>,
         NEW cut \in RightCuts(pt, accum_ignore)
  PROVE  Apart(ShiftPt(cut), stack, parse_input, ShiftAccum, RedCells, live)
<1> DEFINE tok == pt[Lel].id \in Term
           right == tok /\ pt[Lel].cause_reduce = 0
           p1 == IF right THEN attach_right_ignore(pt, stack, accum_ignore, cut) ELSE pt
           rest == IF right THEN AfterRight(pt, stack, accum_ignore, cut)
                   ELSE accum_ignore
           n == p1[Lel]
           li == IF tok THEN Reverse(rest) ELSE n.left_ignore
           rl == IF MoreActs THEN n.retry_lower + 1 ELSE 0
           shifted == [n EXCEPT !.state = pda_cs, !.left_ignore = li, !.retry_lower = rl]
           p2 == [p1 EXCEPT ![Lel] = shifted]
<1>1. p1 \in [Ref -> Node] /\ rest \in Seq(Ref)
  BY AttachType, ListTypes
<1>2. Apart(p1, stack, parse_input, rest, RedCells, live)
  BY ListTypes, AttachRightApart DEF OneOwner
<1>3. ShiftPt(cut) = p2
  BY DEF ShiftPt
<1>4. Lel \in Ref
  BY LelType
<1> HIDE DEF p1, rest
<1>5. n \in Node
  BY <1>1, <1>4
<1>6. n.left_ignore \in Seq(Ref) /\ n.retry_lower \in Nat
  BY <1>5 DEF Node
<1>7. li \in Seq(Ref)
  BY <1>1, <1>6, ReverseType
<1>8. rl \in Nat
  BY <1>6
<1> HIDE DEF li, rl
<1>9. pda_cs \in State
  BY DEF IInv, TypeOK, StatesOK
<1>10. /\ shifted \in Node
       /\ shifted.child = n.child /\ shifted.left_ignore = li
       /\ shifted.right_ignore = n.right_ignore
  <2> HIDE DEF n
  <2>1. QED BY <1>5, <1>7, <1>8, <1>9 DEF Node
<1> HIDE DEF shifted
<1>11. p2 = [p1 EXCEPT ![Lel] = shifted]
  OBVIOUS
<1> HIDE DEF p2
<1>12. CASE tok
  <2>1. li = Reverse(rest) /\ ShiftAccum = <<>>
    BY <1>12 DEF ShiftAccum, li
  <2>2. ToSet(li) = ToSet(rest) /\ IsInjective(li)
    BY <1>1, <1>2, <2>1, ReverseSet DEF Apart
  <2>3. ToSet(<<>>) = {} /\ IsInjective(<<>>) /\ <<>> \in Seq(Ref)
    BY EmptySet
  <2>4. Apart(p2, stack, parse_input, <<>>, RedCells, live)
    BY <1>1, <1>2, <1>4, <1>7, <1>10, <1>11, <2>2, <2>3, ApartAttach
  <2>5. QED BY <1>3, <2>1, <2>4
<1>13. CASE ~tok
  <2>1. li = n.left_ignore /\ rest = accum_ignore /\ ShiftAccum = accum_ignore
    BY <1>13 DEF ShiftAccum, li, rest
  <2>2. Apart(p2, stack, parse_input, rest, RedCells, live)
    BY <1>1, <1>2, <1>4, <1>10, <1>11, <2>1, ApartFields
  <2>3. QED BY <1>3, <2>1, <2>2
<1>14. QED BY <1>12, <1>13

LEMMA ShiftLists == IInv /\ ListsInv /\ Shift => ListsInv'
<1> SUFFICES ASSUME IInv, ListsInv, Shift PROVE ListsInv' OBVIOUS
<1>1. PICK cut \in RightCuts(pt, accum_ignore) : pt' = ShiftPt(cut)
  BY DEF Shift
<1>2. Apart(pt', stack, parse_input, accum_ignore', RedCells, live)
  BY <1>1, ShiftPtApart DEF Shift, ListsInv
<1>3. Apart(pt', stack', parse_input', accum_ignore', RedCells, live)
  BY <1>2, ListTypes, ApartShift DEF Shift, Lel
<1>4. live' = live /\ red_lel' = red_lel /\ pc' = pc
  BY DEF Shift
<1>5. QED BY <1>3, <1>4 DEF ListsInv, OneOwner, RedCells

\* What a reduction does: the children leave the stack for the new node.
LEMMA ReduceApart ==
  ASSUME IInv, ListsInv, pc = "again", parse_input # <<>>, HasTrans(pda_cs, pt[Lel].id),
         NEW cut \in RightCuts(pt, accum_ignore)
  PROVE  Apart(ReducePt(cut), ReduceStack, ReduceInput, ReduceAccum(cut), {}, live)
<1>1. RedCells = {} /\ OneOwner
  BY DEF ListsInv, RedCells
<1>2. CASE Act.shift
  <2>1. Apart(ShiftPt(cut), stack, parse_input, ShiftAccum, {}, live)
    BY <1>1, ShiftPtApart
  <2>2. Apart(ShiftPt(cut), <<Lel>> \o stack, Tail(parse_input), ShiftAccum, {}, live)
    BY <2>1, ListTypes, ApartShift DEF Lel
  <2>3. QED BY <1>2, <2>2 DEF ReducePt, ReduceStack, ReduceInput, ReduceAccum
<1>3. CASE ~Act.shift
  <2>1. Apart(attach_right_ignore(pt, stack, accum_ignore, cut), stack, parse_input,
              AfterRight(pt, stack, accum_ignore, cut), {}, live)
    BY <1>1, ListTypes, AttachRightApart DEF OneOwner
  <2>2. QED BY <1>1, <1>3, <2>1 DEF ReducePt, ReduceStack, ReduceInput, ReduceAccum, OneOwner
<1>4. QED BY <1>2, <1>3

\* The cell that caused the reduction is told so, and keeps its lists.
LEMMA CausedApart ==
  ASSUME NEW p \in [Ref -> Node], ReduceInput \in Seq(Ref), NEW stk, NEW inp, NEW acc,
         NEW red, NEW lv, Apart(p, stk, inp, acc, red, lv)
  PROVE  Caused(p) \in [Ref -> Node] /\ Apart(Caused(p), stk, inp, acc, red, lv)
<1>1. CASE ReduceInput # <<>>
  <2> DEFINE x == Head(ReduceInput)
             n == [p[x] EXCEPT !.cause_reduce = @ + 1]
             p2 == [p EXCEPT ![x] = n]
  <2>1. x \in Ref
    BY <1>1, HeadTailType
  <2>2. p[x] \in Node
    BY <2>1
  <2>3. n \in Node
    BY <2>2, CauseType
  <2>4. n.child = p[x].child /\ n.left_ignore = p[x].left_ignore
        /\ n.right_ignore = p[x].right_ignore
    BY <2>2 DEF Node
  <2>5. Caused(p) = p2
    BY <1>1 DEF Caused
  <2> HIDE DEF x, n
  <2>6. p2 = [p EXCEPT ![x] = n]
    OBVIOUS
  <2> HIDE DEF p2
  <2>7. p2 \in [Ref -> Node]
    BY <2>1, <2>3, <2>6
  <2>8. Apart(p2, stk, inp, acc, red, lv)
    BY <2>1, <2>3, <2>4, <2>6, ApartFields
  <2>9. QED BY <2>5, <2>7, <2>8
<1>2. CASE ReduceInput = <<>>
  BY <1>2 DEF Caused
<1>3. QED BY <1>1, <1>2

LEMMA ReduceLists == IInv /\ ListsInv /\ Reduce => ListsInv'
<1> SUFFICES ASSUME IInv, ListsInv, Reduce PROVE ListsInv' OBVIOUS
<1>1. PICK cut \in RightCuts(pt, accum_ignore), r \in Ref :
       LET p == Caused(ReducePt(cut))
       IN /\ Fresh(r) /\ live' = live \cup {r}
          /\ pt' = [[p EXCEPT ![Lel].retry_lower = 0] EXCEPT ![r] = Reduction(p[Lel])]
          /\ accum_ignore' = ReduceAccum(cut)
          /\ pda_cs' = IF Children = <<>> THEN pda_cs ELSE p[Children[1]].state
          /\ IF Prod[Act.prod].frame = 0
             THEN /\ parse_input' = <<r>> \o ReduceInput
                  /\ UNCHANGED <<red_lel, pc>>
             ELSE /\ parse_input' = ReduceInput
                  /\ red_lel' = <<r, Prod[Act.prod].frame>> /\ pc' = "reduction"
  BY DEF Reduce
<1> DEFINE len == Prod[Act.prod].len
           p == Caused(ReducePt(cut))
           n == [p[Lel] EXCEPT !.retry_lower = 0]
           q == [p EXCEPT ![Lel] = n]
           m == Reduction(p[Lel])
           b == SubSeq(ReduceStack, len + 1, Len(ReduceStack))
<1>2. /\ ReducePt(cut) \in [Ref -> Node] /\ ReduceAccum(cut) \in Seq(Ref)
      /\ ReduceStack \in Seq(Ref) /\ ReduceInput \in Seq(Ref)
  BY ReducePtType DEF Reduce
<1>3. Apart(ReducePt(cut), ReduceStack, ReduceInput, ReduceAccum(cut), {}, live)
  BY ReduceApart DEF Reduce
<1>4. /\ p \in [Ref -> Node]
      /\ Apart(p, ReduceStack, ReduceInput, ReduceAccum(cut), {}, live)
  BY <1>2, <1>3, CausedApart
<1>5. /\ pt' = [q EXCEPT ![r] = m] /\ r \notin live /\ live' = live \cup {r}
      /\ accum_ignore' = ReduceAccum(cut) /\ stack' = b
  BY <1>1 DEF Fresh, Reduce
<1> HIDE DEF p
<1>6. Lel \in Ref /\ p[Lel] \in Node
  BY <1>4, LelType DEF Reduce
<1>7. n \in Node /\ n.child = p[Lel].child /\ n.left_ignore = p[Lel].left_ignore
      /\ n.right_ignore = p[Lel].right_ignore
  BY <1>6 DEF Node
<1> HIDE DEF n
<1>8. q = [p EXCEPT ![Lel] = n]
  OBVIOUS
<1> HIDE DEF q
<1>9. /\ q \in [Ref -> Node]
      /\ Apart(q, ReduceStack, ReduceInput, ReduceAccum(cut), {}, live)
  BY <1>4, <1>6, <1>7, <1>8, ApartFields
<1>10. /\ len \in 0..Len(ReduceStack) /\ Prod[Act.prod].lhs \in Id
  <2>1. pt[Lel].retry_lower \in Nat
    BY LelType DEF Reduce, Node
  <2>2. Act.prod \in DOMAIN Prod
    BY <2>1, ActType DEF Reduce, Act
  <2>3. QED BY <1>2, <2>2, TableAssumption DEF Reduce, Id
<1>11. /\ m.child = Reverse(SubSeq(ReduceStack, 1, len))
       /\ m.left_ignore = <<>> /\ m.right_ignore = <<>>
  BY DEF Reduction, Children, Blank
<1>12. m \in Node
  <2>1. p[Lel].retry_lower \in Nat
    BY <1>6 DEF Node
  <2>2. (IF MoreActs THEN p[Lel].retry_lower + 1 ELSE 0) \in Nat
    BY <2>1
  <2>3. Children \in Seq(Ref)
    BY <1>2, <1>10, PrefixType, ReverseType DEF Children
  <2>4. QED BY <1>10, <2>2, <2>3, BlankType DEF Reduction, Node
<1> HIDE DEF m, len
<1>13. Apart(pt', b, ReduceInput, ReduceAccum(cut), {r}, live \cup {r})
  BY <1>2, <1>5, <1>9, <1>10, <1>11, <1>12, ApartReduce
<1>14. b \in Seq(Ref)
  BY <1>2, <1>10, SuffixType
<1> HIDE DEF b
<1>15. CASE Prod[Act.prod].frame = 0
  <2>1. /\ parse_input' = <<r>> \o ReduceInput /\ red_lel' = red_lel /\ pc' = "again"
    BY <1>1, <1>15 DEF Reduce
  <2>2. Apart(pt', b, <<r>> \o ReduceInput, ReduceAccum(cut), {}, live \cup {r})
    BY <1>2, <1>13, <1>14, ApartReturn
  <2>3. red_lel' = <<>> /\ RedCells' = {}
    BY <2>1 DEF ListsInv, Reduce, RedCells
  <2>4. QED BY <1>5, <2>1, <2>2, <2>3 DEF ListsInv, OneOwner
<1>16. CASE Prod[Act.prod].frame # 0
  <2>1. /\ parse_input' = ReduceInput /\ pc' = "reduction"
        /\ red_lel' = <<r, Prod[Act.prod].frame>>
    BY <1>1, <1>16
  <2>2. RedCells' = {r}
    BY <2>1 DEF RedCells
  <2>3. QED BY <1>5, <1>13, <2>1, <2>2 DEF ListsInv, OneOwner
<1>17. QED BY <1>15, <1>16

LEMMA ReductionReturnLists == IInv /\ ListsInv /\ ReductionReturn => ListsInv'
<1> SUFFICES ASSUME IInv, ListsInv, ReductionReturn PROVE ListsInv' OBVIOUS
<1> DEFINE r == red_lel[1]
           o == RunFrame(red_lel[2])
           writes == o.env # env
           made == IF writes THEN MakeSteps ELSE 0
           n == Returned(pt[r], rc_block_count + made, o.reject)
<1>1. r \in Ref /\ RedCells = {r} /\ red_lel' = <<>> /\ live' = live
      /\ accum_ignore' = accum_ignore
  BY DEF ReductionReturn, ReductionWaits, NodesOK, IInv, TypeOK, RedCells
<1>2. RedCells' = {}
  BY <1>1 DEF RedCells
<1>3. CASE induce_exit'
  <2>1. UNCHANGED <<pt, stack, parse_input>>
    BY <1>3 DEF ReductionReturn
  <2>2. Apart(pt, stack, parse_input, accum_ignore, {}, live)
    BY <1>1, ListTypes, ApartReturn DEF ListsInv, OneOwner
  <2>3. QED BY <1>1, <1>2, <2>1, <2>2 DEF ListsInv, OneOwner
<1>4. CASE ~induce_exit'
  <2>1. /\ pt' = [pt EXCEPT ![r] = n]
        /\ stack' = IF o.reject THEN <<r>> \o stack ELSE stack
        /\ parse_input' = IF o.reject THEN parse_input ELSE <<r>> \o parse_input
    BY <1>4 DEF ReductionReturn, PushRejected
  <2>2. n \in Node /\ n.child = pt[r].child /\ n.left_ignore = pt[r].left_ignore
        /\ n.right_ignore = pt[r].right_ignore
    <3>1. pt[r] \in Node
      BY <1>1, ListTypes
    <3> HIDE DEF r
    <3>2. n \in Node
      BY <3>1, ReturnedType DEF IInv, TypeOK, StatesOK
    <3>3. QED BY <3>1, <3>2 DEF Returned, Node
  <2> HIDE DEF n, r
  <2>3. Apart(pt', stack, parse_input, accum_ignore, {r}, live)
    BY <1>1, <2>1, <2>2, ListTypes, ApartFields DEF ListsInv, OneOwner
  <2>4. /\ Apart(pt', stack, <<r>> \o parse_input, accum_ignore, {}, live)
        /\ Apart(pt', <<r>> \o stack, parse_input, accum_ignore, {}, live)
    BY <1>1, <2>3, ListTypes, ApartReturn
  <2>5. QED BY <1>1, <1>2, <2>1, <2>4 DEF ListsInv, OneOwner
<1>5. QED BY <1>3, <1>4

-----------------------------------------------------------------------------
USE DEF Backtrack, NoDeck, NoChecks

LEMMA BtUnshiftLists == IInv /\ ListsInv /\ BtUnshift => ListsInv'
<1> SUFFICES ASSUME IInv, ListsInv, BtUnshift PROVE ListsInv' OBVIOUS
<1> DEFINE top == Head(stack)
           stk == Tail(stack)
           bare == parse_input = <<>>
           left == bare /\ IsTerm(top) /\ pt[top].left_ignore # <<>>
           acc == IF left THEN Reverse(pt[top].left_ignore) ELSE accum_ignore
           n == [pt[top] EXCEPT !.left_ignore = <<>>]
           p1 == IF left THEN [pt EXCEPT ![top] = n] ELSE pt
           inp == <<top>> \o parse_input
<1>1. /\ stack' = stk /\ parse_input' = inp
      /\ pt' = IF bare THEN detach_right_ignore(p1, stk) ELSE p1
      /\ accum_ignore' = IF bare THEN DetachedRight(p1, stk, acc) ELSE acc
      /\ live' = live /\ red_lel' = red_lel /\ pc' = pc
  BY DEF BtUnshift
<1>2. top \in Ref /\ stk \in Seq(Ref) /\ stack # <<>> /\ pt[top] \in Node
  BY HeadTailType, ListTypes DEF BtUnshift
<1>3. pt[top].left_ignore \in Seq(Ref)
  BY <1>2, NodeSeqs
<1>4. n \in Node /\ n.child = pt[top].child /\ n.left_ignore = <<>>
      /\ n.right_ignore = pt[top].right_ignore
  <2> HIDE DEF top
  <2>1. QED BY <1>2, EmptySeq DEF Node
<1>5. /\ p1 \in [Ref -> Node] /\ acc \in Seq(Ref)
      /\ Apart(p1, stack, parse_input, acc, RedCells, live)
  <2>1. CASE left
    <3>1. /\ IsInjective(pt[top].left_ignore)
      BY <1>2 DEF ListsInv, OneOwner, Apart, ListsOnce
    <3>2. acc = Reverse(pt[top].left_ignore) /\ p1 = [pt EXCEPT ![top] = n]
      BY <2>1
    <3> HIDE DEF top, n, acc, p1
    <3>3. /\ acc \in Seq(Ref) /\ IsInjective(acc)
          /\ ToSet(acc) = ToSet(pt[top].left_ignore)
      BY <1>3, <3>1, <3>2, ReverseSet
    <3>4. Apart(p1, stack, parse_input, acc, RedCells, live)
      BY <1>2, <1>4, <3>2, <3>3, ListTypes, ApartDetach DEF ListsInv, OneOwner
    <3>5. p1 \in [Ref -> Node]
      BY <1>2, <1>4, <3>2, ListTypes
    <3>6. QED BY <3>3, <3>4, <3>5
  <2>2. CASE ~left
    BY <2>2, ListTypes DEF ListsInv, OneOwner
  <2>3. QED BY <2>1, <2>2
<1> HIDE DEF p1, acc
<1>6. Apart(p1, stk, inp, acc, RedCells, live)
  BY <1>2, <1>5, ListTypes, ApartUnshift
<1>7. Apart(detach_right_ignore(p1, stk), stk, inp, DetachedRight(p1, stk, acc),
            RedCells, live)
  BY <1>2, <1>5, <1>6, DetachRightApart
<1>8. QED BY <1>1, <1>6, <1>7 DEF ListsInv, OneOwner, RedCells

LEMMA BtSendBackLists == IInv /\ ListsInv /\ BtSendBack => ListsInv'
<1> SUFFICES ASSUME IInv, ListsInv, BtSendBack PROVE ListsInv' OBVIOUS
<1>1. /\ pt' = [pt EXCEPT ![Lel] = Blank] /\ live' = live \ {Lel}
      /\ parse_input # <<>> /\ parse_input' = <<>> /\ stack' = stack
      /\ accum_ignore' = accum_ignore /\ red_lel' = red_lel /\ pc' = pc
  BY DEF BtSendBack, SendBack
<1>2. Lel \in Ref
  BY <1>1, LelType
<1>3. Apart(pt', stack, <<>>, accum_ignore, RedCells, live \ {Lel})
  BY <1>1, <1>2, ListTypes, ApartFree DEF Lel, ListsInv, OneOwner
<1>4. QED BY <1>1, <1>3 DEF ListsInv, OneOwner, RedCells

LEMMA BtIgnoreLists == IInv /\ ListsInv /\ BtIgnore => ListsInv'
<1> SUFFICES ASSUME IInv, ListsInv, BtIgnore PROVE ListsInv' OBVIOUS
<1> DEFINE x == Head(accum_ignore)
<1>1. /\ pt' = [pt EXCEPT ![x] = Blank] /\ live' = live \ {x}
      /\ accum_ignore # <<>> /\ accum_ignore' = Tail(accum_ignore) /\ stack' = stack
      /\ parse_input' = parse_input /\ red_lel' = red_lel /\ pc' = pc
  BY DEF BtIgnore, SendBack
<1>2. x \in Ref
  BY <1>1, HeadTailType, ListTypes
<1>3. Apart(pt', stack, parse_input, Tail(accum_ignore), RedCells, live \ {x})
  BY <1>1, <1>2, ListTypes, ApartFree DEF ListsInv, OneOwner
<1>4. QED BY <1>1, <1>3 DEF ListsInv, OneOwner, RedCells

LEMMA BtDeckLists == IInv /\ ListsInv /\ BtDeck => ListsInv'
<1> SUFFICES ASSUME IInv, ListsInv, BtDeck PROVE ListsInv' OBVIOUS
<1> DEFINE n == [pt[Lel] EXCEPT !.has_rcode = FALSE]
<1>1. /\ pt' = [pt EXCEPT ![Lel] = n]
      /\ UNCHANGED <<live, stack, parse_input, accum_ignore, red_lel, pc>>
  BY DEF BtDeck
<1>2. Lel \in Ref /\ pt[Lel] \in Node
  BY LelType DEF BtDeck
<1>3. n \in Node /\ n.child = pt[Lel].child /\ n.left_ignore = pt[Lel].left_ignore
      /\ n.right_ignore = pt[Lel].right_ignore
  BY <1>2 DEF Node
<1> HIDE DEF n
<1>4. Apart(pt', stack, parse_input, accum_ignore, RedCells, live)
  BY <1>1, <1>2, <1>3, ListTypes, ApartFields DEF ListsInv, OneOwner
<1>5. QED BY <1>1, <1>4 DEF ListsInv, OneOwner, RedCells

\* The retry of a reduction goes to the token that caused it, which keeps its lists.
LEMMA HandBackLists ==
  ASSUME NEW u \in Node, NEW token \in Node, NEW s \in State
  PROVE  /\ HandBack(u, token, s).child = token.child
         /\ HandBack(u, token, s).left_ignore = token.left_ignore
         /\ HandBack(u, token, s).right_ignore = token.right_ignore
<1> DEFINE t == [token EXCEPT !.cause_reduce = @ - 1]
<1>1. /\ t \in Node /\ t.child = token.child /\ t.left_ignore = token.left_ignore
      /\ t.right_ignore = token.right_ignore
  BY CauseType DEF Node
<1>2. HandBack(u, token, s) = IF u.retry_upper = 0 THEN t
        ELSE [t EXCEPT !.retry_lower = u.retry_upper, !.state = s]
  BY DEF HandBack
<1> HIDE DEF t
<1>3. QED BY <1>1, <1>2 DEF Node

LEMMA BtUnreduceLists == IInv /\ ListsInv /\ BtUnreduce => ListsInv'
<1> SUFFICES ASSUME IInv, ListsInv, BtUnreduce PROVE ListsInv' OBVIOUS
<1> DEFINE u == pt[Lel]
           inp == Tail(parse_input)
           stk == Reverse(u.child) \o stack
           p1 == [pt EXCEPT ![Lel] = Blank]
           x == Head(inp)
           n == HandBack(u, p1[x], stack_top_target(p1, stk))
           p2 == IF inp = <<>> THEN p1 ELSE [p1 EXCEPT ![x] = n]
<1>1. /\ stack' = stk /\ parse_input' = inp
      /\ pt' = detach_right_ignore(p2, stk)
      /\ accum_ignore' = DetachedRight(p2, stk, accum_ignore)
      /\ live' = live \ {Lel} /\ red_lel' = red_lel /\ pc' = pc
  BY DEF BtUnreduce
<1>2. u \in Node /\ inp \in Seq(Ref) /\ Lel \in Ref /\ parse_input # <<>>
  BY LelType DEF BtUnreduce
<1>3. stk \in Seq(Ref)
  <2>1. u.child \in Seq(Ref)
    BY <1>2 DEF Node
  <2>2. QED BY <2>1, ReverseType, ConcatType, ListTypes
<1>4. p1 \in [Ref -> Node]
  BY <1>2, BlankType, ListTypes
<1>5. Apart(p1, stk, inp, accum_ignore, RedCells, live \ {Lel})
  BY <1>2, ListTypes, ApartUnreduce DEF Lel, ListsInv, OneOwner
<1>6. /\ p2 \in [Ref -> Node]
      /\ Apart(p2, stk, inp, accum_ignore, RedCells, live \ {Lel})
  <2> HIDE DEF u, inp, stk, p1
  <2>1. CASE inp = <<>>
    BY <1>4, <1>5, <2>1
  <2>2. CASE inp # <<>>
    <3>1. x \in Ref /\ p1[x] \in Node
      BY <1>2, <1>4, <2>2, HeadTailType
    <3>2. /\ n \in Node /\ n.child = p1[x].child /\ n.left_ignore = p1[x].left_ignore
          /\ n.right_ignore = p1[x].right_ignore
      BY <1>2, <1>3, <1>4, <3>1, TopTargetType, HandBackType, HandBackLists
    <3> HIDE DEF n, x
    <3>3. p2 = [p1 EXCEPT ![x] = n]
      BY <2>2
    <3> HIDE DEF p2
    <3>4. Apart(p2, stk, inp, accum_ignore, RedCells, live \ {Lel})
      BY <1>4, <1>5, <3>1, <3>2, <3>3, ApartFields
    <3>5. p2 \in [Ref -> Node]
      BY <1>4, <3>1, <3>2, <3>3
    <3>6. QED BY <3>4, <3>5
  <2>3. QED BY <2>1, <2>2
<1> HIDE DEF p2, stk
<1>7. Apart(pt', stk, inp, accum_ignore', RedCells, live \ {Lel})
  BY <1>1, <1>3, <1>6, ListTypes, DetachRightApart
<1>8. QED BY <1>1, <1>7 DEF ListsInv, OneOwner, RedCells

-----------------------------------------------------------------------------
\* At the start there are no lists.
LEMMA InitLists == Init => ListsInv
<1> SUFFICES ASSUME Init PROVE ListsInv OBVIOUS
<1>1. ListsOnce(Blank) /\ Held(Blank) = {}
  BY EmptySet DEF ListsOnce, Held, Blank
<1>2. \A r \in Ref : ListsOnce(pt[r]) /\ Held(pt[r]) = {}
  BY <1>1 DEF Init
<1>3. /\ stack = <<>> /\ parse_input = <<>> /\ accum_ignore = <<>> /\ red_lel = <<>>
      /\ live = {} /\ pc = "idle"
  BY DEF Init
<1>4. SetsApart({}, {}, {}, {}, pt, {})
  BY <1>2 DEF SetsApart
<1>5. QED BY <1>2, <1>3, <1>4, EmptySet DEF ListsInv, OneOwner, Apart, RedCells

\* The scanning that sends a node to parse_token.
LEMMA EnterLists ==
  /\ IInv /\ ListsInv /\ ScanCollectIgnore => ListsInv'
  /\ IInv /\ ListsInv /\ ScanEof => ListsInv'
  /\ IInv /\ ListsInv /\ ScanTree => ListsInv'
  /\ IInv /\ ListsInv /\ ScanToken => ListsInv'
<1> DEFINE node1 == [Blank EXCEPT !.id = CiLel[region], !.retry_region = RetryRegion]
           node2 == [Blank EXCEPT !.id = EofId]
           node3 == [Blank EXCEPT !.id = ItemId[Head(input)], !.artificial = TRUE,
                                  !.text = <<Head(input)>>]
<1>1. ASSUME IInv, ListsInv, ScanCollectIgnore PROVE ListsInv'
  <2>1. node1 \in Node
    BY <1>1, BlankType, RetryRegionType, RegionAssumption
    DEF Node, ScannerOK, Id, IInv, TypeOK, ScanCollectIgnore
  <2>2. node1.child = <<>> /\ node1.left_ignore = <<>> /\ node1.right_ignore = <<>>
    BY DEF Blank
  <2>3. /\ EnterParser(node1, rc_block_count) /\ pc = "scan"
        /\ UNCHANGED <<stack, accum_ignore, red_lel>>
    BY <1>1 DEF ScanCollectIgnore
  <2>4. rc_block_count \in Int
    BY <1>1 DEF IInv, TypeOK, CodeOK
  <2> HIDE DEF node1
  <2>5. QED BY <1>1, <2>1, <2>2, <2>3, <2>4, EnterParserLists
<1>2. ASSUME IInv, ListsInv, ScanEof PROVE ListsInv'
  <2> DEFINE writes == RunFrame(EofFrame[region]).env # env
             k == rc_block_count + (IF writes THEN MakeSteps ELSE 0)
  <2>1. node2 \in Node
    BY BlankType, IdAssumption DEF Node, Id
  <2>2. node2.child = <<>> /\ node2.left_ignore = <<>> /\ node2.right_ignore = <<>>
    BY DEF Blank
  <2>3. /\ EnterParser(node2, k) /\ pc = "scan"
        /\ UNCHANGED <<stack, accum_ignore, red_lel>>
    BY <1>2 DEF ScanEof
  <2>4. k \in Int
    BY <1>2 DEF IInv, TypeOK, CodeOK, MakeSteps
  <2> HIDE DEF node2, k
  <2>5. QED BY <1>2, <2>1, <2>2, <2>3, <2>4, EnterParserLists
<1>3. ASSUME IInv, ListsInv, ScanTree PROVE ListsInv'
  <2>1. node3 \in Node
    <3>1. ItemId[Head(input)] \in Id /\ <<Head(input)>> \in Seq(Item)
      BY <1>3, TreeItemType DEF ScanTree, Item, Id
    <3>2. QED BY <3>1, BlankType DEF Node
  <2>2. node3.child = <<>> /\ node3.left_ignore = <<>> /\ node3.right_ignore = <<>>
    BY DEF Blank
  <2>3. /\ EnterParser(node3, rc_block_count) /\ pc = "scan"
        /\ UNCHANGED <<stack, accum_ignore, red_lel>>
    BY <1>3 DEF ScanTree
  <2>4. rc_block_count \in Int
    BY <1>3 DEF IInv, TypeOK, CodeOK
  <2> HIDE DEF node3
  <2>5. QED BY <1>3, <2>1, <2>2, <2>3, <2>4, EnterParserLists
<1>4. ASSUME IInv, ListsInv, ScanToken PROVE ListsInv'
  <2>1. PICK t \in Matches :
          EnterParser([Blank EXCEPT !.id = t.id, !.retry_region = RetryRegion,
                                    !.text = Taken(MatchLen(t))], rc_block_count)
    BY <1>4 DEF ScanToken
  <2> DEFINE node == [Blank EXCEPT !.id = t.id, !.retry_region = RetryRegion,
                                   !.text = Taken(MatchLen(t))]
  <2>2. /\ t.id \in Id /\ Taken(MatchLen(t)) \in Seq(Item)
    BY <1>4, MatchType DEF ScanToken, Id
  <2>3. RetryRegion \in Nat
    BY <1>4, RetryRegionType DEF IInv, TypeOK
  <2>4. node \in Node
    BY <2>2, <2>3, BlankType DEF Node
  <2>5. node.child = <<>> /\ node.left_ignore = <<>> /\ node.right_ignore = <<>>
    BY DEF Blank
  <2>6. EnterParser(node, rc_block_count)
    BY <2>1
  <2>7. pc = "scan" /\ UNCHANGED <<stack, accum_ignore, red_lel>>
    BY <1>4 DEF ScanToken
  <2>8. rc_block_count \in Int
    BY <1>4 DEF IInv, TypeOK, CodeOK
  <2> HIDE DEF node
  <2>9. QED BY <1>4, <2>4, <2>5, <2>6, <2>7, <2>8, EnterParserLists
<1>5. QED BY <1>1, <1>2, <1>3, <1>4

\* The scanning of ignored text.
LEMMA IgnoredLists ==
  /\ IInv /\ ListsInv /\ ScanIgnoreTree => ListsInv'
  /\ IInv /\ ListsInv /\ ScanIgnore => ListsInv'
<1> DEFINE node == [Blank EXCEPT !.id = ItemId[Head(input)], !.artificial = TRUE,
                                 !.text = <<Head(input)>>]
<1>1. ASSUME IInv, ListsInv, ScanIgnoreTree PROVE ListsInv'
  <2>1. node \in Node
    <3>1. ItemId[Head(input)] \in Id /\ <<Head(input)>> \in Seq(Item)
      BY <1>1, TreeItemType DEF ScanIgnoreTree, Item, Id
    <3>2. QED BY <3>1, BlankType DEF Node
  <2>2. node.child = <<>> /\ node.left_ignore = <<>> /\ node.right_ignore = <<>>
    BY DEF Blank
  <2>3. Ignore(node) /\ pc = "scan"
    BY <1>1 DEF ScanIgnoreTree
  <2> HIDE DEF node
  <2>4. QED BY <1>1, <2>1, <2>2, <2>3, IgnoreLists
<1>2. ASSUME IInv, ListsInv, ScanIgnore PROVE ListsInv'
  <2>1. PICK t \in Matches :
          Ignore([Blank EXCEPT !.id = t.id, !.right_flag = (pre_region >= 0),
                               !.text = Taken(MatchLen(t))])
    BY <1>2 DEF ScanIgnore
  <2> DEFINE m == [Blank EXCEPT !.id = t.id, !.right_flag = (pre_region >= 0),
                                !.text = Taken(MatchLen(t))]
  <2>2. /\ t.id \in Id /\ Taken(MatchLen(t)) \in Seq(Item)
        /\ (pre_region >= 0) \in BOOLEAN
    BY <1>2, MatchType DEF ScanIgnore, Id
  <2>3. m \in Node
    BY <2>2, BlankType DEF Node
  <2>4. m.child = <<>> /\ m.left_ignore = <<>> /\ m.right_ignore = <<>>
    BY DEF Blank
  <2>5. Ignore(m) /\ pc = "scan"
    BY <1>2, <2>1 DEF ScanIgnore
  <2> HIDE DEF m
  <2>6. QED BY <1>2, <2>3, <2>4, <2>5, IgnoreLists
<1>3. QED BY <1>1, <1>2


\* The actions that leave every node where it is.
LEMMA OtherLists ==
  ASSUME ListsInv,
         \/ ScanPreRegion \/ ScanLater \/ ScanNextRegion \/ ScanNull \/ ScanGenerate
         \/ NoTransition \/ AgainOut \/ BtReverse \/ BtNext \/ BtStop \/ BtRetry
         \/ BtFail \/ Done \/ Drive \/ UNCHANGED vars
  PROVE  ListsInv'
<1>1. UNCHANGED <<nodeVars, red_lel>>
  <2>1. CASE \/ ScanPreRegion \/ ScanLater \/ ScanNextRegion \/ ScanNull
             \/ ScanGenerate \/ NoTransition \/ AgainOut
    BY <2>1 DEF ScanPreRegion, ScanLater, ScanNextRegion, ScanNull, ScanGenerate,
       NoTransition, AgainOut
  <2>2. CASE BtReverse \/ BtNext \/ BtStop \/ BtRetry \/ BtFail \/ Done
    BY <2>2 DEF BtReverse, BtNext, BtStop, BtRetry, BtFail, Done
  <2>3. CASE Drive \/ UNCHANGED vars
    BY <2>3 DEF Drive, Send, SendEof, ParseFrag, vars
  <2>4. QED BY <2>1, <2>2, <2>3
<1>2. \/ pc # "reduction" /\ pc' # "reduction"
      \/ pc' = pc
  <2>1. CASE \/ ScanPreRegion \/ ScanLater \/ ScanNextRegion \/ ScanNull
             \/ ScanGenerate \/ NoTransition \/ AgainOut
    BY <2>1 DEF ScanPreRegion, ScanLater, ScanNextRegion, ScanNull, ScanGenerate,
       NoTransition, AgainOut, SkipSend, EndRound
  <2>2. CASE BtReverse \/ BtNext \/ BtStop \/ BtRetry \/ BtFail \/ Done
    BY <2>2 DEF BtReverse, BtNext, BtStop, BtRetry, BtFail, Done, AtUnshift, EndRound
  <2>3. CASE Drive \/ UNCHANGED vars
    BY <2>3 DEF Drive, Send, SendEof, ParseFrag, vars
  <2>4. QED BY <2>1, <2>2, <2>3
<1>3. QED BY <1>1, <1>2, KeptLists

\* Every step of the parser and of its driver keeps the lists apart.
LEMMA NextLists == IInv /\ ListsInv /\ [Next]_vars => ListsInv'
<1> SUFFICES ASSUME IInv, ListsInv, [Next]_vars PROVE ListsInv' OBVIOUS
<1>1. CASE ScanCollectIgnore \/ ScanEof \/ ScanTree \/ ScanToken \/ ScanIgnoreTree
           \/ ScanIgnore
  BY <1>1, EnterLists, IgnoredLists
<1>2. CASE Shift \/ Reduce \/ ReductionReturn
  BY <1>2, ShiftLists, ReduceLists, ReductionReturnLists
<1>3. CASE BtUnshift \/ BtSendBack \/ BtIgnore \/ BtDeck \/ BtUnreduce
  BY <1>3, BtUnshiftLists, BtSendBackLists, BtIgnoreLists, BtDeckLists, BtUnreduceLists
<1>4. CASE ~(\/ ScanCollectIgnore \/ ScanEof \/ ScanTree \/ ScanToken \/ ScanIgnoreTree
             \/ ScanIgnore \/ Shift \/ Reduce \/ ReductionReturn \/ BtUnshift
             \/ BtSendBack \/ BtIgnore \/ BtDeck \/ BtUnreduce)
  BY <1>4, OtherLists DEF Next, ParseStep
<1>5. QED BY <1>1, <1>2, <1>3, <1>4

-----------------------------------------------------------------------------
\* The linked lists of the parser never share a cell, for every grammar, scanner
\* and program: no splice of shift, reduce, unreduce, unshift or of the ignored
\* text (pdarun.c) puts a cell into two lists, or leaves one that was freed in
\* any.  That none is lost is not part of it: detach_right_ignore overwrites
\* what accum_ignore held.
THEOREM OneList == Spec => []OneOwner
<1>1. ListsInv => OneOwner
  BY DEF ListsInv
<1>2. QED BY <1>1, InitInv, NextInv, InitLists, NextLists, PTL DEF Spec
=============================================================================
