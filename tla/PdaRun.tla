------------------------------- MODULE PdaRun -------------------------------
(***************************************************************************)
(* The generalized LR parser of the colm runtime (src/src/pdarun.c): the   *)
(* parse loop, which asks a scanner for the next token of the input stream *)
(* and hands it to the pushdown automaton; parse_token, which shifts and   *)
(* reduces until the token is consumed and, on an error, walks backwards   *)
(* through everything it did until it finds a choice it has not tried; and *)
(* colm_parse_undo_frag, which walks backwards on request.                 *)
(*                                                                         *)
(* Parse tree nodes are cells of a pool, as in the code: pt is the         *)
(* contents of the cells, live the allocated ones, and the linked lists    *)
(* (stack, parse_input, accum_ignore, children, attached ignores) are      *)
(* sequences of cells, in the order their next pointers have.  The         *)
(* sentinel at the bottom of the stack is left out: an empty stack is the  *)
(* stack that holds the sentinel alone.                                    *)
(*                                                                         *)
(* The input stream is a sequence of items: characters, trees sent whole   *)
(* and ignored trees.  A semantic action (the frame of a production, of a  *)
(* token or of the end of file) reads and writes one environment value and *)
(* leaves reverse code that puts the old value back.                       *)
(***************************************************************************)
EXTENDS Integers, Sequences, SequencesExt

CONSTANTS
  Ref,            \* the cells of the parse tree pool
  PdaState,       \* states of the automaton
  StartState,     \* start_states[parser_id]
  Term, NonTerm,  \* ids of the terminals (ignores included), of the nonterminals
  EofId,          \* eof_lel_ids[parser_id]
  StopTarget,     \* stop_target, or 0
  Trans,          \* <<state, id>> -> [targ, acts, commit], where there is one
  Prod,           \* production -> [lhs, len, frame]
  Char,           \* items that are text
  TreeItem,       \* items that are trees, sent whole
  IgnoreTreeItem, \* items that are ignored trees
  ItemId,         \* the id a tree item is parsed as (after the termdup flip)
  Region,         \* scanner regions, as in the tables: 0 is the EOF region
  Tokens,         \* region -> the tokens its scanner matches, [id, text];
                  \* none in region 0
  CiLel,          \* region -> its collect-ignore token, or 0
  EofFrame,       \* region -> frame to run before EOF, or 0
  IgnoreId,       \* token ids that are ignored
  GenFrame,       \* token id -> the frame of its generation action, or 0
  GenPush,        \* token id -> the items its generation action pushes
  TokenRegions,   \* token_regions, index -> region
  PreRegions,     \* token_pre_regions, index -> region, or -1
  TokenRegionInds,\* state -> index of the first region of the state
  EnvVal, Env0,   \* values of the environment, its first value
  Outcome,        \* frame -> environment -> [env, reject, exit]
  WV,             \* whether the program runs with reverse code (exec->WV)
  Chunks,         \* what the program may send to the parser in one statement
  MaxSent, MaxOps \* bounds: items sent, statements run

VARIABLES
  pt, live, stack, parse_input, accum_ignore, red_lel,
  pda_cs, cur_state, next_region_ind,
  region, pre_region, fsm, tokpref,
  check_next, check_stop, next, on_deck,
  shift_count, commit_shift_count, num_retry,
  steps, target_steps, stop, trigger_undo,
  parse_error, eof_term_recvd, stop_parsing, induce_exit,
  reverse_code, rc_block_count, env,
  input, eof_mark, hist,
  pc,
  sent,              \* history: the items sent so far
  goal               \* history: what the last undone statement must restore

nodeVars == <<pt, live, stack, parse_input, accum_ignore>>
stateVars == <<pda_cs, next_region_ind>>
scanVars == <<region, pre_region, fsm, tokpref>>
btVars == <<check_next, check_stop, next, on_deck>>
stepVars == <<target_steps, stop, trigger_undo>>
endVars == <<parse_error, stop_parsing, induce_exit>>
codeVars == <<reverse_code, rc_block_count, env>>
driverVars == <<eof_mark, hist, sent, goal>>
vars == <<nodeVars, red_lel, stateVars, cur_state, scanVars, btVars,
          shift_count, commit_shift_count, num_retry, steps, stepVars, endVars,
          eof_term_recvd, codeVars, input, driverVars, pc>>
-----------------------------------------------------------------------------
(* Types. *)

Item == Char \cup TreeItem \cup IgnoreTreeItem
Id == Term \cup NonTerm
State == PdaState \cup {-1}
RegionIndex == DOMAIN TokenRegions
Frame == DOMAIN Outcome
Action == [shift : BOOLEAN, prod : DOMAIN Prod \cup {0}]
Token == [id : Term, text : Seq(Char)]
ShiftReduce(act) == act.shift /\ act.prod # 0

Node == [id : Id \cup {0}, state : State,
         cause_reduce : Int, retry_lower : Nat, retry_upper : Nat,
         retry_region : Nat, has_rcode : BOOLEAN, artificial : BOOLEAN,
         right_flag : BOOLEAN,
         child : Seq(Ref), left_ignore : Seq(Ref), right_ignore : Seq(Ref),
         text : Seq(Item)]

Block == [deck : BOOLEAN, env : EnvVal, pulled : Seq(Item), pushed : Nat]

\* The tables have the shape that the compiler gives them.
ASSUME IdAssumption ==
  /\ Ref \subseteq Nat /\ Id \subseteq Nat \ {0}
  \* Terminals are told from nonterminals by their ids (first_non_term_id).
  /\ Term \cap NonTerm = {}
  /\ PdaState \subseteq Nat /\ StartState \in PdaState /\ EofId \in Term

ASSUME TableAssumption ==
  /\ DOMAIN Trans \subseteq PdaState \X Id
  /\ \A k \in DOMAIN Trans :
       /\ Trans[k] \in [targ : PdaState, acts : Seq(Action), commit : BOOLEAN]
       \* The compiler asserts this of its tables (pdabuild.cc, analyzeMachine):
       \* a shift-reduce is alone, a nonterminal has one action and is shifted.
       /\ (k[2] \in NonTerm \/ \E i \in DOMAIN Trans[k].acts : ShiftReduce(Trans[k].acts[i]))
            => Len(Trans[k].acts) = 1 /\ Trans[k].acts[1].shift
       \* A shift takes over the reduction of the state it goes to when that is
       \* all the state does (advanceReductions); an empty production is reduced
       \* in a state that shifts its left side.
       /\ \A i \in DOMAIN Trans[k].acts :
            ShiftReduce(Trans[k].acts[i]) => Prod[Trans[k].acts[i].prod].len > 0
  /\ \A p \in DOMAIN Prod :
       Prod[p] \in [lhs : NonTerm, len : Nat, frame : Frame \cup {0}]
  /\ DOMAIN Prod \subseteq Nat \ {0} /\ Frame \subseteq Nat \ {0}

ASSUME RegionAssumption ==
  /\ 0 \in Region /\ Region \subseteq Nat
  /\ \A rg \in Region : Tokens[rg] \subseteq Token
  /\ CiLel \in [Region -> Term \cup {0}]
  /\ EofFrame \in [Region -> Frame \cup {0}]
  /\ RegionIndex \subseteq Nat
  /\ \A i \in RegionIndex : /\ TokenRegions[i] \in Region
                           /\ PreRegions[i] \in Region \cup {-1}
  /\ \A s \in PdaState : TokenRegionInds[s] \in Nat \ {0}

ASSUME ProgramAssumption ==
  /\ ItemId \in [TreeItem \cup IgnoreTreeItem -> Term]
  /\ GenFrame \in [Term -> Frame \cup {0}]
  /\ GenPush \in [Term -> Seq(Item)]
  /\ Env0 \in EnvVal
  /\ \A f \in Frame :
       Outcome[f] \in [EnvVal -> [env : EnvVal, reject : BOOLEAN, exit : BOOLEAN]]
  /\ Chunks \subseteq Seq(Item)

PC == {"idle", "scan", "again", "reduction", "backtrack", "done"}

\* A cell fresh from the pool, which hands out zeroed memory.
Blank == [id |-> 0, state |-> -1, cause_reduce |-> 0, retry_lower |-> 0,
          retry_upper |-> 0, retry_region |-> 0, has_rcode |-> FALSE,
          artificial |-> FALSE, right_flag |-> FALSE, child |-> <<>>,
          left_ignore |-> <<>>, right_ignore |-> <<>>, text |-> <<>>]

\* parse_tree_allocate: the pool hands out the first free cell.
Fresh(r) == r \in Ref \ live /\ \A q \in Ref \ live : r <= q
-----------------------------------------------------------------------------
(* Tables and lists. *)

HasTrans(s, x) == <<s, x>> \in DOMAIN Trans

\* Where a node that was shifted leads to.  The lookup is not checked in the
\* code: -1 stands for whatever it would read where there is no transition.
Found(p, r) == HasTrans(p[r].state, p[r].id)
Target(p, r) == IF Found(p, r) THEN Trans[<<p[r].state, p[r].id>>].targ ELSE -1

\* stack_top_target: the state the parser is in when the top of the stack is
\* the last thing it shifted.
stack_top_target(p, stk) == IF stk = <<>> THEN StartState ELSE Target(p, Head(stk))

RegionAt(i) == IF i \in RegionIndex THEN TokenRegions[i] ELSE 0
PreRegionAt(i) == IF i \in RegionIndex THEN PreRegions[i] ELSE 0
RegionInd(s) == IF s \in PdaState THEN TokenRegionInds[s] ELSE 0

\* Mutant: -1 where there is no region to go back to.
RetryRegion_minus ==
  IF accum_ignore = <<>> THEN next_region_ind ELSE -1

\* set_region: the node remembers the region its text was scanned in, when no
\* ignored text was scanned before it; one more retry if another region is left.
RetryRegion == IF accum_ignore = <<>> THEN next_region_ind ELSE 0
SetRetries == IF accum_ignore = <<>> /\ RegionAt(next_region_ind + 1) # 0 THEN 1 ELSE 0

\* The retry of a node that remembers a region.
RegionRetries(rr) == IF rr > 0 /\ RegionAt(rr + 1) # 0 THEN 1 ELSE 0

-----------------------------------------------------------------------------
(* Attaching and detaching ignored text.  accum_ignore has the newest first; *)
(* the attached lists are its reversal.                                      *)

\* How many of the accumulated ignores stay when a right ignore is attached:
\* those up to the oldest that was not scanned in a pre-region.
RightCuts(p, acc) ==
  {k \in 0..Len(acc) :
     /\ k > 0 => ~p[acc[k]].right_flag
     /\ \A i \in (k + 1)..Len(acc) : p[acc[i]].right_flag}

TakesRight(p, stk) == stk # <<>> /\ p[Head(stk)].id \in Term

attach_right_ignore(p, stk, acc, cut) ==
  IF acc # <<>> /\ TakesRight(p, stk)
  THEN [p EXCEPT ![Head(stk)].right_ignore =
                    Reverse(SubSeq(acc, cut + 1, Len(acc)))]
  ELSE p

AfterRight(p, stk, acc, cut) ==
  IF acc # <<>> /\ TakesRight(p, stk) THEN SubSeq(acc, 1, cut) ELSE acc

\* detach_right_ignore on the new top of the stack: the list becomes
\* accum_ignore, whatever accum_ignore held.
HasRight(p, stk) == stk # <<>> /\ p[Head(stk)].right_ignore # <<>>

detach_right_ignore(p, stk) ==
  IF HasRight(p, stk) THEN [p EXCEPT ![Head(stk)].right_ignore = <<>>] ELSE p

DetachedRight(p, stk, acc) ==
  IF HasRight(p, stk) THEN Reverse(p[Head(stk)].right_ignore) ELSE acc

-----------------------------------------------------------------------------
(* Reverse code: a stack of blocks, the oldest first.  The blocks one node   *)
(* owns sit above a deck terminator.                                         *)

DeckBlock == [deck |-> TRUE, env |-> Env0, pulled |-> <<>>, pushed |-> 0]
\* colm_make_reverse_code with what a frame collected; the terminator goes in
\* with the first block since the last transfer.
MakeReverse(collected) ==
  reverse_code \o (IF rc_block_count = 0 THEN <<DeckBlock>> ELSE <<>>)
               \o <<collected>>

\* Mutant: the terminator is not counted as a step.
MakeSteps_one == 1
MakeSteps == IF rc_block_count = 0 THEN 2 ELSE 1

\* Mutant: the node does not get the blocks.
Transfer_never(count) == FALSE

\* colm_transfer_reverse_code: whether a node owns the blocks made since the
\* last transfer.
Transfer(count) == count > 0

\* The effect of running a frame; frame 0 is no frame.
RunFrame(f) == IF f = 0 THEN [env |-> env, reject |-> FALSE, exit |-> FALSE]
               ELSE Outcome[f][env]

\* What a frame that only changed the environment collects.
EnvBlock == [deck |-> FALSE, env |-> env, pulled |-> <<>>, pushed |-> 0]
-----------------------------------------------------------------------------
(* The scanner: longest match, fed piecewise.  fsm is the text the automaton *)
(* has read since the start of the token, tokpref how many items of the      *)
(* input it has read for it.                                                 *)

Unread == SubSeq(input, tokpref + 1, Len(input))
ScanRegion == IF pre_region > 0 THEN pre_region ELSE region
RegionTokens == Tokens[ScanRegion]

\* What the scanner can read for the token; a tree in it is matched by none.
Text == fsm \o Unread

Matches == {t \in RegionTokens : IsPrefix(t.text, Text)}
Longest(t) == t \in Matches /\ \A u \in Matches : Len(u.text) <= Len(t.text)
MayExtend == \E t \in RegionTokens : IsStrictPrefix(Text, t.text)

AtTree == Unread # <<>> /\ fsm = <<>> /\ Head(Unread) \notin Char

\* scan_token: what the next call says.
Scan ==
  IF trigger_undo THEN "undo"
  ELSE IF AtTree
       THEN IF Head(Unread) \in TreeItem THEN "tree" ELSE "ignore_tree"
  ELSE IF Unread = <<>> /\ ~eof_mark THEN "later"
  ELSE IF Unread = <<>> /\ fsm = <<>> THEN "eof"
  ELSE IF ~eof_mark /\ MayExtend THEN "later"
  ELSE IF Matches # {} THEN "token"
  ELSE "error"

\* The parse loop has nothing more to do in the pre-region and asks again.
ScanFailed == Scan = "error" /\ pre_region < 0

\* The match of a token, in items of the input.
MatchLen(t) == Len(t.text) - Len(fsm) + tokpref
Drop(n) == SubSeq(input, n + 1, Len(input))
Taken(n) == SubSeq(input, 1, n)

-----------------------------------------------------------------------------
(* Ends of a parse loop round.                                               *)

\* Mutant: tokpref is not reset.
new_token_keeps(ind) ==
  /\ fsm' = <<>> /\ tokpref' = tokpref
  /\ region' = RegionAt(ind) /\ pre_region' = PreRegionAt(ind)

\* new_token, with the region of the parser's next_region_ind.
new_token(ind) ==
  /\ fsm' = <<>> /\ tokpref' = 0
  /\ region' = RegionAt(ind) /\ pre_region' = PreRegionAt(ind)

\* The stop conditions at the end of a round; a loop that ran to undo leaves
\* its settings behind as colm_parse_undo_frag resets them.
EndRound(stops) ==
  /\ pc' = IF stops \/ trigger_undo THEN "idle" ELSE "scan"
  /\ trigger_undo' = FALSE
  /\ target_steps' = IF trigger_undo THEN -1 ELSE target_steps
  /\ num_retry' = num_retry - (IF trigger_undo THEN 1 ELSE 0)

Stops == eof_term_recvd \/ stop_parsing \/ stop \/ induce_exit \/ parse_error

\* A round that sent nothing to the parser (skip_send).
SkipSend(ind) == new_token(ind) /\ EndRound(Stops)

\* A new node becomes the input of parse_token; the blocks made since the last
\* node was sent are its blocks.
EnterParser(node, blocks) ==
  /\ \E r \in Ref :
       /\ Fresh(r)
       /\ live' = live \cup {r}
       /\ pt' = [pt EXCEPT ![r] = [node EXCEPT !.state = pda_cs,
                                             !.has_rcode = Transfer(blocks)]]
       /\ parse_input' = <<r>>
  /\ rc_block_count' = 0
  /\ pc' = IF pda_cs < 0 THEN "done" ELSE "again"

-----------------------------------------------------------------------------
(* The parse loop, up to parse_token.                                        *)

\* The pre-region did not match: the same text in the token region.
ScanPreRegion ==
  /\ pc = "scan" /\ Scan = "error" /\ pre_region >= 0
  /\ pre_region' = -1 /\ fsm' = <<>> /\ tokpref' = 0
  /\ UNCHANGED <<nodeVars, red_lel, stateVars, cur_state, region, btVars,
                 shift_count, commit_shift_count, num_retry, steps, stepVars, endVars,
                 eof_term_recvd, codeVars, input, driverVars, pc>>

\* SCAN_TRY_AGAIN_LATER: the loop ends in the middle of a token.
ScanLater ==
  /\ pc = "scan" /\ Scan = "later"
  /\ fsm' = Text /\ tokpref' = Len(input)
  /\ pc' = "idle"
  /\ UNCHANGED <<nodeVars, red_lel, stateVars, cur_state, region, pre_region,
                 btVars, shift_count, commit_shift_count, num_retry, steps, stepVars,
                 endVars, eof_term_recvd, codeVars, input, driverVars>>

\* send_collect_ignore: an empty token where the region cannot match.
ScanCollectIgnore ==
  /\ pc = "scan" /\ ScanFailed
  /\ CiLel[region] # 0
  /\ EnterParser([Blank EXCEPT !.id = CiLel[region],
                               !.retry_region = RetryRegion], rc_block_count)
  /\ num_retry' = num_retry + SetRetries
  /\ steps' = steps + 1
  /\ UNCHANGED <<stack, accum_ignore, red_lel, stateVars, cur_state, scanVars,
                 btVars, shift_count, commit_shift_count, stepVars, endVars,
                 eof_term_recvd, reverse_code, env, input, driverVars>>

\* The scanner failed and another region is left for this state.
ScanNextRegion ==
  /\ pc = "scan" /\ ScanFailed /\ CiLel[region] = 0
  /\ accum_ignore = <<>> /\ RegionAt(next_region_ind + 1) # 0
  /\ next_region_ind' = next_region_ind + 1
  /\ SkipSend(next_region_ind + 1)
  /\ UNCHANGED <<nodeVars, red_lel, pda_cs, cur_state, btVars, shift_count,
                 commit_shift_count, steps, stop, endVars, eof_term_recvd, codeVars,
                 input, driverVars>>

\* No token: parse_token is called with no input, which is an error.  The
\* same call begins an undo.
ScanNull ==
  /\ pc = "scan"
  /\ \/ Scan = "undo"
     \/ ScanFailed /\ CiLel[region] = 0
        /\ ~(accum_ignore = <<>> /\ RegionAt(next_region_ind + 1) # 0)
  /\ pc' = "backtrack"
  /\ UNCHANGED <<nodeVars, red_lel, stateVars, cur_state, scanVars, btVars,
                 shift_count, commit_shift_count, num_retry, steps, stepVars, endVars,
                 eof_term_recvd, codeVars, input, driverVars>>

\* send_eof, and the pre-EOF frame of the region.
ScanEof ==
  /\ pc = "scan" /\ Scan = "eof"
  /\ LET o == RunFrame(EofFrame[region])
         writes == o.env # env
     IN /\ env' = o.env /\ induce_exit' = (induce_exit \/ o.exit)
        /\ reverse_code' = IF writes THEN MakeReverse(EnvBlock) ELSE reverse_code
        /\ steps' = steps + 1 + (IF writes THEN MakeSteps ELSE 0)
        /\ EnterParser([Blank EXCEPT !.id = EofId],
                       rc_block_count + (IF writes THEN MakeSteps ELSE 0))
  /\ eof_term_recvd' = TRUE
  /\ UNCHANGED <<stack, accum_ignore, red_lel, stateVars, cur_state, scanVars,
                 btVars, shift_count, commit_shift_count, num_retry, stepVars,
                 parse_error, stop_parsing, input, driverVars>>

\* send_tree: a tree from the stream, parsed as a terminal.
ScanTree ==
  /\ pc = "scan" /\ Scan = "tree"
  /\ EnterParser([Blank EXCEPT !.id = ItemId[Head(input)], !.artificial = TRUE,
                               !.text = <<Head(input)>>], rc_block_count)
  /\ input' = Tail(input)
  /\ steps' = steps + 1
  /\ UNCHANGED <<stack, accum_ignore, red_lel, stateVars, cur_state, scanVars,
                 btVars, shift_count, commit_shift_count, num_retry, stepVars, endVars,
                 eof_term_recvd, reverse_code, env, driverVars>>

\* ignore_tree and ignore_tree_art: a node joins accum_ignore.
Ignore(node) ==
  /\ \E r \in Ref :
       /\ Fresh(r)
       /\ live' = live \cup {r}
       /\ pt' = [pt EXCEPT ![r] = [node EXCEPT !.has_rcode = Transfer(rc_block_count),
                                             !.retry_region = RetryRegion]]
       /\ accum_ignore' = <<r>> \o accum_ignore
  /\ rc_block_count' = 0
  /\ steps' = steps + 1
  /\ new_token(next_region_ind)
  /\ pc' = IF Stops THEN "idle" ELSE "scan"
  /\ num_retry' = num_retry + SetRetries
  /\ UNCHANGED <<stack, parse_input, red_lel, stateVars, cur_state, btVars,
                 shift_count, commit_shift_count, stepVars, endVars, eof_term_recvd,
                 reverse_code, env, driverVars>>

ScanIgnoreTree ==
  /\ pc = "scan" /\ Scan = "ignore_tree"
  /\ input' = Tail(input)
  /\ Ignore([Blank EXCEPT !.id = ItemId[Head(input)], !.artificial = TRUE,
                          !.text = <<Head(input)>>])

\* send_ignore; scanned in the pre-region, the text may go to the right of
\* the token before it.
ScanIgnore ==
  /\ pc = "scan" /\ Scan = "token"
  /\ \E t \in Matches :
       /\ Longest(t) /\ t.id \in IgnoreId /\ GenFrame[t.id] = 0
       /\ input' = Drop(MatchLen(t))
       /\ Ignore([Blank EXCEPT !.id = t.id, !.right_flag = (pre_region >= 0),
                               !.text = Taken(MatchLen(t))])

\* send_token.
ScanToken ==
  /\ pc = "scan" /\ Scan = "token"
  /\ \E t \in Matches :
       /\ Longest(t) /\ t.id \notin IgnoreId /\ GenFrame[t.id] = 0
       /\ input' = Drop(MatchLen(t))
       /\ EnterParser([Blank EXCEPT !.id = t.id, !.retry_region = RetryRegion,
                                    !.text = Taken(MatchLen(t))], rc_block_count)
  /\ num_retry' = num_retry + SetRetries
  /\ steps' = steps + 1
  /\ UNCHANGED <<stack, accum_ignore, red_lel, stateVars, cur_state, scanVars,
                 btVars, shift_count, commit_shift_count, stepVars, endVars,
                 eof_term_recvd, reverse_code, env, driverVars>>

\* A token with a generation action: the frame pulls the text of the token
\* from the stream and pushes items in its place.
ScanGenerate ==
  /\ pc = "scan" /\ Scan = "token"
  /\ \E t \in Matches :
       /\ Longest(t) /\ GenFrame[t.id] # 0
       /\ LET o == RunFrame(GenFrame[t.id])
          IN /\ env' = o.env /\ induce_exit' = (induce_exit \/ o.exit)
             /\ EndRound(Stops \/ o.exit)
       /\ input' = GenPush[t.id] \o Drop(MatchLen(t))
       /\ reverse_code' =
            MakeReverse([deck |-> FALSE, env |-> env, pulled |-> Taken(MatchLen(t)),
                         pushed |-> Len(GenPush[t.id])])
  /\ rc_block_count' = rc_block_count + MakeSteps
  /\ steps' = steps + MakeSteps
  /\ new_token(next_region_ind)
  /\ UNCHANGED <<nodeVars, red_lel, stateVars, cur_state, btVars, shift_count,
                 commit_shift_count, stop, parse_error, stop_parsing, eof_term_recvd,
                 driverVars>>

-----------------------------------------------------------------------------
(* parse_token, forward.                                                     *)

Lel == Head(parse_input)
Tr == Trans[<<pda_cs, pt[Lel].id>>]
NoAction == [shift |-> FALSE, prod |-> 0]  \* the zero that ends an action list

\* The action a node is at: retry_lower counts the ones already tried.
ActAt(k) == IF k < Len(Tr.acts) THEN Tr.acts[k + 1] ELSE NoAction
Act == ActAt(pt[Lel].retry_lower)
\* Mutants: no alternative is recorded; the last one is recorded as if another
\* came after it.
MoreActs_never == FALSE
MoreActs_always == Len(Tr.acts) > 1
MoreActs == ActAt(pt[Lel].retry_lower + 1) # NoAction

\* The stack, nodes and input after the shift of Lel: ignored text goes to the
\* token below (unless the token caused a reduction, which attached it), the
\* rest to the left of the token.
ShiftPt(cut) ==
  LET tok == pt[Lel].id \in Term
      right == tok /\ pt[Lel].cause_reduce = 0
      p1 == IF right THEN attach_right_ignore(pt, stack, accum_ignore, cut) ELSE pt
      rest == IF right THEN AfterRight(pt, stack, accum_ignore, cut)
              ELSE accum_ignore
      n == p1[Lel]
  IN [p1 EXCEPT ![Lel] =
        [n EXCEPT !.state = pda_cs,
                  !.left_ignore = IF tok THEN Reverse(rest) ELSE n.left_ignore,
                  !.retry_lower = IF MoreActs THEN n.retry_lower + 1 ELSE 0]]
ShiftAccum == IF pt[Lel].id \in Term THEN <<>> ELSE accum_ignore

\* A commit point: nothing shifted so far will be taken back.
Commit(n) == commit_shift_count' = IF Tr.commit THEN n ELSE commit_shift_count

\* No transition in this state: the error that starts the backtracking.
NoTransition ==
  /\ pc = "again" /\ parse_input # <<>> /\ ~HasTrans(pda_cs, pt[Lel].id)
  /\ cur_state' = pda_cs
  /\ pc' = "backtrack"
  /\ UNCHANGED <<nodeVars, red_lel, stateVars, scanVars, btVars, shift_count,
                 commit_shift_count, num_retry, steps, stepVars, endVars,
                 eof_term_recvd, codeVars, input, driverVars>>

Shift ==
  /\ pc = "again" /\ parse_input # <<>> /\ HasTrans(pda_cs, pt[Lel].id)
  /\ Act.shift /\ Act.prod = 0
  /\ cur_state' = pda_cs /\ pda_cs' = Tr.targ
  /\ \E cut \in RightCuts(pt, accum_ignore) : pt' = ShiftPt(cut)
  /\ accum_ignore' = ShiftAccum
  /\ stack' = <<Lel>> \o stack
  /\ parse_input' = Tail(parse_input)
  /\ num_retry' = num_retry + (IF MoreActs THEN 1 ELSE 0)
  /\ shift_count' = shift_count + 1
  /\ Commit(shift_count + 1)
  /\ UNCHANGED <<live, red_lel, next_region_ind, scanVars, btVars, steps,
                 stepVars, endVars, eof_term_recvd, codeVars, input,
                 driverVars, pc>>

\* The parser when it reduces: after the shift, in a shift-reduce.
ReduceStack == IF Act.shift THEN <<Lel>> \o stack ELSE stack
ReduceInput == IF Act.shift THEN Tail(parse_input) ELSE parse_input
ReducePt(cut) ==
  IF Act.shift THEN ShiftPt(cut)
  ELSE IF pt[Lel].id \in Term THEN attach_right_ignore(pt, stack, accum_ignore, cut)
  ELSE pt
ReduceAccum(cut) ==
  IF Act.shift THEN ShiftAccum
  ELSE IF pt[Lel].id \in Term THEN AfterRight(pt, stack, accum_ignore, cut)
  ELSE accum_ignore

\* The top of the stack becomes the children of the node made, which is Lel's
\* retry if the action is one of several; the input is what caused it.
Children == Reverse(SubSeq(ReduceStack, 1, Prod[Act.prod].len))
Reduction(lel) ==
  [Blank EXCEPT !.id = Prod[Act.prod].lhs,
                !.retry_upper = IF MoreActs THEN lel.retry_lower + 1 ELSE 0,
                !.child = Children]
\* Mutant: the token is not told of the reductions it causes.
Caused_never(p) == p
Caused(p) == IF ReduceInput = <<>> THEN p
             ELSE [p EXCEPT ![Head(ReduceInput)].cause_reduce = @ + 1]

\* With a frame the coroutine returns to have it run, and the node waits in
\* red_lel.
Reduce ==
  /\ pc = "again" /\ parse_input # <<>> /\ HasTrans(pda_cs, pt[Lel].id)
  /\ Act.prod # 0
  /\ Prod[Act.prod].len <= Len(ReduceStack)
  /\ \E cut \in RightCuts(pt, accum_ignore), r \in Ref :
       LET p == Caused(ReducePt(cut))
       IN /\ Fresh(r) /\ live' = live \cup {r}
          /\ pt' = [[p EXCEPT ![Lel].retry_lower = 0] EXCEPT ![r] = Reduction(p[Lel])]
          /\ accum_ignore' = ReduceAccum(cut)
          /\ pda_cs' = IF Children = <<>> THEN pda_cs ELSE p[Children[1]].state
          /\ IF Prod[Act.prod].frame = 0
             THEN /\ parse_input' = <<r>> \o ReduceInput
                  /\ UNCHANGED <<red_lel, pc>>
             ELSE /\ parse_input' = ReduceInput
                  /\ red_lel' = <<r, Prod[Act.prod].frame>> /\ pc' = "reduction"
  /\ stack' = SubSeq(ReduceStack, Prod[Act.prod].len + 1, Len(ReduceStack))
  /\ cur_state' = pda_cs
  /\ num_retry' = num_retry + (IF MoreActs THEN 1 ELSE 0)
  /\ shift_count' = shift_count + (IF Act.shift THEN 1 ELSE 0)
  /\ Commit(shift_count + (IF Act.shift THEN 1 ELSE 0))
  /\ UNCHANGED <<next_region_ind, scanVars, btVars, steps, stepVars, endVars,
                 eof_term_recvd, codeVars, input, driverVars>>

\* Mutant: a rejected node is not put on the stack.
PushRejected_lost(r) == stack
PushRejected(r) == <<r>> \o stack

\* The node that was reduced, when its frame has left count blocks.
Returned(node, count, reject) ==
  [node EXCEPT !.has_rcode = Transfer(count),
               !.state = IF reject THEN cur_state ELSE @]

\* The frame has run.  exit: the parse fails with the program.  reject: the
\* node goes on the stack, to be taken back by the backtracking at once.
ReductionReturn ==
  /\ pc = "reduction"
  /\ LET r == red_lel[1]
         o == RunFrame(red_lel[2])
         writes == o.env # env
         made == IF writes THEN MakeSteps ELSE 0
         exit == induce_exit \/ o.exit
     IN /\ env' = o.env
        /\ induce_exit' = exit
        /\ IF exit
           THEN /\ pda_cs' = -1 /\ parse_error' = TRUE
                /\ pc' = "done"
                /\ UNCHANGED <<pt, stack, parse_input, reverse_code,
                               rc_block_count, steps>>
           ELSE /\ reverse_code' = IF writes THEN MakeReverse(EnvBlock)
                                   ELSE reverse_code
                /\ steps' = steps + made
                /\ rc_block_count' = 0
                /\ pt' = [pt EXCEPT ![r] =
                            Returned(@, rc_block_count + made, o.reject)]
                /\ stack' = IF o.reject THEN PushRejected(r) ELSE stack
                /\ parse_input' = IF o.reject THEN parse_input
                                  ELSE <<r>> \o parse_input
                /\ pc' = IF o.reject THEN "backtrack" ELSE "again"
                /\ UNCHANGED <<pda_cs, parse_error>>
  /\ red_lel' = <<>>
  /\ UNCHANGED <<live, accum_ignore, next_region_ind, cur_state, scanVars,
                 btVars, shift_count, commit_shift_count, num_retry, stepVars,
                 stop_parsing, eof_term_recvd, input, driverVars>>

\* Everything was consumed: the parser waits for a token in its new state.
AgainOut ==
  /\ pc = "again" /\ parse_input = <<>>
  /\ next_region_ind' = RegionInd(pda_cs)
  /\ pc' = "done"
  /\ UNCHANGED <<nodeVars, red_lel, pda_cs, cur_state, scanVars, btVars,
                 shift_count, commit_shift_count, num_retry, steps, stepVars, endVars,
                 eof_term_recvd, codeVars, input, driverVars>>

-----------------------------------------------------------------------------
(* parse_token, backward: one disjunct per branch of its backtracking loop,  *)
(* in the order the branches are tested.                                     *)

Backtrack == pc = "backtrack"
NoDeck == Backtrack /\ ~on_deck
NoChecks == NoDeck /\ ~check_next /\ ~check_stop
IsTerm(r) == pt[r].id \in Term

\* on_deck: the newest block of reverse code is run.
BtReverse ==
  /\ Backtrack /\ on_deck /\ reverse_code # <<>>
  /\ LET b == Last(reverse_code)
     IN /\ env' = IF b.deck THEN env ELSE b.env
        /\ input' = b.pulled \o Drop(b.pushed)
        /\ on_deck' = ~b.deck
  /\ reverse_code' = Front(reverse_code)
  /\ steps' = steps - 1
  /\ UNCHANGED <<nodeVars, red_lel, stateVars, cur_state, scanVars, check_next,
                 check_stop, next, shift_count, commit_shift_count, num_retry,
                 stepVars, endVars, eof_term_recvd, rc_block_count, driverVars,
                 pc>>

Resume == stack_top_target(pt, stack)

\* check_next: the text just sent back can be scanned in another region.
BtNext ==
  /\ NoDeck /\ check_next
  /\ check_next' = FALSE
  /\ IF next > 0 /\ RegionAt(next) # 0
     THEN /\ num_retry' = num_retry - 1
          /\ pda_cs' = Resume
          /\ next_region_ind' = next
          /\ pc' = "done"
     ELSE UNCHANGED <<num_retry, stateVars, pc>>
  /\ UNCHANGED <<nodeVars, red_lel, cur_state, scanVars, check_stop, next,
                 on_deck, shift_count, commit_shift_count, steps, stepVars,
                 endVars, eof_term_recvd, codeVars, input, driverVars>>

\* check_stop: the steps to undo to have been reached.
BtStop ==
  /\ NoDeck /\ ~check_next /\ check_stop
  /\ check_stop' = FALSE
  /\ IF stop
     THEN /\ pda_cs' = Resume
          /\ next_region_ind' = RegionInd(Resume)
          /\ pc' = "done"
     ELSE UNCHANGED <<stateVars, pc>>
  /\ UNCHANGED <<nodeVars, red_lel, cur_state, scanVars, check_next, next,
                 on_deck, shift_count, commit_shift_count, num_retry, steps,
                 stepVars, endVars, eof_term_recvd, codeVars, input, driverVars>>

\* Mutant: the retry is taken in the state the parser happens to be in.
BtRetry_stale ==
  /\ NoChecks /\ parse_input # <<>> /\ IsTerm(Lel) /\ pt[Lel].retry_lower # 0
  /\ num_retry' = num_retry - 1
  /\ pda_cs' = pda_cs
  /\ pc' = "again"
  /\ UNCHANGED <<nodeVars, red_lel, next_region_ind, cur_state, scanVars,
                 btVars, shift_count, commit_shift_count, steps, stepVars,
                 endVars, eof_term_recvd, codeVars, input, driverVars>>

\* Mutant: the retry that is taken is not counted down.
BtRetry_uncounted ==
  /\ NoChecks /\ parse_input # <<>> /\ IsTerm(Lel) /\ pt[Lel].retry_lower # 0
  /\ num_retry' = num_retry
  /\ pda_cs' = pt[Lel].state
  /\ pc' = "again"
  /\ UNCHANGED <<nodeVars, red_lel, next_region_ind, cur_state, scanVars,
                 btVars, shift_count, commit_shift_count, steps, stepVars,
                 endVars, eof_term_recvd, codeVars, input, driverVars>>

\* A terminal with an action left: forward again, from its state.
BtRetry ==
  /\ NoChecks /\ parse_input # <<>> /\ IsTerm(Lel) /\ pt[Lel].retry_lower # 0
  /\ num_retry' = num_retry - 1
  /\ pda_cs' = pt[Lel].state
  /\ pc' = "again"
  /\ UNCHANGED <<nodeVars, red_lel, next_region_ind, cur_state, scanVars,
                 btVars, shift_count, commit_shift_count, steps, stepVars,
                 endVars, eof_term_recvd, codeVars, input, driverVars>>

\* Where the top of the stack is to be taken back.
AtUnshift ==
  /\ NoChecks
  /\ \/ /\ parse_input # <<>> /\ IsTerm(Lel)
        /\ pt[Lel].retry_lower = 0 /\ pt[Lel].cause_reduce # 0
     \/ parse_input = <<>> /\ accum_ignore = <<>>

\* Mutant: the commit point is not looked at.
AtCommit_never == FALSE
AtCommit == shift_count = commit_shift_count
\* Mutant: not counted when a token that caused reductions is in the way.
CountBack_bare ==
  IF parse_input = <<>> THEN shift_count - 1 ELSE shift_count
CountBack == shift_count - 1

\* Backed up to the commit point, or to the beginning.
BtFail ==
  /\ AtUnshift
  /\ AtCommit \/ stack = <<>>
  /\ shift_count' = IF AtCommit THEN shift_count ELSE CountBack
  /\ pda_cs' = -1 /\ parse_error' = TRUE
  /\ pc' = "done"
  /\ UNCHANGED <<nodeVars, red_lel, next_region_ind, cur_state, scanVars,
                 btVars, commit_shift_count, num_retry, steps, stepVars,
                 stop_parsing, induce_exit, eof_term_recvd, codeVars, input,
                 driverVars>>

\* The top of the stack becomes the input.  Without a token in the input that
\* caused reductions, it may be a terminal, whose ignored text goes back to
\* accum_ignore, and the token below may lose its right ignore.
BtUnshift ==
  /\ AtUnshift
  /\ ~AtCommit /\ stack # <<>>
  /\ LET top == Head(stack)
         stk == Tail(stack)
         bare == parse_input = <<>>
         left == bare /\ IsTerm(top) /\ pt[top].left_ignore # <<>>
         acc == IF left THEN Reverse(pt[top].left_ignore) ELSE accum_ignore
         p1 == IF left THEN [pt EXCEPT ![top].left_ignore = <<>>] ELSE pt
     IN /\ stack' = stk
        /\ parse_input' = <<top>> \o parse_input
        /\ pt' = IF bare THEN detach_right_ignore(p1, stk) ELSE p1
        /\ accum_ignore' = IF bare THEN DetachedRight(p1, stk, acc) ELSE acc
  /\ shift_count' = CountBack
  /\ UNCHANGED <<live, red_lel, stateVars, cur_state, scanVars, btVars,
                 commit_shift_count, num_retry, steps, stepVars, endVars,
                 eof_term_recvd, codeVars, input, driverVars, pc>>

\* Mutant: the text goes behind the unread text.
TextBack_end(r) == input \o pt[r].text

\* The stream slides back over the text of a node, or gets its tree back.
TextBack(r) == pt[r].text \o input
\* Mutant: compared before the step is counted down.
AtTarget_late == steps = target_steps
AtTarget == steps - 1 = target_steps

\* The node r leaves the parser and its text goes back to the stream
\* (send_back and send_back_ignore).
SendBack(r) ==
  /\ input' = TextBack(r)
  /\ steps' = steps - 1
  /\ on_deck' = (on_deck \/ pt[r].has_rcode)
  /\ stop' = (stop \/ AtTarget)
  /\ next' = IF pt[r].retry_region > 0 THEN pt[r].retry_region + 1 ELSE 0
  /\ check_next' = TRUE /\ check_stop' = TRUE
  /\ pt' = [pt EXCEPT ![r] = Blank]
  /\ live' = live \ {r}

\* A terminal with nothing left to try.
BtSendBack ==
  /\ NoChecks /\ parse_input # <<>> /\ IsTerm(Lel)
  /\ pt[Lel].retry_lower = 0 /\ pt[Lel].cause_reduce = 0
  /\ SendBack(Lel)
  /\ parse_input' = <<>>
  /\ eof_term_recvd' = (eof_term_recvd /\ pt[Lel].id # EofId)
  /\ UNCHANGED <<stack, accum_ignore, red_lel, stateVars, cur_state, scanVars,
                 shift_count, commit_shift_count, num_retry, target_steps,
                 trigger_undo, endVars, codeVars, driverVars, pc>>

\* Ignored text that was not attached.
BtIgnore ==
  /\ NoChecks /\ parse_input = <<>> /\ accum_ignore # <<>>
  /\ SendBack(Head(accum_ignore))
  /\ accum_ignore' = Tail(accum_ignore)
  /\ UNCHANGED <<stack, parse_input, red_lel, stateVars, cur_state, scanVars,
                 shift_count, commit_shift_count, num_retry, target_steps,
                 trigger_undo, endVars, eof_term_recvd, codeVars, driverVars, pc>>

\* A nonterminal whose action left reverse code: run that first.
BtDeck ==
  /\ NoChecks /\ parse_input # <<>> /\ ~IsTerm(Lel) /\ pt[Lel].has_rcode
  /\ on_deck' = TRUE
  /\ pt' = [pt EXCEPT ![Lel].has_rcode = FALSE]
  /\ UNCHANGED <<live, stack, parse_input, accum_ignore, red_lel, stateVars,
                 cur_state, scanVars, check_next, check_stop, next, shift_count,
                 commit_shift_count, num_retry, steps, stepVars, endVars,
                 eof_term_recvd, codeVars, input, driverVars, pc>>

\* What undoing the reduction u does to the token that caused it, with the
\* parser back in the state s: the retry that u held goes to the token.
HandBack(u, token, s) ==
  LET t == [token EXCEPT !.cause_reduce = @ - 1]
  IN IF u.retry_upper = 0 THEN t
     ELSE [t EXCEPT !.retry_lower = u.retry_upper, !.state = s]

\* A reduction is undone: the children go back on the stack.
BtUnreduce ==
  /\ NoChecks /\ parse_input # <<>> /\ ~IsTerm(Lel) /\ ~pt[Lel].has_rcode
  /\ LET u == pt[Lel]
         inp == Tail(parse_input)
         stk == Reverse(u.child) \o stack
         p1 == [pt EXCEPT ![Lel] = Blank]
         p2 == IF inp = <<>> THEN p1
               ELSE [p1 EXCEPT ![Head(inp)] =
                       HandBack(u, @, stack_top_target(p1, stk))]
     IN /\ stack' = stk
        /\ parse_input' = inp
        /\ pt' = detach_right_ignore(p2, stk)
        /\ accum_ignore' = DetachedRight(p2, stk, accum_ignore)
        /\ live' = live \ {Lel}
  /\ UNCHANGED <<red_lel, stateVars, cur_state, scanVars, btVars, shift_count,
                 commit_shift_count, num_retry, steps, stepVars, endVars,
                 eof_term_recvd, codeVars, input, driverVars, pc>>

-----------------------------------------------------------------------------
(* After parse_token: handle_error, new_token and the stop conditions.       *)

\* Mutant: whatever is alone on the stack.
StopFinished_any == Len(stack) = 1

\* is_parser_stop_finished: the stop target alone on the stack.
StopFinished == Len(stack) = 1 /\ pt[Head(stack)].id = StopTarget

Done ==
  /\ pc = "done"
  /\ stop_parsing' = (stop_parsing \/ (~parse_error /\ StopFinished))
  /\ new_token(next_region_ind)
  /\ EndRound(Stops \/ (~parse_error /\ StopFinished))
  /\ UNCHANGED <<nodeVars, red_lel, stateVars, cur_state, btVars, shift_count,
                 commit_shift_count, steps, stop, parse_error, induce_exit,
                 eof_term_recvd, codeVars, input, driverVars>>

-----------------------------------------------------------------------------
(* The program that drives the parser: it sends items, parses what it sent,  *)
(* ends the input, and takes these statements back in reverse order.         *)

Idle == pc = "idle" /\ ~induce_exit

\* What a statement must restore when it is taken back.
Snapshot == [steps |-> steps, pda_cs |-> pda_cs, ind |-> next_region_ind,
             env |-> env, input |-> input,
             stack |-> [i \in DOMAIN stack |-> pt[stack[i]].id]]
Statement(kind, len) == [kind |-> kind, len |-> len, snap |-> Snapshot]
Record(kind, len) ==
  /\ Len(hist) < MaxOps
  /\ hist' = IF WV THEN Append(hist, Statement(kind, len)) ELSE hist
  /\ goal' = <<>>
TakeBack ==
  /\ hist' = Front(hist)
  /\ goal' = <<Last(hist).snap>>

parserVars == <<nodeVars, red_lel, stateVars, cur_state, btVars, shift_count,
                commit_shift_count, steps, endVars, eof_term_recvd, codeVars>>

Send(chunk) ==
  /\ Idle /\ ~eof_mark
  /\ Len(sent) + Len(chunk) <= MaxSent
  /\ input' = input \o chunk /\ sent' = sent \o chunk
  /\ Record("send", Len(chunk))
  /\ UNCHANGED <<parserVars, scanVars, num_retry, stepVars, eof_mark, pc>>

SendEof ==
  /\ Idle /\ ~eof_mark
  /\ eof_mark' = TRUE
  /\ Record("eof", 0)
  /\ UNCHANGED <<parserVars, scanVars, num_retry, stepVars, input, sent, pc>>

\* colm_parse_frag: the loop runs until the input is used up.  A program does
\* not go on with a parser that has finished.
ParseFrag ==
  /\ Idle /\ ~parse_error /\ ~eof_term_recvd /\ ~stop_parsing
  /\ Record("frag", 0)
  /\ stop' = FALSE /\ pc' = "scan"
  /\ UNCHANGED <<parserVars, scanVars, num_retry, target_steps, trigger_undo,
                 input, eof_mark, sent>>

\* reset_token: an unfinished token is to be read again.
ResetToken == tokpref' = 0

\* colm_parse_undo_frag: back to the steps of the statement.
UndoFrag ==
  /\ Idle /\ hist # <<>> /\ Last(hist).kind = "frag"
  /\ LET to == Last(hist).snap.steps
     IN IF to < steps
        THEN /\ num_retry' = num_retry + 1
             /\ target_steps' = to /\ trigger_undo' = TRUE
             /\ stop' = FALSE /\ pc' = "scan"
        ELSE UNCHANGED <<num_retry, stepVars, pc>>
  /\ ResetToken
  /\ TakeBack
  /\ UNCHANGED <<parserVars, region, pre_region, fsm, input, eof_mark, sent>>

\* undo_append: the items sent are taken from the end of the input.
UndoSend ==
  /\ Idle /\ hist # <<>> /\ Last(hist).kind = "send"
  /\ Len(input) >= Last(hist).len
  /\ input' = SubSeq(input, 1, Len(input) - Last(hist).len)
  /\ sent' = SubSeq(sent, 1, Len(sent) - Last(hist).len)
  /\ TakeBack
  /\ UNCHANGED <<parserVars, scanVars, num_retry, stepVars, eof_mark, pc>>

UndoEof ==
  /\ Idle /\ hist # <<>> /\ Last(hist).kind = "eof"
  /\ eof_mark' = FALSE
  /\ TakeBack
  /\ UNCHANGED <<parserVars, scanVars, num_retry, stepVars, input, sent, pc>>

-----------------------------------------------------------------------------
\* colm_pda_init.
Init ==
  /\ pt = [r \in Ref |-> Blank] /\ live = {}
  /\ stack = <<>> /\ parse_input = <<>> /\ accum_ignore = <<>> /\ red_lel = <<>>
  /\ pda_cs = StartState /\ cur_state = -1
  /\ next_region_ind = RegionInd(StartState)
  /\ region = RegionAt(RegionInd(StartState))
  /\ pre_region = PreRegionAt(RegionInd(StartState))
  /\ fsm = <<>> /\ tokpref = 0
  /\ check_next = FALSE /\ check_stop = FALSE /\ next = 0 /\ on_deck = FALSE
  /\ shift_count = 0 /\ commit_shift_count = -1 /\ num_retry = 0
  /\ steps = 0 /\ target_steps = -1 /\ stop = FALSE /\ trigger_undo = FALSE
  /\ parse_error = FALSE /\ eof_term_recvd = FALSE
  /\ stop_parsing = FALSE /\ induce_exit = FALSE
  /\ reverse_code = <<>> /\ rc_block_count = 0 /\ env = Env0
  /\ input = <<>> /\ eof_mark = FALSE /\ hist = <<>> /\ sent = <<>> /\ goal = <<>>
  /\ pc = "idle"

\* The steps of the parser.
ParseStep ==
  \/ ScanPreRegion \/ ScanLater \/ ScanCollectIgnore \/ ScanNextRegion
  \/ ScanNull \/ ScanEof \/ ScanTree \/ ScanIgnoreTree \/ ScanIgnore
  \/ ScanToken \/ ScanGenerate
  \/ NoTransition \/ Shift \/ Reduce \/ ReductionReturn \/ AgainOut
  \/ BtReverse \/ BtNext \/ BtStop \/ BtRetry \/ BtFail \/ BtUnshift
  \/ BtSendBack \/ BtIgnore \/ BtDeck \/ BtUnreduce
  \/ Done

Drive == (\E c \in Chunks : Send(c)) \/ SendEof \/ ParseFrag
Undo == UndoFrag \/ UndoSend \/ UndoEof

Next == ParseStep \/ Drive
NextUndo == Next \/ Undo

Spec == Init /\ [][Next]_vars
\* The parser is sequential code: it runs to the end of what it was called for.
FairSpec == Spec /\ WF_vars(ParseStep)
\* With the statements that take back what was done.
UndoSpec == Init /\ [][NextUndo]_vars
FairUndoSpec == UndoSpec /\ WF_vars(ParseStep)

-----------------------------------------------------------------------------
\* Every variable has its type: lists hold cells of the pool, states are
\* states of the automaton (or -1, after a failed parse), regions are regions.
NodesOK ==
  /\ pt \in [Ref -> Node] /\ live \in SUBSET Ref
  /\ stack \in Seq(Ref) /\ parse_input \in Seq(Ref) /\ accum_ignore \in Seq(Ref)
  /\ red_lel \in {<<>>} \cup (Ref \X Frame)
StatesOK ==
  /\ pda_cs \in State /\ cur_state \in State
  /\ next_region_ind \in Nat /\ next \in Nat
  /\ pc \in PC
ScannerOK ==
  /\ region \in Region /\ pre_region \in Region \cup {-1}
  /\ fsm \in Seq(Item) /\ tokpref \in Nat
  /\ input \in Seq(Item) /\ sent \in Seq(Item)
FlagsOK ==
  /\ check_next \in BOOLEAN /\ check_stop \in BOOLEAN /\ on_deck \in BOOLEAN
  /\ stop \in BOOLEAN /\ trigger_undo \in BOOLEAN /\ eof_mark \in BOOLEAN
  /\ parse_error \in BOOLEAN /\ eof_term_recvd \in BOOLEAN
  /\ stop_parsing \in BOOLEAN /\ induce_exit \in BOOLEAN
CountsOK ==
  /\ shift_count \in Int /\ commit_shift_count \in Int /\ num_retry \in Int
  /\ steps \in Int /\ target_steps \in Int
CodeOK ==
  /\ reverse_code \in Seq(Block) /\ rc_block_count \in Nat /\ env \in EnvVal
TypeOK == NodesOK /\ StatesOK /\ ScannerOK /\ FlagsOK /\ CountsOK /\ CodeOK

\* The scanner has read exactly the text of the token it is in.
ScannerFresh ==
  pc \in {"idle", "scan"} => tokpref = Len(fsm) /\ fsm = Taken(tokpref)

\* Backing up is stopped by comparing for equality: the count of shifts never
\* gets past the commit point, and the commit point never moves back.
CommitFloor ==
  [][commit_shift_count' <= shift_count' /\ commit_shift_count <= commit_shift_count']_vars

-----------------------------------------------------------------------------
(* The linked lists. *)

\* The cells in the lists of a node; no two of these lists share a cell.
Held(n) == ToSet(n.child) \cup ToSet(n.left_ignore) \cup ToSet(n.right_ignore)
ListsOnce(n) ==
  /\ IsInjective(n.child) /\ IsInjective(n.left_ignore) /\ IsInjective(n.right_ignore)
  /\ ToSet(n.child) \cap ToSet(n.left_ignore) = {}
  /\ ToSet(n.child) \cap ToSet(n.right_ignore) = {}
  /\ ToSet(n.left_ignore) \cap ToSet(n.right_ignore) = {}

\* The lists that start in struct pda_run hold the cells A, B, C and D, those
\* of the nodes in p the others; all of them are allocated.
SetsApart(A, B, C, D, p, lv) ==
  /\ A \cap B = {} /\ A \cap C = {} /\ A \cap D = {}
  /\ B \cap C = {} /\ B \cap D = {} /\ C \cap D = {}
  /\ A \cup B \cup C \cup D \subseteq lv
  /\ \A r \in Ref : Held(p[r]) \subseteq lv /\ Held(p[r]) \cap (A \cup B \cup C \cup D) = {}
  /\ \A r, q \in Ref : r # q => Held(p[r]) \cap Held(p[q]) = {}
Apart(p, stk, inp, acc, red, lv) ==
  /\ SetsApart(ToSet(stk), ToSet(inp), ToSet(acc), red, p, lv)
  /\ IsInjective(stk) /\ IsInjective(inp) /\ IsInjective(acc)
  /\ \A r \in Ref : ListsOnce(p[r])

\* The code links cells by one next pointer, so a cell can be in one list only:
\* however the lists are spliced going forward and backward, no cell is in two
\* of them or twice in one, and none that was freed is in any.
RedCells == IF red_lel = <<>> THEN {} ELSE {red_lel[1]}
OneOwner == Apart(pt, stack, parse_input, accum_ignore, RedCells, live)

-----------------------------------------------------------------------------
(* The path of states. *)

Under(p, stk, i) == IF i = Len(stk) THEN StartState ELSE Target(p, stk[i + 1])
TopFound(p, stk) == stk # <<>> => Found(p, Head(stk))

\* The stack is a path of the automaton from the start state to the state the
\* parser is in, whatever was taken back and tried again before: each node was
\* shifted in the state that the node below it leads to.  And wherever the code
\* looks up, without a check, where the top of the stack leads to (to go on in
\* another region, to stop, to give a token its retry), the automaton has that
\* transition.
StackIsPath ==
  /\ pc \in {"idle", "scan", "again", "done"} /\ ~parse_error =>
       /\ pda_cs = stack_top_target(pt, stack)
       /\ \A i \in DOMAIN stack : /\ Found(pt, stack[i])
                                  /\ pt[stack[i]].state = Under(pt, stack, i)
  /\ NoDeck /\ (check_next \/ (check_stop /\ stop)) => TopFound(pt, stack)
  /\ NoChecks /\ parse_input # <<>> /\ ~IsTerm(Lel) =>
       TopFound(pt, Reverse(pt[Lel].child) \o stack)
-----------------------------------------------------------------------------
(* The retries. *)

\* num_retry is the number of choices left to try: one for each node that
\* keeps an untried action, one for each that can be scanned in another
\* region, one for a pending undo; whatever was tried, taken back and tried
\* again before.  (The code wonders at its increment in the shift whether the
\* retry has already been counted.)  A choice that is being taken, or found
\* and not yet taken, is counted as the code does.
Untried(n) == n.retry_lower # 0 \/ n.retry_upper # 0
PendingActions == {r \in live : Untried(pt[r])}
PendingRegions == {r \in live : RegionRetries(pt[r].retry_region) = 1}
Taking == pc = "again" /\ parse_input # <<>> /\ pt[Lel].retry_lower # 0
AboutToRescan == check_next /\ next > 0 /\ RegionAt(next) # 0
RetryAccounting ==
  num_retry = Cardinality(PendingActions) + Cardinality(PendingRegions)
              + (IF trigger_undo THEN 1 ELSE 0)
              + (IF AboutToRescan THEN 1 ELSE 0) - (IF Taking THEN 1 ELSE 0)

\* The assertions of the backtracking: under a token that caused reductions sits
\* a nonterminal; a reduction that has an alternative sits in the input before
\* the token that caused it, and neither holds another retry.
BacktrackAsserts ==
  /\ AtUnshift /\ ~AtCommit /\ stack # <<>> /\ parse_input # <<>>
       => ~IsTerm(Head(stack))
  /\ NoChecks /\ parse_input # <<>> =>
       IF IsTerm(Lel) THEN pt[Lel].retry_upper = 0
       ELSE pt[Lel].retry_upper # 0 =>
              /\ Len(parse_input) > 1
              /\ pt[Lel].retry_lower = 0 /\ pt[parse_input[2]].retry_upper = 0
-----------------------------------------------------------------------------
(* What was shifted. *)

\* The input of parse_token, where a node whose frame runs is to come back to.
Ahead == (IF red_lel = <<>> THEN <<>> ELSE <<red_lel[1]>>) \o parse_input

\* The stack before its top was reduced to x.
Unfold(p, x, stk) == Reverse(p[x].child) \o stk

\* The stack before the node in front of the input was made.
Before(p, stk, a) == IF a = <<>> THEN stk ELSE Unfold(p, Head(a), stk)

\* The stack before its top was shifted.
Back(p, stk) == IF stk = <<>> THEN stk ELSE Unfold(p, Head(stk), Tail(stk))

\* The nodes of a stack and their children in the order in which they were shifted,
\* the oldest first: the stack is taken back node by node, the newest first.
OrderOf(p, stk, lv) ==
  LET most == Cardinality(lv)
      at[i \in 0..most] ==
        IF i = 0 THEN stk ELSE CHOOSE s \in {Back(p, t) : t \in {at[i - 1]}} : TRUE
      n == CHOOSE i \in 0..most : at[i] = <<>> /\ (i > 0 => at[i - 1] # <<>>)
  IN [i \in 1..n |-> Head(at[n - i])]

\* Everything that was shifted and not taken back, oldest first.
Shifted == OrderOf(pt, Before(pt, stack, Ahead), live)

\* shift_count is the number of shifts that have not been taken back (until
\* the parse fails).
ShiftCountExact == parse_error \/ shift_count = Len(Shifted)

\* What the parser will not take back: where a commit is made all that was shifted,
\* for commit_shift_count is shift_count then.
CommittedLen == Len(Shifted) - (shift_count - commit_shift_count)
Committed == SubSeq(Shifted, 1, CommittedLen)

\* Nothing shifted before a commit is taken back after it, and a commit is not undone.
CommitHeld ==
  [][induce_exit' \/ (IsPrefix(Committed, Shifted') /\ CommittedLen <= CommittedLen')]_vars

\* An initial commit_shift_count of -1 never stops the parser: without a
\* commit it fails when every choice has been tried.
FailsWhenExhausted ==
  parse_error /\ ~induce_exit /\ commit_shift_count < 0
    => num_retry = 0
=============================================================================
