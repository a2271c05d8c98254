------------------------------ MODULE TokenScan ------------------------------
(***************************************************************************)
(* The scanner of a lexical region: its automaton is built from the        *)
(* patterns of the region's tokens (src/src/parsetree.cc, RegionImpl), and *)
(* run on input that comes in blocks (src/src/fsmexec.cc, scan_token of    *)
(* pdarun.c).  It finds the longest match of a token; of the tokens that   *)
(* match it, the one that was declared first.                              *)
(*                                                                         *)
(* The machine works one character ahead only where that is enough.  A     *)
(* match is announced at its last character where nothing longer can come, *)
(* else at the first character that does not fit; and where the match may  *)
(* be further back, its end (tokend) and, if it is not known from the      *)
(* state, its token (act) are recorded on the way.                         *)
(***************************************************************************)
EXTENDS FsmBuild

CONSTANTS MaxTokens, MaxBlock, MaxInput    \* tokens of a region, characters of a block, of all

ASSUME TokenScanAssumption == {MaxTokens, MaxBlock, MaxInput} \subseteq Nat

VARIABLES
  tables,     \* the automata of the region and of its tokens, once built
  seen,       \* the characters of the blocks so far
  run         \* the scanner's part of pda_run

scanVars == <<stack, ops, tables, seen, run>>

NoTables == [fsm |-> FsmGraph, parts |-> <<>>, default |-> 0, handlesError |-> FALSE]
Error == -1    \* error_state
Act(kind, token) == [kind |-> kind, token |-> token]
-----------------------------------------------------------------------------
(* RegionImpl::walk *)

longMatchAction(g, token) ==
  FoldSet(LAMBDA tc, h : [h EXCEPT !.node[tc[1]].out[tc[2]].lm = @ \cup {token}],
          g, UNION {InTrans(g, s) : s \in g.fin})

Union(parts) ==
  FoldLeft(LAMBDA u, part : afterOpMinimize(unionOp(u, part)), parts[1], Tail(parts))

\* The transitions that end a match: <<state, key>>.
Matching(g) == {<<s, c>> \in OutTrans(g, g.states) : Out(g, s)[c].lm # {}}
Target(g, tc) == Out(g, tc[1])[tc[2]].to
FirstItem(g, tc) == Min(Out(g, tc[1])[tc[2]].lm)

\* Which tokens may have matched last, in a state; 0 if maybe none has.
LmItemSets(g) ==
  LET follow(tc) == IF Out(g, Target(g, tc)) = None THEN {}
                    ELSE reachableFromHereStopFinal(g, Target(g, tc))
      none == reachableFromHereStopFinal(g, g.start)
  IN [s \in g.states |-> {FirstItem(g, tc) : tc \in {m \in Matching(g) : s \in follow(m)}}
                         \cup IF s \in none THEN {0} ELSE {}]

\* (variant) the token's end is recorded only if its name is
Matched_end(g, items, tc) ==
  LET trans == Out(g, tc[1])[tc[2]]
      ahead == reachableFromHereStopFinal(g, trans.to)
      several == \E s \in ahead : Cardinality(items[s]) > 1
  IN IF Out(g, trans.to) = None
     THEN [trans EXCEPT !.to = g.start, !.acts = {Act("OnLast", FirstItem(g, tc))}]
     ELSE [trans EXCEPT
             !.acts = IF several THEN {Act("SetTokEnd", 0), Act("SetActId", FirstItem(g, tc))}
                      ELSE {}]

\* (variant) no match is announced at its last character
Matched_next(g, items, tc) ==
  LET ahead == reachableFromHereStopFinal(g, Target(g, tc))
      several == \E s \in ahead : Cardinality(items[s]) > 1
      behind == \E s \in ahead : items[s] # {} /\ s \notin g.fin
  IN [Out(g, tc[1])[tc[2]] EXCEPT
        !.acts = (IF behind \/ several THEN {Act("SetTokEnd", 0)} ELSE {})
                 \cup IF several THEN {Act("SetActId", FirstItem(g, tc))} ELSE {}]

\* The actions of a transition that ends a match, and where it leads.
Matched(g, items, tc) ==
  LET trans == Out(g, tc[1])[tc[2]]
      ahead == reachableFromHereStopFinal(g, trans.to)
      several == \E s \in ahead : Cardinality(items[s]) > 1
      behind == \E s \in ahead : items[s] # {} /\ s \notin g.fin
  IN IF Out(g, trans.to) = None
     THEN [trans EXCEPT !.to = g.start, !.acts = {Act("OnLast", FirstItem(g, tc))}]
     ELSE [trans EXCEPT
             !.acts = (IF behind \/ several THEN {Act("SetTokEnd", 0)} ELSE {})
                      \cup IF several THEN {Act("SetActId", FirstItem(g, tc))} ELSE {}]

\* On a character that does not fit, or at the end of the input.
OnError(g, items, s) ==
  IF items[s] \subseteq {0} THEN {}
  ELSE IF Cardinality(items[s]) > 1 THEN {Act("Switch", 0)}
  ELSE {Act(IF s \in g.fin THEN "OnNext" ELSE "LagBehind", Max(items[s]))}

setErrorTarget(g, s, acts) ==
  FoldSet(LAMBDA c, h : attachTrans(h, s, c, [Trans(g.start) EXCEPT !.acts = acts]),
          [g EXCEPT !.node[s].eof = acts], Char \ DOMAIN Out(g, s))

\* g: the isolated machine; items: the sets of the states it had before.
LmActions(g, items) ==
  LET at == [s \in g.states |-> IF s \in DOMAIN items THEN items[s] ELSE {}]
      match(tc, h) == Redirect(h, tc[1], tc[2], Matched(g, at, tc))
      fail(s, h) == IF OnError(g, at, s) = {} THEN h ELSE setErrorTarget(h, s, OnError(g, at, s))
  IN FoldSet(fail, FoldSet(match, g, Matching(g)), g.states)

runLongestMatch(union) ==
  LET restart(g) == setFinState([g EXCEPT !.node[g.start].from = TRUE], g.start)
  IN restart(LmActions(isolateStartState(union), LmItemSets(union)))

HandlesError(g) ==
  LET items == LmItemSets(g)
  IN \E s \in reachableFromHereStopFinal(g, g.start) : Cardinality(items[s]) > 1

clearAllPriorities(g) ==
  [g EXCEPT !.node = [s \in DOMAIN @ |->
     [@[s] EXCEPT !.prior = None, !.out = [c \in DOMAIN @ |-> [@[c] EXCEPT !.prior = None]]]]]
finishGraphBuild(g) == minimizePartition2(clearAllPriorities(removeUnreachableStates(g)))

Region(parts) ==
  LET scanner(union) ==
        [fsm |-> finishGraphBuild(runLongestMatch(union)), handlesError |-> HandlesError(union)]
      empty == {i \in DOMAIN parts : isFinState(parts[i], parts[i].start)}
  IN scanner(Union([i \in DOMAIN parts |-> longMatchAction(parts[i], i)]))
       @@ [parts |-> parts, default |-> IF empty = {} THEN 0 ELSE Min(empty)]
-----------------------------------------------------------------------------
(* internalFsmExecute: p counts the characters, from the token's start. *)

Idle == "idle"
new_token(cs) ==
  [cs |-> cs, p |-> 0, start |-> 0, tokpref |-> 0, tokstart |-> -1, tokend |-> 0, act |-> 0,
   scan_eof |-> FALSE, matched |-> 0, return |-> FALSE, skip |-> FALSE, result |-> Idle]

execAction(r, act) ==
  CASE act.kind = "SetActId" -> [r EXCEPT !.act = act.token]
    [] act.kind = "SetTokEnd" -> [r EXCEPT !.tokend = r.tokpref + (r.p - r.start) + 1]
    [] act.kind = "Switch" ->
         IF tables.handlesError /\ r.act = 0
         THEN [r EXCEPT !.cs = Error, !.return = TRUE, !.skip = TRUE]
         ELSE [r EXCEPT !.matched = r.act, !.return = TRUE, !.skip = TRUE]
    [] act.kind = "OnLast" ->
         [r EXCEPT !.p = @ + 1, !.tokend = r.tokpref + (r.p + 1 - r.start),
                   !.matched = act.token, !.return = TRUE]
    [] act.kind = "OnNext" ->
         [r EXCEPT !.tokend = r.tokpref + (r.p - r.start), !.matched = act.token, !.return = TRUE]
    [] act.kind = "LagBehind" ->
         [r EXCEPT !.matched = act.token, !.return = TRUE, !.skip = TRUE]

execActions(r, acts) ==
  FoldSet(LAMBDA a, q : execAction(q, a), [r EXCEPT !.return = FALSE, !.skip = FALSE], acts)

\* The to-state action of the start state, initActId.
Entered(r) == IF r.cs = tables.fsm.start /\ tables.handlesError THEN [r EXCEPT !.act = 0] ELSE r

RECURSIVE Execute(_, _)
Execute(r, text) ==
  LET c == text[r.p + 1]
      from == IF tables.fsm.node[r.cs].from THEN [r EXCEPT !.tokstart = r.p] ELSE r
      trans == Out(tables.fsm, r.cs)[c]
      acted == execActions([from EXCEPT !.cs = trans.to], trans.acts)
  IN IF r.p = Len(text) THEN r
     ELSE IF c \notin DOMAIN Out(tables.fsm, r.cs) THEN [from EXCEPT !.cs = Error]
     ELSE IF acted.return THEN acted
     ELSE Execute([Entered(acted) EXCEPT !.p = @ + 1], text)

\* How fsm_execute is left: the characters of the block become a prefix.
Left(r) == IF r.skip THEN r ELSE [r EXCEPT !.tokpref = @ + (r.p - r.start)]
-----------------------------------------------------------------------------
(* scan_token *)

Answer(r) ==
  CASE r.matched # 0 -> [r EXCEPT !.result = "token"]
    [] r.matched = 0 /\ r.cs = Error ->
         IF tables.default = 0 THEN [r EXCEPT !.result = "error"]
         ELSE [r EXCEPT !.tokpref = 0, !.matched = tables.default, !.result = "default"]
    [] OTHER -> [r EXCEPT !.result = IF r.scan_eof THEN "error" ELSE Idle]

Finish ==
  /\ tables = NoTables /\ Len(stack) \in 1..MaxTokens /\ Small
  /\ \A i \in DOMAIN stack : stack[i].g.fin # {}
  /\ tables' = Region([i \in DOMAIN stack |-> stack[i].g])
  /\ run' = new_token(tables'.fsm.start)
  /\ stack' = <<>> /\ ops' = 0
  /\ UNCHANGED seen

\* get_parse_block has more characters (INPUT_DATA).
Data(block) ==
  /\ tables # NoTables /\ run.result = Idle
  /\ Len(seen) + Len(block) <= MaxInput
  /\ seen' = seen \o block
  /\ run' = Answer(Left(Execute([run EXCEPT !.start = run.p, !.skip = FALSE], seen')))
  /\ UNCHANGED <<stack, ops, tables>>

\* INPUT_EOS and the others that end the text of a token.
Eof ==
  /\ tables # NoTables /\ run.result = Idle
  /\ LET r == [run EXCEPT !.start = run.p, !.skip = FALSE, !.scan_eof = TRUE]
         acts == tables.fsm.node[r.cs].eof
         ended == IF acts = {} THEN r ELSE execActions([r EXCEPT !.cs = tables.fsm.start], acts)
     IN run' = IF run.tokstart = -1 THEN [run EXCEPT !.result = "eof"]
               ELSE Answer(Left(ended))
  /\ UNCHANGED <<stack, ops, tables, seen>>

ScanInit == Init /\ tables = NoTables /\ seen = <<>> /\ run = new_token(NoState)
ScanNext ==
  \/ tables = NoTables /\ Next /\ UNCHANGED <<tables, seen, run>>
  \/ Finish
  \/ \E n \in 1..MaxBlock : \E block \in [1..n -> Char] : Data(block)
  \/ Eof

ScanSpec == ScanInit /\ [][ScanNext]_scanVars
=============================================================================
