------------------------------- MODULE FsmGraph -------------------------------
(***************************************************************************)
(* The finite automata that colm builds its scanners from                  *)
(* (src/src/fsmgraph.cc, fsmattach.cc, fsmbase.cc, fsmmin.cc, fsmap.cc).   *)
(* The operations work in place and keep the automaton deterministic: to   *)
(* merge one state into another is to copy its transitions, and where two  *)
(* transitions on one key meet, the one of higher priority wins; equal     *)
(* ones are redirected to a new state that stands for the set of both      *)
(* targets and is filled in at the end of the operation (the subset        *)
(* construction, done locally).  A state without a way in from another     *)
(* state goes to the list of misfits while an operation runs, and is       *)
(* deleted when it ends.                                                   *)
(*                                                                         *)
(* An automaton is a value: its states are numbers, a transition on a      *)
(* range of keys is a transition on each key, and the lists of states are  *)
(* sets (their order chooses which of several equal states is kept).       *)
(***************************************************************************)
EXTENDS Integers, Sequences, SequencesExt, FiniteSets, FiniteSetsExt, TLC

CONSTANT Char     \* the alphabet

None == <<>>      \* the empty table
NoState == 0

NewState ==
  [out |-> None, foreign |-> 0, bits |-> {}, prior |-> None, dict |-> {},
   eof |-> {}, from |-> FALSE]

FsmGraph ==
  [states |-> {}, misfits |-> {}, fin |-> {}, start |-> NoState, accounting |-> FALSE,
   node |-> None, fill |-> <<>>]

Nodes(g) == DOMAIN g.node
NextId(g) == IF Nodes(g) = {} THEN 1 ELSE Max(Nodes(g)) + 1
Out(g, s) == g.node[s].out
isFinState(g, s) == s \in g.fin
Trans(to) == [to |-> to, prior |-> None, lm |-> {}, acts |-> {}]

addState(g) ==
  LET added == [g EXCEPT !.node = @ @@ NextId(g) :> NewState]
  IN IF g.accounting THEN [added EXCEPT !.misfits = @ \cup {NextId(g)}]
     ELSE [added EXCEPT !.states = @ \cup {NextId(g)}]

RECURSIVE Ascending(_)
Ascending(S) == IF S = {} THEN <<>> ELSE <<Min(S)>> \o Ascending(S \ {Min(S)})

setFinState(g, s) == [g EXCEPT !.fin = @ \cup {s}]
clearOutData(g, s) == [g EXCEPT !.node[s].prior = None]
unsetFinState(g, s) == [clearOutData(g, s) EXCEPT !.fin = @ \ {s}]
setFinBits(g, bits) ==
  [g EXCEPT !.node = [s \in g.fin |-> [@[s] EXCEPT !.bits = @ \cup bits]] @@ @]
-----------------------------------------------------------------------------
(* Transitions in, and the misfits. *)

\* (variant) a loop counts as a way in
attachToInList_loop(g, from, to) ==
  LET counted == [g EXCEPT !.node[to].foreign = @ + 1]
  IN IF g.accounting /\ g.node[to].foreign = 0
     THEN [counted EXCEPT !.states = @ \cup {to}, !.misfits = @ \ {to}]
     ELSE counted

attachToInList(g, from, to) ==
  LET counted == [g EXCEPT !.node[to].foreign = @ + 1]
  IN IF from = to THEN g
     ELSE IF g.accounting /\ g.node[to].foreign = 0
          THEN [counted EXCEPT !.states = @ \cup {to}, !.misfits = @ \ {to}]
          ELSE counted

detachFromInList(g, from, to) ==
  LET counted == [g EXCEPT !.node[to].foreign = @ - 1]
  IN IF from = to THEN g
     ELSE IF g.accounting /\ g.node[to].foreign = 1
          THEN [counted EXCEPT !.misfits = @ \cup {to}, !.states = @ \ {to}]
          ELSE counted

setStartState(g, s) == [attachToInList(g, NoState, s) EXCEPT !.start = s]
unsetStartState(g) == [detachFromInList(g, NoState, g.start) EXCEPT !.start = NoState]

attachTrans(g, from, c, trans) ==
  [attachToInList(g, from, trans.to) EXCEPT !.node[from].out = c :> trans @@ @]
detachTrans(g, from, c) ==
  [detachFromInList(g, from, Out(g, from)[c].to) EXCEPT
     !.node[from].out = [d \in DOMAIN @ \ {c} |-> @[d]]]

Redirect(g, from, c, trans) == attachTrans(detachTrans(g, from, c), from, c, trans)

attachNewTrans(g, from, to, keys) ==
  FoldSet(LAMBDA c, h : attachTrans(h, from, c, Trans(to)), g, keys)

InTrans(g, s) == {<<t, c>> \in Nodes(g) \X Char : c \in DOMAIN Out(g, t) /\ Out(g, t)[c].to = s}

DetachIn(g, s) == FoldSet(LAMBDA tc, h : detachTrans(h, tc[1], tc[2]), g, InTrans(g, s))
DetachOut(g, s) == FoldSet(LAMBDA c, h : detachTrans(h, s, c), g, DOMAIN Out(g, s))

\* All the transitions in and out of the state, and the state itself.
detachState(g, s) ==
  [DetachOut(DetachIn(g, s), s) EXCEPT
     !.node = [t \in DOMAIN @ \ {s} |-> @[t]],
     !.states = @ \ {s}, !.misfits = @ \ {s}, !.fin = @ \ {s}]

RECURSIVE RemoveAll(_)
RemoveAll(g) == IF g.misfits = {} THEN g ELSE RemoveAll(detachState(g, Min(g.misfits)))

setMisfitAccounting(g, on) == [g EXCEPT !.accounting = on]
removeMisfits(g) == setMisfitAccounting(RemoveAll(g), FALSE)
-----------------------------------------------------------------------------
(* Priorities. *)

setPrior(table, key, el) ==
  IF key \in DOMAIN table /\ el.ordering < table[key].ordering THEN table ELSE key :> el @@ table
setPriors(table, other) ==
  FoldSet(LAMBDA k, t : setPrior(t, k, other[k]), table, DOMAIN other)

\* The first key that both tables have decides: -1 if the first one is lower.
comparePrior(t1, t2) ==
  LET differ == {k \in DOMAIN t1 \cap DOMAIN t2 : t1[k].priority # t2[k].priority}
  IN IF differ = {} THEN 0
     ELSE IF t1[Min(differ)].priority < t2[Min(differ)].priority THEN -1 ELSE 1

\* Set the priority of the transitions <<state, key>>.
SetTransPrior(g, which, key, el) ==
  FoldSet(LAMBDA sc, h : [h EXCEPT !.node[sc[1]].out[sc[2]].prior = setPrior(@, key, el)],
          g, which)

OutTrans(g, S) == {<<s, c>> \in S \X Char : c \in DOMAIN Out(g, s)}
allTransPrior(g, key, el) == SetTransPrior(g, OutTrans(g, g.states), key, el)
leaveFsmPrior(g, key, el) ==
  FoldSet(LAMBDA s, h : [h EXCEPT !.node[s].prior = setPrior(@, key, el)], g, g.fin)
-----------------------------------------------------------------------------
(* Merging states. *)

addInTrans(dest, src) ==
  [dest EXCEPT !.lm = @ \cup src.lm, !.acts = @ \cup src.acts, !.prior = setPriors(@, src.prior)]

StateSet(g, s) == IF g.node[s].dict = {} THEN {s} ELSE g.node[s].dict

\* The state that stands for a set of states, made if there is none.
StateOf(g, set) == CHOOSE s \in Nodes(g) : g.node[s].dict = set
WithStateOf(g, set) ==
  LET new == NextId(g)
  IN IF \E s \in Nodes(g) : g.node[s].dict = set THEN g
     ELSE [addState(g) EXCEPT !.node[new].dict = set, !.fill = Append(@, new)]

\* Two transitions of equal priority: on to the state for the set of targets.
fsmAttachStates(g, from, c, src) ==
  LET dest == Out(g, from)[c]
      set == StateSet(g, dest.to) \cup StateSet(g, src.to)
      onto(h) == Redirect(h, from, c, [addInTrans(dest, src) EXCEPT !.to = StateOf(h, set)])
  IN IF dest.to = src.to THEN [g EXCEPT !.node[from].out[c] = addInTrans(dest, src)]
     ELSE onto(WithStateOf(g, set))

crossTransitions(g, from, c, src) ==
  LET cmp == comparePrior(Out(g, from)[c].prior, src.prior)
  IN CASE cmp < 0 -> Redirect(g, from, c, src)
       [] cmp > 0 -> g
       [] OTHER -> fsmAttachStates(g, from, c, src)

outTransCopy(g, dest, src) ==
  FoldSet(LAMBDA c, h : IF c \in DOMAIN Out(h, dest)
                        THEN crossTransitions(h, dest, c, Out(g, src)[c])
                        ELSE attachTrans(h, dest, c, Out(g, src)[c]), g, DOMAIN Out(g, src))

mergeStates(g, dest, src) ==
  [outTransCopy(g, dest, src) EXCEPT
     !.node[dest].bits = @ \cup g.node[src].bits,
     !.node[dest].prior = IF src = dest THEN @ ELSE setPriors(@, g.node[src].prior),
     !.fin = IF src \in @ THEN @ \cup {dest} ELSE @]

mergeAll(g, dest, srcs) == FoldSet(LAMBDA s, h : mergeStates(h, dest, s), g, srcs)

transferOutData(g, dest, src) ==
  FoldSet(LAMBDA c, h : [h EXCEPT !.node[dest].out[c].prior = setPriors(@, g.node[src].prior)],
          g, DOMAIN Out(g, dest))

\* Transitions drawn out of a final state carry what was set for leaving it.
mergeStatesLeaving(g, dest, src) ==
  LET m == NextId(g)
      leaves == g.node[dest].prior # None
      by == IF leaves THEN m ELSE dest
      copy == mergeStates(IF leaves THEN addState(g) ELSE g, by, src)
  IN IF leaves THEN mergeStates(transferOutData(copy, m, dest), dest, m) ELSE copy

RECURSIVE FillFrom(_, _)
FillFrom(g, i) ==
  IF i > Len(g.fill) THEN g
  ELSE FillFrom(mergeAll(g, g.fill[i], g.node[g.fill[i]].dict), i + 1)

fillInStates(g) ==
  [FillFrom(g, 1) EXCEPT
     !.fill = <<>>, !.node = [s \in DOMAIN @ |-> [@[s] EXCEPT !.dict = {}]]]

isStartStateIsolated(g) == InTrans(g, g.start) = {}

isolateStartState(g) ==
  LET old == g.start
      new == NextId(g)
      off == unsetStartState(setMisfitAccounting(g, TRUE))
  IN IF isStartStateIsolated(g) THEN g
     ELSE removeMisfits(mergeStates(setStartState(addState(off), new), new, old))

startFsmPrior(g, key, el) ==
  LET set(h) == SetTransPrior(h, OutTrans(h, {h.start}), key, el)
  IN set(isolateStartState(g))
-----------------------------------------------------------------------------
(* The operations. *)

RECURSIVE Line(_, _, _)
Line(g, last, str) ==
  IF str = <<>> THEN setFinState(g, last)
  ELSE Line(attachNewTrans(addState(g), last, NextId(g), {Head(str)}), NextId(g), Tail(str))

concatFsm(str) == Line(setStartState(addState(FsmGraph), 1), 1, str)
lambdaFsm == concatFsm(<<>>)
emptyFsm == setStartState(addState(FsmGraph), 1)
orFsm(keys) == setFinState(attachNewTrans(addState(emptyFsm), 1, 2, keys), 2)
rangeStarFsm(keys) == attachNewTrans(lambdaFsm, 1, 1, keys)

\* The other automaton's states come over into this one.
Brought(g, other) ==
  LET n == NextId(g) - 1
      up(s) == IF s = NoState THEN s ELSE s + n
      moved(t) == [t EXCEPT !.to = up(@)]
      node(x) == [x EXCEPT !.out = [c \in DOMAIN @ |-> moved(@[c])]]
      shift(S) == {up(s) : s \in S}
  IN [g EXCEPT !.node = @ @@ [s \in shift(Nodes(other)) |-> node(other.node[s - n])],
               !.states = @ \cup shift(other.states), !.misfits = @ \cup shift(other.misfits)]
BroughtId(g, s) == s + NextId(g) - 1

KeepOutData(g, s) == IF s \in g.fin THEN g ELSE clearOutData(g, s)

doConcat(g, other, fromStates, optional) ==
  LET h == Brought(setMisfitAccounting(g, TRUE), unsetStartState(setMisfitAccounting(other, TRUE)))
      fins == [h EXCEPT !.fin = (IF optional THEN g.fin ELSE {})
                                \cup {BroughtId(g, s) : s \in other.fin}]
      next == BroughtId(g, other.start)
  IN removeMisfits(fillInStates(
       FoldSet(LAMBDA s, x : KeepOutData(mergeStatesLeaving(x, s, next), s), fins, fromStates)))

concatOp(g, other) == doConcat(g, other, g.fin, FALSE)

\* The final states go back to the new start state, that one last.
LoopBack(g, new) ==
  FoldLeft(LAMBDA h, s : mergeStatesLeaving(h, s, new), g,
           Ascending(g.fin \ {new}) \o IF new \in g.fin THEN <<new>> ELSE <<>>)

starOp(g) ==
  LET new == NextId(g)
      off == unsetStartState(setMisfitAccounting(g, TRUE))
      begun == setStartState(addState(off), new)
  IN removeMisfits(fillInStates(setFinState(
       LoopBack(mergeStates(begun, new, g.start), new), new)))

repeatOp(g, times) ==
  FoldLeft(LAMBDA h, i : concatOp(h, g), g, [i \in 1..(times - 1) |-> i])

\* (variant) every copy starts where the first one ended
optionalRepeatOp_first(g, times) ==
  FoldLeft(LAMBDA h, i : doConcat(h, g, g.fin, TRUE), setFinState(g, g.start),
           [i \in 1..(times - 1) |-> i])

Copied(h) ==
  LET last == {s \in h.fin : "G2" \in h.node[s].bits}
  IN [g |-> [h EXCEPT !.node = [s \in last |-> [@[s] EXCEPT !.bits = @ \ {"G2"}]] @@ @],
      last |-> last]

\* Each copy starts at the final states of the one before, found by their bit.
optionalRepeatOp(g, times) ==
  LET marked(i) == IF i < times THEN setFinBits(g, {"G2"}) ELSE g
  IN FoldLeft(LAMBDA x, i : Copied(doConcat(x.g, marked(i), x.last, TRUE)),
              [g |-> setFinState(g, g.start), last |-> g.fin],
              [i \in 1..(times - 1) |-> i + 1]).g

doOr(g, other) ==
  LET h == Brought(unsetStartState(g), unsetStartState(other))
      fins == [h EXCEPT !.fin = g.fin \cup {BroughtId(g, s) : s \in other.fin}]
      new == NextId(fins)
  IN fillInStates(mergeAll(setStartState(addState(fins), new), new,
                           {g.start, BroughtId(g, other.start)}))

Accounted(g) == setMisfitAccounting(g, TRUE)
ClearBits(g, S, bits) ==
  [g EXCEPT !.node = [s \in S |-> [@[s] EXCEPT !.bits = @ \ bits]] @@ @]
unsetWhere(g, test(_), bits) ==
  ClearBits(FoldSet(LAMBDA s, h : IF test(g.node[s].bits) THEN unsetFinState(h, s) ELSE h,
                    g, g.fin), g.fin, bits)

unsetKilledFinals(g) == unsetWhere(g, LAMBDA b : "G1" \in b, {"G1"})
unsetIncompleteFinals(g) ==
  unsetWhere(g, LAMBDA b : b # {} /\ b # {"G1", "G2"}, {"G1", "G2"})

unionOp(g, other) == removeMisfits(doOr(Accounted(g), Accounted(other)))
-----------------------------------------------------------------------------
(* Cleaning up and minimizing. *)

RECURSIVE Marked(_, _, _)
Marked(next(_), seen, front) ==
  IF front = {} THEN seen
  ELSE LET new == UNION {next(s) : s \in front} \ (seen \cup front)
       IN Marked(next, seen \cup front, new)

Targets(g, s) == {Out(g, s)[c].to : c \in DOMAIN Out(g, s)}
Reachable(g, s) == Marked(LAMBDA t : Targets(g, t), {}, {s})
reachableFromHereStopFinal(g, s) == Marked(LAMBDA t : Targets(g, t) \ g.fin, {}, {s})
reachableReverse(g) == Marked(LAMBDA t : {tc[1] : tc \in InTrans(g, t)}, {}, g.fin)

RemoveStates(g, S) == FoldSet(LAMBDA s, h : detachState(h, s), g, S)
removeUnreachableStates(g) == RemoveStates(g, g.states \ Reachable(g, g.start))
removeDeadEndStates(g) == RemoveStates(g, g.states \ (reachableReverse(g) \cup {g.start}))

intersectOp(g, other) ==
  removeDeadEndStates(removeMisfits(unsetIncompleteFinals(
    doOr(Accounted(setFinBits(g, {"G1"})), Accounted(setFinBits(other, {"G2"}))))))

subtractOp(g, other) ==
  removeDeadEndStates(removeMisfits(unsetKilledFinals(
    doOr(Accounted(g), Accounted(setFinBits(other, {"G1"}))))))

InitialKey(g, s) ==
  <<s \in g.fin, g.node[s].prior, g.node[s].eof, g.node[s].from,
    [c \in DOMAIN Out(g, s) |-> [Out(g, s)[c] EXCEPT !.to = NoState]]>>

PartOf(parts, s) == CHOOSE p \in DOMAIN parts : s \in parts[p]
PartKey(g, parts, s) == [c \in DOMAIN Out(g, s) |-> PartOf(parts, Out(g, s)[c].to)]

\* The classes of S under a key, the one of its least element first.
RECURSIVE Listed(_)
Listed(classes) ==
  IF classes = {} THEN <<>>
  ELSE LET first == CHOOSE C \in classes : Min(C) = Min(UNION classes)
       IN <<first>> \o Listed(classes \ {first})
Classes(S, key(_)) == Listed({{t \in S : key(t) = key(s)} : s \in S})

Candidates(g, x) == Classes(x.parts[Head(x.splittable)], LAMBDA s : PartKey(g, x.parts, s))
SplitParts(x, classes) == [x.parts EXCEPT ![Head(x.splittable)] = classes[1]] \o Tail(classes)

\* (variant) a split wakes nobody
splitCandidates_asleep(g, x) ==
  [parts |-> SplitParts(x, Candidates(g, x)), splittable |-> Tail(x.splittable)]

\* The partitions with a transition into the parts of one that was split may
\* have to be split (again).
Wake(g, x, classes, parts) ==
  LET from == {PartOf(parts, tc[1]) :
                 tc \in UNION {InTrans(g, s) : s \in x.parts[Head(x.splittable)]}}
  IN IF Len(classes) = 1 THEN {} ELSE from \ ToSet(Tail(x.splittable))

\* Split the first partition of the list.
splitCandidates(g, x) ==
  LET into(classes, parts) ==
        [parts |-> parts,
         splittable |-> Tail(x.splittable) \o Ascending(Wake(g, x, classes, parts))]
      split(classes) == into(classes, SplitParts(x, classes))
  IN split(Candidates(g, x))

RECURSIVE Split(_, _)
Split(g, x) == IF x.splittable = <<>> THEN x.parts ELSE Split(g, splitCandidates(g, x))

inTransMove(g, dest, src) ==
  LET h == IF src = g.start THEN setStartState(unsetStartState(g), dest) ELSE g
      move(tc, x) == Redirect(x, tc[1], tc[2], [Out(x, tc[1])[tc[2]] EXCEPT !.to = dest])
  IN FoldSet(move, h, InTrans(h, src))

fuseEquivStates(g, dest, src) == detachState(inTransMove(g, dest, src), src)
fusePartitions(g, parts) ==
  FoldLeft(LAMBDA h, S : FoldSet(LAMBDA s, x : fuseEquivStates(x, Min(S), s), h, S \ {Min(S)}),
           g, parts)

minimizePartition2(g) ==
  LET withOut(part) == \E s \in part : Out(g, s) # None
      start(parts) == [parts |-> parts,
                       splittable |-> SelectSeq([p \in DOMAIN parts |-> p],
                                                LAMBDA p : withOut(parts[p]))]
  IN fusePartitions(g, Split(g, start(Classes(g.states, LAMBDA s : InitialKey(g, s)))))

afterOpMinimize(g) == minimizePartition2(removeUnreachableStates(g))
-----------------------------------------------------------------------------
(* What an automaton accepts. *)

RECURSIVE Run(_, _, _)
Run(g, s, w) ==
  IF w = <<>> \/ s = NoState THEN s
  ELSE Run(g, IF Head(w) \in DOMAIN Out(g, s) THEN Out(g, s)[Head(w)].to ELSE NoState, Tail(w))

Accepts(g, w) == Run(g, g.start, w) \in g.fin
=============================================================================
