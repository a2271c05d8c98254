------------------------------ MODULE PdaBuild ------------------------------
(***************************************************************************)
(* The construction of the parse tables (src/src/pdabuild.cc, closure.cc,  *)
(* pdagraph.cc): FIRST sets, the LR(0) automaton of all parsers of a       *)
(* program in one graph, terminals that stand for nonterminals, the        *)
(* lookaheads of the reductions, the order in which conflicting actions    *)
(* are tried and in which regions are scanned, precedence, reductions      *)
(* moved in front of the lookahead for parse_stop, and the tables, whose   *)
(* rows are laid over each other.                                          *)
(*                                                                         *)
(* States of the graph are numbers in the order they are allocated.  Sets  *)
(* of pointers are walked in the order of addresses: addresses grow or     *)
(* shrink with allocation (down).  Priorities of shifts are left out: no   *)
(* construct of the language gives one a value other than 0; nor does any  *)
(* set the commit of an element of a production.                           *)
(***************************************************************************)
EXTENDS Integers, Sequences, FiniteSets, SequencesExt

CONSTANTS
  Grammars       \* the grammars to build tables for, see Loaded

VARIABLES
  g,             \* the grammar, with the ids of its language elements
  down,          \* whether later allocations have lower addresses
  phase,
  first,         \* firstSet of each production
  graph,         \* the PdaGraph
  cur,           \* the state being closed, or none
  agenda,        \* calls of pdaOrderProd and pdaOrderFollow still to come
  time,
  row,           \* makePdaTables: the next state to place
  tab            \* the tables

vars == <<g, down, phase, first, graph, cur, agenda, time, row, tab>>

Epsilon == -1
Root == 0        \* _root
NoState == 0
EofRegion == 0
Shift == [shift |-> TRUE, prod |-> 0]
Reduce(p) == [shift |-> FALSE, prod |-> p]
ShiftReduce(p) == [shift |-> TRUE, prod |-> p]
ShiftReduces == {ShiftReduce(p) : p \in DOMAIN g.rhs}
Null == [shift |-> FALSE, prod |-> 0]
-----------------------------------------------------------------------------
(* The grammar.  Its text has terminals 1..terms, nonterminals -1, -2, ...;  *)
(* ids go to the terminals, then to a terminal for each nonterminal, then    *)
(* to an EOF for each parser, then to the nonterminals.  After the           *)
(* productions of the text come the root productions of the parsers.         *)

Loaded(text) ==
  LET users == Len(text.prods)
      parsers == Len(text.starts)
      base == text.terms + text.nts + parsers
      Id(x) == IF x > 0 THEN x ELSE base - x
      P == 1..(users + parsers)
      rhs == [p \in P |-> IF p <= users THEN [i \in DOMAIN text.prods[p].rhs |->
                                                 Id(text.prods[p].rhs[i])]
                          ELSE <<Id(text.starts[p - users])>>]
      Pred(x) == IF x \in DOMAIN text.pred THEN text.pred[x]
                 ELSE [type |-> "none", value |-> 0]
      last(p) == LET with == SelectSeq(rhs[p], LAMBDA x : x \in DOMAIN text.pred)
                 IN IF with = <<>> THEN 0 ELSE with[Len(with)]
  IN [firstNonTerm |-> base + 1,
      terms |-> text.terms,
      nonTerm |-> (base + 1)..(base + text.nts),
      dup |-> [x \in (base + 1)..(base + text.nts) |-> text.terms + (x - base)],
      eof |-> [k \in 1..parsers |-> text.terms + text.nts + k],
      start |-> [k \in 1..parsers |-> Id(text.starts[k])],
      rootDef |-> [k \in 1..parsers |-> users + k],
      stop |-> text.stop,
      lhs |-> [p \in P |-> IF p <= users THEN Id(text.prods[p].lhs) ELSE Root],
      rhs |-> rhs,
      commit |-> [p \in P |-> p <= users /\ text.prods[p].commit],
      reduceFirst |-> {Id(x) : x \in text.reduceFirst},
      pred |-> [x \in 1..base |-> Pred(x)],
      predOf |-> [p \in P |-> last(p)],
      region |-> text.region, preRegion |-> text.preRegion, wasEmpty |-> text.wasEmpty]

Prods == DOMAIN g.rhs
IsNonTerm(x) == x >= g.firstNonTerm
ProdsOf(x) == SelectSeq([p \in Prods |-> p], LAMBDA p : g.lhs[p] = x)
AtEnd(item) == item[2] = Len(g.rhs[item[1]])
Sym(item) == g.rhs[item[1]][item[2] + 1]
Over(item) == <<item[1], item[2] + 1>>
IsEof(x) == x \in Range(g.eof)

\* Pairs of numbers by the address of the object that the first of them stands
\* for (a state of the graph, or with the second a state of a production).
Before(a, b) == a[1] < b[1] \/ (a[1] = b[1] /\ a[2] < b[2])
InOrder(S, Less(_, _)) ==
  [i \in 1..Cardinality(S) |-> CHOOSE a \in S : Cardinality({b \in S : Less(b, a)}) = i - 1]
ByAddress(items) == InOrder(items, LAMBDA a, b : IF down THEN Before(b, a) ELSE Before(a, b))
Keys(trans) == InOrder(DOMAIN trans, <)
-----------------------------------------------------------------------------
(* FIRST sets. *)

\* Walks over a production while what it walks over may be empty.
RECURSIVE MakeFirstSetProd(_, _, _)
MakeFirstSetProd(f, p, i) ==
  IF i = Len(g.rhs[p]) THEN f
  ELSE LET x == g.rhs[p][i + 1]
       IN IF ~IsNonTerm(x) THEN [f EXCEPT ![p] = @ \cup {x}]
          ELSE LET of == UNION {f[q] : q \in Range(ProdsOf(x))}
                   f1 == [f EXCEPT ![p] = @ \cup {x, g.dup[x]} \cup (of \ {Epsilon})]
               IN IF Epsilon \notin of THEN f1
                  ELSE MakeFirstSetProd(
                         IF i + 1 = Len(g.rhs[p]) THEN [f1 EXCEPT ![p] = @ \cup {Epsilon}]
                         ELSE f1, p, i + 1)

MakeFirstSets ==
  /\ phase = "first"
  /\ first' = FoldLeft(LAMBDA f, p :
                MakeFirstSetProd(IF g.rhs[p] = <<>> THEN [f EXCEPT ![p] = @ \cup {Epsilon}] ELSE f,
                                 p, 0),
                first, [p \in Prods |-> p])
  /\ phase' = IF first' = first THEN "lr0" ELSE "first"
  /\ UNCHANGED <<g, down, graph, cur, agenda, time, row, tab>>
-----------------------------------------------------------------------------
(* The graph: states with the items they are made of (kernel), those of the  *)
(* closure (dots), transitions by key, the list of transitions into them.    *)

EmptyState(kernel) ==
  [kernel |-> kernel, dots |-> {}, dots2 |-> {}, pend |-> {}, trans |-> <<>>,
   in |-> <<>>, regions |-> <<>>, pre |-> <<>>, adv |-> FALSE]

NewTrans(to, shift) ==
  [to |-> to, shift |-> shift, reds |-> {}, commits |-> {}, after |-> {},
   expand |-> {}, acts |-> <<>>, ords |-> <<>>, sorted |-> <<>>]

AddState(G, kernel) ==
  [G EXCEPT !.node = @ @@ (G.fresh :> EmptyState(kernel)),
            !.list = Append(@, G.fresh), !.fresh = @ + 1]

AttachTrans(G, from, key, trans) ==
  [G EXCEPT !.node[from].trans = @ @@ (key :> trans),
            !.node[trans.to].in = <<<<from, key>>>> \o @]

\* Moves the transitions in one at a time, from the head of one list to the
\* head of the other.
InTransMove(G, dest, src) ==
  FoldLeft(LAMBDA H, in :
             [H EXCEPT !.node[in[1]].trans[in[2]].to = dest,
                       !.node[src].in = Tail(@),
                       !.node[dest].in = <<in>> \o @],
           G, G.node[src].in)

FollowPath(G, from, keys) == FoldLeft(LAMBDA s, k : G.node[s].trans[k].to, from, keys)

\* The parsers are a set of pointers too; each has the first states in this order.
Parsers(gr) == LET ks == [k \in DOMAIN gr.start |-> k] IN IF down THEN Reverse(ks) ELSE ks
StartState(k) == SelectInSeq(Parsers(g), LAMBDA j : j = k)
EmptyGraph == [node |-> <<>>, list |-> <<>>, fresh |-> 1, closed |-> {},
               stateQueue |-> <<>>, transQueue |-> <<>>]

\* The entry points of all parsers.
EntryGraph(gr) ==
  FoldLeft(LAMBDA G, k : [AddState(G, {<<gr.rootDef[k], 0>>})
                            EXCEPT !.stateQueue = Append(@, G.fresh)],
           EmptyGraph, Parsers(gr))

Init ==
  /\ \E text \in Grammars : g = Loaded(text)
  /\ down \in BOOLEAN
  /\ phase = "first"
  /\ first = [p \in DOMAIN g.rhs |-> {}]
  /\ graph = EntryGraph(g)
  /\ cur = NoState /\ agenda = <<>> /\ time = 1 /\ row = 0 /\ tab = <<>>
-----------------------------------------------------------------------------
(* LR(0) closure. *)

Lr0BringInItem(G, dest, item) ==
  LET G1 == [G EXCEPT !.node[dest].dots = @ \cup {item}]
      x == Sym(item)
      G2 == AttachTrans(AddState(G1, {Over(item)}), dest, x, NewTrans(G1.fresh, TRUE))
  IN IF AtEnd(item)
     THEN IF g.commit[item[1]] THEN [G1 EXCEPT !.node[dest].pend = @ \cup {item}] ELSE G1
     ELSE IF x \in DOMAIN G.node[dest].trans
     THEN [G1 EXCEPT !.node[G.node[dest].trans[x].to].kernel = @ \cup {Over(item)}]
     ELSE IF IsNonTerm(x) THEN [G2 EXCEPT !.transQueue = Append(@, <<dest, x>>)]
     ELSE G2

\* lr0InvokeClosure: drag in the core items,
StartClosure ==
  /\ phase = "lr0" /\ cur = NoState /\ graph.stateQueue # <<>>
  /\ cur' = Head(graph.stateQueue)
  /\ graph' = FoldLeft(LAMBDA G, item : Lr0BringInItem(G, cur', item),
                       [graph EXCEPT !.stateQueue = Tail(@), !.transQueue = <<>>],
                       ByAddress(graph.node[cur'].kernel))
  /\ UNCHANGED <<g, down, phase, first, agenda, time, row, tab>>

\* bring in the derived items,
Derive ==
  /\ phase = "lr0" /\ cur # NoState /\ graph.transQueue # <<>>
  /\ graph' = FoldLeft(LAMBDA G, p : Lr0BringInItem(G, cur, <<p, 0>>),
                       [graph EXCEPT !.transQueue = Tail(@)],
                       ProdsOf(Head(graph.transQueue)[2]))
  /\ UNCHANGED <<g, down, phase, first, cur, agenda, time, row, tab>>

\* then keep the state, or take the closed one with the same items for it.
\* Mutant: a state with more items will do.
SameDots_part(s) == {c \in graph.closed : graph.node[s].dots \subseteq graph.node[c].dots}
SameDots(s) == {c \in graph.closed : graph.node[c].dots = graph.node[s].dots}
Targets(s) == LET trans == graph.node[s].trans
              IN [i \in 1..Len(Keys(trans)) |-> trans[Keys(trans)[i]].to]

FinishClosure ==
  /\ phase = "lr0" /\ cur # NoState /\ graph.transQueue = <<>>
  /\ IF SameDots(cur) = {}
     THEN graph' = [graph EXCEPT
            !.closed = @ \cup {cur},
            !.stateQueue = @ \o SelectSeq(Targets(cur), LAMBDA t :
                                  t \notin graph.closed \cup {cur} \cup Range(@))]
     ELSE \E found \in SameDots(cur) :
          LET gone == {cur} \cup Range(Targets(cur))
              G == InTransMove(graph, found, cur)
          IN graph' = [G EXCEPT !.node = [s \in DOMAIN @ \ gone |-> @[s]],
                                !.list = SelectSeq(@, LAMBDA s : s \notin gone)]
  /\ cur' = NoState
  /\ UNCHANGED <<g, down, phase, first, agenda, time, row, tab>>
-----------------------------------------------------------------------------
(* lalr1GenerateParser after the closure. *)

\* A terminal for each nonterminal that can be shifted: a tree sent whole.
AddDupTerms(G) ==
  FoldLeft(LAMBDA H, s :
    FoldLeft(LAMBDA I, x : AttachTrans(I, s, g.dup[x], NewTrans(I.node[s].trans[x].to, TRUE)),
             H, SelectSeq(Keys(H.node[s].trans), IsNonTerm)),
    G, G.list)

\* Each transition on a nonterminal knows where its productions end.
LinkExpansions(G) ==
  [G EXCEPT !.node = [s \in DOMAIN @ |-> [@[s] EXCEPT !.trans =
     [x \in DOMAIN @ |-> IF ~IsNonTerm(x) THEN @[x]
        ELSE [@[x] EXCEPT !.expand =
                {<<FollowPath(G, s, g.rhs[p]), p>> : p \in Range(ProdsOf(x))}]]]]]

\* The state that reductions go to (never reached), and EOF after the start.
ActionDest == graph.fresh - 1
AddEofs(G) ==
  LET dest == G.fresh
  IN FoldLeft(LAMBDA H, k :
       AttachTrans(H, FollowPath(H, StartState(k), <<g.start[k]>>), g.eof[k], NewTrans(dest, TRUE)),
       AddState(G, {}), Parsers(g))

GenerateParser ==
  /\ phase = "lr0" /\ cur = NoState /\ graph.stateQueue = <<>>
  /\ graph' = [AddEofs(LinkExpansions(AddDupTerms(graph)))
                 EXCEPT !.transQueue = <<>>, !.stateQueue = @]
  /\ phase' = "follow" /\ row' = 1
  /\ UNCHANGED <<g, down, first, cur, agenda, time, tab>>
-----------------------------------------------------------------------------
(* Lookaheads: what can follow a nonterminal is what leaves the state that   *)
(* it leads to; every key is given to the ends of its productions.           *)

\* Commits that wait for the reduction of a production.
TransferCommits(G, s, key, p) ==
  [G EXCEPT !.node[s].trans[key].commits =
     @ \cup {item[2] : item \in {i \in G.node[s].pend : i[1] = p}}]

\* Mutant: an added transition is not passed on.
AddFollowKey_unqueued(G, s, p, key) ==
  LET G1 == IF key \in DOMAIN G.node[s].trans THEN G
            ELSE AttachTrans(G, s, key, NewTrans(ActionDest, FALSE))
  IN TransferCommits([G1 EXCEPT !.node[s].trans[key].reds = @ \cup {p}], s, key, p)

AddFollowKey(G, s, p, key) ==
  LET G1 == IF key \in DOMAIN G.node[s].trans THEN G
            ELSE [AttachTrans(G, s, key, NewTrans(ActionDest, FALSE))
                    EXCEPT !.transQueue = Append(@, <<s, key>>)]
  IN TransferCommits([G1 EXCEPT !.node[s].trans[key].reds = @ \cup {p}], s, key, p)

Lalr1AddFollow2(G, in, keys) ==
  FoldLeft(LAMBDA H, to : FoldLeft(LAMBDA I, key : AddFollowKey(I, to[1], to[2], key), H, keys),
           G, ByAddress(G.node[in[1]].trans[in[2]].expand))

NonTermsIn(s) == SelectSeq(graph.node[s].in, LAMBDA in : IsNonTerm(in[2]))

\* Every state once,
FollowState ==
  /\ phase = "follow" /\ row \in DOMAIN graph.list
  /\ LET s == graph.list[row] IN
       graph' = FoldLeft(LAMBDA G, in :
                  Lalr1AddFollow2(G, in, SelectSeq(Keys(G.node[s].trans), LAMBDA x : ~IsNonTerm(x))),
                  graph, NonTermsIn(s))
  /\ row' = row + 1
  /\ UNCHANGED <<g, down, phase, first, cur, agenda, time, tab>>

\* then every transition that was added.
FollowTrans ==
  /\ phase = "follow" /\ row \notin DOMAIN graph.list /\ graph.transQueue # <<>>
  /\ LET trans == Head(graph.transQueue)
         G == [graph EXCEPT !.transQueue = Tail(@)]
     IN graph' = FoldLeft(LAMBDA H, in : Lalr1AddFollow2(H, in, <<trans[2]>>),
                          G, NonTermsIn(trans[1]))
  /\ UNCHANGED <<g, down, phase, first, cur, agenda, time, row, tab>>
-----------------------------------------------------------------------------
(* The order of actions: a walk down the productions from the roots, over    *)
(* every item of every state once, gives each action a time.                 *)

MapTrans(G, F(_)) ==
  [G EXCEPT !.node = [s \in DOMAIN @ |->
     [@[s] EXCEPT !.trans = [x \in DOMAIN @ |-> F(@[x])]]]]

Actions(t) == (IF t.shift THEN <<Shift>> ELSE <<>>)
                \o [i \in 1..Cardinality(t.reds) |-> Reduce(InOrder(t.reds, <)[i])]

OrderProd(k, s, item) == [call |-> "prod", k |-> k, s |-> s, item |-> item, def |-> 0]
OrderFollow(k, s, item, def) == [call |-> "follow", k |-> k, s |-> s, item |-> item, def |-> def]
OrderShift(k, s, item) == [call |-> "shift", k |-> k, s |-> s, item |-> item, def |-> 0]
OrderEof(k) == [call |-> "eof", k |-> k, s |-> 0, item |-> <<>>, def |-> 0]

CollectActions ==
  /\ phase = "follow" /\ row \notin DOMAIN graph.list /\ graph.transQueue = <<>>
  /\ graph' = MapTrans(graph, LAMBDA t : [t EXCEPT !.acts = Actions(t),
                                                   !.ords = [i \in DOMAIN Actions(t) |-> 0]])
  /\ agenda' = FlattenSeq([i \in DOMAIN g.start |->
                  LET k == Parsers(g)[i]
                  IN <<OrderProd(k, StartState(k), <<g.rootDef[k], 0>>), OrderEof(k)>>])
  /\ phase' = "order"
  /\ UNCHANGED <<g, down, first, cur, time, row, tab>>

\* G and the time, after the action of a transition was given one.
TrySetTime(gt, s, key, act) ==
  LET t == gt.G.node[s].trans[key]
      i == SelectInSeq(t.acts, LAMBDA a : a = act)
  IN IF i # 0 /\ t.ords[i] = 0
     THEN [G |-> [gt.G EXCEPT !.node[s].trans[key].ords[i] = gt.time], time |-> gt.time + 1]
     ELSE gt

AddNew(seq, x) == IF Contains(seq, x) THEN seq ELSE Append(seq, x)

\* The region a token is scanned in, and the one of what is ignored after it.
AddRegion(G, s, key) ==
  IF key \notin DOMAIN g.region THEN G
  ELSE LET to == G.node[s].trans[key].to
           G1 == [G EXCEPT !.node[s].regions = AddNew(@, g.region[key])]
       IN IF g.preRegion[key] = 0 THEN G1
          ELSE [G1 EXCEPT !.node[to].pre = AddNew(@, g.preRegion[key])]

\* pdaOrderProd, up to the shift: the productions of a nonterminal one by one,
\* each followed by its reductions; or first all reductions (reducefirst).
DoOrderProd ==
  /\ phase = "order" /\ agenda # <<>> /\ Head(agenda).call = "prod"
  /\ LET c == Head(agenda)
         defs == IF AtEnd(c.item) THEN <<>> ELSE ProdsOf(Sym(c.item))
         down_ == [i \in DOMAIN defs |-> OrderProd(c.k, c.s, <<defs[i], 0>>)]
         follow == [i \in DOMAIN defs |-> OrderFollow(c.k, c.s, c.item, defs[i])]
         calls == IF ~AtEnd(c.item) /\ Sym(c.item) \in g.reduceFirst THEN follow \o down_
                  ELSE FlattenSeq([i \in DOMAIN defs |-> <<down_[i], follow[i]>>])
     IN /\ graph' = [graph EXCEPT !.node[c.s].dots2 = @ \cup {c.item}]
        /\ agenda' = (IF c.item \in graph.node[c.s].dots2 \/ AtEnd(c.item) THEN <<>>
                      ELSE calls \o <<OrderShift(c.k, c.s, c.item)>>) \o Tail(agenda)
  /\ UNCHANGED <<g, down, phase, first, cur, time, row, tab>>

\* The rest of it: the shift, the shift of the terminal for it, the region, and
\* on over the element.
DoOrderShift ==
  /\ phase = "order" /\ agenda # <<>> /\ Head(agenda).call = "shift"
  /\ LET c == Head(agenda)
         x == Sym(c.item)
         a == TrySetTime([G |-> graph, time |-> time], c.s, x, Shift)
         b == IF IsNonTerm(x) THEN TrySetTime(a, c.s, g.dup[x], Shift) ELSE a
     IN /\ graph' = AddRegion(b.G, c.s, x)
        /\ time' = b.time
        /\ agenda' = <<OrderProd(c.k, graph.node[c.s].trans[x].to, Over(c.item))>> \o Tail(agenda)
  /\ UNCHANGED <<g, down, phase, first, cur, row, tab>>

\* What follows an item: what its rest begins with, and where that may be empty
\* the keys that its production is reduced on at its end.
\* Mutant: empty nonterminals are not looked behind.
FindFollow_first(s, item) ==
  IF AtEnd(item)
  THEN {x \in DOMAIN graph.node[s].trans :
          Contains(graph.node[s].trans[x].acts, Reduce(item[1]))}
  ELSE LET x == Sym(item)
       IN IF ~IsNonTerm(x) THEN {x}
          ELSE UNION {first[q] : q \in Range(ProdsOf(x))} \cup {g.dup[x]}

RECURSIVE FindFollow(_, _)
FindFollow(s, item) ==
  IF AtEnd(item)
  THEN {x \in DOMAIN graph.node[s].trans :
          Contains(graph.node[s].trans[x].acts, Reduce(item[1]))}
  ELSE LET x == Sym(item)
           of == UNION {first[q] : q \in Range(ProdsOf(x))}
       IN IF ~IsNonTerm(x) THEN {x}
          ELSE of \cup {g.dup[x]}
                 \cup IF Epsilon \in of
                      THEN FindFollow(graph.node[s].trans[x].to, Over(item)) ELSE {}

DoOrderFollow ==
  /\ phase = "order" /\ agenda # <<>> /\ Head(agenda).call = "follow"
  /\ LET c == Head(agenda)
         over == graph.node[c.s].trans[Sym(c.item)].to
         keys == IF c.item[1] = g.rootDef[c.k] THEN {g.eof[c.k]} ELSE FindFollow(over, Over(c.item))
         end == FollowPath(graph, c.s, g.rhs[c.def])
         done == FoldLeft(LAMBDA gt, x :
                   LET t == TrySetTime(gt, end, x, Reduce(c.def))
                   IN [t EXCEPT !.G = AddRegion(@, end, x)],
                   [G |-> graph, time |-> time],
                   SelectSeq(Keys(graph.node[end].trans), LAMBDA x : x \in keys))
     IN graph' = done.G /\ time' = done.time
  /\ agenda' = Tail(agenda)
  /\ UNCHANGED <<g, down, phase, first, cur, row, tab>>

\* The shift of EOF; after the last, EOF as the region of the states that have
\* no other.
EofRegions(G) ==
  [G EXCEPT !.node = [s \in DOMAIN @ |-> [@[s] EXCEPT !.regions =
     IF @ # <<>> THEN @
     ELSE [i \in 1..Cardinality({x \in DOMAIN G.node[s].trans : IsEof(x)}) |-> EofRegion]]]]

DoOrderEof ==
  /\ phase = "order" /\ agenda # <<>> /\ Head(agenda).call = "eof"
  /\ LET k == Head(agenda).k
         over == FollowPath(graph, StartState(k), <<g.start[k]>>)
         G == [graph EXCEPT !.node[over].trans[g.eof[k]].ords[1] = time]
     IN graph' = IF Tail(agenda) = <<>> THEN EofRegions(G) ELSE G
  /\ time' = time + 1
  /\ agenda' = Tail(agenda)
  /\ UNCHANGED <<g, down, phase, first, cur, row, tab>>
-----------------------------------------------------------------------------
(* analyzeMachine. *)

\* Mutant: the last time first.
SortActions_descending(t) ==
  LET Time(i) == IF t.ords[i] = 0 THEN time + i ELSE t.ords[i]
      order == InOrder(DOMAIN t.acts, LAMBDA i, j : Time(i) > Time(j))
  IN [t EXCEPT !.acts = [i \in DOMAIN @ |-> @[order[i]]],
               !.ords = [i \in DOMAIN @ |-> Time(order[i])]]

\* Actions without a time come last; then each transition's are sorted.
SortActions(t) ==
  LET Time(i) == IF t.ords[i] = 0 THEN time + i ELSE t.ords[i]
      order == InOrder(DOMAIN t.acts, LAMBDA i, j : Time(i) < Time(j))
  IN [t EXCEPT !.acts = [i \in DOMAIN @ |-> @[order[i]]],
               !.ords = [i \in DOMAIN @ |-> Time(order[i])]]

\* Of two actions with a precedence one stays, or none.
PredOf(x, act) == IF act = Shift THEN IF IsNonTerm(x) THEN 0 ELSE x ELSE g.predOf[act.prod]
HasPred(x, act) == PredOf(x, act) # 0 /\ g.pred[PredOf(x, act)].type # "none"

RECURSIVE Resolve(_, _)
Resolve(x, acts) ==
  LET conflicts == {ij \in (DOMAIN acts) \X (DOMAIN acts) :
                      ij[1] < ij[2] /\ HasPred(x, acts[ij[1]]) /\ HasPred(x, acts[ij[2]])}
  IN IF conflicts = {} THEN acts
     ELSE LET ij == CHOOSE c \in conflicts : \A d \in conflicts : c = d \/ Before(c, d)
              li == g.pred[PredOf(x, acts[ij[1]])]
              lj == g.pred[PredOf(x, acts[ij[2]])]
              swap == \/ lj.value > li.value
                      \/ /\ lj.value = li.value
                         /\ \/ li.type = "left" /\ acts[ij[1]] = Shift
                            \/ li.type = "right" /\ acts[ij[2]] = Shift
              kept == RemoveAt(IF swap THEN [acts EXCEPT ![ij[1]] = acts[ij[2]]] ELSE acts, ij[2])
          IN Resolve(x, IF li.value = lj.value /\ li.type = "nonassoc"
                        THEN RemoveAt(kept, ij[1]) ELSE kept)

\* A transition that no action is left of is removed from the map of the state
\* it leaves, not from the list of those into the one it leads to.  The actions
\* go without their orders; sorted is the actions that the orders are of, a
\* history of the model.
ResolvePrecedence(G) ==
  LET Resolved(x, t) == [t EXCEPT !.acts = Resolve(x, @), !.sorted = t.acts]
  IN [G EXCEPT !.node = [s \in DOMAIN @ |-> [@[s] EXCEPT !.trans =
        [x \in DOMAIN @ |-> Resolved(x, @[x])]]]]
Out(G, s) == {x \in DOMAIN G.node[s].trans : G.node[s].trans[x].acts # <<>>}

\* parse_stop: a state that needs EOF to reduce should reduce without it.
OverStart(G, k) == FollowPath(G, StartState(k), <<g.start[k]>>)
NeedsEof(G, k) == {s \in DOMAIN G.node : s # OverStart(G, k) /\ g.eof[k] \in Out(G, s)}

Analyze ==
  /\ phase = "order" /\ agenda = <<>>
  /\ LET G == ResolvePrecedence(MapTrans(graph, SortActions))
         needs == UNION {NeedsEof(G, k) : k \in g.stop}
     IN graph' = [G EXCEPT !.node = [s \in DOMAIN @ |-> [@[s] EXCEPT !.adv = s \in needs]]]
  /\ phase' = "advance" /\ row' = 1
  /\ UNCHANGED <<g, down, first, cur, agenda, time, tab>>

\* advanceReductions: a state that only reduces, by one production, and is only
\* shifted into: the transitions into it shift and reduce.
Detached(G, s) ==
  [G EXCEPT !.node = [q \in DOMAIN @ |->
     [@[q] EXCEPT !.in = SelectSeq(@, LAMBDA in : in[1] # s),
                  !.trans = IF q = s THEN <<>> ELSE @]]]

AdvanceReduction ==
  /\ phase = "advance" /\ row \in DOMAIN graph.list
  /\ LET s == graph.list[row]
         out == {graph.node[s].trans[x] : x \in Out(graph, s)}
         outReds == UNION {t.reds : t \in out}
         in == {graph.node[i[1]].trans[i[2]] : i \in Range(graph.node[s].in)}
         Moved(G) == FoldLeft(LAMBDA H, i :
                       [H EXCEPT !.node[i[1]].trans[i[2]].acts =
                                    <<ShiftReduce(CHOOSE p \in outReds : TRUE)>>,
                                 !.node[i[1]].trans[i[2]].after = @ \cup UNION {t.commits : t \in out}],
                       G, G.node[s].in)
     IN graph' = IF /\ graph.node[s].adv
                    /\ \A t \in out : ~t.shift
                    /\ Cardinality(outReds) = 1
                    /\ \E t \in in : t.shift
                    /\ \A t \in in : t.reds = {}
                 THEN InTransMove(Detached(Moved(graph), s), ActionDest, s)
                 ELSE graph
  /\ row' = row + 1
  /\ UNCHANGED <<g, down, phase, first, cur, agenda, time, tab>>

\* What cannot be reached from an entry is removed, states are numbered.
RECURSIVE Reach(_, _)
Reach(G, S) ==
  LET more == S \cup UNION {{G.node[s].trans[x].to : x \in Out(G, s)} : s \in S}
  IN IF more = S THEN S ELSE Reach(G, more)
RemoveUnreachable(G) ==
  LET kept == Reach(G, {StartState(k) : k \in DOMAIN g.start})
  IN [G EXCEPT !.list = SelectSeq(@, LAMBDA s : s \in kept),
               !.node = [s \in kept |-> [@[s] EXCEPT
                  !.trans = [x \in {y \in Out(G, s) : @[y].to \in kept} |-> @[x]],
                  !.in = SelectSeq(@, LAMBDA in : in[1] \in kept)]]]

StateNum(G, s) == SelectInSeq(G.list, LAMBDA t : t = s) - 1

MaxOf(lengths) == IF lengths = {} THEN 0 ELSE CHOOSE n \in lengths : \A m \in lengths : m <= n
CommitLen(t) ==
  LET before == MaxOf(t.commits)
      after == MaxOf(t.after)
  IN IF t.after = {} THEN -before
     ELSE IF before > 0 /\ before + 1 > after THEN before + 1 ELSE after

ActionData(G, t) == [targ |-> StateNum(G, t.to), acts |-> t.acts, commit |-> CommitLen(t)]
-----------------------------------------------------------------------------
(* makePdaTables.  Arrays start at 0. *)

Array(seq) == [i \in 0..(Len(seq) - 1) |-> seq[i + 1]]
Sum(seq) == FoldLeft(LAMBDA a, b : a + b, 0, seq)
Offsets(seq, from) == [i \in DOMAIN seq |-> from + Sum(SubSeq(seq, 1, i - 1))]

Low(G, s) == Keys(G.node[s].trans)[1]
High(G, s) == Keys(G.node[s].trans)[Cardinality(DOMAIN G.node[s].trans)]
Span(G, s) == IF DOMAIN G.node[s].trans = {} THEN 0 ELSE High(G, s) - Low(G, s) + 1

EmptyTables(G) ==
  LET n == Len(G.list)
      Of(F(_)) == [i \in 1..n |-> F(G.list[i])]
      count == Sum(Of(LAMBDA s : Span(G, s)))
      data == FlattenSeq(Of(LAMBDA s : [i \in 1..Cardinality(DOMAIN G.node[s].trans) |->
                  ActionData(G, G.node[s].trans[Keys(G.node[s].trans)[i]])]))
      sets == FoldLeft(AddNew, <<>>, data)
      Pre(s) == IF G.node[s].pre = <<>> \/ Head(G.node[s].pre) \in g.wasEmpty
                THEN -1 ELSE Head(G.node[s].pre)
      regions == Of(LAMBDA s : G.node[s].regions)
  IN [numStates |-> n,
      owners |-> [i \in 0..(count - 1) |-> -1],
      indices |-> [i \in 0..(count - 1) |-> -1],
      offsets |-> [i \in 0..(n - 1) |-> 0],
      indLen |-> 0,
      keys |-> Array(FlattenSeq(Of(LAMBDA s : IF DOMAIN G.node[s].trans = {} THEN <<0, 0>>
                                              ELSE <<Low(G, s), High(G, s)>>))),
      sets |-> sets,
      targs |-> Array([i \in DOMAIN sets |-> sets[i].targ]),
      actInds |-> Array(Offsets([i \in DOMAIN sets |-> Len(sets[i].acts) + 1], 0)),
      actions |-> Array(FlattenSeq([i \in DOMAIN sets |-> Append(sets[i].acts, Null)])),
      commitLen |-> Array([i \in DOMAIN sets |-> sets[i].commit]),
      regionInds |-> Array(Offsets([i \in 1..n |-> Len(regions[i]) + 1], 1)),
      regions |-> Array(<<0>> \o FlattenSeq([i \in 1..n |-> Append(regions[i], 0)])),
      preRegions |-> Array(<<0>> \o FlattenSeq(Of(LAMBDA s :
                         Append([i \in DOMAIN G.node[s].regions |-> Pre(s)], 0))))]

\* verifyParseStopGrammar stops the compiler if EOF is still needed.
FinishAnalysis ==
  /\ phase = "advance" /\ row \notin DOMAIN graph.list
  /\ graph' = RemoveUnreachable(graph)
  /\ IF \E k \in g.stop : NeedsEof(graph', k) # {}
     THEN phase' = "error" /\ tab' = tab
     ELSE phase' = "place" /\ tab' = EmptyTables(graph')
  /\ row' = 1
  /\ UNCHANGED <<g, down, first, cur, agenda, time>>

\* findIndexOff: where all keys of the row find their place free.
\* Mutant: the first key finds its place free.
FindIndexOff_first(T, keys) ==
  LET fits == {start \in 0..(T.indLen - 1) : T.owners[start] = -1}
  IN IF fits = {} THEN T.indLen ELSE CHOOSE a \in fits : \A b \in fits : a <= b
FindIndexOff(T, keys) ==
  LET fits == {start \in 0..(T.indLen - 1) :
                 \A i \in DOMAIN keys : T.owners[start + keys[i] - keys[1]] = -1}
  IN IF fits = {} THEN T.indLen ELSE CHOOSE a \in fits : \A b \in fits : a <= b

Place ==
  /\ phase = "place" /\ row \in DOMAIN graph.list
  /\ LET s == graph.list[row]
         trans == graph.node[s].trans
         keys == Keys(trans)
         off == FindIndexOff(tab, keys)
         At(x) == off + x - keys[1]
         placed == {At(x) : x \in DOMAIN trans}
         Index(i) == SelectInSeq(tab.sets, LAMBDA a :
                       a = ActionData(graph, trans[i - off + keys[1]])) - 1
     IN tab' = [tab EXCEPT
          !.offsets[row - 1] = off,
          !.indices = [i \in DOMAIN @ |-> IF i \in placed THEN Index(i) ELSE @[i]],
          !.owners = [i \in DOMAIN @ |-> IF i \in placed THEN row - 1 ELSE @[i]],
          !.indLen = IF keys = <<>> THEN @
                     ELSE LET end == At(keys[Len(keys)]) + 1 IN IF end > @ THEN end ELSE @]
  /\ row' = row + 1
  /\ UNCHANGED <<g, down, phase, first, graph, cur, agenda, time>>

Finish ==
  /\ phase = "place" /\ row \notin DOMAIN graph.list
  /\ phase' = "done"
  /\ UNCHANGED <<g, down, first, graph, cur, agenda, time, row, tab>>

Stopped == phase \in {"done", "error"} /\ UNCHANGED vars

Next ==
  \/ MakeFirstSets
  \/ StartClosure \/ Derive \/ FinishClosure \/ GenerateParser
  \/ FollowState \/ FollowTrans
  \/ CollectActions \/ DoOrderProd \/ DoOrderShift \/ DoOrderFollow \/ DoOrderEof
  \/ Analyze \/ AdvanceReduction \/ FinishAnalysis
  \/ Place \/ Finish \/ Stopped

Spec == Init /\ [][Next]_vars
=============================================================================
