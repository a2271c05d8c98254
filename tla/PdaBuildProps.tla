--------------------------- MODULE PdaBuildProps ----------------------------
(***************************************************************************)
(* What the tables of PdaBuild promise, against the definitions of         *)
(* GrammarLang.                                                            *)
(***************************************************************************)
EXTENDS PdaBuild

CONSTANTS
  MaxLeaves,     \* bounds of the parses that are compared: tokens,
  MaxProds       \* productions

Lang == INSTANCE GrammarLang
-----------------------------------------------------------------------------
(* The parser reads the tables (src/src/pdarun.c). *)

None == -1
Lookup(T, cs, x) ==
  LET at == T.offsets[cs] + x - T.keys[2 * cs]
  IN IF \/ x < T.keys[2 * cs] \/ x > T.keys[2 * cs + 1]
        \/ T.owners[at] # cs \/ T.indices[at] < 0
     THEN None ELSE T.indices[at]

RECURSIVE ListAt(_, _, _)
ListAt(array, end, i) ==
  IF array[i] = end THEN <<>> ELSE <<array[i]>> \o ListAt(array, end, i + 1)
ActionsAt(T, pos) == ListAt(T.actions, Null, T.actInds[pos])
RegionsAt(T, cs) == ListAt(T.regions, 0, T.regionInds[cs])
PreRegionsAt(T, cs) == ListAt(T.preRegions, 0, T.regionInds[cs])

\* Every parse of up to MaxLeaves tokens that the parser finds if it tries all
\* alternatives: the tree, and what was used of the tables.  The input starts
\* with what was reduced and not shifted yet, or the token read ahead.
Alphabet == 1..g.terms \cup Range(g.dup)
RECURSIVE Runs(_, _, _, _, _, _)
Runs(k, stack, in, used, tokens, prods) ==
  LET cs == stack[Len(stack)].state
      pos == Lookup(tab, cs, Head(in).sym)
      acts == ActionsAt(tab, pos)
      Try(i) ==
        LET p == acts[i].prod
            now == used \cup {<<cs, Head(in).sym, i>>}
            over == IF acts[i].shift
                    THEN Append(stack, [state |-> tab.targs[pos], tree |-> Head(in)]) ELSE stack
            rest == IF acts[i].shift THEN Tail(in) ELSE in
            below == Len(over) - Len(g.rhs[p])
            node == [prod |-> p, sym |-> g.lhs[p],
                     of |-> [i_ \in 1..Len(g.rhs[p]) |-> over[below + i_].tree]]
        IN IF p # 0
           THEN IF prods = 0 THEN {}
                ELSE Runs(k, SubSeq(over, 1, below), <<node>> \o rest, now, tokens, prods - 1)
           ELSE IF Head(in).sym = g.eof[k] THEN {[tree |-> stack[Len(stack)].tree, used |-> now]}
           ELSE Runs(k, over, rest, now, tokens, prods)
  IN IF in = <<>>
     THEN UNION {Runs(k, stack, <<Lang!Leaf(x)>>, used, tokens - 1, prods) :
                   x \in {g.eof[k]} \cup IF tokens = 0 THEN {} ELSE Alphabet}
     ELSE IF pos = None THEN {} ELSE UNION {Try(i) : i \in DOMAIN acts}

StartNum(k) == StateNum(graph, StartState(k))
RunsFrom(k) ==
  Runs(k, <<[state |-> StartNum(k), tree |-> Lang!Leaf(0)]>>, <<>>, {}, MaxLeaves, MaxProds)
-----------------------------------------------------------------------------
States == Range(graph.list) \ {ActionDest}
Items(s) == graph.node[s].dots

\* The closure of a queue of states, with states dropped again when an equal
\* one was found, gives the LR(0) automaton of all parsers together: each set
\* of items once, every transition in place, and a terminal beside every
\* nonterminal.
ItemsExact ==
  phase = "follow" /\ row = 1 =>
    /\ {Items(s) : s \in States} = Lang!Canonical(g)
    /\ \A s, t \in States : s # t => Items(s) # Items(t)
    /\ \A k \in DOMAIN g.start : Items(StartState(k)) = Lang!Start(g, k)
    /\ \A s \in States :
         LET trans == graph.node[s].trans
             after == Lang!After(g, Items(s))
         IN /\ DOMAIN trans \ Range(g.eof) = after \cup {g.dup[x] : x \in after \cap g.nonTerm}
            /\ \A x \in after : /\ Items(trans[x].to) = Lang!Goto(g, Items(s), x)
                                /\ x \in g.nonTerm => trans[g.dup[x]].to = trans[x].to

\* The lookaheads of reductions, found by a queue of added transitions, are
\* those of the least fixpoint, in whatever order sets of pointers are walked.
\* No lookahead that LALR(1) asks for is missing, and none is there that does
\* not follow the nonterminal in some sentence.  The commit of a production is
\* on every transition that reduces it, and on no other.
Lookaheads ==
  UNION {UNION {{<<Items(s), p, x>> : p \in graph.node[s].trans[x].reds}
                  : x \in DOMAIN graph.node[s].trans} : s \in States}
LookaheadsExact ==
  phase = "follow" /\ row \notin DOMAIN graph.list /\ graph.transQueue = <<>> =>
    /\ Lookaheads = Lang!StateAhead(g, {Items(s) : s \in States})
    /\ Lang!LALR(g) \subseteq Lookaheads
    /\ \A t \in Lookaheads : <<g.lhs[t[2]], t[3]>> \in Lang!Follow(g)
    /\ \A s \in States : \A x \in DOMAIN graph.node[s].trans :
         LET trans == graph.node[s].trans[x]
         IN trans.commits = {Len(g.rhs[p]) : p \in {q \in trans.reds : g.commit[q]}}

\* The order that the i-th action of a transition was given when it was collected; a
\* shift that reduces was a shift then.
OrderOf(t, i) ==
  LET act == IF t.acts[i] \in ShiftReduces THEN Shift ELSE t.acts[i]
  IN t.ords[SelectInSeq(t.sorted, LAMBDA a : a = act)]

\* The assertions of the compiler: the walk that orders the actions reaches
\* every item; a nonterminal is shifted without alternative, a shift that
\* reduces has none; the state that a token leads to has one region to ignore text in.
\* And its comment that actions without an order "result in a parse error": no
\* parse uses one, and the token that an action waits for is of a region that
\* is tried in its state.
Ordered ==
  /\ phase = "advance" => \A s \in States : Items(s) = graph.node[s].dots2
  /\ phase = "place" /\ row = 1 =>
       \A s \in Range(graph.list) :
         /\ graph.node[s].regions # <<>> => Len(graph.node[s].pre) <= 1
         /\ \A x \in DOMAIN graph.node[s].trans :
              LET acts == graph.node[s].trans[x].acts
              IN /\ IsNonTerm(x) => Len(acts) = 1 /\ acts[1].shift
                 /\ ShiftReduces \cap Range(acts) # {} => Len(acts) = 1
  /\ phase = "done" =>
       \A k \in DOMAIN g.start : \A u \in UNION {r.used : r \in RunsFrom(k)} :
         /\ OrderOf(graph.node[graph.list[u[1] + 1]].trans[u[2]], u[3]) < time
         /\ u[2] \in DOMAIN g.region => Contains(RegionsAt(tab, u[1]), g.region[u[2]])

\* The tables parse the language: with all alternatives of all transitions the
\* parser finds exactly the derivations of the grammar, trees sent in place of
\* tokens included, that its precedence allows; the rows laid over each other,
\* the reductions moved in front of their lookahead and the states shared by
\* several parsers lose and add none.
ParsesExact ==
  phase = "done" =>
    \A k \in DOMAIN g.start :
      {r.tree : r \in RunsFrom(k)} = Lang!Parses(g, k, MaxLeaves, MaxProds)
=============================================================================
