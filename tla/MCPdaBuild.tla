----------------------------- MODULE MCPdaBuild -----------------------------
(***************************************************************************)
(* Grammars to build tables for: a few for one hazard each, the binary     *)
(* operators with all precedences, all grammars with productions from two  *)
(* small pools, some with several parsers, parse_stop, reducefirst and     *)
(* commits, and the grammars that the parser is run on in RunGrammars.     *)
(***************************************************************************)
EXTENDS PdaBuildProps

H == INSTANCE RunGrammars

P(lhs, rhs) == [lhs |-> lhs, rhs |-> rhs, commit |-> FALSE]
C(lhs, rhs) == [P(lhs, rhs) EXCEPT !.commit = TRUE]

\* Every token is of a region of its own.
Text(terms, nts, prods) ==
  [terms |-> terms, nts |-> nts, prods |-> prods, starts |-> <<-1>>, stop |-> {},
   reduceFirst |-> {}, pred |-> <<>>,
   region |-> [x \in 1..terms |-> x], preRegion |-> [x \in 1..terms |-> terms + x],
   wasEmpty |-> {}]

Picked ==
  {\* a lookahead of B that only another state before B has
   Text(4, 3, <<P(-1, <<1, 2, 4>>), P(-1, <<1, -2, 3>>), P(-1, <<2, -2, 4>>),
                P(-1, <<2, 1, 3>>), P(-2, <<-3>>), P(-3, <<1>>)>>),
   \* what follows is behind empty nonterminals
   Text(3, 3, <<P(-1, <<-2, -3, 3>>), P(-2, <<1>>), P(-2, <<>>), C(-3, <<2>>), C(-3, <<>>)>>),
   \* an else for one of two ifs
   Text(3, 1, <<P(-1, <<1, -1>>), P(-1, <<1, -1, 2, -1>>), P(-1, <<3>>)>>),
   \* two reductions, told apart by what comes later
   Text(3, 4, <<P(-1, <<-2, 2>>), P(-1, <<-3, 3>>), P(-2, <<-4>>), P(-3, <<-4, 2>>), P(-4, <<1>>)>>),
   \* a nonterminal that is itself in two ways
   Text(2, 2, <<P(-1, <<-2, -1>>), P(-1, <<1>>), P(-2, <<2>>), P(-2, <<>>)>>)}

Assocs == {"left", "right", "nonassoc"}
Levels == UNION {{<<<<s, 1>>, <<t, 2>>>>, <<<<s, 2>>, <<t, 1>>>>, <<<<s, 1>>, <<s, 1>>>>} : s, t \in Assocs}
Operators ==
  {[Text(3, 1, <<P(-1, <<-1, 1, -1>>), P(-1, <<-1, 2, -1>>), P(-1, <<3>>)>>) EXCEPT
      !.pred = [x \in 1..2 |-> [type |-> level[x][1], value |-> level[x][2]]]] : level \in Levels}

OneOrTwo(pool) == {<<p>> : p \in pool} \cup {pq \in pool \X pool : pq[1] # pq[2]}
From(startPool, otherPool) ==
  {Text(2, 2, [i \in DOMAIN s |-> P(-1, s[i])] \o [i \in DOMAIN t |-> P(-2, t[i])]) :
     s \in OneOrTwo(startPool), t \in OneOrTwo(otherPool)}
Family == From({<<-2>>, <<1, -2>>, <<-2, 1>>, <<-2, -2>>, <<-1, 2>>, <<1, -2, 2>>},
               {<<>>, <<1>>, <<2>>, <<-2, 1>>, <<1, -2>>})
Variants ==
  UNION {{[t EXCEPT !.starts = <<-1, -2>>],
          [t EXCEPT !.starts = <<-1, -2>>, !.stop = {2}],
          [t EXCEPT !.stop = {1}, !.prods = [i \in DOMAIN @ |-> [@[i] EXCEPT !.commit = TRUE]]],
          [t EXCEPT !.reduceFirst = {-2}, !.prods[1].commit = TRUE]}
         : t \in From({<<-2>>, <<1, -2>>, <<-2, 2>>, <<-2, -2>>}, {<<>>, <<1>>, <<1, -2>>, <<-2, 1>>})}
-----------------------------------------------------------------------------
(* The grammars of RunGrammars. *)

\* Its ids as those of a text: nonterminals count down from -1 after EOF.
RunText(eof, prod, rhs, commits, region, pre, empty, stop) ==
  LET Name(x) == IF x > eof THEN eof - x ELSE x
  IN [terms |-> eof - 1, nts |-> Cardinality({prod[p].lhs : p \in DOMAIN prod}),
      prods |-> [p \in DOMAIN prod |-> [lhs |-> Name(prod[p].lhs), commit |-> p \in commits,
                                        rhs |-> [i \in DOMAIN rhs[p] |-> Name(rhs[p][i])]]],
      starts |-> <<-1>>, stop |-> stop, reduceFirst |-> {}, pred |-> <<>>,
      region |-> region, preRegion |-> pre, wasEmpty |-> empty]
Run(text, trans, regions, pres, inds) ==
  [text |-> text, trans |-> trans, tab |-> [regions |-> regions, preRegions |-> pres, regionInds |-> inds]]
Const(S, n) == [x \in S |-> n]

RunGrammars ==
  {Run(RunText(4, H!PalinProd, H!PalinRhs, {}, Const(1..2, 1), Const(1..2, 2), {}, {}),
       H!PalinTrans, H!PalinRegions, H!PalinPreRegions, H!PalinInds),
   Run(RunText(7, H!StopProd, H!StopRhs, H!StopCommits,
               [x \in {1, 2, 3, 6} |-> CASE x = 2 -> 3 [] x = 6 -> 5 [] OTHER -> 1],
               [x \in {1, 2, 3, 6} |-> CASE x = 2 -> 4 [] x = 6 -> 6 [] OTHER -> 2], {6}, {1}),
       H!StopTrans, H!StopRegions, H!StopPreRegions, H!StopInds),
   Run(RunText(5, H!CtxProd, H!CtxRhs, {}, Const(1..2, 1), Const(1..2, 2), {}, {}),
       H!CtxTrans, H!CtxRegions, H!CtxPreRegions, H!CtxInds),
   Run(RunText(4, H!ListProd, H!ListRhs, {}, Const(1..2, 1), Const(1..2, 2), {}, {}),
       H!ListTrans, H!ListRegions, H!ListPreRegions, H!ListInds)}

Grams == Picked \cup Operators \cup Family \cup Variants \cup {r.text : r \in RunGrammars}

\* The id that was given to an id of RunGrammars.
Given(x) == IF x <= g.terms THEN x
            ELSE IF x = g.terms + 1 THEN g.eof[1] ELSE g.firstNonTerm + x - g.terms - 2
Shifts(t) == \E i \in DOMAIN t.acts : t.acts[i].shift /\ t.acts[i].prod = 0
RECURSIVE SameState(_, _)
SameState(r, pairs) ==
  LET Both(pair) == {sx \in DOMAIN r.trans :
                       /\ sx[1] = pair[1] /\ Shifts(r.trans[sx])
                       /\ Lookup(tab, pair[2], Given(sx[2])) # None}
      more == UNION {{<<r.trans[sx].targ, tab.targs[Lookup(tab, pair[2], Given(sx[2]))]>>
                        : sx \in Both(pair)} : pair \in pairs}
  IN IF more \subseteq pairs THEN pairs ELSE SameState(r, pairs \cup more)

\* The parser of PdaRun is run with the tables that the compiler makes.
RunTables ==
  phase = "done" =>
    \A r \in {q \in RunGrammars : Loaded(q.text) = g} :
      \A pair \in SameState(r, {<<0, StartNum(1)>>}) :
        LET s == pair[1]
            cs == pair[2]
        IN /\ RegionsAt(tab, cs) = RegionsAt(r.tab, s)
           /\ PreRegionsAt(tab, cs) = PreRegionsAt(r.tab, s)
           /\ \A x \in 1..(g.terms + 1 + Cardinality(g.nonTerm)) :
                LET pos == Lookup(tab, cs, Given(x))
                IN IF <<s, x>> \notin DOMAIN r.trans THEN pos = None
                   ELSE /\ pos # None
                        /\ ActionsAt(tab, pos) = r.trans[<<s, x>>].acts
                        /\ (tab.commitLen[pos] # 0) = r.trans[<<s, x>>].commit
=============================================================================
