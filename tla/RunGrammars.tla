---------------------------- MODULE RunGrammars -----------------------------
(***************************************************************************)
(* Small programs to run the parser of PdaRun on: a grammar with the parse *)
(* tables that the compiler makes of it (MCPdaBuild checks that it does),  *)
(* the tokens of its regions, and what its actions do.  Ids go to the      *)
(* terminals, then EOF, then the nonterminals; a transition that only      *)
(* reduces leads to its own state.                                         *)
(***************************************************************************)
EXTENDS Integers, Sequences

S == [shift |-> TRUE, prod |-> 0]
R(p) == [shift |-> FALSE, prod |-> p]
SR(p) == [shift |-> TRUE, prod |-> p]
P(lhs, len, frame) == [lhs |-> lhs, len |-> len, frame |-> frame]

\* Rows <<state, id, target, actions, commit>> as a transition table.
Table(rows) ==
  [k \in {<<t[1], t[2]>> : t \in rows} |->
     LET t == CHOOSE u \in rows : <<u[1], u[2]>> = k
     IN [targ |-> t[3], acts |-> t[4], commit |-> t[5]]]

\* A sequence as an array that starts at 0.
Array(seq) == [i \in 0..(Len(seq) - 1) |-> seq[i + 1]]

None(ids) == [x \in ids |-> 0]
Keep(e) == [env |-> e, reject |-> FALSE, exit |-> FALSE]
-----------------------------------------------------------------------------
(* Palindromes with an a in the middle, or a b:                             *)
(*   lex  a: "a"   b: "b"   ignore ws: "_"                                  *)
(*   def P: a P a {1} | a {2} | b        def S: P                           *)
(* After an a the parser must guess where the middle is.  Frame 1 adds one  *)
(* to the environment, frame 2 sets it.                                     *)

PalinState == 0..7
PalinTrans == Table({
  <<0, 1, 3, <<S>>, FALSE>>, <<0, 2, 4, <<S>>, FALSE>>,
  <<0, 5, 1, <<S>>, FALSE>>, <<0, 6, 2, <<S>>, FALSE>>,
  <<1, 4, 5, <<S>>, FALSE>>, <<2, 4, 2, <<R(1)>>, FALSE>>,
  <<3, 1, 3, <<S, R(3)>>, FALSE>>, <<3, 2, 4, <<S>>, FALSE>>,
  <<3, 4, 3, <<R(3)>>, FALSE>>, <<3, 6, 6, <<S>>, FALSE>>,
  <<4, 1, 4, <<R(4)>>, FALSE>>, <<4, 4, 4, <<R(4)>>, FALSE>>,
  <<6, 1, 7, <<S>>, FALSE>>, <<7, 1, 7, <<R(2)>>, FALSE>>,
  <<7, 4, 7, <<R(2)>>, FALSE>>})
PalinProd == <<P(5, 1, 0), P(6, 3, 1), P(6, 1, 2), P(6, 1, 0)>>
PalinRegions == Array(<<0, 1, 0, 0, 0, 0, 0, 1, 0, 1, 0, 0, 1, 0, 1, 0>>)
PalinPreRegions == Array(<<0, -1, 0, -1, 0, -1, 0, 2, 0, 2, 0, 0, -1, 0, 2, 0>>)
PalinInds == Array(<<1, 3, 5, 7, 9, 11, 12, 14>>)
PalinRhs == <<<<6>>, <<1, 6, 1>>, <<1>>, <<2>>>>
PalinTerm == 1..4
PalinNonTerm == 5..6
PalinIgnore == {3}
PalinChar == {"a", "b", "_", "?"}
PalinRegion == 0..2
PalinTokens ==
  Array(<<{}, {[id |-> 1, text |-> <<"a">>], [id |-> 2, text |-> <<"b">>],
     [id |-> 3, text |-> <<"_">>]},
    {[id |-> 3, text |-> <<"_">>]}>>)
PalinOutcome == <<[e \in 0..2 |-> Keep((e + 1) % 3)], [e \in 0..2 |-> Keep(2)]>>
PalinChunks == {<<c>> : c \in PalinChar}
PalinCi == None(PalinRegion)
PalinEof == None(PalinRegion)
PalinGen == None(PalinTerm)
PalinPush == [t \in PalinTerm |-> <<>>]

-----------------------------------------------------------------------------
(* Tokens of two regions, an empty token, and commit points in a parse that  *)
(* stops by itself:                                                         *)
(*   A: x: "x"  c: "c"  ignore "_"      B: y: "xx"  ignore "-"              *)
(*   collect ignore zero, with ignore "_"                                   *)
(*   def X: x     def A: X commit | x x commit | x zero y | y               *)
(*   def B: c {1} | x c {2}        def S: A B                               *)

StopState == 0..10
StopTrans == Table({
  <<0, 1, 4, <<S>>, FALSE>>, <<0, 2, 5, <<S>>, FALSE>>,
  <<0, 8, 1, <<S>>, FALSE>>, <<0, 9, 2, <<S>>, FALSE>>,
  <<0, 11, 3, <<S>>, FALSE>>, <<1, 7, 10, <<S>>, FALSE>>,
  <<2, 1, 8, <<S>>, FALSE>>, <<2, 3, 10, <<SR(6)>>, FALSE>>,
  <<2, 10, 10, <<SR(1)>>, FALSE>>, <<3, 1, 3, <<R(2)>>, TRUE>>,
  <<3, 3, 3, <<R(2)>>, TRUE>>, <<4, 1, 7, <<R(8), S>>, FALSE>>,
  <<4, 3, 4, <<R(8)>>, FALSE>>, <<4, 6, 6, <<S>>, FALSE>>,
  <<5, 1, 5, <<R(5)>>, FALSE>>, <<5, 3, 5, <<R(5)>>, FALSE>>,
  <<6, 2, 9, <<S>>, FALSE>>, <<7, 1, 7, <<R(3)>>, TRUE>>,
  <<7, 3, 7, <<R(3)>>, TRUE>>, <<8, 3, 10, <<SR(7)>>, FALSE>>,
  <<9, 1, 9, <<R(4)>>, FALSE>>, <<9, 3, 9, <<R(4)>>, FALSE>>})
StopProd == <<P(8, 2, 0), P(9, 1, 0), P(9, 2, 0), P(9, 3, 0), P(9, 1, 0),
              P(10, 1, 1), P(10, 2, 2), P(11, 1, 0)>>
StopCommits == {2, 3}
StopRegions == Array(<<0, 1, 3, 0, 0, 0, 1, 0, 1, 0, 1, 5, 0, 1, 0, 3, 0, 1, 0, 1, 0, 1, 0, 0>>)
StopPreRegions == Array(<<0, -1, -1, 0, -1, 0, -1, 0, -1, 0, 2, 2, 0, 4, 0, -1, 0, 2, 0, 2, 0, 4, 0, 0>>)
StopInds == Array(<<1, 4, 6, 8, 10, 13, 15, 17, 19, 21, 23>>)
StopRhs == <<<<9, 10>>, <<11>>, <<1, 1>>, <<1, 6, 2>>, <<2>>, <<3>>, <<1, 3>>, <<1>>>>
StopTerm == 1..7
StopNonTerm == 8..11
StopIgnore == {4, 5}
StopChar == {"x", "c", "_", "-"}
StopRegion == 0..5
StopTokens ==
  LET x == [id |-> 1, text |-> <<"x">>]
      y == [id |-> 2, text |-> <<"x", "x">>]
      c == [id |-> 3, text |-> <<"c">>]
      wsA == [id |-> 4, text |-> <<"_">>]
      wsB == [id |-> 5, text |-> <<"-">>]
  IN Array(<<{}, {x, c, wsA}, {wsA}, {y, wsB}, {wsB}, {wsA}>>)
StopCi == [r \in StopRegion |-> IF r = 5 THEN 6 ELSE 0]
StopEof == None(StopRegion)
StopGen == None(StopTerm)
StopPush == [t \in StopTerm |-> <<>>]
StopOutcome == PalinOutcome
StopChunks == {<<c>> : c \in StopChar} \cup {<<"x", "x">>, <<"c", "x">>}

-----------------------------------------------------------------------------
(* Actions that decide the parse, and a stream that is not only text:       *)
(*   lex  a: "a"   ignore i: "_"   g: "g" {3}: the tree T instead           *)
(*   token t, of which T is a tree; I is an ignored tree; {4} before EOF    *)
(*   def X: a {1}    def Y: a {2}    def E: X | Y | t    def S: E S | E     *)
(* Frame 1 rejects in environment 1 and sets it to 1 otherwise; frame 2     *)
(* sets it to 0, and in environment 2, that of frame 4, exits.              *)

CtxState == 0..8
CtxTrans == Table({
  <<0, 1, 6, <<S>>, FALSE>>, <<0, 2, 5, <<S>>, FALSE>>,
  <<0, 6, 1, <<S>>, FALSE>>, <<0, 7, 2, <<S>>, FALSE>>,
  <<0, 8, 3, <<S>>, FALSE>>, <<0, 9, 4, <<S>>, FALSE>>,
  <<1, 5, 7, <<S>>, FALSE>>, <<2, 1, 6, <<S>>, FALSE>>,
  <<2, 2, 5, <<S>>, FALSE>>, <<2, 5, 2, <<R(2)>>, FALSE>>,
  <<2, 6, 8, <<S>>, FALSE>>, <<2, 7, 2, <<S>>, FALSE>>,
  <<2, 8, 3, <<S>>, FALSE>>, <<2, 9, 4, <<S>>, FALSE>>,
  <<3, 1, 3, <<R(3)>>, FALSE>>, <<3, 2, 3, <<R(3)>>, FALSE>>,
  <<3, 5, 3, <<R(3)>>, FALSE>>, <<4, 1, 4, <<R(4)>>, FALSE>>,
  <<4, 2, 4, <<R(4)>>, FALSE>>, <<4, 5, 4, <<R(4)>>, FALSE>>,
  <<5, 1, 5, <<R(5)>>, FALSE>>, <<5, 2, 5, <<R(5)>>, FALSE>>,
  <<5, 5, 5, <<R(5)>>, FALSE>>, <<6, 1, 6, <<R(6), R(7)>>, FALSE>>,
  <<6, 2, 6, <<R(6), R(7)>>, FALSE>>, <<6, 5, 6, <<R(6), R(7)>>, FALSE>>,
  <<8, 5, 8, <<R(1)>>, FALSE>>})
CtxProd == <<P(6, 2, 0), P(6, 1, 0), P(7, 1, 0), P(7, 1, 0), P(7, 1, 0), P(8, 1, 1), P(9, 1, 2)>>
CtxRegions == Array(<<0, 1, 0, 0, 0, 1, 0, 1, 0, 1, 0, 1, 0, 1, 0, 0, 0, 0>>)
CtxPreRegions == Array(<<0, -1, 0, -1, 0, -1, 0, -1, 0, -1, 0, 2, 0, 2, 0, 0, -1, 0>>)
CtxInds == Array(<<1, 3, 5, 7, 9, 11, 13, 15, 16>>)
CtxRhs == <<<<7, 6>>, <<7>>, <<8>>, <<9>>, <<2>>, <<1>>, <<1>>>>
CtxTerm == 1..5
CtxNonTerm == 6..9
CtxIgnore == {4}
CtxChar == {"a", "g", "_", "?"}
CtxTrees == {"T"}
CtxIgnoreTrees == {"I"}
CtxItemIds == [i \in {"T", "I"} |-> IF i = "T" THEN 2 ELSE 4]
CtxRegion == 0..2
CtxTokens ==
  Array(<<{}, {[id |-> 1, text |-> <<"a">>], [id |-> 3, text |-> <<"g">>],
               [id |-> 4, text |-> <<"_">>]},
              {[id |-> 4, text |-> <<"_">>]}>>)
CtxCi == None(CtxRegion)
CtxEof == [r \in CtxRegion |-> IF r = 1 THEN 4 ELSE 0]
CtxGen == [t \in CtxTerm |-> IF t = 3 THEN 3 ELSE 0]
CtxPush == [t \in CtxTerm |-> IF t = 3 THEN <<"T">> ELSE <<>>]
CtxOutcome ==
  <<[e \in 0..2 |-> IF e = 1 THEN [env |-> 1, reject |-> TRUE, exit |-> FALSE]
                    ELSE Keep(1)],
    [e \in 0..2 |-> IF e = 2 THEN [env |-> 2, reject |-> FALSE, exit |-> TRUE]
                    ELSE Keep(0)],
    [e \in 0..2 |-> Keep(e)],
    [e \in 0..2 |-> Keep(2)]>>
CtxChunks == {<<"a">>, <<"g">>, <<"T">>, <<"I">>, <<"_">>}

-----------------------------------------------------------------------------
(* A grammar without choices:                                               *)
(*   lex  a: "a"   b: "bb"   ignore ws: "_"                                 *)
(*   def E: E a {1} | b {2}     def S: E                                    *)

ListState == 0..5
ListTrans == Table({
  <<0, 2, 3, <<S>>, FALSE>>, <<0, 5, 1, <<S>>, FALSE>>,
  <<0, 6, 2, <<S>>, FALSE>>, <<1, 4, 4, <<S>>, FALSE>>,
  <<2, 1, 5, <<S>>, FALSE>>, <<2, 4, 2, <<R(1)>>, FALSE>>,
  <<3, 1, 3, <<R(3)>>, FALSE>>, <<3, 4, 3, <<R(3)>>, FALSE>>,
  <<5, 1, 5, <<R(2)>>, FALSE>>, <<5, 4, 5, <<R(2)>>, FALSE>>})
ListProd == <<P(5, 1, 0), P(6, 2, 1), P(6, 1, 2)>>
ListRegions == Array(<<0, 1, 0, 0, 0, 1, 0, 1, 0, 0, 1, 0>>)
ListPreRegions == Array(<<0, -1, 0, -1, 0, -1, 0, 2, 0, 0, 2, 0>>)
ListInds == Array(<<1, 3, 5, 7, 9, 10>>)
ListRhs == <<<<6>>, <<6, 1>>, <<2>>>>
ListTerm == 1..4
ListNonTerm == 5..6
ListIgnore == {3}
ListChar == {"a", "b", "_"}
ListRegion == 0..2
ListTokens ==
  Array(<<{}, {[id |-> 1, text |-> <<"a">>], [id |-> 2, text |-> <<"b", "b">>],
               [id |-> 3, text |-> <<"_">>]},
              {[id |-> 3, text |-> <<"_">>]}>>)
ListCi == None(ListRegion)
ListEof == None(ListRegion)
ListGen == None(ListTerm)
ListPush == [t \in ListTerm |-> <<>>]
ListOutcome == PalinOutcome
ListChunks == {<<"a">>, <<"b">>, <<"b", "b">>, <<"_">>}
=============================================================================
