------------------------------ MODULE MCScanner ------------------------------
(***************************************************************************)
(* Checking the construction of scanners from patterns against the         *)
(* languages of the patterns, and the scanners on all short inputs.        *)
(***************************************************************************)
EXTENDS TokenScan

CONSTANT MaxWord     \* the length of the words that languages are compared on

VARIABLE value       \* the languages of the automata on the stack

\* Two tokens of the alphabet.
MCLiterals == {<<1>>, <<1, 2>>}

Words == UNION {[1..n -> Char] : n \in 0..MaxWord}

\* The automata made so far; a region's before it is run.
Graphs ==
  IF tables = NoTables THEN {stack[i].g : i \in DOMAIN stack}
  ELSE IF seen = <<>> THEN {tables.fsm} ELSE {}
Minimized ==
  IF tables = NoTables THEN {stack[i].g : i \in {j \in DOMAIN stack : stack[j].minimal}}
  ELSE Graphs

Digraph(g) ==
  /\ g.start \in g.states /\ g.fin \subseteq g.states /\ Nodes(g) = g.states
  /\ \A s \in g.states : DOMAIN Out(g, s) \subseteq Char /\ Targets(g, s) \subseteq g.states

Tokens == DOMAIN tables.parts

TypeOK ==
  /\ ops \in 0..MaxOps /\ Len(stack) <= MaxStack
  /\ \A g \in Graphs : Digraph(g)
  /\ run.cs \in tables.fsm.states \cup {Error, NoState}
  /\ run.act \in Tokens \cup {0} /\ run.matched \in Tokens \cup {0}
  /\ run.result \in {Idle, "token", "default", "error", "eof"}
  /\ {run.tokend, run.tokpref, run.p} \subseteq 0..Len(seen)

(* What verifyStates (fsmap.cc) asserts, and what the misfit accounting     *)
(* rests on: after every operation, foreignInTrans is the number of         *)
(* transitions that come from other states (and one for the start state),   *)
(* no state without a way in is left, no operation's bits and no leaving    *)
(* data on a state that is not final.                                       *)
Accounts ==
  TypeOK /\
  \A g \in Graphs :
    /\ ~g.accounting /\ g.misfits = {} /\ g.fill = <<>>
    /\ \A s \in g.states :
         /\ g.node[s].foreign = Cardinality({tc \in InTrans(g, s) : tc[1] # s})
                                + IF s = g.start THEN 1 ELSE 0
         /\ g.node[s].foreign > 0
         /\ g.node[s].bits = {} /\ g.node[s].dict = {}
         /\ s \notin g.fin => g.node[s].prior = None

\* The pairs of states that no word tells apart.
RECURSIVE Alike(_, _)
Alike(g, pairs) ==
  LET still == {p \in pairs : \A c \in DOMAIN Out(g, p[1]) :
                  <<Out(g, p[1])[c].to, Out(g, p[2])[c].to>> \in pairs}
  IN IF still = pairs THEN pairs ELSE Alike(g, still)

SameKind(g) ==
  LET key == [s \in g.states |-> InitialKey(g, s)]
  IN {p \in g.states \X g.states : key[p[1]] = key[p[2]]}

(* "Produces the most minimal fsm possible" (fsmmin.cc): after minimizing,  *)
(* no two states are equivalent and all are reachable.                      *)
Minimal ==
  \A g \in Minimized :
    /\ \A p \in Alike(g, SameKind(g)) : p[1] = p[2]
    /\ Reachable(g, g.start) = g.states

Language(e) ==
  [op |-> e.op, words |-> {w \in Words : Accepts(e.g, w)},
   live |-> IF e.known THEN {w \in Words : Run(e.g, e.g.start, w) # NoState} ELSE {},
   plain |-> e.plain]

MCInit == ScanInit /\ value = <<>>
MCNext == ScanNext /\ value' = IF stack' = stack THEN value
                               ELSE [i \in DOMAIN stack' |-> Language(stack'[i])]
MCSpec == MCInit /\ [][MCNext]_<<scanVars, value>>

Reg == INSTANCE RegLang

(* Every operation yields the language that its operator means, on words of *)
(* length at most MaxWord, and with priorities the machine leaves a part    *)
(* exactly where the operator says (parsetree.cc's walk, fsmgraph.cc).      *)
Refines == Reg!Spec
(* "Set the initial state to zero to allow zero copies." (fsmgraph.cc,      *)
(* optionalRepeatOp): x{,2} means at most two copies of x.                  *)
ZeroToTwo ==
  [][value' # <<>> /\ Len(value') = Len(value) /\ Last(value').op = "{,2}"
       => Last(value').words = Reg!UpTo(Last(value).words, 2)]_value
-----------------------------------------------------------------------------
Matches(n) == {i \in Tokens : Accepts(tables.parts[i], SubSeq(seen, 1, n))}
Ends == {n \in 1..Len(seen) : Matches(n) # {}}

\* Whether more text could make a longer match.
Open == \E i \in Tokens : LET g == tables.parts[i] IN
          \E s \in g.states : /\ s = Run(g, g.start, seen)
                              /\ Targets(g, s) \cap reachableReverse(g) # {}

(* The scanner announces the longest prefix of the text that a token of the *)
(* region matches, with the token declared first among those that match it  *)
(* (RegionImpl::runLongestMatch, fsmexec.cc); it fails, or falls back to    *)
(* the token that matches the empty word, only when no token matches any    *)
(* prefix.                                                                  *)
LongestMatch ==
  /\ run.result = "token" =>
       Ends # {} /\ run.tokend = Max(Ends) /\ run.matched = Min(Matches(Max(Ends)))
  /\ run.result \in {"error", "default"} => Ends = {} /\ run.tokend = 0
  /\ run.result = "default" => run.matched = Min(Matches(0))

(* Without the end of the input, the answer comes with the character after  *)
(* which no more text could make a longer match, neither before (a longer   *)
(* token is missed) nor after it (an interactive parser hangs).  That is so *)
(* if no token's machine has a dead end; one is left by x . empty.          *)
Answered == seen # <<>> /\ ~run.scan_eof => (run.result = Idle <=> Open)
Trim(g) == g.states \subseteq reachableReverse(g) \cup {g.start}
Prompt == (\A i \in Tokens : Trim(tables.parts[i])) => Answered
=============================================================================
