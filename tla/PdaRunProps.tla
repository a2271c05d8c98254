---------------------------- MODULE PdaRunProps -----------------------------
(***************************************************************************)
(* What the parser of PdaRun promises.  The definitions here look at the   *)
(* parse trees as a whole, recursively; they are for the model checker.    *)
(***************************************************************************)
EXTENDS PdaRun

CONSTANTS
  Rhs,           \* production -> the ids of its right hand side
  Words          \* the words of the grammar that can be sent

OverAll(f(_), seq) == FlattenSeq([i \in DOMAIN seq |-> f(seq[i])])

-----------------------------------------------------------------------------
(* The trees. *)

\* All cells of a tree: its own, its children's, its attached ignores'.
RECURSIVE TreeCells(_)
TreeCells(r) ==
  <<r>> \o OverAll(TreeCells, pt[r].left_ignore) \o OverAll(TreeCells, pt[r].child)
        \o OverAll(TreeCells, pt[r].right_ignore)

\* What the program can still reach of the parser's nodes.
RedLel == IF red_lel = <<>> THEN <<>> ELSE <<red_lel[1]>>
Roots == stack \o parse_input \o accum_ignore \o RedLel
Reachable == OverAll(TreeCells, Roots)

\* The cells of a tree in the order they were shifted: children before parents.
RECURSIVE PostOrder(_)
PostOrder(r) == OverAll(PostOrder, pt[r].child) \o <<r>>

Below(r) == OverAll(PostOrder, pt[r].child)

\* The text under a tree, ignored text included.
RECURSIVE Yield(_)
Yield(r) ==
  OverAll(Yield, pt[r].left_ignore) \o pt[r].text
    \o OverAll(Yield, pt[r].child) \o OverAll(Yield, pt[r].right_ignore)

-----------------------------------------------------------------------------
(* Nodes and text. *)

\* Every node the parser allocated is in exactly one list: on the stack, in the
\* input, among the accumulated ignores, or under a node that is.  None is
\* lost, none is in two lists; after a program exit inside an action the node
\* being reduced is given up.
Ownership == OneOwner /\ (induce_exit \/ live = ToSet(Reachable))

\* The node of the input that has not been taken back yet is the last one;
\* accumulated ignores were read just before it.
Consumed ==
  LET n == Len(parse_input)
      in == IF n = 0 THEN <<>> ELSE SubSeq(parse_input, 1, n - 1)
      last == IF n = 0 THEN <<>> ELSE <<parse_input[n]>>
  IN Reverse(stack) \o RedLel \o in \o Reverse(accum_ignore) \o last

\* No text is lost, duplicated or reordered: what the trees hold, left to
\* right, followed by what the stream holds, is what was sent.  (Where no
\* token is replaced by a generation action.)
Conservation ==
  induce_exit \/ OverAll(Yield, Consumed) \o input = sent

-----------------------------------------------------------------------------
(* The counters. *)

\* steps counts what undoing takes: a step for each token, each ignored token
\* and each block of reverse code.
StepsExact ==
  steps = Cardinality({r \in ToSet(Reachable) : pt[r].id \in Term})
            + Len(reverse_code)

-----------------------------------------------------------------------------
(* Semantic actions. *)

\* The production a node was reduced by.
ProdOf(r) ==
  CHOOSE p \in DOMAIN Prod :
    Prod[p].lhs = pt[r].id /\ Rhs[p] = [i \in DOMAIN pt[r].child |-> pt[pt[r].child[i]].id]

\* The reductions that stand, in the order they were made; one whose action
\* has not run yet, red_lel, is left out.
Reductions == SelectSeq(OverAll(PostOrder, Reverse(stack)) \o OverAll(Below, RedLel)
                          \o OverAll(PostOrder, parse_input),
                        LAMBDA r : pt[r].id \in NonTerm)

\* The action before EOF runs when EOF is scanned, ahead of the reductions
\* that EOF as the lookahead causes.
EofNodes == {r \in ToSet(Reachable) : pt[r].id = EofId}
EofFrames == {EofFrame[rg] : rg \in Region} \ {0}
Frames ==
  LET frames == [i \in DOMAIN Reductions |-> Prod[ProdOf(Reductions[i])].frame]
  IN IF EofNodes = {} \/ EofFrames = {} THEN frames
     ELSE LET e == CHOOSE r \in EofNodes : TRUE
              n == Len(frames) + Len(RedLel) - pt[e].cause_reduce
          IN InsertAt(frames, n + 1, CHOOSE f \in EofFrames : TRUE)

Standing ==
  FoldLeft(LAMBDA acc, f :
             IF f = 0 THEN acc
             ELSE [env |-> Outcome[f][acc.env].env,
                   rejects |-> acc.rejects \/ Outcome[f][acc.env].reject],
           [env |-> Env0, rejects |-> FALSE], Frames)

\* Going forward, the environment is what the actions of the reductions that
\* stand give, run from the start: backtracking has undone exactly the actions
\* of the reductions it took back.  And none of those that stand was rejected.
EnvIsFold ==
  pc \in {"idle", "scan", "again", "reduction"} /\ ~induce_exit
    => env = Standing.env /\ (parse_error \/ ~Standing.rejects)

-----------------------------------------------------------------------------
(* The language. *)

\* A sequence of ids derives a text; ignored text may come before any token
\* and at the end.  Only the tokens that collect ignored text are empty, and no
\* nonterminal derives only such.
Lexeme == UNION {Tokens[rg] : rg \in Region \ {0}}
ZeroIds == Range(CiLel) \ {0}
Ignored == {t \in Lexeme : t.id \in IgnoreId}
After(t, text) == SubSeq(text, Len(t.text) + 1, Len(text))
RECURSIVE Derives(_, _)
Derives(ids, text) ==
  /\ Len(SelectSeq(ids, LAMBDA x : x \notin ZeroIds)) <= Len(text)
  /\ \/ ids = <<>> /\ text = <<>>
     \/ \E t \in Ignored : IsPrefix(t.text, text) /\ Derives(ids, After(t, text))
     \/ /\ ids # <<>>
        /\ \/ \E t \in Lexeme :
                /\ t.id = Head(ids) /\ IsPrefix(t.text, text)
                /\ Derives(Tail(ids), After(t, text))
           \/ Head(ids) \in ZeroIds /\ Derives(Tail(ids), text)
           \/ \E p \in DOMAIN Prod :
                Prod[p].lhs = Head(ids) /\ Derives(Rhs[p] \o Tail(ids), text)

-----------------------------------------------------------------------------
(* The parser as a recognizer. *)

Verdict == IF parse_error THEN "rejected"
           ELSE IF eof_term_recvd /\ pc = "idle" THEN "accepted" ELSE "open"
Abstract == INSTANCE Recognizer WITH
  Language <- Words, given <- sent, ended <- eof_mark, verdict <- Verdict
Recognizes == Abstract!Spec

\* A parser with a stop target stops on its own with the start symbol on the
\* stack; what it has taken from the stream is a word, and it takes no more.
StopsAtTarget ==
  stop_parsing => /\ Len(stack) = 1 /\ pt[stack[1]].id = StopTarget
                  /\ parse_input = <<>>
                  /\ Derives(<<StopTarget>>, SubSeq(sent, 1, Len(sent) - Len(input)))

-----------------------------------------------------------------------------
(* Undo. *)

\* A statement that was taken back has left the parser as it found it.
UndoRestores ==
  pc = "idle" /\ goal # <<>> /\ ~parse_error => Snapshot = goal[1]

-----------------------------------------------------------------------------
\* A call of the parser returns.
Returns == pc # "idle" ~> pc = "idle"
=============================================================================
