------------------------------- MODULE InputSeq -------------------------------
(***************************************************************************)
(* The input of a parser in the colm runtime (src/src/input.c): a queue of *)
(* buffers, each a tree or a stream (StreamData), and a stash of the       *)
(* buffers that were used up and may have to come back.  The scanner reads *)
(* it in pieces and takes tokens from it, semantic actions pull from it    *)
(* and push onto it, statements send to it; each of these is taken back,   *)
(* last first, when the parser backtracks.                                 *)
(*                                                                         *)
(* The operations of input.c come first, as operators on the queue and the *)
(* stash; then the program that uses them: which calls there are, and what *)
(* each records in order to be taken back (bytecode.c, pdarun.c).          *)
(***************************************************************************)
EXTENDS StreamData

CONSTANTS
  Tree,          \* trees, sent or pushed whole
  File,          \* streams the program has opened
  Programs,      \* the programs: which calls each makes, with what (below)
  Careful        \* whether it avoids what cannot be taken back exactly (below)

\* A program and its bounds.
Program ==
  [ops : SUBSET {"take", "pull", "tree", "push", "pushtree", "pushstream",
                 "text", "sendtree", "stream"},    \* the kinds of its calls
   lens : SUBSET (Nat \ {0}),       \* lengths of tokens and of pulls
   maxOps : Nat,                    \* bound: calls not taken back
   maxBufs : Nat]                   \* bound: buffers held, run buffers in a stream

ASSUME InputAssumption ==
  /\ Tree \cap Char = {} /\ Careful \in BOOLEAN
  /\ \A p \in Programs :
       /\ [ops |-> p.ops, lens |-> p.lens, maxOps |-> p.maxOps, maxBufs |-> p.maxBufs]
            \in Program
       /\ p.send \subseteq Seq(Char)                \* texts it sends
       /\ p.push \subseteq Seq(Char)                \* texts its actions push
       /\ p.files \in [File -> Seq(Char)]           \* what is in its files

VARIABLES
  program,
  queue,         \* buffers to read, front first
  stash,         \* buffers used up, the last one first
  files,         \* the streams of the program that are in no input
  seen,          \* the characters that the scanner has read of a token
  hist,          \* the calls that have not been taken back, oldest first
  fault          \* the program is dead: an assertion failed, the end of a list
                 \* was followed, a negative amount was to be copied

vars == <<program, queue, stash, files, seen, hist, fault>>
-----------------------------------------------------------------------------
(* Buffers. *)

is_tree(b) == b.type \in {"token", "ignore"}
is_stream(b) == b.type \in {"source", "accum"}

TreeBuf(t, type) == [type |-> type, tree |-> t]
AccumBuf(s) == [type |-> "accum", si |-> s]
SourceBuf(f, s) == [type |-> "source", si |-> s, file |-> f]

Buf == [type : {"token", "ignore"}, tree : Tree]
         \cup [type : {"accum"}, si : Stream]
         \cup [type : {"source"}, si : Stream, file : File]

Items(b) == IF is_tree(b) THEN <<b.tree>> ELSE Text(b.si)
Content(q) == FlattenSeq([i \in DOMAIN q |-> Items(q[i])])

\* The streams in front of the first tree, and what is buffered in k of them.
Lead(q) ==
  LET trees == {i \in DOMAIN q : is_tree(q[i])}
  IN IF trees = {} THEN Len(q) ELSE Min(trees) - 1

\* The streams behind the last tree.
Trail(q) ==
  LET trees == {i \in DOMAIN q : is_tree(q[i])}
  IN IF trees = {} THEN 1 ELSE Max(trees) + 1

BufferedIn(q, i, j) ==
  Len(FlattenSeq([k \in 1..(j - i + 1) |-> Buffered(q[i + k - 1].si)]))

LeadText(q) == Content(SubSeq(q, 1, Lead(q)))

\* Streams of the program that leave the queue keep what is in them.
Release(bufs) ==
  [f \in File |->
     LET own == {i \in DOMAIN bufs : bufs[i].type = "source" /\ bufs[i].file = f}
     IN IF own = {} THEN files[f] ELSE bufs[Max(own)].si]
-----------------------------------------------------------------------------
(* Reading. *)

\* The buffer that has text after the first skip characters; 0 if a tree or
\* the end of the data comes first.
BlockAt(q, skip) ==
  LET has == {k \in 1..Lead(q) :
                HasBlock(q[k].si, skip - BufferedIn(q, 1, k - 1))}
  IN IF has = {} THEN 0 ELSE Min(has)

input_get_parse_block(q, skip) ==
  LET k == BlockAt(q, skip)
      got == data_get_parse_block(q[k].si, skip - BufferedIn(q, 1, k - 1))
  IN [queue |-> [q EXCEPT ![k].si = got.st], piece |-> got.piece]

input_get_data(q, n) ==
  [k \in DOMAIN q |->
     LET left == n - Len(Content(SubSeq(q, 1, k - 1)))
     IN IF k <= Lead(q) /\ left > 0
        THEN [q[k] EXCEPT !.si = data_get_data(@, left)]
        ELSE q[k]]

\* Where the text at the front was found: line, column and byte.
Place(q) ==
  LET k == BlockAt(q, 0) IN IF k = 0 THEN StartLoc ELSE q[k].si.pos
-----------------------------------------------------------------------------
(* Consuming. *)

\* Streams are stashed as long as they do not hold the end of what is taken.
Passed(q, n) ==
  Cardinality({k \in 1..Lead(q) : BufferedIn(q, 1, k) < n})

input_consume_data(q, st, n) ==
  LET d == Passed(q, n)
      done == [k \in 1..d |->
                 [q[k] EXCEPT !.si = data_consume_data(@, Len(Buffered(@)) + 1).st]]
      kept == SubSeq(q, d + 1, Len(q))
  IN [queue |-> IF d = Lead(q) THEN kept
                ELSE [kept EXCEPT ![1].si =
                        data_consume_data(@, n - BufferedIn(q, 1, d)).st],
      stash |-> Reverse(done) \o st]

\* Giving back the text w: the front buffer takes what it can, then one
\* buffer after the other comes back from the stash and takes its part.
\* left[j] is how much is still to be given back after the j-th of them; ok: the
\* loop does not run past the stash, nor copy a negative amount.
Valid(b) == is_tree(b) \/ b.si.consumed >= 0
Gives(b, n) == IF is_tree(b) \/ ~Valid(b) THEN 0 ELSE Amount(b.si, n)
GiveBack(b, w) ==
  IF is_tree(b) THEN b ELSE [b EXCEPT !.si = data_undo_consume_data(@, w).st]

input_undo_consume_data(q, st, w) ==
  LET all == SubSeq(q, 1, 1) \o st
      left[j \in 0..Len(all)] ==
        IF j = 0 THEN Len(w) ELSE left[j - 1] - Gives(all[j], left[j - 1])
      ends == {j \in DOMAIN all : left[j] = 0}
      n == Min(ends)
  IN IF q = <<>> \/ ends = {} \/ \E j \in 1..n : ~Valid(all[j])
     THEN [ok |-> FALSE, queue |-> q, stash |-> st]
     ELSE [ok |-> TRUE,
           queue |-> Reverse([j \in 1..n |-> GiveBack(all[j], SubSeq(w, 1, left[j - 1]))])
                       \o Tail(q),
           stash |-> SubSeq(st, n, Len(st))]

\* The tree at the front, behind streams that are used up.
input_consume_tree(q, st) ==
  LET n == Lead(q) + 1
  IN [queue |-> SubSeq(q, n + 1, Len(q)),
      stash |-> Reverse(SubSeq(q, 1, n)) \o st]

\* The first tree of the stash; 0 if there is none.
StashedTree(st) ==
  LET trees == {i \in DOMAIN st : is_tree(st[i])}
  IN IF trees = {} THEN 0 ELSE Min(trees)

input_undo_consume_tree(q, st) ==
  LET n == StashedTree(st)
  IN [queue |-> Reverse(SubSeq(st, 1, n)) \o q,
      stash |-> SubSeq(st, n + 1, Len(st))]
-----------------------------------------------------------------------------
(* Prepending and appending. *)

\* The front stream is about to stop being the front: what was consumed of
\* it goes to the stash, so that it is given back in front of what is pushed.
maybe_split_lost(q, st) ==
  IF q # <<>> /\ is_stream(q[1])
  THEN [queue |-> [q EXCEPT ![1].si = data_split_consumed(@)], stash |-> st]
  ELSE [queue |-> q, stash |-> st]

maybe_split(q, st) ==
  IF q # <<>> /\ is_stream(q[1]) /\ q[1].si.consumed > 0
  THEN [queue |-> [q EXCEPT ![1].si = data_split_consumed(@)],
        stash |-> <<AccumBuf(colm_impl_consumed(q[1].si.consumed))>> \o st]
  ELSE [queue |-> q, stash |-> st]

Prepend(q, st, b) ==
  LET s == maybe_split(q, st)
  IN [queue |-> <<b>> \o s.queue, stash |-> s.stash]

input_append_data(q, w) ==
  LET p == IF q = <<>> \/ Last(q).type # "accum"
           THEN Append(q, AccumBuf(colm_impl_new_accum)) ELSE q
  IN [p EXCEPT ![Len(p)].si = data_append_data(@, w)]

\* Buffers are freed from the end, as far as the text to be removed reaches.
Kept(q, n) ==
  Len(q) - Cardinality({k \in Trail(q)..Len(q) : BufferedIn(q, k, Len(q)) < n})

input_undo_append_data(q, n) ==
  LET k == Kept(q, n)
      kept == SubSeq(q, 1, k)
  IN IF k < Trail(q) THEN kept
     ELSE [kept EXCEPT ![k].si =
             data_undo_append_data(@, n - BufferedIn(q, k + 1, Len(q))).st]
-----------------------------------------------------------------------------
(* The program. *)

Init ==
  /\ program \in Programs
  /\ queue = <<>> /\ stash = <<>> /\ seen = <<>> /\ hist = <<>>
  /\ files = [f \in File |-> colm_impl_new_file(program.files[f])]
  /\ fault = FALSE

\* pda_run->tokpref
tokpref == Len(seen)

\* What a call leaves behind to be taken back; items and place are history.
Record(op, what) ==
  hist' = Append(hist, [op |-> op, what |-> what,
                        items |-> Content(queue), place |-> Place(queue)])

Bounded ==
  /\ Len(hist) < program.maxOps /\ Len(queue) + Len(stash) < program.maxBufs
  /\ \A b \in ToSet(queue) : is_stream(b) => Len(b.si.runs) < program.maxBufs
May(op) == ~fault /\ op \in program.ops /\ Bounded

\* An action runs on what the parser found in the input: the text or tree that
\* is next, or something taken before.  Pushing onto a queue that trees have left
\* empty is not modelled.
Acting ==
  /\ seen = <<>> /\ queue # <<>>
  /\ Content(queue) # <<>> \/ \E i \in DOMAIN hist : hist[i].op \in {"take", "pull", "tree"}

Pushed == \E i \in DOMAIN hist : hist[i].op \in {"push", "pushtree", "pushstream"}
Nested == Pushed /\ is_stream(Head(queue)) /\ Head(queue).si.consumed > 0

\* A careful program takes no token that lies in two run buffers, pushes onto
\* nothing that was itself pushed and read in part, sends a file before anything
\* else and no text after it.
FrontRuns == IF Lead(queue) = 0 THEN <<>>
             ELSE SelectSeq(FlattenSeq([k \in 1..Lead(queue) |-> queue[k].si.runs]),
                            LAMBDA b : Rest(b) # <<>>)
InOneRun(n) == n = 1 \/ (FrontRuns # <<>> /\ n <= Len(Rest(Head(FrontRuns))))
AfterFile == \E b \in ToSet(queue) \cup ToSet(stash) : b.type = "source"

InUse(f) == \E b \in ToSet(queue) \cup ToSet(stash) : b.type = "source" /\ b.file = f

\* The scanner reads on (scan_token).
Scan ==
  /\ ~fault /\ BlockAt(queue, tokpref) # 0
  /\ \E got \in {input_get_parse_block(queue, tokpref)} :
       queue' = got.queue /\ seen' = seen \o got.piece
  /\ UNCHANGED <<program, stash, files, hist, fault>>

TakeText(op, n) ==
  /\ \E got \in {input_consume_data(input_get_data(queue, n), stash, n)} :
       queue' = got.queue /\ stash' = got.stash
  /\ seen' = <<>>
  /\ Record(op, SubSeq(LeadText(queue), 1, n))
  /\ UNCHANGED <<program, files, fault>>

\* A token or ignored text (extract_match, consume_match).
Take ==
  /\ May("take")
  /\ \E n \in program.lens :
       /\ n <= tokpref
       /\ Careful => InOneRun(n)
       /\ TakeText("take", n)

\* input->pull, of text that is there.
Pull ==
  /\ May("pull") /\ Acting
  /\ \E n \in program.lens :
       /\ n <= Len(LeadText(queue))
       /\ Careful => InOneRun(n)
       /\ TakeText("pull", n)

\* A tree is the next token (send_tree, send_ignore_tree).
TakeTree ==
  /\ May("tree") /\ seen = <<>>
  /\ BlockAt(queue, 0) = 0 /\ Lead(queue) < Len(queue)
  /\ LET got == input_consume_tree(queue, stash)
     IN queue' = got.queue /\ stash' = got.stash
  /\ Record("tree", <<queue[Lead(queue) + 1].tree>>)
  /\ UNCHANGED <<program, files, seen, fault>>

PushBuf(op, what, b) ==
  /\ Careful => ~Nested
  /\ \E got \in {Prepend(queue, stash, b)} : queue' = got.queue /\ stash' = got.stash
  /\ Record(op, what)
  /\ UNCHANGED <<program, files, seen, fault>>

\* input->push: a text of the program's, the text that was pulled last; a tree, as a
\* token or as ignored text.
Push ==
  /\ May("push") /\ Acting
  /\ \/ \E w \in program.push :
          PushBuf("push", w, AccumBuf(colm_impl_new_text(StartLoc, w)))
     \/ /\ hist # <<>> /\ Last(hist).op = "pull"
        /\ PushBuf("push", Last(hist).what,
                   AccumBuf(colm_impl_new_text(Last(hist).place, Last(hist).what)))

PushTree ==
  /\ May("pushtree") /\ Acting
  /\ \E t \in Tree, type \in {"token", "ignore"} :
       PushBuf("pushtree", <<t>>, TreeBuf(t, type))

PushStream ==
  /\ May("pushstream") /\ Acting
  /\ \E f \in File : ~InUse(f) /\ PushBuf("pushstream", <<f>>, SourceBuf(f, files[f]))

SendBuf(op, what, q) ==
  queue' = q /\ Record(op, what) /\ UNCHANGED <<program, stash, files, seen, fault>>

SendData ==
  /\ May("text")
  /\ Careful => ~AfterFile
  /\ \E w \in program.send : SendBuf("text", w, input_append_data(queue, w))

SendTree ==
  /\ May("sendtree")
  /\ \E t \in Tree : SendBuf("sendtree", <<t>>, Append(queue, TreeBuf(t, "token")))

SendStream ==
  /\ May("stream")
  /\ Careful => hist = <<>>
  /\ \E f \in File :
       ~InUse(f) /\ SendBuf("stream", <<f>>, Append(queue, SourceBuf(f, files[f])))
-----------------------------------------------------------------------------
(* Taking back. *)

LastIs(ops) == ~fault /\ hist # <<>> /\ Last(hist).op \in ops
Forget == hist' = Front(hist) /\ seen' = <<>>

\* send_back_text, undo_pull
UndoTake ==
  /\ LastIs({"take", "pull"})
  /\ \E back \in {input_undo_consume_data(queue, stash, Last(hist).what)} :
       fault' = ~back.ok /\ queue' = back.queue /\ stash' = back.stash
  /\ Forget /\ UNCHANGED <<program, files>>

\* send_back_tree
UndoTakeTree ==
  /\ LastIs({"tree"})
  /\ LET back == input_undo_consume_tree(queue, stash)
         dead == StashedTree(stash) = 0 \/ <<Head(back.queue).tree>> # Last(hist).what
     IN /\ fault' = dead
        /\ queue' = IF dead THEN queue ELSE back.queue
        /\ stash' = IF dead THEN stash ELSE back.stash
  /\ Forget /\ UNCHANGED <<program, files>>

\* The front buffer goes, whatever it is (input_undo_prepend_data, _stream);
\* but input_undo_prepend_tree asserts that it is a tree.
UndoPush ==
  /\ LastIs({"push", "pushtree", "pushstream"})
  /\ LET dead == \/ queue = <<>>
                 \/ Last(hist).op = "pushtree" /\ is_stream(Head(queue))
     IN /\ fault' = dead
        /\ queue' = IF dead THEN queue ELSE Tail(queue)
        /\ files' = IF dead THEN files ELSE Release(SubSeq(queue, 1, 1))
  /\ Forget /\ UNCHANGED <<program, stash>>

\* stream_undo_append, of a text or of a tree: the length of a tree is 0.
UndoSend ==
  /\ LastIs({"text", "sendtree"})
  /\ LET n == IF Last(hist).op = "text" THEN Len(Last(hist).what) ELSE 0
     IN /\ queue' = input_undo_append_data(queue, n)
        /\ files' = Release(SubSeq(queue, Kept(queue, n) + 1, Len(queue)))
  /\ Forget /\ UNCHANGED <<program, stash, fault>>

\* input_undo_append_stream: the last buffer goes, whatever it is.
UndoSendStream ==
  /\ LastIs({"stream"})
  /\ LET dead == queue = <<>>
     IN /\ fault' = dead
        /\ queue' = IF dead THEN queue ELSE Front(queue)
        /\ files' = IF dead THEN files ELSE Release(SubSeq(queue, Len(queue), Len(queue)))
  /\ Forget /\ UNCHANGED <<program, stash>>

Next ==
  \/ Scan \/ Take \/ Pull \/ TakeTree
  \/ Push \/ PushTree \/ PushStream
  \/ SendData \/ SendTree \/ SendStream
  \/ UndoTake \/ UndoTakeTree \/ UndoPush \/ UndoSend \/ UndoSendStream

Spec == Init /\ [][Next]_vars
-----------------------------------------------------------------------------
(* Properties. *)

\* Every buffer is well formed: what is in a run buffer fits into it, its
\* offset is in it, and no stream has a negative amount to give back.
TypeOK ==
  /\ \A b \in ToSet(queue) \cup ToSet(stash) : b \in Buf
  /\ files \in [File -> Stream]
  /\ fault \in BOOLEAN

\* The code never dies: the loops that bring buffers back from the stash
\* (input_undo_consume_data, input_undo_consume_tree) end on a buffer, and the
\* assertions on trees hold.
NoFault == ~fault

\* What the scanner has read of a token is what a parser is to find there: the
\* text at the front of the queue, each character once, whatever buffers it is
\* scattered over and however the reading was interrupted.
ReadsInOrder == IsPrefix(seen, LeadText(queue))

\* The buffers used up and the buffers in the queue can together give back
\* exactly what was taken and not given back, trees in their places.
Owed(h) == IF h.op \in {"take", "pull"} THEN [i \in DOMAIN h.what |-> "text"]
           ELSE IF h.op = "tree" THEN h.what ELSE <<>>
Held(b) == IF is_tree(b) THEN <<b.tree>> ELSE [i \in 1..b.si.consumed |-> "text"]
HeldBy(q) == FlattenSeq([i \in DOMAIN q |-> Held(q[i])])
GivesBack ==
  HeldBy(Reverse(stash)) \o HeldBy(SelectSeq(queue, is_stream))
    = FlattenSeq([i \in DOMAIN hist |-> Owed(hist[i])])

\* In a stream that is the first of the input, line, column and byte of the next
\* text are those of a reader who has read what was taken from the start on, though
\* it was read in pieces, given back and read again; if the program pushes nothing.
Taken == FlattenSeq([i \in DOMAIN hist |->
                       IF hist[i].op \in {"take", "pull"} THEN hist[i].what ELSE <<>>])
PosAfter(w) == update_position_data(colm_impl_new_accum, w).pos
Pushes == program.ops \cap {"push", "pushtree", "pushstream"} # {}
PlaceTrue ==
  ~Pushes /\ stash = <<>> /\ BlockAt(queue, 0) = 1 => Place(queue) = PosAfter(Taken)

\* Taking a call back leaves the input as it was before the call.
UndoExact ==
  [][Len(hist') < Len(hist) /\ ~fault' => Content(queue') = Last(hist).items]_vars

\* The input implements one queue that can be undone: except for a program that
\* sends trees (UndoExact).
Words == UNION {[1..n -> Char] : n \in UNION {p.lens : p \in Programs}}
Pieces == UNION {p.send \cup p.push \cup {p.files[f] : f \in File} : p \in Programs}
            \cup Words \cup {<<t>> : t \in Tree}
Shown(s) == IF "sendtree" \in program.ops THEN <<>> ELSE s
Queue == INSTANCE UndoQueue WITH
           items <- Shown(Content(queue)),
           past <- Shown([i \in DOMAIN hist |-> hist[i].items]),
           Piece <- Pieces
Refines == Queue!Spec
=============================================================================
