------------------------------ MODULE StreamData ------------------------------
(***************************************************************************)
(* The data stream of the colm runtime (src/src/stream.c): a file or a     *)
(* text, read block by block into a queue of run buffers.  Text is         *)
(* consumed from the front buffer by moving its offset, and given back by  *)
(* moving the offset again or, where the buffer is gone, in a new one.     *)
(*                                                                         *)
(* A stream is a record:                                                   *)
(*   runs      the run buffers, [data, offset, size]                       *)
(*   src       what its source (file, data + offset) has still to deliver  *)
(*   consumed  how much can be given back to it                            *)
(*   pos       line, column and byte of the text at the front              *)
(*   lines     the lengths of the lines before (line_len)                  *)
(* An operation that changes the stream and answers returns both.          *)
(***************************************************************************)
EXTENDS Integers, Sequences, SequencesExt

CONSTANTS
  BufSize,   \* FSM_BUFSIZE
  Char,      \* characters
  Newline    \* '\n'

ASSUME StreamAssumption == BufSize \in Nat \ {0}
-----------------------------------------------------------------------------
Upto(i, j) == IF i <= j THEN i ELSE j
Loc == [line : Int, column : Int, byte : Int]
StartLoc == [line |-> 1, column |-> 1, byte |-> 0]

\* A run buffer is never overrun: its data fits, its offset is in the data.
RunBuf == {b \in [data : Seq(Char), offset : Nat, size : Nat] :
             b.offset <= Len(b.data) /\ Len(b.data) <= b.size}

Stream == [runs : Seq(RunBuf), src : Seq(Char), consumed : Nat,
           pos : Loc, lines : Seq(Int)]

NewRunBuf(sz, w) ==
  [data |-> w, offset |-> 0, size |-> IF sz > BufSize THEN sz ELSE BufSize]

Rest(b) == SubSeq(b.data, b.offset + 1, Len(b.data))
InRuns(runs) == FlattenSeq([i \in DOMAIN runs |-> Rest(runs[i])])

\* What is buffered of a stream, and all that will ever be read from it.
Buffered(s) == InRuns(s.runs)
Text(s) == Buffered(s) \o s.src

\* Text in the first k buffers, and in those after the first k.
Before(runs, k) == Len(InRuns(SubSeq(runs, 1, k)))
After(runs, k) == Len(InRuns(SubSeq(runs, k + 1, Len(runs))))
-----------------------------------------------------------------------------
(* Construction. *)

SourceOf(w, loc) ==
  [runs |-> <<>>, src |-> w, consumed |-> 0, pos |-> loc, lines |-> <<>>]

colm_impl_new_accum == SourceOf(<<>>, StartLoc)
colm_impl_new_text(loc, w) == SourceOf(w, loc)
colm_impl_new_file(w) == SourceOf(w, StartLoc)

\* A stream with nothing to read, to which n characters can be given back.
colm_impl_consumed(n) == [SourceOf(<<>>, StartLoc) EXCEPT !.consumed = n]
-----------------------------------------------------------------------------
(* Position. *)

stream_impl_pop_line_first(lines) == IF lines = <<>> THEN 0 ELSE lines[1]
stream_impl_pop_line(lines) == IF lines = <<>> THEN 0 ELSE Last(lines)

PassChar(s, c) ==
  IF c = Newline
  THEN [s EXCEPT !.lines = Append(@, s.pos.column),
                 !.pos.line = @ + 1, !.pos.column = 1]
  ELSE [s EXCEPT !.pos.column = @ + 1]

update_position_data(s, w) ==
  LET at[i \in 0..Len(w)] == IF i = 0 THEN s ELSE PassChar(at[i - 1], w[i])
  IN [at[Len(w)] EXCEPT !.pos.byte = @ + Len(w)]

ReturnChar(s, c) ==
  IF c = Newline
  THEN [s EXCEPT !.lines = IF @ = <<>> THEN @ ELSE Front(@),
                 !.pos.line = @ - 1,
                 !.pos.column = stream_impl_pop_line(s.lines)]
  ELSE [s EXCEPT !.pos.column = @ - 1]

\* From the front of the text to its end, as in the code.
undo_position_data(s, w) ==
  LET at[i \in 0..Len(w)] == IF i = 0 THEN s ELSE ReturnChar(at[i - 1], w[i])
  IN [at[Len(w)] EXCEPT !.pos.byte = @ - Len(w)]
-----------------------------------------------------------------------------
(* Reading. *)

\* The next n blocks of the source, each in a run buffer of its own.
Blocks(src, n) ==
  [i \in 1..n |->
     NewRunBuf(0, SubSeq(src, (i - 1) * BufSize + 1, Upto(i * BufSize, Len(src))))]

Load(s, n) ==
  [s EXCEPT !.runs = @ \o Blocks(s.src, n),
            !.src = SubSeq(@, n * BufSize + 1, Len(@))]

\* Reads the source until n characters are buffered, or it has no more.
data_get_data(s, n) ==
  LET need == Upto(n - Len(Buffered(s)), Len(s.src))
  IN IF need <= 0 THEN s ELSE Load(s, (need + BufSize - 1) \div BufSize)

PieceAfter_all(b, n) == Rest(b)
PieceAfter(b, n) == SubSeq(Rest(b), n + 1, Len(Rest(b)))

\* Whether there is a piece of text after the first skip characters ...
HasBlock(s, skip) == skip < Len(Buffered(s)) \/ s.src # <<>>

\* ... the stream after reading it, and the piece: what is left of the buffer
\* it is in, or else the next block of the source.
data_get_parse_block(s, skip) ==
  IF skip < Len(Buffered(s))
  THEN LET k == CHOOSE j \in DOMAIN s.runs :
                  /\ Before(s.runs, j - 1) <= skip
                  /\ skip < Before(s.runs, j)
       IN [st |-> s, piece |-> PieceAfter(s.runs[k], skip - Before(s.runs, k - 1))]
  ELSE LET st == Load(s, 1)
       IN [st |-> st, piece |-> Last(st.runs).data]
-----------------------------------------------------------------------------
(* Consuming and giving back. *)

\* Buffers are freed as long as they do not hold the end of what is asked for.
data_consume_data(s, n) ==
  LET gone == Cardinality({k \in DOMAIN s.runs : Before(s.runs, k) < n})
      took == SubSeq(Buffered(s), 1, Upto(n, Len(Buffered(s))))
      kept == SubSeq(s.runs, gone + 1, Len(s.runs))
      moved == update_position_data(s, took)
  IN [st |-> [moved EXCEPT
                !.consumed = @ + Len(took),
                !.runs = IF kept = <<>> THEN <<>>
                         ELSE [kept EXCEPT ![1].offset =
                                 @ + n - Before(s.runs, gone)]],
      took |-> Len(took)]

\* How much of n characters can be given back to a stream, and how much of
\* that goes into its first buffer.
Amount(s, n) == Upto(n, s.consumed)
Fill(s, n) == IF s.runs = <<>> \/ s.runs[1].offset = 0 THEN 0
              ELSE Upto(Amount(s, n), s.runs[1].offset)

\* What is left of consumed.
UndoConsumed(s, n) ==
  LET fill == Fill(s, n)  amount == Amount(s, n)
  IN s.consumed - fill - (IF amount > fill THEN amount ELSE 0)

\* Gives back the end of the text w: what fits is slid back into the front
\* buffer, the rest goes into a new one.
Slide(b, w) ==
  [b EXCEPT !.offset = @ - Len(w),
            !.data = SubSeq(@, 1, b.offset - Len(w)) \o w
                       \o SubSeq(@, b.offset + 1, Len(@))]

PutBack_tail(runs, w) == Append(runs, NewRunBuf(0, w))
PutBack(runs, w) == <<NewRunBuf(0, w)>> \o runs

data_undo_consume_data(s, w) ==
  LET n == Len(w)
      amount == Amount(s, n)
      fill == Fill(s, n)
      filled == SubSeq(w, n - fill + 1, n)
      rest == SubSeq(w, n - amount + 1, n - fill)
      slid == IF fill = 0 THEN s.runs ELSE [s.runs EXCEPT ![1] = Slide(@, filled)]
  IN [st |-> [undo_position_data(s, filled \o rest) EXCEPT
                !.runs = IF rest = <<>> THEN slid ELSE PutBack(slid, rest),
                !.consumed = UndoConsumed(s, n)],
      gave |-> amount]

\* A stream that is about to be pushed behind another gives up what it has
\* consumed to a stream of its own.
data_split_consumed_keeps(s) == s
data_split_consumed(s) == [s EXCEPT !.consumed = 0]
-----------------------------------------------------------------------------
(* Appending. *)

\* Whether the text fits into the last buffer.
Fits_unread(s, w) == s.runs # <<>> /\ Len(w) <= BufSize - Len(Rest(Last(s.runs)))
Fits(s, w) == s.runs # <<>> /\ Len(w) <= BufSize - Len(Last(s.runs).data)

data_append_data(s, w) ==
  IF Fits(s, w)
  THEN [s EXCEPT !.runs[Len(s.runs)].data = @ \o w]
  ELSE [s EXCEPT !.runs = Append(@, NewRunBuf(Len(w), w))]

\* Takes n characters off the end, as far as they are buffered.
data_undo_append_data(s, n) ==
  LET k == Cardinality({j \in DOMAIN s.runs : After(s.runs, j - 1) >= n})
      kept == SubSeq(s.runs, 1, k)
      cut == n - After(s.runs, k)
  IN [st |-> [s EXCEPT !.runs =
                IF kept = <<>> THEN <<>>
                ELSE [kept EXCEPT ![k].data = SubSeq(@, 1, Len(@) - cut)]],
      took |-> Upto(n, Len(Buffered(s)))]
=============================================================================
