---------------------------- MODULE InputSeqProofs ----------------------------
(***************************************************************************)
(* That the scanner reads the input in order, proved.                      *)
(*                                                                         *)
(* What the scanner has read of a token (seen) is nowhere in the input: it *)
(* only knows how many characters it has read, and every piece is found by *)
(* skipping that many, over the run buffers of a stream and the streams of *)
(* the queue, some of which have more to read from their sources.  Texts   *)
(* may be sent meanwhile.  The invariant says how far the reading has got: *)
(* it ends in one stream, and the streams before that one have nothing     *)
(* more to read; so what is buffered is the front of the text.             *)
(*                                                                         *)
(* Beside it stands what every operation on the queue and on the stash     *)
(* keeps: buffers are buffers.  First streams, one operation after the     *)
(* other, then queues, then the steps.                                     *)
(***************************************************************************)
EXTENDS InputSeq, SeqSets

-----------------------------------------------------------------------------
(* Run buffers. *)

\* What is true of a run buffer and of a stream however they are used: unlike
\* RunBuf and Stream this does not say that the data fits, nor that the amount
\* consumed is not negative.
AnyRun == {b \in [data : Seq(Char), offset : Nat, size : Nat] : b.offset <= Len(b.data)}

\* A stream of such run buffers.
AnyStream == [runs : Seq(AnyRun), src : Seq(Char), consumed : Int, pos : Loc, lines : Seq(Int)]

\* The texts still to be read from run buffers.
Rests(runs) == [i \in DOMAIN runs |-> Rest(runs[i])]

\* What is left of a run buffer.
LEMMA RestType ==
  ASSUME NEW b \in AnyRun
  PROVE  Rest(b) \in Seq(Char) /\ Len(Rest(b)) = Len(b.data) - b.offset
<1>1. b.data \in Seq(Char) /\ b.offset \in 0..Len(b.data)
  BY DEF AnyRun
<1>2. QED BY <1>1, Cut, SMTT(60) DEF Rest

\* What is left of some run buffers.
LEMMA RestsType ==
  ASSUME NEW runs \in Seq(AnyRun)
  PROVE  /\ Rests(runs) \in Seq(Seq(Char)) /\ Len(Rests(runs)) = Len(runs)
         /\ \A i \in 1..Len(runs) : Rests(runs)[i] = Rest(runs[i])
         /\ InRuns(runs) = FlattenSeq(Rests(runs)) /\ InRuns(runs) \in Seq(Char)
<1> DEFINE n == Len(runs)
           r == Rests(runs)
<1>1. n \in Nat /\ DOMAIN runs = 1..n /\ \A i \in 1..n : runs[i] \in AnyRun
  OBVIOUS
<1>2. \A i \in 1..n : Rest(runs[i]) \in Seq(Char)
  BY <1>1, RestType
<1>3. r = [i \in 1..n |-> Rest(runs[i])]
  BY <1>1 DEF Rests
<1>4. r \in Seq(Seq(Char)) /\ Len(r) = n /\ \A i \in 1..n : r[i] = Rest(runs[i])
  <2> HIDE DEF n, r
  <2>1. QED BY <1>1, <1>2, <1>3
<1>5. InRuns(runs) = FlattenSeq(r)
  BY DEF InRuns, Rests
<1> HIDE DEF r
<1>6. FlattenSeq(r) \in Seq(Char)
  BY <1>4, FlatType
<1>7. QED BY <1>4, <1>5, <1>6 DEF r

\* The same of the run buffers up to a place and after it.
LEMMA RestsCut ==
  ASSUME NEW runs \in Seq(AnyRun), NEW k \in 0..Len(runs)
  PROVE  /\ SubSeq(runs, 1, k) \in Seq(AnyRun) /\ Len(SubSeq(runs, 1, k)) = k
         /\ SubSeq(runs, k + 1, Len(runs)) \in Seq(AnyRun)
         /\ Len(SubSeq(runs, k + 1, Len(runs))) = Len(runs) - k
         /\ Rests(SubSeq(runs, 1, k)) = SubSeq(Rests(runs), 1, k)
         /\ Rests(SubSeq(runs, k + 1, Len(runs))) = SubSeq(Rests(runs), k + 1, Len(runs))
<1> DEFINE n == Len(runs)
           a == SubSeq(runs, 1, k)
           b == SubSeq(runs, k + 1, n)
           r == Rests(runs)
<1>1. n \in Nat /\ k \in 0..n /\ k \in Nat /\ n - k \in Nat
  OBVIOUS
<1>2. /\ a \in Seq(AnyRun) /\ Len(a) = k /\ \A i \in 1..k : a[i] = runs[i]
      /\ b \in Seq(AnyRun) /\ Len(b) = n - k /\ \A i \in 1..(n - k) : b[i] = runs[k + i]
  BY Cut
<1>3. r \in Seq(Seq(Char)) /\ Len(r) = n /\ \A i \in 1..n : r[i] = Rest(runs[i])
  BY RestsType
<1> DEFINE ra == SubSeq(r, 1, k)
           rb == SubSeq(r, k + 1, n)
<1>4. /\ ra \in Seq(Seq(Char)) /\ Len(ra) = k /\ \A i \in 1..k : ra[i] = r[i]
      /\ rb \in Seq(Seq(Char)) /\ Len(rb) = n - k /\ \A i \in 1..(n - k) : rb[i] = r[k + i]
  <2> DEFINE B == Seq(Char)
  <2> HIDE DEF B, r
  <2>1. r \in Seq(B) /\ Len(r) = n
    BY <1>3 DEF B
  <2>2. k \in 0..Len(r)
    BY <1>1, <2>1
  <2>3. /\ ra \in Seq(B) /\ Len(ra) = k /\ \A i \in 1..k : ra[i] = r[i]
        /\ SubSeq(r, k + 1, Len(r)) \in Seq(B) /\ Len(SubSeq(r, k + 1, Len(r))) = Len(r) - k
        /\ \A i \in 1..(Len(r) - k) : SubSeq(r, k + 1, Len(r))[i] = r[k + i]
    BY <2>1, <2>2, Cut
  <2>4. QED BY <2>1, <2>3 DEF B
<1> HIDE DEF a, b, r, ra, rb, n
<1>5. Rests(a) = ra
  <2>1. /\ Rests(a) \in Seq(Seq(Char)) /\ Len(Rests(a)) = k
        /\ \A i \in 1..k : Rests(a)[i] = Rest(a[i])
    BY <1>2, RestsType
  <2>2. \A i \in 1..k : i \in 1..n
    BY <1>1
  <2>3. \A i \in 1..k : Rests(a)[i] = ra[i]
    BY <1>2, <1>3, <1>4, <2>1, <2>2, SMTT(60)
  <2>4. QED BY <1>4, <2>1, <2>3
<1>6. Rests(b) = rb
  <2>1. /\ Rests(b) \in Seq(Seq(Char)) /\ Len(Rests(b)) = n - k
        /\ \A i \in 1..(n - k) : Rests(b)[i] = Rest(b[i])
    BY <1>2, RestsType
  <2>2. \A i \in 1..(n - k) : k + i \in 1..n
    BY <1>1
  <2>3. ASSUME NEW i \in 1..(n - k) PROVE Rests(b)[i] = rb[i]
    <3>1. Rests(b)[i] = Rest(b[i]) /\ b[i] = runs[k + i]
      BY <1>2, <2>1
    <3>2. rb[i] = r[k + i] /\ r[k + i] = Rest(runs[k + i])
      BY <1>3, <1>4, <2>2
    <3>3. QED BY <3>1, <3>2
  <2> DEFINE B == Seq(Char)
  <2>4. rb \in Seq(B) /\ Len(rb) = n - k /\ n - k \in Nat
    BY <1>1, <1>4 DEF B
  <2> DEFINE x == Rests(b)
  <2>5. x \in Seq(B) /\ Len(x) = n - k /\ \A i \in 1..(n - k) : x[i] = rb[i]
    BY <2>1, <2>3 DEF B
  <2> HIDE DEF x, B
  <2>6. x = rb
    BY <2>4, <2>5
  <2>7. QED BY <2>6 DEF x
<1>7. QED BY <1>2, <1>5, <1>6 DEF a, b, r, ra, rb, n

\* What is in run buffers is in the first of them, then in the others.
LEMMA InRunsCut ==
  ASSUME NEW runs \in Seq(AnyRun), NEW k \in 0..Len(runs)
  PROVE  /\ InRuns(SubSeq(runs, 1, k)) \in Seq(Char)
         /\ InRuns(SubSeq(runs, k + 1, Len(runs))) \in Seq(Char)
         /\ InRuns(runs) = InRuns(SubSeq(runs, 1, k)) \o InRuns(SubSeq(runs, k + 1, Len(runs)))
<1> DEFINE n == Len(runs)
           a == SubSeq(runs, 1, k)
           b == SubSeq(runs, k + 1, n)
           r == Rests(runs)
<1>1. /\ a \in Seq(AnyRun) /\ b \in Seq(AnyRun)
      /\ Rests(a) = SubSeq(r, 1, k) /\ Rests(b) = SubSeq(r, k + 1, n)
  BY RestsCut
<1>2. r \in Seq(Seq(Char)) /\ Len(r) = n /\ InRuns(runs) = FlattenSeq(r)
  BY RestsType
<1> HIDE DEF a, b
<1>3. /\ InRuns(a) \in Seq(Char) /\ InRuns(a) = FlattenSeq(Rests(a))
      /\ InRuns(b) \in Seq(Char) /\ InRuns(b) = FlattenSeq(Rests(b))
  BY <1>1, RestsType
<1>4. FlattenSeq(r) = FlattenSeq(SubSeq(r, 1, k)) \o FlattenSeq(SubSeq(r, k + 1, n))
  <2>1. k \in 0..Len(r)
    BY <1>2
  <2> HIDE DEF r, n
  <2>2. QED BY <1>2, <2>1, FlatCut
<1>5. QED BY <1>1, <1>2, <1>3, <1>4 DEF a, b

\* What is in a run buffer is between what is before and what is after it.
LEMMA InRunsCutOne ==
  ASSUME NEW runs \in Seq(AnyRun), NEW k \in 1..Len(runs)
  PROVE  /\ runs[k] \in AnyRun
         /\ InRuns(SubSeq(runs, 1, k)) = InRuns(SubSeq(runs, 1, k - 1)) \o Rest(runs[k])
         /\ InRuns(SubSeq(runs, k, Len(runs))) = Rest(runs[k]) \o InRuns(SubSeq(runs, k + 1, Len(runs)))
<1> DEFINE n == Len(runs)
           r == Rests(runs)
<1>1. n \in Nat /\ k \in 0..n /\ k - 1 \in 0..n /\ (k - 1) + 1 = k /\ runs[k] \in AnyRun
  OBVIOUS
<1>2. /\ r \in Seq(Seq(Char)) /\ Len(r) = n /\ r[k] = Rest(runs[k])
  BY RestsType
<1>3. /\ SubSeq(runs, 1, k) \in Seq(AnyRun) /\ Rests(SubSeq(runs, 1, k)) = SubSeq(r, 1, k)
      /\ SubSeq(runs, k + 1, n) \in Seq(AnyRun) /\ Rests(SubSeq(runs, k + 1, n)) = SubSeq(r, k + 1, n)
  BY <1>1, RestsCut
<1>4. /\ SubSeq(runs, 1, k - 1) \in Seq(AnyRun)
      /\ Rests(SubSeq(runs, 1, k - 1)) = SubSeq(r, 1, k - 1)
      /\ SubSeq(runs, (k - 1) + 1, n) \in Seq(AnyRun)
      /\ Rests(SubSeq(runs, (k - 1) + 1, n)) = SubSeq(r, (k - 1) + 1, n)
  BY <1>1, RestsCut
<1>5. /\ InRuns(SubSeq(runs, 1, k)) = FlattenSeq(SubSeq(r, 1, k))
      /\ InRuns(SubSeq(runs, k + 1, n)) = FlattenSeq(SubSeq(r, k + 1, n))
      /\ InRuns(SubSeq(runs, 1, k - 1)) = FlattenSeq(SubSeq(r, 1, k - 1))
      /\ InRuns(SubSeq(runs, k, n)) = FlattenSeq(SubSeq(r, k, n))
  <2> HIDE DEF n, r
  <2>1. QED BY <1>1, <1>3, <1>4, RestsType
<1>6. /\ FlattenSeq(SubSeq(r, 1, k)) = FlattenSeq(SubSeq(r, 1, k - 1)) \o r[k]
      /\ FlattenSeq(SubSeq(r, k, n)) = r[k] \o FlattenSeq(SubSeq(r, k + 1, n))
  <2>1. k \in 1..Len(r)
    BY <1>2
  <2> HIDE DEF r
  <2>2. QED BY <1>2, <2>1, FlatCutOne
<1>7. QED BY <1>1, <1>2, <1>5, <1>6

\* What is in two sequences of run buffers.
LEMMA InRunsConcat ==
  ASSUME NEW a \in Seq(AnyRun), NEW b \in Seq(AnyRun)
  PROVE  a \o b \in Seq(AnyRun) /\ InRuns(a \o b) = InRuns(a) \o InRuns(b)
<1> DEFINE c == a \o b
           n == Len(c)
           k == Len(a)
<1>1. c \in Seq(AnyRun) /\ n = k + Len(b) /\ k \in Nat /\ Len(b) \in Nat
  BY Joined
<1>2. k \in 0..n /\ n \in Nat
  BY <1>1
<1>3. /\ SubSeq(c, 1, k) \in Seq(AnyRun) /\ Len(SubSeq(c, 1, k)) = k
      /\ \A i \in 1..k : SubSeq(c, 1, k)[i] = c[i]
      /\ SubSeq(c, k + 1, n) \in Seq(AnyRun) /\ Len(SubSeq(c, k + 1, n)) = n - k
      /\ \A i \in 1..(n - k) : SubSeq(c, k + 1, n)[i] = c[k + i]
  <2> HIDE DEF c, k
  <2>1. QED BY <1>1, <1>2, Cut
<1>4. \A i \in 1..(k + Len(b)) : c[i] = IF i <= k THEN a[i] ELSE b[i - k]
  BY Joined
<1>5. SubSeq(c, 1, k) = a
  <2> DEFINE x == SubSeq(c, 1, k)
  <2>1. \A i \in 1..k : i \in 1..(k + Len(b)) /\ i <= k
    BY <1>1
  <2> HIDE DEF x, c, k
  <2>2. \A i \in 1..k : x[i] = a[i]
    BY <1>3, <1>4, <2>1 DEF x
  <2>3. x \in Seq(AnyRun) /\ Len(x) = Len(a)
    BY <1>3 DEF x, k
  <2>4. x = a
    BY <2>2, <2>3 DEF k
  <2>5. QED BY <2>4 DEF x
<1>6. SubSeq(c, k + 1, n) = b
  <2> DEFINE x == SubSeq(c, k + 1, n)
             m == Len(b)
  <2>1. n - k = m /\ \A i \in 1..m : k + i \in 1..(k + m) /\ ~(k + i <= k) /\ (k + i) - k = i
    BY <1>1
  <2>2. \A i \in 1..m : x[i] = c[k + i]
    BY <1>3, <2>1
  <2>3. x \in Seq(AnyRun) /\ Len(x) = m
    BY <1>3, <2>1
  <2> HIDE DEF x, c, k, n
  <2>4. \A i \in 1..m : x[i] = b[i]
    BY <1>4, <2>1, <2>2
  <2>5. x = b
    BY <2>3, <2>4
  <2>6. QED BY <2>5 DEF x
<1>7. InRuns(c) = InRuns(SubSeq(c, 1, k)) \o InRuns(SubSeq(c, k + 1, n))
  <2> HIDE DEF c, k
  <2>1. QED BY <1>1, <1>2, InRunsCut
<1>8. QED BY <1>1, <1>5, <1>6, <1>7

-----------------------------------------------------------------------------
(* Positions. *)

\* What a change of position leaves of a stream.
Moved(s) == [runs : {s.runs}, src : {s.src}, consumed : {s.consumed}, pos : Loc, lines : Seq(Int)]

\* A change of position leaves buffers, source and count as they are.
LEMMA MovedType ==
  ASSUME NEW s \in AnyStream, NEW t \in Moved(s)
  PROVE  /\ s \in Moved(s) /\ t \in AnyStream
         /\ t.runs = s.runs /\ t.src = s.src /\ t.consumed = s.consumed
BY DEF Moved, AnyStream

\* The parts of a position.
LEMMA LocParts ==
  ASSUME NEW p \in Loc
  PROVE  p.line \in Int /\ p.column \in Int /\ p.byte \in Int
BY DEF Loc

\* A position whose parts change.
LEMMA LocType ==
  ASSUME NEW p \in Loc, NEW x \in Int, NEW y \in Int
  PROVE  /\ [p EXCEPT !.line = x, !.column = y] \in Loc
         /\ [p EXCEPT !.column = x] \in Loc /\ [p EXCEPT !.byte = x] \in Loc
BY DEF Loc

\* One character passed, one character returned.
LEMMA PassType ==
  ASSUME NEW s \in AnyStream, NEW t \in Moved(s), NEW c
  PROVE  PassChar(t, c) \in Moved(s) /\ ReturnChar(t, c) \in Moved(s)
<1>1. t.pos \in Loc /\ t.lines \in Seq(Int) /\ t.pos.line \in Int /\ t.pos.column \in Int
  BY LocParts DEF Moved
<1>2. Append(t.lines, t.pos.column) \in Seq(Int)
  BY <1>1
<1> DEFINE p == t.pos
           x == p.line + 1
           y == p.column + 1
<1>3. /\ [p EXCEPT !.line = x, !.column = 1] \in Loc
      /\ [p EXCEPT !.column = y] \in Loc
  <2>1. x \in Int /\ y \in Int /\ 1 \in Int /\ p \in Loc
    BY <1>1
  <2> HIDE DEF p, x, y
  <2>2. QED BY <2>1, LocType
<1>4. PassChar(t, c) \in Moved(s)
  BY <1>1, <1>2, <1>3 DEF PassChar, Moved
<1>5. stream_impl_pop_line(t.lines) \in Int
  BY <1>1 DEF stream_impl_pop_line, Last
<1>6. (IF t.lines = <<>> THEN t.lines ELSE Front(t.lines)) \in Seq(Int)
  <2>1. CASE t.lines = <<>>
    BY <1>1, <2>1
  <2>2. CASE t.lines # <<>>
    <3>1. Len(t.lines) > 0
      BY <1>1, <2>2
    <3>2. SubSeq(t.lines, 1, Len(t.lines) - 1) \in Seq(Int)
      BY <1>1, <3>1, LastOff
    <3>3. QED BY <2>2, <3>2 DEF Front
  <2>3. QED BY <2>1, <2>2
<1> DEFINE l == p.line - 1
           z == stream_impl_pop_line(t.lines)
           k == p.column - 1
<1>7. /\ [p EXCEPT !.line = l, !.column = z] \in Loc
      /\ [p EXCEPT !.column = k] \in Loc
  <2>1. l \in Int /\ k \in Int /\ z \in Int /\ p \in Loc
    BY <1>1, <1>5
  <2> HIDE DEF p, l, k, z
  <2>2. QED BY <2>1, LocType
<1>8. ReturnChar(t, c) \in Moved(s)
  BY <1>1, <1>6, <1>7 DEF ReturnChar, Moved
<1>9. QED BY <1>4, <1>8

\* Passing over a text, or returning over it, changes the position only.
LEMMA PositionType ==
  ASSUME NEW s \in AnyStream, NEW w \in Seq(Char)
  PROVE  update_position_data(s, w) \in Moved(s)
<1> DEFINE n == Len(w)
           A == Moved(s)
           F(f) == [i \in 0..n |-> IF i = 0 THEN s ELSE PassChar(f[i - 1], w[i])]
           at == CHOOSE f : f = F(f)
           step == [i \in 1..n |-> [t \in A |-> PassChar(t, w[i])]]
<1>1. n \in Nat /\ s \in A
  BY DEF Moved, AnyStream
<1>2. step \in [1..n -> [A -> A]]
  BY PassType
<1>3. PICK g : Iteration(g, A, s, n, step)
  <2> HIDE DEF step, A, n
  <2>1. QED BY <1>1, <1>2, Iterates
<1>4. g \in [0..n -> A] /\ g[0] = s /\ \A i \in 1..n : g[i] = PassChar(g[i - 1], w[i])
  <2>1. g \in [0..n -> A] /\ g[0] = s /\ \A i \in 1..n : g[i] = step[i][g[i - 1]]
    BY <1>3 DEF Iteration
  <2>2. \A i \in 1..n : g[i - 1] \in A
    BY <2>1
  <2>3. \A i \in 1..n : step[i][g[i - 1]] = PassChar(g[i - 1], w[i])
    BY <2>2
  <2>4. QED BY <2>1, <2>3
<1>5. g = F(g)
  <2>1. \A i \in 0..n : i # 0 => i \in 1..n
    BY <1>1
  <2> HIDE DEF A
  <2>2. QED BY <1>4, <2>1
<1>6. at = F(at)
  BY <1>5
<1>7. at[n] \in A
  <2> DEFINE S == {i \in Nat : i <= n => at[i] \in A}
  <2> HIDE DEF at
  <2>1. 0 \in S
    BY <1>1, <1>6
  <2>2. ASSUME NEW i \in Nat, i \in S PROVE i + 1 \in S
    <3> SUFFICES ASSUME i + 1 <= n PROVE at[i + 1] \in A
      OBVIOUS
    <3>1. i + 1 \in 0..n /\ i + 1 # 0 /\ (i + 1) - 1 = i /\ at[i] \in A
      BY <1>1, <2>2
    <3>2. at[i + 1] = PassChar(at[i], w[i + 1])
      BY <1>6, <3>1
    <3>3. QED BY <3>1, <3>2, PassType
  <2>3. Nat \subseteq S
    <3> HIDE DEF S
    <3>1. QED BY <2>1, <2>2, NatSetInduction
  <2>4. QED BY <1>1, <2>3
<1>8. update_position_data(s, w) = [at[n] EXCEPT !.pos.byte = @ + n]
  BY DEF update_position_data
<1>9. QED
  <2> HIDE DEF at, n
  <2>1. at[n].pos \in Loc /\ at[n].pos.byte \in Int
    BY <1>7, LocParts DEF Moved
  <2> DEFINE x == at[n].pos.byte + n
  <2>3. x \in Int
    BY <1>1, <2>1
  <2>4. [at[n].pos EXCEPT !.byte = x] \in Loc
    <3> HIDE DEF x
    <3>1. QED BY <2>1, <2>3, LocType
  <2>2. QED BY <1>1, <1>7, <1>8, <2>4 DEF Moved

\* A text given back changes the position only.
LEMMA UndoPositionType ==
  ASSUME NEW s \in AnyStream, NEW w \in Seq(Char)
  PROVE  undo_position_data(s, w) \in Moved(s)
<1> DEFINE n == Len(w)
           A == Moved(s)
           F(f) == [i \in 0..n |-> IF i = 0 THEN s ELSE ReturnChar(f[i - 1], w[i])]
           at == CHOOSE f : f = F(f)
           step == [i \in 1..n |-> [t \in A |-> ReturnChar(t, w[i])]]
<1>1. n \in Nat /\ s \in A
  BY DEF Moved, AnyStream
<1>2. step \in [1..n -> [A -> A]]
  BY PassType
<1>3. PICK g : Iteration(g, A, s, n, step)
  <2> HIDE DEF step, A, n
  <2>1. QED BY <1>1, <1>2, Iterates
<1>4. g \in [0..n -> A] /\ g[0] = s /\ \A i \in 1..n : g[i] = ReturnChar(g[i - 1], w[i])
  <2>1. g \in [0..n -> A] /\ g[0] = s /\ \A i \in 1..n : g[i] = step[i][g[i - 1]]
    BY <1>3 DEF Iteration
  <2>2. \A i \in 1..n : g[i - 1] \in A
    BY <2>1
  <2>3. \A i \in 1..n : step[i][g[i - 1]] = ReturnChar(g[i - 1], w[i])
    BY <2>2
  <2>4. QED BY <2>1, <2>3
<1>5. g = F(g)
  <2>1. \A i \in 0..n : i # 0 => i \in 1..n
    BY <1>1
  <2> HIDE DEF A
  <2>2. QED BY <1>4, <2>1
<1>6. at = F(at)
  BY <1>5
<1>7. at[n] \in A
  <2> DEFINE S == {i \in Nat : i <= n => at[i] \in A}
  <2> HIDE DEF at
  <2>1. 0 \in S
    BY <1>1, <1>6
  <2>2. ASSUME NEW i \in Nat, i \in S PROVE i + 1 \in S
    <3> SUFFICES ASSUME i + 1 <= n PROVE at[i + 1] \in A
      OBVIOUS
    <3>1. i + 1 \in 0..n /\ i + 1 # 0 /\ (i + 1) - 1 = i /\ at[i] \in A
      BY <1>1, <2>2
    <3>2. at[i + 1] = ReturnChar(at[i], w[i + 1])
      BY <1>6, <3>1
    <3>3. QED BY <3>1, <3>2, PassType
  <2>3. Nat \subseteq S
    <3> HIDE DEF S
    <3>1. QED BY <2>1, <2>2, NatSetInduction
  <2>4. QED BY <1>1, <2>3
<1>8. undo_position_data(s, w) = [at[n] EXCEPT !.pos.byte = @ - n]
  BY DEF undo_position_data
<1>9. QED
  <2> HIDE DEF at, n
  <2>1. at[n].pos \in Loc /\ at[n].pos.byte \in Int
    BY <1>7, LocParts DEF Moved
  <2> DEFINE x == at[n].pos.byte - n
  <2>3. x \in Int
    BY <1>1, <2>1
  <2>4. [at[n].pos EXCEPT !.byte = x] \in Loc
    <3> HIDE DEF x
    <3>1. QED BY <2>1, <2>3, LocType
  <2>2. QED BY <1>1, <1>7, <1>8, <2>4 DEF Moved

-----------------------------------------------------------------------------
(* Counting run buffers. *)

\* Text before and after the k-th run buffer, one buffer at a time.
LEMMA BeforeFacts ==
  ASSUME NEW runs \in Seq(AnyRun)
  PROVE  /\ \A k \in 0..Len(runs) : Before(runs, k) \in Nat /\ After(runs, k) \in Nat
         /\ Before(runs, 0) = 0 /\ Before(runs, Len(runs)) = Len(InRuns(runs))
         /\ After(runs, Len(runs)) = 0
         /\ \A k \in 1..Len(runs) :
              /\ Before(runs, k) = Before(runs, k - 1) + Len(Rest(runs[k]))
              /\ After(runs, k - 1) = After(runs, k) + Len(Rest(runs[k]))
<1> DEFINE n == Len(runs)
<1>1. n \in Nat /\ InRuns(runs) \in Seq(Char)
  BY RestsType
<1>2. \A k \in 0..n : InRuns(SubSeq(runs, 1, k)) \in Seq(Char) /\ InRuns(SubSeq(runs, k + 1, n)) \in Seq(Char)
  BY InRunsCut
<1>3. \A k \in 0..n : Before(runs, k) \in Nat /\ After(runs, k) \in Nat
  BY <1>2 DEF Before, After
<1>4. InRuns(<<>>) = <<>>
  BY FlatEmpty DEF InRuns
<1>5. SubSeq(runs, 1, 0) = <<>> /\ SubSeq(runs, n + 1, n) = <<>> /\ SubSeq(runs, 1, n) = runs
  OBVIOUS
<1>6. Before(runs, 0) = 0 /\ Before(runs, n) = Len(InRuns(runs)) /\ After(runs, n) = 0
  <2>1. Len(InRuns(<<>>)) = 0
    BY <1>4
  <2>2. Before(runs, 0) = Len(InRuns(SubSeq(runs, 1, 0)))
    BY DEF Before
  <2>3. Before(runs, n) = Len(InRuns(SubSeq(runs, 1, n)))
    BY DEF Before
  <2>4. After(runs, n) = Len(InRuns(SubSeq(runs, n + 1, n)))
    BY DEF After
  <2> HIDE DEF n
  <2>5. QED BY <1>5, <2>1, <2>2, <2>3, <2>4 DEF n
<1>7. ASSUME NEW k \in 1..n
      PROVE  /\ Before(runs, k) = Before(runs, k - 1) + Len(Rest(runs[k]))
             /\ After(runs, k - 1) = After(runs, k) + Len(Rest(runs[k]))
  <2> DEFINE a == InRuns(SubSeq(runs, 1, k - 1))
             b == InRuns(SubSeq(runs, k + 1, n))
             r == Rest(runs[k])
  <2>1. k \in 0..n /\ k - 1 \in 0..n /\ (k - 1) + 1 = k
    BY <1>1
  <2>2. a \in Seq(Char) /\ b \in Seq(Char)
    BY <1>2, <2>1
  <2>3. /\ runs[k] \in AnyRun
        /\ InRuns(SubSeq(runs, 1, k)) = a \o r
        /\ InRuns(SubSeq(runs, k, n)) = r \o b
    BY InRunsCutOne
  <2>4. r \in Seq(Char)
    BY <2>3, RestType
  <2>5. Before(runs, k) = Len(a \o r) /\ Before(runs, k - 1) = Len(a)
        /\ After(runs, k) = Len(b) /\ After(runs, k - 1) = Len(r \o b)
    BY <2>1, <2>3 DEF Before, After
  <2> HIDE DEF a, b, r
  <2>6. Len(a \o r) = Len(a) + Len(r) /\ Len(r \o b) = Len(r) + Len(b)
    BY <2>2, <2>4, Joined
  <2>7. Len(r) \in Nat /\ Len(b) \in Nat
    BY <2>2, <2>4
  <2>8. QED BY <2>5, <2>6, <2>7 DEF r
<1>8. QED BY <1>3, <1>6, <1>7

\* There is no less text before a later buffer, no more after it.
LEMMA BeforeRises ==
  ASSUME NEW runs \in Seq(AnyRun)
  PROVE  \A i, j \in 0..Len(runs) :
           i <= j => Before(runs, i) <= Before(runs, j) /\ After(runs, j) <= After(runs, i)
<1> DEFINE n == Len(runs)
           f == [k \in 0..n |-> Before(runs, k)]
           g == [k \in 0..n |-> After(runs, n - k)]
<1>1. n \in Nat
  OBVIOUS
<1>2. f \in [0..n -> Nat] /\ g \in [0..n -> Nat]
  <2>1. \A k \in 0..n : n - k \in 0..n
    BY <1>1
  <2> HIDE DEF n
  <2>2. \A k \in 0..n : Before(runs, k) \in Nat /\ After(runs, k) \in Nat
    BY BeforeFacts DEF n
  <2>3. QED BY <2>1, <2>2
<1>3. \A k \in 1..n : f[k - 1] <= f[k]
  <2> SUFFICES ASSUME NEW k \in 1..n PROVE f[k - 1] <= f[k]
    OBVIOUS
  <2>1. k \in 0..n /\ k - 1 \in 0..n
    BY <1>1
  <2>2. Before(runs, k) = Before(runs, k - 1) + Len(Rest(runs[k])) /\ Len(Rest(runs[k])) \in Nat
    <3>1. runs[k] \in AnyRun
      OBVIOUS
    <3>2. Rest(runs[k]) \in Seq(Char)
      BY <3>1, RestType
    <3>3. Len(Rest(runs[k])) \in Nat
      BY <3>2
    <3>4. QED BY <3>3, BeforeFacts
  <2>3. Before(runs, k - 1) \in Nat
    BY <2>1, BeforeFacts
  <2>4. QED BY <2>1, <2>2, <2>3
<1>4. \A k \in 1..n : g[k - 1] <= g[k]
  <2> SUFFICES ASSUME NEW k \in 1..n PROVE g[k - 1] <= g[k]
    OBVIOUS
  <2>1. k \in 0..n /\ k - 1 \in 0..n /\ n - (k - 1) \in 1..n /\ (n - (k - 1)) - 1 = n - k /\ n - k \in 0..n
    BY <1>1
  <2> DEFINE m == n - (k - 1)
  <2>2. After(runs, m - 1) = After(runs, m) + Len(Rest(runs[m])) /\ Len(Rest(runs[m])) \in Nat
    <3>1. m \in 1..n
      BY <2>1
    <3> HIDE DEF m
    <3>2. runs[m] \in AnyRun
      BY <3>1
    <3>3. Rest(runs[m]) \in Seq(Char)
      BY <3>2, RestType
    <3>4. Len(Rest(runs[m])) \in Nat
      BY <3>3
    <3>5. QED BY <3>1, <3>4, BeforeFacts
  <2>3. After(runs, m) \in Nat
    BY <2>1, <1>2
  <2>4. g[k] = After(runs, m - 1) /\ g[k - 1] = After(runs, m)
    BY <2>1
  <2>5. QED BY <2>2, <2>3, <2>4
<1>5. ASSUME NEW i \in 0..n, NEW j \in 0..n, i <= j
      PROVE  Before(runs, i) <= Before(runs, j) /\ After(runs, j) <= After(runs, i)
  <2>1. f[i] <= f[j]
    <3> HIDE DEF f, n
    <3>1. QED BY <1>1, <1>2, <1>3, <1>5, Rising
  <2>2. n - j \in 0..n /\ n - i \in 0..n /\ n - j <= n - i /\ n - (n - j) = j /\ n - (n - i) = i
    BY <1>1, <1>5
  <2>3. g[n - j] <= g[n - i]
    <3> HIDE DEF g, n
    <3>1. \A x, y \in 0..n : x <= y => g[x] <= g[y]
      BY <1>1, <1>2, <1>4, Rising
    <3>2. QED BY <2>2, <3>1
  <2>4. g[n - j] = After(runs, j) /\ g[n - i] = After(runs, i)
    BY <2>2
  <2>5. QED BY <2>1, <2>3, <2>4
<1>6. QED BY <1>5

\* How many run buffers do not reach a place, and how many end behind it.
LEMMA RunsBefore ==
  ASSUME NEW runs \in Seq(AnyRun), NEW m \in Int
  PROVE  LET g == Cardinality({k \in DOMAIN runs : Before(runs, k) < m})
         IN /\ g \in 0..Len(runs)
            /\ g > 0 => Before(runs, g) < m
            /\ g < Len(runs) => m <= Before(runs, g + 1)
<1> DEFINE n == Len(runs)
           T == {k \in DOMAIN runs : Before(runs, k) < m}
           g == Cardinality(T)
<1>1. n \in Nat /\ DOMAIN runs = 1..n /\ T \in SUBSET (1..n)
  OBVIOUS
<1>2. \A k \in 0..n : Before(runs, k) \in Nat
  BY BeforeFacts
<1>3. \A k \in T : \A j \in 1..n : j <= k => j \in T
  <2> SUFFICES ASSUME NEW k \in T, NEW j \in 1..n, j <= k PROVE j \in T
    OBVIOUS
  <2>1. k \in 0..n /\ j \in 0..n /\ Before(runs, k) < m
    BY <1>1
  <2>2. Before(runs, j) <= Before(runs, k)
    BY <2>1, BeforeRises
  <2>3. Before(runs, j) < m
    BY <1>2, <2>1, <2>2
  <2>4. QED BY <1>1, <2>3
<1>4. g \in 0..n /\ T = 1..g
  <2> HIDE DEF T, n
  <2>1. QED BY <1>1, <1>3, DownSet
<1>5. g > 0 => Before(runs, g) < m
  <2>1. g > 0 => g \in T
    <3> HIDE DEF T, g, n
    <3>1. QED BY <1>1, <1>4
  <2>2. QED BY <2>1
<1>6. g < n => m <= Before(runs, g + 1)
  <2> SUFFICES ASSUME g < n PROVE m <= Before(runs, g + 1)
    OBVIOUS
  <2>1. g + 1 \in 1..n /\ g + 1 \in 0..n /\ g + 1 \notin 1..g
    <3> HIDE DEF g, n
    <3>1. QED BY <1>1, <1>4
  <2>2. ~(Before(runs, g + 1) < m)
    BY <1>1, <1>4, <2>1
  <2> HIDE DEF g
  <2>3. QED BY <1>2, <2>1, <2>2
<1>7. QED BY <1>4, <1>5, <1>6

\* The buffers that go when m characters are taken off the end: those kept hold
\* the rest of the last one.
LEMMA RunsAfter ==
  ASSUME NEW runs \in Seq(AnyRun), NEW m \in Nat
  PROVE  LET g == Cardinality({j \in DOMAIN runs : After(runs, j - 1) >= m})
         IN /\ g \in 0..Len(runs)
            /\ After(runs, g) <= m
            /\ g > 0 => m <= After(runs, g - 1)
<1> DEFINE n == Len(runs)
           T == {j \in DOMAIN runs : After(runs, j - 1) >= m}
           g == Cardinality(T)
<1>1. n \in Nat /\ DOMAIN runs = 1..n /\ T \in SUBSET (1..n)
  OBVIOUS
<1>2. /\ \A k \in 0..n : After(runs, k) \in Nat
      /\ After(runs, n) = 0
  BY BeforeFacts
<1>3. \A k \in T : \A j \in 1..n : j <= k => j \in T
  <2> SUFFICES ASSUME NEW k \in T, NEW j \in 1..n, j <= k PROVE j \in T
    OBVIOUS
  <2>1. k - 1 \in 0..n /\ j - 1 \in 0..n /\ j - 1 <= k - 1 /\ After(runs, k - 1) >= m
    BY <1>1
  <2>2. After(runs, k - 1) <= After(runs, j - 1)
    BY <2>1, BeforeRises
  <2>3. After(runs, j - 1) >= m
    BY <1>2, <2>1, <2>2
  <2>4. QED BY <1>1, <2>3
<1>4. g \in 0..n /\ T = 1..g
  <2> HIDE DEF T, n
  <2>1. QED BY <1>1, <1>3, DownSet
<1>5. g > 0 => m <= After(runs, g - 1)
  <2>1. g > 0 => g \in T
    <3> HIDE DEF T, g, n
    <3>1. QED BY <1>1, <1>4
  <2>2. g > 0 => g - 1 \in 0..n /\ After(runs, g - 1) >= m
    <3>1. g \in T => After(runs, g - 1) >= m
      OBVIOUS
    <3> HIDE DEF T, g, n
    <3>2. QED BY <1>1, <1>4, <2>1, <3>1
  <2> HIDE DEF g
  <2>3. QED BY <1>2, <2>2
<1>6. After(runs, g) <= m
  <2>1. CASE g = n
    <3> HIDE DEF g
    <3>1. QED BY <1>2, <2>1
  <2>2. CASE g # n
    <3>1. g + 1 \in 1..n /\ g + 1 \notin 1..g /\ (g + 1) - 1 = g
      <4> HIDE DEF g, n
      <4>1. QED BY <1>1, <1>4, <2>2
    <3>2. ~(After(runs, (g + 1) - 1) >= m)
      BY <1>1, <1>4, <3>1
    <3> HIDE DEF g
    <3>3. QED BY <1>2, <1>4, <3>1, <3>2
  <2>3. QED BY <2>1, <2>2
<1>7. QED BY <1>4, <1>5, <1>6

-----------------------------------------------------------------------------
(* Operations on a stream. *)

\* The parts of a stream, and its text.
LEMMA StreamParts ==
  ASSUME NEW s \in AnyStream
  PROVE  /\ s.runs \in Seq(AnyRun) /\ s.src \in Seq(Char) /\ s.consumed \in Int
         /\ s.pos \in Loc /\ s.lines \in Seq(Int)
         /\ Buffered(s) \in Seq(Char) /\ Text(s) \in Seq(Char) /\ Text(s) = Buffered(s) \o s.src
<1>1. s.runs \in Seq(AnyRun) /\ s.src \in Seq(Char) /\ s.consumed \in Int /\ s.pos \in Loc /\ s.lines \in Seq(Int)
  BY DEF AnyStream
<1>2. Buffered(s) \in Seq(Char)
  BY <1>1, RestsType DEF Buffered
<1>3. QED BY <1>1, <1>2 DEF Text

\* The streams that are constructed.
LEMMA NewStreamType ==
  ASSUME NEW w \in Seq(Char), NEW l \in Loc, NEW n \in Int
  PROVE  /\ SourceOf(w, l) \in AnyStream /\ colm_impl_new_text(l, w) \in AnyStream
         /\ colm_impl_new_file(w) \in AnyStream /\ colm_impl_new_accum \in AnyStream
         /\ colm_impl_consumed(n) \in AnyStream
         /\ StartLoc \in Loc /\ colm_impl_new_accum.runs = <<>> /\ colm_impl_new_accum.src = <<>>
<1>1. StartLoc \in Loc
  BY DEF StartLoc, Loc
<1>2. <<>> \in Seq(AnyRun) /\ <<>> \in Seq(Char) /\ <<>> \in Seq(Int)
  OBVIOUS
<1>3. ASSUME NEW v \in Seq(Char), NEW k \in Loc PROVE SourceOf(v, k) \in AnyStream
  BY <1>2, <1>3 DEF SourceOf, AnyStream
<1>4. [SourceOf(<<>>, StartLoc) EXCEPT !.consumed = n] \in AnyStream
  <2>1. SourceOf(<<>>, StartLoc) \in AnyStream
    BY <1>1, <1>2, <1>3
  <2>2. \A s \in AnyStream : [s EXCEPT !.consumed = n] \in AnyStream
    BY DEF AnyStream
  <2>3. QED BY <2>1, <2>2
<1>5. QED
  BY <1>1, <1>2, <1>3, <1>4 DEF colm_impl_new_text, colm_impl_new_file, colm_impl_new_accum,
     colm_impl_consumed, SourceOf

\* A new run buffer holds the text it is made for.
LEMMA NewRunType ==
  ASSUME NEW sz \in Nat, NEW w \in Seq(Char)
  PROVE  NewRunBuf(sz, w) \in AnyRun /\ Rest(NewRunBuf(sz, w)) = w
<1>1. NewRunBuf(sz, w) \in AnyRun
  BY StreamAssumption DEF NewRunBuf, AnyRun
<1>2. Rest(NewRunBuf(sz, w)) = SubSeq(w, 1, Len(w))
  BY DEF NewRunBuf, Rest
<1>3. QED BY <1>1, <1>2

\* Reading blocks.
LEMMA BlocksType ==
  ASSUME NEW src \in Seq(Char), NEW n \in Nat
  PROVE  /\ Blocks(src, n) \in Seq(AnyRun) /\ Len(Blocks(src, n)) = n
         /\ SubSeq(src, n * BufSize + 1, Len(src)) \in Seq(Char)
<1>1. BufSize \in Nat /\ BufSize > 0 /\ Len(src) \in Nat
  BY StreamAssumption
<1>2. \A i \in Nat : i * BufSize \in Nat
  BY <1>1
<1>3. ASSUME NEW i \in 1..n
      PROVE  NewRunBuf(0, SubSeq(src, (i - 1) * BufSize + 1, Upto(i * BufSize, Len(src)))) \in AnyRun
  <2> DEFINE a == (i - 1) * BufSize
             b == i * BufSize
             c == Upto(b, Len(src))
  <2>1. a \in Nat /\ b \in Nat
    <3>1. i \in Nat /\ i - 1 \in Nat
      OBVIOUS
    <3>2. QED BY <1>2, <3>1
  <2> HIDE DEF a, b
  <2>2. c \in 0..Len(src)
    BY <1>1, <2>1 DEF Upto
  <2> HIDE DEF c
  <2>3. SubSeq(src, a + 1, c) \in Seq(Char)
    BY <1>1, <2>1, <2>2
  <2>4. NewRunBuf(0, SubSeq(src, a + 1, c)) \in AnyRun
    BY <2>3, NewRunType
  <2>5. QED BY <2>4 DEF a, b, c
<1>4. Blocks(src, n) \in Seq(AnyRun) /\ Len(Blocks(src, n)) = n
  <2> DEFINE e(i) == NewRunBuf(0, SubSeq(src, (i - 1) * BufSize + 1, Upto(i * BufSize, Len(src))))
  <2>1. Blocks(src, n) = [i \in 1..n |-> e(i)]
    BY DEF Blocks
  <2>2. \A i \in 1..n : e(i) \in AnyRun
    BY <1>3
  <2> HIDE DEF e
  <2>3. QED BY <2>1, <2>2
<1>5. SubSeq(src, n * BufSize + 1, Len(src)) \in Seq(Char)
  <2> DEFINE a == n * BufSize
  <2>1. a \in Nat
    BY <1>2
  <2> HIDE DEF a
  <2>2. SubSeq(src, a + 1, Len(src)) \in Seq(Char)
    BY <1>1, <2>1
  <2>3. QED BY <2>2 DEF a
<1>6. QED BY <1>4, <1>5

\* Blocks read ahead (data_get_data) leave a stream a stream.
LEMMA LoadType ==
  ASSUME NEW s \in AnyStream, NEW n \in Nat
  PROVE  Load(s, n) \in AnyStream
<1>1. s.runs \o Blocks(s.src, n) \in Seq(AnyRun)
  BY StreamParts, BlocksType, Joined
<1>2. SubSeq(s.src, n * BufSize + 1, Len(s.src)) \in Seq(Char)
  BY StreamParts, BlocksType
<1> DEFINE r == s.runs \o Blocks(s.src, n)
           v == SubSeq(s.src, n * BufSize + 1, Len(s.src))
<1>3. Load(s, n) = [s EXCEPT !.runs = r, !.src = v]
  BY DEF Load
<1> HIDE DEF r, v
<1>4. r \in Seq(AnyRun) /\ v \in Seq(Char)
  BY <1>1, <1>2 DEF r, v
<1>5. QED BY <1>3, <1>4 DEF AnyStream

\* The next block comes behind what is buffered.
LEMMA LoadOne ==
  ASSUME NEW s \in AnyStream
  PROVE  /\ Load(s, 1) \in AnyStream /\ Last(Load(s, 1).runs).data \in Seq(Char)
         /\ Buffered(Load(s, 1)) = Buffered(s) \o Last(Load(s, 1).runs).data
<1> DEFINE bl == Blocks(s.src, 1)
           r == s.runs \o bl
           b == bl[1]
<1>1. s.runs \in Seq(AnyRun) /\ s.src \in Seq(Char)
  BY StreamParts
<1>2. bl \in Seq(AnyRun) /\ Len(bl) = 1
  BY <1>1, BlocksType
<1>3. b.data \in Seq(Char) /\ b.offset = 0
  <2>1. b = NewRunBuf(0, SubSeq(s.src, (1 - 1) * BufSize + 1, Upto(1 * BufSize, Len(s.src))))
    BY DEF Blocks
  <2>2. b.offset = 0
    BY <2>1 DEF NewRunBuf
  <2>3. b \in AnyRun
    <3> HIDE DEF bl
    <3>1. QED BY <1>2
  <2> HIDE DEF b
  <2>4. QED BY <2>2, <2>3 DEF AnyRun
<1>4. Load(s, 1).runs = r
  BY DEF Load, AnyStream
<1> HIDE DEF bl
<1>5. r \in Seq(AnyRun) /\ InRuns(r) = InRuns(s.runs) \o InRuns(bl)
  BY <1>1, <1>2, InRunsConcat
<1>6. Last(r) = b
  <2>1. Len(r) = Len(s.runs) + 1 /\ Len(s.runs) \in Nat
    <3>1. Len(r) = Len(s.runs) + Len(bl)
      BY <1>1, <1>2, Joined
    <3> HIDE DEF r
    <3>2. QED BY <1>1, <1>2, <3>1
  <2>2. r[Len(s.runs) + 1] = b
    <3>1. Len(s.runs) + 1 \in 1..(Len(s.runs) + Len(bl)) /\ ~(Len(s.runs) + 1 <= Len(s.runs))
          /\ (Len(s.runs) + 1) - Len(s.runs) = 1
      BY <1>2, <2>1
    <3>2. \A i \in 1..(Len(s.runs) + Len(bl)) :
            r[i] = IF i <= Len(s.runs) THEN s.runs[i] ELSE bl[i - Len(s.runs)]
      BY <1>1, <1>2, Joined
    <3> HIDE DEF r
    <3>3. QED BY <3>1, <3>2
  <2> HIDE DEF r, b
  <2>3. QED BY <2>1, <2>2 DEF Last
<1>7. InRuns(bl) = b.data
  <2>1. Rests(bl) \in Seq(Seq(Char)) /\ Len(Rests(bl)) = 1 /\ Rests(bl)[1] = Rest(b)
        /\ InRuns(bl) = FlattenSeq(Rests(bl))
    BY <1>2, RestsType
  <2>2. Rest(b) = b.data
    <3>1. Rest(b) = SubSeq(b.data, 0 + 1, Len(b.data))
      BY <1>3 DEF Rest
    <3> HIDE DEF b
    <3>2. QED BY <1>3, <3>1
  <2> HIDE DEF b
  <2>3. Rests(bl) = <<b.data>>
    BY <1>3, <2>1, <2>2
  <2>4. FlattenSeq(<<b.data>>) = b.data
    BY <1>3, FlatOne
  <2>5. QED BY <2>1, <2>3, <2>4
<1>8. Buffered(Load(s, 1)) = InRuns(r) /\ Buffered(s) = InRuns(s.runs)
  BY <1>4 DEF Buffered
<1>9. Load(s, 1) \in AnyStream
  BY LoadType
<1> HIDE DEF r, b
<1>10. QED BY <1>3, <1>4, <1>5, <1>6, <1>7, <1>8, <1>9

\* Reading ahead, as far as the source goes.
LEMMA GetDataType ==
  ASSUME NEW s \in AnyStream, NEW n \in Int
  PROVE  data_get_data(s, n) \in AnyStream
<1> DEFINE need == Upto(n - Len(Buffered(s)), Len(s.src))
           m == (need + BufSize - 1) \div BufSize
<1>1. BufSize \in Nat /\ BufSize > 0
  BY StreamAssumption
<1>2. need \in Int
  <2>1. Len(Buffered(s)) \in Nat /\ Len(s.src) \in Nat
    BY StreamParts
  <2>2. QED BY <2>1 DEF Upto
<1>3. data_get_data(s, n) = IF need <= 0 THEN s ELSE Load(s, m)
  BY DEF data_get_data
<1> HIDE DEF need
<1>4. CASE need <= 0
  BY <1>3, <1>4
<1>5. CASE ~(need <= 0)
  <2>1. need + BufSize - 1 \in Nat
    BY <1>1, <1>2, <1>5
  <2>2. m \in Nat
    BY <1>1, <2>1
  <2> HIDE DEF m
  <2>3. Load(s, m) \in AnyStream
    BY <2>2, LoadType
  <2>4. QED BY <1>3, <1>5, <2>3
<1>6. QED BY <1>4, <1>5

\* The piece that the scanner reads next is the rest of a part of what is buffered.
LEMMA PieceOf ==
  ASSUME NEW s \in AnyStream, NEW skip \in Nat, skip < Len(Buffered(s))
  PROVE  \E a, b, c \in Seq(Char) :
           /\ Buffered(s) = a \o (b \o c)
           /\ Len(a) <= skip /\ skip < Len(a) + Len(b)
           /\ data_get_parse_block(s, skip)
                = [st |-> s, piece |-> SubSeq(b, skip - Len(a) + 1, Len(b))]
<1> DEFINE runs == s.runs
           n == Len(runs)
           Fits1(j) == Before(runs, j - 1) <= skip /\ skip < Before(runs, j)
           k == CHOOSE j \in DOMAIN runs : Fits1(j)
<1>1. runs \in Seq(AnyRun) /\ n \in Nat /\ DOMAIN runs = 1..n
  BY StreamParts
<1>2. /\ \A j \in 0..n : Before(runs, j) \in Nat
      /\ Before(runs, 0) = 0 /\ Before(runs, n) = Len(Buffered(s))
  BY <1>1, BeforeFacts DEF Buffered
<1>3. \E j \in 1..n : Fits1(j)
  <2> DEFINE T == {j \in 0..n : skip < Before(runs, j)}
  <2>1. n \in T /\ T \subseteq Nat
    BY <1>1, <1>2
  <2>2. PICK j \in T : \A i \in T : j <= i
    <3> HIDE DEF T
    <3>1. QED BY <2>1, LeastNat
  <2>3. j \in 0..n /\ skip < Before(runs, j) /\ j # 0
    <3> HIDE DEF n, runs
    <3>1. j \in 0..n /\ skip < Before(runs, j)
      BY <2>2
    <3>2. QED BY <1>2, <3>1
  <2>4. j \in 1..n /\ j - 1 \in 0..n /\ ~(j <= j - 1)
    BY <1>1, <2>3
  <2>5. ~(skip < Before(runs, j - 1))
    BY <2>2, <2>4
  <2>6. Before(runs, j - 1) <= skip
    <3> HIDE DEF n, runs
    <3>1. QED BY <1>2, <2>4, <2>5
  <2>7. QED BY <2>3, <2>4, <2>6
<1>4. k \in 1..n /\ Fits1(k)
  <2> HIDE DEF Fits1
  <2>1. QED BY <1>1, <1>3
<1> HIDE DEF k
<1> DEFINE a == InRuns(SubSeq(runs, 1, k - 1))
           b == Rest(runs[k])
           c == InRuns(SubSeq(runs, k + 1, n))
<1>5. k \in 0..n /\ k - 1 \in 0..n /\ (k - 1) + 1 = k
  BY <1>1, <1>4
<1>6. a \in Seq(Char) /\ b \in Seq(Char) /\ c \in Seq(Char)
  <2>1. a \in Seq(Char) /\ c \in Seq(Char)
    BY <1>1, <1>5, InRunsCut
  <2>2. b \in Seq(Char)
    BY <1>1, <1>4, RestType
  <2>3. QED BY <2>1, <2>2
<1>7. Buffered(s) = a \o (b \o c)
  <2>1. InRuns(runs) = a \o InRuns(SubSeq(runs, (k - 1) + 1, n))
    BY <1>1, <1>5, InRunsCut
  <2>2. InRuns(SubSeq(runs, k, n)) = b \o c
    BY <1>1, <1>4, InRunsCutOne
  <2>3. Buffered(s) = InRuns(runs)
    BY DEF Buffered
  <2> HIDE DEF a, b, c, runs, n
  <2>4. QED BY <1>5, <2>1, <2>2, <2>3
<1>8. Len(a) = Before(runs, k - 1) /\ Before(runs, k) = Len(a) + Len(b)
  <2>1. Len(a) = Before(runs, k - 1)
    BY DEF Before
  <2>2. Before(runs, k) = Before(runs, k - 1) + Len(b)
    BY <1>1, <1>4, BeforeFacts
  <2> HIDE DEF a
  <2>3. QED BY <2>1, <2>2
<1>9. PieceAfter(runs[k], skip - Before(runs, k - 1)) = SubSeq(b, skip - Before(runs, k - 1) + 1, Len(b))
  BY DEF PieceAfter
<1>10. data_get_parse_block(s, skip) = [st |-> s, piece |-> PieceAfter(runs[k], skip - Before(runs, k - 1))]
  BY DEF data_get_parse_block, k
<1>11. Len(a) <= skip /\ skip < Len(a) + Len(b)
  BY <1>4, <1>8
<1> HIDE DEF a, b, c, n
<1>12. data_get_parse_block(s, skip) = [st |-> s, piece |-> SubSeq(b, skip - Len(a) + 1, Len(b))]
  BY <1>8, <1>9, <1>10
<1>13. QED BY <1>6, <1>7, <1>11, <1>12

\* Moving the offset of the first run buffer.
LEMMA FirstRun ==
  ASSUME NEW runs \in Seq(AnyRun), runs # <<>>, NEW b \in AnyRun
  PROVE  /\ Len(runs) \in Nat /\ 1 \in 1..Len(runs) /\ Len(runs) \in 1..Len(runs)
         /\ runs[1] \in AnyRun /\ runs[Len(runs)] \in AnyRun
         /\ [runs EXCEPT ![1] = b] \in Seq(AnyRun)
         /\ [runs EXCEPT ![Len(runs)] = b] \in Seq(AnyRun)
<1>1. Len(runs) \in Nat /\ Len(runs) # 0
  OBVIOUS
<1>2. 1 \in 1..Len(runs) /\ Len(runs) \in 1..Len(runs)
  BY <1>1
<1>3. QED BY <1>1, <1>2

\* Text taken from a stream (data_consume_data).
LEMMA ConsumeType ==
  ASSUME NEW s \in AnyStream, NEW n \in Nat
  PROVE  data_consume_data(s, n).st \in AnyStream
<1> DEFINE runs == s.runs
           gone == Cardinality({k \in DOMAIN runs : Before(runs, k) < n})
           took == SubSeq(Buffered(s), 1, Upto(n, Len(Buffered(s))))
           kept == SubSeq(runs, gone + 1, Len(runs))
           moved == update_position_data(s, took)
           left == IF kept = <<>> THEN <<>>
                   ELSE [kept EXCEPT ![1].offset = @ + n - Before(runs, gone)]
<1>1. runs \in Seq(AnyRun) /\ s.consumed \in Int /\ Buffered(s) \in Seq(Char)
  BY StreamParts
<1>2. took \in Seq(Char) /\ Len(took) \in Nat
  <2>1. Upto(n, Len(Buffered(s))) \in 0..Len(Buffered(s))
    BY <1>1 DEF Upto
  <2>2. took \in Seq(Char)
    BY <1>1, <2>1, Cut
  <2> HIDE DEF took
  <2>3. QED BY <2>2
<1> HIDE DEF took
<1>3. moved \in Moved(s)
  BY <1>2, PositionType
<1>4. moved \in AnyStream /\ moved.consumed = s.consumed
  <2> HIDE DEF moved
  <2>1. QED BY <1>3, MovedType
<1> HIDE DEF moved
<1>5. /\ gone \in 0..Len(runs)
      /\ gone > 0 => Before(runs, gone) < n
      /\ gone < Len(runs) => n <= Before(runs, gone + 1)
  <2> HIDE DEF runs
  <2>1. n \in Int
    OBVIOUS
  <2>2. QED BY <1>1, <2>1, RunsBefore
<1> HIDE DEF gone
<1>6. /\ kept \in Seq(AnyRun) /\ Len(kept) = Len(runs) - gone
      /\ \A i \in 1..(Len(runs) - gone) : kept[i] = runs[gone + i]
  <2> HIDE DEF runs
  <2>1. QED BY <1>1, <1>5, Cut
<1>7. left \in Seq(AnyRun)
  <2>1. CASE kept = <<>>
    BY <2>1
  <2>2. CASE kept # <<>>
    <3> DEFINE m == n - Before(runs, gone)
               b == runs[gone + 1]
               o == b.offset + n - Before(runs, gone)
    <3>1. Len(kept) \in Nat /\ Len(kept) # 0
      <4> HIDE DEF kept
      <4>1. QED BY <1>6, <2>2
    <3>2. gone + 1 \in 1..Len(runs) /\ gone + 1 \in 0..Len(runs) /\ gone < Len(runs)
          /\ (gone + 1) - 1 = gone /\ gone \in 0..Len(runs) /\ 1 \in 1..(Len(runs) - gone)
      <4> HIDE DEF kept, runs
      <4>1. gone \in 0..Len(runs) /\ Len(runs) \in Nat
        BY <1>1, <1>5
      <4>2. Len(runs) - gone # 0
        BY <1>6, <3>1
      <4> DEFINE x == Len(runs)
      <4> HIDE DEF x
      <4>3. gone \in 0..x /\ x \in Nat /\ x - gone # 0
        BY <4>1, <4>2 DEF x
      <4>4. gone + 1 \in 1..x /\ gone + 1 \in 0..x /\ gone < x
            /\ (gone + 1) - 1 = gone /\ gone \in 0..x /\ 1 \in 1..(x - gone)
        BY ONLY <4>3
      <4>5. QED BY <4>4 DEF x
    <3>3. kept[1] = b /\ b \in AnyRun
      <4>1. kept[1] = runs[gone + 1]
        BY <1>6, <3>2
      <4> HIDE DEF kept, runs
      <4>2. QED BY <1>1, <3>2, <4>1
    <3>4. /\ Before(runs, gone + 1) = Before(runs, gone) + Len(Rest(b))
          /\ Before(runs, gone) \in Nat /\ Before(runs, 0) = 0
      <4> HIDE DEF runs
      <4>1. \A k \in 1..Len(runs) : Before(runs, k) = Before(runs, k - 1) + Len(Rest(runs[k]))
        BY <1>1, BeforeFacts
      <4>2. \A k \in 0..Len(runs) : Before(runs, k) \in Nat
        BY <1>1, BeforeFacts
      <4>3. Before(runs, 0) = 0
        BY <1>1, BeforeFacts
      <4>4. QED BY <3>2, <4>1, <4>2, <4>3
    <3>5. Rest(b) \in Seq(Char) /\ Len(Rest(b)) = Len(b.data) - b.offset
      <4> HIDE DEF b
      <4>1. QED BY <3>3, RestType
    <3>6. Before(runs, gone) <= n
      <4>1. CASE gone > 0
        BY <1>5, <3>4, <4>1
      <4>2. CASE ~(gone > 0)
        BY <1>5, <3>4, <4>2
      <4>3. QED BY <4>1, <4>2
    <3>7. n <= Before(runs, gone) + Len(Rest(b))
      BY <1>5, <3>2, <3>4
    <3>8. b.data \in Seq(Char) /\ b.offset \in Nat /\ b.size \in Nat
      BY <3>3 DEF AnyRun
    <3>9. o \in Nat /\ o <= Len(b.data)
      <4> DEFINE x == Before(runs, gone)
                 y == Len(Rest(b))
                 z == Len(b.data)
                 u == b.offset
      <4>1. x \in Nat /\ y = z - u /\ z \in Nat /\ u \in Nat /\ x <= n /\ n <= x + y
        BY <3>4, <3>5, <3>6, <3>7, <3>8
      <4> HIDE DEF x, y, z, u
      <4>2. u + n - x \in Nat /\ u + n - x <= z
        BY <4>1
      <4>3. QED BY <4>2 DEF x, z, u
    <3> HIDE DEF o
    <3>10. [b EXCEPT !.offset = o] \in AnyRun
      <4> HIDE DEF b
      <4>1. QED BY <3>3, <3>9 DEF AnyRun
    <3>11. left = [kept EXCEPT ![1] = [b EXCEPT !.offset = o]]
      <4>1. left = [kept EXCEPT ![1] = [kept[1] EXCEPT !.offset = kept[1].offset + n - Before(runs, gone)]]
        BY <2>2
      <4> HIDE DEF kept, left
      <4>2. QED BY <3>3, <4>1 DEF o
    <3> DEFINE e == [b EXCEPT !.offset = o]
    <3> HIDE DEF e, kept, left
    <3>12. e \in AnyRun /\ left = [kept EXCEPT ![1] = e]
      BY <3>10, <3>11 DEF e
    <3>13. QED BY <1>6, <2>2, <3>12, FirstRun
  <2>3. QED BY <2>1, <2>2
<1>8. data_consume_data(s, n).st = [moved EXCEPT !.consumed = @ + Len(took), !.runs = left]
  BY DEF data_consume_data, took, moved, gone
<1> HIDE DEF left
<1>9. moved.consumed + Len(took) \in Int
  BY <1>1, <1>2, <1>4
<1>10. QED BY <1>4, <1>7, <1>8, <1>9 DEF AnyStream

\* Text slid back into a run buffer.
LEMMA SlideType ==
  ASSUME NEW b \in AnyRun, NEW w \in Seq(Char), Len(w) <= b.offset
  PROVE  Slide(b, w) \in AnyRun
<1> DEFINE n == b.offset - Len(w)
           x == SubSeq(b.data, 1, n)
           y == SubSeq(b.data, b.offset + 1, Len(b.data))
           d == x \o w \o y
<1>1. b.data \in Seq(Char) /\ b.offset \in 0..Len(b.data) /\ b.size \in Nat /\ Len(w) \in Nat
      /\ b.offset \in Nat /\ Len(b.data) \in Nat
  BY DEF AnyRun
<1>2. n \in 0..Len(b.data) /\ n \in Nat
  BY <1>1
<1>3. x \in Seq(Char) /\ Len(x) = n
  <2> HIDE DEF n
  <2>1. QED BY <1>1, <1>2, Cut
<1>4. y \in Seq(Char) /\ Len(y) = Len(b.data) - b.offset
  BY <1>1, Cut, SMTT(60)
<1> HIDE DEF x, y
<1>5. x \o w \in Seq(Char) /\ Len(x \o w) = Len(x) + Len(w)
  BY <1>3, Joined
<1>6. d \in Seq(Char) /\ Len(d) = Len(x \o w) + Len(y)
  <2> DEFINE z == x \o w
  <2> HIDE DEF z
  <2>1. z \in Seq(Char)
    BY <1>5 DEF z
  <2>2. z \o y \in Seq(Char) /\ Len(z \o y) = Len(z) + Len(y)
    BY <1>4, <2>1, Joined
  <2>3. QED BY <2>2 DEF z
<1> HIDE DEF d
<1>7. n <= Len(d)
  BY <1>1, <1>2, <1>3, <1>4, <1>5, <1>6
<1>8. Slide(b, w) = [b EXCEPT !.offset = n, !.data = d]
  BY DEF Slide, d, x, y
<1> HIDE DEF n
<1>9. QED BY <1>2, <1>6, <1>7, <1>8 DEF AnyRun

\* Text given back to a stream (data_undo_consume_data).
LEMMA UndoConsumeType ==
  ASSUME NEW s \in AnyStream, NEW w \in Seq(Char)
  PROVE  data_undo_consume_data(s, w).st \in AnyStream
<1> DEFINE n == Len(w)
           amount == Amount(s, n)
           fill == Fill(s, n)
           filled == SubSeq(w, n - fill + 1, n)
           rest == SubSeq(w, n - amount + 1, n - fill)
           slid == IF fill = 0 THEN s.runs ELSE [s.runs EXCEPT ![1] = Slide(@, filled)]
           moved == undo_position_data(s, filled \o rest)
           back == IF rest = <<>> THEN slid ELSE PutBack(slid, rest)
<1>1. n \in Nat /\ s.runs \in Seq(AnyRun) /\ s.consumed \in Int
  BY StreamParts
<1>2. amount \in Int /\ amount <= n
  BY <1>1 DEF Amount, Upto
<1>3. fill \in Int /\ fill <= n
      /\ (fill # 0 => s.runs # <<>> /\ fill <= s.runs[1].offset /\ s.runs[1] \in AnyRun)
      /\ (fill <= amount \/ amount < 0)
  <2>1. CASE s.runs = <<>> \/ s.runs[1].offset = 0
    <3>1. fill = 0
      BY <2>1 DEF Fill
    <3> HIDE DEF fill, amount
    <3>2. QED BY <1>1, <1>2, <3>1
  <2>2. CASE ~(s.runs = <<>> \/ s.runs[1].offset = 0)
    <3>1. fill = Upto(amount, s.runs[1].offset)
      BY <2>2 DEF Fill
    <3>2. s.runs[1] \in AnyRun
      BY <1>1, <2>2, FirstRun
    <3>3. s.runs[1].offset \in Nat
      BY <3>2 DEF AnyRun
    <3> HIDE DEF fill, amount
    <3>4. QED BY <1>1, <1>2, <2>2, <3>1, <3>2, <3>3 DEF Upto
  <2>3. QED BY <2>1, <2>2
<1> HIDE DEF amount, fill
<1>4. /\ filled \in Seq(Char)
      /\ fill >= 0 => Len(filled) = fill
      /\ ~(fill >= 0) => Len(filled) = 0
  <2>1. CASE fill >= 0
    <3> DEFINE k == n - fill
    <3>1. k \in 0..n /\ n - k = fill
      BY <1>1, <1>3, <2>1
    <3> HIDE DEF k
    <3>2. SubSeq(w, k + 1, n) \in Seq(Char) /\ Len(SubSeq(w, k + 1, n)) = n - k
      BY <3>1, Cut
    <3>3. QED BY <2>1, <3>1, <3>2 DEF k
  <2>2. CASE ~(fill >= 0)
    <3>1. n - fill + 1 > n /\ n - fill + 1 \in Nat
      BY <1>1, <1>3, <2>2
    <3> DEFINE k == n - fill + 1
    <3> HIDE DEF k
    <3>2. SubSeq(w, k, n) = <<>>
      BY <1>1, <3>1 DEF k
    <3>3. filled = <<>>
      BY <3>2 DEF k
    <3> HIDE DEF filled
    <3>4. <<>> \in Seq(Char) /\ Len(<<>>) = 0
      OBVIOUS
    <3>5. QED BY <2>2, <3>3, <3>4
  <2>3. QED BY <2>1, <2>2
<1>5. rest \in Seq(Char)
  <2> DEFINE i == n - amount + 1
             j == n - fill
  <2>1. i \in Nat \ {0} /\ j \in Int /\ (j <= n \/ i > j)
    <3>1. i \in Nat \ {0} /\ j \in Int
      BY <1>1, <1>2, <1>3
    <3>2. CASE fill >= 0
      BY <1>1, <1>3, <3>1, <3>2
    <3>3. CASE ~(fill >= 0)
      <4>1. amount < 0 \/ fill <= amount
        BY <1>3
      <4>2. fill # 0
        BY <1>3, <3>3
      <4>3. s.runs[1].offset \in Nat
        BY <1>3, <4>2 DEF AnyRun
      <4>4. fill = amount
        <5>1. fill = Upto(amount, s.runs[1].offset)
          BY <4>2 DEF Fill, fill, amount
        <5>2. QED BY <1>2, <1>3, <3>3, <4>3, <5>1 DEF Upto
      <4>5. QED BY <1>1, <1>2, <4>4
    <3>4. QED BY <1>3, <3>1, <3>2, <3>3
  <2>2. rest = SubSeq(w, i, j)
    OBVIOUS
  <2> HIDE DEF i, j, rest
  <2>3. CASE i > j
    <3>1. SubSeq(w, i, j) = <<>>
      BY <1>1, <2>1, <2>3
    <3>2. QED BY <2>2, <3>1
  <2>4. CASE ~(i > j)
    <3>1. i \in 1..n /\ j \in i..n
      BY <1>1, <2>1, <2>4
    <3>2. SubSeq(w, i, j) \in Seq(Char)
      BY <1>1, <3>1
    <3>3. QED BY <2>2, <3>2
  <2>5. QED BY <2>3, <2>4
<1> HIDE DEF filled, rest
<1>6. slid \in Seq(AnyRun)
  <2>1. CASE fill = 0
    BY <1>1, <2>1
  <2>2. CASE fill # 0
    <3>1. Len(filled) <= s.runs[1].offset /\ s.runs # <<>> /\ s.runs[1] \in AnyRun
      <4>1. s.runs[1].offset \in Nat
        BY <1>3, <2>2 DEF AnyRun
      <4>2. QED BY <1>3, <1>4, <2>2, <4>1
    <3> DEFINE e == Slide(s.runs[1], filled)
    <3>2. e \in AnyRun
      BY <1>4, <3>1, SlideType
    <3>3. slid = [s.runs EXCEPT ![1] = e]
      BY <2>2
    <3> HIDE DEF e, slid
    <3>4. QED BY <1>1, <3>1, <3>2, <3>3, FirstRun
  <2>3. QED BY <2>1, <2>2
<1> HIDE DEF slid
<1>7. back \in Seq(AnyRun)
  <2>1. NewRunBuf(0, rest) \in AnyRun
    BY <1>5, NewRunType
  <2> DEFINE e == NewRunBuf(0, rest)
  <2> HIDE DEF e
  <2>2. <<e>> \in Seq(AnyRun)
    BY <2>1 DEF e
  <2>3. <<e>> \o slid \in Seq(AnyRun)
    BY <1>6, <2>2, Joined
  <2>4. PutBack(slid, rest) = <<e>> \o slid
    BY DEF PutBack, e
  <2>5. QED BY <1>6, <2>3, <2>4
<1>8. filled \o rest \in Seq(Char)
  BY <1>4, <1>5, Joined
<1>9. moved \in AnyStream
  <2>1. moved \in Moved(s)
    BY <1>8, UndoPositionType
  <2> HIDE DEF moved
  <2>2. QED BY <2>1, MovedType
<1>10. UndoConsumed(s, n) \in Int
  BY <1>1, <1>2, <1>3 DEF UndoConsumed, fill, amount
<1>11. data_undo_consume_data(s, w).st
         = [moved EXCEPT !.runs = back, !.consumed = UndoConsumed(s, n)]
  BY DEF data_undo_consume_data, filled, rest, slid, fill, amount
<1> HIDE DEF back, moved
<1>12. QED BY <1>7, <1>9, <1>10, <1>11 DEF AnyStream

\* A stream that gives up what it has consumed.
LEMMA SplitType ==
  ASSUME NEW s \in AnyStream
  PROVE  data_split_consumed(s) \in AnyStream
<1>1. \A n \in Int : [s EXCEPT !.consumed = n] \in AnyStream
  BY DEF AnyStream
<1>2. QED BY <1>1 DEF data_split_consumed

\* Text appended to a stream is buffered behind what was (data_append_data).
LEMMA AppendType ==
  ASSUME NEW s \in AnyStream, NEW w \in Seq(Char)
  PROVE  /\ data_append_data(s, w) \in AnyStream
         /\ Buffered(data_append_data(s, w)) = Buffered(s) \o w
         /\ data_append_data(s, w).src = s.src
<1> DEFINE runs == s.runs
           n == Len(runs)
           a == SubSeq(runs, 1, n - 1)
<1>1. runs \in Seq(AnyRun) /\ n \in Nat
  BY StreamParts
<1>2. ASSUME NEW r \in Seq(AnyRun), data_append_data(s, w) = [s EXCEPT !.runs = r],
             InRuns(r) = InRuns(runs) \o w
      PROVE  /\ data_append_data(s, w) \in AnyStream
             /\ Buffered(data_append_data(s, w)) = Buffered(s) \o w
             /\ data_append_data(s, w).src = s.src
  BY <1>2 DEF AnyStream, Buffered
<1>3. CASE Fits(s, w)
  <2> DEFINE b == runs[n]
             e == [b EXCEPT !.data = @ \o w]
             r == [runs EXCEPT ![n] = e]
  <2>1. runs # <<>>
    BY <1>3 DEF Fits
  <2>2. n > 0 /\ n \in 1..n /\ b \in AnyRun
    <3>1. n # 0
      BY <1>1, <2>1
    <3> HIDE DEF runs
    <3>2. QED BY <1>1, <3>1
  <2> HIDE DEF b
  <2>3. e \in AnyRun /\ Rest(e) = Rest(b) \o w
    <3> DEFINE d == b.data
               o == b.offset
               m == Len(d)
               c == d \o w
    <3>1. d \in Seq(Char) /\ o \in Nat /\ m \in Nat /\ o <= m /\ b.size \in Nat
      BY <2>2 DEF AnyRun
    <3>2. c \in Seq(Char) /\ Len(c) = m + Len(w) /\ Len(w) \in Nat
      BY <3>1, Joined
    <3>3. e \in AnyRun
      <4> HIDE DEF m
      <4>1. o <= m + Len(w)
        BY <3>1, <3>2
      <4> HIDE DEF c, d, o
      <4>2. c \in Seq(Char) /\ o \in Nat /\ o <= Len(c) /\ e = [b EXCEPT !.data = c]
        BY <3>1, <3>2, <4>1 DEF c, d
      <4>3. QED BY <2>2, <4>2 DEF AnyRun, o
    <3>4. Rest(e) = SubSeq(c, o + 1, m + Len(w)) /\ Rest(b) = SubSeq(d, o + 1, m)
      BY <2>2, <3>2 DEF Rest, AnyRun
    <3>5. SubSeq(c, o + 1, m + Len(w)) = SubSeq(d, o + 1, m) \o w
      <4>1. o \in 0..Len(d)
        BY <3>1
      <4> HIDE DEF d, o
      <4>2. QED BY <3>1, <4>1, CutJoined
    <3>6. QED BY <3>3, <3>4, <3>5
  <2> HIDE DEF e
  <2>4. r \in Seq(AnyRun)
    BY <1>1, <2>1, <2>3, FirstRun
  <2>5. /\ runs = Append(a, b) /\ a \in Seq(AnyRun) /\ Len(a) = n - 1
    BY <1>1, <2>2, LastOff DEF b
  <2> HIDE DEF a
  <2>6. r = Append(a, e)
    <3>1. Len(a) + 1 = n /\ Len(a) \in Nat /\ Len(r) = n /\ r[n] = e
      BY <1>1, <2>2, <2>5
    <3>2. \A i \in 1..Len(a) : i \in 1..n /\ i # n
      BY <3>1
    <3>3. \A i \in 1..n : i # n => r[i] = runs[i]
      BY <1>1
    <3> HIDE DEF r, n, runs
    <3>4. \A i \in 1..Len(a) : runs[i] = a[i]
      BY <2>2, <2>5
    <3>5. \A i \in 1..Len(a) : r[i] = a[i]
      BY <3>2, <3>3, <3>4
    <3>6. QED BY <2>3, <2>4, <2>5, <3>1, <3>5, EndsWith
  <2>7. InRuns(runs) = InRuns(a) \o Rest(b) /\ InRuns(r) = InRuns(a) \o (Rest(b) \o w)
    <3>1. ASSUME NEW x \in AnyRun PROVE InRuns(Append(a, x)) = InRuns(a) \o Rest(x)
      <4>1. Append(a, x) = a \o <<x>> /\ <<x>> \in Seq(AnyRun)
        BY <2>5, EndConcat
      <4>2. InRuns(a \o <<x>>) = InRuns(a) \o InRuns(<<x>>)
        BY <2>5, <4>1, InRunsConcat
      <4>3. InRuns(<<x>>) = Rest(x)
        <5>1. Rests(<<x>>) = <<Rest(x)>>
          BY DEF Rests
        <5>2. FlattenSeq(<<Rest(x)>>) = Rest(x)
          BY RestType, FlatOne
        <5>3. QED BY <5>1, <5>2 DEF InRuns, Rests
      <4>4. QED BY <4>1, <4>2, <4>3
    <3>2. QED BY <2>2, <2>3, <2>5, <2>6, <3>1
  <2>8. InRuns(r) = InRuns(runs) \o w
    <3>1. InRuns(a) \in Seq(Char) /\ Rest(b) \in Seq(Char)
      BY <2>2, <2>5, RestsType, RestType
    <3> DEFINE x == InRuns(a)
               y == Rest(b)
    <3> HIDE DEF x, y, r, runs
    <3>2. (x \o y) \o w = x \o (y \o w)
      BY <3>1, Assoc DEF x, y
    <3>3. QED BY <2>7, <3>2 DEF x, y
  <2>9. data_append_data(s, w) = [s EXCEPT !.runs = r]
    BY <1>3 DEF data_append_data, e, b
  <2> HIDE DEF r
  <2>10. QED BY <1>2, <2>4, <2>8, <2>9
<1>4. CASE ~Fits(s, w)
  <2> DEFINE b == NewRunBuf(Len(w), w)
             r == Append(runs, b)
  <2>1. b \in AnyRun /\ Rest(b) = w
    BY NewRunType
  <2> HIDE DEF b
  <2>2. r = runs \o <<b>> /\ <<b>> \in Seq(AnyRun)
    BY <1>1, <2>1
  <2>3. r \in Seq(AnyRun) /\ InRuns(r) = InRuns(runs) \o InRuns(<<b>>)
    BY <1>1, <2>2, InRunsConcat
  <2>4. InRuns(<<b>>) = w
    <3>1. Rests(<<b>>) = <<w>>
      BY <2>1 DEF Rests
    <3>2. FlattenSeq(<<w>>) = w
      BY FlatOne
    <3>3. QED BY <3>1, <3>2 DEF InRuns, Rests
  <2>5. data_append_data(s, w) = [s EXCEPT !.runs = r]
    BY <1>4 DEF data_append_data, b
  <2> HIDE DEF r
  <2>6. QED BY <1>2, <2>3, <2>4, <2>5
<1>5. QED BY <1>3, <1>4

\* Text taken off the end of a stream (data_undo_append_data).
LEMMA UndoAppendType ==
  ASSUME NEW s \in AnyStream, NEW n \in Nat
  PROVE  data_undo_append_data(s, n).st \in AnyStream
<1> DEFINE runs == s.runs
           k == Cardinality({j \in DOMAIN runs : After(runs, j - 1) >= n})
           kept == SubSeq(runs, 1, k)
           cut == n - After(runs, k)
           left == IF kept = <<>> THEN <<>>
                   ELSE [kept EXCEPT ![k].data = SubSeq(@, 1, Len(@) - cut)]
<1>1. runs \in Seq(AnyRun)
  BY StreamParts
<1>2. k \in 0..Len(runs) /\ After(runs, k) <= n /\ (k > 0 => n <= After(runs, k - 1))
  <2> HIDE DEF runs
  <2>1. QED BY <1>1, RunsAfter
<1> HIDE DEF k
<1>3. kept \in Seq(AnyRun) /\ Len(kept) = k /\ \A i \in 1..k : kept[i] = runs[i]
  <2> HIDE DEF runs
  <2>1. QED BY <1>1, <1>2, Cut
<1>4. left \in Seq(AnyRun)
  <2>1. CASE kept = <<>>
    BY <2>1
  <2>2. CASE kept # <<>>
    <3> DEFINE b == runs[k]
               l == Len(b.data) - cut
               d == SubSeq(b.data, 1, l)
    <3>1. k \in 1..Len(runs) /\ k \in 0..Len(runs) /\ k - 1 \in 0..Len(runs) /\ k > 0 /\ k \in 1..k
      <4>1. k # 0
        <5> HIDE DEF kept
        <5>1. QED BY <1>3, <2>2
      <4> HIDE DEF kept, runs
      <4>2. Len(runs) \in Nat
        BY <1>1
      <4>3. QED BY <1>2, <4>1, <4>2
    <3>2. kept[k] = b /\ b \in AnyRun
      <4> HIDE DEF kept
      <4>1. kept[k] = runs[k]
        BY <1>3, <3>1
      <4> HIDE DEF runs
      <4>2. QED BY <1>1, <3>1, <4>1
    <3>3. /\ After(runs, k - 1) = After(runs, k) + Len(Rest(b))
          /\ After(runs, k) \in Nat
      <4> HIDE DEF runs
      <4>1. \A j \in 1..Len(runs) : After(runs, j - 1) = After(runs, j) + Len(Rest(runs[j]))
        BY <1>1, BeforeFacts
      <4>2. \A j \in 0..Len(runs) : After(runs, j) \in Nat
        BY <1>1, BeforeFacts
      <4>3. QED BY <3>1, <4>1, <4>2
    <3>4. Rest(b) \in Seq(Char) /\ Len(Rest(b)) = Len(b.data) - b.offset
      <4> HIDE DEF b
      <4>1. QED BY <3>2, RestType
    <3>5. b.data \in Seq(Char) /\ b.offset \in Nat /\ b.size \in Nat /\ b.offset <= Len(b.data)
      BY <3>2 DEF AnyRun
    <3>6. l \in Nat /\ b.offset <= l /\ l <= Len(b.data)
      <4> DEFINE x == After(runs, k)
                 y == Len(Rest(b))
                 z == Len(b.data)
                 u == b.offset
      <4>1. x \in Nat /\ y = z - u /\ z \in Nat /\ u \in Nat /\ x <= n /\ n <= x + y /\ u <= z
        BY <1>2, <3>1, <3>3, <3>4, <3>5
      <4> HIDE DEF x, y, z, u
      <4>2. z - (n - x) \in Nat /\ u <= z - (n - x) /\ z - (n - x) <= z
        BY <4>1
      <4>3. QED BY <4>2 DEF x, z, u
    <3> HIDE DEF l
    <3>7. d \in Seq(Char) /\ Len(d) = l
      <4> DEFINE v == b.data
      <4> HIDE DEF v
      <4>1. v \in Seq(Char) /\ l \in 0..Len(v)
        BY <3>5, <3>6 DEF v
      <4>2. SubSeq(v, 1, l) \in Seq(Char) /\ Len(SubSeq(v, 1, l)) = l
        BY <4>1, Cut
      <4>3. QED BY <4>2 DEF v
    <3> HIDE DEF d
    <3>8. [b EXCEPT !.data = d] \in AnyRun
      <4> HIDE DEF b
      <4>1. QED BY <3>2, <3>6, <3>7 DEF AnyRun
    <3>9. left = [kept EXCEPT ![k] = [b EXCEPT !.data = d]]
      <4>1. left = [kept EXCEPT ![k] = [kept[k] EXCEPT !.data = SubSeq(kept[k].data, 1, Len(kept[k].data) - cut)]]
        BY <2>2
      <4> HIDE DEF kept, left
      <4>2. QED BY <3>2, <4>1 DEF d, l
    <3> DEFINE e == [b EXCEPT !.data = d]
    <3>10. e \in AnyRun /\ left = [kept EXCEPT ![k] = e]
      BY <3>8, <3>9
    <3> HIDE DEF e, kept, left
    <3>11. QED BY <1>3, <2>2, <3>10, FirstRun
  <2>3. QED BY <2>1, <2>2
<1>5. data_undo_append_data(s, n).st = [s EXCEPT !.runs = left]
  BY DEF data_undo_append_data, k
<1> HIDE DEF left
<1>6. QED BY <1>4, <1>5 DEF AnyStream

-----------------------------------------------------------------------------
(* Buffers. *)

\* A buffer: a tree or such a stream.
AnyBuf == [type : {"token", "ignore"}, tree : Tree]
            \cup [type : {"accum"}, si : AnyStream]
            \cup [type : {"source"}, si : AnyStream, file : File]

\* A buffer is a tree or a stream.
LEMMA BufKinds ==
  ASSUME NEW b \in AnyBuf
  PROVE  /\ is_tree(b) <=> ~is_stream(b)
         /\ is_tree(b) => b.tree \in Tree
         /\ is_stream(b) => b.si \in AnyStream
         /\ b.type = "source" => is_stream(b) /\ b.file \in File
<1>1. CASE b \in [type : {"token", "ignore"}, tree : Tree]
  BY <1>1 DEF is_tree, is_stream
<1>2. CASE b \in [type : {"accum"}, si : AnyStream]
  BY <1>2 DEF is_tree, is_stream
<1>3. CASE b \in [type : {"source"}, si : AnyStream, file : File]
  BY <1>3 DEF is_tree, is_stream
<1>4. QED BY <1>1, <1>2, <1>3 DEF AnyBuf

\* A buffer whose stream is replaced.
LEMMA BufStream ==
  ASSUME NEW b \in AnyBuf, is_stream(b), NEW s \in AnyStream
  PROVE  /\ [b EXCEPT !.si = s] \in AnyBuf /\ is_stream([b EXCEPT !.si = s])
         /\ [b EXCEPT !.si = s].si = s /\ [b EXCEPT !.si = s].type = b.type
<1>1. CASE b \in [type : {"accum"}, si : AnyStream]
  BY <1>1 DEF AnyBuf, is_stream
<1>2. CASE b \in [type : {"source"}, si : AnyStream, file : File]
  BY <1>2 DEF AnyBuf, is_stream
<1>3. b \notin [type : {"token", "ignore"}, tree : Tree]
  BY DEF is_stream
<1>4. QED BY <1>1, <1>2, <1>3 DEF AnyBuf

\* The streams at the front of a queue.
LEMMA LeadFacts ==
  ASSUME NEW q \in Seq(AnyBuf)
  PROVE  /\ Len(q) \in Nat /\ Lead(q) \in 0..Len(q)
         /\ \A i \in 1..Lead(q) : q[i] \in AnyBuf /\ is_stream(q[i])
         /\ Lead(q) < Len(q) => is_tree(q[Lead(q) + 1])
<1> DEFINE trees == {i \in DOMAIN q : is_tree(q[i])}
           n == Len(q)
<1>1. n \in Nat /\ DOMAIN q = 1..n /\ \A i \in 1..n : q[i] \in AnyBuf
  OBVIOUS
<1>2. Lead(q) = IF trees = {} THEN n ELSE Min(trees) - 1
  BY DEF Lead
<1>3. \A i \in 1..n : i \notin trees => is_stream(q[i])
  BY <1>1, BufKinds
<1>4. trees \in SUBSET (1..n) /\ trees \in SUBSET Nat
  BY <1>1
<1>5. CASE trees = {}
  <2> HIDE DEF trees, n
  <2>1. Lead(q) = n
    BY <1>2, <1>5
  <2>2. QED BY <1>1, <1>3, <1>5, <2>1 DEF n
<1>6. CASE trees # {}
  <2>1. Min(trees) \in trees /\ \A k \in trees : Min(trees) <= k
    <3> HIDE DEF trees
    <3>1. QED BY <1>4, <1>6, MinPlace
  <2> DEFINE m == Min(trees)
  <2> HIDE DEF m
  <2>2. m \in trees /\ \A k \in trees : m <= k
    BY <2>1 DEF m
  <2>3. Lead(q) = m - 1
    BY <1>2, <1>6 DEF m
  <2>4. is_tree(q[m])
    BY <2>2
  <2> HIDE DEF trees, n
  <2>5. m \in 1..n /\ (m - 1) + 1 = m
    BY <1>1, <1>4, <2>2
  <2>6. \A i \in 1..(m - 1) : i \in 1..n /\ ~(m <= i)
    BY <1>1, <2>5
  <2>7. \A i \in 1..(m - 1) : is_stream(q[i]) /\ q[i] \in AnyBuf
    BY <1>1, <1>3, <2>2, <2>6
  <2>8. m - 1 \in 0..n
    BY <1>1, <2>5
  <2>9. QED BY <1>1, <2>3, <2>4, <2>5, <2>7, <2>8 DEF n
<1>7. QED BY <1>5, <1>6

\* A tree ends the streams at the front, nothing else.
LEMMA LeadLeast ==
  ASSUME NEW q \in Seq(AnyBuf), NEW k \in 0..Len(q), \A i \in 1..k : is_stream(q[i])
  PROVE  k <= Lead(q)
<1> SUFFICES ASSUME Lead(q) < k PROVE FALSE
  BY LeadFacts
<1>1. Lead(q) + 1 \in 1..k /\ Lead(q) + 1 \in 1..Len(q) /\ Lead(q) < Len(q)
  BY LeadFacts
<1>2. is_tree(q[Lead(q) + 1]) /\ is_stream(q[Lead(q) + 1])
  BY <1>1, LeadFacts
<1>3. q[Lead(q) + 1] \in AnyBuf
  BY <1>1
<1>4. QED BY <1>2, <1>3, BufKinds

\* The streams at the end of a queue.
LEMMA TrailFacts ==
  ASSUME NEW q \in Seq(AnyBuf)
  PROVE  /\ Trail(q) \in 1..(Len(q) + 1)
         /\ \A i \in Trail(q)..Len(q) : q[i] \in AnyBuf /\ is_stream(q[i])
<1> DEFINE trees == {i \in DOMAIN q : is_tree(q[i])}
           n == Len(q)
<1>1. n \in Nat /\ DOMAIN q = 1..n /\ \A i \in 1..n : q[i] \in AnyBuf
  OBVIOUS
<1>2. Trail(q) = IF trees = {} THEN 1 ELSE Max(trees) + 1
  BY DEF Trail
<1>3. \A i \in 1..n : i \notin trees => is_stream(q[i])
  BY <1>1, BufKinds
<1>4. trees \in SUBSET (1..n)
  BY <1>1
<1>5. CASE trees = {}
  <2> HIDE DEF trees, n
  <2>1. Trail(q) = 1
    BY <1>2, <1>5
  <2>2. QED BY <1>1, <1>3, <1>5, <2>1 DEF n
<1>6. CASE trees # {}
  <2> DEFINE m == Max(trees)
  <2>1. m \in trees /\ \A k \in trees : k <= m
    <3> HIDE DEF trees, n
    <3>1. QED BY <1>1, <1>4, <1>6, MaxPlace
  <2> HIDE DEF m
  <2>2. Trail(q) = m + 1
    BY <1>2, <1>6 DEF m
  <2> HIDE DEF trees, n
  <2>3. m \in 1..n
    BY <1>1, <1>4, <2>1
  <2>4. \A i \in (m + 1)..n : i \in 1..n /\ ~(i <= m)
    BY <1>1, <2>3
  <2>5. \A i \in (m + 1)..n : is_stream(q[i]) /\ q[i] \in AnyBuf
    BY <1>1, <1>3, <2>1, <2>4
  <2>6. m + 1 \in 1..(n + 1)
    BY <1>1, <2>3
  <2>7. QED BY <2>2, <2>5, <2>6 DEF n
<1>7. QED BY <1>5, <1>6

-----------------------------------------------------------------------------
(* What is buffered at the front of a queue. *)

\* The text buffered in the first k buffers.
BufText(q, k) == FlattenSeq([i \in 1..k |-> Buffered(q[i].si)])

\* What is buffered grows stream by stream.
LEMMA BufTextFacts ==
  ASSUME NEW q \in Seq(AnyBuf), NEW n \in 0..Len(q), \A i \in 1..n : is_stream(q[i])
  PROVE  /\ BufText(q, 0) = <<>>
         /\ \A k \in 0..n : BufText(q, k) \in Seq(Char) /\ BufferedIn(q, 1, k) = Len(BufText(q, k))
         /\ \A k \in 1..n : /\ q[k] \in AnyBuf /\ q[k].si \in AnyStream /\ Buffered(q[k].si) \in Seq(Char)
                            /\ BufText(q, k) = BufText(q, k - 1) \o Buffered(q[k].si)
<1> DEFINE e(i) == Buffered(q[i].si)
           B(k) == [i \in 1..k |-> e(i)]
<1>1. n \in Nat /\ Len(q) \in Nat /\ n <= Len(q)
  OBVIOUS
<1>2. \A k \in 1..n : q[k] \in AnyBuf /\ q[k].si \in AnyStream /\ e(k) \in Seq(Char)
  <2> TAKE k \in 1..n
  <2>1. q[k] \in AnyBuf
    BY <1>1
  <2>2. q[k].si \in AnyStream
    BY <2>1, BufKinds
  <2>3. QED BY <2>1, <2>2, StreamParts
<1>3. \A k \in 0..n : BufText(q, k) = FlattenSeq(B(k))
  BY DEF BufText
<1>4. \A k \in 0..n : B(k) \in Seq(Seq(Char))
  <2> TAKE k \in 0..n
  <2>1. \A i \in 1..k : i \in 1..n
    BY <1>1
  <2>2. k \in Nat
    OBVIOUS
  <2> HIDE DEF e
  <2>3. \A i \in 1..k : e(i) \in Seq(Char)
    BY <1>2, <2>1
  <2>4. QED BY <2>2, <2>3
<1>5. BufText(q, 0) = <<>>
  <2>1. B(0) = <<>>
    OBVIOUS
  <2>2. QED BY <2>1, FlatEmpty DEF BufText
<1>6. \A k \in 1..n : BufText(q, k) = BufText(q, k - 1) \o e(k)
  <2> TAKE k \in 1..n
  <2>1. k \in Nat /\ k - 1 \in Nat /\ k \in 0..n /\ k - 1 \in 0..n
    BY <1>1
  <2>2. B(k) = Append(B(k - 1), e(k))
    <3>1. B(k) \in Seq(Seq(Char)) /\ B(k - 1) \in Seq(Seq(Char)) /\ e(k) \in Seq(Char)
      BY <1>2, <1>4, <2>1
    <3> DEFINE r == B(k)
               a == B(k - 1)
               x == e(k)
    <3>2. Len(r) = k /\ Len(a) = k - 1 /\ r[k] = x /\ \A i \in 1..(k - 1) : r[i] = a[i]
      <4> HIDE DEF e
      <4>1. \A i \in 1..(k - 1) : i \in 1..k
        BY <2>1
      <4>2. QED BY <2>1, <4>1
    <3> DEFINE S == Seq(Char)
    <3> HIDE DEF r, a, x, S
    <3>3. r \in Seq(S) /\ a \in Seq(S) /\ x \in S
      BY <3>1 DEF r, a, x, S
    <3>4. Len(r) = Len(a) + 1 /\ r[Len(a) + 1] = x /\ \A i \in 1..Len(a) : r[i] = a[i]
      BY <2>1, <3>2
    <3>5. r = Append(a, x)
      BY <3>3, <3>4, EndsWith
    <3>6. QED BY <3>5 DEF r, a, x
  <2> DEFINE a == B(k - 1)
             x == e(k)
  <2>3. a \in Seq(Seq(Char)) /\ x \in Seq(Char)
    BY <1>2, <1>4, <2>1
  <2>4. BufText(q, k) = FlattenSeq(Append(a, x)) /\ BufText(q, k - 1) = FlattenSeq(a)
    BY <1>3, <2>1, <2>2
  <2> HIDE DEF a, x
  <2>5. BufText(q, k) = BufText(q, k - 1) \o x
    BY <2>3, <2>4, FlatAppend
  <2>6. QED BY <2>5 DEF x
<1>7. \A k \in 0..n : BufText(q, k) \in Seq(Char)
  <2> TAKE k \in 0..n
  <2> DEFINE a == B(k)
  <2>1. a \in Seq(Seq(Char)) /\ BufText(q, k) = FlattenSeq(a)
    BY <1>3, <1>4
  <2> HIDE DEF a
  <2>2. QED BY <2>1, FlatType
<1>8. \A k \in 0..n : BufferedIn(q, 1, k) = Len(BufText(q, k))
  <2> TAKE k \in 0..n
  <2> DEFINE a == [x \in 1..(k - 1 + 1) |-> Buffered(q[1 + x - 1].si)]
             b == [i \in 1..k |-> Buffered(q[i].si)]
  <2>1. k - 1 + 1 = k /\ \A x \in 1..k : 1 + x - 1 = x
    OBVIOUS
  <2>2. a = b
    BY <2>1
  <2>3. BufferedIn(q, 1, k) = Len(FlattenSeq(a)) /\ BufText(q, k) = FlattenSeq(b)
    BY DEF BufferedIn, BufText
  <2> HIDE DEF a, b
  <2>4. QED BY <2>2, <2>3
<1>9. QED BY <1>2, <1>5, <1>6, <1>7, <1>8

\* What is buffered in fewer streams is the front of what is buffered in more.
LEMMA BufTextPrefix ==
  ASSUME NEW q \in Seq(AnyBuf), NEW n \in 0..Len(q), \A i \in 1..n : is_stream(q[i])
  PROVE  \A i, j \in 0..n : i <= j => IsPrefix(BufText(q, i), BufText(q, j))
                                      /\ Len(BufText(q, i)) <= Len(BufText(q, j))
<1> DEFINE t(k) == BufText(q, k)
           S == {d \in Nat : \A i \in 0..n : i + d <= n => IsPrefix(t(i), t(i + d))}
<1>1. /\ \A k \in 0..n : t(k) \in Seq(Char)
      /\ \A k \in 1..n : t(k) = t(k - 1) \o Buffered(q[k].si) /\ Buffered(q[k].si) \in Seq(Char)
  BY BufTextFacts
<1> HIDE DEF t
<1>2. 0 \in S
  <2>1. ASSUME NEW i \in 0..n PROVE IsPrefix(t(i), t(i + 0))
    <3>1. t(i) \in Seq(Char) /\ i + 0 = i
      BY <1>1
    <3>2. Len(t(i)) <= Len(t(i)) /\ \A x \in 1..Len(t(i)) : t(i)[x] = t(i)[x]
      BY <3>1
    <3>3. QED BY <3>1, <3>2, PrefixRest
  <2>2. QED BY <2>1
<1>3. ASSUME NEW d \in Nat, d \in S PROVE d + 1 \in S
  <2> SUFFICES ASSUME NEW i \in 0..n, i + (d + 1) <= n PROVE IsPrefix(t(i), t(i + (d + 1)))
    OBVIOUS
  <2> DEFINE j == i + (d + 1)
  <2>1. j \in 1..n /\ j - 1 = i + d /\ i + d \in 0..n /\ i + d <= n /\ j \in 0..n
    OBVIOUS
  <2>2. IsPrefix(t(i), t(j - 1))
    BY <1>3, <2>1
  <2>3. t(j) = t(j - 1) \o Buffered(q[j].si) /\ Buffered(q[j].si) \in Seq(Char)
    BY <1>1, <2>1
  <2>4. t(i) \in Seq(Char) /\ t(j - 1) \in Seq(Char) /\ t(j) \in Seq(Char)
    BY <1>1, <2>1
  <2> HIDE DEF j
  <2>5. IsPrefix(t(j - 1), t(j - 1) \o Buffered(q[j].si))
    BY <2>3, <2>4, PrefixFacts
  <2> DEFINE x == t(i)
             y == t(j - 1)
             z == t(j)
  <2>6. x \in Seq(Char) /\ y \in Seq(Char) /\ z \in Seq(Char) /\ IsPrefix(x, y) /\ IsPrefix(y, z)
    BY <2>2, <2>3, <2>4, <2>5
  <2> HIDE DEF x, y, z
  <2>8. IsPrefix(x, z)
    BY <2>6, PrefixFacts
  <2>9. QED BY <2>8 DEF j, x, z
<1>4. Nat \subseteq S
  <2> HIDE DEF S
  <2>1. QED BY <1>2, <1>3, NatSetInduction
<1>5. ASSUME NEW i \in 0..n, NEW j \in 0..n, i <= j
      PROVE  IsPrefix(t(i), t(j)) /\ Len(t(i)) <= Len(t(j))
  <2>1. j - i \in Nat /\ i + (j - i) = j /\ j <= n
    BY <1>5
  <2>2. PICK d \in Nat : d = j - i
    BY <2>1
  <2>3. d \in S /\ i + d = j
    BY <1>4, <2>1, <2>2
  <2>4. i + d <= n => IsPrefix(t(i), t(i + d))
    BY <2>3
  <2>5. IsPrefix(t(i), t(j))
    BY <2>1, <2>3, <2>4
  <2>6. t(i) \in Seq(Char) /\ t(j) \in Seq(Char)
    BY <1>1
  <2>7. QED BY <2>5, <2>6, PrefixRest
<1>6. QED BY <1>5 DEF t

-----------------------------------------------------------------------------
(* What is in a queue. *)

\* The text or the tree that is in a buffer.
LEMMA ItemsType ==
  ASSUME NEW b \in AnyBuf
  PROVE  /\ Items(b) \in Seq(Char \cup Tree)
         /\ is_stream(b) => /\ Items(b) = Text(b.si) /\ b.si \in AnyStream
                            /\ Text(b.si) \in Seq(Char)
<1>1. CASE is_tree(b)
  <2>1. b.tree \in Tree /\ ~is_stream(b) /\ Items(b) = <<b.tree>>
    BY <1>1, BufKinds DEF Items
  <2>2. QED BY <2>1
<1>2. CASE ~is_tree(b)
  <2>1. b.si \in AnyStream /\ Items(b) = Text(b.si)
    BY <1>2, BufKinds DEF Items
  <2> DEFINE w == Text(b.si)
  <2>2. w \in Seq(Char)
    BY <2>1, StreamParts
  <2> HIDE DEF w
  <2>3. w \in Seq(Char \cup Tree)
    BY <2>2
  <2>4. QED BY <2>1, <2>2, <2>3 DEF w
<1>3. QED BY <1>1, <1>2

\* The items of a queue.
LEMMA ContentType ==
  ASSUME NEW q \in Seq(AnyBuf)
  PROVE  Content(q) \in Seq(Char \cup Tree)
<1> DEFINE e(i) == Items(q[i])
           c == [i \in DOMAIN q |-> e(i)]
<1>1. Len(q) \in Nat /\ DOMAIN q = 1..Len(q) /\ \A i \in 1..Len(q) : q[i] \in AnyBuf
  OBVIOUS
<1>2. \A i \in 1..Len(q) : e(i) \in Seq(Char \cup Tree)
  BY <1>1, ItemsType
<1> HIDE DEF e
<1>3. c \in Seq(Seq(Char \cup Tree))
  BY <1>1, <1>2
<1> HIDE DEF c
<1>4. FlattenSeq(c) \in Seq(Char \cup Tree)
  BY <1>3, FlatType
<1>5. QED BY <1>4 DEF Content, c, e

\* The streams at the front hold characters only.
LEMMA LeadContent ==
  ASSUME NEW q \in Seq(AnyBuf), NEW k \in 0..Lead(q)
  PROVE  Content(SubSeq(q, 1, k)) \in Seq(Char)
<1> DEFINE p == SubSeq(q, 1, k)
<1>1. k \in 0..Len(q) /\ k \in Nat
  BY LeadFacts
<1>2. p \in Seq(AnyBuf) /\ Len(p) = k /\ \A i \in 1..k : p[i] = q[i]
  BY <1>1, Cut
<1>3. \A i \in 1..k : q[i] \in AnyBuf /\ is_stream(q[i])
  <2>1. \A i \in 1..k : i \in 1..Lead(q)
    BY <1>1, LeadFacts
  <2>2. QED BY <2>1, LeadFacts
<1> HIDE DEF p
<1> DEFINE e(i) == Items(p[i])
           c == [i \in DOMAIN p |-> e(i)]
<1>4. DOMAIN p = 1..k
  BY <1>2
<1>5. \A i \in 1..k : e(i) \in Seq(Char)
  BY <1>2, <1>3, ItemsType
<1> HIDE DEF e
<1>6. c \in Seq(Seq(Char))
  BY <1>1, <1>4, <1>5
<1> HIDE DEF c
<1>7. FlattenSeq(c) \in Seq(Char)
  BY <1>6, FlatType
<1>8. QED BY <1>7 DEF Content, c, e, p

\* What is buffered up to a stream is at the front of the text, if the streams
\* before it have no more to read.
LEMMA LeadTextPrefix ==
  ASSUME NEW q \in Seq(AnyBuf), NEW k \in 0..Lead(q),
         \A j \in 1..(k - 1) : q[j].si.src = <<>>
  PROVE  IsPrefix(BufText(q, k), LeadText(q))
<1> DEFINE L == Lead(q)
           e(i) == Text(q[i].si)
           T == [i \in 1..L |-> e(i)]
<1>1. L \in 0..Len(q) /\ L \in Nat /\ k \in 0..L /\ k \in Nat
  BY LeadFacts
<1>2. \A i \in 1..L : /\ q[i] \in AnyBuf /\ is_stream(q[i]) /\ q[i].si \in AnyStream
                      /\ e(i) = Buffered(q[i].si) \o q[i].si.src
                      /\ e(i) \in Seq(Char) /\ Items(q[i]) = e(i)
                      /\ Buffered(q[i].si) \in Seq(Char) /\ q[i].si.src \in Seq(Char)
  BY LeadFacts, ItemsType, StreamParts
<1>3. LeadText(q) = FlattenSeq(T)
  <2> DEFINE p == SubSeq(q, 1, L)
  <2>1. p \in Seq(AnyBuf) /\ Len(p) = L /\ \A i \in 1..L : p[i] = q[i]
    BY <1>1, Cut
  <2> HIDE DEF p, L, e
  <2>2. DOMAIN p = 1..L
    BY <2>1
  <2>3. [i \in DOMAIN p |-> Items(p[i])] = T
    BY <1>2, <2>1, <2>2
  <2>4. LeadText(q) = FlattenSeq([i \in DOMAIN p |-> Items(p[i])])
    BY DEF LeadText, Content, p, L
  <2> HIDE DEF T
  <2>5. QED BY <2>3, <2>4
<1> HIDE DEF L, e
<1>4. T \in Seq(Seq(Char)) /\ Len(T) = L /\ \A i \in 1..L : T[i] = e(i)
  <2>1. \A i \in 1..L : e(i) \in Seq(Char)
    BY <1>2
  <2>2. T \in Seq(Seq(Char))
    BY <1>1, <2>1
  <2>3. QED BY <1>1, <2>2
<1> HIDE DEF T
<1>5. /\ FlattenSeq(SubSeq(T, 1, k)) \in Seq(Char)
      /\ FlattenSeq(SubSeq(T, k + 1, Len(T))) \in Seq(Char)
      /\ FlattenSeq(T) = FlattenSeq(SubSeq(T, 1, k)) \o FlattenSeq(SubSeq(T, k + 1, Len(T)))
  BY <1>1, <1>4, FlatCut
<1>6. /\ BufText(q, 0) = <<>> /\ BufText(q, k) \in Seq(Char)
      /\ k > 0 => /\ BufText(q, k - 1) \in Seq(Char)
                  /\ BufText(q, k) = BufText(q, k - 1) \o Buffered(q[k].si)
  <2>1. L \in 0..Len(q) /\ \A i \in 1..L : is_stream(q[i])
    BY <1>1, <1>2
  <2>2. k > 0 => k - 1 \in 0..L /\ k \in 1..L
    BY <1>1
  <2>3. QED BY <1>1, <2>1, <2>2, BufTextFacts
<1>7. IsPrefix(BufText(q, k), FlattenSeq(SubSeq(T, 1, k)))
  <2>1. CASE k = 0
    BY <1>5, <1>6, <2>1, PrefixMore
  <2>2. CASE k > 0
    <3>1. k \in 1..Len(T) /\ k - 1 \in 0..Len(T) /\ k - 1 \in Nat
      BY <1>1, <1>4, <2>2
    <3>2. FlattenSeq(SubSeq(T, 1, k)) = FlattenSeq(SubSeq(T, 1, k - 1)) \o T[k]
      BY <1>4, <3>1, FlatCutOne
    <3>3. SubSeq(T, 1, k - 1) = [i \in 1..(k - 1) |-> Buffered(q[i].si)]
      <4> DEFINE r == SubSeq(T, 1, k - 1)
                 u(i) == Buffered(q[i].si)
                 v == [i \in 1..(k - 1) |-> u(i)]
      <4>1. r \in Seq(Seq(Char)) /\ Len(r) = k - 1 /\ \A i \in 1..(k - 1) : r[i] = T[i]
        BY <1>4, <3>1, Cut
      <4>2. \A i \in 1..(k - 1) : i \in 1..L
        BY <1>1, <3>1
      <4>3. ASSUME NEW i \in 1..(k - 1) PROVE r[i] = u(i) /\ u(i) \in Seq(Char)
        <5>1. r[i] = Buffered(q[i].si) \o q[i].si.src /\ Buffered(q[i].si) \in Seq(Char)
          BY <1>2, <1>4, <4>1, <4>2
        <5>2. q[i].si.src = <<>>
          OBVIOUS
        <5> DEFINE w == Buffered(q[i].si)
        <5> HIDE DEF w, r
        <5>3. w \in Seq(Char) /\ r[i] = w \o <<>>
          BY <5>1, <5>2 DEF w
        <5>4. w \o <<>> = w
          BY <5>3
        <5>5. QED BY <5>3, <5>4 DEF w
      <4> HIDE DEF r, u
      <4>4. DOMAIN r = 1..(k - 1) /\ r = [i \in DOMAIN r |-> r[i]]
        BY <3>1, <4>1
      <4>5. r = v
        BY <4>3, <4>4
      <4>6. QED BY <4>5 DEF r, u
    <3>4. FlattenSeq(SubSeq(T, 1, k - 1)) = BufText(q, k - 1)
      <4> DEFINE r == SubSeq(T, 1, k - 1)
                 v == [i \in 1..(k - 1) |-> Buffered(q[i].si)]
      <4>1. BufText(q, k - 1) = FlattenSeq(v)
        BY DEF BufText
      <4> HIDE DEF r, v
      <4>2. FlattenSeq(r) = FlattenSeq(v)
        BY <3>3 DEF r, v
      <4>3. QED BY <4>1, <4>2 DEF r
    <3>5. k \in 1..L /\ T[k] = Buffered(q[k].si) \o q[k].si.src
      <4>1. k \in 1..L
        BY <1>1, <2>2
      <4>2. T[k] = e(k) /\ e(k) = Buffered(q[k].si) \o q[k].si.src
        BY <1>2, <1>4, <4>1
      <4>3. QED BY <4>1, <4>2
    <3> DEFINE a == BufText(q, k - 1)
               b == Buffered(q[k].si)
               c == q[k].si.src
    <3>6. a \in Seq(Char) /\ b \in Seq(Char) /\ c \in Seq(Char)
      BY <1>2, <1>6, <2>2, <3>5
    <3>7. FlattenSeq(SubSeq(T, 1, k)) = a \o (b \o c) /\ BufText(q, k) = a \o b
      BY <1>6, <2>2, <3>2, <3>4, <3>5
    <3> HIDE DEF a, b, c
    <3>8. a \o (b \o c) = (a \o b) \o c /\ a \o b \in Seq(Char)
      <4>1. (a \o b) \o c = a \o (b \o c)
        BY <3>6, Assoc, SMTT(60)
      <4>2. a \o b \in Seq(Char)
        BY <3>6, Joined
      <4>3. QED BY <4>1, <4>2
    <3>9. IsPrefix(a \o b, (a \o b) \o c)
      BY <3>6, <3>8, PrefixMore
    <3>10. QED BY <3>7, <3>8, <3>9
  <2>3. QED BY <1>1, <2>1, <2>2
<1> DEFINE x == BufText(q, k)
           y == FlattenSeq(SubSeq(T, 1, k))
           z == FlattenSeq(SubSeq(T, k + 1, Len(T)))
<1>8. x \in Seq(Char) /\ y \in Seq(Char) /\ z \in Seq(Char) /\ IsPrefix(x, y) /\ LeadText(q) = y \o z
  BY <1>3, <1>5, <1>6, <1>7
<1> HIDE DEF x, y, z
<1>9. y \o z \in Seq(Char) /\ IsPrefix(y, y \o z)
  BY <1>8, PrefixMore
<1>10. IsPrefix(x, y \o z)
  BY <1>8, <1>9, PrefixTrans
<1>11. QED BY <1>8, <1>10 DEF x

-----------------------------------------------------------------------------
(* How far an operation reaches. *)

\* The streams that are used up by taking n characters hold less than n.
LEMMA PassedFacts ==
  ASSUME NEW q \in Seq(AnyBuf), NEW n \in Nat
  PROVE  /\ Passed(q, n) \in 0..Lead(q) /\ Passed(q, n) \in Nat
         /\ BufferedIn(q, 1, Passed(q, n)) \in Nat /\ n - BufferedIn(q, 1, Passed(q, n)) \in Nat
<1> DEFINE L == Lead(q)
           T == {k \in 1..L : BufferedIn(q, 1, k) < n}
           d == Cardinality(T)
<1>1. L \in 0..Len(q) /\ L \in Nat /\ \A i \in 1..L : is_stream(q[i])
  BY LeadFacts
<1>2. \A k \in 0..L : BufferedIn(q, 1, k) \in Nat /\ BufferedIn(q, 1, k) = Len(BufText(q, k))
  BY <1>1, BufTextFacts
<1>3. \A i, j \in 0..L : i <= j => BufferedIn(q, 1, i) <= BufferedIn(q, 1, j)
  BY <1>1, <1>2, BufTextPrefix
<1>4. BufferedIn(q, 1, 0) = 0
  BY <1>1, <1>2, BufTextFacts
<1>5. \A k \in T : \A j \in 1..L : j <= k => j \in T
  <2> SUFFICES ASSUME NEW k \in T, NEW j \in 1..L, j <= k PROVE j \in T
    OBVIOUS
  <2>1. k \in 0..L /\ j \in 0..L /\ BufferedIn(q, 1, k) < n
    BY <1>1
  <2>2. BufferedIn(q, 1, j) <= BufferedIn(q, 1, k) /\ BufferedIn(q, 1, j) \in Nat
        /\ BufferedIn(q, 1, k) \in Nat
    BY <1>2, <1>3, <2>1
  <2>3. BufferedIn(q, 1, j) < n
    BY <2>1, <2>2
  <2>4. QED BY <2>3
<1>6. T \in SUBSET (1..L)
  OBVIOUS
<1>7. d \in 0..L /\ T = 1..d
  <2> HIDE DEF T, L
  <2>1. QED BY <1>1, <1>5, <1>6, DownSet
<1>8. Passed(q, n) = d
  BY DEF Passed
<1> HIDE DEF d
<1>9. d = 0 \/ d \in T
  <2> HIDE DEF T, L
  <2>1. QED BY <1>1, <1>7
<1>10. BufferedIn(q, 1, d) \in Nat /\ BufferedIn(q, 1, d) <= n
  BY <1>1, <1>2, <1>4, <1>7, <1>9
<1>11. n - BufferedIn(q, 1, d) \in Nat
  BY <1>10
<1>12. QED BY <1>1, <1>7, <1>8, <1>10, <1>11

\* The streams that are freed by taking n characters off the end hold less than n.
LEMMA KeptFacts ==
  ASSUME NEW q \in Seq(AnyBuf), NEW n \in Nat
  PROVE  /\ Kept(q, n) \in 0..Len(q) /\ Kept(q, n) \in Nat
         /\ n - BufferedIn(q, Kept(q, n) + 1, Len(q)) \in Nat
<1> DEFINE N == Len(q)
           a == Trail(q)
           U == {k \in a..N : BufferedIn(q, k, N) < n}
           c == Cardinality(U)
           m == N - a + 1
<1>1. N \in Nat /\ a \in 1..(N + 1) /\ m \in 0..N /\ m \in Nat
  BY TrailFacts
<1>2. \A i \in a..N : Buffered(q[i].si) \in Seq(Char)
  BY TrailFacts, BufKinds, StreamParts
<1> DEFINE e(x) == Buffered(q[a + x - 1].si)
           B == [x \in 1..m |-> e(x)]
<1>3. \A x \in 1..m : e(x) \in Seq(Char)
  <2>1. \A x \in 1..m : a + x - 1 \in a..N
    BY <1>1
  <2> HIDE DEF m, a, N
  <2>2. QED BY <1>2, <2>1
<1> HIDE DEF a, N, m, e
<1>4. B \in Seq(Seq(Char)) /\ Len(B) = m /\ \A x \in 1..m : B[x] = e(x)
  BY <1>1, <1>3
<1> HIDE DEF B
<1> DEFINE f == [i \in 0..m |-> Len(FlattenSeq(SubSeq(B, m - i + 1, m)))]
<1>5. f \in [0..m -> Nat] /\ f[0] = 0 /\ \A i \in 1..m : f[i - 1] <= f[i]
  <2>1. \A i \in 0..m : m - i \in 0..Len(B)
    BY <1>1, <1>4
  <2>2. \A i \in 0..m : FlattenSeq(SubSeq(B, m - i + 1, m)) \in Seq(Char)
    BY <1>4, <2>1, FlatCut
  <2>3. \A i \in 0..m : Len(FlattenSeq(SubSeq(B, m - i + 1, m))) \in Nat
    BY <2>2
  <2>4. SubSeq(B, m - 0 + 1, m) = <<>>
    BY <1>1, <1>4
  <2> DEFINE z == SubSeq(B, m - 0 + 1, m)
  <2>5. Len(FlattenSeq(z)) = 0
    <3> HIDE DEF z
    <3>1. z = <<>>
      BY <2>4 DEF z
    <3>2. FlattenSeq(z) = <<>>
      BY <3>1, FlatEmpty
    <3>3. QED BY <3>2
  <2>6. f[0] = 0
    BY <1>1, <2>5
  <2>7. ASSUME NEW i \in 1..m PROVE f[i - 1] <= f[i]
    <3> DEFINE k == m - i + 1
    <3>1. k \in 1..Len(B) /\ i \in 0..m /\ i - 1 \in 0..m /\ m - (i - 1) + 1 = k + 1 /\ k \in Nat
      BY <1>1, <1>4
    <3>2. B[k] \in Seq(Char)
          /\ FlattenSeq(SubSeq(B, k, Len(B))) = B[k] \o FlattenSeq(SubSeq(B, k + 1, Len(B)))
      <4> HIDE DEF k
      <4>1. QED BY <1>4, <3>1, FlatCutOne
    <3>3. f[i] = Len(FlattenSeq(SubSeq(B, k, m))) /\ f[i - 1] = Len(FlattenSeq(SubSeq(B, k + 1, m)))
      BY <3>1
    <3>4. FlattenSeq(SubSeq(B, k + 1, m)) \in Seq(Char)
      BY <2>2, <3>1
    <3> DEFINE x == B[k]
               y == FlattenSeq(SubSeq(B, k + 1, m))
    <3>5. f[i] = Len(x \o y) /\ f[i - 1] = Len(y) /\ x \in Seq(Char) /\ y \in Seq(Char)
      BY <1>4, <3>2, <3>3, <3>4
    <3> HIDE DEF x, y, f
    <3>6. Len(x \o y) = Len(x) + Len(y) /\ Len(x) \in Nat /\ Len(y) \in Nat
      BY <3>5
    <3>7. QED BY <3>5, <3>6
  <2> DEFINE g(i) == Len(FlattenSeq(SubSeq(B, m - i + 1, m)))
  <2>8. f = [i \in 0..m |-> g(i)] /\ \A i \in 0..m : g(i) \in Nat
    BY <2>3
  <2> HIDE DEF g
  <2>9. [i \in 0..m |-> g(i)] \in [0..m -> Nat]
    BY <2>8
  <2>10. f \in [0..m -> Nat]
    BY <2>8, <2>9
  <2> HIDE DEF f
  <2>11. QED BY <2>6, <2>7, <2>10
<1>6. \A k \in a..(N + 1) : BufferedIn(q, k, N) = f[N + 1 - k]
  <2> TAKE k \in a..(N + 1)
  <2> DEFINE i == N + 1 - k
             u == [x \in 1..(N - k + 1) |-> Buffered(q[k + x - 1].si)]
             v == SubSeq(B, m - i + 1, m)
  <2>1. i \in 0..m /\ i \in Nat /\ N - k + 1 = i /\ m - i \in 0..m /\ m - i + 1 = k - a + 1 /\ k \in Nat
    BY <1>1 DEF m
  <2>2. f[i] = Len(FlattenSeq(v))
    BY <2>1
  <2>3. v \in Seq(Seq(Char)) /\ Len(v) = i /\ \A x \in 1..i : v[x] = B[m - i + x]
    <3> DEFINE j == m - i
    <3>1. j \in 0..Len(B) /\ Len(B) - j = i /\ v = SubSeq(B, j + 1, Len(B))
      BY <1>1, <1>4, <2>1
    <3> HIDE DEF j, v, i
    <3>2. v \in Seq(Seq(Char)) /\ Len(v) = Len(B) - j /\ \A x \in 1..(Len(B) - j) : v[x] = B[j + x]
      BY <1>4, <3>1, Cut
    <3>3. QED BY <3>1, <3>2 DEF j
  <2>4. ASSUME NEW x \in 1..i PROVE v[x] = Buffered(q[k + x - 1].si)
    <3>1. m - i + x \in 1..m /\ a + (m - i + x) - 1 = k + x - 1
      BY <1>1, <2>1
    <3>2. v[x] = e(m - i + x)
      BY <1>4, <2>3, <3>1
    <3>3. e(m - i + x) = Buffered(q[a + (m - i + x) - 1].si)
      BY DEF e
    <3>4. QED BY <3>1, <3>2, <3>3
  <2>5. u = [x \in 1..i |-> Buffered(q[k + x - 1].si)]
    BY <2>1
  <2>6. u = v
    <3> DEFINE h(x) == Buffered(q[k + x - 1].si)
               w == [x \in 1..i |-> h(x)]
    <3>1. u = w /\ \A x \in 1..i : v[x] = h(x)
      BY <2>4, <2>5
    <3> HIDE DEF u, v, h, i
    <3>2. DOMAIN v = 1..i /\ v = [x \in DOMAIN v |-> v[x]]
      BY <2>1, <2>3
    <3>3. v = w
      BY <3>1, <3>2
    <3>4. QED BY <3>1, <3>3
  <2>7. BufferedIn(q, k, N) = Len(FlattenSeq(u))
    BY DEF BufferedIn
  <2> HIDE DEF u, v, f
  <2>8. QED BY <2>2, <2>6, <2>7
<1> HIDE DEF f
<1>7. \A i, j \in 0..m : i <= j => f[i] <= f[j]
  BY <1>1, <1>5, Rising
<1>8. \A k \in U : \A j \in a..N : k <= j => j \in U
  <2> SUFFICES ASSUME NEW k \in U, NEW j \in a..N, k <= j PROVE j \in U
    OBVIOUS
  <2>1. k \in a..N /\ BufferedIn(q, k, N) < n
    OBVIOUS
  <2>2. /\ N + 1 - k \in 0..m /\ N + 1 - j \in 0..m /\ N + 1 - j <= N + 1 - k
        /\ k \in a..(N + 1) /\ j \in a..(N + 1)
    BY <1>1, <2>1 DEF m
  <2>3. f[N + 1 - j] <= f[N + 1 - k] /\ f[N + 1 - j] \in Nat /\ f[N + 1 - k] \in Nat
    BY <1>5, <1>7, <2>2
  <2>4. BufferedIn(q, j, N) <= BufferedIn(q, k, N) /\ BufferedIn(q, j, N) \in Nat
        /\ BufferedIn(q, k, N) \in Nat
    BY <1>6, <2>2, <2>3
  <2>5. BufferedIn(q, j, N) < n
    BY <2>1, <2>4
  <2>6. QED BY <2>5
<1>9. U \in SUBSET (a..N)
  OBVIOUS
<1>10. c \in 0..(N - a + 1) /\ \A j \in a..N : j \in U <=> j > N - c
  <2> HIDE DEF U
  <2>1. QED BY <1>1, <1>8, <1>9, UpSet
<1>11. Kept(q, n) = N - c
  BY DEF Kept, a, N
<1> DEFINE k == N - c
<1> HIDE DEF c
<1>12. k \in 0..N /\ k \in Nat /\ k + 1 \in a..(N + 1)
  BY <1>1, <1>10
<1>13. BufferedIn(q, k + 1, N) \in Nat /\ BufferedIn(q, k + 1, N) <= n
  <2>1. CASE k + 1 \in a..N
    <3>1. k + 1 \in U
      <4> HIDE DEF U
      <4>1. k + 1 > N - c
        BY <1>12
      <4>2. QED BY <1>10, <2>1, <4>1
    <3>2. BufferedIn(q, k + 1, N) < n
      BY <3>1
    <3>3. N + 1 - (k + 1) \in 0..m
      BY <1>1, <1>12 DEF m
    <3>4. BufferedIn(q, k + 1, N) \in Nat
      BY <1>5, <1>6, <1>12, <3>3
    <3>5. QED BY <3>2, <3>4
  <2>2. CASE k + 1 = N + 1
    <3>1. N + 1 - (N + 1) = 0
      BY <1>1
    <3>2. BufferedIn(q, k + 1, N) = 0
      BY <1>5, <1>6, <1>12, <2>2, <3>1
    <3>3. QED BY <3>2
  <2>3. QED BY <1>1, <1>12, <2>1, <2>2
<1> HIDE DEF U
<1>14. n - BufferedIn(q, k + 1, N) \in Nat
  BY <1>13
<1>15. QED BY <1>11, <1>12, <1>14 DEF k, N

-----------------------------------------------------------------------------
(* The operations keep buffers buffers. *)

\* One buffer of a queue replaced.
LEMMA OneBuf ==
  ASSUME NEW q \in Seq(AnyBuf), NEW k \in 1..Len(q), NEW b \in AnyBuf
  PROVE  /\ [q EXCEPT ![k] = b] \in Seq(AnyBuf) /\ Len([q EXCEPT ![k] = b]) = Len(q)
         /\ [q EXCEPT ![k] = b][k] = b
         /\ \A i \in 1..Len(q) : i # k => [q EXCEPT ![k] = b][i] = q[i]
OBVIOUS

\* The stream of one buffer of a queue replaced.
LEMMA OneStream ==
  ASSUME NEW q \in Seq(AnyBuf), NEW k \in 1..Len(q), is_stream(q[k]), NEW s \in AnyStream
  PROVE  /\ [q EXCEPT ![k].si = s] \in Seq(AnyBuf) /\ Len([q EXCEPT ![k].si = s]) = Len(q)
         /\ [q EXCEPT ![k].si = s][k].si = s /\ is_stream([q EXCEPT ![k].si = s][k])
         /\ \A i \in 1..Len(q) : i # k => [q EXCEPT ![k].si = s][i] = q[i]
<1> DEFINE b == [q[k] EXCEPT !.si = s]
<1>1. q[k] \in AnyBuf
  OBVIOUS
<1>2. b \in AnyBuf /\ is_stream(b) /\ b.si = s
  BY <1>1, BufStream
<1>3. [q EXCEPT ![k].si = s] = [q EXCEPT ![k] = b]
  OBVIOUS
<1> HIDE DEF b
<1>4. QED BY <1>2, <1>3, OneBuf

\* Reading ahead in all streams at the front (input_get_data).
LEMMA GetDataQueue ==
  ASSUME NEW q \in Seq(AnyBuf), NEW n \in Nat
  PROVE  input_get_data(q, n) \in Seq(AnyBuf)
<1> DEFINE left(k) == n - Len(Content(SubSeq(q, 1, k - 1)))
           e(k) == IF k <= Lead(q) /\ left(k) > 0
                   THEN [q[k] EXCEPT !.si = data_get_data(@, left(k))] ELSE q[k]
<1>1. Len(q) \in Nat /\ DOMAIN q = 1..Len(q) /\ Lead(q) \in 0..Len(q)
  BY LeadFacts
<1>2. ASSUME NEW k \in 1..Len(q) PROVE e(k) \in AnyBuf
  <2>1. q[k] \in AnyBuf
    OBVIOUS
  <2>2. CASE k <= Lead(q) /\ left(k) > 0
    <3>1. k \in 1..Lead(q) /\ k - 1 \in 0..Lead(q)
      BY <1>1, <2>2
    <3>2. Content(SubSeq(q, 1, k - 1)) \in Seq(Char)
      BY <3>1, LeadContent
    <3>3. left(k) \in Int
      BY <3>2
    <3>4. is_stream(q[k]) /\ q[k].si \in AnyStream
      BY <2>1, <3>1, LeadFacts, BufKinds
    <3> HIDE DEF left
    <3>5. data_get_data(q[k].si, left(k)) \in AnyStream
      BY <3>3, <3>4, GetDataType
    <3> DEFINE s == data_get_data(q[k].si, left(k))
    <3>6. e(k) = [q[k] EXCEPT !.si = s]
      BY <2>2
    <3> HIDE DEF s, e
    <3>7. QED BY <2>1, <3>4, <3>5, <3>6, BufStream DEF s
  <2>3. QED BY <2>1, <2>2
<1>3. input_get_data(q, n) = [k \in DOMAIN q |-> e(k)]
  BY DEF input_get_data
<1> HIDE DEF e
<1>4. QED BY <1>1, <1>2, <1>3

\* Taking text from the streams at the front (input_consume_data).
LEMMA ConsumeQueue ==
  ASSUME NEW q \in Seq(AnyBuf), NEW st \in Seq(AnyBuf), NEW n \in Nat
  PROVE  /\ input_consume_data(q, st, n).queue \in Seq(AnyBuf)
         /\ input_consume_data(q, st, n).stash \in Seq(AnyBuf)
<1> DEFINE d == Passed(q, n)
           s(k) == data_consume_data(q[k].si, Len(Buffered(q[k].si)) + 1).st
           done == [k \in 1..d |-> [q[k] EXCEPT !.si =
                                      data_consume_data(@, Len(Buffered(@)) + 1).st]]
           kept == SubSeq(q, d + 1, Len(q))
           x == data_consume_data(kept[1].si, n - BufferedIn(q, 1, d)).st
<1>1. d \in 0..Lead(q) /\ d \in Nat /\ n - BufferedIn(q, 1, d) \in Nat /\ Lead(q) \in 0..Len(q)
      /\ Len(q) \in Nat
  BY PassedFacts, LeadFacts
<1> HIDE DEF d
<1>2. done \in Seq(AnyBuf)
  <2>1. ASSUME NEW k \in 1..d PROVE [q[k] EXCEPT !.si = s(k)] \in AnyBuf
    <3>1. k \in 1..Lead(q) /\ k \in 1..Len(q)
      BY <1>1
    <3>2. q[k] \in AnyBuf /\ is_stream(q[k]) /\ q[k].si \in AnyStream
      BY <3>1, LeadFacts, BufKinds
    <3>3. Buffered(q[k].si) \in Seq(Char)
      BY <3>2, StreamParts
    <3> DEFINE m == Len(Buffered(q[k].si)) + 1
    <3>4. m \in Nat
      BY <3>3
    <3>5. s(k) \in AnyStream
      <4> HIDE DEF m
      <4>1. data_consume_data(q[k].si, m).st \in AnyStream
        BY <3>2, <3>4, ConsumeType
      <4>2. QED BY <4>1 DEF m
    <3> HIDE DEF s
    <3>6. QED BY <3>2, <3>5, BufStream
  <2>2. done = [k \in 1..d |-> [q[k] EXCEPT !.si = s(k)]]
    OBVIOUS
  <2> HIDE DEF s
  <2> DEFINE e(k) == [q[k] EXCEPT !.si = s(k)]
  <2>3. done = [k \in 1..d |-> e(k)] /\ \A k \in 1..d : e(k) \in AnyBuf
    BY <2>1, <2>2
  <2> HIDE DEF e, done
  <2>4. QED BY <1>1, <2>3
<1>3. kept \in Seq(AnyBuf) /\ Len(kept) = Len(q) - d /\ \A i \in 1..(Len(q) - d) : kept[i] = q[d + i]
  <2>1. d \in 0..Len(q)
    BY <1>1
  <2>2. QED BY <2>1, Cut
<1> HIDE DEF kept
<1>4. d # Lead(q) => [kept EXCEPT ![1].si = x] \in Seq(AnyBuf)
  <2> SUFFICES ASSUME d # Lead(q) PROVE [kept EXCEPT ![1].si = x] \in Seq(AnyBuf)
    OBVIOUS
  <2>1. d + 1 \in 1..Lead(q) /\ 1 \in 1..Len(kept) /\ 1 \in 1..(Len(q) - d)
    BY <1>1, <1>3
  <2>2. kept[1] = q[d + 1] /\ kept[1] \in AnyBuf /\ is_stream(kept[1]) /\ kept[1].si \in AnyStream
    BY <1>3, <2>1, LeadFacts, BufKinds
  <2>3. x \in AnyStream
    BY <1>1, <2>2, ConsumeType
  <2> HIDE DEF x
  <2>4. QED BY <1>3, <2>1, <2>2, <2>3, OneStream
<1>5. Reverse(done) \in Seq(AnyBuf)
  <2> HIDE DEF done
  <2>1. QED BY <1>2, Reversed
<1>6. /\ input_consume_data(q, st, n).queue =
           IF d = Lead(q) THEN kept ELSE [kept EXCEPT ![1].si = x]
      /\ input_consume_data(q, st, n).stash = Reverse(done) \o st
  BY DEF input_consume_data, d, kept
<1> HIDE DEF done, x
<1>7. QED BY <1>3, <1>4, <1>5, <1>6

\* The buffer that takes text back (GiveBack).
LEMMA GiveBackType ==
  ASSUME NEW b \in AnyBuf, NEW w \in Seq(Char)
  PROVE  GiveBack(b, w) \in AnyBuf
<1>1. CASE is_tree(b)
  BY <1>1 DEF GiveBack
<1>2. CASE ~is_tree(b)
  <2>1. is_stream(b) /\ b.si \in AnyStream
    BY <1>2, BufKinds
  <2> DEFINE s == data_undo_consume_data(b.si, w).st
  <2>2. s \in AnyStream
    BY <2>1, UndoConsumeType
  <2>3. GiveBack(b, w) = [b EXCEPT !.si = s]
    BY <1>2 DEF GiveBack
  <2> HIDE DEF s
  <2>4. QED BY <2>1, <2>2, <2>3, BufStream
<1>3. QED BY <1>1, <1>2

\* A buffer takes no more than is to be given back.
LEMMA GivesType ==
  ASSUME NEW b \in AnyBuf, NEW n \in Nat
  PROVE  n - Gives(b, n) \in 0..n
<1>1. CASE is_tree(b) \/ ~Valid(b)
  BY <1>1 DEF Gives
<1>2. CASE ~(is_tree(b) \/ ~Valid(b))
  <2>1. is_stream(b) /\ b.si \in AnyStream /\ b.si.consumed >= 0
    BY <1>2, BufKinds DEF Valid
  <2>2. b.si.consumed \in Int
    BY <2>1, StreamParts
  <2>3. Gives(b, n) = Upto(n, b.si.consumed)
    BY <1>2 DEF Gives, Amount
  <2>4. QED BY <2>1, <2>2, <2>3 DEF Upto
<1>3. QED BY <1>1, <1>2

\* Giving text back through the stash (input_undo_consume_data).
LEMMA UndoConsumeQueue ==
  ASSUME NEW q \in Seq(AnyBuf), NEW st \in Seq(AnyBuf), NEW w \in Seq(Char)
  PROVE  /\ input_undo_consume_data(q, st, w).queue \in Seq(AnyBuf)
         /\ input_undo_consume_data(q, st, w).stash \in Seq(AnyBuf)
<1>0. CASE q = <<>>
  BY <1>0 DEF input_undo_consume_data
<1>e. SUFFICES ASSUME q # <<>>
               PROVE  /\ input_undo_consume_data(q, st, w).queue \in Seq(AnyBuf)
                      /\ input_undo_consume_data(q, st, w).stash \in Seq(AnyBuf)
  BY <1>0
<1> DEFINE all == SubSeq(q, 1, 1) \o st
           N == Len(all)
           A == 0..Len(w)
           F(f) == [j \in 0..N |-> IF j = 0 THEN Len(w) ELSE f[j - 1] - Gives(all[j], f[j - 1])]
           left == CHOOSE f : f = F(f)
           step == [j \in 1..N |-> [x \in A |-> x - Gives(all[j], x)]]
           ends == {j \in DOMAIN all : left[j] = 0}
           n == Min(ends)
<1>1. all \in Seq(AnyBuf) /\ N \in Nat /\ DOMAIN all = 1..N /\ Len(w) \in A
  <2>1. 1 \in 0..Len(q)
    BY <1>e
  <2>2. SubSeq(q, 1, 1) \in Seq(AnyBuf)
    BY <2>1, Cut
  <2>3. all \in Seq(AnyBuf)
    BY <2>2
  <2> HIDE DEF all
  <2>4. QED BY <2>3
<1> HIDE DEF all
<1>2. step \in [1..N -> [A -> A]]
  <2>1. ASSUME NEW j \in 1..N, NEW x \in A PROVE x - Gives(all[j], x) \in A
    <3>1. all[j] \in AnyBuf /\ x \in Nat /\ x <= Len(w) /\ Len(w) \in Nat
      BY <1>1
    <3>2. x - Gives(all[j], x) \in 0..x
      BY <3>1, GivesType
    <3>3. QED BY <3>1, <3>2
  <2>2. QED BY <2>1
<1>3. PICK g : Iteration(g, A, Len(w), N, step)
  <2> HIDE DEF step, A, N
  <2>1. QED BY <1>1, <1>2, Iterates
<1>4. g \in [0..N -> A] /\ g[0] = Len(w) /\ \A j \in 1..N : g[j] = g[j - 1] - Gives(all[j], g[j - 1])
  <2>1. g \in [0..N -> A] /\ g[0] = Len(w) /\ \A j \in 1..N : g[j] = step[j][g[j - 1]]
    BY <1>3 DEF Iteration
  <2>2. \A j \in 1..N : g[j - 1] \in A
    <3>1. \A j \in 1..N : j - 1 \in 0..N
      BY <1>1
    <3> HIDE DEF A, N
    <3>2. QED BY <2>1, <3>1
  <2>3. \A j \in 1..N : step[j][g[j - 1]] = g[j - 1] - Gives(all[j], g[j - 1])
    BY <2>2
  <2>4. QED BY <2>1, <2>3
<1>5. g = F(g)
  <2>1. \A j \in 0..N : j # 0 => j \in 1..N
    BY <1>1
  <2> HIDE DEF A
  <2>2. QED BY <1>4, <2>1
<1>6. left = F(left)
  BY <1>5
<1>7. \A j \in 0..N : left[j] \in A
  <2> DEFINE S == {j \in Nat : j <= N => left[j] \in A}
  <2> HIDE DEF left
  <2>1. 0 \in S
    BY <1>1, <1>6
  <2>2. ASSUME NEW j \in Nat, j \in S PROVE j + 1 \in S
    <3> SUFFICES ASSUME j + 1 <= N PROVE left[j + 1] \in A
      OBVIOUS
    <3>1. j + 1 \in 0..N /\ j + 1 # 0 /\ j + 1 \in 1..N /\ (j + 1) - 1 = j /\ left[j] \in A
      BY <1>1, <2>2
    <3>2. left[j + 1] = left[j] - Gives(all[j + 1], left[j])
      BY <1>6, <3>1
    <3>3. all[j + 1] \in AnyBuf /\ left[j] \in Nat /\ left[j] <= Len(w) /\ Len(w) \in Nat
      BY <1>1, <3>1
    <3>4. left[j] - Gives(all[j + 1], left[j]) \in 0..left[j]
      BY <3>3, GivesType
    <3>5. QED BY <3>2, <3>3, <3>4
  <2>3. Nat \subseteq S
    <3> HIDE DEF S
    <3>1. QED BY <2>1, <2>2, NatSetInduction
  <2>4. QED BY <1>1, <2>3
<1> HIDE DEF left
<1> DEFINE bad == q = <<>> \/ ends = {} \/ \E j \in 1..n : ~Valid(all[j])
           u == [j \in 1..n |-> GiveBack(all[j], SubSeq(w, 1, left[j - 1]))]
<1>8. /\ input_undo_consume_data(q, st, w).queue = IF bad THEN q ELSE Reverse(u) \o Tail(q)
      /\ input_undo_consume_data(q, st, w).stash = IF bad THEN st ELSE SubSeq(st, n, Len(st))
  BY DEF input_undo_consume_data, left, all
<1>9. CASE bad
  BY <1>8, <1>9
<1>10. CASE ~bad
  <2>1. q # <<>> /\ ends # {}
    BY <1>10
  <2>2. ends \in SUBSET (1..N) /\ ends \in SUBSET Nat
    BY <1>1
  <2>3. n \in 1..N /\ n \in Nat
    <3> HIDE DEF ends, N
    <3>1. n \in ends
      BY <2>1, <2>2, MinPlace
    <3>2. QED BY <2>2, <3>1
  <2> HIDE DEF n
  <2>4. ASSUME NEW j \in 1..n PROVE GiveBack(all[j], SubSeq(w, 1, left[j - 1])) \in AnyBuf
    <3>1. j \in 1..N /\ j - 1 \in 0..N
      BY <1>1, <2>3
    <3>2. all[j] \in AnyBuf /\ left[j - 1] \in A
      BY <1>1, <1>7, <3>1
    <3>3. SubSeq(w, 1, left[j - 1]) \in Seq(Char)
      BY <3>2
    <3>4. QED BY <3>2, <3>3, GiveBackType
  <2> DEFINE e(j) == GiveBack(all[j], SubSeq(w, 1, left[j - 1]))
  <2>5. u = [j \in 1..n |-> e(j)] /\ \A j \in 1..n : e(j) \in AnyBuf
    BY <2>4
  <2> HIDE DEF e, u
  <2>6. u \in Seq(AnyBuf)
    BY <2>3, <2>5
  <2>7. Reverse(u) \in Seq(AnyBuf) /\ Tail(q) \in Seq(AnyBuf)
    BY <2>1, <2>6, Reversed
  <2>8. SubSeq(st, n, Len(st)) \in Seq(AnyBuf)
    BY <2>3
  <2> HIDE DEF bad
  <2>9. QED BY <1>8, <1>10, <2>7, <2>8
<1>11. QED BY <1>9, <1>10

\* Taking the tree at the front, and giving it back (input_consume_tree,
\* input_undo_consume_tree).
LEMMA TreeQueue ==
  ASSUME NEW q \in Seq(AnyBuf), NEW st \in Seq(AnyBuf)
  PROVE  /\ Lead(q) < Len(q) => /\ input_consume_tree(q, st).queue \in Seq(AnyBuf)
                                /\ input_consume_tree(q, st).stash \in Seq(AnyBuf)
         /\ input_undo_consume_tree(q, st).queue \in Seq(AnyBuf)
         /\ input_undo_consume_tree(q, st).stash \in Seq(AnyBuf)
<1>1. ASSUME Lead(q) < Len(q)
      PROVE  /\ input_consume_tree(q, st).queue \in Seq(AnyBuf)
             /\ input_consume_tree(q, st).stash \in Seq(AnyBuf)
  <2> DEFINE n == Lead(q) + 1
  <2>1. n \in 0..Len(q)
    BY <1>1, LeadFacts
  <2> HIDE DEF n
  <2>2. SubSeq(q, 1, n) \in Seq(AnyBuf) /\ SubSeq(q, n + 1, Len(q)) \in Seq(AnyBuf)
    BY <2>1, Cut
  <2>3. Reverse(SubSeq(q, 1, n)) \in Seq(AnyBuf)
    BY <2>2, Reversed
  <2>4. Reverse(SubSeq(q, 1, n)) \o st \in Seq(AnyBuf)
    BY <2>3
  <2>5. QED BY <2>2, <2>4 DEF input_consume_tree, n
<1>2. /\ input_undo_consume_tree(q, st).queue \in Seq(AnyBuf)
      /\ input_undo_consume_tree(q, st).stash \in Seq(AnyBuf)
  <2> DEFINE n == StashedTree(st)
             trees == {i \in DOMAIN st : is_tree(st[i])}
  <2>1. n \in 0..Len(st)
    <3>1. Len(st) \in Nat /\ DOMAIN st = 1..Len(st)
      OBVIOUS
    <3>2. trees \in SUBSET (1..Len(st)) /\ trees \in SUBSET Nat
      BY <3>1
    <3>3. n = IF trees = {} THEN 0 ELSE Min(trees)
      BY DEF StashedTree
    <3> HIDE DEF trees, n
    <3>4. trees # {} => Min(trees) \in trees
      BY <3>2, MinPlace
    <3>5. QED BY <3>1, <3>2, <3>3, <3>4
  <2> HIDE DEF n
  <2>2. SubSeq(st, 1, n) \in Seq(AnyBuf) /\ SubSeq(st, n + 1, Len(st)) \in Seq(AnyBuf)
    BY <2>1, Cut
  <2>3. Reverse(SubSeq(st, 1, n)) \in Seq(AnyBuf)
    BY <2>2, Reversed
  <2>4. Reverse(SubSeq(st, 1, n)) \o q \in Seq(AnyBuf)
    BY <2>3
  <2>5. QED BY <2>2, <2>4 DEF input_undo_consume_tree, n
<1>3. QED BY <1>1, <1>2

\* A buffer pushed in front (maybe_split, Prepend).
LEMMA PrependQueue ==
  ASSUME NEW q \in Seq(AnyBuf), NEW st \in Seq(AnyBuf), NEW b \in AnyBuf
  PROVE  /\ Prepend(q, st, b).queue \in Seq(AnyBuf)
         /\ Prepend(q, st, b).stash \in Seq(AnyBuf)
<1>1. maybe_split(q, st).queue \in Seq(AnyBuf) /\ maybe_split(q, st).stash \in Seq(AnyBuf)
  <2>1. CASE q # <<>> /\ is_stream(q[1]) /\ q[1].si.consumed > 0
    <3>1. 1 \in 1..Len(q) /\ q[1] \in AnyBuf
      BY <2>1
    <3>2. q[1].si \in AnyStream /\ q[1].si.consumed \in Int
      BY <2>1, <3>1, BufKinds, StreamParts
    <3> DEFINE s == data_split_consumed(q[1].si)
               t == colm_impl_consumed(q[1].si.consumed)
               n == q[1].si.consumed
    <3>3. s \in AnyStream
      BY <3>2, SplitType
    <3>4. t \in AnyStream
      <4> HIDE DEF n
      <4>1. colm_impl_consumed(n) \in AnyStream
        <5>1. n \in Int
          BY <3>2 DEF n
        <5>2. StartLoc \in Loc /\ <<>> \in Seq(Char)
          BY DEF StartLoc, Loc
        <5>3. QED BY <5>1, <5>2, NewStreamType
      <4>2. QED BY <4>1 DEF n
    <3>5. /\ maybe_split(q, st).queue = [q EXCEPT ![1].si = s]
          /\ maybe_split(q, st).stash = <<AccumBuf(t)>> \o st
      BY <2>1 DEF maybe_split
    <3> HIDE DEF s, t
    <3>6. AccumBuf(t) \in AnyBuf
      BY <3>4 DEF AccumBuf, AnyBuf
    <3>7. <<AccumBuf(t)>> \o st \in Seq(AnyBuf)
      BY <3>6
    <3>8. [q EXCEPT ![1].si = s] \in Seq(AnyBuf)
      BY <2>1, <3>1, <3>3, OneStream
    <3>9. QED BY <3>5, <3>7, <3>8
  <2>2. CASE ~(q # <<>> /\ is_stream(q[1]) /\ q[1].si.consumed > 0)
    <3>1. maybe_split(q, st) = [queue |-> q, stash |-> st]
      BY <2>2 DEF maybe_split
    <3>2. QED BY <3>1
  <2>3. QED BY <2>1, <2>2
<1> DEFINE p == maybe_split(q, st).queue
<1>2. Prepend(q, st, b).queue = <<b>> \o p /\ Prepend(q, st, b).stash = maybe_split(q, st).stash
  BY DEF Prepend
<1>3. <<b>> \o p \in Seq(AnyBuf)
  <2>1. p \in Seq(AnyBuf)
    BY <1>1
  <2> HIDE DEF p
  <2>2. QED BY <2>1
<1> HIDE DEF p
<1>4. QED BY <1>1, <1>2, <1>3

\* What stays as it is when a queue grows at its end: the streams in front, what is
\* buffered of them, and what they have still to read.
Grown(q, r) ==
  /\ r \in Seq(AnyBuf) /\ Lead(q) <= Lead(r)
  /\ \A k \in 0..Lead(q) : IsPrefix(BufText(q, k), BufText(r, k))
  /\ \A k \in 1..Lead(q) : q[k].si.src = r[k].si.src

\* A buffer appended to a queue (input_append_tree, input_append_stream).
LEMMA AppendBuf ==
  ASSUME NEW q \in Seq(AnyBuf), NEW b \in AnyBuf
  PROVE  Grown(q, Append(q, b))
<1> DEFINE r == Append(q, b)
           L == Lead(q)
<1>1. /\ r \in Seq(AnyBuf) /\ Len(r) = Len(q) + 1 /\ Len(q) \in Nat
      /\ \A i \in 1..Len(q) : r[i] = q[i]
  OBVIOUS
<1> HIDE DEF r
<1>2. L \in 0..Len(q) /\ L \in Nat /\ \A i \in 1..L : is_stream(q[i])
  BY LeadFacts
<1> HIDE DEF L
<1>3. L \in 0..Len(r) /\ \A i \in 1..L : r[i] = q[i] /\ is_stream(r[i])
  BY <1>1, <1>2
<1>4. L <= Lead(r)
  BY <1>1, <1>3, LeadLeast
<1>5. ASSUME NEW k \in 0..L PROVE IsPrefix(BufText(q, k), BufText(r, k))
  <2>1. [i \in 1..k |-> Buffered(r[i].si)] = [i \in 1..k |-> Buffered(q[i].si)]
    BY <1>2, <1>3
  <2>2. BufText(r, k) = BufText(q, k)
    <3> DEFINE x == [i \in 1..k |-> Buffered(r[i].si)]
               y == [i \in 1..k |-> Buffered(q[i].si)]
    <3>1. BufText(r, k) = FlattenSeq(x) /\ BufText(q, k) = FlattenSeq(y) /\ x = y
      BY <2>1 DEF BufText
    <3> HIDE DEF x, y
    <3>2. QED BY <3>1
  <2>3. BufText(q, k) \in Seq(Char)
    BY <1>2, BufTextFacts
  <2>4. QED BY <2>2, <2>3, PrefixRest
<1>6. QED BY <1>1, <1>3, <1>4, <1>5 DEF Grown, r, L

\* A queue that grew twice.
LEMMA GrownTwice ==
  ASSUME NEW q \in Seq(AnyBuf), NEW p, NEW r, Grown(q, p), Grown(p, r)
  PROVE  Grown(q, r)
<1>1. /\ p \in Seq(AnyBuf) /\ r \in Seq(AnyBuf)
      /\ Lead(q) \in 0..Len(q) /\ Lead(p) \in 0..Len(p) /\ Lead(r) \in 0..Len(r)
      /\ Lead(q) <= Lead(p) /\ Lead(p) <= Lead(r) /\ Len(q) \in Nat /\ Len(p) \in Nat /\ Len(r) \in Nat
  BY LeadFacts DEF Grown
<1>2. ASSUME NEW k \in 0..Lead(q) PROVE IsPrefix(BufText(q, k), BufText(r, k))
  <2>1. k \in 0..Lead(p) /\ k \in 0..Lead(r)
    BY <1>1
  <2>2. BufText(q, k) \in Seq(Char) /\ BufText(p, k) \in Seq(Char) /\ BufText(r, k) \in Seq(Char)
    BY <1>1, <2>1, LeadFacts, BufTextFacts
  <2>3. IsPrefix(BufText(q, k), BufText(p, k)) /\ IsPrefix(BufText(p, k), BufText(r, k))
    BY <2>1 DEF Grown
  <2>4. QED BY <2>2, <2>3, PrefixTrans
<1>3. ASSUME NEW k \in 1..Lead(q) PROVE q[k].si.src = r[k].si.src
  <2>1. k \in 1..Lead(p)
    BY <1>1
  <2>2. q[k].si.src = p[k].si.src /\ p[k].si.src = r[k].si.src
    BY <2>1 DEF Grown
  <2>3. QED BY <2>2
<1>4. Lead(q) <= Lead(r)
  BY <1>1
<1>5. QED BY <1>1, <1>2, <1>3, <1>4 DEF Grown

\* A queue whose last stream grew at its end.
LEMMA LastGrows ==
  ASSUME NEW q \in Seq(AnyBuf), Len(q) > 0, is_stream(q[Len(q)]), NEW s \in AnyStream,
         NEW w \in Seq(Char), Buffered(s) = Buffered(q[Len(q)].si) \o w, s.src = q[Len(q)].si.src
  PROVE  Grown(q, [q EXCEPT ![Len(q)].si = s])
<1> DEFINE n == Len(q)
           r == [q EXCEPT ![n].si = s]
           L == Lead(q)
<1>1. n \in 1..Len(q) /\ n \in Nat /\ q[n] \in AnyBuf
  OBVIOUS
<1>2. /\ r \in Seq(AnyBuf) /\ Len(r) = n /\ r[n].si = s /\ is_stream(r[n])
      /\ \A i \in 1..n : i # n => r[i] = q[i]
  <2> HIDE DEF n
  <2>1. q \in Seq(AnyBuf) /\ n \in 1..Len(q) /\ s \in AnyStream /\ is_stream(q[n]) /\ n = Len(q)
    BY <1>1 DEF n
  <2>2. /\ r \in Seq(AnyBuf) /\ Len(r) = Len(q) /\ r[n].si = s /\ is_stream(r[n])
        /\ \A i \in 1..Len(q) : i # n => r[i] = q[i]
    BY ONLY <2>1, OneStream, SMTT(60)
  <2>3. QED BY <2>1, <2>2
<1> HIDE DEF r
<1>3. L \in 0..n /\ L \in Nat /\ \A i \in 1..L : is_stream(q[i])
  BY LeadFacts
<1> HIDE DEF L, n
<1>4. L \in 0..Len(r) /\ \A i \in 1..L : is_stream(r[i])
  BY <1>1, <1>2, <1>3
<1>5. L <= Lead(r)
  BY <1>2, <1>4, LeadLeast
<1>6. ASSUME NEW k \in 0..L, k < n PROVE BufText(r, k) = BufText(q, k)
  <2>1. [i \in 1..k |-> Buffered(r[i].si)] = [i \in 1..k |-> Buffered(q[i].si)]
    BY <1>1, <1>2, <1>3, <1>6
  <2> DEFINE x == [i \in 1..k |-> Buffered(r[i].si)]
             y == [i \in 1..k |-> Buffered(q[i].si)]
  <2>2. BufText(r, k) = FlattenSeq(x) /\ BufText(q, k) = FlattenSeq(y) /\ x = y
    BY <2>1 DEF BufText
  <2> HIDE DEF x, y
  <2>3. QED BY <2>2
<1>7. /\ \A k \in 0..L : BufText(q, k) \in Seq(Char) /\ BufText(r, k) \in Seq(Char)
      /\ \A k \in 1..L : /\ BufText(q, k) = BufText(q, k - 1) \o Buffered(q[k].si)
                         /\ BufText(r, k) = BufText(r, k - 1) \o Buffered(r[k].si)
                         /\ Buffered(q[k].si) \in Seq(Char)
  BY <1>2, <1>3, <1>4, BufTextFacts DEF n
<1>8. ASSUME NEW k \in 0..L PROVE IsPrefix(BufText(q, k), BufText(r, k))
  <2>1. CASE k < n
    BY <1>6, <1>7, <2>1, PrefixRest
  <2>2. CASE ~(k < n)
    <3>1. k = n /\ k \in 1..L /\ k - 1 \in 0..L /\ k - 1 < n
      BY <1>1, <1>3, <2>2
    <3> DEFINE a == BufText(q, k - 1)
               b == Buffered(q[n].si)
    <3>2. /\ a \in Seq(Char) /\ b \in Seq(Char)
          /\ BufText(q, k) = a \o b /\ BufText(r, k) = a \o (b \o w)
      BY <1>2, <1>6, <1>7, <3>1 DEF n
    <3> HIDE DEF a, b
    <3>3. a \o b \in Seq(Char) /\ a \o (b \o w) = (a \o b) \o w
      <4>1. a \o b \in Seq(Char)
        BY <3>2, Joined
      <4>2. a \in Seq(Char) /\ b \in Seq(Char) /\ w \in Seq(Char)
        BY <3>2
      <4>4. (a \o b) \o w = a \o (b \o w)
        BY ONLY <4>2, Assoc, SMTT(60)
      <4>3. QED BY <4>1, <4>4
    <3>4. IsPrefix(a \o b, (a \o b) \o w)
      BY <3>3, PrefixMore
    <3>5. QED BY <3>2, <3>3, <3>4
  <2>3. QED BY <2>1, <2>2
<1>9. ASSUME NEW k \in 1..L PROVE q[k].si.src = r[k].si.src
  <2>1. CASE k = n
    BY <1>2, <2>1 DEF n
  <2>2. CASE k # n
    <3>1. k \in 1..n
      BY <1>1, <1>3
    <3>2. r[k] = q[k]
      BY <1>2, <2>2, <3>1
    <3>3. QED BY <3>2
  <2>3. QED BY <2>1, <2>2
<1>10. QED BY <1>2, <1>5, <1>8, <1>9 DEF Grown, r, L, n

\* A text appended to a queue (input_append_data).
LEMMA AppendText ==
  ASSUME NEW q \in Seq(AnyBuf), NEW w \in Seq(Char)
  PROVE  Grown(q, input_append_data(q, w))
<1> DEFINE p == IF q = <<>> \/ Last(q).type # "accum"
                THEN Append(q, AccumBuf(colm_impl_new_accum)) ELSE q
           n == Len(p)
           s == data_append_data(p[n].si, w)
<1>1. colm_impl_new_accum \in AnyStream
  <2>1. StartLoc \in Loc /\ <<>> \in Seq(Char) /\ 0 \in Int
    BY DEF StartLoc, Loc
  <2>2. QED BY <2>1, NewStreamType
<1>2. AccumBuf(colm_impl_new_accum) \in AnyBuf /\ is_stream(AccumBuf(colm_impl_new_accum))
  BY <1>1 DEF AccumBuf, AnyBuf, is_stream
<1>3. Grown(q, q)
  <2>1. Lead(q) \in Nat /\ Lead(q) \in 0..Len(q) /\ \A i \in 1..Lead(q) : is_stream(q[i])
    BY LeadFacts
  <2>2. \A k \in 0..Lead(q) : BufText(q, k) \in Seq(Char)
    BY <2>1, BufTextFacts
  <2>3. \A k \in 0..Lead(q) : IsPrefix(BufText(q, k), BufText(q, k))
    BY <2>2, PrefixRest
  <2>4. QED BY <2>1, <2>3 DEF Grown
<1>4. Grown(q, p) /\ p \in Seq(AnyBuf) /\ Len(p) > 0 /\ is_stream(p[Len(p)])
  <2>1. CASE q = <<>> \/ Last(q).type # "accum"
    <3> DEFINE b == AccumBuf(colm_impl_new_accum)
    <3>1. p = Append(q, b) /\ b \in AnyBuf /\ is_stream(b)
      BY <1>2, <2>1
    <3> HIDE DEF b, p
    <3>2. Grown(q, p) /\ p \in Seq(AnyBuf)
      BY <3>1, AppendBuf DEF Grown
    <3>3. Len(p) = Len(q) + 1 /\ p[Len(p)] = b /\ Len(q) \in Nat
      BY <3>1
    <3>4. QED BY <3>1, <3>2, <3>3
  <2>2. CASE ~(q = <<>> \/ Last(q).type # "accum")
    <3>1. p = q /\ q # <<>> /\ q[Len(q)].type = "accum"
      BY <2>2 DEF Last
    <3>2. Len(q) > 0
      BY <3>1
    <3> HIDE DEF p
    <3>3. is_stream(q[Len(q)])
      BY <3>1 DEF is_stream
    <3>4. QED BY <1>3, <3>1, <3>2, <3>3
  <2>3. QED BY <2>1, <2>2
<1> HIDE DEF p
<1>5. p[n] \in AnyBuf
  BY <1>4
<1>6. p[n].si \in AnyStream
  BY <1>4, <1>5, BufKinds
<1>7. s \in AnyStream /\ Buffered(s) = Buffered(p[n].si) \o w /\ s.src = p[n].si.src
  BY <1>6, AppendType
<1>8. input_append_data(q, w) = [p EXCEPT ![n].si = s]
  BY DEF input_append_data, p
<1> HIDE DEF s
<1>9. Grown(p, [p EXCEPT ![n].si = s])
  BY <1>4, <1>7, LastGrows
<1> DEFINE r == [p EXCEPT ![n].si = s]
<1>10. Grown(q, p) /\ Grown(p, r) /\ input_append_data(q, w) = r
  BY <1>4, <1>8, <1>9
<1> HIDE DEF r
<1>11. QED BY <1>10, GrownTwice

\* A text taken off the end (input_undo_append_data).
LEMMA UndoAppendQueue ==
  ASSUME NEW q \in Seq(AnyBuf), NEW n \in Nat
  PROVE  /\ input_undo_append_data(q, n) \in Seq(AnyBuf)
         /\ SubSeq(q, Kept(q, n) + 1, Len(q)) \in Seq(AnyBuf)
<1> DEFINE k == Kept(q, n)
           kept == SubSeq(q, 1, k)
           cut == n - BufferedIn(q, k + 1, Len(q))
           s == data_undo_append_data(kept[k].si, cut).st
<1>1. k \in 0..Len(q) /\ k \in Nat /\ cut \in Nat
  BY KeptFacts
<1> HIDE DEF k
<1>2. /\ kept \in Seq(AnyBuf) /\ Len(kept) = k /\ (\A i \in 1..k : kept[i] = q[i])
      /\ SubSeq(q, k + 1, Len(q)) \in Seq(AnyBuf)
  BY <1>1, Cut
<1>3. Trail(q) \in 1..(Len(q) + 1) /\ Len(q) \in Nat
      /\ \A i \in Trail(q)..Len(q) : q[i] \in AnyBuf /\ is_stream(q[i])
  BY TrailFacts
<1> HIDE DEF kept, cut
<1>4. input_undo_append_data(q, n) = IF k < Trail(q) THEN kept ELSE [kept EXCEPT ![k].si = s]
  BY DEF input_undo_append_data, k, kept, cut
<1>5. ~(k < Trail(q)) => [kept EXCEPT ![k].si = s] \in Seq(AnyBuf)
  <2> SUFFICES ASSUME ~(k < Trail(q)) PROVE [kept EXCEPT ![k].si = s] \in Seq(AnyBuf)
    OBVIOUS
  <2>1. k \in 1..k /\ k \in Trail(q)..Len(q) /\ k \in 1..Len(kept)
    BY <1>1, <1>2, <1>3
  <2>2. kept[k] = q[k] /\ q[k] \in AnyBuf /\ is_stream(q[k])
    BY <1>2, <1>3, <2>1
  <2>3. kept[k].si \in AnyStream /\ is_stream(kept[k])
    BY <2>2, BufKinds
  <2>4. s \in AnyStream
    BY <1>1, <2>3, UndoAppendType
  <2> HIDE DEF s
  <2>5. QED BY <1>2, <2>1, <2>3, <2>4, OneStream
<1>6. QED BY <1>2, <1>4, <1>5 DEF k

\* Streams that go back to the program (Release).
LEMMA ReleaseType ==
  ASSUME files \in [File -> AnyStream], NEW bufs \in Seq(AnyBuf)
  PROVE  Release(bufs) \in [File -> AnyStream]
<1> DEFINE own(f) == {i \in DOMAIN bufs : bufs[i].type = "source" /\ bufs[i].file = f}
           e(f) == IF own(f) = {} THEN files[f] ELSE bufs[Max(own(f))].si
<1>1. Release(bufs) = [f \in File |-> e(f)]
  BY DEF Release
<1>2. ASSUME NEW f \in File PROVE e(f) \in AnyStream
  <2>1. CASE own(f) = {}
    BY <2>1
  <2>2. CASE own(f) # {}
    <3>1. Len(bufs) \in Nat /\ own(f) \in SUBSET (1..Len(bufs))
      OBVIOUS
    <3> DEFINE T == own(f)
               m == Max(T)
    <3>2. m \in T
      <4>1. T # {} /\ T \in SUBSET (1..Len(bufs))
        BY <2>2, <3>1
      <4> HIDE DEF T, own
      <4>2. QED BY <3>1, <4>1, MaxPlace
    <3> HIDE DEF m
    <3>3. m \in 1..Len(bufs) /\ bufs[m].type = "source"
      BY <3>2
    <3>4. bufs[m] \in AnyBuf
      BY <3>3
    <3>5. bufs[m].si \in AnyStream
      BY <3>3, <3>4, BufKinds
    <3>6. e(f) = bufs[m].si
      BY <2>2 DEF m
    <3>7. QED BY <3>5, <3>6
  <2>3. QED BY <2>1, <2>2
<1> HIDE DEF e
<1>3. QED BY <1>1, <1>2

-----------------------------------------------------------------------------
(* Reading. *)

\* Where the scanner reads on (BlockAt): in the first stream that has more, or
\* nowhere.
LEMMA BlockAtFacts ==
  ASSUME NEW q \in Seq(AnyBuf), NEW skip \in Nat
  PROVE  /\ BlockAt(q, skip) \in 0..Lead(q)
         /\ BlockAt(q, skip) # 0 =>
              /\ HasBlock(q[BlockAt(q, skip)].si, skip - BufferedIn(q, 1, BlockAt(q, skip) - 1))
              /\ \A j \in 1..(BlockAt(q, skip) - 1) :
                   ~HasBlock(q[j].si, skip - BufferedIn(q, 1, j - 1))
<1> DEFINE L == Lead(q)
           P(k) == HasBlock(q[k].si, skip - BufferedIn(q, 1, k - 1))
           has == {k \in 1..L : P(k)}
           m == Min(has)
<1>1. L \in Nat
  BY LeadFacts
<1>2. BlockAt(q, skip) = IF has = {} THEN 0 ELSE m
  BY DEF BlockAt
<1> HIDE DEF P, L
<1>3. has # {} => m \in has /\ \A k \in has : m <= k
  <2>1. has \in SUBSET Nat
    BY <1>1
  <2> HIDE DEF has
  <2>2. QED BY <2>1, MinPlace
<1> HIDE DEF m
<1>4. CASE has = {}
  <2> HIDE DEF has
  <2>1. QED BY <1>1, <1>2, <1>4 DEF L
<1>5. CASE has # {}
  <2>1. m \in 1..L /\ P(m) /\ \A k \in has : m <= k
    BY <1>3, <1>5
  <2>2. \A j \in 1..(m - 1) : j \in 1..L /\ ~(m <= j)
    BY <1>1, <2>1
  <2>3. \A j \in 1..(m - 1) : ~P(j)
    BY <2>1, <2>2
  <2>4. BlockAt(q, skip) = m
    BY <1>2, <1>5
  <2> HIDE DEF has
  <2>5. m \in 0..L /\ m # 0
    BY <1>1, <2>1
  <2>6. QED BY <2>1, <2>3, <2>4, <2>5 DEF P, L
<1>6. QED BY <1>4, <1>5

\* The position at the front is a position.
LEMMA PlaceType ==
  ASSUME NEW q \in Seq(AnyBuf)
  PROVE  Place(q) \in Loc
<1> DEFINE k == BlockAt(q, 0)
<1>1. k \in 0..Lead(q)
  BY BlockAtFacts
<1>2. Place(q) = IF k = 0 THEN StartLoc ELSE q[k].si.pos
  BY DEF Place
<1> HIDE DEF k
<1>3. CASE k = 0
  <2>1. StartLoc \in Loc
    BY DEF StartLoc, Loc
  <2>2. QED BY <1>2, <1>3, <2>1
<1>4. CASE k # 0
  <2>1. k \in 1..Lead(q)
    BY <1>1, <1>4, LeadFacts
  <2>2. q[k].si \in AnyStream
    BY <2>1, LeadFacts, BufKinds
  <2>3. QED BY <1>2, <1>4, <2>2, StreamParts
<1>5. QED BY <1>3, <1>4

\* The scanner has read the text w, which ends in the k-th stream; the streams before
\* that one have no more to read.
Reached(q, w, k) ==
  /\ k \in 0..Lead(q)
  /\ \A j \in 1..(k - 1) : q[j].si.src = <<>>
  /\ IsPrefix(w, BufText(q, k))

\* A piece is read behind what the scanner has read (input_get_parse_block).
LEMMA ScanReads ==
  ASSUME NEW q \in Seq(AnyBuf), NEW w \in Seq(Char), NEW K, Reached(q, w, K),
         BlockAt(q, Len(w)) # 0
  PROVE  /\ input_get_parse_block(q, Len(w)).queue \in Seq(AnyBuf)
         /\ input_get_parse_block(q, Len(w)).piece \in Seq(Char)
         /\ Reached(input_get_parse_block(q, Len(w)).queue,
                    w \o input_get_parse_block(q, Len(w)).piece, BlockAt(q, Len(w)))
<1> DEFINE skip == Len(w)
           k == BlockAt(q, skip)
           s == q[k].si
           P == BufText(q, k - 1)
           got == data_get_parse_block(s, skip - BufferedIn(q, 1, k - 1))
           r == [q EXCEPT ![k].si = got.st]
<1>1. skip \in Nat
  OBVIOUS
<1>2. /\ k \in 0..Lead(q) /\ k # 0
      /\ HasBlock(s, skip - BufferedIn(q, 1, k - 1))
      /\ \A j \in 1..(k - 1) : ~HasBlock(q[j].si, skip - BufferedIn(q, 1, j - 1))
  BY <1>1, BlockAtFacts
<1>3. /\ input_get_parse_block(q, skip).queue = r
      /\ input_get_parse_block(q, skip).piece = got.piece
  BY DEF input_get_parse_block
<1> HIDE DEF k
<1> DEFINE L == Lead(q)
<1>4. L \in Nat /\ L \in 0..Len(q) /\ \A i \in 1..L : q[i] \in AnyBuf /\ is_stream(q[i])
  BY LeadFacts
<1> HIDE DEF L
<1>5. /\ BufText(q, 0) = <<>>
      /\ \A j \in 0..L : BufText(q, j) \in Seq(Char) /\ BufferedIn(q, 1, j) = Len(BufText(q, j))
      /\ \A j \in 1..L : /\ q[j].si \in AnyStream /\ Buffered(q[j].si) \in Seq(Char)
                         /\ BufText(q, j) = BufText(q, j - 1) \o Buffered(q[j].si)
  BY <1>4, BufTextFacts
<1>6. \A i, j \in 0..L : i <= j => IsPrefix(BufText(q, i), BufText(q, j))
                                   /\ Len(BufText(q, i)) <= Len(BufText(q, j))
  BY <1>4, BufTextPrefix
<1>7. k \in 1..L /\ k - 1 \in 0..L /\ k \in 0..L /\ k \in Nat /\ k \in 1..Len(q)
  BY <1>2, <1>4 DEF L
<1>8. K \in 0..L /\ (\A j \in 1..(K - 1) : q[j].si.src = <<>>) /\ IsPrefix(w, BufText(q, K))
  BY DEF Reached, L
<1>9. /\ \A j \in 1..(k - 1) : q[j].si.src = <<>>
      /\ \A j \in 1..(k - 1) : Len(BufText(q, j)) <= skip
  <2> SUFFICES ASSUME NEW j \in 1..(k - 1)
               PROVE  q[j].si.src = <<>> /\ Len(BufText(q, j)) <= skip
    OBVIOUS
  <2>1. j \in 1..L /\ j \in 0..L /\ j - 1 \in 0..L
    BY <1>4, <1>7
  <2>2. q[j].si.src = <<>> /\ ~(skip - BufferedIn(q, 1, j - 1) < Len(Buffered(q[j].si)))
    BY <1>2 DEF HasBlock
  <2> DEFINE a == BufText(q, j - 1)
             b == Buffered(q[j].si)
  <2>3. a \in Seq(Char) /\ b \in Seq(Char) /\ BufText(q, j) = a \o b /\ ~(skip - Len(a) < Len(b))
    BY <1>5, <2>1, <2>2
  <2> HIDE DEF a, b
  <2>4. Len(a \o b) = Len(a) + Len(b) /\ Len(a) \in Nat /\ Len(b) \in Nat
    BY <2>3
  <2>5. Len(a \o b) <= skip
    BY <1>1, <2>3, <2>4
  <2>6. QED BY <2>2, <2>3, <2>5
<1>10. P \in Seq(Char) /\ Len(P) <= skip /\ BufferedIn(q, 1, k - 1) = Len(P)
  <2>1. P \in Seq(Char) /\ BufferedIn(q, 1, k - 1) = Len(P)
    BY <1>5, <1>7
  <2>2. CASE k = 1
    <3>1. P = <<>>
      BY <1>5, <2>2
    <3> HIDE DEF P
    <3>2. QED BY <1>1, <2>1, <3>1
  <2>3. CASE k # 1
    <3>1. k - 1 \in 1..(k - 1)
      BY <1>7, <2>3
    <3>2. Len(BufText(q, k - 1)) <= skip
      BY <1>9, <3>1
    <3>3. QED BY <2>1, <3>2
  <2>4. QED BY <2>2, <2>3
<1>11. s \in AnyStream /\ Buffered(s) \in Seq(Char) /\ BufText(q, k) = P \o Buffered(s)
       /\ BufText(q, k) \in Seq(Char)
  BY <1>5, <1>7
<1> DEFINE n == skip - Len(P)
<1>12. n \in Nat /\ got = data_get_parse_block(s, n) /\ HasBlock(s, n)
  BY <1>1, <1>2, <1>10, SMTT(60)
<1> HIDE DEF got, P
<1>13. CASE n < Len(Buffered(s))
  <2>1. IsPrefix(w, BufText(q, k))
    <3>1. CASE K <= k
      <4>1. IsPrefix(BufText(q, K), BufText(q, k)) /\ BufText(q, K) \in Seq(Char)
        BY <1>5, <1>6, <1>7, <1>8, <3>1
      <4>2. QED BY <1>8, <1>11, <4>1, PrefixTrans
    <3>2. CASE ~(K <= k)
      <4>1. k <= K
        BY <1>7, <1>8, <3>2, <1>4
      <4>2. IsPrefix(BufText(q, k), BufText(q, K)) /\ BufText(q, K) \in Seq(Char)
        BY <1>5, <1>6, <1>7, <1>8, <4>1
      <4>3. Len(w) <= Len(BufText(q, k))
        <5> DEFINE b == Buffered(s)
        <5>1. b \in Seq(Char) /\ BufText(q, k) = P \o b /\ n < Len(b)
          BY <1>11, <1>13
        <5> HIDE DEF b
        <5>2. Len(P \o b) = Len(P) + Len(b) /\ Len(P) \in Nat /\ Len(b) \in Nat
          BY <1>10, <5>1
        <5>3. QED BY <1>1, <5>1, <5>2
      <4> DEFINE x == BufText(q, k)
                 y == BufText(q, K)
      <4>4. x \in Seq(Char) /\ y \in Seq(Char) /\ IsPrefix(w, y) /\ IsPrefix(x, y) /\ Len(w) <= Len(x)
        BY <1>8, <1>11, <4>2, <4>3
      <4> HIDE DEF x, y
      <4>5. IsPrefix(w, x)
        BY <4>4, PrefixFacts
      <4>6. QED BY <4>5 DEF x
    <3>3. QED BY <3>1, <3>2
  <2>2. PICK a, b, c \in Seq(Char) :
           /\ Buffered(s) = a \o (b \o c)
           /\ Len(a) <= n /\ n < Len(a) + Len(b)
           /\ data_get_parse_block(s, n) = [st |-> s, piece |-> SubSeq(b, n - Len(a) + 1, Len(b))]
    <3> HIDE DEF s, n
    <3>1. QED BY <1>11, <1>12, <1>13, PieceOf
  <2>3. got.st = s /\ got.piece = SubSeq(b, n - Len(a) + 1, Len(b))
    BY <1>12, <2>2, SMTT(60)
  <2>4. r \in Seq(AnyBuf) /\ r = q
    <3>1. q[k] \in AnyBuf /\ [q[k] EXCEPT !.si = s] = q[k]
      <4>1. q[k] \in AnyBuf /\ is_stream(q[k])
        BY <1>4, <1>7
      <4>2. CASE q[k] \in [type : {"accum"}, si : AnyStream]
        BY <4>1, <4>2
      <4>3. CASE q[k] \in [type : {"source"}, si : AnyStream, file : File]
        BY <4>1, <4>3
      <4>4. q[k] \notin [type : {"token", "ignore"}, tree : Tree]
        BY <4>1 DEF is_stream
      <4>5. QED BY <4>1, <4>2, <4>3, <4>4 DEF AnyBuf
    <3>2. r = [q EXCEPT ![k] = [q[k] EXCEPT !.si = s]]
      BY <2>3
    <3>3. [q EXCEPT ![k] = q[k]] = q
      BY <1>7
    <3>4. QED BY <3>1, <3>2, <3>3
  <2> DEFINE pa == P \o a
             e == SubSeq(b, Len(w) - Len(pa) + 1, Len(b))
             t == BufText(q, k)
  <2>5. pa \in Seq(Char) /\ Len(pa) = Len(P) + Len(a)
    BY <1>10, <2>2, Joined
  <2>6. b \o c \in Seq(Char)
    BY <2>2, Joined
  <2>7. t = pa \o (b \o c)
    <3> DEFINE d == b \o c
    <3>1. d \in Seq(Char) /\ t = P \o (a \o d) /\ P \in Seq(Char) /\ a \in Seq(Char)
      BY <1>10, <1>11, <2>2, <2>6
    <3> HIDE DEF d, t, pa, e
    <3>4. P \in Seq(Char) /\ a \in Seq(Char) /\ d \in Seq(Char)
      BY <3>1
    <3>2. (P \o a) \o d = P \o (a \o d)
      BY ONLY <3>4, Assoc, SMTT(60)
    <3>3. QED BY <3>1, <3>2 DEF d, pa
  <2>8. Len(P) \in Nat /\ Len(a) \in Nat /\ Len(b) \in Nat /\ Len(w) \in Nat
    BY <1>10, <2>2
  <2>9. Len(pa) <= Len(w) /\ Len(w) <= Len(pa) + Len(b) /\ n - Len(a) + 1 = Len(w) - Len(pa) + 1
    <3> HIDE DEF pa
    <3>1. QED BY <2>2, <2>5, <2>8
  <2>10. IsPrefix(w, pa \o (b \o c))
    BY <2>1, <2>7
  <2> HIDE DEF pa, t
  <2>11. e \in Seq(Char) /\ w \o e = pa \o b
    <3>1. /\ w \in Seq(Char) /\ pa \in Seq(Char) /\ b \in Seq(Char) /\ c \in Seq(Char)
          /\ IsPrefix(w, pa \o (b \o c)) /\ Len(pa) <= Len(w) /\ Len(w) <= Len(pa) + Len(b)
      BY <2>2, <2>5, <2>9, <2>10
    <3>2. QED BY ONLY <3>1, PrefixInto, SMTT(60)
  <2>12. got.piece = e
    BY <2>3, <2>9
  <2> HIDE DEF e
  <2>13. IsPrefix(w \o e, t)
    <3>1. pa \o b \in Seq(Char)
      BY <2>2, <2>5, Joined
    <3>5. pa \in Seq(Char) /\ b \in Seq(Char) /\ c \in Seq(Char)
      BY <2>2, <2>5
    <3>2. (pa \o b) \o c = pa \o (b \o c)
      BY ONLY <3>5, Assoc, SMTT(60)
    <3>3. IsPrefix(pa \o b, (pa \o b) \o c)
      BY <2>2, <3>1, PrefixMore
    <3>4. QED BY <2>7, <2>11, <3>2, <3>3
  <2>14. Reached(q, w \o e, k)
    BY <1>2, <1>9, <2>13 DEF Reached, t
  <2>15. QED BY <1>3, <2>4, <2>11, <2>12, <2>14 DEF k
<1>14. CASE ~(n < Len(Buffered(s)))
  <2>1. s.src # <<>>
    BY <1>12, <1>14 DEF HasBlock
  <2>2. K <= k
    <3> SUFFICES ASSUME ~(K <= k) PROVE FALSE
      OBVIOUS
    <3>1. k \in 1..(K - 1)
      BY <1>4, <1>7, <1>8
    <3>2. QED BY <1>8, <2>1, <3>1
  <2> DEFINE x == BufText(q, K)
             y == BufText(q, k)
             b == Buffered(s)
  <2>3. x \in Seq(Char) /\ y \in Seq(Char) /\ IsPrefix(x, y) /\ IsPrefix(w, x) /\ b \in Seq(Char)
        /\ y = P \o b /\ ~(n < Len(b))
    BY <1>5, <1>6, <1>7, <1>8, <1>11, <1>14, <2>2
  <2> HIDE DEF x, y, b
  <2>4. IsPrefix(w, y)
    BY <2>3, PrefixTrans
  <2>5. Len(y) <= Len(w)
    <3>1. Len(P \o b) = Len(P) + Len(b) /\ Len(P) \in Nat /\ Len(b) \in Nat
      BY <1>10, <2>3
    <3>2. QED BY <1>1, <2>3, <3>1
  <2>6. w = y
    <3>1. w \in Seq(Char) /\ y \in Seq(Char) /\ IsPrefix(w, y) /\ Len(y) <= Len(w)
      BY <2>3, <2>4, <2>5
    <3>2. QED BY ONLY <3>1, PrefixFacts
  <2> DEFINE st == Load(s, 1)
             e == Last(st.runs).data
  <2>7. got.st = st /\ got.piece = e
    BY <1>12, <1>14 DEF data_get_parse_block
  <2>8. st \in AnyStream /\ e \in Seq(Char) /\ Buffered(st) = b \o e
    BY <1>11, LoadOne DEF b
  <2> HIDE DEF st, e
  <2>9. r = [q EXCEPT ![k].si = st]
    BY <2>7
  <2>10. is_stream(q[k])
    BY <1>4, <1>7
  <2>11. /\ r \in Seq(AnyBuf) /\ Len(r) = Len(q) /\ r[k].si = st /\ is_stream(r[k])
         /\ \A i \in 1..Len(q) : i # k => r[i] = q[i]
    <3> DEFINE rr == [q EXCEPT ![k].si = st]
    <3>1. /\ rr \in Seq(AnyBuf) /\ Len(rr) = Len(q) /\ rr[k].si = st /\ is_stream(rr[k])
          /\ \A i \in 1..Len(q) : i # k => rr[i] = q[i]
      <4> HIDE DEF s
      <4>1. q \in Seq(AnyBuf) /\ k \in 1..Len(q) /\ st \in AnyStream /\ is_stream(q[k])
        BY <1>7, <2>8, <2>10
      <4>2. QED BY ONLY <4>1, OneStream
    <3>2. r = rr
      BY <2>9
    <3> HIDE DEF r, rr
    <3>3. QED BY <3>1, <3>2
  <2> HIDE DEF r
  <2>12. \A i \in 1..(k - 1) : i \in 1..L /\ i \in 1..Len(q) /\ i # k
    BY <1>4, <1>7
  <2>13. k \in 0..Len(r) /\ \A i \in 1..k : is_stream(r[i])
    <3>1. \A i \in 1..(k - 1) : is_stream(r[i])
      BY <1>4, <2>11, <2>12
    <3>2. \A i \in 1..k : i = k \/ i \in 1..(k - 1)
      BY <1>7
    <3>3. QED BY <1>7, <2>11, <3>1, <3>2
  <2>14. k \in 0..Lead(r)
    <3>1. k <= Lead(r)
      BY <2>11, <2>13, LeadLeast
    <3>2. Lead(r) \in Nat
      BY <2>11, LeadFacts
    <3>3. QED BY <1>7, <3>1, <3>2
  <2>15. \A j \in 1..(k - 1) : r[j].si.src = <<>>
    BY <1>9, <2>11, <2>12
  <2>16. BufText(r, k - 1) = P
    <3> DEFINE u == [i \in 1..(k - 1) |-> Buffered(r[i].si)]
               v == [i \in 1..(k - 1) |-> Buffered(q[i].si)]
    <3>1. u = v
      BY <2>11, <2>12
    <3>2. BufText(r, k - 1) = FlattenSeq(u) /\ P = FlattenSeq(v)
      BY DEF BufText, P
    <3> HIDE DEF u, v
    <3>3. QED BY <3>1, <3>2
  <2>17. BufText(r, k) = P \o (b \o e) /\ BufText(r, k) \in Seq(Char)
    <3>1. k \in 1..k /\ k \in 0..k
      BY <1>7
    <3>2. BufText(r, k) = BufText(r, k - 1) \o Buffered(r[k].si) /\ BufText(r, k) \in Seq(Char)
      BY <2>11, <2>13, <3>1, BufTextFacts
    <3>3. QED BY <2>8, <2>11, <2>16, <3>2
  <2>18. w \o e = BufText(r, k)
    <3>1. P \in Seq(Char) /\ b \in Seq(Char) /\ e \in Seq(Char)
      BY <1>10, <2>3, <2>8
    <3>2. (P \o b) \o e = P \o (b \o e)
      BY ONLY <3>1, Assoc, SMTT(60)
    <3>3. QED BY <2>3, <2>6, <2>17, <3>2
  <2>19. IsPrefix(w \o e, BufText(r, k))
    <3> DEFINE z == BufText(r, k)
    <3>1. z \in Seq(Char) /\ w \o e = z
      BY <2>17, <2>18
    <3> HIDE DEF z
    <3>2. IsPrefix(z, z)
      BY <3>1, PrefixRest
    <3>3. QED BY <3>1, <3>2 DEF z
  <2>20. Reached(r, w \o e, k)
    BY <2>14, <2>15, <2>19 DEF Reached
  <2>21. QED BY <1>3, <2>7, <2>8, <2>11, <2>20 DEF k
<1>15. QED BY <1>13, <1>14

-----------------------------------------------------------------------------
(* The invariant. *)

\* A call as it was recorded.
AnyEntry ==
  {h \in [op : {"take", "pull", "tree", "push", "pushtree", "pushstream",
                "text", "sendtree", "stream"},
          what : Seq(Char \cup Tree \cup File), items : Seq(Char \cup Tree), place : Loc] :
     h.op \in {"take", "pull", "text"} => h.what \in Seq(Char)}

\* What is in the variables.
State ==
  /\ program \in Programs
  /\ queue \in Seq(AnyBuf) /\ stash \in Seq(AnyBuf)
  /\ files \in [File -> AnyStream]
  /\ seen \in Seq(Char)
  /\ hist \in Seq(AnyEntry)

\* What the scanner has read of a token is buffered at the front of the queue, in
\* streams of which all but the last have no more to read.
SeenIn(q, w) == \E k \in 0..Lead(q) : Reached(q, w, k)

\* The same of the queue and of what the scanner has read.
SeenBuffered == SeenIn(queue, seen)

\* The inductive invariant.
IInv == State /\ SeenBuffered

\* What the scanner has read is at the front of the text (ReadsInOrder).
LEMMA BufferedInOrder == IInv => ReadsInOrder
<1> SUFFICES ASSUME IInv PROVE ReadsInOrder
  OBVIOUS
<1>1. queue \in Seq(AnyBuf) /\ seen \in Seq(Char)
  BY DEF IInv, State
<1>2. PICK k \in 0..Lead(queue) : Reached(queue, seen, k)
  BY DEF IInv, SeenBuffered, SeenIn
<1>3. IsPrefix(seen, BufText(queue, k)) /\ IsPrefix(BufText(queue, k), LeadText(queue))
  <2>1. \A j \in 1..(k - 1) : queue[j].si.src = <<>>
    BY <1>2 DEF Reached
  <2>2. QED BY <1>1, <1>2, <2>1, LeadTextPrefix DEF Reached
<1>4. BufText(queue, k) \in Seq(Char)
  <2>1. Lead(queue) \in 0..Len(queue) /\ \A i \in 1..Lead(queue) : is_stream(queue[i])
    BY <1>1, LeadFacts
  <2>2. QED BY <1>1, <1>2, <2>1, BufTextFacts
<1>5. LeadText(queue) \in Seq(Char)
  <2> DEFINE k1 == Lead(queue)
  <2>1. k1 \in 0..Lead(queue)
    BY <1>1, LeadFacts
  <2> HIDE DEF k1
  <2>2. Content(SubSeq(queue, 1, k1)) \in Seq(Char)
    BY <1>1, <2>1, LeadContent
  <2>3. QED BY <2>2 DEF LeadText, k1
<1> DEFINE x == BufText(queue, k)
           y == LeadText(queue)
<1> HIDE DEF x, y
<1>6. x \in Seq(Char) /\ y \in Seq(Char) /\ IsPrefix(seen, x) /\ IsPrefix(x, y)
  BY <1>3, <1>4, <1>5 DEF x, y
<1>7. IsPrefix(seen, y)
  BY ONLY <1>1, <1>6, PrefixTrans
<1>8. QED BY <1>7 DEF ReadsInOrder, y

\* Nothing read is buffered anywhere.
LEMMA NothingSeen ==
  ASSUME NEW q \in Seq(AnyBuf)
  PROVE  SeenIn(q, <<>>)
<1>1. Lead(q) \in 0..Len(q) /\ 0 \in 0..Lead(q)
  BY LeadFacts
<1>2. BufText(q, 0) = <<>>
  <2>1. \A i \in 1..Lead(q) : is_stream(q[i])
    BY LeadFacts
  <2>2. QED BY <1>1, <2>1, BufTextFacts
<1>3. IsPrefix(<<>>, <<>>)
  <2>1. <<>> \in Seq(Char)
    OBVIOUS
  <2>2. QED BY <2>1, PrefixMore
<1>4. Reached(q, <<>>, 0)
  BY <1>1, <1>2, <1>3 DEF Reached
<1>5. QED BY <1>1, <1>4 DEF SeenIn

\* What has been read stays read when the queue grows at its end.
LEMMA SeenGrows ==
  ASSUME NEW q \in Seq(AnyBuf), NEW r, Grown(q, r), NEW w \in Seq(Char), SeenIn(q, w)
  PROVE  SeenIn(r, w)
<1>0. PICK k \in 0..Lead(q) : Reached(q, w, k)
  BY DEF SeenIn
<1>1. r \in Seq(AnyBuf) /\ Lead(q) \in Nat /\ Lead(r) \in Nat /\ Lead(q) <= Lead(r)
  BY LeadFacts DEF Grown
<1>2. k \in 0..Lead(r)
  BY <1>1
<1>3. \A j \in 1..(k - 1) : r[j].si.src = <<>>
  <2>1. \A j \in 1..(k - 1) : j \in 1..Lead(q)
    BY <1>1
  <2>2. QED BY <1>0, <2>1 DEF Grown, Reached
<1> DEFINE x == BufText(q, k)
           y == BufText(r, k)
<1>4. x \in Seq(Char) /\ y \in Seq(Char)
  <2>1. Lead(q) \in 0..Len(q) /\ \A i \in 1..Lead(q) : is_stream(q[i])
    BY LeadFacts
  <2>2. Lead(r) \in 0..Len(r) /\ \A i \in 1..Lead(r) : is_stream(r[i])
    BY <1>1, LeadFacts
  <2>3. x \in Seq(Char)
    BY <2>1, BufTextFacts
  <2>4. y \in Seq(Char)
    BY <1>1, <1>2, <2>2, BufTextFacts
  <2>5. QED BY <2>3, <2>4
<1>5. IsPrefix(w, x) /\ IsPrefix(x, y)
  BY <1>0 DEF Grown, Reached
<1> HIDE DEF x, y
<1>6. IsPrefix(w, y)
  BY ONLY <1>4, <1>5, w \in Seq(Char), PrefixTrans
<1>7. QED BY <1>2, <1>3, <1>6 DEF Reached, SeenIn, y

\* A call that is recorded (Record).
LEMMA RecordType ==
  ASSUME queue \in Seq(AnyBuf), hist \in Seq(AnyEntry),
         NEW op \in {"take", "pull", "tree", "push", "pushtree", "pushstream",
                     "text", "sendtree", "stream"},
         NEW what \in Seq(Char \cup Tree \cup File),
         op \in {"take", "pull", "text"} => what \in Seq(Char),
         Record(op, what)
  PROVE  hist' \in Seq(AnyEntry)
<1> DEFINE x == Content(queue)
           y == Place(queue)
           h == [op |-> op, what |-> what, items |-> x, place |-> y]
<1>1. x \in Seq(Char \cup Tree) /\ y \in Loc
  BY ContentType, PlaceType
<1>2. hist' = Append(hist, h)
  BY DEF Record
<1> HIDE DEF x, y
<1>3. h \in AnyEntry
  BY <1>1 DEF AnyEntry
<1> HIDE DEF h
<1>4. QED BY <1>2, <1>3

\* The last call that was recorded.
LEMMA LastEntry ==
  ASSUME hist \in Seq(AnyEntry), hist # <<>>
  PROVE  /\ Last(hist) \in AnyEntry /\ Front(hist) \in Seq(AnyEntry)
         /\ Last(hist).what \in Seq(Char \cup Tree \cup File)
         /\ Last(hist).op \in {"take", "pull", "text"} => Last(hist).what \in Seq(Char)
         /\ Last(hist).place \in Loc
<1>1. Len(hist) \in Nat /\ Len(hist) > 0 /\ Len(hist) \in 1..Len(hist)
  BY EmptySeq
<1> DEFINE h == hist[Len(hist)]
<1>2. h \in AnyEntry
  BY <1>1
<1>3. Front(hist) \in Seq(AnyEntry)
  <2>1. SubSeq(hist, 1, Len(hist) - 1) \in Seq(AnyEntry)
    BY <1>1, LastOff
  <2>2. QED BY <2>1 DEF Front
<1>4. Last(hist) = h
  BY DEF Last
<1> HIDE DEF h
<1>5. QED BY <1>2, <1>3, <1>4 DEF AnyEntry

-----------------------------------------------------------------------------
(* Every step. *)

\* A queue of no buffers, streams as the program opened them.
LEMMA InitInv == Init => IInv
<1> SUFFICES ASSUME Init PROVE IInv
  OBVIOUS
<1>1. program \in Programs /\ queue = <<>> /\ stash = <<>> /\ seen = <<>> /\ hist = <<>>
  BY DEF Init
<1>2. files \in [File -> AnyStream]
  <2>1. ASSUME NEW f \in File PROVE colm_impl_new_file(program.files[f]) \in AnyStream
    <3> DEFINE w == program.files[f]
    <3>1. w \in Seq(Char)
      BY <1>1, InputAssumption
    <3>2. StartLoc \in Loc /\ 0 \in Int
      BY DEF StartLoc, Loc
    <3> HIDE DEF w
    <3>3. colm_impl_new_file(w) \in AnyStream
      BY <3>1, <3>2, NewStreamType
    <3>4. QED BY <3>3 DEF w
  <2> DEFINE e(f) == colm_impl_new_file(program.files[f])
  <2>2. files = [f \in File |-> e(f)] /\ \A f \in File : e(f) \in AnyStream
    BY <2>1 DEF Init
  <2> HIDE DEF e
  <2>3. QED BY <2>2
<1>3. State
  BY <1>1, <1>2 DEF State
<1>4. SeenIn(queue, seen)
  BY <1>1, <1>3, NothingSeen DEF State
<1>5. QED BY <1>3, <1>4 DEF IInv, SeenBuffered

\* What an action that leaves nothing read has to keep.
LEMMA FreshStep ==
  ASSUME IInv, seen' = <<>>, program' = program, queue' \in Seq(AnyBuf), stash' \in Seq(AnyBuf),
         files' \in [File -> AnyStream], hist' \in Seq(AnyEntry)
  PROVE  IInv'
<1>1. State'
  BY DEF IInv, State
<1>2. SeenIn(queue', seen')
  BY NothingSeen
<1>3. QED BY <1>1, <1>2 DEF IInv, SeenBuffered

\* The scanner reads on.
LEMMA ScanStep == IInv /\ Scan => IInv'
<1> SUFFICES ASSUME IInv, Scan PROVE IInv'
  OBVIOUS
<1>1. State /\ queue \in Seq(AnyBuf) /\ seen \in Seq(Char)
  BY DEF IInv, State
<1> DEFINE got == input_get_parse_block(queue, Len(seen))
<1>2. /\ BlockAt(queue, Len(seen)) # 0 /\ queue' = got.queue /\ seen' = seen \o got.piece
      /\ UNCHANGED <<program, stash, files, hist>>
  BY DEF Scan, tokpref
<1>3. PICK K : Reached(queue, seen, K)
  BY DEF IInv, SeenBuffered, SeenIn
<1> DEFINE k == BlockAt(queue, Len(seen))
<1>4. got.queue \in Seq(AnyBuf) /\ got.piece \in Seq(Char) /\ Reached(got.queue, seen \o got.piece, k)
  BY <1>1, <1>2, <1>3, ScanReads
<1> HIDE DEF got, k
<1>5. seen' \in Seq(Char)
  BY <1>1, <1>2, <1>4
<1>6. State'
  BY <1>1, <1>2, <1>4, <1>5 DEF State
<1>7. SeenIn(queue', seen')
  BY <1>2, <1>4 DEF SeenIn, Reached
<1>8. QED BY <1>6, <1>7 DEF IInv, SeenBuffered

\* Text that is taken.
LEMMA TextTaken ==
  ASSUME IInv, NEW op \in {"take", "pull"}, NEW n \in Nat, n <= Len(LeadText(queue)),
         TakeText(op, n)
  PROVE  IInv'
<1>1. State /\ queue \in Seq(AnyBuf) /\ stash \in Seq(AnyBuf) /\ hist \in Seq(AnyEntry)
      /\ files \in [File -> AnyStream]
  BY DEF IInv, State
<1> DEFINE q == input_get_data(queue, n)
           got == input_consume_data(q, stash, n)
           w == SubSeq(LeadText(queue), 1, n)
<1>2. /\ queue' = got.queue /\ stash' = got.stash /\ seen' = <<>> /\ Record(op, w)
      /\ program' = program /\ files' = files
  BY DEF TakeText
<1>3. q \in Seq(AnyBuf)
  BY <1>1, GetDataQueue
<1> HIDE DEF q
<1>4. got.queue \in Seq(AnyBuf) /\ got.stash \in Seq(AnyBuf)
  BY <1>1, <1>3, ConsumeQueue
<1> HIDE DEF got
<1>5. w \in Seq(Char)
  <2> DEFINE k == Lead(queue)
             t == LeadText(queue)
  <2>1. k \in 0..Lead(queue)
    BY <1>1, LeadFacts
  <2> HIDE DEF k
  <2>2. Content(SubSeq(queue, 1, k)) \in Seq(Char)
    BY <1>1, <2>1, LeadContent
  <2>3. t \in Seq(Char)
    BY <2>2 DEF LeadText, k
  <2> HIDE DEF t
  <2>4. n \in 0..Len(t)
    BY <2>3 DEF t
  <2>5. SubSeq(t, 1, n) \in Seq(Char)
    BY <2>3, <2>4, Cut
  <2>6. QED BY <2>5 DEF t
<1> HIDE DEF w
<1>6. w \in Seq(Char \cup Tree \cup File)
  BY <1>5
<1>7. hist' \in Seq(AnyEntry)
  BY <1>1, <1>2, <1>5, <1>6, RecordType
<1>8. QED BY <1>1, <1>2, <1>4, <1>7, FreshStep

\* A token is taken.
LEMMA TakeStep == IInv /\ Take => IInv'
<1> SUFFICES ASSUME IInv, Take PROVE IInv'
  OBVIOUS
<1>1. PICK n \in program.lens : n <= Len(seen) /\ TakeText("take", n)
  BY DEF Take, tokpref
<1>2. queue \in Seq(AnyBuf) /\ seen \in Seq(Char) /\ program \in Programs
  BY DEF IInv, State
<1>3. n \in Nat
  BY <1>2, InputAssumption DEF Program
<1>4. LeadText(queue) \in Seq(Char)
  <2> DEFINE k == Lead(queue)
  <2>1. k \in 0..Lead(queue)
    BY <1>2, LeadFacts
  <2> HIDE DEF k
  <2>2. Content(SubSeq(queue, 1, k)) \in Seq(Char)
    BY <1>2, <2>1, LeadContent
  <2>3. QED BY <2>2 DEF LeadText, k
<1>5. Len(seen) <= Len(LeadText(queue))
  <2> DEFINE t == LeadText(queue)
  <2>1. t \in Seq(Char) /\ IsPrefix(seen, t)
    BY <1>4, BufferedInOrder DEF ReadsInOrder
  <2> HIDE DEF t
  <2>2. Len(seen) <= Len(t)
    BY <1>2, <2>1, PrefixRest
  <2>3. QED BY <2>2 DEF t
<1>6. n <= Len(LeadText(queue))
  <2> DEFINE t == LeadText(queue)
             x == Len(t)
             y == Len(seen)
  <2>1. x \in Nat /\ y \in Nat /\ n <= y /\ y <= x
    BY <1>1, <1>2, <1>4, <1>5
  <2> HIDE DEF t, x, y
  <2>2. n <= x
    BY <1>3, <2>1
  <2>3. QED BY <2>2 DEF x, t
<1>7. QED BY <1>1, <1>3, <1>6, TextTaken

\* Text is pulled.
LEMMA PullStep == IInv /\ Pull => IInv'
<1> SUFFICES ASSUME IInv, Pull PROVE IInv'
  OBVIOUS
<1>1. PICK n \in program.lens : n <= Len(LeadText(queue)) /\ TakeText("pull", n)
  BY DEF Pull
<1>2. program \in Programs
  BY DEF IInv, State
<1>3. n \in Nat
  BY <1>2, InputAssumption DEF Program
<1>4. QED BY <1>1, <1>3, TextTaken

\* A tree is taken.
LEMMA TakeTreeStep == IInv /\ TakeTree => IInv'
<1> SUFFICES ASSUME IInv, TakeTree PROVE IInv'
  OBVIOUS
<1>1. State /\ queue \in Seq(AnyBuf) /\ stash \in Seq(AnyBuf) /\ hist \in Seq(AnyEntry)
      /\ files \in [File -> AnyStream]
  BY DEF IInv, State
<1> DEFINE got == input_consume_tree(queue, stash)
           t == queue[Lead(queue) + 1].tree
<1>2. /\ Lead(queue) < Len(queue) /\ queue' = got.queue /\ stash' = got.stash
      /\ Record("tree", <<t>>) /\ seen = <<>>
      /\ UNCHANGED <<program, files, seen>>
  BY DEF TakeTree
<1>3. got.queue \in Seq(AnyBuf) /\ got.stash \in Seq(AnyBuf)
  BY <1>1, <1>2, TreeQueue
<1> HIDE DEF got
<1>4. t \in Tree
  <2>1. Lead(queue) + 1 \in 1..Len(queue) /\ is_tree(queue[Lead(queue) + 1])
    BY <1>1, <1>2, LeadFacts
  <2>2. queue[Lead(queue) + 1] \in AnyBuf
    BY <1>1, <2>1
  <2>3. QED BY <2>1, <2>2, BufKinds
<1> HIDE DEF t
<1>5. <<t>> \in Seq(Char \cup Tree \cup File)
  BY <1>4
<1>6. hist' \in Seq(AnyEntry)
  BY <1>1, <1>2, <1>5, RecordType
<1>7. QED BY <1>1, <1>2, <1>3, <1>6, FreshStep

\* A buffer is pushed by an action that finds nothing read.
LEMMA BufPushed ==
  ASSUME IInv, seen = <<>>, NEW b \in AnyBuf, NEW op \in {"push", "pushtree", "pushstream"},
         NEW what \in Seq(Char \cup Tree \cup File), PushBuf(op, what, b)
  PROVE  IInv'
<1>1. State /\ queue \in Seq(AnyBuf) /\ stash \in Seq(AnyBuf) /\ hist \in Seq(AnyEntry)
      /\ files \in [File -> AnyStream]
  BY DEF IInv, State
<1> DEFINE got == Prepend(queue, stash, b)
<1>2. /\ queue' = got.queue /\ stash' = got.stash /\ Record(op, what)
      /\ UNCHANGED <<program, files, seen>>
  BY DEF PushBuf
<1>3. got.queue \in Seq(AnyBuf) /\ got.stash \in Seq(AnyBuf)
  BY <1>1, PrependQueue
<1> HIDE DEF got
<1>4. hist' \in Seq(AnyEntry)
  BY <1>1, <1>2, RecordType
<1>5. QED BY <1>1, <1>2, <1>3, <1>4, FreshStep

\* Texts, trees and streams are pushed.
LEMMA PushStep == IInv /\ (Push \/ PushTree \/ PushStream) => IInv'
<1> SUFFICES ASSUME IInv, Push \/ PushTree \/ PushStream PROVE IInv'
  OBVIOUS
<1>1. seen = <<>>
  BY DEF Push, PushTree, PushStream, Acting
<1>2. program \in Programs /\ hist \in Seq(AnyEntry) /\ files \in [File -> AnyStream]
  BY DEF IInv, State
<1>3. ASSUME NEW w \in Seq(Char), NEW l \in Loc
      PROVE  AccumBuf(colm_impl_new_text(l, w)) \in AnyBuf
  <2> DEFINE s == colm_impl_new_text(l, w)
  <2>1. s \in AnyStream
    <3>1. 0 \in Int
      OBVIOUS
    <3>2. QED BY <3>1, NewStreamType
  <2> HIDE DEF s
  <2>2. AccumBuf(s) \in AnyBuf
    BY <2>1 DEF AccumBuf, AnyBuf
  <2>3. QED BY <2>2 DEF s
<1>4. ASSUME NEW w \in Seq(Char) PROVE w \in Seq(Char \cup Tree \cup File)
  OBVIOUS
<1>5. CASE Push
  <2>1. CASE \E w \in program.push : PushBuf("push", w, AccumBuf(colm_impl_new_text(StartLoc, w)))
    <3>1. PICK w \in program.push : PushBuf("push", w, AccumBuf(colm_impl_new_text(StartLoc, w)))
      BY <2>1
    <3>2. w \in Seq(Char) /\ StartLoc \in Loc
      <4>1. program.push \subseteq Seq(Char)
        BY <1>2, InputAssumption
      <4>2. StartLoc \in Loc
        BY DEF StartLoc, Loc
      <4>3. QED BY <4>1, <4>2
    <3>3. QED BY <1>1, <1>3, <1>4, <3>1, <3>2, BufPushed
  <2>2. CASE /\ hist # <<>> /\ Last(hist).op = "pull"
             /\ PushBuf("push", Last(hist).what,
                        AccumBuf(colm_impl_new_text(Last(hist).place, Last(hist).what)))
    <3> DEFINE w == Last(hist).what
               l == Last(hist).place
    <3>1. w \in Seq(Char) /\ l \in Loc
      BY <1>2, <2>2, LastEntry
    <3>2. PushBuf("push", w, AccumBuf(colm_impl_new_text(l, w)))
      BY <2>2
    <3> HIDE DEF w, l
    <3>3. QED BY <1>1, <1>3, <1>4, <3>1, <3>2, BufPushed
  <2>3. QED BY <1>5, <2>1, <2>2 DEF Push
<1>6. CASE PushTree
  <2>1. PICK t \in Tree, type \in {"token", "ignore"} : PushBuf("pushtree", <<t>>, TreeBuf(t, type))
    BY <1>6 DEF PushTree
  <2>2. TreeBuf(t, type) \in AnyBuf /\ <<t>> \in Seq(Char \cup Tree \cup File)
    BY DEF TreeBuf, AnyBuf
  <2>3. QED BY <1>1, <2>1, <2>2, BufPushed
<1>7. CASE PushStream
  <2>1. PICK f \in File : PushBuf("pushstream", <<f>>, SourceBuf(f, files[f]))
    BY <1>7 DEF PushStream
  <2>2. SourceBuf(f, files[f]) \in AnyBuf /\ <<f>> \in Seq(Char \cup Tree \cup File)
    BY <1>2 DEF SourceBuf, AnyBuf
  <2>3. QED BY <1>1, <2>1, <2>2, BufPushed
<1>8. QED BY <1>5, <1>6, <1>7

\* A queue grows at its end, whatever the scanner has read.
LEMMA QueueSent ==
  ASSUME IInv, NEW q, Grown(queue, q), NEW op \in {"text", "sendtree", "stream"},
         NEW what \in Seq(Char \cup Tree \cup File), op = "text" => what \in Seq(Char),
         SendBuf(op, what, q)
  PROVE  IInv'
<1>1. State /\ queue \in Seq(AnyBuf) /\ stash \in Seq(AnyBuf) /\ hist \in Seq(AnyEntry)
      /\ seen \in Seq(Char)
  BY DEF IInv, State
<1>2. queue' = q /\ Record(op, what) /\ UNCHANGED <<program, stash, files, seen>>
  BY DEF SendBuf
<1>3. hist' \in Seq(AnyEntry)
  BY <1>1, <1>2, RecordType
<1>4. q \in Seq(AnyBuf)
  BY DEF Grown
<1>5. State'
  BY <1>1, <1>2, <1>3, <1>4 DEF State
<1>6. SeenIn(q, seen)
  BY <1>1, SeenGrows DEF IInv, SeenBuffered
<1>7. QED BY <1>2, <1>5, <1>6 DEF IInv, SeenBuffered

\* Texts, trees and streams are sent.
LEMMA SendStep == IInv /\ (SendData \/ SendTree \/ SendStream) => IInv'
<1> SUFFICES ASSUME IInv, SendData \/ SendTree \/ SendStream PROVE IInv'
  OBVIOUS
<1>1. program \in Programs /\ files \in [File -> AnyStream] /\ queue \in Seq(AnyBuf)
  BY DEF IInv, State
<1>2. CASE SendData
  <2>1. PICK w \in program.send : SendBuf("text", w, input_append_data(queue, w))
    BY <1>2 DEF SendData
  <2>2. w \in Seq(Char)
    BY <1>1, InputAssumption
  <2>3. w \in Seq(Char \cup Tree \cup File)
    BY <2>2
  <2>4. Grown(queue, input_append_data(queue, w))
    BY <1>1, <2>2, AppendText
  <2>5. QED BY <2>1, <2>2, <2>3, <2>4, QueueSent
<1>3. CASE SendTree
  <2>1. PICK t \in Tree : SendBuf("sendtree", <<t>>, Append(queue, TreeBuf(t, "token")))
    BY <1>3 DEF SendTree
  <2>2. TreeBuf(t, "token") \in AnyBuf /\ <<t>> \in Seq(Char \cup Tree \cup File)
    BY DEF TreeBuf, AnyBuf
  <2>3. Grown(queue, Append(queue, TreeBuf(t, "token")))
    BY <1>1, <2>2, AppendBuf
  <2>4. QED BY <2>1, <2>2, <2>3, QueueSent
<1>4. CASE SendStream
  <2>1. PICK f \in File : SendBuf("stream", <<f>>, Append(queue, SourceBuf(f, files[f])))
    BY <1>4 DEF SendStream
  <2>2. SourceBuf(f, files[f]) \in AnyBuf /\ <<f>> \in Seq(Char \cup Tree \cup File)
    BY <1>1 DEF SourceBuf, AnyBuf
  <2>3. Grown(queue, Append(queue, SourceBuf(f, files[f])))
    BY <1>1, <2>2, AppendBuf
  <2>4. QED BY <2>1, <2>2, <2>3, QueueSent
<1>5. QED BY <1>2, <1>3, <1>4

\* A call is taken back: nothing read is left.
LEMMA BackStep ==
  IInv /\ (UndoTake \/ UndoTakeTree \/ UndoPush \/ UndoSend \/ UndoSendStream) => IInv'
<1> SUFFICES ASSUME IInv, UndoTake \/ UndoTakeTree \/ UndoPush \/ UndoSend \/ UndoSendStream
             PROVE  IInv'
  OBVIOUS
<1>1. State /\ queue \in Seq(AnyBuf) /\ stash \in Seq(AnyBuf) /\ hist \in Seq(AnyEntry)
      /\ files \in [File -> AnyStream]
  BY DEF IInv, State
<1>2. hist # <<>> /\ hist' = Front(hist) /\ seen' = <<>> /\ program' = program
  BY DEF UndoTake, UndoTakeTree, UndoPush, UndoSend, UndoSendStream, LastIs, Forget
<1>3. hist' \in Seq(AnyEntry)
  BY <1>1, <1>2, LastEntry
<1>4. queue # <<>> => /\ 1 \in 0..Len(queue) /\ Len(queue) \in 1..Len(queue)
                      /\ SubSeq(queue, 1, 1) \in Seq(AnyBuf)
                      /\ Tail(queue) \in Seq(AnyBuf) /\ Front(queue) \in Seq(AnyBuf)
                      /\ SubSeq(queue, Len(queue), Len(queue)) \in Seq(AnyBuf)
  <2> SUFFICES ASSUME queue # <<>>
               PROVE  /\ 1 \in 0..Len(queue) /\ Len(queue) \in 1..Len(queue)
                      /\ SubSeq(queue, 1, 1) \in Seq(AnyBuf)
                      /\ Tail(queue) \in Seq(AnyBuf) /\ Front(queue) \in Seq(AnyBuf)
                      /\ SubSeq(queue, Len(queue), Len(queue)) \in Seq(AnyBuf)
    OBVIOUS
  <2>1. Len(queue) > 0 /\ Len(queue) \in Nat /\ 1 \in 0..Len(queue) /\ Len(queue) \in 1..Len(queue)
    BY <1>1, EmptySeq
  <2>2. SubSeq(queue, 1, 1) \in Seq(AnyBuf)
    BY <1>1, <2>1, Cut
  <2>3. Tail(queue) \in Seq(AnyBuf)
    BY <1>1
  <2>4. Front(queue) \in Seq(AnyBuf)
    BY <1>1, <2>1, LastOff DEF Front
  <2>5. SubSeq(queue, Len(queue), Len(queue)) \in Seq(AnyBuf)
    <3> DEFINE k == Len(queue) - 1
    <3>1. k \in 0..Len(queue) /\ k + 1 = Len(queue)
      BY <2>1
    <3> HIDE DEF k
    <3>2. SubSeq(queue, k + 1, Len(queue)) \in Seq(AnyBuf)
      BY <1>1, <3>1, Cut
    <3>3. QED BY <3>1, <3>2
  <2>6. QED BY <2>1, <2>2, <2>3, <2>4, <2>5
<1>5. CASE UndoTake
  <2> DEFINE w == Last(hist).what
             back == input_undo_consume_data(queue, stash, w)
  <2>1. Last(hist).op \in {"take", "pull"} /\ queue' = back.queue /\ stash' = back.stash
        /\ files' = files
    BY <1>5 DEF UndoTake, LastIs
  <2>2. w \in Seq(Char)
    BY <1>1, <1>2, <2>1, LastEntry
  <2> HIDE DEF w
  <2>3. back.queue \in Seq(AnyBuf) /\ back.stash \in Seq(AnyBuf)
    BY <1>1, <2>2, UndoConsumeQueue
  <2> HIDE DEF back
  <2>4. QED BY <1>1, <1>2, <1>3, <2>1, <2>3, FreshStep
<1>6. CASE UndoTakeTree
  <2> DEFINE back == input_undo_consume_tree(queue, stash)
  <2>1. queue' \in {queue, back.queue} /\ stash' \in {stash, back.stash} /\ files' = files
    BY <1>6 DEF UndoTakeTree
  <2>2. back.queue \in Seq(AnyBuf) /\ back.stash \in Seq(AnyBuf)
    BY <1>1, TreeQueue
  <2> HIDE DEF back
  <2>3. queue' \in Seq(AnyBuf) /\ stash' \in Seq(AnyBuf)
    BY <1>1, <2>1, <2>2
  <2>4. QED BY <1>1, <1>2, <1>3, <2>1, <2>3, FreshStep
<1>7. CASE UndoPush
  <2> DEFINE bufs == SubSeq(queue, 1, 1)
  <2>1. \/ queue' = queue /\ files' = files /\ stash' = stash
        \/ queue # <<>> /\ queue' = Tail(queue) /\ files' = Release(bufs) /\ stash' = stash
    BY <1>7 DEF UndoPush
  <2>2. CASE queue' = queue /\ files' = files /\ stash' = stash
    BY <1>1, <1>2, <1>3, <2>2, FreshStep
  <2>3. CASE queue # <<>> /\ queue' = Tail(queue) /\ files' = Release(bufs) /\ stash' = stash
    <3>1. bufs \in Seq(AnyBuf) /\ queue' \in Seq(AnyBuf)
      BY <1>4, <2>3
    <3> HIDE DEF bufs
    <3>2. files' \in [File -> AnyStream]
      BY <1>1, <2>3, <3>1, ReleaseType
    <3>3. QED BY <1>1, <1>2, <1>3, <2>3, <3>1, <3>2, FreshStep
  <2>4. QED BY <2>1, <2>2, <2>3
<1>8. CASE UndoSend
  <2> DEFINE n == IF Last(hist).op = "text" THEN Len(Last(hist).what) ELSE 0
             bufs == SubSeq(queue, Kept(queue, n) + 1, Len(queue))
  <2>1. queue' = input_undo_append_data(queue, n) /\ files' = Release(bufs) /\ stash' = stash
    BY <1>8 DEF UndoSend
  <2>2. n \in Nat
    <3>1. CASE Last(hist).op = "text"
      <4>1. Last(hist).what \in Seq(Char)
        BY <1>1, <1>2, <3>1, LastEntry
      <4>2. QED BY <3>1, <4>1
    <3>2. CASE Last(hist).op # "text"
      BY <3>2
    <3>3. QED BY <3>1, <3>2
  <2> HIDE DEF n
  <2>3. queue' \in Seq(AnyBuf) /\ bufs \in Seq(AnyBuf)
    BY <1>1, <2>1, <2>2, UndoAppendQueue
  <2> HIDE DEF bufs
  <2>4. files' \in [File -> AnyStream]
    BY <1>1, <2>1, <2>3, ReleaseType
  <2>5. QED BY <1>1, <1>2, <1>3, <2>1, <2>3, <2>4, FreshStep
<1>9. CASE UndoSendStream
  <2> DEFINE bufs == SubSeq(queue, Len(queue), Len(queue))
  <2>1. \/ queue' = queue /\ files' = files /\ stash' = stash
        \/ queue # <<>> /\ queue' = Front(queue) /\ files' = Release(bufs) /\ stash' = stash
    BY <1>9 DEF UndoSendStream
  <2>2. CASE queue' = queue /\ files' = files /\ stash' = stash
    BY <1>1, <1>2, <1>3, <2>2, FreshStep
  <2>3. CASE queue # <<>> /\ queue' = Front(queue) /\ files' = Release(bufs) /\ stash' = stash
    <3>1. bufs \in Seq(AnyBuf) /\ queue' \in Seq(AnyBuf)
      BY <1>4, <2>3
    <3> HIDE DEF bufs
    <3>2. files' \in [File -> AnyStream]
      BY <1>1, <2>3, <3>1, ReleaseType
    <3>3. QED BY <1>1, <1>2, <1>3, <2>3, <3>1, <3>2, FreshStep
  <2>4. QED BY <2>1, <2>2, <2>3
<1>10. QED BY <1>5, <1>6, <1>7, <1>8, <1>9

\* A step that changes nothing.
LEMMA StutterStep == IInv /\ UNCHANGED vars => IInv'
BY DEF IInv, State, SeenBuffered, vars

\* What is buffered and what the scanner has read of it (SeenBuffered), whatever the
\* programs are and whether or not they avoid what cannot be taken back: every call,
\* and every call that is taken back, keeps it.
THEOREM BuffersKept == Spec => []IInv
<1>1. Init => IInv
  BY InitInv
<1>2. IInv /\ [Next]_vars => IInv'
  BY ScanStep, TakeStep, PullStep, TakeTreeStep, PushStep, SendStep, BackStep, StutterStep DEF Next
<1>3. QED BY <1>1, <1>2, PTL DEF Spec

\* The scanner reads the text at the front of the queue in order, each character once,
\* over the run buffers, the streams and the calls between two readings.
THEOREM ScannerReadsInOrder == Spec => []ReadsInOrder
<1>1. Spec => []IInv
  BY BuffersKept
<1>2. IInv => ReadsInOrder
  BY BufferedInOrder
<1>3. QED BY <1>1, <1>2, PTL
=============================================================================
