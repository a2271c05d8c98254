------------------------------ MODULE UndoQueue ------------------------------
(***************************************************************************)
(* What an input promises the parsers and actions that use it: one queue   *)
(* of items (characters, trees).  Items are taken from the front, put in   *)
(* front, put at the end; and the last of these that has not been taken    *)
(* back can be taken back, which leaves the queue exactly as it was.       *)
(***************************************************************************)
EXTENDS Naturals, Sequences, SequencesExt

CONSTANT Piece    \* what may be put into the queue

VARIABLES
  items,          \* the queue
  past            \* the queue before each change that has not been taken back

vars == <<items, past>>

Init == items = <<>> /\ past = <<>>

Take == \E n \in 1..Len(items) : items' = SubSeq(items, n + 1, Len(items))
PutFront == \E w \in Piece : items' = w \o items
PutEnd == \E w \in Piece : items' = items \o w

TakeBack ==
  /\ past # <<>>
  /\ past' = Front(past) /\ items' = Last(past)

Next ==
  \/ /\ past' = Append(past, items)
     /\ Take \/ PutFront \/ PutEnd
  \/ TakeBack

Spec == Init /\ [][Next]_vars
=============================================================================
