---------------------------- MODULE UndoContainers ----------------------------
(***************************************************************************)
(* What the containers of a colm program promise its semantic actions: a   *)
(* list is a sequence of values, a map gives each key at most one value,   *)
(* and when the parser takes the last action back, both are as they were   *)
(* before it.                                                              *)
(***************************************************************************)
EXTENDS Naturals, Sequences, SequencesExt

CONSTANTS Val, Key, None

VARIABLES
  items,     \* the list
  dict,      \* the map
  base,      \* both as they were when the present action began
  past       \* both before each action that can be taken back, oldest first

vars == <<items, dict, base, past>>

Now == [items |-> items, dict |-> dict]

Init ==
  /\ items = <<>> /\ dict = [k \in Key |-> None]
  /\ base = Now /\ past = <<>>

Push(v) == items' \in {<<v>> \o items, items \o <<v>>} /\ UNCHANGED dict
Pop == items # <<>> /\ items' \in {Tail(items), Front(items)} /\ UNCHANGED dict
Put(k, v) == dict[k] = None /\ dict' = [dict EXCEPT ![k] = v] /\ UNCHANGED items
Drop(k) == dict[k] # None /\ dict' = [dict EXCEPT ![k] = None] /\ UNCHANGED items

Statement ==
  \/ \E v \in Val : Push(v)
  \/ Pop
  \/ \E k \in Key : Drop(k) \/ \E v \in Val : Put(k, v)

\* In an action, which can be taken back, and at the top level, which cannot.
InAction == Statement /\ UNCHANGED <<base, past>>
TopLevel == past = <<>> /\ base = Now /\ Statement /\ base' = Now' /\ UNCHANGED past

EndAction == past' = Append(past, base) /\ base' = Now /\ UNCHANGED <<items, dict>>

TakeBack ==
  /\ past # <<>> /\ base = Now
  /\ Now' = Last(past) /\ base' = Last(past) /\ past' = Front(past)

Next == InAction \/ TopLevel \/ EndAction \/ TakeBack

Spec == Init /\ [][Next]_vars
=============================================================================
