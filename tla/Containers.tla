------------------------------ MODULE Containers ------------------------------
(***************************************************************************)
(* Lists (src/src/list.c) and maps (ColmMap) of a colm program, as its     *)
(* semantic actions use them through the bytecode interpreter: every       *)
(* instruction of an action that can be taken back does its work and adds  *)
(* a unit of reverse code, which undoes it (src/src/bytecode.c).  When the *)
(* action is done its units, last first, become a block of reverse code;   *)
(* when the parser takes the action back, the block is run and dropped.    *)
(*                                                                         *)
(* The elements of lists and maps are fields of structs of the program,    *)
(* found by it (push_el, pop_el, insert_el) or made by the instruction for *)
(* a value (push, pop, insert).                                            *)
(***************************************************************************)
EXTENDS Integers, Sequences, SequencesExt, FiniteSets, FiniteSetsExt

CONSTANTS
  El,            \* structs with a list element and a map element
  Null,
  key,           \* the keys of their map elements
  Val,           \* values
  None,          \* the struct has not been made
  MaxUnits       \* bound: units of reverse code

ASSUME ContainersAssumption ==
  /\ Null \notin El /\ key \in [El -> Int] /\ El \subseteq Nat
  /\ None \notin Val /\ MaxUnits \in Nat

VARIABLES
  map,
  list,
  value,         \* the value field of each struct that has been made
  refs,          \* the references to each value (a tree) that are accounted for
  collect,       \* rcode_collect: the units of the present action
  reverse_code   \* the blocks of the actions done

vars == <<map, list, value, refs, collect, reverse_code>>

M == INSTANCE ColmMap

Key == {key[e] : e \in El}

EmptyList == [head |-> Null, tail |-> Null, list_len |-> 0,
              prev |-> [e \in El |-> Null], next |-> [e \in El |-> Null]]
-----------------------------------------------------------------------------
(* list.c *)

colm_list_add_after(l, prev_el, new_el) ==
  LET after == IF prev_el = Null THEN l.head ELSE l.next[prev_el]
      l1 == [l EXCEPT !.prev[new_el] = prev_el, !.next[new_el] = after,
                      !.list_len = @ + 1]
      l2 == IF prev_el = Null THEN [l1 EXCEPT !.head = new_el]
                              ELSE [l1 EXCEPT !.next[prev_el] = new_el]
  IN IF after = Null THEN [l2 EXCEPT !.tail = new_el]
                     ELSE [l2 EXCEPT !.prev[after] = new_el]

colm_list_add_before(l, next_el, new_el) ==
  LET before == IF next_el = Null THEN l.tail ELSE l.prev[next_el]
      l1 == [l EXCEPT !.next[new_el] = next_el, !.prev[new_el] = before,
                      !.list_len = @ + 1]
      l2 == IF next_el = Null THEN [l1 EXCEPT !.tail = new_el]
                              ELSE [l1 EXCEPT !.prev[next_el] = new_el]
  IN IF before = Null THEN [l2 EXCEPT !.head = new_el]
                      ELSE [l2 EXCEPT !.next[before] = new_el]

colm_list_prepend(l, e) == colm_list_add_before(l, l.head, e)
colm_list_append(l, e) == colm_list_add_after(l, l.tail, e)

\* (variant) the new head still points back
colm_list_detach_oneway(l, e) ==
  LET p == l.prev[e]
      n == l.next[e]
      l1 == IF p = Null THEN [l EXCEPT !.head = n] ELSE [l EXCEPT !.next[p] = n]
  IN [IF n = Null THEN [l1 EXCEPT !.tail = p] ELSE l1 EXCEPT !.list_len = @ - 1]

colm_list_detach(l, e) ==
  LET p == l.prev[e]
      n == l.next[e]
      l1 == IF p = Null THEN [l EXCEPT !.head = n] ELSE [l EXCEPT !.next[p] = n]
      l2 == IF n = Null THEN [l1 EXCEPT !.tail = p] ELSE [l1 EXCEPT !.prev[n] = p]
  IN [l2 EXCEPT !.list_len = @ - 1]

\* The links of an element that is out of the list are written before they are
\* read again.
Off(l, e) == [l EXCEPT !.prev[e] = Null, !.next[e] = Null]
DetachEnd(l, atHead) ==
  LET e == IF atHead THEN l.head ELSE l.tail IN Off(colm_list_detach(l, e), e)
AddEnd(l, atHead, e) ==
  IF atHead THEN colm_list_prepend(l, e) ELSE colm_list_append(l, e)
-----------------------------------------------------------------------------
(* The data that instructions and reverse code work on, as one record.     *)

Data == [map |-> map, list |-> list, value |-> value, refs |-> refs]

Free(val) == {e \in El : val[e] = None}

\* colm_vlist_append and colm_vlist_prepend: a new struct takes the value.
VPush(d, atHead, v) ==
  LET e == Min(Free(d.value))
  IN [d EXCEPT !.value[e] = v, !.list = AddEnd(d.list, atHead, e)]

UnMap(d, e) == [d EXCEPT !.map = M!OffList(M!map_detach(d.map, e), e)]

(* Reverse code.  Each unit is an instruction with its arguments.          *)

Push_BKT(atHead) == [fn |-> "push", atHead |-> atHead]
Pop_BKT(atHead, e) == [fn |-> "pop", atHead |-> atHead, s |-> e]
\* (variant) what was popped comes back at the tail
VPop_BKT_tail(atHead, v) == [fn |-> "vpop", atHead |-> FALSE, val |-> v]

VPop_BKT(atHead, v) == [fn |-> "vpop", atHead |-> atHead, val |-> v]
Insert_BKT(e, inserted) == [fn |-> "insert", el |-> e, inserted |-> inserted]

RunUnit(d, u) ==
  CASE u.fn = "push" -> [d EXCEPT !.list = DetachEnd(d.list, u.atHead)]
    [] u.fn = "pop" -> [d EXCEPT !.list = AddEnd(d.list, u.atHead, u.s)]
    [] u.fn = "vpop" -> VPush(d, u.atHead, u.val)
    [] u.fn = "insert" -> IF u.inserted THEN UnMap(d, u.el) ELSE d

\* colm_make_reverse_code copies the units group by group from the end.
Block(units) == Reverse(units)
RunBlock(d, block) == FoldLeft(RunUnit, d, block)

\* The structs that taking everything back would make have to be there.
Room(d, units) ==
  LET all == units \o FlattenSeq(reverse_code)
      remade == {i \in DOMAIN all : all[i].fn = "vpop"}
  IN Len(all) <= MaxUnits /\ Cardinality(remade) <= Cardinality(Free(d.value))
-----------------------------------------------------------------------------
(* Instructions.  In an action (WV) they leave a unit; at the top level    *)
(* (WC) they leave none, and there is no action that could be taken back.  *)

Store(d) == map' = d.map /\ list' = d.list /\ value' = d.value /\ refs' = d.refs

Does(d, unit) ==
  /\ Store(d)
  /\ \/ /\ Len(collect) < MaxUnits /\ Room(d, Append(collect, unit))
        /\ collect' = Append(collect, unit)
        /\ UNCHANGED reverse_code
     \/ /\ collect = <<>> /\ reverse_code = <<>>
        /\ UNCHANGED <<collect, reverse_code>>

Made(e) == value[e] # None
InList(e) == e = list.head \/ list.prev[e] # Null

\* The program makes a struct with a value: new.
StructNew(v) ==
  /\ Free(value) # {}
  /\ LET e == Min(Free(value))
         d == [Data EXCEPT !.value[e] = v, !.refs[v] = @ + 1]
     IN Room(d, collect) /\ Store(d)
  /\ UNCHANGED <<collect, reverse_code>>

\* push_head_el, push_tail_el.
ListPush(e, atHead) ==
  /\ Made(e) /\ ~InList(e)
  /\ Does([Data EXCEPT !.list = AddEnd(list, atHead, e)], Push_BKT(atHead))

\* pop_head_el, pop_tail_el.
ListPop(atHead) ==
  /\ list.head # Null
  /\ Does([Data EXCEPT !.list = DetachEnd(list, atHead)],
          Pop_BKT(atHead, IF atHead THEN list.head ELSE list.tail))

\* push_head, push_tail: the value comes with a reference, the struct keeps it.
VListPush(v, atHead) ==
  /\ Free(value) # {}
  /\ Does([VPush(Data, atHead, v) EXCEPT !.refs[v] = @ + 1], Push_BKT(atHead))

\* pop_head, pop_tail: the result has a reference of its own, which goes with it.
VListPop(atHead) ==
  /\ list.head # Null
  /\ LET e == IF atHead THEN list.head ELSE list.tail
     IN Does([Data EXCEPT !.list = DetachEnd(list, atHead)], VPop_BKT(atHead, value[e]))

\* insert_el.
MapInsert(e) ==
  /\ Made(e) /\ e \notin M!Members(map)
  /\ LET m == M!map_insert_el(map, e)
     IN Does([Data EXCEPT !.map = m], Insert_BKT(e, m # map))

\* insert: colm_vmap_insert makes the struct even if the key is there.
VMapInsert(k, v) ==
  \E e \in Free(value) :
    /\ key[e] = k /\ \A f \in Free(value) : key[f] = k => e <= f
    /\ LET m == M!map_insert_el(map, e)
       IN Does([Data EXCEPT !.map = m, !.value[e] = v, !.refs[v] = @ + 1],
               Insert_BKT(e, m # map))

\* detach_el and remove: at the top level only.
MapDetach(e) ==
  /\ collect = <<>> /\ reverse_code = <<>>
  /\ e \in M!Members(map)
  /\ Store(UnMap(Data, e))
  /\ UNCHANGED <<collect, reverse_code>>

VMapRemove(k) ==
  LET e == M!map_impl_find(map, k)
  IN /\ collect = <<>> /\ reverse_code = <<>>
     /\ Store(IF e = Null THEN Data ELSE UnMap(Data, e))
     /\ UNCHANGED <<collect, reverse_code>>

\* The end of an action that has left units: colm_make_reverse_code.
EndAction ==
  /\ collect # <<>>
  /\ reverse_code' = Append(reverse_code, Block(collect)) /\ collect' = <<>>
  /\ UNCHANGED <<map, list, value, refs>>

\* The parser takes the last action back: the block is run and popped.
TakeBack ==
  /\ collect = <<>> /\ reverse_code # <<>>
  /\ Store(RunBlock(Data, Last(reverse_code)))
  /\ reverse_code' = Front(reverse_code)
  /\ UNCHANGED collect

Init ==
  /\ map = M!EmptyMap /\ list = EmptyList
  /\ value = [e \in El |-> None] /\ refs = [v \in Val |-> 0]
  /\ collect = <<>> /\ reverse_code = <<>>

Next ==
  \/ \E v \in Val : StructNew(v)
  \/ \E e \in El, atHead \in BOOLEAN : ListPush(e, atHead)
  \/ \E atHead \in BOOLEAN : ListPop(atHead)
  \/ \E v \in Val, atHead \in BOOLEAN : VListPush(v, atHead)
  \/ \E atHead \in BOOLEAN : VListPop(atHead)
  \/ \E e \in El : MapInsert(e) \/ MapDetach(e)
  \/ \E k \in Key, v \in Val : VMapInsert(k, v)
  \/ \E k \in Key : VMapRemove(k)
  \/ EndAction
  \/ TakeBack

Spec == Init /\ [][Next]_vars
=============================================================================
