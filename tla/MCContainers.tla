----------------------------- MODULE MCContainers -----------------------------
(* Properties of Containers and their instances. *)
EXTENDS Containers

CONSTANTS Few, FewKeys    \* the structs of a mixed program, their keys

VARIABLES
  mixed,         \* which of the two programs below it is
  now,           \* the containers of a mixed program as its users see them:
  base, past     \* now, when the present action began, before each action done

\* A mixed program uses a list and a map of a few structs, two of which have the
\* same key, in any way.
Mixed == INSTANCE Containers WITH El <- Few, key <- FewKeys

KeyOf == [e \in El |-> e]
KeysOf == [e \in Few |-> e % 2]

\* The links point to structs, units and blocks name structs that were made.
TypeOK ==
  LET S == IF mixed THEN Few ELSE El
  IN /\ list.head \in S \cup {Null} /\ list.tail \in S \cup {Null}
     /\ list.prev \in [S -> S \cup {Null}] /\ list.next \in [S -> S \cup {Null}]
     /\ list.list_len \in Nat
     /\ IF mixed THEN Mixed!M!IsMap(map) ELSE M!IsMap(map)
     /\ value \in [S -> Val \cup {None}] /\ refs \in [Val -> Nat]
     /\ \A u \in ToSet(collect \o FlattenSeq(reverse_code)) :
          /\ u.fn = "pop" => Made(u.s)
          /\ u.fn = "insert" => Made(u.el)

\* The elements from p on.
RECURSIVE Walk(_, _, _)
Walk(l, p, n) == IF p = Null \/ n = 0 THEN <<>> ELSE <<p>> \o Walk(l, l.next[p], n - 1)
Elements(l) == Walk(l, l.head, Cardinality(El) + 1)

\* The list is one chain without repetitions, whose backward links mirror the
\* forward ones, ending in tail, of the length that is kept: also after reverse
\* code has put back elements that were popped by others (list.c:120-195).
ListLinked ==
  LET s == Elements(list)
  IN /\ TypeOK
     /\ Len(s) = list.list_len
     /\ Cardinality(ToSet(s)) = Len(s)
     /\ \A i \in DOMAIN s : list.prev[s[i]] = IF i = 1 THEN Null ELSE s[i - 1]
     /\ list.tail = IF s = <<>> THEN Null ELSE s[Len(s)]
     /\ \A e \in ToSet(s) : Made(e)

\* No element is unbalanced and every height that is kept is the true one: one
\* rotation after an insertion, and one wherever the walk up from a removal
\* finds an imbalance, are enough, although the recalculation of heights stops
\* at the first that does not change (map.c:160-205, 404-421, 757-873).  A search
\* for a key ends at the element that has it, and at none if there is none:
\* rotations, replacements and undone insertions keep the order of the keys
\* (map.c:250-401, 477-525, bytecode.c:4311-4330).  The list through the elements
\* visits them in that order, both ways, and tree_size is their number.
MapExact ==
  IF mixed
  THEN Mixed!M!IsBalanced(map) /\ Mixed!M!IsSearchTree(map) /\ Mixed!M!IsOrderedList(map)
  ELSE M!IsBalanced(map) /\ M!IsSearchTree(map) /\ M!IsOrderedList(map)

\* Every struct gives up its value when the program ends, and each time there is
\* a reference left: the assertion of colm_tree_downref (tree.c:957).
RefsHeld ==
  \A v \in Val : refs[v] >= Cardinality({e \in DOMAIN value : value[e] = v})

(* The containers of a mixed program as its users see them. *)

Items(d) == LET s == Elements(d.list) IN [i \in DOMAIN s |-> d.value[s[i]]]
Dict(d) == [k \in Mixed!Key |->
              LET e == Mixed!M!map_impl_find(d.map, k)
              IN IF e = Null THEN None ELSE d.value[e]]
NoView == [items |-> <<>>, dict |-> [k \in Mixed!Key |-> None]]
View(d) == IF mixed THEN [items |-> Items(d), dict |-> Dict(d)] ELSE NoView

\* The other program makes its structs and then keeps them in one map, in any
\* order, at the top level.
TableNext ==
  IF Free(value) # {} THEN StructNew(CHOOSE v \in Val : TRUE)
  ELSE \E e \in El : MapDetach(e) \/ (MapInsert(e) /\ collect' = <<>>)

HInit ==
  /\ mixed \in BOOLEAN
  /\ mixed => Mixed!Init
  /\ ~mixed => Init
  /\ now = View(Data) /\ base = now /\ past = <<>>

HNext ==
  /\ (mixed /\ Mixed!Next) \/ (~mixed /\ TableNext)
  /\ now' = View(Data')
  /\ base' = IF collect' = <<>> THEN now' ELSE base
  /\ past' = CASE Len(reverse_code') > Len(reverse_code) -> Append(past, base)
               [] Len(reverse_code') < Len(reverse_code) -> Front(past)
               [] OTHER -> past
  /\ UNCHANGED mixed

HSpec == HInit /\ [][HNext]_<<vars, mixed, now, base, past>>

Abstract == INSTANCE UndoContainers WITH
              Key <- Mixed!Key, items <- now.items, dict <- now.dict

\* The list and the map of a mixed program are the sequence and the dictionary
\* that their users are promised, and taking an action back restores both:
\* whatever mix of calls the actions make, on elements and on values.
Refines == Abstract!Spec
=============================================================================
