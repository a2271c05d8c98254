------------------------------- MODULE ColmMap -------------------------------
(***************************************************************************)
(* The maps of colm programs (src/src/map.c): elements linked both into    *)
(* an AVL tree, by parent, left and right, and into a list in key order.   *)
(* The elements are fields of structs of the program, which allocates and  *)
(* owns them: the map only links and unlinks them.                         *)
(*                                                                         *)
(* A map is a record of its header (root, head, tail, tree_size) and of    *)
(* one function per link of the elements.  Insertion, lookup and removal   *)
(* are operators on such records; Containers composes them with lists and  *)
(* with the undoing of semantic actions.  What must hold of a map is at    *)
(* the end.                                                                *)
(***************************************************************************)
EXTENDS Integers, FiniteSets

CONSTANTS El,         \* the elements (map_el_t in a struct of the program)
          Null,       \* the null pointer
          key         \* the key of an element, set when its struct is made

Ptr == El \cup {Null}

EmptyMap ==
  [root |-> Null, head |-> Null, tail |-> Null, tree_size |-> 0,
   left |-> [e \in El |-> Null], right |-> [e \in El |-> Null],
   parent |-> [e \in El |-> Null], height |-> [e \in El |-> 0],
   prev |-> [e \in El |-> Null], next |-> [e \in El |-> Null]]

\* Writes through a pointer that is tested for null first.
IfEl(p, m, w(_)) == IF p = Null THEN m ELSE w(m)

(***************************************************************************)
(* The list in key order.                                                  *)
(***************************************************************************)

map_list_add_before(m, next_el, new_el) ==
  LET before == IF next_el = Null THEN m.tail ELSE m.prev[next_el]
      m1 == [m EXCEPT !.next[new_el] = next_el, !.prev[new_el] = before]
      m2 == IF next_el = Null THEN [m1 EXCEPT !.tail = new_el]
                              ELSE [m1 EXCEPT !.prev[next_el] = new_el]
  IN IF before = Null THEN [m2 EXCEPT !.head = new_el]
                      ELSE [m2 EXCEPT !.next[before] = new_el]

map_list_add_after(m, prev_el, new_el) ==
  LET after == IF prev_el = Null THEN m.head ELSE m.next[prev_el]
      m1 == [m EXCEPT !.prev[new_el] = prev_el, !.next[new_el] = after]
      m2 == IF prev_el = Null THEN [m1 EXCEPT !.head = new_el]
                              ELSE [m1 EXCEPT !.next[prev_el] = new_el]
  IN IF after = Null THEN [m2 EXCEPT !.tail = new_el]
                     ELSE [m2 EXCEPT !.prev[after] = new_el]

map_list_detach(m, e) ==
  LET p == m.prev[e]
      n == m.next[e]
      m1 == IF p = Null THEN [m EXCEPT !.head = n] ELSE [m EXCEPT !.next[p] = n]
  IN IF n = Null THEN [m1 EXCEPT !.tail = p] ELSE [m1 EXCEPT !.prev[n] = p]

(***************************************************************************)
(* Heights and balance.                                                    *)
(***************************************************************************)

HeightOf(m, p) == IF p = Null THEN 0 ELSE m.height[p]

Above(m, e) ==
  LET l == HeightOf(m, m.left[e])
      r == HeightOf(m, m.right[e])
  IN (IF l > r THEN l ELSE r) + 1

Balance(m, e) == HeightOf(m, m.left[e]) - HeightOf(m, m.right[e])

\* Upward, until a height that does not change.
RECURSIVE map_recalc_heights(_, _)
map_recalc_heights(m, e) ==
  IF e = Null \/ Above(m, e) = m.height[e] THEN m
  ELSE map_recalc_heights([m EXCEPT !.height[e] = Above(m, e)], m.parent[e])

RECURSIVE map_find_first_unbal_el(_, _)
map_find_first_unbal_el(m, e) ==
  IF e = Null \/ Balance(m, e) \notin -1..1 THEN e
  ELSE map_find_first_unbal_el(m, m.parent[e])

\* The first element whose grandparent is unbalanced.
RECURSIVE UnbalGP(_, _, _)
UnbalGP(m, e, gp) ==
  CASE gp = Null -> Null
    [] gp # Null /\ Balance(m, gp) \notin -1..1 -> e
    [] OTHER -> UnbalGP(m, m.parent[e], m.parent[gp])

mapFindFirstUnbalGP(m, e) ==
  IF m.parent[e] = Null THEN Null ELSE UnbalGP(m, e, m.parent[m.parent[e]])

TieLeft(m, p, c) ==
  IfEl(c, [m EXCEPT !.left[p] = c], LAMBDA mm : [mm EXCEPT !.parent[c] = p])
TieRight(m, p, c) ==
  IfEl(c, [m EXCEPT !.right[p] = c], LAMBDA mm : [mm EXCEPT !.parent[c] = p])

\* Put b where gp was, under gp's parent or at the root.
TieAbove(m, ggp, gp, b) ==
  LET m1 == CASE ggp = Null -> [m EXCEPT !.root = b]
              [] ggp # Null /\ m.left[ggp] = gp -> [m EXCEPT !.left[ggp] = b]
              [] OTHER -> [m EXCEPT !.right[ggp] = b]
  IN [m1 EXCEPT !.parent[b] = ggp]

\* (variant) the inner subtrees exchanged in one of the double rotations
RotationOf_swapped(m, n) ==
  LET p == m.parent[n]
      gp == m.parent[p]
  IN IF m.right[gp] = p
     THEN IF m.right[p] = n
          THEN [a |-> gp, b |-> p, c |-> n, t1 |-> m.left[gp],
                t2 |-> m.left[p], t3 |-> m.left[n], t4 |-> m.right[n]]
          ELSE [a |-> gp, b |-> n, c |-> p, t1 |-> m.left[gp],
                t2 |-> m.right[n], t3 |-> m.left[n], t4 |-> m.right[p]]
     ELSE IF m.right[p] = n
          THEN [a |-> p, b |-> n, c |-> gp, t1 |-> m.left[p],
                t2 |-> m.left[n], t3 |-> m.right[n], t4 |-> m.right[gp]]
          ELSE [a |-> n, b |-> p, c |-> gp, t1 |-> m.left[n],
                t2 |-> m.right[n], t3 |-> m.right[p], t4 |-> m.right[gp]]

\* The three elements a < b < c of a rotation and their four subtrees, in
\* order, for the grandchild n of an unbalanced element.
RotationOf(m, n) ==
  LET p == m.parent[n]
      gp == m.parent[p]
  IN IF m.right[gp] = p
     THEN IF m.right[p] = n
          THEN [a |-> gp, b |-> p, c |-> n, t1 |-> m.left[gp],
                t2 |-> m.left[p], t3 |-> m.left[n], t4 |-> m.right[n]]
          ELSE [a |-> gp, b |-> n, c |-> p, t1 |-> m.left[gp],
                t2 |-> m.left[n], t3 |-> m.right[n], t4 |-> m.right[p]]
     ELSE IF m.right[p] = n
          THEN [a |-> p, b |-> n, c |-> gp, t1 |-> m.left[p],
                t2 |-> m.left[n], t3 |-> m.right[n], t4 |-> m.right[gp]]
          ELSE [a |-> n, b |-> p, c |-> gp, t1 |-> m.left[n],
                t2 |-> m.right[n], t3 |-> m.right[p], t4 |-> m.right[gp]]

\* b goes where gp was, a and c below it, and the subtrees below them.
Rotated(m, r, gp) ==
  LET top == TieRight(TieLeft(TieAbove(m, m.parent[gp], gp, r.b), r.b, r.a), r.b, r.c)
      low == TieRight(TieLeft(top, r.a, r.t1), r.a, r.t2)
  IN TieRight(TieLeft(low, r.c, r.t3), r.c, r.t4)

Measure(m, e) == [m EXCEPT !.height[e] = Above(m, e)]

\* The result: the map, and from where to go on upward.
map_rebalance(m, n) ==
  LET r == RotationOf(m, n)
      gp == m.parent[m.parent[n]]
      measured == Measure(Measure(Measure(Rotated(m, r, gp), r.a), r.c), r.b)
  IN [map |-> map_recalc_heights(measured, m.parent[gp]), up |-> m.parent[gp]]

(***************************************************************************)
(* Insertion and lookup.                                                   *)
(***************************************************************************)

New(m, e, parent_el) ==
  [m EXCEPT !.tree_size = @ + 1, !.parent[e] = parent_el,
            !.left[e] = Null, !.right[e] = Null, !.height[e] = 1]

\* One rotation is enough after an insertion.
Rebalanced(m, e) ==
  LET ub == mapFindFirstUnbalGP(m, e) IN IF ub = Null THEN m ELSE map_rebalance(m, ub).map

map_attach_rebal(m, e, parent_el, last_less) ==
  LET m1 == New(m, e, parent_el)
      m2 == CASE parent_el = Null ->
                   map_list_add_after([m1 EXCEPT !.root = e], m1.tail, e)
              [] parent_el # Null /\ last_less = parent_el ->
                   map_list_add_before([m1 EXCEPT !.left[parent_el] = e], parent_el, e)
              [] OTHER ->
                   map_list_add_after([m1 EXCEPT !.right[parent_el] = e], parent_el, e)
  IN Rebalanced(map_recalc_heights(m2, parent_el), e)

\* The search of map_insert_el from cur down: the map with e attached, or the
\* map as it was when its key is there already.
RECURSIVE InsertBelow(_, _, _, _, _)
InsertBelow(m, e, cur, parent_el, last_less) ==
  CASE cur = Null -> map_attach_rebal(m, e, parent_el, last_less)
    [] cur # Null /\ key[e] < key[cur] -> InsertBelow(m, e, m.left[cur], cur, cur)
    [] cur # Null /\ key[e] > key[cur] -> InsertBelow(m, e, m.right[cur], cur, last_less)
    [] OTHER -> m

map_insert_el(m, e) == InsertBelow(m, e, m.root, Null, Null)

RECURSIVE FindBelow(_, _, _)
FindBelow(m, k, cur) ==
  CASE cur = Null \/ key[cur] = k -> cur
    [] cur # Null /\ k < key[cur] -> FindBelow(m, k, m.left[cur])
    [] OTHER -> FindBelow(m, k, m.right[cur])

map_impl_find(m, k) == FindBelow(m, k, m.root)

(***************************************************************************)
(* Removal.                                                                *)
(***************************************************************************)

map_remove_el(m, e, filler) ==
  LET p == m.parent[e]
      m1 == CASE p = Null -> [m EXCEPT !.root = filler]
              [] p # Null /\ m.left[p] = e -> [m EXCEPT !.left[p] = filler]
              [] OTHER -> [m EXCEPT !.right[p] = filler]
  IN IfEl(filler, m1, LAMBDA mm : [mm EXCEPT !.parent[filler] = p])

map_replace_el(m, e, r) ==
  LET sub == TieRight(TieLeft(m, r, m.left[e]), r, m.right[e])
  IN [TieAbove(sub, m.parent[e], e, r) EXCEPT !.height[r] = m.height[e]]

RECURSIVE Leftmost(_, _)
Leftmost(m, e) == IF m.left[e] = Null THEN e ELSE Leftmost(m, m.left[e])
RECURSIVE Rightmost(_, _)
Rightmost(m, e) == IF m.right[e] = Null THEN e ELSE Rightmost(m, m.right[e])

\* Two steps down from an unbalanced element toward the greater height; when
\* the heights are equal at the second step, in the direction of the first.
TwoDown(m, ub) ==
  LET goRight == Balance(m, ub) < 0
      c == IF goRight THEN m.right[ub] ELSE m.left[ub]
      right2 == Balance(m, c) < 0 \/ (Balance(m, c) = 0 /\ goRight)
  IN IF right2 THEN m.right[c] ELSE m.left[c]

\* Rebalance every unbalanced element from e upward.
RECURSIVE FixUp(_, _)
FixUp(m, e) ==
  LET ub == map_find_first_unbal_el(m, e)
      on(r) == FixUp(r.map, r.up)
  IN IF ub = Null THEN m ELSE on(map_rebalance(m, TwoDown(m, ub)))

\* The links of an element outside of the map: nothing reads them before the
\* element is attached again, except an iterator that stands on it (prev and
\* next, which stay).
Unlinked(m, e) ==
  [m EXCEPT !.left[e] = Null, !.right[e] = Null, !.parent[e] = Null, !.height[e] = 0]

map_detach(m, e) ==
  LET m1 == [map_list_detach(m, e) EXCEPT !.tree_size = @ - 1]
      r == IF m.right[e] # Null THEN Leftmost(m, m.right[e])
           ELSE IF m.left[e] # Null THEN Rightmost(m, m.left[e]) ELSE Null
      filler == IF m.right[e] # Null THEN m.right[r] ELSE m.left[r]
      m2 == IF r = Null THEN map_remove_el(m1, e, Null)
            ELSE map_replace_el(map_remove_el(m1, r, filler), e, r)
      fixfrom == CASE r = Null -> m.parent[e]
                   [] r # Null /\ m.parent[r] = e -> r
                   [] OTHER -> m.parent[r]
  IN Unlinked(FixUp(map_recalc_heights(m2, fixfrom), fixfrom), e)

\* The links of an element that is out of the map and under no iterator are
\* written before they are read again.
OffList(m, e) == [m EXCEPT !.prev[e] = Null, !.next[e] = Null]
-----------------------------------------------------------------------------
(* What holds of a map m, whatever was inserted into it and removed.       *)

RECURSIVE InOrder(_, _)
InOrder(m, p) ==
  IF p = Null THEN {} ELSE InOrder(m, m.left[p]) \cup {p} \cup InOrder(m, m.right[p])

Members(m) == InOrder(m, m.root)

IsMap(m) ==
  /\ {m.root, m.head, m.tail} \subseteq Ptr
  /\ m.tree_size \in Nat
  /\ \A f \in {m.left, m.right, m.parent, m.prev, m.next} : f \in [El -> Ptr]
  /\ m.height \in [El -> Nat]

\* The heights are right if each is right for those below it.
IsBalanced(m) ==
  \A e \in Members(m) : m.height[e] = Above(m, e) /\ Balance(m, e) \in -1..1

IsSearchTree(m) ==
  LET all == Members(m)
      keys == {key[e] : e \in all}
  IN /\ \A e \in all : map_impl_find(m, key[e]) = e
     /\ \A e \in El : key[e] \notin keys => map_impl_find(m, key[e]) = Null
     /\ \A e \in all :
           IF m.parent[e] = Null THEN m.root = e
           ELSE e \in {m.left[m.parent[e]], m.right[m.parent[e]]}

\* One chain: keys grow along it, and only its ends are without a neighbour.
IsOrderedList(m) ==
  LET all == Members(m)
  IN /\ m.tree_size = Cardinality(all)
     /\ all = {} => m.head = Null /\ m.tail = Null
     /\ \A e \in all :
          /\ m.prev[e] = Null <=> m.head = e
          /\ m.next[e] = Null <=> m.tail = e
          /\ m.prev[e] # Null => /\ m.prev[e] \in all /\ key[m.prev[e]] < key[e]
                                /\ m.next[m.prev[e]] = e
          /\ m.next[e] # Null => m.next[e] \in all /\ m.prev[m.next[e]] = e
=============================================================================
