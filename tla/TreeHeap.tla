------------------------------- MODULE TreeHeap -------------------------------
(***************************************************************************)
(* The trees of a colm program (src/src/tree.c) and the iterators that     *)
(* walk over them (src/src/iter.c).  A tree is a reference counted cell    *)
(* with a list of kids, attributes first, then children; a kid points to a *)
(* tree and to the next kid.  Trees are shared, kids are not.  Assignment  *)
(* copies a pointer; whoever writes into a tree first splits it: copies    *)
(* the cell and its kids if anybody else has a reference.                  *)
(*                                                                         *)
(* A reference into the middle of a tree (the position of an iterator, a   *)
(* parameter passed by reference) is a kid and the reference above it, up  *)
(* to the variable.  split_ref splits all trees on that chain, from the    *)
(* top, before a write, moves the references over to the copies, and cuts  *)
(* the chain, so that the next write does not walk it again.               *)
(*                                                                         *)
(* The program is a sequence of statements on the variables and on the     *)
(* loops and by-reference calls that are open (levels).  Leaves have no    *)
(* attribute and no child, a node has one attribute and one child, a pair  *)
(* has two children.                                                       *)
(***************************************************************************)
EXTENDS Integers, Sequences, SequencesExt, FiniteSets, FiniteSetsExt, TLC

CONSTANTS
  Var,           \* the program's variables: each is a slot that works as a kid
  Null, Free,    \* the null pointer; a cell that is not allocated
  LeafId,        \* the types of leaves
  NodeId,        \* the type of nodes
  PairId,        \* the type of pairs
  AnyId,           \* a search for trees of any type
  MaxTrees, MaxKids, MaxLevels,   \* bounds of the heap and of the nesting
  Kinds, Stops,  \* the kinds of levels and the types searched for
  Careful        \* the program does not copy what holds the place it writes to

ASSUME TreeHeapAssumption ==
  /\ {MaxTrees, MaxKids, MaxLevels} \subseteq Nat
  /\ Kinds \subseteq {"ref", "tree", "child", "rev"}
  /\ Stops \subseteq LeafId \cup {NodeId, PairId, AnyId}
  /\ Careful \in BOOLEAN

VARIABLES
  mem,           \* the cells: trees by number, kids by number or variable
  levels         \* the open loops and calls, outermost first

vars == <<mem, levels>>

Tree == 1..MaxTrees
Kid == 1..MaxKids

\* full: an allocation found no cell, which ends the statement.
EmptyMem ==
  [tree |-> [t \in Tree |-> Free],
   kid |-> [k \in Kid \cup Var |-> IF k \in Var THEN [tree |-> Null, next |-> Null] ELSE Free],
   full |-> FALSE]

RECURSIVE ListFrom(_, _)
ListFrom(m, k) == IF k = Null THEN <<>> ELSE <<k>> \o ListFrom(m, m.kid[k].next)

Kids(m, t) == ListFrom(m, m.tree[t].child)
object_length(id) == IF id = NodeId THEN 1 ELSE 0
tree_child(m, t) ==
  IF object_length(m.tree[t].id) = 1 THEN m.kid[m.tree[t].child].next ELSE m.tree[t].child
get_attr_kid(m, t) == m.tree[t].child
At(m, k) == m.kid[k].tree
-----------------------------------------------------------------------------
(* Reference counts. *)

colm_tree_upref(m, t) == IF t = Null THEN m ELSE [m EXCEPT !.tree[t].refs = @ + 1]

\* tree_free_rec: the trees still to be given up are on the stack.
RECURSIVE DownrefAll(_, _)
DownrefAll(m, stack) ==
  LET t == Last(stack)
      kids == Kids(m, t)
      freed == [m EXCEPT !.tree[t] = Free,
                         !.kid = [k \in ToSet(kids) |-> Free] @@ @]
  IN CASE stack = <<>> -> m
       [] stack # <<>> /\ t = Null -> DownrefAll(m, Front(stack))
       [] stack # <<>> /\ t # Null /\ m.tree[t].refs > 1 ->
            DownrefAll([m EXCEPT !.tree[t].refs = @ - 1], Front(stack))
       [] OTHER -> DownrefAll(freed, Front(stack) \o [i \in DOMAIN kids |-> At(m, kids[i])])

colm_tree_downref(m, t) == DownrefAll(m, <<t>>)

FreeIn(f, n) == SelectSeq([i \in 1..n |-> i], LAMBDA i : f[i] = Free)

\* The cell at t and kids at the front of k.
Placed(m, id, t, k, trees) ==
  LET n == Len(trees)
      cell(i) == [tree |-> trees[i], next |-> IF i = n THEN Null ELSE k[i + 1]]
  IN [m EXCEPT
        !.tree[t] = [id |-> id, refs |-> 1, child |-> IF n = 0 THEN Null ELSE k[1]],
        !.kid = [c \in ToSet(SubSeq(k, 1, n)) |-> cell(CHOOSE i \in 1..n : k[i] = c)] @@ @]

\* A new tree with kids for the given trees; it has one reference.
Allocate(m, id, trees) ==
  LET t == FreeIn(m.tree, MaxTrees)  k == FreeIn(m.kid, MaxKids)
  IN IF t = <<>> \/ Len(k) < Len(trees)
     THEN [mem |-> [m EXCEPT !.full = TRUE], tree |-> Null]
     ELSE [mem |-> FoldLeft(colm_tree_upref, Placed(m, id, Head(t), k, trees), trees),
           tree |-> Head(t)]

\* (variant) the copy has the kids of the original
copy_real_tree_shallow(m, t) ==
  LET new == Allocate(m, m.tree[t].id, <<>>)
  IN IF new.tree = Null THEN new
     ELSE [new EXCEPT !.mem.tree[new.tree].child = m.tree[t].child]

\* The copy has the same trees under kids of its own (with the reference that
\* every caller adds).
copy_real_tree(m, t) ==
  LET ks == Kids(m, t) IN Allocate(m, m.tree[t].id, [i \in DOMAIN ks |-> At(m, ks[i])])

\* The copy takes the place of the tree under kid k.
Replaced(new, k) ==
  IF new.tree = Null THEN new.mem
  ELSE [new.mem EXCEPT !.tree[At(new.mem, k)].refs = @ - 1, !.kid[k].tree = new.tree]

\* (variant) one other reference does no harm
split_tree_two(m, k) ==
  IF At(m, k) = Null \/ m.tree[At(m, k)].refs <= 2 THEN m
  ELSE Replaced(copy_real_tree(m, At(m, k)), k)

\* Make the tree under kid k safe to write into.
split_tree(m, k) ==
  IF At(m, k) = Null \/ m.tree[At(m, k)].refs <= 1 THEN m
  ELSE Replaced(copy_real_tree(m, At(m, k)), k)

\* A value that has its reference replaces the one under kid k.
ref_set_value(m, k, t) == [colm_tree_downref(m, At(m, k)) EXCEPT !.kid[k].tree = t]
-----------------------------------------------------------------------------
(* References.  The address of one is its level and its place there: -1    *)
(* the root_ref, 0 the ref of the position, j the j-th on the stack.       *)

NoRef == <<0, 0>>
Ref(k, next) == [kid |-> k, next |-> next]

RefAt(lv, a) ==
  CASE a[2] = -1 -> lv[a[1]].root_ref
    [] a[2] = 0 -> lv[a[1]].ref
    [] OTHER -> lv[a[1]].stack[a[2]]

PutRef(lv, a, r) ==
  CASE a[2] = -1 -> [lv EXCEPT ![a[1]].root_ref = r]
    [] a[2] = 0 -> [lv EXCEPT ![a[1]].ref = r]
    [] OTHER -> [lv EXCEPT ![a[1]].stack[a[2]] = r]

\* The chain that ends in the reference at a, from the top.
RECURSIVE Chain(_, _)
Chain(lv, a) ==
  LET next == RefAt(lv, a).next
  IN IF next = NoRef THEN <<a>> ELSE Append(Chain(lv, next), a)

\* (variant) the references below a copied tree stay where they are
Moved_never(lv, chain, old, new) == lv

\* The references at the front of the chain that stand on kid old go to new.
Moved(lv, chain, old, new) ==
  FoldLeft(LAMBDA l, a : IF RefAt(l, a).kid = old
                         THEN PutRef(l, a, Ref(new, RefAt(l, a).next)) ELSE l, lv, chain)

\* Kid k has been split, from m to m1: the references below it follow.
Follow(m, m1, lv, k, below) ==
  LET kids == Kids(m, At(m, k))
      old == RefAt(lv, Head(below)).kid
      new == Kids(m1, At(m1, k))[CHOOSE i \in DOMAIN kids : kids[i] = old]
  IN IF below = <<>> \/ At(m1, k) = At(m, k) THEN lv ELSE Moved(lv, below, old, new)

RECURSIVE SplitDown(_, _, _)
SplitDown(m, lv, chain) ==
  LET k == RefAt(lv, Head(chain)).kid
      below == SelectSeq(chain, LAMBDA a : RefAt(lv, a).kid # k)
      down(m1) == SplitDown(m1, Follow(m, m1, lv, k, below), below)
  IN IF chain = <<>> \/ m.full THEN [mem |-> m, lv |-> lv] ELSE down(split_tree(m, k))

\* The chain is cut, so that the next write does not walk it again.
Cut(lv, chain) == FoldLeft(LAMBDA l, b : PutRef(l, b, Ref(RefAt(l, b).kid, NoRef)), lv, chain)
split_ref(m, lv, a) ==
  LET cut(done) == [mem |-> done.mem, lv |-> Cut(done.lv, Chain(lv, a))]
  IN cut(SplitDown(m, lv, Chain(lv, a)))
-----------------------------------------------------------------------------
(* Iterators. *)

Matches(m, l, k) == l.search \in {AnyId, m.tree[At(m, k)].id}

\* On to the next kid, and up where there is none, until the search stops.
RECURSIVE iter_find(_, _, _, _), RecReturn(_, _, _)
iter_find(m, i, l, try_first) ==
  LET child == tree_child(m, At(m, l.ref.kid))
      stack == Append(l.stack, l.ref)
  IN CASE try_first /\ Matches(m, l, l.ref.kid) -> l
       [] ~(try_first /\ Matches(m, l, l.ref.kid)) /\ child # Null ->
            iter_find(m, i, [l EXCEPT !.stack = stack, !.ref = Ref(child, <<i, Len(stack)>>)], TRUE)
       [] OTHER -> RecReturn(m, i, l)
RecReturn(m, i, l) ==
  LET next == m.kid[l.ref.kid].next
  IN CASE l.stack = <<>> -> [l EXCEPT !.ref.kid = Null]
       [] l.stack # <<>> /\ next # Null -> iter_find(m, i, [l EXCEPT !.ref.kid = next], TRUE)
       [] OTHER -> RecReturn(m, i, [l EXCEPT !.ref = Last(l.stack), !.stack = Front(l.stack)])

tree_iter_advance(m, i, l) ==
  IF l.ref.kid = Null THEN iter_find(m, i, [l EXCEPT !.ref = l.root_ref], TRUE)
  ELSE iter_find(m, i, l, FALSE)

RECURSIVE Sibling(_, _, _)
Sibling(m, l, k) == IF k = Null \/ Matches(m, l, k) THEN k ELSE Sibling(m, l, m.kid[k].next)

tree_iter_next_child(m, i, l) ==
  LET child == tree_child(m, At(m, l.root_ref.kid))
      first == IF child = Null THEN [l EXCEPT !.ref.next = NoRef]
               ELSE [l EXCEPT !.stack = <<l.root_ref>>, !.ref.next = <<i, 1>>]
  IN IF l.ref.kid = Null THEN [first EXCEPT !.ref.kid = Sibling(m, l, child)]
     ELSE [l EXCEPT !.ref.kid = Sibling(m, l, m.kid[l.ref.kid].next)]

\* A split above the children has moved the position: load the kids again.
Reloaded(m, l) ==
  IF l.kid_at_yield = l.ref.kid THEN l.kids
  ELSE SubSeq(ListFrom(m, tree_child(m, At(m, l.root_ref.kid))), 1, Len(l.kids))

\* Stand on the last of the kids that are left.
OnLeft(l, i, left) ==
  LET ref == IF left = <<>> THEN Ref(Null, NoRef) ELSE Ref(Last(left), <<i, -1>>)
  IN [l EXCEPT !.kids = left, !.ref = ref, !.kid_at_yield = ref.kid]

tree_rev_iter_prev_child(m, i, l) ==
  LET upto(kids) == LET found == {j \in DOMAIN kids : Matches(m, l, kids[j])}
                    IN SubSeq(kids, 1, IF found = {} THEN 0 ELSE Max(found))
  IN OnLeft(l, i, upto(IF l.ref.kid = Null THEN Reloaded(m, l) ELSE Front(Reloaded(m, l))))

\* A parameter passed by reference has one position.
Advanced(m, i, l) ==
  CASE l.kind = "tree" -> tree_iter_advance(m, i, l)
    [] l.kind = "child" -> tree_iter_next_child(m, i, l)
    [] l.kind = "rev" -> tree_rev_iter_prev_child(m, i, l)

Level(m, kind, search, root) ==
  [kind |-> kind, search |-> search, root_ref |-> root,
   ref |-> IF kind = "ref" THEN root ELSE Ref(Null, NoRef), stack |-> <<>>,
   kids |-> IF kind = "rev" THEN ListFrom(m, tree_child(m, At(m, root.kid))) ELSE <<>>,
   kid_at_yield |-> Null]
-----------------------------------------------------------------------------
(* Statements. *)

Depth == Len(levels)
Top == levels[Depth]
CurRef == <<Depth, 0>>
OnElement == levels # <<>> /\ Top.ref.kid # Null
Cur == At(mem, Top.ref.kid)

Store(m, lv) == ~m.full /\ mem' = m /\ levels' = lv
\* A value that has its reference goes under kid k, if the split before it went well.
SetIn(m, lv, k, val) == ~m.full /\ Store(ref_set_value(m, k, val), lv)

\* The variable that the outermost level works on is not assigned under it.
Assignable(v) == levels # <<>> => levels[1].root_ref.kid # v

\* A careful program does not copy that variable once the chain is cut.
Readable(v) ==
  Careful /\ ~Assignable(v) => v \in {RefAt(levels, a).kid : a \in ToSet(Chain(levels, CurRef))}

\* A value read from a tree pointer, with a reference for the stack.
Pushed(m, t) == colm_tree_upref(m, t)

\* v = w
Assign(v, w) ==
  /\ v # w /\ Assignable(v) /\ Readable(w)
  /\ Store(ref_set_value(Pushed(mem, At(mem, w)), v, At(mem, w)), levels)

\* v = make_tree(id, args...)
MakeTree(v, id, args) ==
  LET attrs == [i \in 1..object_length(id) |-> Null]
      kids == attrs \o [i \in DOMAIN args |-> At(mem, args[i])]
  IN /\ Assignable(v)
     /\ \A i \in DOMAIN args : Readable(args[i]) /\ At(mem, args[i]) # Null
     /\ \E new \in {Allocate(mem, id, kids)} : SetIn(new.mem, levels, v, new.tree)

IsNode(t) == t # Null /\ mem.tree[t].id = NodeId

\* v = w.attr
GetField(v, w) ==
  /\ Assignable(v) /\ Readable(w) /\ IsNode(At(mem, w))
  /\ LET val == At(mem, get_attr_kid(mem, At(mem, w)))
     IN Store(ref_set_value(Pushed(mem, val), v, val), levels)

\* v.attr = w: the value is pushed first, then v is split.
SetField(v, w) ==
  /\ Assignable(v) /\ Readable(w) /\ IsNode(At(mem, v))
  /\ \E m \in {split_tree(Pushed(mem, At(mem, w)), v)} :
       SetIn(m, levels, get_attr_kid(m, At(m, v)), At(mem, w))

\* v.attr.attr = w: v and its attribute are split.
SetInner(v, w) ==
  /\ Assignable(v) /\ Readable(w) /\ IsNode(At(mem, v))
  /\ IsNode(At(mem, get_attr_kid(mem, At(mem, v))))
  /\ \E m1 \in {split_tree(Pushed(mem, At(mem, w)), v)} :
       /\ ~m1.full
       /\ LET k == get_attr_kid(m1, At(m1, v))
          IN \E m2 \in {split_tree(m1, k)} :
               SetIn(m2, levels, get_attr_kid(m2, At(m2, k)), At(mem, w))

\* A loop over a variable, or a call with it by reference.
EnterVar(v, kind, search) ==
  /\ levels = <<>> /\ MaxLevels > 0 /\ At(mem, v) # Null
  /\ Store(mem, <<Level(mem, kind, search, Ref(v, NoRef))>>)

\* (variant) the chain starts over at the element
EnterCur_rootless(kind, search, attr) ==
  /\ OnElement /\ Depth < MaxLevels
  /\ attr => IsNode(Cur) /\ At(mem, get_attr_kid(mem, Cur)) # Null
  /\ LET root == Ref(IF attr THEN get_attr_kid(mem, Cur) ELSE Top.ref.kid, NoRef)
     IN Store(mem, Append(levels, Level(mem, kind, search, root)))

\* The same over the element of the innermost level, or over its attribute.
EnterCur(kind, search, attr) ==
  /\ OnElement /\ Depth < MaxLevels
  /\ attr => IsNode(Cur) /\ At(mem, get_attr_kid(mem, Cur)) # Null
  /\ LET root == Ref(IF attr THEN get_attr_kid(mem, Cur) ELSE Top.ref.kid, CurRef)
     IN Store(mem, Append(levels, Level(mem, kind, search, root)))

\* The head of a loop, at its start and after each turn.
Advance ==
  /\ levels # <<>> /\ Top.kind # "ref"
  /\ \E l \in {Advanced(mem, Depth, Top)} :
       Store(mem, IF l.ref.kid = Null THEN Front(levels) ELSE [levels EXCEPT ![Depth] = l])

\* The end of a call, or a break.
Leave == OnElement /\ Store(mem, Front(levels))

\* v = elem
GetCur(v) ==
  /\ OnElement /\ Assignable(v)
  /\ Store(ref_set_value(Pushed(mem, Cur), v, Cur), levels)

\* elem = w
SetCur(w) ==
  /\ OnElement /\ Assignable(w) /\ At(mem, w) # Null
  /\ \E s \in {split_ref(Pushed(mem, At(mem, w)), levels, CurRef)} :
       SetIn(s.mem, s.lv, RefAt(s.lv, CurRef).kid, At(mem, w))

\* elem.attr = w
SetCurField(w) ==
  /\ OnElement /\ IsNode(Cur) /\ Assignable(w)
  /\ \E s \in {split_ref(Pushed(mem, At(mem, w)), levels, CurRef)} :
       SetIn(s.mem, s.lv, get_attr_kid(s.mem, At(s.mem, RefAt(s.lv, CurRef).kid)), At(mem, w))

Init == mem = EmptyMem /\ levels = <<>>

Next ==
  \/ \E v \in Var, id \in LeafId : MakeTree(v, id, <<>>)
  \/ \E v, w \in Var : MakeTree(v, NodeId, <<w>>)
  \/ \E v, w, u \in Var : MakeTree(v, PairId, <<w, u>>)
  \/ \E v, w \in Var : Assign(v, w) \/ GetField(v, w) \/ SetField(v, w) \/ SetInner(v, w)
  \/ \E v \in Var, kind \in Kinds, search \in Stops : EnterVar(v, kind, search)
  \/ \E kind \in Kinds, search \in Stops, attr \in BOOLEAN : EnterCur(kind, search, attr)
  \/ Advance
  \/ Leave
  \/ \E v \in Var : GetCur(v) \/ SetCur(v) \/ SetCurField(v)

Spec == Init /\ [][Next]_vars
=============================================================================
