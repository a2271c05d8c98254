------------------------------ MODULE MCTreeHeap ------------------------------
(* Properties of TreeHeap and their instances. *)
EXTENDS TreeHeap

TypeOK ==
  /\ mem.tree \in [Tree -> {Free} \cup [id : LeafId \cup {NodeId, PairId}, refs : Nat \ {0},
                                         child : Kid \cup {Null}]]
  /\ mem.kid \in [Kid \cup Var -> {Free} \cup [tree : Tree \cup {Null}, next : Kid \cup {Null}]]
  /\ Len(levels) <= MaxLevels

Used(f) == {i \in DOMAIN f : f[i] # Free}
Pointers(t) == {k \in Used(mem.kid) : At(mem, k) = t}

\* Every tree counts the kids and variables that point to it, nothing that is
\* in use was freed, and nothing that is not is kept: split_ref, split_tree and
\* the statements give each reference up once (tree.c:870-960, 1341-1392).
RefsExact ==
  /\ \A t \in Used(mem.tree) : mem.tree[t].refs = Cardinality(Pointers(t))
  /\ \A k \in Used(mem.kid) : At(mem, k) \in Used(mem.tree) \cup {Null}
  /\ \A t \in Used(mem.tree) : Pointers(t) # {}

\* "Kids are never shared" (tree.h:70): each belongs to the list of one tree or
\* is a variable; the lists end, and leave no kid out.
KidsUnshared ==
  LET heads == {mem.tree[t].child : t \in Used(mem.tree)}
      nexts(k) == {j \in Used(mem.kid) : mem.kid[j].next = k}
      firsts(k) == {t \in Used(mem.tree) : mem.tree[t].child = k}
  IN /\ heads \subseteq Used(mem.kid) \cup {Null}
     /\ \A k \in Used(mem.kid) \ Var : Cardinality(nexts(k)) + Cardinality(firsts(k)) = 1
     /\ \A k \in Used(mem.kid) : mem.kid[k].next \in (Used(mem.kid) \ Var) \cup {Null}

\* The heap is as its counts and lists say: well typed, every reference counted,
\* every kid in one place, after any number of splits (tree.c, iter.c).
HeapExact == TypeOK /\ RefsExact /\ KidsUnshared

\* Where a level stands: a path from its variable through the trees that the
\* references on its stack go through; -1 is a step to a kid that is not there.
\* The root_ref of a loop is copied when it starts, and not used again by the
\* loops forward.
RootKid(l) ==
  CASE l.stack # <<>> -> l.stack[1].kid
    [] l.stack = <<>> /\ l.kind # "rev" /\ l.ref.kid # Null -> l.ref.kid
    [] OTHER -> l.root_ref.kid

Step(up, k) ==
  LET kids == ListFrom(mem, tree_child(mem, At(mem, up)))
      here == {j \in DOMAIN kids : kids[j] = k}
  IN IF here = {} THEN -1 ELSE Min(here)

StepsOf(l) ==
  LET down == [j \in DOMAIN l.stack |-> l.stack[j].kid] \o <<l.ref.kid>>
  IN IF l.kind = "rev" THEN <<Step(l.root_ref.kid, l.ref.kid)>>
     ELSE [j \in DOMAIN l.stack |-> Step(down[j], down[j + 1])]

RECURSIVE RootPath(_), AtPath(_)
RootPath(i) ==
  IF i = 1 THEN <<RootKid(levels[1])>>
  ELSE IF RootKid(levels[i]) = levels[i - 1].ref.kid THEN AtPath(i - 1)
  ELSE Append(AtPath(i - 1), 0)
AtPath(i) ==
  IF levels[i].ref.kid = Null THEN <<>> ELSE RootPath(i) \o StepsOf(levels[i])

\* All the positions of loops and calls are in the trees of their variable,
\* also after the trees above were copied under them (tree.c:1341-1392).
OnPath ==
  \A i \in DOMAIN levels :
    /\ levels[i].ref.kid # Null => -1 \notin ToSet(StepsOf(levels[i]))
    /\ i = 1 => RootKid(levels[i]) \in Var
    /\ i > 1 =>
         LET up == levels[i - 1].ref.kid
         IN RootKid(levels[i]) \in {up} \cup
              (IF IsNode(At(mem, up)) THEN {get_attr_kid(mem, At(mem, up))} ELSE {})

\* "The chain goes up the list of kids to the root of the reference and tells us
\* which trees we need to split so they are not shared before we can modify a
\* node in a tree" (tree.h:80): a tree on the way down to the position that has
\* other references is under a kid of the chain, also after the chain was cut,
\* loops went on and others were opened under them.
ChainTells ==
  OnElement =>
    LET onChain == {RefAt(levels, a).kid : a \in ToSet(Chain(levels, CurRef))}
        way(l) == {RootKid(l), l.ref.kid} \cup {l.stack[j].kid : j \in DOMAIN l.stack}
    IN \A k \in UNION {way(levels[i]) : i \in DOMAIN levels} :
         mem.tree[At(mem, k)].refs > 1 => k \in onChain

\* No tree is deeper than there are cells.
RECURSIVE Term(_, _)
Term(t, depth) ==
  IF t = Null \/ depth = 0 THEN Null
  ELSE LET kids == ListFrom(mem, tree_child(mem, t))
       IN [id |-> mem.tree[t].id,
           attr |-> IF IsNode(t) THEN Term(At(mem, get_attr_kid(mem, t)), depth - 1) ELSE Null,
           kids |-> [i \in DOMAIN kids |-> Term(At(mem, kids[i]), depth - 1)]]

Values == [v \in Var |-> Term(At(mem, v), MaxTrees)]
Positions ==
  [i \in DOMAIN levels |-> [kind |-> levels[i].kind, search |-> levels[i].search,
                            root |-> RootPath(i), at |-> AtPath(i)]]

\* What the cells and references stand for.
VARIABLES val, pos

HInit == Init /\ val = Values /\ pos = Positions
HNext == Next /\ val' = Values' /\ pos' = Positions'
HSpec == HInit /\ [][HNext]_<<vars, val, pos>>

Abstract == INSTANCE TreeValues

\* Sharing and splitting are never seen: trees are values, one variable's
\* writes change no other, and the loops visit what they should.
Refines == Abstract!Spec

(* States that differ only in the numbers of the cells, or in the root_ref *)
(* of a loop forward that has begun, which is not read again, are one.     *)

RECURSIVE Reach(_, _)
Reach(found, todo) ==
  CASE todo = <<>> -> found
    [] todo # <<>> /\ Head(todo) \in ToSet(found) \cup {Null} -> Reach(found, Tail(todo))
    [] OTHER -> LET kids == Kids(mem, Head(todo))
                IN Reach(Append(found, Head(todo)),
                         [i \in DOMAIN kids |-> At(mem, kids[i])] \o Tail(todo))

Shape ==
  LET roots == SetToSeq(Var)
      order == Reach(<<>>, [i \in DOMAIN roots |-> At(mem, roots[i])] \o <<>>)
      lists == [i \in DOMAIN order |-> Kids(mem, order[i])] \o <<>>
      num(t) == IF t = Null THEN 0 ELSE CHOOSE i \in DOMAIN order : order[i] = t
      place(k) == IF k \in Var \cup {Null} THEN k
                  ELSE LET own == {i \in DOMAIN order : k \in ToSet(lists[i])}
                       IN IF own = {} THEN <<k>>
                          ELSE LET i == Min(own) IN <<i, CHOOSE j \in DOMAIN lists[i] : lists[i][j] = k>>
      ref(r) == <<place(r.kid), r.next>>
      fresh(l) == l.kid_at_yield = l.ref.kid
  IN <<val, pos, [v \in Var |-> num(At(mem, v))],
       [i \in DOMAIN order |-> <<mem.tree[order[i]].id, mem.tree[order[i]].refs,
                                 [j \in DOMAIN lists[i] |-> num(At(mem, lists[i][j]))]>>],
       [i \in DOMAIN levels |->
          LET l == levels[i]
          IN <<l.kind, l.search, ref(l.ref), fresh(l),
               IF l.kind = "rev" \/ l.ref.kid = Null THEN ref(l.root_ref) ELSE <<>>,
               [j \in DOMAIN l.stack |-> ref(l.stack[j])],
               [j \in DOMAIN l.kids |-> place(l.kids[j])]>>]>>

\* No statement tells the variables apart.
Symmetry == Permutations(Var)
=============================================================================
