------------------------------ MODULE TreeValues ------------------------------
(***************************************************************************)
(* What trees are to a colm program: values.  Each variable holds a value  *)
(* of its own; an assignment, also to a part of a tree or to the element   *)
(* of a loop, changes that variable and no other; a loop visits the tree   *)
(* as it is by then, in document order, or its children, in either order.  *)
(***************************************************************************)
EXTENDS Integers, Sequences, SequencesExt

CONSTANTS Var, Null, LeafId, NodeId, PairId, AnyId, Kinds, Stops

VARIABLES
  val,       \* the value of each variable: Null or [id, attr, kids]
  pos        \* the open loops and calls: kind, search, root and at; a place is
             \* a variable and steps down from it, 0 to the attribute

vars == <<val, pos>>

RECURSIVE SubTerm(_, _)
SubTerm(t, steps) ==
  IF steps = <<>> THEN t
  ELSE SubTerm(IF Head(steps) = 0 THEN t.attr ELSE t.kids[Head(steps)], Tail(steps))

RECURSIVE WithTerm(_, _, _)
WithTerm(t, steps, u) ==
  CASE steps = <<>> -> u
    [] steps # <<>> /\ Head(steps) = 0 -> [t EXCEPT !.attr = WithTerm(@, Tail(steps), u)]
    [] OTHER -> [t EXCEPT !.kids[Head(steps)] = WithTerm(@, Tail(steps), u)]

ValueAt(p) == SubTerm(val[Head(p)], Tail(p))
Write(p, u) == val' = [val EXCEPT ![Head(p)] = WithTerm(@, Tail(p), u)]

\* The places in a tree, relative to it, in the order of a loop.
RECURSIVE PreOrder(_)
PreOrder(t) ==
  <<<<>>>> \o FlattenSeq([i \in DOMAIN t.kids |->
                LET below == PreOrder(t.kids[i])
                IN [j \in DOMAIN below |-> <<i>> \o below[j]]])

Order(kind, t) ==
  CASE kind = "ref" -> <<<<>>>>
    [] kind = "tree" -> PreOrder(t)
    [] kind = "child" -> [i \in DOMAIN t.kids |-> <<i>>]
    [] kind = "rev" -> Reverse([i \in DOMAIN t.kids |-> <<i>>])

\* The places that a loop has yet to visit.
Ahead(l) ==
  LET places == [i \in DOMAIN Order(l.kind, ValueAt(l.root)) |->
                   l.root \o Order(l.kind, ValueAt(l.root))[i]]
      done == IF l.at = <<>> THEN 0 ELSE CHOOSE i \in DOMAIN places : places[i] = l.at
  IN SelectSeq(SubSeq(places, done + 1, Len(places)),
               LAMBDA p : l.search \in {AnyId, ValueAt(p).id})

Top == Last(pos)
OnElement == pos # <<>> /\ Top.at # <<>>

Made(v, id, args) ==
  Write(<<v>>, [id |-> id, attr |-> Null, kids |-> [i \in DOMAIN args |-> val[args[i]]]])
Assign(v, w) == Write(<<v>>, val[w])
HasAttr(t) == t # Null /\ t.id = NodeId
GetField(v, w) == HasAttr(val[w]) /\ Write(<<v>>, val[w].attr)
SetField(v, w) == HasAttr(val[v]) /\ Write(<<v, 0>>, val[w])
SetInner(v, w) == HasAttr(val[v]) /\ HasAttr(val[v].attr) /\ Write(<<v, 0, 0>>, val[w])
GetCur(v) == OnElement /\ Write(<<v>>, ValueAt(Top.at))
SetCur(w) == OnElement /\ Write(Top.at, val[w])
SetCurField(w) == OnElement /\ HasAttr(ValueAt(Top.at)) /\ Write(Append(Top.at, 0), val[w])

Enter(kind, search, root) ==
  pos' = Append(pos, [kind |-> kind, search |-> search, root |-> root,
                      at |-> IF kind = "ref" THEN root ELSE <<>>])

Advance ==
  /\ pos # <<>> /\ Top.kind # "ref"
  /\ pos' = IF Ahead(Top) = <<>> THEN Front(pos)
            ELSE [pos EXCEPT ![Len(pos)].at = Head(Ahead(Top))]

Init == val = [v \in Var |-> Null] /\ pos = <<>>

Next ==
  \/ /\ UNCHANGED pos
     /\ \E v, w \in Var :
          \/ \E id \in LeafId : Made(v, id, <<>>)
          \/ Made(v, NodeId, <<w>>) \/ \E u \in Var : Made(v, PairId, <<w, u>>)
          \/ Assign(v, w) \/ GetField(v, w) \/ SetField(v, w) \/ SetInner(v, w)
          \/ GetCur(v) \/ SetCur(v) \/ SetCurField(v)
  \/ /\ UNCHANGED val
     /\ \/ \E kind \in Kinds, search \in Stops :
            \/ pos = <<>> /\ \E v \in Var : Enter(kind, search, <<v>>)
            \/ OnElement /\ \E root \in {Top.at, Append(Top.at, 0)} : Enter(kind, search, root)
        \/ Advance
        \/ OnElement /\ pos' = Front(pos)

Spec == Init /\ [][Next]_vars
=============================================================================
