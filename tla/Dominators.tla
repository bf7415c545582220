----------------------------- MODULE Dominators -----------------------------
(***************************************************************************)
(* passes/analysis/dominators.cpp: immediate dominators by the iterative   *)
(* algorithm over the reverse post order, and the dominance frontiers.     *)
(* Blocks the entry does not reach get no dominator.                       *)
(***************************************************************************)
EXTENDS Compiling

\* postOrderVisit: the blocks in the order a depth-first search leaves them.
RECURSIVE PostOrderVisit(_, _, _), VisitSuccessors(_, _, _)
PostOrderVisit(f, b, acc) ==
  LET r == VisitSuccessors(f, f.succ[b], [acc EXCEPT !.visited = @ \cup {b}])
  IN [r EXCEPT !.order = Append(@, b)]
VisitSuccessors(f, bs, acc) ==
  IF bs = <<>> THEN acc
  ELSE VisitSuccessors(f, Tail(bs),
         IF Head(bs) \in acc.visited THEN acc ELSE PostOrderVisit(f, Head(bs), acc))

PostOrder(f) == PostOrderVisit(f, Entry(f), [visited |-> {}, order |-> <<>>]).order

\* intersect: the nearest common ancestor in the tree idom, id being the place
\* in the post order.
RECURSIVE Intersect(_, _, _, _)
Intersect(idom, id, b, c) ==
  IF b = c THEN b
  ELSE IF id[b] < id[c] THEN Intersect(idom, id, idom[b], c)
  ELSE Intersect(idom, id, b, idom[c])

NewIDom(f, idom, id, b) ==
  LET known == SelectSeq(f.pre[b], LAMBDA p : idom[p] # NoBlock)
  IN IF known = <<>> THEN NoBlock
     ELSE FoldLeft(LAMBDA d, p : IF p = Head(known) THEN d ELSE Intersect(idom, id, p, d),
                   Head(known), known)

\* createIDoms: passes over the reverse post order until nothing changes.
RECURSIVE IterateIDoms(_, _, _, _)
IterateIDoms(f, idom, id, rpo) ==
  LET next == FoldLeft(LAMBDA d, b : [d EXCEPT ![b] = NewIDom(f, d, id, b)],
                       idom, Tail(rpo))
  IN IF next = idom THEN idom ELSE IterateIDoms(f, next, id, rpo)

IDoms(f) ==
  LET order == PostOrder(f)
      id    == [b \in ToSet(order) |-> SelectInSeq(order, LAMBDA x : x = b)]
  IN IterateIDoms(f, [b \in DOMAIN f.code |-> IF b = Entry(f) THEN b ELSE NoBlock],
                  id, Reverse(order))

\* createDominaceFrontier: from every predecessor of a join up to, and without,
\* the join's dominator.
RECURSIVE Runners(_, _, _)
Runners(idom, b, stop) ==
  IF b \in {stop, NoBlock} THEN {} ELSE {b} \cup Runners(idom, idom[b], stop)

\* Slip: a join of two blocks is not seen as one.
FrontierOfThree(f, idom, b) ==
  {y \in ToSet(f.list) :
     /\ Len(f.pre[y]) > 2
     /\ \E p \in ToSet(f.pre[y]) : b \in Runners(idom, p, idom[y])}

Frontier(f, idom, b) ==
  {y \in ToSet(f.list) :
     /\ Len(f.pre[y]) >= 2
     /\ \E p \in ToSet(f.pre[y]) : b \in Runners(idom, p, idom[y])}

\* createDomTree calls a member of the dominator of every block of the list:
\* with a block the entry does not reach this is a null pointer.
Dereferences(f, idom) == {b \in ToSet(f.list) : idom[b] = NoBlock}
=============================================================================
