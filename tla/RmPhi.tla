-------------------------------- MODULE RmPhi --------------------------------
(***************************************************************************)
(* passes/rm_phi.cpp, splitCriticalEdge: every pair of every phi becomes a *)
(* move at the end of the block it comes from, or in a new block on the    *)
(* edge when that block has other successors.  Moves are appended one      *)
(* after the other, phi by phi.                                            *)
(***************************************************************************)
EXTENDS Compiling

VARIABLE unphi  \* [blocks: blocks left to visit; inserted: insert_map]

NoUnphi == [blocks |-> <<>>, inserted |-> <<>>]

\* MovInstr::createMov: before the block's terminator.
CreateMov(f, phi, v, b) ==
  [f EXCEPT !.code[b] = Front(@) \o <<Instr("mov", phi, <<v>>), Last(@)>>]

\* A new block n on the edge from p to b.  Only the first operand of p's branch
\* that names b is changed, but every b leaves p's list and every p leaves b's.
SplitEdge(f, p, b) ==
  LET n == NewBlock(f)
      k == SelectInSeq(Terminator(f, p).ops, LAMBDA o : o = Label(b))
      g == [Create(f, "basic") EXCEPT
              !.pre[b] = Without(@, p), !.pre[n] = <<p>>,
              !.succ[p] = Append(Without(@, b), n),
              !.code[p] = Front(@) \o <<[Last(@) EXCEPT !.ops[k] = Label(n)]>>]
  IN CreateBranch(g, b, n)

\* Slip: the edge is not split, and the other successors see the move.
AddMoveUnsplit(a, b, phi, v, p) ==
  IF v = Uncertain \/ Len(a.f.pre[b]) <= 1 THEN a ELSE [a EXCEPT !.f = CreateMov(@, phi, v, p)]

\* One pair of a phi of b: value v from block p.  a.on maps the blocks whose
\* edge to b has been split to the new block.
AddMove(a, b, phi, v, p) ==
  LET from == IF p \in DOMAIN a.on THEN a.on[p] ELSE p
      n == NewBlock(a.f)
  IN IF v = Uncertain \/ Len(a.f.pre[b]) <= 1 THEN a
     ELSE IF Len(a.f.succ[from]) > 1
     THEN [f  |-> CreateMov(SplitEdge(a.f, from, b), phi, v, n),
           on |-> [x \in DOMAIN a.on \cup {from} |-> IF x = from THEN n ELSE a.on[x]],
           inserted |-> Append(a.inserted, <<from, n>>)]
     ELSE [a EXCEPT !.f = CreateMov(@, phi, v, from)]

AddMoves(a, b, i) ==
  FoldLeft(LAMBDA acc, k : AddMove(acc, b, i.r, i.ops[2 * k - 1], i.ops[2 * k][2]),
           a, [k \in 1..(Len(i.ops) \div 2) |-> k])

RmPhiBlock ==
  /\ failed = "no" /\ unphi.blocks # <<>>
  /\ LET b == Head(unphi.blocks)
         a == FoldLeft(LAMBDA acc, i : AddMoves(acc, b, i),
                       [f |-> fn, on |-> <<>>, inserted |-> unphi.inserted],
                       Phis(fn, b))
         \* the list gets the new blocks, and the phis go, after the last block
         InsertAfter(f, pair) ==
           [f EXCEPT !.list = InsertAt(@, 1 + SelectInSeq(@, LAMBDA x : x = pair[1]), pair[2])]
         g == FoldLeft(InsertAfter, a.f, a.inserted)
     IN IF Tail(unphi.blocks) # <<>>
        THEN /\ fn' = a.f
             /\ unphi' = [blocks |-> Tail(unphi.blocks), inserted |-> a.inserted]
        ELSE /\ fn' = [g EXCEPT !.code = [x \in DOMAIN @ |->
                                SelectSeq(@[x], LAMBDA i : ~IsPhi(i))]]
             /\ unphi' = NoUnphi
  /\ UNCHANGED failed
=============================================================================
