--------------------------- MODULE MirSimplifyCFG ---------------------------
(***************************************************************************)
(* passes/mir_simplify_cfg.cpp: eight sweeps over the function's blocks,   *)
(* each collecting the blocks it makes superfluous and removing them when  *)
(* it is over.  One action is one block visited by one sweep, so that what *)
(* a sweep does to the edges of blocks it has already passed, or has yet   *)
(* to reach, is kept.                                                      *)
(***************************************************************************)
EXTENDS Compiling

VARIABLE sweep   \* [todo: sweeps left, the current first; blocks: blocks left
                 \*  for it; dead: wait_delete]

Sweeps == <<"deleteCondBr", "removeNoPredecessor", "eliminateSinglePhi",
            "mergeSinglePredecessor", "eliminateSingleUnCondBr",
            "removeSelfLoop", "removeNoPredecessor", "eliminateSinglePhi">>

NoSweep == [todo |-> <<>>, blocks |-> <<>>, dead |-> <<>>]
FirstSweep(f) == [todo |-> Sweeps, blocks |-> f.list, dead |-> <<>>]

At(name) == /\ failed = "no" /\ sweep.todo # <<>> /\ Head(sweep.todo) = name
            /\ sweep.blocks # <<>>
Cur == Head(sweep.blocks)

Pass      == sweep' = [sweep EXCEPT !.blocks = Tail(@)]
PassDead  == sweep' = [sweep EXCEPT !.blocks = Tail(@), !.dead = Append(@, Cur)]
Fail(why) == failed' = why /\ UNCHANGED <<fn, sweep>>

----------------------------------------------------------------------------
(* Phis and the blocks they come from.                                     *)

\* Slip: the edge goes and the phis are left alone.
DropNone(ops, k, b) == ops

\* Drops the pairs of phi i that come from b.  The scan goes on after the pair
\* that moved up into the place of a dropped one without looking at it.
RECURSIVE DropFrom(_, _, _)
DropFrom(ops, k, b) ==
  IF k > Len(ops) THEN ops
  ELSE DropFrom(IF ops[k] = Label(b) THEN RemoveAt(RemoveAt(ops, k), k - 1) ELSE ops,
                k + 2, b)

DropIncoming(f, x, b) ==
  [f EXCEPT !.code[x] = [k \in DOMAIN @ |->
     IF IsPhi(@[k]) THEN [@[k] EXCEPT !.ops = DropFrom(@, 2, b)] ELSE @[k]]]

DropIncomingOfAll(f, xs, b) == FoldLeft(LAMBDA g, x : DropIncoming(g, x, b), f, xs)

----------------------------------------------------------------------------

\* A branch on a constant becomes a branch to the side taken.
DeleteCondBr ==
  /\ At("deleteCondBr")
  /\ LET b  == Cur
         br == Terminator(fn, b)
         to == IF br.ops[1] = Const(0) THEN br.ops[3][2] ELSE br.ops[2][2]
         f  == [DropTerminator(fn, b) EXCEPT !.pre = Forget(@, fn.succ[b], b)]
         g  == DropIncomingOfAll(f, Without(fn.succ[b], to), b)
     IN fn' = IF IsConBranch(br) /\ br.ops[1][1] = "const"
              THEN CreateBranch([g EXCEPT !.succ[b] = <<>>], to, b) ELSE fn
  /\ Pass
  /\ UNCHANGED failed

\* A block nothing leads to, the entry apart.
RemoveNoPredecessor ==
  /\ At("removeNoPredecessor")
  /\ LET b == Cur IN
       IF fn.pre[b] = <<>> /\ b # Entry(fn)
       THEN /\ fn' = DropIncomingOfAll([fn EXCEPT !.pre = Forget(@, fn.succ[b], b)],
                                       fn.succ[b], b)
            /\ PassDead
       ELSE UNCHANGED fn /\ Pass
  /\ UNCHANGED failed

\* The phis of block b, one after the other, each replaced by its only value:
\* the function, or the reason the compiler stops.
RECURSIVE ReplacePhis(_, _, _)
ReplacePhis(f, b, k) ==
  LET i == f.code[b][k]
      from == IF f.pre[b] = <<>> THEN NoBlock ELSE Head(f.pre[b])
      g == ReplaceAllUse(f, Reg(i.r), i.ops[1])
  IN IF k > Len(f.code[b]) THEN [f |-> f, why |-> "no"]
     ELSE IF ~IsPhi(i) THEN ReplacePhis(f, b, k + 1)
     ELSE IF Len(i.ops) # 2 THEN [f |-> f, why |-> "346"]
     ELSE IF i.ops[2][2] \notin {Entry(f), from} THEN [f |-> f, why |-> "347"]
     ELSE IF i.ops[1] = Reg(i.r) THEN [f |-> f, why |-> "hang"]
     ELSE ReplacePhis(g, b, k + 1)

EliminateSinglePhi ==
  /\ At("eliminateSinglePhi")
  /\ LET b == Cur
         r == ReplacePhis(fn, b, 1)
     IN IF Len(fn.pre[b]) # 1 /\ b # Entry(fn)
        THEN Pass /\ UNCHANGED <<fn, failed>>
        ELSE IF r.why # "no" THEN Fail(r.why)
        ELSE /\ fn' = [r.f EXCEPT !.code[b] = SelectSeq(@, LAMBDA i : ~IsPhi(i))]
             /\ Pass
             /\ UNCHANGED failed

\* A block whose only predecessor leads nowhere else moves to its end.  A block
\* that is its own predecessor would be copied for ever.  (The superfluous block
\* goes on listing the instructions, but they are in the other one.)
MergeSinglePredecessor ==
  /\ At("mergeSinglePredecessor")
  /\ LET b   == Cur
         p   == Head(fn.pre[b])
         br  == Terminator(fn, p)
         f   == [DropTerminator(fn, p) EXCEPT !.code[p] = @ \o fn.code[b],
                                              !.code[b] = <<>>,
                                              !.succ[p] = fn.succ[b],
                                              !.pre = Forget(@, fn.succ[b], b)]
         \* p instead of b, once for each edge from b
         h   == [f EXCEPT !.pre = [x \in DOMAIN @ |->
                   @[x] \o [k \in DOMAIN SelectSeq(fn.succ[b], LAMBDA y : y = x) |-> p]]]
     IN IF Len(fn.pre[b]) # 1 THEN Pass /\ UNCHANGED <<fn, failed>>
        ELSE IF br = NoInstr THEN Fail("343")
        ELSE IF br.op # "br" THEN Fail("344")
        ELSE IF ~IsBranch(br) THEN Pass /\ UNCHANGED <<fn, failed>>
        ELSE IF p = b THEN Fail("hang")
        ELSE /\ fn' = ReplaceAllUse(h, Label(b), Label(p))
             /\ PassDead
             /\ UNCHANGED failed

\* In phi i of the block after b: the pair from b becomes the pair from b's
\* first predecessor, and every other predecessor gets a pair at the end.
RECURSIVE FromPredecessors(_, _, _, _)
FromPredecessors(ops, k, b, ps) ==
  IF k > Len(ops) THEN ops
  ELSE IF ops[k] # Label(b) \/ ps = <<>> THEN FromPredecessors(ops, k + 2, b, ps)
  ELSE LET others == FlattenSeq([j \in DOMAIN Tail(ps) |-> <<ops[k - 1], Label(Tail(ps)[j])>>])
       IN FromPredecessors(ReplaceAt(ops, k, Label(Head(ps))) \o others, k + 2, b, ps)

\* A predecessor that already chooses between b and where b leads: its branch
\* would have two equal sides.
AlreadyLeadsTo(f, p, b, to) ==
  LET br == Terminator(f, p)
  IN IsConBranch(br) /\ {br.ops[2], br.ops[3]} = {Label(b), Label(to)}

\* A block that only branches on: its predecessors branch there themselves.
\* The uses of the block are rewritten while their list is walked, so a block
\* that branches to itself adds to the list what it takes from it.
EliminateSingleUnCondBr ==
  /\ At("eliminateSingleUnCondBr")
  /\ LET b   == Cur
         br  == Terminator(fn, b)
         to  == br.ops[1][2]
         ps  == fn.pre[b]
         f   == [fn EXCEPT !.code[to] = [k \in DOMAIN @ |->
                   IF IsPhi(@[k]) THEN [@[k] EXCEPT !.ops = FromPredecessors(@, 2, b, ps)]
                   ELSE @[k]]]
         g   == ReplaceAllUse(f, Label(b), Label(to))
         used == \E x \in DOMAIN f.code : \E i \in ToSet(f.code[x]) :
                   IsPhi(i) /\ Label(b) \in ToSet(i.ops)
     IN IF \/ Size(fn, b) # 1 \/ b = Entry(fn) \/ ~IsBranch(br)
           \/ \E p \in ToSet(ps) : AlreadyLeadsTo(fn, p, b, to)
        THEN Pass /\ UNCHANGED <<fn, failed>>
        ELSE IF to = b THEN Fail("hang")
        ELSE IF used THEN Fail("345")
        ELSE /\ fn' = [g EXCEPT
                  !.succ = [x \in DOMAIN @ |->
                     Without(@[x], IF x \in ToSet(ps) THEN b ELSE NoBlock)
                       \o [k \in DOMAIN SelectSeq(ps, LAMBDA p : p = x) |-> to]],
                  !.pre[to] = Without(@, b) \o ps]
             /\ PassDead
             /\ UNCHANGED failed

\* A block that is its own and only predecessor.
RemoveSelfLoop ==
  /\ At("removeSelfLoop")
  /\ IF fn.pre[Cur] = <<Cur>> THEN PassDead ELSE Pass
  /\ UNCHANGED <<fn, failed>>

\* A sweep is over: its superfluous blocks leave the function.
FinishSweep ==
  /\ failed = "no" /\ sweep.todo # <<>> /\ sweep.blocks = <<>>
  /\ fn' = FoldLeft(RemoveBasicBlock, fn, sweep.dead)
  /\ sweep' = [todo |-> Tail(sweep.todo), dead |-> <<>>,
               blocks |-> IF Len(sweep.todo) = 1 THEN <<>> ELSE fn'.list]
  /\ UNCHANGED failed

SimplifyNext ==
  \/ DeleteCondBr \/ RemoveNoPredecessor \/ EliminateSinglePhi
  \/ MergeSinglePredecessor \/ EliminateSingleUnCondBr \/ RemoveSelfLoop
  \/ FinishSweep
=============================================================================
