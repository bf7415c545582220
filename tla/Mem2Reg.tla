------------------------------ MODULE Mem2Reg ------------------------------
(***************************************************************************)
(* passes/mem2reg.cpp: local variables become registers.  One phi per      *)
(* variable is put at the head of every block of the iterated dominance    *)
(* frontier of its stores; then the blocks are visited along the edges,    *)
(* with the value of every variable carried from block to block: each      *)
(* edge adds a pair to the phis of its target, and the first visit of a    *)
(* block replaces its loads and drops its loads and stores.                *)
(***************************************************************************)
EXTENDS Dominators

VARIABLE rename  \* [vars: variables left to place; owner: phi -> variable;
                 \*  stack: renameDataStack; visited: blocks done;
                 \*  frontier: block -> dominance frontier]

NoRename == [vars |-> <<>>, owner |-> <<>>, stack |-> <<>>, visited |-> {},
             frontier |-> <<>>]

DefBlocks(f, x) ==
  {b \in ToSet(f.list) : \E i \in ToSet(f.code[b]) : i.op = "store" /\ i.ops[2] = Reg(x)}

\* Slip: the frontier is not iterated.
PhiBlocksOnce(frontier, work, visited, defs) == UNION {frontier[b] : b \in work}

\* The work list of one variable: a frontier block is visited once, and passes
\* the phi on to its own frontier when it did not store the variable before.
RECURSIVE PhiBlocks(_, _, _, _)
PhiBlocks(frontier, work, visited, defs) ==
  LET new == UNION {frontier[b] : b \in work} \ visited
  IN IF work = {} THEN visited
     ELSE PhiBlocks(frontier, new \ defs, visited \cup new, defs)

\* Slip: the phi takes the register of the instruction before it.
CreatePhiSameRegister(f, b) ==
  [f EXCEPT !.code[b] = <<Instr("phi", f.regs + 1, <<>>)>> \o @]

\* PhiInstr::createPhi: to the front of the block.
CreatePhi(f, b) ==
  [f EXCEPT !.code[b] = <<Instr("phi", f.regs + 1, <<>>)>> \o @, !.regs = @ + 1]

\* The renaming starts at the entry, every variable without a value.
StartOfRenaming ==
  <<[block |-> Entry(fn), pred |-> NoBlock,
     values |-> [x \in ToSet(fn.allocas) |-> Uncertain]]>>

\* Dominators::run, and the start of genPhi.
StartMem2Reg ==
  /\ LET idom == IDoms(fn)
     IN IF Dereferences(fn, idom) # {}
        THEN failed' = "segfault" /\ UNCHANGED rename
        ELSE /\ rename' = [NoRename EXCEPT
                  !.vars = fn.allocas,
                  !.stack = IF fn.allocas = <<>> THEN StartOfRenaming ELSE <<>>,
                  !.frontier = [b \in DOMAIN fn.code |-> Frontier(fn, idom, b)]]
             /\ UNCHANGED failed
  /\ UNCHANGED fn

\* The phis of one variable.  After the last one the renaming starts.
PlacePhis ==
  /\ failed = "no" /\ rename.vars # <<>>
  /\ LET x == Head(rename.vars)
         defs == DefBlocks(fn, x)
         at == SetToSortSeq(PhiBlocks(rename.frontier, defs, {}, defs), <)
         f == FoldLeft(CreatePhi, fn, at)
         phis == (fn.regs + 1)..(fn.regs + Len(at))
     IN /\ fn' = f
        /\ rename' = [rename EXCEPT
             !.vars = Tail(@),
             !.owner = [r \in DOMAIN @ \cup phis |-> IF r \in phis THEN x ELSE @[r]],
             !.stack = IF Len(rename.vars) > 1 THEN <<>> ELSE StartOfRenaming]
  /\ UNCHANGED failed

\* setParams on the phis at the head of block b.
ExtendPhis(f, b, pred, values, owner) ==
  [f EXCEPT !.code[b] = [k \in DOMAIN @ |->
     IF IsPhi(@[k]) THEN [@[k] EXCEPT !.ops = @ \o <<values[owner[f.code[b][k].r]], Label(pred)>>]
     ELSE @[k]]]

\* The instructions of block b from the k-th on: loads are replaced by the
\* current values and go, stores set them and go.
RECURSIVE RenameBlock(_, _, _, _, _)
RenameBlock(f, b, k, values, owner) ==
  LET i == f.code[b][k]
      gone(g) == [g EXCEPT !.code[b] = RemoveAt(@, k)]
  IN IF k > Len(f.code[b]) THEN [f |-> f, values |-> values]
     ELSE CASE i.op = "load" ->
               RenameBlock(gone(ReplaceAllUse(f, Reg(i.r), values[i.ops[1][2]])),
                           b, k, values, owner)
          [] i.op = "store" ->
               RenameBlock(gone(f), b, k, [values EXCEPT ![i.ops[2][2]] = i.ops[1]], owner)
          [] IsPhi(i) ->
               RenameBlock(f, b, k + 1, [values EXCEPT ![owner[i.r]] = Reg(i.r)], owner)
          [] OTHER -> RenameBlock(f, b, k + 1, values, owner)

\* One entry of the stack: an edge from pred to block.
RenameNext ==
  /\ failed = "no" /\ rename.vars = <<>> /\ rename.stack # <<>>
  /\ LET d == Head(rename.stack)
         f == ExtendPhis(fn, d.block, d.pred, d.values, rename.owner)
         r == RenameBlock(f, d.block, 1, d.values, rename.owner)
         next == [k \in DOMAIN f.succ[d.block] |->
                    [block |-> f.succ[d.block][k], pred |-> d.block, values |-> r.values]]
         last == Tail(rename.stack) = <<>> /\ next = <<>>
     IN IF d.block \in rename.visited
        THEN /\ fn' = f
             /\ rename' = IF Tail(rename.stack) = <<>> THEN NoRename
                          ELSE [rename EXCEPT !.stack = Tail(@)]
        ELSE /\ fn' = r.f
             /\ rename' = IF last THEN NoRename
                          ELSE [rename EXCEPT !.stack = Reverse(next) \o Tail(@),
                                              !.visited = @ \cup {d.block}]
  /\ UNCHANGED failed
=============================================================================
