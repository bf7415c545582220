------------------------------ MODULE HIRToMIR ------------------------------
(***************************************************************************)
(* passes/hir_to_mir.cpp: the tree of base blocks becomes a control-flow   *)
(* graph.  The pass walks each list backwards, handing every base block    *)
(* the block that follows it and, inside a loop, the block a continue and  *)
(* a break go to; it returns the block where the base block starts, and    *)
(* pushes each finished basic block to the front of the function's list.   *)
(***************************************************************************)
EXTENDS Compiling

PushFront(f, b) == [f EXCEPT !.list = <<b>> \o @]

\* The function ends in a loop or an if: a block that returns 0 follows it.
AppendReturn(f) ==
  LET b == NewBlock(f)
  IN [CreateRet(Create(f, "basic"), Const(0), b) EXCEPT !.list = Append(@, b)]

\* A basic block: it may end already (return, short-circuit branch), end in a
\* break or a continue (which the branch replaces), or fall through.  Of an
\* empty block the code still takes instructions().back(); the built program
\* gets a null pointer there, and the block falls through.
GenBasic(f, b, next, entry, exit) ==
  LET last == IF f.code[b] = <<>> THEN NoInstr ELSE Last(f.code[b])
      g == IF next = NoBlock /\ Terminator(f, b) = NoInstr /\ f.list = <<>>
           THEN CreateRet(f, Const(0), b)
           ELSE IF Terminator(f, b) # NoInstr THEN f
           ELSE IF last.op = "break"
           THEN CreateBranch(DropTerminator(f, b), exit, b)
           ELSE IF last.op = "continue"
           THEN CreateBranch(DropTerminator(f, b), entry, b)
           ELSE CreateBranch(f, next, b)
  IN [f |-> PushFront(g, b), bb |-> b]

HirList(f, b, field) ==
  IF <<b, field>> \in DOMAIN f.body THEN f.body[<<b, field>>] ELSE <<>>

\* The condition of an if or a loop: its last block branches on its last
\* instruction; the blocks before it only need to be listed.
RECURSIVE Gen(_, _, _, _, _), GenList(_, _, _, _, _)

GenCond(f, conds, yes, no, entry, exit) ==
  LET last == Last(conds)
      g == PushFront(CreateCondBr(f, Reg(Last(f.code[last]).r), yes, no, last), last)
  IN GenList(g, Front(conds), last, entry, exit)

Gen(f, b, next, entry, exit) ==
  LET conds == HirList(f, b, "cond")
      g  == IF next = NoBlock THEN AppendReturn(f) ELSE f
      to == IF next = NoBlock THEN NewBlock(f) ELSE next
  IN CASE f.kind[b] = "basic" -> GenBasic(f, b, next, entry, exit)
       [] f.kind[b] = "if" ->
            LET then == GenList(g, HirList(f, b, "then"), to, entry, exit)
                else == GenList(then.f, HirList(f, b, "else"), to, entry, exit)
            IN GenCond(else.f, conds, then.bb, else.bb, entry, exit)
       [] f.kind[b] = "while" ->
            LET body == GenList(g, HirList(f, b, "body"), Head(conds), Head(conds), to)
            IN GenCond(body.f, conds, body.bb, to, entry, exit)

\* A list, last element first; bb is where the list starts, next if it is empty.
GenList(f, bs, next, entry, exit) ==
  IF bs = <<>> THEN [f |-> f, bb |-> next]
  ELSE LET r == Gen(f, Last(bs), next, entry, exit)
       IN GenList(r.f, Front(bs), r.bb, entry, exit)

\* The pass, on one function whose base blocks are the list top.  The base
\* blocks are dropped at the end.
RunHIRToMIR(f, top) ==
  LET g == GenList(f, f.body[top], NoBlock, NoBlock, NoBlock).f
  IN [g EXCEPT !.body = <<>>, !.father = <<>>]
=============================================================================
