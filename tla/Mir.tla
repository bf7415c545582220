--------------------------------- MODULE Mir ---------------------------------
(***************************************************************************)
(* One function of the intermediate representation, and the edits every    *)
(* pass makes to it (src/ir).  A function is a record                      *)
(*                                                                         *)
(*   kind    base block -> "basic", "if" or "while"      (BlockType)       *)
(*   father  base block -> base block or NoBlock         (_father)         *)
(*   body    <<base block, field>> -> base blocks        (the HIR lists)   *)
(*   list    basic blocks in order, the entry first      (_basic_block_list) *)
(*   code    basic block -> instructions                 (_instructions)   *)
(*   pre     basic block -> predecessors                 (_pre_bbs)        *)
(*   succ    basic block -> successors                   (_succ_bbs)       *)
(*   regs    number of registers (instructions with a value) so far        *)
(*   allocas registers of the local variables            (_allocas_list)   *)
(*   lost    block -> nodes its list still counts but no longer holds      *)
(*                                                                         *)
(* Blocks are the numbers 1, 2, ... in the order of their creation; each   *)
(* of the block fields is a sequence indexed by them.  The lists pre and   *)
(* succ are kept by hand in the code, apart from the terminators.          *)
(***************************************************************************)
EXTENDS Naturals, Sequences, SequencesExt

NoBlock == 0

\* Operands of an instruction.
Const(v)  == <<"const", v>>
Reg(r)    == <<"reg", r>>
Label(b)  == <<"block", b>>
Global(g) == <<"global", g>>
Func(g)   == <<"func", g>>
Uncertain == <<"uncertain", 0>>      \* Value::getUncertainValue()

Instr(op, r, ops) == [op |-> op, r |-> r, ops |-> ops]
NoInstr == Instr("none", 0, <<>>)

IsPhi(i)      == i.op = "phi"
IsBranch(i)   == i.op = "br" /\ Len(i.ops) = 1
IsConBranch(i) == i.op = "br" /\ Len(i.ops) = 3

EmptyFunction ==
  [kind |-> <<>>, father |-> <<>>, body |-> <<>>, list |-> <<>>,
   code |-> <<>>, pre |-> <<>>, succ |-> <<>>, regs |-> 0,
   allocas |-> <<>>, lost |-> <<>>]

----------------------------------------------------------------------------
(* Lists of blocks.                                                        *)

\* std::list::remove: every occurrence goes.
Without(s, x) == SelectSeq(s, LAMBDA y : y # x)

\* Slip: the neighbours' lists are not told.
ForgetNothing(lists, from, b) == lists

\* What removing b from the list of every block of `from' leaves.
Forget(lists, from, b) ==
  [x \in DOMAIN lists |-> IF x \in ToSet(from) THEN Without(lists[x], b)
                                               ELSE lists[x]]

----------------------------------------------------------------------------
(* Blocks and instructions.                                                *)

\* The sequence s: TLC then has every element of it.
Whole(s) == SubSeq(s, 1, Len(s))

\* f, the code of each block b of it become New(b), or each instruction New(i).
Recoded(f, New(_)) == [f EXCEPT !.code = Whole([b \in DOMAIN @ |-> New(b)])]
Rewritten(f, New(_)) ==
  Recoded(f, LAMBDA b : Whole([k \in DOMAIN f.code[b] |-> New(f.code[b][k])]))

NewBlock(f) == Len(f.code) + 1

\* std::list::size of the block's instructions.
Size(f, b) == Len(f.code[b]) + (IF b \in DOMAIN f.lost THEN f.lost[b] ELSE 0)

\* BaseBlock's constructors: a block with no father and no list yet.
Create(f, kind) ==
  [f EXCEPT !.kind = Append(@, kind), !.father = Append(@, NoBlock),
            !.code = Append(@, <<>>), !.pre = Append(@, <<>>),
            !.succ = Append(@, <<>>)]

Emit(f, b, i) == [f EXCEPT !.code[b] = Append(@, i)]

\* An instruction with a value, appended to b: it defines register f.regs + 1.
Define(f, b, op, ops) ==
  [Emit(f, b, Instr(op, f.regs + 1, ops)) EXCEPT !.regs = @ + 1]

\* The last instruction, when it is a return or a branch.
Terminator(f, b) ==
  IF f.code[b] # <<>> /\ Last(f.code[b]).op \in {"ret", "br"}
  THEN Last(f.code[b]) ELSE NoInstr

DropTerminator(f, b) == [f EXCEPT !.code[b] = Front(@)]

CreateBranch(f, to, b) ==
  Emit([f EXCEPT !.succ[b] = Append(@, to), !.pre[to] = Append(@, b)],
       b, Instr("br", 0, <<Label(to)>>))

\* The predecessors in the order true, false; the successors the other way.
CreateCondBr(f, cond, yes, no, b) ==
  LET g == [f EXCEPT !.pre[yes] = Append(@, b)]
      h == [g EXCEPT !.pre[no] = Append(@, b), !.succ[b] = @ \o <<no, yes>>]
  IN Emit(h, b, Instr("br", 0, <<cond, Label(yes), Label(no)>>))

CreateRet(f, v, b) == Emit(f, b, Instr("ret", 0, <<v>>))

\* The block leaves the list and its neighbours' lists.  Nothing is done
\* about the phis of its successors.
RemoveBasicBlock(f, b) ==
  [f EXCEPT !.list = RemoveFirst(@, b),
            !.succ = Forget(@, f.pre[b], b),
            !.pre  = Forget(@, f.succ[b], b)]

----------------------------------------------------------------------------
(* Operands.                                                               *)

\* Value::replaceAllUse: every use of v, in every block, becomes a use of w.
ReplaceAllUse(f, v, w) ==
  Rewritten(f, LAMBDA i : IF v \notin ToSet(i.ops) THEN i ELSE [i EXCEPT !.ops = Whole(ReplaceAll(@, v, w))])

\* The operands of a phi alternate: value, block it comes from.
Incoming(i) == {k \in DOMAIN i.ops : k % 2 = 0}
Sources(i)  == [k \in 1..(Len(i.ops) \div 2) |-> i.ops[2 * k][2]]

\* Instructions of the blocks in the list, and of all blocks there ever were:
\* what uses a value is looked up among the latter.
InstrsOf(f) == UNION {ToSet(f.code[b]) : b \in ToSet(f.list)}
AllInstrs(f) == UNION {ToSet(f.code[b]) : b \in DOMAIN f.code}

Uses(f, v) == {i \in AllInstrs(f) : v \in ToSet(i.ops)}

\* What defines register v, if an instruction does.
Definer(f, v) ==
  LET d == {i \in AllInstrs(f) : v[1] = "reg" /\ i.r = v[2]}
  IN IF d = {} THEN NoInstr ELSE CHOOSE i \in d : TRUE

Phis(f, b) == SelectSeq(f.code[b], IsPhi)

\* The blocks the terminator names: what the two lists should mirror.
Targets(i) == {o[2] : o \in {x \in ToSet(i.ops) : i.op = "br" /\ x[1] = "block"}}

Entry(f) == Head(f.list)

\* As much of the run-time library as is modelled.
Library == {"getint", "putint"}
=============================================================================
