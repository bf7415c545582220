------------------------------- MODULE LowerIR -------------------------------
(***************************************************************************)
(* passes/lower_ir.cpp: address computations become multiply-adds,         *)
(* remainders become divisions, multiplications and divisions by powers of *)
(* two become shifts, and what an instruction of the target does at once   *)
(* is put together.  Each phase goes over all blocks of all functions.     *)
(* (convertRem2And is left out: its condition asks a power of two to be    *)
(* none.  Floating point is left out.)                                     *)
(***************************************************************************)
EXTENDS DeadCode, Words

\* In block b the instruction of register r gives way to `is'; v is used
\* instead of it.
InPlaceOf(f, b, r, is, v) ==
  LET g == ReplaceAllUse(f, Reg(r), v)
      put(i) == IF i.r = r THEN is ELSE <<i>>
  IN [g EXCEPT !.code[b] = FlattenSeq([k \in DOMAIN @ |-> put(@[k])]), !.regs = @ + Len(is)]

----------------------------------------------------------------------------

\* splitGEP: constant indexes make one offset, each other one a multiply-add.
\* If there is none the offset is added to the base, otherwise the last one.
SplitGEP(f, b, i) ==
  LET at  == [k \in DOMAIN i.strides |-> k]
      off == FoldLeft(LAMBDA n, k : IF IsConst(i.ops[k + 1]) THEN n + i.ops[k + 1][2] * i.strides[k] ELSE n, 0, at)
      var == SelectSeq(at, LAMBDA k : ~IsConst(i.ops[k + 1]))
      to(j) == IF j = 0 THEN Const(off) ELSE Reg(f.regs + j)
      n   == Len(var)
      mla(j) == Instr("mla", f.regs + j, <<i.ops[var[j] + 1], Const(i.strides[var[j]]), to(j - 1)>>)
      base == Instr("mla", f.regs + n + 1, <<Const(1), i.ops[1], to(n)>>)
  IN InPlaceOf(f, b, i.r, Append([j \in 1..n |-> mla(j)], base), Reg(base.r))

\* splitRem: a % b is a - a / b * b.
SplitRem(f, b, i) ==
  LET div == Instr("div", f.regs + 1, i.ops)
      mul == Instr("mul", f.regs + 2, <<Reg(div.r), i.ops[2]>>)
      sub == Instr("sub", f.regs + 3, <<i.ops[1], Reg(mul.r)>>)
  IN InPlaceOf(f, b, i.r, <<div, mul, sub>>, Reg(sub.r))

SplitBlock(f, b) ==
  LET geps == SelectSeq(f.code[b], LAMBDA i : i.op = "gep")
      rems(g) == SelectSeq(g.code[b], LAMBDA i : i.op = "rem")
      \* as it is now: an earlier one may have been an operand
      now(g, i) == Definer(g, Reg(i.r))
      g    == FoldLeft(LAMBDA h, i : SplitGEP(h, b, now(h, i)), f, geps)
  IN FoldLeft(LAMBDA h, i : SplitRem(h, b, now(h, i)), g, rems(g))

----------------------------------------------------------------------------

\* What instruction i amounts to, or Unknown: a + 0 (unless it is the address of
\* a global), a - 0, a * 0, a * 1 and a / 1.
Trivially(i) ==
  LET x == i.ops[1]
      y == i.ops[2]
      unlessGlobal(v) == IF IsGlobal(v) THEN Unknown ELSE v
  IN CASE i.op = "add" /\ x = Const(0) -> unlessGlobal(y)
       [] i.op = "add" /\ y = Const(0) -> unlessGlobal(x)
       [] i.op = "sub" /\ y = Const(0) -> x
       [] i.op = "mul" /\ x \in {Const(0), Const(1)} -> IF x = Const(0) THEN x ELSE y
       [] i.op = "mul" /\ y \in {Const(0), Const(1)} -> IF y = Const(0) THEN y ELSE x
       [] i.op = "div" /\ y = Const(1) -> x
       [] OTHER -> Unknown

\* deleteUnusedInstr: a - 0 and a / 1 are the last the block is searched for.
DeleteUnused(f, b) ==
  LET one(a, r) ==
        LET i == Definer(a.f, Reg(r))
            v == Trivially(i)
        IN IF a.over \/ v = Unknown THEN a
           ELSE [f |-> InPlaceOf(a.f, b, r, <<>>, v), over |-> i.op \in {"sub", "div"}]
      rs == SelectSeq([k \in DOMAIN f.code[b] |-> f.code[b][k].r], LAMBDA r : r # 0)
  IN FoldLeft(one, [f |-> f, over |-> FALSE], rs).f

\* isPowerOfTwo, of what fits an int: the least int is one.
PowersOfTwo == {2^s : s \in 0..(Width - 2)} \cup {-(2^(Width - 1))}
IsPowerOfTwo(o) == IsConst(o) /\ Wrap(o[2]) \in PowersOfTwo

\* ceil(log2(v)), converted to int: the logarithm of the least int is no number.
Log2(o) == IF Wrap(o[2]) < 0 THEN -(2^(Width - 1)) ELSE CHOOSE s \in 0..(Width - 2) : 2^s = Wrap(o[2])

\* A division by 2^s: 2^s - 1 is added first to a dividend below zero.
DivToShift(f, b, i) ==
  LET s == Log2(i.ops[2])
      sign  == Instr("ashr", f.regs + 1, <<i.ops[1], Const(Width - 1)>>)
      round == Instr("lshr", f.regs + 2, <<Reg(sign.r), Const(Width - s)>>)
      add   == Instr("add", f.regs + 3, <<Reg(round.r), i.ops[1]>>)
      ashr  == Instr("ashr", f.regs + 4, <<Reg(add.r), Const(s)>>)
  IN InPlaceOf(f, b, i.r, <<sign, round, add, ashr>>, Reg(ashr.r))

MulToShift(f, b, i, v, power) ==
  LET shl == Instr("shl", f.regs + 1, <<v, Const(Log2(power))>>)
  IN InPlaceOf(f, b, i.r, <<shl>>, Reg(shl.r))

\* comvertMulDiv2Shift.
ToShifts(f, b) ==
  LET one(g, j) ==
        LET i == Definer(g, Reg(j.r))
        IN CASE i.op = "mul" /\ IsPowerOfTwo(i.ops[1]) -> MulToShift(g, b, i, i.ops[2], i.ops[1])
             [] i.op = "mul" /\ IsPowerOfTwo(i.ops[2]) -> MulToShift(g, b, i, i.ops[1], i.ops[2])
             [] i.op = "div" /\ IsPowerOfTwo(i.ops[2]) -> DivToShift(g, b, i)
             [] OTHER -> g
  IN FoldLeft(one, f, SelectSeq(f.code[b], LAMBDA i : i.op \in {"mul", "div"}))

----------------------------------------------------------------------------

NoUses(f, i) == Uses(f, Reg(i.r)) = {}

\* deleteMla and deleteAddMul: those of the given operations that nobody uses.
DeleteUnusedOf(f, b, ops) ==
  FoldLeft(LAMBDA g, i : IF NoUses(g, i) THEN InPlaceOf(g, b, i.r, <<>>, Unknown) ELSE g, f,
           SelectSeq(f.code[b], LAMBDA i : i.op \in ops))

\* convertMlaLoad2LoadOffset: a load or store through base + offset takes both
\* as operands.  (Such an address always is a multiply-add of 1.)
ToOffset(f, i) ==
  LET ptr == Definer(f, PtrOf(i))
      whole == Len(i.ops) = (IF i.op = "load" THEN 1 ELSE 2)
  IN IF i.op \notin {"load", "store"} \/ ~whole \/ ptr.op # "mla" THEN i
     ELSE [i EXCEPT !.ops = (IF i.op = "store" THEN <<@[1]>> ELSE <<>>) \o Tail(ptr.ops)]

UseOffsets(f, b) ==
  DeleteUnusedOf([f EXCEPT !.code[b] = Whole([k \in DOMAIN @ |-> ToOffset(f, @[k])])], b, {"mla"})

\* How often v is an operand.
UseCount(f, v) ==
  FoldLeft(LAMBDA n, i : n + Len(SelectSeq(i.ops, LAMBDA o : o = v)), 0, FlattenSeq(f.code))

\* A product of block b that is used once.
Joins(f, b, v) == LET d == Definer(f, v)
                  IN d.op = "mul" /\ d \in ToSet(f.code[b]) /\ UseCount(f, v) = 1

\* The sum of product v and w: the product leaves its block with its operands.
JoinMla(f, b, i, v, w) ==
  LET mul == Definer(f, v)
      mla == Instr("mla", f.regs + 1, mul.ops \o <<w>>)
      g   == InPlaceOf(f, b, i.r, <<mla>>, Reg(mla.r))
  IN Bury([g EXCEPT !.code[b] = SelectSeq(@, LAMBDA j : j # mul)], <<mul>>)

\* convert2Mla, then deleteAddMul.
ToMla(f, b) ==
  LET one(g, j) ==
        LET i == Definer(g, Reg(j.r))
        IN CASE Joins(g, b, i.ops[1]) -> JoinMla(g, b, i, i.ops[1], i.ops[2])
             [] Joins(g, b, i.ops[2]) -> JoinMla(g, b, i, i.ops[2], i.ops[1])
             [] OTHER -> g
      all == FoldLeft(one, f, SelectSeq(f.code[b], LAMBDA i : i.op = "add"))
  IN DeleteUnusedOf(all, b, {"add", "mul"})

----------------------------------------------------------------------------

\* LowerIR::run for one function: no phase looks at another function.
RunLowerIR(f) ==
  LET split   == FoldLeft(SplitBlock, f, f.list)
      deleted == FoldLeft(DeleteUnused, split, f.list)
      shifted == FoldLeft(ToShifts, deleted, f.list)
      offsets == FoldLeft(UseOffsets, shifted, f.list)
  IN FoldLeft(ToMla, offsets, f.list)
=============================================================================
