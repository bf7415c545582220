----------------------------- MODULE AsmBuilder -----------------------------
(***************************************************************************)
(* The code generator (src/asm/asm_builder.cpp): the instructions for a    *)
(* function whose values have registers, its entry and its exit, and the   *)
(* passing of arguments.  A call's arguments that do not fit in registers  *)
(* are stored below sp, where the frame of the function called will be: so *)
(* its size has to be known, and to be right.                              *)
(***************************************************************************)
EXTENDS Spill, AsmInstr

CONSTANT Pads    \* r4 .. r9: pushed to keep the stack aligned

----------------------------------------------------------------------------
(* Registers of values.                                                    *)

\* getRegIndexOfValue: the real register, or NoReg.
Holder(a, v, at) ==
  LET r == RegOf(a, v, at) IN IF r = NoReg THEN NoReg ELSE Vir2Real(r)

\* getValuePosition: [n: register or offset, inReg]
Position(a, v, at) ==
  IF Holder(a, v, at) # NoReg THEN [n |-> Holder(a, v, at), inReg |-> TRUE]
  ELSE [n |-> IF v[1] = "reg" THEN SlotOf(a, v, at) ELSE NoReg, inReg |-> FALSE]

Ascending(list) == SortSeq(list, LAMBDA x, y : x < y)

\* Slip: the registers above those of the arguments are thought free to use.
SavedNone(n) == {r \in CalleeSaved : r < n /\ r < 2 * ArgRegs - 1}

\* getCalleeSavedRegisters of a function that uses the first n registers.  One that
\* uses none is taken for a library function; only there r11 is among them.
SavedRegisters(n) ==
  IF n = 0 THEN CalleeSaved
  ELSE {r \in CalleeSaved : r < n /\ r < temp_reg}

Frame(n, size) ==
  LET saved == 8 + 4 * Cardinality(SavedRegisters(n))
      odd == (size + saved) % 16
  IN [saved |-> saved, stack |-> IF odd = 0 THEN size ELSE size + 16 - odd]

\* A function that is not of the unit has none.
FrameOf(frames, name) ==
  IF name \in DOMAIN frames THEN frames[name] ELSE [saved |-> 0, stack |-> 0]

----------------------------------------------------------------------------
(* Entry and exit.                                                         *)

PushedAtEntry(a, last) ==
  Ascending(SetToSeq(SavedRegisters(a.used)) \o <<fp, last>>)

MoveArguments(f) ==
  FlattenSeq([k \in 1..(IF Len(f.args) < ArgRegs THEN Len(f.args) ELSE ArgRegs) |->
                mov(k - 1 + ArgRegs, k - 1)])

EntryCode(f, a, frame) ==
  push(PushedAtEntry(a, lr)) \o instConst("sub", sp, sp, frame.stack) \o MoveArguments(f)

ExitCode(a, frame) ==
  instConst("add", sp, sp, frame.stack) \o pop(PushedAtEntry(a, pc))

----------------------------------------------------------------------------
(* Calls.                                                                  *)

\* Where the value register r had before the arguments were set is saved.
SavedAt(saved, r) ==
  LET k == SelectInSeq(saved, LAMBDA x : x = r) IN IF k = 0 THEN NoReg ELSE 4 * (k - 1)

\* Slip: an argument is taken from its register though it holds another now.
PassOverwritten(a, v, at, k, saved) ==
  LET p == Position(a, v, at)
  IN IF v[1] = "const" THEN setValue(k, v[2])
     ELSE IF ~p.inReg THEN load(k, sp, p.n + 4 * Len(saved)) ELSE mov(k, p.n)

\* The k-th argument, from 0, goes to register k.
PassInRegister(a, v, at, k, saved) ==
  LET p == Position(a, v, at)
  IN IF v[1] = "const" THEN setValue(k, v[2])
     ELSE IF ~p.inReg THEN load(k, sp, p.n + 4 * Len(saved))
     ELSE IF p.n >= k THEN mov(k, p.n)
     ELSE IF SavedAt(saved, p.n) = NoReg THEN <<AsmError(2)>>
     ELSE load(k, sp, SavedAt(saved, p.n))

\* The k-th argument goes to the frame the function called will have.
PassOnStack(a, v, at, k, saved, frame) ==
  LET p  == Position(a, v, at)
      to == 4 * (k - ArgRegs) - frame.saved - frame.stack
  IN IF v[1] = "const" THEN setValue(temp_reg, v[2]) \o store(temp_reg, sp, to)
     ELSE IF ~p.inReg THEN load(temp_reg, sp, p.n + 4 * Len(saved)) \o store(temp_reg, sp, to)
     ELSE IF p.n >= ArgRegs THEN store(p.n, sp, to)
     ELSE IF SavedAt(saved, p.n) = NoReg THEN <<AsmError(2)>>
     ELSE load(temp_reg, sp, SavedAt(saved, p.n)) \o store(temp_reg, sp, to)

PassArguments(a, args, at, saved, frame) ==
  FlattenSeq([k \in DOMAIN args |->
    IF k <= ArgRegs THEN PassInRegister(a, args[k], at, k - 1, saved)
                    ELSE PassOnStack(a, args[k], at, k - 1, saved, frame)])

\* What is saved around a helper of the run-time library: not the register the
\* result goes to, unless it is lr, and one more to make the number even.
SavedAround(result) ==
  LET kept == IF result = NoReg THEN CallerSaved
              ELSE {r \in CallerSaved : r # result \/ r = lr}
      pads == {r \in Pads : r # result}
  IN Ascending(SetToSeq(IF Cardinality(kept) % 2 = 0 THEN kept ELSE kept \cup {Min(pads)}))

\* generateFunctionCall: name is called for instruction i; its value, if any,
\* comes in register from.
FunctionCall(a, i, at, args, name, from, frame) ==
  LET helper == i.op # "call"
      result == IF i.r = 0 THEN [n |-> NoReg, inReg |-> FALSE] ELSE Position(a, Reg(i.r), at)
      saved  == IF helper THEN SavedAround(IF result.inReg THEN result.n ELSE NoReg) ELSE <<>>
      viaTemp == result.inReg /\ result.n = lr /\ ~helper
  IN push(saved) \o PassArguments(a, args, at, saved, frame)
     \o <<Asm("bl", 0, <<<<"fun", name>>>>)>>
     \o (IF i.r = 0 THEN <<>>
         ELSE IF viaTemp THEN mov(temp_reg, from)
         ELSE IF result.inReg THEN mov(result.n, from)
         ELSE store(from, sp, result.n + 4 * Len(saved)))
     \o pop(saved) \o (IF viaTemp THEN mov(lr, temp_reg) ELSE <<>>)

----------------------------------------------------------------------------
(* Instructions.                                                           *)

\* Globals and constants that have a register are put into it first.
Preload(a, i, at) ==
  LET one(k) ==
        LET v == i.ops[k]
            r == Holder(a, v, at)
        IN IF v[1] = "global" THEN
             IF r # NoReg THEN <<Asm("address", r, <<Adr(v[2])>>)>>
             ELSE IF i.op = "call" THEN <<>> ELSE <<AsmError(427)>>
           ELSE IF v[1] = "const" /\ i.op \notin {"br", "call"} /\ r # NoReg
                   /\ ~(i.op = "mla" /\ k = 1 /\ IsOne(v))
           THEN setValue(r, v[2]) ELSE <<>>
  IN FlattenSeq([k \in DOMAIN i.ops |-> one(k)])

\* A result 0 or 1 from the flags.
SetOnCondition(d, cond) == setValue(d, 0) \o <<Asm("movif", d, <<<<"cond", cond>>, Imm(1)>>)>>

\* What is one instruction of the processor.  And, or and not are as well, but no
\* pass makes them: LowerIR's createAnd stands under a condition no int satisfies,
\* and createOr and createNot have no caller but a copy of such an instruction.
OneInstruction == [add |-> "add", sub |-> "sub", shl |-> "lsl", ashr |-> "asr", lshr |-> "lsr"]

Compute(a, i, at, frames) ==
  LET d == Holder(a, Reg(i.r), at)
      x == Holder(a, i.ops[1], at)
      y == Holder(a, i.ops[2], at)
      isConst == i.ops[2][1] = "const"
      n == i.ops[2][2]
      call(name, from) == FunctionCall(a, i, at, i.ops, name, from, FrameOf(frames, name))
  IN CASE i.op \in DOMAIN OneInstruction ->
            IF isConst THEN instConst(OneInstruction[i.op], d, x, n)
            ELSE <<Asm(OneInstruction[i.op], d, <<R(x), R(y)>>)>>
       [] i.op = "mul" -> <<Asm("mul", d, <<R(x), R(y)>>)>>
       [] i.op = "div" -> IF isConst THEN divConst(d, x, n) ELSE call("__aeabi_idiv", 0)
       [] i.op = "rem" -> call("__aeabi_idivmod", 1)
       [] i.op \in Comparisons ->
            (IF isConst THEN instConst("cmp", 0, x, n) ELSE <<Asm("cmp", 0, <<R(x), R(y)>>)>>)
            \o SetOnCondition(d, i.op)

\* A branch on a value; one that is on the stack comes through temp_reg.
BranchCode(a, i, at) ==
  LET p == Position(a, i.ops[1], at)
      jump(k) == <<Asm("b", 0, <<To(i.ops[k][2])>>)>>
  IN IF Len(i.ops) = 1 THEN jump(1)
     ELSE IF i.ops[1][1] = "const" THEN jump(IF i.ops[1][2] > 0 THEN 2 ELSE 3)
     ELSE (IF p.inReg THEN <<>> ELSE load(temp_reg, sp, p.n))
          \o <<Asm("cmp", 0, <<R(IF p.inReg THEN p.n ELSE temp_reg), Imm(1)>>),
               Asm("bif", 0, <<<<"cond", "eq">>, To(i.ops[2][2])>>)>> \o jump(3)

\* The operand of a load or store, with its offset operand if it has one.
Access(op, d, a, i, k, at, value) ==
  LET base == Holder(a, i.ops[k], at)
  IN IF Len(i.ops) = k
     THEN IF op = "ldr" THEN load(d, base, 0) ELSE store(value, base, 0)
     ELSE <<Asm(op, d, (IF op = "ldr" THEN <<>> ELSE <<R(value)>>)
                       \o <<R(base), R(Holder(a, i.ops[k + 1], at))>>)>>

ReturnCode(a, i, at, frame) ==
  (IF i.ops = <<>> THEN <<>>
   ELSE IF i.ops[1][1] = "const" THEN setValue(0, i.ops[1][2])
   ELSE mov(0, Holder(a, i.ops[1], at))) \o ExitCode(a, frame)

\* generateInstructionCode, of function name.
InstructionCode(a, name, i, at, frames) ==
  LET d == Holder(a, Reg(i.r), at)
      h(k) == Holder(a, i.ops[k], at)
  IN Preload(a, i, at) \o
     CASE i.op = "ret"   -> ReturnCode(a, i, at, frames[name])
       [] i.op = "alloca" -> instConst("add", d, sp, a.data[i.r])
       [] i.op = "load"  -> Access("ldr", d, a, i, 1, at, 0)
       [] i.op = "store" -> Access("str", 0, a, i, 2, at, h(1))
       [] i.op = "loadoff"  -> load(h(1), sp, i.ops[2][2])
       [] i.op = "storeoff" -> store(h(1), sp, i.ops[2][2])
       [] i.op = "call"  -> FunctionCall(a, i, at, Tail(i.ops), i.ops[1][2], 0,
                                        FrameOf(frames, i.ops[1][2]))
       [] i.op = "br"    -> BranchCode(a, i, at)
       [] i.op = "mov"   -> IF i.ops[1][1] = "const" THEN setValue(d, i.ops[1][2]) ELSE mov(d, h(1))
       [] i.op = "zext"  -> mov(d, h(1))
       [] i.op = "mla"   -> IF IsOne(i.ops[1]) THEN <<Asm("add", d, <<R(h(2)), R(h(3))>>)>>
                            ELSE <<Asm("mla", d, <<R(h(1)), R(h(2)), R(h(3))>>)>>
       [] OTHER          -> Compute(a, i, at, frames)

BlockCode(a, name, b, frames) ==
  <<Asm("label", b, <<>>)>>
  \o FlattenSeq([k \in DOMAIN a.code[b] |->
                   InstructionCode(a, name, a.code[b][k].i, a.code[b][k].at, frames)])

\* generate_function_code
FunctionCode(f, a, name, frames) ==
  EntryCode(f, a, frames[name])
  \o FlattenSeq([n \in DOMAIN f.list |-> BlockCode(a, name, f.list[n], frames)])
=============================================================================
