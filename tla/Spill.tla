-------------------------------- MODULE Spill --------------------------------
(***************************************************************************)
(* The second half of AsmBuilder::linear_scan_reg_alloc                    *)
(* (src/asm/linear_scan_reg_alloc.cpp): the stack of a function, and the   *)
(* loads and stores put around an instruction one of whose values has no   *)
(* real register.  Such a value borrows a register at that point: a free   *)
(* one, or one whose value the instruction does not use, which is saved to *)
(* one of four slots and taken back afterwards.                            *)
(*                                                                         *)
(* An allocation is a record                                               *)
(*   regs   virtual register -> intervals, the borrowed ones last          *)
(*   use    real register -> the points where it is needed                 *)
(*   v2reg  the placements in real registers, in order                     *)
(*   save   the offset of the four slots                                   *)
(*   slots  the values that live on the stack: [v, st, ed, off]            *)
(*   data   the registers of the variables -> their offset                 *)
(*   size   of the stack                                                   *)
(*   used   the real registers the scan used are those below this number   *)
(*   code   block -> [i: instruction, at: its point]                       *)
(*   error  0, or the number of the error                                  *)
(***************************************************************************)
EXTENDS LiveIntervals

CONSTANT SaveSlots    \* op_save_stack_num, 4

ASSUME SpillAssumption == SaveSlots \in Nat

NoValue == <<"none", 0>>
NoReg == -1

Real == 0..(IntRegs - 1)
Offset(n) == <<"off", n>>

Covers(i, at) == i.st <= at /\ at <= i.ed

----------------------------------------------------------------------------
(* The stack: arguments, the four slots, a slot for each virtual register  *)
(* that is not real, up to the first without an interval, and variables.   *)

StackArguments(intervals) == {i \in intervals : i.type = "arg" /\ i.onStack}

\* Slip: the last is left out.
VirtualSlotsShort(regs) ==
  LET empty == {r \in IntRegs..(Registers - 1) : regs[r] = <<>>}
  IN IntRegs..((IF empty = {} THEN Registers ELSE Min(empty)) - 2)

VirtualSlots(regs) ==
  LET empty == {r \in IntRegs..(Registers - 1) : regs[r] = <<>>}
  IN IntRegs..((IF empty = {} THEN Registers ELSE Min(empty)) - 1)

\* Slip: the four slots are not counted.
BelowWithoutSave(args, spilled) == 4 * (Cardinality(args) + Cardinality(spilled))

\* The size of the stack below the variables.
Below(args, spilled) == 4 * (Cardinality(args) + SaveSlots + Cardinality(spilled))

Slot(i, off) == [v |-> i.v, st |-> i.st, ed |-> i.ed, off |-> off]

Padded(n) == ((n + 3) \div 4) * 4

\* How much of the stack the variables among the registers up to r take.
Room(f, vars) ==
  LET upTo[r \in 0..Max(vars \cup {0})] ==
        IF r = 0 THEN 0 ELSE upTo[r - 1] + (IF r \in vars THEN Padded(f.bytes[r]) ELSE 0)
  IN upTo

Layout(f, intervals, regs) ==
  LET args    == StackArguments(intervals)
      save    == 4 * Cardinality(args)
      base    == save + 4 * SaveSlots
      spilled == VirtualSlots(regs)
      top     == Below(args, spilled)
      vars    == {i.v[2] : i \in {j \in intervals : j.data > 0}}
      room    == Room(f, vars)
  IN [save |-> save,
      slots |-> {Slot(i, 4 * i.pin) : i \in args}
                \cup UNION {{Slot(i, base + 4 * (r - IntRegs)) :
                               i \in {j \in ToSet(regs[r]) : j.type \in {"local", "arg"}}} :
                            r \in spilled},
      data |-> [r \in vars |-> top + room[r - 1]],
      size |-> top + room[Max(vars \cup {0})]]

InReal(regs, r) == SelectSeq(regs[r], LAMBDA i : i.type # "call")

\* What the scan found; stack arguments are put into the last register.
Allocated(f, intervals, regs, used) ==
  LET l == Layout(f, intervals, regs)
  IN [regs  |-> [regs EXCEPT ![Registers - 1] = @ \o SetToSeq(StackArguments(intervals))],
      use   |-> [r \in Real |-> UNION {i.uses : i \in ToSet(regs[r])}],
      v2reg |-> FlattenSeq([r \in 1..IntRegs |->
                  [k \in DOMAIN InReal(regs, r - 1) |->
                     LET i == InReal(regs, r - 1)[k]
                     IN [v |-> i.v, st |-> i.st, ed |-> i.ed, reg |-> r - 1]]]),
      save  |-> l.save, slots |-> l.slots, data |-> l.data, size |-> l.size,
      used  |-> Min({used, IntRegs}),
      code  |-> [b \in DOMAIN f.code |-> <<>>], error |-> 0]

----------------------------------------------------------------------------
(* Looking values up.                                                      *)

\* getRegIndexOfValue: the virtual register of v, or NoReg.
RegOf(a, v, at) ==
  LET found == SelectSeq(a.v2reg, LAMBDA p : p.v = v /\ Covers(p, at))
  IN IF found = <<>> THEN NoReg ELSE Head(found).reg

\* value_in_reg_at
ValueAt(a, r, at) ==
  LET found == SelectSeq(a.regs[r], LAMBDA i : Covers(i, at))
  IN IF found = <<>> THEN NoValue ELSE Head(found).v

\* op_in_inst_is_spilled
IsSpilled(a, v, at) ==
  \E r \in IntRegs..(Registers - 1) : \E i \in ToSet(a.regs[r]) : i.v = v /\ Covers(i, at)

\* get_value_sp_offset; NoReg when it is not on the stack, which is an error.
SlotOf(a, v, at) ==
  LET found == {s \in a.slots : s.v = v /\ Covers(s, at)}
  IN IF found = {} THEN NoReg ELSE (CHOOSE s \in found : TRUE).off

\* give_reg_at: a register without a value, then one whose value is not used.
GiveReg(a, at) ==
  LET free == {r \in Real : ValueAt(a, r, at) = NoValue}
      idle == {r \in Real : at \notin a.use[r]}
  IN IF free # {} THEN Min(free) ELSE IF idle # {} THEN Min(idle) ELSE NoReg

----------------------------------------------------------------------------
(* One instruction.                                                        *)

LoadOff(v, off)  == Instr("loadoff", 0, <<v, Offset(off)>>)
StoreOff(v, off) == Instr("storeoff", 0, <<v, Offset(off)>>)

\* v, which is number k among the result and the operands of the instruction,
\* borrows a register.  w is that register's value, or v itself.  s is the
\* allocation with what goes before and after the instruction.
Borrow(s, v, at, k) ==
  LET r == GiveReg(s.a, at)
      w == IF ValueAt(s.a, r, at) = NoValue THEN v ELSE ValueAt(s.a, r, at)
      taken == w # v
      off == SlotOf(s.a, v, at)
      slot == s.a.save + 4 * k
      fromStack == v[1] = "reg"
      before == (IF taken THEN <<StoreOff(w, slot)>> ELSE <<>>)
                \o (IF k > 0 /\ fromStack THEN <<LoadOff(w, off)>> ELSE <<>>)
      after  == (IF k = 0 THEN <<StoreOff(w, off)>> ELSE <<>>)
                \o (IF taken THEN <<LoadOff(w, slot)>> ELSE <<>>)
      borrowed == [Interval(v, at, at, "local") EXCEPT !.uses = {at}]
  IN IF r = NoReg THEN [s EXCEPT !.a.error = IF k = 0 THEN 308 ELSE 310]
     ELSE IF (k = 0 \/ fromStack) /\ off = NoReg THEN [s EXCEPT !.a.error = 311]
     ELSE [a |-> [s.a EXCEPT !.use[r] = @ \cup {at},
                             !.regs[r] = Append(@, borrowed),
                             !.v2reg = Append(@, [v |-> v, st |-> at, ed |-> at, reg |-> r])],
           before |-> s.before \o before, after |-> s.after \o after]

\* The result is number 0, the operands follow; there are SaveSlots slots.
Consider(s, v, at, k) ==
  IF s.a.error # 0 THEN s
  ELSE IF k >= SaveSlots THEN [s EXCEPT !.a.error = 309]
  ELSE IF IsSpilled(s.a, v, at) THEN Borrow(s, v, at, k) ELSE s

Tagged(i, at) == [i |-> i, at |-> at]

\* All of them, one after the other.
Considered(a, values, at) ==
  LET upTo[k \in 0..Len(values)] ==
        IF k = 0 THEN [a |-> a, before |-> <<>>, after |-> <<>>]
        ELSE Consider(upTo[k - 1], values[k], at, k - 1)
  IN upTo[Len(values)]

\* Calls and branches look their values up themselves.
AroundInstruction(a, i, at) ==
  IF i.op \in {"call", "gep", "br"} THEN [a |-> a, code |-> <<Tagged(i, at)>>]
  ELSE LET values == <<IF i.r = 0 THEN NoValue ELSE Reg(i.r)>> \o i.ops
           s == Considered(a, values, at)
       IN [a |-> s.a, code |-> [k \in DOMAIN s.before |-> Tagged(s.before[k], at)]
                               \o <<Tagged(i, at)>>
                               \o [k \in DOMAIN s.after |-> Tagged(s.after[k], at)]]

\* Instruction k of block b gets its code, then each of the block, then each block
\* of the list.
SpillAt(a, f, first, b, k) ==
  LET x == AroundInstruction(a, f.code[b][k], first[b] + k - 1)
  IN [x.a EXCEPT !.code[b] = @ \o x.code]

SpillBlock(a, f, first, b) ==
  LET upTo[k \in 0..Len(f.code[b])] == IF k = 0 THEN a ELSE SpillAt(upTo[k - 1], f, first, b, k)
  IN upTo[Len(f.code[b])]

InsertSpills(a, f, first) ==
  LET upTo[n \in 0..Len(f.list)] ==
        IF n = 0 THEN a ELSE SpillBlock(upTo[n - 1], f, first, f.list[n])
  IN upTo[Len(f.list)]
=============================================================================
