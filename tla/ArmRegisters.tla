---------------------------- MODULE ArmRegisters ----------------------------
(***************************************************************************)
(* The integer registers as the back end numbers them (src/asm).  Virtual  *)
(* registers below IntRegs are real ones: r0 .. r10, then r12, which the   *)
(* code calls fp, and lr; r11 is kept for the code generator.              *)
(***************************************************************************)
EXTENDS Integers

CONSTANTS
  ArgRegs,   \* arguments passed in registers, 4
  IntRegs,   \* int_reg_number, 13
  Registers  \* virtual_reg_max, 1200

ASSUME RegisterAssumption ==
  /\ ArgRegs \in Nat \ {0} /\ IntRegs \in Nat
  /\ 2 * ArgRegs + 2 <= IntRegs /\ Registers \in Nat /\ IntRegs <= Registers

temp_reg == IntRegs - 2
fp == IntRegs - 1
sp == IntRegs
lr == IntRegs + 1
pc == IntRegs + 2

\* vir2real
Vir2Real(r) == IF r = IntRegs - 2 THEN fp ELSE IF r = IntRegs - 1 THEN lr ELSE r

\* The virtual registers a call may change: r0..r3, r12 and lr.
Clobbered == 0..(ArgRegs - 1) \cup {IntRegs - 2, IntRegs - 1}

\* caller_save_regs and callee_save_regs, by real number.
CallerSaved == 0..(ArgRegs - 1) \cup {fp, lr}
CalleeSaved == ArgRegs..temp_reg
=============================================================================
