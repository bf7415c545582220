------------------------------ MODULE AsmInstr ------------------------------
(***************************************************************************)
(* InstGen (src/asm/asm_instr.cpp): the instructions written for one       *)
(* operation, where an operand does not fit into one.  An instruction is   *)
(*   [op, d, args]  with d the register written,                           *)
(* an operand R(n), Imm(n), SignOf(n) (the sign bit of a register, as 0 or *)
(* 1), Adr(g) or To(b); what the code refuses to write is "error".         *)
(***************************************************************************)
EXTENDS ArmRegisters, Words, Sequences

CONSTANTS
  Imm8Max,    \* imm_8_max, 255
  Imm12Max    \* imm_12_max, 4095

R(n)      == <<"r", n>>
Imm(n)    == <<"#", n>>
SignOf(n) == <<"sign", n>>
Adr(g)    == <<"global", g>>
To(b)     == <<"block", b>>

Asm(op, d, args) == [op |-> op, d |-> d, args |-> args]
AsmError(n) == Asm("error", n, <<>>)

\* A register that was not found has a negative number.
mov(d, s) == IF d = s THEN <<>>
             ELSE IF d < 0 \/ s < 0 THEN <<AsmError(1)>> ELSE <<Asm("mov", d, <<R(s)>>)>>

\* mov, mvn or mov32.
setValue(d, n) == <<Asm("mov", d, <<Imm(n)>>)>>

\* A constant that does not fit goes through the scratch register.
instConst(op, d, a, n) ==
  IF d = a /\ n = 0 /\ op \in {"add", "sub"} THEN <<>>
  ELSE IF 0 <= n /\ n <= Imm8Max THEN <<Asm(op, d, <<R(a), Imm(n)>>)>>
  ELSE setValue(temp_reg, n) \o <<Asm(op, d, <<R(a), R(temp_reg)>>)>>

Reaches(off) == -Imm12Max <= off /\ off <= Imm12Max

load(d, base, off) ==
  IF Reaches(off) THEN <<Asm("ldr", d, <<R(base), Imm(off)>>)>>
  ELSE setValue(temp_reg, off) \o <<Asm("ldr", d, <<R(base), R(temp_reg)>>)>>

\* assert(src != vinst_temp_reg), in the build the project's CMakeLists makes.
store(s, base, off) ==
  IF Reaches(off) THEN <<Asm("str", 0, <<R(s), R(base), Imm(off)>>)>>
  ELSE IF s = temp_reg THEN <<AsmError(4)>>
  ELSE setValue(temp_reg, off) \o <<Asm("str", 0, <<R(s), R(base), R(temp_reg)>>)>>

----------------------------------------------------------------------------
(* Division by a constant.                                                 *)

\* ceil(log2(d - 0.5)) for d > 1.
Log2(d) == CHOOSE l \in 1..Width : 2^l >= d /\ 2^(l - 1) < d

\* choose_multiplier: [m, sh, l].  The low and the high multiplier are halved
\* while they stay apart.
chooseMultiplier(d) ==
  LET l   == Log2(d)
      low == 2^(Width - 1 + l) \div d
      high == (2^(Width - 1 + l) + 2^l) \div d
      stop(k) == k = l - 1 \/ low \div 2^(k + 1) >= high \div 2^(k + 1)
      k   == CHOOSE k \in 0..(l - 1) : stop(k) /\ \A j \in 0..(k - 1) : ~stop(j)
  IN [m |-> high \div 2^k, sh |-> l - k - 1, l |-> l]

divConst(d, s, n) ==
  LET size == Abs(n)
      c == chooseMultiplier(size)
      fits == c.m < 2^(Width - 1)
      negate == IF n < 0 THEN <<Asm("rsb", d, <<R(d), Imm(0)>>)>> ELSE <<>>
      power == <<Asm("asr", temp_reg, <<R(s), Imm(c.l - 1)>>), Asm("lsr", temp_reg, <<R(temp_reg), Imm(Width - c.l)>>),
                 Asm("add", temp_reg, <<R(temp_reg), R(s)>>), Asm("asr", d, <<R(temp_reg), Imm(c.l)>>)>>
      multiply ==
        setValue(temp_reg, IF fits THEN c.m ELSE c.m - 2^Width)
        \o (IF fits THEN <<Asm("smmul", temp_reg, <<R(temp_reg), R(s)>>)>>
                    ELSE <<Asm("smmla", temp_reg, <<R(temp_reg), R(s), R(s)>>)>>)
        \o <<Asm("asr", temp_reg, <<R(temp_reg), Imm(c.sh)>>), Asm("add", d, <<R(temp_reg), SignOf(s)>>)>>
  IN IF n = 0 THEN <<AsmError(0)>>
     ELSE (IF size = 1 THEN mov(d, s) ELSE IF size = 2^c.l THEN power ELSE multiply) \o negate

----------------------------------------------------------------------------
(* Lists of registers, in order.                                           *)

push(list) == IF list = <<>> THEN <<>> ELSE <<Asm("push", 0, list)>>
pop(list)  == IF list = <<>> THEN <<>> ELSE <<Asm("pop", 0, list)>>
=============================================================================
