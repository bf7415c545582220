-------------------------------- MODULE Arm --------------------------------
(***************************************************************************)
(* The processor and the run-time library, as the generated code uses      *)
(* them (neither is in the repository).  An image maps the name of a       *)
(* function to its instructions; a word is as in MirMachine, or the return *)
(* address <<"code", function, number>>, or <<"entry", r>>, what register  *)
(* r held when the program began.  A call may change r0..r3, r12 and lr,   *)
(* and what lies below sp; the callee must keep the others and sp.  No     *)
(* caller here relies on r11, and most functions change it (see Relied).   *)
(***************************************************************************)
EXTENDS AsmInstr, MirMachine

Stack(n) == Ptr(<<"stack", 0>>, n)
Exit == <<"code", "", 0>>

\* What a function must leave as it was.  The code lists r11 among callee_save_regs
\* too, but saves r12 in the prologue and uses r11 freely: it is left out here.
Relied == (CalleeSaved \ {temp_reg}) \cup {sp}

\* pc is <<function, number>>; entries holds, for each activation, what its
\* caller expects to find again; kept says whether it always did.
ArmBoot(u) ==
  [pc |-> <<"main", 1>>, flags |-> Uncertain,
   reg |-> [r \in 0..lr |-> CASE r = sp -> Stack(0) [] r = lr -> Exit [] OTHER -> <<"entry", r>>],
   mem |-> Boot(u).mem,
   entries |-> <<[r \in Relied |-> IF r = sp THEN Stack(0) ELSE <<"entry", r>>]>>,
   kept |-> TRUE]

Fetch(image, m) ==
  LET code == image[m.pc[1]] IN IF m.pc[2] > Len(code) THEN AsmError(3) ELSE code[m.pc[2]]

----------------------------------------------------------------------------
(* Operands and operations.                                                *)

Shift(op, x, n) ==
  CASE op = "asr" -> Const(x \div 2^n)
    [] op = "lsr" -> Const(Wrap((x % 2^Width) \div 2^n))
    [] op = "lsl" -> Const(Wrap(x * 2^n))

\* What the processor does with another amount is left open.
ShiftedBy(op, x, n) ==
  IF IsInt(x) /\ IsInt(n) THEN IF n[2] \in 0..Width THEN Shift(op, x[2], n[2]) ELSE Uncertain
  ELSE Uncertain

Source(m, x) ==
  CASE x[1] = "r"      -> m.reg[x[2]]
    [] x[1] = "#"      -> Const(Wrap(x[2]))
    [] x[1] = "global" -> Ptr(Global(x[2]), 0)
    [] x[1] = "sign"   -> IF IsInt(m.reg[x[2]]) THEN Shift("lsr", m.reg[x[2]][2], Width - 1)
                          ELSE Uncertain

\* The upper half of a product.
High(x, y) ==
  IF IsInt(x) /\ IsInt(y) THEN Const((x[2] * y[2]) \div 2^Width) ELSE Uncertain

Calculate(op, s) ==
  CASE op \in {"mov", "address"} -> s[1]
    [] op \in {"add", "mul"}  -> Apply(op, s[1], s[2])
    [] op = "sub"             -> Apply("add", s[1], Apply("sub", Const(0), s[2]))
    [] op = "rsb"             -> Apply("sub", s[2], s[1])
    [] op \in {"asr", "lsr", "lsl"} -> ShiftedBy(op, s[1], s[2])
    [] op = "mla"             -> Apply("add", Apply("mul", s[1], s[2]), s[3])
    [] op = "smmul"           -> High(s[1], s[2])
    [] op = "smmla"           -> Apply("add", s[3], High(s[1], s[2]))

Calculations == {"mov", "address", "add", "sub", "mul", "rsb", "asr", "lsr", "lsl", "mla", "smmul", "smmla"}

\* Where a load or a store goes.
Reached(m, i) ==
  LET k == IF i.op = "str" THEN 2 ELSE 1
  IN Apply("add", Source(m, i.args[k]), Source(m, i.args[k + 1]))

Helpers == {"__aeabi_idiv", "__aeabi_idivmod"}
Called(i) == i.args[1][2]

----------------------------------------------------------------------------
(* What can be seen.                                                       *)

ArmVisible(image, m) ==
  LET i == Fetch(image, m)
  IN CASE m.pc[1] = "" -> "ret"
       [] m.pc[1] # "" /\ i.op = "bl" /\ Called(i) = "getint" -> "in"
       [] m.pc[1] # "" /\ i.op = "bl" /\ Called(i) = "putint" -> "out"
       [] m.pc[1] # "" /\ i.op \in {"ldr", "str"} /\ ~IsPtr(Reached(m, i)) -> "stuck"
       [] m.pc[1] # "" /\ i.op \in {"movif", "bif"} /\ m.flags = Uncertain -> "stuck"
       [] m.pc[1] # "" /\ i.op = "error" -> "stuck"
       [] OTHER -> "silent"

ArmSeen(m) == m.reg[0]

----------------------------------------------------------------------------
(* One instruction.                                                        *)

ReadAt(m, p) == IF p \in DOMAIN m.mem THEN m.mem[p] ELSE Uncertain
WriteAt(mem, ps, w(_)) ==
  [p \in ps \cup DOMAIN mem |-> IF p \in ps THEN w(p) ELSE mem[p]]

\* The function called leaves nothing in the registers and below the stack.
AfterLibrary(m, results) ==
  LET below(p) == p[2] = <<"stack", 0>> /\ p[3] < m.reg[sp][3]
  IN [m EXCEPT !.pc[2] = @ + 1, !.flags = Uncertain,
               !.reg = [r \in DOMAIN @ |-> IF r \in DOMAIN results THEN results[r]
                                           ELSE IF r \in CallerSaved THEN Uncertain ELSE @[r]],
               !.mem = [p \in {q \in DOMAIN @ : ~below(q)} |-> @[p]]]

Divided(m) ==
  LET q == Apply("div", m.reg[0], m.reg[1])
  IN 0 :> q @@ 1 :> IF q = Uncertain THEN Uncertain ELSE Apply("rem", m.reg[0], m.reg[1])

\* The registers of a list go to ascending addresses, each once.
Listed(i) == SetToSortSeq(ToSet(i.args), LAMBDA x, y : x < y)

Pushed(m, i) ==
  LET list == Listed(i)
      base == m.reg[sp][3] - 4 * Len(list)
  IN [m EXCEPT !.reg[sp] = Stack(base),
               !.mem = WriteAt(@, {Stack(base + 4 * (k - 1)) : k \in DOMAIN list},
                               LAMBDA p : m.reg[list[(p[3] - base) \div 4 + 1]])]

\* Popping pc is the return: what the caller relies on is compared.
Popped(m, i) ==
  LET list == Listed(i)
      word(r) == ReadAt(m, Stack(m.reg[sp][3] + 4 * (SelectInSeq(list, LAMBDA x : x = r) - 1)))
      reg == [r \in DOMAIN m.reg |-> IF r = sp THEN Stack(m.reg[sp][3] + 4 * Len(list))
                                     ELSE IF r \in ToSet(list) THEN word(r) ELSE m.reg[r]]
      to == IF pc \in ToSet(list) THEN word(pc) ELSE <<"code", m.pc[1], m.pc[2]>>
      same == \A r \in DOMAIN Last(m.entries) : reg[r] = Last(m.entries)[r]
  IN IF pc \notin ToSet(list) THEN [m EXCEPT !.reg = reg]
     ELSE [m EXCEPT !.reg = reg, !.pc = IF to[1] = "code" THEN <<to[2], to[3]>> ELSE <<m.pc[1], 10000>>,
                    !.entries = Front(@), !.kept = @ /\ same]

ArmStep(image, m, input) ==
  LET i == Fetch(image, m)
      next == [m EXCEPT !.pc[2] = @ + 1]
      s == [k \in DOMAIN i.args |-> Source(m, i.args[k])]
      jump(x) == [m EXCEPT !.pc[2] = SelectInSeq(image[m.pc[1]], LAMBDA y : y.op = "label" /\ y.d = x[2])]
      holds(x) == Holds(x[2], m.flags[2], m.flags[3])
  IN CASE i.op = "label" -> next
       [] i.op \in Calculations -> [next EXCEPT !.reg[i.d] = Calculate(i.op, s)]
       [] i.op = "cmp" -> [next EXCEPT !.flags = IF IsInt(s[1]) /\ IsInt(s[2])
                                                 THEN <<"flags", s[1][2], s[2][2]>> ELSE Uncertain]
       [] i.op = "movif" -> IF holds(i.args[1]) THEN [next EXCEPT !.reg[i.d] = Source(m, i.args[2])] ELSE next
       [] i.op = "bif" -> IF holds(i.args[1]) THEN jump(i.args[2]) ELSE next
       [] i.op = "b"   -> jump(i.args[1])
       [] i.op = "ldr" -> [next EXCEPT !.reg[i.d] = ReadAt(m, Reached(m, i))]
       [] i.op = "str" -> [next EXCEPT !.mem = WriteAt(@, {Reached(m, i)}, LAMBDA p : s[1])]
       [] i.op = "push" -> Pushed(next, i)
       [] i.op = "pop"  -> Popped(next, i)
       [] i.op = "bl" /\ Called(i) \in Library -> AfterLibrary(m, 0 :> Const(input))
       [] i.op = "bl" /\ Called(i) \in Helpers ->
            AfterLibrary(m, IF Called(i) = "__aeabi_idiv" THEN 0 :> Divided(m)[0] ELSE Divided(m))
       [] i.op = "bl" -> [m EXCEPT !.pc = <<Called(i), 1>>,
                           !.reg[lr] = <<"code", m.pc[1], m.pc[2] + 1>>,
                           !.entries = Append(@, [r \in Relied |-> m.reg[r]])]
=============================================================================
