------------------------------- MODULE Combine -------------------------------
(***************************************************************************)
(* passes/instruction_combine.cpp over one function: constants at the end  *)
(* of sums and products are brought together, and sums of one value become *)
(* products.  New instructions wait in a block of their own until the end  *)
(* of the block they are for.  Floating point is left out.                 *)
(***************************************************************************)
EXTENDS Effects, Words

\* Gave up its operands, and waits to be deleted.
Gone(r) == Instr("gone", r, <<>>)

\* A state of the pass: f, whose last block holds the new instructions; ins,
\* the pairs <<after, new>> of insert_map; why it stopped; the value returned.
Begin(f) == [f |-> Create(f, "basic"), ins |-> <<>>, why |-> "no", value |-> Unknown]
Waiting(a) == Len(a.f.code)

\* The pass is over.
Ended(a) == [a.f EXCEPT !.kind = Front(@), !.father = Front(@), !.code = Front(@),
                        !.pre = Front(@), !.succ = Front(@)]

Operation(op, x, y) == IF op = "add" THEN x + y ELSE x * y

\* Slip: what is neutral for a sum is for a product.
NeutralForBoth(op) == Const(0)

Neutral(op) == IF op = "add" THEN Const(0) ELSE Const(1)

\* The instruction of register r becomes i.
Become(f, r, i) == Rewritten(f, LAMBDA j : IF j.r = r THEN i ELSE j)

\* replaceAllUse, removeUseOps and wait_delete.
ReplacedBy(a, r, v) ==
  [a EXCEPT !.f = Become(ReplaceAllUse(@, Reg(r), v), r, Gone(r)), !.value = v]

\* BinaryInst::create, in no block yet.
Made(a, op, x, y) == LET f == Define(a.f, Waiting(a), op, <<x, y>>)
                     IN [a EXCEPT !.f = f, !.value = Reg(f.regs)]

InsertLater(a, after, new) == [a EXCEPT !.ins = Append(@, <<after, new>>)]

----------------------------------------------------------------------------
(* simplifyAdd and simplifyMul: a sum or product that takes place now, or   *)
(* whose constant now is the second operand.                                *)

\* Two constants, the neutral element or a product with zero.
SimplifyOne(a, r) ==
  LET i == Definer(a.f, Reg(r))
      x == i.ops[1]
      y == i.ops[2]
      swapped == [a EXCEPT !.f = Become(@, r, [i EXCEPT !.ops = <<y, x>>])]
      b == IF IsConst(x) THEN swapped ELSE a
      c == IF IsConst(x) THEN x ELSE y
      v == IF IsConst(x) THEN y ELSE x
  IN IF IsConst(x) /\ IsConst(y) THEN ReplacedBy(a, r, Const(Operation(i.op, x[2], y[2])))
     ELSE IF c = Neutral(i.op) THEN ReplacedBy(b, r, v)
     ELSE IF i.op = "mul" /\ c = Const(0) THEN ReplacedBy(b, r, Const(0))
     ELSE [b EXCEPT !.value = Reg(r)]

\* A sum of two constants that does not fit an int is not computed.
Overflows(op, x, y) == op = "add" /\ Wrap(Wrap(x) + Wrap(y)) # Wrap(x) + Wrap(y)

\* The instruction p makes x + y, whose value is known now; u plus this is the
\* new value of r.
Regroup(a, r, op, u, p) ==
  LET c == Made(a, op, u, a.value)
      q == a.f.regs + 1
  IN ReplacedBy(IF IsConst(a.value) THEN InsertLater(c, r, q)
                ELSE InsertLater(InsertLater(c, r, p), p, q), r, Reg(q))

\* (u + x) + y becomes u + (x + y), if anything made u + x.
Reassociate(a, r) ==
  LET i == Definer(a.f, Reg(r))
      d == Definer(a.f, i.ops[1])
      x == d.ops[2]
      y == i.ops[2]
      p == a.f.regs + 1
  IN IF d.op # i.op \/ (i.op = "add" /\ i.ops[1] = y) THEN a
     ELSE IF IsConst(x) /\ IsConst(y) /\ Overflows(i.op, x[2], y[2]) THEN a
     ELSE Regroup(SimplifyOne(Made(a, i.op, x, y), p), r, i.op, d.ops[1], p)

UnlessReplaced(a, r) == IF a.value # Reg(r) THEN a ELSE Reassociate(a, r)

Simplify(a, r) == UnlessReplaced(SimplifyOne(a, r), r)

----------------------------------------------------------------------------
(* The end of a block.                                                     *)

InsertAfter(f, b, after, i) ==
  [f EXCEPT !.code[b] = InsertAt(@, 1 + SelectInSeq(@, LAMBDA j : j.r = after), i)]

\* A new instruction nobody uses gives up its operands, for the second time if
\* it was simplified itself.  (It is then no place to insert after: what comes
\* after an unused one uses it.)
InsertNew(a, b, r, after) ==
  LET i == Definer(a.f, Reg(r))
  IN IF Uses(a.f, Reg(r)) # {} THEN [a EXCEPT !.f = InsertAfter(@, b, after, i)]
     ELSE IF i.op = "gone" THEN [a EXCEPT !.why = "436"]
     ELSE [a EXCEPT !.f = Become(@, r, Gone(r))]

Remaining(f) ==
  Recoded(f, LAMBDA b : IF b = Len(f.code) THEN <<>>
                        ELSE SelectSeq(f.code[b], LAMBDA i : i.op # "gone"))

InsertAll(a, b) == FoldLeft(LAMBDA c, p : InsertNew(c, b, p[2], p[1]), a, a.ins)

WithoutGone(a) == [a EXCEPT !.f = Remaining(@)]

\* One block of simplifyInstruction.
SimplifyBlock(a, b) ==
  LET one(c, i) == IF i.op \in {"add", "mul"} THEN Simplify(c, i.r) ELSE c
  IN IF a.why # "no" THEN a
     ELSE WithoutGone(InsertAll(FoldLeft(one, [a EXCEPT !.ins = <<>>], a.f.code[b]), b))

\* simplifyInstruction.
SimplifyInstructions(f) == FoldLeft(SimplifyBlock, Begin(f), f.list)

----------------------------------------------------------------------------
(* combineAdd.  a.times maps a sum to <<v, n>>: it is n times v.           *)

Times(a, o) == IF o[1] = "reg" /\ o[2] \in DOMAIN a.times THEN a.times[o[2]] ELSE <<o, 1>>

\* The sum of register r becomes n times v, known as `as'.
Multiply(a, r, v, n, as) ==
  LET m == Made(a, "mul", v, Const(n))
      q == m.f.regs
  IN [ReplacedBy(InsertLater(m, r, q), r, Reg(q)) EXCEPT !.times = (q :> as) @@ @]

CombineAdd(a, r) ==
  LET i == Definer(a.f, Reg(r))
      x == i.ops[1]
      u == Times(a, x)
      w == Times(a, i.ops[2])
  IN IF IsConst(u[1]) \/ u[1] # w[1] THEN a
     ELSE IF x # i.ops[2] THEN Multiply(a, r, u[1], u[2] + w[2], <<u[1], u[2] + w[2]>>)
     ELSE IF u = <<x, 1>> THEN [a EXCEPT !.times = (r :> <<x, 2>>) @@ @]
     ELSE Multiply(a, r, u[1], 2 * u[2], <<x, 2>>)

PlaceAll(a, b) ==
  FoldLeft(LAMBDA c, p : [c EXCEPT !.f = InsertAfter(@, b, p[1], Definer(@, Reg(p[2])))], a, a.ins)

CombineBlock(a, b) ==
  LET one(c, i) == IF i.op = "add" THEN CombineAdd(c, i.r) ELSE c
  IN WithoutGone(PlaceAll(FoldLeft(one, [a EXCEPT !.ins = <<>>], a.f.code[b]), b))

\* instructionCombine.
CombineInstructions(f) == FoldLeft(CombineBlock, [times |-> <<>>] @@ Begin(f), f.list)
=============================================================================
