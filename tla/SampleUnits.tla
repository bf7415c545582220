---------------------------- MODULE SampleUnits ----------------------------
(***************************************************************************)
(* Units for the back end, with two argument registers and four others, so *)
(* that few values already fill them: virtual registers 0..3 are r0..r3,   *)
(* 4 is r12, 5 is lr; only r2 and r3 survive a call.                       *)
(***************************************************************************)
EXTENDS LiveIntervals, UnitSyntax, Words

----------------------------------------------------------------------------
(* Many values alive at one point, across calls.                           *)

\* n numbers read, then added up in the order of their reading, or against it.
Read(n) == [k \in 1..n |-> Get(k)]
SumUp(n, order) ==
  [k \in 1..(n - 1) |-> Op("add", n + k, IF k = 1 THEN Reg(order[1]) ELSE Reg(n + k - 1), Reg(order[k + 1]))]

Sums ==
  {Main(Read(n) \o SumUp(n, o) \o <<Put(Reg(2 * n - 1)), Return(Const(0))>>) :
     n \in {3, 5}, o \in {[k \in 1..5 |-> k]}}
  \cup {Main(Read(n) \o SumUp(n, [k \in 1..n |-> n + 1 - k]) \o <<Put(Reg(2 * n - 1)), Return(Const(0))>>) :
     n \in {4, 6}}


\* n values made from two numbers, all alive when the first sum is taken; with
\* a write in the middle.
Values(n) == [k \in 1..n |-> Op("add", k + 2, Reg(1 + (k % 2)), Const(k))]
Pressure(n, at(_), middle) ==
  Main(<<Get(1), Get(2)>> \o Values(n)
       \o [k \in 1..(n - 1) |->
             IF k = 1 THEN Op("sub", n + 3, Reg(at(1)), Reg(at(2)))
             ELSE Instr("mla", n + 2 + k, <<Reg(n + 1 + k), Const(3), Reg(at(k + 1))>>)]
       \o middle \o <<Op("sub", 2 * n + 2, Reg(2 * n + 1), Reg(1)), Return(Reg(2 * n + 2))>>)

PressureUnits ==
  {Pressure(5, LAMBDA k : k + 2, m) : m \in {<<>>, <<Put(Reg(4))>>}}
  \cup {Pressure(6, LAMBDA k : 9 - k, <<>>)}

----------------------------------------------------------------------------
(* Loops whose phis have become mov instructions.                          *)

\* n = getint(); for (i = 0, s = 0; i < n; i++) s += getint(); then the values
\* of `after' are written.
Accumulate(after) ==
  Unit(<<"main">>, <<Function(<<>>, NoBytes, <<
    <<Get(1), Instr("mov", 2, <<Const(0)>>), Instr("mov", 3, <<Const(0)>>), Go(2)>>,
    <<Op("lt", 4, Reg(2), Reg(1)), If(Reg(4), 3, 4)>>,
    <<Get(5), Op("add", 6, Reg(3), Reg(5)), Instr("mov", 3, <<Reg(6)>>),
      Op("add", 7, Reg(2), Const(1)), Instr("mov", 2, <<Reg(7)>>), Go(2)>>,
    [k \in DOMAIN after |-> Put(Reg(after[k]))] \o <<Return(Reg(3))>> >>)>>, NoGlobals)

LoopUnits == {Accumulate(after) : after \in {<<>>, <<2>>, <<3, 1>>, <<1, 2, 3>>}}

----------------------------------------------------------------------------
(* Every shape of control flow of four blocks, up to the order of the      *)
(* targets: a number read in the first is written in block u.              *)

Ends == {Go(b) : b \in 2..4} \cup {If(Reg(0), b, c) : b \in 2..3, c \in {3, 4}}
Skeleton(ends, u) ==
  Function(<<>>, NoBytes, [b \in 1..4 |->
    <<Get(2 * b)>> \o (IF b = u THEN <<Put(Reg(2))>> ELSE <<>>)
    \o (IF Len(ends[b].ops) = 1 THEN <<ends[b]>>
        ELSE <<Op("lt", 2 * b + 1, Reg(2 * b), Const(0)),
               [ends[b] EXCEPT !.ops[1] = Reg(2 * b + 1)]>>)])

Connected(f) == \A b \in 1..4 : FirstPoints(f)[b] >= 0

Shapes ==
  {Unit(<<"main">>, <<f>>, NoGlobals) : f \in {g \in
     {Skeleton(<<first>> \o rest, u) : first \in {Go(2), If(Reg(0), 2, 3)},
        rest \in [1..3 -> {e \in Ends : Len(e.ops) = 1 \/ e.ops[2] # e.ops[3]}], u \in 2..4} :
     Connected(g)}}

----------------------------------------------------------------------------
(* Division, by constants and by values.                                   *)

Divisors == {-127, -7, -4, -3, -1, 1, 2, 3, 5, 6, 7, 25, 64, 127}
DivisionUnits ==
  {Main(<<Get(1), Op("mul", 2, Reg(1), Const(k)), Op("div", 3, Reg(2), Const(c)),
          Put(Reg(3)), Return(Reg(1))>>) : k \in {1, 21, 42, 63}, c \in Divisors}
  \cup {Main(<<Get(1), Get(2), Op(op, 3, Reg(x), Reg(3 - x)), Op("sub", 4, Reg(3), Reg(1)),
               Put(Reg(4)), Return(Reg(3))>>) : op \in {"div", "rem", "mul"}, x \in {1, 2}}
  \cup {Main(<<Get(1), Op("mul", 2, Reg(1), Const(21)), Op("add", 3, Reg(1), Const(20)),
               Op(op, 4, Reg(x), Reg(5 - x)), Op("sub", 5, Reg(2), Reg(4)), Op("add", 6, Reg(5), Reg(3)),
               Return(Reg(6))>>) : op \in {"div", "rem"}, x \in {2, 3}}
  \cup {Main(<<Get(1), Op("rem", 2, Reg(1), Const(2)), Op("rem", 3, Const(7), Reg(1)),
               Op(op, 4, Reg(2), Reg(3)), Return(Reg(4))>>) : op \in Comparisons}

\* Shifts as LowerIR makes them: for a product with 2^s and for a quotient by it.
\* Their amounts are constants always.
ShiftBy(op, r, x, s) == Op(op, r, x, Const(s))

ShiftUnits ==
  {Main(<<Get(1), ShiftBy(op, 2, x, s), Put(Reg(2)), Return(Reg(1))>>) :
     op \in {"shl", "ashr", "lshr"}, x \in {Reg(1), Const(-5)}, s \in 0..(Width - 1)}
  \cup {Main(<<Get(1), Op("mul", 2, Reg(1), Const(k)), ShiftBy("ashr", 3, Reg(2), Width - 1),
               ShiftBy("lshr", 4, Reg(3), Width - s), Op("add", 5, Reg(4), Reg(2)),
               ShiftBy("ashr", 6, Reg(5), s), Put(Reg(6)), Return(Reg(1))>>) :
          k \in {1, 21, 42}, s \in 1..(Width - 2)}
  \cup {Main(<<Get(1), Get(2)>>
               \o [k \in 1..5 |-> ShiftBy(<<"shl", "ashr", "lshr">>[1 + (k % 3)], k + 2, Reg(1 + (k % 2)), k)]
               \o [k \in 1..4 |-> Op("sub", k + 7, Reg(IF k = 1 THEN 7 ELSE k + 6), Reg(7 - k))]
               \o <<ShiftBy("shl", 12, Reg(11), 1), Op("sub", 13, Reg(12), Reg(1)), Return(Reg(13))>>)}

\* A quotient used last, made while the other registers are taken.
QuotientInLr ==
  {Main(<<Get(1), Get(2)>> \o Values(4) \o <<Op("div", 7, Reg(3), Reg(4))>>
        \o [k \in 1..3 |-> Op("add", 7 + k, Reg(IF k = 1 THEN 3 ELSE 6 + k), Reg(k + 3))]
        \o <<Op("add", 11, Reg(10), Reg(7)), Return(Reg(11))>>)}

----------------------------------------------------------------------------
(* Calls: the first two arguments in r0 and r1, the others on the stack.   *)

\* a1 + 2 * a2 + 4 * a3 + ..., of n arguments.
Weigh(n) ==
  Function([k \in 1..n |-> k], NoBytes,
    <<FlattenSeq([k \in 1..n |-> <<Op("mul", n + 2 * k - 1, Reg(k), Const(2^k)),
        IF k = 1 THEN Op("add", n + 2, Reg(n + 1), Const(0))
                 ELSE Op("add", n + 2 * k, Reg(n + 2 * k - 1), Reg(n + 2 * k - 2))>>])
      \o <<Return(Reg(3 * n))>> >>)

\* The same with a call in the middle: the arguments are alive across it.
WeighAndWrite(n) ==
  LET w == Weigh(n)
  IN [w EXCEPT !.code[1] = <<Put(Reg(n))>> \o @]

CallUnits ==
  {Unit(<<"weigh", "main">>,
        <<g, Function(<<>>, NoBytes,
             <<<<Get(1), Get(2), Call(3, "weigh", args), Put(Reg(3)),
                 Op("add", 4, Reg(1), Reg(2)), Return(Reg(4))>> >>)>>, NoGlobals) :
     g \in {Weigh(4), WeighAndWrite(4)},
     args \in {<<Reg(1), Reg(2), Reg(2), Reg(1)>>, <<Reg(2), Reg(1), Const(1), Reg(2)>>}}
  \cup
  {Unit(<<"main", "weigh">>,
        <<Function(<<>>, NoBytes,
             <<<<Get(1), Get(2), Get(3), Call(4, "weigh", <<Const(3), Reg(3), Reg(2)>>),
                 Call(5, "weigh", <<Reg(4), Const(0), Reg(1)>>), Put(Reg(5)), Return(Reg(2))>> >>), g>>, NoGlobals) :
     g \in {Weigh(3), WeighAndWrite(3)}}

\* n differences of three arguments, all alive at once: the function uses all but
\* one of the registers, or all of them, and has an argument on the stack.
Wide(n) ==
  Function([k \in 1..3 |-> k], NoBytes,
    <<[k \in 1..n |-> Op("add", k + 3, Reg(1 + (k % 3)), Const(k))]
      \o [k \in 1..(n - 1) |-> Op("sub", n + 3 + k, Reg(IF k = 1 THEN 4 ELSE n + 2 + k), Reg(k + 4))]
      \o <<Op("sub", 2 * n + 3, Reg(2 * n + 2), Reg(3)), Return(Reg(2 * n + 3))>> >>)

WideUnits ==
  {Unit(<<"wide", "main">>,
        <<Wide(n), Function(<<>>, NoBytes,
             <<<<Get(1), Get(2), Call(3, "wide", <<Reg(1), Reg(2), Reg(1)>>), Put(Reg(3)),
                 Return(Reg(2))>> >>)>>, NoGlobals) : n \in 2..4}

\* f(n) = n < 1 ? 0 : n + f(n - 1)
Recursion ==
  {Unit(<<"f", "main">>,
    <<Function(<<1>>, NoBytes, <<
        <<Op("lt", 2, Reg(1), Const(1)), If(Reg(2), 2, 3)>>,
        <<Return(Const(0))>>,
        <<Op("sub", 3, Reg(1), Const(1)), Call(4, "f", <<Reg(3)>>), Op("add", 5, Reg(1), Reg(4)),
          Return(Reg(5))>> >>),
      Function(<<>>, NoBytes, <<<<Get(1), Call(2, "f", <<Reg(1)>>), Return(Reg(2))>> >>)>>, NoGlobals)}

----------------------------------------------------------------------------
(* Variables: a local array of two words and a global one.                 *)

MemoryUnits ==
  {Unit(<<"main">>, <<Function(<<>>, 1 :> 8, <<<<
     Instr("alloca", 1, <<>>), Get(2), Get(3), Instr("store", 0, <<Reg(2), Reg(1)>>),
     Op("mul", 4, Const(1), Const(4)), Instr("store", 0, <<Reg(3), a, Reg(4)>>),
     Instr("load", 5, <<Reg(1)>>), Op("add", 6, a, Reg(4)), Instr("load", 7, <<Reg(6)>>),
     Instr("load", 8, <<b, Reg(4)>>), Instr("mla", 9, <<m, Reg(5), Reg(7)>>), Put(Reg(8)),
     Instr("load", 10, <<Reg(1)>>), Op("add", 11, Reg(10), Reg(9)), Return(Reg(11))>> >>)>>,
     "g" :> <<5, 6>>) :
   a, b \in {Reg(1), Global("g")}, m \in {Const(1), Const(3)}}

----------------------------------------------------------------------------
(* Constants.                                                              *)

\* One number several times at an instruction.
EqualConstants ==
  {Main(<<Get(1), Instr("mla", 2, <<Const(3), Reg(1), Const(3)>>),
          Instr("mla", 3, <<Const(3), Reg(2), Reg(1)>>), Return(Reg(3))>>),
   Unit(<<"weigh", "main">>,
        <<Weigh(4), Function(<<>>, NoBytes,
             <<<<Get(1), Call(2, "weigh", <<Const(3), Const(3), Reg(1), Const(3)>>),
                 Instr("mla", 3, <<Const(3), Reg(2), Reg(1)>>), Return(Reg(3))>> >>)>>, NoGlobals)}

\* Above, constants of one number are one object.  Here each is its own, as the
\* builder and most passes make them.
Distinct(u) ==
  LET own(b, k, o, v) == IF v[1] = "const" THEN Append(v, <<b, k, o>>) ELSE v
      instr(b, k, i) == [i EXCEPT !.ops = [o \in DOMAIN @ |-> own(b, k, o, i.ops[o])]]
      code(f) == [b \in DOMAIN f.code |-> [k \in DOMAIN f.code[b] |-> instr(b, k, f.code[b][k])]]
  IN [u EXCEPT !.func = [n \in DOMAIN @ |-> [u.func[n] EXCEPT !.code = code(u.func[n])]]]
=============================================================================
