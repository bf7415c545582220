----------------------------- MODULE MCOptimize -----------------------------
(***************************************************************************)
(* The units of OptimizerUnits, and families of small units, through the   *)
(* passes main.cpp runs after Mem2Reg.                                     *)
(***************************************************************************)
EXTENDS Optimize, OptimizerUnits

Written == {ConstantsUnit, CallsUnit, NestedUnit, ArraysUnit, AlgebraUnit, SameUnit, JumpsUnit,
            RecursionUnit, StoresUnit, DominanceUnit, LoopsUnit, TermsUnit, InLoopUnit}

----------------------------------------------------------------------------
(* n = getint(); t = n op x; u = t op y or y op t; putint(u); return t;    *)

Terms == {Reg(1), Const(0), Const(1), Const(-3), Const(4)}

Expressions ==
  {Main(<<Get(1), s, t, Put(Reg(3)), Return(Reg(2))>>) :
     s \in {Op(op, 2, Reg(1), x) : op \in {"add", "sub", "mul"}, x \in Terms},
     t \in {Op(op, 3, Reg(2), y) : op \in {"add", "sub", "mul"}, y \in Terms}
           \cup {Op(op, 3, y, Reg(2)) : op \in {"add", "sub"}, y \in Terms}
           \cup {Op(op, 3, Reg(2), y) : op \in {"div", "rem"}, y \in Terms \ {Reg(1), Const(0)}}}

----------------------------------------------------------------------------
(* Two conditions of which some are known, and what meets after each.      *)

Known == {Reg(1), Const(1), Const(2)}

Diamonds ==
  {Blocks(<<<<Get(1), Op("lt", 2, x, Const(2)), If(Reg(2), 2, 3)>>,
           <<Put(v), Go(3)>>,
           <<Phi(3, <<<<v, 2>>, <<w, 1>>>>), Op("eq", 4, Reg(3), y), If(Reg(4), 4, 5)>>,
           <<Op("add", 5, Reg(3), Const(1)), Go(6)>>,
           <<Op("add", 6, v, Const(1)), Go(6)>>,
           <<Phi(7, <<<<Reg(5), 4>>, <<Reg(6), 5>>>>), Put(Reg(7)), Return(Reg(3))>>>>) :
     x, y, v, w \in Known}

----------------------------------------------------------------------------
(* A loop with a term that may be known, or the same in every round.       *)

Rounds ==
  {Blocks(<<<<Get(1), Go(2)>>,
           <<Phi(2, <<<<Const(0), 1>>, <<Reg(3), 3>>>>), Phi(4, <<<<v, 1>>, <<Reg(5), 3>>>>),
             Op("lt", 6, Reg(2), Const(2)), If(Reg(6), 3, 4)>>,
           <<Op("add", 3, Reg(2), Const(1)), Op("mul", 7, x, y), Op("add", 5, Reg(7), w),
             Put(Reg(5)), Go(2)>>,
           <<Put(Reg(4)), Return(Reg(2))>>>>) :
     v \in Known, x, y, w \in Known \cup {Reg(2), Reg(4)}}

----------------------------------------------------------------------------

MCUnits == Written \cup Expressions \cup Diamonds \cup Rounds
\* A phi of a constant and of an argument, or of a call that is visited later.
MCUntold == {PhiOfArgumentUnit, StaleUnit}

MCInputs == {<<0, 1>>, <<3, 2>>, <<-5, 7>>}
MCPipeline ==
  <<"SCCP", "DeadCodeElimination", "LoopInvariant", "InstructionCombination", "SCCP",
    "MirSimplifyCFG", "GVN", "FunctionInline", "SCCP", "MirSimplifyCFG",
    "DeadCodeElimination", "GVN", "DeadCodeElimination", "MirSimplifyCFG", "LowerIR",
    "LoopInvariant", "RmPhi">>
=============================================================================
