------------------------------ MODULE MCCompile ------------------------------
(***************************************************************************)
(* Programs to compile.  The literals passed to putint tell one place from *)
(* another; the other values are what getint returns, 0 or 1.              *)
(***************************************************************************)
EXTENDS Compile

FullPipeline ==
  <<"HIRToMIR", "MirSimplifyCFG", "Mem2Reg", "MirSimplifyCFG", "SCCP",
    "DeadCodeElimination", "SCCP", "MirSimplifyCFG", "SCCP", "MirSimplifyCFG",
    "DeadCodeElimination", "DeadCodeElimination", "MirSimplifyCFG", "RmPhi">>

\* After HIRToMIR, Mem2Reg, the MirSimplifyCFG that follows the second SCCP, and RmPhi.
RunPoints == {13, 11, 6, 0}
RunLast   == {0}
RunOnce   == {13, 0}

----------------------------------------------------------------------------
(* One variable: an if, an if-else or a loop in another, or after one.     *)

A == Var("a")
OneVariable(items) ==
  Block(<<Decl("a"), Set("a", Input)>> \o items \o <<Put(A), Return(A)>>)

Conds == {Input, A, Both(Input, A), Either(Both(A, Input), Input)}

Straight == {Set("a", Input), Return(A), Block(<<>>)}
InLoop   == Straight \cup {Break, Continue}

Ifs(conds, arms)   == {If(c, s) : c \in conds, s \in arms}
Elses(conds, arms) == {IfElse(c, s, Set("a", Input)) : c \in conds, s \in arms}
Loops(conds, arms) == {While(c, s) : c \in conds, s \in arms}
Branches(conds, arms) == Ifs(conds, arms) \cup Elses(conds, arms)

Nested ==
  Ifs(Conds, Branches(Conds, Straight) \cup Loops(Conds, InLoop))
  \cup Loops(Conds, Branches(Conds, InLoop) \cup Loops(Conds, InLoop))

InSequence ==
  {<<s, t>> : s \in Branches({Input, Both(Input, A)}, Straight),
              t \in Loops({Input, Either(Both(A, Input), Input)}, InLoop)}

\* Code a literal condition or a jump makes dead, without a loop in it, and
\* loops on a literal that do something.
Literal ==
  Ifs({Lit(0), Lit(1), Both(Lit(1), A), Either(Lit(0), A)}, Branches(Conds, Straight))
  \cup Loops({Lit(0), Both(A, Lit(0))}, Branches({Input}, InLoop))
  \cup Loops({Lit(1), Either(A, Lit(1))}, Branches({Input}, InLoop))

AfterJump ==
  {While(Input, Block(<<Empty, j, s, Put(Lit(1))>>)) :
     j \in {Break, Continue, Return(A), ReturnVoid}, s \in Branches({Input, A}, InLoop)}

OneVariablePrograms ==
  {OneVariable(<<s>>) : s \in Nested \cup Literal \cup AfterJump}
  \cup {OneVariable(p) : p \in InSequence}

----------------------------------------------------------------------------
(* Two variables that are given each other's values.                       *)

TwoVariables(items) ==
  Block(<<Decl("a"), Decl("b"), Set("a", Input), Set("b", Input)>> \o items
          \o <<Put(Var("a")), Put(Var("b"))>>)

Moves == {Set("a", Var("b")), Set("b", Var("a")), Set("a", Input), Set("b", Input)}
Pairs == {Block(<<s, t>>) : s, t \in Moves}

\* No loop here gives a variable, on one path, what another had a round before.
TwoVariablePrograms ==
  {TwoVariables(<<s>>) : s \in
     {IfElse(Input, s, t) : s \in Moves, t \in Pairs} \cup Ifs({A}, Pairs)
     \cup Loops({Input, A}, Ifs({Input, A}, Moves))
     \cup Loops({Input}, {IfElse(A, s, t) : s, t \in Moves})}

MCPrograms == OneVariablePrograms \cup TwoVariablePrograms

\* while (getint()) { a = b; b = getint(); }
Rotation ==
  {TwoVariables(<<While(Input, Block(<<Set("a", Var("b")), Set("b", Input)>>))>>)}

----------------------------------------------------------------------------
(* Loops that read or write each time round.                               *)

Busy == {Set("a", Input), Block(<<Put(Lit(1)), If(A, Continue), If(Input, Break)>>)}
BusyPrograms ==
  {OneVariable(<<s>>) : s \in
     Loops({Input, Lit(1), Either(Input, A)}, Busy \cup Loops({Input}, Busy \cup {Break, Continue}))
     \cup Loops({Input}, Loops({Lit(0)}, Busy \cup {Block(<<>>)}) \cup Loops({Lit(1)}, Busy \cup {Break}))}

----------------------------------------------------------------------------
(* A loop in dead code.                                                    *)

\* if (0) { while (getint()) a = getint(); }
DeadLoopWithPhi == {OneVariable(<<If(Lit(0), While(Input, Set("a", Input)))>>)}
=============================================================================
