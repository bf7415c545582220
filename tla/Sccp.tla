-------------------------------- MODULE Sccp --------------------------------
(***************************************************************************)
(* passes/sccp.cpp over one function: constant operations are folded, then *)
(* values are propagated along the edges found executable.  One action     *)
(* visits one instruction, of the block being scanned or among the users   *)
(* of a value that changed; these come in the order of the use list, which *)
(* the model leaves open.  Floating point is left out.                     *)
(***************************************************************************)
EXTENDS Compiling, Words

VARIABLE lat   \* [table: register -> value; exec: executable blocks; blocks,
               \*  values: the work lists; rest: still to visit in the block
               \*  taken; users: still to visit for the value taken; inner:
               \*  whether the loop over values has begun; trap]

Unassigned == <<"none", 0>>

NoLat == [table |-> <<>>, exec |-> {}, blocks |-> <<>>, values |-> <<>>,
          rest |-> <<>>, users |-> {}, inner |-> FALSE, trap |-> FALSE]

Binary == {"add", "sub", "mul", "div", "rem"} \cup Comparisons
Computing == Binary \cup {"zext"}
IsDefinite(v) == v[1] = "const"

\* calConstantIntBinary computes in long: nothing wraps at the width of an int.
Calculated(op, a, b) ==
  CASE op = "add" -> a + b
    [] op = "sub" -> a - b
    [] op = "mul" -> a * b
    [] op = "div" -> Quotient(a, b)
    [] op = "rem" -> Remainder(a, b)
    [] OTHER      -> IF Holds(op, a, b) THEN 1 ELSE 0

\* The compiler itself divides.
Traps(op, b) == op \in {"div", "rem"} /\ b = 0

----------------------------------------------------------------------------
(* constantFoldAndPropagation.                                             *)

Foldable(i) == i.op \in Computing /\ \A o \in ToSet(i.ops) : o[1] = "const"

\* The value of foldable instruction i.
FoldedTo(i) ==
  Const(IF i.op = "zext" THEN i.ops[1][2] ELSE Calculated(i.op, i.ops[1][2], i.ops[2][2]))

FoldAt(a, b, k) ==
  LET i == a.f.code[b][k]
  IN IF a.trap \/ ~Foldable(i) THEN a
     ELSE IF i.op # "zext" /\ Traps(i.op, i.ops[2][2]) THEN [a EXCEPT !.trap = TRUE]
     ELSE [a EXCEPT !.f = ReplaceAllUse(@, Reg(i.r), FoldedTo(i)), !.gone = @ \cup {i.r}]

\* The function with its constant operations folded, or a trap.
FoldConstants(f) ==
  LET ofBlock(a, b) == FoldLeft(LAMBDA c, k : FoldAt(c, b, k), a, [k \in DOMAIN f.code[b] |-> k])
      end == FoldLeft(ofBlock, [f |-> f, trap |-> FALSE, gone |-> {}], f.list)
      kept(b) == SelectSeq(end.f.code[b], LAMBDA i : i.r = 0 \/ i.r \notin end.gone)
  IN [f |-> Recoded(end.f, kept),
      trap |-> end.trap]

----------------------------------------------------------------------------
(* The table.  Arguments, addresses and Uncertain are never assigned.      *)

Value(l, o) ==
  CASE o[1] = "const" -> o
    [] o[1] = "reg" /\ o[2] \in DOMAIN l.table -> l.table[o[2]]
    [] OTHER -> Unassigned

Assign(l, r, v) ==
  [l EXCEPT !.table = [q \in DOMAIN @ \cup {r} |-> IF q = r THEN v ELSE @[q]]]

Queue(l, r) == [l EXCEPT !.values = Append(@, r)]

\* A value that falls to uncertain is propagated.
SetUncertain(l, r) ==
  Assign(IF Value(l, Reg(r)) # Uncertain THEN Queue(l, r) ELSE l, r, Uncertain)

\* A constant is, the first time.
SetConstant(l, r, v) ==
  Assign(IF Value(l, Reg(r)) = Unassigned THEN Queue(l, r) ELSE l, r, v)

\* Successor k of b again, if it is executable; a block has at most two.
Again(f, l, b, k) ==
  IF k \in DOMAIN f.succ[b] /\ f.succ[b][k] \in l.exec \cup {b} THEN <<f.succ[b][k]>> ELSE <<>>

\* Slip: a block that is executable already is scanned again.
MarkAgain(f, l, b) == [l EXCEPT !.exec = @ \cup {b}, !.blocks = Append(@, b)]

\* A block becomes executable; those of its successors that are, are scanned
\* again.
MarkExecutable(f, l, b) ==
  IF b \in l.exec THEN l
  ELSE [l EXCEPT !.exec = @ \cup {b},
                 !.blocks = Append(@, b) \o Again(f, l, b, 1) \o Again(f, l, b, 2)]

----------------------------------------------------------------------------
(* sccpOnInstrution.                                                       *)

VisitBinary(l, i) ==
  LET x == Value(l, i.ops[1])
      y == Value(l, i.ops[2])
  IN IF ~IsDefinite(x) \/ ~IsDefinite(y) THEN SetUncertain(l, i.r)
     ELSE IF Traps(i.op, y[2]) THEN [l EXCEPT !.trap = TRUE]
     ELSE SetConstant(l, i.r, Const(Calculated(i.op, x[2], y[2])))

\* The values that come from executable blocks.
FromExecutable(l, i) ==
  {Value(l, i.ops[k - 1]) : k \in {j \in Incoming(i) : i.ops[j][2] \in l.exec}}

\* Slip: the first known value decides.
VisitPhiOnce(l, i) ==
  LET known == {v \in FromExecutable(l, i) : IsDefinite(v)}
  IN IF known # {} /\ Value(l, Reg(i.r)) = Unassigned
     THEN SetConstant(l, i.r, CHOOSE v \in known : TRUE) ELSE l

\* One constant, whatever is not assigned yet apart.
VisitPhi(l, i) ==
  LET from  == FromExecutable(l, i)
      known == {v \in from : IsDefinite(v)}
  IN IF Uncertain \in from \/ (\E v, w \in known : v # w) THEN SetUncertain(l, i.r)
     ELSE IF known # {} /\ Value(l, Reg(i.r)) = Unassigned
     THEN SetConstant(l, i.r, CHOOSE v \in known : TRUE) ELSE l

VisitCondBr(f, l, i) ==
  LET c   == Value(l, i.ops[1])
      yes == i.ops[2][2]
      no  == i.ops[3][2]
  IN IF ~IsDefinite(c) THEN MarkExecutable(f, MarkExecutable(f, l, yes), no)
     ELSE MarkExecutable(f, l, IF c # Const(0) THEN yes ELSE no)

VisitZext(l, i) ==
  LET v == Value(l, i.ops[1])
  IN IF IsDefinite(v) THEN SetConstant(l, i.r, v) ELSE SetUncertain(l, i.r)

Visit(f, l, i) ==
  CASE i.op \in Binary -> VisitBinary(l, i)
    [] IsPhi(i) -> VisitPhi(l, i)
    [] IsConBranch(i) -> VisitCondBr(f, l, i)
    [] i.op \in {"load", "call"} /\ i.r # 0 -> Assign(l, i.r, Uncertain)
    [] i.op = "zext" -> VisitZext(l, i)
    [] OTHER -> l

\* sccpOnBasicBlock: an only successor is executable.
EnterOnly(f, l, b) == IF Len(f.succ[b]) = 1 THEN MarkExecutable(f, l, Head(f.succ[b])) ELSE l

----------------------------------------------------------------------------
(* sparseConditionalConstantPropagation.                                   *)

StartSccp(f) == [NoLat EXCEPT !.exec = {Entry(f)}, !.blocks = <<Entry(f)>>]

After(l) == /\ IF l.trap THEN failed' = "trap" /\ lat' = NoLat ELSE lat' = l /\ UNCHANGED failed
            /\ UNCHANGED fn

Idle == failed = "no" /\ lat.rest = <<>> /\ lat.users = {}

ScanBlock ==
  /\ Idle /\ lat.blocks # <<>>
  /\ ~lat.inner \/ lat.values = <<>>
  /\ lat' = EnterOnly(fn, [lat EXCEPT !.blocks = Tail(@), !.inner = FALSE,
                                     !.rest = fn.code[Head(lat.blocks)]], Head(lat.blocks))
  /\ UNCHANGED <<fn, failed>>

VisitNext ==
  /\ failed = "no" /\ lat.rest # <<>>
  /\ After(Visit(fn, [lat EXCEPT !.rest = Tail(@)], Head(lat.rest)))

TakeValue ==
  /\ Idle /\ lat.values # <<>>
  /\ lat.inner \/ lat.blocks = <<>>
  /\ lat' = [lat EXCEPT !.values = Tail(@), !.inner = TRUE,
                        !.users = Uses(fn, Reg(Head(lat.values)))]
  /\ UNCHANGED <<fn, failed>>

VisitUser ==
  /\ failed = "no"
  /\ \E i \in lat.users : After(Visit(fn, [lat EXCEPT !.users = @ \ {i}], i))

SccpDone == lat # NoLat /\ lat.blocks = <<>> /\ lat.rest = <<>> /\ lat.values = <<>> /\ lat.users = {}

\* replaceConstant: what has a value is deleted, its uses become the value.
Decided(l) == {r \in DOMAIN l.table : IsDefinite(l.table[r])}

WithValue(l, o) == IF IsDefinite(Value(l, o)) THEN Value(l, o) ELSE o
WithValues(l, i) == [i EXCEPT !.ops = [k \in DOMAIN @ |-> WithValue(l, @[k])]]

\* How many of the positions that stay are before k.
Before(stay, k) == Cardinality({j \in stay : j < k})

\* What is left of the instructions s, in their order.
Staying(l, s) == {k \in DOMAIN s : s[k].r \notin Decided(l)}
Undeleted(l, s) ==
  LET stay == Staying(l, s)
  IN [n \in 1..Cardinality(stay) |->
        WithValues(l, s[CHOOSE k \in stay : Before(stay, k) + 1 = n])]

ReplaceConstants(f, l) == [f EXCEPT !.code = Whole([b \in DOMAIN @ |-> Undeleted(l, @[b])])]

FinishSccp ==
  /\ failed = "no" /\ SccpDone
  /\ fn' = ReplaceConstants(fn, lat) /\ lat' = NoLat
  /\ UNCHANGED failed

SccpNext == ScanBlock \/ VisitNext \/ TakeValue \/ VisitUser \/ FinishSccp

----------------------------------------------------------------------------
(* What the other passes leave: registers with one definition, operands of *)
(* the right number, and, in the blocks still listed, successors that name *)
(* the targets and where the pairs of the phis come from.                  *)

OperandFits(o) ==
  /\ o[1] = "reg" => o = Reg(o[2])
  /\ o[1] = "const" => o = Const(o[2]) /\ o[2] \in Int

OperandsFit(f, i) ==
  /\ i.r \in Nat /\ i.ops \in Seq(ToSet(i.ops)) /\ \A o \in ToSet(i.ops) : OperandFits(o)
  /\ i.op \in Binary => Len(i.ops) = 2
  /\ i.op = "zext" => Len(i.ops) = 1
  /\ i.op \in Computing => i.r # 0 /\ Reg(i.r) \notin ToSet(i.ops)
  /\ IsPhi(i) => i.r # 0 /\ Len(i.ops) % 2 = 0
  /\ i.op = "br" => IsBranch(i) \/ IsConBranch(i)
  /\ IsConBranch(i) => i.ops[1][1] # "block" /\ i.ops[2][1] = "block" /\ i.ops[3][1] = "block"
  /\ Targets(i) \subseteq DOMAIN f.code

SuccessorsFit(f, b, i) ==
  /\ IsBranch(i) => Targets(i) = ToSet(f.succ[b]) /\ Len(f.succ[b]) = 1
  /\ IsPhi(i) => \A k \in Incoming(i) :
       i.ops[k][2] \in DOMAIN f.code => b \in ToSet(f.succ[i.ops[k][2]])

SccpExpects(f) ==
  /\ DOMAIN f.succ = DOMAIN f.code /\ ToSet(f.list) \subseteq DOMAIN f.code
  /\ Entry(f) \in ToSet(f.list)
  /\ \A b \in DOMAIN f.code : /\ f.code[b] \in Seq(AllInstrs(f))
                              /\ f.succ[b] \in Seq(DOMAIN f.code) /\ Len(f.succ[b]) <= 2
  /\ \A i \in AllInstrs(f) : OperandsFit(f, i)
  /\ \A i, j \in AllInstrs(f) : i.r = j.r /\ i.r # 0 => i = j
  /\ \A b \in ToSet(f.list) : \A i \in ToSet(f.code[b]) : SuccessorsFit(f, b, i)

SccpInit == SccpExpects(fn) /\ lat = StartSccp(fn) /\ failed = "no"
SccpSpec == SccpInit /\ [][SccpNext]_<<fn, lat, failed>>

\* The registers the table may come to hold.
Told(f, r) ==
  r # 0 /\ \E i \in AllInstrs(f) : i.r = r /\ i.op \in Computing \cup {"phi", "load", "call"}

----------------------------------------------------------------------------
(* What the table is to be.                                                *)

\* That a load or a call becomes uncertain is not propagated.
Silent(f, o) == \E i \in AllInstrs(f) : i.op \in {"load", "call"} /\ o = Reg(i.r)

\* What instruction i computes of the table's values.
Computed(l, i) ==
  IF i.op = "zext" THEN Value(l, i.ops[1])
  ELSE Const(Calculated(i.op, Value(l, i.ops[1])[2], Value(l, i.ops[2])[2]))

ValueSolved(f, l, i) ==
  LET v == Value(l, Reg(i.r))
  IN /\ i.op \in Computing =>
          v = Uncertain \/ (v = Computed(l, i) /\ \A o \in ToSet(i.ops) : IsDefinite(Value(l, o)))
     /\ i.op \in {"load", "call"} /\ i.r # 0 => v = Uncertain
     /\ IsPhi(i) /\ v # Uncertain => \A k \in Incoming(i) :
          i.ops[k][2] \in l.exec => Value(l, i.ops[k - 1]) \in {v, Unassigned} \/ Silent(f, i.ops[k - 1])
     /\ IsPhi(i) /\ IsDefinite(v) => v \in FromExecutable(l, i)

BranchSolved(l, i) ==
  \/ Targets(i) \subseteq l.exec
  \/ /\ IsConBranch(i) /\ IsDefinite(Value(l, i.ops[1]))
     /\ i.ops[IF Value(l, i.ops[1]) = Const(0) THEN 3 ELSE 2][2] \in l.exec

\* sccp.cpp: when the work lists are empty the table is a solution.  What an
\* instruction of an executable block of the list computes has the constant its
\* operands give, or none; a phi's constant is what every executable predecessor
\* brings, apart from loads, calls and what has no value; and the blocks a branch
\* may go to are executable.
ConstantsJustified ==
  SccpDone =>
    /\ Entry(fn) \in lat.exec
    /\ \A b \in lat.exec \cap ToSet(fn.list) : \A i \in ToSet(fn.code[b]) :
         ValueSolved(fn, lat, i) /\ BranchSolved(lat, i)

----------------------------------------------------------------------------
(* What else is to be true for the table to be right about a run.          *)

\* A phi has a pair for each branch into its block, and arguments are not
\* assigned.
EdgesExpected(f) ==
  /\ \A i \in AllInstrs(f) : i.r \in 0..f.regs /\ (i.r # 0 => i.r \notin ToSet(f.args))
  /\ \A b \in ToSet(f.list) : \A i \in ToSet(f.code[b]) :
       /\ Targets(i) \subseteq ToSet(f.list)
       /\ \A c \in Targets(i) : \A p \in ToSet(f.code[c]) :
            IsPhi(p) => \E k \in Incoming(p) : p.ops[k] = Label(b)

\* What was calculated in long is an int, and so is what was written.
IsWord(v) == v = Const(v[2]) /\ v[2] \in Int /\ Wrap(v[2]) = v[2]
ConstantsFit(f, l) ==
  /\ \A r \in DOMAIN l.table : IsDefinite(l.table[r]) => IsWord(l.table[r])
  /\ \A i \in InstrsOf(f) : \A o \in ToSet(i.ops) : IsDefinite(o) => IsWord(o)

\* No phi has kept a constant that a load, a call or an argument belies.
PhisCurrent(f, l) ==
  \A b \in l.exec \cap ToSet(f.list) : \A i \in ToSet(f.code[b]) :
    IsPhi(i) /\ Value(l, Reg(i.r)) # Uncertain =>
      \A k \in Incoming(i) : i.ops[k][2] \in l.exec =>
        LET o == i.ops[k - 1]
        IN /\ Value(l, o) \in {Value(l, Reg(i.r)), Unassigned}
           /\ Value(l, o) = Unassigned => o = Uncertain \/ (o = Reg(o[2]) /\ Told(f, o[2]))
=============================================================================
