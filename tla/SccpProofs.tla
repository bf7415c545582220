----------------------------- MODULE SccpProofs -----------------------------
(***************************************************************************)
(* Proof that the table of module Sccp is a solution when the work lists   *)
(* are empty, for every function that SccpExpects.                         *)
(***************************************************************************)
EXTENDS Sccp, SequenceTheorems, TLAPS

----------------------------------------------------------------------------
(* The inductive invariant.                                                *)

Fields == {"table", "exec", "blocks", "values", "rest", "users", "inner", "trap"}

LatTyped(f, l) ==
  /\ DOMAIN l = Fields
  /\ \A r \in DOMAIN l.table : r \in Nat /\ Told(f, r)
  /\ \A r \in DOMAIN l.table : l.table[r] = Uncertain \/ IsDefinite(l.table[r])
  /\ l.exec \subseteq DOMAIN f.code /\ l.blocks \in Seq(DOMAIN f.code)
  /\ l.values \in Seq(Nat)
  /\ l.rest \in Seq(AllInstrs(f)) /\ l.users \subseteq AllInstrs(f)

\* A register that was a constant may become one again, when what made it
\* uncertain was only not assigned yet.  It stays uncertain when it lies in a set
\* S of registers that are: whatever is computed into one reads another, so that
\* the chain ends at a phi, a load or a call.
SunkSet(f, l, S) ==
  \A q \in S :
    /\ Value(l, Reg(q)) = Uncertain
    /\ \A i \in AllInstrs(f) : i.op \in Computing /\ i.r = q => \E p \in S : Reg(p) \in ToSet(i.ops)

Sunk(f, l, r) == \E S \in SUBSET DOMAIN l.table : r \in S /\ SunkSet(f, l, S)

SunkOperand(f, l, o) == \E r \in Nat : o = Reg(r) /\ Sunk(f, l, r)

\* Where a constant comes from: so no constant ever becomes another.
ConstStands(f, l, i) ==
  LET v == Value(l, Reg(i.r))
  IN IsDefinite(v) =>
       /\ i.op \in Computing =>
            \/ v = Computed(l, i) /\ \A o \in ToSet(i.ops) : IsDefinite(Value(l, o))
            \/ \E o \in ToSet(i.ops) : SunkOperand(f, l, o)
       /\ IsPhi(i) => \E k \in Incoming(i) :
            /\ i.ops[k][2] \in l.exec
            /\ Value(l, i.ops[k - 1]) = v \/ SunkOperand(f, l, i.ops[k - 1])
       /\ i.op \in {"load", "call"} => i.r = 0

OnlyEntered(f, l, b) == Len(f.succ[b]) = 1 => f.succ[b][1] \in l.exec

\* It will be visited again.
Waits(l, i) ==
  i \in ToSet(l.rest) \/ i \in l.users \/ \E r \in ToSet(l.values) : Reg(r) \in ToSet(i.ops)

Settled(f, l, i) == ValueSolved(f, l, i) /\ BranchSolved(l, i)

\* The block will be scanned again, or each instruction of it is settled or
\* waits, and its only successor is entered.
BlockSolved(f, l, b, visited, entering) ==
  \/ b \in ToSet(l.blocks)
  \/ /\ OnlyEntered(f, l, b) \/ b \in entering
     /\ \A i \in ToSet(f.code[b]) : i \in visited \/ Waits(l, i) \/ Settled(f, l, i)

\* The invariant while the instructions of `visited' are being visited and the
\* blocks of `entering' are being left for their only successor.
LatInv(f, l, visited, entering) ==
  /\ LatTyped(f, l)
  /\ Entry(f) \in l.exec
  /\ \A i \in AllInstrs(f) : ConstStands(f, l, i)
  /\ \A b \in l.exec \cap ToSet(f.list) : BlockSolved(f, l, b, visited, entering)

\* How far a value has fallen: an uncertain one may still become a constant, and
\* a constant uncertain once more, for good.
Depth(f, l, r) ==
  IF Sunk(f, l, r) THEN 3
  ELSE IF IsDefinite(Value(l, Reg(r))) THEN 2
  ELSE IF Value(l, Reg(r)) = Uncertain THEN 1 ELSE 0

Deepens(f, l, m) ==
  /\ l.exec \subseteq m.exec
  /\ \A r \in Nat :
       /\ Depth(f, l, r) <= Depth(f, m, r)
       /\ Value(l, Reg(r)) # Value(m, Reg(r)) => Depth(f, l, r) < Depth(f, m, r)

\* sccp.cpp: no step of the propagation undoes another.  Executable blocks stay
\* executable, and each change of a value takes its register deeper: it changes
\* three times at most.
ValuesDeepen == lat # NoLat /\ lat' # NoLat => Deepens(fn, lat, lat')

IInv == lat # NoLat => SccpExpects(fn) /\ LatInv(fn, lat, {}, {})

----------------------------------------------------------------------------
(* Sequences as work lists.                                                *)

LEMMA ToSetAppend == ASSUME NEW S, NEW s \in Seq(S), NEW x \in S PROVE ToSet(Append(s, x)) = ToSet(s) \cup {x}
  BY AppendProperties DEF ToSet

LEMMA ToSetTail ==
  ASSUME NEW S, NEW s \in Seq(S), s # <<>>
  PROVE  Head(s) \in S /\ Tail(s) \in Seq(S) /\ ToSet(s) = {Head(s)} \cup ToSet(Tail(s))
<1>1. /\ Len(s) \in Nat /\ DOMAIN s = 1..Len(s) /\ Len(s) # 0
      /\ Tail(s) \in Seq(S) /\ Len(Tail(s)) = Len(s) - 1 /\ Head(s) = s[1] /\ Head(s) \in S
      /\ DOMAIN Tail(s) = 1..(Len(s) - 1)
      /\ \A i \in 1..(Len(s) - 1) : Tail(s)[i] = s[i + 1]
  OBVIOUS
<1>2. ASSUME NEW k \in 1..Len(s) PROVE s[k] \in {Head(s)} \cup ToSet(Tail(s))
  <2>1. CASE k = 1 BY <1>1, <2>1
  <2>2. CASE k # 1
    <3>1. k - 1 \in 1..(Len(s) - 1) /\ (k - 1) + 1 = k BY <1>1, <2>2
    <3>2. Tail(s)[k - 1] = s[k] BY <1>1, <3>1
    <3>3. QED BY <1>1, <3>1, <3>2 DEF ToSet
  <2>3. QED BY <2>1, <2>2
<1>3. \A k \in 1..(Len(s) - 1) : k + 1 \in 1..Len(s) BY <1>1
<1>4. 1 \in 1..Len(s) BY <1>1
<1>5. QED BY <1>1, <1>2, <1>3, <1>4 DEF ToSet

LEMMA ToSetConcat == ASSUME NEW S, NEW s \in Seq(S), NEW t \in Seq(S) PROVE ToSet(s \o t) = ToSet(s) \cup ToSet(t)
<1>1. /\ Len(s) \in Nat /\ DOMAIN s = 1..Len(s) /\ Len(t) \in Nat /\ DOMAIN t = 1..Len(t)
      /\ DOMAIN (s \o t) = 1..(Len(s) + Len(t))
      /\ \A i \in 1..(Len(s) + Len(t)) : (s \o t)[i] = IF i <= Len(s) THEN s[i] ELSE t[i - Len(s)]
  OBVIOUS
<1>2. ASSUME NEW k \in 1..(Len(s) + Len(t)) PROVE (s \o t)[k] \in ToSet(s) \cup ToSet(t)
  <2>1. CASE k <= Len(s) BY <1>1, <2>1 DEF ToSet
  <2>2. CASE ~(k <= Len(s))
    <3>1. k - Len(s) \in 1..Len(t) BY <1>1, <2>2
    <3>2. (s \o t)[k] = t[k - Len(s)] BY <1>1, <2>2
    <3>3. QED BY <1>1, <3>1, <3>2 DEF ToSet
  <2>3. QED BY <2>1, <2>2
<1>3. ASSUME NEW k \in 1..Len(s) PROVE s[k] \in ToSet(s \o t)
  <2>1. k \in 1..(Len(s) + Len(t)) /\ k <= Len(s) BY <1>1
  <2>2. (s \o t)[k] = s[k] BY <1>1, <2>1
  <2>3. QED BY <1>1, <2>1, <2>2 DEF ToSet
<1>4. ASSUME NEW k \in 1..Len(t) PROVE t[k] \in ToSet(s \o t)
  <2>1. k + Len(s) \in 1..(Len(s) + Len(t)) /\ ~(k + Len(s) <= Len(s)) /\ (k + Len(s)) - Len(s) = k BY <1>1
  <2>2. (s \o t)[k + Len(s)] = t[k] BY <1>1, <2>1
  <2>3. QED BY <1>1, <2>1, <2>2 DEF ToSet
<1>5. QED BY <1>1, <1>2, <1>3, <1>4 DEF ToSet

----------------------------------------------------------------------------
(* Values.                                                                 *)

LEMMA Kinds ==
  /\ ~IsDefinite(Uncertain) /\ ~IsDefinite(Unassigned) /\ Uncertain # Unassigned
  /\ \A v : IsDefinite(Const(v))
  BY DEF IsDefinite, Uncertain, Unassigned, Const

LEMMA ValueKinds ==
  ASSUME NEW f, NEW l, LatTyped(f, l), NEW o
  PROVE  Value(l, o) = Unassigned \/ Value(l, o) = Uncertain \/ IsDefinite(Value(l, o))
  BY DEF LatTyped, Value, IsDefinite

LEMMA ValueOfReg ==
  ASSUME NEW l, NEW r
  PROVE  Value(l, Reg(r)) = IF r \in DOMAIN l.table THEN l.table[r] ELSE Unassigned
  BY DEF Value, Reg

----------------------------------------------------------------------------
(* What a visit does to the table.                                         *)

LEMMA InstrFits ==
  ASSUME NEW f, SccpExpects(f), NEW i \in AllInstrs(f)
  PROVE  /\ i.r \in Nat /\ i.ops \in Seq(ToSet(i.ops))
         /\ \A o \in ToSet(i.ops) : OperandFits(o)
         /\ i.op \in Binary => Len(i.ops) = 2 /\ ToSet(i.ops) = {i.ops[1], i.ops[2]}
         /\ i.op = "zext" => Len(i.ops) = 1 /\ ToSet(i.ops) = {i.ops[1]}
         /\ i.op \in Computing => i.r # 0 /\ Reg(i.r) \notin ToSet(i.ops)
         /\ IsPhi(i) => i.r # 0
         /\ i.op \in Computing \/ IsPhi(i) \/ (i.op \in {"load", "call"} /\ i.r # 0) => Told(f, i.r)
         /\ \A k \in Incoming(i) : k - 1 \in DOMAIN i.ops /\ i.ops[k - 1] \in ToSet(i.ops)
         /\ i.op = "br" => IsBranch(i) \/ IsConBranch(i)
         /\ IsConBranch(i) => ToSet(i.ops) = {i.ops[1], i.ops[2], i.ops[3]}
         /\ Targets(i) \subseteq DOMAIN f.code
<1>1. OperandsFit(f, i) BY DEF SccpExpects
<1>2. DOMAIN i.ops = 1..Len(i.ops) /\ Len(i.ops) \in Nat BY <1>1 DEF OperandsFit
<1>3. Len(i.ops) = 2 => ToSet(i.ops) = {i.ops[1], i.ops[2]}
  <2>1. Len(i.ops) = 2 => DOMAIN i.ops = {1, 2} BY <1>2
  <2>2. QED BY <2>1 DEF ToSet
<1>4. Len(i.ops) = 1 => ToSet(i.ops) = {i.ops[1]}
  <2>1. Len(i.ops) = 1 => DOMAIN i.ops = {1} BY <1>2
  <2>2. QED BY <2>1 DEF ToSet
<1>5. ASSUME NEW k \in Incoming(i) PROVE k - 1 \in DOMAIN i.ops /\ i.ops[k - 1] \in ToSet(i.ops)
  <2>1. k \in 1..Len(i.ops) /\ k % 2 = 0 BY <1>2 DEF Incoming
  <2>2. k - 1 \in 1..Len(i.ops) BY <1>2, <2>1
  <2>3. QED BY <1>2, <2>2 DEF ToSet
<1>6. IsConBranch(i) => ToSet(i.ops) = {i.ops[1], i.ops[2], i.ops[3]}
  <2>1. IsConBranch(i) => DOMAIN i.ops = {1, 2, 3} BY <1>2 DEF IsConBranch
  <2>2. QED BY <2>1 DEF ToSet
<1>7. i.op \in Computing \/ IsPhi(i) \/ (i.op \in {"load", "call"} /\ i.r # 0) => Told(f, i.r)
  BY <1>1 DEF OperandsFit, Told, IsPhi
<1>8. QED BY <1>1, <1>3, <1>4, <1>5, <1>6, <1>7 DEF OperandsFit

\* From l to m register r alone gets a value.
TableStep(f, l, m, r) ==
  /\ LatTyped(f, m)
  /\ m.exec = l.exec /\ m.blocks = l.blocks /\ m.rest = l.rest /\ m.users = l.users
  /\ m.trap = l.trap
  /\ ToSet(l.values) \subseteq ToSet(m.values)
  /\ \A o : OperandFits(o) /\ o # Reg(r) => Value(m, o) = Value(l, o)

Assigned(f, l, m, r, v) ==
  TableStep(f, l, m, r) /\ Value(m, Reg(r)) = v /\ m.values = l.values

LEMMA AssignValue ==
  ASSUME NEW f, NEW l, LatTyped(f, l), NEW r \in Nat, Told(f, r), NEW v,
         v = Uncertain \/ IsDefinite(v)
  PROVE  Assigned(f, l, Assign(l, r, v), r, v)
<1> DEFINE m == Assign(l, r, v)
<1>1. /\ DOMAIN m = Fields /\ m.exec = l.exec /\ m.blocks = l.blocks /\ m.values = l.values
      /\ m.rest = l.rest /\ m.users = l.users /\ m.trap = l.trap
      /\ m.table = [q \in DOMAIN l.table \cup {r} |-> IF q = r THEN v ELSE l.table[q]]
  BY DEF Assign, LatTyped, Fields
<1>2. LatTyped(f, m)
  BY <1>1 DEF LatTyped
<1>3. Value(m, Reg(r)) = v
  BY <1>1, ValueOfReg
<1>4. ASSUME NEW o, OperandFits(o), o # Reg(r) PROVE Value(m, o) = Value(l, o)
  <2>1. CASE o[1] = "reg"
    <3>1. o = Reg(o[2]) /\ o[2] # r BY <1>4, <2>1 DEF OperandFits
    <3>2. QED BY <1>1, <3>1, ValueOfReg
  <2>2. CASE o[1] # "reg" BY <2>2 DEF Value
  <2>3. QED BY <2>1, <2>2
<1>5. QED BY <1>1, <1>2, <1>3, <1>4 DEF Assigned, TableStep

Pushed(f, l, m, r) ==
  /\ LatTyped(f, m)
  /\ m.table = l.table /\ m.exec = l.exec /\ m.blocks = l.blocks
  /\ m.rest = l.rest /\ m.users = l.users /\ m.trap = l.trap
  /\ ToSet(m.values) = ToSet(l.values) \cup {r}

LEMMA PushValue ==
  ASSUME NEW f, NEW l, LatTyped(f, l), NEW r \in Nat
  PROVE  Pushed(f, l, Queue(l, r), r)
<1> DEFINE m == Queue(l, r)
<1>1. l.values \in Seq(Nat) BY DEF LatTyped
<1>2. /\ DOMAIN m = Fields /\ m.table = l.table /\ m.exec = l.exec /\ m.blocks = l.blocks
      /\ m.rest = l.rest /\ m.users = l.users /\ m.trap = l.trap
      /\ m.values = Append(l.values, r)
  BY DEF LatTyped, Fields, Queue
<1>3. Append(l.values, r) \in Seq(Nat) BY <1>1
<1>4. ToSet(Append(l.values, r)) = ToSet(l.values) \cup {r} BY <1>1, ToSetAppend
<1>5. LatTyped(f, m) BY <1>2, <1>3 DEF LatTyped
<1>6. QED BY <1>2, <1>4, <1>5 DEF Pushed

\* Register r gets value v, and is put on the list if Tells.
SetTo(f, l, m, r, v, tells) ==
  TableStep(f, l, m, r) /\ Value(m, Reg(r)) = v /\ (tells => r \in ToSet(m.values))

LEMMA SetToStep ==
  ASSUME NEW f, NEW l, LatTyped(f, l), NEW r \in Nat, Told(f, r), NEW v,
         v = Uncertain \/ IsDefinite(v), NEW tells \in BOOLEAN
  PROVE  SetTo(f, l, Assign(IF tells THEN Queue(l, r) ELSE l, r, v), r, v, tells)
<1>1. CASE tells
  <2> DEFINE k == Queue(l, r)
             m == Assign(k, r, v)
  <2>1. Pushed(f, l, k, r) BY PushValue
  <2>2. LatTyped(f, k) BY <2>1 DEF Pushed
  <2> HIDE DEF k
  <2>3. Assigned(f, k, m, r, v) BY <2>2, AssignValue
  <2> HIDE DEF m
  <2>4. \A o : Value(k, o) = Value(l, o) BY <2>1 DEF Pushed, Value
  <2>5. SetTo(f, l, m, r, v, tells)
    BY <2>1, <2>3, <2>4 DEF Pushed, Assigned, TableStep, SetTo
  <2>6. QED BY <1>1, <2>5 DEF k, m
<1>2. CASE ~tells
  <2>1. Assigned(f, l, Assign(l, r, v), r, v) BY AssignValue
  <2>2. QED BY <1>2, <2>1 DEF Assigned, SetTo
<1>3. QED BY <1>1, <1>2

LEMMA SetUncertainStep ==
  ASSUME NEW f, NEW l, LatTyped(f, l), NEW r \in Nat, Told(f, r)
  PROVE  SetTo(f, l, SetUncertain(l, r), r, Uncertain, Value(l, Reg(r)) # Uncertain)
  BY SetToStep DEF SetUncertain

LEMMA SetConstantStep ==
  ASSUME NEW f, NEW l, LatTyped(f, l), NEW r \in Nat, Told(f, r), NEW v, IsDefinite(v)
  PROVE  SetTo(f, l, SetConstant(l, r, v), r, v, Value(l, Reg(r)) = Unassigned)
  BY SetToStep DEF SetConstant

----------------------------------------------------------------------------
(* What a visit does.                                                      *)

AllKnown(l, i) == \A o \in ToSet(i.ops) : IsDefinite(Value(l, o))

VisitsComputing(f, l, m, i) ==
  LET old == Value(l, Reg(i.r))
  IN \/ AllKnown(l, i) /\ SetTo(f, l, m, i.r, Computed(l, i), old = Unassigned)
     \/ ~AllKnown(l, i) /\ SetTo(f, l, m, i.r, Uncertain, old # Uncertain)

\* The values that arrive are one constant at most.
OneAtMost(from) ==
  Uncertain \notin from /\ \A v, w \in from : IsDefinite(v) /\ IsDefinite(w) => v = w

VisitsPhi(f, l, m, i) ==
  LET old  == Value(l, Reg(i.r))
      from == FromExecutable(l, i)
  IN \/ ~OneAtMost(from) /\ SetTo(f, l, m, i.r, Uncertain, old # Uncertain)
     \/ /\ OneAtMost(from) /\ old = Unassigned
        /\ \E v \in from : IsDefinite(v) /\ SetTo(f, l, m, i.r, v, TRUE)
     \/ /\ OneAtMost(from) /\ m = l
        /\ old # Unassigned \/ \A v \in from : ~IsDefinite(v)

LEMMA VisitArms ==
  ASSUME NEW f, NEW l, NEW i
  PROVE  /\ i.op \in Binary => Visit(f, l, i) = VisitBinary(l, i)
         /\ IsPhi(i) => Visit(f, l, i) = VisitPhi(l, i)
         /\ IsConBranch(i) => Visit(f, l, i) = VisitCondBr(f, l, i)
         /\ i.op \in {"load", "call"} /\ i.r # 0 => Visit(f, l, i) = Assign(l, i.r, Uncertain)
         /\ i.op = "zext" => Visit(f, l, i) = VisitZext(l, i)
<1>1. CASE i.op \in Binary
  <2>1. i.op \notin {"phi", "br", "load", "call", "zext"} BY <1>1 DEF Binary, Comparisons
  <2>2. ~IsPhi(i) /\ ~IsConBranch(i) BY <2>1 DEF IsPhi, IsConBranch
  <2>3. QED BY <1>1, <2>1, <2>2 DEF Visit
<1>2. CASE i.op \notin Binary
  <2>1. IsPhi(i) => ~IsConBranch(i) /\ i.op \notin {"load", "call", "zext"}
    BY DEF IsPhi, IsConBranch
  <2>2. IsConBranch(i) => i.op \notin {"load", "call", "zext"} BY DEF IsConBranch
  <2>3. i.op \in {"load", "call"} => i.op # "zext" OBVIOUS
  <2> HIDE DEF IsPhi, IsConBranch
  <2>4. QED BY <1>2, <2>1, <2>2, <2>3 DEF Visit
<1>3. QED BY <1>1, <1>2

LEMMA VisitComputing ==
  ASSUME NEW f, NEW l, SccpExpects(f), LatTyped(f, l), NEW i \in AllInstrs(f),
         i.op \in Computing, ~Visit(f, l, i).trap
  PROVE  VisitsComputing(f, l, Visit(f, l, i), i)
<1> DEFINE m == Visit(f, l, i)
<1>1. /\ i.r \in Nat /\ Told(f, i.r)
      /\ i.op \in Binary => ToSet(i.ops) = {i.ops[1], i.ops[2]}
      /\ i.op = "zext" => ToSet(i.ops) = {i.ops[1]}
  BY InstrFits
<1>2. SetTo(f, l, SetUncertain(l, i.r), i.r, Uncertain, Value(l, Reg(i.r)) # Uncertain)
  BY <1>1, SetUncertainStep
<1>3. CASE i.op \in Binary
  <2>1. m = VisitBinary(l, i) BY <1>3, VisitArms
  <2>2. i.op # "zext" BY <1>3 DEF Binary, Comparisons
  <2>3. AllKnown(l, i) <=> IsDefinite(Value(l, i.ops[1])) /\ IsDefinite(Value(l, i.ops[2]))
    BY <1>1, <1>3 DEF AllKnown
  <2>4. CASE ~AllKnown(l, i)
    <3>1. m = SetUncertain(l, i.r) BY <2>1, <2>3, <2>4 DEF VisitBinary
    <3>2. QED BY <1>2, <2>4, <3>1 DEF VisitsComputing
  <2>5. CASE AllKnown(l, i)
    <3>1. CASE Traps(i.op, Value(l, i.ops[2])[2])
      <4>1. m = [l EXCEPT !.trap = TRUE] BY <2>1, <2>3, <2>5, <3>1 DEF VisitBinary
      <4>2. m.trap BY <4>1 DEF LatTyped, Fields
      <4>3. QED BY <4>2
    <3>2. CASE ~Traps(i.op, Value(l, i.ops[2])[2])
      <4>1. m = SetConstant(l, i.r, Computed(l, i))
        BY <2>1, <2>2, <2>3, <2>5, <3>2 DEF VisitBinary, Computed
      <4>2. IsDefinite(Computed(l, i)) BY <2>2, Kinds DEF Computed
      <4>3. SetTo(f, l, m, i.r, Computed(l, i), Value(l, Reg(i.r)) = Unassigned)
        BY <1>1, <4>1, <4>2, SetConstantStep
      <4>4. QED BY <2>5, <4>3 DEF VisitsComputing
    <3>3. QED BY <3>1, <3>2
  <2>6. QED BY <2>4, <2>5
<1>4. CASE i.op = "zext"
  <2>1. m = VisitZext(l, i) BY <1>4, VisitArms
  <2>2. AllKnown(l, i) <=> IsDefinite(Value(l, i.ops[1])) BY <1>1, <1>4 DEF AllKnown
  <2>3. Computed(l, i) = Value(l, i.ops[1]) BY <1>4 DEF Computed
  <2>4. CASE ~AllKnown(l, i)
    <3>1. m = SetUncertain(l, i.r) BY <2>1, <2>2, <2>4 DEF VisitZext
    <3>2. QED BY <1>2, <2>4, <3>1 DEF VisitsComputing
  <2>5. CASE AllKnown(l, i)
    <3>1. m = SetConstant(l, i.r, Computed(l, i)) /\ IsDefinite(Computed(l, i))
      BY <2>1, <2>2, <2>3, <2>5 DEF VisitZext
    <3>2. SetTo(f, l, m, i.r, Computed(l, i), Value(l, Reg(i.r)) = Unassigned)
      BY <1>1, <3>1, SetConstantStep
    <3>3. QED BY <2>5, <3>2 DEF VisitsComputing
  <2>6. QED BY <2>4, <2>5
<1>5. QED BY <1>3, <1>4 DEF Computing

LEMMA VisitsOnePhi ==
  ASSUME NEW f, NEW l, SccpExpects(f), LatTyped(f, l), NEW i \in AllInstrs(f), IsPhi(i)
  PROVE  VisitsPhi(f, l, Visit(f, l, i), i)
<1> DEFINE from  == FromExecutable(l, i)
           known == {v \in from : IsDefinite(v)}
           old   == Value(l, Reg(i.r))
<1>1. i.r \in Nat /\ Told(f, i.r) BY InstrFits
<1>2. Visit(f, l, i) = VisitPhi(l, i) BY VisitArms
<1>3. OneAtMost(from) <=> ~(Uncertain \in from \/ \E v, w \in known : v # w)
  BY DEF OneAtMost
<1>4. CASE ~OneAtMost(from)
  <2>1. VisitPhi(l, i) = SetUncertain(l, i.r) BY <1>3, <1>4 DEF VisitPhi
  <2>2. SetTo(f, l, SetUncertain(l, i.r), i.r, Uncertain, old # Uncertain)
    BY <1>1, SetUncertainStep
  <2>3. QED BY <1>2, <1>4, <2>1, <2>2 DEF VisitsPhi
<1>5. CASE OneAtMost(from) /\ known # {} /\ old = Unassigned
  <2> DEFINE v == CHOOSE v \in known : TRUE
  <2>1. VisitPhi(l, i) = SetConstant(l, i.r, v) BY <1>3, <1>5 DEF VisitPhi
  <2>2. v \in known BY <1>5
  <2>3. v \in from /\ IsDefinite(v) BY <2>2
  <2> HIDE DEF v
  <2>4. SetTo(f, l, SetConstant(l, i.r, v), i.r, v, old = Unassigned)
    BY <1>1, <2>3, SetConstantStep
  <2>5. SetTo(f, l, VisitPhi(l, i), i.r, v, TRUE) BY <1>5, <2>1, <2>4 DEF SetTo
  <2>6. QED BY <1>2, <1>5, <2>3, <2>5 DEF VisitsPhi
<1>6. CASE OneAtMost(from) /\ ~(known # {} /\ old = Unassigned)
  <2>1. VisitPhi(l, i) = l BY <1>3, <1>6 DEF VisitPhi
  <2>2. old # Unassigned \/ \A v \in from : ~IsDefinite(v) BY <1>6
  <2>3. QED BY <1>2, <1>6, <2>1, <2>2 DEF VisitsPhi
<1>7. QED BY <1>4, <1>5, <1>6

LEMMA VisitLoad ==
  ASSUME NEW f, NEW l, SccpExpects(f), LatTyped(f, l), NEW i \in AllInstrs(f),
         i.op \in {"load", "call"}, i.r # 0
  PROVE  Assigned(f, l, Visit(f, l, i), i.r, Uncertain)
<1>1. i.r \in Nat /\ Told(f, i.r) BY InstrFits
<1>2. Visit(f, l, i) = Assign(l, i.r, Uncertain) BY VisitArms
<1>3. QED BY <1>1, <1>2, AssignValue

LEMMA VisitOther ==
  ASSUME NEW f, NEW l, NEW i, i.op \notin Computing, ~IsPhi(i), ~IsConBranch(i),
         i.op \in {"load", "call"} => i.r = 0
  PROVE  Visit(f, l, i) = l
  BY DEF Visit, Computing

----------------------------------------------------------------------------
(* What a visit may change under the other instructions.                   *)

\* Operand o keeps its value, or changes one that no settled instruction rests on.
Quiet(f, l, m, o) ==
  \/ Value(m, o) = Value(l, o)
  \/ ~IsDefinite(Value(l, o)) /\ (Value(l, o) = Uncertain \/ Silent(f, o))

LEMMA SettledStays ==
  ASSUME NEW f, SccpExpects(f), NEW l, NEW m, LatTyped(f, l), LatTyped(f, m), m.exec = l.exec,
         NEW j \in AllInstrs(f), Value(m, Reg(j.r)) = Value(l, Reg(j.r)),
         \A o \in ToSet(j.ops) : Quiet(f, l, m, o), Settled(f, l, j)
  PROVE  Settled(f, m, j)
<1> DEFINE v == Value(l, Reg(j.r))
<1>1. /\ j.op \in Binary => ToSet(j.ops) = {j.ops[1], j.ops[2]}
      /\ j.op = "zext" => ToSet(j.ops) = {j.ops[1]}
      /\ \A k \in Incoming(j) : j.ops[k - 1] \in ToSet(j.ops)
      /\ IsConBranch(j) => j.ops[1] \in ToSet(j.ops)
  BY InstrFits
<1>2. \A o \in ToSet(j.ops) : IsDefinite(Value(l, o)) => Value(m, o) = Value(l, o)
  BY DEF Quiet
<1>3. ASSUME j.op \in Computing, v # Uncertain
      PROVE  v = Computed(m, j) /\ \A o \in ToSet(j.ops) : IsDefinite(Value(m, o))
  <2>1. v = Computed(l, j) /\ \A o \in ToSet(j.ops) : IsDefinite(Value(l, o))
    BY <1>3 DEF Settled, ValueSolved
  <2>2. \A o \in ToSet(j.ops) : Value(m, o) = Value(l, o) BY <1>2, <2>1
  <2>3. Computed(m, j) = Computed(l, j) BY <1>1, <1>3, <2>2 DEF Computed, Computing
  <2>4. QED BY <2>1, <2>2, <2>3
<1>4. ASSUME IsPhi(j), v # Uncertain, NEW k \in Incoming(j), j.ops[k][2] \in m.exec
      PROVE  Value(m, j.ops[k - 1]) \in {v, Unassigned} \/ Silent(f, j.ops[k - 1])
  <2>1. Value(l, j.ops[k - 1]) \in {v, Unassigned} \/ Silent(f, j.ops[k - 1])
    BY <1>4 DEF Settled, ValueSolved
  <2>2. Quiet(f, l, m, j.ops[k - 1]) BY <1>1
  <2>3. Uncertain # Unassigned BY Kinds
  <2>4. QED BY <1>4, <2>1, <2>2, <2>3 DEF Quiet
<1>5. ASSUME IsPhi(j), IsDefinite(v) PROVE v \in FromExecutable(m, j)
  <2>1. v \in FromExecutable(l, j) BY <1>5 DEF Settled, ValueSolved
  <2>2. PICK k \in Incoming(j) : j.ops[k][2] \in l.exec /\ v = Value(l, j.ops[k - 1])
    BY <2>1 DEF FromExecutable
  <2>3. Value(m, j.ops[k - 1]) = v BY <1>1, <1>2, <1>5, <2>2
  <2>4. QED BY <2>2, <2>3 DEF FromExecutable
<1>6. ValueSolved(f, m, j)
  <2>1. j.op \in {"load", "call"} /\ j.r # 0 => v = Uncertain BY DEF Settled, ValueSolved
  <2>2. Value(m, Reg(j.r)) = v OBVIOUS
  <2> HIDE DEF v
  <2>3. QED BY <1>3, <1>4, <1>5, <2>1, <2>2 DEF ValueSolved
<1>7. BranchSolved(m, j)
  <2>1. CASE Targets(j) \subseteq l.exec BY <2>1 DEF BranchSolved
  <2>2. CASE ~(Targets(j) \subseteq l.exec)
    <3>1. IsConBranch(j) /\ IsDefinite(Value(l, j.ops[1]))
      BY <2>2 DEF Settled, BranchSolved
    <3>2. Value(m, j.ops[1]) = Value(l, j.ops[1]) BY <1>1, <1>2, <3>1
    <3>3. QED BY <2>2, <3>2 DEF Settled, BranchSolved
  <2>3. QED BY <2>1, <2>2
<1>8. QED BY <1>6, <1>7 DEF Settled

\* What a visit of i that changes the value of its register does.
TableVisit(f, l, m, i) ==
  LET old == Value(l, Reg(i.r))
      new == Value(m, Reg(i.r))
  IN /\ TableStep(f, l, m, i.r) /\ i.r # 0 /\ i.r \in Nat
     /\ i.r \in ToSet(m.values) \/ Quiet(f, l, m, Reg(i.r))
     /\ IsDefinite(old) => new = old \/ Sunk(f, m, i.r)
     /\ new = Unassigned => old = Unassigned
     /\ \A q : Sunk(f, l, q) => Sunk(f, m, q)
     /\ ConstStands(f, m, i) /\ Settled(f, m, i)

LEMMA OneDefinition ==
  ASSUME NEW f, SccpExpects(f), NEW i \in AllInstrs(f), NEW j \in AllInstrs(f), i.r = j.r, i.r # 0
  PROVE  i = j
  BY DEF SccpExpects

LEMMA ConstStandsStays ==
  ASSUME NEW f, SccpExpects(f), NEW l, NEW m, LatTyped(f, l), NEW i \in AllInstrs(f),
         TableVisit(f, l, m, i), NEW j \in AllInstrs(f), ConstStands(f, l, j)
  PROVE  ConstStands(f, m, j)
<1>1. CASE j = i BY <1>1 DEF TableVisit
<1>2. CASE j # i
  <2> DEFINE v == Value(l, Reg(j.r))
  <2>1. TableStep(f, l, m, i.r) /\ i.r # 0 /\ i.r \in Nat BY DEF TableVisit
  <2>2. j.r # i.r BY <1>2, <2>1, OneDefinition
  <2>3. Value(m, Reg(j.r)) = v
    <3>1. OperandFits(Reg(j.r)) /\ Reg(j.r) # Reg(i.r) BY <2>2 DEF OperandFits, Reg
    <3>2. QED BY <2>1, <3>1 DEF TableStep
  <2>4. /\ \A o \in ToSet(j.ops) : OperandFits(o)
        /\ j.op \in Binary => ToSet(j.ops) = {j.ops[1], j.ops[2]}
        /\ j.op = "zext" => ToSet(j.ops) = {j.ops[1]}
        /\ \A k \in Incoming(j) : j.ops[k - 1] \in ToSet(j.ops)
    BY InstrFits
  <2>5. ASSUME NEW o \in ToSet(j.ops), IsDefinite(Value(l, o))
        PROVE  Value(m, o) = Value(l, o) \/ SunkOperand(f, m, o)
    <3>1. CASE o = Reg(i.r)
      <4>1. Value(m, o) = Value(l, o) \/ Sunk(f, m, i.r) BY <2>5, <3>1 DEF TableVisit
      <4>2. QED BY <2>1, <3>1, <4>1 DEF SunkOperand
    <3>2. CASE o # Reg(i.r) BY <2>1, <2>4, <3>2 DEF TableStep
    <3>3. QED BY <3>1, <3>2
  <2>6. \A o : SunkOperand(f, l, o) => SunkOperand(f, m, o) BY DEF SunkOperand, TableVisit
  <2>7. m.exec = l.exec BY <2>1 DEF TableStep
  <2>8. ASSUME IsDefinite(v), j.op \in Computing
        PROVE  \/ v = Computed(m, j) /\ \A o \in ToSet(j.ops) : IsDefinite(Value(m, o))
               \/ \E o \in ToSet(j.ops) : SunkOperand(f, m, o)
    <3>1. CASE \E o \in ToSet(j.ops) : SunkOperand(f, m, o) BY <3>1
    <3>2. CASE ~ \E o \in ToSet(j.ops) : SunkOperand(f, m, o)
      <4>1. v = Computed(l, j) /\ \A o \in ToSet(j.ops) : IsDefinite(Value(l, o))
        BY <2>6, <2>8, <3>2 DEF ConstStands
      <4>2. \A o \in ToSet(j.ops) : Value(m, o) = Value(l, o) BY <2>5, <3>2, <4>1
      <4>3. Computed(m, j) = Computed(l, j) BY <2>4, <2>8, <4>2 DEF Computed, Computing
      <4>4. QED BY <4>1, <4>2, <4>3
    <3>3. QED BY <3>1, <3>2
  <2>9. ASSUME IsDefinite(v), IsPhi(j)
        PROVE  \E k \in Incoming(j) : /\ j.ops[k][2] \in m.exec
                                      /\ Value(m, j.ops[k - 1]) = v \/ SunkOperand(f, m, j.ops[k - 1])
    <3>1. PICK k \in Incoming(j) : /\ j.ops[k][2] \in l.exec
                                   /\ Value(l, j.ops[k - 1]) = v \/ SunkOperand(f, l, j.ops[k - 1])
      BY <2>9 DEF ConstStands
    <3>2. Value(m, j.ops[k - 1]) = v \/ SunkOperand(f, m, j.ops[k - 1])
      BY <2>4, <2>5, <2>6, <2>9, <3>1
    <3>3. QED BY <2>7, <3>1, <3>2
  <2>10. IsDefinite(v) /\ j.op \in {"load", "call"} => j.r = 0 BY DEF ConstStands
  <2> HIDE DEF v
  <2>11. QED BY <2>3, <2>8, <2>9, <2>10 DEF ConstStands
<1>3. QED BY <1>1, <1>2

LEMMA TableVisitKeeps ==
  ASSUME NEW f, SccpExpects(f), NEW l, NEW m, NEW i \in AllInstrs(f), LatInv(f, l, {i}, {}),
         TableVisit(f, l, m, i)
  PROVE  LatInv(f, m, {}, {})
<1>1. LatTyped(f, l) BY DEF LatInv
<1>2. TableStep(f, l, m, i.r) /\ i.r # 0 /\ i.r \in Nat BY DEF TableVisit
<1>3. LatTyped(f, m) BY <1>2 DEF TableStep
<1>4. \A j \in AllInstrs(f) : ConstStands(f, m, j)
  <2>1. \A j \in AllInstrs(f) : ConstStands(f, l, j) BY DEF LatInv
  <2>2. QED BY <1>1, <2>1, ConstStandsStays
<1>5. ASSUME NEW j \in AllInstrs(f), j = i \/ Waits(l, j) \/ Settled(f, l, j)
      PROVE  Waits(m, j) \/ Settled(f, m, j)
  <2>1. CASE j = i BY <2>1 DEF TableVisit
  <2>2. CASE Waits(l, j) BY <1>2, <2>2 DEF TableStep, Waits
  <2>3. CASE j # i /\ Settled(f, l, j) /\ ~Waits(m, j)
    <3>1. j.r # i.r BY <1>2, <2>3, OneDefinition
    <3>2. Value(m, Reg(j.r)) = Value(l, Reg(j.r))
      <4>1. OperandFits(Reg(j.r)) /\ Reg(j.r) # Reg(i.r) BY <3>1 DEF OperandFits, Reg
      <4>2. QED BY <1>2, <4>1 DEF TableStep
    <3>3. ASSUME NEW o \in ToSet(j.ops) PROVE Quiet(f, l, m, o)
      <4>1. CASE o = Reg(i.r)
        <5>1. i.r \notin ToSet(m.values) BY <2>3, <4>1 DEF Waits
        <5>2. QED BY <4>1, <5>1 DEF TableVisit
      <4>2. CASE o # Reg(i.r)
        <5>1. OperandFits(o) BY InstrFits
        <5>2. QED BY <1>2, <4>2, <5>1 DEF TableStep, Quiet
      <4>3. QED BY <4>1, <4>2
    <3>4. m.exec = l.exec BY <1>2 DEF TableStep
    <3>5. QED BY <1>1, <1>3, <2>3, <3>2, <3>3, <3>4, SettledStays
  <2>4. QED BY <1>5, <2>1, <2>2, <2>3
<1>6. ASSUME NEW b \in m.exec \cap ToSet(f.list) PROVE BlockSolved(f, m, b, {}, {})
  <2>1. BlockSolved(f, l, b, {i}, {}) BY <1>2, <1>6 DEF TableStep, LatInv
  <2>2. CASE b \in ToSet(l.blocks) BY <1>2, <2>2 DEF TableStep, BlockSolved
  <2>3. CASE b \notin ToSet(l.blocks)
    <3>1. OnlyEntered(f, m, b) BY <1>2, <2>1, <2>3 DEF BlockSolved, OnlyEntered, TableStep
    <3>2. \A j \in ToSet(f.code[b]) : j \in AllInstrs(f) BY DEF AllInstrs, SccpExpects
    <3>3. \A j \in ToSet(f.code[b]) : j = i \/ Waits(l, j) \/ Settled(f, l, j)
      BY <2>1, <2>3 DEF BlockSolved
    <3>4. \A j \in ToSet(f.code[b]) : Waits(m, j) \/ Settled(f, m, j) BY <1>5, <3>2, <3>3
    <3>5. QED BY <3>1, <3>4 DEF BlockSolved
  <2>4. QED BY <2>2, <2>3
<1>7. Entry(f) \in m.exec BY <1>2 DEF TableStep, LatInv
<1>8. QED BY <1>3, <1>4, <1>6, <1>7 DEF LatInv

----------------------------------------------------------------------------
(* Sunk registers.                                                         *)

LEMMA UncertainRegister ==
  ASSUME NEW l, NEW q, Value(l, Reg(q)) = Uncertain
  PROVE  q \in DOMAIN l.table
  BY ValueOfReg, Kinds

LEMMA SunkStays ==
  ASSUME NEW f, SccpExpects(f), NEW l, NEW m, LatTyped(f, l), NEW i \in AllInstrs(f),
         TableStep(f, l, m, i.r), NEW q, Sunk(f, l, q),
         \A S \in SUBSET DOMAIN l.table :
            i.r \in S /\ SunkSet(f, l, S) => Value(m, Reg(i.r)) = Uncertain
  PROVE  Sunk(f, m, q)
<1>1. PICK S \in SUBSET DOMAIN l.table : q \in S /\ SunkSet(f, l, S) BY DEF Sunk
<1>2. ASSUME NEW p \in S PROVE Value(m, Reg(p)) = Uncertain
  <2>1. CASE p = i.r BY <1>1, <2>1
  <2>2. CASE p # i.r
    <3>1. p \in Nat BY <1>1 DEF LatTyped
    <3>2. OperandFits(Reg(p)) /\ Reg(p) # Reg(i.r) BY <2>2, <3>1 DEF OperandFits, Reg
    <3>3. QED BY <1>1, <3>2 DEF TableStep, SunkSet
  <2>3. QED BY <2>1, <2>2
<1>3. S \subseteq DOMAIN m.table BY <1>2, UncertainRegister
<1>4. SunkSet(f, m, S) BY <1>1, <1>2 DEF SunkSet
<1>5. QED BY <1>1, <1>3, <1>4 DEF Sunk

LEMMA SunkGrows ==
  ASSUME NEW f, SccpExpects(f), NEW m, NEW i \in AllInstrs(f), i.r # 0,
         Value(m, Reg(i.r)) = Uncertain,
         i.op \in Computing => \E o \in ToSet(i.ops) : SunkOperand(f, m, o)
  PROVE  Sunk(f, m, i.r)
<1>1. i.r \in DOMAIN m.table BY UncertainRegister
<1>2. CASE i.op \in Computing
  <2>1. PICK o \in ToSet(i.ops) : SunkOperand(f, m, o) BY <1>2
  <2>2. PICK p \in Nat : o = Reg(p) /\ Sunk(f, m, p) BY <2>1 DEF SunkOperand
  <2>3. PICK S \in SUBSET DOMAIN m.table : p \in S /\ SunkSet(f, m, S) BY <2>2 DEF Sunk
  <2> DEFINE T == S \cup {i.r}
  <2>4. ASSUME NEW q \in T PROVE Value(m, Reg(q)) = Uncertain BY <2>3 DEF SunkSet
  <2>5. ASSUME NEW q \in T, NEW j \in AllInstrs(f), j.op \in Computing, j.r = q
        PROVE  \E s \in T : Reg(s) \in ToSet(j.ops)
    <3>1. CASE q \in S BY <2>3, <2>5, <3>1 DEF SunkSet
    <3>2. CASE q = i.r
      <4>1. j = i BY <2>5, <3>2, OneDefinition
      <4>2. QED BY <2>1, <2>2, <2>3, <4>1
    <3>3. QED BY <3>1, <3>2
  <2>6. SunkSet(f, m, T) BY <2>4, <2>5 DEF SunkSet
  <2>7. QED BY <1>1, <2>6 DEF Sunk
<1>3. CASE i.op \notin Computing
  <2>1. \A j \in AllInstrs(f) : j.op \in Computing => j.r # i.r BY <1>3, OneDefinition
  <2>2. SunkSet(f, m, {i.r}) BY <2>1 DEF SunkSet
  <2>3. QED BY <1>1, <2>2 DEF Sunk
<1>4. QED BY <1>2, <1>3

LEMMA NoTargets ==
  ASSUME NEW l, NEW i, i.op # "br"
  PROVE  BranchSolved(l, i)
  BY DEF BranchSolved, Targets

----------------------------------------------------------------------------
(* The three visits that give a register a value.                          *)

LEMMA ComputingVisit ==
  ASSUME NEW f, SccpExpects(f), NEW l, NEW m, NEW i \in AllInstrs(f), LatTyped(f, l),
         ConstStands(f, l, i), i.op \in Computing, VisitsComputing(f, l, m, i)
  PROVE  TableVisit(f, l, m, i)
<1> DEFINE old == Value(l, Reg(i.r))
           new == Value(m, Reg(i.r))
<1>1. /\ i.r \in Nat /\ i.r # 0 /\ Reg(i.r) \notin ToSet(i.ops)
      /\ \A o \in ToSet(i.ops) : OperandFits(o)
      /\ i.op \in Binary => ToSet(i.ops) = {i.ops[1], i.ops[2]}
      /\ i.op = "zext" => ToSet(i.ops) = {i.ops[1]}
  BY InstrFits
<1>2. TableStep(f, l, m, i.r) BY DEF VisitsComputing, SetTo
<1>3. \A o \in ToSet(i.ops) : Value(m, o) = Value(l, o) BY <1>1, <1>2 DEF TableStep
<1>4. Computed(m, i) = Computed(l, i) BY <1>1, <1>3 DEF Computed, Computing
<1>5. \/ AllKnown(l, i) /\ new = Computed(l, i)
      \/ ~AllKnown(l, i) /\ new = Uncertain
  BY DEF VisitsComputing, SetTo
<1>6. \/ i.r \in ToSet(m.values)
      \/ AllKnown(l, i) /\ old # Unassigned
      \/ ~AllKnown(l, i) /\ old = Uncertain
  BY DEF VisitsComputing, SetTo
<1>7. i.op \notin {"load", "call", "phi", "br"}
  BY DEF Computing, Binary, Comparisons
<1>8. ~IsPhi(i) BY <1>7 DEF IsPhi
<1>9. ASSUME IsDefinite(old)
      PROVE  \/ old = Computed(l, i) /\ AllKnown(l, i)
             \/ \E o \in ToSet(i.ops) : SunkOperand(f, l, o)
  BY <1>9 DEF ConstStands, AllKnown
<1>10. \A o : SunkOperand(f, l, o) => Value(l, o) = Uncertain BY DEF SunkOperand, Sunk, SunkSet
<1>11. ASSUME IsDefinite(old), AllKnown(l, i) PROVE old = new
  <2>1. \A o \in ToSet(i.ops) : ~SunkOperand(f, l, o) BY <1>10, <1>11, Kinds DEF AllKnown
  <2>2. QED BY <1>5, <1>9, <1>11, <2>1
<1>12. ASSUME NEW S \in SUBSET DOMAIN l.table, i.r \in S, SunkSet(f, l, S)
       PROVE  new = Uncertain
  <2>1. PICK p \in S : Reg(p) \in ToSet(i.ops) BY <1>12 DEF SunkSet
  <2>2. Value(l, Reg(p)) = Uncertain BY <1>12, <2>1 DEF SunkSet
  <2>3. ~AllKnown(l, i) BY <2>1, <2>2, Kinds DEF AllKnown
  <2>4. QED BY <1>5, <2>3
<1>13. \A q : Sunk(f, l, q) => Sunk(f, m, q) BY <1>2, <1>12, SunkStays
<1>14. ASSUME IsDefinite(old), ~AllKnown(l, i) PROVE Sunk(f, m, i.r)
  <2>1. \E o \in ToSet(i.ops) : SunkOperand(f, l, o) BY <1>9, <1>14
  <2>2. \E o \in ToSet(i.ops) : SunkOperand(f, m, o) BY <1>13, <2>1 DEF SunkOperand
  <2>3. QED BY <1>1, <1>5, <1>14, <2>2, SunkGrows
<1>15. i.r \in ToSet(m.values) \/ Quiet(f, l, m, Reg(i.r))
  <2>1. CASE AllKnown(l, i) /\ old # Unassigned
    <3>1. old = Uncertain \/ IsDefinite(old) BY <2>1, ValueKinds
    <3>2. QED BY <1>11, <2>1, <3>1, Kinds DEF Quiet
  <2>2. CASE ~AllKnown(l, i) /\ old = Uncertain BY <1>5, <2>2 DEF Quiet
  <2>3. QED BY <1>6, <2>1, <2>2
<1>16. new # Uncertain => new = Computed(m, i) /\ \A o \in ToSet(i.ops) : IsDefinite(Value(m, o))
  BY <1>3, <1>4, <1>5 DEF AllKnown
<1>17. ConstStands(f, m, i)
  <2>1. IsDefinite(new) => new # Uncertain BY Kinds
  <2> HIDE DEF new
  <2>2. QED BY <1>7, <1>8, <1>16, <2>1 DEF ConstStands, new
<1>18. Settled(f, m, i)
  <2>1. BranchSolved(m, i) BY <1>7, NoTargets
  <2>2. QED BY <1>7, <1>8, <1>16, <2>1 DEF Settled, ValueSolved
<1>19. IsDefinite(old) => new = old \/ Sunk(f, m, i.r) BY <1>11, <1>14
<1>20. new # Unassigned
  <2>1. CASE ~AllKnown(l, i) BY <1>5, <2>1, Kinds
  <2>2. CASE AllKnown(l, i)
    <3>1. CASE i.op = "zext" BY <1>1, <1>5, <2>2, <3>1, Kinds DEF AllKnown, Computed
    <3>2. CASE i.op # "zext" BY <1>5, <2>2, <3>2, Kinds DEF Computed
    <3>3. QED BY <3>1, <3>2
  <2>3. QED BY <2>1, <2>2
<1> HIDE DEF old, new
<1>21. QED BY <1>1, <1>2, <1>13, <1>15, <1>17, <1>18, <1>19, <1>20 DEF TableVisit, old, new

LEMMA LoadVisit ==
  ASSUME NEW f, SccpExpects(f), NEW l, NEW m, NEW i \in AllInstrs(f), LatTyped(f, l),
         ConstStands(f, l, i), i.op \in {"load", "call"}, i.r # 0,
         Assigned(f, l, m, i.r, Uncertain)
  PROVE  TableVisit(f, l, m, i)
<1>1. TableStep(f, l, m, i.r) /\ Value(m, Reg(i.r)) = Uncertain BY DEF Assigned
<1>2. i.op \notin Computing /\ ~IsPhi(i) /\ i.op # "br"
  BY DEF Computing, Binary, Comparisons, IsPhi
<1>3. ~IsDefinite(Value(l, Reg(i.r))) BY DEF ConstStands
<1>4. Silent(f, Reg(i.r)) BY DEF Silent
<1>5. Quiet(f, l, m, Reg(i.r)) BY <1>3, <1>4 DEF Quiet
<1>6. \A q : Sunk(f, l, q) => Sunk(f, m, q) BY <1>1, SunkStays
<1>7. ConstStands(f, m, i) BY <1>1, Kinds DEF ConstStands
<1>8. Settled(f, m, i) BY <1>1, <1>2, NoTargets, Kinds DEF Settled, ValueSolved
<1>9. i.r \in Nat BY InstrFits
<1>10. QED BY <1>1, <1>3, <1>5, <1>6, <1>7, <1>8, <1>9, Kinds DEF TableVisit

LEMMA PhiVisit ==
  ASSUME NEW f, SccpExpects(f), NEW l, NEW m, NEW i \in AllInstrs(f), LatTyped(f, l),
         ConstStands(f, l, i), IsPhi(i), VisitsPhi(f, l, m, i)
  PROVE  TableVisit(f, l, m, i)
<1> DEFINE old  == Value(l, Reg(i.r))
           new  == Value(m, Reg(i.r))
           from == FromExecutable(l, i)
<1>1. i.r \in Nat /\ i.r # 0 BY InstrFits
<1>2. /\ \A k \in Incoming(i) : OperandFits(i.ops[k - 1])
      /\ i.op \notin Computing /\ i.op \notin {"load", "call", "br"}
  BY InstrFits DEF IsPhi, Computing, Binary, Comparisons
<1>3. TableStep(f, l, l, i.r) BY DEF TableStep
<1>4. TableStep(f, l, m, i.r) BY <1>3 DEF VisitsPhi, SetTo
<1>5. \/ new = Uncertain /\ (old # Uncertain => i.r \in ToSet(m.values)) /\ ~OneAtMost(from)
      \/ OneAtMost(from) /\ old = Unassigned /\ new \in from /\ IsDefinite(new) /\ i.r \in ToSet(m.values)
      \/ OneAtMost(from) /\ m = l /\ (old # Unassigned \/ \A v \in from : ~IsDefinite(v))
  BY DEF VisitsPhi, SetTo
<1>6. old = Uncertain => new = Uncertain BY <1>5, Kinds
<1>7. \A q : Sunk(f, l, q) => Sunk(f, m, q)
  <2>1. \A S \in SUBSET DOMAIN l.table : i.r \in S /\ SunkSet(f, l, S) => new = Uncertain
    BY <1>6 DEF SunkSet
  <2>2. QED BY <1>4, <2>1, SunkStays
<1>8. IsDefinite(old) => new = old \/ Sunk(f, m, i.r)
  <2>1. CASE new = Uncertain BY <1>1, <1>2, <2>1, SunkGrows
  <2>2. QED BY <1>5, <2>1, Kinds
<1>9. i.r \in ToSet(m.values) \/ Quiet(f, l, m, Reg(i.r)) BY <1>5 DEF Quiet
<1>10. m.exec = l.exec BY <1>4 DEF TableStep
<1>11. \A k \in Incoming(i) : i.ops[k][2] \in l.exec => Value(l, i.ops[k - 1]) \in from
  BY DEF FromExecutable
<1>12. ASSUME NEW v \in from PROVE \E k \in Incoming(i) : i.ops[k][2] \in l.exec /\ Value(l, i.ops[k - 1]) = v
  BY DEF FromExecutable
<1>13. \A k \in Incoming(i) : i.ops[k - 1] # Reg(i.r) => Value(m, i.ops[k - 1]) = Value(l, i.ops[k - 1])
  BY <1>2, <1>4 DEF TableStep
<1>14. ASSUME IsDefinite(new)
       PROVE  \E k \in Incoming(i) : i.ops[k][2] \in m.exec /\ Value(m, i.ops[k - 1]) = new
  <2>1. CASE OneAtMost(from) /\ old = Unassigned /\ new \in from
    <3>1. PICK k \in Incoming(i) : i.ops[k][2] \in l.exec /\ Value(l, i.ops[k - 1]) = new
      BY <1>12, <2>1
    <3>2. i.ops[k - 1] # Reg(i.r) BY <1>14, <2>1, <3>1, Kinds
    <3>3. QED BY <1>10, <1>13, <3>1, <3>2
  <2>2. CASE OneAtMost(from) /\ m = l
    <3>1. PICK k \in Incoming(i) : /\ i.ops[k][2] \in l.exec
                                   /\ Value(l, i.ops[k - 1]) = new \/ SunkOperand(f, l, i.ops[k - 1])
      BY <1>14, <2>2 DEF ConstStands
    <3>2. SunkOperand(f, l, i.ops[k - 1]) => Value(l, i.ops[k - 1]) = Uncertain
      BY DEF SunkOperand, Sunk, SunkSet
    <3>3. Value(l, i.ops[k - 1]) # Uncertain BY <1>11, <2>2, <3>1 DEF OneAtMost
    <3>4. QED BY <2>2, <3>1, <3>2, <3>3
  <2>3. QED BY <1>5, <1>14, <2>1, <2>2, Kinds
<1>15. ASSUME new # Uncertain, NEW k \in Incoming(i), i.ops[k][2] \in m.exec
       PROVE  Value(m, i.ops[k - 1]) \in {new, Unassigned}
  <2> DEFINE w == Value(l, i.ops[k - 1])
  <2>1. w \in from /\ OneAtMost(from) BY <1>5, <1>10, <1>11, <1>15
  <2>2. w = Unassigned \/ IsDefinite(w)
    <3>1. w # Uncertain BY <2>1 DEF OneAtMost
    <3>2. QED BY <3>1, ValueKinds
  <2>3. CASE i.ops[k - 1] = Reg(i.r) BY <2>3
  <2>4. CASE i.ops[k - 1] # Reg(i.r)
    <3>1. Value(m, i.ops[k - 1]) = w BY <1>13, <2>4
    <3>2. CASE IsDefinite(new)
      <4>1. new \in from
        <5>1. CASE new \in from BY <5>1
        <5>2. CASE m = l
          <6>1. PICK n \in Incoming(i) : i.ops[n][2] \in m.exec /\ Value(m, i.ops[n - 1]) = new
            BY <1>14, <3>2
          <6>2. QED BY <1>11, <5>2, <6>1
        <5>3. QED BY <1>5, <1>15, <5>1, <5>2
      <4>2. IsDefinite(w) => w = new BY <2>1, <3>2, <4>1 DEF OneAtMost
      <4>3. QED BY <2>2, <3>1, <4>2
    <3>3. CASE ~IsDefinite(new)
      <4>1. m = l /\ (old # Unassigned \/ \A v \in from : ~IsDefinite(v)) BY <1>5, <1>15, <3>3
      <4>2. old = new BY <4>1
      <4>3. old = Unassigned BY <1>15, <3>3, <4>2, ValueKinds
      <4>4. ~IsDefinite(w) BY <2>1, <4>1, <4>3
      <4>5. QED BY <2>2, <3>1, <4>4
    <3>4. QED BY <3>2, <3>3
  <2>5. QED BY <2>3, <2>4
<1>16. ConstStands(f, m, i) BY <1>2, <1>14 DEF ConstStands
<1>17. Settled(f, m, i)
  <2>1. IsDefinite(new) => new \in FromExecutable(m, i) BY <1>14 DEF FromExecutable
  <2>2. BranchSolved(m, i) BY <1>2, NoTargets
  <2>3. QED BY <1>2, <1>15, <2>1, <2>2 DEF Settled, ValueSolved
<1>18. new = Unassigned => old = Unassigned BY <1>5, Kinds
<1> HIDE DEF old, new, from
<1>19. QED BY <1>1, <1>4, <1>7, <1>8, <1>9, <1>16, <1>17, <1>18 DEF TableVisit, old, new

----------------------------------------------------------------------------
(* Blocks becoming executable.                                             *)

\* From l to m blocks became executable: they are to be scanned, and with them
\* their executable successors.
Marked(f, l, m) ==
  /\ LatTyped(f, m)
  /\ m.table = l.table /\ m.values = l.values /\ m.rest = l.rest /\ m.users = l.users
  /\ l.exec \subseteq m.exec /\ ToSet(l.blocks) \subseteq ToSet(m.blocks)
  /\ \A b \in m.exec \ l.exec :
       b \in ToSet(m.blocks) /\ ToSet(f.succ[b]) \cap m.exec \subseteq ToSet(m.blocks)

MarkedTo(f, l, m, b) == Marked(f, l, m) /\ b \in m.exec

LEMMA Singleton == ASSUME NEW S, NEW x \in S PROVE <<x>> \in Seq(S) /\ x \in ToSet(<<x>>)
<1>1. <<x>> \in Seq(S) OBVIOUS
<1>2. DOMAIN <<x>> = {1} /\ <<x>>[1] = x OBVIOUS
<1>3. QED BY <1>1, <1>2 DEF ToSet

LEMMA AgainSuccessor ==
  ASSUME NEW f, SccpExpects(f), NEW l, NEW b \in DOMAIN f.code, NEW k \in {1, 2}
  PROVE  /\ Again(f, l, b, k) \in Seq(DOMAIN f.code)
         /\ k \in DOMAIN f.succ[b] /\ f.succ[b][k] \in l.exec \cup {b} =>
               f.succ[b][k] \in ToSet(Again(f, l, b, k))
<1> DEFINE c == f.succ[b][k]
<1>1. f.succ[b] \in Seq(DOMAIN f.code) BY DEF SccpExpects
<1>2. CASE k \in DOMAIN f.succ[b] /\ c \in l.exec \cup {b}
  <2>1. c \in DOMAIN f.code BY <1>1, <1>2
  <2>2. Again(f, l, b, k) = <<c>> BY <1>2 DEF Again
  <2> HIDE DEF c
  <2>3. <<c>> \in Seq(DOMAIN f.code) /\ c \in ToSet(<<c>>) BY <2>1, Singleton
  <2>4. QED BY <2>2, <2>3 DEF c
<1>3. CASE ~(k \in DOMAIN f.succ[b] /\ c \in l.exec \cup {b})
  <2>1. Again(f, l, b, k) = <<>> BY <1>3 DEF Again
  <2>2. <<>> \in Seq(DOMAIN f.code) BY EmptySeq
  <2>3. QED BY <1>3, <2>1, <2>2
<1>4. QED BY <1>2, <1>3

LEMMA MarkExecutableMarks ==
  ASSUME NEW f, SccpExpects(f), NEW l, LatTyped(f, l), NEW b \in DOMAIN f.code
  PROVE  MarkedTo(f, l, MarkExecutable(f, l, b), b)
<1> DEFINE m == MarkExecutable(f, l, b)
<1>1. CASE b \in l.exec BY <1>1 DEF MarkExecutable, MarkedTo, Marked
<1>2. CASE b \notin l.exec
  <2> DEFINE x == Append(l.blocks, b)
             y == Again(f, l, b, 1)
             z == Again(f, l, b, 2)
             D == DOMAIN f.code
  <2>1. /\ DOMAIN m = Fields /\ m.table = l.table /\ m.values = l.values /\ m.rest = l.rest
        /\ m.users = l.users /\ m.exec = l.exec \cup {b} /\ m.blocks = (x \o y) \o z
    BY <1>2 DEF MarkExecutable, LatTyped, Fields
  <2>2. l.blocks \in Seq(D) /\ l.exec \subseteq D BY DEF LatTyped
  <2>3. x \in Seq(D) /\ ToSet(x) = ToSet(l.blocks) \cup {b}
    <3>1. b \in D OBVIOUS
    <3> HIDE DEF D, y, z, m
    <3>2. ToSet(x) = ToSet(l.blocks) \cup {b} BY <2>2, <3>1, ToSetAppend
    <3>3. x \in Seq(D) BY <2>2, <3>1
    <3>4. QED BY <3>2, <3>3
  <2>4. f.succ[b] \in Seq(D) /\ Len(f.succ[b]) <= 2 BY DEF SccpExpects
  <2>5. DOMAIN f.succ[b] \subseteq {1, 2} BY <2>4
  <2>6. \A k \in {1, 2} :
          /\ Again(f, l, b, k) \in Seq(D)
          /\ k \in DOMAIN f.succ[b] /\ f.succ[b][k] \in m.exec => f.succ[b][k] \in ToSet(Again(f, l, b, k))
    BY <2>1, AgainSuccessor
  <2>7. y \in Seq(D) /\ z \in Seq(D) BY <2>6
  <2> HIDE DEF x, y, z, m, D
  <2>8. x \o y \in Seq(D) /\ (x \o y) \o z \in Seq(D) BY <2>3, <2>7
  <2>9. ToSet((x \o y) \o z) = (ToSet(x) \cup ToSet(y)) \cup ToSet(z)
    <3>1. ToSet(x \o y) = ToSet(x) \cup ToSet(y) BY <2>3, <2>7, ToSetConcat
    <3>2. ToSet((x \o y) \o z) = ToSet(x \o y) \cup ToSet(z) BY <2>7, <2>8, ToSetConcat
    <3>3. QED BY <3>1, <3>2
  <2>10. LatTyped(f, m) BY <2>1, <2>2, <2>8 DEF LatTyped, D
  <2>11. ToSet(f.succ[b]) \cap m.exec \subseteq ToSet(m.blocks)
    <3>1. ASSUME NEW k \in DOMAIN f.succ[b], f.succ[b][k] \in m.exec PROVE f.succ[b][k] \in ToSet(m.blocks)
      BY <2>1, <2>5, <2>6, <2>9, <3>1 DEF y, z
    <3>2. QED BY <3>1 DEF ToSet
  <2>12. b \in ToSet(m.blocks) /\ ToSet(l.blocks) \subseteq ToSet(m.blocks) BY <2>1, <2>3, <2>9
  <2>13. m.exec \ l.exec = {b} BY <1>2, <2>1
  <2>14. MarkedTo(f, l, m, b) BY <2>1, <2>10, <2>11, <2>12, <2>13 DEF Marked, MarkedTo
  <2>15. QED BY <2>14 DEF m
<1>3. QED BY <1>1, <1>2

LEMMA MarkedTwice ==
  ASSUME NEW f, NEW l, NEW m, NEW n, Marked(f, l, m), Marked(f, m, n)
  PROVE  Marked(f, l, n)
  BY DEF Marked

\* Facts of the table alone, and of more executable blocks.
LEMMA ConstStandsGrows ==
  ASSUME NEW f, NEW l, NEW m, m.table = l.table, l.exec \subseteq m.exec, NEW i, ConstStands(f, l, i)
  PROVE  ConstStands(f, m, i)
<1>1. \A o : Value(m, o) = Value(l, o) BY DEF Value
<1>2. Computed(m, i) = Computed(l, i) BY <1>1 DEF Computed
<1>3. \A S : SunkSet(f, l, S) => SunkSet(f, m, S) BY <1>1 DEF SunkSet
<1>4. \A o : SunkOperand(f, l, o) => SunkOperand(f, m, o) BY <1>3 DEF SunkOperand, Sunk
<1>5. QED BY <1>1, <1>2, <1>4 DEF ConstStands

LEMMA SettledGrows ==
  ASSUME NEW f, NEW l, NEW m, m.table = l.table, l.exec \subseteq m.exec, NEW i, Settled(f, l, i),
         \A k \in Incoming(i) : IsPhi(i) /\ i.ops[k][2] \in m.exec => i.ops[k][2] \in l.exec
  PROVE  Settled(f, m, i)
<1>1. \A o : Value(m, o) = Value(l, o) BY DEF Value
<1>2. Computed(m, i) = Computed(l, i) BY <1>1 DEF Computed
<1>3. FromExecutable(l, i) \subseteq FromExecutable(m, i) BY <1>1 DEF FromExecutable
<1>4. ValueSolved(f, m, i) BY <1>1, <1>2, <1>3 DEF Settled, ValueSolved
<1>5. BranchSolved(m, i) BY <1>1 DEF Settled, BranchSolved
<1>6. QED BY <1>4, <1>5 DEF Settled

LEMMA MarkedKeeps ==
  ASSUME NEW f, SccpExpects(f), NEW l, NEW m, NEW visited, NEW entering,
         LatInv(f, l, visited, entering), Marked(f, l, m),
         \A i \in visited : Settled(f, m, i), \A b \in entering : OnlyEntered(f, m, b)
  PROVE  LatInv(f, m, {}, {})
<1>1. m.table = l.table /\ l.exec \subseteq m.exec /\ LatTyped(f, m) BY DEF Marked
<1>2. \A i \in AllInstrs(f) : ConstStands(f, m, i) BY <1>1, ConstStandsGrows DEF LatInv
<1>3. ASSUME NEW b \in m.exec \cap ToSet(f.list), b \notin ToSet(m.blocks)
      PROVE  OnlyEntered(f, m, b) /\ \A i \in ToSet(f.code[b]) : Waits(m, i) \/ Settled(f, m, i)
  <2>1. b \in l.exec /\ b \notin ToSet(l.blocks) BY <1>3 DEF Marked
  <2>2. /\ OnlyEntered(f, l, b) \/ b \in entering
        /\ \A i \in ToSet(f.code[b]) : i \in visited \/ Waits(l, i) \/ Settled(f, l, i)
    BY <1>3, <2>1 DEF LatInv, BlockSolved
  <2>3. OnlyEntered(f, m, b) BY <1>1, <2>2 DEF OnlyEntered
  <2>4. \A i : Waits(l, i) => Waits(m, i) BY DEF Marked, Waits
  <2>5. ASSUME NEW i \in ToSet(f.code[b]), Settled(f, l, i) PROVE Settled(f, m, i)
    <3>1. ASSUME NEW k \in Incoming(i), IsPhi(i), i.ops[k][2] \in m.exec PROVE i.ops[k][2] \in l.exec
      <4>1. SuccessorsFit(f, b, i) BY <1>3 DEF SccpExpects
      <4>2. i.ops[k][2] \in DOMAIN f.code BY <1>1, <3>1 DEF LatTyped
      <4>3. b \in ToSet(f.succ[i.ops[k][2]]) BY <3>1, <4>1, <4>2 DEF SuccessorsFit
      <4>4. QED BY <1>3, <3>1, <4>3 DEF Marked
    <3>2. QED BY <1>1, <2>5, <3>1, SettledGrows
  <2>6. QED BY <2>2, <2>3, <2>4, <2>5
<1>4. \A b \in m.exec \cap ToSet(f.list) : BlockSolved(f, m, b, {}, {}) BY <1>3 DEF BlockSolved
<1>5. Entry(f) \in m.exec BY <1>1 DEF LatInv
<1>6. QED BY <1>1, <1>2, <1>4, <1>5 DEF LatInv

MarksBranch(f, l, m, i) == Marked(f, l, m) /\ Settled(f, m, i)

LEMMA BranchVisit ==
  ASSUME NEW f, SccpExpects(f), NEW l, LatTyped(f, l), NEW i \in AllInstrs(f), IsConBranch(i)
  PROVE  MarksBranch(f, l, Visit(f, l, i), i)
<1> DEFINE m   == VisitCondBr(f, l, i)
           c   == Value(l, i.ops[1])
           yes == i.ops[2][2]
           no  == i.ops[3][2]
<1>1. ToSet(i.ops) = {i.ops[1], i.ops[2], i.ops[3]} /\ Targets(i) \subseteq DOMAIN f.code BY InstrFits
<1>2. OperandsFit(f, i) BY DEF SccpExpects
<1>3. i.ops[1][1] # "block" /\ i.ops[2][1] = "block" /\ i.ops[3][1] = "block" /\ i.op = "br"
  BY <1>2 DEF OperandsFit, IsConBranch
<1>4. Targets(i) = {yes, no} BY <1>1, <1>3 DEF Targets
<1>5. yes \in DOMAIN f.code /\ no \in DOMAIN f.code BY <1>1, <1>4
<1>6. Marked(f, l, m) /\ BranchSolved(m, i)
  <2>1. CASE ~IsDefinite(c)
    <3> DEFINE k == MarkExecutable(f, l, yes)
    <3>1. MarkedTo(f, l, k, yes) BY <1>5, MarkExecutableMarks
    <3>2. LatTyped(f, k) BY <3>1 DEF MarkedTo, Marked
    <3> HIDE DEF k
    <3>3. MarkedTo(f, k, MarkExecutable(f, k, no), no) BY <1>5, <3>2, MarkExecutableMarks
    <3>4. m = MarkExecutable(f, k, no) BY <2>1 DEF VisitCondBr, k
    <3>5. Marked(f, l, m) BY <3>1, <3>3, <3>4, MarkedTwice DEF MarkedTo
    <3>6. yes \in m.exec /\ no \in m.exec BY <3>1, <3>3, <3>4 DEF MarkedTo, Marked
    <3>7. QED BY <1>4, <3>5, <3>6 DEF BranchSolved
  <2>2. CASE IsDefinite(c)
    <3> DEFINE t == IF c # Const(0) THEN yes ELSE no
    <3>1. t \in DOMAIN f.code BY <1>5
    <3>2. m = MarkExecutable(f, l, t) BY <2>2 DEF VisitCondBr
    <3>3. MarkedTo(f, l, m, t) BY <3>1, <3>2, MarkExecutableMarks
    <3>4. Value(m, i.ops[1]) = c BY <3>3 DEF MarkedTo, Marked, Value
    <3>5. i.ops[IF c = Const(0) THEN 3 ELSE 2][2] = t OBVIOUS
    <3>6. BranchSolved(m, i) BY <2>2, <3>3, <3>4, <3>5 DEF BranchSolved, MarkedTo
    <3>7. QED BY <3>3, <3>6 DEF MarkedTo
  <2>3. QED BY <2>1, <2>2
<1>7. i.op \notin Computing /\ i.op \notin {"load", "call"} /\ ~IsPhi(i)
  BY <1>3 DEF Computing, Binary, Comparisons, IsPhi
<1>8. ValueSolved(f, m, i) BY <1>7 DEF ValueSolved
<1>9. Visit(f, l, i) = m BY VisitArms
<1>10. QED BY <1>6, <1>8, <1>9 DEF MarksBranch, Settled

\* What is not computed, a phi, a load or a conditional branch is settled when
\* its block is: the other branches go to the only successor.
LEMMA OtherVisitKeeps ==
  ASSUME NEW f, SccpExpects(f), NEW l, NEW i \in AllInstrs(f), LatInv(f, l, {i}, {}),
         i.op \notin Computing, ~IsPhi(i), ~IsConBranch(i), i.op \in {"load", "call"} => i.r = 0
  PROVE  LatInv(f, l, {}, {})
<1>1. ValueSolved(f, l, i) BY DEF ValueSolved
<1>2. ASSUME NEW b \in l.exec \cap ToSet(f.list) PROVE BlockSolved(f, l, b, {}, {})
  <2>1. BlockSolved(f, l, b, {i}, {}) BY DEF LatInv
  <2>2. ASSUME b \notin ToSet(l.blocks), i \in ToSet(f.code[b]) PROVE Settled(f, l, i)
    <3>1. OnlyEntered(f, l, b) BY <2>1, <2>2 DEF BlockSolved
    <3>2. CASE i.op # "br" BY <1>1, <3>2, NoTargets DEF Settled
    <3>3. CASE i.op = "br"
      <4>1. IsBranch(i) BY <3>3, InstrFits
      <4>2. SuccessorsFit(f, b, i) BY <2>2 DEF SccpExpects
      <4>3. Targets(i) = ToSet(f.succ[b]) /\ Len(f.succ[b]) = 1 BY <4>1, <4>2 DEF SuccessorsFit
      <4>4. b \in DOMAIN f.code BY DEF SccpExpects
      <4>5. f.succ[b] \in Seq(DOMAIN f.code) BY <4>4 DEF SccpExpects
      <4>6. DOMAIN f.succ[b] = {1} BY <4>3, <4>5
      <4>7. Targets(i) = {f.succ[b][1]} BY <4>3, <4>6 DEF ToSet
      <4>8. BranchSolved(l, i) BY <3>1, <4>3, <4>7 DEF OnlyEntered, BranchSolved
      <4>9. QED BY <1>1, <4>8 DEF Settled
    <3>4. QED BY <3>2, <3>3
  <2>3. QED BY <2>1, <2>2 DEF BlockSolved
<1>3. QED BY <1>2 DEF LatInv

----------------------------------------------------------------------------
(* Values only deepen.                                                     *)

LEMMA TableVisitDeepens ==
  ASSUME NEW f, NEW l, NEW m, NEW i, LatTyped(f, l), LatTyped(f, m), TableVisit(f, l, m, i)
  PROVE  Deepens(f, l, m)
<1>1. TableStep(f, l, m, i.r) /\ \A q : Sunk(f, l, q) => Sunk(f, m, q) BY DEF TableVisit
<1>2. \A q : Sunk(f, l, q) => Value(l, Reg(q)) = Uncertain BY DEF Sunk, SunkSet
<1>3. \A q : Sunk(f, m, q) => Value(m, Reg(q)) = Uncertain BY DEF Sunk, SunkSet
<1>4. ASSUME NEW r \in Nat
      PROVE  /\ Depth(f, l, r) <= Depth(f, m, r)
             /\ Value(l, Reg(r)) # Value(m, Reg(r)) => Depth(f, l, r) < Depth(f, m, r)
  <2>1. CASE r # i.r
    <3>1. OperandFits(Reg(r)) /\ Reg(r) # Reg(i.r) BY <2>1 DEF OperandFits, Reg
    <3>2. Value(m, Reg(r)) = Value(l, Reg(r)) BY <1>1, <3>1 DEF TableStep
    <3>3. QED BY <1>1, <3>2 DEF Depth
  <2>2. CASE r = i.r
    <3> DEFINE old == Value(l, Reg(r))
               new == Value(m, Reg(r))
    <3>1. /\ IsDefinite(old) => new = old \/ Sunk(f, m, r)
          /\ new = Unassigned => old = Unassigned
      BY <2>2 DEF TableVisit
    <3>2. old = Unassigned \/ old = Uncertain \/ IsDefinite(old) BY ValueKinds
    <3>3. new = Unassigned \/ new = Uncertain \/ IsDefinite(new) BY ValueKinds
    <3>4. /\ Sunk(f, l, r) => Sunk(f, m, r) /\ old = Uncertain
          /\ Sunk(f, m, r) => new = Uncertain
      BY <1>1, <1>2, <1>3
    <3>5. /\ Depth(f, l, r) = IF Sunk(f, l, r) THEN 3 ELSE IF IsDefinite(old) THEN 2 ELSE IF old = Uncertain THEN 1 ELSE 0
          /\ Depth(f, m, r) = IF Sunk(f, m, r) THEN 3 ELSE IF IsDefinite(new) THEN 2 ELSE IF new = Uncertain THEN 1 ELSE 0
      BY DEF Depth
    <3> HIDE DEF old, new
    <3>6. Depth(f, l, r) <= Depth(f, m, r) /\ (old # new => Depth(f, l, r) < Depth(f, m, r))
      BY <3>1, <3>2, <3>3, <3>4, <3>5, Kinds
    <3>7. QED BY <3>6 DEF old, new
  <2>3. QED BY <2>1, <2>2
<1>5. l.exec = m.exec BY <1>1 DEF TableStep
<1>6. QED BY <1>4, <1>5 DEF Deepens

LEMMA SameTableDeepens ==
  ASSUME NEW f, NEW l, NEW m, m.table = l.table, l.exec \subseteq m.exec
  PROVE  Deepens(f, l, m)
<1>1. \A o : Value(m, o) = Value(l, o) BY DEF Value
<1>2. \A r : Sunk(f, l, r) <=> Sunk(f, m, r) BY <1>1 DEF Sunk, SunkSet
<1>3. \A r : Depth(f, l, r) = Depth(f, m, r) BY <1>1, <1>2 DEF Depth
<1>4. \A r : Depth(f, l, r) \in Nat BY DEF Depth
<1>5. QED BY <1>1, <1>3, <1>4 DEF Deepens

LEMMA SameTableThenDeepens ==
  ASSUME NEW f, NEW l, NEW m, NEW n, m.table = l.table, m.exec = l.exec, Deepens(f, m, n)
  PROVE  Deepens(f, l, n)
<1>1. \A o : Value(m, o) = Value(l, o) BY DEF Value
<1>2. \A r : Sunk(f, l, r) <=> Sunk(f, m, r) BY <1>1 DEF Sunk, SunkSet
<1>3. \A r : Depth(f, l, r) = Depth(f, m, r) BY <1>1, <1>2 DEF Depth
<1>4. QED BY <1>1, <1>3 DEF Deepens

----------------------------------------------------------------------------
(* The actions.                                                            *)

\* What each action does to the invariant and to the values.
Kept(f, l, m) == LatInv(f, m, {}, {}) /\ Deepens(f, l, m)

LEMMA VisitKeeps ==
  ASSUME NEW f, SccpExpects(f), NEW l, NEW i \in AllInstrs(f), LatInv(f, l, {i}, {}),
         ~Visit(f, l, i).trap
  PROVE  Kept(f, l, Visit(f, l, i))
<1> DEFINE m == Visit(f, l, i)
<1>1. LatTyped(f, l) /\ ConstStands(f, l, i) BY DEF LatInv
<1>2. CASE i.op \in Computing
  <2>1. VisitsComputing(f, l, m, i) BY <1>1, <1>2, VisitComputing
  <2> HIDE DEF m
  <2>2. TableVisit(f, l, m, i) BY <1>1, <1>2, <2>1, ComputingVisit
  <2>3. LatInv(f, m, {}, {}) BY <2>2, TableVisitKeeps
  <2>4. LatTyped(f, m) BY <2>3 DEF LatInv
  <2>5. Deepens(f, l, m) BY <1>1, <2>2, <2>4, TableVisitDeepens
  <2>6. QED BY <2>3, <2>5 DEF m, Kept
<1>3. CASE IsPhi(i)
  <2>1. VisitsPhi(f, l, m, i) BY <1>1, <1>3, VisitsOnePhi
  <2> HIDE DEF m
  <2>2. TableVisit(f, l, m, i) BY <1>1, <1>3, <2>1, PhiVisit
  <2>3. LatInv(f, m, {}, {}) BY <2>2, TableVisitKeeps
  <2>4. LatTyped(f, m) BY <2>3 DEF LatInv
  <2>5. Deepens(f, l, m) BY <1>1, <2>2, <2>4, TableVisitDeepens
  <2>6. QED BY <2>3, <2>5 DEF m, Kept
<1>4. CASE i.op \in {"load", "call"} /\ i.r # 0
  <2>1. Assigned(f, l, m, i.r, Uncertain) BY <1>1, <1>4, VisitLoad
  <2> HIDE DEF m
  <2>2. TableVisit(f, l, m, i) BY <1>1, <1>4, <2>1, LoadVisit
  <2>3. LatInv(f, m, {}, {}) BY <2>2, TableVisitKeeps
  <2>4. LatTyped(f, m) BY <2>3 DEF LatInv
  <2>5. Deepens(f, l, m) BY <1>1, <2>2, <2>4, TableVisitDeepens
  <2>6. QED BY <2>3, <2>5 DEF m, Kept
<1>5. CASE IsConBranch(i)
  <2>1. MarksBranch(f, l, m, i) BY <1>1, <1>5, BranchVisit
  <2> HIDE DEF m
  <2>2. LatInv(f, m, {}, {}) BY <2>1, MarkedKeeps DEF MarksBranch
  <2>3. Deepens(f, l, m) BY <2>1, SameTableDeepens DEF MarksBranch, Marked
  <2>4. QED BY <2>2, <2>3 DEF m, Kept
<1>6. CASE /\ i.op \notin Computing /\ ~IsPhi(i) /\ ~IsConBranch(i)
           /\ i.op \in {"load", "call"} => i.r = 0
  <2>1. m = l BY <1>6, VisitOther
  <2>2. LatInv(f, l, {}, {}) BY <1>6, OtherVisitKeeps
  <2>3. Deepens(f, l, l) BY SameTableDeepens
  <2>4. QED BY <2>1, <2>2, <2>3 DEF Kept
<1>7. QED BY <1>2, <1>3, <1>4, <1>5, <1>6

\* The work lists are rearranged: what leaves them is being visited or entered.
LEMMA RequeuedKeeps ==
  ASSUME NEW f, SccpExpects(f), NEW l, NEW m, NEW visited, NEW entering,
         LatInv(f, l, {}, {}), LatTyped(f, m), m.table = l.table, m.exec = l.exec,
         \A i \in AllInstrs(f) : Waits(l, i) => Waits(m, i) \/ i \in visited,
         \A b \in ToSet(l.blocks) :
            \/ b \in ToSet(m.blocks)
            \/ b \in entering /\ \A i \in ToSet(f.code[b]) : Waits(m, i)
  PROVE  LatInv(f, m, visited, entering)
<1>1. \A i \in AllInstrs(f) : ConstStands(f, m, i) BY ConstStandsGrows DEF LatInv
<1>2. ASSUME NEW b \in m.exec \cap ToSet(f.list) PROVE BlockSolved(f, m, b, visited, entering)
  <2>1. CASE b \in ToSet(l.blocks) BY <2>1 DEF BlockSolved
  <2>2. CASE b \notin ToSet(l.blocks)
    <3>1. /\ OnlyEntered(f, l, b)
          /\ \A i \in ToSet(f.code[b]) : Waits(l, i) \/ Settled(f, l, i)
      BY <1>2, <2>2 DEF LatInv, BlockSolved
    <3>2. OnlyEntered(f, m, b) BY <3>1 DEF OnlyEntered
    <3>3. \A i \in ToSet(f.code[b]) : i \in AllInstrs(f) BY DEF AllInstrs, SccpExpects
    <3>4. \A i : Settled(f, l, i) => Settled(f, m, i) BY SettledGrows
    <3>5. QED BY <3>1, <3>2, <3>3, <3>4 DEF BlockSolved
  <2>3. QED BY <2>1, <2>2
<1>3. QED BY <1>1, <1>2 DEF LatInv

LEMMA ScanBlockKeeps ==
  ASSUME IInv, ScanBlock
  PROVE  IInv' /\ ValuesDeepen
<1> DEFINE b == Head(lat.blocks)
           m == [lat EXCEPT !.blocks = Tail(@), !.inner = FALSE, !.rest = fn.code[b]]
<1>1. lat # NoLat BY DEF ScanBlock, NoLat
<1>2. SccpExpects(fn) /\ LatInv(fn, lat, {}, {}) BY <1>1 DEF IInv
<1>3. /\ lat.blocks # <<>> /\ lat.rest = <<>> /\ lat.users = {}
      /\ lat' = EnterOnly(fn, m, b) /\ fn' = fn
  BY DEF ScanBlock, Idle
<1>4. LatTyped(fn, lat) BY <1>2 DEF LatInv
<1>5. /\ DOMAIN m = Fields /\ m.table = lat.table /\ m.exec = lat.exec /\ m.values = lat.values
      /\ m.users = lat.users /\ m.blocks = Tail(lat.blocks) /\ m.rest = fn.code[b]
  BY <1>4 DEF LatTyped, Fields
<1>6. lat.blocks \in Seq(DOMAIN fn.code) BY <1>4 DEF LatTyped
<1>7. /\ b \in DOMAIN fn.code /\ Tail(lat.blocks) \in Seq(DOMAIN fn.code)
      /\ ToSet(lat.blocks) = {b} \cup ToSet(Tail(lat.blocks))
  BY <1>3, <1>6, ToSetTail
<1>8. fn.code[b] \in Seq(AllInstrs(fn)) BY <1>2, <1>7 DEF SccpExpects
<1> HIDE DEF m, b
<1>9. LatTyped(fn, m) BY <1>4, <1>5, <1>7, <1>8 DEF LatTyped
<1>10. ASSUME NEW i \in AllInstrs(fn), Waits(lat, i) PROVE Waits(m, i)
  <2>1. i \notin ToSet(lat.rest) /\ i \notin lat.users BY <1>3 DEF ToSet
  <2>2. QED BY <1>5, <1>10, <2>1 DEF Waits
<1>11. \A i \in ToSet(fn.code[b]) : Waits(m, i) BY <1>5 DEF Waits
<1>12. LatInv(fn, m, {}, {b})
  BY <1>2, <1>5, <1>7, <1>9, <1>10, <1>11, RequeuedKeeps
<1>13. fn.succ[b] \in Seq(DOMAIN fn.code) BY <1>2, <1>7 DEF SccpExpects
<1>14. Kept(fn, lat, lat')
  <2> DEFINE n == EnterOnly(fn, m, b)
  <2>1. CASE Len(fn.succ[b]) = 1
    <3>1. Head(fn.succ[b]) = fn.succ[b][1] /\ Head(fn.succ[b]) \in DOMAIN fn.code BY <1>13, <2>1
    <3>2. n = MarkExecutable(fn, m, Head(fn.succ[b])) BY <2>1 DEF EnterOnly
    <3>3. MarkedTo(fn, m, n, Head(fn.succ[b])) BY <1>2, <1>9, <3>1, <3>2, MarkExecutableMarks
    <3>4. Marked(fn, m, n) /\ OnlyEntered(fn, n, b) BY <3>1, <3>3 DEF MarkedTo, OnlyEntered
    <3> HIDE DEF n
    <3>5. LatInv(fn, n, {}, {}) BY <1>2, <1>12, <3>4, MarkedKeeps
    <3>6. Deepens(fn, lat, n) BY <1>5, <3>4, SameTableDeepens DEF Marked
    <3>7. QED BY <1>3, <3>5, <3>6 DEF n, Kept
  <2>2. CASE Len(fn.succ[b]) # 1
    <3>1. n = m BY <2>2 DEF EnterOnly
    <3>2. OnlyEntered(fn, m, b) BY <2>2 DEF OnlyEntered
    <3>3. Marked(fn, m, m) BY <1>9 DEF Marked
    <3>4. LatInv(fn, m, {}, {}) BY <1>2, <1>12, <3>2, <3>3, MarkedKeeps
    <3>5. Deepens(fn, lat, m) BY <1>5, SameTableDeepens
    <3>6. QED BY <1>3, <3>1, <3>4, <3>5 DEF Kept
  <2>3. QED BY <2>1, <2>2
<1>15. QED BY <1>2, <1>3, <1>14 DEF IInv, ValuesDeepen, Kept

\* A visit of i, which has been taken off the list it was on.
LEMMA AfterKeeps ==
  ASSUME NEW m, NEW i \in AllInstrs(fn), SccpExpects(fn), LatInv(fn, m, {i}, {}),
         m.table = lat.table, m.exec = lat.exec, After(Visit(fn, m, i))
  PROVE  IInv' /\ ValuesDeepen
<1>1. fn' = fn BY DEF After
<1>2. CASE Visit(fn, m, i).trap BY <1>2 DEF After, IInv, ValuesDeepen
<1>3. CASE ~Visit(fn, m, i).trap
  <2>1. lat' = Visit(fn, m, i) BY <1>3 DEF After
  <2>2. Kept(fn, m, Visit(fn, m, i)) BY <1>3, VisitKeeps
  <2>3. LatInv(fn, lat', {}, {}) /\ Deepens(fn, m, lat') BY <2>1, <2>2 DEF Kept
  <2>4. Deepens(fn, lat, lat') BY <2>3, SameTableThenDeepens
  <2>5. QED BY <1>1, <2>3, <2>4 DEF IInv, ValuesDeepen
<1>4. QED BY <1>2, <1>3

LEMMA VisitNextKeeps ==
  ASSUME IInv, VisitNext
  PROVE  IInv' /\ ValuesDeepen
<1> DEFINE i == Head(lat.rest)
           m == [lat EXCEPT !.rest = Tail(@)]
<1>1. lat # NoLat BY DEF VisitNext, NoLat
<1>2. SccpExpects(fn) /\ LatInv(fn, lat, {}, {}) BY <1>1 DEF IInv
<1>3. lat.rest # <<>> /\ After(Visit(fn, m, i)) BY DEF VisitNext
<1>4. LatTyped(fn, lat) BY <1>2 DEF LatInv
<1>5. /\ DOMAIN m = Fields /\ m.table = lat.table /\ m.exec = lat.exec /\ m.values = lat.values
      /\ m.users = lat.users /\ m.blocks = lat.blocks /\ m.rest = Tail(lat.rest)
  BY <1>4 DEF LatTyped, Fields
<1>6. lat.rest \in Seq(AllInstrs(fn)) BY <1>4 DEF LatTyped
<1>7. /\ i \in AllInstrs(fn) /\ Tail(lat.rest) \in Seq(AllInstrs(fn))
      /\ ToSet(lat.rest) = {i} \cup ToSet(Tail(lat.rest))
  BY <1>3, <1>6, ToSetTail
<1> HIDE DEF m, i
<1>8. LatTyped(fn, m) BY <1>4, <1>5, <1>7 DEF LatTyped
<1>9. \A j \in AllInstrs(fn) : Waits(lat, j) => Waits(m, j) \/ j \in {i} BY <1>5, <1>7 DEF Waits
<1>10. LatInv(fn, m, {i}, {}) BY <1>2, <1>5, <1>8, <1>9, RequeuedKeeps
<1>11. QED BY <1>2, <1>3, <1>5, <1>7, <1>10, AfterKeeps

LEMMA TakeValueKeeps ==
  ASSUME IInv, TakeValue
  PROVE  IInv' /\ ValuesDeepen
<1> DEFINE r == Head(lat.values)
<1>1. lat # NoLat BY DEF TakeValue, NoLat
<1>2. SccpExpects(fn) /\ LatInv(fn, lat, {}, {}) BY <1>1 DEF IInv
<1>3. /\ lat.values # <<>> /\ lat.rest = <<>> /\ lat.users = {} /\ fn' = fn
      /\ lat' = [lat EXCEPT !.values = Tail(@), !.inner = TRUE, !.users = Uses(fn, Reg(r))]
  BY DEF TakeValue, Idle
<1>4. LatTyped(fn, lat) BY <1>2 DEF LatInv
<1>5. /\ DOMAIN lat' = Fields /\ lat'.table = lat.table /\ lat'.exec = lat.exec
      /\ lat'.values = Tail(lat.values) /\ lat'.users = Uses(fn, Reg(r))
      /\ lat'.blocks = lat.blocks /\ lat'.rest = lat.rest
  BY <1>3, <1>4 DEF LatTyped, Fields
<1>6. lat.values \in Seq(Nat) BY <1>4 DEF LatTyped
<1>7. Tail(lat.values) \in Seq(Nat) /\ ToSet(lat.values) = {r} \cup ToSet(Tail(lat.values))
  BY <1>3, <1>6, ToSetTail
<1> HIDE DEF r
<1>8. Uses(fn, Reg(r)) \subseteq AllInstrs(fn) BY DEF Uses
<1>9. LatTyped(fn, lat') BY <1>4, <1>5, <1>7, <1>8 DEF LatTyped
<1>10. ASSUME NEW j \in AllInstrs(fn), Waits(lat, j) PROVE Waits(lat', j)
  <2>1. j \notin ToSet(lat.rest) /\ j \notin lat.users BY <1>3 DEF ToSet
  <2>2. PICK q \in ToSet(lat.values) : Reg(q) \in ToSet(j.ops) BY <1>10, <2>1 DEF Waits
  <2>3. CASE q = r BY <1>5, <2>2, <2>3 DEF Waits, Uses
  <2>4. CASE q # r BY <1>5, <1>7, <2>2, <2>4 DEF Waits
  <2>5. QED BY <2>3, <2>4
<1>11. LatInv(fn, lat', {}, {})
  <2> DEFINE m == lat'
  <2>1. /\ LatTyped(fn, m) /\ m.table = lat.table /\ m.exec = lat.exec /\ m.blocks = lat.blocks
        /\ \A j \in AllInstrs(fn) : Waits(lat, j) => Waits(m, j)
    BY <1>5, <1>9, <1>10
  <2> HIDE DEF m
  <2>2. LatInv(fn, m, {}, {}) BY <1>2, <2>1, RequeuedKeeps
  <2>3. QED BY <2>2 DEF m
<1>12. Deepens(fn, lat, lat') BY <1>5, SameTableDeepens
<1>13. QED BY <1>2, <1>3, <1>11, <1>12 DEF IInv, ValuesDeepen

LEMMA VisitUserKeeps ==
  ASSUME IInv, VisitUser
  PROVE  IInv' /\ ValuesDeepen
<1>1. lat # NoLat BY DEF VisitUser, NoLat
<1>2. SccpExpects(fn) /\ LatInv(fn, lat, {}, {}) BY <1>1 DEF IInv
<1>3. PICK i \in lat.users : After(Visit(fn, [lat EXCEPT !.users = @ \ {i}], i)) BY DEF VisitUser
<1> DEFINE m == [lat EXCEPT !.users = @ \ {i}]
<1>4. LatTyped(fn, lat) BY <1>2 DEF LatInv
<1>5. /\ DOMAIN m = Fields /\ m.table = lat.table /\ m.exec = lat.exec /\ m.values = lat.values
      /\ m.users = lat.users \ {i} /\ m.blocks = lat.blocks /\ m.rest = lat.rest
  BY <1>4 DEF LatTyped, Fields
<1>6. After(Visit(fn, m, i)) BY <1>3
<1> HIDE DEF m
<1>7. i \in AllInstrs(fn) BY <1>4 DEF LatTyped
<1>8. LatTyped(fn, m) BY <1>4, <1>5 DEF LatTyped
<1>9. \A j \in AllInstrs(fn) : Waits(lat, j) => Waits(m, j) \/ j \in {i} BY <1>5 DEF Waits
<1>10. LatInv(fn, m, {i}, {}) BY <1>2, <1>5, <1>8, <1>9, RequeuedKeeps
<1>11. QED BY <1>2, <1>5, <1>6, <1>7, <1>10, AfterKeeps

LEMMA StartKeeps ==
  ASSUME SccpInit
  PROVE  IInv
<1> DEFINE e == Entry(fn)
<1>1. SccpExpects(fn) /\ lat = StartSccp(fn) BY DEF SccpInit
<1>2. /\ DOMAIN lat = Fields /\ lat.table = <<>> /\ lat.exec = {e} /\ lat.blocks = <<e>>
      /\ lat.values = <<>> /\ lat.rest = <<>> /\ lat.users = {}
  BY <1>1 DEF StartSccp, NoLat, Fields
<1>3. e \in DOMAIN fn.code BY <1>1 DEF SccpExpects
<1> HIDE DEF e
<1>4. <<e>> \in Seq(DOMAIN fn.code) /\ e \in ToSet(<<e>>) BY <1>3, Singleton
<1>5. <<>> \in Seq(Nat) /\ <<>> \in Seq(AllInstrs(fn)) BY EmptySeq
<1>6. DOMAIN lat.table = {} BY <1>2
<1>7. LatTyped(fn, lat) BY <1>2, <1>3, <1>4, <1>5, <1>6 DEF LatTyped
<1>8. \A r : Value(lat, Reg(r)) = Unassigned BY <1>6, ValueOfReg
<1>9. \A i \in AllInstrs(fn) : ConstStands(fn, lat, i) BY <1>8, Kinds DEF ConstStands
<1>10. \A b \in lat.exec \cap ToSet(fn.list) : BlockSolved(fn, lat, b, {}, {})
  BY <1>2, <1>4 DEF BlockSolved
<1>11. QED BY <1>1, <1>2, <1>7, <1>9, <1>10 DEF IInv, LatInv, e

LEMMA FinishSccpKeeps ==
  ASSUME FinishSccp
  PROVE  IInv' /\ ValuesDeepen
  BY DEF FinishSccp, IInv, ValuesDeepen

LEMMA StepKeeps ==
  ASSUME IInv, [SccpNext]_<<fn, lat, failed>>
  PROVE  IInv' /\ (ValuesDeepen \/ UNCHANGED <<fn, lat, failed>>)
<1>1. CASE ScanBlock BY <1>1, ScanBlockKeeps
<1>2. CASE VisitNext BY <1>2, VisitNextKeeps
<1>3. CASE TakeValue BY <1>3, TakeValueKeeps
<1>4. CASE VisitUser BY <1>4, VisitUserKeeps
<1>5. CASE FinishSccp BY <1>5, FinishSccpKeeps
<1>6. CASE UNCHANGED <<fn, lat, failed>>
  <2>1. fn' = fn /\ lat' = lat BY <1>6
  <2>2. IInv' BY <2>1 DEF IInv
  <2>3. QED BY <1>6, <2>2
<1>7. QED BY <1>1, <1>2, <1>3, <1>4, <1>5, <1>6 DEF SccpNext

LEMMA InvSolves ==
  ASSUME IInv
  PROVE  ConstantsJustified
<1> SUFFICES ASSUME SccpDone
             PROVE  /\ Entry(fn) \in lat.exec
                    /\ \A b \in lat.exec \cap ToSet(fn.list) : \A i \in ToSet(fn.code[b]) :
                         ValueSolved(fn, lat, i) /\ BranchSolved(lat, i)
  BY DEF ConstantsJustified
<1>1. LatInv(fn, lat, {}, {}) BY DEF SccpDone, IInv
<1>2. lat.blocks = <<>> /\ lat.rest = <<>> /\ lat.values = <<>> /\ lat.users = {} BY DEF SccpDone
<1>3. ToSet(lat.blocks) = {} /\ \A i : ~Waits(lat, i) BY <1>2 DEF Waits, ToSet
<1>4. QED BY <1>1, <1>3 DEF LatInv, BlockSolved, Settled

----------------------------------------------------------------------------
(* The theorems.                                                           *)

\* sccp.cpp: while the lists are worked off, what is not settled in an executable
\* block is still to be visited, and every constant rests on constants or on
\* what has become uncertain for good.
THEOREM SccpInvariant == SccpSpec => []IInv
<1>1. SccpInit => IInv BY StartKeeps
<1>2. IInv /\ [SccpNext]_<<fn, lat, failed>> => IInv' BY StepKeeps
<1>3. QED BY <1>1, <1>2, PTL DEF SccpSpec

\* sccp.cpp: when the work lists are empty the table is a solution, for every
\* function SccpExpects and every order of the users.
THEOREM SccpSolves == SccpSpec => []ConstantsJustified
<1>1. IInv => ConstantsJustified BY InvSolves
<1>2. QED BY <1>1, SccpInvariant, PTL

\* sccp.cpp: executable blocks stay so, and a value changes three times at most.
THEOREM SccpDeepens == SccpSpec => [][ValuesDeepen]_<<fn, lat, failed>>
<1>1. IInv /\ [SccpNext]_<<fn, lat, failed>> => [ValuesDeepen]_<<fn, lat, failed>> BY StepKeeps
<1>2. QED BY <1>1, SccpInvariant, PTL DEF SccpSpec

=============================================================================
