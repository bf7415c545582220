--------------------------- MODULE SccpSoundProofs ---------------------------
(***************************************************************************)
(* Proof that a table that is a solution is right about every run of the   *)
(* machine: wherever an activation of the function stands, its block is    *)
(* executable, and what it holds in a register is the constant the table   *)
(* has for it.                                                             *)
(***************************************************************************)
EXTENDS SccpProofs, MirMachine, FiniteSetTheorems

CONSTANTS
  Program,  \* a unit
  Name,     \* one of its functions
  Table     \* a table for it

VARIABLE machine

Body == Program.func[Name]

\* What SCCP leaves, when the lists are empty.
Solution(f, l) ==
  /\ SccpExpects(f)
  /\ \A r \in DOMAIN l.table : Told(f, r) /\ (l.table[r] = Uncertain \/ IsDefinite(l.table[r]))
  /\ Entry(f) \in l.exec
  /\ \A b \in l.exec \cap ToSet(f.list) : \A i \in ToSet(f.code[b]) :
       ValueSolved(f, l, i) /\ BranchSolved(l, i)

\* And what makes it a solution of the run.
Solves(f, l) ==
  Solution(f, l) /\ EdgesExpected(f) /\ ConstantsFit(f, l) /\ PhisCurrent(f, l)

----------------------------------------------------------------------------
(* The runs, as far as the machine says what they do.                      *)

Goes(m) ==
  /\ m.calls # <<>> /\ Visible(Program, m) \notin {"stuck", "ret"}
  /\ Current(Program, m).op \in Understood

MachineNext == Goes(machine) /\ \E input \in Int : machine' = MirStep(Program, machine, input)
MachineSpec == machine = Boot(Program) /\ [][MachineNext]_machine

----------------------------------------------------------------------------
(* What the table says of an activation.                                   *)

\* Word w is not written yet, or what the table has for v.
Agrees(l, v, w) == w = Uncertain \/ Value(l, v) = Uncertain \/ (IsDefinite(Value(l, v)) /\ w = Value(l, v))

TableRight(f, l, a) ==
  /\ a.block \in l.exec \cap ToSet(f.list)
  /\ \A r \in 1..f.regs : Told(f, r) => Agrees(l, Reg(r), a.env[r])

\* Wherever the function is active.
TableRightOfRun ==
  \A k \in DOMAIN machine.calls :
    machine.calls[k].fun = Name => TableRight(Body, Table, machine.calls[k])

ActivationFields == {"fun", "block", "at", "pred", "to", "env"}

\* The register the result of a call goes to is one the table knows nothing of.
Stands(f, l, a) ==
  /\ DOMAIN a = ActivationFields
  /\ a.fun = Name => TableRight(f, l, a) /\ DOMAIN a.env = 1..f.regs /\ a.at \in Nat \ {0}

ToUncertain(l, a, b) == a.fun = Name /\ b.to # 0 => Value(l, Reg(b.to)) = Uncertain

CallsStand(f, l, calls) ==
  /\ calls \in Seq(ToSet(calls))
  /\ \A k \in 1..Len(calls) : Stands(f, l, calls[k])
  /\ \A k \in 1..(Len(calls) - 1) : ToUncertain(l, calls[k], calls[k + 1])

MInv == DOMAIN machine = {"calls", "mem"} /\ CallsStand(Body, Table, machine.calls)

----------------------------------------------------------------------------
(* Words.                                                                  *)

LEMMA UncertainWord ==
  ~IsInt(Uncertain) /\ ~IsPtr(Uncertain) /\ \A c : Uncertain # Const(c)
  BY DEF IsInt, IsPtr, Uncertain, Const

LEMMA ApplyUncertain ==
  ASSUME NEW op, NEW x, NEW y, x = Uncertain \/ y = Uncertain
  PROVE  Apply(op, x, y) = Uncertain
<1>1. ~IsInt(Uncertain) /\ ~IsPtr(Uncertain) /\ Uncertain # Const(1) BY UncertainWord
<1>2. ~(IsInt(x) /\ IsInt(y)) /\ ~(IsPtr(x) /\ IsInt(y)) /\ ~(IsInt(x) /\ IsPtr(y)) /\ ~(x = Const(1) /\ IsPtr(y))
  BY <1>1
<1> HIDE DEF IsInt, IsPtr
<1>3. QED BY <1>2 DEF Apply

LEMMA ApplyInts ==
  ASSUME NEW op, NEW x, NEW y, IsInt(x), IsInt(y)
  PROVE  /\ op = "add" => Apply(op, x, y) = Const(Wrap(x[2] + y[2]))
         /\ op = "sub" => Apply(op, x, y) = Const(Wrap(x[2] - y[2]))
         /\ op = "mul" => Apply(op, x, y) = Const(Wrap(x[2] * y[2]))
         /\ op = "div" => Apply(op, x, y) = IF y[2] = 0 THEN Uncertain ELSE Const(Wrap(Quotient(x[2], y[2])))
         /\ op = "rem" => Apply(op, x, y) = IF y[2] = 0 THEN Uncertain ELSE Const(Remainder(x[2], y[2]))
         /\ op \in Comparisons => Apply(op, x, y) = Const(IF Holds(op, x[2], y[2]) THEN 1 ELSE 0)
<1>1. op \in Shifts => op \notin {"add", "sub", "mul", "div", "rem"} \cup Comparisons
  BY DEF Shifts, Comparisons
<1>2. op \in Comparisons => op \notin {"add", "sub", "mul", "div", "rem"} BY DEF Comparisons
<1> HIDE DEF IsInt, IsPtr
<1> DEFINE p == Const(Wrap(x[2] + y[2]))
           q == Const(Wrap(x[2] - y[2]))
           r == Const(Wrap(x[2] * y[2]))
           s == IF y[2] = 0 THEN Uncertain ELSE Const(Wrap(Quotient(x[2], y[2])))
           t == IF y[2] = 0 THEN Uncertain ELSE Const(Remainder(x[2], y[2]))
           u == Shifted(op, x[2], y[2])
           v == Const(IF Holds(op, x[2], y[2]) THEN 1 ELSE 0)
<1>3. Apply(op, x, y) = CASE op = "add" -> p [] op = "sub" -> q [] op = "mul" -> r [] op = "div" -> s
                          [] op = "rem" -> t [] op \in Shifts -> u [] OTHER -> v
  BY DEF Apply
<1> HIDE DEF p, q, r, s, t, u, v
<1>4. /\ op = "add" => Apply(op, x, y) = p
      /\ op = "sub" => Apply(op, x, y) = q
      /\ op = "mul" => Apply(op, x, y) = r
      /\ op = "div" => Apply(op, x, y) = s
      /\ op = "rem" => Apply(op, x, y) = t
      /\ op \in Comparisons => Apply(op, x, y) = v
  BY <1>1, <1>2, <1>3
<1>5. QED BY <1>4 DEF p, q, r, s, t, v

\* What SCCP calculates in long is what the machine makes of ints, if it fits.
LEMMA ApplyCalculated ==
  ASSUME NEW op \in Binary, NEW a \in Int, NEW b \in Int,
         Wrap(Calculated(op, a, b)) = Calculated(op, a, b)
  PROVE  \/ Apply(op, Const(a), Const(b)) = Uncertain
         \/ Apply(op, Const(a), Const(b)) = Const(Calculated(op, a, b))
<1> DEFINE c == Calculated(op, a, b)
<1> DEFINE x == Const(a)
           y == Const(b)
<1>1. IsInt(x) /\ IsInt(y) /\ x[2] = a /\ y[2] = b BY DEF IsInt, Const
<1> HIDE DEF IsInt, x, y
<1>2. CASE op = "add"
  <2>1. c = a + b BY <1>2 DEF Calculated
  <2>2. Apply(op, x, y) = Const(Wrap(a + b)) BY <1>1, <1>2, ApplyInts
  <2>3. QED BY <2>1, <2>2 DEF x, y
<1>3. CASE op = "sub"
  <2>1. c = a - b BY <1>3 DEF Calculated
  <2>2. Apply(op, x, y) = Const(Wrap(a - b)) BY <1>1, <1>3, ApplyInts
  <2>3. QED BY <2>1, <2>2 DEF x, y
<1>4. CASE op = "mul"
  <2>1. c = a * b BY <1>4 DEF Calculated
  <2>2. Apply(op, x, y) = Const(Wrap(a * b)) BY <1>1, <1>4, ApplyInts
  <2>3. QED BY <2>1, <2>2 DEF x, y
<1>5. CASE op = "div"
  <2>1. c = Quotient(a, b) BY <1>5 DEF Calculated
  <2>2. Apply(op, x, y) = IF b = 0 THEN Uncertain ELSE Const(Wrap(Quotient(a, b)))
    BY <1>1, <1>5, ApplyInts
  <2>3. QED BY <2>1, <2>2 DEF x, y
<1>6. CASE op = "rem"
  <2>1. c = Remainder(a, b) BY <1>6 DEF Calculated
  <2>2. Apply(op, x, y) = IF b = 0 THEN Uncertain ELSE Const(Remainder(a, b))
    BY <1>1, <1>6, ApplyInts
  <2>3. QED BY <2>1, <2>2 DEF x, y
<1>7. CASE op \in Comparisons
  <2>1. op \notin {"add", "sub", "mul", "div", "rem", "shl", "lshr", "ashr"} BY <1>7 DEF Comparisons
  <2>2. c = IF Holds(op, a, b) THEN 1 ELSE 0 BY <2>1 DEF Calculated
  <2>3. Apply(op, x, y) = Const(IF Holds(op, a, b) THEN 1 ELSE 0)
    BY <1>1, <1>7, ApplyInts
  <2>4. QED BY <2>2, <2>3 DEF x, y
<1>8. QED BY <1>2, <1>3, <1>4, <1>5, <1>6, <1>7 DEF Binary, x, y

----------------------------------------------------------------------------
(* Operands and results.                                                   *)

LEMMA ToldRegister ==
  ASSUME NEW f, EdgesExpected(f), NEW r, Told(f, r)
  PROVE  r \in 1..f.regs
<1>1. PICK i \in AllInstrs(f) : i.r = r BY DEF Told
<1>2. r \in 0..f.regs /\ r # 0 BY <1>1 DEF Told, EdgesExpected
<1>3. QED BY <1>2

LEMMA ListedInstr ==
  ASSUME NEW f, SccpExpects(f), NEW b \in ToSet(f.list), NEW i \in ToSet(f.code[b])
  PROVE  i \in InstrsOf(f) /\ i \in AllInstrs(f)
<1>1. b \in DOMAIN f.code BY DEF SccpExpects
<1>2. QED BY <1>1 DEF InstrsOf, AllInstrs

LEMMA OperandAgrees ==
  ASSUME NEW f, NEW l, Solves(f, l), NEW a, TableRight(f, l, a), NEW i \in InstrsOf(f),
         i \in AllInstrs(f), NEW o \in ToSet(i.ops), IsDefinite(Value(l, o))
  PROVE  IsWord(Value(l, o)) /\ (Word(a, o) = Uncertain \/ Word(a, o) = Value(l, o))
<1>1. OperandFits(o) BY InstrFits DEF Solves, Solution
<1>2. CASE o[1] = "const"
  <2>1. Value(l, o) = o BY <1>2 DEF Value
  <2>2. IsWord(o) BY <1>2 DEF Solves, ConstantsFit, IsDefinite
  <2>3. Word(a, o) = Const(Wrap(o[2])) BY <1>2 DEF Word
  <2>4. QED BY <2>1, <2>2, <2>3 DEF IsWord
<1>3. CASE o[1] = "reg"
  <2> DEFINE r == o[2]
  <2>1. o = Reg(r) BY <1>1, <1>3 DEF OperandFits
  <2>2. r \in DOMAIN l.table /\ Value(l, o) = l.table[r] BY <2>1, ValueOfReg, Kinds
  <2>3. Told(f, r) BY <2>2 DEF Solves, Solution
  <2>4. r \in 1..f.regs BY <2>3, ToldRegister DEF Solves
  <2>5. Agrees(l, Reg(r), a.env[r]) BY <2>3, <2>4 DEF TableRight
  <2>6. Word(a, o) = a.env[r] BY <1>3 DEF Word
  <2>7. Value(l, Reg(r)) # Uncertain BY <2>1, Kinds
  <2>8. IsWord(Value(l, o)) BY <2>2 DEF Solves, ConstantsFit
  <2>9. QED BY <2>1, <2>5, <2>6, <2>7, <2>8 DEF Agrees
<1>4. CASE o[1] \notin {"const", "reg"} BY <1>4, Kinds DEF Value
<1>5. QED BY <1>2, <1>3, <1>4

\* An instruction that computes writes what the table has for it, or nothing.
LEMMA ComputedWord ==
  ASSUME NEW f, NEW l, Solves(f, l), NEW a, TableRight(f, l, a),
         NEW i \in ToSet(f.code[a.block]), i.op \in Binary
  PROVE  Agrees(l, Reg(i.r), Apply(i.op, Word(a, i.ops[1]), Word(a, i.ops[2])))
<1> DEFINE v == Value(l, Reg(i.r))
           x == Value(l, i.ops[1])
           y == Value(l, i.ops[2])
           w == Apply(i.op, Word(a, i.ops[1]), Word(a, i.ops[2]))
<1>1. SccpExpects(f) /\ a.block \in l.exec \cap ToSet(f.list) BY DEF Solves, Solution, TableRight
<1>2. i \in InstrsOf(f) /\ i \in AllInstrs(f) BY <1>1, ListedInstr
<1>3. ToSet(i.ops) = {i.ops[1], i.ops[2]} /\ i.op \in Computing /\ i.op # "zext"
  BY <1>1, <1>2, InstrFits DEF Computing, Binary, Comparisons
<1>4. ValueSolved(f, l, i) BY <1>1 DEF Solves, Solution
<1>5. CASE v = Uncertain BY <1>5 DEF Agrees
<1>6. CASE v # Uncertain
  <2>1. v = Computed(l, i) /\ IsDefinite(x) /\ IsDefinite(y) BY <1>3, <1>4, <1>6 DEF ValueSolved
  <2>2. v = Const(Calculated(i.op, x[2], y[2])) BY <1>3, <2>1 DEF Computed
  <2>3. IsWord(x) /\ (Word(a, i.ops[1]) = Uncertain \/ Word(a, i.ops[1]) = x)
    BY <1>2, <1>3, <2>1, OperandAgrees
  <2>4. IsWord(y) /\ (Word(a, i.ops[2]) = Uncertain \/ Word(a, i.ops[2]) = y)
    BY <1>2, <1>3, <2>1, OperandAgrees
  <2>5. IsDefinite(v) BY <2>2, Kinds
  <2>6. Wrap(v[2]) = v[2]
    <3>1. i.r \in DOMAIN l.table /\ v = l.table[i.r] BY <2>5, ValueOfReg, Kinds
    <3>2. QED BY <2>5, <3>1 DEF Solves, ConstantsFit, IsWord
  <2>7. x = Const(x[2]) /\ x[2] \in Int /\ y = Const(y[2]) /\ y[2] \in Int
    BY <2>3, <2>4 DEF IsWord
  <2> DEFINE c == Calculated(i.op, x[2], y[2])
  <2>8. Wrap(c) = c BY <2>2, <2>6 DEF Const
  <2>9. Apply(i.op, x, y) = Uncertain \/ Apply(i.op, x, y) = Const(c) BY <2>7, <2>8, ApplyCalculated
  <2> HIDE DEF v, x, y, c
  <2>10. w = Uncertain \/ w = v BY <2>2, <2>3, <2>4, <2>9, ApplyUncertain DEF c
  <2> HIDE DEF w
  <2>11. QED BY <2>5, <2>10 DEF Agrees, v, w
<1>7. QED BY <1>5, <1>6

LEMMA ExtendedWord ==
  ASSUME NEW f, NEW l, Solves(f, l), NEW a, TableRight(f, l, a),
         NEW i \in ToSet(f.code[a.block]), i.op = "zext"
  PROVE  Agrees(l, Reg(i.r), Word(a, i.ops[1]))
<1> DEFINE v == Value(l, Reg(i.r))
           x == Value(l, i.ops[1])
<1>1. SccpExpects(f) /\ a.block \in l.exec \cap ToSet(f.list) BY DEF Solves, Solution, TableRight
<1>2. i \in InstrsOf(f) /\ i \in AllInstrs(f) BY <1>1, ListedInstr
<1>3. ToSet(i.ops) = {i.ops[1]} /\ i.op \in Computing BY <1>1, <1>2, InstrFits DEF Computing
<1>4. ValueSolved(f, l, i) BY <1>1 DEF Solves, Solution
<1>5. CASE v = Uncertain BY <1>5 DEF Agrees
<1>6. CASE v # Uncertain
  <2>1. v = x /\ IsDefinite(x) BY <1>3, <1>4, <1>6 DEF ValueSolved, Computed
  <2>2. Word(a, i.ops[1]) = Uncertain \/ Word(a, i.ops[1]) = x BY <1>2, <1>3, <2>1, OperandAgrees
  <2>3. QED BY <2>1, <2>2 DEF Agrees
<1>7. QED BY <1>5, <1>6

\* The same for what goes round a loop or comes from either side.
LEMMA PhiWord ==
  ASSUME NEW f, NEW l, Solves(f, l), NEW a, TableRight(f, l, a), NEW b \in l.exec \cap ToSet(f.list),
         NEW i \in ToSet(f.code[b]), IsPhi(i), NEW k \in Incoming(i), i.ops[k] = Label(a.block)
  PROVE  Agrees(l, Reg(i.r), Word(a, i.ops[k - 1]))
<1> DEFINE v == Value(l, Reg(i.r))
           o == i.ops[k - 1]
           x == Value(l, o)
<1>1. SccpExpects(f) /\ EdgesExpected(f) /\ a.block \in l.exec BY DEF Solves, Solution, TableRight
<1>2. i \in InstrsOf(f) /\ i \in AllInstrs(f) BY <1>1, ListedInstr
<1>3. o \in ToSet(i.ops) BY <1>1, <1>2, InstrFits
<1>4. i.ops[k][2] \in l.exec BY <1>1 DEF Label
<1>5. CASE v = Uncertain BY <1>5 DEF Agrees
<1>6. CASE v # Uncertain
  <2>1. /\ x \in {v, Unassigned}
        /\ x = Unassigned => o = Uncertain \/ (o = Reg(o[2]) /\ Told(f, o[2]))
    BY <1>4, <1>6 DEF Solves, PhisCurrent
  <2>2. CASE IsDefinite(x)
    <3>1. Word(a, o) = Uncertain \/ Word(a, o) = x BY <1>2, <1>3, <2>2, OperandAgrees
    <3>2. QED BY <2>1, <2>2, <3>1, Kinds DEF Agrees
  <2>3. CASE x = Unassigned /\ o = Uncertain
    <3>1. Word(a, o) = Uncertain BY <2>3 DEF Word, Uncertain
    <3>2. QED BY <3>1 DEF Agrees
  <2>4. CASE x = Unassigned /\ o = Reg(o[2]) /\ Told(f, o[2])
    <3>1. o[2] \in 1..f.regs BY <1>1, <2>4, ToldRegister
    <3>2. Agrees(l, Reg(o[2]), a.env[o[2]]) BY <2>4, <3>1 DEF TableRight
    <3>3. a.env[o[2]] = Uncertain BY <2>4, <3>2, Kinds DEF Agrees
    <3>4. o[1] = "reg" BY <2>4 DEF Reg
    <3>5. Word(a, o) = Uncertain BY <3>3, <3>4 DEF Word
    <3>6. QED BY <3>5 DEF Agrees
  <2>5. CASE ~IsDefinite(x) /\ x # Unassigned
    <3>1. x = v BY <2>1, <2>5
    <3>2. x = Uncertain BY <2>5 DEF Solves, Solution, Value, IsDefinite
    <3>3. QED BY <1>6, <3>1, <3>2
  <2>6. QED BY <2>1, <2>2, <2>3, <2>4, <2>5
<1>7. QED BY <1>5, <1>6

----------------------------------------------------------------------------
(* The stack.                                                              *)

LEMMA SeqOfMore == ASSUME NEW S, NEW T, NEW s \in Seq(S), S \subseteq T PROVE s \in Seq(T)
<1>1. s \in [1..Len(s) -> T] /\ Len(s) \in Nat OBVIOUS
<1>2. QED BY <1>1, SeqDef

LEMMA SeqOfToSet == ASSUME NEW S, NEW s \in Seq(S) PROVE s \in Seq(ToSet(s))
<1>1. /\ DOMAIN s = 1..Len(s) /\ Len(s) \in Nat /\ s = [k \in 1..Len(s) |-> s[k]]
      /\ \A k \in 1..Len(s) : s[k] \in ToSet(s)
  BY DEF ToSet
<1>2. s \in [1..Len(s) -> ToSet(s)] BY <1>1
<1>3. QED BY <1>1, <1>2, SeqDef

LEMMA FrontAppend ==
  ASSUME NEW S, NEW s \in Seq(S), s # <<>>, NEW b \in S
  PROVE  LET t == Append(Front(s), b)
         IN /\ t \in Seq(ToSet(t)) /\ Len(t) = Len(s) /\ t[Len(s)] = b
            /\ \A k \in 1..(Len(s) - 1) : t[k] = s[k]
<1> DEFINE n == Len(s)
           u == SubSeq(s, 1, n - 1)
           t == Append(u, b)
<1>1. n \in Nat /\ n # 0 OBVIOUS
<1>2. u \in Seq(S) /\ Len(u) = n - 1 /\ \A k \in 1..(n - 1) : u[k] = s[k]
  <2> DEFINE j == n - 1
  <2>1. j \in Nat /\ 1 \in Int /\ \A k \in 1..j : s[k] \in S BY <1>1
  <2> HIDE DEF j
  <2>2. /\ SubSeq(s, 1, j) \in Seq(S)
        /\ Len(SubSeq(s, 1, j)) = IF 1 <= j THEN j - 1 + 1 ELSE 0
        /\ \A k \in 1..(j - 1 + 1) : SubSeq(s, 1, j)[k] = s[1 + k - 1]
    BY <2>1, SubSeqProperties
  <2>3. j - 1 + 1 = j /\ \A k \in 1..j : 1 + k - 1 = k BY <2>1
  <2>4. (IF 1 <= j THEN j ELSE 0) = j BY <2>1
  <2>5. SubSeq(s, 1, j) \in Seq(S) /\ Len(SubSeq(s, 1, j)) = j /\ \A k \in 1..j : SubSeq(s, 1, j)[k] = s[k]
    BY <2>2, <2>3, <2>4
  <2>6. QED BY <2>5 DEF j
<1> HIDE DEF u
<1>3. t \in Seq(S) /\ Len(t) = n /\ t[n] = b /\ \A k \in 1..(n - 1) : t[k] = u[k] BY <1>1, <1>2
<1> HIDE DEF t
<1>4. t \in Seq(ToSet(t)) BY <1>3, SeqOfToSet
<1>5. QED BY <1>2, <1>3, <1>4 DEF Front, t, u

LEMMA TopReplaced ==
  ASSUME NEW f, NEW l, NEW calls, CallsStand(f, l, calls), calls # <<>>,
         NEW b, Stands(f, l, b), b.fun = Last(calls).fun, b.to = Last(calls).to
  PROVE  CallsStand(f, l, Append(Front(calls), b))
<1> DEFINE t == Append(Front(calls), b)
           n == Len(calls)
           S == ToSet(calls) \cup {b}
<1>1. calls \in Seq(S) /\ n \in Nat \ {0} /\ b \in S BY SeqOfMore DEF CallsStand
<1> HIDE DEF S
<1>2. t \in Seq(ToSet(t)) /\ Len(t) = n /\ t[n] = b /\ \A k \in 1..(n - 1) : t[k] = calls[k]
  BY <1>1, FrontAppend
<1>3. b.fun = calls[n].fun /\ b.to = calls[n].to BY DEF Last
<1> HIDE DEF t
<1>4. \A k \in 1..n : Stands(f, l, t[k]) BY <1>1, <1>2 DEF CallsStand
<1>5. ASSUME NEW k \in 1..(n - 1) PROVE ToUncertain(l, t[k], t[k + 1])
  <2>1. ToUncertain(l, calls[k], calls[k + 1]) BY <1>5 DEF CallsStand
  <2>2. t[k] = calls[k] /\ t[k + 1].to = calls[k + 1].to BY <1>1, <1>2, <1>3
  <2>3. QED BY <2>1, <2>2 DEF ToUncertain
<1>6. CallsStand(f, l, t) BY <1>2, <1>4, <1>5 DEF CallsStand
<1>7. QED BY <1>6 DEF t

LEMMA CallPushed ==
  ASSUME NEW f, NEW l, NEW calls, CallsStand(f, l, calls), calls # <<>>,
         NEW b, Stands(f, l, b), ToUncertain(l, Last(calls), b)
  PROVE  CallsStand(f, l, Append(calls, b))
<1> DEFINE t == Append(calls, b)
           n == Len(calls)
           S == ToSet(calls) \cup {b}
<1>1. calls \in Seq(S) /\ n \in Nat \ {0} /\ b \in S BY SeqOfMore DEF CallsStand
<1> HIDE DEF S
<1>2. t \in Seq(S) /\ Len(t) = n + 1 /\ t[n + 1] = b /\ \A k \in 1..n : t[k] = calls[k] BY <1>1
<1> HIDE DEF t
<1>3. t \in Seq(ToSet(t)) BY <1>2, SeqOfToSet
<1>4. \A k \in 1..(n + 1) : Stands(f, l, t[k]) BY <1>1, <1>2 DEF CallsStand
<1>5. ASSUME NEW k \in 1..n PROVE ToUncertain(l, t[k], t[k + 1])
  <2>1. CASE k = n BY <1>1, <1>2, <2>1 DEF Last
  <2>2. CASE k # n
    <3>1. k \in 1..(n - 1) /\ k + 1 \in 1..n BY <1>1, <2>2
    <3>2. QED BY <1>2, <3>1 DEF CallsStand
  <2>3. QED BY <2>1, <2>2
<1>6. CallsStand(f, l, t) BY <1>1, <1>2, <1>3, <1>4, <1>5 DEF CallsStand
<1>7. QED BY <1>6 DEF t

\* The top goes, and the one below it becomes b.
LEMMA CallPopped ==
  ASSUME NEW f, NEW l, NEW calls, CallsStand(f, l, calls), Len(calls) > 1, NEW b, Stands(f, l, b),
         b.fun = calls[Len(calls) - 1].fun, b.to = calls[Len(calls) - 1].to
  PROVE  CallsStand(f, l, [Front(calls) EXCEPT ![Len(Front(calls))] = b])
<1> DEFINE n == Len(calls)
           s == SubSeq(calls, 1, n - 1)
           t == [s EXCEPT ![Len(s)] = b]
           S == ToSet(calls) \cup {b}
<1>1. calls \in Seq(S) /\ n \in Nat /\ b \in S BY SeqOfMore DEF CallsStand
<1> HIDE DEF S
<1>2. s \in Seq(S) /\ Len(s) = n - 1 /\ \A k \in 1..(n - 1) : s[k] = calls[k] BY <1>1
<1>3. /\ t \in Seq(S) /\ Len(t) = n - 1 /\ t[n - 1] = b
      /\ \A k \in 1..(n - 2) : t[k] = calls[k]
  <2>1. n - 1 \in 1..Len(s) /\ Len(s) = n - 1 BY <1>1, <1>2
  <2> HIDE DEF s
  <2>2. t \in Seq(S) /\ Len(t) = n - 1 /\ t[n - 1] = b /\ \A k \in 1..(n - 2) : t[k] = s[k]
    BY <1>1, <1>2, <2>1
  <2>3. QED BY <1>1, <1>2, <2>2
<1>4. t = [Front(calls) EXCEPT ![Len(Front(calls))] = b] BY DEF Front
<1> HIDE DEF t
<1>5. t \in Seq(ToSet(t)) BY <1>3, SeqOfToSet
<1>6. ASSUME NEW k \in 1..(n - 1) PROVE Stands(f, l, t[k])
  <2>1. CASE k = n - 1 BY <1>3, <2>1
  <2>2. CASE k # n - 1
    <3>1. k \in 1..(n - 2) /\ k \in 1..n BY <1>1, <2>2
    <3>2. QED BY <1>3, <3>1 DEF CallsStand
  <2>3. QED BY <2>1, <2>2
<1>7. ASSUME NEW k \in 1..(n - 2) PROVE ToUncertain(l, t[k], t[k + 1])
  <2>1. ToUncertain(l, calls[k], calls[k + 1])
    <3>1. k \in 1..(n - 1) BY <1>1
    <3>2. QED BY <3>1 DEF CallsStand
  <2>2. t[k] = calls[k] BY <1>3
  <2>3. t[k + 1].to = calls[k + 1].to
    <3>1. CASE k + 1 = n - 1 BY <1>3, <3>1
    <3>2. CASE k + 1 # n - 1
      <4>1. k + 1 \in 1..(n - 2) BY <1>1, <3>2
      <4>2. QED BY <1>3, <4>1
    <3>3. QED BY <3>1, <3>2
  <2>4. QED BY <2>1, <2>2, <2>3 DEF ToUncertain
<1>8. (n - 1) - 1 = n - 2 BY <1>1
<1>9. CallsStand(f, l, t) BY <1>3, <1>5, <1>6, <1>7, <1>8 DEF CallsStand
<1>10. QED BY <1>4, <1>9

----------------------------------------------------------------------------
(* What the machine does to the activation on top.                         *)

\* The next instruction, with word w in register r.
Put(a, r, w) ==
  LET next == [a EXCEPT !.at = @ + 1] IN IF r = 0 THEN next ELSE [next EXCEPT !.env[r] = w]

WithTop(m, b) == [m EXCEPT !.calls = Append(Front(@), b)]

\* Activation b stands in the place of a.
Replaces(f, l, a, b) == Stands(f, l, b) /\ b.fun = a.fun /\ b.to = a.to

LEMMA PutStands ==
  ASSUME NEW f, NEW l, NEW a, Stands(f, l, a), NEW r, NEW w,
         a.fun = Name /\ Told(f, r) => Agrees(l, Reg(r), w)
  PROVE  Replaces(f, l, a, Put(a, r, w))
<1> DEFINE b == Put(a, r, w)
<1>1. DOMAIN a = ActivationFields BY DEF Stands
<1>2. /\ DOMAIN b = ActivationFields /\ b.fun = a.fun /\ b.to = a.to /\ b.block = a.block
      /\ b.at = a.at + 1 /\ b.env = IF r = 0 THEN a.env ELSE [a.env EXCEPT ![r] = w]
  BY <1>1 DEF Put, ActivationFields
<1> HIDE DEF b
<1>3. ASSUME a.fun = Name
      PROVE  TableRight(f, l, b) /\ DOMAIN b.env = 1..f.regs /\ b.at \in Nat \ {0}
  <2>1. TableRight(f, l, a) /\ DOMAIN a.env = 1..f.regs /\ a.at \in Nat \ {0} BY <1>3 DEF Stands
  <2>2. DOMAIN b.env = 1..f.regs /\ b.at \in Nat \ {0} BY <1>2, <2>1
  <2>3. ASSUME NEW q \in 1..f.regs, Told(f, q) PROVE Agrees(l, Reg(q), b.env[q])
    <3>1. CASE q = r
      <4>1. q # 0 BY <2>3 DEF Told
      <4>2. b.env[q] = w BY <1>2, <2>1, <3>1, <4>1
      <4>3. QED BY <1>3, <2>3, <3>1, <4>2
    <3>2. CASE q # r
      <4>1. b.env[q] = a.env[q] BY <1>2, <2>1, <3>2
      <4>2. QED BY <2>1, <2>3, <4>1 DEF TableRight
    <3>3. QED BY <3>1, <3>2
  <2>4. QED BY <1>2, <2>1, <2>2, <2>3 DEF TableRight
<1>4. QED BY <1>2, <1>3 DEF Stands, Replaces, b

LEMMA FiniteRange == ASSUME NEW S, NEW s \in Seq(S) PROVE IsFiniteSet(ToSet(s))
<1>1. DOMAIN s = 1..Len(s) /\ Len(s) \in Nat OBVIOUS
<1>2. IsFiniteSet(1..Len(s)) BY <1>1, FS_Interval
<1>3. IsFiniteSet(DOMAIN s) /\ s \in [DOMAIN s -> ToSet(s)] /\ \A y \in ToSet(s) : \E x \in DOMAIN s : s[x] = y
  BY <1>1, <1>2 DEF ToSet
<1>4. s \in Surjection(DOMAIN s, ToSet(s)) BY <1>3 DEF Surjection
<1>5. QED BY <1>3, <1>4, FS_Surjection

\* Only instructions that the table is told of write to a register it holds.
LEMMA ToldInstr ==
  ASSUME NEW f, SccpExpects(f), NEW i \in AllInstrs(f), Told(f, i.r)
  PROVE  i.op \in Computing \cup {"phi", "load", "call"}
<1>1. PICK j \in AllInstrs(f) : j.r = i.r /\ j.op \in Computing \cup {"phi", "load", "call"} /\ i.r # 0
  BY DEF Told
<1>2. i = j BY <1>1, OneDefinition
<1>3. QED BY <1>1, <1>2

\* A load or a call gives the table nothing to be wrong about.
LEMMA LoadWord ==
  ASSUME NEW f, NEW l, Solves(f, l), NEW a, TableRight(f, l, a),
         NEW i \in ToSet(f.code[a.block]), i.op \in {"load", "call"}, i.r # 0
  PROVE  Value(l, Reg(i.r)) = Uncertain
  BY DEF Solves, Solution, TableRight, ValueSolved

LEMMA EnterStands ==
  ASSUME NEW a, Stands(Body, Table, a), Solves(Body, Table), NEW b,
         a.fun = Name => /\ b \in Table.exec
                         /\ \E i \in ToSet(Body.code[a.block]) : b \in Targets(i)
  PROVE  Replaces(Body, Table, a, EnterBlock(Program, a, b))
<1> DEFINE f == Program.func[a.fun]
           phis == {i \in ToSet(f.code[b]) : IsPhi(i)}
           from(i) == CHOOSE k \in Incoming(i) : i.ops[k] = Label(a.block)
           value(i) == Word(a, i.ops[from(i) - 1])
           phi(r) == CHOOSE i \in phis : i.r = r
           e == EnterBlock(Program, a, b)
<1>1. DOMAIN a = ActivationFields BY DEF Stands
<1>2. /\ DOMAIN e = ActivationFields /\ e.fun = a.fun /\ e.to = a.to /\ e.block = b
      /\ e.at = Cardinality(phis) + 1
      /\ e.env = [r \in DOMAIN a.env |-> IF \E i \in phis : i.r = r THEN value(phi(r)) ELSE a.env[r]]
  BY <1>1 DEF EnterBlock, ActivationFields
<1> HIDE DEF e
<1>3. ASSUME a.fun = Name
      PROVE  TableRight(Body, Table, e) /\ DOMAIN e.env = 1..Body.regs /\ e.at \in Nat \ {0}
  <2>1. f = Body BY <1>3 DEF Body
  <2>2. TableRight(Body, Table, a) /\ DOMAIN a.env = 1..Body.regs BY <1>3 DEF Stands
  <2>3. SccpExpects(Body) /\ EdgesExpected(Body) BY DEF Solves, Solution
  <2>4. a.block \in ToSet(Body.list) BY <2>2 DEF TableRight
  <2>5. PICK t \in ToSet(Body.code[a.block]) : b \in Targets(t) BY <1>3
  <2>6. b \in Table.exec \cap ToSet(Body.list) BY <1>3, <2>3, <2>4, <2>5 DEF EdgesExpected
  <2>7. ASSUME NEW i \in phis PROVE Agrees(Table, Reg(i.r), value(i))
    <3>1. i \in ToSet(Body.code[b]) /\ IsPhi(i) BY <2>1
    <3>2. \E k \in Incoming(i) : i.ops[k] = Label(a.block) BY <2>3, <2>4, <2>5, <3>1 DEF EdgesExpected
    <3>3. from(i) \in Incoming(i) /\ i.ops[from(i)] = Label(a.block) BY <3>2
    <3> DEFINE k == from(i)
    <3> HIDE DEF from
    <3>4. Agrees(Table, Reg(i.r), Word(a, i.ops[k - 1])) BY <2>2, <2>6, <3>1, <3>3, PhiWord
    <3>5. QED BY <3>4
  <2>8. ASSUME NEW r \in 1..Body.regs, Told(Body, r) PROVE Agrees(Table, Reg(r), e.env[r])
    <3>1. CASE \E i \in phis : i.r = r
      <4>1. phi(r) \in phis /\ phi(r).r = r BY <3>1
      <4>2. e.env[r] = value(phi(r)) BY <1>2, <2>2, <3>1
      <4> HIDE DEF phi, value
      <4>3. QED BY <2>7, <4>1, <4>2
    <3>2. CASE ~ \E i \in phis : i.r = r
      <4>1. e.env[r] = a.env[r] BY <1>2, <2>2, <3>2
      <4>2. QED BY <2>2, <2>8, <4>1 DEF TableRight
    <3>3. QED BY <3>1, <3>2
  <2>9. Cardinality(phis) \in Nat
    <3>1. b \in DOMAIN Body.code BY <2>3, <2>6 DEF SccpExpects
    <3>2. Body.code[b] \in Seq(AllInstrs(Body)) BY <2>3, <3>1 DEF SccpExpects
    <3>3. IsFiniteSet(ToSet(Body.code[b])) BY <3>2, FiniteRange
    <3>4. phis \subseteq ToSet(Body.code[b]) BY <2>1
    <3> HIDE DEF phis
    <3>5. IsFiniteSet(phis) BY <3>3, <3>4, FS_Subset
    <3>6. QED BY <3>5, FS_CardinalityType
  <2>10. DOMAIN e.env = 1..Body.regs BY <1>2, <2>2
  <2>11. e.at \in Nat \ {0}
    <3> HIDE DEF phis
    <3>1. QED BY <1>2, <2>9
  <2>12. QED BY <1>2, <2>6, <2>8, <2>10, <2>11 DEF TableRight
<1>4. QED BY <1>2, <1>3 DEF Stands, Replaces, e

\* The machine goes on with activation b on top.
TopBecomes(m, n, b) == DOMAIN n = {"calls", "mem"} /\ n.calls = Append(Front(m.calls), b)

\* And here it is back in the activation below.
Popped(m, n, back) ==
  LET front == Front(m.calls)
  IN DOMAIN n = {"calls", "mem"} /\ n.calls = [front EXCEPT ![Len(front)] = back]

Called(m, n, b) == DOMAIN n = {"calls", "mem"} /\ n.calls = Append(m.calls, b)

\* Where a branch goes.
Destination(m, i) ==
  IF Len(i.ops) = 1 THEN i.ops[1][2]
  ELSE IF Operand(m, i, 1) # Const(0) THEN i.ops[2][2] ELSE i.ops[3][2]

Arguments(m, i) == [k \in 1..(Len(i.ops) - 1) |-> Operand(m, i, k + 1)]

Returned(a, b, w) ==
  LET back == [b EXCEPT !.at = @ + 1] IN IF a.to = 0 THEN back ELSE [back EXCEPT !.env[a.to] = w]

LEMMA WithTopBecomes ==
  ASSUME NEW m, DOMAIN m = {"calls", "mem"}, NEW b
  PROVE  TopBecomes(m, WithTop(m, b), b)
  BY DEF WithTop, TopBecomes

\* The memory with the variable instruction i of activation a makes.
Made(u, m, a, i) ==
  LET object == <<"local", Len(m.calls), i.r>>
      made == {Ptr(object, 4 * k) : k \in 0..(u.func[a.fun].bytes[i.r] \div 4 - 1)}
  IN [p \in made \cup DOMAIN m.mem |-> IF p \in made THEN Uncertain ELSE m.mem[p]]

Variable(m, i) == Ptr(<<"local", Len(m.calls), i.r>>, 0)

MulAdd(m, i) == Apply("add", Apply("mul", Operand(m, i, 1), Operand(m, i, 2)), Operand(m, i, 3))

\* Activation b on top, and memory mem.
Becomes(m, n, b, mem) == TopBecomes(m, n, b) /\ n.mem = mem

\* What becomes of machine m of unit u at instruction i of activation a.
Arms(u, m, input, i, a, n) ==
  /\ i.op \in Arithmetic =>
       Becomes(m, n, Put(a, i.r, Apply(i.op, Operand(m, i, 1), Operand(m, i, 2))), m.mem)
  /\ i.op = "gep" => Becomes(m, n, Put(a, i.r, Address(m, i)), m.mem)
  /\ i.op \in {"mov", "zext"} => Becomes(m, n, Put(a, i.r, Operand(m, i, 1)), m.mem)
  /\ i.op = "mla" => Becomes(m, n, Put(a, i.r, MulAdd(m, i)), m.mem)
  /\ i.op = "alloca" => Becomes(m, n, Put(a, i.r, Variable(m, i)), Made(u, m, a, i))
  /\ i.op = "load" => Becomes(m, n, Put(a, i.r, m.mem[Target(m, i, 1)]), m.mem)
  /\ i.op = "store" => Becomes(m, n, Put(a, 0, Uncertain),
                               [m.mem EXCEPT ![Target(m, i, 2)] = Operand(m, i, 1)])
  /\ i.op = "br" => Becomes(m, n, EnterBlock(u, a, Destination(m, i)), m.mem)
  /\ i.op = "ret" => /\ Popped(m, n, Returned(a, Last(Front(m.calls)), Operand(m, i, 1)))
                     /\ n.mem = m.mem
  /\ i.op = "call" /\ Callee(i) \in Library => Becomes(m, n, Put(a, i.r, Const(input)), m.mem)
  /\ i.op = "call" /\ Callee(i) \notin Library =>
       Called(m, n, Activation(u, Callee(i), Arguments(m, i), i.r)) /\ n.mem = m.mem

LEMMA MirArms ==
  ASSUME NEW u, NEW m, DOMAIN m = {"calls", "mem"}, NEW input,
         NEW i, i = Current(u, m), NEW a, a = Now(m), NEW n, n = MirStep(u, m, input)
  PROVE  Arms(u, m, input, i, a, n)
<1> DEFINE with(b) == [m EXCEPT !.calls = Append(Front(@), b)]
           next == [a EXCEPT !.at = @ + 1]
           put(w) == with(IF i.r = 0 THEN next ELSE [next EXCEPT !.env[i.r] = w])
           object == <<"local", Len(m.calls), i.r>>
           made == {Ptr(object, 4 * k) : k \in 0..(u.func[a.fun].bytes[i.r] \div 4 - 1)}
           returned == [m EXCEPT !.calls = Front(@)]
           e1 == put(Apply(i.op, Operand(m, i, 1), Operand(m, i, 2)))
           e2 == put(Address(m, i))
           e3 == put(Operand(m, i, 1))
           e4 == put(Apply("add", Apply("mul", Operand(m, i, 1), Operand(m, i, 2)), Operand(m, i, 3)))
           e5 == [put(Ptr(object, 0)) EXCEPT !.mem = [p \in made \cup DOMAIN @ |->
                                                        IF p \in made THEN Uncertain ELSE @[p]]]
           e6 == put(m.mem[Target(m, i, 1)])
           e7 == [with(next) EXCEPT !.mem[Target(m, i, 2)] = Operand(m, i, 1)]
           e8 == with(EnterBlock(u, a,
                             IF Len(i.ops) = 1 THEN i.ops[1][2]
                             ELSE IF Operand(m, i, 1) # Const(0) THEN i.ops[2][2] ELSE i.ops[3][2]))
           back == [Now(returned) EXCEPT !.at = @ + 1]
           e9 == [returned EXCEPT !.calls[Len(returned.calls)] =
                  IF a.to = 0 THEN back ELSE [back EXCEPT !.env[a.to] = Operand(m, i, 1)]]
           e10 == put(Const(input))
           e11 == [m EXCEPT !.calls = Append(@, Activation(u, Callee(i),
                                 [k \in 1..(Len(i.ops) - 1) |-> Operand(m, i, k + 1)], i.r))]
<1>1. n = CASE i.op \in Arithmetic -> e1
            [] i.op = "gep" -> e2
            [] i.op \in {"mov", "zext"} -> e3
            [] i.op = "mla" -> e4
            [] i.op = "alloca" -> e5
            [] i.op = "load" -> e6
            [] i.op = "store" -> e7
            [] i.op = "br" -> e8
            [] i.op = "ret" -> e9
            [] i.op = "call" /\ Callee(i) \in Library -> e10
            [] i.op = "call" /\ Callee(i) \notin Library -> e11
  BY DEF MirStep
<1>2. \A w : Becomes(m, put(w), Put(a, i.r, w), m.mem) BY DEF Becomes, TopBecomes, Put
<1>3. Becomes(m, e5, Put(a, i.r, Variable(m, i)), Made(u, m, a, i))
  <2>1. Made(u, m, a, i) = [p \in made \cup DOMAIN m.mem |-> IF p \in made THEN Uncertain ELSE m.mem[p]]
    BY DEF Made
  <2>2. Variable(m, i) = Ptr(object, 0) BY DEF Variable
  <2> HIDE DEF made, object
  <2>3. QED BY <2>1, <2>2 DEF Becomes, TopBecomes, Put
<1>4. Becomes(m, e7, Put(a, 0, Uncertain), [m.mem EXCEPT ![Target(m, i, 2)] = Operand(m, i, 1)])
  BY DEF Becomes, TopBecomes, Put
<1>5. Becomes(m, e8, EnterBlock(u, a, Destination(m, i)), m.mem) BY DEF Becomes, TopBecomes, Destination
<1>6. Popped(m, e9, Returned(a, Last(Front(m.calls)), Operand(m, i, 1))) /\ e9.mem = m.mem
  BY DEF Popped, Returned, Now
<1>7. Called(m, e11, Activation(u, Callee(i), Arguments(m, i), i.r)) /\ e11.mem = m.mem
  BY DEF Called, Arguments
<1>8. /\ Becomes(m, e1, Put(a, i.r, Apply(i.op, Operand(m, i, 1), Operand(m, i, 2))), m.mem)
      /\ Becomes(m, e2, Put(a, i.r, Address(m, i)), m.mem)
      /\ Becomes(m, e3, Put(a, i.r, Operand(m, i, 1)), m.mem)
      /\ Becomes(m, e4, Put(a, i.r, MulAdd(m, i)), m.mem)
      /\ Becomes(m, e6, Put(a, i.r, m.mem[Target(m, i, 1)]), m.mem)
      /\ Becomes(m, e10, Put(a, i.r, Const(input)), m.mem)
  <2> HIDE DEF put
  <2>1. QED BY <1>2 DEF MulAdd
<1> HIDE DEF e1, e2, e3, e4, e5, e6, e7, e8, e9, e10, e11
<1>9. /\ i.op \in Arithmetic => i.op \notin {"gep", "mov", "zext", "mla", "alloca", "load", "store", "br", "ret", "call"}
      /\ i.op = "gep" => i.op \notin Arithmetic
  BY DEF Arithmetic, Shifts, Comparisons
<1>10. /\ i.op \in Arithmetic => n = e1
       /\ i.op = "gep" => n = e2
       /\ i.op \in {"mov", "zext"} => n = e3
       /\ i.op = "mla" => n = e4
       /\ i.op = "alloca" => n = e5
       /\ i.op = "load" => n = e6
       /\ i.op = "store" => n = e7
       /\ i.op = "br" => n = e8
       /\ i.op = "ret" => n = e9
       /\ i.op = "call" /\ Callee(i) \in Library => n = e10
       /\ i.op = "call" /\ Callee(i) \notin Library => n = e11
  BY <1>1, <1>9
<1>11. QED BY <1>3, <1>4, <1>5, <1>6, <1>7, <1>8, <1>10 DEF Arms

\* As much of it as says what becomes of the stack.
LEMMA MirTops ==
  ASSUME NEW m, DOMAIN m = {"calls", "mem"}, NEW input,
         NEW i, i = Current(Program, m), NEW a, a = Now(m), NEW n, n = MirStep(Program, m, input)
  PROVE  /\ i.op \in Arithmetic =>
              TopBecomes(m, n, Put(a, i.r, Apply(i.op, Operand(m, i, 1), Operand(m, i, 2))))
         /\ i.op = "zext" => TopBecomes(m, n, Put(a, i.r, Operand(m, i, 1)))
         /\ i.op \in {"gep", "mov", "mla", "alloca", "load"} => \E w : TopBecomes(m, n, Put(a, i.r, w))
         /\ i.op = "store" => \E w : TopBecomes(m, n, Put(a, 0, w))
         /\ i.op = "br" => TopBecomes(m, n, EnterBlock(Program, a, Destination(m, i)))
         /\ i.op = "ret" => \E w : Popped(m, n, Returned(a, Last(Front(m.calls)), w))
         /\ i.op = "call" => \/ \E w : TopBecomes(m, n, Put(a, i.r, w))
                             \/ Called(m, n, Activation(Program, Callee(i), Arguments(m, i), i.r))
<1>0. Arms(Program, m, input, i, a, n) BY MirArms
<1>1. \A b, mem : Becomes(m, n, b, mem) => TopBecomes(m, n, b) BY DEF Becomes
<1> DEFINE e1 == Put(a, i.r, Apply(i.op, Operand(m, i, 1), Operand(m, i, 2)))
           e3 == Put(a, i.r, Operand(m, i, 1))
           e8 == EnterBlock(Program, a, Destination(m, i))
           e9 == Returned(a, Last(Front(m.calls)), Operand(m, i, 1))
           e11 == Activation(Program, Callee(i), Arguments(m, i), i.r)
<1>2. /\ i.op \in Arithmetic => Becomes(m, n, e1, m.mem)
      /\ i.op = "zext" => Becomes(m, n, e3, m.mem)
      /\ i.op = "br" => Becomes(m, n, e8, m.mem)
      /\ i.op = "ret" => Popped(m, n, e9)
      /\ i.op = "call" /\ Callee(i) \notin Library => Called(m, n, e11)
  BY <1>0 DEF Arms
<1>3. /\ i.op \in {"gep", "mov", "mla", "alloca", "load"} => \E w, mem : Becomes(m, n, Put(a, i.r, w), mem)
      /\ i.op = "store" => \E w, mem : Becomes(m, n, Put(a, 0, w), mem)
      /\ i.op = "call" /\ Callee(i) \in Library => \E w, mem : Becomes(m, n, Put(a, i.r, w), mem)
  <2>1. CASE i.op = "gep" BY <2>1, <1>0 DEF Arms
  <2>2. CASE i.op = "mov" BY <2>2, <1>0 DEF Arms
  <2>3. CASE i.op = "mla" BY <2>3, <1>0 DEF Arms
  <2>4. CASE i.op = "alloca"
    <3> DEFINE w == Variable(m, i)
               mem == Made(Program, m, a, i)
    <3>1. Becomes(m, n, Put(a, i.r, w), mem) BY <2>4, <1>0 DEF Arms
    <3> HIDE DEF w, mem
    <3>2. QED BY <2>4, <3>1
  <2>5. CASE i.op = "load"
    <3> DEFINE w == m.mem[Target(m, i, 1)]
    <3>1. Becomes(m, n, Put(a, i.r, w), m.mem) BY <2>5, <1>0 DEF Arms
    <3> HIDE DEF w
    <3>2. QED BY <2>5, <3>1
  <2>6. CASE i.op = "store"
    <3> DEFINE mem == [m.mem EXCEPT ![Target(m, i, 2)] = Operand(m, i, 1)]
    <3>1. Becomes(m, n, Put(a, 0, Uncertain), mem) BY <2>6, <1>0 DEF Arms
    <3> HIDE DEF mem
    <3>2. QED BY <2>6, <3>1
  <2>7. CASE i.op = "call" /\ Callee(i) \in Library BY <2>7, <1>0 DEF Arms
  <2>8. QED BY <2>1, <2>2, <2>3, <2>4, <2>5, <2>6, <2>7
<1>4. i.op = "ret" => \E w : Popped(m, n, Returned(a, Last(Front(m.calls)), w)) BY <1>2
<1> HIDE DEF e1, e3, e8, e9, e11
<1>5. /\ i.op \in Arithmetic => TopBecomes(m, n, e1)
      /\ i.op = "zext" => TopBecomes(m, n, e3)
      /\ i.op = "br" => TopBecomes(m, n, e8)
      /\ i.op = "call" /\ Callee(i) \notin Library => Called(m, n, e11)
  BY <1>1, <1>2
<1>6. /\ i.op \in {"gep", "mov", "mla", "alloca", "load"} => \E w : TopBecomes(m, n, Put(a, i.r, w))
      /\ i.op = "store" => \E w : TopBecomes(m, n, Put(a, 0, w))
      /\ i.op = "call" /\ Callee(i) \in Library => \E w : TopBecomes(m, n, Put(a, i.r, w))
  BY <1>1, <1>3
<1>7. QED BY <1>4, <1>5, <1>6 DEF e1, e3, e8, e11

----------------------------------------------------------------------------
(* One step of the machine.                                                *)

LEMMA CurrentListed ==
  ASSUME Solves(Body, Table), NEW m, NEW a, a = Now(m), Stands(Body, Table, a), a.fun = Name,
         NEW i, i = Current(Program, m), i.op \in Understood
  PROVE  i \in ToSet(Body.code[a.block]) /\ i \in InstrsOf(Body) /\ i \in AllInstrs(Body)
<1> DEFINE c == Body.code[a.block]
<1>1. SccpExpects(Body) /\ a.block \in ToSet(Body.list) /\ a.at \in Nat \ {0}
  BY DEF Solves, Solution, Stands, TableRight
<1>2. a.block \in DOMAIN Body.code BY <1>1 DEF SccpExpects
<1>3. c \in Seq(AllInstrs(Body)) BY <1>1, <1>2 DEF SccpExpects
<1>4. i = IF a.at > Len(c) THEN NoInstr ELSE c[a.at] BY DEF Current, CodeAt, Body
<1>5. NoInstr.op \notin Understood
  BY DEF NoInstr, Instr, Understood, Arithmetic, Shifts, Comparisons
<1>6. a.at <= Len(c) /\ i = c[a.at] BY <1>1, <1>3, <1>4, <1>5
<1> HIDE DEF c
<1>7. a.at \in DOMAIN c BY <1>1, <1>3, <1>6
<1>8. i \in ToSet(c) BY <1>6, <1>7 DEF ToSet
<1>9. QED BY <1>1, <1>8, ListedInstr DEF c

LEMMA GoesOn ==
  ASSUME NEW m, Goes(m), NEW i, i = Current(Program, m)
  PROVE  /\ i.op = "ret" => Len(m.calls) # 1
         /\ i.op = "br" /\ Len(i.ops) = 3 => IsInt(Operand(m, i, 1))
<1> DEFINE reads == Callee(i) = "getint"
           writes == Callee(i) = "putint"
           nothing == Apply(i.op, Operand(m, i, 1), Operand(m, i, 2)) = Uncertain
           nowhere == Target(m, i, 1) \notin DOMAIN m.mem
           nowhere2 == Target(m, i, 2) \notin DOMAIN m.mem
           last == Len(m.calls) = 1
           unknown == Len(i.ops) = 3 /\ ~IsInt(Operand(m, i, 1))
           none == i = NoInstr
<1>1. Visible(Program, m) \notin {"stuck", "ret"} BY DEF Goes
<1>2. i.op \in {"ret", "br"} => i.op \notin Arithmetic BY DEF Arithmetic, Shifts, Comparisons
<1>3. Visible(Program, m) = CASE i.op = "call" /\ reads -> "in"
                              [] i.op = "call" /\ writes -> "out"
                              [] i.op = "ret" /\ last -> "ret"
                              [] i.op \in Arithmetic /\ nothing -> "stuck"
                              [] i.op = "load" /\ nowhere -> "stuck"
                              [] i.op = "store" /\ nowhere2 -> "stuck"
                              [] i.op = "br" /\ unknown -> "stuck"
                              [] none -> "stuck"
                              [] OTHER -> "silent"
  BY Zenon DEF Visible
<1>4. none => i.op \notin {"ret", "br"} BY DEF NoInstr, Instr
<1> HIDE DEF reads, writes, nothing, nowhere, nowhere2, last, unknown, none
<1>5. (i.op = "ret" => ~last) /\ (i.op = "br" => ~unknown) BY <1>1, <1>2, <1>3, <1>4
<1>6. QED BY <1>5 DEF last, unknown

LEMMA BranchEnters ==
  ASSUME Solves(Body, Table), NEW m, NEW a, a = Now(m), TableRight(Body, Table, a),
         NEW i \in ToSet(Body.code[a.block]), i.op = "br",
         Len(i.ops) = 3 => IsInt(Operand(m, i, 1))
  PROVE  Destination(m, i) \in Table.exec /\ Destination(m, i) \in Targets(i)
<1> DEFINE d == Destination(m, i)
<1>1. SccpExpects(Body) /\ a.block \in Table.exec \cap ToSet(Body.list)
  BY DEF Solves, Solution, TableRight
<1>2. i \in InstrsOf(Body) /\ i \in AllInstrs(Body) BY <1>1, ListedInstr
<1>3. BranchSolved(Table, i) BY <1>1 DEF Solves, Solution
<1>4. CASE IsBranch(i)
  <2>1. SuccessorsFit(Body, a.block, i) BY <1>1 DEF SccpExpects
  <2>2. Targets(i) = ToSet(Body.succ[a.block]) /\ Len(Body.succ[a.block]) = 1
    BY <1>4, <2>1 DEF SuccessorsFit
  <2>3. a.block \in DOMAIN Body.code BY <1>1 DEF SccpExpects
  <2>4. Body.succ[a.block] \in Seq(DOMAIN Body.code) BY <1>1, <2>3 DEF SccpExpects
  <2>5. Targets(i) # {}
    <3> DEFINE s == Body.succ[a.block]
    <3>1. s \in Seq(DOMAIN Body.code) /\ Len(s) = 1 BY <2>2, <2>4
    <3> HIDE DEF s
    <3>2. s[1] \in ToSet(s) BY <3>1 DEF ToSet
    <3>3. QED BY <2>2, <3>2 DEF s
  <2>6. i.ops \in Seq(ToSet(i.ops)) /\ Len(i.ops) = 1 BY <1>1, <1>2, <1>4, InstrFits DEF IsBranch
  <2>7. ToSet(i.ops) = {i.ops[1]}
    <3>1. DOMAIN i.ops = {1} BY <2>6
    <3>2. QED BY <3>1 DEF ToSet
  <2>8. Targets(i) = {i.ops[1][2]} BY <2>5, <2>7 DEF Targets
  <2>9. d = i.ops[1][2] BY <2>6 DEF Destination
  <2>10. Targets(i) \subseteq Table.exec BY <1>3, <1>4 DEF BranchSolved, IsBranch, IsConBranch
  <2>11. QED BY <2>8, <2>9, <2>10
<1>5. CASE IsConBranch(i)
  <2> DEFINE c == i.ops[1]
             w == Operand(m, i, 1)
  <2>1. ToSet(i.ops) = {i.ops[1], i.ops[2], i.ops[3]} BY <1>1, <1>2, <1>5, InstrFits
  <2>2. OperandsFit(Body, i) BY <1>1, <1>2 DEF SccpExpects
  <2>3. i.ops[1][1] # "block" /\ i.ops[2][1] = "block" /\ i.ops[3][1] = "block" /\ Len(i.ops) = 3
    BY <1>5, <2>2 DEF OperandsFit, IsConBranch
  <2>4. Targets(i) = {i.ops[2][2], i.ops[3][2]} BY <2>1, <2>3 DEF Targets
  <2>5. d = IF w # Const(0) THEN i.ops[2][2] ELSE i.ops[3][2] BY <2>3 DEF Destination
  <2>6. CASE Targets(i) \subseteq Table.exec BY <2>4, <2>5, <2>6
  <2>7. CASE /\ IsDefinite(Value(Table, c))
             /\ i.ops[IF Value(Table, c) = Const(0) THEN 3 ELSE 2][2] \in Table.exec
    <3>1. Word(a, c) = Uncertain \/ Word(a, c) = Value(Table, c)
      BY <1>2, <2>1, <2>7, OperandAgrees
    <3>2. w = Word(a, c) BY DEF Operand
    <3>3. w # Uncertain BY <2>3, UncertainWord
    <3>4. w = Value(Table, c) BY <3>1, <3>2, <3>3
    <3>5. QED BY <2>4, <2>5, <2>7, <3>4
  <2>8. QED BY <1>3, <2>6, <2>7 DEF BranchSolved
<1>6. QED BY <1>1, <1>2, <1>4, <1>5, InstrFits

LEMMA ActivationStands ==
  ASSUME Solves(Body, Table), NEW name, NEW args, NEW to
  PROVE  Stands(Body, Table, Activation(Program, name, args, to))
<1> DEFINE b == Activation(Program, name, args, to)
           g == Program.func[name]
<1>1. /\ DOMAIN b = ActivationFields /\ b.fun = name /\ b.block = Entry(g) /\ b.at = 1
      /\ DOMAIN b.env = 1..g.regs
      /\ \A r \in 1..g.regs : r \notin ToSet(g.args) => b.env[r] = Uncertain
  BY DEF Activation, ActivationFields
<1> HIDE DEF b
<1>2. ASSUME name = Name
      PROVE  TableRight(Body, Table, b) /\ DOMAIN b.env = 1..Body.regs /\ b.at \in Nat \ {0}
  <2>1. g = Body BY <1>2 DEF Body
  <2>2. b.block \in Table.exec \cap ToSet(Body.list) BY <1>1, <2>1 DEF Solves, Solution, SccpExpects
  <2>3. ASSUME NEW r \in 1..Body.regs, Told(Body, r) PROVE Agrees(Table, Reg(r), b.env[r])
    <3>1. r \notin ToSet(Body.args)
      <4>1. PICK i \in AllInstrs(Body) : i.r = r /\ r # 0 BY <2>3 DEF Told
      <4>2. QED BY <4>1 DEF Solves, EdgesExpected
    <3>2. b.env[r] = Uncertain BY <1>1, <2>1, <3>1
    <3>3. QED BY <3>2 DEF Agrees
  <2>4. QED BY <1>1, <2>1, <2>2, <2>3 DEF TableRight
<1>3. QED BY <1>1, <1>2 DEF Stands, b

LEMMA StepStands ==
  ASSUME Solves(Body, Table), MInv, MachineNext
  PROVE  MInv'
<1>1. PICK input \in Int : machine' = MirStep(Program, machine, input) BY DEF MachineNext
<1> DEFINE m == machine
           n == machine'
           i == Current(Program, m)
           a == Now(m)
           calls == m.calls
           below == Last(Front(calls))
<1>2. /\ Goes(m) /\ calls # <<>> /\ DOMAIN m = {"calls", "mem"} /\ CallsStand(Body, Table, calls)
      /\ i.op \in Understood
  BY DEF MachineNext, Goes, MInv
<1>3. calls \in Seq(ToSet(calls)) /\ Len(calls) \in Nat \ {0} /\ a = calls[Len(calls)]
  BY <1>2 DEF CallsStand, Now, Last
<1>4. Stands(Body, Table, a) BY <1>2, <1>3 DEF CallsStand
<1>5. a.fun = Name => /\ i \in ToSet(Body.code[a.block]) /\ i \in InstrsOf(Body) /\ i \in AllInstrs(Body)
                      /\ TableRight(Body, Table, a)
  BY <1>2, <1>4, CurrentListed DEF Stands
<1>6. SccpExpects(Body) BY DEF Solves, Solution
<1>7. /\ i.op = "ret" => Len(calls) # 1
      /\ i.op = "br" /\ Len(i.ops) = 3 => IsInt(Operand(m, i, 1))
  BY <1>2, GoesOn
<1>8. /\ i.op \in Arithmetic =>
           TopBecomes(m, n, Put(a, i.r, Apply(i.op, Operand(m, i, 1), Operand(m, i, 2))))
      /\ i.op = "zext" => TopBecomes(m, n, Put(a, i.r, Operand(m, i, 1)))
      /\ i.op \in {"gep", "mov", "mla", "alloca", "load"} => \E w : TopBecomes(m, n, Put(a, i.r, w))
      /\ i.op = "store" => \E w : TopBecomes(m, n, Put(a, 0, w))
      /\ i.op = "br" => TopBecomes(m, n, EnterBlock(Program, a, Destination(m, i)))
      /\ i.op = "ret" => \E w : Popped(m, n, Returned(a, Last(Front(m.calls)), w))
      /\ i.op = "call" => \/ \E w : TopBecomes(m, n, Put(a, i.r, w))
                          \/ Called(m, n, Activation(Program, Callee(i), Arguments(m, i), i.r))
  BY <1>1, <1>2, MirTops
<1>9. \A k : Operand(m, i, k) = Word(a, i.ops[k]) BY DEF Operand
<1> HIDE DEF m, n, i, a, calls
<1>10. ASSUME NEW b, Replaces(Body, Table, a, b), TopBecomes(m, n, b) PROVE MInv'
  <2>1. b.fun = Last(calls).fun /\ b.to = Last(calls).to /\ Stands(Body, Table, b)
    BY <1>3, <1>10 DEF Replaces, Last
  <2>2. CallsStand(Body, Table, Append(Front(calls), b)) BY <1>2, <2>1, TopReplaced
  <2>3. QED BY <1>10, <2>2 DEF MInv, TopBecomes, n, calls
<1>11. ASSUME NEW r, NEW w, a.fun = Name /\ Told(Body, r) => Agrees(Table, Reg(r), w),
              TopBecomes(m, n, Put(a, r, w))
       PROVE  MInv'
  BY <1>4, <1>10, <1>11, PutStands
<1>12. ASSUME a.fun = Name, i.op \notin Computing \cup {"phi", "load", "call"} PROVE ~Told(Body, i.r)
  BY <1>5, <1>6, <1>12, ToldInstr
<1>13. ASSUME a.fun = Name, i.op \in {"load", "call"}, i.r # 0 PROVE Value(Table, Reg(i.r)) = Uncertain
  BY <1>5, <1>13, LoadWord
<1>14. CASE i.op \in Arithmetic
  <2> DEFINE w == Apply(i.op, Operand(m, i, 1), Operand(m, i, 2))
  <2>1. ASSUME a.fun = Name, Told(Body, i.r) PROVE Agrees(Table, Reg(i.r), w)
    <3>1. i.op \in Computing \cup {"phi", "load", "call"} BY <1>12, <2>1
    <3>2. i.op \in Binary
      BY <1>14, <3>1 DEF Computing, Binary, Arithmetic, Shifts, Comparisons
    <3>3. QED BY <1>5, <1>9, <2>1, <3>2, ComputedWord
  <2>2. QED BY <1>8, <1>11, <1>14, <2>1
<1>15. CASE i.op = "zext"
  <2>1. a.fun = Name => Agrees(Table, Reg(i.r), Operand(m, i, 1)) BY <1>5, <1>9, <1>15, ExtendedWord
  <2>2. QED BY <1>8, <1>11, <1>15, <2>1
<1>16. CASE i.op \in {"gep", "mov", "mla", "alloca"}
  <2>1. PICK w : TopBecomes(m, n, Put(a, i.r, w)) BY <1>8, <1>16
  <2>2. a.fun = Name => ~Told(Body, i.r)
    BY <1>12, <1>16 DEF Computing, Binary, Comparisons
  <2>3. QED BY <1>11, <2>1, <2>2
<1>17. ASSUME i.op \in {"load", "call"}, NEW w, TopBecomes(m, n, Put(a, i.r, w)) PROVE MInv'
  <2>1. a.fun = Name /\ Told(Body, i.r) => Agrees(Table, Reg(i.r), w)
    BY <1>13, <1>17 DEF Agrees, Told
  <2>2. QED BY <1>11, <1>17, <2>1
<1>18. CASE i.op = "load" BY <1>8, <1>17, <1>18
<1>19. CASE i.op = "store"
  <2>1. PICK w : TopBecomes(m, n, Put(a, 0, w)) BY <1>8, <1>19
  <2>2. ~Told(Body, 0) BY DEF Told
  <2>3. QED BY <1>11, <2>1, <2>2
<1>20. CASE i.op = "br"
  <2> DEFINE d == Destination(m, i)
  <2>1. a.fun = Name => d \in Table.exec /\ \E j \in ToSet(Body.code[a.block]) : d \in Targets(j)
    BY <1>5, <1>7, <1>20, BranchEnters DEF a
  <2>2. Replaces(Body, Table, a, EnterBlock(Program, a, d)) BY <1>4, <2>1, EnterStands
  <2>3. QED BY <1>8, <1>10, <1>20, <2>2
<1>21. CASE i.op = "ret"
  <2>1. PICK w : Popped(m, n, Returned(a, below, w)) BY <1>8, <1>21 DEF calls
  <2> DEFINE b == Returned(a, below, w)
  <2>2. Len(calls) > 1
    <3>1. Len(calls) # 1 BY <1>7, <1>21
    <3>2. Len(calls) \in Nat \ {0} BY <1>3
    <3>3. \A k \in Nat \ {0} : k # 1 => k > 1 OBVIOUS
    <3>4. QED BY <3>1, <3>2, <3>3
  <2>3. below = calls[Len(calls) - 1] BY <1>3, <2>2 DEF Last, Front
  <2>4. Stands(Body, Table, below) /\ ToUncertain(Table, below, a)
    <3>1. Len(calls) - 1 \in 1..Len(calls) /\ Len(calls) - 1 \in 1..(Len(calls) - 1) BY <1>3, <2>2
    <3>2. Len(calls) - 1 + 1 = Len(calls) BY <1>3
    <3>3. QED BY <1>2, <1>3, <2>3, <3>1, <3>2 DEF CallsStand
  <2>5. b = Put(below, a.to, w) BY DEF Returned, Put
  <2>6. below.fun = Name /\ Told(Body, a.to) => Agrees(Table, Reg(a.to), w)
    BY <2>4 DEF ToUncertain, Told, Agrees
  <2> HIDE DEF below
  <2>7. Replaces(Body, Table, below, b) BY <2>4, <2>5, <2>6, PutStands
  <2> HIDE DEF b
  <2>8. CallsStand(Body, Table, [Front(calls) EXCEPT ![Len(Front(calls))] = b])
    BY <1>2, <2>2, <2>3, <2>7, CallPopped DEF Replaces
  <2>9. DOMAIN n = {"calls", "mem"} /\ n.calls = [Front(calls) EXCEPT ![Len(Front(calls))] = b]
    BY <2>1 DEF Popped, b, calls
  <2>10. QED BY <2>8, <2>9 DEF MInv, n
<1>22. CASE i.op = "call"
  <2> DEFINE b == Activation(Program, Callee(i), Arguments(m, i), i.r)
  <2>1. CASE \E w : TopBecomes(m, n, Put(a, i.r, w)) BY <1>17, <1>22, <2>1
  <2>2. CASE Called(m, n, b)
    <3>1. Stands(Body, Table, b) BY ActivationStands
    <3>2. b.to = i.r BY DEF Activation
    <3> HIDE DEF b
    <3>3. ToUncertain(Table, Last(calls), b) BY <1>3, <1>13, <1>22, <3>2 DEF ToUncertain, Last
    <3>4. CallsStand(Body, Table, Append(calls, b)) BY <1>2, <3>1, <3>3, CallPushed
    <3>5. QED BY <2>2, <3>4 DEF Called, MInv, n, calls
  <2>3. QED BY <1>8, <1>22, <2>1, <2>2
<1>23. QED BY <1>2, <1>14, <1>15, <1>16, <1>18, <1>19, <1>20, <1>21, <1>22 DEF Understood

LEMMA BootStands ==
  ASSUME Solves(Body, Table), machine = Boot(Program)
  PROVE  MInv
<1> DEFINE b == Activation(Program, "main", <<>>, 0)
<1>1. DOMAIN machine = {"calls", "mem"} /\ machine.calls = <<b>> BY DEF Boot
<1>2. Stands(Body, Table, b) BY ActivationStands
<1> HIDE DEF b
<1>3. <<b>> \in Seq({b}) /\ Len(<<b>>) = 1 /\ <<b>>[1] = b OBVIOUS
<1>4. <<b>> \in Seq(ToSet(<<b>>)) BY <1>3, SeqOfToSet
<1>5. CallsStand(Body, Table, <<b>>) BY <1>2, <1>3, <1>4 DEF CallsStand
<1>6. QED BY <1>1, <1>5 DEF MInv

----------------------------------------------------------------------------
(* The theorems.                                                           *)

\* sccp.cpp, with the mir_simplify_cfg and mem2reg before it: a program that goes
\* through blocks and registers as the functions say never belies a table that
\* solves it, whatever it reads, however deep it recurses.  What replaceConstant
\* then puts for a register is what the register holds; a block it was never told
\* of is never entered.
THEOREM SccpSound == ASSUME Solves(Body, Table) PROVE MachineSpec => []TableRightOfRun
<1>1. machine = Boot(Program) => MInv BY BootStands
<1>2. MInv /\ [MachineNext]_machine => MInv'
  <2>1. CASE MachineNext BY <2>1, StepStands
  <2>2. CASE UNCHANGED machine BY <2>2 DEF MInv
  <2>3. QED BY <2>1, <2>2
<1>3. MInv => TableRightOfRun
  <2> SUFFICES ASSUME MInv, NEW k \in DOMAIN machine.calls, machine.calls[k].fun = Name
               PROVE  TableRight(Body, Table, machine.calls[k])
    BY DEF TableRightOfRun
  <2>1. k \in 1..Len(machine.calls) BY DEF MInv, CallsStand
  <2>2. QED BY <2>1 DEF MInv, CallsStand, Stands
<1>4. QED BY <1>1, <1>2, <1>3, PTL DEF MachineSpec

\* sccp.cpp: what is left when the lists are empty is a solution.
THEOREM SccpEndsInSolution == SccpSpec => [](SccpDone => Solution(fn, lat))
<1>1. IInv => (SccpDone => Solution(fn, lat))
  <2> SUFFICES ASSUME IInv, SccpDone PROVE Solution(fn, lat) OBVIOUS
  <2>1. SccpExpects(fn) /\ LatTyped(fn, lat) BY DEF IInv, SccpDone, LatInv
  <2>2. ConstantsJustified BY InvSolves
  <2>3. QED BY <2>1, <2>2 DEF ConstantsJustified, LatTyped, Solution
<1>2. QED BY <1>1, SccpInvariant, PTL

=============================================================================
