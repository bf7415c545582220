------------------------- MODULE SccpReplaceProofs -------------------------
(***************************************************************************)
(* Proof that a unit runs as it did when the constants of a table that     *)
(* solves a function of it take the place of the registers that have them, *)
(* and the instructions that compute them are deleted.                     *)
(*                                                                         *)
(* The argument: the unit and what is left of it run side by side, the     *)
(* second waiting while the first is at an instruction that was deleted.   *)
(* Every activation of the second is one of the first, at the instruction  *)
(* that stays next, and holds the same in each register that is left; by   *)
(* SccpSound the constants put in are what the other registers hold.       *)
(***************************************************************************)
EXTENDS SccpSoundProofs, WellFoundedInduction

VARIABLE other

----------------------------------------------------------------------------
(* Counting.                                                               *)

\* What Before says of the positions of a sequence of n that stay.
LEMMA BeforeCounts ==
  ASSUME NEW n \in Nat, NEW stay \in SUBSET (1..n)
  PROVE  /\ Cardinality(stay) \in Nat /\ Before(stay, 1) = 0
         /\ \A k \in Nat \ {0} : /\ Before(stay, k) \in Nat /\ Before(stay, k) <= Cardinality(stay)
                                 /\ Before(stay, k + 1) = Before(stay, k) + (IF k \in stay THEN 1 ELSE 0)
                                 /\ k > n => Before(stay, k) = Cardinality(stay)
<1> DEFINE S(k) == {j \in stay : j < k}
<1>0. \A j \in stay : j \in Nat /\ 1 <= j /\ j <= n
  <2>1. \A j \in stay : j \in 1..n OBVIOUS
  <2>2. QED BY <2>1
<1>1. IsFiniteSet(1..n) BY FS_Interval
<1>2. IsFiniteSet(stay) BY <1>1, FS_Subset
<1>3. \A k : IsFiniteSet(S(k)) /\ Cardinality(S(k)) <= Cardinality(stay)
  <2>1. \A k : S(k) \in SUBSET stay OBVIOUS
  <2> HIDE DEF S
  <2>2. QED BY <1>2, <2>1, FS_Subset
<1>4. \A k : Cardinality(S(k)) \in Nat /\ Before(stay, k) = Cardinality(S(k)) /\ Before(stay, k) <= Cardinality(stay)
  BY <1>3, FS_CardinalityType DEF Before
<1>5. Cardinality(stay) \in Nat BY <1>2, FS_CardinalityType
<1>6. Before(stay, 1) = 0
  <2>1. S(1) = {}
    <3>1. \A x \in stay : ~(x < 1) BY <1>0
    <3>2. QED BY <3>1
  <2>2. Cardinality(S(1)) = 0 BY <2>1, FS_EmptySet
  <2> HIDE DEF S
  <2>3. QED BY <1>4, <2>2
<1>7. ASSUME NEW k \in Nat \ {0}
      PROVE  Before(stay, k + 1) = Before(stay, k) + (IF k \in stay THEN 1 ELSE 0)
  <2>1. CASE k \in stay
    <3>0. S(k + 1) = S(k) \cup {k}
      <4>1. \A x \in stay : x < k + 1 <=> x < k \/ x = k BY <1>0
      <4>2. QED BY <2>1, <4>1
    <3>2. k \notin S(k) OBVIOUS
    <3> HIDE DEF S
    <3>3. Cardinality(S(k) \cup {k}) = Cardinality(S(k)) + 1 BY <1>3, <3>2, FS_AddElement
    <3>4. QED BY <1>4, <2>1, <3>0, <3>3
  <2>2. CASE k \notin stay
    <3>1. S(k + 1) = S(k)
      <4>1. \A x \in stay : x < k + 1 <=> x < k BY <1>0, <2>2
      <4>2. QED BY <4>1
    <3> HIDE DEF S
    <3>2. QED BY <1>4, <2>2, <3>1
  <2>3. QED BY <2>1, <2>2
<1>8. ASSUME NEW k \in Nat \ {0}, k > n PROVE Before(stay, k) = Cardinality(stay)
  <2>1. S(k) = stay
    <3>1. \A x \in stay : x < k BY <1>0, <1>8
    <3>2. QED BY <3>1
  <2> HIDE DEF S
  <2>2. QED BY <1>4, <2>1
<1> HIDE DEF S
<1>9. \A k : Before(stay, k) \in Nat /\ Before(stay, k) <= Cardinality(stay) BY <1>4
<1>10. QED BY <1>5, <1>6, <1>7, <1>8, <1>9

\* The places of what stays are 1, 2, ... up to how many they are.
LEMMA BeforeCounted ==
  ASSUME NEW n \in Nat, NEW stay \in SUBSET (1..n)
  PROVE  /\ \A k \in stay : Before(stay, k) + 1 \in 1..Cardinality(stay)
         /\ \A j, k \in stay : Before(stay, j) = Before(stay, k) => j = k
         /\ \A p \in 1..Cardinality(stay) : \E k \in stay : Before(stay, k) + 1 = p
<1> DEFINE c == Cardinality(stay)
           B(k) == Before(stay, k)
           f == [k \in stay |-> B(k) + 1]
<1>1. IsFiniteSet(stay)
  <2>1. IsFiniteSet(1..n) BY FS_Interval
  <2>2. QED BY <2>1, FS_Subset
<1>2. c \in Nat /\ \A k \in Nat \ {0} : /\ B(k) \in Nat /\ B(k) <= c
                                       /\ B(k + 1) = B(k) + (IF k \in stay THEN 1 ELSE 0)
  BY BeforeCounts
<1>3. \A k \in stay : k \in Nat \ {0}
  <2>1. \A k \in stay : k \in 1..n OBVIOUS
  <2>2. QED BY <2>1
<1>4. ASSUME NEW k \in stay PROVE B(k) + 1 \in 1..c
  <2>1. k \in Nat \ {0} /\ k + 1 \in Nat \ {0} BY <1>3
  <2> HIDE DEF B, c
  <2>2. B(k + 1) = B(k) + 1 /\ B(k + 1) <= c /\ B(k) \in Nat BY <1>2, <2>1
  <2>3. QED BY <1>2, <2>2
<1>5. ASSUME NEW j \in stay, NEW k \in stay, j < k PROVE B(j) < B(k)
  <2> DEFINE S == {x \in stay : x < j}
             T == {x \in stay : x < k}
  <2>0. \A x \in stay : x < j => x < k BY <1>3, <1>5
  <2>1. S \cup {j} \in SUBSET T /\ j \notin S
    <3>1. ~(j < j) BY <1>3
    <3>2. QED BY <1>5, <2>0, <3>1
  <2>2. IsFiniteSet(S) /\ IsFiniteSet(T) BY <1>1, FS_Subset
  <2>3. B(j) = Cardinality(S) /\ B(k) = Cardinality(T) BY DEF Before
  <2> HIDE DEF S, T, B
  <2>4. Cardinality(S \cup {j}) = Cardinality(S) + 1 BY <2>1, <2>2, FS_AddElement
  <2>5. Cardinality(S \cup {j}) <= Cardinality(T) BY <2>1, <2>2, FS_Subset
  <2>6. Cardinality(S) \in Nat /\ Cardinality(T) \in Nat BY <2>2, FS_CardinalityType
  <2>7. QED BY <2>3, <2>4, <2>5, <2>6
<1>6. ASSUME NEW j \in stay, NEW k \in stay, B(j) = B(k) PROVE j = k
  <2>1. j \in Nat /\ k \in Nat /\ B(j) \in Nat BY <1>2, <1>3
  <2> HIDE DEF B
  <2>2. ~(j < k) /\ ~(k < j) BY <1>5, <1>6, <2>1
  <2>3. QED BY <2>1, <2>2
<1>7. ASSUME NEW p \in 1..c PROVE \E k \in stay : B(k) + 1 = p
  <2>1. f \in [stay -> 1..c] BY <1>4
  <2>2. \A j, k \in stay : f[j] = f[k] => j = k
    <3>1. SUFFICES ASSUME NEW j \in stay, NEW k \in stay, f[j] = f[k] PROVE j = k OBVIOUS
    <3>2. B(j) + 1 = B(k) + 1 BY <3>1
    <3>3. B(j) \in Nat /\ B(k) \in Nat BY <1>2, <1>3
    <3>4. B(j) = B(k) BY <3>2, <3>3
    <3>5. QED BY <1>6, <3>4
  <2>3. f \in Injection(stay, 1..c) BY <2>1, <2>2 DEF Injection, IsInjective
  <2>4. IsFiniteSet(1..c) /\ Cardinality(1..c) = c
    <3>1. IsFiniteSet(1..c) /\ Cardinality(1..c) = IF 1 > c THEN 0 ELSE c - 1 + 1
      <4>1. 1 \in Int /\ c \in Int BY <1>2
      <4> HIDE DEF c
      <4>2. QED BY <4>1, FS_Interval
    <3> HIDE DEF c
    <3>2. QED BY <1>2, <3>1
  <2> HIDE DEF f
  <2>5. f \in Surjection(stay, 1..c) BY <2>3, <2>4, FS_Injection
  <2>6. \A y \in 1..c : \E x \in stay : f[x] = y BY <2>5 DEF Surjection
  <2>7. QED BY <2>6 DEF f
<1>8. QED BY <1>4, <1>6, <1>7
----------------------------------------------------------------------------
(* What replaceConstant leaves of the unit.                                *)

Replaced == [Program EXCEPT !.func[Name] = ReplaceConstants(@, Table)]

\* The registers the function of that name loses, and what becomes of its operands
\* and instructions.
Gone(name) == IF name = Name THEN Decided(Table) ELSE {}
NewOperand(name, o) == IF name = Name THEN WithValue(Table, o) ELSE o
NewInstr(name, i) == IF name = Name THEN WithValues(Table, i) ELSE i

\* The positions of code s of the function that stay.
StaysOf(name, s) == {k \in DOMAIN s : s[k].r \notin Gone(name)}

\* The unit is as the passes leave it, and the machine can run it.
Expected ==
  /\ Runnable(Program)
  /\ \A n \in DOMAIN Program.func : SccpExpects(Program.func[n]) /\ EdgesExpected(Program.func[n])

\* Code t is code s without what is gone.
Shrinks(name, s, t) ==
  LET stay == StaysOf(name, s)
  IN /\ Len(t) = Cardinality(stay) /\ DOMAIN t = 1..Cardinality(stay)
     /\ \A k \in stay : t[Before(stay, k) + 1] = NewInstr(name, s[k])
     /\ ToSet(t) = {NewInstr(name, s[k]) : k \in stay}

LEMMA UndeletedShrinks ==
  ASSUME NEW S, NEW s \in Seq(S)
  PROVE  Shrinks(Name, s, Undeleted(Table, s))
<1> DEFINE stay == StaysOf(Name, s)
           c == Cardinality(stay)
           at(n) == CHOOSE k \in stay : Before(stay, k) + 1 = n
           t == [n \in 1..c |-> WithValues(Table, s[at(n)])]
<1>1. DOMAIN s = 1..Len(s) /\ Len(s) \in Nat OBVIOUS
<1>2. stay \in SUBSET (1..Len(s)) BY <1>1 DEF StaysOf
<1>3. Undeleted(Table, s) = t
  <2>1. Staying(Table, s) = stay BY DEF Staying, StaysOf, Gone
  <2>2. QED BY <2>1 DEF Undeleted
<1> HIDE DEF stay
<1>4. c \in Nat BY <1>1, <1>2, BeforeCounts
<1>5. /\ \A k \in stay : Before(stay, k) + 1 \in 1..c
      /\ \A j, k \in stay : Before(stay, j) = Before(stay, k) => j = k
      /\ \A p \in 1..c : \E k \in stay : Before(stay, k) + 1 = p
  BY <1>1, <1>2, BeforeCounted
<1>6. \A k \in stay : Before(stay, k) \in Nat
  <2>1. \A k \in stay : k \in Nat \ {0}
    <3>1. \A k \in stay : k \in 1..Len(s) BY <1>2
    <3>2. QED BY <3>1
  <2>2. QED BY <1>1, <1>2, <2>1, BeforeCounts
<1>7. DOMAIN t = 1..c /\ Len(t) = c
  <2> HIDE DEF c, at
  <2>1. QED BY <1>4
<1>8. ASSUME NEW n \in 1..c PROVE at(n) \in stay /\ Before(stay, at(n)) + 1 = n
  <2>1. \E k \in stay : Before(stay, k) + 1 = n BY <1>5
  <2>2. QED BY <2>1
<1>9. ASSUME NEW k \in stay PROVE t[Before(stay, k) + 1] = WithValues(Table, s[k])
  <2> DEFINE n == Before(stay, k) + 1
  <2>1. n \in 1..c BY <1>5
  <2>2. at(n) \in stay /\ Before(stay, at(n)) + 1 = n BY <1>8, <2>1
  <2>3. Before(stay, at(n)) \in Nat /\ Before(stay, k) \in Nat BY <1>6, <2>2
  <2>4. Before(stay, at(n)) = Before(stay, k)
    <3> HIDE DEF at
    <3>1. QED BY <2>2, <2>3
  <2>5. at(n) = k BY <1>5, <2>2, <2>4
  <2>6. t[n] = WithValues(Table, s[at(n)]) BY <2>1
  <2>7. QED BY <2>5, <2>6
<1>10. ToSet(t) = {WithValues(Table, s[k]) : k \in stay}
  <2>1. ASSUME NEW x \in ToSet(t) PROVE x \in {WithValues(Table, s[k]) : k \in stay}
    <3>1. PICK n \in 1..c : x = t[n] BY <1>7 DEF ToSet
    <3>2. at(n) \in stay BY <1>8
    <3>3. x = WithValues(Table, s[at(n)]) BY <3>1
    <3>4. QED BY <3>2, <3>3
  <2>2. ASSUME NEW k \in stay PROVE WithValues(Table, s[k]) \in ToSet(t)
    <3>1. Before(stay, k) + 1 \in DOMAIN t BY <1>5, <1>7
    <3>2. QED BY <1>9, <3>1 DEF ToSet
  <2> HIDE DEF t
  <2>3. QED BY <2>1, <2>2
<1>11. \A i : NewInstr(Name, i) = WithValues(Table, i) BY DEF NewInstr
<1> HIDE DEF t, c
<1>12. QED BY <1>3, <1>7, <1>9, <1>10, <1>11 DEF Shrinks, stay, c

LEMMA UntouchedShrinks ==
  ASSUME NEW name, name # Name, NEW S, NEW s \in Seq(S)
  PROVE  Shrinks(name, s, s)
<1> DEFINE n == Len(s)
<1>1. DOMAIN s = 1..n /\ n \in Nat OBVIOUS
<1>2. StaysOf(name, s) = 1..n BY <1>1 DEF StaysOf, Gone
<1>3. \A i : NewInstr(name, i) = i BY DEF NewInstr
<1>4. Cardinality(1..n) = n
  <2>1. 1 \in Int /\ n \in Int BY <1>1
  <2>2. Cardinality(1..n) = IF 1 > n THEN 0 ELSE n - 1 + 1
    <3> HIDE DEF n
    <3>1. QED BY <2>1, FS_Interval
  <2>3. QED BY <1>1, <2>2
<1>5. ASSUME NEW k \in 1..n PROVE Before(1..n, k) + 1 = k
  <2>1. {j \in 1..n : j < k} = 1..(k - 1)
    <3> HIDE DEF n
    <3>1. \A j : j \in 1..n /\ j < k <=> j \in 1..(k - 1) BY <1>1
    <3>2. QED BY <3>1
  <2>2. 1 \in Int /\ k - 1 \in Int /\ k \in Nat \ {0} BY <1>1
  <2>3. Cardinality(1..(k - 1)) = IF 1 > k - 1 THEN 0 ELSE (k - 1) - 1 + 1 BY <2>2, FS_Interval
  <2>4. Cardinality(1..(k - 1)) = k - 1 BY <2>2, <2>3
  <2>5. Before(1..n, k) = k - 1 BY <2>1, <2>4 DEF Before
  <2>6. QED BY <2>2, <2>5
<1> HIDE DEF n
<1>6. \A k \in 1..n : s[Before(1..n, k) + 1] = s[k] BY <1>5
<1>7. ToSet(s) = {s[k] : k \in 1..n} BY <1>1 DEF ToSet
<1>8. ToSet(s) = {NewInstr(name, s[k]) : k \in 1..n} BY <1>3, <1>7
<1>9. Len(s) = n BY DEF n
<1>10. QED BY <1>1, <1>2, <1>3, <1>4, <1>6, <1>8, <1>9 DEF Shrinks

\* Function g is function f, its code without what is gone.
ShrunkFunction(name, f, g) ==
  /\ g.list = f.list /\ g.regs = f.regs /\ g.args = f.args /\ g.bytes = f.bytes
  /\ \A b \in DOMAIN f.code : Shrinks(name, f.code[b], g.code[b])

LEMMA ReplacedFunctions ==
  ASSUME Expected, Name \in DOMAIN Program.func
  PROVE  /\ DOMAIN Replaced.func = DOMAIN Program.func /\ Replaced.global = Program.global
         /\ \A n \in DOMAIN Program.func : ShrunkFunction(n, Program.func[n], Replaced.func[n])
<1> DEFINE func == Program.func
<1>1. {"func", "global"} \subseteq DOMAIN Program BY DEF Expected, Runnable
<1>2. Replaced.func = [func EXCEPT ![Name] = ReplaceConstants(@, Table)] BY <1>1 DEF Replaced
<1>3. Replaced.global = Program.global BY <1>1 DEF Replaced
<1>4. Replaced.func[Name] = ReplaceConstants(func[Name], Table) BY <1>2
<1>5. \A n \in DOMAIN func : n # Name => Replaced.func[n] = func[n] BY <1>2
<1>6. ASSUME NEW n \in DOMAIN func PROVE ShrunkFunction(n, func[n], Replaced.func[n])
  <2> DEFINE f == func[n]
             g == Replaced.func[n]
  <2>1. /\ {"code", "list", "regs", "args", "bytes"} \subseteq DOMAIN f /\ f.code \in Seq(ToSet(f.code))
        /\ SccpExpects(f)
    BY DEF Expected, Runnable
  <2>2. \A b \in DOMAIN f.code : f.code[b] \in Seq(AllInstrs(f)) BY <2>1 DEF SccpExpects
  <2> HIDE DEF func, f
  <2>3. CASE n # Name
    <3>1. g = f BY <1>5, <2>3 DEF f
    <3>2. \A b \in DOMAIN f.code : Shrinks(n, f.code[b], f.code[b]) BY <2>2, <2>3, UntouchedShrinks
    <3> HIDE DEF g
    <3>3. QED BY <3>1, <3>2 DEF ShrunkFunction, f, g
  <2>4. CASE n = Name
    <3>1. g = ReplaceConstants(f, Table) BY <1>4, <2>4 DEF f
    <3> DEFINE c == f.code
               t == [b \in DOMAIN c |-> Undeleted(Table, c[b])]
    <3>2. DOMAIN c = 1..Len(c) /\ Len(c) \in Nat BY <2>1
    <3>3. g = [f EXCEPT !.code = Whole(t)] BY <3>1 DEF ReplaceConstants
    <3> HIDE DEF c
    <3>4. Len(t) = Len(c) BY <3>2
    <3>5. \A b \in DOMAIN c : Whole(t)[b] = t[b] BY <3>2, <3>4 DEF Whole
    <3>6. \A b \in DOMAIN c : Whole(t)[b] = Undeleted(Table, c[b]) BY <3>5
    <3> HIDE DEF t
    <3>7. /\ g.list = f.list /\ g.regs = f.regs /\ g.args = f.args /\ g.bytes = f.bytes
          /\ g.code = Whole(t)
      BY <2>1, <3>3
    <3>8. \A b \in DOMAIN c : Shrinks(Name, c[b], g.code[b])
      BY <2>2, <3>6, <3>7, UndeletedShrinks DEF c
    <3> HIDE DEF g
    <3>9. QED BY <2>4, <3>7, <3>8 DEF ShrunkFunction, c, f, g
  <2>5. QED BY <2>3, <2>4
<1>7. DOMAIN Replaced.func = DOMAIN func BY <1>2
<1>8. QED BY <1>3, <1>6, <1>7

----------------------------------------------------------------------------
(* How the states of the two units hang together.                          *)

\* Word v may stand where w did.
Below(w, v) == w = Uncertain \/ w = v

CodeOf(a) == Program.func[a.fun].code[a.block]
Stays(a) == StaysOf(a.fun, CodeOf(a))

\* The activation is one of a function of the unit, in a block of its.
Placed(a) ==
  /\ a.fun \in DOMAIN Program.func /\ a.block \in ToSet(Program.func[a.fun].list)
  /\ DOMAIN a = ActivationFields /\ DOMAIN a.env = 1..Program.func[a.fun].regs /\ a.at \in Nat \ {0}
  /\ a.to # 0 => Returns(Program.func[a.fun])

\* c is activation a, of the unit that is left: at the instruction that stays next,
\* with the same in every register it has still.
Matches(a, c) ==
  /\ DOMAIN c = ActivationFields
  /\ c.fun = a.fun /\ c.block = a.block /\ c.pred = a.pred /\ c.to = a.to
  /\ c.at = Before(Stays(a), a.at) + 1
  /\ DOMAIN c.env = DOMAIN a.env
  /\ \A r \in DOMAIN a.env : r \notin Gone(a.fun) => Below(a.env[r], c.env[r])

MemFollows(mem, with) ==
  /\ DOMAIN with = DOMAIN mem /\ Uncertain \notin DOMAIN mem
  /\ \A p \in DOMAIN mem : Below(mem[p], with[p])

\* Every call is matched; those that wait, wait at one that stays.
CallsFollow(calls, with) ==
  /\ calls \in Seq(ToSet(calls)) /\ with \in Seq(ToSet(with))
  /\ Len(with) = Len(calls) /\ Len(calls) # 0
  /\ \A k \in 1..Len(calls) : Placed(calls[k]) /\ Matches(calls[k], with[k])
  /\ \A k \in 1..(Len(calls) - 1) : calls[k].at \in Stays(calls[k])

Follows(m, o) ==
  DOMAIN o = {"calls", "mem"} /\ CallsFollow(m.calls, o.calls) /\ MemFollows(m.mem, o.mem)

Given == Solves(Body, Table) /\ Expected /\ Name \in DOMAIN Program.func

----------------------------------------------------------------------------
(* Operands.                                                               *)

LEMMA NewOperandOf ==
  ASSUME NEW name, NEW o
  PROVE  /\ o[1] \notin {"const", "reg"} => NewOperand(name, o) = o
         /\ \/ NewOperand(name, o) = o
            \/ name = Name /\ IsDefinite(Value(Table, o)) /\ NewOperand(name, o) = Value(Table, o)
         /\ \A b : NewOperand(name, o) = Label(b) <=> o = Label(b)
<1>1. \/ NewOperand(name, o) = o
      \/ name = Name /\ IsDefinite(Value(Table, o)) /\ NewOperand(name, o) = Value(Table, o)
  BY DEF NewOperand, WithValue
<1>2. o[1] \notin {"const", "reg"} => Value(Table, o) = Unassigned BY DEF Value
<1>3. ~IsDefinite(Unassigned) BY Kinds
<1>4. o[1] \notin {"const", "reg"} => NewOperand(name, o) = o BY <1>1, <1>2, <1>3
<1>5. ASSUME NEW b, NewOperand(name, o) = Label(b) PROVE o = Label(b)
  <2>1. ~IsDefinite(Label(b)) BY DEF IsDefinite, Label
  <2>2. QED BY <1>1, <1>5, <2>1
<1>6. ASSUME NEW b, o = Label(b) PROVE NewOperand(name, o) = Label(b)
  <2>1. o[1] \notin {"const", "reg"} BY <1>6 DEF Label
  <2>2. QED BY <1>4, <1>6, <2>1
<1>7. QED BY <1>1, <1>4, <1>5, <1>6

LEMMA NewInstrOf ==
  ASSUME NEW name, NEW i, {"op", "r", "ops"} \subseteq DOMAIN i, i.ops \in Seq(ToSet(i.ops))
  PROVE  LET j == NewInstr(name, i)
         IN /\ j.op = i.op /\ j.r = i.r /\ DOMAIN j.ops = DOMAIN i.ops /\ Len(j.ops) = Len(i.ops)
            /\ \A k \in DOMAIN i.ops : j.ops[k] = NewOperand(name, i.ops[k])
            /\ "strides" \in DOMAIN i => j.strides = i.strides
            /\ DOMAIN i.ops = 1..Len(i.ops) /\ Len(i.ops) \in Nat
            /\ j.ops = <<>> <=> i.ops = <<>>
<1> DEFINE j == NewInstr(name, i)
           s == i.ops
           t == [k \in DOMAIN s |-> WithValue(Table, s[k])]
<1>1. DOMAIN s = 1..Len(s) /\ Len(s) \in Nat OBVIOUS
<1>2. CASE name # Name
  <2>1. j = i /\ \A o : NewOperand(name, o) = o BY <1>2 DEF NewInstr, NewOperand
  <2> HIDE DEF j
  <2>2. QED BY <1>1, <2>1 DEF j
<1>3. CASE name = Name
  <2>1. j = [i EXCEPT !.ops = t] BY <1>3 DEF NewInstr, WithValues
  <2>2. \A o : NewOperand(name, o) = WithValue(Table, o) BY <1>3 DEF NewOperand
  <2> HIDE DEF s
  <2>3. DOMAIN t = DOMAIN s /\ Len(t) = Len(s) /\ \A k \in DOMAIN s : t[k] = NewOperand(name, s[k])
    BY <1>1, <2>2
  <2> HIDE DEF j, t
  <2>4. /\ j.op = i.op /\ j.r = i.r /\ j.ops = t /\ ("strides" \in DOMAIN i => j.strides = i.strides)
    BY <2>1
  <2>5. t = <<>> <=> s = <<>>
    <3>1. s = <<>> => t = <<>> BY DEF t
    <3>2. t = <<>> => s = <<>> BY <1>1, <2>3
    <3>3. QED BY <3>1, <3>2
  <2>6. QED BY <1>1, <2>3, <2>4, <2>5 DEF j, s
<1>4. QED BY <1>2, <1>3

LEMMA ListedFits ==
  ASSUME Given, NEW n \in DOMAIN Program.func, NEW i \in InstrsOf(Program.func[n])
  PROVE  LET f == Program.func[n]
         IN /\ i \in AllInstrs(f) /\ OperandsFound(f, i) /\ OperandsFit(f, i)
            /\ (i.op = "call" => CallFound(Program, i)) /\ i.ops \in Seq(ToSet(i.ops))
            /\ {"op", "r", "ops"} \subseteq DOMAIN i
<1> DEFINE f == Program.func[n]
<1>1. SccpExpects(f) /\ \A j \in AllInstrs(f) : OperandsFound(f, j) /\ (j.op = "call" => CallFound(Program, j))
  BY DEF Given, Expected, Runnable
<1> HIDE DEF f
<1>2. PICK b \in ToSet(f.list) : i \in ToSet(f.code[b]) BY DEF InstrsOf, f
<1>3. i \in AllInstrs(f) BY <1>1, <1>2, ListedInstr
<1>4. OperandsFit(f, i) BY <1>1, <1>3 DEF SccpExpects
<1>5. i.ops \in Seq(ToSet(i.ops)) BY <1>4 DEF OperandsFit
<1>6. OperandsFound(f, i) /\ {"op", "r", "ops"} \subseteq DOMAIN i BY <1>1, <1>3 DEF OperandsFound
<1>7. QED BY <1>1, <1>3, <1>4, <1>5, <1>6 DEF f

\* What an operand says in the one unit, it says in the other.
LEMMA WordFollows ==
  ASSUME Given, NEW a, NEW c, Placed(a), Matches(a, c), Stands(Body, Table, a),
         NEW i \in InstrsOf(Program.func[a.fun]), NEW o \in ToSet(i.ops)
  PROVE  Below(Word(a, o), Word(c, NewOperand(a.fun, o)))
<1> DEFINE f == Program.func[a.fun]
           v == NewOperand(a.fun, o)
<1>1. a.fun \in DOMAIN Program.func /\ DOMAIN a.env = 1..f.regs BY DEF Placed
<1>2. i \in AllInstrs(f) /\ (o[1] = "reg" => o[2] \in 1..f.regs) /\ OperandFits(o)
  BY <1>1, ListedFits DEF OperandsFound, OperandsFit
<1>3. CASE v = o
  <2>1. CASE o[1] = "reg"
    <3> DEFINE r == o[2]
    <3>1. r \in DOMAIN a.env BY <1>1, <1>2, <2>1
    <3>2. r \notin Gone(a.fun)
      <4>1. SUFFICES ASSUME a.fun = Name, r \in Decided(Table) PROVE FALSE BY DEF Gone
      <4>2. o = Reg(r) BY <1>2, <2>1 DEF OperandFits
      <4>3. Value(Table, o) = Table.table[r] /\ IsDefinite(Table.table[r]) BY <2>1, <4>1 DEF Decided, Value
      <4>4. v = Table.table[r] BY <4>1, <4>3 DEF NewOperand, WithValue
      <4>5. QED BY <1>3, <2>1, <4>3, <4>4 DEF IsDefinite
    <3>3. Below(a.env[r], c.env[r]) BY <3>1, <3>2 DEF Matches
    <3>4. QED BY <1>3, <2>1, <3>3 DEF Word
  <2>2. CASE o[1] # "reg"
    <3>1. Word(a, o) = Word(c, o) BY <2>2 DEF Word
    <3>2. QED BY <1>3, <3>1 DEF Below
  <2>3. QED BY <2>1, <2>2
<1>4. CASE v # o
  <2>1. a.fun = Name /\ IsDefinite(Value(Table, o)) /\ v = Value(Table, o) BY <1>4, NewOperandOf
  <2>2. f = Body BY <2>1 DEF Body
  <2>3. TableRight(Body, Table, a) /\ Solves(Body, Table) BY <2>1 DEF Stands, Given
  <2>4. IsWord(v) /\ (Word(a, o) = Uncertain \/ Word(a, o) = v)
    BY <1>2, <2>1, <2>2, <2>3, OperandAgrees
  <2>5. Word(c, v) = v BY <2>1, <2>4 DEF Word, IsWord, IsDefinite
  <2>6. QED BY <2>4, <2>5 DEF Below
<1>5. QED BY <1>3, <1>4

LEMMA ApplyBelow ==
  ASSUME NEW op, NEW x, NEW y, NEW v, NEW w, Below(x, v), Below(y, w)
  PROVE  Below(Apply(op, x, y), Apply(op, v, w))
  BY ApplyUncertain DEF Below

----------------------------------------------------------------------------
(* Addresses, which are made an index at a time.                           *)

\* A set of numbers has a least one.
LEMMA SmallestNumber ==
  ASSUME NEW S, S \subseteq Nat, S # {}
  PROVE  \E n \in S : \A k \in S : n <= k
<1>1. IsWellFoundedOn(OpToRel(<, Nat), Nat) BY NatLessThanWellFounded
<1>2. \E n \in S : \A k \in S : ~(<<k, n>> \in OpToRel(<, Nat)) BY <1>1, WFMin
<1>3. PICK n \in S : \A k \in S : ~(k < n) BY <1>2 DEF OpToRel
<1>4. \A k \in S : n <= k BY <1>3
<1>5. QED BY <1>4

\* A set that has 0, and with each number the next, has them all.
LEMMA EveryNumber ==
  ASSUME NEW S, 0 \in S, \A n \in Nat : n \in S => n + 1 \in S
  PROVE  \A n \in Nat : n \in S
<1> DEFINE T == {n \in Nat : n \notin S}
<1> SUFFICES ASSUME T # {} PROVE FALSE OBVIOUS
<1>1. PICK n \in T : \A k \in T : n <= k BY SmallestNumber
<1>2. n # 0 /\ n - 1 \in Nat /\ ~(n <= n - 1) /\ n - 1 + 1 = n BY <1>1
<1>3. n - 1 \in S BY <1>1, <1>2
<1>4. QED BY <1>1, <1>2, <1>3

\* A gep's pointer p after one more index, the k-th.
Indexed(m, i, p, k) == Apply("add", p, Apply("mul", Operand(m, i, k + 1), Const(i.strides[k])))

\* The pointers after none, one, ... up to n indexes.
Pointers(m, i, n, at) ==
  at = [k \in 0..n |-> IF k = 0 THEN Operand(m, i, 1) ELSE Indexed(m, i, at[k - 1], k)]

LEMMA PointersExist ==
  ASSUME NEW m, NEW i, NEW n \in Nat
  PROVE  \E at : Pointers(m, i, n, at)
<1> DEFINE S == {k \in Nat : \E at : Pointers(m, i, k, at)}
<1>1. 0 \in S
  <2> DEFINE at == [k \in 0..0 |-> Operand(m, i, 1)]
  <2>1. Pointers(m, i, 0, at) BY DEF Pointers
  <2>2. QED BY <2>1
<1>2. ASSUME NEW k \in Nat, k \in S PROVE k + 1 \in S
  <2>1. PICK at : Pointers(m, i, k, at) BY <1>2
  <2> DEFINE x == Operand(m, i, 1)
             y(p, j) == Indexed(m, i, p, j)
             next == [j \in 0..(k + 1) |-> IF j = k + 1 THEN y(at[k], j) ELSE at[j]]
  <2>2. at = [j \in 0..k |-> IF j = 0 THEN x ELSE y(at[j - 1], j)] BY <2>1 DEF Pointers
  <2> HIDE DEF x, y
  <2>3. ASSUME NEW j \in 0..(k + 1) PROVE next[j] = IF j = 0 THEN x ELSE y(next[j - 1], j)
    <3>1. CASE j = k + 1
      <4>1. j # 0 /\ j - 1 = k /\ k \in 0..(k + 1) /\ k # k + 1 BY <1>2, <3>1
      <4>2. next[j] = y(at[k], j) /\ next[k] = at[k] BY <3>1, <4>1
      <4>3. QED BY <4>1, <4>2
    <3>2. CASE j # k + 1
      <4>1. j \in 0..k /\ next[j] = at[j] BY <1>2, <3>2
      <4>2. at[j] = IF j = 0 THEN x ELSE y(at[j - 1], j) BY <2>2, <4>1
      <4>3. j # 0 => j - 1 \in 0..(k + 1) /\ j - 1 # k + 1 BY <1>2, <4>1
      <4>4. j # 0 => next[j - 1] = at[j - 1] BY <4>3
      <4>5. QED BY <4>1, <4>2, <4>4
    <3>3. QED BY <3>1, <3>2
  <2>4. next = [j \in 0..(k + 1) |-> next[j]] OBVIOUS
  <2> HIDE DEF next
  <2>5. next = [j \in 0..(k + 1) |-> IF j = 0 THEN x ELSE y(next[j - 1], j)] BY <2>3, <2>4
  <2>6. Pointers(m, i, k + 1, next) BY <2>5 DEF Pointers, x, y
  <2>7. QED BY <1>2, <2>6
<1> HIDE DEF S
<1>3. n \in S BY <1>1, <1>2, EveryNumber
<1>4. QED BY <1>3 DEF S

LEMMA AddressOf ==
  ASSUME NEW m, NEW i, Len(i.strides) \in Nat
  PROVE  \E at : Pointers(m, i, Len(i.strides), at) /\ Address(m, i) = at[Len(i.strides)]
<1> DEFINE n == Len(i.strides)
           at == CHOOSE at : Pointers(m, i, n, at)
<1>1. \E p : Pointers(m, i, n, p) BY PointersExist
<1>2. Pointers(m, i, n, at) BY <1>1
<1>3. Address(m, i) = at[n] BY DEF Address, Pointers, Indexed
<1>4. QED BY <1>2, <1>3

\* Instruction j of the one machine is i of the other.
Alike(m, o, i, j) ==
  /\ j.op = i.op /\ j.r = i.r /\ Len(j.ops) = Len(i.ops) /\ Len(i.ops) \in Nat
  /\ \A k \in 1..Len(i.ops) : /\ Below(Operand(m, i, k), Operand(o, j, k))
                              /\ i.ops[k][1] \notin {"const", "reg"} => j.ops[k] = i.ops[k]
  /\ "strides" \in DOMAIN i => j.strides = i.strides
  /\ j.ops = <<>> <=> i.ops = <<>>

LEMMA AddressBelow ==
  ASSUME NEW m, NEW o, NEW i, NEW j, Alike(m, o, i, j), "strides" \in DOMAIN i,
         Len(i.strides) \in Nat, Len(i.ops) = 1 + Len(i.strides)
  PROVE  Below(Address(m, i), Address(o, j))
<1> DEFINE n == Len(i.strides)
<1>1. j.strides = i.strides BY DEF Alike
<1>2. PICK at : Pointers(m, i, n, at) /\ Address(m, i) = at[n] BY AddressOf
<1>3. PICK bt : Pointers(o, j, n, bt) /\ Address(o, j) = bt[n] BY <1>1, AddressOf
<1>4. \A k \in 1..(1 + n) : Below(Operand(m, i, k), Operand(o, j, k)) BY DEF Alike
<1> DEFINE S == {k \in Nat : k <= n => Below(at[k], bt[k])}
<1>5. n \in Nat OBVIOUS
<1> HIDE DEF n
<1>6. /\ at = [k \in 0..n |-> IF k = 0 THEN Operand(m, i, 1) ELSE Indexed(m, i, at[k - 1], k)]
      /\ bt = [k \in 0..n |-> IF k = 0 THEN Operand(o, j, 1) ELSE Indexed(o, j, bt[k - 1], k)]
  BY <1>2, <1>3 DEF Pointers
<1>7. 0 \in S
  <2>1. 0 \in 0..n /\ 1 \in 1..(1 + n) BY <1>5
  <2>2. at[0] = Operand(m, i, 1) /\ bt[0] = Operand(o, j, 1) BY <1>6, <2>1
  <2>3. Below(at[0], bt[0]) BY <1>4, <2>1, <2>2
  <2>4. QED BY <2>3
<1>8. ASSUME NEW k \in Nat, k \in S PROVE k + 1 \in S
  <2>1. SUFFICES ASSUME k + 1 <= n PROVE Below(at[k + 1], bt[k + 1]) OBVIOUS
  <2> DEFINE q == k + 1
  <2>2. q \in 0..n /\ q # 0 /\ q - 1 = k /\ q + 1 \in 1..(1 + n) /\ k <= n BY <1>5, <2>1
  <2>3. Below(at[k], bt[k]) BY <1>8, <2>2
  <2> HIDE DEF q, S
  <2>4. at[q] = Indexed(m, i, at[k], q) /\ bt[q] = Indexed(o, j, bt[k], q) BY <1>6, <2>2
  <2>5. Below(Operand(m, i, q + 1), Operand(o, j, q + 1)) BY <1>4, <2>2
  <2> DEFINE x == Apply("mul", Operand(m, i, q + 1), Const(i.strides[q]))
             y == Apply("mul", Operand(o, j, q + 1), Const(j.strides[q]))
  <2>6. Below(x, y) BY <1>1, <2>5, ApplyBelow DEF Below
  <2> HIDE DEF x, y
  <2>7. Below(Apply("add", at[k], x), Apply("add", bt[k], y)) BY <2>3, <2>6, ApplyBelow
  <2>8. Below(at[q], bt[q]) BY <2>4, <2>7 DEF Indexed, x, y
  <2>9. QED BY <2>8 DEF q
<1> HIDE DEF S
<1>9. n \in S BY <1>5, <1>7, <1>8, EveryNumber
<1>10. Below(at[n], bt[n]) BY <1>5, <1>9 DEF S
<1>11. QED BY <1>2, <1>3, <1>10

LEMMA TargetBelow ==
  ASSUME NEW m, NEW o, NEW i, NEW j, Alike(m, o, i, j), NEW k \in 1..Len(i.ops)
  PROVE  Below(Target(m, i, k), Target(o, j, k))
<1> DEFINE n == Len(i.ops)
<1>1. /\ Len(j.ops) = n /\ n \in Nat
      /\ \A q \in 1..n : Below(Operand(m, i, q), Operand(o, j, q))
  BY DEF Alike
<1>2. Below(Operand(m, i, k), Operand(o, j, k)) BY <1>1
<1>3. CASE k < n
  <2>1. k + 1 \in 1..n
    <3> HIDE DEF n
    <3>1. k \in 1..n BY DEF n
    <3>2. QED BY <1>1, <1>3, <3>1
  <2>2. Below(Operand(m, i, k + 1), Operand(o, j, k + 1)) BY <1>1, <2>1
  <2>3. QED BY <1>1, <1>2, <1>3, <2>2, ApplyBelow DEF Target
<1>4. CASE ~(k < n) BY <1>1, <1>2, <1>4 DEF Target
<1>5. QED BY <1>3, <1>4

----------------------------------------------------------------------------
(* The next instruction.                                                   *)

\* What the next instruction of the one machine is in the other.
CurrentMatches(m, o, i) ==
  LET a == Now(m)
      j == Current(Replaced, o)
  IN \/ i = NoInstr
     \/ /\ i \in InstrsOf(Program.func[a.fun]) /\ i \in ToSet(CodeOf(a)) /\ a.at \in DOMAIN CodeOf(a)
        /\ a.at \in Stays(a) <=> i.r \notin Gone(a.fun)
        /\ a.at \in Stays(a) => j = NewInstr(a.fun, i) /\ Alike(m, o, i, j)

LEMMA CurrentFollows ==
  ASSUME Given, NEW m, NEW o, Matches(Now(m), Now(o)), Placed(Now(m)),
         Stands(Body, Table, Now(m))
  PROVE  CurrentMatches(m, o, Current(Program, m))
<1> DEFINE a == Now(m)
           c == Now(o)
           f == Program.func[a.fun]
           s == f.code[a.block]
           t == Replaced.func[c.fun].code[c.block]
           i == Current(Program, m)
           j == Current(Replaced, o)
           stay == StaysOf(a.fun, s)
<1>1. Matches(a, c) OBVIOUS
<1>2. a.fun \in DOMAIN Program.func /\ a.block \in ToSet(f.list) /\ a.at \in Nat \ {0} BY DEF Placed
<1>3. SccpExpects(f) BY <1>2 DEF Given, Expected
<1>4. a.block \in DOMAIN f.code BY <1>2, <1>3 DEF SccpExpects
<1>5. s \in Seq(AllInstrs(f)) BY <1>3, <1>4 DEF SccpExpects
<1>6. c.fun = a.fun /\ c.block = a.block /\ c.at = Before(stay, a.at) + 1 BY <1>1 DEF Matches, Stays, CodeOf
<1>7. ShrunkFunction(a.fun, f, Replaced.func[a.fun]) BY <1>2, ReplacedFunctions DEF Given
<1>8. Shrinks(a.fun, s, t) BY <1>4, <1>6, <1>7 DEF ShrunkFunction
<1>9. i = IF a.at > Len(s) THEN NoInstr ELSE s[a.at] BY DEF Current, CodeAt
<1>10. j = IF c.at > Len(t) THEN NoInstr ELSE t[c.at] BY DEF Current, CodeAt
<1>11. stay = Stays(a) /\ s = CodeOf(a) BY DEF Stays, CodeOf
<1>12. Len(s) \in Nat /\ DOMAIN s = 1..Len(s) BY <1>5
<1>13. stay \in SUBSET (1..Len(s)) BY <1>12 DEF StaysOf
<1>14. \A k \in DOMAIN s : k \in stay <=> s[k].r \notin Gone(a.fun) BY DEF StaysOf
<1> HIDE DEF i, j, s, t, stay
<1>15. CASE a.at > Len(s) BY <1>9, <1>15 DEF CurrentMatches, i
<1>16. CASE ~(a.at > Len(s))
  <2>1. a.at \in DOMAIN s /\ i = s[a.at] BY <1>2, <1>9, <1>12, <1>16
  <2>2. i \in ToSet(s) BY <2>1 DEF ToSet
  <2>3. i \in InstrsOf(f) BY <1>2, <1>3, <2>2, ListedInstr DEF s
  <2>4. ASSUME a.at \in stay PROVE j = NewInstr(a.fun, i) /\ Alike(m, o, i, j)
    <3>1. Before(stay, a.at) + 1 \in 1..Cardinality(stay) BY <1>12, <1>13, <2>4, BeforeCounted
    <3>2. c.at \in 1..Cardinality(stay) /\ Len(t) = Cardinality(stay) /\ t[c.at] = NewInstr(a.fun, s[a.at])
      BY <1>6, <1>8, <2>4, <3>1 DEF Shrinks, stay
    <3>3. Cardinality(stay) \in Nat BY <1>12, <1>13, BeforeCounts
    <3>4. ~(c.at > Len(t)) BY <3>2, <3>3
    <3>5. j = NewInstr(a.fun, i) BY <1>10, <2>1, <3>2, <3>4
    <3>6. {"op", "r", "ops"} \subseteq DOMAIN i /\ i.ops \in Seq(ToSet(i.ops)) BY <1>2, <2>3, ListedFits
    <3>7. /\ j.op = i.op /\ j.r = i.r /\ DOMAIN j.ops = DOMAIN i.ops /\ Len(j.ops) = Len(i.ops)
          /\ \A k \in DOMAIN i.ops : j.ops[k] = NewOperand(a.fun, i.ops[k])
          /\ "strides" \in DOMAIN i => j.strides = i.strides
          /\ DOMAIN i.ops = 1..Len(i.ops) /\ Len(i.ops) \in Nat
          /\ j.ops = <<>> <=> i.ops = <<>>
      BY <3>5, <3>6, NewInstrOf
    <3>8. ASSUME NEW k \in 1..Len(i.ops)
          PROVE  /\ Below(Operand(m, i, k), Operand(o, j, k))
                 /\ i.ops[k][1] \notin {"const", "reg"} => j.ops[k] = i.ops[k]
      <4> DEFINE x == i.ops[k]
      <4>1. x \in ToSet(i.ops) /\ j.ops[k] = NewOperand(a.fun, x) BY <3>7 DEF ToSet
      <4>2. Below(Word(a, x), Word(c, NewOperand(a.fun, x))) BY <1>1, <2>3, <4>1, WordFollows
      <4>3. x[1] \notin {"const", "reg"} => NewOperand(a.fun, x) = x BY NewOperandOf
      <4>4. QED BY <4>1, <4>2, <4>3 DEF Operand
    <3>9. Alike(m, o, i, j) BY <3>7, <3>8 DEF Alike
    <3>10. QED BY <3>5, <3>9
  <2>5. QED BY <1>11, <1>14, <2>1, <2>2, <2>3, <2>4 DEF CurrentMatches, i, j
<1>17. QED BY <1>15, <1>16 DEF i

LEMMA StaysInCode ==
  ASSUME Given, NEW a, Placed(a)
  PROVE  /\ CodeOf(a) \in Seq(AllInstrs(Program.func[a.fun])) /\ Len(CodeOf(a)) \in Nat
         /\ DOMAIN CodeOf(a) = 1..Len(CodeOf(a)) /\ Stays(a) \in SUBSET (1..Len(CodeOf(a)))
<1> DEFINE f == Program.func[a.fun]
<1>1. SccpExpects(f) /\ a.block \in DOMAIN f.code BY DEF Placed, Given, Expected, SccpExpects
<1>2. CodeOf(a) \in Seq(AllInstrs(f)) BY <1>1 DEF SccpExpects, CodeOf
<1>3. Len(CodeOf(a)) \in Nat /\ DOMAIN CodeOf(a) = 1..Len(CodeOf(a)) BY <1>2
<1>4. Stays(a) \in SUBSET (1..Len(CodeOf(a))) BY <1>3 DEF Stays, StaysOf
<1>5. QED BY <1>2, <1>3, <1>4

\* What is deleted computes: a phi does not come to be the next instruction.
LEMMA DeletedComputes ==
  ASSUME Given, NEW a, Stands(Body, Table, a), NEW i \in ToSet(CodeOf(a)),
         i \in InstrsOf(Program.func[a.fun]), i.op \in Understood, i.r \in Gone(a.fun)
  PROVE  i.op \in Computing /\ i.r # 0 /\ a.fun = Name
<1>1. a.fun = Name /\ i.r \in Decided(Table) BY DEF Gone
<1>2. SccpExpects(Body) /\ TableRight(Body, Table, a) /\ Solves(Body, Table)
  BY <1>1 DEF Given, Solves, Solution, Stands
<1>3. i \in ToSet(Body.code[a.block]) BY <1>1 DEF CodeOf, Body
<1>4. i \in AllInstrs(Body) BY <1>2, <1>3, ListedInstr DEF TableRight
<1>5. i.r \in DOMAIN Table.table /\ IsDefinite(Table.table[i.r]) BY <1>1 DEF Decided
<1>6. Told(Body, i.r) /\ i.r # 0 BY <1>2, <1>5 DEF Solves, Solution, Told
<1>7. i.op \in Computing \cup {"phi", "load", "call"} BY <1>2, <1>4, <1>6, ToldInstr
<1>8. i.op \notin {"load", "call"}
  <2>1. SUFFICES ASSUME i.op \in {"load", "call"} PROVE FALSE OBVIOUS
  <2>2. Value(Table, Reg(i.r)) = Uncertain BY <1>2, <1>3, <1>6, <2>1, LoadWord
  <2>3. Value(Table, Reg(i.r)) = Table.table[i.r] BY <1>5 DEF Value, Reg
  <2>4. QED BY <1>5, <2>2, <2>3, Kinds
<1>9. i.op # "phi" BY DEF Understood, Arithmetic, Shifts, Comparisons
<1>10. QED BY <1>1, <1>6, <1>7, <1>8, <1>9

LEMMA NextPlace ==
  ASSUME Given, NEW a, Placed(a)
  PROVE  /\ Before(Stays(a), a.at) \in Nat
         /\ Before(Stays(a), a.at + 1) = Before(Stays(a), a.at) + (IF a.at \in Stays(a) THEN 1 ELSE 0)
<1> DEFINE n == Len(CodeOf(a))
           stay == Stays(a)
<1>1. n \in Nat /\ stay \in SUBSET (1..n) BY StaysInCode
<1>2. a.at \in Nat \ {0} BY DEF Placed
<1> HIDE DEF n, stay
<1>3. \A k \in Nat \ {0} : /\ Before(stay, k) \in Nat
                          /\ Before(stay, k + 1) = Before(stay, k) + (IF k \in stay THEN 1 ELSE 0)
  BY <1>1, BeforeCounts
<1>4. QED BY <1>2, <1>3 DEF stay

\* b is a after one instruction, with w in register r.
IsNext(a, b, r, w) ==
  /\ DOMAIN b = ActivationFields /\ b.fun = a.fun /\ b.block = a.block /\ b.pred = a.pred
  /\ b.to = a.to /\ b.at = a.at + 1 /\ DOMAIN b.env = DOMAIN a.env
  /\ b.env = IF r = 0 THEN a.env ELSE [a.env EXCEPT ![r] = w]

LEMMA PutIsNext ==
  ASSUME NEW a, DOMAIN a = ActivationFields, NEW r, NEW w
  PROVE  IsNext(a, Put(a, r, w), r, w)
  BY DEF Put, ActivationFields, IsNext

\* An instruction that stays is executed in both.
LEMMA PutFollows ==
  ASSUME Given, NEW a, NEW c, Placed(a), Matches(a, c), a.at \in Stays(a),
         NEW r, NEW w, NEW v, Below(w, v)
  PROVE  Placed(Put(a, r, w)) /\ Matches(Put(a, r, w), Put(c, r, v))
<1> DEFINE b == Put(a, r, w)
           d == Put(c, r, v)
<1>1. DOMAIN a = ActivationFields /\ DOMAIN c = ActivationFields /\ a.at \in Nat \ {0} BY DEF Placed, Matches
<1>2a. IsNext(a, b, r, w) /\ IsNext(c, d, r, v) BY <1>1, PutIsNext
<1> HIDE DEF b, d
<1>2. /\ DOMAIN b = ActivationFields /\ b.fun = a.fun /\ b.block = a.block /\ b.pred = a.pred
      /\ b.to = a.to /\ b.at = a.at + 1 /\ DOMAIN b.env = DOMAIN a.env
      /\ b.env = IF r = 0 THEN a.env ELSE [a.env EXCEPT ![r] = w]
  BY <1>2a DEF IsNext
<1>3. /\ DOMAIN d = ActivationFields /\ d.fun = c.fun /\ d.block = c.block /\ d.pred = c.pred
      /\ d.to = c.to /\ d.at = c.at + 1 /\ DOMAIN d.env = DOMAIN c.env
      /\ d.env = IF r = 0 THEN c.env ELSE [c.env EXCEPT ![r] = v]
  BY <1>2a DEF IsNext
<1>4. Stays(b) = Stays(a) BY <1>2 DEF Stays, CodeOf
<1>5. Before(Stays(a), a.at + 1) = Before(Stays(a), a.at) + 1 BY NextPlace
<1>6. d.at = Before(Stays(b), b.at) + 1 BY <1>2, <1>3, <1>4, <1>5 DEF Matches
<1>7. ASSUME NEW q \in DOMAIN b.env, q \notin Gone(b.fun) PROVE Below(b.env[q], d.env[q])
  <2>1. Below(a.env[q], c.env[q]) /\ DOMAIN c.env = DOMAIN a.env BY <1>2, <1>7 DEF Matches
  <2>2. CASE r = 0 \/ q # r
    <3>1. b.env[q] = a.env[q] /\ d.env[q] = c.env[q] BY <1>2, <1>3, <1>7, <2>1, <2>2
    <3>2. QED BY <2>1, <3>1
  <2>3. CASE r # 0 /\ q = r
    <3>1. b.env[q] = w /\ d.env[q] = v BY <1>2, <1>3, <1>7, <2>1, <2>3
    <3>2. QED BY <3>1
  <2>4. QED BY <2>2, <2>3
<1>8. Matches(b, d) BY <1>2, <1>3, <1>6, <1>7 DEF Matches
<1>9. Placed(b) BY <1>1, <1>2 DEF Placed
<1>10. QED BY <1>8, <1>9 DEF b, d

\* One that was deleted, only in the one.
LEMMA PutDeleted ==
  ASSUME Given, NEW a, NEW c, Placed(a), Matches(a, c), a.at \notin Stays(a),
         NEW r \in Gone(a.fun), r # 0, NEW w
  PROVE  Placed(Put(a, r, w)) /\ Matches(Put(a, r, w), c)
<1> DEFINE b == Put(a, r, w)
<1>1. DOMAIN a = ActivationFields /\ a.at \in Nat \ {0} BY DEF Placed
<1>2a. IsNext(a, b, r, w) BY <1>1, PutIsNext
<1> HIDE DEF b
<1>2. /\ DOMAIN b = ActivationFields /\ b.fun = a.fun /\ b.block = a.block /\ b.pred = a.pred
      /\ b.to = a.to /\ b.at = a.at + 1 /\ DOMAIN b.env = DOMAIN a.env
      /\ b.env = IF r = 0 THEN a.env ELSE [a.env EXCEPT ![r] = w]
  BY <1>2a DEF IsNext
<1>3. Stays(b) = Stays(a) BY <1>2 DEF Stays, CodeOf
<1>4. Before(Stays(a), a.at + 1) = Before(Stays(a), a.at) + 0 /\ Before(Stays(a), a.at) \in Nat
  BY NextPlace
<1>5. c.at = Before(Stays(b), b.at) + 1 BY <1>2, <1>3, <1>4 DEF Matches
<1>6. ASSUME NEW q \in DOMAIN b.env, q \notin Gone(b.fun) PROVE Below(b.env[q], c.env[q])
  <2>1. Below(a.env[q], c.env[q]) BY <1>2, <1>6 DEF Matches
  <2>2. q # r BY <1>2, <1>6
  <2>3. b.env[q] = a.env[q] BY <1>2, <1>6, <2>2
  <2>4. QED BY <2>1, <2>3
<1>7. Matches(b, c) BY <1>2, <1>5, <1>6 DEF Matches
<1>8. Placed(b) BY <1>1, <1>2 DEF Placed
<1>9. QED BY <1>7, <1>8 DEF b

----------------------------------------------------------------------------
(* Entering a block.                                                       *)

\* Two sets are of one size if a function g takes the one to the other.
LEMMA SameSize ==
  ASSUME NEW S, NEW T, IsFiniteSet(S), NEW g \in [S -> T],
         \A x, y \in S : g[x] = g[y] => x = y, \A y \in T : \E x \in S : g[x] = y
  PROVE  Cardinality(T) = Cardinality(S) /\ Cardinality(S) \in Nat
<1>1. g \in Injection(S, T) BY DEF Injection, IsInjective
<1>2. g \in Surjection(S, T) BY DEF Surjection
<1>3. QED BY <1>1, <1>2, FS_Surjection, FS_CardinalityType

PhisOf(s) == {i \in ToSet(s) : IsPhi(i)}

\* The phis of code t are those of code s without what is gone, in number and place.
PhisFollow(name, s, t) ==
  LET n == Cardinality(PhisOf(s))
  IN /\ \A i \in PhisOf(s) : i.r \notin Gone(name) => NewInstr(name, i) \in PhisOf(t)
     /\ \A j \in PhisOf(t) : \E i \in PhisOf(s) : i.r \notin Gone(name) /\ j = NewInstr(name, i)
     /\ n \in Nat /\ Cardinality(PhisOf(t)) = Before(StaysOf(name, s), n + 1)

LEMMA ShrunkPhis ==
  ASSUME Given, NEW name \in DOMAIN Program.func, NEW b \in ToSet(Program.func[name].list)
  PROVE  PhisFollow(name, Program.func[name].code[b], Replaced.func[name].code[b])
<1> DEFINE f == Program.func[name]
           s == f.code[b]
           t == Replaced.func[name].code[b]
           stay == StaysOf(name, s)
<1>1. SccpExpects(f) /\ PhisFirst(f, b) BY DEF Given, Expected, Runnable
<1>2. b \in DOMAIN f.code /\ s \in Seq(AllInstrs(f)) BY <1>1 DEF SccpExpects
<1>3. DOMAIN s = 1..Len(s) /\ Len(s) \in Nat BY <1>2
<1>4. Shrinks(name, s, t) BY <1>2, ReplacedFunctions DEF Given, ShrunkFunction
<1>5. /\ \A k \in DOMAIN s : k \in stay <=> s[k].r \notin Gone(name)
      /\ stay \subseteq DOMAIN s
  BY DEF StaysOf
<1>6. ToSet(t) = {NewInstr(name, s[k]) : k \in stay} BY <1>4 DEF Shrinks
<1>7. \A i \in ToSet(s) : /\ i \in AllInstrs(f) /\ i \in InstrsOf(f)
                          /\ {"op", "r", "ops"} \subseteq DOMAIN i /\ i.ops \in Seq(ToSet(i.ops))
                          /\ IsPhi(i) => i.r # 0
  <2> SUFFICES ASSUME NEW i \in ToSet(s)
               PROVE  /\ i \in AllInstrs(f) /\ i \in InstrsOf(f)
                      /\ {"op", "r", "ops"} \subseteq DOMAIN i /\ i.ops \in Seq(ToSet(i.ops))
                      /\ IsPhi(i) => i.r # 0
    OBVIOUS
  <2>1. i \in AllInstrs(f) /\ i \in InstrsOf(f) BY <1>1, ListedInstr
  <2>2. QED BY <2>1, ListedFits DEF OperandsFit
<1>8. PICK n \in 0..Len(s) : \A k \in DOMAIN s : IsPhi(s[k]) <=> k <= n BY <1>1 DEF PhisFirst
<1>9. \A j, k \in DOMAIN s : s[j] = s[k] /\ IsPhi(s[k]) => j = k BY <1>1 DEF PhisFirst
<1>10. \A i \in ToSet(s) : NewInstr(name, i).op = i.op /\ NewInstr(name, i).r = i.r
  BY <1>7, NewInstrOf
<1>11. \A j, k \in DOMAIN s : s[j].r = s[k].r /\ s[j].r # 0 => s[j] = s[k]
  <2>1. \A i, j \in AllInstrs(f) : i.r = j.r /\ i.r # 0 => i = j BY <1>1 DEF SccpExpects
  <2>2. \A k \in DOMAIN s : s[k] \in AllInstrs(f) BY <1>2
  <2>3. QED BY <2>1, <2>2
<1>12. \A k \in DOMAIN s : s[k] \in ToSet(s) BY DEF ToSet
<1>13. \A i \in ToSet(s) : \E k \in DOMAIN s : i = s[k] BY DEF ToSet
<1> HIDE DEF f, s, t, stay
<1>14. PhisOf(s) \subseteq ToSet(s) /\ \A i \in PhisOf(s) : IsPhi(i) BY DEF PhisOf
<1>15. \A k \in DOMAIN s : s[k] \in PhisOf(s) <=> k <= n BY <1>8, <1>12 DEF PhisOf
<1>16. ASSUME NEW i \in PhisOf(s), i.r \notin Gone(name) PROVE NewInstr(name, i) \in PhisOf(t)
  <2>1. PICK k \in DOMAIN s : i = s[k] BY <1>13, <1>14
  <2>2. k \in stay BY <1>5, <1>16, <2>1
  <2>3. NewInstr(name, i) \in ToSet(t) BY <1>6, <2>1, <2>2
  <2>4. NewInstr(name, i).op = i.op /\ IsPhi(i) BY <1>10, <1>14
  <2>5. QED BY <2>3, <2>4 DEF PhisOf, IsPhi
<1>17. ASSUME NEW j \in PhisOf(t)
       PROVE  \E k \in stay : k <= n /\ j = NewInstr(name, s[k])
  <2>1. j \in ToSet(t) /\ IsPhi(j) BY DEF PhisOf
  <2>2. PICK k \in stay : j = NewInstr(name, s[k]) BY <1>6, <2>1
  <2>3. k \in DOMAIN s /\ s[k] \in ToSet(s) BY <1>5, <1>12
  <2>4. IsPhi(s[k]) BY <1>10, <2>1, <2>2, <2>3 DEF IsPhi
  <2>5. k <= n BY <1>8, <2>3, <2>4
  <2>6. QED BY <2>2, <2>5
<1>18. ASSUME NEW j \in PhisOf(t)
       PROVE  \E i \in PhisOf(s) : i.r \notin Gone(name) /\ j = NewInstr(name, i)
  <2>1. PICK k \in stay : k <= n /\ j = NewInstr(name, s[k]) BY <1>17
  <2>2. k \in DOMAIN s BY <1>5
  <2>3. s[k] \in PhisOf(s) /\ s[k].r \notin Gone(name) BY <1>5, <1>15, <2>1, <2>2
  <2>4. QED BY <2>1, <2>3
<1>19. n \in Nat /\ 1..n \subseteq DOMAIN s BY <1>3, <1>8
<1>20. Cardinality(PhisOf(s)) = n
  <2> DEFINE g == [k \in 1..n |-> s[k]]
  <2>1. IsFiniteSet(1..n) /\ Cardinality(1..n) = n
    <3>1. 1 \in Int /\ n \in Int BY <1>19
    <3>2. IsFiniteSet(1..n) /\ Cardinality(1..n) = IF 1 > n THEN 0 ELSE n - 1 + 1 BY <3>1, FS_Interval
    <3>3. QED BY <1>19, <3>2
  <2>2. \A k \in 1..n : k \in DOMAIN s /\ k <= n BY <1>19
  <2>3. g \in [1..n -> PhisOf(s)] BY <1>15, <2>2
  <2>4. \A x, y \in 1..n : g[x] = g[y] => x = y BY <1>8, <1>9, <2>2
  <2>5. \A y \in PhisOf(s) : \E x \in 1..n : g[x] = y
    <3> SUFFICES ASSUME NEW y \in PhisOf(s) PROVE \E x \in 1..n : g[x] = y OBVIOUS
    <3>1. PICK k \in DOMAIN s : y = s[k] BY <1>13, <1>14
    <3>2. k \in 1..n BY <1>3, <1>15, <1>19, <3>1
    <3>3. QED BY <3>1, <3>2
  <2> HIDE DEF g
  <2>6. QED BY <2>1, <2>3, <2>4, <2>5, SameSize
<1>21. Cardinality(PhisOf(t)) = Before(stay, n + 1)
  <2> DEFINE S == {k \in stay : k < n + 1}
             g == [k \in S |-> NewInstr(name, s[k])]
  <2>1. \A k \in S : k \in stay /\ k \in DOMAIN s /\ k \in Nat /\ k <= n BY <1>3, <1>5, <1>19
  <2>2. \A k \in stay : k <= n => k \in S BY <1>3, <1>5, <1>19
  <2>3. IsFiniteSet(S)
    <3>1. S \subseteq 1..n BY <1>3, <1>5, <1>19
    <3>2. IsFiniteSet(1..n) BY <1>19, FS_Interval
    <3> HIDE DEF S
    <3>3. QED BY <3>1, <3>2, FS_Subset
  <2>4. Before(stay, n + 1) = Cardinality(S) BY DEF Before
  <2> HIDE DEF S
  <2>5. ASSUME NEW k \in S PROVE NewInstr(name, s[k]) \in PhisOf(t)
    <3>1. s[k] \in PhisOf(s) /\ s[k].r \notin Gone(name) BY <1>5, <1>15, <2>1
    <3>2. QED BY <1>16, <3>1
  <2>6. g \in [S -> PhisOf(t)] BY <2>5
  <2>7. ASSUME NEW x \in S, NEW y \in S, g[x] = g[y] PROVE x = y
    <3>1. NewInstr(name, s[x]) = NewInstr(name, s[y]) BY <2>7
    <3>2. x \in DOMAIN s /\ y \in DOMAIN s /\ IsPhi(s[x]) /\ IsPhi(s[y]) BY <1>8, <2>1
    <3>3. s[x].r = s[y].r BY <1>10, <1>12, <3>1, <3>2
    <3>4. s[x].r # 0 BY <1>7, <1>12, <3>2
    <3>5. s[x] = s[y] BY <1>11, <3>2, <3>3, <3>4
    <3>6. QED BY <1>9, <3>2, <3>5
  <2>8. ASSUME NEW y \in PhisOf(t) PROVE \E x \in S : g[x] = y
    <3>1. PICK k \in stay : k <= n /\ y = NewInstr(name, s[k]) BY <1>17
    <3>2. k \in S BY <2>2, <3>1
    <3>3. QED BY <3>1, <3>2
  <2> HIDE DEF g
  <2>9. Cardinality(PhisOf(t)) = Cardinality(S) BY <2>3, <2>6, <2>7, <2>8, SameSize
  <2>10. QED BY <2>4, <2>9
<1>22. PhisFollow(name, s, t) BY <1>16, <1>18, <1>19, <1>20, <1>21 DEF PhisFollow, stay
<1>23. QED BY <1>22 DEF s, t, f

\* What phi i has for the block activation a comes from.
Brought(a, i) == Word(a, i.ops[(CHOOSE k \in Incoming(i) : i.ops[k] = Label(a.block)) - 1])

LEMMA BroughtFollows ==
  ASSUME Given, NEW a, NEW c, Placed(a), Matches(a, c), Stands(Body, Table, a),
         NEW i \in InstrsOf(Program.func[a.fun]), \E k \in Incoming(i) : i.ops[k] = Label(a.block)
  PROVE  Below(Brought(a, i), Brought(c, NewInstr(a.fun, i)))
<1> DEFINE j == NewInstr(a.fun, i)
           P == {k \in Incoming(i) : i.ops[k] = Label(a.block)}
           p == CHOOSE k \in Incoming(i) : i.ops[k] = Label(a.block)
           q == CHOOSE k \in Incoming(j) : j.ops[k] = Label(c.block)
<1>1. a.fun \in DOMAIN Program.func /\ c.fun = a.fun /\ c.block = a.block BY DEF Placed, Matches
<1>2. {"op", "r", "ops"} \subseteq DOMAIN i /\ i.ops \in Seq(ToSet(i.ops)) BY <1>1, ListedFits
<1>3. /\ DOMAIN j.ops = DOMAIN i.ops /\ DOMAIN i.ops = 1..Len(i.ops) /\ Len(i.ops) \in Nat
      /\ \A k \in DOMAIN i.ops : j.ops[k] = NewOperand(a.fun, i.ops[k])
  BY <1>2, NewInstrOf
<1> HIDE DEF j
<1>4. Incoming(j) = Incoming(i) BY <1>3 DEF Incoming
<1>5. \A k \in Incoming(i) : k \in DOMAIN i.ops /\ k % 2 = 0 BY DEF Incoming
<1>6. \A k \in Incoming(i) : j.ops[k] = Label(c.block) <=> i.ops[k] = Label(a.block)
  BY <1>1, <1>3, <1>5, NewOperandOf
<1>7. q = p BY <1>4, <1>6
<1>8. p \in Incoming(i) OBVIOUS
<1> HIDE DEF p, q
<1>9. p - 1 \in DOMAIN i.ops
  <2>1. p \in 1..Len(i.ops) /\ p % 2 = 0 BY <1>3, <1>5, <1>8
  <2>2. p # 1 BY <2>1
  <2>3. QED BY <1>3, <2>1, <2>2
<1> DEFINE o == i.ops[p - 1]
<1>10. o \in ToSet(i.ops) /\ j.ops[p - 1] = NewOperand(a.fun, o) BY <1>3, <1>9 DEF ToSet
<1>11. Below(Word(a, o), Word(c, NewOperand(a.fun, o))) BY <1>10, WordFollows
<1>12. Brought(a, i) = Word(a, i.ops[p - 1]) BY DEF Brought, p
<1>13. Brought(c, j) = Word(c, j.ops[q - 1]) BY DEF Brought, q
<1>14. QED BY <1>7, <1>10, <1>11, <1>12, <1>13 DEF j

\* e is activation a, of unit u, in block b now.
Enters(u, a, b, e) ==
  LET phis == PhisOf(u.func[a.fun].code[b])
  IN /\ DOMAIN e = ActivationFields /\ e.fun = a.fun /\ e.to = a.to /\ e.pred = a.block /\ e.block = b
     /\ e.at = Cardinality(phis) + 1 /\ DOMAIN e.env = DOMAIN a.env
     /\ \A r \in DOMAIN a.env :
          e.env[r] = IF \E i \in phis : i.r = r THEN Brought(a, CHOOSE i \in phis : i.r = r) ELSE a.env[r]

LEMMA BlockEntered ==
  ASSUME NEW u, NEW a, DOMAIN a = ActivationFields, NEW b
  PROVE  Enters(u, a, b, EnterBlock(u, a, b))
<1> DEFINE phis == PhisOf(u.func[a.fun].code[b])
           phi(r) == CHOOSE i \in phis : i.r = r
           e == EnterBlock(u, a, b)
<1>1. \A i : Brought(a, i) = LET k == CHOOSE k \in Incoming(i) : i.ops[k] = Label(a.block)
                             IN Word(a, i.ops[k - 1])
  BY DEF Brought
<1>2. /\ DOMAIN e = ActivationFields /\ e.fun = a.fun /\ e.to = a.to /\ e.pred = a.block /\ e.block = b
      /\ e.at = Cardinality(phis) + 1
      /\ e.env = [r \in DOMAIN a.env |-> IF \E i \in phis : i.r = r THEN Brought(a, phi(r)) ELSE a.env[r]]
  BY DEF EnterBlock, ActivationFields, PhisOf, Brought
<1> HIDE DEF e, phis, phi
<1>3. /\ DOMAIN e.env = DOMAIN a.env
      /\ \A r \in DOMAIN a.env : e.env[r] = IF \E i \in phis : i.r = r THEN Brought(a, phi(r)) ELSE a.env[r]
  BY <1>2
<1>4. QED BY <1>2, <1>3 DEF Enters, e, phis, phi

LEMMA EnterFollows ==
  ASSUME Given, NEW a, NEW c, Placed(a), Matches(a, c), Stands(Body, Table, a),
         NEW i \in ToSet(CodeOf(a)), NEW b \in Targets(i)
  PROVE  Placed(EnterBlock(Program, a, b)) /\ Matches(EnterBlock(Program, a, b), EnterBlock(Replaced, c, b))
<1> DEFINE f == Program.func[a.fun]
           s == f.code[b]
           t == Replaced.func[a.fun].code[b]
           d == EnterBlock(Program, a, b)
           e == EnterBlock(Replaced, c, b)
           phi(r) == CHOOSE p \in PhisOf(s) : p.r = r
           psi(r) == CHOOSE p \in PhisOf(t) : p.r = r
           n == Cardinality(PhisOf(s))
<1>1. /\ a.fun \in DOMAIN Program.func /\ a.block \in ToSet(f.list) /\ DOMAIN a = ActivationFields
      /\ DOMAIN c = ActivationFields /\ c.fun = a.fun /\ c.block = a.block /\ c.to = a.to
      /\ DOMAIN c.env = DOMAIN a.env /\ DOMAIN a.env = 1..f.regs
      /\ (a.to # 0 => Returns(f))
  BY DEF Placed, Matches
<1>2. SccpExpects(f) /\ EdgesExpected(f) BY <1>1 DEF Given, Expected
<1>3. b \in ToSet(f.list) BY <1>1, <1>2 DEF EdgesExpected, CodeOf
<1>4. \A p \in ToSet(s) : IsPhi(p) => \E k \in Incoming(p) : p.ops[k] = Label(a.block)
  BY <1>1, <1>2 DEF EdgesExpected, CodeOf
<1>5. PhisFollow(a.fun, s, t) BY <1>1, <1>3, ShrunkPhis
<1>6. Enters(Program, a, b, d) /\ Enters(Replaced, c, b, e) BY <1>1, BlockEntered
<1>7. \A p \in ToSet(s) : p \in InstrsOf(f) /\ p \in AllInstrs(f) BY <1>2, <1>3, ListedInstr
<1>8. \A p, q \in AllInstrs(f) : p.r = q.r /\ p.r # 0 => p = q BY <1>2 DEF SccpExpects
<1>9. \A p \in PhisOf(s) : p \in ToSet(s) /\ IsPhi(p) BY DEF PhisOf
<1>10. \A p \in PhisOf(s) : NewInstr(a.fun, p).r = p.r
  <2> SUFFICES ASSUME NEW p \in PhisOf(s) PROVE NewInstr(a.fun, p).r = p.r OBVIOUS
  <2>1. p \in InstrsOf(f) BY <1>7, <1>9
  <2>2. {"op", "r", "ops"} \subseteq DOMAIN p /\ p.ops \in Seq(ToSet(p.ops)) BY <1>1, <2>1, ListedFits
  <2>3. QED BY <2>2, NewInstrOf
<1>11. n \in Nat BY <1>5 DEF PhisFollow
<1>12. /\ DOMAIN d = ActivationFields /\ d.fun = a.fun /\ d.to = a.to /\ d.pred = a.block /\ d.block = b
       /\ d.at = n + 1 /\ DOMAIN d.env = DOMAIN a.env
       /\ \A r \in DOMAIN a.env :
            d.env[r] = IF \E p \in PhisOf(s) : p.r = r THEN Brought(a, phi(r)) ELSE a.env[r]
  BY <1>6 DEF Enters
<1>13. /\ DOMAIN e = ActivationFields /\ e.fun = a.fun /\ e.to = a.to /\ e.pred = a.block /\ e.block = b
       /\ e.at = Cardinality(PhisOf(t)) + 1 /\ DOMAIN e.env = DOMAIN a.env
       /\ \A r \in DOMAIN a.env :
            e.env[r] = IF \E p \in PhisOf(t) : p.r = r THEN Brought(c, psi(r)) ELSE c.env[r]
  BY <1>1, <1>6 DEF Enters
<1> HIDE DEF d, e
<1>14. Stays(d) = StaysOf(a.fun, s) BY <1>12 DEF Stays, CodeOf
<1>15. e.at = Before(Stays(d), d.at) + 1 BY <1>5, <1>12, <1>13, <1>14 DEF PhisFollow
<1>16. /\ \A p \in PhisOf(s) : p.r \notin Gone(a.fun) => NewInstr(a.fun, p) \in PhisOf(t)
       /\ \A q \in PhisOf(t) : \E p \in PhisOf(s) : p.r \notin Gone(a.fun) /\ q = NewInstr(a.fun, p)
  BY <1>5 DEF PhisFollow
<1> HIDE DEF n, s, t
<1>17. ASSUME NEW r \in DOMAIN a.env, r \notin Gone(a.fun) PROVE Below(d.env[r], e.env[r])
  <2>1. r # 0 BY <1>1
  <2>2. CASE \E p \in PhisOf(s) : p.r = r
    <3>1. phi(r) \in PhisOf(s) /\ phi(r).r = r BY <2>2
    <3> DEFINE p == phi(r)
    <3> HIDE DEF phi
    <3>2. NewInstr(a.fun, p) \in PhisOf(t) /\ NewInstr(a.fun, p).r = r BY <1>10, <1>16, <1>17, <3>1
    <3>3. \E q \in PhisOf(t) : q.r = r BY <3>2
    <3>4. psi(r) \in PhisOf(t) /\ psi(r).r = r BY <3>3
    <3> HIDE DEF psi
    <3>5. PICK x \in PhisOf(s) : psi(r) = NewInstr(a.fun, x) BY <1>16, <3>4
    <3>6. x.r = r BY <1>10, <3>4, <3>5
    <3>7. x = p BY <1>7, <1>8, <1>9, <2>1, <3>1, <3>6
    <3>8. d.env[r] = Brought(a, p) /\ e.env[r] = Brought(c, NewInstr(a.fun, p))
      BY <1>12, <1>13, <2>2, <3>3, <3>5, <3>7
    <3>9. p \in InstrsOf(f) /\ \E k \in Incoming(p) : p.ops[k] = Label(a.block) BY <1>4, <1>7, <1>9, <3>1
    <3> HIDE DEF p, f
    <3>10. Below(Brought(a, p), Brought(c, NewInstr(a.fun, p))) BY <3>9, BroughtFollows DEF f
    <3>11. QED BY <3>8, <3>10
  <2>3. CASE ~ \E p \in PhisOf(s) : p.r = r
    <3>1. ~ \E q \in PhisOf(t) : q.r = r BY <1>10, <1>16, <2>3
    <3>2. d.env[r] = a.env[r] /\ e.env[r] = c.env[r] BY <1>12, <1>13, <2>3, <3>1
    <3>3. QED BY <1>17, <3>2 DEF Matches
  <2>4. QED BY <2>2, <2>3
<1>18. Matches(d, e) BY <1>12, <1>13, <1>15, <1>17 DEF Matches
<1>19. Placed(d) BY <1>1, <1>3, <1>11, <1>12 DEF Placed
<1>20. QED BY <1>18, <1>19 DEF d, e

----------------------------------------------------------------------------
(* Calls and returns.                                                      *)

LEMMA ActivationFollows ==
  ASSUME Given, NEW name \in DOMAIN Program.func, NEW args, NEW brgs, NEW to,
         \A k \in DOMAIN Program.func[name].args : Below(args[k], brgs[k]),
         to # 0 => Returns(Program.func[name])
  PROVE  /\ Placed(Activation(Program, name, args, to))
         /\ Matches(Activation(Program, name, args, to), Activation(Replaced, name, brgs, to))
<1> DEFINE f == Program.func[name]
           g == Replaced.func[name]
           b == Activation(Program, name, args, to)
           d == Activation(Replaced, name, brgs, to)
           place(r) == CHOOSE k \in DOMAIN f.args : f.args[k] = r
<1>1. SccpExpects(f) /\ f.regs \in Nat /\ f.args \in Seq(1..f.regs) BY DEF Given, Expected, Runnable
<1>2. g.list = f.list /\ g.regs = f.regs /\ g.args = f.args BY ReplacedFunctions DEF Given, ShrunkFunction
<1>3. Entry(g) = Entry(f) /\ Entry(f) \in ToSet(f.list) BY <1>1, <1>2 DEF Entry, SccpExpects
<1>4. /\ DOMAIN b = ActivationFields /\ b.fun = name /\ b.block = Entry(f) /\ b.at = 1
      /\ b.pred = NoBlock /\ b.to = to
      /\ b.env = [r \in 1..f.regs |-> IF r \in ToSet(f.args) THEN args[place(r)] ELSE Uncertain]
  BY DEF Activation, ActivationFields
<1>5. /\ DOMAIN d = ActivationFields /\ d.fun = name /\ d.block = Entry(g) /\ d.at = 1
      /\ d.pred = NoBlock /\ d.to = to
      /\ d.env = [r \in 1..g.regs |-> IF r \in ToSet(g.args) THEN brgs[CHOOSE k \in DOMAIN g.args : g.args[k] = r]
                                      ELSE Uncertain]
  BY DEF Activation, ActivationFields
<1>6. d.env = [r \in 1..f.regs |-> IF r \in ToSet(f.args) THEN brgs[place(r)] ELSE Uncertain]
  BY <1>2, <1>5
<1> HIDE DEF b, d, g
<1>7. ASSUME NEW r \in 1..f.regs PROVE Below(b.env[r], d.env[r])
  <2>1. CASE r \in ToSet(f.args)
    <3>1. \E k \in DOMAIN f.args : f.args[k] = r BY <2>1 DEF ToSet
    <3>2. place(r) \in DOMAIN f.args BY <3>1
    <3> DEFINE k == place(r)
    <3>3. b.env[r] = args[k] /\ d.env[r] = brgs[k] BY <1>4, <1>6, <2>1
    <3> HIDE DEF place, k
    <3>4. Below(args[k], brgs[k]) BY <3>2 DEF k
    <3>5. QED BY <3>3, <3>4
  <2>2. CASE r \notin ToSet(f.args)
    <3>1. b.env[r] = Uncertain BY <1>4, <2>2
    <3>2. QED BY <3>1 DEF Below
  <2>3. QED BY <2>1, <2>2
<1>8. DOMAIN b.env = 1..f.regs /\ DOMAIN d.env = 1..f.regs BY <1>4, <1>6
<1>9. Placed(b) BY <1>3, <1>4, <1>8 DEF Placed
<1>10. Before(Stays(b), 1) = 0
  <2> DEFINE n == Len(CodeOf(b))
             stay == Stays(b)
  <2>1. n \in Nat /\ stay \in SUBSET (1..n) BY <1>9, StaysInCode
  <2> HIDE DEF n, stay
  <2>2. Before(stay, 1) = 0 BY <2>1, BeforeCounts
  <2>3. QED BY <2>2 DEF stay
<1>11. d.at = Before(Stays(b), b.at) + 1 BY <1>4, <1>5, <1>10
<1>12. Matches(b, d) BY <1>3, <1>4, <1>5, <1>7, <1>8, <1>11 DEF Matches
<1>13. QED BY <1>9, <1>12 DEF b, d

----------------------------------------------------------------------------
(* The two stacks.                                                         *)

\* Stack cs is the first k activations of calls, and b.
IsStack(cs, calls, k, b) ==
  cs \in Seq(ToSet(cs)) /\ Len(cs) = k + 1 /\ cs[k + 1] = b /\ \A j \in 1..k : cs[j] = calls[j]

LEMMA StacksFollow ==
  ASSUME NEW calls, NEW with, CallsFollow(calls, with), NEW k \in Nat, k <= Len(calls),
         NEW b, NEW d, NEW cs, NEW ws, IsStack(cs, calls, k, b), IsStack(ws, with, k, d),
         Placed(b), Matches(b, d), k = Len(calls) => calls[k].at \in Stays(calls[k])
  PROVE  CallsFollow(cs, ws)
<1> DEFINE n == Len(calls)
<1>1. n \in Nat \ {0} /\ Len(with) = n
  <2>1. calls \in Seq(ToSet(calls)) /\ n # 0 /\ Len(with) = n BY DEF CallsFollow
  <2>2. QED BY <2>1
<1>2. /\ \A j \in 1..n : Placed(calls[j]) /\ Matches(calls[j], with[j])
      /\ \A j \in 1..(n - 1) : calls[j].at \in Stays(calls[j])
  BY DEF CallsFollow
<1>3. k <= n /\ (k = n => calls[k].at \in Stays(calls[k])) OBVIOUS
<1> HIDE DEF n
<1>4. /\ cs \in Seq(ToSet(cs)) /\ Len(cs) = k + 1 /\ cs[k + 1] = b /\ \A j \in 1..k : cs[j] = calls[j]
      /\ ws \in Seq(ToSet(ws)) /\ Len(ws) = k + 1 /\ ws[k + 1] = d /\ \A j \in 1..k : ws[j] = with[j]
  BY DEF IsStack
<1>5. ASSUME NEW j \in 1..(k + 1) PROVE Placed(cs[j]) /\ Matches(cs[j], ws[j])
  <2>1. CASE j = k + 1 BY <1>4, <2>1
  <2>2. CASE j # k + 1
    <3>1. j \in 1..k /\ j \in 1..n BY <1>1, <1>3, <2>2
    <3>2. cs[j] = calls[j] /\ ws[j] = with[j] BY <1>4, <3>1
    <3>3. Placed(calls[j]) /\ Matches(calls[j], with[j]) BY <1>2, <3>1
    <3>4. QED BY <3>2, <3>3
  <2>3. QED BY <2>1, <2>2
<1>6. ASSUME NEW j \in 1..k PROVE cs[j].at \in Stays(cs[j])
  <2>1. cs[j] = calls[j] BY <1>4
  <2>2. CASE j = n
    <3>1. k = n /\ j = k BY <1>1, <1>3, <2>2
    <3>2. QED BY <1>3, <2>1, <3>1
  <2>3. CASE j # n
    <3>1. j \in 1..(n - 1) BY <1>1, <1>3, <2>3
    <3>2. QED BY <1>2, <2>1, <3>1
  <2>4. QED BY <2>2, <2>3
<1>7. Len(cs) - 1 = k /\ Len(cs) # 0 BY <1>4
<1>8. QED BY <1>4, <1>5, <1>6, <1>7 DEF CallsFollow

LEMMA StackTop ==
  ASSUME NEW S, NEW s \in Seq(S), Len(s) # 0, NEW b
  PROVE  IsStack(Append(Front(s), b), s, Len(s) - 1, b)
<1> DEFINE T == S \cup {b}
           t == Append(Front(s), b)
           k == Len(s) - 1
<1>1. s \in Seq(T) /\ b \in T /\ s # <<>> /\ Len(s) \in Nat BY SeqOfMore
<1> HIDE DEF T
<1>2. t \in Seq(ToSet(t)) /\ Len(t) = Len(s) /\ t[Len(s)] = b /\ \A j \in 1..(Len(s) - 1) : t[j] = s[j]
  BY <1>1, FrontAppend
<1>3. k + 1 = Len(s) BY <1>1
<1> HIDE DEF t, k
<1>4. IsStack(t, s, k, b) BY <1>2, <1>3 DEF IsStack, k
<1>5. QED BY <1>4 DEF t, k

LEMMA StackSame ==
  ASSUME NEW s, s \in Seq(ToSet(s)), Len(s) # 0
  PROVE  IsStack(s, s, Len(s) - 1, Last(s))
<1>1. Len(s) \in Nat /\ Len(s) - 1 + 1 = Len(s) OBVIOUS
<1>2. QED BY <1>1 DEF IsStack, Last

LEMMA StackPushed ==
  ASSUME NEW S, NEW s \in Seq(S), NEW b
  PROVE  IsStack(Append(s, b), s, Len(s), b)
<1> DEFINE T == S \cup {b}
           t == Append(s, b)
           n == Len(s)
<1>1. s \in Seq(T) /\ b \in T BY SeqOfMore
<1> HIDE DEF T
<1>2. t \in Seq(T) /\ Len(t) = n + 1 /\ t[n + 1] = b /\ \A j \in 1..n : t[j] = s[j] BY <1>1
<1> HIDE DEF t, n
<1>3. t \in Seq(ToSet(t)) BY <1>2, SeqOfToSet
<1>4. IsStack(t, s, n, b) BY <1>2, <1>3 DEF IsStack
<1>5. QED BY <1>4 DEF t, n

LEMMA StackPopped ==
  ASSUME NEW S, NEW s \in Seq(S), Len(s) > 1, NEW b
  PROVE  IsStack([Front(s) EXCEPT ![Len(Front(s))] = b], s, Len(s) - 2, b)
<1> DEFINE T == S \cup {b}
           u == SubSeq(s, 1, Len(s) - 1)
           t == [u EXCEPT ![Len(u)] = b]
           k == Len(s) - 2
<1>1. s \in Seq(T) /\ b \in T /\ Len(s) \in Nat BY SeqOfMore
<1> HIDE DEF T
<1>2. k \in Nat /\ k + 1 = Len(s) - 1 BY <1>1
<1>3. u \in Seq(T) /\ Len(u) = k + 1 /\ \A j \in 1..(k + 1) : u[j] = s[j] BY <1>1, <1>2
<1> HIDE DEF u, k
<1>4. k + 1 \in 1..Len(u) BY <1>2, <1>3
<1>5. t \in Seq(T) /\ Len(t) = k + 1 /\ t[k + 1] = b /\ \A j \in 1..k : t[j] = u[j]
  BY <1>1, <1>2, <1>3, <1>4
<1>6. \A j \in 1..k : u[j] = s[j] BY <1>2, <1>3
<1> HIDE DEF t
<1>7. t \in Seq(ToSet(t)) BY <1>5, SeqOfToSet
<1>8. IsStack(t, s, k, b) BY <1>5, <1>6, <1>7 DEF IsStack
<1>9. QED BY <1>8 DEF t, u, k, Front

----------------------------------------------------------------------------
(* The two machines.                                                       *)

\* Both go on in the activation on top.
LEMMA TopFollows ==
  ASSUME NEW m, NEW o, Follows(m, o), NEW n, NEW q, NEW b, NEW d, NEW mem, NEW with,
         Becomes(m, n, b, mem), Becomes(o, q, d, with), Placed(b), Matches(b, d), MemFollows(mem, with)
  PROVE  Follows(n, q)
<1> DEFINE s == m.calls
           t == o.calls
           k == Len(s) - 1
<1>1. CallsFollow(s, t) BY DEF Follows
<1>2. s \in Seq(ToSet(s)) /\ t \in Seq(ToSet(t)) /\ Len(t) = Len(s) /\ Len(s) # 0 BY <1>1 DEF CallsFollow
<1> DEFINE cs == Append(Front(s), b)
           ws == Append(Front(t), d)
<1>3. n.calls = cs /\ q.calls = ws /\ DOMAIN q = {"calls", "mem"} /\ n.mem = mem /\ q.mem = with
  BY DEF Becomes, TopBecomes
<1> HIDE DEF s, t
<1>4. IsStack(cs, s, k, b) /\ IsStack(ws, t, Len(t) - 1, d) BY <1>2, StackTop
<1>5. k \in Nat /\ k <= Len(s) /\ k # Len(s) BY <1>2
<1> HIDE DEF cs, ws
<1>6. IsStack(ws, t, k, d) BY <1>2, <1>4
<1> HIDE DEF k
<1>7. CallsFollow(cs, ws) BY <1>1, <1>4, <1>5, <1>6, StacksFollow
<1>8. QED BY <1>3, <1>7 DEF Follows

\* Only the one does.
LEMMA AloneFollows ==
  ASSUME NEW m, NEW o, Follows(m, o), NEW n, NEW b,
         Becomes(m, n, b, m.mem), Placed(b), Matches(b, Now(o))
  PROVE  Follows(n, o)
<1> DEFINE s == m.calls
           t == o.calls
           k == Len(s) - 1
<1>1. CallsFollow(s, t) /\ MemFollows(m.mem, o.mem) /\ DOMAIN o = {"calls", "mem"} BY DEF Follows
<1>2. s \in Seq(ToSet(s)) /\ t \in Seq(ToSet(t)) /\ Len(t) = Len(s) /\ Len(s) # 0 BY <1>1 DEF CallsFollow
<1> DEFINE cs == Append(Front(s), b)
           d == Last(t)
<1>3. n.calls = cs /\ n.mem = m.mem /\ Now(o) = d BY DEF Becomes, TopBecomes, Now
<1> HIDE DEF s, t
<1>4. IsStack(cs, s, k, b) BY <1>2, StackTop
<1>5. IsStack(t, t, Len(t) - 1, d) BY <1>2, StackSame
<1>6. k \in Nat /\ k <= Len(s) /\ k # Len(s) BY <1>2
<1> HIDE DEF cs, d
<1>7. IsStack(t, t, k, d) BY <1>2, <1>5
<1> HIDE DEF k
<1>8. Matches(b, d) BY <1>3
<1>9. CallsFollow(cs, t) BY <1>1, <1>4, <1>6, <1>7, <1>8, StacksFollow
<1>10. QED BY <1>1, <1>3, <1>9 DEF Follows, t

LEMMA PushFollows ==
  ASSUME NEW m, NEW o, Follows(m, o), Now(m).at \in Stays(Now(m)), NEW n, NEW q, NEW b, NEW d,
         Called(m, n, b), Called(o, q, d), n.mem = m.mem, q.mem = o.mem, Placed(b), Matches(b, d)
  PROVE  Follows(n, q)
<1> DEFINE s == m.calls
           t == o.calls
           k == Len(s)
<1>1. CallsFollow(s, t) /\ MemFollows(m.mem, o.mem) BY DEF Follows
<1>2. s \in Seq(ToSet(s)) /\ t \in Seq(ToSet(t)) /\ Len(t) = k /\ k # 0 BY <1>1 DEF CallsFollow
<1> DEFINE cs == Append(s, b)
           ws == Append(t, d)
<1>3. n.calls = cs /\ q.calls = ws /\ DOMAIN q = {"calls", "mem"} /\ n.mem = m.mem /\ q.mem = o.mem
  BY DEF Called
<1>4. s[k].at \in Stays(s[k]) BY DEF Now, Last
<1> HIDE DEF s, t
<1>5. IsStack(cs, s, k, b) /\ IsStack(ws, t, Len(t), d) BY <1>2, StackPushed
<1>6. k \in Nat /\ k <= k BY <1>2
<1> HIDE DEF cs, ws
<1>7. IsStack(ws, t, k, d) BY <1>2, <1>5
<1>8. CallsFollow(cs, ws) BY <1>1, <1>4, <1>5, <1>6, <1>7, StacksFollow
<1>9. QED BY <1>1, <1>3, <1>8 DEF Follows

LEMMA PopFollows ==
  ASSUME NEW m, NEW o, Follows(m, o), Len(m.calls) > 1, NEW n, NEW q, NEW b, NEW d,
         Popped(m, n, b), Popped(o, q, d), n.mem = m.mem, q.mem = o.mem, Placed(b), Matches(b, d)
  PROVE  Follows(n, q)
<1> DEFINE s == m.calls
           t == o.calls
           k == Len(s) - 2
<1>1. CallsFollow(s, t) /\ MemFollows(m.mem, o.mem) BY DEF Follows
<1>2. s \in Seq(ToSet(s)) /\ t \in Seq(ToSet(t)) /\ Len(t) = Len(s) /\ Len(s) > 1 BY <1>1 DEF CallsFollow
<1> DEFINE cs == [Front(s) EXCEPT ![Len(Front(s))] = b]
           ws == [Front(t) EXCEPT ![Len(Front(t))] = d]
<1>3. n.calls = cs /\ q.calls = ws /\ DOMAIN q = {"calls", "mem"} /\ n.mem = m.mem /\ q.mem = o.mem
  BY DEF Popped
<1> HIDE DEF s, t
<1>4. IsStack(cs, s, k, b) /\ IsStack(ws, t, Len(t) - 2, d) BY <1>2, StackPopped
<1>5. k \in Nat /\ k <= Len(s) /\ k # Len(s) BY <1>2
<1> HIDE DEF cs, ws
<1>6. IsStack(ws, t, k, d) BY <1>2, <1>4
<1> HIDE DEF k
<1>7. CallsFollow(cs, ws) BY <1>1, <1>4, <1>5, <1>6, StacksFollow
<1>8. QED BY <1>1, <1>3, <1>7 DEF Follows

----------------------------------------------------------------------------
(* Memory.                                                                 *)

LEMMA MadeFollows ==
  ASSUME NEW m, NEW o, MemFollows(m.mem, o.mem), Len(o.calls) = Len(m.calls), NEW a, NEW c, NEW i, NEW j,
         j.r = i.r, Replaced.func[c.fun].bytes = Program.func[a.fun].bytes
  PROVE  MemFollows(Made(Program, m, a, i), Made(Replaced, o, c, j)) /\ Variable(o, j) = Variable(m, i)
<1> DEFINE made == {Ptr(<<"local", Len(m.calls), i.r>>, 4 * k) : k \in 0..(Program.func[a.fun].bytes[i.r] \div 4 - 1)}
<1>1. Made(Program, m, a, i) = [p \in made \cup DOMAIN m.mem |-> IF p \in made THEN Uncertain ELSE m.mem[p]]
  BY DEF Made
<1>2. Made(Replaced, o, c, j) = [p \in made \cup DOMAIN o.mem |-> IF p \in made THEN Uncertain ELSE o.mem[p]]
  BY DEF Made
<1>3. \A x, y : Ptr(x, y) # Uncertain BY DEF Ptr, Uncertain
<1>4. Uncertain \notin made BY <1>3
<1>5. DOMAIN o.mem = DOMAIN m.mem /\ Uncertain \notin DOMAIN m.mem
      /\ \A p \in DOMAIN m.mem : Below(m.mem[p], o.mem[p])
  BY DEF MemFollows
<1> HIDE DEF made
<1> DEFINE x == Made(Program, m, a, i)
           y == Made(Replaced, o, c, j)
<1>6. DOMAIN x = made \cup DOMAIN m.mem /\ DOMAIN y = made \cup DOMAIN m.mem BY <1>1, <1>2, <1>5
<1>7. ASSUME NEW p \in made \cup DOMAIN m.mem PROVE Below(x[p], y[p])
  <2>1. CASE p \in made
    <3>1. x[p] = Uncertain BY <1>1, <2>1
    <3>2. QED BY <3>1 DEF Below
  <2>2. CASE p \notin made
    <3>1. x[p] = m.mem[p] /\ y[p] = o.mem[p] /\ p \in DOMAIN m.mem BY <1>1, <1>2, <1>5, <2>2
    <3>2. QED BY <1>5, <3>1
  <2>3. QED BY <2>1, <2>2
<1> HIDE DEF x, y
<1>8. MemFollows(x, y) BY <1>4, <1>5, <1>6, <1>7 DEF MemFollows
<1>9. Variable(o, j) = Variable(m, i) BY DEF Variable
<1>10. QED BY <1>8, <1>9 DEF x, y

LEMMA WriteFollows ==
  ASSUME NEW mem, NEW with, MemFollows(mem, with), NEW p, NEW w, NEW v, Below(w, v)
  PROVE  MemFollows([mem EXCEPT ![p] = w], [with EXCEPT ![p] = v])
<1> DEFINE x == [mem EXCEPT ![p] = w]
           y == [with EXCEPT ![p] = v]
<1>1. /\ DOMAIN with = DOMAIN mem /\ Uncertain \notin DOMAIN mem
      /\ \A r \in DOMAIN mem : Below(mem[r], with[r])
  BY DEF MemFollows
<1>2. ASSUME NEW r \in DOMAIN mem PROVE Below(x[r], y[r])
  <2>1. CASE r = p
    <3>1. x[r] = w /\ y[r] = v BY <1>1, <2>1
    <3>2. QED BY <3>1
  <2>2. CASE r # p
    <3>1. x[r] = mem[r] /\ y[r] = with[r] BY <1>1, <2>2
    <3>2. QED BY <1>1, <3>1
  <2>3. QED BY <2>1, <2>2
<1>3. DOMAIN x = DOMAIN mem /\ DOMAIN y = DOMAIN mem BY <1>1
<1> HIDE DEF x, y
<1>4. MemFollows(x, y) BY <1>1, <1>2, <1>3 DEF MemFollows
<1>5. QED BY <1>4 DEF x, y

----------------------------------------------------------------------------
(* What is seen of a machine.                                              *)

Reads(i) == i.op = "call" /\ Callee(i) = "getint"
Writes(i) == i.op = "call" /\ Callee(i) = "putint"
Ends(m, i) == i.op = "ret" /\ Len(m.calls) = 1

\* The machine has nowhere to go from instruction i.
Stops(m, i) ==
  \/ i.op \in Arithmetic /\ Apply(i.op, Operand(m, i, 1), Operand(m, i, 2)) = Uncertain
  \/ i.op = "load" /\ Target(m, i, 1) \notin DOMAIN m.mem
  \/ i.op = "store" /\ Target(m, i, 2) \notin DOMAIN m.mem
  \/ i.op = "br" /\ Len(i.ops) = 3 /\ ~IsInt(Operand(m, i, 1))
  \/ i = NoInstr

LEMMA VisibleIs ==
  ASSUME NEW u, NEW m, NEW i, i = Current(u, m)
  PROVE  /\ Reads(i) => Visible(u, m) = "in"
         /\ Writes(i) => Visible(u, m) = "out"
         /\ Ends(m, i) => Visible(u, m) = "ret"
         /\ Stops(m, i) => Visible(u, m) = "stuck"
         /\ ~Reads(i) /\ ~Writes(i) /\ ~Ends(m, i) /\ ~Stops(m, i) => Visible(u, m) = "silent"
<1> DEFINE reads == Callee(i) = "getint"
           writes == Callee(i) = "putint"
           nothing == Apply(i.op, Operand(m, i, 1), Operand(m, i, 2)) = Uncertain
           nowhere == Target(m, i, 1) \notin DOMAIN m.mem
           nowhere2 == Target(m, i, 2) \notin DOMAIN m.mem
           last == Len(m.calls) = 1
           unknown == Len(i.ops) = 3 /\ ~IsInt(Operand(m, i, 1))
           none == i = NoInstr
<1>1. i.op \in {"call", "ret", "load", "store", "br"} => i.op \notin Arithmetic
  BY DEF Arithmetic, Shifts, Comparisons
<1>2. none => i.op \notin {"call", "ret"} BY DEF NoInstr, Instr
<1>3. ~(reads /\ writes) OBVIOUS
<1>4. Visible(u, m) = CASE i.op = "call" /\ reads -> "in"
                        [] i.op = "call" /\ writes -> "out"
                        [] i.op = "ret" /\ last -> "ret"
                        [] i.op \in Arithmetic /\ nothing -> "stuck"
                        [] i.op = "load" /\ nowhere -> "stuck"
                        [] i.op = "store" /\ nowhere2 -> "stuck"
                        [] i.op = "br" /\ unknown -> "stuck"
                        [] none -> "stuck"
                        [] OTHER -> "silent"
  BY Zenon DEF Visible
<1>5. /\ Reads(i) <=> i.op = "call" /\ reads
      /\ Writes(i) <=> i.op = "call" /\ writes
      /\ Ends(m, i) <=> i.op = "ret" /\ last
      /\ Stops(m, i) <=> \/ i.op \in Arithmetic /\ nothing
                         \/ i.op = "load" /\ nowhere
                         \/ i.op = "store" /\ nowhere2
                         \/ i.op = "br" /\ unknown
                         \/ none
  BY DEF Reads, Writes, Ends, Stops
<1> HIDE DEF reads, writes, nothing, nowhere, nowhere2, last, unknown, none
<1>6. QED BY <1>1, <1>2, <1>3, <1>4, <1>5

\* What is written or returned, as far as it is.
LEMMA SeenIs ==
  ASSUME NEW u, NEW m, NEW i, i = Current(u, m)
  PROVE  /\ Visible(u, m) = "out" => Seen(u, m) = Operand(m, i, 2)
         /\ Visible(u, m) = "ret" /\ i.ops # <<>> => Seen(u, m) = Operand(m, i, 1)
         /\ Visible(u, m) # "out" /\ ~(Visible(u, m) = "ret" /\ i.ops # <<>>) => Seen(u, m) = Uncertain
<1> DEFINE v == Visible(u, m)
           x == Operand(m, i, 2)
           y == Operand(m, i, 1)
<1>1. Seen(u, m) = CASE v = "out" -> x [] v = "ret" /\ i.ops # <<>> -> y [] OTHER -> Uncertain
  BY Zenon DEF Seen
<1> HIDE DEF v, x, y
<1>2. v = "out" => v # "ret" OBVIOUS
<1>3. QED BY <1>1, <1>2 DEF v, x, y

LEMMA OperandCounts ==
  ASSUME NEW f, NEW i, OperandsFound(f, i)
  PROVE  /\ i.op \in Arithmetic \cup {"store"} => Len(i.ops) >= 2
         /\ i.op \in {"mov", "zext", "load", "call"} => Len(i.ops) >= 1
         /\ i.op = "mla" => Len(i.ops) >= 3
<1> DEFINE n == Len(i.ops)
<1>1. n >= CASE i.op \in Arithmetic \cup {"store"}       -> 2
             [] i.op \in {"mov", "zext", "load", "call"} -> 1
             [] i.op = "mla"                             -> 3
             [] OTHER                                    -> 0
  BY DEF OperandsFound
<1>2. i.op \in {"mov", "zext", "load", "call", "mla"} => i.op \notin Arithmetic
  BY DEF Arithmetic, Shifts, Comparisons
<1> HIDE DEF n
<1>3. QED BY <1>1, <1>2 DEF n

\* A branch names the blocks it goes to.
LEMMA BranchNames ==
  ASSUME NEW f, SccpExpects(f), NEW b \in ToSet(f.list), NEW i \in ToSet(f.code[b]), i.op = "br"
  PROVE  /\ Len(i.ops) \in {1, 3}
         /\ Len(i.ops) = 1 => i.ops[1][1] = "block" /\ Targets(i) = {i.ops[1][2]}
         /\ Len(i.ops) = 3 => /\ i.ops[2][1] = "block" /\ i.ops[3][1] = "block"
                              /\ Targets(i) = {i.ops[2][2], i.ops[3][2]}
<1>1. i \in InstrsOf(f) /\ i \in AllInstrs(f) BY ListedInstr
<1>2. OperandsFit(f, i) BY <1>1 DEF SccpExpects
<1>3. Len(i.ops) \in {1, 3} BY <1>2 DEF OperandsFit, IsBranch, IsConBranch
<1>4. CASE Len(i.ops) = 1
  <2>1. IsBranch(i) BY <1>4 DEF IsBranch
  <2>2. Targets(i) = ToSet(f.succ[b]) /\ Len(f.succ[b]) = 1 BY <2>1 DEF SccpExpects, SuccessorsFit
  <2>3. f.succ[b] \in Seq(DOMAIN f.code) BY DEF SccpExpects
  <2>4. Targets(i) # {}
    <3> DEFINE s == f.succ[b]
    <3>1. s \in Seq(DOMAIN f.code) /\ Len(s) = 1 BY <2>2, <2>3
    <3> HIDE DEF s
    <3>2. s[1] \in ToSet(s) BY <3>1 DEF ToSet
    <3>3. QED BY <2>2, <3>2 DEF s
  <2>5. i.ops \in Seq(ToSet(i.ops)) BY <1>2 DEF OperandsFit
  <2>6. ToSet(i.ops) = {i.ops[1]}
    <3>1. DOMAIN i.ops = {1} BY <1>4, <2>5
    <3>2. QED BY <3>1 DEF ToSet
  <2>7. i.ops[1][1] = "block" BY <2>4, <2>6 DEF Targets
  <2>8. Targets(i) = {i.ops[1][2]} BY <2>6, <2>7 DEF Targets
  <2>9. QED BY <1>4, <2>7, <2>8
<1>5. CASE Len(i.ops) = 3
  <2>1. IsConBranch(i) BY <1>5 DEF IsConBranch
  <2>2. ToSet(i.ops) = {i.ops[1], i.ops[2], i.ops[3]} BY <1>1, <2>1, InstrFits
  <2>3. i.ops[1][1] # "block" /\ i.ops[2][1] = "block" /\ i.ops[3][1] = "block"
    BY <1>2, <2>1 DEF OperandsFit
  <2>4. Targets(i) = {i.ops[2][2], i.ops[3][2]} BY <2>2, <2>3 DEF Targets
  <2>5. QED BY <1>5, <2>3, <2>4
<1>6. QED BY <1>3, <1>4, <1>5

----------------------------------------------------------------------------
(* A step of both.                                                         *)

\* The machine is at an instruction that was deleted.
Deleted(m) == Current(Program, m).r \in Gone(Now(m).fun)

LEMMA TopsMeet ==
  ASSUME Given, NEW m, NEW o, CallsStand(Body, Table, m.calls), Follows(m, o)
  PROVE  LET a == Now(m)
         IN /\ Placed(a) /\ Matches(a, Now(o)) /\ Stands(Body, Table, a) /\ Len(o.calls) = Len(m.calls)
            /\ CurrentMatches(m, o, Current(Program, m))
            /\ Len(m.calls) \in Nat \ {0} /\ a = m.calls[Len(m.calls)] /\ Now(o) = o.calls[Len(m.calls)]
<1> DEFINE s == m.calls
           t == o.calls
           n == Len(s)
<1>1. CallsFollow(s, t) BY DEF Follows
<1>2. s \in Seq(ToSet(s)) /\ Len(t) = n /\ n # 0 /\ \A k \in 1..n : Placed(s[k]) /\ Matches(s[k], t[k])
  BY <1>1 DEF CallsFollow
<1>3. n \in Nat \ {0} /\ n \in 1..n BY <1>2
<1>4. Now(m) = s[n] /\ Now(o) = t[n] BY <1>2 DEF Now, Last
<1>5. Stands(Body, Table, s[n]) BY <1>3 DEF CallsStand
<1>6. Placed(s[n]) /\ Matches(s[n], t[n]) BY <1>2, <1>3
<1> HIDE DEF s, t, n
<1>7. CurrentMatches(m, o, Current(Program, m)) BY <1>4, <1>5, <1>6, CurrentFollows
<1>8. QED BY <1>2, <1>3, <1>4, <1>5, <1>6, <1>7 DEF s, t, n

\* At an instruction that was not deleted both machines are seen to do the same.
LEMMA SameSeen ==
  ASSUME Given, NEW m, NEW o, CallsStand(Body, Table, m.calls), Follows(m, o), ~Deleted(m),
         Visible(Program, m) # "stuck"
  PROVE  /\ Visible(Replaced, o) = Visible(Program, m)
         /\ Below(Seen(Program, m), Seen(Replaced, o))
<1> DEFINE i == Current(Program, m)
           j == Current(Replaced, o)
           a == Now(m)
           f == Program.func[a.fun]
<1>1. /\ Placed(a) /\ CurrentMatches(m, o, i) /\ Len(o.calls) = Len(m.calls) BY TopsMeet
<1>2. ~Stops(m, i) BY VisibleIs
<1>3. i # NoInstr /\ i.r \notin Gone(a.fun) BY <1>2 DEF Stops, Deleted
<1>4. i \in InstrsOf(f) /\ Alike(m, o, i, j) BY <1>1, <1>3 DEF CurrentMatches
<1>5. /\ a.fun \in DOMAIN Program.func /\ OperandsFound(f, i) /\ (i.op = "call" => CallFound(Program, i))
  BY <1>1, <1>4, ListedFits DEF Placed
<1>6. /\ j.op = i.op /\ Len(j.ops) = Len(i.ops) /\ Len(i.ops) \in Nat
      /\ \A k \in 1..Len(i.ops) : /\ Below(Operand(m, i, k), Operand(o, j, k))
                                  /\ i.ops[k][1] \notin {"const", "reg"} => j.ops[k] = i.ops[k]
      /\ (j.ops = <<>> <=> i.ops = <<>>)
  BY <1>4 DEF Alike
<1>7. /\ i.op \in Arithmetic \cup {"store"} => 1 \in 1..Len(i.ops) /\ 2 \in 1..Len(i.ops)
      /\ i.op \in {"load", "call"} => 1 \in 1..Len(i.ops)
  BY <1>5, <1>6, OperandCounts
<1>8. \A k \in 1..Len(i.ops) : Below(Target(m, i, k), Target(o, j, k)) BY <1>4, TargetBelow
<1>9. DOMAIN o.mem = DOMAIN m.mem /\ Uncertain \notin DOMAIN m.mem BY DEF Follows, MemFollows
<1>10. i.op = "call" => Callee(j) = Callee(i)
  <2>1. SUFFICES ASSUME i.op = "call" PROVE Callee(j) = Callee(i) OBVIOUS
  <2>2. i.ops[1] = Func(Callee(i)) BY <1>5, <2>1 DEF CallFound
  <2>3. i.ops[1][1] = "func" BY <2>2 DEF Func
  <2>4. j.ops[1] = i.ops[1] BY <1>6, <1>7, <2>1, <2>3
  <2>5. QED BY <2>4 DEF Callee
<1>11. /\ Reads(j) <=> Reads(i)
       /\ Writes(j) <=> Writes(i)
       /\ Ends(o, j) <=> Ends(m, i)
  BY <1>1, <1>6, <1>10 DEF Reads, Writes, Ends
<1>12. ~Stops(o, j)
  <2> HIDE DEF i, j
  <2>1. CASE i.op \in Arithmetic
    <3>1. Below(Operand(m, i, 1), Operand(o, j, 1)) /\ Below(Operand(m, i, 2), Operand(o, j, 2))
      BY <1>6, <1>7, <2>1
    <3> DEFINE x == Apply(i.op, Operand(m, i, 1), Operand(m, i, 2))
               y == Apply(i.op, Operand(o, j, 1), Operand(o, j, 2))
    <3>2. Below(x, y) BY <3>1, ApplyBelow
    <3>3. x # Uncertain BY <1>2, <2>1 DEF Stops
    <3>4. y # Uncertain BY <3>2, <3>3 DEF Below
    <3>5. i.op \notin {"load", "store", "br", "none"} BY <2>1 DEF Arithmetic, Shifts, Comparisons
    <3>6. QED BY <1>6, <3>4, <3>5 DEF Stops, NoInstr, Instr
  <2>2. CASE i.op = "load"
    <3>1. Target(m, i, 1) \in DOMAIN m.mem BY <1>2, <2>2 DEF Stops
    <3>2. Target(o, j, 1) = Target(m, i, 1) BY <1>7, <1>8, <1>9, <2>2, <3>1 DEF Below
    <3>3. i.op \notin Arithmetic BY <2>2 DEF Arithmetic, Shifts, Comparisons
    <3>4. QED BY <1>6, <1>9, <2>2, <3>1, <3>2, <3>3 DEF Stops, NoInstr, Instr
  <2>3. CASE i.op = "store"
    <3>1. Target(m, i, 2) \in DOMAIN m.mem BY <1>2, <2>3 DEF Stops
    <3>2. Target(o, j, 2) = Target(m, i, 2) BY <1>7, <1>8, <1>9, <2>3, <3>1 DEF Below
    <3>3. i.op \notin Arithmetic BY <2>3 DEF Arithmetic, Shifts, Comparisons
    <3>4. QED BY <1>6, <1>9, <2>3, <3>1, <3>2, <3>3 DEF Stops, NoInstr, Instr
  <2>4. CASE i.op = "br"
    <3>1. Len(i.ops) = 3 => IsInt(Operand(m, i, 1)) BY <1>2, <2>4 DEF Stops
    <3>2. Len(i.ops) = 3 => IsInt(Operand(o, j, 1))
      <4>1. SUFFICES ASSUME Len(i.ops) = 3 PROVE IsInt(Operand(o, j, 1)) OBVIOUS
      <4>2. Below(Operand(m, i, 1), Operand(o, j, 1)) BY <1>6, <4>1
      <4>3. QED BY <3>1, <4>1, <4>2, UncertainWord DEF Below
    <3>3. i.op \notin Arithmetic BY <2>4 DEF Arithmetic, Shifts, Comparisons
    <3>4. QED BY <1>6, <2>4, <3>2, <3>3 DEF Stops, NoInstr, Instr
  <2>5. CASE i.op \notin Arithmetic \cup {"load", "store", "br"}
    <3>1. i.op # "none" BY <1>5 DEF OperandsFound, Understood, Arithmetic, Shifts, Comparisons
    <3>2. QED BY <1>6, <2>5, <3>1 DEF Stops, NoInstr, Instr
  <2>6. QED BY <2>1, <2>2, <2>3, <2>4, <2>5
<1> HIDE DEF i, j
<1>13. /\ Reads(i) => Visible(Program, m) = "in"
       /\ Writes(i) => Visible(Program, m) = "out"
       /\ Ends(m, i) => Visible(Program, m) = "ret"
       /\ ~Reads(i) /\ ~Writes(i) /\ ~Ends(m, i) => Visible(Program, m) = "silent"
       /\ Reads(j) => Visible(Replaced, o) = "in"
       /\ Writes(j) => Visible(Replaced, o) = "out"
       /\ Ends(o, j) => Visible(Replaced, o) = "ret"
       /\ ~Reads(j) /\ ~Writes(j) /\ ~Ends(o, j) => Visible(Replaced, o) = "silent"
  BY <1>2, <1>12, VisibleIs DEF i, j
<1>14. Visible(Replaced, o) = Visible(Program, m) BY <1>11, <1>13
<1>15. Below(Seen(Program, m), Seen(Replaced, o))
  <2>1. CASE Visible(Program, m) = "out"
    <3>1. Seen(Program, m) = Operand(m, i, 2) /\ Seen(Replaced, o) = Operand(o, j, 2)
      BY <1>14, <2>1, SeenIs DEF i, j
    <3>2. Writes(i) BY <1>13, <2>1
    <3>3. Len(i.ops) = 2
      <4>1. Callee(i) \in Library /\ Callee(i) = "putint" BY <3>2 DEF Writes, Library
      <4>2. QED BY <1>5, <3>2, <4>1 DEF Writes, CallFound
    <3>4. QED BY <1>6, <3>1, <3>3
  <2>2. CASE Visible(Program, m) = "ret" /\ i.ops # <<>>
    <3>1. Seen(Program, m) = Operand(m, i, 1) /\ Seen(Replaced, o) = Operand(o, j, 1)
      BY <1>6, <1>14, <2>2, SeenIs DEF i, j
    <3>2. 1 \in 1..Len(i.ops)
      <4>1. i.ops \in Seq(ToSet(i.ops)) BY <1>1, <1>4, ListedFits DEF Placed
      <4>2. QED BY <2>2, <4>1
    <3>3. QED BY <1>6, <3>1, <3>2
  <2>3. CASE Visible(Program, m) # "out" /\ ~(Visible(Program, m) = "ret" /\ i.ops # <<>>)
    <3>1. Seen(Program, m) = Uncertain BY <2>3, SeenIs DEF i
    <3>2. QED BY <3>1 DEF Below
  <2>4. QED BY <2>1, <2>2, <2>3
<1>16. QED BY <1>14, <1>15

\* A deleted instruction only writes to a register that is gone.
LEMMA DeletedFollows ==
  ASSUME Given, NEW m, NEW o, DOMAIN m = {"calls", "mem"}, CallsStand(Body, Table, m.calls), Follows(m, o),
         Goes(m), Deleted(m), NEW input
  PROVE  Follows(MirStep(Program, m, input), o)
<1> DEFINE i == Current(Program, m)
           a == Now(m)
           n == MirStep(Program, m, input)
<1>1. /\ Placed(a) /\ Matches(a, Now(o)) /\ Stands(Body, Table, a) /\ CurrentMatches(m, o, i) BY TopsMeet
<1>2. i.op \in Understood /\ i.r \in Gone(a.fun) BY DEF Goes, Deleted
<1>3. i # NoInstr
  BY <1>2 DEF NoInstr, Instr, Understood, Arithmetic, Shifts, Comparisons
<1>4. /\ i \in InstrsOf(Program.func[a.fun]) /\ i \in ToSet(CodeOf(a)) /\ a.at \notin Stays(a)
  BY <1>1, <1>2, <1>3 DEF CurrentMatches
<1>5. i.op \in Computing /\ i.r # 0 BY <1>1, <1>2, <1>4, DeletedComputes
<1>6. i.op \in Arithmetic \/ i.op = "zext" BY <1>5 DEF Computing, Binary, Arithmetic
<1>7. \E w : Becomes(m, n, Put(a, i.r, w), m.mem)
  <2> DEFINE w == Apply(i.op, Operand(m, i, 1), Operand(m, i, 2))
             v == Operand(m, i, 1)
  <2>1. /\ i.op \in Arithmetic => Becomes(m, n, Put(a, i.r, w), m.mem)
        /\ i.op = "zext" => Becomes(m, n, Put(a, i.r, v), m.mem)
    <3>1. Arms(Program, m, input, i, a, n) BY MirArms
    <3>2. QED BY <3>1 DEF Arms
  <2> HIDE DEF i, a, n, w, v
  <2>2. QED BY <1>6, <2>1
<1>8. PICK w : Becomes(m, n, Put(a, i.r, w), m.mem) BY <1>7
<1> HIDE DEF i, a, n
<1>9. Placed(Put(a, i.r, w)) /\ Matches(Put(a, i.r, w), Now(o)) BY <1>1, <1>2, <1>4, <1>5, PutDeleted
<1>10. QED BY <1>8, <1>9, AloneFollows DEF n

\* Nor is it seen.
LEMMA DeletedIsSilent ==
  ASSUME Given, NEW m, NEW o, CallsStand(Body, Table, m.calls), Follows(m, o), Deleted(m),
         Visible(Program, m) # "stuck"
  PROVE  Visible(Program, m) = "silent"
<1> DEFINE i == Current(Program, m)
           a == Now(m)
<1>1. /\ Placed(a) /\ Stands(Body, Table, a) /\ CurrentMatches(m, o, i) BY TopsMeet
<1>2. i.r \in Gone(a.fun) BY DEF Deleted
<1>3. ~Stops(m, i) BY VisibleIs
<1>4. i # NoInstr BY <1>3 DEF Stops
<1>5. i \in InstrsOf(Program.func[a.fun]) /\ i \in ToSet(CodeOf(a))
  BY <1>1, <1>4 DEF CurrentMatches
<1>6. i.op \in Understood => i.op \in Computing BY <1>1, <1>2, <1>5, DeletedComputes
<1>7. i.op \notin {"call", "ret"}
  BY <1>6 DEF Understood, Computing, Binary, Comparisons
<1>8. ~Reads(i) /\ ~Writes(i) /\ ~Ends(m, i) BY <1>7 DEF Reads, Writes, Ends
<1>9. QED BY <1>3, <1>8, VisibleIs

\* One that stays does the same to both.
LEMMA StayingFollows ==
  ASSUME Given, NEW m, NEW o, DOMAIN m = {"calls", "mem"}, CallsStand(Body, Table, m.calls), Follows(m, o),
         Goes(m), ~Deleted(m), NEW input
  PROVE  Follows(MirStep(Program, m, input), MirStep(Replaced, o, input))
<1> DEFINE i == Current(Program, m)
           j == Current(Replaced, o)
           a == Now(m)
           c == Now(o)
           f == Program.func[a.fun]
           n == MirStep(Program, m, input)
           q == MirStep(Replaced, o, input)
           x(k) == Operand(m, i, k)
           y(k) == Operand(o, j, k)
<1>1. /\ Placed(a) /\ Matches(a, c) /\ Stands(Body, Table, a) /\ Len(o.calls) = Len(m.calls)
      /\ CurrentMatches(m, o, i) /\ Len(m.calls) \in Nat \ {0}
      /\ a = m.calls[Len(m.calls)] /\ c = o.calls[Len(m.calls)]
  BY TopsMeet
<1>2. i.op \in Understood /\ i.r \notin Gone(a.fun) /\ Visible(Program, m) \notin {"stuck", "ret"}
  BY DEF Goes, Deleted
<1>3. i # NoInstr
  BY <1>2 DEF NoInstr, Instr, Understood, Arithmetic, Shifts, Comparisons
<1>4. /\ i \in InstrsOf(f) /\ i \in ToSet(CodeOf(a)) /\ a.at \in Stays(a) /\ Alike(m, o, i, j)
  BY <1>1, <1>2, <1>3 DEF CurrentMatches
<1>5. /\ a.fun \in DOMAIN Program.func /\ OperandsFound(f, i) /\ (i.op = "call" => CallFound(Program, i))
      /\ a.block \in ToSet(f.list) /\ i.ops \in Seq(ToSet(i.ops))
  BY <1>1, <1>4, ListedFits DEF Placed
<1>6. /\ j.op = i.op /\ j.r = i.r /\ Len(j.ops) = Len(i.ops) /\ Len(i.ops) \in Nat
      /\ \A k \in 1..Len(i.ops) : /\ Below(x(k), y(k))
                                  /\ i.ops[k][1] \notin {"const", "reg"} => j.ops[k] = i.ops[k]
  BY <1>4 DEF Alike
<1>7. /\ i.op \in Arithmetic \cup {"store"} => 1 \in 1..Len(i.ops) /\ 2 \in 1..Len(i.ops)
      /\ i.op \in {"mov", "zext", "load", "call"} => 1 \in 1..Len(i.ops)
      /\ i.op = "mla" => 1 \in 1..Len(i.ops) /\ 2 \in 1..Len(i.ops) /\ 3 \in 1..Len(i.ops)
  BY <1>5, <1>6, OperandCounts
<1>8. \A k \in 1..Len(i.ops) : Below(Target(m, i, k), Target(o, j, k)) BY <1>4, TargetBelow
<1>9. MemFollows(m.mem, o.mem) /\ DOMAIN o = {"calls", "mem"} BY DEF Follows
<1>10. DOMAIN o.mem = DOMAIN m.mem /\ Uncertain \notin DOMAIN m.mem /\ \A p \in DOMAIN m.mem : Below(m.mem[p], o.mem[p])
  BY <1>9 DEF MemFollows
<1>11. ~Stops(m, i) /\ ~Ends(m, i) BY <1>2, VisibleIs
<1>12. SccpExpects(f) BY <1>5 DEF Given, Expected
<1>13. c.fun = a.fun /\ c.to = a.to BY <1>1 DEF Matches
<1>14. ShrunkFunction(a.fun, f, Replaced.func[a.fun]) BY <1>5, ReplacedFunctions DEF Given
<1>9a. Arms(Program, m, input, i, a, n) BY MirArms
<1>9c. Arms(Replaced, o, input, j, c, q) BY <1>9, MirArms
<1> SUFFICES Follows(n, q) OBVIOUS
<1> HIDE DEF i, j, a, c, n, q, f
<1>15. ASSUME NEW w, NEW v, Below(w, v), NEW r, NEW mem, NEW with, MemFollows(mem, with),
              Becomes(m, n, Put(a, r, w), mem), Becomes(o, q, Put(c, r, v), with)
       PROVE  Follows(n, q)
  <2>1. Placed(Put(a, r, w)) /\ Matches(Put(a, r, w), Put(c, r, v)) BY <1>1, <1>4, <1>15, PutFollows
  <2>2. QED BY <1>15, <2>1, TopFollows
<1>16. CASE i.op \in Arithmetic
  <2> DEFINE w == Apply(i.op, x(1), x(2))
             v == Apply(j.op, y(1), y(2))
  <2>1. Becomes(m, n, Put(a, i.r, w), m.mem) BY <1>16, <1>9a DEF Arms
  <2>2. Becomes(o, q, Put(c, j.r, v), o.mem) BY <1>6, <1>16, <1>9c DEF Arms
  <2>3. Below(w, v) BY <1>6, <1>7, <1>16, ApplyBelow
  <2> HIDE DEF w, v
  <2>4. QED BY <1>6, <1>9, <1>15, <2>1, <2>2, <2>3
<1>17. CASE i.op = "gep"
  <2> DEFINE w == Address(m, i)
             v == Address(o, j)
  <2>1. Becomes(m, n, Put(a, i.r, w), m.mem) BY <1>17, <1>9a DEF Arms
  <2>2. Becomes(o, q, Put(c, j.r, v), o.mem) BY <1>6, <1>17, <1>9c DEF Arms
  <2>3. "strides" \in DOMAIN i /\ Len(i.strides) \in Nat /\ Len(i.ops) = 1 + Len(i.strides)
    BY <1>5, <1>17 DEF OperandsFound
  <2>4. Below(w, v) BY <1>4, <2>3, AddressBelow
  <2> HIDE DEF w, v
  <2>5. QED BY <1>6, <1>9, <1>15, <2>1, <2>2, <2>4
<1>18. CASE i.op \in {"mov", "zext"}
  <2>1. Becomes(m, n, Put(a, i.r, x(1)), m.mem) BY <1>18, <1>9a DEF Arms
  <2>2. Becomes(o, q, Put(c, j.r, y(1)), o.mem) BY <1>6, <1>18, <1>9c DEF Arms
  <2>3. Below(x(1), y(1)) BY <1>6, <1>7, <1>18
  <2> HIDE DEF x, y
  <2>4. QED BY <1>6, <1>9, <1>15, <2>1, <2>2, <2>3
<1>19. CASE i.op = "mla"
  <2> DEFINE w == MulAdd(m, i)
             v == MulAdd(o, j)
  <2>1. Becomes(m, n, Put(a, i.r, w), m.mem) BY <1>19, <1>9a DEF Arms
  <2>2. Becomes(o, q, Put(c, j.r, v), o.mem) BY <1>6, <1>19, <1>9c DEF Arms
  <2>3. Below(x(1), y(1)) /\ Below(x(2), y(2)) /\ Below(x(3), y(3)) BY <1>6, <1>7, <1>19
  <2>4. Below(w, v) BY <2>3, ApplyBelow DEF MulAdd
  <2> HIDE DEF w, v
  <2>5. QED BY <1>6, <1>9, <1>15, <2>1, <2>2, <2>4
<1>20. CASE i.op = "alloca"
  <2> DEFINE w == Variable(m, i)
             v == Variable(o, j)
             mem == Made(Program, m, a, i)
             with == Made(Replaced, o, c, j)
  <2>1. Becomes(m, n, Put(a, i.r, w), mem) BY <1>20, <1>9a DEF Arms
  <2>2. Becomes(o, q, Put(c, j.r, v), with) BY <1>6, <1>20, <1>9c DEF Arms
  <2>3. Replaced.func[c.fun].bytes = Program.func[a.fun].bytes BY <1>13, <1>14 DEF ShrunkFunction, f
  <2>4. MemFollows(mem, with) /\ w = v BY <1>1, <1>6, <1>9, <2>3, MadeFollows
  <2> HIDE DEF w, v, mem, with
  <2>5. QED BY <1>6, <1>15, <2>1, <2>2, <2>4 DEF Below
<1>21. CASE i.op = "load"
  <2> DEFINE p == Target(m, i, 1)
             w == m.mem[p]
             v == o.mem[Target(o, j, 1)]
  <2>1. Becomes(m, n, Put(a, i.r, w), m.mem) BY <1>21, <1>9a DEF Arms
  <2>2. Becomes(o, q, Put(c, j.r, v), o.mem) BY <1>6, <1>21, <1>9c DEF Arms
  <2>3. p \in DOMAIN m.mem BY <1>11, <1>21 DEF Stops
  <2>4. Target(o, j, 1) = p BY <1>7, <1>8, <1>10, <1>21, <2>3 DEF Below
  <2>5. Below(w, v) BY <1>10, <2>3, <2>4
  <2> HIDE DEF w, v
  <2>6. QED BY <1>6, <1>9, <1>15, <2>1, <2>2, <2>5
<1>22. CASE i.op = "store"
  <2> DEFINE p == Target(m, i, 2)
             mem == [m.mem EXCEPT ![p] = x(1)]
             with == [o.mem EXCEPT ![Target(o, j, 2)] = y(1)]
  <2>1. Becomes(m, n, Put(a, 0, Uncertain), mem) BY <1>22, <1>9a DEF Arms
  <2>2. Becomes(o, q, Put(c, 0, Uncertain), with) BY <1>6, <1>22, <1>9c DEF Arms
  <2>3. p \in DOMAIN m.mem BY <1>11, <1>22 DEF Stops
  <2>4. Target(o, j, 2) = p BY <1>7, <1>8, <1>10, <1>22, <2>3 DEF Below
  <2>5. Below(x(1), y(1)) BY <1>6, <1>7, <1>22
  <2>6. MemFollows(mem, with) BY <1>9, <2>4, <2>5, WriteFollows
  <2> HIDE DEF mem, with
  <2>7. QED BY <1>15, <2>1, <2>2, <2>6 DEF Below
<1>23. CASE i.op = "br"
  <2> DEFINE b == Destination(m, i)
  <2>1. /\ Len(i.ops) \in {1, 3}
        /\ Len(i.ops) = 1 => i.ops[1][1] = "block" /\ Targets(i) = {i.ops[1][2]}
        /\ Len(i.ops) = 3 => /\ i.ops[2][1] = "block" /\ i.ops[3][1] = "block"
                             /\ Targets(i) = {i.ops[2][2], i.ops[3][2]}
    BY <1>4, <1>5, <1>12, <1>23, BranchNames DEF CodeOf, f
  <2>2. Destination(o, j) = b /\ b \in Targets(i)
    <3>1. CASE Len(i.ops) = 1
      <4>1. 1 \in 1..Len(i.ops) BY <3>1
      <4>2. j.ops[1] = i.ops[1] BY <1>6, <2>1, <3>1, <4>1
      <4>3. b = i.ops[1][2] /\ Destination(o, j) = j.ops[1][2] BY <1>6, <3>1 DEF Destination
      <4>4. QED BY <2>1, <3>1, <4>2, <4>3
    <3>2. CASE Len(i.ops) = 3
      <4>1. 1 \in 1..Len(i.ops) /\ 2 \in 1..Len(i.ops) /\ 3 \in 1..Len(i.ops) BY <3>2
      <4>2. j.ops[2] = i.ops[2] /\ j.ops[3] = i.ops[3] BY <1>6, <2>1, <3>2, <4>1
      <4>3. x(1) # Uncertain BY <1>11, <1>23, <3>2, UncertainWord DEF Stops
      <4>4. y(1) = x(1) BY <1>6, <4>1, <4>3 DEF Below
      <4>5. b = IF x(1) # Const(0) THEN i.ops[2][2] ELSE i.ops[3][2] BY <3>2 DEF Destination
      <4>6. Destination(o, j) = IF y(1) # Const(0) THEN j.ops[2][2] ELSE j.ops[3][2]
        BY <1>6, <3>2 DEF Destination
      <4>7. QED BY <2>1, <3>2, <4>2, <4>4, <4>5, <4>6
    <3>3. QED BY <2>1, <3>1, <3>2
  <2>3. Becomes(m, n, EnterBlock(Program, a, b), m.mem) BY <1>23, <1>9a DEF Arms
  <2>4. Becomes(o, q, EnterBlock(Replaced, c, Destination(o, j)), o.mem)
    BY <1>6, <1>23, <1>9c DEF Arms
  <2> HIDE DEF b
  <2>5. Placed(EnterBlock(Program, a, b)) /\ Matches(EnterBlock(Program, a, b), EnterBlock(Replaced, c, b))
    BY <1>1, <1>4, <2>2, EnterFollows
  <2>6. QED BY <1>9, <2>2, <2>3, <2>4, <2>5, TopFollows
<1>24. CASE i.op = "ret"
  <2> DEFINE s == m.calls
             t == o.calls
             k == Len(s) - 1
             b == s[k]
             d == t[k]
             w == IF a.to = 0 THEN Uncertain ELSE x(1)
             v == IF a.to = 0 THEN Uncertain ELSE y(1)
  <2>1. CallsFollow(s, t) BY DEF Follows
  <2>2. s \in Seq(ToSet(s)) /\ t \in Seq(ToSet(t)) /\ Len(t) = Len(s) BY <2>1 DEF CallsFollow
  <2>3. Len(s) > 1
    <3>1. Len(s) # 1 BY <1>11, <1>24 DEF Ends
    <3>2. Len(s) \in Nat \ {0} BY <1>1
    <3>3. \A l \in Nat \ {0} : l # 1 => l > 1 OBVIOUS
    <3>4. QED BY <3>1, <3>2, <3>3
  <2>4. Last(Front(s)) = b /\ Last(Front(t)) = d BY <2>2, <2>3 DEF Last, Front
  <2>5. k \in 1..Len(s) /\ k \in 1..(Len(s) - 1) BY <1>1, <2>3
  <2>6. Placed(b) /\ Matches(b, d) /\ b.at \in Stays(b) BY <2>1, <2>5 DEF CallsFollow
  <2>7. Popped(m, n, Returned(a, b, x(1))) /\ n.mem = m.mem
    <3>1. Popped(m, n, Returned(a, Last(Front(m.calls)), Operand(m, i, 1))) /\ n.mem = m.mem
      BY <1>24, <1>9a DEF Arms
    <3> HIDE DEF b
    <3>2. QED BY <2>4, <3>1
  <2>8. Popped(o, q, Returned(c, d, y(1))) /\ q.mem = o.mem
    <3>1. Popped(o, q, Returned(c, Last(Front(o.calls)), Operand(o, j, 1))) /\ q.mem = o.mem
      BY <1>6, <1>24, <1>9c DEF Arms
    <3> HIDE DEF d
    <3>2. QED BY <2>4, <3>1
  <2>9. Below(w, v)
    <3>1. CASE a.to = 0 BY <3>1 DEF Below
    <3>2. CASE a.to # 0
      <4>1. Returns(f) BY <1>1, <3>2 DEF Placed, f
      <4>2. i \in AllInstrs(f) BY <1>4, <1>5, ListedFits DEF Given, f
      <4>3. i.ops # <<>> BY <1>24, <4>1, <4>2 DEF Returns
      <4>4. 1 \in 1..Len(i.ops) BY <1>5, <4>3
      <4>5. QED BY <1>6, <3>2, <4>4
    <3>3. QED BY <3>1, <3>2
  <2>10. Returned(a, b, x(1)) = Put(b, a.to, w) /\ Returned(c, d, y(1)) = Put(d, a.to, v)
    BY <1>13 DEF Returned, Put
  <2> HIDE DEF w, v, b, d, s, t, k
  <2>11. Placed(Put(b, a.to, w)) /\ Matches(Put(b, a.to, w), Put(d, a.to, v)) BY <2>6, <2>9, PutFollows
  <2>12. QED BY <2>3, <2>7, <2>8, <2>10, <2>11, PopFollows DEF s
<1>25. CASE i.op = "call"
  <2>1. 1 \in 1..Len(i.ops) /\ CallFound(Program, i) BY <1>5, <1>7, <1>25
  <2>2. Callee(j) = Callee(i)
    <3>1. i.ops[1] = Func(Callee(i)) BY <2>1 DEF CallFound
    <3>2. i.ops[1][1] = "func" BY <3>1 DEF Func
    <3>3. j.ops[1] = i.ops[1] BY <1>6, <2>1, <3>2
    <3>4. QED BY <3>3 DEF Callee
  <2>3. CASE Callee(i) \in Library
    <3>1. Becomes(m, n, Put(a, i.r, Const(input)), m.mem) BY <1>25, <2>3, <1>9a DEF Arms
    <3>2. Becomes(o, q, Put(c, j.r, Const(input)), o.mem) BY <1>6, <1>25, <2>2, <2>3, <1>9c DEF Arms
    <3>3. Below(Const(input), Const(input)) BY DEF Below
    <3>4. QED BY <1>6, <1>9, <1>15, <3>1, <3>2, <3>3
  <2>4. CASE Callee(i) \notin Library
    <3> DEFINE name == Callee(i)
               args == Arguments(m, i)
               brgs == Arguments(o, j)
               b == Activation(Program, name, args, i.r)
               d == Activation(Replaced, name, brgs, i.r)
    <3>1. Called(m, n, b) /\ n.mem = m.mem
      <4>1. Called(m, n, Activation(Program, Callee(i), Arguments(m, i), i.r)) /\ n.mem = m.mem
        BY <1>25, <2>4, <1>9a DEF Arms
      <4>2. QED BY <4>1
    <3>2. Called(o, q, d) /\ q.mem = o.mem
      <4>1. Called(o, q, Activation(Replaced, Callee(j), Arguments(o, j), j.r)) /\ q.mem = o.mem
        BY <1>6, <1>25, <2>2, <2>4, <1>9c DEF Arms
      <4>2. QED BY <1>6, <2>2, <4>1
    <3>3. /\ name \in DOMAIN Program.func /\ Len(i.ops) = 1 + Len(Program.func[name].args)
          /\ i.r # 0 => Returns(Program.func[name])
      BY <2>1, <2>4 DEF CallFound
    <3> DEFINE params == Program.func[name].args
    <3>4. DOMAIN params = 1..Len(params) /\ Len(params) \in Nat
      <4>1. params \in Seq(1..Program.func[name].regs) BY <3>3 DEF Given, Expected, Runnable
      <4> HIDE DEF params
      <4>2. QED BY <4>1
    <3>5. \A k \in DOMAIN params : Below(args[k], brgs[k])
      <4> SUFFICES ASSUME NEW k \in DOMAIN params PROVE Below(args[k], brgs[k]) OBVIOUS
      <4>1. k \in 1..(Len(i.ops) - 1) /\ k + 1 \in 1..Len(i.ops) /\ Len(j.ops) = Len(i.ops)
        BY <1>6, <3>3, <3>4
      <4>2. args[k] = x(k + 1) /\ brgs[k] = y(k + 1) BY <4>1 DEF Arguments
      <4> HIDE DEF args, brgs, params
      <4>3. QED BY <1>6, <4>1, <4>2
    <3> HIDE DEF name, args, brgs
    <3>6. Placed(b) /\ Matches(b, d) BY <3>3, <3>5, ActivationFollows
    <3> HIDE DEF b, d
    <3>7. QED BY <1>4, <3>1, <3>2, <3>6, PushFollows DEF a
  <2>5. QED BY <2>3, <2>4
<1>26. QED
  BY <1>2, <1>16, <1>17, <1>18, <1>19, <1>20, <1>21, <1>22, <1>23, <1>24, <1>25 DEF Understood

LEMMA BootFollows ==
  ASSUME Given
  PROVE  Follows(Boot(Program), Boot(Replaced))
<1> DEFINE b == Activation(Program, "main", <<>>, 0)
           d == Activation(Replaced, "main", <<>>, 0)
           m == Boot(Program)
           o == Boot(Replaced)
<1>1. m.calls = <<b>> /\ o.calls = <<d>> /\ DOMAIN o = {"calls", "mem"} BY DEF Boot
<1>2. "main" \in DOMAIN Program.func BY DEF Given, Expected, Runnable
<1> DEFINE params == Program.func["main"].args
           none == <<>>
<1>3. \A k \in DOMAIN params : Below(none[k], none[k]) BY DEF Below
<1> HIDE DEF none
<1>4. /\ Placed(Activation(Program, "main", none, 0))
      /\ Matches(Activation(Program, "main", none, 0), Activation(Replaced, "main", none, 0))
  BY <1>2, <1>3, ActivationFollows
<1>5. Placed(b) /\ Matches(b, d) BY <1>4 DEF none
<1>6. Replaced.global = Program.global BY ReplacedFunctions DEF Given
<1>7. o.mem = m.mem BY <1>6 DEF Boot, Globals
<1>8. Uncertain \notin DOMAIN m.mem
  <2>1. DOMAIN m.mem = Globals(Program) BY DEF Boot
  <2>2. \A x, y : Ptr(x, y) # Uncertain BY DEF Ptr, Uncertain
  <2>3. QED BY <2>1, <2>2 DEF Globals
<1> HIDE DEF b, d, m, o
<1>9. MemFollows(m.mem, o.mem) BY <1>7, <1>8 DEF MemFollows, Below
<1>10. /\ <<b>> \in Seq({b}) /\ Len(<<b>>) = 1 /\ <<b>>[1] = b
       /\ <<d>> \in Seq({d}) /\ Len(<<d>>) = 1 /\ <<d>>[1] = d
  OBVIOUS
<1>11. <<b>> \in Seq(ToSet(<<b>>)) /\ <<d>> \in Seq(ToSet(<<d>>)) BY <1>10, SeqOfToSet
<1>12. CallsFollow(<<b>>, <<d>>)
  <2> DEFINE cs == <<b>>
             ws == <<d>>
  <2>1. /\ cs \in Seq(ToSet(cs)) /\ Len(cs) = 1 /\ cs[1] = b
        /\ ws \in Seq(ToSet(ws)) /\ Len(ws) = 1 /\ ws[1] = d
    BY <1>10, <1>11
  <2> HIDE DEF cs, ws
  <2>2. \A k \in 1..Len(cs) : Placed(cs[k]) /\ Matches(cs[k], ws[k])
    <3>1. \A k \in 1..Len(cs) : k = 1 BY <2>1
    <3>2. QED BY <1>5, <2>1, <3>1
  <2>3. \A k \in 1..(Len(cs) - 1) : FALSE BY <2>1
  <2>4. CallsFollow(cs, ws) BY <2>1, <2>2, <2>3 DEF CallsFollow
  <2>5. QED BY <2>4 DEF cs, ws
<1>13. QED BY <1>1, <1>9, <1>12 DEF Follows, m, o

----------------------------------------------------------------------------
(* The two runs.                                                           *)

\* The unit and what replaceConstant leaves of it run side by side, on the same
\* input: the second waits while the first is at an instruction that was deleted.
BothNext ==
  /\ Goes(machine)
  /\ \E input \in Int :
       /\ machine' = MirStep(Program, machine, input)
       /\ other' = IF Deleted(machine) THEN other ELSE MirStep(Replaced, other, input)
BothSpec ==
  machine = Boot(Program) /\ other = Boot(Replaced) /\ [][BothNext]_<<machine, other>>

\* The runs of what is left.
OtherNext ==
  /\ other.calls # <<>> /\ Visible(Replaced, other) \notin {"stuck", "ret"}
  /\ Current(Replaced, other).op \in Understood
  /\ \E input \in Int : other' = MirStep(Replaced, other, input)
OtherSpec == other = Boot(Replaced) /\ [][OtherNext]_other

\* Where the first is seen to do something, or nothing, so is the second, and with
\* the same word, unless that of the first was never written; and while the second
\* waits, there is nothing to be seen.
ShowsTheSame ==
  Visible(Program, machine) # "stuck" =>
    IF Deleted(machine) THEN Visible(Program, machine) = "silent"
    ELSE /\ Visible(Replaced, other) = Visible(Program, machine)
         /\ Seen(Program, machine) # Uncertain => Seen(Replaced, other) = Seen(Program, machine)

BothInv == MInv /\ Follows(machine, other)

LEMMA BothStep ==
  ASSUME Given, BothInv, BothNext
  PROVE  BothInv' /\ MachineNext /\ [OtherNext]_other
<1>1. /\ Goes(machine) /\ DOMAIN machine = {"calls", "mem"} /\ CallsStand(Body, Table, machine.calls)
      /\ Follows(machine, other) /\ Solves(Body, Table)
  BY DEF BothNext, BothInv, MInv, Given
<1>2. PICK input \in Int : /\ machine' = MirStep(Program, machine, input)
                           /\ other' = IF Deleted(machine) THEN other ELSE MirStep(Replaced, other, input)
  BY DEF BothNext
<1>3. MInv' /\ MachineNext
  <2>1. MachineNext BY <1>1, <1>2 DEF MachineNext
  <2>2. QED BY <1>1, <2>1, StepStands DEF BothInv
<1>4. CASE Deleted(machine)
  <2>1. Follows(MirStep(Program, machine, input), other) BY <1>1, <1>4, DeletedFollows
  <2>2. other' = other BY <1>2, <1>4
  <2>3. Follows(machine', other') BY <1>2, <2>1, <2>2
  <2>4. QED BY <1>3, <2>2, <2>3 DEF BothInv
<1>5. CASE ~Deleted(machine)
  <2> DEFINE i == Current(Program, machine)
             j == Current(Replaced, other)
  <2>1. Follows(MirStep(Program, machine, input), MirStep(Replaced, other, input))
    BY <1>1, <1>5, StayingFollows
  <2>2. other' = MirStep(Replaced, other, input) BY <1>2, <1>5
  <2>3. Follows(machine', other') BY <1>2, <2>1, <2>2
  <2>4. Visible(Replaced, other) = Visible(Program, machine) BY <1>1, <1>5, SameSeen DEF Goes
  <2>5. CurrentMatches(machine, other, i) BY <1>1, TopsMeet
  <2>6. i.op \in Understood /\ i.r \notin Gone(Now(machine).fun) BY <1>1, <1>5 DEF Goes, Deleted
  <2>7. i # NoInstr BY <2>6 DEF NoInstr, Instr, Understood, Arithmetic, Shifts, Comparisons
  <2>8. j.op = i.op BY <2>5, <2>6, <2>7 DEF CurrentMatches, Alike
  <2>9. other.calls # <<>>
    <3>1. CallsFollow(machine.calls, other.calls) BY <1>1 DEF Follows
    <3>2. Len(other.calls) # 0 BY <3>1 DEF CallsFollow
    <3>3. QED BY <3>2
  <2>10. OtherNext BY <1>1, <2>2, <2>4, <2>6, <2>8, <2>9 DEF OtherNext, Goes
  <2>11. QED BY <1>3, <2>3, <2>10 DEF BothInv
<1>6. QED BY <1>4, <1>5

\* sccp.cpp, replaceConstant: with a table that solves the function, and the unit
\* as the passes leave it, what is left runs as the unit did, whatever is read and
\* however deep the calls go.  It reads, writes and returns in the same order and the
\* same words, is never stuck where the unit was not, and finds a phi's pair, an
\* argument and a result wherever the unit found one.
THEOREM ReplacementKeepsBehaviour ==
  ASSUME Given
  PROVE  BothSpec => MachineSpec /\ OtherSpec /\ []ShowsTheSame
<1>1. machine = Boot(Program) /\ other = Boot(Replaced) => BothInv
  BY BootStands, BootFollows DEF BothInv, Given
<1>2. BothInv /\ [BothNext]_<<machine, other>> => BothInv' /\ [MachineNext]_machine /\ [OtherNext]_other
  <2>1. CASE BothNext BY <2>1, BothStep
  <2>2. CASE UNCHANGED <<machine, other>> BY <2>2 DEF BothInv, MInv
  <2>3. QED BY <2>1, <2>2
<1>3. BothInv => ShowsTheSame
  <2> SUFFICES ASSUME BothInv, Visible(Program, machine) # "stuck" PROVE ShowsTheSame
    BY DEF ShowsTheSame
  <2>1. CallsStand(Body, Table, machine.calls) /\ Follows(machine, other) BY DEF BothInv, MInv
  <2>2. CASE Deleted(machine)
    <3>1. Visible(Program, machine) = "silent" BY <2>1, <2>2, DeletedIsSilent
    <3>2. QED BY <2>2, <3>1 DEF ShowsTheSame
  <2>3. CASE ~Deleted(machine)
    <3>1. /\ Visible(Replaced, other) = Visible(Program, machine)
          /\ Below(Seen(Program, machine), Seen(Replaced, other))
      BY <2>1, <2>3, SameSeen
    <3>2. QED BY <2>3, <3>1 DEF ShowsTheSame, Below
  <2>4. QED BY <2>2, <2>3
<1>4. QED BY <1>1, <1>2, <1>3, PTL DEF BothSpec, MachineSpec, OtherSpec
=============================================================================
