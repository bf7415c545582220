-------------------------- MODULE LinearScanProofs --------------------------
(***************************************************************************)
(* Proofs about LinearScan, for any numbers of registers and any intervals:*)
(* the scan gives registers as a register file may be given, it passes a   *)
(* register over only when it must, and no interval is lost unnoticed.     *)
(***************************************************************************)
EXTENDS LinearScan, SequenceTheorems, TLAPS

Sorted(list) == \A k, l \in DOMAIN list : k < l => list[k].ed < list[l].st

\* One call of the scan has one set of intervals.
OfOneProblem == \E p \in Problems : waiting \subseteq p

\* Each register's intervals are in the order of the points and do not meet.
ListsSorted == \A r \in Reg0 : Sorted(regs[r])

\* While a call waits nothing is searched for, and what is in the register it
\* clobbers lies before it.
CallsFirst ==
  \A i \in waiting : i.type = "call" =>
    cur = NoInterval /\ \A k \in DOMAIN regs[i.pin] : regs[i.pin][k].ed < i.st

\* The registers that were passed over are not empty.
PassedOver == cur # NoInterval => \A r \in Reg0 : r < reg => regs[r] # <<>>

\* The midpoint of the interval lies between those of the ends of the search,
\* or is that of an interval in the list.
Bracket(list) ==
  \/ Mid2(list[lo]) < Mid2(cur) /\ Mid2(cur) < Mid2(list[hi])
  \/ \E k \in DOMAIN list : Mid2(list[k]) = Mid2(cur)
Bracketed == hi > 0 => cur # NoInterval /\ Bracket(regs[reg])

IInv == TypeOK /\ OfOneProblem /\ ListsSorted /\ CallsFirst /\ PassedOver /\ Bracketed

-----------------------------------------------------------------------------
(* Intervals and lists. *)

LEMMA AskedShape ==
  ASSUME NEW i \in Asked
  PROVE  /\ i.st \in Int /\ i.ed \in Int /\ i.st <= i.ed
         /\ i.type = "call" => i.pin \in Clobbered /\ i.st = i.ed
         /\ InRegister(i) => i.pin \in 0..(ArgRegs - 1)
         /\ i # NoInterval
<1>1. PICK p \in Problems : i \in p
  BY DEF Asked
<1>2. Wellformed(p)
  BY ScanAssumption
<1>3. i.type # "none"
  BY <1>1, <1>2 DEF Wellformed
<1>4. i # NoInterval
  BY <1>3 DEF NoInterval
<1> QED
  BY <1>1, <1>2, <1>4 DEF Wellformed, InRegister

\* The registers with numbers of their own are among those there are.
LEMMA RegisterNumbers ==
  /\ Clobbered \subseteq Reg0
  /\ \A n \in 0..(ArgRegs - 1) : n + ArgRegs \in Reg0 \ Clobbered
BY RegisterAssumption DEF Clobbered, Reg0

\* An interval with a place in a list meets none of its neighbours.
LEMMA FitsIsApart ==
  ASSUME NEW list \in Seq(Asked), Sorted(list), NEW k \in 0..Len(list), NEW i \in Asked,
         FitsAfter(list, k, i), NEW n \in DOMAIN list
  PROVE  IF n <= k THEN list[n].ed < i.st ELSE i.ed < list[n].st
<1>1. n \in 1..Len(list) /\ list[n] \in Asked
  OBVIOUS
<1>2. CASE n <= k
  <2>1. k \in DOMAIN list /\ list[k] \in Asked
    BY <1>1, <1>2
  <2>2. n < k => list[n].ed < list[k].st
    BY <1>1, <2>1 DEF Sorted
  <2> QED
    BY <1>1, <1>2, <2>1, <2>2, AskedShape DEF FitsAfter
<1>3. CASE n > k
  <2>1. k + 1 \in DOMAIN list /\ list[k + 1] \in Asked
    BY <1>1, <1>3
  <2>2. k + 1 < n => list[k + 1].ed < list[n].st
    BY <1>1, <2>1 DEF Sorted
  <2> QED
    BY <1>1, <1>3, <2>1, <2>2, AskedShape DEF FitsAfter
<1> QED
  BY <1>1, <1>2, <1>3

LEMMA InsertShape ==
  ASSUME NEW list \in Seq(Asked), NEW k \in 0..Len(list), NEW i \in Asked
  PROVE  /\ Insert(list, k, i) \in Seq(Asked)
         /\ Insert(list, k, i) # <<>>
         /\ Len(Insert(list, k, i)) = Len(list) + 1
         /\ DOMAIN Insert(list, k, i) = 1..(Len(list) + 1)
         /\ \A n \in 1..(Len(list) + 1) :
              Insert(list, k, i)[n] = IF n <= k THEN list[n] ELSE IF n = k + 1 THEN i ELSE list[n - 1]
<1> DEFINE m == Len(list) + 1
           g == Insert(list, k, i)
<1>1. m \in Nat /\ m > 0
  OBVIOUS
<1>2. \A n \in 1..m : (IF n <= k THEN list[n] ELSE IF n = k + 1 THEN i ELSE list[n - 1]) \in Asked
  OBVIOUS
<1>3. g \in [1..m -> Asked]
  BY <1>2 DEF Insert
<1>4. g \in Seq(Asked)
  BY <1>1, <1>3, SeqDef
<1>5. DOMAIN g = 1..m
  BY <1>3
<1>6. Len(g) = m
  BY <1>1, <1>4, <1>5, LenProperties
<1> QED
  BY <1>1, <1>4, <1>5, <1>6 DEF Insert

\* What inserting where there is room does to a list.
LEMMA InsertSorted ==
  ASSUME NEW list \in Seq(Asked), Sorted(list), NEW k \in 0..Len(list), NEW i \in Asked,
         FitsAfter(list, k, i)
  PROVE  Sorted(Insert(list, k, i))
<1> DEFINE g == Insert(list, k, i)
<1>0. /\ DOMAIN g = 1..(Len(list) + 1)
      /\ \A n \in 1..(Len(list) + 1) :
           g[n] = IF n <= k THEN list[n] ELSE IF n = k + 1 THEN i ELSE list[n - 1]
  BY InsertShape
<1>d. DOMAIN list = 1..Len(list) /\ Len(list) \in Nat
  OBVIOUS
<1> HIDE DEF g
<1>1. ASSUME NEW a \in DOMAIN g, NEW b \in DOMAIN g, a < b
      PROVE  g[a].ed < g[b].st
  <2> DEFINE a2 == IF a <= k THEN a ELSE a - 1
             b2 == IF b <= k THEN b ELSE b - 1
  <2>1. a \in 1..(Len(list) + 1) /\ b \in 1..(Len(list) + 1)
    BY <1>0
  <2>2. CASE a = k + 1
    <3>1. b2 \in DOMAIN list /\ b2 > k /\ g[b] = list[b2] /\ g[a] = i
      BY <1>0, <1>d, <1>1, <2>1, <2>2
    <3> QED
      BY <3>1, FitsIsApart
  <2>3. CASE b = k + 1
    <3>1. a2 \in DOMAIN list /\ a2 <= k /\ g[a] = list[a2] /\ g[b] = i
      BY <1>0, <1>d, <1>1, <2>1, <2>3
    <3> QED
      BY <3>1, FitsIsApart
  <2>4. CASE a # k + 1 /\ b # k + 1
    <3>1. a2 \in DOMAIN list /\ b2 \in DOMAIN list /\ a2 < b2 /\ g[a] = list[a2] /\ g[b] = list[b2]
      BY <1>0, <1>d, <1>1, <2>1, <2>4
    <3> QED
      BY <3>1 DEF Sorted
  <2> QED
    BY <2>2, <2>3, <2>4
<1>2. Sorted(g)
  BY <1>1 DEF Sorted
<1> QED
  BY <1>2 DEF g

-----------------------------------------------------------------------------
(* An interval gets a register. *)

held == [r \in Reg0 |-> {regs[r][k] : k \in DOMAIN regs[r]}]

\* Where there is room: the lists stay sorted, and the register file allows it.
LEMMA PlaceStep ==
  ASSUME TypeOK, ListsSorted, NEW r \in Reg0, NEW k \in 0..Len(regs[r]), NEW i \in Asked,
         FitsAfter(regs[r], k, i), regs' = [regs EXCEPT ![r] = Insert(@, k, i)]
  PROVE  /\ regs' \in [Reg0 -> Seq(Asked)]
         /\ ListsSorted'
         /\ regs'[r] # <<>>
         /\ \A q \in Reg0 : q # r => regs'[q] = regs[q]
         /\ File!Allocate(r, i)
<1> DEFINE list == regs[r]
           g == Insert(list, k, i)
<1>1. list \in Seq(Asked) /\ Sorted(list) /\ regs \in [Reg0 -> Seq(Asked)]
  BY DEF TypeOK, ListsSorted
<1>2. /\ g \in Seq(Asked) /\ g # <<>>
      /\ DOMAIN g = 1..(Len(list) + 1)
      /\ \A n \in 1..(Len(list) + 1) :
           g[n] = IF n <= k THEN list[n] ELSE IF n = k + 1 THEN i ELSE list[n - 1]
  <2>1. k \in 0..Len(list)
    OBVIOUS
  <2> HIDE DEF list
  <2> QED
    BY <1>1, <2>1, InsertShape
<1>3. Sorted(g)
  BY <1>1, InsertSorted
<1>4. /\ regs' \in [Reg0 -> Seq(Asked)] /\ regs'[r] = g
      /\ \A q \in Reg0 : q # r => regs'[q] = regs[q]
  BY <1>1, <1>2
<1>5. ListsSorted'
  BY <1>3, <1>4 DEF ListsSorted, Sorted
<1>6. \A j \in held[r] : File!Apart(i, j)
  <2> SUFFICES ASSUME NEW n \in DOMAIN list PROVE File!Apart(i, list[n])
    BY DEF held
  <2> QED
    BY <1>1, FitsIsApart DEF File!Apart
<1>7. {g[n] : n \in DOMAIN g} = {list[n] : n \in DOMAIN list} \cup {i}
  <2>1. DOMAIN list = 1..Len(list) /\ Len(list) \in Nat
    BY <1>1
  <2> HIDE DEF g
  <2>2. ASSUME NEW n \in DOMAIN g PROVE g[n] \in {list[m] : m \in DOMAIN list} \cup {i}
    <3>1. CASE n <= k
      BY <1>2, <2>1, <3>1
    <3>2. CASE n = k + 1
      BY <1>2, <3>2
    <3>3. CASE n > k + 1
      <4>1. n - 1 \in DOMAIN list /\ g[n] = list[n - 1]
        BY <1>2, <2>1, <3>3
      <4> QED
        BY <4>1
    <3> QED
      BY <1>2, <3>1, <3>2, <3>3
  <2>3. ASSUME NEW n \in DOMAIN list PROVE list[n] \in {g[m] : m \in DOMAIN g}
    <3>1. CASE n <= k
      <4>1. n \in DOMAIN g /\ g[n] = list[n]
        BY <1>2, <2>1, <3>1
      <4> QED
        BY <4>1
    <3>2. CASE n > k
      <4>1. n + 1 \in DOMAIN g /\ g[n + 1] = list[n]
        BY <1>2, <2>1, <3>2
      <4> QED
        BY <4>1
    <3> QED
      BY <2>1, <3>1, <3>2
  <2>4. k + 1 \in DOMAIN g /\ g[k + 1] = i
    BY <1>2, <2>1
  <2> QED
    BY <2>2, <2>3, <2>4
<1>8. held' = [held EXCEPT ![r] = @ \cup {i}]
  <2>1. held[r] = {list[n] : n \in DOMAIN list}
    BY DEF held
  <2>2. held'[r] = {g[n] : n \in DOMAIN g}
    BY <1>4 DEF held
  <2>3. ASSUME NEW q \in Reg0, q # r PROVE held'[q] = held[q]
    BY <1>4, <2>3 DEF held
  <2>4. held' = [q \in Reg0 |-> held'[q]] /\ held = [q \in Reg0 |-> held[q]]
    BY DEF held
  <2> HIDE DEF held, g, list
  <2> QED
    BY <1>7, <2>1, <2>2, <2>3, <2>4
<1>9. File!Allocate(r, i)
  BY <1>6, <1>8 DEF File!Allocate, held
<1> QED
  BY <1>2, <1>4, <1>5, <1>9

\* Appending is inserting after the last element.
LEMMA AppendIsInsert ==
  ASSUME NEW list \in Seq(Asked), NEW i \in Asked
  PROVE  Append(list, i) = Insert(list, Len(list), i)
<1>1. /\ Append(list, i) \in Seq(Asked) /\ Len(Append(list, i)) = Len(list) + 1
      /\ \A n \in 1..Len(list) : Append(list, i)[n] = list[n]
      /\ Append(list, i)[Len(list) + 1] = i
  BY AppendProperties
<1>2. Len(list) \in Nat /\ Len(list) \in 0..Len(list)
  OBVIOUS
<1>3. /\ Insert(list, Len(list), i) \in Seq(Asked)
      /\ Len(Insert(list, Len(list), i)) = Len(list) + 1
      /\ \A n \in 1..(Len(list) + 1) :
           Insert(list, Len(list), i)[n] =
             IF n <= Len(list) THEN list[n] ELSE IF n = Len(list) + 1 THEN i ELSE list[n - 1]
  BY <1>2, InsertShape
<1>4. \A n \in 1..(Len(list) + 1) : Append(list, i)[n] = Insert(list, Len(list), i)[n]
  BY <1>1, <1>2, <1>3
<1> HIDE DEF Insert
<1> QED
  BY <1>1, <1>3, <1>4, SeqEqual

-----------------------------------------------------------------------------
(* The actions. *)

LEMMA InitIInv ==
  ASSUME Init PROVE IInv
<1>1. PICK p \in Problems : waiting = p
  BY DEF Init
<1>2. waiting \subseteq Asked
  BY <1>1 DEF Asked
<1>3. Registers \in Nat /\ Registers > 0
  BY RegisterAssumption
<1>4. regs = [r \in Reg0 |-> <<>>] /\ regs \in [Reg0 -> Seq(Asked)] /\ \A r \in Reg0 : regs[r] = <<>>
  BY DEF Init
<1>5. TypeOK
  BY <1>2, <1>3, <1>4 DEF Init, TypeOK
<1>6. ListsSorted
  BY <1>4 DEF ListsSorted, Sorted
<1>7. CallsFirst
  <2> SUFFICES ASSUME NEW i \in waiting, i.type = "call"
               PROVE  cur = NoInterval /\ \A k \in DOMAIN regs[i.pin] : regs[i.pin][k].ed < i.st
    BY DEF CallsFirst
  <2>1. i.pin \in Reg0
    BY <1>2, AskedShape, RegisterNumbers
  <2> QED
    BY <1>4, <2>1 DEF Init
<1>8. OfOneProblem /\ PassedOver /\ Bracketed
  BY <1>1 DEF Init, OfOneProblem, PassedOver, Bracketed
<1> QED
  BY <1>5, <1>6, <1>7, <1>8 DEF IInv

\* What the steps that place an interval have in common.
Placed(r, i) ==
  /\ r \in Reg0 /\ i \in Asked
  /\ \E k \in 0..Len(regs[r]) :
       FitsAfter(regs[r], k, i) /\ regs' = [regs EXCEPT ![r] = Insert(@, k, i)]

LEMMA PlacedStep ==
  ASSUME IInv, NEW r, NEW i, Placed(r, i)
  PROVE  /\ regs' \in [Reg0 -> Seq(Asked)]
         /\ ListsSorted'
         /\ regs'[r] # <<>>
         /\ \A q \in Reg0 : q # r => regs'[q] = regs[q]
         /\ File!Next
<1>1. PICK k \in 0..Len(regs[r]) :
        FitsAfter(regs[r], k, i) /\ regs' = [regs EXCEPT ![r] = Insert(@, k, i)]
  BY DEF Placed
<1>2. r \in Reg0 /\ i \in Asked /\ TypeOK /\ ListsSorted
  BY DEF Placed, IInv
<1> QED
  BY <1>1, <1>2, PlaceStep DEF File!Next

LEMMA PlaceArgumentPlaces ==
  ASSUME IInv, PlaceArgument
  PROVE  \/ UNCHANGED <<regs, cur, reg, lo, hi>>
         \/ \E r \in Reg0 \ Clobbered, i \in Asked : Placed(r, i) /\ UNCHANGED <<cur, reg, lo, hi>>
<1>1. PICK i \in waiting :
        /\ InRegister(i)
        /\ LET r == i.pin + ArgRegs
               room == {k \in 0..Len(regs[r]) : FitsAfter(regs[r], k, i)}
           IN IF room = {}
              THEN stopped' = "307" /\ UNCHANGED regs
              ELSE \E k \in room :
                     regs' = [regs EXCEPT ![r] = Insert(@, k, i)] /\ UNCHANGED stopped
  BY DEF PlaceArgument
<1>2. i \in Asked
  BY DEF IInv, TypeOK
<1>3. i.pin + ArgRegs \in Reg0 \ Clobbered
  BY <1>1, <1>2, AskedShape, RegisterNumbers
<1>4. UNCHANGED <<cur, reg, lo, hi>>
  BY DEF PlaceArgument
<1>5. UNCHANGED regs \/ Placed(i.pin + ArgRegs, i)
  BY <1>1, <1>2, <1>3 DEF Placed
<1> QED
  BY <1>2, <1>3, <1>4, <1>5

LEMMA ReservePlaces ==
  ASSUME IInv, Reserve
  PROVE  \E i \in waiting : /\ i.type = "call" /\ Heaviest(i) /\ Placed(i.pin, i)
                            /\ regs' = [regs EXCEPT ![i.pin] = Append(@, i)]
                            /\ waiting' = waiting \ {i}
<1>1. PICK i \in waiting : /\ Heaviest(i) /\ i.type = "call"
                           /\ regs' = [regs EXCEPT ![i.pin] = Append(@, i)]
                           /\ waiting' = waiting \ {i}
  BY DEF Reserve
<1>2. i \in Asked /\ i.pin \in Reg0 /\ regs \in [Reg0 -> Seq(Asked)]
  BY <1>1, AskedShape, RegisterNumbers DEF IInv, TypeOK
<1>3. regs[i.pin] \in Seq(Asked)
  BY <1>2
<1>4. \A k \in DOMAIN regs[i.pin] : regs[i.pin][k].ed < i.st
  BY <1>1 DEF IInv, CallsFirst
<1>5. FitsAfter(regs[i.pin], Len(regs[i.pin]), i) /\ Len(regs[i.pin]) \in 0..Len(regs[i.pin])
  BY <1>3, <1>4 DEF FitsAfter
<1>6. Append(regs[i.pin], i) = Insert(regs[i.pin], Len(regs[i.pin]), i)
  BY <1>2, <1>3, AppendIsInsert
<1>7. Placed(i.pin, i)
  BY <1>1, <1>2, <1>5, <1>6 DEF Placed
<1> QED
  BY <1>1, <1>7

\* No call waits while an interval is searched for a place.
LEMMA NoCallWaits ==
  ASSUME IInv, cur # NoInterval \/ Take
  PROVE  \A i \in waiting : i.type # "call"
<1>1. CASE cur # NoInterval
  BY <1>1 DEF IInv, CallsFirst
<1>2. CASE Take
  <2>1. PICK i \in waiting : Heaviest(i) /\ i.type # "call"
    BY <1>2 DEF Take
  <2>2. \A j \in waiting : j.type = "call" => j \in Candidates /\ Before(j, i)
    BY <2>1 DEF Candidates, Before
  <2> QED
    BY <2>1, <2>2 DEF Heaviest
<1> QED
  BY <1>1, <1>2

\* The two ways an interval leaves a register it was tried on.
LEMMA SearchSteps ==
  ASSUME IInv, TryRegister \/ Decide
  PROVE  /\ Searching /\ reg \in Reg0 /\ cur \in Asked
         /\ \/ /\ Placed(reg, cur) /\ cur' = NoInterval /\ reg' = 0 /\ hi' = 0 /\ lo' = 0
               /\ UNCHANGED <<waiting, stopped>>
            \/ Conflict /\ \E k \in DOMAIN regs[reg] : ~File!Apart(regs[reg][k], cur)
            \/ /\ lo' = 1 /\ hi' = Len(regs[reg]) /\ lo' < hi'
               /\ Mid2(regs[reg][1]) < Mid2(cur) /\ Mid2(cur) < Mid2(regs[reg][hi'])
               /\ UNCHANGED <<waiting, cur, reg, regs, stopped>>
<1> DEFINE list == regs[reg]
<1>1. Searching /\ reg \in 0..Registers /\ Registers \in Nat
  BY RegisterAssumption DEF TryRegister, Decide, IInv, TypeOK
<1>2. reg \in Reg0
  BY <1>1 DEF TryRegister, Decide, IInv, TypeOK, Reg0
<1>3. cur \in Asked
  BY <1>1 DEF IInv, TypeOK, Searching
<1>4. list \in Seq(Asked) /\ Sorted(list) /\ DOMAIN list = 1..Len(list) /\ Len(list) \in Nat
  BY <1>2 DEF IInv, TypeOK, ListsSorted
<1>5. ASSUME NEW k \in 0..Len(list), FitsAfter(list, k, cur), PutAfter(k)
      PROVE  /\ Placed(reg, cur) /\ cur' = NoInterval /\ reg' = 0 /\ hi' = 0 /\ lo' = 0
             /\ UNCHANGED <<waiting, stopped>>
  BY <1>2, <1>3, <1>5 DEF Placed, PutAfter
<1>6. \A k \in DOMAIN list :
        /\ list[k].st \in Int /\ list[k].ed \in Int /\ list[k].st <= list[k].ed
        /\ cur.st \in Int /\ cur.ed \in Int /\ cur.st <= cur.ed
  BY <1>3, <1>4, AskedShape
<1>7. CASE TryRegister
  <2>1. CASE list = <<>> /\ PutAfter(0)
    <3>1. 0 \in 0..Len(list) /\ FitsAfter(list, 0, cur)
      BY <1>4, <2>1 DEF FitsAfter
    <3> QED
      BY <1>1, <1>2, <1>3, <1>5, <2>1, <3>1
  <2>2. CASE /\ list # <<>> /\ AtAnEnd(list, cur)
             /\ IF cur.ed < list[1].st THEN PutAfter(0)
                ELSE IF cur.st > list[Len(list)].ed THEN PutAfter(Len(list))
                ELSE Conflict
    <3>1. 1 \in DOMAIN list /\ Len(list) \in DOMAIN list
      BY <1>4, <2>2
    <3>2. CASE cur.ed < list[1].st
      <4>1. 0 \in 0..Len(list) /\ FitsAfter(list, 0, cur)
        BY <1>4, <3>2 DEF FitsAfter
      <4> QED
        BY <1>1, <1>2, <1>3, <1>5, <2>2, <3>2, <4>1
    <3>3. CASE ~(cur.ed < list[1].st) /\ cur.st > list[Len(list)].ed
      <4>1. Len(list) \in 0..Len(list) /\ FitsAfter(list, Len(list), cur)
        BY <1>4, <1>6, <3>1, <3>3 DEF FitsAfter
      <4> QED
        BY <1>1, <1>2, <1>3, <1>5, <2>2, <3>3, <4>1
    <3>4. CASE ~(cur.ed < list[1].st) /\ ~(cur.st > list[Len(list)].ed)
      <4>1. \/ Mid2(cur) <= Mid2(list[1])
            \/ Mid2(cur) >= Mid2(list[Len(list)])
        BY <2>2 DEF AtAnEnd
      <4>2. ~File!Apart(list[1], cur) \/ ~File!Apart(list[Len(list)], cur)
        BY <1>6, <3>1, <3>4, <4>1 DEF File!Apart, Mid2
      <4>3. Conflict
        BY <2>2, <3>4
      <4> QED
        BY <1>1, <1>2, <1>3, <3>1, <4>2, <4>3
    <3> QED
      BY <3>2, <3>3, <3>4
  <2>3. CASE /\ list # <<>> /\ ~AtAnEnd(list, cur)
             /\ lo' = 1 /\ hi' = Len(list)
             /\ UNCHANGED <<waiting, cur, reg, regs, stopped>>
    <3>1. 1 \in DOMAIN list /\ Len(list) \in DOMAIN list
      BY <1>4, <2>3
    <3>0. /\ Mid2(list[1]) \in Int /\ Mid2(cur) \in Int
          /\ Mid2(list[Len(list)]) \in Int
      BY <1>6, <3>1 DEF Mid2
    <3>2. Mid2(list[1]) < Mid2(cur) /\ Mid2(cur) < Mid2(list[Len(list)])
      <4> HIDE DEF list
      <4>1. ~(Mid2(cur) <= Mid2(list[1])) /\ ~(Mid2(cur) >= Mid2(list[Len(list)]))
        BY <2>3 DEF AtAnEnd
      <4> HIDE DEF Mid2
      <4> QED
        BY <3>0, <4>1
    <3>3. Len(list) # 1
      <4> HIDE DEF list, Mid2
      <4> QED
        BY <3>0, <3>2
    <3>4. lo' < hi'
      <4>1. Len(list) \in Nat /\ Len(list) > 1
        <5>1. Len(list) \in Nat /\ Len(list) # 0 /\ Len(list) # 1
          BY <1>4, <2>3, <3>3
        <5>2. \A n \in Nat : n # 0 /\ n # 1 => n > 1
          OBVIOUS
        <5> QED
          BY <5>1, <5>2
      <4> QED
        BY <2>3, <4>1
    <3> QED
      BY <1>1, <1>2, <1>3, <2>3, <3>2, <3>4
  <2> QED
    BY <1>7, <2>1, <2>2, <2>3 DEF TryRegister
<1>8. CASE Decide
  <2>1. lo \in Nat /\ hi \in Nat /\ hi = lo + 1 /\ 0 < lo /\ hi <= Len(list) /\ hi > 0
    BY <1>8 DEF Decide, IInv, TypeOK
  <2>2. lo \in DOMAIN list /\ lo + 1 \in DOMAIN list /\ lo \in 0..Len(list)
    BY <1>4, <2>1
  <2>3. CASE FitsAfter(list, lo, cur)
    BY <1>1, <1>2, <1>3, <1>5, <1>8, <2>2, <2>3 DEF Decide
  <2>4. CASE ~FitsAfter(list, lo, cur)
    <3>1. ~(list[lo].ed < cur.st) \/ ~(cur.ed < list[lo + 1].st)
      BY <2>1, <2>4 DEF FitsAfter
    <3>2. \/ Mid2(list[lo]) < Mid2(cur) /\ Mid2(cur) < Mid2(list[lo + 1])
          \/ \E k \in DOMAIN list : Mid2(list[k]) = Mid2(cur)
      BY <2>1 DEF IInv, Bracketed, Bracket
    <3>3. \E k \in DOMAIN list : ~File!Apart(list[k], cur)
      <4>1. CASE Mid2(list[lo]) < Mid2(cur) /\ Mid2(cur) < Mid2(list[lo + 1])
        <5>0. /\ list[lo].st \in Int /\ list[lo].ed \in Int /\ cur.st \in Int
              /\ list[lo + 1].st \in Int /\ list[lo + 1].ed \in Int /\ cur.ed \in Int
              /\ list[lo].st <= list[lo].ed /\ list[lo + 1].st <= list[lo + 1].ed
              /\ cur.st <= cur.ed
          BY <1>6, <2>2
        <5>1. ~File!Apart(list[lo], cur) \/ ~File!Apart(list[lo + 1], cur)
          <6> HIDE DEF list
          <6> QED
            BY <3>1, <4>1, <5>0 DEF File!Apart, Mid2
        <5> QED
          BY <2>2, <5>1
      <4>2. CASE \E k \in DOMAIN list : Mid2(list[k]) = Mid2(cur)
        BY <1>6, <4>2 DEF File!Apart, Mid2
      <4> QED
        BY <3>2, <4>1, <4>2
    <3>4. Conflict
      BY <1>8, <2>4 DEF Decide
    <3> QED
      BY <1>1, <1>2, <1>3, <3>3, <3>4
  <2> QED
    BY <2>3, <2>4
<1> QED
  BY <1>7, <1>8

\* While the lists stay, so do the invariants about them.
LEMMA SameLists ==
  ASSUME IInv, UNCHANGED <<regs, waiting>>, cur' = NoInterval \/ cur' = cur
  PROVE  ListsSorted' /\ OfOneProblem' /\ CallsFirst'
<1>1. ListsSorted' /\ OfOneProblem'
  BY DEF IInv, ListsSorted, Sorted, OfOneProblem
<1>2. CallsFirst'
  BY DEF IInv, CallsFirst
<1> QED
  BY <1>1, <1>2

\* Fewer intervals wait, of the same problem.
LEMMA FewerWait ==
  ASSUME IInv, waiting' \subseteq waiting
  PROVE  OfOneProblem' /\ waiting' \subseteq Asked
BY DEF IInv, OfOneProblem, TypeOK

LEMMA PlaceArgumentIInv ==
  ASSUME IInv, PlaceArgument PROVE IInv'
<1>1. waiting' \subseteq waiting /\ UNCHANGED <<cur, reg, lo, hi>>
  BY DEF PlaceArgument
<1>2. stopped' \in {"no", "done", "full", "307"}
  BY DEF PlaceArgument, IInv, TypeOK
<1>3. cur = NoInterval
  BY DEF PlaceArgument, Ready
<1>4. hi = 0
  BY <1>3 DEF IInv, Bracketed, TypeOK
<1>5. OfOneProblem' /\ waiting' \subseteq Asked
  BY <1>1, FewerWait
<1>6. PassedOver' /\ Bracketed'
  BY <1>1, <1>3, <1>4 DEF PassedOver, Bracketed
<1>7. CASE UNCHANGED regs
  <2>1. TypeOK'
    BY <1>1, <1>2, <1>5, <1>7 DEF IInv, TypeOK
  <2>2. ListsSorted'
    BY <1>7 DEF IInv, ListsSorted, Sorted
  <2>3. CallsFirst'
    BY <1>1, <1>7 DEF IInv, CallsFirst
  <2> QED
    BY <1>5, <1>6, <2>1, <2>2, <2>3 DEF IInv
<1>8. CASE \E r \in Reg0 \ Clobbered, i \in Asked : Placed(r, i)
  <2>1. PICK r \in Reg0 \ Clobbered, i \in Asked : Placed(r, i)
    BY <1>8
  <2>2. /\ regs' \in [Reg0 -> Seq(Asked)] /\ ListsSorted'
        /\ \A q \in Reg0 : q # r => regs'[q] = regs[q]
    BY <2>1, PlacedStep
  <2>3. TypeOK'
    BY <1>1, <1>2, <1>4, <1>5, <2>2 DEF IInv, TypeOK
  <2>4. CallsFirst'
    <3> SUFFICES ASSUME NEW j \in waiting', j.type = "call"
                 PROVE  cur' = NoInterval /\ \A k \in DOMAIN regs'[j.pin] : regs'[j.pin][k].ed < j.st
      BY DEF CallsFirst
    <3>1. j \in waiting /\ j \in Asked /\ j.pin \in Clobbered /\ j.pin \in Reg0
      BY <1>1, <1>5, AskedShape, RegisterNumbers
    <3>2. regs'[j.pin] = regs[j.pin]
      BY <2>1, <2>2, <3>1
    <3> QED
      BY <1>1, <3>1, <3>2 DEF IInv, CallsFirst
  <2> QED
    BY <1>5, <1>6, <2>2, <2>3, <2>4 DEF IInv
<1> QED
  BY <1>7, <1>8, PlaceArgumentPlaces

LEMMA ReserveIInv ==
  ASSUME IInv, Reserve PROVE IInv'
<1>1. PICK i \in waiting : /\ i.type = "call" /\ Heaviest(i) /\ Placed(i.pin, i)
                           /\ regs' = [regs EXCEPT ![i.pin] = Append(@, i)]
                           /\ waiting' = waiting \ {i}
  BY ReservePlaces
<1>2. UNCHANGED <<cur, reg, lo, hi, stopped>> /\ cur = NoInterval
  BY <1>1 DEF Reserve, Heaviest, Ready
<1>3. hi = 0
  BY <1>2 DEF IInv, Bracketed, TypeOK
<1>4. OfOneProblem' /\ waiting' \subseteq Asked
  BY <1>1, FewerWait
<1>5. PassedOver' /\ Bracketed'
  BY <1>2, <1>3 DEF PassedOver, Bracketed
<1>6. /\ regs' \in [Reg0 -> Seq(Asked)] /\ ListsSorted'
      /\ \A q \in Reg0 : q # i.pin => regs'[q] = regs[q]
  BY <1>1, PlacedStep
<1>7. TypeOK'
  BY <1>2, <1>3, <1>4, <1>6 DEF IInv, TypeOK
<1>8. CallsFirst'
  <2> SUFFICES ASSUME NEW j \in waiting', j.type = "call"
               PROVE  \A k \in DOMAIN regs'[j.pin] : regs'[j.pin][k].ed < j.st
    BY <1>2 DEF CallsFirst
  <2>1. j \in waiting /\ j # i /\ i \in Asked /\ j \in Asked
    BY <1>1, <1>4 DEF IInv, TypeOK
  <2>2. \A k \in DOMAIN regs[j.pin] : regs[j.pin][k].ed < j.st
    BY <2>1 DEF IInv, CallsFirst
  <2>3. /\ i.ed = i.st /\ i.st \in Int /\ j.st \in Int
        /\ i.pin \in Reg0 /\ j.pin \in Reg0
    BY <1>1, <2>1, AskedShape, RegisterNumbers
  <2>4. CASE j.pin # i.pin
    BY <1>6, <2>2, <2>3, <2>4
  <2>5. CASE j.pin = i.pin
    <3>1. PICK p \in Problems : waiting \subseteq p
      BY DEF IInv, OfOneProblem
    <3>2. Wellformed(p)
      BY ScanAssumption
    <3>3. i.st # j.st
      BY <1>1, <2>1, <2>5, <3>1, <3>2 DEF Wellformed
    <3>4. j \in Candidates
      BY <2>1 DEF Candidates
    <3>5. ~Before(j, i)
      BY <1>1, <3>4 DEF Heaviest
    <3>6. ~(j.st < i.st)
      BY <1>1, <3>5 DEF Before
    <3>7. i.ed < j.st
      BY <2>3, <3>3, <3>6
    <3>8. regs[i.pin] \in Seq(Asked) /\ regs'[i.pin] = Append(regs[i.pin], i)
      BY <1>1, <2>3 DEF IInv, TypeOK
    <3>9. ASSUME NEW k \in DOMAIN regs'[j.pin] PROVE regs'[j.pin][k].ed < j.st
      <4>1. /\ k \in 1..(Len(regs[i.pin]) + 1) /\ Len(regs[i.pin]) \in Nat
            /\ \A n \in 1..Len(regs[i.pin]) : Append(regs[i.pin], i)[n] = regs[i.pin][n]
            /\ Append(regs[i.pin], i)[Len(regs[i.pin]) + 1] = i
        BY <2>1, <2>5, <3>8, <3>9, AppendProperties
      <4>2. CASE k = Len(regs[i.pin]) + 1
        BY <2>5, <3>7, <3>8, <4>1, <4>2
      <4>3. CASE k \in 1..Len(regs[i.pin])
        <5>1. k \in DOMAIN regs[j.pin] /\ regs'[j.pin][k] = regs[j.pin][k]
          BY <2>5, <3>8, <4>1, <4>3
        <5> QED
          BY <2>2, <5>1
      <4> QED
        BY <4>1, <4>2, <4>3
    <3> QED
      BY <3>9
  <2> QED
    BY <2>4, <2>5
<1> QED
  BY <1>4, <1>5, <1>6, <1>7, <1>8 DEF IInv

LEMMA TakeIInv ==
  ASSUME IInv, Take PROVE IInv'
<1>1. /\ waiting' \subseteq waiting /\ cur' \in waiting
      /\ reg' = 0 /\ lo' = 0 /\ hi' = 0 /\ UNCHANGED <<regs, stopped>>
  BY DEF Take
<1>2. OfOneProblem' /\ waiting' \subseteq Asked
  BY <1>1, FewerWait
<1>3. TypeOK'
  <2>1. Registers \in Nat
    BY RegisterAssumption
  <2> QED
    BY <1>1, <1>2, <2>1 DEF IInv, TypeOK
<1>4. ListsSorted'
  BY <1>1 DEF IInv, ListsSorted, Sorted
<1>5. CallsFirst'
  BY <1>1, NoCallWaits DEF CallsFirst
<1>6. PassedOver' /\ Bracketed'
  BY <1>1 DEF PassedOver, Bracketed, Reg0
<1> QED
  BY <1>2, <1>3, <1>4, <1>5, <1>6 DEF IInv

LEMMA SearchIInv ==
  ASSUME IInv, TryRegister \/ Decide PROVE IInv'
<1>1. Searching /\ reg \in Reg0 /\ cur \in Asked
  BY SearchSteps
<1>2. TypeOK /\ waiting' = waiting /\ stopped' = stopped
  <2>1. waiting' = waiting /\ stopped' = stopped
    BY SearchSteps DEF Conflict
  <2> QED
    BY <2>1 DEF IInv
<1>3. OfOneProblem' /\ waiting' \subseteq Asked
  BY <1>2, FewerWait
<1>4. cur # NoInterval /\ \A j \in waiting' : j.type # "call"
  BY <1>1, <1>2, NoCallWaits DEF Searching
<1>5. CallsFirst'
  BY <1>4 DEF CallsFirst
<1>6. Registers \in Nat /\ reg \in 0..Registers /\ reg < Registers /\ reg + 1 \in 0..Registers
  BY <1>1, RegisterAssumption DEF Reg0
<1>7. CASE Placed(reg, cur) /\ cur' = NoInterval /\ reg' = 0 /\ hi' = 0 /\ lo' = 0
  <2>1. regs' \in [Reg0 -> Seq(Asked)] /\ ListsSorted'
    BY <1>7, PlacedStep
  <2>2. TypeOK'
    BY <1>2, <1>3, <1>6, <1>7, <2>1 DEF TypeOK
  <2>3. PassedOver' /\ Bracketed'
    BY <1>7 DEF PassedOver, Bracketed
  <2> QED
    BY <1>3, <1>5, <2>1, <2>2, <2>3 DEF IInv
<1>8. CASE Conflict /\ \E k \in DOMAIN regs[reg] : ~File!Apart(regs[reg][k], cur)
  <2>1. TypeOK'
    BY <1>2, <1>6, <1>8 DEF TypeOK, Conflict
  <2>2. ListsSorted'
    BY <1>8 DEF Conflict, IInv, ListsSorted, Sorted
  <2>3. regs[reg] # <<>>
    BY <1>8
  <2>4. PassedOver'
    <3> SUFFICES ASSUME NEW r \in Reg0, r < reg' PROVE regs'[r] # <<>>
      BY DEF PassedOver
    <3>1. r < reg \/ r = reg
      BY <1>1, <1>6, <1>8 DEF Conflict, Reg0
    <3> QED
      BY <1>4, <1>8, <2>3, <3>1 DEF IInv, PassedOver, Conflict
  <2>5. Bracketed'
    BY <1>8 DEF Bracketed, Conflict
  <2> QED
    BY <1>3, <1>5, <2>1, <2>2, <2>4, <2>5 DEF IInv
<1>9. CASE /\ lo' = 1 /\ hi' = Len(regs[reg]) /\ lo' < hi'
           /\ Mid2(regs[reg][1]) < Mid2(cur) /\ Mid2(cur) < Mid2(regs[reg][hi'])
           /\ UNCHANGED <<waiting, cur, reg, regs, stopped>>
  <2>1. regs[reg] \in Seq(Asked) /\ Len(regs[reg]) \in Nat
    BY <1>1, <1>2 DEF TypeOK
  <2>2. TypeOK'
    BY <1>2, <1>6, <1>9, <2>1 DEF TypeOK
  <2>3. ListsSorted'
    BY <1>9 DEF IInv, ListsSorted, Sorted
  <2>4. PassedOver'
    BY <1>9 DEF IInv, PassedOver
  <2>5. Bracketed'
    BY <1>4, <1>9 DEF Bracketed, Bracket, Mid2
  <2> QED
    BY <1>3, <1>5, <2>2, <2>3, <2>4, <2>5 DEF IInv
<1> QED
  BY <1>7, <1>8, <1>9, SearchSteps

LEMMA NarrowIInv ==
  ASSUME IInv, Narrow PROVE IInv'
<1> DEFINE list == regs[reg]
           up == Upper(lo, hi)
           low == Lower(lo, hi)
<1>1. Searching /\ hi - lo > 1 /\ UNCHANGED <<waiting, cur, reg, regs, stopped>>
  BY DEF Narrow
<1>2. /\ lo \in Nat /\ hi \in Nat /\ 0 < lo /\ hi <= Len(list) /\ reg < Registers
      /\ reg \in 0..Registers /\ Registers \in Nat
  <2>1. lo \in Nat /\ hi \in Nat /\ hi > 0
    BY <1>1 DEF IInv, TypeOK
  <2> QED
    BY <2>1, RegisterAssumption DEF IInv, TypeOK
<1>3. /\ up \in Nat /\ lo < up /\ up < hi
      /\ low \in Nat /\ lo < low /\ low < hi /\ low <= up /\ up <= low + 1
  BY <1>1, <1>2 DEF Upper, Lower
<1>4. \/ Mid2(cur) > Mid2(list[lo]) /\ Mid2(cur) < Mid2(list[up]) /\ hi' = up /\ lo' = lo
      \/ /\ ~(Mid2(cur) > Mid2(list[lo]) /\ Mid2(cur) < Mid2(list[up]))
         /\ lo' = low /\ hi' = hi
  BY DEF Narrow
<1>5. list \in Seq(Asked) /\ Sorted(list) /\ DOMAIN list = 1..Len(list) /\ Len(list) \in Nat
  BY <1>2 DEF IInv, TypeOK, ListsSorted, Reg0
<1>6. cur \in Asked /\ cur # NoInterval
  BY <1>1 DEF IInv, TypeOK, Searching
<1>7. TypeOK'
  <2>1. lo' \in Nat /\ hi' \in Nat /\ 0 < lo' /\ lo' < hi' /\ hi' <= Len(list)
    <3> HIDE DEF list, up, low
    <3> QED
      BY <1>2, <1>3, <1>4, <1>5, <1>1
  <2>2. list' = list
    BY <1>1
  <2> QED
    BY <1>1, <1>2, <2>1, <2>2 DEF IInv, TypeOK
<1>8. ListsSorted' /\ OfOneProblem' /\ CallsFirst'
  BY <1>1, SameLists
<1>9. PassedOver'
  BY <1>1 DEF IInv, PassedOver
<1>10. Bracketed'
  <2>0. hi > 0
    BY <1>1, <1>2
  <2>1. \/ Mid2(list[lo]) < Mid2(cur) /\ Mid2(cur) < Mid2(list[hi])
        \/ \E k \in DOMAIN list : Mid2(list[k]) = Mid2(cur)
    BY <2>0 DEF IInv, Bracketed, Bracket
  <2>2. \A k \in DOMAIN list : Mid2(list[k]) \in Int
    BY <1>5, AskedShape DEF Mid2
  <2>3. /\ lo \in DOMAIN list /\ up \in DOMAIN list /\ low \in DOMAIN list /\ hi \in DOMAIN list
    <3> HIDE DEF list, up, low
    <3> QED
      BY <1>1, <1>2, <1>3, <1>5
  <2>4. /\ Mid2(list[lo]) \in Int /\ Mid2(list[up]) \in Int /\ Mid2(list[low]) \in Int
        /\ Mid2(list[hi]) \in Int /\ Mid2(cur) \in Int
    BY <1>6, <2>2, <2>3, AskedShape DEF Mid2
  <2>5. low < up => Mid2(list[low]) < Mid2(list[up])
    <3> SUFFICES ASSUME low < up PROVE Mid2(list[low]) < Mid2(list[up])
      OBVIOUS
    <3>1. list[low].ed < list[up].st
      BY <1>5, <2>3 DEF Sorted
    <3>2. /\ list[low].st \in Int /\ list[low].ed \in Int /\ list[low].st <= list[low].ed
          /\ list[up].st \in Int /\ list[up].ed \in Int /\ list[up].st <= list[up].ed
      <4>1. list[low] \in Asked /\ list[up] \in Asked
        BY <1>5, <2>3
      <4> QED
        BY <4>1, AskedShape
    <3> QED
      BY <3>1, <3>2 DEF Mid2
  <2>6. \/ Mid2(list[lo']) < Mid2(cur) /\ Mid2(cur) < Mid2(list[hi'])
        \/ \E k \in DOMAIN list : Mid2(list[k]) = Mid2(cur)
    <3> HIDE DEF list, up, low, Mid2
    <3>1. CASE \E k \in DOMAIN list : Mid2(list[k]) = Mid2(cur)
      BY <3>1
    <3>2. CASE ~\E k \in DOMAIN list : Mid2(list[k]) = Mid2(cur)
      <4>1. Mid2(list[lo]) < Mid2(cur) /\ Mid2(cur) < Mid2(list[hi])
        BY <2>1, <3>2
      <4>2. Mid2(list[low]) # Mid2(cur) /\ Mid2(list[up]) # Mid2(cur)
        BY <2>3, <3>2
      <4>3. CASE Mid2(cur) > Mid2(list[lo]) /\ Mid2(cur) < Mid2(list[up]) /\ hi' = up /\ lo' = lo
        BY <4>1, <4>3
      <4>4. CASE /\ ~(Mid2(cur) > Mid2(list[lo]) /\ Mid2(cur) < Mid2(list[up]))
                 /\ lo' = low /\ hi' = hi
        <5>1. Mid2(list[up]) < Mid2(cur)
          BY <2>4, <4>1, <4>2, <4>4
        <5>2. low = up \/ low < up
          BY <1>3
        <5>3. Mid2(list[low]) < Mid2(cur)
          BY <2>4, <2>5, <5>1, <5>2
        <5> QED
          BY <4>1, <4>4, <5>3
      <4> QED
        BY <1>4, <4>3, <4>4
    <3> QED
      BY <3>1, <3>2
  <2>7. Bracket(list)'
    BY <1>1, <2>6 DEF Bracket, Mid2
  <2> QED
    BY <1>1, <1>6, <2>7 DEF Bracketed
<1> QED
  BY <1>7, <1>8, <1>9, <1>10 DEF IInv

LEMMA NoRegisterIInv ==
  ASSUME IInv, NoRegister PROVE IInv'
<1>1. /\ Searching /\ reg >= Registers /\ cur' = NoInterval /\ reg' = 0
      /\ UNCHANGED <<waiting, lo, hi, regs, stopped>>
  BY DEF NoRegister
<1>2. hi = 0 /\ Registers \in Nat
  BY <1>1, RegisterAssumption DEF IInv, TypeOK
<1>3. TypeOK'
  BY <1>1, <1>2 DEF IInv, TypeOK
<1>4. ListsSorted' /\ OfOneProblem' /\ CallsFirst'
  BY <1>1, SameLists
<1>5. PassedOver' /\ Bracketed'
  BY <1>1, <1>2 DEF PassedOver, Bracketed
<1> QED
  BY <1>3, <1>4, <1>5 DEF IInv

LEMMA NextIInv ==
  ASSUME IInv, [ScanNext]_scanVars PROVE IInv'
<1>1. CASE Count
  <2>1. UNCHANGED <<waiting, cur, reg, lo, hi, regs>> /\ stopped' \in {"full", "done"}
    BY <1>1 DEF Count
  <2>2. ListsSorted' /\ OfOneProblem' /\ CallsFirst'
    BY <2>1, SameLists
  <2> QED
    BY <2>1, <2>2 DEF IInv, TypeOK, PassedOver, Bracketed, Bracket
<1>2. CASE UNCHANGED scanVars
  <2>1. ListsSorted' /\ OfOneProblem' /\ CallsFirst'
    BY <1>2, SameLists DEF scanVars
  <2> QED
    BY <1>2, <2>1 DEF scanVars, IInv, TypeOK, PassedOver, Bracketed, Bracket
<1> QED
  BY <1>1, <1>2, PlaceArgumentIInv, ReserveIInv, TakeIInv, SearchIInv, NarrowIInv,
     NoRegisterIInv DEF ScanNext

LEMMA Inductive == Spec => []IInv
<1>1. Init => IInv
  BY InitIInv
<1>2. IInv /\ [ScanNext]_scanVars => IInv'
  BY NextIInv
<1> QED
  BY <1>1, <1>2, PTL DEF Spec

-----------------------------------------------------------------------------
(* The theorems. *)

\* linear_scan_reg_alloc.cpp:498-526: at any moment the search holds a real
\* register and two different elements of its list, in order and within it.
THEOREM ScanTypeCorrect == Spec => []TypeOK
<1>1. IInv => TypeOK
  BY DEF IInv
<1> QED
  BY <1>1, Inductive, PTL

\* Every step of the scan gives one interval to one register that is free
\* over all of it, or gives none.
LEMMA ScanStep ==
  ASSUME IInv, [ScanNext]_scanVars
  PROVE  File!Next \/ UNCHANGED held
<1>1. CASE PlaceArgument
  BY <1>1, PlaceArgumentPlaces, PlacedStep DEF held
<1>2. CASE Reserve
  BY <1>2, ReservePlaces, PlacedStep
<1>3. CASE TryRegister \/ Decide
  <2>1. CASE Placed(reg, cur)
    BY <2>1, PlacedStep
  <2>2. CASE UNCHANGED regs
    BY <2>2 DEF held
  <2> QED
    BY <1>3, <2>1, <2>2, SearchSteps DEF Conflict
<1>4. CASE Take \/ Narrow \/ NoRegister \/ Count \/ UNCHANGED scanVars
  <2>1. UNCHANGED regs
    BY <1>4 DEF Take, Narrow, NoRegister, Count, scanVars
  <2> QED
    BY <2>1 DEF held
<1> QED
  BY <1>1, <1>2, <1>3, <1>4 DEF ScanNext

\* linear_scan_reg_alloc.cpp:359-545: whatever intervals there are, forced on
\* arguments, appended for calls or found a place by the search, the scan only
\* does what a register file allows.
THEOREM ScanImplementsFile == Spec => Implements
<1>1. Init => File!Init
  <2> SUFFICES ASSUME Init PROVE held = [r \in Reg0 |-> {}]
    BY DEF File!Init, held
  <2>1. regs = [r \in Reg0 |-> <<>>]
    BY DEF Init
  <2> QED
    BY <2>1 DEF held
<1>2. IInv /\ [ScanNext]_scanVars => [File!Next]_held
  BY ScanStep
<1> QED
  BY <1>1, <1>2, Inductive, PTL DEF Implements, File!Spec, Spec, held

\* linear_scan_reg_alloc.cpp:359-545: no register ever holds two intervals
\* that cover a common point.
THEOREM OneIntervalAtATime == Spec => []File!OneAtATime
<1>1. IInv => File!OneAtATime
  <2> SUFFICES ASSUME IInv, NEW r \in Reg0,
                      NEW k \in DOMAIN regs[r], NEW l \in DOMAIN regs[r], k # l
               PROVE  File!Apart(regs[r][k], regs[r][l])
    BY DEF File!OneAtATime
  <2>1. regs[r] \in Seq(Asked) /\ Sorted(regs[r])
    BY DEF IInv, TypeOK, ListsSorted
  <2>2. k \in Nat /\ l \in Nat
    BY <2>1
  <2>3. k < l \/ l < k
    BY <2>2
  <2> QED
    BY <2>1, <2>3 DEF Sorted, File!Apart
<1> QED
  BY <1>1, Inductive, PTL

\* linear_scan_reg_alloc.cpp:489-545: the search by midpoints never passes a
\* register over in which there is room.
THEOREM SearchMissesNoGap == Spec => NoNeedlessConflict
<1>1. ASSUME IInv, ScanNext, reg' = reg + 1
      PROVE  \E k \in DOMAIN regs[reg] : ~File!Apart(regs[reg][k], cur)
  <2>1. reg \in Nat /\ reg + 1 # reg /\ reg + 1 # 0
    BY <1>1, RegisterAssumption DEF IInv, TypeOK
  <2>2. TryRegister \/ Decide
    <3>1. ~(reg' = 0 \/ reg' = reg)
      BY <1>1, <2>1
    <3> QED
      BY <1>1, <3>1 DEF ScanNext, PlaceArgument, Reserve, Take, Narrow, NoRegister, Count
  <2> QED
    BY <1>1, <2>1, <2>2, SearchSteps
<1>2. IInv /\ [ScanNext]_scanVars =>
        [reg' = reg + 1 => \E k \in DOMAIN regs[reg] : ~File!Apart(regs[reg][k], cur)]_scanVars
  BY <1>1
<1> QED
  BY <1>2, Inductive, PTL DEF Spec, NoNeedlessConflict

\* linear_scan_reg_alloc.cpp:549-569: when an interval finds no register the
\* number of registers used is beyond the limit the code checks.
THEOREM NothingLostUnnoticed == Spec => []LostIsReported
<1>1. ASSUME IInv, cur # NoInterval, reg = Registers PROVE Full
  <2>1. Registers \in Nat /\ Registers > 0 /\ Margin \in Nat /\ Margin > 0
    BY RegisterAssumption, ScanAssumption
  <2>2. {r \in Reg0 : regs[r] # <<>>} = Reg0
    BY <1>1, <2>1 DEF IInv, PassedOver, Reg0
  <2>3. Registers - 1 \in Reg0 /\ \A s \in Reg0 : s <= Registers - 1
    BY <2>1 DEF Reg0
  <2>4. (CHOOSE r \in Reg0 : \A s \in Reg0 : s <= r) = Registers - 1
    <3>1. \A r \in Reg0 : r \in Int /\ r <= Registers - 1
      BY <2>1 DEF Reg0
    <3>2. PICK r \in Reg0 : /\ \A s \in Reg0 : s <= r
                            /\ r = (CHOOSE q \in Reg0 : \A s \in Reg0 : s <= q)
      BY <2>3
    <3> QED
      BY <2>1, <2>3, <3>1, <3>2
  <2>5. UsedRegisters = Registers
    <3> DEFINE used == {r \in Reg0 : regs[r] # <<>>}
    <3>1. used = Reg0 /\ used # {}
      BY <2>2, <2>3
    <3>2. UsedRegisters = IF used = {} THEN 0 ELSE 1 + CHOOSE r \in used : \A s \in used : s <= r
      BY DEF UsedRegisters
    <3> HIDE DEF used
    <3>3. UsedRegisters = 1 + CHOOSE r \in Reg0 : \A s \in Reg0 : s <= r
      BY <3>1, <3>2
    <3>4. UsedRegisters = 1 + (Registers - 1)
      BY <2>4, <3>3
    <3> QED
      BY <2>1, <3>4
  <2> QED
    BY <2>1, <2>5 DEF Full
<1>2. IInv => LostIsReported
  BY <1>1 DEF LostIsReported
<1> QED
  BY <1>2, Inductive, PTL
=============================================================================
