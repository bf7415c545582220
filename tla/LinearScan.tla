----------------------------- MODULE LinearScan -----------------------------
(***************************************************************************)
(* The linear scan itself: AsmBuilder::linear_scan_reg_alloc up to the     *)
(* count of the registers used (src/asm/linear_scan_reg_alloc.cpp).  The   *)
(* intervals of the values of a function, the heaviest first, are each put *)
(* into the first virtual register with room for it, found by a search in  *)
(* the register's list, which is kept in the order of the points.          *)
(*                                                                         *)
(* An interval is a record                                                 *)
(*   v      the value (an operand)                                         *)
(*   st, ed its first and last point (an argument's first is -1)           *)
(*   type   "local", "arg", "call" (a call clobbers the register), "global"*)
(*          or "imm"                                                       *)
(*   pin    the register a call clobbers; for an argument its number       *)
(*   onStack whether an argument comes on the stack                        *)
(*   num, den  its weight, num/den                                         *)
(*   uses   the points it is used at                                       *)
(*   data   the bytes of the variable an alloca makes, or 0                *)
(* The float registers are a second bank, treated by the same code.        *)
(***************************************************************************)
EXTENDS ArmRegisters, Sequences, FiniteSets

CONSTANTS
  Problems,    \* the sets of intervals to allocate registers for
  Margin       \* the virtual registers that must stay unused, 10

\* What live_interval_analysis makes: see IntervalsOf in LiveIntervals.
Wellformed(intervals) ==
  /\ \A i \in intervals :
       /\ i.st \in Int /\ i.ed \in Int /\ i.st <= i.ed
       /\ i.type = "call" => i.pin \in Clobbered /\ i.st = i.ed
       /\ i.type = "arg" /\ ~i.onStack => i.pin \in 0..(ArgRegs - 1)
       /\ i.type \in {"local", "arg", "call", "global", "imm"}
  /\ \A i, j \in intervals :
       i # j /\ i.pin = j.pin =>
         /\ ~(i.type = "call" /\ j.type = "call" /\ i.st = j.st)
         /\ ~(i.type = "arg" /\ j.type = "arg" /\ ~i.onStack /\ ~j.onStack)

ASSUME ScanAssumption ==
  /\ Margin \in Nat \ {0}
  /\ \A p \in Problems : Wellformed(p)

VARIABLES
  waiting,  \* intervals without a register yet
  cur,      \* the interval being placed, or NoInterval
  reg,      \* the register it is tried on
  lo, hi,   \* the part of the register's list searched; hi = 0 before a search
  regs,     \* register -> its intervals in the order of the points
  stopped   \* "no", "done", "full", or the number of the error

scanVars == <<waiting, cur, reg, lo, hi, regs, stopped>>

NoInterval == [v |-> <<"none", 0>>, st |-> 0, ed |-> 0, type |-> "none"]
Reg0 == 0..(Registers - 1)

----------------------------------------------------------------------------
(* Intervals.                                                              *)

\* Twice the midpoint: `ave' without its halves.
Mid2(i) == i.st + i.ed

\* Slip: calls are weighed like the rest.
ByWeight(i, j) == i.num * j.den > j.num * i.den

\* The order of `sort' by weight: calls in the order of the code, then the
\* heaviest.  Intervals of one weight come in any order; those of one call are
\* for different registers, and are taken in the order of these.
Before(i, j) ==
  IF i.type = "call" THEN j.type # "call" \/ i.st < j.st \/ (i.st = j.st /\ i.pin < j.pin)
                     ELSE j.type # "call" /\ i.num * j.den > j.num * i.den

InRegister(i) == i.type = "arg" /\ ~i.onStack

\* std::vector::insert, right after element k.
Insert(list, k, i) ==
  [n \in 1..(Len(list) + 1) |->
     IF n <= k THEN list[n] ELSE IF n = k + 1 THEN i ELSE list[n - 1]]

\* Slip: one interval may begin where the other ends.
FitsTouching(list, k, i) ==
  (k > 0 => list[k].ed <= i.st) /\ (k < Len(list) => i.ed <= list[k + 1].st)

\* The place for i in a list, right after element k.
FitsAfter(list, k, i) ==
  /\ k > 0 => list[k].ed < i.st
  /\ k < Len(list) => i.ed < list[k + 1].st

StartScan(intervals) ==
  /\ waiting' = intervals /\ cur' = NoInterval /\ reg' = 0 /\ lo' = 0 /\ hi' = 0
  /\ regs' = [r \in Reg0 |-> <<>>] /\ stopped' = "no"

Init ==
  /\ waiting \in Problems /\ cur = NoInterval /\ reg = 0 /\ lo = 0 /\ hi = 0
  /\ regs = [r \in Reg0 |-> <<>>] /\ stopped = "no"

----------------------------------------------------------------------------
(* Steps.                                                                  *)

Ready == stopped = "no" /\ cur = NoInterval

\* force_reg_alloc: the arguments that come in registers get the ones after
\* these.  They do not meet, so one order stands for all.
PlaceArgument ==
  /\ Ready
  /\ \E i \in waiting :
       /\ InRegister(i) /\ \A j \in waiting : InRegister(j) => i.pin <= j.pin
       /\ LET r == i.pin + ArgRegs
              room == {k \in 0..Len(regs[r]) : FitsAfter(regs[r], k, i)}
          IN IF room = {}
             THEN stopped' = "307" /\ UNCHANGED regs
             ELSE \E k \in room :
                    regs' = [regs EXCEPT ![r] = Insert(@, k, i)] /\ UNCHANGED stopped
       /\ waiting' = waiting \ {i}
  /\ UNCHANGED <<cur, reg, lo, hi>>

\* Arguments that come on the stack wait for no register.
Candidates == {i \in waiting : i.type # "arg"}

\* The next of the sorted list, when the arguments have their registers.
Heaviest(i) ==
  /\ Ready /\ ~\E j \in waiting : InRegister(j)
  /\ i \in Candidates /\ \A j \in Candidates : ~Before(j, i)

\* What a call clobbers is appended unchecked.
Reserve ==
  /\ \E i \in waiting :
       /\ Heaviest(i) /\ i.type = "call"
       /\ regs' = [regs EXCEPT ![i.pin] = Append(@, i)]
       /\ waiting' = waiting \ {i}
  /\ UNCHANGED <<cur, reg, lo, hi, stopped>>

Take ==
  /\ \E i \in waiting :
       /\ Heaviest(i) /\ i.type # "call"
       /\ cur' = i /\ waiting' = waiting \ {i}
  /\ reg' = 0 /\ lo' = 0 /\ hi' = 0
  /\ UNCHANGED <<regs, stopped>>

Searching == stopped = "no" /\ cur # NoInterval

PutAfter(k) ==
  /\ regs' = [regs EXCEPT ![reg] = Insert(@, k, cur)]
  /\ cur' = NoInterval /\ reg' = 0 /\ lo' = 0 /\ hi' = 0
  /\ UNCHANGED <<waiting, stopped>>

Conflict ==
  /\ reg' = reg + 1 /\ lo' = 0 /\ hi' = 0
  /\ UNCHANGED <<waiting, cur, regs, stopped>>

\* Slip: the ends are all that is looked at.
AlwaysAtAnEnd(list, i) == TRUE

\* Where the midpoint lies outside the list only the ends are looked at.
AtAnEnd(list, i) == Mid2(i) <= Mid2(list[1]) \/ Mid2(i) >= Mid2(list[Len(list)])

TryRegister ==
  /\ Searching /\ hi = 0 /\ reg < Registers
  /\ LET list == regs[reg]
     IN \/ list = <<>> /\ PutAfter(0)
        \/ /\ list # <<>> /\ AtAnEnd(list, cur)
           /\ IF cur.ed < list[1].st THEN PutAfter(0)
              ELSE IF cur.st > list[Len(list)].ed THEN PutAfter(Len(list))
              ELSE Conflict
        \/ /\ list # <<>> /\ ~AtAnEnd(list, cur)
           /\ lo' = 1 /\ hi' = Len(list)
           /\ UNCHANGED <<waiting, cur, reg, regs, stopped>>

\* Slip: the lower end stays where it is when two elements are left between.
LowerStuck(l, r) == (l + r - 1) \div 2

\* Slip: the lower end goes past the middle.
LowerPast(l, r) == (l + r) \div 2 + 1

\* The binary search: the two roundings of (l + r) / 2.
Upper(l, r) == (l + r + 1) \div 2
Lower(l, r) == (l + r) \div 2

Narrow ==
  /\ Searching /\ hi - lo > 1
  /\ LET list == regs[reg]
     IN IF Mid2(cur) > Mid2(list[lo]) /\ Mid2(cur) < Mid2(list[Upper(lo, hi)])
        THEN hi' = Upper(lo, hi) /\ UNCHANGED lo
        ELSE lo' = Lower(lo, hi) /\ UNCHANGED hi
  /\ UNCHANGED <<waiting, cur, reg, regs, stopped>>

Decide ==
  /\ Searching /\ hi > 0 /\ hi - lo <= 1
  /\ IF FitsAfter(regs[reg], lo, cur) THEN PutAfter(lo) ELSE Conflict

\* The loop over the registers ends without a word.
NoRegister ==
  /\ Searching /\ reg >= Registers
  /\ cur' = NoInterval /\ reg' = 0
  /\ UNCHANGED <<waiting, lo, hi, regs, stopped>>

\* use_int_reg_num: one more than the last register with an interval.
UsedRegisters ==
  LET used == {r \in Reg0 : regs[r] # <<>>}
  IN IF used = {} THEN 0 ELSE 1 + CHOOSE r \in used : \A s \in used : s <= r

\* Slip: the margin is forgotten.
NeverFull == UsedRegisters > Registers

Full == UsedRegisters > Registers - Margin

Count ==
  /\ Ready /\ Candidates = {} /\ ~\E i \in waiting : InRegister(i)
  /\ stopped' = IF Full THEN "full" ELSE "done"
  /\ UNCHANGED <<waiting, cur, reg, lo, hi, regs>>

ScanNext ==
  \/ PlaceArgument \/ Reserve \/ Take
  \/ TryRegister \/ Narrow \/ Decide \/ NoRegister \/ Count

Spec == Init /\ [][ScanNext]_scanVars

\* One thread, which always has a step to take until it stops.
FairSpec == Spec /\ WF_scanVars(ScanNext)

----------------------------------------------------------------------------
(* Properties.                                                             *)

Asked == UNION Problems

\* asm_builder.h:84, struct interval and the registers' lists; the part of a
\* list that is searched is one.
TypeOK ==
  /\ waiting \subseteq Asked /\ cur \in Asked \cup {NoInterval}
  /\ reg \in 0..Registers /\ lo \in Nat /\ hi \in Nat
  /\ hi > 0 => reg < Registers /\ 0 < lo /\ lo < hi /\ hi <= Len(regs[reg])
  /\ regs \in [Reg0 -> Seq(Asked)]
  /\ stopped \in {"no", "done", "full", "307"}

\* The scan gives registers as a register file may be given: no two intervals
\* in one register meet, whichever found its place by the search, was forced
\* on an argument or appended for a call, and none is taken back.
File == INSTANCE RegisterFile
          WITH Interval <- Asked, Register <- Reg0,
               held <- [r \in Reg0 |-> {regs[r][k] : k \in DOMAIN regs[r]}]

Implements == File!Spec

\* linear_scan_reg_alloc.cpp:489-545: a register is passed over only when one
\* of its intervals meets the one to be placed: the binary search by midpoints
\* misses no gap that is long enough.
NoNeedlessConflict ==
  [][reg' = reg + 1 => \E k \in DOMAIN regs[reg] : ~File!Apart(regs[reg][k], cur)]_scanVars

\* linear_scan_reg_alloc.cpp:561: an interval that found no register among all
\* is not lost unnoticed: the scan ends with an error.
LostIsReported == cur # NoInterval /\ reg = Registers => Full

\* The scan ends: the search narrows down to two neighbours.
Terminates == <>(stopped # "no")
=============================================================================
