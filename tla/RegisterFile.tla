---------------------------- MODULE RegisterFile ----------------------------
(***************************************************************************)
(* What a register allocation promises, whatever the algorithm: a register *)
(* is given to an interval only while no other interval that holds it      *)
(* covers one of the same points, and it is never taken back.              *)
(***************************************************************************)
EXTENDS Integers

CONSTANTS
  Interval,    \* what asks for a register: records with fields st and ed
  Register

VARIABLE held  \* register -> the intervals that hold it

Apart(i, j) == i.ed < j.st \/ j.ed < i.st

Init == held = [r \in Register |-> {}]

Allocate(r, i) ==
  /\ \A j \in held[r] : Apart(i, j)
  /\ held' = [held EXCEPT ![r] = @ \cup {i}]

Next == \E r \in Register, i \in Interval : Allocate(r, i)

Spec == Init /\ [][Next]_held

\* At no point does a register hold the values of two intervals.
OneAtATime ==
  \A r \in Register : \A i, j \in held[r] : i = j \/ Apart(i, j)
=============================================================================
