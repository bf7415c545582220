----------------------------- MODULE MCBackEnd -----------------------------
(***************************************************************************)
(* The sample units, translated and run.                                   *)
(***************************************************************************)
EXTENDS BackEnd, SampleUnits

\* Units in which it matters whether two constants of one number are one object.
SharingUnits == PressureUnits \cup CallUnits \cup MemoryUnits \cup EqualConstants

MCUnits ==
  SharingUnits \cup {Distinct(u) : u \in SharingUnits \cup Sums \cup Shapes \cup LoopUnits
                                       \cup DivisionUnits \cup ShiftUnits \cup WideUnits
                                       \cup Recursion}
MCProblems == {IntervalsOf(f) : f \in UNION {Translated(u) : u \in MCUnits \cup QuotientInLr}}
MCInputs == {2, -3}
=============================================================================
