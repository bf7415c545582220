---------------------------- MODULE MCLinearScan ----------------------------
(***************************************************************************)
(* The linear scan alone, on the intervals of the sample functions.        *)
(***************************************************************************)
EXTENDS LinearScan, SampleUnits

FunctionsOf(units) == UNION {{u.func[n] : n \in DOMAIN u.func} : u \in units}

MCProblems ==
  {IntervalsOf(f) : f \in FunctionsOf(Sums \cup Recursion \cup QuotientInLr
                                       \cup {Accumulate(<<2>>), Accumulate(<<1, 2, 3>>)})
                          \cup {Weigh(3), Weigh(4)}}
=============================================================================
