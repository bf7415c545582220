----------------------------- MODULE MCUseChain -----------------------------
(* Instances of UseChain for TLC: one cfg with the instructions that are not *)
(* phis, one with two phis, and one that lets a loop phi receive the same    *)
(* value from inside and outside.                                            *)
EXTENDS UseChain, TLC

CONSTANTS Address, Access, Return   \* the plain instructions of an instance, by kind

\* A multiply-add, a load or store before LowerIR gives it an offset, a return of a value.
MCArity == [u \in Plain |-> IF u \in Address THEN {3} ELSE IF u \in Access THEN {1, 2} ELSE {1}]

\* The model values are interchangeable, except that Roots picks some instructions out.
Symmetry == Permutations(Labels) \cup Permutations(Phis)
=============================================================================
