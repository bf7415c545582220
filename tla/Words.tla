-------------------------------- MODULE Words --------------------------------
(***************************************************************************)
(* Two's complement numbers of Width bits, and C's division.               *)
(***************************************************************************)
EXTENDS Integers

CONSTANT Width   \* bits of an int and of a register, 32

Wrap(n) == LET span == 2^Width
               low  == n % span
           IN IF low >= span \div 2 THEN low - span ELSE low

Abs(n) == IF n < 0 THEN -n ELSE n

\* Towards zero.
Quotient(a, b) == IF (a < 0) = (b < 0) THEN Abs(a) \div Abs(b) ELSE -(Abs(a) \div Abs(b))
Remainder(a, b) == a - b * Quotient(a, b)

Comparisons == {"eq", "ne", "lt", "le", "gt", "ge"}
Holds(op, a, b) ==
  CASE op = "eq" -> a = b  [] op = "ne" -> a # b [] op = "lt" -> a < b
    [] op = "le" -> a <= b [] op = "gt" -> a > b [] op = "ge" -> a >= b
=============================================================================
