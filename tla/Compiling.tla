------------------------------ MODULE Compiling ------------------------------
(***************************************************************************)
(* What every pass over one function changes.                              *)
(***************************************************************************)
EXTENDS Mir

VARIABLES
  fn,       \* the function being compiled
  failed    \* why the compiler stopped: "no", "hang", "segfault", or the
            \* number of the assertion it failed
=============================================================================
