------------------------------- MODULE Effects -------------------------------
(***************************************************************************)
(* passes/analysis/alias_analysis.cpp and inter_procedural_analysis.cpp:   *)
(* which variable an address leads to, and which functions write what      *)
(* their caller can see.                                                   *)
(***************************************************************************)
EXTENDS Mir

Unknown == <<"null", 0>>     \* nullptr

IsConst(o) == o[1] = "const"

----------------------------------------------------------------------------
(* AliasAnalysis.                                                          *)

\* getArrayPtr: back through the address computations and the loads.
RECURSIVE ArrayPtr(_, _)
ArrayPtr(f, v) ==
  LET d == Definer(f, v)
  IN IF d.op \in {"gep", "load"} THEN ArrayPtr(f, d.ops[1])
     ELSE IF d.op = "alloca" \/ v[1] = "global" THEN v ELSE Unknown

IsGlobal(v)   == v[1] = "global"
IsParam(f, v) == v[1] = "reg" /\ v[2] \in f.pointers /\ Definer(f, v).op = "alloca"
IsLocal(f, v) == ~IsGlobal(v) /\ ~IsParam(f, v)

\* alias: two variables of different kinds are taken to be different.
Alias(f, v, w) ==
  /\ v = w
  /\ \/ IsGlobal(v) /\ IsGlobal(w)
     \/ IsParam(f, v) /\ IsParam(f, w)
     \/ IsLocal(f, v) /\ IsLocal(f, w)

\* A value whose type is an address.
IsPointer(f, v) ==
  \/ IsGlobal(v) \/ Definer(f, v).op \in {"gep", "alloca"}
  \/ v[1] = "reg" /\ v[2] \in f.pointers
  \/ Definer(f, v).op = "load" /\ IsParam(f, Definer(f, v).ops[1])

----------------------------------------------------------------------------
(* InterProceduralAnalysis::run.                                           *)

CalleeOf(i) == IF i.op = "call" THEN i.ops[1][2] ELSE ""

\* A store to a global or through a parameter; that the parameter itself is put
\* into its variable counts too.
StoresOutside(f) ==
  \E i \in InstrsOf(f) : i.op = "store" /\ LET v == ArrayPtr(f, i.ops[2])
                                           IN IsGlobal(v) \/ IsParam(f, v)

\* Slip: the callers are not told.
OnlyItself(callers, side) == side

\* setCallerSideEffect: whoever calls a function with an effect has one.
RECURSIVE WithCallers(_, _)
WithCallers(callers, side) ==
  LET more == side \cup UNION {callers[n] : n \in side \cap DOMAIN callers}
  IN IF more = side THEN side ELSE WithCallers(callers, more)

\* Who calls each function, the library's among them.
CallersOf(func) ==
  [n \in DOMAIN func \cup Library |-> {m \in DOMAIN func : \E i \in InstrsOf(func[m]) : CalleeOf(i) = n}]

SideEffects(func) ==
  WithCallers(CallersOf(func), Library \cup {n \in DOMAIN func : StoresOutside(func[n])})

----------------------------------------------------------------------------
(* What is useful, for DeadCodeElimination.                                *)

\* markInstrUseful: some instructions, and what they are computed from.
RECURSIVE MarkUseful(_, _)
MarkUseful(all, useful) ==
  LET more == useful \cup {i \in all : i.r # 0 /\ \E u \in useful : Reg(i.r) \in ToSet(u.ops)}
  IN IF more = useful THEN useful ELSE MarkUseful(all, more)
=============================================================================
