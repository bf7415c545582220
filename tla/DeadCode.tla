------------------------------ MODULE DeadCode ------------------------------
(***************************************************************************)
(* passes/dead_code_elimination.cpp over a unit: functions nobody calls,   *)
(* results nobody uses, instructions no effect depends on, stores that are *)
(* overwritten, loads of what is known.  u.side holds the functions with   *)
(* side effects, u.callers who called each function.                       *)
(***************************************************************************)
EXTENDS Effects

\* An instruction that leaves its block without giving up its operands: they go
\* on being used by it.  Such instructions have a block that is not listed.
Bury(f, is) == IF is = <<>> THEN f ELSE [Create(f, "basic") EXCEPT !.code[NewBlock(f)] = is]

\* The instructions of b at the places ks leave it.
DeleteAt(f, b, ks) ==
  [f EXCEPT !.code[b] = FlattenSeq([k \in DOMAIN @ |-> IF k \in ks THEN <<>> ELSE <<@[k]>>])]

PtrOf(i) == IF i.op = "store" THEN i.ops[2] ELSE i.ops[1]

----------------------------------------------------------------------------

Calls(f, n) == {i \in AllInstrs(f) : CalleeOf(i) = n}

\* deleteDeadFunc: what was deleted may still call it.
DeleteDeadFunc(u) ==
  LET dead(n) == /\ n # "main"
                 /\ \/ \A m \in DOMAIN u.func : Calls(u.func[m], n) = {}
                    \/ u.callers[n] = {}
  IN [u EXCEPT !.names = SelectSeq(@, LAMBDA n : ~dead(n))]

ReturnsNothing(u, n) ==
  \A m \in DOMAIN u.func : \A i \in Calls(u.func[m], n) : i.r = 0 \/ Uses(u.func[m], Reg(i.r)) = {}

\* deleteDeadRet: where no call's result is used, 0 is returned.
DeleteDeadRet(u, n) ==
  IF ~ReturnsNothing(u, n) THEN u.func[n]
  ELSE LET zero(i) == IF i.op = "ret" /\ i.ops # <<>> THEN [i EXCEPT !.ops = <<Const(0)>>] ELSE i
       IN Rewritten(u.func[n], LAMBDA i : IF i \in InstrsOf(u.func[n]) THEN zero(i) ELSE i)

----------------------------------------------------------------------------

HasEffect(side, i) == i.op \in {"ret", "br", "store"} \/ CalleeOf(i) \in side

\* deleteDeadInstr.
DeleteDeadInstrs(f, side) ==
  LET useful == MarkUseful(AllInstrs(f), {i \in InstrsOf(f) : HasEffect(side, i)})
      Kept(b) == IF b \in ToSet(f.list) THEN SelectSeq(f.code[b], LAMBDA i : i \in useful) ELSE f.code[b]
  IN Recoded(f, Kept)

----------------------------------------------------------------------------
(* deleteDeadStore, block by block.  a.pre holds the places of the stores  *)
(* that may be useless.  A load that finds the store before it also makes  *)
(* the stores to the same variable useful that the table lists first,      *)
(* which `early' says: it is a hash table.  (That a global nobody wrote to *)
(* keeps its initial value is never used: its type is an address.)         *)

StoreSeen(a, b, k) ==
  LET same == {p \in a.pre : PtrOf(a.f.code[b][p]) = PtrOf(a.f.code[b][k])}
  IN [a EXCEPT !.pre = (@ \ same) \cup {k}, !.useless = @ \cup same]

LoadSeen(a, b, k, early) ==
  LET i      == a.f.code[b][k]
      at(p)  == a.f.code[b][p]
      same   == {p \in a.pre : PtrOf(at(p)) = PtrOf(i)}
      root   == ArrayPtr(a.f, PtrOf(i))
      shared == {p \in a.pre \ same : root # Unknown /\ ArrayPtr(a.f, PtrOf(at(p))) = root}
  IN IF same = {} THEN [a EXCEPT !.pre = @ \ shared]
     ELSE [a EXCEPT !.f = ReplaceAllUse(@, Reg(i.r), at(CHOOSE p \in same : TRUE).ops[1]),
                    !.loads = @ \cup {k}, !.pre = @ \ (shared \cap early)]

CallSeen(a, side, i) == IF CalleeOf(i) \in side THEN [a EXCEPT !.pre = {}] ELSE a

DeadStoresOfBlock(f, b, side, early) ==
  LET seen(a, k) ==
        LET i == a.f.code[b][k]
        IN CASE i.op = "store" -> StoreSeen(a, b, k)
             [] i.op = "load"  -> LoadSeen(a, b, k, early)
             [] OTHER          -> CallSeen(a, side, i)
      end == FoldLeft(seen, [f |-> f, pre |-> {}, useless |-> {}, loads |-> {}],
                      [k \in DOMAIN f.code[b] |-> k])
  IN Bury(DeleteAt(end.f, b, end.useless \cup end.loads),
          SetToSeq({end.f.code[b][k] : k \in end.useless}))

DeleteDeadStore(f, side, early) ==
  FoldLeft(LAMBDA g, b : DeadStoresOfBlock(g, b, side, early), f, f.list)

----------------------------------------------------------------------------
(* deleteRedundantLoad: known maps addresses to the register loaded last.  *)

\* What may no longer be what was loaded, after a write to w.
Killed(f, known, w) == {p \in DOMAIN known : Alias(f, ArrayPtr(f, p), ArrayPtr(f, w))}
Forgetting(known, ps) == Restrict(known, DOMAIN known \ ps)

\* Only what the call is handed the address of.
KilledByCall(f, known, i) ==
  UNION {Killed(f, known, w) : w \in {x \in ToSet(Tail(i.ops)) : IsPointer(f, x)}}

RedundantLoadsOfBlock(f, b, side) ==
  LET seen(a, k) ==
        LET i == a.f.code[b][k]
        IN CASE i.op = "load" /\ i.ops[1] \in DOMAIN a.known ->
                  [a EXCEPT !.f = ReplaceAllUse(@, Reg(i.r), Reg(a.known[i.ops[1]])),
                            !.loads = @ \cup {k}]
             [] i.op = "load"  -> [a EXCEPT !.known = @ @@ (i.ops[1] :> i.r)]
             [] i.op = "store" -> [a EXCEPT !.known = Forgetting(@, Killed(a.f, @, i.ops[2]))]
             [] CalleeOf(i) \in side -> [a EXCEPT !.known = Forgetting(@, KilledByCall(a.f, @, i))]
             [] OTHER -> a
      end == FoldLeft(seen, [f |-> f, known |-> <<>>, loads |-> {}], [k \in DOMAIN f.code[b] |-> k])
  IN DeleteAt(end.f, b, end.loads)

DeleteRedundantLoad(f, side) == FoldLeft(LAMBDA g, b : RedundantLoadsOfBlock(g, b, side), f, f.list)
=============================================================================
