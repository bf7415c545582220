------------------------------- MODULE Compile -------------------------------
(***************************************************************************)
(* The compilation of one function: SYSYBuilder, then the passes main.cpp  *)
(* hands the pass manager, those of them that are modelled, in its order.  *)
(* After any pass the function may be run beside the source program: the   *)
(* two are given the same input and must show the same thing.              *)
(***************************************************************************)
EXTENDS FunctionShape, SYSYBuilder, HIRToMIR, MirSimplifyCFG, Mem2Reg, RmPhi, Effects

VARIABLES
  passes,   \* passes left, the current one first
  running,  \* whether the current pass has started
  run       \* the two executions, once they start: [src, mach]

CONSTANTS
  Pipeline,    \* the passes, a sequence
  RunAfter     \* the lengths of `passes' at which the function may be run

vars == <<fn, failed, program, todo, cursor, G, sweep, rename, unphi,
          passes, running, run>>

PassNames == {"HIRToMIR", "MirSimplifyCFG", "Mem2Reg", "SCCP",
              "DeadCodeElimination", "RmPhi"}
ASSUME PipelineAssumption == Pipeline \in Seq(PassNames)

NotRun == [src |-> <<>>, mach |-> <<>>]
IsRun  == run # NotRun

frontVars == <<program, todo, cursor, G>>
passVars  == <<sweep, rename, unphi>>

Init ==
  /\ BuilderInit
  /\ sweep = NoSweep /\ rename = NoRename /\ unphi = NoUnphi
  /\ passes = Pipeline /\ running = FALSE
  /\ run = NotRun

----------------------------------------------------------------------------
(* What passes/sccp.cpp and passes/dead_code_elimination.cpp do to a       *)
(* function whose only constant expressions are literal conditions and     *)
(* whose variables are all registers: constant comparisons are folded, and *)
(* instructions no effect depends on are deleted.                          *)

IsFoldable(i) == i.op = "cmp" /\ i.ops[1][1] = "const"

\* Slip: every comparison with zero holds.
FoldedTrue(i) == Const(1)

\* calConstantIntBinary, for a comparison with zero.
Folded(i) == Const(IF i.ops[1] = Const(0) THEN 0 ELSE 1)

FoldOne(f, i) == ReplaceAllUse(f, Reg(i.r), Folded(i))

\* constantFoldAndPropagation: block by block, in order.
FoldBlock(f, b) ==
  [FoldLeft(FoldOne, f, SelectSeq(f.code[b], IsFoldable)) EXCEPT
     !.code[b] = SelectSeq(@, LAMBDA i : ~IsFoldable(i))]

ConstantFold ==
  /\ failed = "no"
  /\ fn' = FoldLeft(FoldBlock, fn, fn.list)
  /\ UNCHANGED failed

HasSideEffect(i) == i.op \in {"ret", "br", "store", "in", "out"}

DeleteDeadInstr ==
  /\ failed = "no"
  /\ LET all == InstrsOf(fn)
         useful == MarkUseful(all, {i \in all : HasSideEffect(i)})
     IN fn' = [fn EXCEPT !.code = [b \in DOMAIN @ |->
                 IF b \in ToSet(fn.list) THEN SelectSeq(@[b], LAMBDA i : i \in useful)
                 ELSE @[b]]]
  /\ UNCHANGED failed

----------------------------------------------------------------------------
(* pass_manager::run.                                                      *)

Idle == todo = <<>> /\ ~running /\ failed = "no" /\ ~IsRun

Begins(name) == Idle /\ passes # <<>> /\ Head(passes) = name

Build ==
  /\ todo # <<>> /\ failed = "no"
  /\ VisitNext
  /\ UNCHANGED <<passVars, passes, running, run>>

\* The passes that are one step of the model.  What the front end left is dropped.
BeginHIRToMIR ==
  /\ Begins("HIRToMIR")
  /\ fn' = RunHIRToMIR(fn, TopList)
  /\ cursor' = [block |-> NoBlock, list |-> TopList, father |-> NoBlock]
  /\ G' = [true_bb |-> NoBlock, false_bb |-> NoBlock, val |-> Uncertain, slot |-> <<>>]
  /\ passes' = Tail(passes)
  /\ UNCHANGED <<failed, program, todo, passVars, running, run>>

BeginSCCP ==
  /\ Begins("SCCP") /\ ConstantFold /\ passes' = Tail(passes)
  /\ UNCHANGED <<frontVars, passVars, running, run>>

BeginDeadCodeElimination ==
  /\ Begins("DeadCodeElimination") /\ DeleteDeadInstr /\ passes' = Tail(passes)
  /\ UNCHANGED <<frontVars, passVars, running, run>>

\* The passes that take many.
BeginMirSimplifyCFG ==
  /\ Begins("MirSimplifyCFG")
  /\ sweep' = FirstSweep(fn) /\ running' = TRUE
  /\ UNCHANGED <<fn, failed, frontVars, rename, unphi, passes, run>>

BeginMem2Reg ==
  /\ Begins("Mem2Reg")
  /\ StartMem2Reg /\ running' = TRUE
  /\ UNCHANGED <<frontVars, sweep, unphi, passes, run>>

BeginRmPhi ==
  /\ Begins("RmPhi")
  /\ unphi' = [blocks |-> fn.list, inserted |-> <<>>] /\ running' = TRUE
  /\ UNCHANGED <<fn, failed, frontVars, sweep, rename, passes, run>>

Working(state) == UNCHANGED <<frontVars, passes, running, run>> /\ state

StepMirSimplifyCFG == running /\ SimplifyNext /\ Working(UNCHANGED <<rename, unphi>>)
StepMem2Reg == running /\ (PlacePhis \/ RenameNext) /\ Working(UNCHANGED <<sweep, unphi>>)
StepRmPhi   == running /\ RmPhiBlock /\ Working(UNCHANGED <<sweep, rename>>)

EndPass ==
  /\ running /\ failed = "no"
  /\ sweep.todo = <<>> /\ rename = NoRename /\ unphi = NoUnphi
  /\ running' = FALSE /\ passes' = Tail(passes)
  /\ UNCHANGED <<fn, failed, frontVars, passVars, run>>

----------------------------------------------------------------------------
(* Running the function.  The machine is at instruction `at' of `block',   *)
(* which it entered from `pred'; regs holds the registers and variables.   *)

Get(m, o) ==
  CASE o[1] = "const" -> o[2]
    [] o[1] = "reg"   -> m.regs[o[2]]
    [] OTHER          -> Undefined

Instruction(f, m) ==
  IF m.at > Len(f.code[m.block]) THEN NoInstr ELSE f.code[m.block][m.at]

MachineShows(f, m) ==
  LET i == Instruction(f, m)
  IN CASE i.op \in {"in", "out", "ret"} -> i.op
       [] i.op \in {"br", "load", "store", "cmp", "phi", "mov"} -> "silent"
       [] OTHER -> "stuck"

\* The value phi i takes on entry from pred.
Chosen(m, i) ==
  LET from == {k \in Incoming(i) : i.ops[k] = Label(m.pred)}
  IN IF from = {} THEN Undefined
     ELSE Get(m, i.ops[(CHOOSE k \in from : \A l \in from : k <= l) - 1])

\* Block b is entered: its phis, at its head, all read the old registers.
Enter(f, m, b) ==
  LET e == [m EXCEPT !.pred = m.block, !.block = b]
      phis == Phis(f, b)
      of(r) == {k \in DOMAIN phis : phis[k].r = r}
  IN [e EXCEPT !.at = Len(phis) + 1,
               !.regs = [r \in DOMAIN @ |->
                  IF of(r) = {} THEN @[r] ELSE Chosen(e, phis[CHOOSE k \in of(r) : TRUE])]]

MachineStep(f, m, v) ==
  LET i == Instruction(f, m)
      put(r, x) == [m EXCEPT !.regs[r] = x, !.at = @ + 1]
      b == IF IsBranch(i) THEN i.ops[1][2]
           ELSE IF Get(m, i.ops[1]) # 0 THEN i.ops[2][2] ELSE i.ops[3][2]
  IN CASE i.op = "in"    -> put(i.r, v)
       [] i.op = "load"  -> put(i.r, Get(m, i.ops[1]))
       [] i.op = "store" -> put(i.ops[2][2], Get(m, i.ops[1]))
       [] i.op = "mov"   -> put(i.r, Get(m, i.ops[1]))
       [] i.op = "cmp"   -> put(i.r, IF Get(m, i.ops[1]) = 0 THEN 0 ELSE 1)
       [] i.op = "br"    -> Enter(f, m, b)
       [] OTHER          -> [m EXCEPT !.at = @ + 1]

StartRun ==
  /\ Idle /\ Len(passes) \in RunAfter
  /\ run' = [src |-> Start(program),
             mach |-> [block |-> Entry(fn), at |-> 1, pred |-> NoBlock,
                       regs |-> [r \in 1..fn.regs |-> Undefined]]]
  /\ UNCHANGED <<fn, failed, frontVars, passVars, passes, running>>

\* The machine goes first, then the source, each up to what it shows next.
MachineRuns ==
  /\ IsRun /\ MachineShows(fn, run.mach) = "silent"
  /\ run' = [run EXCEPT !.mach = MachineStep(fn, @, 0)]
  /\ UNCHANGED <<fn, failed, frontVars, passVars, passes, running>>

SourceRuns ==
  /\ IsRun /\ MachineShows(fn, run.mach) # "silent"
  /\ Shows(run.src) = "silent" /\ ~Unspecified(run.src)
  /\ run' = [run EXCEPT !.src = Step(@, 0)]
  /\ UNCHANGED <<fn, failed, frontVars, passVars, passes, running>>

\* Both read the same number, or both write one.
BothShow ==
  /\ IsRun /\ Shows(run.src) = MachineShows(fn, run.mach)
  /\ Shows(run.src) \in {"in", "out"}
  /\ \E v \in IF Shows(run.src) = "in" THEN {0, 1} ELSE {0} :
       run' = [src |-> Step(run.src, v), mach |-> MachineStep(fn, run.mach, v)]
  /\ UNCHANGED <<fn, failed, frontVars, passVars, passes, running>>

Next ==
  \/ Build \/ BeginHIRToMIR \/ BeginSCCP \/ BeginDeadCodeElimination
  \/ BeginMirSimplifyCFG \/ StepMirSimplifyCFG \/ BeginMem2Reg \/ StepMem2Reg
  \/ BeginRmPhi \/ StepRmPhi \/ EndPass
  \/ StartRun \/ MachineRuns \/ SourceRuns \/ BothShow

Spec == Init /\ [][Next]_vars

\* The compiled code reads, writes or returns next, or the compiler stopped.
Waiting == failed # "no" \/ (IsRun /\ MachineShows(fn, run.mach) # "silent")

\* One sequential process: it goes on unless it waits.  In a state that is not
\* Waiting a step is enabled, so this asks no more than WF_vars(Next); it is
\* written out because ENABLED Next would compile the function symbolically.
FairSpec == Spec /\ ([]<>Waiting \/ []<><<TRUE>>_vars)

----------------------------------------------------------------------------
(* Properties.                                                             *)

Listed == ToSet(fn.list)

\* Between two passes, once the function is a control-flow graph.
Settled == Idle /\ passes # Pipeline

Reached == ReachedIn(fn)
Dominates(b, y) == DominatesIn(fn, b, y)

\* src/ir/function.hpp, basic_block.hpp: the shape of a function under
\* compilation, and which of the passes' own variables are in use.
TypeOK ==
  /\ failed \in {"no", "hang", "segfault", "343", "344", "345", "346", "347"}
  /\ Len(fn.kind) = Len(fn.code) /\ Len(fn.pre) = Len(fn.code) /\ Len(fn.succ) = Len(fn.code)
  /\ \A b \in DOMAIN fn.code :
       /\ fn.kind[b] \in {"basic", "if", "while"}
       /\ ToSet(fn.pre[b]) \cup ToSet(fn.succ[b]) \subseteq DOMAIN fn.code
       /\ \A i \in ToSet(fn.code[b]) : i.r \in 0..fn.regs
  /\ Listed \subseteq {b \in DOMAIN fn.code : fn.kind[b] = "basic"}
  /\ IsInjective(fn.list)
  /\ ToSet(fn.allocas) \subseteq 1..fn.regs
  /\ ~running => sweep = NoSweep /\ rename = NoRename /\ unphi = NoUnphi

\* BasicBlock keeps _pre_bbs and _succ_bbs by hand, apart from the terminator,
\* and every pass edits them: between passes the three agree, edge for edge.
EdgesMirror ==
  Settled => EdgesAgree(fn)

\* PhiInstr: between passes a phi has one pair for each edge into its block
\* (the passes that change edges change the phis elsewhere in their code).
PhisMirrorEdges ==
  Settled => PhisAgree(fn)

\* From mem2reg.cpp to rm_phi.cpp the code is in SSA form: each register has
\* one definition, which dominates its uses (a phi uses at the end of the
\* block its value comes from).
DefinitionsDominateUses ==
  Settled /\ passes # <<>> => DefinitionsDominate(fn, ToSet(fn.allocas))

\* dominators.cpp: what the iterative algorithm computes for Mem2Reg is the
\* immediate dominators and the dominance frontiers of the definition.
DominatorsExact ==
  Begins("Mem2Reg") =>
    LET idom == IDoms(fn)
        Strictly(b, y) == b # y /\ Dominates(b, y)
    IN \A b \in Listed \cap Reached :
         /\ b # Entry(fn) => /\ Strictly(idom[b], b)
                             /\ \A d \in Reached : Strictly(d, b) => Dominates(d, idom[b])
         /\ Reached = Listed =>
              Frontier(fn, idom, b) =
                {y \in Listed : ~Strictly(b, y) /\ \E p \in ToSet(fn.pre[y]) : Dominates(b, p)}

\* No assertion fails, no null pointer is followed and no sweep runs for ever.
CompilerSucceeds == failed = "no"

\* SYSYBuilder to RmPhi: what the compiled function reads, writes and returns
\* is what the source program does, after every pass.
SameBehaviour ==
  IsRun /\ MachineShows(fn, run.mach) # "silent" /\ Shows(run.src) # "silent" =>
    /\ MachineShows(fn, run.mach) = Shows(run.src)
    /\ Shows(run.src) \in {"out", "ret"} /\ Shown(run.src) # Undefined =>
         Get(run.mach, Instruction(fn, run.mach).ops[1]) = Shown(run.src)

\* Of programs each of whose loops reads or writes: the compiler finishes, and
\* the code never runs on for ever without showing anything.  (SameBehaviour
\* says nothing of a machine that never shows its next input or output.)
KeepsShowing == []<>(IsRun /\ MachineShows(fn, run.mach) # "silent")

\* mir_simplify_cfg.cpp:204, "error phi oprd number": where a block has one
\* predecessor, its phis have one pair.
SinglePhiHasOnePair ==
  At("eliminateSinglePhi") /\ Len(fn.pre[Cur]) = 1 =>
    \A i \in ToSet(Phis(fn, Cur)) : Len(i.ops) = 2
=============================================================================
