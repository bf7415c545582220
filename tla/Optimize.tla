------------------------------- MODULE Optimize -------------------------------
(***************************************************************************)
(* The passes main.cpp runs after the unit is in SSA form, over a unit of  *)
(* functions.  A pass is a sequence of tasks, one for each function; a     *)
(* task changes its function at once, or is worked on step by step.        *)
(* Between two passes the unit must do what it did at first.               *)
(***************************************************************************)
EXTENDS Sccp, Loops, MirSimplifyCFG, RmPhi, Combine, Numbering, Inline, LowerIR, MirMachine

VARIABLES
  unit,      \* [names, func, global, callers, callees, side]
  passes,    \* passes left
  tasks,     \* tasks <<kind, function>> left of the current pass
  promised   \* input -> what the unit did at first

CONSTANTS
  Units,      \* the units to optimize, as the passes before leave them
  Pipeline,   \* the passes, in order
  Inputs,     \* sequences of numbers to read
  StepBound   \* steps after which a run is given up

vars == <<unit, passes, tasks, promised, fn, failed, lat, lp, sweep, unphi>>
passVars == <<lat, lp, sweep, unphi>>

PassNames == {"SCCP", "DeadCodeElimination", "LoopInvariant", "InstructionCombination",
              "MirSimplifyCFG", "GVN", "FunctionInline", "LowerIR", "RmPhi"}
ASSUME OptimizerAssumption == Pipeline \in Seq(PassNames) /\ StepBound \in Nat

----------------------------------------------------------------------------
(* What a unit does.                                                       *)

\* The machine m runs until it returns: the numbers written, then the result.
RECURSIVE Run(_, _, _, _, _)
Run(u, m, input, shown, n) ==
  LET does == Visible(u, m)
      step(in, out) == Run(u, MirStep(u, m, IF input = <<>> THEN 0 ELSE Head(input)), in, out, n - 1)
  IN CASE does = "stuck" \/ n = 0 -> [end |-> does, shown |-> shown]
       [] does = "ret" -> [end |-> "ret", shown |-> Append(shown, Seen(u, m))]
       [] does = "out" -> step(input, Append(shown, Seen(u, m)))
       [] does = "in"  -> step(IF input = <<>> THEN input ELSE Tail(input), shown)
       [] OTHER -> step(input, shown)

Outcome(u, input) == Run(u, Boot(u), input, <<>>, StepBound)

\* What is unspecified may be anything.
Specified(o) == o.end = "ret" /\ \A k \in DOMAIN o.shown : IsInt(o.shown[k])

----------------------------------------------------------------------------

\* With what InterProceduralAnalysis and the constructors of calls recorded.
WithFacts(u) ==
  LET callers == CallersOf(u.func)
  IN u @@ [callers |-> callers, side |-> SideEffects(u.func),
           callees |-> [n \in DOMAIN u.func |-> {g \in DOMAIN callers : n \in callers[g]}]]

Init ==
  /\ \E u \in Units : /\ unit = WithFacts(u)
                      /\ promised = [in \in Inputs |-> Outcome(u, in)]
  /\ passes = Pipeline /\ tasks = <<>>
  /\ fn = EmptyFunction /\ failed = "no"
  /\ lat = NoLat /\ lp = NoLoops /\ sweep = NoSweep /\ unphi = NoUnphi

Resting == tasks = <<>> /\ failed = "no"

ForAll(kind, names) == [k \in DOMAIN names |-> <<kind, names[k]>>]

DeadCodeTasks(names) ==
  ForAll("deadRet", Without(names, "main"))
    \o FlattenSeq([k \in DOMAIN names |-> <<<<"deadInstr", names[k]>>, <<"deadStore", names[k]>>,
                                           <<"redundantLoad", names[k]>>, <<"deadInstr", names[k]>>>>])

CombineTasks(names) ==
  FlattenSeq([k \in DOMAIN names |-> <<<<"terms", names[k]>>, <<"sums", names[k]>>, <<"terms", names[k]>>>>])

KindOf == [SCCP |-> "sccp", LoopInvariant |-> "loops", MirSimplifyCFG |-> "simplify",
           GVN |-> "number", FunctionInline |-> "inline", LowerIR |-> "lower", RmPhi |-> "unphi"]

\* GVN looks at all functions before it begins.
BeginPass ==
  /\ Resting /\ passes # <<>>
  /\ passes' = Tail(passes)
  /\ IF Head(passes) = "DeadCodeElimination"
     THEN unit' = DeleteDeadFunc(unit) /\ tasks' = DeadCodeTasks(unit'.names)
     ELSE /\ UNCHANGED unit
          /\ tasks' = IF Head(passes) = "InstructionCombination" THEN CombineTasks(unit.names)
                      ELSE ForAll(KindOf[Head(passes)], unit.names)
  /\ failed' = IF Head(passes) = "GVN" /\ \E n \in ToSet(unit.names) : HasDeadBlock(unit.func[n])
               THEN "430" ELSE failed
  /\ UNCHANGED <<fn, promised, passVars>>

Task(kind) == failed = "no" /\ tasks # <<>> /\ Head(tasks)[1] = kind
Subject == unit.func[Head(tasks)[2]]

\* The subject becomes f, and the task is over.
Become_(f) == /\ unit' = [unit EXCEPT !.func[Head(tasks)[2]] = f]
              /\ tasks' = Tail(tasks)

----------------------------------------------------------------------------
(* Tasks of one step.                                                      *)

Finish(f) == /\ Become_(f)
             /\ UNCHANGED <<fn, failed, passes, promised, passVars>>

DeadRet       == Task("deadRet") /\ Finish(DeleteDeadRet(unit, Head(tasks)[2]))
DeadInstr     == Task("deadInstr") /\ Finish(DeleteDeadInstrs(Subject, unit.side))
RedundantLoad == Task("redundantLoad") /\ Finish(DeleteRedundantLoad(Subject, unit.side))
Lower         == Task("lower") /\ Finish(RunLowerIR(Subject))
Number        == Task("number") /\ \E shared \in Sharing(Subject) : Finish(RunNumbering(Subject, shared))

StoresAt(f) == {k \in 1..FoldLeft(LAMBDA n, b : n + Len(f.code[b]), 0, f.list) :
                  \E b \in ToSet(f.list) : k \in DOMAIN f.code[b] /\ f.code[b][k].op = "store"}

DeadStore == /\ Task("deadStore")
             /\ \E early \in {{}, StoresAt(Subject)} : Finish(DeleteDeadStore(Subject, unit.side, early))

\* The pass leaves a state, or has stopped.
FinishAs(end) ==
  IF end.why = "no" THEN Finish(Ended(end))
  ELSE failed' = end.why /\ UNCHANGED <<fn, unit, tasks, passes, promised, passVars>>

SimplifyTask == Task("terms") /\ FinishAs(SimplifyInstructions(Subject))
CombineTask == Task("sums") /\ FinishAs(CombineInstructions(Subject))

\* The calls of a function are replaced in any order.
InlineTask ==
  /\ Task("inline") \/ Task("inlined")
  /\ LET n     == Head(tasks)[2]
         calls == CallsToInline(unit, n)
     IN IF ~CanInline(unit, n) THEN UNCHANGED unit /\ tasks' = Tail(tasks)
        ELSE IF calls # {}
        THEN /\ \E c \in calls :
                  unit' = [unit EXCEPT !.func[c[1]] = InlineCall(@, unit.func[n], c[2])]
             /\ tasks' = <<<<"inlined", n>>>> \o Tail(tasks)
        ELSE unit' = NoMoreCallers(unit, n, Task("inlined")) /\ tasks' = Tail(tasks)
  /\ UNCHANGED <<fn, failed, passes, promised, passVars>>

----------------------------------------------------------------------------
(* Tasks of many steps, which work on fn.                                  *)

Starts(kind) == Task(kind) /\ fn = EmptyFunction
Works(kind)  == Task(kind) /\ fn # EmptyFunction /\ UNCHANGED <<unit, passes, tasks, promised>>

StartSCCP ==
  /\ Starts("sccp")
  /\ LET folded == FoldConstants(Subject)
     IN IF folded.trap THEN failed' = "trap" /\ UNCHANGED <<fn, lat>>
        ELSE fn' = folded.f /\ lat' = StartSccp(folded.f) /\ UNCHANGED failed
  /\ UNCHANGED <<unit, passes, tasks, promised, lp, sweep, unphi>>

StartLoopInvariant ==
  /\ Starts("loops") /\ fn' = Subject /\ lp' = StartLoops(Subject)
  /\ UNCHANGED <<failed, unit, passes, tasks, promised, lat, sweep, unphi>>

StartSimplifyCFG ==
  /\ Starts("simplify") /\ fn' = Subject /\ sweep' = FirstSweep(Subject)
  /\ UNCHANGED <<failed, unit, passes, tasks, promised, lat, lp, unphi>>

StartRmPhi ==
  /\ Starts("unphi") /\ fn' = Subject
  /\ unphi' = [blocks |-> Subject.list, inserted |-> <<>>]
  /\ UNCHANGED <<failed, unit, passes, tasks, promised, lat, lp, sweep>>

StepSCCP == Works("sccp") /\ SccpNext /\ UNCHANGED <<lp, sweep, unphi>>
StepLoopInvariant ==
  /\ Works("loops") /\ (FindHeader \/ VisitLoop \/ HandleLoop(unit.side))
  /\ UNCHANGED <<lat, sweep, unphi>>
StepSimplifyCFG == Works("simplify") /\ SimplifyNext /\ UNCHANGED <<lat, lp, unphi>>
StepRmPhi == Works("unphi") /\ RmPhiBlock /\ UNCHANGED <<lat, lp, sweep>>

TaskDone == CASE Head(tasks)[1] = "sccp"     -> lat = NoLat
              [] Head(tasks)[1] = "loops"    -> LoopsDone
              [] Head(tasks)[1] = "simplify" -> sweep.todo = <<>>
              [] OTHER                       -> unphi = NoUnphi

EndTask ==
  /\ failed = "no" /\ fn # EmptyFunction /\ TaskDone
  /\ Become_(fn) /\ fn' = EmptyFunction /\ lp' = NoLoops /\ sweep' = NoSweep
  /\ UNCHANGED <<failed, passes, promised, lat, unphi>>

\* The unit is as RmPhi leaves it, or the compiler stopped.
Over == failed # "no" \/ (Resting /\ passes = <<>>)
Stay == Over /\ UNCHANGED vars

Next ==
  \/ BeginPass \/ EndTask \/ Stay
  \/ DeadRet \/ DeadInstr \/ DeadStore \/ RedundantLoad \/ Lower \/ Number \/ SimplifyTask \/ CombineTask \/ InlineTask
  \/ StartSCCP \/ StartLoopInvariant \/ StartSimplifyCFG \/ StartRmPhi
  \/ StepSCCP \/ StepLoopInvariant \/ StepSimplifyCFG \/ StepRmPhi

Spec == Init /\ [][Next]_vars

\* One sequential process, which goes on until it is over: WF_vars(Next), since
\* Next can be taken as long as it is not over (or TLC finds a deadlock), written
\* without the ENABLED that would compute whole passes twice.
FairSpec == Spec /\ ([]<>Over \/ []<><<Next>>_vars)


----------------------------------------------------------------------------
(* Properties.                                                             *)

Present == ToSet(unit.names)

\* src/ir: the shape of the functions, which of the variables of the passes are in
\* use, and, for SCCP, what it is given and what it leaves (module Sccp).
TypeOK ==
  /\ failed \in {"no", "trap", "hang", "segfault", "343", "344", "345", "346", "347", "430", "436"}
  /\ Present \subseteq DOMAIN unit.func /\ unit.side \subseteq DOMAIN unit.func \cup Library
  /\ \A n \in Present :
       LET f == unit.func[n]
       IN /\ IsInjective(f.list) /\ ListedIn(f) \subseteq DOMAIN f.code
          /\ \A b \in DOMAIN f.code : \A i \in ToSet(f.code[b]) : i.r \in 0..f.regs
  /\ tasks = <<>> => fn = EmptyFunction
  /\ fn = EmptyFunction /\ failed = "no" =>
       lat = NoLat /\ lp = NoLoops /\ sweep = NoSweep /\ unphi = NoUnphi
  /\ lat # NoLat => SccpExpects(fn) /\ EdgesExpected(fn)
  /\ SccpDone => /\ ConstantsFit(fn, lat) /\ PhisCurrent(fn, lat)
                 /\ LET u == [unit EXCEPT !.func[Head(tasks)[2]] = fn]
                    IN /\ Runnable(u)
                       /\ \A n \in DOMAIN u.func : SccpExpects(u.func[n]) /\ EdgesExpected(u.func[n])

\* main.cpp:118: after any pass the unit reads, writes and returns what it did
\* before the first.
SameBehaviour ==
  Resting => \A in \in Inputs : Specified(promised[in]) => Outcome(unit, in) = promised[in]

\* basic_block.hpp: between passes the two lists of neighbours and the branches
\* of each function agree.
EdgesMirror == Resting => \A n \in Present : EdgesAgree(unit.func[n])

\* phi instructions: between passes a phi has one pair for each edge.
PhisMirrorEdges == Resting => \A n \in Present : PhisAgree(unit.func[n])

\* Until RmPhi the code is in SSA form.
DefinitionsDominateUses ==
  Resting /\ passes # <<>> =>
    \A n \in Present : DefinitionsDominate(unit.func[n], ToSet(unit.func[n].args))

\* inter_procedural_analysis.cpp: what was computed once, before the passes,
\* goes on being true of the code they make: a function that is not said to have
\* an effect writes nothing its caller can see, and calls no function that does.
EffectsKnown ==
  Resting => \A n \in Present \ unit.side : \A i \in InstrsOf(unit.func[n]) :
    /\ i.op = "store" => IsLocal(unit.func[n], ArrayPtr(unit.func[n], i.ops[2]))
    /\ CalleeOf(i) \notin unit.side

\* Along the passes no assertion of theirs fails: each finds the unit as it
\* expects it.
OptimizerSucceeds == failed = "no"

\* The compiler ends.
OptimizerFinishes == <>Over
=============================================================================
