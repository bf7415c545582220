# A verification of carolcc

carolcc compiles SysY (a subset of C with `int`, `float`, arrays and functions) to ARM
assembly. It is one sequential program: no threads, nothing persisted, no messages. What is
hard in it is that some twenty passes rewrite one shared data structure, in which the same
fact is written down several times - an operand and its use record; a branch target, a
successor and a predecessor; an edge and a phi's pair - and every pass updates each copy by
hand; that what an analysis found once is used after the code it looked at has changed; and
that the back end puts a program with any number of values on a machine with few registers.
A slip in one pass shows several passes later, as an assertion, a crash, or a wrong program.
The modules here model that structure, every pass main.cpp runs, the register allocator and
the code generator; TLC checks them on small programs, and TLAPS proves the parts that hold
for every size.

## 1. Inventory

| part | source (`src/src/`) | state | operations | talks to | hard because | correct when | status |
|---|---|---|---|---|---|---|---|
| use-def chains | `ir/value.*`, `ir/user.*` | operand vectors, use lists | `setOperand`, `addOperand`, `rmOperand`, `changeOperand`, `removeUse`, `removeUseOps`, `replaceAllUse` | called by every pass | two copies of each use; a call sequence per rewriting site; `removeUse` exits on a missing record | lists equal vectors; no record missed; nothing erased can still be reached | modelled, proved |
| parser, syntax tree | `frontend/`, `syntax_tree.*` | tree | generated | hands a tree to the builder | - | - | not modelled (generated) |
| SYSYBuilder | `visitor/sysy_builder.*`, `visitor/ir_builder.*` | three cursors (block, list, father), jump targets, scope | one visit per tree node | creates the HIR | cursors saved and restored at different places; short-circuit targets chosen before their blocks are placed | the code does what the program says | control flow modelled |
| HIR to MIR | `passes/hir_to_mir.cpp` | tree of blocks to list with edges | `genBasicBlock` | first pass | breaks, continues and empty blocks found by the last instruction | same | modelled |
| MirSimplifyCFG | `passes/mir_simplify_cfg.cpp` | blocks, edges, phis | eight sweeps of six kinds | run five times | edits the lists it walks; edges and phis by separate code | edges, branches and phis agree; terminates | modelled |
| dominators, Mem2Reg | `analysis/dominators.cpp`, `mem2reg.cpp` | idom, frontiers, renaming stack | placement, renaming | needs reachable code | iterated frontier; multiple edges | SSA; exact dominators | modelled for scalar variables |
| SCCP | `passes/sccp.cpp` | table of values, executable edges, two work lists | folding, propagation, replacement | three times | wrap, work list order, executable edges | what it says is constant is; same behaviour; ends | modelled for ints; propagation and replacement proved |
| GVN | `global_value_numbering.cpp` | scoped tables | numbering, replacement | twice | scoping of the tables over the walk | replaced value equal and dominating | modelled |
| dead code | `dead_code_elimination.cpp` | mark set; memory tables | dead functions, results, instructions, stores, loads | alias and call graph analyses | stale tables across stores and calls | same behaviour | modelled |
| alias, inter-procedural | `analysis/alias_analysis.cpp`, `inter_procedural_analysis.cpp` | call graph, side effect flags, global sets | `getArrayPtr`, `alias`, propagation to callers | read by dead code, invariants, inlining | computed once, used while the code changes | still true of the code the passes made | modelled but for the global sets |
| loops | `analysis/loop_analysis.cpp`, `loop_invariant.cpp` | strong components, headers, preheaders | finding, hoisting | twice | edges, phis and branches moved in three loops | components nest; same behaviour | modelled |
| instruction combination | `instruction_combine.cpp` | lists of pending instructions | sums and products | once | new instructions placed later than made | same behaviour | modelled for ints |
| LowerIR | `lower_ir.cpp` | operands | addresses, division, shifts, fused operations | before the end | rounding; order of the phases | same behaviour | modelled for ints |
| inlining | `function_inline.cpp`, `ir/value.cpp` (ValueCloner) | map old to new | clone, splice | call graph | labels of phis after the call; copies that go on counting as callers | same behaviour | modelled |
| RmPhi | `rm_phi.cpp` | moves, split edges | `splitCriticalEdge` | last pass | parallel phis become sequential moves | same behaviour | modelled |
| register allocation | `asm/linear_scan_reg_alloc.cpp` | intervals per register, frame | intervals, scan, spilling, borrowed registers | AsmBuilder | search by midpoints; what is alive between two points; places borrowed twice | no two live values in one register; nothing lost | modelled for ints; the intervals and the scan proved |
| assembly | `asm/asm_builder.cpp`, `asm_instr.cpp` | saved registers, frame | prologue, calls, division, branches | - | arguments as a parallel move; what is saved and restored where; numeric edges | calling convention; same behaviour | modelled for ints |
| pass manager, module, scope | `pass_manager.cpp`, `main.cpp`, `module.cpp` | the sequence of passes, functions | `run` | everything | a failing pass ends the compiler | - | modelled but for the scope |
| printers, unused passes | `visitor/*_shower.cpp`, `llvm_ir_printer.cpp`, `hir_simplify_cfg.cpp`, ... | - | output | - | - | - | not modelled (output only, or never run) |

`PROJECT.json` repeats the parts under `components` and lists, under `hazards`, the places
where they could go wrong unnoticed, each with the properties that watch it.

## 2. The modules

```
UseChain  <- MCUseChain                        the chains, on their own
  ^- UseChainProofs

SysY          the source programs and what they mean (the reference)
Mir           the intermediate representation: blocks, lists of edges, instructions
  ^- FunctionShape             what a well-formed function is between two passes
  ^- Compiling                 the function under compilation, why the compiler stopped
  |    ^- SYSYBuilder (also SysY)   tree -> HIR
  |    ^- HIRToMIR                  HIR -> blocks and edges
  |    ^- MirSimplifyCFG            the sweeps
  |    ^- Dominators <- Mem2Reg     SSA
  |    ^- RmPhi                     out of SSA
  ^- Effects                   alias and inter-procedural analysis
  |    ^- DeadCode <- Inline, LowerIR    over a unit of functions
  |    ^- Combine, Numbering             over one function, one step
  |    ^- Loops                          over one function, work list by work list
  ^- Sccp                      over one function, instruction by instruction
  |    ^- SccpProofs <- SccpSoundProofs (also MirMachine) <- SccpReplaceProofs
  ^- MirMachine                what a unit of functions does, step by step (the reference)

Compile       front end to RmPhi over one function (of SCCP and dead code what can happen
              there), and both programs running side by side
  ^- MCCompile                 the programs the runs compile
Optimize      the passes from SCCP to RmPhi over a unit, in main.cpp's order
  ^- MCOptimize (with OptimizerUnits)  the units the runs optimize

RegisterFile  what a register allocation promises
LinearScan    the scan over the intervals, refines RegisterFile (INSTANCE ... WITH)
  ^- LinearScanProofs, MCLinearScan
LiveIntervals <- Spill <- AsmBuilder     intervals; frame and borrowed registers; the code
AsmInstr <- Arm                the instructions written; the processor that runs them
BackEnd       all of these over a unit, and the unit and the processor side by side
  ^- MCBackEnd (with SampleUnits)
  ^- BackEndProofs (also LinearScanProofs)
Words, ArmRegisters, UnitSyntax          numbers of Width bits; register numbers; a notation
```

**UseChain.** `opnd` and `size` are `User::_operands_list` and its length, `uses` is the
multiset of records of all `_user_list`s, `status` says whether an instruction stands in a
block, was taken out of it with its records (`dropped`) or without (`gone`), and `failed` is
the exit of `removeUse` with code 436. Nothing keeps an instruction from being dropped while
others use it, and such things happen: an unreachable loop goes on using the instructions of a
block removed before it, and `convert2Mla` deletes an operand before its user. So a pass may
come upon an instruction that is in no block, by following operands (`Reach`). Each action is one rewriting idiom of the passes with
every primitive call it makes, in the pass's order. A pass that does nothing but walk the
function and apply such idioms is a sequence of these actions, so what holds after every
sequence holds after every pass. The order inside a use list is not modelled: no pass depends
on it.

**Mir, Compiling.** A function is, per block, its kind (basic, if, while), instructions,
predecessor and successor lists with multiplicity and order, and the function's block list.
Registers are numbers. `failed` holds why the compiler stopped: the exit code of an
assertion, `segfault` for a null pointer followed, `trap` for a division by zero of the
compiler's own, or `hang` for a loop over a list the loop itself extends.

**SYSYBuilder.** The visitor's recursion is the stack `todo`; each action is one visit, or
what a visit has left to do when a call it made returns. `cursor` and `G` are the builder's
insertion points and globals. Expressions are `getint()`, variables and literals; conditions
are those, or `&&` and `||` of them. Variables are assigned from `getint()` and from variables
(so that SCCP has only literal conditions to fold); `putint` and `return` take any expression.

**HIRToMIR, Dominators, Combine, Numbering** are one step each: pure functions of a
function. Numbering compares constants as the code does, which in a table of operations is by
object and for the numbers of operands by the first object with that number; which constants
of a function are one object is left open (`Sharing`), since it depends on what earlier passes
replaced and cloned. **DeadCode, Inline, LowerIR** are steps over the unit. **MirSimplifyCFG, Mem2Reg,
RmPhi** take one step per block and keep what the code keeps between two blocks: `sweep` (the
sweep, the blocks still to visit, those to delete), `rename` (the stack of renaming), `unphi`
(the split edges to insert). **Sccp** keeps `lat` (the table of values, the executable blocks,
the two work lists, and what is still to visit of the block or value taken) and takes one step
per instruction or user visited; **Loops** keeps `lp` (the
components found, the loops left, the new block) and takes one step per round of the search,
per block searched for invariants and per loop rewritten. Which of the header's phis have equal
constants that are one object is left open there as well (`HandleLoop`): the pair to relabel is
looked up by its value.

**Compile.** `passes` is the sequence of `pass_manager`; passes of main.cpp that find nothing
to do in this fragment (loop invariants, value numbering, inlining, instruction combination,
lowering: no arithmetic, arrays or calls, and comparisons are not hoisted) are left out of it
and are run by Optimize. Before a pass named in `RunAfter` the function may be run instead of
compiled further: `run` holds a machine for the MIR and one for the source, which go on
separately until both show something - read a number, write one, return - and then show it
together. Both get the same input.

**Optimize.** `unit` is the Module with what InterProceduralAnalysis recorded, `passes` the
passes left, `tasks` the functions (and phases) the current pass still has to visit,
`promised` what the unit did for each input before the first pass. Where the code walks a
set or a map ordered by address, or a use list whose order an earlier pass left open, the
next element is a choice: the runs cover every order.

**LiveIntervals, LinearScan, Spill.** The intervals are computed as the code does, from one
numbering of the instructions and the back edges it shows. `LinearScan` is a state machine
with the code's own binary search: `cur` the interval to be placed, `reg` the register tried,
`lo` and `hi` the part of its list searched. Intervals of one weight come in any order.
Constants are objects: the third part of a constant tells equal numbers apart, and two that are
one object share their points (`PointIntervals`), as in the map the code keeps by address.
`Spill` is the second half of the function: the frame, and, instruction by instruction, the
loads and stores around one whose values have no register. **AsmBuilder, AsmInstr** give the
instructions, **Arm** runs them: registers, a stack of words below `sp`, addresses of code as
values, and a library that destroys what a call may destroy.

The models were compared with the compiler itself. Some 500 random programs of Compile's
fragment were compiled by both, and the MIR agreed block for block, including the programs on
which the compiler stops; two differences remain, both outside the passes Compile has: phis
that merge nothing but uninitialised variables, and a crash of LoopAnalysis on loops that
cannot be reached (section 6). The code of every unit in OptimizerUnits was dumped after each
of the seventeen passes, and agrees with the model instruction by instruction for one of the
orders the model leaves open. These comparisons are evidence for the translation; the runs
below are about the model.

## 3. What is checked

| run | question | size | result |
|---|---|---|---|
| `use_chain` | instructions of up to 3 operands, every idiom in every order: are the lists exact, can nothing erased be reached, is no record missed? | 3 instructions, a constant, a label: 135,125 states, depth 10 | holds |
| `use_chain_phi` | and of phis: is no record missed when pairs are removed, relabelled, split between a header and a preheader? | 2 phis of up to 3 pairs, 2 labels: 98,558 states | holds |
| `use_chain_retarget` | and when a loop phi receives one value from inside and outside? | 1 phi of 2 pairs | finding |
| `compile` | any two control statements nested or in sequence, over one variable, and two variables given each other's values in branches and loops: edges, phis, dominance, no failure, same behaviour | 864 programs: 759,681 states | holds |
| `compile_keeps_showing` | does the compiler finish, and the code always reach its next input or output? | 24 programs: 13,643 states | holds |
| `compile_dead_phi`, `compile_rotation` | findings 2 and 3 of section 5 | 1 program each | findings |
| `optimize` | thirteen units and three families through the seventeen passes from SCCP to RmPhi, in every order the code leaves open: well formed between passes, same behaviour, no assertion, the compiler ends | 934 units: 219,626 states | holds |
| `optimize_phi` | a phi of a constant and a value SCCP is never told of, or told of too late | 2 units | finding |
| `linear_scan` | does the scan implement the register file, miss no gap, lose no interval, end? | the intervals of 11 functions, 8 registers: 8,837 states | holds |
| `back_end` | allocated, translated and run: same behaviour, calling convention, no error, live values covered and in registers of their own | every control flow of four blocks, and units for pressure, loops, division, shifts, equal constants, calls, recursion and memory, 999 in all: 732,898 states | holds |
| `back_end_quotient` | a quotient that goes to lr | 1 unit | finding |

Properties of the chains (UseChain):

- `ChainAgrees`: one record for each operand of each instruction that was not erased, and no
  other record.
- `NoMissingRecord`: `removeUse` finds its record.
- `NoDanglingUse`: whoever walks the blocks and follows operands, through instructions that
  were taken out of their blocks too, finds no erased one.
- `UsefulIsUsed`: the assertion in `deleteDeadInstr`.

Properties of the compilation (Compile and Optimize share the first three, stated in
FunctionShape):

- `EdgesMirror`: between passes successors, predecessors and branch targets agree, counting
  double edges.
- `PhisMirrorEdges`: a phi has one pair for each edge into its block.
- `DefinitionsDominateUses`: the SSA condition, from Mem2Reg to RmPhi.
- `DominatorsExact`: the iterative algorithm gives the dominators and frontiers of the
  definition by paths.
- `CompilerSucceeds`, `OptimizerSucceeds`: no assertion, null pointer, endless sweep or
  division by zero.
- `SameBehaviour` (Compile): for every input, the code after the chosen passes reads, writes
  and returns what the source does. A number the source reads from an uninitialised variable
  may be any. (Optimize): for each input the unit after each pass reads, writes and returns
  what it did before the first.
- `KeepsShowing`: the liveness `SameBehaviour` lacks: code that loops in silence would satisfy
  it.
- `EffectsKnown`: a function InterProceduralAnalysis once found without effects has none in
  the code any later pass made of it.
- `ConstantsJustified`: when the work lists are empty the table is a solution of the equations
  over the executable blocks, and no block a branch may go to is missing. The equation of a
  phi leaves out what the code leaves out: values that are not in the table, and loads and
  calls, whose fall to uncertain is not propagated (finding 4). `TypeOK` of Optimize also
  checks, each time SCCP runs, the facts the theorems of section 4 assume: `SccpExpects` and
  `EdgesExpected` of the function it is given, `ConstantsFit` and `PhisCurrent` of the table
  it leaves. The last is where the units of finding 4 differ.
- `LoopsNest`: the header chosen for a loop dominates it, and of two loops one lies in the
  other or they are apart.
- `OptimizerFinishes`: in every order of the work lists the compiler ends.
- `SinglePhiHasOnePair`: what the code says of itself, and finding 2 refutes.

Properties of the back end (LinearScan, BackEnd):

- `Implements`: the scan refines RegisterFile: each step gives one interval to one register
  free over all of it, or none. This holds of arguments, which are forced, and of calls, which
  are appended without a test, as well.
- `NoNeedlessConflict`: a register is passed over only when one of its intervals meets the one
  to be placed.
- `LostIsReported`: an interval that no register takes makes the count exceed the limit.
- `Terminates`: the search ends.
- `LiveIsCovered`: the intervals, computed from one linear order, cover every point at which
  the value may still be read on some path. `Live` is the least solution of the dataflow
  equations, which the code never computes.
- `ValuesKeepApart`: when the scan of a function is done, of two things that need a register
  at one instruction - values live or written there, constants and globals it reads, a call -
  neither has that of the other.
- `BackEndTypeOK`: the frame of a function has whole words, and no two values that are there
  at one point, no value and variable, no two variables, and none of these and the slots for
  saved registers share one (`StackApart`); a unit has code for each of its functions.
- `BackEndSucceeds`: no error of the allocator or the generator is raised.
- `SameBehaviour`: the assembly reads, writes and returns what the unit does.
- `CallerFindsItsRegisters`: a function leaves sp and the registers it must keep as they were,
  all but r11 (section 6).

Each property of a passing run has a mutant: a slip in one definition (a record not removed,
a pair not dropped, a frontier not iterated, a flag kept, a margin forgotten) that the
property catches under the same bounds. The slips stand beside the definitions they change and
are marked as such.

### Bounds

*UseChain.* Every idiom involves at most two instructions, one replaced value and three
operands (`MaxOps = 3`, or three pairs, `MaxOps = 6`); a third instruction lets one that was
dropped stand between a user and what it uses. `Arity` fixes how many operands an instruction
is made with: a multiply-add has three, a load or store one or two, a return one. Each may use
the others or itself; the theorems then cover every size. In
`use_chain_phi` both phis and both labels are interchangeable, and the symmetry is declared.

*Compile.* The builder's cursors are saved by one statement and restored at its end, so
nesting two control statements, with every kind of jump inside and code after it, reaches each
combination of outer and inner statement. Conditions have up to three tests, so that `&&`
stands inside `||` and the false target is restored. Literal conditions and jumps make code
dead, with and without a branch in it. `getint` returns 0 or 1, all a program of the fragment
can tell apart; the literals written tell places in the program apart. Programs start and end
so that the variables are assigned before the nest and observed after it. Passing runs leave
out loops inside dead code, and loops that move values between variables round after round:
those are findings and limits of the code (section 6). The runs need no bound on their length:
a program has finitely many configurations.

*Optimize.* Each of the thirteen units was written, as a SysY program, for the cases of one
pass: every pass changes several of them, and the dumps of the compiler show the same changes.
The families add what a written example forgets: every pair of additions, subtractions,
products and divisions with small terms on either side, two conditions of which some are known
and phis of what may be known after each, and a loop whose phis may be constant, invariant or
neither. `Width = 8` bits make words wrap while their values stay small. `Inputs` are three
sequences (zero, a positive and a negative first number); a run that needs more than
`StepBound = 200` steps is given up, and no promised run does. `InlineLimit` is the code's own
400. `Sharing` lets the constants of all operations be one object where they are equal, or of
none, or of any two that have a constant in common; with two operations it covers whether an
operation is found, and with all how the entries of many go when one is replaced. The pipeline
is main.cpp's.

*LinearScan.* `Registers = 8` and `Margin = 2` in place of 1200 and 10, so that both the limit
and an interval without a register happen; the theorems cover every number.

*BackEnd.* `IntRegs = 6`, `ArgRegs = 2` in place of 13 and 4: few values fill the registers,
and calls with three arguments use the stack. `Registers = 30`, `Margin = 10` and `Width = 8`
likewise. `Imm8Max` and `Imm12Max` stand for what fits an instruction's operand and an
offset: at 20 and 64 both the short and the long form occur. `Pads` are the registers pushed to
keep the stack aligned, r4 to r9 in the code; `SaveSlots = 4` is the code's own. Inputs are one positive and one negative number. Each
unit is run with all its constants different objects (`Distinct`), and those that use one
number twice for one instruction or between calls also with equal constants one object.
`Wide` uses all but one of the registers, or all of them, and has an argument on the stack.

`CHECK_DEADLOCK FALSE` stands where the system stops: the compiler exits, the program
returns, an instruction can be erased only once. `optimize` and `optimize_phi` check for
deadlock: a state in which neither a pass nor a task can go on before the end would be one
(`Stay` is the stuttering of a compiler that is done).

### Fairness

carolcc is one process; the only fairness is that it goes on. None is put on any single
action, and none on what the input is.

- Compile: `FairSpec` says that the process goes on unless it waits for the outside (an
  input, an output) or has stopped. It asks less than weak fairness of `Next`, which an
  operating system gives any process that can run. `KeepsShowing` is asked of programs each
  of whose loops reads or writes, since a silent loop in the source may be compiled to one.
- LinearScan: `WF_scanVars(ScanNext)`.
- Optimize: `FairSpec` is weak fairness of `Next`, written without ENABLED (`Next` is enabled
  until the compiler is over, which the deadlock check shows): else TLC would run each pass
  twice a step.

## 4. What is proved

**UseChain**, for every number of values, instructions, labels and operands, from the
assumptions of `UseChainAssumption` (the sets are disjoint, `MaxOps` is a natural number and
no `Arity` is above it) and
from `DistinctIncoming = TRUE` (no loop phi receives one value from outside and from inside;
the run `use_chain_retarget` shows that without it the compiler exits):

- `ChainsStayConsistent` (UseChainProofs): `Spec => [](TypeOK /\ ChainAgrees /\
  NoMissingRecord)`, and of it `EveryRecordIsFound`: `Spec => []NoMissingRecord`, and
  `VectorsKeepShape`: `Spec => []TypeOK`.
- `UsefulStaysUsed` (UseChainProofs): `Spec => []UsefulIsUsed`.
- `ErasedIsUnreachable` (UseChainProofs): `Spec => []NoDanglingUse`.

*The argument.* `IInv == TypeOK /\ ChainAgrees` is inductive: neither half is alone, for what
`replaceAllUse` writes is found through the records, and which records `removeUseOps` asks for
is found through the operands. `NoMissingRecord` follows because every record an action removes
belongs to an operand (`OwnHeld`) and so is there. The actions fall into two kinds. Those that
rebuild one instruction's operands reduce to one lemma, `RebuildPreserves`: the records booked
are the difference between the old and the new vector. Those that rewrite many (`replaceAllUse`
before or after `removeUseOps`, deletion) pass through a state in between, so the invariant is
restated on explicit tables (`Good`) and carried through each half (`MoveGood`, `EraseGood`).
`SplitPhi`, which writes two instructions, is proved on its own.

`NoDanglingUse` speaks of a least set; one set is enough that has the instructions of all
blocks, none without records, and with each instruction its operands (`Holds`). Every action
leaves such a set, seldom the same: what is dropped may stay in it, as others may still use it,
while what is erased leaves it, and nothing in it has that as an operand - the use list that was
empty, or was moved to another value, was complete; or, in `DeleteDead`, the set shrinks to
what the marking reached. And a pass gives an instruction no operand but what it can reach.

`UsefulIsUsed` is not inductive and needs not be: given the agreement, and that what the marking
reaches was not erased, it follows in each state, by removing the alleged unused instruction
from the least set the marking computes.

**LinearScan**, for every number of registers and every set of intervals, from
`RegisterAssumption` and `ScanAssumption` (what live_interval_analysis makes: an interval does
not end before it begins, a call's interval is one point and names a register that calls
clobber, no two calls share a point and a register, nor two arguments a register; the margin
is positive):

- `ScanTypeCorrect`: `Spec => []TypeOK`; the search holds two different elements of a list.
- `ScanImplementsFile`: `Spec => File!Spec`, the refinement; and so `OneIntervalAtATime`.
- `SearchMissesNoGap`: `Spec => NoNeedlessConflict`.
- `NothingLostUnnoticed`: `Spec => []LostIsReported`.

*The argument.* The lists are sorted and disjoint (`Sorted`). The search by midpoints keeps
the interval's midpoint between those of the ends, or some interval has that very midpoint
(`Bracketed`); so when two neighbours are left, either the gap between them is the only one
that could do, or no gap can: this is why testing two neighbours is enough, in both
directions. That calls may be appended without a test needs `CallsFirst`: they come before
all but arguments, in the order of the code, to registers arguments are never put in; while one
waits, what is in its register lies before it. That a lost interval is reported
needs `PassedOver`: the registers passed over are not empty.

**The intervals and the registers they get**, for every unit, whatever the control flow of its
functions, from `UnitsAssumption` and the assumptions of the scan. `UnitsAssumption` is that
each function is as RmPhi leaves it (`AllocatorExpects`): the instructions have the form the
other modules give them; branches lead to blocks of the function, which know their
predecessors (`EdgesMirror`); the entry reaches every block, since nothing after
MirSimplifyCFG adds one that it does not; and no path reads a register before it is written
(`DefinitionsDominateUses`, and the moves RmPhi puts at the end of the predecessors); the
arguments are different registers, and there are finitely many variables, each with its size.
The sample units are checked to be such.

- `IntervalsAreWellformed` (BackEndProofs): the intervals of such a function are what
  `ScanAssumption` asks of them, so the theorems about the scan apply to them.
- `LiveRangesCovered` (BackEndProofs): `BackEndSpec => []LiveIsCovered`.
- `ValuesNeverShare` (BackEndProofs): `BackEndSpec => []ValuesKeepApart`.
- `StackNeverShared` (BackEndProofs): `BackEndSpec => []BackEndTypeOK`.

*The argument.* A block is numbered after one that branches to it, and before any that is put
in the queue later, so a register's first definition has a smaller point than all it is live
at: else follow the numbering back from there to the entry, at which only arguments are live.
For the other end: say r is live at s and the path from s to the read that keeps it so leaves
the interval. Where it does, control goes back, to a point c from a point e past the end, and
`<<c, e>>` is a loop (`Loops`). Joined loops are closed: from where one begins to where one
it crosses ends there is a loop (`JoinClosed`), even though each round joins only what the
last one made. So the interval, which was extended to the end of the loops its reads lie in,
reached e as well. The rounds are counted, not fixed points by definition: that the numbering
visits every block, that the joining has stopped and that the liveness is a solution after as
many rounds as stated is proved from there being no room for one more (`Saturates`).
`ValuesNeverShare` follows: what the registers hold are the function's intervals (`ScanOwned`,
an invariant over all functions of the unit), those of one register lie apart (`Sorted`, of
the scan), and what is needed at an instruction is covered by its interval.

For the stack (`LayoutFramed`): the arguments that come on it are numbered without a gap, so
the four bytes of each lie below as many words as there are arguments
(`StackArgumentsNumbered`, by a bijection); two values in one slot had one virtual register,
and its list is sorted; and the room for variables grows from each to the next by what it
takes (`RoomShape`, by induction over the registers). The frame is laid out before the loads
and stores are put in, while the borrowing of registers changes the very record it is in:
that no step of it, over all operands, instructions and blocks, touches the frame is
`SpillsKeep`. `Translating` is the invariant over the functions of the unit.

Proofs over the number of rounds use `Induction` of BackEndProofs, which says it of a
set of numbers: that a set which has 0, and with each number the next, has all.

**SCCP's table**, for every function that `SccpExpects` - registers with one definition,
operands of the right number, successors that name the targets; `Optimize!TypeOK` checks that
the passes before leave such functions - and every order of the work lists:

- `SccpSolves` (SccpProofs): `SccpSpec => []ConstantsJustified`, from `SccpInvariant`:
  `SccpSpec => []IInv`.
- `SccpDeepens` (SccpProofs): `SccpSpec => [][ValuesDeepen]_<<fn, lat, failed>>`: executable
  blocks stay so, and the value of a register changes three times at most.

*The argument.* Every instruction of an executable block that has been scanned is settled -
what the table has for it is what its operands give - or waits in a list (`BlockSolved`).
Whatever changes a value puts it on the list, except for loads and calls, and whatever makes a
block executable makes the executable blocks after it be scanned again. What makes this hard is
that the table is no lattice: an operand not assigned yet makes a result uncertain, and the
result may become a constant later, and then uncertain once more. If a constant could replace
another, `setConstant` would not propagate it (it does so only the first time), and what had
been computed of the first would stay. `ConstStands` excludes that: a constant rests on
constants, or one of its operands is uncertain for good (`Sunk`), since it lies in a set of
uncertain registers each of which, if computed, reads another of the set: the chain can end
only in a phi, a load or a call, none of which comes back. `Depth` counts these stages, and
no step goes back.

**What the table means for a run** (SccpSoundProofs), for every unit, input and depth of
recursion:

- `SccpSound`: if a table `Solves` a function of the unit, then `MachineSpec =>
  []TableRightOfRun`: in every activation of the function that the machine (MirMachine)
  reaches, the block is executable and every register holds what the table has for it, or was
  never written.
- `SccpEndsInSolution`: `SccpSpec => [](SccpDone => Solution(fn, lat))`.

`Solves` is `Solution`, `EdgesExpected` (a phi has a pair for each branch into its block),
`ConstantsFit` (what was calculated in `long` fits an int) and `PhisCurrent` (no phi kept a
constant that a load, a call or an argument belies). The first is what SCCP guarantees, the
second what the passes before leave, and the last two are what it does not ensure: overflow is
a limit of section 6, stale phis are finding 4. Instructions with an unspecified result (a
division by zero, what was not written yet) end what is said of a run, as in `Visible`.

*The argument.* `MInv` says it of the whole stack of activations, and that a call waits for
its result in a register the table has as uncertain: otherwise a return could write a register
of an activation whose block has long been passed over. A branch goes to an executable block
because the word it tests is the constant the table has; the phis entered agree because the
edge taken has a pair, and what that pair brings agrees in the activation that leaves. No
order of blocks enters the argument, nor dominance: a register not written yet agrees with
everything.

**What replacing leaves** (SccpReplaceProofs), for every unit, input and depth of recursion:

- `ReplacementKeepsBehaviour`: if the table `Solves` the function `Name` of a unit that is
  `Expected`, then `BothSpec => MachineSpec /\ OtherSpec /\ []ShowsTheSame`. `BothSpec` runs the
  unit and, beside it, the unit with `ReplaceConstants` applied to that function, on the same
  input. The first may take every step of the machine, and the second takes none but steps of
  the machine; both read, write and return in the same order and the same words.

`Expected` is `Runnable` (every operand, argument and result the machine asks for is there, and
the phis of a block come first) and, of each function, what `SccpExpects` and `EdgesExpected`
say. The passes before SCCP leave such units: `Optimize!TypeOK` checks it in every state with
`SccpDone`, together with `ConstantsFit` and `PhisCurrent`, so the hypothesis is what `optimize`
finds at each of its runs of SCCP.

*The argument.* `Follows` relates the two states: each activation of the second is one of the
first, at the instruction that stays next (`Before` counts those that do), with the same word
in every register it has left; the calls that wait, wait at an instruction that stays. Where
the first stands at a deleted instruction the second waits (`DeletedFollows`): only computing
instructions are deleted (`DeletedComputes`), they touch one register, which the second has no
more, and show nothing (`DeletedIsSilent`). As a branch is never deleted, the second waits no
longer than to the end of a block. Where the first stands at one that stays, so does the
second, and its operands are the same words, either as before or as constants the table has,
which by `SccpSound` are what the first holds (`WordFollows`); both do the same,
instruction by instruction (`StayingFollows`). The difficult cases are the entry of a block,
where a phi that stays may take a constant from the edge or from the table and a deleted one
takes nothing, and a call and its return, which push and drop an activation in both. A word
that was never written may become a known one: `Below` allows that, in one direction.

*Only model-checked.* Compile and Optimize as wholes, and of BackEnd the code and its run. The builder and the source
semantics recurse over programs of any depth, and the passes over graphs of any size, by
RECURSIVE operators, which the prover cannot take; and the library's theorems of induction
over such data take an operator as a parameter, which the installed provers cannot. Liveness, fairness and
ENABLED are out of the prover's reach as well, so `Terminates`, `KeepsShowing` and
`OptimizerFinishes` stay with TLC.

## 5. Findings

1. `use_chain_retarget`: `LoopInvariant::handleInvariants` finds the pair to relabel by its
   value (`loop_invariant.cpp:165`). With the same value from inside the loop it asks for a
   record that does not exist, and the compiler exits with 436.
2. `compile_dead_phi`: a block that loops to itself and has no other predecessor is removed
   without its pair in the next block's phi; `if (0) { while (getint()) a = getint(); }`
   followed by a use of `a` stops the compiler at "error phi oprd number".
3. `compile_rotation`: RmPhi turns the phis of a block into moves in sequence. In `while
   (getint()) { a = b; b = getint(); }` the value of `b` is overwritten before `a` gets it.
   The emitted assembly has the two moves in this order.
4. `optimize_phi`: SCCP counts the values that reach a phi, and comes back to it only for a
   value on its list (`sccp.cpp:398-443`). It never puts an argument into its table, so that a
   phi of a constant and an argument is taken for the constant: `int pick(int x) { int y = 5;
   if (getint()) y = x; return y; }` returns 5. And it makes loads and calls uncertain without
   putting them on the list (`:504-508`), so that a phi visited before the call that feeds it
   keeps its constant: of the program beside StaleUnit (OptimizerUnits) the compiler makes one
   that prints 5 whatever it reads. That the table is right but for such phis is proved
   (section 4).
5. `back_end_quotient`: around a division helper the registers in use are pushed and popped,
   all but the quotient's own - unless that is lr, which is popped over the quotient
   (`asm_builder.cpp:639`).

## 6. Limits of the code

Met while modelling, each seen in the output of the compiler too; the units of the passing
runs avoid them, and the models reproduce them where they are given such a unit. So
`SameBehaviour`, `OptimizerSucceeds`, `DefinitionsDominateUses` and `EffectsKnown` say nothing of
code that triggers one of these. The hazards in PROJECT.json that are exposed only through
such a trigger say so in a note: the folding of constants, the tables of loads and stores,
parameters that are globals, what is hoisted twice, the sum that cancels and the least int.
Two hazards are covered by the run of a finding alone: the phi of a removed block that is its
own predecessor (`compile_dead_phi`) and a quotient in lr (`back_end_quotient`). Two are in the
model but in no program of a passing run: a block that jumps to itself when the blocks with
only a jump are removed, and an unreachable block that Dominators comes to.

- A constant expression is folded in `long` and not wrapped, and a constant division by zero,
  in code that may never run, ends the compiler with a trap (`sccp.cpp:102`, `:108`).
- Of two stores the first is deleted though a callee between them reads the place
  (`dead_code_elimination.cpp:145-234`).
- A load is replaced by one before a call that writes the global (`:265-287`).
- A load after a store gets the stored value though a store through another index, which may
  be the same, comes between (`:181`).
- A parameter and a global array are said never to overlap (`alias_analysis.cpp:58-63`).
- A new preheader is not put into the blocks of the loop outside: what moves out of both
  loops may be used before it is computed.
- `handleInvariants` asks whether one label is from outside (`loop_invariant.cpp:163`) and
  then relabels by value: see finding 1. Equal constants are one value there when they are one
  object; no unit has such a phi.
- A division or a load under a condition inside a loop is moved before the loop
  (`loop_invariant.cpp:108`).
- Unreachable loops have no header, and LoopAnalysis follows a null pointer; blocks without
  predecessors are removed, unreachable ones are not (`mir_simplify_cfg.cpp`).
- In `n + 3 + -3 + m` a new instruction is simplified before it has a place, and gives its
  operands up twice: exit 436 (`instruction_combine.cpp:50`).
- After LowerIR an address is a multiply-add, which `getArrayPtr` does not see through: the
  second LoopInvariant may move a load above the stores of the loop.
- r11 is in `callee_save_regs` (`asm_builder.h:42`), but the prologue saves r12, which the code
  calls fp (`asm_instr.h:143`), and the generator uses r11 as its temporary: a function, `main`
  among them, changes it. No generated code relies on it over a call. Every unit has this;
  `CallerFindsItsRegisters` leaves r11 out (`Relied` of Arm).
- `isPowerOfTwo` holds of the least int (`lower_ir.cpp:193`, `:225`).
- Never taken: `convertRem2And` (its condition asks a power of two to be none) and the
  replacement of a load by a global's initial value.

## 7. Not modelled

- The parser and the token stream are generated; the printers only write.
- Types, constants, initializers, `Scope` and the float instructions. The second register
  file, of floats, goes through the same scan as the first.
- `and`, `or` and `not` in the code generator: nothing creates an `or` or a `not` of ints but the
  cloner, which copies those there are, and LowerIR creates an `and` only under a condition no
  int satisfies (`lower_ir.cpp:142`). Shifts are modelled; their amount is a constant wherever
  LowerIR makes one.
- Initialisers of globals, getelementptr in the code generator (LowerIR leaves none), and
  the text of the assembly.
- The processor, the division helper and the run-time library are modelled from how the
  generated code uses them (Arm, MirMachine).
- InterProceduralAnalysis runs before Mem2Reg in main.cpp. Optimize begins after Mem2Reg, and
  computes what it records from the unit there: Mem2Reg adds and removes no call and no store
  to what a caller can see. The sets of globals a function uses are left out: the only reader
  is code that never fires.
- Time and memory limits of the compiler, and programs too large for its tables.

## 8. Next

1. The same relation, between a unit and what replaces it, for SCCP's folds and for GVN, whose
   replacements are not constants.
2. The frame of AsmBuilder, without recursion: that pushes and pops match on every way out, for
   every set of registers used.
3. Scope: shadowing, as an abstract map refined by the list of layers.
4. getelementptr and initialisers in SYSYBuilder, and both register files.
