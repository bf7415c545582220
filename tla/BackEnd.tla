------------------------------- MODULE BackEnd -------------------------------
(***************************************************************************)
(* AsmBuilder::generate_asm (src/asm/asm_builder.cpp): each function of    *)
(* the unit gets its intervals, its registers and its stack; when the      *)
(* frames of all are known, their code is written.  Then the code is run   *)
(* on the processor beside the unit: the two are given the same input and  *)
(* must show the same thing.                                               *)
(***************************************************************************)
EXTENDS AsmBuilder, Arm, LinearScan

CONSTANTS
  Units,    \* the units to translate
  Inputs    \* what getint may return

VARIABLES
  unit,     \* module: [func, global, names]
  todo,     \* functions without registers yet, the current one first
  alloc,    \* name -> allocation
  image,    \* name -> code, or <<>> before it is written
  run       \* the two executions, once they start: [mir, arm]

vars == <<unit, todo, alloc, image, run, scanVars>>

NotRun == [mir |-> <<>>, arm |-> <<>>]
IsRun == run # NotRun

F == unit.func[Head(todo)]

BackEndInit ==
  /\ unit \in Units /\ todo = unit.names
  /\ alloc = <<>> /\ image = <<>> /\ run = NotRun
  /\ waiting = {} /\ cur = NoInterval /\ reg = 0 /\ lo = 0 /\ hi = 0
  /\ regs = <<>> /\ stopped = "idle"

Unscanned ==
  /\ waiting' = {} /\ cur' = NoInterval /\ reg' = 0 /\ lo' = 0 /\ hi' = 0
  /\ regs' = <<>> /\ stopped' = "idle"

----------------------------------------------------------------------------
(* Liveness, and what main.cpp's passes leave for the back end.            *)

\* The sites control may go to from s.
After(f, s) ==
  IF s[2] < Len(f.code[s[1]]) THEN {<<s[1], s[2] + 1>>}
  ELSE {<<b, 1>> : b \in ToSet(f.succ[s[1]])}

Reads(f, s)  == {o[2] : o \in {x \in ToSet(SiteOf(f, s).ops) : x[1] = "reg"}}
Writes(f, s) == IF SiteOf(f, s).r = 0 THEN {} ELSE {SiteOf(f, s).r}

LiveAfter(f, live, s) == UNION {live[t] : t \in After(f, s)}

\* The registers whose value is still read on some path from each site: the
\* least solution of the usual equations, by rounds.
LiveStep(f) ==
  [live \in [Sites(f) -> SUBSET Nat] |->
     [s \in Sites(f) |->
        Reads(f, s) \cup (LiveAfter(f, live, s) \ Writes(f, s))]]

Live(f) == Rounds(LiveStep(f), [s \in Sites(f) |-> {}])[Cardinality(Sites(f))]

\* The functions as RmPhi leaves them: from the entry a branch, and so the
\* numbering, gets to every block; and what an instruction reads was written
\* before, on every path to it, or is an argument.
AllocatorExpects(f) ==
  /\ f.code \in Seq(Seq(AllInstrs(f))) /\ f.succ \in [DOMAIN f.code -> Seq(DOMAIN f.code)]
  /\ f.list \in Seq(DOMAIN f.code) /\ f.list # <<>> /\ f.args \in Seq(Nat)
  /\ \A j, k \in DOMAIN f.args : f.args[j] = f.args[k] => j = k
  /\ IsFiniteSet(DOMAIN f.bytes) /\ \A r \in DOMAIN f.bytes : r \in Nat \ {0} /\ f.bytes[r] \in Nat
  /\ \A i \in AllInstrs(f) :
       /\ i.r \in Nat /\ i.ops \in Seq(ToSet(i.ops))
       /\ \A o \in ToSet(i.ops) : o[1] = "reg" => o = Reg(o[2]) /\ o[2] \in Nat
  /\ \A b \in ToSet(f.list) :
       /\ f.code[b] # <<>> /\ FirstPoints(f)[b] >= 0
       /\ \A c \in ToSet(f.succ[b]) : c \in ToSet(f.list) /\ b \in ToSet(f.pre[c])
  /\ Live(f)[<<Entry(f), 1>>] \subseteq ToSet(f.args)

\* The functions of a unit.
Translated(u) == {u.func[n] : n \in ToSet(u.names)}

ASSUME UnitsAssumption ==
  /\ \A u \in Units : /\ u.names \in Seq(ToSet(u.names)) /\ DOMAIN u.func = ToSet(u.names)
                      /\ \A f \in Translated(u) : AllocatorExpects(f)
  /\ {IntervalsOf(f) : f \in UNION {Translated(u) : u \in Units}} \subseteq Problems

----------------------------------------------------------------------------
(* Compiling.                                                              *)

BeginFunction ==
  /\ todo # <<>> /\ stopped = "idle"
  /\ StartScan(IntervalsOf(F))
  /\ UNCHANGED <<unit, todo, alloc, image, run>>

Scan == ScanNext /\ UNCHANGED <<unit, todo, alloc, image, run>>

\* The allocation a is the function's, or cannot be one.
Keep(a) ==
  IF a.error = 0
  THEN /\ alloc' = [n \in DOMAIN alloc \cup {Head(todo)} |-> IF n = Head(todo) THEN a ELSE alloc[n]]
       /\ todo' = Tail(todo) /\ Unscanned
  ELSE stopped' = "spill" /\ UNCHANGED <<alloc, todo, waiting, cur, reg, lo, hi, regs>>

\* Again with the flag `insert', which repeats what was done and adds the code.
FinishFunction ==
  /\ stopped = "done"
  /\ Keep(InsertSpills(Allocated(F, IntervalsOf(F), regs, UsedRegisters), F, FirstPoints(F)))
  /\ UNCHANGED <<unit, image, run>>

Frames == [n \in DOMAIN alloc |-> Frame(alloc[n].used, alloc[n].size)]

Assemble ==
  /\ todo = <<>> /\ image = <<>>
  /\ image' = [n \in DOMAIN alloc |-> FunctionCode(unit.func[n], alloc[n], n, Frames)]
  /\ UNCHANGED <<unit, todo, alloc, run, scanVars>>

----------------------------------------------------------------------------
(* Running.                                                                *)

StartRun ==
  /\ image # <<>> /\ ~IsRun
  /\ run' = [mir |-> Boot(unit), arm |-> ArmBoot(unit)]
  /\ UNCHANGED <<unit, todo, alloc, image, scanVars>>

\* The processor goes first, then the unit, each up to what it shows next.
ArmRuns ==
  /\ IsRun /\ ArmVisible(image, run.arm) = "silent"
  /\ run' = [run EXCEPT !.arm = ArmStep(image, @, 0)]
  /\ UNCHANGED <<unit, todo, alloc, image, scanVars>>

MirRuns ==
  /\ IsRun /\ ArmVisible(image, run.arm) # "silent" /\ Visible(unit, run.mir) = "silent"
  /\ run' = [run EXCEPT !.mir = MirStep(unit, @, 0)]
  /\ UNCHANGED <<unit, todo, alloc, image, scanVars>>

BothShow ==
  /\ IsRun /\ ArmVisible(image, run.arm) = Visible(unit, run.mir)
  /\ Visible(unit, run.mir) \in {"in", "out"}
  /\ \E v \in IF Visible(unit, run.mir) = "in" THEN Inputs ELSE {0} :
       run' = [mir |-> MirStep(unit, run.mir, v), arm |-> ArmStep(image, run.arm, v)]
  /\ UNCHANGED <<unit, todo, alloc, image, scanVars>>

BackEndNext ==
  \/ BeginFunction \/ Scan \/ FinishFunction \/ Assemble
  \/ StartRun \/ ArmRuns \/ MirRuns \/ BothShow

BackEndSpec == BackEndInit /\ [][BackEndNext]_vars

----------------------------------------------------------------------------
(* Properties.                                                             *)

\* linear_scan_reg_alloc.cpp:1246: one pair of points for each value, from one
\* numbering of the blocks and the loops it shows, covers every instruction the
\* value is live at, whatever the shape of the control flow.
LiveIsCovered ==
  todo # <<>> /\ stopped = "idle" =>
    LET first == FirstPoints(F)
        live == Live(F)
    IN \A i \in IntervalsOf(F) : i.type \in {"local", "arg"} =>
         \A s \in Sites(F) : i.v[2] \in live[s] => Covers(i, Point(first, s))

\* linear_scan_reg_alloc.cpp:359-545: what needs a register at an instruction -
\* a value that is live or written there, a constant or a global it reads, a
\* call's hold on the registers it clobbers - never needs that of another.
ValuesKeepApart ==
  stopped = "done" =>
    LET first == FirstPoints(F)
        live == Live(F)
        Needs(i) == {s \in Sites(F) :
                       IF i.type \in {"local", "arg"} THEN i.v[2] \in live[s] \cup Writes(F, s)
                       ELSE i.st = Point(first, s)}
    IN \A r \in Reg0 : \A j, k \in DOMAIN regs[r] :
         j # k => Needs(regs[r][j]) \cap Needs(regs[r][k]) = {}

\* What the function keeps on its stack never meets: two values in one word are
\* not there at the same points, and neither is in the slots for what is saved or
\* in a variable.
StackApart(f, a) ==
  /\ \A s, t \in a.slots : s.off = t.off => s = t \/ s.ed < t.st \/ t.ed < s.st
  /\ \A s \in a.slots : s.off + 4 <= a.save \/ a.save + 4 * SaveSlots <= s.off
  /\ \A r \in DOMAIN a.data : /\ a.save + 4 * SaveSlots <= a.data[r]
                              /\ a.data[r] + f.bytes[r] <= a.size
                              /\ \A s \in a.slots : s.off + 4 <= a.data[r]
                              /\ \A q \in DOMAIN a.data : q < r => a.data[q] + f.bytes[q] <= a.data[r]

\* asm_builder.h: the stages, and the shape of what they leave.
BackEndTypeOK ==
  /\ \A n \in DOMAIN alloc :
       /\ alloc[n].size % 4 = 0 /\ alloc[n].used \in 0..IntRegs
       /\ 0 <= alloc[n].save /\ alloc[n].save + 4 * SaveSlots <= alloc[n].size
       /\ \A s \in alloc[n].slots : s.off % 4 = 0 /\ s.off >= 0 /\ s.off < alloc[n].size
       /\ StackApart(unit.func[n], alloc[n])
  /\ image # <<>> => DOMAIN image = DOMAIN unit.func
  /\ stopped \in {"idle", "no", "done", "full", "307", "spill"}

\* No error of the allocator or the generator is raised: a value that needs a
\* register at an instruction always finds one to borrow (308, 310), a place on
\* the stack (311) and a slot to save the other in (309).
BackEndSucceeds ==
  /\ stopped \notin {"full", "307", "spill"}
  /\ \A n \in DOMAIN image : \A k \in DOMAIN image[n] : image[n][k].op # "error"

\* generate_asm: the code reads, writes and returns what the unit does.
SameBehaviour ==
  IsRun /\ ArmVisible(image, run.arm) # "silent" /\ Visible(unit, run.mir) \in {"in", "out", "ret"} =>
    /\ ArmVisible(image, run.arm) = Visible(unit, run.mir)
    /\ Seen(unit, run.mir) # Uncertain => ArmSeen(run.arm) = Seen(unit, run.mir)

\* generate_function_entry_code and _exit_code: a function leaves sp and the
\* registers its caller relies on (all it must keep but r11) as they were.
CallerFindsItsRegisters == IsRun => run.arm.kept
=============================================================================
