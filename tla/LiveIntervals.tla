--------------------------- MODULE LiveIntervals ---------------------------
(***************************************************************************)
(* AsmBuilder::live_interval_analysis (src/asm/linear_scan_reg_alloc.cpp): *)
(* one interval of points for each value of a function, none of them       *)
(* split, from one numbering of the instructions and no dataflow.  The     *)
(* function comes from RmPhi: a phi is what the mov instructions to its    *)
(* register write.  f.args are the arguments, f.bytes[r] what the variable *)
(* made by an alloca takes.  A constant is a ConstantInt object: those of  *)
(* one number are told apart by a third component, and an object that a    *)
(* pass has put in several places is one tuple.                            *)
(***************************************************************************)
EXTENDS Mir, ArmRegisters, FiniteSetsExt

\* Every instruction, as <<block, number>>.
Sites(f) == UNION {{<<b, k>> : k \in DOMAIN f.code[b]} : b \in ToSet(f.list)}
SiteOf(f, s) == f.code[s[1]][s[2]]

----------------------------------------------------------------------------
(* The numbering: breadth first from the entry, the instructions of a      *)
(* block one after the other.  A block without a number has -1.            *)

\* What n rounds of a loop make of x, each of them by the function `step'.
Rounds(step, x) ==
  LET after[n \in Nat] == IF n = 0 THEN x ELSE step[after[n - 1]]
  IN after

\* The queue of blocks, the point of the first instruction of each block, and
\* the next point.
Walks(f) == [queue : Seq(DOMAIN f.code), first : [DOMAIN f.code -> Int], next : Nat]

\* The first block of the queue is taken from it.
Visit(f) ==
  [w \in Walks(f) |->
     IF w.queue = <<>> THEN w
     ELSE LET b == Head(w.queue) IN
          IF w.first[b] >= 0 THEN [w EXCEPT !.queue = Tail(@)]
          ELSE [queue |-> Tail(w.queue) \o f.succ[b],
                first |-> [w.first EXCEPT ![b] = w.next],
                next  |-> w.next + Len(f.code[b])]]

Edges(f) == UNION {{<<b, k>> : k \in DOMAIN f.succ[b]} : b \in DOMAIN f.code}

\* As many visits as blocks are put in the queue.
FirstPoints(f) ==
  LET start == [queue |-> <<Entry(f)>>, first |-> [b \in DOMAIN f.code |-> -1], next |-> 0]
  IN Rounds(Visit(f), start)[1 + Cardinality(Edges(f))].first

Point(first, s) == first[s[1]] + s[2] - 1

LastPoint(f, first, b) == first[b] + Len(f.code[b]) - 1

----------------------------------------------------------------------------
(* Loops: an edge to a block that is not numbered later.                   *)

Loops(f, first) ==
  {<<first[e[2]], LastPoint(f, first, e[1])>> :
     e \in {x \in ToSet(f.list) \X ToSet(f.list) :
              x[1] \in ToSet(f.pre[x[2]]) /\ first[x[1]] >= first[x[2]]}}

Within(a, b)  == b[1] <= a[1] /\ a[2] <= b[2]
Meet(a, b)    == a[1] <= b[2] /\ b[1] <= a[2]
Crossing(a, b) == Meet(a, b) /\ ~Within(a, b) /\ ~Within(b, a)
Join(a, b) == <<IF a[1] < b[1] THEN a[1] ELSE b[1], IF a[2] > b[2] THEN a[2] ELSE b[2]>>

\* Loops that cross are joined, those that makes are joined in the next round.
JoinCrossing ==
  [w \in [all : SUBSET (Int \X Int), latest : SUBSET (Int \X Int)] |->
     LET crossing == {p \in w.latest \X w.latest : Crossing(p[1], p[2])}
         joined   == {Join(p[1], p[2]) : p \in crossing} \ w.all
     IN [all |-> w.all \cup joined, latest |-> joined]]

\* From where one loop begins to where one ends.
Spans(loops) == {<<p[1][1], p[2][2]>> : p \in loops \X loops}

\* Slip: loops that cross are left as they are.
WithoutJoined(loops) == loops

\* Rounds without end: the code stops when one of them has made nothing, which
\* is so before there have been as many as there are spans.
WithJoined(loops) ==
  Rounds(JoinCrossing, [all |-> loops, latest |-> loops])[Cardinality(Spans(loops))].all

LoopSet(f, first) == WithJoined(Loops(f, first))

----------------------------------------------------------------------------
(* Uses.                                                                   *)

\* A constant 1, whichever object.
IsOne(o) == o[1] = "const" /\ o[2] = 1

\* A constant is given no register where the instruction can hold it.
Immediate(i, k) ==
  /\ i.ops[k][1] = "const"
  /\ \/ i.op = "mov"
     \/ /\ i.op \in {"add", "sub", "div", "eq", "ne", "lt", "le", "gt", "ge", "shl", "ashr", "lshr"}
        /\ k = 2
     \/ i.op = "rem"
     \/ i.op = "mla" /\ k = 1 /\ IsOne(i.ops[k])

\* The operands of i that need a place.
Operands(i) ==
  {k \in DOMAIN i.ops : i.ops[k][1] \in {"reg", "const", "global"} /\ ~Immediate(i, k)}

\* Every operand that needs a place, with its point: <<value, point, position>>.
UsesIn(f, first) ==
  UNION {{<<SiteOf(f, s).ops[o], Point(first, s), o>> : o \in Operands(SiteOf(f, s))} : s \in Sites(f)}

Definitions(f, first) ==
  {<<SiteOf(f, s).r, Point(first, s)>> : s \in {x \in Sites(f) : SiteOf(f, x).r # 0}}

Power2(n) == IF n <= 0 THEN 1 ELSE IF n = 1 THEN 2 ELSE IF n = 2 THEN 4 ELSE IF n = 3 THEN 8 ELSE 16

\* (4 - n) * 10 for the argument of a call that goes to register n.
ArgumentWeight(f, v) ==
  LET at(i) == {k \in 2..(ArgRegs + 1) : k \in DOMAIN i.ops /\ i.ops[k] = v}
      weigh(w, i) == IF i.op # "call" \/ at(i) = {} THEN w
                     ELSE (ArgRegs + 2 - (CHOOSE k \in at(i) : \A l \in at(i) : l <= k)) * 10
  IN FoldLeft(weigh, 0, FlattenSeq([n \in DOMAIN f.list |-> f.code[f.list[n]]]))

----------------------------------------------------------------------------
(* Intervals.                                                              *)

Interval(v, st, ed, type) ==
  [v |-> v, st |-> st, ed |-> ed, type |-> type, pin |-> 0, onStack |-> FALSE,
   num |-> 1, den |-> 1, uses |-> {}, data |-> 0]

\* A call stands in the way of every value at its point, in these registers.
CallIntervals(f, first) ==
  {[Interval(SiteOf(f, s).ops[1], Point(first, s), Point(first, s), "call") EXCEPT !.pin = r] :
     s \in {x \in Sites(f) : SiteOf(f, x).op = "call"}, r \in Clobbered}

\* Constants and globals: an interval for each point of use of each object, which
\* share the object's use points.
PointIntervals(uses) ==
  {[Interval(u[1], u[2], u[2], IF u[1][1] = "const" THEN "imm" ELSE "global")
      EXCEPT !.uses = {w[2] : w \in {x \in uses : x[1] = u[1]}}] :
     u \in {x \in uses : x[1][1] \in {"const", "global"}}}

\* Once used in a loop that began after its definition, a value lives to the
\* end of the loop.
LastUse(points, st, loops) ==
  Max(points \cup {l[2] : l \in {x \in loops : st < x[1] /\ \E p \in points : x[1] <= p /\ p <= x[2]}})

\* The interval of a register: its definitions and its uses.
ValueInterval(f, r, defs, uses, loops) ==
  LET mine == {u \in uses : u[1] = Reg(r)}
      ud   == {u[2] : u \in mine}
      dd   == {d[2] : d \in {x \in defs : x[1] = r}}
      isArg == r \in ToSet(f.args)
      n    == IF isArg THEN CHOOSE k \in DOMAIN f.args : f.args[k] = r ELSE 0
      st   == IF isArg THEN -1 ELSE Min(dd)
      ed   == IF ud = {} THEN Max(dd \cup {st}) ELSE Max({LastUse(ud, st, loops)} \cup dd)
      depth(u) == Power2(Cardinality({l \in loops : l[1] <= u[2] /\ u[2] <= l[2]}))
      range == ed - st + 1
  IN [Interval(Reg(r), st, ed, IF isArg THEN "arg" ELSE "local") EXCEPT
        !.pin = IF n > ArgRegs THEN n - ArgRegs - 1 ELSE IF isArg THEN n - 1 ELSE 0,
        !.onStack = n > ArgRegs,
        !.uses = ud \cup dd,
        !.num = (10000 * Cardinality(ud \cup dd) + 1) * MapThenSumSet(depth, mine)
                  + 10000 * ArgumentWeight(f, Reg(r)) * range,
        !.den = range,
        !.data = (IF r \in DOMAIN f.bytes THEN f.bytes[r] ELSE 0)]

IntervalsOf(f) ==
  LET first == FirstPoints(f)
      loops == LoopSet(f, first)
      uses  == UsesIn(f, first)
      defs  == Definitions(f, first)
      values == ToSet(f.args) \cup {d[1] : d \in defs}
  IN {ValueInterval(f, r, defs, uses, loops) : r \in values}
     \cup PointIntervals(uses) \cup CallIntervals(f, first)
=============================================================================
