------------------------------ MODULE Numbering ------------------------------
(***************************************************************************)
(* passes/global_value_numbering.cpp over one function: of two operations  *)
(* with the same operands, the second is replaced by the first when it     *)
(* comes after it in a block or in a chain of only predecessors.           *)
(***************************************************************************)
EXTENDS Effects

\* A state of the pass: f; tables, a scope for each block of the chain, from
\* <<operation, operand, operand>> or <<"gep", itself>> to a register; consts, for
\* each scope, from a number to the constant object that stands for it; visited and
\* queue; shared: the instructions whose constants are objects they have in common.
StartNumbering(f, shared) ==
  [f |-> f, tables |-> <<>>, consts |-> <<>>, visited |-> {}, queue |-> <<Entry(f)>>,
   shared |-> shared, value |-> Unknown]

Numbered == {"add", "sub", "mul", "div", "rem", "gep"}
Commutative(op) == op \in {"add", "mul"}

\* The operands of i as objects: a constant is one of its own, unless a pass put one
\* object (replaceAllUse by a constant, a clone) in several places.
Objects(a, i) ==
  [k \in DOMAIN i.ops |->
     IF i.ops[k][1] = "const" /\ i.r \notin a.shared THEN Append(i.ops[k], <<i.r, k>>) ELSE i.ops[k]]

KeyOf(a, i) ==
  IF i.op = "gep" THEN <<"gep", Reg(i.r)>> ELSE <<i.op, Objects(a, i)[1], Objects(a, i)[2]>>

Swapped(a, i) ==
  IF Commutative(i.op) THEN <<i.op, Objects(a, i)[2], Objects(a, i)[1]>> ELSE KeyOf(a, i)

----------------------------------------------------------------------------

\* findOnTable, innermost scope first: a register, or 0.
FindOnTable(a, i) ==
  LET raw(s) == KeyOf(a, i) \in DOMAIN a.tables[s]
      in == {s \in DOMAIN a.tables : raw(s) \/ Swapped(a, i) \in DOMAIN a.tables[s]}
      s  == CHOOSE x \in in : \A y \in in : y <= x
  IN IF in = {} THEN 0 ELSE a.tables[s][IF raw(s) THEN KeyOf(a, i) ELSE Swapped(a, i)]

\* pushValueToTable: what is there stays.
Push(a, i) == [a EXCEPT !.tables = Front(@) \o <<Last(@) @@ (KeyOf(a, i) :> i.r)>>]

\* The object that stands for the number of constant v in the scopes: v, if none did.
StandsFor(a, v) ==
  LET in == {s \in DOMAIN a.consts : v[2] \in DOMAIN a.consts[s]}
  IN IF in = {} THEN [a EXCEPT !.consts = Front(@) \o <<Last(@) @@ (v[2] :> v)>>, !.value = v]
     ELSE [a EXCEPT !.value = a.consts[Max(in)][v[2]]]

RECURSIVE LookUpOrAdd(_, _), SameInTable(_, _)

\* The values of some operands, each of which is added.
LookUpAll(a, ops) ==
  FoldLeft(LAMBDA c, o : LET d == LookUpOrAdd(c.a, o) IN [a |-> d, values |-> Append(c.values, d.value)],
           [a |-> a, values |-> <<>>], ops)

\* findSameInstrInTable, outermost scope first: an operation on the same values
\* (in the same order: its operands are not swapped here), or an address made
\* from the same values.
SameInTable(a, i) ==
  LET all  == LookUpAll(a, Objects(a, i))
      key  == <<i.op, all.values[1], all.values[2]>>
      in   == {s \in DOMAIN a.tables : i.op # "gep" /\ key \in DOMAIN all.a.tables[s]}
      geps == FlattenSeq([s \in DOMAIN a.tables |->
                SetToSeq({k[2] : k \in {x \in DOMAIN all.a.tables[s] : x[1] = "gep"}})])
      seen(c, v) ==
        LET other == LookUpAll(c, Objects(c, Definer(c.f, v)))
        IN IF c.value # Unknown THEN c
           ELSE [other.a EXCEPT !.value = IF other.values = all.values THEN v ELSE Unknown]
  IN IF i.op = "gep" THEN FoldLeft(seen, [all.a EXCEPT !.value = Unknown], geps)
     ELSE [all.a EXCEPT !.value = IF in = {} THEN Unknown
                                  ELSE Reg(all.a.tables[CHOOSE s \in in : \A t \in in : s <= t][key])]

\* lookUpOrAdd: what is neither an operation nor a constant stands for itself.
LookUpOrAdd(a, v) ==
  LET i == Definer(a.f, v)
      found == FindOnTable(a, i)
      other == SameInTable(a, i)
  IN IF IsConst(v) THEN StandsFor(a, v)
     ELSE IF i.op \notin Numbered THEN [a EXCEPT !.value = v]
     ELSE IF found # 0 THEN [a EXCEPT !.value = Reg(found)]
     ELSE IF other.value # Unknown THEN other
     ELSE [Push(other, i) EXCEPT !.value = v]

----------------------------------------------------------------------------

\* replace: the entry with i's own operands goes from every scope, whoever made it.
Replace(a, b, i, v) ==
  [a EXCEPT !.tables = [s \in DOMAIN @ |-> Restrict(@[s], DOMAIN @[s] \ {KeyOf(a, i)})],
            !.f = [ReplaceAllUse(@, Reg(i.r), v) EXCEPT
                     !.code[b] = SelectSeq(@, LAMBDA j : j.r # i.r)]]

\* LVN.
NumberInstruction(a, b, r) ==
  LET i == Definer(a.f, Reg(r))
      c == LookUpOrAdd(a, Reg(r))
  IN IF i.op \notin Numbered \/ c.value = Reg(r) THEN c ELSE Replace(c, b, i, c.value)

\* SVN: a block, then those it is the only predecessor of; others wait.
RECURSIVE NumberBlock(_, _)
NumberBlock(a, b) ==
  LET c == [a EXCEPT !.visited = @ \cup {b}, !.tables = Append(@, <<>>), !.consts = Append(@, <<>>)]
      d == FoldLeft(LAMBDA e, i : IF i.r = 0 THEN e ELSE NumberInstruction(e, b, i.r), c, a.f.code[b])
      next(e, s) == IF Len(e.f.pre[s]) = 1 THEN NumberBlock(e, s)
                    ELSE IF s \in e.visited THEN e
                    ELSE [e EXCEPT !.visited = @ \cup {s}, !.queue = Append(@, s)]
  IN [FoldLeft(next, d, d.f.succ[b]) EXCEPT !.tables = Front(@), !.consts = Front(@)]

RECURSIVE NumberQueue(_)
NumberQueue(a) ==
  IF a.queue = <<>> THEN a.f
  ELSE NumberQueue(NumberBlock([a EXCEPT !.queue = Tail(@)], Head(a.queue)))

\* GlobalVariableNumbering::run, for one function.
RunNumbering(f, shared) == NumberQueue(StartNumbering(f, shared))

\* Bound: all instructions have their constants in common, or none, or two.
Sharing(f) ==
  LET consts(i) == {o \in ToSet(i.ops) : IsConst(o)}
      some == {i \in AllInstrs(f) : i.op \in Numbered /\ consts(i) # {}}
  IN {{}, {i.r : i \in some}}
     \cup {{p[1].r, p[2].r} : p \in {q \in some \X some : consts(q[1]) \cap consts(q[2]) # {}}}

\* check: no block without predecessors, the entry apart.
HasDeadBlock(f) == \E b \in ToSet(f.list) \ {Entry(f)} : f.pre[b] = <<>>
=============================================================================
