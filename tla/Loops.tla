-------------------------------- MODULE Loops --------------------------------
(***************************************************************************)
(* passes/analysis/loop_analysis.cpp and passes/loop_invariant.cpp over    *)
(* one function.  The loops are the strongly connected components, found   *)
(* in rounds: each round takes the headers out of the graph.  Then, loop   *)
(* by loop, what does not change moves to a new block before the header.   *)
(* The sets of the code are hashed by address: whatever depends on their   *)
(* order is left open.                                                     *)
(***************************************************************************)
EXTENDS Compiling, Effects, FunctionShape, Words

VARIABLE lp   \* [nodes: blocks still in the graph; coms: components of this
              \*  round, still without a header; loops: {[header, blocks]};
              \*  home: block -> header of the innermost loop around it;
              \*  left: loops still to visit; at: the one being visited]

NoLoop  == [header |-> NoBlock, blocks |-> {}]
NoLoops == [nodes |-> {}, coms |-> {}, loops |-> {}, home |-> <<>>, left |-> {}, at |-> NoLoop]

----------------------------------------------------------------------------
(* LoopAnalysis.                                                           *)

RECURSIVE ReachableIn(_, _, _)
ReachableIn(f, nodes, bs) ==
  LET more == bs \cup (UNION {ToSet(f.succ[b]) : b \in bs} \cap nodes)
  IN IF more = bs THEN bs ELSE ReachableIn(f, nodes, more)

\* findStrongConnectComponents: those of more than one block.
Components(f, nodes) ==
  LET after(b) == ReachableIn(f, nodes, {b})
  IN {c \in {{x \in after(b) : b \in after(x)} : b \in nodes} : Cardinality(c) > 1}

\* Slip: any block of the component.
LoopHeadersAny(f, l, com) == com

\* findLoopHeader: a block entered from outside or, once the blocks that lead to
\* it have left the graph, from the header of a loop around it.
LoopHeaders(f, l, com) ==
  LET entered == {b \in com : ToSet(f.pre[b]) \cap (l.nodes \ com) # {}}
  IN IF entered # {} THEN entered
     ELSE com \cap UNION {ToSet(f.succ[o.header]) : o \in l.loops}

StartLoops(f) ==
  [NoLoops EXCEPT !.nodes = ToSet(f.list), !.coms = Components(f, ToSet(f.list))]

\* The header h of a component is found.
Found(f, l, com, h) ==
  LET nodes == l.nodes \ {h}
      coms  == l.coms \ {com}
      loop  == [header |-> h, blocks |-> com]
      next  == [l EXCEPT !.nodes = nodes, !.loops = @ \cup {loop}, !.left = @ \cup {loop},
                         !.home = [b \in com |-> h] @@ @]
  IN [next EXCEPT !.coms = IF coms # {} THEN coms ELSE Components(f, nodes)]

FindHeader ==
  /\ failed = "no"
  /\ \E com \in lp.coms :
       LET headers == LoopHeaders(fn, lp, com)
       IN IF headers = {} THEN failed' = "segfault" /\ UNCHANGED lp
          ELSE (\E h \in headers : lp' = Found(fn, lp, com, h)) /\ UNCHANGED failed
  /\ UNCHANGED fn

LoopOf(l, h) == CHOOSE o \in l.loops : o.header = h

\* isOneEntryLoop: no other loop begins in it.
Innermost(l, loop) == ~\E o \in l.loops \ {loop} : o.header \in loop.blocks

\* getOuterLoop, by the first predecessor of the header that is not in the loop.
\* A block LoopInvariant made is in no loop.
OuterLoop(f, l, loop) ==
  LET outside == SelectSeq(f.pre[loop.header], LAMBDA p : p \notin loop.blocks)
  IN IF outside = <<>> THEN NoLoop
     ELSE IF Head(outside) \notin DOMAIN l.home THEN NoLoop
     ELSE LET o == LoopOf(l, l.home[Head(outside)])
          IN IF loop.header \in o.blocks THEN o ELSE NoLoop

----------------------------------------------------------------------------
(* LoopInvariant::findInvariants.                                          *)

Movable(i) == i.op \notin 
  {"phi", "br", "call", "ret", "alloca", "store"} \cup Comparisons

\* Slip: only phis change.
ChangesPhis(f, side, changing, i) ==
  \E c \in changing : IsPhi(c) /\ Reg(c.r) \in ToSet(i.ops)

\* A load also depends on the stores to the same variable and on the calls of
\* functions with side effects.
Changes(f, side, changing, i) ==
  \/ \E c \in changing : c.r # 0 /\ Reg(c.r) \in ToSet(i.ops)
  \/ i.op = "load" /\ \E c \in changing :
       \/ c.op = "store" /\ ArrayPtr(f, c.ops[2]) = ArrayPtr(f, i.ops[1])
       \/ CalleeOf(c) \in side

\* Rounds over the loop's instructions until none is added.
RECURSIVE Invariants(_, _, _, _)
Invariants(f, side, code, found) ==
  LET see(is, i) ==
        IF ~Movable(i) \/ i \in ToSet(is) \/ Changes(f, side, ToSet(code) \ ToSet(is), i)
        THEN is ELSE Append(is, i)
      more == FoldLeft(see, found, code)
  IN IF more = found THEN found ELSE Invariants(f, side, code, more)

----------------------------------------------------------------------------
(* LoopInvariant::handleInvariants.                                        *)

\* The pairs of phi i from inside the loop, or from outside.
PairsFrom(i, blocks) == SelectSeq([k \in 1..(Len(i.ops) \div 2) |-> <<i.ops[2*k - 1], i.ops[2*k]>>],
                                  LAMBDA p : p[2][2] \in blocks)

\* One pair from outside now comes from block n; more go to a phi in n.  The only
\* pair is looked up by its value: equal constants are one value when they are one
\* object, as in the phis of registers `shared'.
SplitPhi(a, i, loop, n, shared) ==
  LET inner == PairsFrom(i, loop.blocks)
      outer == PairsFrom(i, DOMAIN a.f.code \ loop.blocks)
      object(v) == v[1] # "const" \/ i.r \in shared
      same(k) == i.ops[k] = outer[1][1] /\ (object(i.ops[k]) \/ i.ops[k + 1] = outer[1][2])
      r == a.f.regs + 1
      with(ops) == Rewritten(a.f, LAMBDA j : IF j = i THEN [i EXCEPT !.ops = Whole(ops)] ELSE j)
  IN IF outer = <<>> THEN a
     ELSE IF Len(outer) = 1
     THEN IF \E k \in DOMAIN inner : inner[k][1] = outer[1][1] /\ object(inner[k][1])
          THEN [a EXCEPT !.why = "436"]
          ELSE [a EXCEPT !.f = with([k \in DOMAIN i.ops |->
                  IF k % 2 = 0 /\ same(k - 1) THEN Label(n) ELSE i.ops[k]])]
     ELSE [a EXCEPT !.f = [with(FlattenSeq(Append(inner, <<Reg(r), Label(n)>>))) EXCEPT
                             !.regs = r, !.code[n] = <<Instr("phi", r, FlattenSeq(outer))>> \o @]]

\* The edges into the header from outside now lead to block n.
MoveEdges(f, loop, n) ==
  LET ps == SelectSeq(f.pre[loop.header], LAMBDA p : p \notin loop.blocks \cup {n})
      To(i) == [i EXCEPT !.ops = Whole(ReplaceAll(@, Label(loop.header), Label(n)))]
      Code(b) == IF b \in ToSet(ps) THEN Front(f.code[b]) \o <<To(Last(f.code[b]))>> ELSE f.code[b]
      Succ(b) == IF b \notin ToSet(ps) THEN f.succ[b]
                 ELSE Without(f.succ[b], loop.header)
                        \o [k \in DOMAIN SelectSeq(ps, LAMBDA p : p = b) |-> n]
  IN [Recoded(f, Code) EXCEPT
        !.succ = Whole([b \in DOMAIN @ |-> Succ(b)]),
        !.pre = [@ EXCEPT ![n] = ps,
                          ![loop.header] = SelectSeq(@, LAMBDA p : p \notin ToSet(ps))]]

\* Slip: the new block also stays where blocks are added, at the end.
PutBeforeAndLast(list, h, n) == Append(InsertAt(list, SelectInSeq(list, LAMBDA b : b = h), n), n)

PutBefore(list, h, n) == InsertAt(list, SelectInSeq(list, LAMBDA b : b = h), n)

\* The instructions `is' move to a new block before the loop: the function and
\* why the compiler stops.
MovedOut(f, loop, is, shared) ==
  LET n    == NewBlock(f)
      rest(s) == SelectSeq(s, LAMBDA i : i \notin ToSet(is))
      g    == Recoded(Create(f, "basic"),
                      LAMBDA b : IF b = n THEN is
                                 ELSE IF b \in loop.blocks THEN rest(f.code[b]) ELSE f.code[b])
      h    == CreateBranch(g, loop.header, n)
      end  == FoldLeft(LAMBDA a, i : SplitPhi(a, i, loop, n, shared), [f |-> h, why |-> "no"],
                       Phis(h, loop.header))
  IN [end EXCEPT !.f = [MoveEdges(@, loop, n) EXCEPT !.list = PutBefore(@, loop.header, n)]]

----------------------------------------------------------------------------

\* LoopInvariant::run takes the loops in any order, innermost ones only.
VisitLoop ==
  /\ failed = "no" /\ lp.coms = {} /\ lp.at = NoLoop
  /\ \E loop \in lp.left :
       lp' = [lp EXCEPT !.left = @ \ {loop}, !.at = IF Innermost(lp, loop) THEN loop ELSE NoLoop]
  /\ UNCHANGED <<fn, failed>>

\* A loop is handled, and the one around it is next.
HandleLoop(side) ==
  /\ failed = "no" /\ lp.at # NoLoop
  /\ \E order \in {s \in [1..Cardinality(lp.at.blocks) -> lp.at.blocks] : IsInjective(s)},
        shared \in SUBSET {i.r : i \in ToSet(Phis(fn, lp.at.header))} :
       LET code == FlattenSeq([k \in DOMAIN order |-> fn.code[order[k]]])
           is   == Invariants(fn, side, code, <<>>)
           end  == IF is = <<>> THEN [f |-> fn, why |-> "no"] ELSE MovedOut(fn, lp.at, is, shared)
       IN /\ failed' = end.why
          /\ fn' = IF end.why = "no" THEN end.f ELSE fn
          /\ lp' = [lp EXCEPT !.at = OuterLoop(end.f, lp, lp.at)]

LoopsDone == lp # NoLoops /\ lp.coms = {} /\ lp.left = {} /\ lp.at = NoLoop

----------------------------------------------------------------------------

\* loop_analysis.cpp: the header the analysis chose for a loop dominates it
\* (what moves before the header then runs before every use in the loop), and
\* two loops are nested or apart.
LoopsNest ==
  \A o \in lp.loops :
    /\ \A b \in o.blocks : DominatesIn(fn, o.header, b)
    /\ \A p \in lp.loops : \/ o.blocks \subseteq p.blocks \/ p.blocks \subseteq o.blocks
                            \/ o.blocks \cap p.blocks = {}
=============================================================================
