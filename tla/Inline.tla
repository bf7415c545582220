-------------------------------- MODULE Inline --------------------------------
(***************************************************************************)
(* passes/function_inline.cpp, with ValueCloner of ir/value.cpp, over a    *)
(* unit.  Every call of a function takes a copy of it; the call's block is *)
(* cut in two, and the copy comes between.  A copy that is not a function  *)
(* of the unit goes on being a caller of what it calls.                    *)
(***************************************************************************)
EXTENDS DeadCode

CONSTANT InlineLimit   \* instructions of the largest function inlined: 400

Copies == "copy"       \* a caller that is a copy

IsAlloca(i) == i.op = "alloca"

\* canFunctionInline.
CanInline(u, n) ==
  /\ n # "main"
  /\ FoldLeft(LAMBDA k, b : k + Size(u.func[n], b), 0, u.func[n].list) <= InlineLimit
  /\ u.callers[n] \cap u.callees[n] = {}

----------------------------------------------------------------------------
(* ValueCloner::copyFunc.                                                  *)

\* The blocks of f in the order they are reached from the entry.
RECURSIVE BreadthFirst(_, _, _)
BreadthFirst(f, queue, seen) ==
  IF queue = <<>> THEN seen
  ELSE LET b == Head(queue)
           next == FoldLeft(LAMBDA s, x : IF x \in ToSet(seen) \cup ToSet(s) THEN s ELSE Append(s, x),
                            <<>>, f.succ[b])
       IN BreadthFirst(f, Tail(queue) \o next, seen \o next)

\* What operand o of function f is in its copy, whose blocks and registers come
\* after those of the caller h.
Copied(h, f, o) ==
  CASE o[1] = "reg"   -> Reg(h.regs + o[2])
    [] o[1] = "block" -> Label(Len(h.code) + SelectInSeq(f.list, LAMBDA b : b = o[2]))
    [] OTHER          -> o

CopiedInstr(h, f, i) ==
  [i EXCEPT !.r = IF @ = 0 THEN 0 ELSE h.regs + @,
            !.ops = Whole([k \in DOMAIN @ |-> Copied(h, f, @[k])])]

\* A block's copy has its phis the other way round; variables come later.
CopyBlock(g, h, f, b) ==
  LET to == Copied(h, f, Label(b))[2]
      add(c, i) ==
        LET j == CopiedInstr(h, f, i)
        IN CASE IsPhi(i)       -> [c EXCEPT !.code[to] = <<j>> \o @]
             [] IsBranch(i)    -> CreateBranch(c, j.ops[1][2], to)
             [] IsConBranch(i) -> CreateCondBr(c, j.ops[1], j.ops[2][2], j.ops[3][2], to)
             [] i.op = "alloca" -> c
             [] OTHER          -> Emit(c, to, j)
  IN FoldLeft(add, g, f.code[b])

\* h with a copy of f, whose variables come first in its entry.
CopyFunc(h, f) ==
  LET order == BreadthFirst(f, <<Entry(f)>>, <<Entry(f)>>)
      empty == FoldLeft(LAMBDA g, b : Create(g, "basic"), h, f.list)
      all   == FoldLeft(LAMBDA g, b : CopyBlock(g, h, f, b), empty, order)
      vars  == SelectSeq(FlattenSeq([k \in DOMAIN order |-> f.code[order[k]]]), IsAlloca)
      entry == Len(h.code) + 1
  IN [all EXCEPT !.code[entry] = [k \in DOMAIN vars |-> CopiedInstr(h, f, vars[k])] \o @,
                 !.regs = h.regs + f.regs,
                 !.pointers = @ \cup {h.regs + r : r \in f.pointers},
                 !.bytes = [r \in {h.regs + x : x \in DOMAIN f.bytes} |-> f.bytes[r - h.regs]] @@ @]

----------------------------------------------------------------------------
(* FunctionInline::inlineCallInstr.                                        *)

\* Slip: the phis after the call go on naming the block that was cut.
NotRenamed(i, b, end) == i

Renamed(i, b, end) ==
  IF IsPhi(i) THEN [i EXCEPT !.ops = Whole(ReplaceAll(@, Label(b), Label(end)))] ELSE i

\* The block of the call is cut after it: what follows goes to block `end', with
\* the edges and the places in phis.  The list keeps the length it had.
CutAfter(f, b, k, end) ==
  LET cut == [f EXCEPT !.code = [@ EXCEPT ![end] = SubSeq(f.code[b], k + 1, Len(f.code[b])),
                                          ![b] = SubSeq(@, 1, k - 1)],
                       !.lost = (b :> Len(f.code[b]) - k + 1 + Size(f, b) - Len(f.code[b])) @@ @,
                       !.succ = [@ EXCEPT ![end] = f.succ[b], ![b] = <<>>]]
      to(g, s) == [g EXCEPT !.pre[s] = Append(Without(@, b), end)]
  IN Rewritten(FoldLeft(to, cut, f.succ[b]), LAMBDA i : Renamed(i, b, end))

\* An argument becomes what is passed.  An address was stored in a variable; the
\* variable, the store and the loads go, and what was loaded is the address.
PassArgument(f, arg, v) ==
  LET stores == {i \in AllInstrs(f) : i.op = "store" /\ i.ops[1] = Reg(arg)}
      vars   == {i.ops[2] : i \in stores}
      loads  == {i \in AllInstrs(f) : i.op = "load" /\ i.ops[1] \in vars}
      gone(i) == i \in stores \cup loads \/ (IsAlloca(i) /\ Reg(i.r) \in vars)
      kept   == Recoded(f, LAMBDA b : SelectSeq(f.code[b], LAMBDA i : ~gone(i)))
  IN ReplaceAllUse(IF arg \notin f.pointers THEN f
                   ELSE FoldLeft(LAMBDA g, i : ReplaceAllUse(g, Reg(i.r), v), kept, SetToSeq(loads)),
                   Reg(arg), v)

\* The returns of the blocks bs become branches to block `end', whose first phi,
\* register r, gets what they return.
ReturnTo(f, bs, end, r) ==
  LET returning == SelectSeq(bs, LAMBDA b : Terminator(f, b).op = "ret")
      pairs == FlattenSeq([k \in DOMAIN returning |->
                 <<Terminator(f, returning[k]).ops[1], Label(returning[k])>>])
      g == FoldLeft(LAMBDA h, b : CreateBranch(DropTerminator(h, b), end, b), f, returning)
  IN IF r = 0 THEN g
     ELSE [g EXCEPT !.code[end] = <<Instr("phi", r, pairs)>> \o @]

HasResult(f) == \E i \in InstrsOf(f) : i.op = "ret" /\ i.ops # <<>>

\* The variables at the head of the copy's entry e join the caller's own.
MoveAllocas(f, e) ==
  LET others(b) == SelectInSeq(f.code[b], LAMBDA i : ~IsAlloca(i))
      from(b, k) == SubSeq(f.code[b], k, Len(f.code[b]))
      upTo(b) == SubSeq(f.code[b], 1, others(b) - 1)
      own == Entry(f)
  IN [f EXCEPT !.code = [@ EXCEPT ![e] = from(e, others(e)),
                                  ![own] = upTo(own) \o upTo(e) \o from(own, others(own))]]

\* Call i of f, in function h.
InlineCall(h, f, i) ==
  LET b    == CHOOSE x \in ToSet(h.list) : i \in ToSet(h.code[x])
      k    == SelectInSeq(h.code[b], LAMBDA j : j = i)
      e    == Len(h.code) + 1
      end  == e + Len(f.list)
      blocks == [j \in DOMAIN f.list |-> Len(h.code) + j]
      copy == CutAfter(Create(CopyFunc(h, f), "basic"), b, k, end)
      into == CreateBranch(copy, e, b)
      args == FoldLeft(LAMBDA g, j : PassArgument(g, h.regs + f.args[j], i.ops[j + 1]),
                       into, [j \in DOMAIN f.args |-> j])
      r    == IF HasResult(f) THEN args.regs + 1 ELSE 0
      back == ReturnTo([args EXCEPT !.regs = @ + 1], blocks, end, r)
      used == IF r = 0 THEN back ELSE ReplaceAllUse(back, Reg(i.r), Reg(r))
      at   == SelectInSeq(h.list, LAMBDA x : x = b)
  IN [MoveAllocas(used, e) EXCEPT
        !.list = SubSeq(@, 1, at) \o Append(blocks, end) \o SubSeq(@, at + 1, Len(@))]

----------------------------------------------------------------------------
(* inlineFunction, once all calls are inlined.                             *)

\* The calls of n there are to inline, with the function they are in.
CallsToInline(u, n) ==
  {c \in UNION {{m} \X InstrsOf(u.func[m]) : m \in u.callers[n] \cap ToSet(u.names)} :
     CalleeOf(c[2]) = n}

\* n has no callers any more, and its callees have its copies.
NoMoreCallers(u, n, copied) ==
  LET callees == {CalleeOf(i) : i \in InstrsOf(u.func[n])}
  IN [u EXCEPT
       !.callees = [m \in DOMAIN @ |-> IF m \in u.callers[n] THEN (@[m] \ {n}) \cup @[n] ELSE @[m]],
       !.callers = [g \in DOMAIN @ |-> IF g = n THEN {}
                                       ELSE IF copied /\ g \in callees THEN @[g] \cup {Copies}
                                       ELSE @[g]]]
=============================================================================
