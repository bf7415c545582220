----------------------------- MODULE SYSYBuilder -----------------------------
(***************************************************************************)
(* visitor/sysy_builder.cpp, its control flow: the syntax tree of one      *)
(* function becomes a tree of base blocks (the HIR).                       *)
(*                                                                         *)
(* The visitor recurses; its pending calls are the stack todo, one record  *)
(* per call or per statement left to do after a call returns, and each     *)
(* action is one visit or one such remainder.  Where the next instruction  *)
(* goes (the block), which list the next block joins (the list) and whose  *)
(* child it becomes (the father) are three independent cursors, saved and  *)
(* restored at different places: that they agree is what could go wrong.   *)
(***************************************************************************)
EXTENDS Compiling, SysY

CONSTANT Programs            \* function bodies to compile
ASSUME ProgramsAssumption == \A p \in Programs : p.k = "block"

VARIABLES
  program,   \* the body being compiled
  todo,      \* the visitor's pending calls, innermost first
  cursor,    \* IRBuilder: [block, list, father]
  G          \* the builder's globals: [true_bb, false_bb, val, slot]

builderVars == <<program, todo, cursor, G>>

\* The function's own list of base blocks.
TopList == <<NoBlock, "body">>

Call(what, s)  == [do |-> what, s |-> s]
Visit(s)       == Call("visit", s)
Item(s)        == Call("item", s)
Arm(b, field, s) == [do |-> "arm", s |-> s, block |-> b, field |-> field]
Finish(b, s)   == [do |-> "finish", s |-> s, block |-> b]
Cond(c)        == Call("cond", c)
SecondOfAnd(c, b)      == [do |-> "second_of_and", s |-> c, block |-> b]
SecondOfOr(c, b, father) ==
  [do |-> "second_of_or", s |-> c, block |-> b, false_bb |-> father]
SetList(l)     == [do |-> "set_list", list |-> l]
SetFather(b)   == [do |-> "set_father", block |-> b]

Doing(what) == todo # <<>> /\ Head(todo).do = what
Visiting(kinds) == Doing("visit") /\ Head(todo).s.k \in kinds

\* The visit returns, leaving these calls for its caller to make next.
Resume(calls) == todo' = calls \o Tail(todo)

----------------------------------------------------------------------------
(* IRBuilder.                                                              *)

\* BaseBlock joins list l of block b's father, or the function's list.
Join(f, b, l, father) ==
  [f EXCEPT !.body = [x \in DOMAIN @ \cup {l} |->
                        (IF x \in DOMAIN @ THEN @[x] ELSE <<>>)
                          \o (IF x = l THEN <<b>> ELSE <<>>)],
            !.father[b] = IF father = NoBlock THEN @ ELSE father]

\* pushBaseBlock of a new block: the current list, the current father.
PushBaseBlock(f, kind) ==
  Join(Create(f, kind), NewBlock(f), cursor.list, cursor.father)

\* A new block as a statement makes it: at the top level it joins the
\* function's list whatever the current list, below it the current list.
PlaceNew(f, kind) ==
  IF cursor.father = NoBlock
  THEN Join(Create(f, kind), NewBlock(f), TopList, NoBlock)
  ELSE PushBaseBlock(f, kind)

ListOf(f, b, field) ==
  IF <<b, field>> \in DOMAIN f.body THEN f.body[<<b, field>>] ELSE <<>>

\* getTargetBasicBlock: the first basic block run when b is entered.
EntryOf(f, b) ==
  IF f.kind[b] = "basic" THEN b ELSE Head(f.body[<<b, "cond">>])

----------------------------------------------------------------------------
(* Expressions: they append to the current block and leave G_tmp_val.      *)

Evaluate(f, b, e) ==
  CASE e.k = "input" -> [f |-> Define(f, b, "in", <<>>), v |-> Reg(f.regs + 1)]
    [] e.k = "var" ->
         [f |-> Define(f, b, "load", <<Reg(G.slot[e.x])>>), v |-> Reg(f.regs + 1)]
    [] e.k = "lit" -> [f |-> f, v |-> Const(e.v)]

\* An expression as a condition: compared with zero (createNEQ).
EvaluateCond(f, b, e) ==
  LET r == Evaluate(f, b, e)
  IN [f |-> Define(r.f, b, "cmp", <<r.v>>), v |-> Reg(r.f.regs + 1)]

VisitDecl ==
  /\ Visiting({"decl"})
  /\ fn' = [fn EXCEPT !.regs = @ + 1, !.allocas = Append(@, fn.regs + 1)]
  /\ G' = [G EXCEPT !.slot = [x \in DOMAIN @ \cup {Head(todo).s.x} |->
                                IF x = Head(todo).s.x THEN fn.regs + 1 ELSE @[x]]]
  /\ Resume(<<>>)
  /\ UNCHANGED <<failed, program, cursor>>

VisitAssign ==
  /\ Visiting({"assign"})
  /\ LET s == Head(todo).s
         r == Evaluate(fn, cursor.block, s.e)
     IN fn' = Emit(r.f, cursor.block, Instr("store", 0, <<r.v, Reg(G.slot[s.x])>>))
  /\ Resume(<<>>)
  /\ UNCHANGED <<failed, program, cursor, G>>

VisitExp ==
  /\ Visiting({"exp"})
  /\ LET r == Evaluate(fn, cursor.block, Head(todo).s.e)
     IN fn' = Emit(r.f, cursor.block, Instr("out", 0, <<r.v>>))
  /\ Resume(<<>>)
  /\ UNCHANGED <<failed, program, cursor, G>>

\* break, continue and `return e' end their block and open another, which
\* joins the current list as a child of the current father; `return;' and the
\* empty statement open none.
VisitJump ==
  /\ Visiting({"break", "continue", "return"})
  /\ LET s == Head(todo).s
         f == IF s.k = "return"
              THEN LET r == Evaluate(fn, cursor.block, s.e)
                   IN CreateRet(r.f, r.v, cursor.block)
              ELSE Emit(fn, cursor.block, Instr(s.k, 0, <<>>))
     IN /\ fn' = PlaceNew(f, "basic")
        /\ cursor' = [cursor EXCEPT !.block = NewBlock(f)]
  /\ Resume(<<>>)
  /\ UNCHANGED <<failed, program, G>>

VisitReturnNull ==
  /\ Visiting({"return_null", "null"})
  /\ fn' = IF Head(todo).s.k = "null" THEN fn
           ELSE CreateRet(fn, Const(0), cursor.block)
  /\ Resume(<<>>)
  /\ UNCHANGED <<failed, program, cursor, G>>

----------------------------------------------------------------------------
(* Blocks of statements.                                                   *)

VisitBlock ==
  /\ Visiting({"block"})
  /\ LET items == Head(todo).s.items
     IN Resume([k \in DOMAIN items |-> Item(items[k])])
  /\ UNCHANGED <<failed, program, fn, cursor, G>>

\* A statement after an if or a while finds the current block deep inside it,
\* and opens a new one.
VisitItem ==
  /\ Doing("item")
  /\ LET s == Head(todo).s
         b == cursor.block
     IN /\ IF ~IsControl(s) /\ fn.father[b] # cursor.father
           THEN /\ fn' = PlaceNew(fn, "basic")
                /\ cursor' = [cursor EXCEPT !.block = NewBlock(fn)]
           ELSE UNCHANGED <<fn, cursor>>
        /\ Resume(<<Visit(s)>>)
  /\ UNCHANGED <<failed, program, G>>
----------------------------------------------------------------------------
(* if, if-else and while.                                                  *)

\* The node is placed, and becomes the father of what its parts create; the
\* exit of a while is placed right after it, in the same list.
VisitControl ==
  /\ Visiting({"if", "if_else", "while"})
  /\ LET s  == Head(todo).s
         id == NewBlock(fn)
         f  == PlaceNew(fn, IF s.k = "while" THEN "while" ELSE "if")
         after == <<Finish(id, s), SetList(cursor.list), SetFather(cursor.father)>>
     IN /\ fn' = IF s.k = "while" THEN PlaceNew(f, "basic") ELSE f
        /\ cursor' = [cursor EXCEPT !.father = id]
        /\ Resume(CASE s.k = "while" -> <<Arm(id, "body", s.s)>> \o after
                   [] s.k = "if" -> <<Arm(id, "then", s.s)>> \o after
                   [] s.k = "if_else" ->
                        <<Arm(id, "then", s.s), Arm(id, "else", s.t)>> \o after)
  /\ UNCHANGED <<failed, program, G>>

\* One arm of an if, or the body of a while.  A simple statement gets a block
\* of its own in the arm, but the current list stays the enclosing one: the
\* block a jump opens lands there.
VisitArm ==
  /\ Doing("arm")
  /\ LET a == Head(todo)
         arm == <<a.block, a.field>>
         switches == IsControl(a.s) \/ a.s.k = "block"
         opens == IsSimple(a.s) \/ a.s.k = "block"
     IN /\ fn' = IF opens
                 THEN Join(Create(fn, "basic"), NewBlock(fn), arm, a.block)
                 ELSE fn
        /\ cursor' = [cursor EXCEPT !.block = IF opens THEN NewBlock(fn) ELSE @,
                                    !.list = IF switches THEN arm ELSE @]
        /\ Resume(IF a.s.k = "null" THEN <<>>
                  ELSE IF switches THEN <<Visit(a.s), SetList(cursor.list)>>
                  ELSE <<Visit(a.s)>>)
  /\ UNCHANGED <<failed, program, G>>

\* The arm's first block; an empty arm gets one.
Filled(f, b, field) ==
  IF ListOf(f, b, field) # <<>> THEN f
  ELSE Join(Create(f, "basic"), NewBlock(f), <<b, field>>, b)

\* The arms are built: the targets of the condition are settled, and the
\* condition is visited, its first block in the node's list of conditions.
FinishControl ==
  /\ Doing("finish")
  /\ LET id == Head(todo).block
         s  == Head(todo).s
         no == IF s.k = "if" THEN Join(Create(fn, "basic"), NewBlock(fn), <<id, "else">>, id)
               ELSE fn
         \* for a while and an if the arm is looked at before the block of the
         \* condition is created, for an if-else after it
         inCond(f) == Join(Create(f, "basic"), NewBlock(f), <<id, "cond">>, id)
         yes == CASE s.k = "if" -> inCond(Filled(no, id, "then"))
                  [] s.k = "if_else" -> Filled(Filled(inCond(fn), id, "then"), id, "else")
                  [] s.k = "while" -> Filled(inCond(fn), id, "body")
     IN /\ fn' = yes
        /\ G' = [G EXCEPT
             !.true_bb = Head(yes.body[<<id, IF s.k = "while" THEN "body" ELSE "then">>]),
             !.false_bb = IF s.k = "while" THEN id + 1 ELSE Head(yes.body[<<id, "else">>])]
        /\ cursor' = [cursor EXCEPT !.list = <<id, "cond">>,
                                    !.block = Head(yes.body[<<id, "cond">>])]
        /\ Resume(<<Cond(s.c)>>)
  /\ UNCHANGED <<failed, program>>

\* SetBasicBlockInsertPoint and SetBaseBlockFatherBlock, when a visit ends.
RestoreList ==
  /\ Doing("set_list")
  /\ cursor' = [cursor EXCEPT !.list = Head(todo).list]
  /\ Resume(<<>>)
  /\ UNCHANGED <<failed, program, fn, G>>

RestoreFather ==
  /\ Doing("set_father")
  /\ cursor' = [cursor EXCEPT !.father = Head(todo).block]
  /\ Resume(<<>>)
  /\ UNCHANGED <<failed, program, fn, G>>

----------------------------------------------------------------------------
(* Conditions.  The second operand of `and' and `or' gets a block, created *)
(* before the first operand is visited and listed after it.                *)

VisitCond ==
  /\ Doing("cond")
  /\ LET c == Head(todo).s
         second == NewBlock(fn)
     IN CASE c.k = "and" ->
               /\ fn' = Create(fn, "basic")
               /\ G' = G
               /\ Resume(<<Cond(c.l), SecondOfAnd(c.r, second)>>)
          [] c.k = "or" ->
               /\ fn' = Create(fn, "basic")
               /\ G' = [G EXCEPT !.false_bb = second]
               /\ Resume(<<Cond(c.l), SecondOfOr(c.r, second, G.false_bb)>>)
          [] OTHER ->
               LET r == EvaluateCond(fn, cursor.block, c)
               IN /\ fn' = r.f
                  /\ G' = [G EXCEPT !.val = r.v]
                  /\ Resume(<<>>)
  /\ UNCHANGED <<failed, program, cursor>>

\* Block b, already created, joins the condition's list.
PushSecond(f, b) == Join(f, b, cursor.list, cursor.father)

VisitSecond ==
  /\ Doing("second_of_and") \/ Doing("second_of_or")
  /\ LET t == Head(todo)
         isOr == t.do = "second_of_or"
         yes == IF isOr THEN EntryOf(fn, G.true_bb) ELSE t.block
         no  == IF isOr THEN t.block ELSE EntryOf(fn, G.false_bb)
     IN /\ fn' = PushSecond(CreateCondBr(fn, G.val, yes, no, cursor.block), t.block)
        /\ cursor' = [cursor EXCEPT !.block = t.block]
        /\ G' = IF isOr THEN [G EXCEPT !.false_bb = t.false_bb] ELSE G
        /\ Resume(<<Cond(t.s)>>)
  /\ UNCHANGED <<failed, program>>

----------------------------------------------------------------------------

\* tree_func_def, up to the visit of the body.
BuilderInit ==
  /\ program \in Programs
  /\ fn = Join(Create(EmptyFunction, "basic"), 1, TopList, NoBlock)
  /\ cursor = [block |-> 1, list |-> TopList, father |-> NoBlock]
  /\ G = [true_bb |-> NoBlock, false_bb |-> NoBlock, val |-> Uncertain, slot |-> <<>>]
  /\ todo = <<Visit(program)>>
  /\ failed = "no"

VisitNext ==
  \/ VisitDecl \/ VisitAssign \/ VisitExp \/ VisitJump \/ VisitReturnNull
  \/ VisitBlock \/ VisitItem \/ VisitControl \/ VisitArm \/ FinishControl
  \/ RestoreList \/ RestoreFather \/ VisitCond \/ VisitSecond
=============================================================================
