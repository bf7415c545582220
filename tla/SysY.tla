-------------------------------- MODULE SysY --------------------------------
(***************************************************************************)
(* The part of the source language the models compile, and its meaning:    *)
(* the reference the compiled code is compared with.                       *)
(*                                                                         *)
(* A condition is an expression or a short-circuit and/or of conditions;   *)
(* the expressions are getint(), a variable and a literal.  What a program *)
(* shows is the sequence of its getint, putint and return.                 *)
(***************************************************************************)
EXTENDS Naturals, Sequences, SequencesExt

Input   == [k |-> "input"]
Var(x)  == [k |-> "var", x |-> x]
Lit(v)  == [k |-> "lit", v |-> v]
Both(l, r)   == [k |-> "and", l |-> l, r |-> r]
Either(l, r) == [k |-> "or", l |-> l, r |-> r]

Decl(x)      == [k |-> "decl", x |-> x]
Set(x, e)    == [k |-> "assign", x |-> x, e |-> e]
Put(e)       == [k |-> "exp", e |-> e]
Return(e)    == [k |-> "return", e |-> e]
ReturnVoid   == [k |-> "return_null"]
Break        == [k |-> "break"]
Continue     == [k |-> "continue"]
Empty        == [k |-> "null"]
Block(items) == [k |-> "block", items |-> items]
If(c, s)        == [k |-> "if", c |-> c, s |-> s]
IfElse(c, s, t) == [k |-> "if_else", c |-> c, s |-> s, t |-> t]
While(c, s)     == [k |-> "while", c |-> c, s |-> s]

IsControl(s) == s.k \in {"if", "if_else", "while"}
IsSimple(s)  == s.k \in {"break", "continue", "return", "assign", "exp",
                         "return_null"}

----------------------------------------------------------------------------
(* Meaning.  A configuration holds the statements still to run and the     *)
(* values of the variables.  Two more forms stand on the stack:            *)
(*   test  - a condition, with what follows when it is true and false      *)
(*   again - the head of a loop whose body is running                      *)

\* What an uninitialised variable holds: the language says nothing of it.
Undefined == 99

Test(c, yes, no) == [k |-> "test", c |-> c, yes |-> yes, no |-> no]
Again(c, s)      == [k |-> "again", c |-> c, s |-> s]

Start(body) == [todo |-> <<body>>, vars |-> <<>>]

Value(c, e) == IF e.k = "lit" THEN e.v ELSE c.vars[e.x]

\* The statements left when a jump reaches the innermost loop.
FromLoop(todo) ==
  SubSeq(todo, SelectInSeq(todo, LAMBDA s : s.k = "again"), Len(todo))

\* The expression the next statement evaluates, if it evaluates one.
Operand(c) ==
  LET s == Head(c.todo)
  IN CASE c.todo = <<>> -> Lit(0)
       [] s.k \in {"assign", "exp", "return"} -> s.e
       [] s.k = "test" -> s.c
       [] OTHER -> Lit(0)

\* What the source shows next: "in", "out", "ret", or "silent".
Shows(c) ==
  IF c.todo = <<>> \/ Head(c.todo).k \in {"return", "return_null"}
  THEN IF Operand(c) = Input THEN "in" ELSE "ret"
  ELSE IF Operand(c) = Input THEN "in"
  ELSE IF Head(c.todo).k = "exp" THEN "out" ELSE "silent"

\* The value of a putint or a return that comes next.
Shown(c) == Value(c, Operand(c))

\* A condition that tests an uninitialised variable: any behaviour is right.
Unspecified(c) ==
  /\ c.todo # <<>> /\ Head(c.todo).k = "test" /\ Head(c.todo).c.k = "var"
  /\ Shown(c) = Undefined

\* One step, where v is the value read when the step reads one.
Step(c, v) ==
  LET s    == Head(c.todo)
      rest == Tail(c.todo)
      Then(todo) == [c EXCEPT !.todo = todo \o rest]
      e    == IF Operand(c) = Input THEN v ELSE Value(c, Operand(c))
  IN CASE s.k = "decl" ->
            [todo |-> rest,
             vars |-> [x \in DOMAIN c.vars \cup {s.x} |->
                         IF x = s.x THEN Undefined ELSE c.vars[x]]]
       [] s.k = "assign" -> [todo |-> rest, vars |-> [c.vars EXCEPT ![s.x] = e]]
       [] s.k = "return" -> [c EXCEPT !.todo = <<Return(Lit(v))>>]
       [] s.k = "exp" /\ s.e = Input -> Then(<<Put(Lit(v))>>)
       [] s.k = "block"  -> Then(s.items)
       [] s.k = "if"     -> Then(<<Test(s.c, <<s.s>>, <<>>)>>)
       [] s.k = "if_else" -> Then(<<Test(s.c, <<s.s>>, <<s.t>>)>>)
       [] s.k \in {"while", "again"} ->
            Then(<<Test(s.c, <<s.s, Again(s.c, s.s)>>, <<>>)>>)
       [] s.k = "break"    -> [c EXCEPT !.todo = Tail(FromLoop(rest))]
       [] s.k = "continue" -> [c EXCEPT !.todo = FromLoop(rest)]
       [] s.k = "test" /\ s.c.k = "and" ->
            Then(<<Test(s.c.l, <<Test(s.c.r, s.yes, s.no)>>, s.no)>>)
       [] s.k = "test" /\ s.c.k = "or" ->
            Then(<<Test(s.c.l, s.yes, <<Test(s.c.r, s.yes, s.no)>>)>>)
       [] s.k = "test" /\ s.c.k \in {"input", "var", "lit"} ->
            Then(IF e # 0 THEN s.yes ELSE s.no)
       [] OTHER -> Then(<<>>)
=============================================================================
