----------------------------- MODULE MirMachine -----------------------------
(***************************************************************************)
(* What a unit of functions in the intermediate representation means: the  *)
(* program the passes must keep and the back end must translate.  A unit   *)
(* is a record                                                             *)
(*   func    name -> function (module Mir), with f.args its arguments and  *)
(*           f.bytes[r] the size of the variable an alloca makes; a gep    *)
(*           has strides, the bytes each of its indexes counts             *)
(*   global  name -> initial words                                         *)
(* and starts in "main".  A word is Const(n), n of Width bits, a pointer   *)
(* <<"ptr", object, offset>>, or Uncertain before it is written.           *)
(***************************************************************************)
EXTENDS Mir, Words

Shifts == {"shl", "lshr", "ashr"}
Arithmetic == {"add", "sub", "mul", "div", "rem"} \cup Shifts \cup Comparisons

IsInt(w) == w[1] = "const"
IsPtr(w) == w[1] = "ptr"
Ptr(object, off) == <<"ptr", object, off>>

\* By at most Width: beyond that the result is unspecified.
Shifted(op, a, s) ==
  IF s \notin 0..Width THEN Uncertain
  ELSE Const(CASE op = "shl"  -> Wrap(a * 2^s)
               [] op = "lshr" -> Wrap((a % 2^Width) \div 2^s)
               [] op = "ashr" -> a \div 2^s)

\* What op makes of two words.
Apply(op, x, y) ==
  IF IsInt(x) /\ IsInt(y) THEN
    CASE op = "add" -> Const(Wrap(x[2] + y[2]))
      [] op = "sub" -> Const(Wrap(x[2] - y[2]))
      [] op = "mul" -> Const(Wrap(x[2] * y[2]))
      [] op = "div" -> IF y[2] = 0 THEN Uncertain ELSE Const(Wrap(Quotient(x[2], y[2])))
      [] op = "rem" -> IF y[2] = 0 THEN Uncertain ELSE Const(Remainder(x[2], y[2]))
      [] op \in Shifts -> Shifted(op, x[2], y[2])
      [] OTHER      -> Const(IF Holds(op, x[2], y[2]) THEN 1 ELSE 0)
  ELSE IF op = "add" /\ IsPtr(x) /\ IsInt(y) THEN Ptr(x[2], x[3] + y[2])
  ELSE IF op = "add" /\ IsInt(x) /\ IsPtr(y) THEN Ptr(y[2], y[3] + x[2])
  ELSE IF op = "mul" /\ x = Const(1) /\ IsPtr(y) THEN y
  ELSE Uncertain

----------------------------------------------------------------------------
(* A state of the machine: calls is the stack of activations, the current  *)
(* one last; mem maps pointers to words.                                   *)

Activation(u, name, args, to) ==
  LET f == u.func[name]
  IN [fun |-> name, block |-> Entry(f), at |-> 1, pred |-> NoBlock, to |-> to,
      env |-> [r \in 1..f.regs |->
                 IF r \in ToSet(f.args)
                 THEN args[CHOOSE k \in DOMAIN f.args : f.args[k] = r] ELSE Uncertain]]

Globals(u) ==
  UNION {{Ptr(Global(g), 4 * (k - 1)) : k \in DOMAIN u.global[g]} : g \in DOMAIN u.global}

Boot(u) ==
  [calls |-> <<Activation(u, "main", <<>>, 0)>>,
   mem |-> [p \in Globals(u) |-> Const(u.global[p[2][2]][1 + p[3] \div 4])]]

Now(m) == Last(m.calls)
CodeAt(u, m) == u.func[Now(m).fun].code[Now(m).block]
Current(u, m) ==
  IF Now(m).at > Len(CodeAt(u, m)) THEN NoInstr ELSE CodeAt(u, m)[Now(m).at]

Word(a, o) ==
  CASE o[1] = "reg"    -> a.env[o[2]]
    [] o[1] = "global" -> Ptr(o, 0)
    [] o[1] = "const"  -> Const(Wrap(o[2]))
    [] OTHER           -> o

Operand(m, i, k) == Word(Now(m), i.ops[k])

Callee(i) == i.ops[1][2]

\* The pointer a load or store goes to; its offset operand is in bytes.
Target(m, i, k) ==
  IF k < Len(i.ops) THEN Apply("add", Operand(m, i, k), Operand(m, i, k + 1))
                    ELSE Operand(m, i, k)

\* The pointer a gep makes: each index counts elements of its own size.
Address(m, i) ==
  LET upTo[k \in 0..Len(i.strides)] ==
        IF k = 0 THEN Operand(m, i, 1)
        ELSE Apply("add", upTo[k - 1], Apply("mul", Operand(m, i, k + 1), Const(i.strides[k])))
  IN upTo[Len(i.strides)]

\* What the machine does next that can be seen from outside.
Visible(u, m) ==
  LET i == Current(u, m)
  IN CASE i.op = "call" /\ Callee(i) = "getint" -> "in"
       [] i.op = "call" /\ Callee(i) = "putint" -> "out"
       [] i.op = "ret" /\ Len(m.calls) = 1 -> "ret"
       [] i.op \in Arithmetic /\ Apply(i.op, Operand(m, i, 1), Operand(m, i, 2)) = Uncertain -> "stuck"
       [] i.op = "load" /\ Target(m, i, 1) \notin DOMAIN m.mem -> "stuck"
       [] i.op = "store" /\ Target(m, i, 2) \notin DOMAIN m.mem -> "stuck"
       [] i.op = "br" /\ Len(i.ops) = 3 /\ ~IsInt(Operand(m, i, 1)) -> "stuck"
       [] i = NoInstr -> "stuck"
       [] OTHER -> "silent"

\* What is written or returned.
Seen(u, m) ==
  LET i == Current(u, m)
  IN CASE Visible(u, m) = "out" -> Operand(m, i, 2)
       [] Visible(u, m) = "ret" /\ i.ops # <<>> -> Operand(m, i, 1)
       [] OTHER -> Uncertain

\* The phis at the head of block b, all read before any is written.
EnterBlock(u, a, b) ==
  LET phis == {i \in ToSet(u.func[a.fun].code[b]) : IsPhi(i)}
      value(i) == LET k == CHOOSE k \in Incoming(i) : i.ops[k] = Label(a.block)
                  IN Word(a, i.ops[k - 1])
  IN [a EXCEPT !.pred = a.block, !.block = b, !.at = Cardinality(phis) + 1,
               !.env = [r \in DOMAIN @ |->
                  IF \E i \in phis : i.r = r THEN value(CHOOSE i \in phis : i.r = r) ELSE @[r]]]

MirStep(u, m, input) ==
  LET i == Current(u, m)
      a == Now(m)
      with(b) == [m EXCEPT !.calls = Append(Front(@), b)]
      next == [a EXCEPT !.at = @ + 1]
      put(w) == with(IF i.r = 0 THEN next ELSE [next EXCEPT !.env[i.r] = w])
      object == <<"local", Len(m.calls), i.r>>
      made == {Ptr(object, 4 * k) : k \in 0..(u.func[a.fun].bytes[i.r] \div 4 - 1)}
      returned == [m EXCEPT !.calls = Front(@)]
  IN CASE i.op \in Arithmetic -> put(Apply(i.op, Operand(m, i, 1), Operand(m, i, 2)))
       [] i.op = "gep"  -> put(Address(m, i))
       [] i.op \in {"mov", "zext"} -> put(Operand(m, i, 1))
       [] i.op = "mla"  -> put(Apply("add", Apply("mul", Operand(m, i, 1), Operand(m, i, 2)),
                                     Operand(m, i, 3)))
       [] i.op = "alloca" -> [put(Ptr(object, 0)) EXCEPT
                                !.mem = [p \in made \cup DOMAIN @ |->
                                           IF p \in made THEN Uncertain ELSE @[p]]]
       [] i.op = "load" -> put(m.mem[Target(m, i, 1)])
       [] i.op = "store" -> [with(next) EXCEPT !.mem[Target(m, i, 2)] = Operand(m, i, 1)]
       [] i.op = "br"   -> with(EnterBlock(u, a,
                             IF Len(i.ops) = 1 THEN i.ops[1][2]
                             ELSE IF Operand(m, i, 1) # Const(0) THEN i.ops[2][2] ELSE i.ops[3][2]))
       [] i.op = "ret"  ->
            LET back == [Now(returned) EXCEPT !.at = @ + 1]
            IN [returned EXCEPT !.calls[Len(returned.calls)] =
                  IF a.to = 0 THEN back ELSE [back EXCEPT !.env[a.to] = Operand(m, i, 1)]]
       [] i.op = "call" /\ Callee(i) \in Library -> put(Const(input))
       [] i.op = "call" /\ Callee(i) \notin Library ->
            [m EXCEPT !.calls = Append(@, Activation(u, Callee(i),
                                 [k \in 1..(Len(i.ops) - 1) |-> Operand(m, i, k + 1)], i.r))]

----------------------------------------------------------------------------
(* What a unit is like whose functions the machine can run: it finds every *)
(* operand, argument and result it asks for.                               *)

Understood ==
  Arithmetic \cup {"gep", "mov", "zext", "mla", "alloca", "load", "store", "br", "ret", "call"}

OperandsFound(f, i) ==
  /\ {"op", "r", "ops"} \subseteq DOMAIN i /\ i.op \in Understood \cup {"phi"}
  /\ \A o \in ToSet(i.ops) : o[1] = "reg" => o[2] \in 1..f.regs
  /\ i.op = "gep" => "strides" \in DOMAIN i /\ Len(i.strides) \in Nat /\ Len(i.ops) = 1 + Len(i.strides)
  /\ Len(i.ops) >= CASE i.op \in Arithmetic \cup {"store"}      -> 2
                     [] i.op \in {"mov", "zext", "load", "call"} -> 1
                     [] i.op = "mla"                             -> 3
                     [] OTHER                                    -> 0

Returns(f) == \A i \in AllInstrs(f) : i.op = "ret" => i.ops # <<>>

CallFound(u, i) ==
  /\ i.ops[1] = Func(Callee(i))
  /\ IF Callee(i) \in Library THEN Callee(i) = "putint" => Len(i.ops) = 2
     ELSE /\ Callee(i) \in DOMAIN u.func
          /\ Len(i.ops) = 1 + Len(u.func[Callee(i)].args)
          /\ i.r # 0 => Returns(u.func[Callee(i)])

\* The phis of block b come first, each in one place.
PhisFirst(f, b) ==
  /\ \E n \in 0..Len(f.code[b]) : \A k \in DOMAIN f.code[b] : IsPhi(f.code[b][k]) <=> k <= n
  /\ \A j, k \in DOMAIN f.code[b] : f.code[b][j] = f.code[b][k] /\ IsPhi(f.code[b][k]) => j = k

Runnable(u) ==
  /\ {"func", "global"} \subseteq DOMAIN u /\ "main" \in DOMAIN u.func
  /\ \A n \in DOMAIN u.func :
       LET f == u.func[n]
       IN /\ {"code", "list", "regs", "args", "bytes"} \subseteq DOMAIN f
          /\ f.regs \in Nat /\ f.args \in Seq(1..f.regs) /\ f.code \in Seq(ToSet(f.code))
          /\ \A i \in AllInstrs(f) : OperandsFound(f, i) /\ (i.op = "call" => CallFound(u, i))
          /\ \A b \in ToSet(f.list) : PhisFirst(f, b)
=============================================================================
