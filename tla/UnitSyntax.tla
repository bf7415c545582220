----------------------------- MODULE UnitSyntax -----------------------------
(***************************************************************************)
(* A notation for units: functions from their blocks, with the edges the   *)
(* branches imply.                                                         *)
(***************************************************************************)
EXTENDS Mir

\* A function from its blocks, each a sequence of instructions; bytes are the
\* sizes of its variables, and pointers those of its arguments and variables
\* that hold addresses.
FunctionOf(args, bytes, pointers, blocks) ==
  LET target(k) == IF k[1] = "block" THEN <<k[2]>> ELSE <<>>
      last(b) == Last(blocks[b])
      succ(b) == IF last(b).op # "br" THEN <<>>
                 ELSE Reverse(FlattenSeq([k \in DOMAIN last(b).ops |-> target(last(b).ops[k])]))
      list == [b \in DOMAIN blocks |-> b]
      defined == {i.r : i \in UNION {ToSet(blocks[b]) : b \in DOMAIN blocks}} \cup ToSet(args)
      regsOf == Max(defined \cup {1})
  IN [kind |-> [b \in DOMAIN blocks |-> "basic"], father |-> [b \in DOMAIN blocks |-> NoBlock],
      body |-> <<>>, list |-> list, code |-> blocks, regs |-> regsOf, allocas |-> <<>>,
      succ |-> [b \in DOMAIN blocks |-> succ(b)],
      pre |-> [b \in DOMAIN blocks |-> FlattenSeq([p \in DOMAIN blocks |->
                 [k \in 1..Len(SelectSeq(succ(p), LAMBDA x : x = b)) |-> p]])],
      lost |-> <<>>, args |-> args, bytes |-> bytes, pointers |-> pointers]

Function(args, bytes, blocks) == FunctionOf(args, bytes, {}, blocks)

Unit(names, funcs, globals) ==
  [names |-> names, func |-> [n \in ToSet(names) |-> funcs[SelectInSeq(names, LAMBDA x : x = n)]],
   global |-> globals]

NoGlobals == [g \in {} |-> <<>>]
NoBytes == <<>>
Blocks(blocks) == Unit(<<"main">>, <<Function(<<>>, NoBytes, blocks)>>, NoGlobals)
Main(code) == Blocks(<<code>>)

Get(r) == Instr("call", r, <<Func("getint")>>)
Put(v) == Instr("call", 0, <<Func("putint"), v>>)
Op(op, r, x, y) == Instr(op, r, <<x, y>>)
Call(r, name, args) == Instr("call", r, <<Func(name)>> \o args)
Return(v) == Instr("ret", 0, <<v>>)
Leave == Instr("ret", 0, <<>>)
Zext(r, x) == Instr("zext", r, <<x>>)
Go(b) == Instr("br", 0, <<Label(b)>>)
Load(r, p) == Instr("load", r, <<p>>)
Store(v, p) == Instr("store", 0, <<v, p>>)
Alloca(r) == Instr("alloca", r, <<>>)
Phi(r, pairs) == Instr("phi", r, FlattenSeq([k \in DOMAIN pairs |-> <<pairs[k][1], Label(pairs[k][2])>>]))

\* getelementptr: each index counts elements of its own size, in bytes.
Gep(r, base, indexes, strides) ==
  [op |-> "gep", r |-> r, ops |-> <<base>> \o indexes, strides |-> strides]
If(v, yes, no) == Instr("br", 0, <<v, Label(yes), Label(no)>>)
=============================================================================
