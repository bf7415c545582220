------------------------------ MODULE UseChain ------------------------------
(***************************************************************************)
(* The use-def chains of the IR (src/ir/value.cpp, src/ir/user.cpp).       *)
(*                                                                         *)
(* Every User keeps a vector of operands and every Value keeps a list of   *)
(* Use records (user, operand number).  Nothing but discipline keeps the   *)
(* two in step: setOperand adds a record and leaves the record of the      *)
(* value it overwrites, removeUse exits the compiler (code 436) when the   *)
(* record is missing, and an instruction may be taken out of its block     *)
(* without giving its records up.  The actions are the rewriting idioms    *)
(* the passes build from these primitives, each with the calls in the      *)
(* order the pass makes them.                                              *)
(*                                                                         *)
(* A use list is a multiset of records: no pass depends on their order.    *)
(* Operands are numbered from 0, as in the code.                           *)
(***************************************************************************)
EXTENDS Integers

CONSTANTS
  Consts,           \* values that are not instructions (constants, arguments)
  Labels,           \* basic blocks, as values
  Phis,             \* instructions that are phis: operands are (value, label) pairs
  Plain,            \* all the other instructions
  Roots,            \* the instructions hasSideEffect keeps (ret, br, store, some calls)
  Arity,            \* how many operands the constructors of a plain instruction give it
  MaxOps,           \* bound: operands of one instruction
  NoValue,          \* content of an operand slot past the end of the vector
  DistinctIncoming  \* inputs: may a loop phi receive one value from inside and outside?

Users  == Phis \cup Plain
Values == Consts \cup Labels \cup Users
Slots  == 0 .. MaxOps - 1
Record == Values \X Users \X Slots

ASSUME UseChainAssumption ==
  /\ MaxOps \in Nat
  /\ Arity \in [Plain -> SUBSET (0 .. MaxOps)]
  /\ Phis \cap Plain = {}
  /\ Users \cap (Consts \cup Labels) = {}
  /\ Consts \cap Labels = {}
  /\ Roots \subseteq Plain
  /\ NoValue \notin Values
  /\ DistinctIncoming \in BOOLEAN

VARIABLES
  opnd,     \* User::_operands_list, NoValue past its end
  size,     \* its length; User::_use_number equals it unless the user is "gone"
  uses,     \* uses[<<v, u, n>>]: how often (u, n) stands in v's _user_list
  status,   \* fresh: not created; live: in a block; dropped: deleted from its
            \* block only; gone: deleted and its records removed
  failed    \* removeUse found no record: MyAssert, exit code 436

vars == <<opnd, size, uses, status, failed>>

Live == {u \in Users : status[u] = "live"}

\* The instructions that still have their records, in a block or not.
Kept == {u \in Users : status[u] \in {"live", "dropped"}}

\* What one comes to from the instructions R by way of operands: the least set that
\* holds R and the instructions its members have as operands.
OperandClosed(S) ==
  \A u \in S : \A i \in 0 .. size[u] - 1 : opnd[u][i] \in Users => opnd[u][i] \in S
Reach(R) ==
  LET closed == {S \in SUBSET Users : R \subseteq S /\ OperandClosed(S)}
  IN  {u \in Users : \A S \in closed : u \in S}

-----------------------------------------------------------------------------
(* The primitives, on a use table us and an operand table op. *)

\* The records that user u's operands 0 .. n-1 are entitled to.
Own(op, u, n) == {<<op[u][i], u, i>> : i \in 0 .. n - 1}

\* addUse for every record of add, removeUse for every record of del.
Book(us, add, del) ==
  [r \in Record |-> us[r] + (IF r \in add THEN 1 ELSE 0)
                          - (IF r \in del THEN 1 ELSE 0)]

\* Every removeUse of del finds its record.
Held(us, del) == \A r \in del : us[r] > 0

\* A slip: the list is not cleared.
MovedNotCleared(us, v, w) ==
  [r \in Record |-> IF r[1] = w THEN us[r] + us[<<v, r[2], r[3]>>] ELSE us[r]]

\* v->replaceAllUse(w), w # v: each record of v becomes one of w ...
Moved(us, v, w) ==
  [r \in Record |->
     IF r[1] = v THEN 0
     ELSE IF r[1] = w THEN us[r] + us[<<v, r[2], r[3]>>]
     ELSE us[r]]

\* ... and setOperand puts w in each slot v had a record for.
Rewritten(op, us, v, w) ==
  [u \in Users |-> [i \in Slots |-> IF us[<<v, u, i>>] > 0 THEN w ELSE op[u][i]]]

\* A slip: the last operand never enters the vector.
VectorOneShort(f, n) == [i \in Slots |-> IF i + 1 < n THEN f[i] ELSE NoValue]

\* A vector of n operands, from the function f on 0 .. n-1.
Vector(f, n) == [i \in Slots |-> IF i < n THEN f[i] ELSE NoValue]

\* What a removeUse that finds no record does: the compiler exits.
Fail == failed' = TRUE /\ UNCHANGED <<opnd, size, uses, status>>

\* u's operands become f[0 .. n-1]; the records of add and del are booked.
Rebuild(u, f, n, add, del) ==
  IF Held(uses, del)
  THEN /\ opnd' = [opnd EXCEPT ![u] = Vector(f, n)]
       /\ size' = [size EXCEPT ![u] = n]
       /\ uses' = Book(uses, add, del)
       /\ UNCHANGED <<status, failed>>
  ELSE Fail

\* The values an instruction may be given: constants, labels, and the instructions a pass
\* gets hold of, which walks the blocks and follows operands wherever they stand.
Usable == Consts \cup Labels \cup Reach(Live)

-----------------------------------------------------------------------------
Init ==
  /\ opnd = [u \in Users |-> [i \in Slots |-> NoValue]]
  /\ size = [u \in Users |-> 0]
  /\ uses = [r \in Record |-> 0]
  /\ status = [u \in Users |-> "fresh"]
  /\ failed = FALSE

\* The constructors of instructions that are not phis: one setOperand per operand.
Create(u, n, f) ==
  /\ status[u] = "fresh"
  /\ opnd' = [opnd EXCEPT ![u] = Vector(f, n)]
  /\ size' = [size EXCEPT ![u] = n]
  /\ uses' = Book(uses, {<<f[i], u, i>> : i \in 0 .. n - 1}, {})
  /\ status' = [status EXCEPT ![u] = "live"]
  /\ UNCHANGED failed

\* PhiInstr::createPhi: a phi without operands.
CreatePhi(p) ==
  /\ status[p] = "fresh"
  /\ status' = [status EXCEPT ![p] = "live"]
  /\ UNCHANGED <<opnd, size, uses, failed>>

\* PhiInstr::setParams: two addOperand.
SetParams(p, v, l) ==
  LET n == size[p] IN
  /\ n + 2 <= MaxOps
  /\ Rebuild(p, [opnd[p] EXCEPT ![n] = v, ![n + 1] = l], n + 2,
             {<<v, p, n>>, <<l, p, n + 1>>}, {})

\* changeOperand (rm_phi): the old record goes, the new one comes.  mir_simplify_cfg,
\* function_inline and loop_invariant do the two steps in the other order.  A label
\* is replaced by a label, of a phi or a branch, another value by another value, of a phi.
ChangeOperand(u, i, v) ==
  /\ i < size[u] /\ (v \in Labels <=> opnd[u][i] \in Labels) /\ (v \in Labels \/ u \in Phis)
  /\ Rebuild(u, [opnd[u] EXCEPT ![i] = v], size[u],
             {<<v, u, i>>}, {<<opnd[u][i], u, i>>})

\* A slip: removeUseOps after the vector was shifted.
RmIncomingLate(p, k) ==
  LET n == size[p]
      f == [i \in 0 .. n - 3 |-> opnd[p][IF i < 2 * k THEN i ELSE i + 2]]
  IN  /\ 2 * k + 1 < n
      /\ Rebuild(p, f, n - 2, {}, {<<f[i], p, i>> : i \in 0 .. n - 3})

\* rmOperand(2k, 2k+1) on a phi: removeUseOps, then addOperand of what is left.
RmIncoming(p, k) ==
  LET n == size[p]
      f == [i \in 0 .. n - 3 |-> opnd[p][IF i < 2 * k THEN i ELSE i + 2]]
  IN  /\ 2 * k + 1 < n
      /\ Rebuild(p, f, n - 2, {<<f[i], p, i>> : i \in 0 .. n - 3}, Own(opnd, p, n))

\* simplifyAdd, simplifyMul: clearOperands, then the two operands the other way round.
SwapOperands(u) ==
  LET f == [i \in 0 .. 1 |-> opnd[u][1 - i]] IN
  /\ size[u] = 2
  /\ Rebuild(u, f, 2, {<<f[i], u, i>> : i \in 0 .. 1}, Own(opnd, u, 2))

\* deleteDeadRet: rmOperand(0), then addOperand of a constant.
ResetReturn(u, c) ==
  /\ size[u] = 1
  /\ Rebuild(u, [i \in {0} |-> c], 1, {<<c, u, 0>>}, Own(opnd, u, 1))

\* A slip: the offset is written without addUse.
LoadWithOffsetUnrecorded(u, ptr) ==
  LET f == [i \in 0 .. 1 |-> opnd[ptr][i + 1]] IN
  /\ size[u] = 1 /\ opnd[u][0] = ptr /\ size[ptr] = 3
  /\ Rebuild(u, f, 2, {<<f[0], u, 0>>}, Own(opnd, u, 1))

\* convertMlaLoad2LoadOffset on a load: removeUseOps, setNumOps(2), then base and
\* offset of the address computation ptr.
LoadWithOffset(u, ptr) ==
  LET f == [i \in 0 .. 1 |-> opnd[ptr][i + 1]] IN
  /\ size[u] = 1 /\ opnd[u][0] = ptr /\ size[ptr] = 3
  /\ Rebuild(u, f, 2, {<<f[i], u, i>> : i \in 0 .. 1}, Own(opnd, u, 1))

\* A slip: the record of the stored value is removed, the pointer's stays.
StoreWithOffsetWrongRecord(u, ptr) ==
  LET f == [i \in 0 .. 2 |-> IF i = 0 THEN opnd[u][0] ELSE opnd[ptr][i]] IN
  /\ size[u] = 2 /\ opnd[u][1] = ptr /\ size[ptr] = 3 /\ MaxOps >= 3
  /\ Rebuild(u, f, 3, {<<f[i], u, i>> : i \in 1 .. 2}, {<<ptr, u, 0>>})

\* The same on a store: only the pointer's record is removed.
StoreWithOffset(u, ptr) ==
  LET f == [i \in 0 .. 2 |-> IF i = 0 THEN opnd[u][0] ELSE opnd[ptr][i]] IN
  /\ size[u] = 2 /\ opnd[u][1] = ptr /\ size[ptr] = 3 /\ MaxOps >= 3
  /\ Rebuild(u, f, 3, {<<f[i], u, i>> : i \in 1 .. 2}, {<<ptr, u, 1>>})

\* bb->replaceAllUse(pre) of a merged block, and the equivalent loop over an
\* eliminated block's uses: all records of a label move to another label.
ReplaceLabel(l, m) ==
  /\ l # m
  /\ opnd' = Rewritten(opnd, uses, l, m)
  /\ uses' = Moved(uses, l, m)
  /\ UNCHANGED <<size, status, failed>>

\* replaceAllUse(w), removeUseOps, delete: GVN, SCCP, mem2reg, single-predecessor phis.
ReplaceThenErase(u, w) ==
  LET op == Rewritten(opnd, uses, u, w)
      us == Moved(uses, u, w)
      own == Own(op, u, size[u])
  IN  /\ w # u
      /\ IF Held(us, own)
         THEN /\ opnd' = op
              /\ uses' = Book(us, {}, own)
              /\ status' = [status EXCEPT ![u] = "gone"]
              /\ UNCHANGED <<size, failed>>
         ELSE Fail

\* The other order, removeUseOps before replaceAllUse(w): instruction combination.
EraseThenReplace(u, w) ==
  LET own == Own(opnd, u, size[u])
      us == Book(uses, {}, own)
  IN  /\ w # u
      /\ IF Held(uses, own)
         THEN /\ opnd' = Rewritten(opnd, us, u, w)
              /\ uses' = Moved(us, u, w)
              /\ status' = [status EXCEPT ![u] = "gone"]
              /\ UNCHANGED <<size, failed>>
         ELSE Fail

\* deleteInstr of an instruction, or removeBasicBlock with all of a block's: the
\* instructions of S leave the function and keep their records.  Nobody asks who uses
\* them: an unreachable loop behind a removed block goes on doing so, and convert2Mla
\* deletes an operand before its user.
Drop(S) ==
  /\ S # {}
  /\ status' = [u \in Users |-> IF u \in S THEN "dropped" ELSE status[u]]
  /\ UNCHANGED <<opnd, size, uses, failed>>

\* deleteMla, deleteAddMul: an empty use list, then removeUseOps.
EraseUnused(u) ==
  LET own == Own(opnd, u, size[u]) IN
  /\ \A v \in Users, i \in Slots : uses[<<u, v, i>>] = 0
  /\ IF Held(uses, own)
     THEN /\ uses' = Book(uses, {}, own)
          /\ status' = [status EXCEPT ![u] = "gone"]
          /\ UNCHANGED <<opnd, size, failed>>
     ELSE Fail

\* A slip: an operand is marked only if it stands in a block.
UsefulInBlocks ==
  LET Closed(S) == \A u \in S : \A i \in 0 .. size[u] - 1 :
                     opnd[u][i] \in Live => opnd[u][i] \in S
  IN  {u \in Live : \A S \in SUBSET Live : Live \cap Roots \subseteq S /\ Closed(S) => u \in S}

\* markInstrUseful: from the roots of the blocks through operands, in a block or not.
Useful == Reach(Live \cap Roots)

\* deleteDeadInstr: removeUseOps of every instruction that is not marked.
DeleteDead ==
  LET dead == Live \ Useful
      own == UNION {Own(opnd, u, size[u]) : u \in dead}
  IN  /\ dead # {}
      /\ IF Held(uses, own)
         THEN /\ uses' = Book(uses, {}, own)
              /\ status' = [u \in Users |-> IF u \in dead THEN "gone" ELSE status[u]]
              /\ UNCHANGED <<opnd, size, failed>>
         ELSE Fail

\* The incoming pairs k of phi p whose label lies outside the loop, and the others.
Outside(p, loop) == {k \in 0 .. MaxOps : 2 * k + 1 < size[p] /\ opnd[p][2 * k + 1] \notin loop}
Inside(p, loop) == {k \in 0 .. MaxOps : 2 * k + 1 < size[p] /\ opnd[p][2 * k + 1] \in loop}

\* The slots handleInvariants relabels: the label of every pair with the value of
\* pair k, wherever that pair comes from.
Relabelled(p, k) == {i \in Slots : i + 1 < size[p] /\ i % 2 = 0 /\ opnd[p][i] = opnd[p][2 * k]}

\* handleInvariants with one predecessor outside the loop: its pair gets the
\* preheader's label, and the old label's record is removed by the old label.
RetargetPhi(p, loop, k, pre) ==
  LET hit == Relabelled(p, k)
      del == {<<opnd[p][2 * k + 1], p, i + 1>> : i \in hit}
      f == [i \in Slots |-> IF \E j \in hit : i = j + 1 THEN pre ELSE opnd[p][i]]
  IN  /\ Outside(p, loop) = {k}
      /\ DistinctIncoming => hit = {2 * k}
      /\ Rebuild(p, f, size[p], {<<pre, p, i + 1>> : i \in hit}, del)

\* g lists the set K of numbers in ascending order.
Ascending(g, n, K) ==
  /\ g \in [0 .. n - 1 -> K]
  /\ \A i, j \in 0 .. n - 1 : i < j => g[i] < g[j]
  /\ \A k \in K : \E i \in 0 .. n - 1 : g[i] = k

\* The operand vector of p's pairs g[0 .. n-1].
Pairs(p, g, n) == [i \in 0 .. 2 * n - 1 |-> opnd[p][2 * g[i \div 2] + (i % 2)]]

\* handleInvariants with several predecessors outside the loop: a new phi q in the
\* preheader takes their pairs, p keeps the others and gets the pair (q, pre).
SplitPhi(p, q, loop, pre, m, out, n, in) ==
  LET fq == Pairs(p, out, m)
      fp == [i \in 0 .. 2 * n + 1 |-> IF i = 2 * n THEN q
                                      ELSE IF i = 2 * n + 1 THEN pre
                                      ELSE Pairs(p, in, n)[i]]
      own == Own(opnd, p, size[p])
      add == {<<fq[i], q, i>> : i \in 0 .. 2 * m - 1} \cup {<<fp[i], p, i>> : i \in 0 .. 2 * n + 1}
  IN  /\ m > 1 /\ 2 * n + 2 <= MaxOps /\ status[q] = "fresh"
      /\ Ascending(out, m, Outside(p, loop))
      /\ Ascending(in, n, Inside(p, loop))
      /\ IF Held(uses, own)
         THEN /\ opnd' = [opnd EXCEPT ![p] = Vector(fp, 2 * n + 2), ![q] = Vector(fq, 2 * m)]
              /\ size' = [size EXCEPT ![p] = 2 * n + 2, ![q] = 2 * m]
              /\ uses' = Book(uses, add, own)
              /\ status' = [status EXCEPT ![q] = "live"]
              /\ UNCHANGED failed
         ELSE Fail

Next ==
  /\ ~failed
  /\ \/ \E u \in Plain : \E n \in Arity[u] : \E f \in [0 .. n - 1 -> Usable] : Create(u, n, f)
     \/ \E p \in Phis : CreatePhi(p)
     \/ \E p \in Phis \cap Live, v \in Usable \ Labels, l \in Labels : SetParams(p, v, l)
     \/ \E u \in Kept, i \in Slots, v \in Usable : ChangeOperand(u, i, v)
     \/ \E p \in Phis \cap Live, k \in 0 .. MaxOps : RmIncoming(p, k)
     \/ \E u \in Plain \cap Live : SwapOperands(u)
     \/ \E u \in Plain \cap Live, c \in Consts : ResetReturn(u, c)
     \/ \E u \in Plain \cap Live, ptr \in Plain \cap Reach(Live) : LoadWithOffset(u, ptr)
     \/ \E u \in Plain \cap Live, ptr \in Plain \cap Reach(Live) : StoreWithOffset(u, ptr)
     \/ \E l, m \in Labels : ReplaceLabel(l, m)
     \/ \E u \in Live, w \in Usable : ReplaceThenErase(u, w)
     \/ \E u \in Live, w \in Usable : EraseThenReplace(u, w)
     \/ \E S \in SUBSET Live : Drop(S)
     \/ \E u \in (Plain \cap Live) \ Roots : EraseUnused(u)
     \/ DeleteDead
     \/ \E p \in Phis \cap Live, loop \in SUBSET Labels, k \in Slots, pre \in Labels :
          RetargetPhi(p, loop, k, pre)
     \/ \E p \in Phis \cap Live, q \in Phis, loop \in SUBSET Labels, pre \in Labels,
           m, n \in 0 .. MaxOps \div 2 :
          \E out \in [0 .. m - 1 -> Outside(p, loop)], in \in [0 .. n - 1 -> Inside(p, loop)] :
            SplitPhi(p, q, loop, pre, m, out, n, in)

Spec == Init /\ [][Next]_vars

-----------------------------------------------------------------------------
(* Properties *)

\* An operand vector holds values below its length and nothing past it, and is empty
\* before the constructor ran; the counts are natural numbers.
TypeOK ==
  /\ size \in [Users -> 0 .. MaxOps]
  /\ opnd \in [Users -> [Slots -> Values \cup {NoValue}]]
  /\ \A u \in Users, i \in Slots : i < size[u] <=> opnd[u][i] # NoValue
  /\ uses \in [Record -> Nat]
  /\ status \in [Users -> {"fresh", "live", "dropped", "gone"}]
  /\ \A u \in Users : status[u] = "fresh" => size[u] = 0
  /\ failed \in BOOLEAN

\* Is (u, i) an operand that value v must know of?
Entitled(v, u, i) == u \in Kept /\ opnd[u][i] = v

\* The use lists agree with the operand vectors, record by record: one record for each
\* operand of an instruction that was not erased, none for any other.  Every pass that
\* walks getUseList, or asks whether it is empty, relies on this.
ChainAgrees ==
  \A v \in Values, u \in Users, i \in Slots :
    uses[<<v, u, i>>] = IF Entitled(v, u, i) THEN 1 ELSE 0

\* No pass comes upon an instruction that was erased: walking the blocks and following
\* operands, through instructions that were taken out of their blocks as well, one finds
\* only instructions that still have their records.  An erased one with a user left would
\* be printed, allocated a register or rewritten with no record to find it by.
NoDanglingUse == Reach(Live) \subseteq Kept

\* removeUse always finds the record it is asked to delete
\* ("can't get right use record", value.cpp).
NoMissingRecord == ~failed

\* deleteDeadInstr's own assertion ("should delete this useless instr!"): what
\* markInstrUseful reaches from the roots still has a record in its use list.
UsefulIsUsed == \A u \in Useful \ Roots : \E v \in Users, i \in Slots : uses[<<u, v, i>>] > 0
=============================================================================
