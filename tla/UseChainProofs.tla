--------------------------- MODULE UseChainProofs ---------------------------
(* Proofs about UseChain: the use lists agree with the operand vectors after *)
(* any sequence of rewritings, of any number of instructions, removeUse      *)
(* never misses a record, and no pass comes upon an erased instruction.      *)
EXTENDS UseChain, TLAPS

\* The inductive invariant.
IInv == TypeOK /\ ChainAgrees

-----------------------------------------------------------------------------
(* Facts about the primitives. *)

\* The records of Own(opnd, u, size[u]) are those u is entitled to.
LEMMA OwnHeld ==
  ASSUME TypeOK, ChainAgrees, NEW u \in Users, status[u] \in {"live", "dropped"}
  PROVE  /\ Own(opnd, u, size[u]) \subseteq Record
         /\ Held(uses, Own(opnd, u, size[u]))
         /\ \A v \in Values, w \in Users, i \in Slots :
              <<v, w, i>> \in Own(opnd, u, size[u]) <=> w = u /\ opnd[u][i] = v
<1>1. ASSUME NEW i \in 0 .. size[u] - 1
      PROVE  i \in Slots /\ opnd[u][i] \in Values
  BY UseChainAssumption DEF TypeOK, Slots
<1>2. Own(opnd, u, size[u]) \subseteq Record
  BY <1>1 DEF Own, Record
<1>3. ASSUME NEW v \in Values, NEW w \in Users, NEW i \in Slots
      PROVE  <<v, w, i>> \in Own(opnd, u, size[u]) <=> w = u /\ opnd[u][i] = v
  <2>1. opnd[u][i] = v => i \in 0 .. size[u] - 1
    BY <1>3, UseChainAssumption DEF TypeOK, Slots
  <2> QED
    BY <2>1 DEF Own
<1>4. ASSUME NEW i \in 0 .. size[u] - 1
      PROVE  uses[<<opnd[u][i], u, i>>] > 0
  BY <1>1 DEF ChainAgrees, Entitled, Kept
<1> QED
  BY <1>2, <1>3, <1>4 DEF Held, Own

\* Booking, pointwise.
LEMMA BookAt ==
  ASSUME NEW us, NEW add, NEW del, NEW v \in Values, NEW u \in Users, NEW i \in Slots
  PROVE  Book(us, add, del)[<<v, u, i>>] =
           us[<<v, u, i>>] + (IF <<v, u, i>> \in add THEN 1 ELSE 0)
                           - (IF <<v, u, i>> \in del THEN 1 ELSE 0)
BY DEF Book, Record

\* A use table that holds 0 or 1 everywhere holds natural numbers.
LEMMA BooksAreCounts ==
  ASSUME NEW us, us = [r \in Record |-> us[r]],
         \A v \in Values, u \in Users, i \in Slots : us[<<v, u, i>>] \in {0, 1}
  PROVE  us \in [Record -> Nat]
<1>1. ASSUME NEW r \in Record PROVE us[r] \in Nat
  <2>1. PICK v \in Values, u \in Users, i \in Slots : r = <<v, u, i>>
    BY DEF Record
  <2> QED
    BY <2>1
<1> QED
  BY <1>1

\* A step that books exactly the difference between u's old and new operands
\* preserves the invariant and does not fail.
LEMMA RebuildPreserves ==
  ASSUME IInv, NEW u \in Users, status[u] \in {"live", "dropped"},
         NEW n \in 0 .. MaxOps, NEW f, \A i \in 0 .. n - 1 : f[i] \in Values,
         NEW add, NEW del,
         \A v \in Values, w \in Users, i \in Slots :
           <<v, w, i>> \in add \cup del => w = u,
         \A r \in del : r \in Own(opnd, u, size[u]),
         \A v \in Values, i \in Slots :
           (IF i < n /\ f[i] = v THEN 1 ELSE 0) =
             (IF opnd[u][i] = v THEN 1 ELSE 0)
               + (IF <<v, u, i>> \in add THEN 1 ELSE 0)
               - (IF <<v, u, i>> \in del THEN 1 ELSE 0),
         Rebuild(u, f, n, add, del)
  PROVE  IInv' /\ failed' = failed
<1> USE UseChainAssumption
<1>1. Held(uses, del)
  BY OwnHeld DEF IInv, Held
<1>2. /\ opnd' = [opnd EXCEPT ![u] = Vector(f, n)]
      /\ size' = [size EXCEPT ![u] = n]
      /\ uses' = Book(uses, add, del)
      /\ UNCHANGED <<status, failed>>
  BY <1>1 DEF Rebuild
<1>3. ASSUME NEW v \in Values, NEW w \in Users, NEW i \in Slots
      PROVE  uses'[<<v, w, i>>] = IF Entitled(v, w, i)' THEN 1 ELSE 0
  <2>1. CASE w = u
    <3>1. uses[<<v, u, i>>] = IF opnd[u][i] = v THEN 1 ELSE 0
      BY DEF IInv, ChainAgrees, Entitled, Kept
    <3>2. uses'[<<v, u, i>>] = IF i < n /\ f[i] = v THEN 1 ELSE 0
      BY <3>1, <1>2, BookAt
    <3>3. opnd'[u][i] = IF i < n THEN f[i] ELSE NoValue
      BY <1>2 DEF IInv, TypeOK, Vector
    <3> QED
      BY <2>1, <3>2, <3>3, <1>2 DEF Entitled, Kept
  <2>2. CASE w # u
    <3>1. uses'[<<v, w, i>>] = uses[<<v, w, i>>]
      <4>1. <<v, w, i>> \notin add /\ <<v, w, i>> \notin del
        BY <2>2
      <4>2. uses[<<v, w, i>>] \in Nat
        BY DEF IInv, TypeOK, Record
      <4> QED
        BY <1>2, BookAt, <4>1, <4>2
    <3>2. opnd'[w] = opnd[w]
      BY <2>2, <1>2 DEF IInv, TypeOK
    <3> QED
      BY <3>1, <3>2, <1>2 DEF IInv, ChainAgrees, Entitled, Kept
  <2> QED
    BY <2>1, <2>2
<1>4. ChainAgrees'
  BY <1>3 DEF ChainAgrees
<1>5. TypeOK'
  <2>1. Vector(f, n) \in [Slots -> Values \cup {NoValue}]
    BY DEF Vector, Slots
  <2>2. opnd' \in [Users -> [Slots -> Values \cup {NoValue}]]
    BY <1>2, <2>1 DEF IInv, TypeOK
  <2>3. size' \in [Users -> 0 .. MaxOps]
    BY <1>2 DEF IInv, TypeOK
  <2>4. ASSUME NEW w \in Users, NEW i \in Slots
        PROVE  i < size'[w] <=> opnd'[w][i] # NoValue
    <3>1. CASE w = u
      <4>1. opnd'[u][i] = IF i < n THEN f[i] ELSE NoValue
        BY <1>2 DEF IInv, TypeOK, Vector
      <4>2. size'[u] = n
        BY <1>2 DEF IInv, TypeOK
      <4>3. i < n => f[i] # NoValue
        BY DEF Slots
      <4> QED
        BY <3>1, <4>1, <4>2, <4>3
    <3>2. CASE w # u
      BY <3>2, <1>2 DEF IInv, TypeOK
    <3> QED
      BY <3>1, <3>2
  <2>5. uses' \in [Record -> Nat]
    <3>1. uses' = [r \in Record |-> uses'[r]]
      BY <1>2 DEF Book
    <3>2. \A v \in Values, w \in Users, i \in Slots : uses'[<<v, w, i>>] \in {0, 1}
      BY <1>3
    <3> QED
      BY <3>1, <3>2, BooksAreCounts
  <2> QED
    BY <1>2, <2>2, <2>3, <2>4, <2>5 DEF IInv, TypeOK
<1> QED
  BY <1>2, <1>4, <1>5 DEF IInv

-----------------------------------------------------------------------------
(* One lemma per kind of action. *)

LEMMA InitIInv == Init => IInv /\ NoMissingRecord
<1> SUFFICES ASSUME Init PROVE IInv /\ NoMissingRecord
  OBVIOUS
<1> USE UseChainAssumption
<1>1. \A v \in Values, u \in Users, i \in Slots : uses[<<v, u, i>>] = 0
  BY DEF Record, Init
<1>2. ChainAgrees
  BY <1>1 DEF Init, ChainAgrees, Entitled, Kept
<1>3. \A u \in Users, i \in Slots : i < size[u] <=> opnd[u][i] # NoValue
  BY DEF Init, Slots
<1>4. TypeOK
  <2>1. size \in [Users -> 0 .. MaxOps] /\ uses \in [Record -> Nat]
    BY DEF Init
  <2>2. opnd \in [Users -> [Slots -> Values \cup {NoValue}]]
    BY DEF Init
  <2>3. status \in [Users -> {"fresh", "live", "dropped", "gone"}] /\ failed \in BOOLEAN
    BY DEF Init
  <2> QED
    BY <1>3, <2>1, <2>2, <2>3 DEF Init, TypeOK
<1> QED
  BY <1>2, <1>4 DEF Init, IInv, NoMissingRecord

\* Operands that were just set carry one record each.
LEMMA CreatePreserves ==
  ASSUME IInv, NEW u \in Users, NEW n \in 0 .. MaxOps, NEW f \in [0 .. n - 1 -> Usable],
         Create(u, n, f)
  PROVE  IInv' /\ failed' = failed
<1> USE UseChainAssumption
<1>1. \A i \in 0 .. n - 1 : f[i] \in Values
  BY DEF Usable, Values, Reach
<1> DEFINE add == {<<f[i], u, i>> : i \in 0 .. n - 1}
<1>2. \A v \in Values, w \in Users, i \in Slots :
        <<v, w, i>> \in add <=> w = u /\ i < n /\ f[i] = v
  BY DEF Slots
<1>3. /\ opnd' = [opnd EXCEPT ![u] = Vector(f, n)]
      /\ size' = [size EXCEPT ![u] = n]
      /\ uses' = Book(uses, add, {})
      /\ status' = [status EXCEPT ![u] = "live"]
      /\ failed' = failed
      /\ status[u] = "fresh"
  BY DEF Create
<1>4. ASSUME NEW v \in Values, NEW w \in Users, NEW i \in Slots
      PROVE  uses'[<<v, w, i>>] = IF Entitled(v, w, i)' THEN 1 ELSE 0
  <2>1. uses[<<v, w, i>>] = IF Entitled(v, w, i) THEN 1 ELSE 0
    BY DEF IInv, ChainAgrees
  <2>2. uses'[<<v, w, i>>] = uses[<<v, w, i>>] + (IF <<v, w, i>> \in add THEN 1 ELSE 0)
    <3>1. uses[<<v, w, i>>] \in Nat
      BY DEF IInv, TypeOK, Record
    <3> HIDE DEF add
    <3> QED
      BY <3>1, <1>3, BookAt
  <2>3. CASE w = u
    <3>1. opnd'[u][i] = IF i < n THEN f[i] ELSE NoValue
      BY <1>3 DEF IInv, TypeOK, Vector
    <3>2. status'[u] = "live"
      BY <1>3 DEF IInv, TypeOK
    <3>3. uses[<<v, u, i>>] = 0
      BY <2>1, <2>3, <1>3 DEF Entitled, Kept
    <3> QED
      BY <2>2, <2>3, <3>1, <3>2, <3>3, <1>2 DEF Entitled, Kept
  <2>4. CASE w # u
    <3>1. opnd'[w] = opnd[w] /\ status'[w] = status[w]
      BY <2>4, <1>3 DEF IInv, TypeOK
    <3> QED
      BY <2>1, <2>2, <2>4, <3>1, <1>2 DEF Entitled, Kept
  <2> QED
    BY <2>3, <2>4
<1>5. TypeOK'
  <2>1. Vector(f, n) \in [Slots -> Values \cup {NoValue}]
    BY <1>1 DEF Vector, Slots
  <2>2. opnd' \in [Users -> [Slots -> Values \cup {NoValue}]]
    BY <1>3, <2>1 DEF IInv, TypeOK
  <2>3. size' \in [Users -> 0 .. MaxOps] /\ status' \in [Users -> {"fresh", "live", "dropped", "gone"}]
    BY <1>3 DEF IInv, TypeOK
  <2>4. ASSUME NEW w \in Users, NEW i \in Slots
        PROVE  i < size'[w] <=> opnd'[w][i] # NoValue
    <3>1. CASE w = u
      <4>1. opnd'[u][i] = IF i < n THEN f[i] ELSE NoValue
        BY <1>3 DEF IInv, TypeOK, Vector
      <4>2. size'[u] = n
        BY <1>3 DEF IInv, TypeOK
      <4>3. i < n => f[i] # NoValue
        BY <1>1 DEF Slots
      <4> QED
        BY <3>1, <4>1, <4>2, <4>3
    <3>2. CASE w # u
      BY <3>2, <1>3 DEF IInv, TypeOK
    <3> QED
      BY <3>1, <3>2
  <2>5. uses' \in [Record -> Nat]
    <3>1. uses' = [r \in Record |-> uses'[r]]
      BY <1>3 DEF Book
    <3>2. \A v \in Values, w \in Users, i \in Slots : uses'[<<v, w, i>>] \in {0, 1}
      BY <1>4
    <3> QED
      BY <3>1, <3>2, BooksAreCounts
  <2> QED
    BY <1>3, <2>2, <2>3, <2>4, <2>5 DEF IInv, TypeOK
<1> QED
  BY <1>3, <1>4, <1>5 DEF IInv, ChainAgrees

LEMMA CreatePhiPreserves ==
  ASSUME IInv, NEW p \in Phis, CreatePhi(p)
  PROVE  IInv' /\ failed' = failed
<1> USE UseChainAssumption
<1>1. p \in Users
  BY DEF Users
<1>2. \A i \in Slots : opnd[p][i] = NoValue
  BY <1>1 DEF IInv, TypeOK, Slots, CreatePhi
<1>3. TypeOK'
  BY <1>1 DEF IInv, TypeOK, CreatePhi
<1>4. \A v \in Values, u \in Users, i \in Slots : Entitled(v, u, i)' <=> Entitled(v, u, i)
  BY <1>1, <1>2 DEF IInv, TypeOK, CreatePhi, Entitled, Kept
<1> QED
  BY <1>3, <1>4 DEF IInv, ChainAgrees, CreatePhi

LEMMA SetParamsPreserves ==
  ASSUME IInv, NEW p \in Phis \cap Live, NEW v \in Values, NEW l \in Values, SetParams(p, v, l)
  PROVE  IInv' /\ failed' = failed
<1> USE UseChainAssumption
<1> DEFINE n == size[p]
           f == [opnd[p] EXCEPT ![n] = v, ![n + 1] = l]
           add == {<<v, p, n>>, <<l, p, n + 1>>}
<1>1. /\ p \in Users /\ status[p] \in {"live", "dropped"}
      /\ n + 2 \in 0 .. MaxOps /\ n \in Slots /\ n + 1 \in Slots /\ n \in Nat
  BY DEF Live, SetParams, IInv, TypeOK, Slots
<1>2. \A i \in Slots : f[i] = IF i = n THEN v ELSE IF i = n + 1 THEN l ELSE opnd[p][i]
  BY <1>1 DEF IInv, TypeOK
<1>3. \A i \in Slots : i < n <=> opnd[p][i] # NoValue
  BY <1>1 DEF IInv, TypeOK
<1>4. \A i \in Slots : opnd[p][i] \in Values \cup {NoValue}
  BY <1>1 DEF IInv, TypeOK
<1>5. \A i \in 0 .. n + 2 - 1 : f[i] \in Values
  BY <1>1, <1>2, <1>3, <1>4 DEF Slots
<1>6. ASSUME NEW x \in Values, NEW i \in Slots
      PROVE  (IF i < n + 2 /\ f[i] = x THEN 1 ELSE 0) =
               (IF opnd[p][i] = x THEN 1 ELSE 0)
                 + (IF <<x, p, i>> \in add THEN 1 ELSE 0)
                 - (IF <<x, p, i>> \in {} THEN 1 ELSE 0)
  <2>1. <<x, p, i>> \in add <=> (i = n /\ x = v) \/ (i = n + 1 /\ x = l)
    OBVIOUS
  <2>2. x # NoValue /\ i \in Nat
    BY DEF Slots
  <2>3. CASE i < n
    BY <2>1, <2>2, <2>3, <1>1, <1>2 DEF Slots
  <2>4. CASE i = n
    BY <2>1, <2>2, <2>4, <1>1, <1>2, <1>3
  <2>5. CASE i = n + 1
    BY <2>1, <2>2, <2>5, <1>1, <1>2, <1>3
  <2>6. CASE i > n + 1
    BY <2>1, <2>2, <2>6, <1>1, <1>2, <1>3
  <2> QED
    BY <2>2, <2>3, <2>4, <2>5, <2>6, <1>1
<1>7. Rebuild(p, f, n + 2, add, {})
  BY DEF SetParams
<1>8. \A x \in Values, w \in Users, i \in Slots : <<x, w, i>> \in add \cup {} => w = p
  OBVIOUS
<1> HIDE DEF n, f, add
<1> QED
  BY <1>1, <1>5, <1>6, <1>7, <1>8, RebuildPreserves

\* One operand changes, and its record with it.
LEMMA OneSlotPreserves ==
  ASSUME IInv, NEW u \in Kept, NEW i \in Slots, i < size[u], NEW v \in Values, NEW f,
         \A j \in Slots : f[j] = IF j = i THEN v ELSE opnd[u][j],
         NEW add, add = {<<v, u, i>>}, NEW del, del = {<<opnd[u][i], u, i>>},
         Rebuild(u, f, size[u], add, del)
  PROVE  IInv' /\ failed' = failed
<1> USE UseChainAssumption
<1> DEFINE n == size[u]
<1>1. /\ u \in Users /\ status[u] \in {"live", "dropped"}
      /\ n \in 0 .. MaxOps /\ i < n
  BY DEF Kept, IInv, TypeOK
<1>2. \A j \in Slots : f[j] = IF j = i THEN v ELSE opnd[u][j]
  OBVIOUS
<1>3. \A j \in Slots : /\ j < n <=> opnd[u][j] # NoValue
                       /\ opnd[u][j] \in Values \cup {NoValue}
  BY <1>1 DEF IInv, TypeOK
<1>4. \A j \in 0 .. n - 1 : f[j] \in Values
  BY <1>1, <1>2, <1>3 DEF Slots
<1>5. ASSUME NEW x \in Values, NEW j \in Slots
      PROVE  (IF j < n /\ f[j] = x THEN 1 ELSE 0) =
               (IF opnd[u][j] = x THEN 1 ELSE 0)
                 + (IF <<x, u, j>> \in add THEN 1 ELSE 0)
                 - (IF <<x, u, j>> \in del THEN 1 ELSE 0)
  <2>1. /\ <<x, u, j>> \in add <=> j = i /\ x = v
        /\ <<x, u, j>> \in del <=> j = i /\ x = opnd[u][i]
    OBVIOUS
  <2>2. x # NoValue
    OBVIOUS
  <2>3. CASE j = i
    BY <2>1, <2>3, <1>1, <1>2
  <2>4. CASE j # i
    BY <2>1, <2>2, <2>4, <1>1, <1>2, <1>3
  <2> QED
    BY <2>3, <2>4
<1>6. Rebuild(u, f, n, add, del)
  OBVIOUS
<1>7. \A x \in Values, w \in Users, j \in Slots : <<x, w, j>> \in add \cup del => w = u
  OBVIOUS
<1>8. \A r \in del : r \in Own(opnd, u, size[u])
  <2>1. i \in 0 .. size[u] - 1
    BY <1>1 DEF Slots
  <2> QED
    BY <2>1 DEF Own
<1> HIDE DEF n
<1> QED
  BY ONLY IInv, <1>1, <1>4, <1>5, <1>6, <1>7, <1>8, RebuildPreserves

LEMMA ChangeOperandPreserves ==
  ASSUME IInv, NEW u \in Kept, NEW i \in Slots, NEW v \in Values, ChangeOperand(u, i, v)
  PROVE  IInv' /\ failed' = failed
<1> DEFINE f == [opnd[u] EXCEPT ![i] = v]
           add == {<<v, u, i>>}
           del == {<<opnd[u][i], u, i>>}
<1>1. \A j \in Slots : f[j] = IF j = i THEN v ELSE opnd[u][j]
  BY DEF Kept, IInv, TypeOK
<1>2. i < size[u] /\ Rebuild(u, f, size[u], add, del)
  BY DEF ChangeOperand
<1>3. add = {<<v, u, i>>} /\ del = {<<opnd[u][i], u, i>>}
  OBVIOUS
<1> HIDE DEF f, add, del
<1> QED
  BY <1>1, <1>2, <1>3, OneSlotPreserves

\* removeUseOps, then addOperand of each f[0 .. n-1].
LEMMA RefillPreserves ==
  ASSUME IInv, NEW u \in Live, NEW n \in 0 .. MaxOps, NEW f,
         \A i \in 0 .. n - 1 : f[i] \in Values,
         Rebuild(u, f, n, {<<f[i], u, i>> : i \in 0 .. n - 1}, Own(opnd, u, size[u]))
  PROVE  IInv' /\ failed' = failed
<1> USE UseChainAssumption
<1> DEFINE add == {<<f[i], u, i>> : i \in 0 .. n - 1}
           del == Own(opnd, u, size[u])
<1>1. u \in Users /\ status[u] \in {"live", "dropped"}
  BY DEF Live
<1>2. \A v \in Values, w \in Users, i \in Slots :
        /\ <<v, w, i>> \in add <=> w = u /\ i < n /\ f[i] = v
        /\ <<v, w, i>> \in del <=> w = u /\ opnd[u][i] = v
  <2>1. \A v \in Values, w \in Users, i \in Slots :
          <<v, w, i>> \in add <=> w = u /\ i < n /\ f[i] = v
    BY DEF Slots
  <2>2. \A v \in Values, w \in Users, i \in Slots :
          <<v, w, i>> \in del <=> w = u /\ opnd[u][i] = v
    BY <1>1, OwnHeld DEF IInv
  <2> QED
    BY <2>1, <2>2
<1>3. \A v \in Values, w \in Users, i \in Slots : <<v, w, i>> \in add \cup del => w = u
  BY <1>2
<1>4. \A v \in Values, i \in Slots :
        (IF i < n /\ f[i] = v THEN 1 ELSE 0) =
          (IF opnd[u][i] = v THEN 1 ELSE 0)
            + (IF <<v, u, i>> \in add THEN 1 ELSE 0)
            - (IF <<v, u, i>> \in del THEN 1 ELSE 0)
  BY <1>1, <1>2
<1>5. \A r \in del : r \in Own(opnd, u, size[u])
  OBVIOUS
<1> HIDE DEF add, del
<1>6. Rebuild(u, f, n, add, del)
  BY DEF add, del
<1>7. \A i \in 0 .. n - 1 : f[i] \in Values
  OBVIOUS
<1> QED
  BY ONLY IInv, <1>1, n \in 0 .. MaxOps, <1>3, <1>4, <1>5, <1>6, <1>7, RebuildPreserves

\* An operand below the length of the vector is a value.
LEMMA OperandIsValue ==
  ASSUME TypeOK, NEW u \in Users, NEW i \in 0 .. size[u] - 1
  PROVE  i \in Slots /\ opnd[u][i] \in Values
BY UseChainAssumption DEF TypeOK, Slots

LEMMA RmIncomingPreserves ==
  ASSUME IInv, NEW p \in Phis \cap Live, NEW k \in 0 .. MaxOps, RmIncoming(p, k)
  PROVE  IInv' /\ failed' = failed
<1> DEFINE n == size[p]
           f == [i \in 0 .. n - 3 |-> opnd[p][IF i < 2 * k THEN i ELSE i + 2]]
<1>1. p \in Users /\ n \in 0 .. MaxOps /\ 2 * k + 1 < n /\ n - 2 \in 0 .. MaxOps
  BY UseChainAssumption DEF Live, RmIncoming, IInv, TypeOK
<1>2. ASSUME NEW i \in 0 .. (n - 2) - 1 PROVE f[i] \in Values
  <2>1. i \in 0 .. n - 3
    BY <1>1
  <2>2. (IF i < 2 * k THEN i ELSE i + 2) \in 0 .. size[p] - 1
    BY <1>1, <2>1
  <2> QED
    BY <1>1, <2>1, <2>2, OperandIsValue DEF IInv
<1>3. {<<f[i], p, i>> : i \in 0 .. n - 3} = {<<f[i], p, i>> : i \in 0 .. (n - 2) - 1}
  <2>1. 0 .. n - 3 = 0 .. (n - 2) - 1
    BY <1>1
  <2> QED
    BY <2>1
<1>4. Rebuild(p, f, n - 2, {<<f[i], p, i>> : i \in 0 .. (n - 2) - 1}, Own(opnd, p, size[p]))
  BY <1>3 DEF RmIncoming
<1> HIDE DEF f, n
<1> QED
  BY <1>1, <1>2, <1>4, RefillPreserves

LEMMA SwapOperandsPreserves ==
  ASSUME IInv, NEW u \in Live, SwapOperands(u)
  PROVE  IInv' /\ failed' = failed
<1> DEFINE f == [i \in 0 .. 1 |-> opnd[u][1 - i]]
<1>1. u \in Users /\ size[u] = 2 /\ 2 \in 0 .. MaxOps
  BY DEF Live, SwapOperands, IInv, TypeOK
<1>2. ASSUME NEW i \in 0 .. 2 - 1 PROVE f[i] \in Values
  <2>1. i \in 0 .. 1 /\ 1 - i \in 0 .. size[u] - 1
    BY <1>1
  <2> QED
    BY <1>1, <2>1, OperandIsValue DEF IInv
<1>3. Rebuild(u, f, 2, {<<f[i], u, i>> : i \in 0 .. 2 - 1}, Own(opnd, u, size[u]))
  <2>1. 0 .. 1 = 0 .. 2 - 1
    OBVIOUS
  <2> QED
    BY <1>1, <2>1 DEF SwapOperands
<1> HIDE DEF f
<1> QED
  BY <1>1, <1>2, <1>3, RefillPreserves

LEMMA ResetReturnPreserves ==
  ASSUME IInv, NEW u \in Live, NEW c \in Consts, ResetReturn(u, c)
  PROVE  IInv' /\ failed' = failed
<1> DEFINE f == [i \in {0} |-> c]
<1>1. u \in Users /\ size[u] = 1 /\ 1 \in 0 .. MaxOps
  BY DEF Live, ResetReturn, IInv, TypeOK
<1>2. \A i \in 0 .. 1 - 1 : f[i] \in Values
  BY DEF Values
<1>3. {<<f[i], u, i>> : i \in 0 .. 1 - 1} = {<<c, u, 0>>}
  OBVIOUS
<1>4. Rebuild(u, f, 1, {<<f[i], u, i>> : i \in 0 .. 1 - 1}, Own(opnd, u, size[u]))
  BY <1>1, <1>3 DEF ResetReturn
<1> HIDE DEF f
<1> QED
  BY <1>1, <1>2, <1>4, RefillPreserves

LEMMA LoadWithOffsetPreserves ==
  ASSUME IInv, NEW u \in Live, NEW ptr \in Users, LoadWithOffset(u, ptr)
  PROVE  IInv' /\ failed' = failed
<1> DEFINE f == [i \in 0 .. 1 |-> opnd[ptr][i + 1]]
<1>1. u \in Users /\ ptr \in Users /\ size[u] = 1 /\ size[ptr] = 3 /\ 2 \in 0 .. MaxOps
  <2>1. u \in Users /\ ptr \in Users /\ size[u] = 1 /\ size[ptr] = 3
    BY DEF Live, LoadWithOffset
  <2>2. size[ptr] \in 0 .. MaxOps
    BY <2>1 DEF IInv, TypeOK
  <2> QED
    BY <2>1, <2>2, UseChainAssumption
<1>2. ASSUME NEW i \in 0 .. 2 - 1 PROVE f[i] \in Values
  <2>1. i \in 0 .. 1 /\ i + 1 \in 0 .. size[ptr] - 1
    BY <1>1
  <2> QED
    BY <1>1, <2>1, OperandIsValue DEF IInv
<1>3. Rebuild(u, f, 2, {<<f[i], u, i>> : i \in 0 .. 2 - 1}, Own(opnd, u, size[u]))
  <2>1. 0 .. 1 = 0 .. 2 - 1
    OBVIOUS
  <2> QED
    BY <1>1, <2>1 DEF LoadWithOffset
<1> HIDE DEF f
<1> QED
  BY <1>1, <1>2, <1>3, RefillPreserves

LEMMA StoreWithOffsetPreserves ==
  ASSUME IInv, NEW u \in Live, NEW ptr \in Users, StoreWithOffset(u, ptr)
  PROVE  IInv' /\ failed' = failed
<1> USE UseChainAssumption
<1> DEFINE f == [i \in 0 .. 2 |-> IF i = 0 THEN opnd[u][0] ELSE opnd[ptr][i]]
           add == {<<f[i], u, i>> : i \in 1 .. 2}
           del == {<<ptr, u, 1>>}
<1>1. /\ u \in Users /\ ptr \in Users /\ status[u] \in {"live", "dropped"}
      /\ size[u] = 2 /\ opnd[u][1] = ptr /\ size[ptr] = 3 /\ 3 \in 0 .. MaxOps
  BY DEF Live, StoreWithOffset
<1>2. ASSUME NEW i \in 0 .. 3 - 1 PROVE f[i] \in Values
  <2>1. 0 \in 0 .. size[u] - 1 /\ i \in 0 .. size[ptr] - 1 /\ i \in 0 .. 2
    BY <1>1
  <2>2. opnd[u][0] \in Values /\ opnd[ptr][i] \in Values
    BY <1>1, <2>1, OperandIsValue DEF IInv
  <2> QED
    BY <2>1, <2>2
<1>3. \A j \in Slots : j < size[u] <=> opnd[u][j] # NoValue
  BY <1>1 DEF IInv, TypeOK
<1>4. ASSUME NEW v \in Values, NEW i \in Slots
      PROVE  (IF i < 3 /\ f[i] = v THEN 1 ELSE 0) =
               (IF opnd[u][i] = v THEN 1 ELSE 0)
                 + (IF <<v, u, i>> \in add THEN 1 ELSE 0)
                 - (IF <<v, u, i>> \in del THEN 1 ELSE 0)
  <2>1. /\ <<v, u, i>> \in add <=> i \in 1 .. 2 /\ v = f[i]
        /\ <<v, u, i>> \in del <=> i = 1 /\ v = ptr
    OBVIOUS
  <2>2. v # NoValue
    OBVIOUS
  <2>3. i \in Nat
    BY DEF Slots
  <2>4. CASE i = 0
    BY <2>1, <2>4
  <2>5. CASE i = 1
    BY <2>1, <2>5, <1>1
  <2>6. CASE i = 2
    BY <2>1, <2>2, <2>6, <1>1, <1>3
  <2>7. CASE i > 2
    BY <2>1, <2>2, <2>3, <2>7, <1>1, <1>3
  <2> QED
    BY <2>3, <2>4, <2>5, <2>6, <2>7
<1>5. Rebuild(u, f, 3, add, del)
  BY DEF StoreWithOffset
<1>6. \A x \in Values, w \in Users, j \in Slots : <<x, w, j>> \in add \cup del => w = u
  OBVIOUS
<1>7. \A r \in del : r \in Own(opnd, u, size[u])
  <2>1. 1 \in 0 .. size[u] - 1
    BY <1>1
  <2> QED
    BY <2>1, <1>1 DEF Own
<1> HIDE DEF f, add, del
<1> QED
  BY <1>1, <1>2, <1>4, <1>5, <1>6, <1>7, RebuildPreserves

\* With distinct incoming values, handleInvariants relabels the one outside pair.
LEMMA RetargetPhiPreserves ==
  ASSUME IInv, DistinctIncoming = TRUE, NEW p \in Live, NEW loop, NEW k \in Slots,
         NEW pre \in Values, RetargetPhi(p, loop, k, pre)
  PROVE  IInv' /\ failed' = failed
<1> USE UseChainAssumption
<1> DEFINE hit == Relabelled(p, k)
           f == [i \in Slots |-> IF \E j \in hit : i = j + 1 THEN pre ELSE opnd[p][i]]
           s == 2 * k + 1
<1>1. p \in Users /\ p \in Kept
  BY DEF Live, Kept
<1>2. hit = {2 * k}
  BY DEF RetargetPhi
<1>3. s < size[p] /\ s \in Slots
  <2>1. k \in Outside(p, loop)
    BY DEF RetargetPhi
  <2>2. s < size[p] /\ size[p] \in 0 .. MaxOps /\ s \in Nat
    BY <2>1, <1>1 DEF Outside, IInv, TypeOK, Slots
  <2> QED
    BY <2>2 DEF Slots
<1>4. \A j \in Slots : f[j] = IF j = s THEN pre ELSE opnd[p][j]
  BY <1>2
<1> DEFINE add == {<<pre, p, i + 1>> : i \in hit}
           del == {<<opnd[p][s], p, i + 1>> : i \in hit}
<1>5. Rebuild(p, f, size[p], add, del)
  BY DEF RetargetPhi
<1>6. add = {<<pre, p, s>>} /\ del = {<<opnd[p][s], p, s>>}
  BY <1>2
<1> HIDE DEF f, s, hit, add, del
<1> QED
  BY <1>1, <1>3, <1>4, <1>5, <1>6, OneSlotPreserves

-----------------------------------------------------------------------------
(* Rewriting and erasing go through a state in between: the invariant on     *)
(* explicit tables.                                                          *)

Good(op, sz, us, st) ==
  /\ sz \in [Users -> 0 .. MaxOps]
  /\ op \in [Users -> [Slots -> Values \cup {NoValue}]]
  /\ us \in [Record -> Nat]
  /\ st \in [Users -> {"fresh", "live", "dropped", "gone"}]
  /\ \A u \in Users, i \in Slots : i < sz[u] <=> op[u][i] # NoValue
  /\ \A u \in Users : st[u] = "fresh" => sz[u] = 0
  /\ \A v \in Values, u \in Users, i \in Slots :
       us[<<v, u, i>>] = IF st[u] \in {"live", "dropped"} /\ op[u][i] = v THEN 1 ELSE 0

LEMMA GoodIsIInv ==
  /\ IInv <=> Good(opnd, size, uses, status) /\ failed \in BOOLEAN
  /\ IInv' <=> Good(opnd', size', uses', status') /\ failed' \in BOOLEAN
BY DEF IInv, TypeOK, ChainAgrees, Entitled, Kept, Good

\* replaceAllUse on consistent tables.
LEMMA MoveGood ==
  ASSUME NEW op, NEW sz, NEW us, NEW st, Good(op, sz, us, st),
         NEW v \in Values, NEW w \in Values, v # w
  PROVE  Good(Rewritten(op, us, v, w), sz, Moved(us, v, w), st)
<1> USE UseChainAssumption
<1> DEFINE op2 == Rewritten(op, us, v, w)
           us2 == Moved(us, v, w)
<1>1. ASSUME NEW u \in Users, NEW i \in Slots
      PROVE  /\ op2[u][i] = IF us[<<v, u, i>>] > 0 THEN w ELSE op[u][i]
             /\ us[<<v, u, i>>] > 0 <=> st[u] \in {"live", "dropped"} /\ op[u][i] = v
  BY DEF Rewritten, Good
<1>2. ASSUME NEW x \in Values, NEW u \in Users, NEW i \in Slots
      PROVE  us2[<<x, u, i>>] = IF x = v THEN 0
                                ELSE IF x = w THEN us[<<x, u, i>>] + us[<<v, u, i>>]
                                ELSE us[<<x, u, i>>]
  <2> DEFINE r == <<x, u, i>>
  <2>1. r \in Record /\ r[1] = x /\ r[2] = u /\ r[3] = i
    BY DEF Record
  <2> HIDE DEF r, us2
  <2>2. us2[r] = IF r[1] = v THEN 0
                 ELSE IF r[1] = w THEN us[r] + us[<<v, r[2], r[3]>>]
                 ELSE us[r]
    BY <2>1 DEF us2, Moved
  <2> QED
    BY <2>1, <2>2 DEF r
<1>3. ASSUME NEW x \in Values, NEW u \in Users, NEW i \in Slots
      PROVE  us2[<<x, u, i>>] = IF st[u] \in {"live", "dropped"} /\ op2[u][i] = x THEN 1 ELSE 0
  <2>1. \A y \in Values : us[<<y, u, i>>] = IF st[u] \in {"live", "dropped"} /\ op[u][i] = y THEN 1 ELSE 0
    BY DEF Good
  <2>2. op2[u][i] = IF us[<<v, u, i>>] > 0 THEN w ELSE op[u][i]
    BY <1>1
  <2> HIDE DEF op2, us2
  <2>3. CASE x = v
    BY <2>1, <2>2, <2>3, <1>2
  <2>4. CASE x = w
    <3>1. us2[<<x, u, i>>] = us[<<x, u, i>>] + us[<<v, u, i>>]
      BY <2>4, <1>2
    <3> QED
      BY <2>1, <2>2, <2>4, <3>1
  <2>5. CASE x # v /\ x # w
    BY <2>1, <2>2, <2>5, <1>2
  <2> QED
    BY <2>3, <2>4, <2>5
<1>4. op2 \in [Users -> [Slots -> Values \cup {NoValue}]]
  BY DEF Rewritten, Good
<1>5. us2 \in [Record -> Nat]
  <2>1. us2 = [r \in Record |-> us2[r]]
    BY DEF Moved
  <2>2. \A x \in Values, u \in Users, i \in Slots : us2[<<x, u, i>>] \in {0, 1}
    BY <1>3
  <2> HIDE DEF us2
  <2> QED
    BY <2>1, <2>2, BooksAreCounts
<1>6. \A u \in Users, i \in Slots : i < sz[u] <=> op2[u][i] # NoValue
  <2>1. ASSUME NEW u \in Users, NEW i \in Slots
        PROVE  i < sz[u] <=> op2[u][i] # NoValue
    <3>1. i < sz[u] <=> op[u][i] # NoValue
      BY DEF Good
    <3> HIDE DEF op2
    <3> QED
      BY <1>1, <3>1
  <2> QED
    BY <2>1
<1> HIDE DEF op2, us2
<1>7. Good(op2, sz, us2, st)
  BY <1>3, <1>4, <1>5, <1>6 DEF Good
<1> QED
  BY <1>7 DEF op2, us2

\* removeUseOps of every member of S on consistent tables finds its records.
LEMMA EraseGood ==
  ASSUME NEW op, NEW sz, NEW us, NEW st, Good(op, sz, us, st),
         NEW S \in SUBSET Users, \A u \in S : st[u] = "live"
  PROVE  LET own == UNION {Own(op, u, sz[u]) : u \in S}
         IN  /\ Held(us, own)
             /\ Good(op, sz, Book(us, {}, own), [u \in Users |-> IF u \in S THEN "gone" ELSE st[u]])
<1> USE UseChainAssumption
<1> DEFINE own == UNION {Own(op, u, sz[u]) : u \in S}
           us2 == Book(us, {}, own)
           st2 == [u \in Users |-> IF u \in S THEN "gone" ELSE st[u]]
<1>1. ASSUME NEW u \in S, NEW i \in 0 .. sz[u] - 1
      PROVE  i \in Slots /\ op[u][i] \in Values /\ us[<<op[u][i], u, i>>] > 0
  <2>1. i \in Slots
    BY DEF Good, Slots
  <2>2. op[u][i] \in Values
    BY <2>1 DEF Good
  <2> QED
    BY <2>1, <2>2 DEF Good
<1>2. \A r \in own : \E u \in S : \E i \in 0 .. sz[u] - 1 : r = <<op[u][i], u, i>>
  BY DEF Own
<1>3. Held(us, own)
  <2>1. ASSUME NEW r \in own PROVE us[r] > 0
    <3>1. PICK u \in S : \E i \in 0 .. sz[u] - 1 : r = <<op[u][i], u, i>>
      BY <1>2
    <3>2. PICK i \in 0 .. sz[u] - 1 : r = <<op[u][i], u, i>>
      BY <3>1
    <3> QED
      BY <3>2, <1>1
  <2> QED
    BY <2>1 DEF Held
<1>4. ASSUME NEW v \in Values, NEW u \in Users, NEW i \in Slots
      PROVE  <<v, u, i>> \in own <=> u \in S /\ op[u][i] = v
  <2>1. ASSUME <<v, u, i>> \in own PROVE u \in S /\ op[u][i] = v
    BY <2>1, <1>2
  <2>2. ASSUME u \in S, op[u][i] = v PROVE <<v, u, i>> \in own
    <3>1. i \in 0 .. sz[u] - 1
      BY <2>2 DEF Good, Slots
    <3>2. <<v, u, i>> \in Own(op, u, sz[u])
      BY <3>1, <2>2 DEF Own
    <3> QED
      BY <3>2, <2>2
  <2> QED
    BY <2>1, <2>2
<1>5. ASSUME NEW v \in Values, NEW u \in Users, NEW i \in Slots
      PROVE  us2[<<v, u, i>>] = IF st2[u] \in {"live", "dropped"} /\ op[u][i] = v THEN 1 ELSE 0
  <2>1. us[<<v, u, i>>] = IF st[u] \in {"live", "dropped"} /\ op[u][i] = v THEN 1 ELSE 0
    BY DEF Good
  <2>2. st2[u] = IF u \in S THEN "gone" ELSE st[u]
    OBVIOUS
  <2> HIDE DEF own, st2
  <2>3. us2[<<v, u, i>>] = us[<<v, u, i>>] - (IF <<v, u, i>> \in own THEN 1 ELSE 0)
    BY <2>1, BookAt
  <2> HIDE DEF us2
  <2> QED
    BY <2>1, <2>2, <2>3, <1>4
<1>6. us2 \in [Record -> Nat]
  <2>1. us2 = [r \in Record |-> us2[r]]
    BY DEF Book
  <2>2. \A v \in Values, u \in Users, i \in Slots : us2[<<v, u, i>>] \in {0, 1}
    BY <1>5
  <2> HIDE DEF us2
  <2> QED
    BY <2>1, <2>2, BooksAreCounts
<1>7. /\ st2 \in [Users -> {"fresh", "live", "dropped", "gone"}]
      /\ \A u \in Users : st2[u] = "fresh" => sz[u] = 0
  BY DEF Good
<1> HIDE DEF us2, st2
<1>8. Good(op, sz, us2, st2)
  BY <1>5, <1>6, <1>7 DEF Good
<1> QED
  BY <1>3, <1>8 DEF us2, st2

LEMMA ReplaceLabelPreserves ==
  ASSUME IInv, NEW l \in Labels, NEW m \in Labels, ReplaceLabel(l, m)
  PROVE  IInv' /\ failed' = failed
<1>1. l \in Values /\ m \in Values /\ l # m
  BY DEF Values, ReplaceLabel
<1>2. Good(opnd, size, uses, status) /\ failed \in BOOLEAN
  BY GoodIsIInv
<1>3. Good(Rewritten(opnd, uses, l, m), size, Moved(uses, l, m), status)
  BY <1>1, <1>2, MoveGood
<1> QED
  BY <1>2, <1>3, GoodIsIInv DEF ReplaceLabel

\* One erased instruction, for EraseGood.
LEMMA EraseOne ==
  ASSUME NEW op, NEW sz, NEW us, NEW st, Good(op, sz, us, st),
         NEW u \in Users, st[u] = "live"
  PROVE  /\ Held(us, Own(op, u, sz[u]))
         /\ Good(op, sz, Book(us, {}, Own(op, u, sz[u])), [st EXCEPT ![u] = "gone"])
<1> DEFINE S == {u}
           own == UNION {Own(op, w, sz[w]) : w \in S}
           st2 == [w \in Users |-> IF w \in S THEN "gone" ELSE st[w]]
<1>1. own = Own(op, u, sz[u])
  OBVIOUS
<1>2. st2 = [st EXCEPT ![u] = "gone"]
  BY DEF Good
<1>3. S \in SUBSET Users /\ \A w \in S : st[w] = "live"
  OBVIOUS
<1> HIDE DEF S
<1>4. Held(us, own) /\ Good(op, sz, Book(us, {}, own), st2)
  BY <1>3, EraseGood
<1> HIDE DEF own, st2
<1> QED
  BY <1>1, <1>2, <1>4

LEMMA ReplaceThenErasePreserves ==
  ASSUME IInv, NEW u \in Live, NEW w \in Values, ReplaceThenErase(u, w)
  PROVE  IInv' /\ failed' = failed
<1> DEFINE op == Rewritten(opnd, uses, u, w)
           us == Moved(uses, u, w)
           own == Own(op, u, size[u])
<1>1. u \in Users /\ u \in Values /\ w # u /\ status[u] = "live"
  BY DEF Live, Values, ReplaceThenErase
<1>2. Good(opnd, size, uses, status) /\ failed \in BOOLEAN
  BY GoodIsIInv
<1>3. Good(op, size, us, status)
  BY <1>1, <1>2, MoveGood
<1> HIDE DEF op, us
<1>4. Held(us, own) /\ Good(op, size, Book(us, {}, own), [status EXCEPT ![u] = "gone"])
  BY <1>1, <1>3, EraseOne
<1>5. /\ opnd' = op /\ uses' = Book(us, {}, own)
      /\ status' = [status EXCEPT ![u] = "gone"]
      /\ size' = size /\ failed' = failed
  BY <1>4 DEF ReplaceThenErase, op, us
<1> HIDE DEF own
<1> QED
  BY <1>2, <1>4, <1>5, GoodIsIInv

LEMMA EraseThenReplacePreserves ==
  ASSUME IInv, NEW u \in Live, NEW w \in Values, EraseThenReplace(u, w)
  PROVE  IInv' /\ failed' = failed
<1> DEFINE own == Own(opnd, u, size[u])
           us == Book(uses, {}, own)
           st == [status EXCEPT ![u] = "gone"]
<1>1. u \in Users /\ u \in Values /\ w # u /\ status[u] = "live"
  BY DEF Live, Values, EraseThenReplace
<1>2. Good(opnd, size, uses, status) /\ failed \in BOOLEAN
  BY GoodIsIInv
<1>3. Held(uses, own) /\ Good(opnd, size, us, st)
  BY <1>1, <1>2, EraseOne
<1>4. /\ opnd' = Rewritten(opnd, us, u, w) /\ uses' = Moved(us, u, w)
      /\ status' = st /\ size' = size /\ failed' = failed
  BY <1>3 DEF EraseThenReplace
<1> HIDE DEF own, us, st
<1>5. Good(Rewritten(opnd, us, u, w), size, Moved(us, u, w), st)
  BY <1>1, <1>3, MoveGood
<1> QED
  BY <1>2, <1>4, <1>5, GoodIsIInv

LEMMA DropPreserves ==
  ASSUME IInv, NEW S \in SUBSET Live, Drop(S)
  PROVE  IInv' /\ failed' = failed
<1>1. /\ status' = [u \in Users |-> IF u \in S THEN "dropped" ELSE status[u]]
      /\ UNCHANGED <<opnd, size, uses, failed>>
  BY DEF Drop
<1>2. \A u \in S : u \in Users /\ status[u] = "live"
  BY DEF Live
<1>3. \A u \in Users : /\ status'[u] \in {"live", "dropped"} <=> status[u] \in {"live", "dropped"}
                       /\ status'[u] = "fresh" => status[u] = "fresh"
  BY <1>1, <1>2
<1>4. TypeOK'
  BY <1>1, <1>3 DEF IInv, TypeOK
<1>5. ChainAgrees'
  <2>1. ASSUME NEW v \in Values, NEW u \in Users, NEW i \in Slots
        PROVE  uses'[<<v, u, i>>] = IF Entitled(v, u, i)' THEN 1 ELSE 0
    <3>1. uses[<<v, u, i>>] = IF Entitled(v, u, i) THEN 1 ELSE 0
      BY DEF IInv, ChainAgrees
    <3>2. Entitled(v, u, i)' <=> Entitled(v, u, i)
      BY <1>1, <1>3 DEF Entitled, Kept
    <3> QED
      BY <1>1, <3>1, <3>2
  <2> QED
    BY <2>1 DEF ChainAgrees
<1> QED
  BY <1>1, <1>4, <1>5 DEF IInv

LEMMA EraseUnusedPreserves ==
  ASSUME IInv, NEW u \in Live, EraseUnused(u)
  PROVE  IInv' /\ failed' = failed
<1> DEFINE own == Own(opnd, u, size[u])
<1>1. u \in Users /\ status[u] = "live"
  BY DEF Live
<1>2. Good(opnd, size, uses, status) /\ failed \in BOOLEAN
  BY GoodIsIInv
<1>3. Held(uses, own) /\ Good(opnd, size, Book(uses, {}, own), [status EXCEPT ![u] = "gone"])
  BY <1>1, <1>2, EraseOne
<1>4. /\ uses' = Book(uses, {}, own) /\ status' = [status EXCEPT ![u] = "gone"]
      /\ UNCHANGED <<opnd, size, failed>>
  BY <1>3 DEF EraseUnused
<1> HIDE DEF own
<1> QED
  BY <1>2, <1>3, <1>4, GoodIsIInv

LEMMA DeleteDeadPreserves ==
  ASSUME IInv, DeleteDead
  PROVE  IInv' /\ failed' = failed
<1> DEFINE S == Live \ Useful
           own == UNION {Own(opnd, u, size[u]) : u \in S}
           st == [u \in Users |-> IF u \in S THEN "gone" ELSE status[u]]
<1>1. S \in SUBSET Users /\ \A u \in S : status[u] = "live"
  BY DEF Live
<1>2. Good(opnd, size, uses, status) /\ failed \in BOOLEAN
  BY GoodIsIInv
<1> HIDE DEF S
<1>3. Held(uses, own) /\ Good(opnd, size, Book(uses, {}, own), st)
  BY <1>1, <1>2, EraseGood
<1>4. /\ uses' = Book(uses, {}, own) /\ status' = st
      /\ UNCHANGED <<opnd, size, failed>>
  BY <1>3 DEF DeleteDead, S
<1> HIDE DEF own, st
<1> QED
  BY <1>2, <1>3, <1>4, GoodIsIInv

\* The operand at a place of the pairs in g is one of p's.
LEMMA PairsAreValues ==
  ASSUME TypeOK, NEW p \in Users, NEW n \in Nat, NEW K,
         \A k \in K : k \in Nat /\ 2 * k + 1 < size[p],
         NEW g \in [0 .. n - 1 -> K], NEW i \in 0 .. 2 * n - 1
  PROVE  Pairs(p, g, n)[i] \in Values
<1> DEFINE h == i \div 2
           j == 2 * g[h] + (i % 2)
<1>1. h \in 0 .. n - 1 /\ i % 2 \in 0 .. 1
  OBVIOUS
<1>2. g[h] \in Nat /\ 2 * g[h] + 1 < size[p]
  BY <1>1
<1>3. j \in 0 .. size[p] - 1
  <2>1. size[p] \in Nat
    BY UseChainAssumption DEF TypeOK
  <2> HIDE DEF h
  <2> QED
    BY <1>1, <1>2, <2>1
<1>4. Pairs(p, g, n)[i] = opnd[p][j]
  BY DEF Pairs
<1> HIDE DEF j
<1> QED
  BY <1>3, <1>4, OperandIsValue

LEMMA SplitPhiPreserves ==
  ASSUME IInv, NEW p \in Live, NEW q \in Users, NEW loop, NEW pre \in Labels,
         NEW m \in 0 .. MaxOps \div 2, NEW n \in 0 .. MaxOps \div 2,
         NEW out \in [0 .. m - 1 -> Outside(p, loop)], NEW in \in [0 .. n - 1 -> Inside(p, loop)],
         SplitPhi(p, q, loop, pre, m, out, n, in)
  PROVE  IInv' /\ failed' = failed
<1> USE UseChainAssumption
<1> DEFINE fq == Pairs(p, out, m)
           fp == [i \in 0 .. 2 * n + 1 |-> IF i = 2 * n THEN q
                                           ELSE IF i = 2 * n + 1 THEN pre
                                           ELSE Pairs(p, in, n)[i]]
           own == Own(opnd, p, size[p])
           addq == {<<fq[i], q, i>> : i \in 0 .. 2 * m - 1}
           addp == {<<fp[i], p, i>> : i \in 0 .. 2 * n + 1}
           add == addq \cup addp
<1>1. /\ p \in Users /\ status[p] = "live" /\ status[q] = "fresh" /\ p # q
      /\ m \in Nat /\ n \in Nat /\ 2 * m \in 0 .. MaxOps /\ 2 * n + 2 \in 0 .. MaxOps
  BY DEF Live, SplitPhi
<1>2. Held(uses, own)
  BY <1>1, OwnHeld DEF IInv
<1>3. /\ opnd' = [opnd EXCEPT ![p] = Vector(fp, 2 * n + 2), ![q] = Vector(fq, 2 * m)]
      /\ size' = [size EXCEPT ![p] = 2 * n + 2, ![q] = 2 * m]
      /\ uses' = Book(uses, add, own)
      /\ status' = [status EXCEPT ![q] = "live"]
      /\ failed' = failed
  BY <1>2 DEF SplitPhi
<1>4. \A i \in 0 .. 2 * m - 1 : fq[i] \in Values
  <2>1. \A k \in Outside(p, loop) : k \in Nat /\ 2 * k + 1 < size[p]
    BY DEF Outside
  <2> QED
    BY <2>1, <1>1, PairsAreValues DEF IInv
<1>5. \A i \in 0 .. 2 * n + 1 : fp[i] \in Values
  <2>1. \A k \in Inside(p, loop) : k \in Nat /\ 2 * k + 1 < size[p]
    BY DEF Inside
  <2>2. \A i \in 0 .. 2 * n - 1 : Pairs(p, in, n)[i] \in Values
    BY <2>1, <1>1, PairsAreValues DEF IInv
  <2>3. q \in Values /\ pre \in Values
    BY DEF Values
  <2>4. ASSUME NEW i \in 0 .. 2 * n + 1 PROVE fp[i] \in Values
    <3>1. i = 2 * n \/ i = 2 * n + 1 \/ i \in 0 .. 2 * n - 1
      BY <1>1
    <3> QED
      BY <3>1, <2>2, <2>3
  <2> QED
    BY <2>4
<1> HIDE DEF fq, fp
<1>6. \A v \in Values, w \in Users, i \in Slots :
        /\ <<v, w, i>> \in add <=> \/ w = q /\ i < 2 * m /\ fq[i] = v
                                   \/ w = p /\ i < 2 * n + 2 /\ fp[i] = v
        /\ <<v, w, i>> \in own <=> w = p /\ opnd[p][i] = v
  <2>1. \A v \in Values, w \in Users, i \in Slots :
          <<v, w, i>> \in add <=> \/ w = q /\ i < 2 * m /\ fq[i] = v
                                  \/ w = p /\ i < 2 * n + 2 /\ fp[i] = v
    <3> SUFFICES ASSUME NEW v \in Values, NEW w \in Users, NEW i \in Slots
                 PROVE  <<v, w, i>> \in add <=> \/ w = q /\ i < 2 * m /\ fq[i] = v
                                                \/ w = p /\ i < 2 * n + 2 /\ fp[i] = v
      OBVIOUS
    <3>1. <<v, w, i>> \in addq <=> w = q /\ i \in 0 .. 2 * m - 1 /\ fq[i] = v
      OBVIOUS
    <3>2. <<v, w, i>> \in addp <=> w = p /\ i \in 0 .. 2 * n + 1 /\ fp[i] = v
      OBVIOUS
    <3>3. /\ i \in 0 .. 2 * m - 1 <=> i < 2 * m
          /\ i \in 0 .. 2 * n + 1 <=> i < 2 * n + 2
      BY <1>1 DEF Slots
    <3>4. <<v, w, i>> \in add <=> <<v, w, i>> \in addq \/ <<v, w, i>> \in addp
      OBVIOUS
    <3> HIDE DEF add, addq, addp
    <3> QED
      BY <3>1, <3>2, <3>3, <3>4
  <2>2. \A v \in Values, w \in Users, i \in Slots :
          <<v, w, i>> \in own <=> w = p /\ opnd[p][i] = v
    BY <1>1, OwnHeld DEF IInv
  <2> QED
    BY <2>1, <2>2
<1> HIDE DEF add, addq, addp, own
<1>7. /\ \A w \in Users : opnd'[w] = IF w = q THEN Vector(fq, 2 * m)
                                      ELSE IF w = p THEN Vector(fp, 2 * n + 2) ELSE opnd[w]
      /\ \A w \in Users : size'[w] = IF w = q THEN 2 * m ELSE IF w = p THEN 2 * n + 2 ELSE size[w]
      /\ \A w \in Users : status'[w] = IF w = q THEN "live" ELSE status[w]
  BY <1>1, <1>3 DEF IInv, TypeOK
<1>11. \A i \in Slots : opnd'[p][i] = (IF i < 2 * n + 2 THEN fp[i] ELSE NoValue) /\ size'[p] = 2 * n + 2
  <2>1. opnd'[p] = Vector(fp, 2 * n + 2) /\ size'[p] = 2 * n + 2
    BY <1>1, <1>7
  <2>2. \A i \in Slots : Vector(fp, 2 * n + 2)[i] = IF i < 2 * n + 2 THEN fp[i] ELSE NoValue
    BY DEF Vector
  <2> QED
    BY <2>1, <2>2
<1>12. \A i \in Slots : opnd'[q][i] = (IF i < 2 * m THEN fq[i] ELSE NoValue) /\ size'[q] = 2 * m
  <2>1. opnd'[q] = Vector(fq, 2 * m) /\ size'[q] = 2 * m
    BY <1>7
  <2>2. \A i \in Slots : Vector(fq, 2 * m)[i] = IF i < 2 * m THEN fq[i] ELSE NoValue
    BY DEF Vector
  <2> QED
    BY <2>1, <2>2
<1>8. ASSUME NEW v \in Values, NEW w \in Users, NEW i \in Slots
      PROVE  uses'[<<v, w, i>>] = IF Entitled(v, w, i)' THEN 1 ELSE 0
  <2>1. uses[<<v, w, i>>] = IF Entitled(v, w, i) THEN 1 ELSE 0
    BY DEF IInv, ChainAgrees
  <2>2. uses'[<<v, w, i>>] = uses[<<v, w, i>>] + (IF <<v, w, i>> \in add THEN 1 ELSE 0)
                                              - (IF <<v, w, i>> \in own THEN 1 ELSE 0)
    BY <1>3, BookAt
  <2>3. CASE w = q
    <3>1. opnd'[q][i] = IF i < 2 * m THEN fq[i] ELSE NoValue
      BY <1>12
    <3>2. Entitled(v, w, i)' <=> i < 2 * m /\ fq[i] = v
      BY <2>3, <3>1, <1>7 DEF Entitled, Kept
    <3>3. uses[<<v, w, i>>] = 0
      BY <2>1, <2>3, <1>1 DEF Entitled, Kept
    <3>4. /\ <<v, w, i>> \in add <=> i < 2 * m /\ fq[i] = v
          /\ <<v, w, i>> \notin own
      <4>1. w # p /\ w = q
        BY <2>3, <1>1
      <4>2. /\ <<v, w, i>> \in add <=> \/ w = q /\ i < 2 * m /\ fq[i] = v
                                       \/ w = p /\ i < 2 * n + 2 /\ fp[i] = v
            /\ <<v, w, i>> \in own <=> w = p /\ opnd[p][i] = v
        BY <1>6
      <4> QED
        BY <4>1, <4>2
    <3> QED
      BY <2>2, <3>2, <3>3, <3>4
  <2>4. CASE w = p
    <3>1. opnd'[p][i] = IF i < 2 * n + 2 THEN fp[i] ELSE NoValue
      BY <1>11
    <3>2. Entitled(v, w, i)' <=> i < 2 * n + 2 /\ fp[i] = v
      BY <2>4, <3>1, <1>1, <1>7 DEF Entitled, Kept
    <3>3. uses[<<v, w, i>>] = IF opnd[p][i] = v THEN 1 ELSE 0
      BY <2>1, <2>4, <1>1 DEF Entitled, Kept
    <3>4. /\ <<v, w, i>> \in add <=> i < 2 * n + 2 /\ fp[i] = v
          /\ <<v, w, i>> \in own <=> opnd[p][i] = v
      BY <2>4, <1>1, <1>6
    <3> QED
      BY <2>2, <3>2, <3>3, <3>4
  <2>5. CASE w # p /\ w # q
    BY <2>1, <2>2, <2>5, <1>6, <1>7 DEF Entitled, Kept
  <2> QED
    BY <2>3, <2>4, <2>5
<1>9. uses' \in [Record -> Nat]
  <2>1. uses' = [r \in Record |-> uses'[r]]
    BY <1>3 DEF Book
  <2>2. \A v \in Values, u \in Users, i \in Slots : uses'[<<v, u, i>>] \in {0, 1}
    BY <1>8
  <2> QED
    BY <2>1, <2>2, BooksAreCounts
<1>10. TypeOK'
  <2>1. /\ Vector(fq, 2 * m) \in [Slots -> Values \cup {NoValue}]
        /\ Vector(fp, 2 * n + 2) \in [Slots -> Values \cup {NoValue}]
    BY <1>1, <1>4, <1>5 DEF Vector, Slots
  <2>2. opnd' \in [Users -> [Slots -> Values \cup {NoValue}]]
    BY <1>3, <2>1 DEF IInv, TypeOK
  <2>3. /\ size' \in [Users -> 0 .. MaxOps]
        /\ status' \in [Users -> {"fresh", "live", "dropped", "gone"}]
    BY <1>1, <1>3 DEF IInv, TypeOK
  <2>4. ASSUME NEW w \in Users, NEW i \in Slots
        PROVE  i < size'[w] <=> opnd'[w][i] # NoValue
    <3>1. i < size[w] <=> opnd[w][i] # NoValue
      BY DEF IInv, TypeOK
    <3>2. i < 2 * m => fq[i] # NoValue
      BY <1>1, <1>4 DEF Slots
    <3>3. i < 2 * n + 2 => fp[i] # NoValue
      BY <1>1, <1>5 DEF Slots
    <3>4. CASE w = q
      <4>1. opnd'[w][i] = (IF i < 2 * m THEN fq[i] ELSE NoValue) /\ size'[w] = 2 * m
        BY <3>4, <1>12
      <4> QED
        BY <3>2, <4>1
    <3>5. CASE w = p
      <4>1. opnd'[w][i] = (IF i < 2 * n + 2 THEN fp[i] ELSE NoValue) /\ size'[w] = 2 * n + 2
        BY <3>5, <1>11
      <4> QED
        BY <3>3, <4>1
    <3>6. CASE w # p /\ w # q
      BY <3>1, <3>6, <1>7
    <3> QED
      BY <3>4, <3>5, <3>6
  <2>5. \A w \in Users : status'[w] = "fresh" => size'[w] = 0
    BY <1>1, <1>7 DEF IInv, TypeOK
  <2> QED
    BY <1>3, <1>9, <2>2, <2>3, <2>4, <2>5 DEF IInv, TypeOK
<1> QED
  BY <1>3, <1>8, <1>10 DEF IInv, ChainAgrees

-----------------------------------------------------------------------------
(* The theorems. *)

LEMMA NextPreserves ==
  ASSUME DistinctIncoming = TRUE, IInv, NoMissingRecord, [Next]_vars
  PROVE  IInv' /\ NoMissingRecord'
<1> SUFFICES IInv' /\ failed' = failed
  BY DEF NoMissingRecord
<1>1. CASE UNCHANGED vars
  BY <1>1 DEF vars, IInv, TypeOK, ChainAgrees, Entitled, Kept
<1>2. CASE Next
  <2>1. /\ Usable \subseteq Values /\ Labels \subseteq Values
        /\ Live \subseteq Users /\ Phis \subseteq Users /\ Plain \subseteq Users
        /\ \A u \in Plain : Arity[u] \subseteq 0 .. MaxOps
    BY UseChainAssumption DEF Usable, Reach, Live, Values, Users
  <2>2. ASSUME NEW u \in Plain, NEW n \in Arity[u], NEW f \in [0 .. n - 1 -> Usable], Create(u, n, f)
        PROVE  IInv' /\ failed' = failed
    BY <2>1, <2>2, CreatePreserves
  <2>3. ASSUME NEW p \in Phis, CreatePhi(p)
        PROVE  IInv' /\ failed' = failed
    BY <2>3, CreatePhiPreserves
  <2>4. ASSUME NEW p \in Phis \cap Live, NEW v \in Usable \ Labels, NEW l \in Labels, SetParams(p, v, l)
        PROVE  IInv' /\ failed' = failed
    BY <2>1, <2>4, SetParamsPreserves
  <2>5. ASSUME NEW u \in Kept, NEW i \in Slots, NEW v \in Usable, ChangeOperand(u, i, v)
        PROVE  IInv' /\ failed' = failed
    BY <2>1, <2>5, ChangeOperandPreserves
  <2>6. ASSUME NEW p \in Phis \cap Live, NEW k \in 0 .. MaxOps, RmIncoming(p, k)
        PROVE  IInv' /\ failed' = failed
    BY <2>6, RmIncomingPreserves
  <2>7. ASSUME NEW u \in Plain \cap Live, SwapOperands(u)
        PROVE  IInv' /\ failed' = failed
    BY <2>7, SwapOperandsPreserves
  <2>8. ASSUME NEW u \in Plain \cap Live, NEW c \in Consts, ResetReturn(u, c)
        PROVE  IInv' /\ failed' = failed
    BY <2>8, ResetReturnPreserves
  <2>9. ASSUME NEW u \in Plain \cap Live, NEW ptr \in Plain \cap Reach(Live), LoadWithOffset(u, ptr)
        PROVE  IInv' /\ failed' = failed
    BY <2>1, <2>9, LoadWithOffsetPreserves
  <2>10. ASSUME NEW u \in Plain \cap Live, NEW ptr \in Plain \cap Reach(Live), StoreWithOffset(u, ptr)
         PROVE  IInv' /\ failed' = failed
    BY <2>1, <2>10, StoreWithOffsetPreserves
  <2>11. ASSUME NEW l \in Labels, NEW m \in Labels, ReplaceLabel(l, m)
         PROVE  IInv' /\ failed' = failed
    BY <2>11, ReplaceLabelPreserves
  <2>12. ASSUME NEW u \in Live, NEW w \in Usable, ReplaceThenErase(u, w)
         PROVE  IInv' /\ failed' = failed
    BY <2>1, <2>12, ReplaceThenErasePreserves
  <2>13. ASSUME NEW u \in Live, NEW w \in Usable, EraseThenReplace(u, w)
         PROVE  IInv' /\ failed' = failed
    BY <2>1, <2>13, EraseThenReplacePreserves
  <2>14. ASSUME NEW S \in SUBSET Live, Drop(S)
         PROVE  IInv' /\ failed' = failed
    BY <2>14, DropPreserves
  <2>15. ASSUME DeleteDead
         PROVE  IInv' /\ failed' = failed
    BY <2>15, DeleteDeadPreserves
  <2>16. ASSUME NEW p \in Phis \cap Live, NEW loop \in SUBSET Labels, NEW k \in Slots,
                NEW pre \in Labels, RetargetPhi(p, loop, k, pre)
         PROVE  IInv' /\ failed' = failed
    BY <2>1, <2>16, RetargetPhiPreserves
  <2>17. ASSUME NEW p \in Phis \cap Live, NEW q \in Phis, NEW loop \in SUBSET Labels, NEW pre \in Labels,
                NEW m \in 0 .. MaxOps \div 2, NEW n \in 0 .. MaxOps \div 2,
                NEW out \in [0 .. m - 1 -> Outside(p, loop)],
                NEW in \in [0 .. n - 1 -> Inside(p, loop)],
                SplitPhi(p, q, loop, pre, m, out, n, in)
         PROVE  IInv' /\ failed' = failed
    BY <2>1, <2>17, SplitPhiPreserves
  <2>18. ASSUME NEW u \in (Plain \cap Live) \ Roots, EraseUnused(u)
         PROVE  IInv' /\ failed' = failed
    BY <2>18, EraseUnusedPreserves
  <2> QED
    BY <1>2, <2>2, <2>3, <2>4, <2>5, <2>6, <2>7, <2>8, <2>9, <2>10, <2>11, <2>12, <2>13,
       <2>14, <2>15, <2>16, <2>17, <2>18 DEF Next
<1> QED
  BY <1>1, <1>2

\* Whatever the passes do to the IR, in whatever order, every use list stays equal to
\* what the operand vectors say and removeUse never exits with code 436, provided no
\* phi of a loop header that gets a preheader receives one value both from outside and
\* from inside (loop_invariant.cpp).
THEOREM ChainsStayConsistent ==
  ASSUME DistinctIncoming = TRUE
  PROVE  Spec => [](TypeOK /\ ChainAgrees /\ NoMissingRecord)
<1>1. Init => IInv /\ NoMissingRecord
  BY InitIInv
<1>2. IInv /\ NoMissingRecord /\ [Next]_vars => IInv' /\ NoMissingRecord'
  BY NextPreserves
<1>3. IInv /\ NoMissingRecord => TypeOK /\ ChainAgrees /\ NoMissingRecord
  BY DEF IInv
<1> QED
  BY <1>1, <1>2, <1>3, PTL DEF Spec

\* value.cpp:72: removeUse finds its record, whatever was rewritten before, and the
\* compiler never exits with code 436.
THEOREM EveryRecordIsFound ==
  ASSUME DistinctIncoming = TRUE
  PROVE  Spec => []NoMissingRecord
BY ChainsStayConsistent, PTL

\* user.cpp: the operand vector and its length always agree, whatever rewrote them.
THEOREM VectorsKeepShape ==
  ASSUME DistinctIncoming = TRUE
  PROVE  Spec => []TypeOK
BY ChainsStayConsistent, PTL


-----------------------------------------------------------------------------
(* No pass comes upon an instruction that was erased.  This needs the          *)
(* agreement of the use lists: the operands to rewrite are found through the   *)
(* use list of the instruction that is erased.                                 *)

\* What is reached holds its starting points and its own operands.
LEMMA ReachIsClosed ==
  ASSUME NEW R \in SUBSET Users
  PROVE  R \subseteq Reach(R) /\ Reach(R) \in SUBSET Users /\ OperandClosed(Reach(R))
BY DEF Reach, OperandClosed

\* K holds the instructions of the blocks and its own operands, and none was erased.
Holds(K) ==
  /\ K \in SUBSET Users
  /\ Live \subseteq K
  /\ K \subseteq Kept
  /\ \A u \in K, i \in Slots : opnd[u][i] \in Users => opnd[u][i] \in K

LEMMA HoldsIsEnough ==
  /\ TypeOK => \A K : Holds(K) => NoDanglingUse
  /\ TypeOK' => \A K : Holds(K)' => NoDanglingUse'
<1>1. ASSUME TypeOK, NEW K, Holds(K) PROVE NoDanglingUse
  <2>1. K \in SUBSET Users /\ Live \subseteq K /\ OperandClosed(K)
    BY <1>1, UseChainAssumption DEF OperandClosed, Holds, TypeOK, Slots
  <2>2. Reach(Live) \subseteq K
    BY <2>1 DEF Reach
  <2> QED
    BY <1>1, <2>2 DEF Holds, NoDanglingUse
<1>2. ASSUME TypeOK', NEW K, Holds(K)' PROVE NoDanglingUse'
  <2>1. K \in SUBSET Users /\ Live' \subseteq K /\ OperandClosed(K)'
    BY <1>2, UseChainAssumption DEF OperandClosed, Holds, TypeOK, Slots
  <2>2. Reach(Live)' \subseteq K
    BY <2>1 DEF Reach
  <2> QED
    BY <1>2, <2>2 DEF Holds, NoDanglingUse
<1> QED
  BY <1>1, <1>2

LEMMA ReachHolds ==
  ASSUME TypeOK, NoDanglingUse
  PROVE  Holds(Reach(Live))
<1>1. Live \subseteq Reach(Live) /\ Reach(Live) \in SUBSET Users /\ OperandClosed(Reach(Live))
  BY ReachIsClosed DEF Live
<1>2. ASSUME NEW u \in Reach(Live), NEW i \in Slots, opnd[u][i] \in Users
      PROVE  opnd[u][i] \in Reach(Live)
  <2>1. u \in Users /\ opnd[u][i] # NoValue
    BY <1>1, <1>2, UseChainAssumption DEF Values
  <2>2. i \in 0 .. size[u] - 1
    BY <2>1, UseChainAssumption DEF TypeOK, Slots
  <2> QED
    BY <1>1, <1>2, <2>2 DEF OperandClosed
<1> QED
  BY <1>1, <1>2 DEF Holds, NoDanglingUse

\* The instructions an action may name are held; constants and labels are none.
LEMMA UsableAreHeld ==
  ASSUME TypeOK, NEW K, Holds(K)
  PROVE  /\ \A v \in Usable : v \in Users => v \in K
         /\ Reach(Live) \subseteq K
<1>1. K \in SUBSET Users /\ Live \subseteq K /\ OperandClosed(K)
  BY UseChainAssumption DEF OperandClosed, Holds, TypeOK, Slots
<1>2. Reach(Live) \subseteq K
  BY <1>1 DEF Reach
<1> QED
  BY <1>2, UseChainAssumption DEF Usable

\* New operands that are held, for one instruction.
LEMMA RebuildHolds ==
  ASSUME TypeOK, NEW K, Holds(K), NEW u \in Users, NEW n, NEW f, NEW add, NEW del,
         u \in K => \A i \in Slots : i < n /\ f[i] \in Users => f[i] \in K,
         Rebuild(u, f, n, add, del)
  PROVE  Holds(K)'
<1>1. CASE Fail
  BY <1>1 DEF Fail, Holds, Live, Kept
<1>2. CASE opnd' = [opnd EXCEPT ![u] = Vector(f, n)] /\ status' = status
  <2>1. Live' = Live /\ Kept' = Kept
    BY <1>2 DEF Live, Kept
  <2>2. \A w \in K, i \in Slots : opnd'[w][i] = IF w = u THEN Vector(f, n)[i] ELSE opnd[w][i]
    BY <1>2 DEF TypeOK, Holds
  <2>3. \A i \in Slots : Vector(f, n)[i] = IF i < n THEN f[i] ELSE NoValue
    BY DEF Vector
  <2>4. NoValue \notin Users
    BY UseChainAssumption DEF Values
  <2>5. \A w \in K, i \in Slots : opnd'[w][i] \in Users => opnd'[w][i] \in K
    BY <2>2, <2>3, <2>4 DEF Holds
  <2> QED
    BY <2>1, <2>5 DEF Holds
<1> QED
  BY <1>1, <1>2 DEF Rebuild

\* The operands an instruction had are held.
LEMMA OldOperandsHeld ==
  ASSUME TypeOK, NEW K, Holds(K), NEW u \in K, NEW i \in Int, 0 <= i, i < size[u]
  PROVE  opnd[u][i] \in Users => opnd[u][i] \in K
BY UseChainAssumption DEF TypeOK, Holds, Slots

-----------------------------------------------------------------------------
(* The actions that rewrite the operands of one instruction. *)

LEMMA SetParamsHolds ==
  ASSUME TypeOK, NEW K, Holds(K), NEW p \in K, NEW v \in Usable, NEW l \in Labels,
         SetParams(p, v, l)
  PROVE  Holds(K)'
<1>0. K \subseteq Users
  BY DEF Holds
<1> DEFINE n == size[p]
           f == [opnd[p] EXCEPT ![n] = v, ![n + 1] = l]
<1>1. p \in Users /\ n \in Nat
  BY UseChainAssumption DEF Holds, TypeOK
<1>2. \A i \in Slots : f[i] = IF i = n + 1 THEN l ELSE IF i = n THEN v ELSE opnd[p][i]
  BY <1>1 DEF TypeOK
<1>3. l \notin Users
  BY UseChainAssumption
<1>4. \A i \in Slots : i < n + 2 /\ f[i] \in Users => f[i] \in K
  BY <1>2, <1>3, UsableAreHeld DEF Holds
<1>5. Rebuild(p, f, n + 2, {<<v, p, n>>, <<l, p, n + 1>>}, {})
  BY DEF SetParams
<1> HIDE DEF f, n
<1> QED
  BY <1>4, <1>5, <1>0, RebuildHolds

LEMMA ChangeOperandHolds ==
  ASSUME TypeOK, NEW K, Holds(K), NEW u \in Kept, NEW i \in Slots, NEW v \in Usable,
         ChangeOperand(u, i, v)
  PROVE  Holds(K)'
<1>0. u \in Users
  BY DEF Kept
<1> DEFINE f == [opnd[u] EXCEPT ![i] = v]
<1>1. \A j \in Slots : f[j] = IF j = i THEN v ELSE opnd[u][j]
  BY DEF Kept, TypeOK
<1>2. u \in K => \A j \in Slots : j < size[u] /\ f[j] \in Users => f[j] \in K
  BY <1>1, UsableAreHeld DEF Holds
<1>3. Rebuild(u, f, size[u], {<<v, u, i>>}, {<<opnd[u][i], u, i>>})
  BY DEF ChangeOperand
<1> HIDE DEF f
<1> QED
  BY <1>2, <1>3, <1>0, RebuildHolds

LEMMA RmIncomingHolds ==
  ASSUME TypeOK, NEW K, Holds(K), NEW p \in K, NEW k \in 0 .. MaxOps, RmIncoming(p, k)
  PROVE  Holds(K)'
<1>0. K \subseteq Users
  BY DEF Holds
<1> DEFINE n == size[p]
           f == [i \in 0 .. n - 3 |-> opnd[p][IF i < 2 * k THEN i ELSE i + 2]]
<1>1. n \in Nat /\ k \in Nat
  BY UseChainAssumption DEF TypeOK, Holds
<1>2. ASSUME NEW i \in Slots, i < n - 2, f[i] \in Users PROVE f[i] \in K
  <2> DEFINE j == IF i < 2 * k THEN i ELSE i + 2
  <2>1. i \in 0 .. n - 3 /\ j \in Int /\ 0 <= j /\ j < n
    BY <1>1, <1>2 DEF Slots
  <2>2. f[i] = opnd[p][j]
    BY <2>1
  <2> HIDE DEF j
  <2> QED
    BY <1>2, <2>1, <2>2, OldOperandsHeld
<1>3. Rebuild(p, f, n - 2, {<<f[i], p, i>> : i \in 0 .. n - 3}, Own(opnd, p, n))
  BY DEF RmIncoming
<1> HIDE DEF f, n
<1> QED
  BY <1>2, <1>3, <1>0, RebuildHolds

LEMMA SwapOperandsHolds ==
  ASSUME TypeOK, NEW K, Holds(K), NEW u \in K, SwapOperands(u)
  PROVE  Holds(K)'
<1>0. K \subseteq Users
  BY DEF Holds
<1> DEFINE f == [i \in 0 .. 1 |-> opnd[u][1 - i]]
<1>1. ASSUME NEW i \in Slots, i < 2, f[i] \in Users PROVE f[i] \in K
  <2>1. i \in 0 .. 1 /\ 1 - i \in Int /\ 0 <= 1 - i /\ 1 - i < size[u]
    BY <1>1 DEF Slots, SwapOperands
  <2>2. f[i] = opnd[u][1 - i]
    BY <2>1
  <2> QED
    BY <1>1, <2>1, <2>2, OldOperandsHeld
<1>2. Rebuild(u, f, 2, {<<f[i], u, i>> : i \in 0 .. 1}, Own(opnd, u, 2))
  BY DEF SwapOperands
<1> HIDE DEF f
<1> QED
  BY <1>1, <1>2, <1>0, RebuildHolds

LEMMA ResetReturnHolds ==
  ASSUME TypeOK, NEW K, Holds(K), NEW u \in K, NEW c \in Consts, ResetReturn(u, c)
  PROVE  Holds(K)'
<1>0. K \subseteq Users
  BY DEF Holds
<1> DEFINE f == [i \in {0} |-> c]
<1>1. \A i \in Slots : i < 1 /\ f[i] \in Users => f[i] \in K
  BY UseChainAssumption DEF Slots
<1>2. Rebuild(u, f, 1, {<<c, u, 0>>}, Own(opnd, u, 1))
  BY DEF ResetReturn
<1> HIDE DEF f
<1> QED
  BY <1>1, <1>2, <1>0, RebuildHolds

LEMMA LoadWithOffsetHolds ==
  ASSUME TypeOK, NEW K, Holds(K), NEW u \in K, NEW ptr \in K, LoadWithOffset(u, ptr)
  PROVE  Holds(K)'
<1>0. K \subseteq Users
  BY DEF Holds
<1> DEFINE f == [i \in 0 .. 1 |-> opnd[ptr][i + 1]]
<1>1. ASSUME NEW i \in Slots, i < 2, f[i] \in Users PROVE f[i] \in K
  <2>1. i \in 0 .. 1 /\ i + 1 \in Int /\ 0 <= i + 1 /\ i + 1 < size[ptr]
    BY <1>1 DEF Slots, LoadWithOffset
  <2>2. f[i] = opnd[ptr][i + 1]
    BY <2>1
  <2> QED
    BY <1>1, <2>1, <2>2, OldOperandsHeld
<1>2. Rebuild(u, f, 2, {<<f[i], u, i>> : i \in 0 .. 1}, Own(opnd, u, 1))
  BY DEF LoadWithOffset
<1> HIDE DEF f
<1> QED
  BY <1>1, <1>2, <1>0, RebuildHolds

LEMMA StoreWithOffsetHolds ==
  ASSUME TypeOK, NEW K, Holds(K), NEW u \in K, NEW ptr \in K, StoreWithOffset(u, ptr)
  PROVE  Holds(K)'
<1>0. K \subseteq Users
  BY DEF Holds
<1> DEFINE f == [i \in 0 .. 2 |-> IF i = 0 THEN opnd[u][0] ELSE opnd[ptr][i]]
<1>1. ASSUME NEW i \in Slots, i < 3, f[i] \in Users PROVE f[i] \in K
  <2>1. i \in 0 .. 2 /\ i \in Int /\ 0 <= i /\ i < size[ptr] /\ 0 < size[u]
    BY <1>1 DEF Slots, StoreWithOffset
  <2>2. f[i] = IF i = 0 THEN opnd[u][0] ELSE opnd[ptr][i]
    BY <2>1
  <2> QED
    BY <1>1, <2>1, <2>2, OldOperandsHeld
<1>2. Rebuild(u, f, 3, {<<f[i], u, i>> : i \in 1 .. 2}, {<<ptr, u, 1>>})
  BY DEF StoreWithOffset
<1> HIDE DEF f
<1> QED
  BY <1>1, <1>2, <1>0, RebuildHolds

LEMMA RetargetPhiHolds ==
  ASSUME TypeOK, NEW K, Holds(K), NEW p \in K, NEW loop, NEW k \in Slots,
         NEW pre \in Labels, RetargetPhi(p, loop, k, pre)
  PROVE  Holds(K)'
<1>0. K \subseteq Users
  BY DEF Holds
<1> DEFINE hit == Relabelled(p, k)
           f == [i \in Slots |-> IF \E j \in hit : i = j + 1 THEN pre ELSE opnd[p][i]]
           del == {<<opnd[p][2 * k + 1], p, i + 1>> : i \in hit}
           add == {<<pre, p, i + 1>> : i \in hit}
<1>1. pre \notin Users
  BY UseChainAssumption
<1>2. \A i \in Slots : f[i] = pre \/ f[i] = opnd[p][i]
  OBVIOUS
<1>3. Rebuild(p, f, size[p], add, del)
  BY DEF RetargetPhi
<1> HIDE DEF hit, f, add, del
<1>4. \A i \in Slots : i < size[p] /\ f[i] \in Users => f[i] \in K
  BY <1>1, <1>2 DEF Holds
<1> QED
  BY <1>3, <1>4, <1>0, RebuildHolds

-----------------------------------------------------------------------------
(* The actions that make an instruction: it joins those that are held. *)

LEMMA CreateHolds ==
  ASSUME TypeOK, NEW K, Holds(K), NEW u \in Plain, NEW n \in 0 .. MaxOps,
         NEW f \in [0 .. n - 1 -> Usable], Create(u, n, f)
  PROVE  Holds(K \cup {u})'
<1>1. u \in Users /\ NoValue \notin Users /\ K \subseteq Users
  BY UseChainAssumption DEF Users, Values, Holds
<1>2. Live' = Live \cup {u} /\ Kept' = Kept \cup {u}
  BY <1>1 DEF Create, Live, Kept, TypeOK
<1>3. ASSUME NEW w \in K \cup {u}, NEW i \in Slots, opnd'[w][i] \in Users
      PROVE  opnd'[w][i] \in K \cup {u}
  <2>1. CASE w = u
    <3>1. opnd'[u][i] = IF i < n THEN f[i] ELSE NoValue
      BY <1>1 DEF Create, TypeOK, Vector
    <3>2. i < n /\ i \in 0 .. n - 1
      BY <1>1, <1>3, <2>1, <3>1 DEF Slots
    <3>3. opnd'[u][i] \in Usable
      BY <3>1, <3>2
    <3> QED
      BY <1>3, <2>1, <3>3, UsableAreHeld
  <2>2. CASE w # u
    <3>1. w \in K /\ opnd'[w] = opnd[w]
      BY <1>1, <1>3, <2>2 DEF Create, TypeOK
    <3> QED
      BY <1>3, <3>1 DEF Holds
  <2> QED
    BY <2>1, <2>2
<1> QED
  BY <1>1, <1>2, <1>3 DEF Holds

LEMMA CreatePhiHolds ==
  ASSUME TypeOK, NEW K, Holds(K), NEW p \in Phis, CreatePhi(p)
  PROVE  Holds(K \cup {p})'
<1>1. p \in Users /\ NoValue \notin Users
  BY UseChainAssumption DEF Users, Values
<1>2. Live' = Live \cup {p} /\ Kept' = Kept \cup {p} /\ opnd' = opnd
  BY <1>1 DEF CreatePhi, Live, Kept, TypeOK
<1>3. \A i \in Slots : opnd[p][i] = NoValue
  BY <1>1, UseChainAssumption DEF CreatePhi, TypeOK, Slots
<1> QED
  BY <1>1, <1>2, <1>3 DEF Holds

\* A pair that goes from one phi to another brings operands that are held.
LEMMA PairsAreHeld ==
  ASSUME TypeOK, NEW K, Holds(K), NEW p \in K, NEW n \in Nat, NEW N,
         \A k \in N : k \in Nat /\ 2 * k + 1 < size[p],
         NEW g \in [0 .. n - 1 -> N], NEW i \in 0 .. 2 * n - 1, Pairs(p, g, n)[i] \in Users
  PROVE  Pairs(p, g, n)[i] \in K
<1> DEFINE h == i \div 2
           j == 2 * g[h] + (i % 2)
<1>1. h \in 0 .. n - 1 /\ i % 2 \in 0 .. 1
  OBVIOUS
<1>2. g[h] \in Nat /\ 2 * g[h] + 1 < size[p]
  BY <1>1
<1>3. j \in Int /\ 0 <= j /\ j < size[p]
  <2>1. size[p] \in Nat
    BY UseChainAssumption DEF TypeOK, Holds
  <2> HIDE DEF h
  <2> QED
    BY <1>1, <1>2, <2>1
<1>4. Pairs(p, g, n)[i] = opnd[p][j]
  BY DEF Pairs
<1> HIDE DEF j
<1> QED
  BY <1>3, <1>4, OldOperandsHeld

LEMMA SplitPhiHolds ==
  ASSUME TypeOK, NEW K, Holds(K), NEW p \in K, NEW q \in Users, NEW loop, NEW pre \in Labels,
         NEW m \in 0 .. MaxOps \div 2, NEW n \in 0 .. MaxOps \div 2,
         NEW out \in [0 .. m - 1 -> Outside(p, loop)], NEW in \in [0 .. n - 1 -> Inside(p, loop)],
         SplitPhi(p, q, loop, pre, m, out, n, in)
  PROVE  Holds(K)' \/ Holds(K \cup {q})'
<1> DEFINE fq == Pairs(p, out, m)
           fp == [i \in 0 .. 2 * n + 1 |-> IF i = 2 * n THEN q
                                           ELSE IF i = 2 * n + 1 THEN pre
                                           ELSE Pairs(p, in, n)[i]]
<1>1. CASE Fail
  BY <1>1 DEF Fail, Holds, Live, Kept
<1>2. CASE /\ opnd' = [opnd EXCEPT ![p] = Vector(fp, 2 * n + 2), ![q] = Vector(fq, 2 * m)]
           /\ status' = [status EXCEPT ![q] = "live"]
  <2>1. /\ K \subseteq Users /\ p \in Users /\ p # q /\ m \in Nat /\ n \in Nat
        /\ pre \notin Users /\ NoValue \notin Users
    BY UseChainAssumption DEF Holds, Kept, SplitPhi, Values
  <2>2. \A i \in 0 .. 2 * m - 1 : fq[i] \in Users => fq[i] \in K
    <3>1. \A k \in Outside(p, loop) : k \in Nat /\ 2 * k + 1 < size[p]
      BY DEF Outside
    <3> QED
      BY <2>1, <3>1, PairsAreHeld
  <2>3. \A i \in 0 .. 2 * n + 1 : fp[i] \in Users => fp[i] \in K \cup {q}
    <3>1. \A k \in Inside(p, loop) : k \in Nat /\ 2 * k + 1 < size[p]
      BY DEF Inside
    <3>2. \A i \in 0 .. 2 * n - 1 : Pairs(p, in, n)[i] \in Users => Pairs(p, in, n)[i] \in K
      BY <2>1, <3>1, PairsAreHeld
    <3>3. ASSUME NEW i \in 0 .. 2 * n + 1, fp[i] \in Users PROVE fp[i] \in K \cup {q}
      <4>1. i = 2 * n \/ i = 2 * n + 1 \/ i \in 0 .. 2 * n - 1
        BY <2>1
      <4> QED
        BY <2>1, <3>2, <3>3, <4>1
    <3> QED
      BY <3>3
  <2> HIDE DEF fp, fq
  <2>4. Live' = Live \cup {q} /\ Kept' = Kept \cup {q}
    BY <1>2 DEF Live, Kept, TypeOK
  <2>5. \A i \in Slots : /\ i < 2 * m => i \in 0 .. 2 * m - 1
                         /\ i < 2 * n + 2 => i \in 0 .. 2 * n + 1
    BY <2>1 DEF Slots
  <2>6. ASSUME NEW w \in K \cup {q}, NEW i \in Slots, opnd'[w][i] \in Users
        PROVE  opnd'[w][i] \in K \cup {q}
    <3>1. CASE w = q
      <4>1. opnd'[q][i] = IF i < 2 * m THEN fq[i] ELSE NoValue
        BY <1>2, <2>1 DEF TypeOK, Vector
      <4> QED
        BY <2>1, <2>2, <2>5, <2>6, <3>1, <4>1
    <3>2. CASE w = p
      <4>1. opnd'[p][i] = IF i < 2 * n + 2 THEN fp[i] ELSE NoValue
        BY <1>2, <2>1 DEF TypeOK, Vector
      <4> QED
        BY <2>1, <2>3, <2>5, <2>6, <3>2, <4>1
    <3>3. CASE w # p /\ w # q
      <4>1. w \in K /\ opnd'[w] = opnd[w]
        BY <1>2, <2>1, <2>6, <3>3 DEF TypeOK
      <4> QED
        BY <2>6, <4>1 DEF Holds
    <3> QED
      BY <3>1, <3>2, <3>3
  <2> QED
    BY <2>1, <2>4, <2>6 DEF Holds
<1> QED
  BY <1>1, <1>2 DEF SplitPhi

-----------------------------------------------------------------------------
(* The actions that rewrite the operands of many, or take instructions out. *)

LEMMA ReplaceLabelHolds ==
  ASSUME TypeOK, NEW K, Holds(K), NEW l \in Labels, NEW m \in Labels, ReplaceLabel(l, m)
  PROVE  Holds(K)'
<1>1. m \notin Users /\ Live' = Live /\ Kept' = Kept
  BY UseChainAssumption DEF ReplaceLabel, Live, Kept
<1>2. \A u \in K, i \in Slots : opnd'[u][i] = m \/ opnd'[u][i] = opnd[u][i]
  BY DEF ReplaceLabel, Rewritten, Holds
<1> QED
  BY <1>1, <1>2 DEF Holds

\* The use list us of u is right for every other instruction that is held: after the
\* rewriting none but u itself has u as an operand, and u is erased.
LEMMA EraseHolds ==
  ASSUME TypeOK, NEW K, Holds(K), NEW u \in Live, NEW w \in Usable, w # u, NEW us,
         \A x \in K \ {u}, i \in Slots : opnd[x][i] = u => us[<<u, x, i>>] > 0,
         opnd' = Rewritten(opnd, us, u, w), status' = [status EXCEPT ![u] = "gone"]
  PROVE  Holds(K \ {u})'
<1>1. Live' = Live \ {u} /\ Kept' = Kept \ {u}
  BY DEF Live, Kept, TypeOK
<1>2. \A x \in K, i \in Slots :
        opnd'[x][i] = IF us[<<u, x, i>>] > 0 THEN w ELSE opnd[x][i]
  BY DEF Rewritten, Holds
<1>3. ASSUME NEW x \in K \ {u}, NEW i \in Slots, opnd'[x][i] \in Users
      PROVE  opnd'[x][i] \in K \ {u}
  <2>1. CASE us[<<u, x, i>>] > 0
    BY <1>2, <1>3, <2>1, UsableAreHeld
  <2>2. CASE ~(us[<<u, x, i>>] > 0)
    BY <1>2, <1>3, <2>2 DEF Holds
  <2> QED
    BY <2>1, <2>2
<1> QED
  BY <1>1, <1>3 DEF Holds

\* What the use list of u says of another instruction, in a block or not.
LEMMA ListedUses ==
  ASSUME IInv, NEW u \in Live, NEW x \in Kept, NEW i \in Slots, opnd[x][i] = u
  PROVE  uses[<<u, x, i>>] = 1
BY DEF IInv, ChainAgrees, Entitled, Live, Kept, Values

LEMMA ReplaceThenEraseHolds ==
  ASSUME IInv, NEW K, Holds(K), NEW u \in Live, NEW w \in Usable, ReplaceThenErase(u, w)
  PROVE  Holds(K)' \/ Holds(K \ {u})'
<1>1. CASE Fail
  BY <1>1 DEF Fail, Holds, Live, Kept
<1>2. CASE opnd' = Rewritten(opnd, uses, u, w) /\ status' = [status EXCEPT ![u] = "gone"]
  <2>1. \A x \in K \ {u}, i \in Slots : opnd[x][i] = u => uses[<<u, x, i>>] > 0
    BY ListedUses DEF Holds
  <2>2. w # u
    BY DEF ReplaceThenErase
  <2> QED
    BY <1>2, <2>1, <2>2, EraseHolds DEF IInv
<1> QED
  BY <1>1, <1>2 DEF ReplaceThenErase

LEMMA EraseThenReplaceHolds ==
  ASSUME IInv, NEW K, Holds(K), NEW u \in Live, NEW w \in Usable, EraseThenReplace(u, w)
  PROVE  Holds(K)' \/ Holds(K \ {u})'
<1> DEFINE own == Own(opnd, u, size[u])
           us == Book(uses, {}, own)
<1>1. CASE Fail
  BY <1>1 DEF Fail, Holds, Live, Kept
<1>2. CASE opnd' = Rewritten(opnd, us, u, w) /\ status' = [status EXCEPT ![u] = "gone"]
  <2>1. ASSUME NEW x \in K \ {u}, NEW i \in Slots, opnd[x][i] = u
        PROVE  us[<<u, x, i>>] > 0
    <3>1. u \in Values /\ x \in Users /\ x \in Kept /\ x # u
      BY DEF Live, Values, Holds
    <3>2. <<u, x, i>> \notin own
      BY <3>1 DEF Own
    <3>3. uses[<<u, x, i>>] = 1
      BY <2>1, <3>1, ListedUses
    <3> HIDE DEF own
    <3>4. us[<<u, x, i>>] = uses[<<u, x, i>>] + 0 - 0
      BY <3>1, <3>2, BookAt
    <3> QED
      BY <3>3, <3>4
  <2>2. w # u
    BY DEF EraseThenReplace
  <2> HIDE DEF us
  <2> QED
    BY <1>2, <2>1, <2>2, EraseHolds DEF IInv
<1> QED
  BY <1>1, <1>2 DEF EraseThenReplace

\* deleteMla asks the use list alone: that it is empty means no one has u as an operand.
LEMMA EraseUnusedHolds ==
  ASSUME IInv, NEW K, Holds(K), NEW u \in Live, EraseUnused(u)
  PROVE  Holds(K)' \/ Holds(K \ {u})'
<1>1. CASE Fail
  BY <1>1 DEF Fail, Holds, Live, Kept
<1>2. CASE opnd' = opnd /\ status' = [status EXCEPT ![u] = "gone"]
  <2>1. ASSUME NEW x \in Kept, NEW i \in Slots PROVE opnd[x][i] # u
    <3>1. uses[<<u, x, i>>] = 0
      BY DEF EraseUnused, Kept
    <3>2. opnd[x][i] = u => uses[<<u, x, i>>] = 1
      BY ListedUses
    <3> QED
      BY <3>1, <3>2
  <2>2. Live' = Live \ {u} /\ Kept' = Kept \ {u}
    BY <1>2 DEF Live, Kept, IInv, TypeOK
  <2> QED
    BY <1>2, <2>1, <2>2 DEF Holds
<1> QED
  BY <1>1, <1>2 DEF EraseUnused

\* What leaves its block with its records is still held.
LEMMA DropHolds ==
  ASSUME TypeOK, NEW K, Holds(K), NEW S \in SUBSET Live, Drop(S)
  PROVE  Holds(K)'
<1>1. /\ status' = [u \in Users |-> IF u \in S THEN "dropped" ELSE status[u]]
      /\ opnd' = opnd
  BY DEF Drop
<1>2. Live' \subseteq Live /\ Kept' = Kept
  BY <1>1 DEF Live, Kept
<1> QED
  BY <1>1, <1>2 DEF Holds

\* What is marked from the roots is closed under operands, so the marked part of what
\* is held is held by what is left.
LEMMA DeleteDeadHolds ==
  ASSUME TypeOK, NEW K, Holds(K), DeleteDead
  PROVE  \E L : Holds(L)'
<1>1. CASE Fail
  <2>1. Holds(K)'
    BY <1>1 DEF Fail, Holds, Live, Kept
  <2> QED
    BY <2>1
<1>2. CASE /\ status' = [u \in Users |-> IF u \in Live \ Useful THEN "gone" ELSE status[u]]
           /\ opnd' = opnd /\ size' = size
  <2> PICK M : M = Useful
    OBVIOUS
  <2>1. OperandClosed(M)
    BY ReachIsClosed DEF Useful, Live
  <2>2. Live' = Live \cap M /\ Kept \cap M \subseteq Kept'
    BY <1>2 DEF Live, Kept
  <2>3. ASSUME NEW u \in K \cap M, NEW i \in Slots, opnd[u][i] \in Users
        PROVE  opnd[u][i] \in K \cap M
    <3>1. u \in Users /\ opnd[u][i] # NoValue
      BY <2>3, UseChainAssumption DEF Values, Holds
    <3>2. i \in 0 .. size[u] - 1
      BY <3>1, UseChainAssumption DEF TypeOK, Slots
    <3>3. opnd[u][i] \in M
      BY <2>1, <2>3, <3>2 DEF OperandClosed
    <3> QED
      BY <2>3, <3>3 DEF Holds
  <2>4. Holds(K \cap M)'
    BY <1>2, <2>2, <2>3 DEF Holds
  <2> QED
    BY <2>4
<1> QED
  BY <1>1, <1>2 DEF DeleteDead

-----------------------------------------------------------------------------
(* The theorems. *)

LEMMA NextHolds ==
  ASSUME IInv, NEW K, Holds(K), Next
  PROVE  \E L : Holds(L)'
<1>1. /\ TypeOK /\ Live \subseteq K /\ Reach(Live) \subseteq K
      /\ Phis \subseteq Users /\ Plain \subseteq Users
      /\ \A u \in Plain : Arity[u] \subseteq 0 .. MaxOps
  BY UsableAreHeld, UseChainAssumption DEF IInv, Holds, Users
<1>2. ASSUME NEW u \in Plain, NEW n \in Arity[u], NEW f \in [0 .. n - 1 -> Usable], Create(u, n, f)
      PROVE  \E L : Holds(L)'
  BY <1>1, <1>2, CreateHolds
<1>3. ASSUME NEW p \in Phis, CreatePhi(p)
      PROVE  \E L : Holds(L)'
  BY <1>1, <1>3, CreatePhiHolds
<1>4. ASSUME NEW p \in Phis \cap Live, NEW v \in Usable \ Labels, NEW l \in Labels, SetParams(p, v, l)
      PROVE  \E L : Holds(L)'
  BY <1>1, <1>4, SetParamsHolds
<1>5. ASSUME NEW u \in Kept, NEW i \in Slots, NEW v \in Usable, ChangeOperand(u, i, v)
      PROVE  \E L : Holds(L)'
  BY <1>1, <1>5, ChangeOperandHolds
<1>6. ASSUME NEW p \in Phis \cap Live, NEW k \in 0 .. MaxOps, RmIncoming(p, k)
      PROVE  \E L : Holds(L)'
  BY <1>1, <1>6, RmIncomingHolds
<1>7. ASSUME NEW u \in Plain \cap Live, SwapOperands(u)
      PROVE  \E L : Holds(L)'
  BY <1>1, <1>7, SwapOperandsHolds
<1>8. ASSUME NEW u \in Plain \cap Live, NEW c \in Consts, ResetReturn(u, c)
      PROVE  \E L : Holds(L)'
  BY <1>1, <1>8, ResetReturnHolds
<1>9. ASSUME NEW u \in Plain \cap Live, NEW ptr \in Plain \cap Reach(Live), LoadWithOffset(u, ptr)
      PROVE  \E L : Holds(L)'
  BY <1>1, <1>9, LoadWithOffsetHolds
<1>10. ASSUME NEW u \in Plain \cap Live, NEW ptr \in Plain \cap Reach(Live), StoreWithOffset(u, ptr)
      PROVE  \E L : Holds(L)'
  BY <1>1, <1>10, StoreWithOffsetHolds
<1>11. ASSUME NEW l \in Labels, NEW m \in Labels, ReplaceLabel(l, m)
      PROVE  \E L : Holds(L)'
  BY <1>1, <1>11, ReplaceLabelHolds
<1>12. ASSUME NEW u \in Live, NEW w \in Usable, ReplaceThenErase(u, w)
      PROVE  \E L : Holds(L)'
  BY <1>1, <1>12, ReplaceThenEraseHolds
<1>13. ASSUME NEW u \in Live, NEW w \in Usable, EraseThenReplace(u, w)
      PROVE  \E L : Holds(L)'
  BY <1>1, <1>13, EraseThenReplaceHolds
<1>14. ASSUME NEW S \in SUBSET Live, Drop(S)
      PROVE  \E L : Holds(L)'
  BY <1>1, <1>14, DropHolds
<1>15. ASSUME DeleteDead
      PROVE  \E L : Holds(L)'
  BY <1>1, <1>15, DeleteDeadHolds
<1>16. ASSUME NEW p \in Phis \cap Live, NEW loop \in SUBSET Labels, NEW k \in Slots,
           NEW pre \in Labels, RetargetPhi(p, loop, k, pre)
      PROVE  \E L : Holds(L)'
  BY <1>1, <1>16, RetargetPhiHolds
<1>17. ASSUME NEW p \in Phis \cap Live, NEW q \in Phis, NEW loop \in SUBSET Labels, NEW pre \in Labels,
           NEW m \in 0 .. MaxOps \div 2, NEW n \in 0 .. MaxOps \div 2,
           NEW out \in [0 .. m - 1 -> Outside(p, loop)],
           NEW in \in [0 .. n - 1 -> Inside(p, loop)],
           SplitPhi(p, q, loop, pre, m, out, n, in)
      PROVE  \E L : Holds(L)'
  BY <1>1, <1>17, SplitPhiHolds
<1>18. ASSUME NEW u \in (Plain \cap Live) \ Roots, EraseUnused(u)
      PROVE  \E L : Holds(L)'
  BY <1>1, <1>18, EraseUnusedHolds
<1> QED
  BY <1>2, <1>3, <1>4, <1>5, <1>6, <1>7, <1>8, <1>9, <1>10, <1>11, <1>12, <1>13, <1>14, <1>15, <1>16, <1>17, <1>18
     DEF Next

\* No pass comes upon an instruction that was erased, in the blocks or behind the
\* instructions that were taken out of them: neither replaceAllUse before removeUseOps
\* nor the other order forgets a user, because the use list it walks also names the users
\* that stand in no block, and deleteMla's empty use list means that there is none.
THEOREM ErasedIsUnreachable ==
  ASSUME DistinctIncoming = TRUE
  PROVE  Spec => []NoDanglingUse
<1> DEFINE J == IInv /\ NoMissingRecord /\ NoDanglingUse
<1>1. Init => J
  <2>1. ASSUME Init PROVE NoDanglingUse
    <3>1. Live = {} /\ OperandClosed({})
      BY <2>1 DEF Init, Live, OperandClosed
    <3>2. Reach(Live) = {}
      BY <3>1 DEF Reach
    <3> QED
      BY <3>2 DEF NoDanglingUse
  <2> QED
    BY <2>1, InitIInv
<1>2. J /\ [Next]_vars => J'
  <2>1. ASSUME J, [Next]_vars PROVE IInv' /\ NoMissingRecord' /\ NoDanglingUse'
    <3>1. IInv' /\ NoMissingRecord'
      BY <2>1, NextPreserves
    <3>2. PICK K : Holds(K)
      BY <2>1, ReachHolds DEF IInv
    <3>3. CASE UNCHANGED vars
      <4>1. Holds(K)'
        BY <3>2, <3>3 DEF vars, Holds, Live, Kept
      <4> QED
        BY <3>1, <4>1, HoldsIsEnough DEF IInv
    <3>4. CASE Next
      BY <2>1, <3>1, <3>2, <3>4, NextHolds, HoldsIsEnough DEF IInv
    <3> QED
      BY <2>1, <3>1, <3>3, <3>4
  <2> QED
    BY <2>1
<1>3. J => NoDanglingUse
  OBVIOUS
<1> HIDE DEF J
<1> QED
  BY <1>1, <1>2, <1>3, PTL DEF Spec

\* A useful instruction that is no root has a record in its use list: were it without one,
\* the useful ones but for it would still be closed under operands.
LEMMA UsefulIsUsedByAgreement ==
  ASSUME TypeOK, ChainAgrees, NoDanglingUse
  PROVE  UsefulIsUsed
<1> SUFFICES ASSUME NEW u \in Useful \ Roots,
                    \A v \in Users, i \in Slots : ~(uses[<<u, v, i>>] > 0)
             PROVE  FALSE
  BY DEF UsefulIsUsed
<1> DEFINE S == Useful \ {u}
<1>1. /\ Live \cap Roots \subseteq Useful /\ Useful \in SUBSET Users
      /\ OperandClosed(Useful)
  BY ReachIsClosed DEF Useful, Live
<1>2. Useful \subseteq Kept
  <2>1. Useful \subseteq Reach(Live)
    BY DEF Useful, Reach
  <2> QED
    BY <2>1 DEF NoDanglingUse
<1>3. ASSUME NEW w \in S, NEW i \in 0 .. size[w] - 1, opnd[w][i] \in Users
      PROVE  opnd[w][i] \in S
  <2>1. opnd[w][i] \in Useful
    BY <1>1, <1>3 DEF OperandClosed
  <2>2. w \in Kept /\ w \in Users /\ i \in Slots /\ u \in Values
    BY <1>1, <1>2, UseChainAssumption DEF Slots, TypeOK, Values
  <2>3. uses[<<u, w, i>>] = IF Entitled(u, w, i) THEN 1 ELSE 0
    BY <2>2 DEF ChainAgrees
  <2>4. opnd[w][i] # u
    BY <2>2, <2>3 DEF Entitled
  <2> QED
    BY <2>1, <2>4
<1>4. S \in SUBSET Users /\ Live \cap Roots \subseteq S /\ OperandClosed(S)
  BY <1>1, <1>3 DEF OperandClosed
<1>5. Useful \subseteq S
  BY <1>4 DEF Useful, Reach
<1> QED
  BY <1>5

\* deleteDeadInstr's assertion never fails.
THEOREM UsefulStaysUsed ==
  ASSUME DistinctIncoming = TRUE
  PROVE  Spec => []UsefulIsUsed
<1>1. TypeOK /\ ChainAgrees /\ NoDanglingUse => UsefulIsUsed
  BY UsefulIsUsedByAgreement
<1>2. Spec => [](TypeOK /\ ChainAgrees /\ NoMissingRecord)
  BY ChainsStayConsistent
<1>3. Spec => []NoDanglingUse
  BY ErasedIsUnreachable
<1> QED
  BY <1>1, <1>2, <1>3, PTL
=============================================================================
