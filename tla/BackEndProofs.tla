---------------------------- MODULE BackEndProofs ---------------------------
(***************************************************************************)
(* Proofs about LiveIntervals and BackEnd, for any function that is as     *)
(* RmPhi leaves it, whatever the shape of its control flow: the interval   *)
(* of a value covers every instruction the value is live or written at,    *)
(* the intervals are what the scan expects, when the scan is done no two   *)
(* things that are needed at one instruction share a register, and no two  *)
(* that are on the stack at one point share a word of it.                  *)
(*                                                                         *)
(* The argument: the walk gives each block the next points, after a block  *)
(* that branches to it.  So a register is written at a smaller point than  *)
(* any it is live at, and the interval begins early enough.  It ends late  *)
(* enough because the joined loops are closed: where control goes back,    *)
(* from a point e to a point c, <<c, e>> is a loop; and a loop that ends   *)
(* between the two and begins before c passes it, so that there is a loop  *)
(* from where it begins to e.  Then this is put together with what         *)
(* LinearScanProofs says of the registers; and the last part is about the  *)
(* stack: what lies there at one point never meets, because two values in  *)
(* one slot had one virtual register, and the code put around instructions *)
(* changes nothing of where things lie.                                    *)
(***************************************************************************)
EXTENDS BackEnd, LinearScanProofs, FiniteSetTheorems, WellFoundedInduction

----------------------------------------------------------------------------
(* Numbers, finite sets and rounds.                                        *)

\* A set of numbers has a least one.
LEMMA LeastNumber ==
  ASSUME NEW S, S \subseteq Nat, S # {}
  PROVE  \E n \in S : \A k \in S : n <= k
<1>1. IsWellFoundedOn(OpToRel(<, Nat), Nat)
  BY NatLessThanWellFounded
<1>2. \E n \in S : \A k \in S : ~(<<k, n>> \in OpToRel(<, Nat))
  BY <1>1, WFMin
<1>3. PICK n \in S : \A k \in S : ~(k < n)
  BY <1>2 DEF OpToRel
<1>4. \A k \in S : n <= k
  BY <1>3
<1>5. QED
  BY <1>4

\* Induction: a set that has 0, and with each number the next, has them all.
LEMMA Induction ==
  ASSUME NEW S, 0 \in S, \A n \in Nat : n \in S => n + 1 \in S
  PROVE  \A n \in Nat : n \in S
<1> DEFINE T == {n \in Nat : n \notin S}
<1> SUFFICES ASSUME T # {} PROVE FALSE
  OBVIOUS
<1>1. PICK n \in T : \A k \in T : n <= k
  BY LeastNumber
<1>2. n # 0 /\ n - 1 \in Nat /\ ~(n <= n - 1) /\ n - 1 + 1 = n
  BY <1>1
<1>3. n - 1 \in S
  BY <1>1, <1>2
<1>4. QED
  BY <1>1, <1>2, <1>3

\* The first n rounds.
Started(step, x, n, h) ==
  /\ DOMAIN h = 0..n /\ h[0] = x
  /\ \A k \in 0..n : k # 0 => h[k] = step[h[k - 1]]

\* There are first rounds, however many,
LEMMA StartsExist ==
  ASSUME NEW step, NEW x
  PROVE  \A n \in Nat : \E h : Started(step, x, n, h)
<1> DEFINE T == {n \in Nat : \E h : Started(step, x, n, h)}
<1>1. 0 \in T
  <2>1. Started(step, x, 0, [k \in 0..0 |-> x])
    BY DEF Started
  <2>2. QED
    BY <2>1
<1>2. ASSUME NEW n \in Nat, n \in T
      PROVE  n + 1 \in T
  <2>1. PICK h : Started(step, x, n, h)
    BY <1>2
  <2> DEFINE g == [k \in 0..(n + 1) |-> IF k = n + 1 THEN step[h[n]] ELSE h[k]]
  <2>2. DOMAIN g = 0..(n + 1) /\ g[0] = x
    BY <2>1 DEF Started
  <2>3. ASSUME NEW k \in 0..(n + 1), k # 0
        PROVE  g[k] = step[g[k - 1]]
    <3>1. k - 1 \in 0..n /\ k - 1 \in 0..(n + 1) /\ k - 1 # n + 1
      BY <2>3
    <3>2. g[k - 1] = h[k - 1]
      BY <3>1
    <3>3. CASE k = n + 1
      <4>1. g[k] = step[h[n]] /\ k - 1 = n
        BY <3>3
      <4>2. QED
        BY <4>1, <3>2
    <3>4. CASE k # n + 1
      <4>1. k \in 0..n /\ g[k] = h[k]
        BY <3>4
      <4>2. h[k] = step[h[k - 1]]
        BY <4>1, <2>1, <2>3 DEF Started
      <4>3. QED
        BY <4>1, <4>2, <3>2
    <3>5. QED
      BY <3>3, <3>4
  <2>4. Started(step, x, n + 1, g)
    <3> HIDE DEF g
    <3>1. QED
      BY <2>2, <2>3 DEF Started
  <2> HIDE DEF g
  <2>5. QED
    BY <2>4
<1>3. \A n \in Nat : n \in T
  <2> HIDE DEF T
  <2>1. QED
    BY <1>1, <1>2, Induction
<1>4. QED
  BY <1>3

\* and those of two lengths agree where both are,
LEMMA StartsAgree ==
  ASSUME NEW step, NEW x, NEW m \in Nat, NEW n \in Nat, NEW h, NEW g,
         Started(step, x, m, h), Started(step, x, n, g)
  PROVE  \A k \in Nat : k <= m /\ k <= n => h[k] = g[k]
<1> DEFINE T == {k \in Nat : k <= m /\ k <= n => h[k] = g[k]}
<1>1. 0 \in T
  BY DEF Started
<1>2. ASSUME NEW k \in Nat, k \in T
      PROVE  k + 1 \in T
  <2> SUFFICES ASSUME k + 1 <= m, k + 1 <= n
               PROVE  h[k + 1] = g[k + 1]
    OBVIOUS
  <2>1. k + 1 \in 0..m /\ k + 1 \in 0..n /\ k + 1 # 0 /\ k + 1 - 1 = k /\ k <= m /\ k <= n
    OBVIOUS
  <2>2. h[k + 1] = step[h[k]] /\ g[k + 1] = step[g[k]]
    BY <2>1 DEF Started
  <2>3. QED
    BY <1>2, <2>1, <2>2
<1>3. \A k \in Nat : k \in T
  <2> HIDE DEF T
  <2>1. QED
    BY <1>1, <1>2, Induction
<1>4. QED
  BY <1>3

\* so that Rounds is what its recursion says:
LEMMA RoundsRecurs ==
  ASSUME NEW step, NEW x
  PROVE  Rounds(step, x) = [n \in Nat |-> IF n = 0 THEN x ELSE step[Rounds(step, x)[n - 1]]]
<1> DEFINE Start(n) == CHOOSE h : Started(step, x, n, h)
           H == [n \in Nat |-> Start(n)[n]]
<1>1. \A n \in Nat : Started(step, x, n, Start(n))
  BY StartsExist
<1> HIDE DEF Start
<1>2. ASSUME NEW n \in Nat
      PROVE  H[n] = IF n = 0 THEN x ELSE step[H[n - 1]]
  <2>1. CASE n = 0
    BY <1>1, <2>1 DEF Started
  <2>2. CASE n # 0
    <3>1. n - 1 \in Nat /\ n - 1 <= n /\ n - 1 <= n - 1 /\ n \in 0..n
      BY <2>2
    <3>2. Start(n)[n - 1] = Start(n - 1)[n - 1]
      BY <1>1, <3>1, StartsAgree
    <3>3. Start(n)[n] = step[Start(n)[n - 1]]
      BY <1>1, <2>2, <3>1 DEF Started
    <3>4. H[n] = Start(n)[n] /\ H[n - 1] = Start(n - 1)[n - 1]
      BY <3>1
    <3>5. QED
      BY <2>2, <3>2, <3>3, <3>4
  <2>3. QED
    BY <2>1, <2>2
<1>3. H = [n \in Nat |-> IF n = 0 THEN x ELSE step[H[n - 1]]]
  <2>1. H = [n \in Nat |-> H[n]]
    OBVIOUS
  <2> HIDE DEF H
  <2>2. QED
    BY <1>2, <2>1
<1> HIDE DEF H
<1>4. QED
  BY <1>3 DEF Rounds

\* x after no round, and one step more after each.
LEMMA RoundsShape ==
  ASSUME NEW S, NEW step \in [S -> S], NEW x \in S
  PROVE  /\ Rounds(step, x)[0] = x
         /\ \A n \in Nat : /\ Rounds(step, x)[n] \in S
                           /\ Rounds(step, x)[n + 1] = step[Rounds(step, x)[n]]
<1> DEFINE At_ == Rounds(step, x)
           T == {n \in Nat : At_[n] \in S}
<1>1. At_ = [n \in Nat |-> IF n = 0 THEN x ELSE step[At_[n - 1]]]
  BY RoundsRecurs
<1> HIDE DEF At_
<1>2. At_[0] = x
  BY <1>1
<1>3. \A n \in Nat : At_[n + 1] = step[At_[n]]
  <2> TAKE n \in Nat
  <2>1. n + 1 \in Nat /\ n + 1 # 0 /\ n + 1 - 1 = n
    OBVIOUS
  <2>2. At_[n + 1] = step[At_[n + 1 - 1]]
    BY <1>1, <2>1
  <2>3. QED
    BY <2>1, <2>2
<1>4. \A n \in Nat : n \in T
  <2>1. 0 \in T
    BY <1>2
  <2>2. \A n \in Nat : n \in T => n + 1 \in T
    BY <1>3
  <2> HIDE DEF T
  <2>3. QED
    BY <2>1, <2>2, Induction
<1>5. QED
  BY <1>2, <1>3, <1>4 DEF At_

\* The values of a function on a finite set are finitely many.
LEMMA FiniteImage ==
  ASSUME NEW S, IsFiniteSet(S), NEW f, DOMAIN f = S
  PROVE  IsFiniteSet({f[x] : x \in S})
<1> DEFINE g == [x \in S |-> f[x]]
           T == {f[x] : x \in S}
<1>1. g \in [S -> T] /\ \A t \in T : \E x \in S : g[x] = t
  OBVIOUS
<1>2. g \in Surjection(S, T)
  BY <1>1 DEF Surjection
<1>3. QED
  BY <1>2, FS_Surjection

\* A growing subset of a finite set, which stays as it is once a round has
\* added nothing, does not grow after as many rounds as the set has elements.
LEMMA Saturates ==
  ASSUME NEW T, IsFiniteSet(T), NEW G \in [Nat -> SUBSET T],
         \A n \in Nat : G[n] \subseteq G[n + 1],
         \A n \in Nat : G[n + 1] = G[n] => G[n + 2] = G[n + 1]
  PROVE  Cardinality(T) \in Nat /\ G[Cardinality(T) + 1] = G[Cardinality(T)]
<1> DEFINE P == {n \in Nat : G[n + 1] = G[n] \/ Cardinality(G[n + 1]) >= n + 1}
<1>1. ASSUME NEW n \in Nat
      PROVE  IsFiniteSet(G[n]) /\ Cardinality(G[n]) \in Nat /\ Cardinality(G[n]) <= Cardinality(T)
  BY FS_Subset, FS_CardinalityType
<1>2. ASSUME NEW n \in Nat, G[n + 1] # G[n]
      PROVE  Cardinality(G[n + 1]) >= Cardinality(G[n]) + 1
  <2>1. n + 1 \in Nat /\ G[n] \in SUBSET G[n + 1]
    OBVIOUS
  <2>2. Cardinality(G[n]) <= Cardinality(G[n + 1]) /\ Cardinality(G[n + 1]) # Cardinality(G[n])
    BY <1>1, <1>2, <2>1, FS_Subset
  <2>3. Cardinality(G[n]) \in Nat /\ Cardinality(G[n + 1]) \in Nat
    BY <1>1, <2>1
  <2>4. QED
    BY <2>2, <2>3
<1>3. 0 \in P
  <2>1. 0 + 1 = 1 /\ 1 \in Nat
    OBVIOUS
  <2>2. QED
    BY <1>1, <1>2, <2>1
<1>4. ASSUME NEW n \in Nat, n \in P
      PROVE  n + 1 \in P
  <2> SUFFICES ASSUME G[n + 1 + 1] # G[n + 1]
               PROVE  Cardinality(G[n + 1 + 1]) >= n + 1 + 1
    OBVIOUS
  <2>1. n + 1 \in Nat /\ n + 1 + 1 = n + 2 /\ n + 1 + 1 \in Nat
    OBVIOUS
  <2>2. G[n + 1] # G[n]
    BY <2>1
  <2>3. Cardinality(G[n + 1]) >= n + 1
    BY <1>4, <2>2
  <2>4. Cardinality(G[n + 1 + 1]) >= Cardinality(G[n + 1]) + 1
    BY <1>2, <2>1
  <2>5. QED
    BY <1>1, <2>1, <2>3, <2>4
<1>5. \A n \in Nat : n \in P
  <2> HIDE DEF P
  <2>1. QED
    BY <1>3, <1>4, Induction
<1>6. Cardinality(T) \in Nat
  BY FS_CardinalityType
<1>7. ~(Cardinality(G[Cardinality(T) + 1]) >= Cardinality(T) + 1)
  BY <1>1, <1>6
<1>8. QED
  BY <1>5, <1>6, <1>7

\* Max and Min return what their names say.
LEMMA GreatestOfBounded ==
  ASSUME NEW S, S \subseteq Int, S # {}, NEW b \in Int, \A x \in S : x <= b
  PROVE  Max(S) \in S /\ \A x \in S : x <= Max(S)
<1> DEFINE D == {b - x : x \in S}
<1>1. D \subseteq Nat /\ D # {}
  <2>1. \A x \in S : x \in Int /\ x <= b /\ b - x \in Nat
    OBVIOUS
  <2>2. PICK x \in S : TRUE
    OBVIOUS
  <2>3. b - x \in D
    BY <2>2
  <2>4. QED
    BY <2>1, <2>3
<1>2. PICK d \in D : \A k \in D : d <= k
  BY <1>1, LeastNumber
<1>3. PICK m \in S : d = b - m
  BY <1>2
<1>4. \A x \in S : m >= x
  BY <1>2, <1>3
<1>5. \E x \in S : \A y \in S : x >= y
  BY <1>4
<1>6. Max(S) \in S /\ \A x \in S : Max(S) >= x
  BY <1>5 DEF Max
<1>7. QED
  BY <1>6

LEMMA LeastOfNumbers ==
  ASSUME NEW S, S \subseteq Nat, S # {}
  PROVE  Min(S) \in S /\ \A x \in S : Min(S) <= x
BY LeastNumber DEF Min

----------------------------------------------------------------------------
(* Loops that cross.                                                       *)

Pairs == Int \X Int
Loop == {l \in Pairs : l[1] <= l[2]}

\* Loop a begins before loop b, ends within it, and so crosses it.
Passes(a, b) == a[1] < b[1] /\ b[1] <= a[2] /\ a[2] < b[2]

\* Of two loops that cross one passes the other, and that is what is joined.
LEMMA CrossingShape ==
  ASSUME NEW a \in Loop, NEW b \in Loop
  PROVE  /\ Crossing(a, b) <=> Passes(a, b) \/ Passes(b, a)
         /\ Passes(a, b) => Join(a, b) = <<a[1], b[2]>> /\ Join(b, a) = <<a[1], b[2]>>
BY DEF Crossing, Meet, Within, Passes, Join, Loop, Pairs

\* The state after some rounds of joining: which pairs there are.
JoinState == [all : SUBSET (Int \X Int), latest : SUBSET (Int \X Int)]

Joined(latest) == {Join(p[1], p[2]) : p \in {q \in latest \X latest : Crossing(q[1], q[2])}}

\* A round adds what the last one's loops make, and calls new what was not there.
LEMMA JoinCrossingStep ==
  ASSUME NEW w \in JoinState
  PROVE  /\ JoinCrossing \in [JoinState -> JoinState]
         /\ JoinCrossing[w].latest = Joined(w.latest) \ w.all
         /\ JoinCrossing[w].all = w.all \cup Joined(w.latest)
<1>1. ASSUME NEW v \in JoinState
      PROVE  Joined(v.latest) \subseteq Int \X Int
  BY DEF JoinState, Joined, Join
<1>2. JoinCrossing = [v \in JoinState |-> [all |-> v.all \cup (Joined(v.latest) \ v.all),
                                           latest |-> Joined(v.latest) \ v.all]]
  BY DEF JoinCrossing, JoinState, Joined
<1>3. ASSUME NEW v \in JoinState
      PROVE  [all |-> v.all \cup (Joined(v.latest) \ v.all), latest |-> Joined(v.latest) \ v.all] \in JoinState
  BY <1>1 DEF JoinState
<1>4. JoinCrossing \in [JoinState -> JoinState]
  BY <1>2, <1>3
<1>5. JoinCrossing[w] = [all |-> w.all \cup (Joined(w.latest) \ w.all), latest |-> Joined(w.latest) \ w.all]
  BY <1>2
<1>6. QED
  BY <1>4, <1>5

\* What a round makes: a loop for each that passes another.
LEMMA JoinedOf ==
  ASSUME NEW L \in SUBSET Loop
  PROVE  /\ \A a, b \in L : Passes(a, b) => <<a[1], b[2]>> \in Joined(L)
         /\ \A l \in Joined(L) : \E a, b \in L : Passes(a, b) /\ l = <<a[1], b[2]>>
<1>1. ASSUME NEW a \in L, NEW b \in L, Passes(a, b)
      PROVE  <<a[1], b[2]>> \in Joined(L)
  <2>1. <<a, b>> \in L \X L /\ Crossing(<<a, b>>[1], <<a, b>>[2])
    BY <1>1, CrossingShape
  <2>2. Join(<<a, b>>[1], <<a, b>>[2]) = <<a[1], b[2]>>
    BY <1>1, CrossingShape
  <2>3. QED
    BY <2>1, <2>2 DEF Joined
<1>2. ASSUME NEW l \in Joined(L)
      PROVE  \E a, b \in L : Passes(a, b) /\ l = <<a[1], b[2]>>
  <2>1. PICK p \in L \X L : Crossing(p[1], p[2]) /\ l = Join(p[1], p[2])
    BY DEF Joined
  <2>2. p[1] \in L /\ p[2] \in L
    BY <2>1
  <2>3. CASE Passes(p[1], p[2])
    BY <2>1, <2>2, <2>3, CrossingShape
  <2>4. CASE Passes(p[2], p[1])
    BY <2>1, <2>2, <2>4, CrossingShape
  <2>5. QED
    BY <2>1, <2>2, <2>3, <2>4, CrossingShape
<1>3. QED
  BY <1>1, <1>2

\* What holds after n rounds, w being what there is then.
JoinedSoFar(loops, w) ==
  /\ w \in JoinState /\ w.all \subseteq Loop /\ w.latest \subseteq w.all
  /\ loops \subseteq w.all /\ w.all \subseteq Spans(loops)

\* No round loses a loop or makes one that is no span.
LEMMA JoinedSoFarStep ==
  ASSUME NEW loops \in SUBSET Loop, NEW w, JoinedSoFar(loops, w)
  PROVE  JoinedSoFar(loops, JoinCrossing[w])
<1> DEFINE v == JoinCrossing[w]
<1>1. w \in JoinState /\ w.latest \in SUBSET Loop
  BY DEF JoinedSoFar
<1>2. v \in JoinState /\ v.latest = Joined(w.latest) \ w.all /\ v.all = w.all \cup Joined(w.latest)
  BY <1>1, JoinCrossingStep
<1>3. ASSUME NEW l \in Joined(w.latest)
      PROVE  l \in Loop /\ l \in Spans(loops)
  <2>1. PICK a \in w.latest, b \in w.latest : Passes(a, b) /\ l = <<a[1], b[2]>>
    BY <1>1, JoinedOf
  <2>2. a \in Loop /\ b \in Loop /\ a \in Spans(loops) /\ b \in Spans(loops)
    BY <1>1 DEF JoinedSoFar
  <2>3. l \in Loop
    BY <2>1, <2>2 DEF Loop, Pairs, Passes
  <2>4. PICK p \in loops \X loops : a = <<p[1][1], p[2][2]>>
    BY <2>2 DEF Spans
  <2>5. PICK q \in loops \X loops : b = <<q[1][1], q[2][2]>>
    BY <2>2 DEF Spans
  <2>6. <<p[1], q[2]>> \in loops \X loops /\ l = <<<<p[1], q[2]>>[1][1], <<p[1], q[2]>>[2][2]>>
    BY <2>1, <2>4, <2>5
  <2>7. l \in Spans(loops)
    BY <2>6 DEF Spans
  <2>8. QED
    BY <2>3, <2>7
<1> HIDE DEF v
<1>4. QED
  BY <1>2, <1>3 DEF JoinedSoFar, v

\* Any two pairs there are that pass each other are joined in the next round,
\* or were: though a round joins only what the last one made.
JoinsMade(now, next) ==
  \A a, b \in now.all : Passes(a, b) => <<a[1], b[2]>> \in next.all

\* What was made before is made.
LEMMA JoinsMadeStep ==
  ASSUME NEW loops \in SUBSET Loop, NEW u, NEW v, NEW w,
         JoinedSoFar(loops, u), v = JoinCrossing[u], w = JoinCrossing[v], JoinsMade(u, v)
  PROVE  JoinsMade(v, w)
<1>1. JoinedSoFar(loops, v) /\ JoinedSoFar(loops, w)
  BY JoinedSoFarStep
<1>2. /\ u.all \in SUBSET Loop /\ u.latest \in SUBSET Loop /\ u.latest \subseteq u.all
      /\ v.all \in SUBSET Loop /\ v.latest \in SUBSET Loop /\ v.latest \subseteq v.all
  BY <1>1 DEF JoinedSoFar
<1>3. v.latest = Joined(u.latest) \ u.all /\ v.all = u.all \cup v.latest
  BY JoinCrossingStep DEF JoinedSoFar
<1>4. w.all = v.all \cup Joined(v.latest)
  BY <1>1, JoinCrossingStep DEF JoinedSoFar
<1> SUFFICES ASSUME NEW a \in v.all, NEW b \in v.all, Passes(a, b)
             PROVE  <<a[1], b[2]>> \in w.all
  BY DEF JoinsMade
<1>5. a \in Loop /\ b \in Loop
  BY <1>2
<1>6. \A c, d \in u.all : Passes(c, d) => <<c[1], d[2]>> \in v.all
  BY DEF JoinsMade
<1>7. \A c, d \in v.latest : Passes(c, d) => <<c[1], d[2]>> \in w.all
  BY <1>2, <1>4, JoinedOf
<1>8. CASE a \in u.all /\ b \in u.all
  BY <1>4, <1>6, <1>8
<1>9. CASE a \in v.latest /\ b \in v.latest
  BY <1>7, <1>9
<1>10. CASE a \in v.latest /\ b \in u.all
  <2>1. PICK x \in u.latest, y \in u.latest : Passes(x, y) /\ a = <<x[1], y[2]>>
    BY <1>2, <1>3, <1>10, JoinedOf
  <2>2. x \in u.all /\ y \in u.all /\ x \in Loop /\ y \in Loop
    BY <1>2
  <2>3. a[1] = x[1] /\ a[2] = y[2]
    BY <2>1
  <2>4. CASE b[1] <= x[2]
    <3>1. Passes(x, b)
      BY <1>5, <2>1, <2>2, <2>3, <2>4 DEF Passes, Loop, Pairs
    <3>2. QED
      BY <1>4, <1>6, <1>10, <2>2, <2>3, <3>1
  <2>5. CASE x[2] < b[1]
    <3> DEFINE z == <<y[1], b[2]>>
    <3>1. Passes(y, b)
      BY <1>5, <2>1, <2>2, <2>3, <2>5 DEF Passes, Loop, Pairs
    <3>2. z \in v.all
      BY <1>6, <1>10, <2>2, <3>1
    <3>3. z[1] = y[1] /\ z[2] = b[2]
      OBVIOUS
    <3>4. CASE z \in v.latest
      <4>1. Passes(a, z)
        BY <1>5, <2>1, <2>2, <2>3, <2>5, <3>3 DEF Passes, Loop, Pairs
      <4>2. QED
        BY <1>7, <1>10, <3>3, <3>4, <4>1
    <3>5. CASE z \in u.all
      <4>1. Passes(x, z)
        BY <1>5, <2>1, <2>2, <2>3, <2>5, <3>3 DEF Passes, Loop, Pairs
      <4>2. QED
        BY <1>4, <1>6, <2>2, <2>3, <3>3, <3>5, <4>1
    <3>6. QED
      BY <1>3, <3>2, <3>4, <3>5
  <2>6. QED
    BY <1>5, <2>2, <2>4, <2>5 DEF Loop, Pairs
<1>11. CASE a \in u.all /\ b \in v.latest
  <2>1. PICK x \in u.latest, y \in u.latest : Passes(x, y) /\ b = <<x[1], y[2]>>
    BY <1>2, <1>3, <1>11, JoinedOf
  <2>2. x \in u.all /\ y \in u.all /\ x \in Loop /\ y \in Loop
    BY <1>2
  <2>3. b[1] = x[1] /\ b[2] = y[2]
    BY <2>1
  <2>4. CASE y[1] <= a[2]
    <3>1. Passes(a, y)
      BY <1>5, <2>1, <2>2, <2>3, <2>4 DEF Passes, Loop, Pairs
    <3>2. QED
      BY <1>4, <1>6, <1>11, <2>2, <2>3, <3>1
  <2>5. CASE a[2] < y[1]
    <3> DEFINE z == <<a[1], x[2]>>
    <3>1. Passes(a, x)
      BY <1>5, <2>1, <2>2, <2>3, <2>5 DEF Passes, Loop, Pairs
    <3>2. z \in v.all
      BY <1>6, <1>11, <2>2, <3>1
    <3>3. z[1] = a[1] /\ z[2] = x[2]
      OBVIOUS
    <3>4. CASE z \in v.latest
      <4>1. Passes(z, b)
        BY <1>5, <2>1, <2>2, <2>3, <2>5, <3>3 DEF Passes, Loop, Pairs
      <4>2. QED
        BY <1>7, <1>11, <3>3, <3>4, <4>1
    <3>5. CASE z \in u.all
      <4>1. Passes(z, y)
        BY <1>5, <2>1, <2>2, <2>3, <2>5, <3>3 DEF Passes, Loop, Pairs
      <4>2. QED
        BY <1>4, <1>6, <2>2, <2>3, <3>3, <3>5, <4>1
    <3>6. QED
      BY <1>3, <3>2, <3>4, <3>5
  <2>6. QED
    BY <1>5, <2>2, <2>4, <2>5 DEF Loop, Pairs
<1>12. QED
  BY <1>3, <1>8, <1>9, <1>10, <1>11

\* The joined loops are closed: what two of them make by passing each other is
\* one of them.
LEMMA JoinClosed ==
  ASSUME NEW loops \in SUBSET Loop, IsFiniteSet(loops)
  PROVE  /\ loops \subseteq WithJoined(loops)
         /\ WithJoined(loops) \subseteq Loop
         /\ WithJoined(loops) \subseteq Spans(loops)
         /\ \A a, b \in WithJoined(loops) : Passes(a, b) => <<a[1], b[2]>> \in WithJoined(loops)
<1> DEFINE start == [all |-> loops, latest |-> loops]
           At_ == Rounds(JoinCrossing, start)
           T == Spans(loops)
           G == [n \in Nat |-> At_[n].all]
<1>1. JoinedSoFar(loops, start)
  <2>1. start \in JoinState
    BY DEF JoinState, Loop, Pairs
  <2>2. \A l \in loops : <<l, l>> \in loops \X loops /\ l = <<<<l, l>>[1][1], <<l, l>>[2][2]>>
    BY DEF Loop, Pairs
  <2>3. loops \subseteq Spans(loops)
    BY <2>2 DEF Spans
  <2>4. QED
    BY <2>1, <2>3 DEF JoinedSoFar
<1>2. /\ At_[0] = start
      /\ \A n \in Nat : At_[n + 1] = JoinCrossing[At_[n]]
  <2>1. start \in JoinState
    BY <1>1 DEF JoinedSoFar
  <2>2. JoinCrossing \in [JoinState -> JoinState]
    BY <2>1, JoinCrossingStep
  <2> HIDE DEF start
  <2>3. QED
    BY <2>1, <2>2, RoundsShape
<1> HIDE DEF At_
<1>3. \A n \in Nat : JoinedSoFar(loops, At_[n])
  <2> DEFINE P == {n \in Nat : JoinedSoFar(loops, At_[n])}
  <2>1. 0 \in P
    BY <1>1, <1>2
  <2>2. \A n \in Nat : n \in P => n + 1 \in P
    BY <1>2, JoinedSoFarStep
  <2> HIDE DEF P
  <2>3. \A n \in Nat : n \in P
    BY <2>1, <2>2, Induction
  <2>4. QED
    BY <2>3 DEF P
<1>4. \A n \in Nat : JoinsMade(At_[n], At_[n + 1])
  <2> DEFINE P == {n \in Nat : JoinsMade(At_[n], At_[n + 1])}
  <2>1. 0 \in P
    <3>1. start \in JoinState /\ loops \in SUBSET Loop
      BY <1>1 DEF JoinedSoFar
    <3>2. At_[0 + 1] = JoinCrossing[start]
      BY <1>2
    <3>3. At_[0 + 1].all = loops \cup Joined(loops)
      BY <3>1, <3>2, JoinCrossingStep
    <3>4. QED
      BY <1>2, <3>1, <3>3, JoinedOf DEF JoinsMade
  <2>2. ASSUME NEW n \in Nat, n \in P
        PROVE  n + 1 \in P
    <3>1. n + 1 \in Nat
      OBVIOUS
    <3>2. At_[n + 1] = JoinCrossing[At_[n]] /\ At_[n + 1 + 1] = JoinCrossing[At_[n + 1]]
      BY <1>2, <3>1
    <3>3. JoinsMade(At_[n + 1], At_[n + 1 + 1])
      BY <1>3, <2>2, <3>2, JoinsMadeStep
    <3>4. QED
      BY <3>1, <3>3
  <2> HIDE DEF P
  <2>3. \A n \in Nat : n \in P
    BY <2>1, <2>2, Induction
  <2>4. QED
    BY <2>3 DEF P
<1>5. /\ \A n \in Nat : G[n] \subseteq G[n + 1]
      /\ \A n \in Nat : G[n + 1] = G[n] => G[n + 2] = G[n + 1]
  <2>1. ASSUME NEW n \in Nat
        PROVE  /\ At_[n + 1].latest = Joined(At_[n].latest) \ At_[n].all
               /\ At_[n + 1].all = At_[n].all \cup Joined(At_[n].latest)
    BY <1>2, <1>3, JoinCrossingStep DEF JoinedSoFar
  <2>2. ASSUME NEW n \in Nat, G[n + 1] = G[n]
        PROVE  G[n + 2] = G[n + 1]
    <3>1. n + 1 \in Nat /\ n + 2 \in Nat /\ n + 1 + 1 = n + 2
      OBVIOUS
    <3>2. At_[n + 1].latest = {}
      BY <2>1, <2>2, <3>1
    <3>3. Joined({}) = {}
      BY DEF Joined
    <3>4. At_[n + 2].all = At_[n + 1].all
      BY <2>1, <3>1, <3>2, <3>3
    <3>5. QED
      BY <3>1, <3>4
  <2>3. QED
    BY <2>1, <2>2
<1>6. G \in [Nat -> SUBSET T]
  BY <1>3 DEF JoinedSoFar
<1>7. IsFiniteSet(T)
  <2> DEFINE span == [p \in loops \X loops |-> <<p[1][1], p[2][2]>>]
  <2>1. IsFiniteSet(loops \X loops)
    BY FS_Product
  <2>2. T = {span[p] : p \in loops \X loops}
    BY DEF Spans
  <2>3. DOMAIN span = loops \X loops
    OBVIOUS
  <2> HIDE DEF span
  <2>4. QED
    BY <2>1, <2>2, <2>3, FiniteImage
<1>8. Cardinality(T) \in Nat /\ G[Cardinality(T) + 1] = G[Cardinality(T)]
  <2> HIDE DEF G, T
  <2>1. QED
    BY <1>5, <1>6, <1>7, Saturates
<1>9. WithJoined(loops) = At_[Cardinality(T)].all
  BY DEF WithJoined, At_
<1>10. At_[Cardinality(T) + 1].all = At_[Cardinality(T)].all
  BY <1>8
<1>11. JoinsMade(At_[Cardinality(T)], At_[Cardinality(T) + 1]) /\ JoinedSoFar(loops, At_[Cardinality(T)])
  BY <1>3, <1>4, <1>8
<1> HIDE DEF G, T
<1>12. QED
  BY <1>9, <1>10, <1>11 DEF JoinsMade, JoinedSoFar, T

----------------------------------------------------------------------------
(* The numbering of the blocks.                                            *)

\* A queue without its first element and with the sequence s after it.
Requeued(S, q, s) ==
  /\ Head(q) \in S /\ Tail(q) \in Seq(S) /\ Tail(q) \o s \in Seq(S)
  /\ \E k \in DOMAIN q : Head(q) = q[k]
  /\ \A k \in DOMAIN Tail(q) : \E j \in DOMAIN q : Tail(q)[k] = q[j]
  /\ \A k \in DOMAIN (Tail(q) \o s) : \/ \E j \in DOMAIN q : (Tail(q) \o s)[k] = q[j]
                                      \/ \E j \in DOMAIN s : (Tail(q) \o s)[k] = s[j]

\* Taking the first element of a queue and appending others to it.
LEMMA QueueShape ==
  ASSUME NEW S, NEW q \in Seq(S), q # <<>>, NEW s \in Seq(S)
  PROVE  Requeued(S, q, s)
<1>1. Head(q) \in S /\ 1 \in DOMAIN q /\ Head(q) = q[1] /\ Tail(q) \in Seq(S)
      /\ Len(Tail(q)) = Len(q) - 1 /\ Len(q) \in Nat
  OBVIOUS
<1>2. \A k \in DOMAIN Tail(q) : k + 1 \in DOMAIN q /\ Tail(q)[k] = q[k + 1]
  OBVIOUS
<1>3. ASSUME NEW t \in Seq(S)
      PROVE  /\ t \o s \in Seq(S)
             /\ \A k \in DOMAIN (t \o s) : \/ \E j \in DOMAIN t : (t \o s)[k] = t[j]
                                          \/ \E j \in DOMAIN s : (t \o s)[k] = s[j]
  <2>1. t \o s \in Seq(S) /\ Len(t \o s) = Len(t) + Len(s) /\ Len(t) \in Nat /\ Len(s) \in Nat
    OBVIOUS
  <2>2. \A k \in 1..(Len(t) + Len(s)) : (t \o s)[k] = IF k <= Len(t) THEN t[k] ELSE s[k - Len(t)]
    BY ConcatProperties
  <2>3. ASSUME NEW k \in DOMAIN (t \o s)
        PROVE  \/ \E j \in DOMAIN t : (t \o s)[k] = t[j]
               \/ \E j \in DOMAIN s : (t \o s)[k] = s[j]
    <3>1. k \in 1..(Len(t) + Len(s))
      BY <2>1
    <3>2. CASE k <= Len(t)
      <4>1. k \in DOMAIN t /\ (t \o s)[k] = t[k]
        BY <2>1, <2>2, <3>1, <3>2
      <4>2. QED
        BY <4>1
    <3>3. CASE ~(k <= Len(t))
      <4>1. k - Len(t) \in DOMAIN s /\ (t \o s)[k] = s[k - Len(t)]
        BY <2>1, <2>2, <3>1, <3>3
      <4>2. QED
        BY <4>1
    <3>4. QED
      BY <3>2, <3>3
  <2>4. QED
    BY <2>1, <2>3
<1>4. Head(q) \in S /\ Tail(q) \in Seq(S) /\ Tail(q) \o s \in Seq(S) /\ \E k \in DOMAIN q : Head(q) = q[k]
  BY <1>1, <1>3
<1>5. \A k \in DOMAIN Tail(q) : \E j \in DOMAIN q : Tail(q)[k] = q[j]
  BY <1>2
<1>6. ASSUME NEW k \in DOMAIN (Tail(q) \o s)
      PROVE  \/ \E j \in DOMAIN q : (Tail(q) \o s)[k] = q[j]
             \/ \E j \in DOMAIN s : (Tail(q) \o s)[k] = s[j]
  <2>1. \/ \E j \in DOMAIN Tail(q) : (Tail(q) \o s)[k] = Tail(q)[j]
        \/ \E j \in DOMAIN s : (Tail(q) \o s)[k] = s[j]
    BY <1>1, <1>3
  <2>2. QED
    BY <1>5, <2>1, ZenonT(30)
<1>7. QED
  BY <1>4, <1>5, <1>6, ZenonT(30) DEF Requeued

BlocksOf(f) == ToSet(f.list)

\* What AllocatorExpects says of the blocks.
LEMMA ExpectedShape ==
  ASSUME NEW f, AllocatorExpects(f)
  PROVE  /\ Entry(f) \in BlocksOf(f) /\ BlocksOf(f) \subseteq DOMAIN f.code
         /\ \A b \in DOMAIN f.code : Len(f.code[b]) \in Nat /\ f.code[b] \in Seq(AllInstrs(f))
                                     /\ DOMAIN f.code[b] = 1..Len(f.code[b]) /\ f.succ[b] \in Seq(DOMAIN f.code)
         /\ \A b \in BlocksOf(f) : 1 <= Len(f.code[b]) /\ ToSet(f.succ[b]) \subseteq BlocksOf(f)
<1>1. f.list \in Seq(DOMAIN f.code) /\ f.list # <<>> /\ f.code \in Seq(Seq(AllInstrs(f)))
      /\ f.succ \in [DOMAIN f.code -> Seq(DOMAIN f.code)]
  BY DEF AllocatorExpects
<1>2. Entry(f) \in BlocksOf(f)
  BY <1>1 DEF Entry, BlocksOf, ToSet
<1>3. BlocksOf(f) \subseteq DOMAIN f.code
  BY <1>1 DEF BlocksOf, ToSet
<1>4. \A b \in DOMAIN f.code : f.code[b] \in Seq(AllInstrs(f)) /\ f.succ[b] \in Seq(DOMAIN f.code)
  BY <1>1
<1>5. \A b \in DOMAIN f.code : Len(f.code[b]) \in Nat /\ DOMAIN f.code[b] = 1..Len(f.code[b])
  BY <1>4
<1>6. ASSUME NEW b \in BlocksOf(f)
      PROVE  1 <= Len(f.code[b]) /\ ToSet(f.succ[b]) \subseteq BlocksOf(f)
  <2>1. f.code[b] # <<>> /\ \A c \in ToSet(f.succ[b]) : c \in BlocksOf(f)
    BY DEF AllocatorExpects, BlocksOf
  <2>2. f.code[b] \in Seq(AllInstrs(f))
    BY <1>3, <1>4
  <2>3. QED
    BY <2>1, <2>2
<1>7. QED
  BY <1>2, <1>3, <1>4, <1>5, <1>6

\* The instructions of block b are numbered before those of block c.
Ahead(f, first, b, c) == first[b] + Len(f.code[b]) <= first[c]

\* A branch to block b leaves a block that has a number.
Found(f, first, b) == b = Entry(f) \/ \E p \in BlocksOf(f) : first[p] >= 0 /\ b \in ToSet(f.succ[p])

\* Block b has its number from the queue.
Numbered(f, w, b) ==
  /\ b \in BlocksOf(f) /\ w.first[b] + Len(f.code[b]) <= w.next
  /\ \/ b = Entry(f)
     \/ \E p \in BlocksOf(f) : 0 <= w.first[p] /\ w.first[p] < w.first[b] /\ b \in ToSet(f.succ[p])
  /\ \A c \in DOMAIN f.code : w.first[c] >= 0 /\ b # c => Ahead(f, w.first, b, c) \/ Ahead(f, w.first, c, b)

WalkOK(f, w) ==
  /\ w \in Walks(f)
  /\ \A k \in DOMAIN w.queue : w.queue[k] \in BlocksOf(f) /\ Found(f, w.first, w.queue[k])
  /\ \A b \in DOMAIN f.code : w.first[b] >= 0 => Numbered(f, w, b)

\* A visit makes a state of the walk of one.
LEMMA VisitShape ==
  ASSUME NEW f, AllocatorExpects(f)
  PROVE  Visit(f) \in [Walks(f) -> Walks(f)]
<1> SUFFICES ASSUME NEW w \in Walks(f)
             PROVE  Visit(f)[w] \in Walks(f)
  BY DEF Visit
<1>1. w.queue \in Seq(DOMAIN f.code) /\ w.first \in [DOMAIN f.code -> Int] /\ w.next \in Nat
  BY DEF Walks
<1>2. w = [queue |-> w.queue, first |-> w.first, next |-> w.next]
  BY DEF Walks
<1>3. CASE w.queue = <<>>
  BY <1>3 DEF Visit
<1>4. CASE w.queue # <<>>
  <2> DEFINE b == Head(w.queue)
  <2>1. b \in DOMAIN f.code /\ Tail(w.queue) \in Seq(DOMAIN f.code)
    BY <1>1, <1>4, QueueShape DEF Requeued
  <2>2. Len(f.code[b]) \in Nat /\ f.succ[b] \in Seq(DOMAIN f.code)
    BY <2>1, ExpectedShape
  <2>3. CASE w.first[b] >= 0
    <3>1. Visit(f)[w] = [w EXCEPT !.queue = Tail(w.queue)]
      BY <1>4, <2>3 DEF Visit
    <3>2. QED
      BY <1>1, <1>2, <2>1, <3>1 DEF Walks
  <2>4. CASE ~(w.first[b] >= 0)
    <3>1. Visit(f)[w] = [queue |-> Tail(w.queue) \o f.succ[b],
                         first |-> [w.first EXCEPT ![b] = w.next],
                         next  |-> w.next + Len(f.code[b])]
      BY <1>4, <2>4 DEF Visit
    <3>2. Tail(w.queue) \o f.succ[b] \in Seq(DOMAIN f.code)
      <4>1. Requeued(DOMAIN f.code, w.queue, f.succ[b])
        BY <1>1, <1>4, <2>2, QueueShape
      <4>2. QED
        BY <4>1 DEF Requeued
    <3> HIDE DEF b
    <3>3. [w.first EXCEPT ![b] = w.next] \in [DOMAIN f.code -> Int] /\ w.next + Len(f.code[b]) \in Nat
      BY <1>1, <2>1, <2>2
    <3>4. QED
      BY <3>1, <3>2, <3>3 DEF Walks
  <2>5. QED
    BY <2>3, <2>4
<1>5. QED
  BY <1>3, <1>4

\* A visit numbers at most one block, behind all that have a number: one it came
\* to by a branch from a block with a smaller number.
LEMMA WalkStep ==
  ASSUME NEW f, AllocatorExpects(f), NEW w, WalkOK(f, w)
  PROVE  WalkOK(f, Visit(f)[w])
<1> DEFINE v == Visit(f)[w]
<1>1. w \in Walks(f) /\ v \in Walks(f)
  BY VisitShape DEF WalkOK
<1>2. w.queue \in Seq(DOMAIN f.code) /\ w.first \in [DOMAIN f.code -> Int] /\ w.next \in Nat
  BY <1>1 DEF Walks
<1>3. CASE w.queue = <<>>
  <2>1. v = w
    BY <1>1, <1>3 DEF Visit
  <2>2. QED
    BY <2>1
<1>4. CASE w.queue # <<>>
  <2> DEFINE b == Head(w.queue)
  <2>1. /\ \E k \in DOMAIN w.queue : b = w.queue[k]
        /\ \A k \in DOMAIN Tail(w.queue) : \E j \in DOMAIN w.queue : Tail(w.queue)[k] = w.queue[j]
    BY <1>2, <1>4, QueueShape DEF Requeued
  <2>2. b \in BlocksOf(f) /\ Found(f, w.first, b) /\ b \in DOMAIN f.code
    BY <2>1, ExpectedShape DEF WalkOK
  <2>3. Len(f.code[b]) \in Nat /\ 1 <= Len(f.code[b]) /\ f.succ[b] \in Seq(DOMAIN f.code)
        /\ ToSet(f.succ[b]) \subseteq BlocksOf(f)
    BY <2>2, ExpectedShape
  <2>4. CASE w.first[b] >= 0
    <3>1. v = [w EXCEPT !.queue = Tail(w.queue)]
      BY <1>1, <1>4, <2>4 DEF Visit
    <3>2. v.queue = Tail(w.queue) /\ v.first = w.first /\ v.next = w.next
      BY <1>1, <3>1 DEF Walks
    <3> HIDE DEF v
    <3>3. \A k \in DOMAIN v.queue : v.queue[k] \in BlocksOf(f) /\ Found(f, v.first, v.queue[k])
      BY <2>1, <3>2 DEF WalkOK
    <3>4. \A c \in DOMAIN f.code : v.first[c] >= 0 => Numbered(f, v, c)
      BY <3>2 DEF WalkOK, Numbered
    <3>5. QED
      BY <1>1, <3>3, <3>4 DEF WalkOK, v
  <2>5. CASE ~(w.first[b] >= 0)
    <3>1. v = [queue |-> Tail(w.queue) \o f.succ[b],
               first |-> [w.first EXCEPT ![b] = w.next],
               next  |-> w.next + Len(f.code[b])]
      BY <1>1, <1>4, <2>5 DEF Visit
    <3> HIDE DEF v, b
    <3>2. v.queue = Tail(w.queue) \o f.succ[b] /\ v.first = [w.first EXCEPT ![b] = w.next]
          /\ v.next = w.next + Len(f.code[b])
      BY <3>1
    <3>3. v.first[b] = w.next /\ \A c \in DOMAIN f.code : c # b => v.first[c] = w.first[c]
      BY <1>2, <2>2, <3>2
    <3>4. \A p \in DOMAIN f.code : w.first[p] >= 0 => p # b /\ v.first[p] = w.first[p]
      BY <2>5, <3>3
    <3>5. \A p \in DOMAIN f.code : v.first[p] >= 0 => p = b \/ w.first[p] >= 0
      BY <3>3
    <3>6. \A c : Found(f, w.first, c) => Found(f, v.first, c)
      BY <3>4, ExpectedShape DEF Found
    <3>7. ASSUME NEW k \in DOMAIN v.queue
          PROVE  v.queue[k] \in BlocksOf(f) /\ Found(f, v.first, v.queue[k])
      <4>1. Requeued(DOMAIN f.code, w.queue, f.succ[b])
        BY <1>2, <1>4, <2>3, QueueShape
      <4>5. \/ \E j \in DOMAIN w.queue : v.queue[k] = w.queue[j]
            \/ \E j \in DOMAIN f.succ[b] : v.queue[k] = f.succ[b][j]
        BY <3>2, <4>1 DEF Requeued
      <4>2. CASE \E j \in DOMAIN w.queue : v.queue[k] = w.queue[j]
        BY <3>6, <4>2 DEF WalkOK
      <4>3. CASE \E j \in DOMAIN f.succ[b] : v.queue[k] = f.succ[b][j]
        <5>1. v.queue[k] \in ToSet(f.succ[b])
          BY <4>3 DEF ToSet
        <5>2. v.first[b] >= 0
          BY <1>2, <3>3
        <5>3. QED
          BY <2>2, <2>3, <5>1, <5>2 DEF Found
      <4>4. QED
        BY <4>2, <4>3, <4>5
    <3>8. ASSUME NEW c \in DOMAIN f.code, w.first[c] >= 0
          PROVE  /\ c \in BlocksOf(f) /\ Len(f.code[c]) \in Nat /\ w.first[c] + Len(f.code[c]) <= w.next
                 /\ Ahead(f, v.first, c, b) /\ v.first[c] + Len(f.code[c]) <= v.next
                 /\ v.first[c] = w.first[c] /\ v.first[c] < v.first[b]
      <4>1. c \in BlocksOf(f) /\ w.first[c] + Len(f.code[c]) <= w.next
        BY <3>8 DEF WalkOK, Numbered
      <4>2. Len(f.code[c]) \in Nat /\ 1 <= Len(f.code[c]) /\ v.first[c] = w.first[c] /\ w.first[c] \in Int
        BY <1>2, <3>4, <3>8, <4>1, ExpectedShape
      <4>3. QED
        BY <1>2, <2>3, <3>2, <3>3, <4>1, <4>2 DEF Ahead
    <3>9. Numbered(f, v, b)
      <4>1. v.first[b] + Len(f.code[b]) <= v.next
        BY <1>2, <2>3, <3>2, <3>3
      <4>2. b = Entry(f) \/ \E p \in BlocksOf(f) : 0 <= v.first[p] /\ v.first[p] < v.first[b] /\ b \in ToSet(f.succ[p])
        <5> SUFFICES ASSUME b # Entry(f)
                     PROVE  \E p \in BlocksOf(f) : 0 <= v.first[p] /\ v.first[p] < v.first[b] /\ b \in ToSet(f.succ[p])
          OBVIOUS
        <5>1. PICK p \in BlocksOf(f) : w.first[p] >= 0 /\ b \in ToSet(f.succ[p])
          BY <2>2 DEF Found
        <5>2. p \in DOMAIN f.code /\ w.first[p] \in Int
          BY <1>2, <5>1, ExpectedShape
        <5>3. v.first[p] = w.first[p] /\ v.first[p] < v.first[b]
          BY <3>8, <5>1, <5>2
        <5>4. QED
          BY <5>1, <5>2, <5>3
      <4>3. \A c \in DOMAIN f.code : v.first[c] >= 0 /\ b # c => Ahead(f, v.first, b, c) \/ Ahead(f, v.first, c, b)
        BY <3>5, <3>8
      <4>4. QED
        BY <2>2, <4>1, <4>2, <4>3 DEF Numbered
    <3>10. ASSUME NEW c \in DOMAIN f.code, w.first[c] >= 0
           PROVE  Numbered(f, v, c)
      <4>1. Numbered(f, w, c) /\ v.first[c] = w.first[c]
        BY <3>4, <3>10 DEF WalkOK
      <4>2. c = Entry(f) \/ \E p \in BlocksOf(f) : 0 <= v.first[p] /\ v.first[p] < v.first[c] /\ c \in ToSet(f.succ[p])
        <5> SUFFICES ASSUME c # Entry(f)
                     PROVE  \E p \in BlocksOf(f) : 0 <= v.first[p] /\ v.first[p] < v.first[c] /\ c \in ToSet(f.succ[p])
          OBVIOUS
        <5>1. PICK p \in BlocksOf(f) : 0 <= w.first[p] /\ w.first[p] < w.first[c] /\ c \in ToSet(f.succ[p])
          BY <4>1 DEF Numbered
        <5>2. p \in DOMAIN f.code /\ w.first[p] \in Int
          BY <1>2, <5>1, ExpectedShape
        <5>3. v.first[p] = w.first[p]
          BY <3>4, <5>1, <5>2
        <5>4. QED
          BY <4>1, <5>1, <5>3
      <4>3. ASSUME NEW d \in DOMAIN f.code, v.first[d] >= 0, c # d
            PROVE  Ahead(f, v.first, c, d) \/ Ahead(f, v.first, d, c)
        <5>1. CASE d = b
          BY <3>8, <3>10, <5>1
        <5>2. CASE d # b
          <6>1. w.first[d] >= 0 /\ v.first[d] = w.first[d]
            BY <3>3, <4>3, <5>2
          <6>2. Ahead(f, w.first, c, d) \/ Ahead(f, w.first, d, c)
            BY <4>1, <4>3, <6>1 DEF Numbered
          <6>3. QED
            BY <4>1, <6>1, <6>2 DEF Ahead
        <5>3. QED
          BY <5>1, <5>2
      <4>4. QED
        BY <3>8, <3>10, <4>2, <4>3 DEF Numbered
    <3>11. QED
      BY <1>1, <3>5, <3>7, <3>9, <3>10 DEF WalkOK, v
  <2>6. QED
    BY <2>4, <2>5
<1>5. QED
  BY <1>3, <1>4

\* The walk begins with no block numbered and the entry in the queue.
LEMMA WalkStart ==
  ASSUME NEW f, AllocatorExpects(f), NEW w,
         w = [queue |-> <<Entry(f)>>, first |-> [b \in DOMAIN f.code |-> -1], next |-> 0]
  PROVE  WalkOK(f, w)
<1>1. Entry(f) \in BlocksOf(f) /\ Entry(f) \in DOMAIN f.code
  BY ExpectedShape
<1>2. w \in Walks(f)
  <2>1. \A S : \A x \in S : <<x>> \in Seq(S)
    OBVIOUS
  <2>2. [b \in DOMAIN f.code |-> -1] \in [DOMAIN f.code -> Int] /\ 0 \in Nat
    OBVIOUS
  <2>3. QED
    BY <1>1, <2>1, <2>2 DEF Walks
<1>3. w.queue = <<Entry(f)>> /\ \A b \in DOMAIN f.code : w.first[b] = -1
  OBVIOUS
<1>4. \A k \in DOMAIN w.queue : w.queue[k] = Entry(f)
  BY <1>3
<1>5. \A k \in DOMAIN w.queue : w.queue[k] \in BlocksOf(f) /\ Found(f, w.first, w.queue[k])
  BY <1>1, <1>4 DEF Found
<1>6. \A b \in DOMAIN f.code : w.first[b] >= 0 => Numbered(f, w, b)
  BY <1>3
<1>7. QED
  BY <1>2, <1>5, <1>6 DEF WalkOK

\* There are finitely many edges.
LEMMA EdgesFinite ==
  ASSUME NEW f, AllocatorExpects(f)
  PROVE  Cardinality(Edges(f)) \in Nat
<1>1. f.code \in Seq(Seq(AllInstrs(f))) /\ f.succ \in [DOMAIN f.code -> Seq(DOMAIN f.code)]
  BY DEF AllocatorExpects
<1>2. IsFiniteSet(DOMAIN f.code)
  <2>1. DOMAIN f.code = 1..Len(f.code) /\ Len(f.code) \in Nat
    BY <1>1
  <2>2. QED
    BY <2>1, FS_Interval
<1>3. ASSUME NEW b \in DOMAIN f.code
      PROVE  IsFiniteSet({<<b, k>> : k \in DOMAIN f.succ[b]})
  <2>1. f.succ[b] \in Seq(DOMAIN f.code)
    BY <1>1
  <2>2. DOMAIN f.succ[b] = 1..Len(f.succ[b]) /\ Len(f.succ[b]) \in Nat
    BY <2>1
  <2>3. IsFiniteSet(DOMAIN f.succ[b])
    BY <2>2, FS_Interval
  <2> DEFINE g == [k \in DOMAIN f.succ[b] |-> <<b, k>>]
  <2>4. DOMAIN g = DOMAIN f.succ[b] /\ {g[k] : k \in DOMAIN f.succ[b]} = {<<b, k>> : k \in DOMAIN f.succ[b]}
    OBVIOUS
  <2> HIDE DEF g
  <2>5. QED
    BY <2>3, <2>4, FiniteImage
<1> DEFINE h == [b \in DOMAIN f.code |-> {<<b, k>> : k \in DOMAIN f.succ[b]}]
<1>4. DOMAIN h = DOMAIN f.code /\ UNION {h[b] : b \in DOMAIN f.code} = Edges(f)
  BY DEF Edges
<1>5. \A b \in DOMAIN f.code : IsFiniteSet(h[b])
  BY <1>3
<1> HIDE DEF h
<1>6. IsFiniteSet({h[b] : b \in DOMAIN f.code})
  BY <1>2, <1>4, FiniteImage
<1>7. IsFiniteSet(Edges(f))
  BY <1>4, <1>5, <1>6, FS_UNION
<1>8. QED
  BY <1>7, FS_CardinalityType

\* What the numbering leaves: the blocks one after the other, each after one
\* that branches to it.
InOrder(f, first) ==
  /\ first \in [DOMAIN f.code -> Int]
  /\ \A b \in BlocksOf(f) :
       /\ 0 <= first[b]
       /\ b # Entry(f) => \E p \in BlocksOf(f) : first[p] < first[b] /\ b \in ToSet(f.succ[p])
       /\ \A c \in BlocksOf(f) : b # c => Ahead(f, first, b, c) \/ Ahead(f, first, c, b)
  /\ \E n \in Nat : \A b \in BlocksOf(f) : first[b] + Len(f.code[b]) <= n

\* The numbering leaves every block of the list in order.
LEMMA FirstPointsInOrder ==
  ASSUME NEW f, AllocatorExpects(f)
  PROVE  InOrder(f, FirstPoints(f))
<1> DEFINE start == [queue |-> <<Entry(f)>>, first |-> [b \in DOMAIN f.code |-> -1], next |-> 0]
           At_ == Rounds(Visit(f), start)
           T == {n \in Nat : WalkOK(f, At_[n])}
           m == 1 + Cardinality(Edges(f))
<1>1. WalkOK(f, start)
  BY WalkStart
<1>2. start \in Walks(f)
  BY <1>1 DEF WalkOK
<1>3. At_[0] = start /\ \A n \in Nat : At_[n + 1] = Visit(f)[At_[n]]
  <2> HIDE DEF start
  <2>1. QED
    BY <1>2, VisitShape, RoundsShape
<1>4. FirstPoints(f) = At_[m].first
  BY DEF FirstPoints
<1>5. m \in Nat
  BY EdgesFinite
<1> HIDE DEF start, At_, m
<1>6. 0 \in T
  BY <1>1, <1>3
<1>7. \A n \in Nat : n \in T => n + 1 \in T
  BY <1>3, WalkStep
<1>8. m \in T
  <2> HIDE DEF T
  <2>1. QED
    BY <1>5, <1>6, <1>7, Induction
<1> DEFINE w == At_[m]
<1>9. WalkOK(f, w) /\ w \in Walks(f) /\ FirstPoints(f) = w.first
  BY <1>4, <1>8 DEF WalkOK
<1> HIDE DEF w
<1>10. w.first \in [DOMAIN f.code -> Int] /\ w.next \in Nat
  BY <1>9 DEF Walks
<1>11. ASSUME NEW b \in BlocksOf(f)
       PROVE  0 <= w.first[b] /\ Numbered(f, w, b)
  <2>1. w.first[b] >= 0 /\ b \in DOMAIN f.code /\ w.first[b] \in Int
    BY <1>9, <1>10, ExpectedShape DEF AllocatorExpects, BlocksOf
  <2>2. QED
    BY <1>9, <2>1 DEF WalkOK
<1>12. ASSUME NEW b \in BlocksOf(f), NEW c \in BlocksOf(f), b # c
       PROVE  Ahead(f, w.first, b, c) \/ Ahead(f, w.first, c, b)
  <2>1. w.first[c] >= 0 /\ c \in DOMAIN f.code
    BY <1>10, <1>11, ExpectedShape
  <2>2. QED
    BY <1>11, <1>12, <2>1 DEF Numbered
<1>13. \A b \in BlocksOf(f) : w.first[b] + Len(f.code[b]) <= w.next
  BY <1>11 DEF Numbered
<1>14. \A b \in BlocksOf(f) : b # Entry(f) => \E p \in BlocksOf(f) : w.first[p] < w.first[b] /\ b \in ToSet(f.succ[p])
  BY <1>11 DEF Numbered
<1>15. QED
  BY <1>9, <1>10, <1>11, <1>12, <1>13, <1>14 DEF InOrder

----------------------------------------------------------------------------
(* The loops of a function.                                                *)

\* The loops of a function, joined.
LEMMA LoopSetClosed ==
  ASSUME NEW f, AllocatorExpects(f), NEW first, InOrder(f, first)
  PROVE  /\ Loops(f, first) \subseteq LoopSet(f, first)
         /\ LoopSet(f, first) \subseteq Loop
         /\ \E n \in Nat : \A l \in LoopSet(f, first) : l[2] <= n
         /\ \A a, b \in LoopSet(f, first) : Passes(a, b) => <<a[1], b[2]>> \in LoopSet(f, first)
<1> DEFINE loops == Loops(f, first)
           B == BlocksOf(f)
           backward == {x \in B \X B : x[1] \in ToSet(f.pre[x[2]]) /\ first[x[1]] >= first[x[2]]}
           g == [e \in backward |-> <<first[e[2]], LastPoint(f, first, e[1])>>]
<1>1. IsFiniteSet(B)
  <2>1. f.list \in Seq(DOMAIN f.code)
    BY DEF AllocatorExpects
  <2>2. DOMAIN f.list = 1..Len(f.list) /\ Len(f.list) \in Nat
    BY <2>1
  <2>3. IsFiniteSet(DOMAIN f.list)
    BY <2>2, FS_Interval
  <2>4. QED
    BY <2>3, FiniteImage DEF BlocksOf, ToSet
<1>2. loops = {g[e] : e \in backward} /\ DOMAIN g = backward
  BY DEF Loops, BlocksOf
<1>3. IsFiniteSet(backward)
  BY <1>1, FS_Product, FS_Subset
<1>4. PICK n \in Nat : \A b \in B : first[b] + Len(f.code[b]) <= n
  BY DEF InOrder
<1>5. ASSUME NEW e \in backward
      PROVE  g[e] \in Loop /\ g[e][2] <= n
  <2>1. e[1] \in B /\ e[2] \in B /\ first[e[1]] >= first[e[2]]
    OBVIOUS
  <2>2. first[e[1]] \in Int /\ first[e[2]] \in Int /\ Len(f.code[e[1]]) \in Nat /\ 1 <= Len(f.code[e[1]])
    BY <2>1, ExpectedShape DEF InOrder
  <2>3. g[e] = <<first[e[2]], first[e[1]] + Len(f.code[e[1]]) - 1>>
    BY DEF LastPoint
  <2>4. first[e[1]] + Len(f.code[e[1]]) <= n
    BY <1>4, <2>1
  <2> HIDE DEF g, B, backward
  <2> DEFINE p == first[e[1]]
             q == first[e[2]]
             k == Len(f.code[e[1]])
  <2>7. p \in Int /\ q \in Int /\ k \in Nat /\ 1 <= k /\ p >= q /\ p + k <= n
    BY <2>1, <2>2, <2>4
  <2> HIDE DEF p, q, k
  <2>8. q <= p + k - 1 /\ p + k - 1 \in Int /\ p + k - 1 <= n
    BY <2>7
  <2>5. first[e[2]] <= first[e[1]] + Len(f.code[e[1]]) - 1
        /\ first[e[1]] + Len(f.code[e[1]]) - 1 \in Int /\ first[e[1]] + Len(f.code[e[1]]) - 1 <= n
    BY <2>8 DEF p, q, k
  <2>6. QED
    BY <2>2, <2>3, <2>5 DEF Loop, Pairs
<1> HIDE DEF g, backward, B
<1>6. IsFiniteSet(loops)
  BY <1>2, <1>3, FiniteImage
<1>7. loops \in SUBSET Loop /\ \A l \in loops : l[2] <= n
  BY <1>2, <1>5
<1> HIDE DEF loops
<1>8. /\ loops \subseteq WithJoined(loops)
      /\ WithJoined(loops) \subseteq Loop
      /\ WithJoined(loops) \subseteq Spans(loops)
      /\ \A a, b \in WithJoined(loops) : Passes(a, b) => <<a[1], b[2]>> \in WithJoined(loops)
  BY <1>6, <1>7, JoinClosed
<1>9. \A l \in WithJoined(loops) : l[2] <= n
  BY <1>7, <1>8 DEF Spans
<1>10. LoopSet(f, first) = WithJoined(loops)
  BY DEF LoopSet, loops
<1>11. QED
  BY <1>8, <1>9, <1>10 DEF loops

----------------------------------------------------------------------------
(* Liveness.                                                               *)

\* What a site is, and where control goes from it.
LEMMA SitesShape ==
  ASSUME NEW f, AllocatorExpects(f)
  PROVE  /\ IsFiniteSet(Sites(f))
         /\ \A b \in BlocksOf(f) : \A k \in DOMAIN f.code[b] : <<b, k>> \in Sites(f)
         /\ \A s \in Sites(f) : /\ s = <<s[1], s[2]>> /\ s[1] \in BlocksOf(f) /\ s[2] \in DOMAIN f.code[s[1]]
                                /\ SiteOf(f, s) \in AllInstrs(f)
                                /\ After(f, s) \subseteq Sites(f)
                                /\ Reads(f, s) \subseteq Nat /\ Writes(f, s) \subseteq Nat
<1> DEFINE B == BlocksOf(f)
           In_(b) == {<<b, k>> : k \in DOMAIN f.code[b]}
           h == [b \in B |-> In_(b)]
<1>1. Sites(f) = UNION {In_(b) : b \in B}
  BY DEF Sites, BlocksOf
<1>2. IsFiniteSet(B)
  <2>1. f.list \in Seq(DOMAIN f.code)
    BY DEF AllocatorExpects
  <2>2. DOMAIN f.list = 1..Len(f.list) /\ Len(f.list) \in Nat
    BY <2>1
  <2>3. IsFiniteSet(DOMAIN f.list)
    BY <2>2, FS_Interval
  <2>4. QED
    BY <2>3, FiniteImage DEF BlocksOf, ToSet
<1>3. ASSUME NEW b \in B
      PROVE  IsFiniteSet(In_(b))
  <2> DEFINE g == [k \in DOMAIN f.code[b] |-> <<b, k>>]
  <2>1. DOMAIN g = DOMAIN f.code[b] /\ {g[k] : k \in DOMAIN f.code[b]} = In_(b)
    OBVIOUS
  <2>2. DOMAIN f.code[b] = 1..Len(f.code[b]) /\ Len(f.code[b]) \in Nat
    <3>1. b \in DOMAIN f.code
      BY ExpectedShape
    <3>2. QED
      BY <3>1, ExpectedShape
  <2>3. IsFiniteSet(DOMAIN f.code[b])
    <3>1. PICK m \in Nat : DOMAIN f.code[b] = 1..m
      BY <2>2
    <3>2. QED
      BY <3>1, FS_Interval
  <2> HIDE DEF g
  <2>4. QED
    BY <2>1, <2>3, FiniteImage
<1>4. IsFiniteSet(Sites(f))
  <2>1. DOMAIN h = B /\ {h[b] : b \in B} = {In_(b) : b \in B} /\ \A b \in B : h[b] = In_(b)
    OBVIOUS
  <2> HIDE DEF h, In_
  <2>2. IsFiniteSet({h[b] : b \in B})
    BY <1>2, <2>1, FiniteImage
  <2>3. QED
    BY <1>1, <1>3, <2>1, <2>2, FS_UNION
<1>5. \A b \in B : \A k \in DOMAIN f.code[b] : <<b, k>> \in Sites(f)
  BY <1>1
<1>6. ASSUME NEW s \in Sites(f)
      PROVE  /\ s = <<s[1], s[2]>> /\ s[1] \in B /\ s[2] \in DOMAIN f.code[s[1]]
             /\ SiteOf(f, s) \in AllInstrs(f)
             /\ After(f, s) \subseteq Sites(f)
             /\ Reads(f, s) \subseteq Nat /\ Writes(f, s) \subseteq Nat
  <2>1. PICK b \in B : \E k \in DOMAIN f.code[b] : s = <<b, k>>
    BY <1>1
  <2>2. PICK k \in DOMAIN f.code[b] : s = <<b, k>>
    BY <2>1
  <2>3. s[1] = b /\ s[2] = k
    BY <2>2
  <2>4. b \in DOMAIN f.code
    BY ExpectedShape
  <2>5. SiteOf(f, s) \in AllInstrs(f)
    BY <2>3, <2>4 DEF SiteOf, AllInstrs, ToSet
  <2>6. After(f, s) \subseteq Sites(f)
    <3>1. DOMAIN f.code[b] = 1..Len(f.code[b]) /\ Len(f.code[b]) \in Nat
      BY <2>4, ExpectedShape
    <3>2. CASE k < Len(f.code[b])
      <4>1. After(f, s) = {<<b, k + 1>>} /\ k + 1 \in DOMAIN f.code[b]
        BY <2>3, <3>1, <3>2 DEF After
      <4>2. QED
        BY <1>5, <4>1
    <3>3. CASE ~(k < Len(f.code[b]))
      <4>1. After(f, s) = {<<c, 1>> : c \in ToSet(f.succ[b])}
        BY <2>3, <3>3 DEF After
      <4>2. ASSUME NEW c \in ToSet(f.succ[b])
            PROVE  c \in B /\ 1 \in DOMAIN f.code[c]
        <5>1. c \in B /\ c \in DOMAIN f.code
          BY ExpectedShape
        <5>2. Len(f.code[c]) \in Nat /\ 1 <= Len(f.code[c]) /\ DOMAIN f.code[c] = 1..Len(f.code[c])
          BY <5>1, ExpectedShape
        <5>3. QED
          BY <5>1, <5>2
      <4>3. QED
        BY <1>5, <4>1, <4>2
    <3>4. QED
      BY <3>2, <3>3
  <2>7. Reads(f, s) \subseteq Nat /\ Writes(f, s) \subseteq Nat
    <3>1. SiteOf(f, s).r \in Nat /\ \A o \in ToSet(SiteOf(f, s).ops) : o[1] = "reg" => o[2] \in Nat
      BY <2>5 DEF AllocatorExpects
    <3>2. QED
      BY <3>1 DEF Reads, Writes
  <2>8. QED
    BY <2>2, <2>3, <2>5, <2>6, <2>7
<1>7. QED
  BY <1>4, <1>5, <1>6

\* The registers each site needs, by some estimate.
Estimates(f) == [Sites(f) -> SUBSET Nat]

\* Register r is needed at s when it is needed where `live' says.
Needed(f, live, s, r) ==
  r \in Reads(f, s) \/ (r \notin Writes(f, s) /\ \E t \in After(f, s) : r \in live[t])

\* A round of the estimates, register by register.
LEMMA LiveStepShape ==
  ASSUME NEW f, AllocatorExpects(f)
  PROVE  /\ LiveStep(f) \in [Estimates(f) -> Estimates(f)]
         /\ \A live \in Estimates(f) : \A s \in Sites(f) : \A r :
              r \in LiveStep(f)[live][s] <=> Needed(f, live, s, r)
<1> DEFINE New_(live) == [s \in Sites(f) |-> Reads(f, s) \cup (LiveAfter(f, live, s) \ Writes(f, s))]
<1>1. LiveStep(f) = [live \in Estimates(f) |-> New_(live)]
  BY DEF LiveStep, Estimates
<1>2. ASSUME NEW live \in Estimates(f), NEW s \in Sites(f)
      PROVE  New_(live)[s] \subseteq Nat
  <2>1. Reads(f, s) \subseteq Nat /\ After(f, s) \subseteq Sites(f)
    BY SitesShape
  <2>2. \A t \in Sites(f) : live[t] \subseteq Nat
    BY DEF Estimates
  <2>3. QED
    BY <2>1, <2>2 DEF LiveAfter
<1>3. \A live \in Estimates(f) : New_(live) \in Estimates(f)
  BY <1>2 DEF Estimates
<1>4. ASSUME NEW live \in Estimates(f), NEW s \in Sites(f), NEW r
      PROVE  r \in New_(live)[s] <=> Needed(f, live, s, r)
  <2>2. r \in LiveAfter(f, live, s) <=> \E t \in After(f, s) : r \in live[t]
    BY DEF LiveAfter
  <2>3. New_(live)[s] = Reads(f, s) \cup (LiveAfter(f, live, s) \ Writes(f, s))
    OBVIOUS
  <2> HIDE DEF New_
  <2>4. QED
    BY <2>2, <2>3 DEF Needed
<1> HIDE DEF New_
<1>5. QED
  BY <1>1, <1>3, <1>4

\* The rounds of the estimates, each adding to the last.
LEMMA LiveRounds ==
  ASSUME NEW f, AllocatorExpects(f)
  PROVE  LET L == Rounds(LiveStep(f), [s \in Sites(f) |-> {}])
         IN /\ L[0] = [s \in Sites(f) |-> {}]
            /\ \A n \in Nat : L[n] \in Estimates(f) /\ L[n + 1] = LiveStep(f)[L[n]]
            /\ \A n \in Nat : \A s \in Sites(f) : L[n][s] \subseteq L[n + 1][s]
<1> DEFINE zero == [s \in Sites(f) |-> {}]
           L == Rounds(LiveStep(f), zero)
           T == {n \in Nat : \A s \in Sites(f) : L[n][s] \subseteq L[n + 1][s]}
<1>1. zero \in Estimates(f)
  BY DEF Estimates
<1> HIDE DEF zero
<1>2. L[0] = zero /\ \A n \in Nat : L[n] \in Estimates(f) /\ L[n + 1] = LiveStep(f)[L[n]]
  BY <1>1, LiveStepShape, RoundsShape
<1> HIDE DEF L
<1>3. 0 \in T
  <2>1. \A s \in Sites(f) : L[0][s] = {}
    BY <1>2 DEF zero
  <2>2. QED
    BY <2>1
<1>4. ASSUME NEW n \in Nat, n \in T
      PROVE  n + 1 \in T
  <2>1. ASSUME NEW s \in Sites(f), NEW r \in L[n + 1][s]
        PROVE  r \in L[(n + 1) + 1][s]
    <3>1. L[n] \in Estimates(f) /\ L[n + 1] \in Estimates(f) /\ L[n + 1] = LiveStep(f)[L[n]]
          /\ L[(n + 1) + 1] = LiveStep(f)[L[n + 1]]
      BY <1>2
    <3>2. Needed(f, L[n], s, r)
      BY <2>1, <3>1, LiveStepShape
    <3>3. \A t \in After(f, s) : L[n][t] \subseteq L[n + 1][t]
      BY <1>4, SitesShape
    <3>4. Needed(f, L[n + 1], s, r)
      BY <3>2, <3>3 DEF Needed
    <3>5. QED
      BY <3>1, <3>4, LiveStepShape
  <2>2. QED
    BY <2>1
<1>5. \A n \in Nat : n \in T
  <2> HIDE DEF T
  <2>1. QED
    BY <1>3, <1>4, Induction
<1>6. QED
  BY <1>2, <1>5 DEF L, zero

\* As many rounds as there are sites reach the solution.
LEMMA LiveSolves ==
  ASSUME NEW f, AllocatorExpects(f)
  PROVE  /\ Live(f) \in Estimates(f)
         /\ \A s \in Sites(f) : \A r : r \in Live(f)[s] <=> Needed(f, Live(f), s, r)
         /\ Cardinality(Sites(f)) \in Nat
<1> DEFINE L == Rounds(LiveStep(f), [s \in Sites(f) |-> {}])
           N == Cardinality(Sites(f))
<1>1. /\ \A n \in Nat : L[n] \in Estimates(f) /\ L[n + 1] = LiveStep(f)[L[n]]
      /\ \A n \in Nat : \A s \in Sites(f) : L[n][s] \subseteq L[n + 1][s]
  BY LiveRounds
<1>2. Live(f) = L[N]
  BY DEF Live
<1> HIDE DEF L
<1>3. N \in Nat /\ IsFiniteSet(Sites(f))
  BY SitesShape, FS_CardinalityType
<1>4. ASSUME NEW r, NEW n \in Nat, NEW s \in Sites(f)
      PROVE  r \in L[n + 1][s] <=> Needed(f, L[n], s, r)
  BY <1>1, LiveStepShape
<1>5. ASSUME NEW r
      PROVE  \A s \in Sites(f) : r \in L[N + 1][s] <=> r \in L[N][s]
  <2> DEFINE G == [n \in Nat |-> {s \in Sites(f) : r \in L[n][s]}]
  <2>1. G \in [Nat -> SUBSET Sites(f)]
    OBVIOUS
  <2>2. \A n \in Nat : \A s \in Sites(f) : s \in G[n] <=> r \in L[n][s]
    OBVIOUS
  <2>3. \A n \in Nat : G[n] \subseteq Sites(f)
    OBVIOUS
  <2> HIDE DEF G
  <2>4. ASSUME NEW n \in Nat
        PROVE  G[n] \subseteq G[n + 1]
    <3>1. n + 1 \in Nat
      OBVIOUS
    <3>2. QED
      BY <1>1, <2>2, <2>3, <3>1
  <2>5. ASSUME NEW n \in Nat, G[n + 1] = G[n]
        PROVE  G[n + 2] = G[n + 1]
    <3>1. n + 1 \in Nat /\ n + 2 \in Nat /\ (n + 1) + 1 = n + 2
      OBVIOUS
    <3>2. \A t \in Sites(f) : r \in L[n + 1][t] <=> r \in L[n][t]
      BY <2>2, <2>5, <3>1
    <3>3. ASSUME NEW s \in Sites(f)
          PROVE  r \in L[n + 2][s] <=> r \in L[n + 1][s]
      <4>1. r \in L[n + 2][s] <=> Needed(f, L[n + 1], s, r)
        BY <1>4, <3>1
      <4>2. r \in L[n + 1][s] <=> Needed(f, L[n], s, r)
        BY <1>4
      <4>3. \A t \in After(f, s) : r \in L[n + 1][t] <=> r \in L[n][t]
        BY <3>2, SitesShape
      <4>4. QED
        BY <4>1, <4>2, <4>3 DEF Needed
    <3>4. QED
      BY <2>2, <2>3, <3>1, <3>3
  <2>6. G[N + 1] = G[N]
    BY <1>3, <2>1, <2>4, <2>5, Saturates
  <2>7. QED
    BY <1>3, <2>2, <2>6
<1>6. ASSUME NEW s \in Sites(f), NEW r
      PROVE  r \in L[N][s] <=> Needed(f, L[N], s, r)
  BY <1>3, <1>4, <1>5
<1>7. QED
  BY <1>1, <1>2, <1>3, <1>6

----------------------------------------------------------------------------
(* A register is written before it is live, in the order of the points.    *)

\* Where control may go to from the site s.
LEMMA AfterShape ==
  ASSUME NEW f, AllocatorExpects(f), NEW first, InOrder(f, first), NEW s \in Sites(f), NEW t \in After(f, s)
  PROVE  /\ Point(first, s) \in Nat /\ Point(first, t) \in Nat
         /\ \/ Point(first, s) < Point(first, t)
            \/ /\ t[1] \in BlocksOf(f) /\ t[1] \in ToSet(f.succ[s[1]]) /\ first[s[1]] >= first[t[1]]
               /\ Point(first, t) = first[t[1]] /\ Point(first, s) = LastPoint(f, first, s[1])
<1> DEFINE b == s[1]
<1>1. b \in BlocksOf(f) /\ b \in DOMAIN f.code /\ s[2] \in 1..Len(f.code[b]) /\ t \in Sites(f)
  BY SitesShape, ExpectedShape
<1>2. t[1] \in BlocksOf(f) /\ t[1] \in DOMAIN f.code /\ t[2] \in 1..Len(f.code[t[1]])
  BY <1>1, SitesShape, ExpectedShape
<1>3. first[b] \in Nat /\ Len(f.code[b]) \in Nat /\ first[t[1]] \in Nat /\ Len(f.code[t[1]]) \in Nat
  BY <1>1, <1>2, ExpectedShape DEF InOrder
<1>4. Point(first, s) = first[b] + s[2] - 1 /\ Point(first, t) = first[t[1]] + t[2] - 1
  BY DEF Point
<1>5. Point(first, s) \in Nat /\ Point(first, t) \in Nat
  BY <1>1, <1>2, <1>3, <1>4
<1>6. CASE s[2] < Len(f.code[b])
  <2>1. t[1] = b /\ t[2] = s[2] + 1
    BY <1>6 DEF After
  <2>2. QED
    BY <1>1, <1>3, <1>4, <1>5, <2>1
<1>7. CASE ~(s[2] < Len(f.code[b]))
  <2>1. t[1] \in ToSet(f.succ[b]) /\ t[2] = 1
    BY <1>7 DEF After
  <2>2. s[2] = Len(f.code[b])
    BY <1>1, <1>3, <1>7
  <2>3. Point(first, t) = first[t[1]] /\ Point(first, s) = LastPoint(f, first, b)
    BY <1>3, <1>4, <2>1, <2>2 DEF LastPoint
  <2>4. CASE first[b] >= first[t[1]]
    BY <1>2, <1>5, <2>1, <2>3, <2>4
  <2>5. CASE first[b] < first[t[1]]
    <3>1. b # t[1]
      BY <1>3, <2>5
    <3>2. Ahead(f, first, b, t[1]) \/ Ahead(f, first, t[1], b)
      BY <1>1, <1>2, <3>1 DEF InOrder
    <3>3. Ahead(f, first, b, t[1])
      BY <1>3, <2>5, <3>2 DEF Ahead
    <3>4. Point(first, s) < Point(first, t)
      BY <1>3, <2>3, <3>3 DEF Ahead, LastPoint
    <3>5. QED
      BY <1>5, <3>4
  <2>6. QED
    BY <1>3, <2>4, <2>5
<1>8. QED
  BY <1>6, <1>7

\* Every site but the first is gone to from one with a smaller point.
LEMMA CameFrom ==
  ASSUME NEW f, AllocatorExpects(f), NEW first, InOrder(f, first), NEW s \in Sites(f), s # <<Entry(f), 1>>
  PROVE  \E q \in Sites(f) : s \in After(f, q) /\ Point(first, q) < Point(first, s)
<1> DEFINE b == s[1]
<1>1. b \in BlocksOf(f) /\ b \in DOMAIN f.code /\ s[2] \in 1..Len(f.code[b]) /\ s = <<b, s[2]>>
  BY SitesShape, ExpectedShape
<1>2. first[b] \in Nat /\ Len(f.code[b]) \in Nat /\ 1 <= Len(f.code[b])
  BY <1>1, ExpectedShape DEF InOrder
<1>3. CASE s[2] # 1
  <2> DEFINE q == <<b, s[2] - 1>>
  <2>1. s[2] - 1 \in 1..Len(f.code[b]) /\ s[2] - 1 < Len(f.code[b]) /\ (s[2] - 1) + 1 = s[2]
    BY <1>1, <1>2, <1>3
  <2>2. q \in Sites(f)
    BY <1>1, <2>1, SitesShape, ExpectedShape
  <2>3. s \in After(f, q)
    BY <1>1, <2>1 DEF After
  <2>4. Point(first, q) < Point(first, s)
    BY <1>1, <1>2 DEF Point
  <2>5. QED
    BY <2>2, <2>3, <2>4
<1>4. CASE s[2] = 1
  <2>1. b # Entry(f)
    BY <1>1, <1>4
  <2>2. PICK p \in BlocksOf(f) : first[p] < first[b] /\ b \in ToSet(f.succ[p])
    BY <1>1, <2>1 DEF InOrder
  <2>3. p \in DOMAIN f.code
    BY ExpectedShape
  <2>4. first[p] \in Nat /\ Len(f.code[p]) \in Nat /\ 1 <= Len(f.code[p]) /\ DOMAIN f.code[p] = 1..Len(f.code[p])
    BY <2>3, ExpectedShape DEF InOrder
  <2>5. Ahead(f, first, p, b) \/ Ahead(f, first, b, p)
    BY <1>1, <1>2, <2>2, <2>4 DEF InOrder
  <2>6. first[p] + Len(f.code[p]) <= first[b]
    BY <1>2, <2>2, <2>4, <2>5 DEF Ahead
  <2> DEFINE q == <<p, Len(f.code[p])>>
  <2>7. q \in Sites(f)
    <3>1. Len(f.code[p]) \in DOMAIN f.code[p]
      BY <2>4
    <3>2. QED
      BY <3>1, SitesShape
  <2>8. s \in After(f, q)
    <3>1. After(f, q) = {<<c, 1>> : c \in ToSet(f.succ[p])}
      BY <2>4 DEF After
    <3>2. QED
      BY <1>1, <1>4, <2>2, <3>1
  <2>9. Point(first, q) = first[p] + Len(f.code[p]) - 1 /\ Point(first, s) = first[b] + 1 - 1
    BY <1>4 DEF Point
  <2> HIDE DEF q
  <2>10. Point(first, q) < Point(first, s)
    BY <1>2, <2>4, <2>6, <2>9
  <2>11. QED
    BY <2>7, <2>8, <2>10
<1>5. QED
  BY <1>3, <1>4

\* Register r is written at a point before the point x.
WrittenBefore(f, first, r, x) ==
  \E s \in Sites(f) : r \in Writes(f, s) /\ Point(first, s) < x

\* Points are numbers, and there is a last one.
LEMMA PointIsNumber ==
  ASSUME NEW f, AllocatorExpects(f), NEW first, InOrder(f, first)
  PROVE  /\ \A s \in Sites(f) : Point(first, s) \in Nat
         /\ \E n \in Nat : \A s \in Sites(f) : Point(first, s) <= n
<1>1. PICK n \in Nat : \A b \in BlocksOf(f) : first[b] + Len(f.code[b]) <= n
  BY DEF InOrder
<1>2. ASSUME NEW s \in Sites(f)
      PROVE  Point(first, s) \in Nat /\ Point(first, s) <= n
  <2> DEFINE b == s[1]
  <2>1. b \in BlocksOf(f) /\ b \in DOMAIN f.code /\ s[2] \in 1..Len(f.code[b])
    BY SitesShape, ExpectedShape
  <2>2. first[b] \in Nat /\ Len(f.code[b]) \in Nat /\ first[b] + Len(f.code[b]) <= n
    BY <1>1, <2>1, ExpectedShape DEF InOrder
  <2>3. QED
    BY <2>1, <2>2 DEF Point
<1>3. QED
  BY <1>2

\* A register that is live and no argument was written at a smaller point: else
\* there would be a least point without, and control came there from a smaller.
LEMMA LiveIsWritten ==
  ASSUME NEW f, AllocatorExpects(f), NEW first, InOrder(f, first),
         NEW r, r \notin ToSet(f.args), NEW s \in Sites(f), r \in Live(f)[s]
  PROVE  WrittenBefore(f, first, r, Point(first, s))
<1> DEFINE bad == {x \in Sites(f) : r \in Live(f)[x] /\ ~WrittenBefore(f, first, r, Point(first, x))}
           points == {Point(first, x) : x \in bad}
<1>1. SUFFICES ASSUME s \in bad
               PROVE  FALSE
  OBVIOUS
<1>2. points \subseteq Nat /\ points # {}
  BY <1>1, PointIsNumber
<1>3. PICK n \in points : \A k \in points : n <= k
  <2> HIDE DEF points
  <2>1. QED
    BY <1>2, LeastNumber
<1>4. PICK x \in bad : n = Point(first, x)
  OBVIOUS
<1>5. x \in Sites(f) /\ r \in Live(f)[x] /\ ~WrittenBefore(f, first, r, Point(first, x))
  OBVIOUS
<1>6. x # <<Entry(f), 1>>
  BY <1>5 DEF AllocatorExpects
<1>7. PICK q \in Sites(f) : x \in After(f, q) /\ Point(first, q) < Point(first, x)
  BY <1>5, <1>6, CameFrom
<1>8. r \notin Writes(f, q)
  BY <1>5, <1>7 DEF WrittenBefore
<1>9. r \in Live(f)[q]
  BY <1>5, <1>7, <1>8, LiveSolves DEF Needed
<1>10. Point(first, q) \in Nat /\ Point(first, x) \in Nat
  BY <1>5, <1>7, PointIsNumber
<1>11. Point(first, q) \notin points
  <2> HIDE DEF points, bad
  <2>1. QED
    BY <1>3, <1>4, <1>7, <1>10
<1>12. WrittenBefore(f, first, r, Point(first, q))
  BY <1>9, <1>11
<1>13. PICK y \in Sites(f) : r \in Writes(f, y) /\ Point(first, y) < Point(first, q)
  BY <1>12 DEF WrittenBefore
<1>14. Point(first, y) < Point(first, x)
  <2>1. Point(first, y) \in Nat
    BY PointIsNumber
  <2> HIDE DEF points, bad
  <2>2. QED
    BY <1>7, <1>10, <1>13, <2>1
<1>15. QED
  BY <1>5, <1>13, <1>14 DEF WrittenBefore

----------------------------------------------------------------------------
(* A register is kept until it is no longer live.                          *)

\* The points at which register r is read.
PointsOfReads(f, first, r) == {Point(first, s) : s \in {x \in Sites(f) : r \in Reads(f, x)}}

\* A read of r at x or later, or the end of a loop that began after `st' and
\* reads r: what ValueInterval lets an interval end at.
ReachesPoint(f, first, r, st, x) ==
  \/ \E u \in PointsOfReads(f, first, r) : x <= u
  \/ \E l \in LoopSet(f, first) :
       st < l[1] /\ x <= l[2] /\ \E u \in PointsOfReads(f, first, r) : l[1] <= u /\ u <= l[2]

\* What reaches the site control goes to reaches the one it comes from.
LEMMA ReachesBack ==
  ASSUME NEW f, AllocatorExpects(f), NEW first, InOrder(f, first),
         NEW r, NEW st \in Int, NEW s \in Sites(f), NEW t \in After(f, s),
         st < Point(first, t), ReachesPoint(f, first, r, st, Point(first, t))
  PROVE  ReachesPoint(f, first, r, st, Point(first, s))
<1> DEFINE c == Point(first, t)
           e == Point(first, s)
           RD == PointsOfReads(f, first, r)
           LS == LoopSet(f, first)
<1>1. c \in Nat /\ e \in Nat
  BY AfterShape
<1>2. RD \subseteq Nat
  BY PointIsNumber DEF PointsOfReads
<1>3. LS \subseteq Loop /\ \A a, b \in LS : Passes(a, b) => <<a[1], b[2]>> \in LS
  BY LoopSetClosed
<1>4. \/ \E u \in RD : c <= u
      \/ \E l \in LS : st < l[1] /\ c <= l[2] /\ \E u \in RD : l[1] <= u /\ u <= l[2]
  BY DEF ReachesPoint
<1>5. SUFFICES \/ \E u \in RD : e <= u
               \/ \E l \in LS : st < l[1] /\ e <= l[2] /\ \E u \in RD : l[1] <= u /\ u <= l[2]
  BY DEF ReachesPoint
<1>6. e < c \/ <<c, e>> \in LS
  <2>1. CASE e < c
    BY <2>1
  <2>2. CASE /\ t[1] \in BlocksOf(f) /\ t[1] \in ToSet(f.succ[s[1]]) /\ first[s[1]] >= first[t[1]]
             /\ c = first[t[1]] /\ e = LastPoint(f, first, s[1])
    <3>1. s[1] \in BlocksOf(f) /\ s[1] \in ToSet(f.pre[t[1]])
      BY <2>2, SitesShape DEF AllocatorExpects, BlocksOf
    <3>2. <<s[1], t[1]>> \in {x \in BlocksOf(f) \X BlocksOf(f) : x[1] \in ToSet(f.pre[x[2]]) /\ first[x[1]] >= first[x[2]]}
      BY <2>2, <3>1
    <3>3. <<c, e>> \in Loops(f, first)
      BY <2>2, <3>2 DEF Loops, BlocksOf
    <3>4. QED
      BY <3>3, LoopSetClosed
  <2>3. QED
    BY <2>1, <2>2, AfterShape
<1>7. st < c
  OBVIOUS
<1> HIDE DEF c, e, RD, LS
<1>8. \A l \in LS : l[1] \in Int /\ l[2] \in Int /\ l[1] <= l[2]
  BY <1>3 DEF Loop, Pairs
<1>9. CASE e < c
  <2>1. CASE \E u \in RD : c <= u
    <3>1. PICK u \in RD : c <= u
      BY <2>1
    <3>2. e <= u
      BY <1>1, <1>2, <1>9, <3>1
    <3>3. QED
      BY <3>2
  <2>2. CASE \E l \in LS : st < l[1] /\ c <= l[2] /\ \E u \in RD : l[1] <= u /\ u <= l[2]
    <3>1. PICK l \in LS : st < l[1] /\ c <= l[2] /\ \E u \in RD : l[1] <= u /\ u <= l[2]
      BY <2>2
    <3>2. e <= l[2]
      BY <1>1, <1>8, <1>9, <3>1
    <3>3. QED
      BY <3>1, <3>2
  <2>3. QED
    BY <1>4, <2>1, <2>2
<1>10. CASE <<c, e>> \in LS
  <2>1. ASSUME NEW u \in RD, c <= u
        PROVE  \/ \E v \in RD : e <= v
               \/ \E l \in LS : st < l[1] /\ e <= l[2] /\ \E v \in RD : l[1] <= v /\ v <= l[2]
    <3>1. CASE e <= u
      BY <3>1
    <3>2. CASE u <= e
      <4> DEFINE l == <<c, e>>
      <4>1. l \in LS /\ l[1] = c /\ l[2] = e
        BY <1>10
      <4> HIDE DEF l
      <4>2. st < l[1] /\ e <= l[2] /\ l[1] <= u /\ u <= l[2]
        BY <1>1, <1>7, <2>1, <3>2, <4>1
      <4>3. QED
        BY <4>1, <4>2
    <3>3. QED
      BY <1>1, <1>2, <3>1, <3>2
  <2>2. ASSUME NEW l \in LS, st < l[1], c <= l[2], NEW u \in RD, l[1] <= u, u <= l[2]
        PROVE  \/ \E v \in RD : e <= v
               \/ \E k \in LS : st < k[1] /\ e <= k[2] /\ \E v \in RD : k[1] <= v /\ v <= k[2]
    <3>1. CASE e <= l[2]
      BY <2>2, <3>1
    <3>2. CASE l[2] < e /\ c <= l[1]
      <4>1. c <= u
        BY <1>1, <1>2, <1>8, <2>2, <3>2
      <4>2. QED
        BY <2>1, <4>1
    <3>3. CASE l[2] < e /\ l[1] < c
      <4>1. Passes(l, <<c, e>>)
        BY <2>2, <3>3 DEF Passes
      <4> DEFINE k == <<l[1], e>>
      <4>2. k \in LS /\ k[1] = l[1] /\ k[2] = e
        BY <1>3, <1>10, <4>1
      <4> HIDE DEF k
      <4>3. st < k[1] /\ e <= k[2] /\ k[1] <= u /\ u <= k[2]
        BY <1>1, <1>2, <1>8, <2>2, <3>3, <4>2
      <4>4. QED
        BY <4>2, <4>3
    <3>4. QED
      BY <1>1, <1>8, <3>1, <3>2, <3>3
  <2>3. QED
    BY <1>4, <2>1, <2>2
<1>11. QED
  BY <1>6, <1>9, <1>10

\* Where a register is live, something keeps its interval: by the rounds.
LEMMA LiveIsReached ==
  ASSUME NEW f, AllocatorExpects(f), NEW first, InOrder(f, first),
         NEW r, NEW st \in Int, \A s \in Sites(f) : r \in Live(f)[s] => st < Point(first, s)
  PROVE  \A s \in Sites(f) : r \in Live(f)[s] => ReachesPoint(f, first, r, st, Point(first, s))
<1> DEFINE L == Rounds(LiveStep(f), [s \in Sites(f) |-> {}])
           N == Cardinality(Sites(f))
           T == {n \in Nat : \A s \in Sites(f) :
                   r \in L[n][s] => r \in Live(f)[s] /\ ReachesPoint(f, first, r, st, Point(first, s))}
<1>1. L[0] = [s \in Sites(f) |-> {}] /\ \A n \in Nat : L[n] \in Estimates(f) /\ L[n + 1] = LiveStep(f)[L[n]]
  BY LiveRounds
<1>2. Live(f) = L[N] /\ N \in Nat
  BY LiveSolves DEF Live
<1> HIDE DEF L
<1>3. 0 \in T
  BY <1>1
<1>4. ASSUME NEW n \in Nat, n \in T
      PROVE  n + 1 \in T
  <2>1. ASSUME NEW s \in Sites(f), r \in L[n + 1][s]
        PROVE  r \in Live(f)[s] /\ ReachesPoint(f, first, r, st, Point(first, s))
    <3>1. Needed(f, L[n], s, r)
      BY <1>1, <2>1, LiveStepShape
    <3>2. CASE r \in Reads(f, s)
      <4>1. r \in Live(f)[s]
        BY <3>2, LiveSolves DEF Needed
      <4>2. Point(first, s) \in PointsOfReads(f, first, r) /\ Point(first, s) <= Point(first, s)
        BY <3>2, PointIsNumber DEF PointsOfReads
      <4>3. QED
        BY <4>1, <4>2 DEF ReachesPoint
    <3>3. CASE r \notin Writes(f, s) /\ \E t \in After(f, s) : r \in L[n][t]
      <4>1. PICK t \in After(f, s) : r \in L[n][t]
        BY <3>3
      <4>2. t \in Sites(f)
        BY SitesShape
      <4>3. r \in Live(f)[t] /\ ReachesPoint(f, first, r, st, Point(first, t))
        BY <1>4, <4>1, <4>2
      <4>4. r \in Live(f)[s]
        BY <3>3, <4>3, LiveSolves DEF Needed
      <4>5. st < Point(first, t)
        BY <4>2, <4>3
      <4>6. QED
        BY <4>3, <4>4, <4>5, ReachesBack
    <3>4. QED
      BY <3>1, <3>2, <3>3 DEF Needed
  <2>2. QED
    BY <2>1
<1>5. \A n \in Nat : n \in T
  <2> HIDE DEF T
  <2>1. QED
    BY <1>3, <1>4, Induction
<1>6. QED
  BY <1>2, <1>5

----------------------------------------------------------------------------
(* The intervals of registers.                                             *)

\* The points of the uses and of the definitions that ValueInterval collects.
UsePoints(f, first, r) == {u[2] : u \in {x \in UsesIn(f, first) : x[1] = Reg(r)}}
DefPoints(f, first, r) == {d[2] : d \in {x \in Definitions(f, first) : x[1] = r}}

FirstOf(f, first, r) == IF r \in ToSet(f.args) THEN -1 ELSE Min(DefPoints(f, first, r))

\* i is the interval of register r.
IsIntervalOf(i, f, first, r, loops) ==
  LET ud == UsePoints(f, first, r)
      dd == DefPoints(f, first, r)
      st == FirstOf(f, first, r)
  IN /\ i.v = Reg(r) /\ i.st = st
     /\ i.ed = IF ud = {} THEN Max(dd \cup {st}) ELSE Max({LastUse(ud, st, loops)} \cup dd)

\* The ends of what ValueInterval makes.
LEMMA ValueIntervalShape ==
  ASSUME NEW f, NEW first, NEW r, NEW loops
  PROVE  IsIntervalOf(ValueInterval(f, r, Definitions(f, first), UsesIn(f, first), loops), f, first, r, loops)
<1>1. \A v, st, ed, type, a, b, c, d, e, g :
        LET i == [Interval(v, st, ed, type) EXCEPT !.pin = a, !.onStack = b, !.uses = c, !.num = d, !.den = e, !.data = g]
        IN i.v = v /\ i.st = st /\ i.ed = ed
  BY DEF Interval
<1>2. QED
  BY <1>1 DEF ValueInterval, UsePoints, DefPoints, FirstOf, IsIntervalOf

\* Every read and every write of a register is a point its interval is made of.
LEMMA IntervalPoints ==
  ASSUME NEW f, AllocatorExpects(f), NEW first, InOrder(f, first), NEW r
  PROVE  /\ PointsOfReads(f, first, r) \subseteq UsePoints(f, first, r)
         /\ \A s \in Sites(f) : r \in Writes(f, s) => Point(first, s) \in DefPoints(f, first, r)
         /\ UsePoints(f, first, r) \subseteq Nat /\ DefPoints(f, first, r) \subseteq Nat
         /\ \E n \in Nat : \A x \in UsePoints(f, first, r) \cup DefPoints(f, first, r) : x <= n
<1>1. ASSUME NEW s \in Sites(f), r \in Reads(f, s)
      PROVE  Point(first, s) \in UsePoints(f, first, r)
  <2> DEFINE i == SiteOf(f, s)
  <2>1. i \in AllInstrs(f)
    BY SitesShape
  <2>2. PICK o \in ToSet(i.ops) : o[1] = "reg" /\ o[2] = r
    BY <1>1 DEF Reads
  <2>3. o = Reg(r)
    BY <2>1, <2>2 DEF AllocatorExpects
  <2>4. PICK k \in DOMAIN i.ops : i.ops[k] = o
    BY DEF ToSet
  <2>5. k \in Operands(i)
    BY <2>2, <2>4 DEF Operands, Immediate
  <2>6. <<i.ops[k], Point(first, s), k>> \in UsesIn(f, first)
    BY <2>5 DEF UsesIn
  <2> HIDE DEF i
  <2>7. <<Reg(r), Point(first, s), k>> \in {x \in UsesIn(f, first) : x[1] = Reg(r)}
    BY <2>3, <2>4, <2>6
  <2>8. QED
    BY <2>7 DEF UsePoints
<1>2. ASSUME NEW s \in Sites(f), r \in Writes(f, s)
      PROVE  Point(first, s) \in DefPoints(f, first, r)
  <2>1. SiteOf(f, s).r # 0 /\ SiteOf(f, s).r = r
    BY <1>2 DEF Writes
  <2>2. <<r, Point(first, s)>> \in {x \in Definitions(f, first) : x[1] = r}
    BY <2>1 DEF Definitions
  <2>3. QED
    BY <2>2 DEF DefPoints
<1>3. ASSUME NEW x \in UsePoints(f, first, r)
      PROVE  \E s \in Sites(f) : x = Point(first, s)
  BY DEF UsePoints, UsesIn
<1>4. ASSUME NEW x \in DefPoints(f, first, r)
      PROVE  \E s \in Sites(f) : x = Point(first, s)
  BY DEF DefPoints, Definitions
<1>5. PICK n \in Nat : \A s \in Sites(f) : Point(first, s) \in Nat /\ Point(first, s) <= n
  BY PointIsNumber
<1>6. UsePoints(f, first, r) \subseteq Nat /\ DefPoints(f, first, r) \subseteq Nat
  BY <1>3, <1>4, <1>5
<1>7. \A x \in UsePoints(f, first, r) \cup DefPoints(f, first, r) : x <= n
  BY <1>3, <1>4, <1>5
<1>8. QED
  BY <1>1, <1>2, <1>6, <1>7 DEF PointsOfReads

\* The interval of a register covers what it is live at.
LEMMA ValueIntervalCovers ==
  ASSUME NEW f, AllocatorExpects(f), NEW first, InOrder(f, first), NEW r, NEW s \in Sites(f), r \in Live(f)[s]
  PROVE  Covers(ValueInterval(f, r, Definitions(f, first), UsesIn(f, first), LoopSet(f, first)), Point(first, s))
<1> DEFINE loops == LoopSet(f, first)
           i  == ValueInterval(f, r, Definitions(f, first), UsesIn(f, first), loops)
           ud == UsePoints(f, first, r)
           dd == DefPoints(f, first, r)
           st == FirstOf(f, first, r)
           at == Point(first, s)
           ends == {l[2] : l \in {x \in loops : st < x[1] /\ \E p \in ud : x[1] <= p /\ p <= x[2]}}
<1>1. /\ i.st = st
      /\ i.ed = IF ud = {} THEN Max(dd \cup {st}) ELSE Max({LastUse(ud, st, loops)} \cup dd)
  <2>1. IsIntervalOf(i, f, first, r, loops)
    BY ValueIntervalShape
  <2>2. QED
    BY <2>1 DEF IsIntervalOf
<1>2. ud \subseteq Nat /\ dd \subseteq Nat /\ PointsOfReads(f, first, r) \subseteq ud
  BY IntervalPoints
<1>3. PICK n \in Nat : \A x \in ud \cup dd : x <= n
  BY IntervalPoints
<1>4. PICK m \in Nat : \A l \in loops : l[2] <= m
  BY LoopSetClosed
<1>5. \A l \in loops : l[1] \in Int /\ l[2] \in Int
  BY LoopSetClosed DEF Loop, Pairs
<1>6. st \in Int /\ \A t \in Sites(f) : r \in Live(f)[t] => st < Point(first, t)
  <2>1. CASE r \in ToSet(f.args)
    <3>1. st = -1
      BY <2>1 DEF FirstOf
    <3>2. QED
      BY <3>1, PointIsNumber
  <2>2. CASE r \notin ToSet(f.args)
    <3>1. st = Min(dd)
      BY <2>2 DEF FirstOf
    <3>2. ASSUME NEW t \in Sites(f), r \in Live(f)[t]
          PROVE  Min(dd) \in Int /\ Min(dd) < Point(first, t)
      <4>1. PICK x \in Sites(f) : r \in Writes(f, x) /\ Point(first, x) < Point(first, t)
        BY <2>2, <3>2, LiveIsWritten DEF WrittenBefore
      <4>2. Point(first, x) \in dd /\ Point(first, x) \in Nat /\ Point(first, t) \in Nat
        BY <4>1, IntervalPoints, PointIsNumber
      <4>3. dd \subseteq Nat /\ dd # {}
        BY <1>2, <4>2
      <4> HIDE DEF dd
      <4> DEFINE least == Min(dd)
      <4>4. least \in dd /\ least <= Point(first, x)
        BY <4>2, <4>3, LeastOfNumbers
      <4> HIDE DEF least
      <4>5. least \in Int /\ least < Point(first, t)
        BY <4>1, <4>2, <4>3, <4>4
      <4>6. QED
        BY <4>5 DEF least
    <3>3. QED
      BY <3>1, <3>2
  <2>3. QED
    BY <2>1, <2>2
<1>7. ReachesPoint(f, first, r, st, at) /\ at \in Nat
  BY <1>6, LiveIsReached, PointIsNumber
<1>8. \/ \E u \in ud : at <= u
      \/ \E l \in loops : st < l[1] /\ at <= l[2] /\ \E u \in ud : l[1] <= u /\ u <= l[2]
  BY <1>2, <1>7 DEF ReachesPoint
<1>9. st < at
  BY <1>6
<1>10. LastUse(ud, st, loops) = Max(ud \cup ends)
  BY DEF LastUse
<1>11. ud # {} /\ \E e \in ud \cup ends : at <= e
  <2>1. CASE \E u \in ud : at <= u
    BY <2>1
  <2>2. CASE \E l \in loops : st < l[1] /\ at <= l[2] /\ \E u \in ud : l[1] <= u /\ u <= l[2]
    BY <2>2
  <2>3. QED
    BY <1>8, <2>1, <2>2
<1>12. \A e \in ends : e \in Int /\ e <= m
  BY <1>4, <1>5
<1> HIDE DEF ud, dd, st, at, ends, loops, i
<1> DEFINE b == n + m
<1>13. b \in Int /\ (\A e \in ud \cup ends : e \in Int /\ e <= b) /\ \A e \in dd : e \in Int /\ e <= b
  BY <1>2, <1>3, <1>12
<1> HIDE DEF b
<1> DEFINE last == Max(ud \cup ends)
<1>14. last \in Int /\ last <= b /\ at <= last
  <2>1. (ud \cup ends) \subseteq Int /\ ud \cup ends # {}
    BY <1>11, <1>13
  <2>2. last \in ud \cup ends /\ \A e \in ud \cup ends : e <= last
    BY <1>13, <2>1, GreatestOfBounded
  <2>3. PICK e \in ud \cup ends : at <= e
    BY <1>11
  <2> HIDE DEF last
  <2>4. e \in Int /\ e <= last /\ last \in Int /\ last <= b
    BY <1>13, <2>2, <2>3
  <2>5. QED
    BY <1>7, <2>3, <2>4
<1> HIDE DEF last
<1>15. i.ed = Max({last} \cup dd)
  BY <1>1, <1>10, <1>11 DEF last
<1>16. last <= i.ed /\ i.ed \in Int
  <2>1. ({last} \cup dd) \subseteq Int /\ {last} \cup dd # {} /\ \A e \in {last} \cup dd : e <= b
    BY <1>13, <1>14
  <2>2. i.ed \in {last} \cup dd /\ \A e \in {last} \cup dd : e <= i.ed
    BY <1>13, <1>15, <2>1, GreatestOfBounded
  <2>3. QED
    BY <2>1, <2>2
<1>17. i.st <= at /\ at <= i.ed
  BY <1>1, <1>6, <1>7, <1>9, <1>14, <1>16
<1>18. QED
  BY <1>17 DEF Covers, i, at, loops

\* linear_scan_reg_alloc.cpp, live_interval_analysis: what it makes of a
\* function covers every instruction a register is live at.
IntervalsCover(f) ==
  \A i \in IntervalsOf(f) : i.type \in {"local", "arg"} =>
    \A s \in Sites(f) : i.v[2] \in Live(f)[s] => Covers(i, Point(FirstPoints(f), s))

\* The other intervals have other types.
LEMMA OtherIntervals ==
  ASSUME NEW f, NEW first
  PROVE  /\ \A i \in PointIntervals(UsesIn(f, first)) : i.type \notin {"local", "arg"}
         /\ \A i \in CallIntervals(f, first) : i.type \notin {"local", "arg"}
<1>1. \A v, st, ed, type, a : [Interval(v, st, ed, type) EXCEPT !.pin = a].type = type
  BY DEF Interval
<1>2. \A v, st, ed, type, a : [Interval(v, st, ed, type) EXCEPT !.uses = a].type = type
  BY DEF Interval
<1>3. ASSUME NEW i \in CallIntervals(f, first)
      PROVE  i.type = "call"
  <2>1. \E v, st, ed, a : i = [Interval(v, st, ed, "call") EXCEPT !.pin = a]
    BY DEF CallIntervals
  <2>2. QED
    BY <1>1, <2>1
<1>4. ASSUME NEW i \in PointIntervals(UsesIn(f, first))
      PROVE  i.type \in {"imm", "global"}
  <2>1. \E u, a : i = [Interval(u[1], u[2], u[2], IF u[1][1] = "const" THEN "imm" ELSE "global") EXCEPT !.uses = a]
    BY DEF PointIntervals
  <2>2. PICK u, a : i = [Interval(u[1], u[2], u[2], IF u[1][1] = "const" THEN "imm" ELSE "global") EXCEPT !.uses = a]
    BY <2>1
  <2>3. i.type = IF u[1][1] = "const" THEN "imm" ELSE "global"
    BY <1>2, <2>2
  <2>4. QED
    BY <2>3
<1>5. QED
  BY <1>3, <1>4

\* So does each interval of a function.
LEMMA ExpectedIsCovered ==
  ASSUME NEW f, AllocatorExpects(f)
  PROVE  IntervalsCover(f)
<1> DEFINE first == FirstPoints(f)
<1>1. InOrder(f, first)
  BY FirstPointsInOrder
<1>2. ASSUME NEW i \in IntervalsOf(f), i.type \in {"local", "arg"}, NEW s \in Sites(f), i.v[2] \in Live(f)[s]
      PROVE  Covers(i, Point(first, s))
  <2>1. \E r : i = ValueInterval(f, r, Definitions(f, first), UsesIn(f, first), LoopSet(f, first))
    BY <1>2, OtherIntervals DEF IntervalsOf
  <2>2. PICK r : i = ValueInterval(f, r, Definitions(f, first), UsesIn(f, first), LoopSet(f, first))
    BY <2>1
  <2> HIDE DEF first
  <2>3. i.v[2] = r
    <3>1. IsIntervalOf(i, f, first, r, LoopSet(f, first))
      BY <2>2, ValueIntervalShape
    <3>2. QED
      BY <3>1 DEF IsIntervalOf, Reg
  <2>4. QED
    BY <1>1, <1>2, <2>2, <2>3, ValueIntervalCovers
<1>3. QED
  BY <1>2 DEF IntervalsCover

----------------------------------------------------------------------------
(* Every site at which an interval is needed.                              *)

\* An interval that is not of a register is a point.
LEMMA PointsOnly ==
  ASSUME NEW f, NEW first, NEW i,
         i \in PointIntervals(UsesIn(f, first)) \cup CallIntervals(f, first)
  PROVE  i.st = i.ed
<1>1. \A v, st, type, a : LET j == [Interval(v, st, st, type) EXCEPT !.pin = a] IN j.st = j.ed
  BY DEF Interval
<1>2. \A v, st, type, a : LET j == [Interval(v, st, st, type) EXCEPT !.uses = a] IN j.st = j.ed
  BY DEF Interval
<1>3. CASE i \in CallIntervals(f, first)
  <2>1. \E v, st, a : i = [Interval(v, st, st, "call") EXCEPT !.pin = a]
    BY <1>3 DEF CallIntervals
  <2>2. QED
    BY <1>1, <2>1
<1>4. CASE i \in PointIntervals(UsesIn(f, first))
  <2>1. \E v, st, type, a : i = [Interval(v, st, st, type) EXCEPT !.uses = a]
    BY <1>4 DEF PointIntervals
  <2>2. QED
    BY <1>2, <2>1
<1>5. QED
  BY <1>3, <1>4

\* The interval of a register is one of a value.
LEMMA ValueIntervalType ==
  ASSUME NEW f, NEW r, NEW defs, NEW uses, NEW loops
  PROVE  ValueInterval(f, r, defs, uses, loops).type \in {"local", "arg"}
<1>1. \A v, st, ed, type, a, b, c, d, e, g :
        [Interval(v, st, ed, type) EXCEPT !.pin = a, !.onStack = b, !.uses = c, !.num = d, !.den = e, !.data = g].type
          = type
  BY DEF Interval
<1>2. ValueInterval(f, r, defs, uses, loops).type = IF r \in ToSet(f.args) THEN "arg" ELSE "local"
  BY <1>1 DEF ValueInterval
<1>3. QED
  BY <1>2

\* What is written where it is not read later is covered there too.
LEMMA WrittenIsCovered ==
  ASSUME NEW f, AllocatorExpects(f), NEW first, InOrder(f, first), NEW r, NEW s \in Sites(f), r \in Writes(f, s)
  PROVE  Covers(ValueInterval(f, r, Definitions(f, first), UsesIn(f, first), LoopSet(f, first)), Point(first, s))
<1> DEFINE loops == LoopSet(f, first)
           i  == ValueInterval(f, r, Definitions(f, first), UsesIn(f, first), loops)
           ud == UsePoints(f, first, r)
           dd == DefPoints(f, first, r)
           st == FirstOf(f, first, r)
           at == Point(first, s)
           ends == {l[2] : l \in {x \in loops : st < x[1] /\ \E p \in ud : x[1] <= p /\ p <= x[2]}}
           last == IF ud = {} THEN st ELSE LastUse(ud, st, loops)
<1>1. /\ i.st = st
      /\ i.ed = IF ud = {} THEN Max(dd \cup {st}) ELSE Max({LastUse(ud, st, loops)} \cup dd)
  <2>1. IsIntervalOf(i, f, first, r, loops)
    BY ValueIntervalShape
  <2>2. QED
    BY <2>1 DEF IsIntervalOf
<1>2. ud \subseteq Nat /\ dd \subseteq Nat /\ at \in dd
  BY IntervalPoints
<1>3. PICK n \in Nat : \A x \in ud \cup dd : x <= n
  BY IntervalPoints
<1>4. PICK m \in Nat : \A l \in loops : l[2] <= m
  BY LoopSetClosed
<1>5. \A l \in loops : l[1] \in Int /\ l[2] \in Int
  BY LoopSetClosed DEF Loop, Pairs
<1>6. st = -1 \/ st = Min(dd)
  BY DEF FirstOf
<1>7. LastUse(ud, st, loops) = Max(ud \cup ends)
  BY DEF LastUse
<1>8. \A e \in ends : e \in Int /\ e <= m
  BY <1>4, <1>5
<1>9. i.ed = Max({last} \cup dd)
  <2>1. {st} \cup dd = dd \cup {st}
    OBVIOUS
  <2>2. QED
    BY <1>1, <2>1
<1> HIDE DEF ud, dd, st, at, ends, loops, i
<1> DEFINE b == n + m
<1>10. b \in Nat /\ (\A e \in ud \cup ends : e \in Int /\ e <= b) /\ \A e \in dd : e \in Int /\ e <= b
  BY <1>2, <1>3, <1>8
<1> HIDE DEF b
<1>11. st \in Int /\ st <= at /\ st <= b
  <2>1. Min(dd) \in dd /\ Min(dd) <= at
    BY <1>2, LeastOfNumbers
  <2>2. -1 \in Int /\ -1 <= at /\ -1 <= b
    BY <1>2, <1>10
  <2>3. QED
    BY <1>6, <1>10, <2>1, <2>2
<1>12. last \in Int /\ last <= b
  <2>1. CASE ud = {}
    BY <1>11, <2>1
  <2>2. CASE ud # {}
    <3>1. (ud \cup ends) \subseteq Int /\ ud \cup ends # {}
      BY <1>10, <2>2
    <3>2. Max(ud \cup ends) \in ud \cup ends
      BY <1>10, <3>1, GreatestOfBounded
    <3>3. QED
      BY <1>7, <1>10, <2>2, <3>2
  <2>3. QED
    BY <2>1, <2>2
<1> HIDE DEF last
<1>13. at <= i.ed
  <2>1. ({last} \cup dd) \subseteq Int /\ {last} \cup dd # {} /\ \A e \in {last} \cup dd : e <= b
    BY <1>10, <1>12
  <2>2. \A e \in {last} \cup dd : e <= i.ed
    BY <1>9, <1>10, <2>1, GreatestOfBounded
  <2>3. QED
    BY <1>2, <2>2
<1>14. QED
  BY <1>1, <1>11, <1>13 DEF Covers, i, at, loops

\* The sites at which the interval i of function f needs its register.
SitesOf(f, i) ==
  {s \in Sites(f) : IF i.type \in {"local", "arg"} THEN i.v[2] \in Live(f)[s] \cup Writes(f, s)
                    ELSE i.st = Point(FirstPoints(f), s)}

\* An interval covers every point at which what it stands for is needed.
LEMMA NeededIsCovered ==
  ASSUME NEW f, AllocatorExpects(f), NEW i \in IntervalsOf(f), NEW s \in SitesOf(f, i)
  PROVE  Covers(i, Point(FirstPoints(f), s)) /\ Point(FirstPoints(f), s) \in Nat
<1> DEFINE first == FirstPoints(f)
<1>1. InOrder(f, first) /\ s \in Sites(f)
  BY FirstPointsInOrder DEF SitesOf
<1> HIDE DEF first
<1>2. Point(first, s) \in Nat
  BY <1>1, PointIsNumber
<1>3. CASE i \in PointIntervals(UsesIn(f, first)) \cup CallIntervals(f, first)
  <2>1. i.st = i.ed /\ i.type \notin {"local", "arg"}
    BY <1>3, PointsOnly, OtherIntervals
  <2>2. i.st = Point(first, s)
    BY <2>1 DEF SitesOf, first
  <2>3. QED
    BY <1>2, <2>1, <2>2 DEF Covers, first
<1>4. CASE \E r : i = ValueInterval(f, r, Definitions(f, first), UsesIn(f, first), LoopSet(f, first))
  <2>1. PICK r : i = ValueInterval(f, r, Definitions(f, first), UsesIn(f, first), LoopSet(f, first))
    BY <1>4
  <2>2. i.type \in {"local", "arg"}
    BY <2>1, ValueIntervalType
  <2>3. i.v[2] = r
    <3>1. IsIntervalOf(i, f, first, r, LoopSet(f, first))
      BY <2>1, ValueIntervalShape
    <3>2. QED
      BY <3>1 DEF IsIntervalOf, Reg
  <2>4. r \in Live(f)[s] \/ r \in Writes(f, s)
    BY <2>2, <2>3 DEF SitesOf
  <2>5. Covers(i, Point(first, s))
    BY <1>1, <2>1, <2>4, ValueIntervalCovers, WrittenIsCovered
  <2>6. QED
    BY <1>2, <2>5 DEF first
<1>5. \/ i \in PointIntervals(UsesIn(f, first)) \cup CallIntervals(f, first)
      \/ \E r : i = ValueInterval(f, r, Definitions(f, first), UsesIn(f, first), LoopSet(f, first))
  BY DEF IntervalsOf, first
<1>6. QED
  BY <1>3, <1>4, <1>5

----------------------------------------------------------------------------
(* The intervals are what the scan expects.                                *)

\* The interval of a register does not end before it begins.
LEMMA ValueIntervalEnds ==
  ASSUME NEW f, AllocatorExpects(f), NEW first, InOrder(f, first), NEW r,
         r \in ToSet(f.args) \/ DefPoints(f, first, r) # {}
  PROVE  LET i == ValueInterval(f, r, Definitions(f, first), UsesIn(f, first), LoopSet(f, first))
         IN i.st \in Int /\ i.ed \in Int /\ i.st <= i.ed
<1> DEFINE loops == LoopSet(f, first)
           i  == ValueInterval(f, r, Definitions(f, first), UsesIn(f, first), loops)
           ud == UsePoints(f, first, r)
           dd == DefPoints(f, first, r)
           st == FirstOf(f, first, r)
           ends == {l[2] : l \in {x \in loops : st < x[1] /\ \E p \in ud : x[1] <= p /\ p <= x[2]}}
           last == IF ud = {} THEN st ELSE LastUse(ud, st, loops)
<1>1. /\ i.st = st
      /\ i.ed = IF ud = {} THEN Max(dd \cup {st}) ELSE Max({LastUse(ud, st, loops)} \cup dd)
  <2>1. IsIntervalOf(i, f, first, r, loops)
    BY ValueIntervalShape
  <2>2. QED
    BY <2>1 DEF IsIntervalOf
<1>2. ud \subseteq Nat /\ dd \subseteq Nat
  BY IntervalPoints
<1>3. PICK n \in Nat : \A x \in ud \cup dd : x <= n
  BY IntervalPoints
<1>4. PICK m \in Nat : \A l \in loops : l[2] <= m
  BY LoopSetClosed
<1>5. \A l \in loops : l[1] \in Int /\ l[2] \in Int
  BY LoopSetClosed DEF Loop, Pairs
<1>6. st = -1 \/ (dd # {} /\ st = Min(dd))
  BY DEF FirstOf
<1>7. LastUse(ud, st, loops) = Max(ud \cup ends)
  BY DEF LastUse
<1>8. \A e \in ends : e \in Int /\ e <= m
  BY <1>4, <1>5
<1>9. i.ed = Max({last} \cup dd)
  <2>1. {st} \cup dd = dd \cup {st}
    OBVIOUS
  <2>2. QED
    BY <1>1, <2>1
<1> HIDE DEF ud, dd, st, ends, loops, i
<1> DEFINE b == n + m
<1>10. b \in Nat /\ (\A e \in ud \cup ends : e \in Int /\ e <= b) /\ \A e \in dd : e \in Int /\ e <= b
  BY <1>2, <1>3, <1>8
<1> HIDE DEF b
<1>11. st \in Int /\ st <= b /\ (st = -1 \/ st \in dd)
  <2>1. dd # {} => Min(dd) \in dd
    BY <1>2, LeastOfNumbers
  <2>2. -1 \in Int /\ -1 <= b
    BY <1>10
  <2>3. QED
    BY <1>6, <1>10, <2>1, <2>2
<1>12. last \in Int /\ last <= b /\ (st = -1 => st <= last)
  <2>1. CASE ud = {}
    BY <1>11, <2>1
  <2>2. CASE ud # {}
    <3> DEFINE most == Max(ud \cup ends)
    <3>1. (ud \cup ends) \subseteq Int /\ ud \cup ends # {}
      BY <1>10, <2>2
    <3>2. most \in ud \cup ends /\ \A e \in ud \cup ends : e <= most
      BY <1>10, <3>1, GreatestOfBounded
    <3>3. PICK u \in ud : u \in Nat
      BY <1>2, <2>2
    <3>4. last = most
      BY <1>7, <2>2
    <3> HIDE DEF most, last
    <3>5. most \in Int /\ most <= b /\ u <= most
      BY <1>10, <3>2, <3>3
    <3>6. QED
      BY <3>3, <3>4, <3>5
  <2>3. QED
    BY <2>1, <2>2
<1> HIDE DEF last
<1>13. i.ed \in Int /\ st <= i.ed
  <2>1. ({last} \cup dd) \subseteq Int /\ {last} \cup dd # {} /\ \A e \in {last} \cup dd : e <= b
    BY <1>10, <1>12
  <2>2. i.ed \in {last} \cup dd /\ \A e \in {last} \cup dd : e <= i.ed
    BY <1>9, <1>10, <2>1, GreatestOfBounded
  <2>3. i.ed \in Int
    BY <2>1, <2>2
  <2>4. CASE st = -1
    BY <1>11, <1>12, <2>2, <2>3, <2>4
  <2>5. CASE st \in dd
    BY <2>2, <2>3, <2>5
  <2>6. QED
    BY <1>11, <2>4, <2>5
<1>14. QED
  BY <1>1, <1>11, <1>13 DEF i, loops

\* Which argument register r is.
NumberOf(f, r) == IF r \in ToSet(f.args) THEN CHOOSE k \in DOMAIN f.args : f.args[k] = r ELSE 0

\* The pin of the interval of register r.
IsPinOf(i, f, r) ==
  /\ i.type = IF r \in ToSet(f.args) THEN "arg" ELSE "local"
  /\ i.onStack = (NumberOf(f, r) > ArgRegs)
  /\ i.pin = IF NumberOf(f, r) > ArgRegs THEN NumberOf(f, r) - ArgRegs - 1
             ELSE IF r \in ToSet(f.args) THEN NumberOf(f, r) - 1 ELSE 0

\* The register an argument comes in.
LEMMA ValueIntervalPin ==
  ASSUME NEW f, NEW r, NEW defs, NEW uses, NEW loops
  PROVE  IsPinOf(ValueInterval(f, r, defs, uses, loops), f, r)
<1>1. \A v, st, ed, type, a, b, c, d, e, g :
        LET i == [Interval(v, st, ed, type) EXCEPT !.pin = a, !.onStack = b, !.uses = c, !.num = d, !.den = e, !.data = g]
        IN i.type = type /\ i.onStack = b /\ i.pin = a
  BY DEF Interval
<1>2. QED
  BY <1>1 DEF ValueInterval, IsPinOf, NumberOf

\* Arguments in registers have different ones.
LEMMA ArgumentNumbers ==
  ASSUME NEW f, AllocatorExpects(f), NEW r \in ToSet(f.args)
  PROVE  NumberOf(f, r) \in Nat /\ 1 <= NumberOf(f, r) /\ f.args[NumberOf(f, r)] = r
<1>1. f.args \in Seq(Nat)
  BY DEF AllocatorExpects
<1>2. \E k \in DOMAIN f.args : f.args[k] = r
  BY DEF ToSet
<1>3. NumberOf(f, r) \in DOMAIN f.args /\ f.args[NumberOf(f, r)] = r
  BY <1>2 DEF NumberOf
<1>4. QED
  BY <1>1, <1>3

\* A site has a point of its own.
LEMMA PointsDiffer ==
  ASSUME NEW f, AllocatorExpects(f), NEW first, InOrder(f, first),
         NEW s \in Sites(f), NEW t \in Sites(f), Point(first, s) = Point(first, t)
  PROVE  s = t
<1>1. /\ s[1] \in BlocksOf(f) /\ s[1] \in DOMAIN f.code /\ s[2] \in 1..Len(f.code[s[1]]) /\ s = <<s[1], s[2]>>
      /\ t[1] \in BlocksOf(f) /\ t[1] \in DOMAIN f.code /\ t[2] \in 1..Len(f.code[t[1]]) /\ t = <<t[1], t[2]>>
  BY SitesShape, ExpectedShape
<1>2. first[s[1]] \in Nat /\ first[t[1]] \in Nat /\ Len(f.code[s[1]]) \in Nat /\ Len(f.code[t[1]]) \in Nat
  BY <1>1, ExpectedShape DEF InOrder
<1>3. first[s[1]] + s[2] - 1 = first[t[1]] + t[2] - 1
  BY DEF Point
<1>4. s[1] = t[1]
  <2> SUFFICES ASSUME s[1] # t[1]
               PROVE  FALSE
    OBVIOUS
  <2>1. Ahead(f, first, s[1], t[1]) \/ Ahead(f, first, t[1], s[1])
    BY <1>1 DEF InOrder
  <2> DEFINE a == first[s[1]]
             b == first[t[1]]
             p == Len(f.code[s[1]])
             q == Len(f.code[t[1]])
             m == s[2]
             n == t[2]
  <2>2. a \in Nat /\ b \in Nat /\ p \in Nat /\ q \in Nat /\ m \in 1..p /\ n \in 1..q /\ a + m - 1 = b + n - 1
        /\ (a + p <= b \/ b + q <= a)
    BY <1>1, <1>2, <1>3, <2>1 DEF Ahead
  <2> HIDE DEF a, b, p, q, m, n
  <2>3. QED
    BY <2>2
<1>5. s[2] = t[2]
  BY <1>1, <1>2, <1>3, <1>4
<1>6. QED
  BY <1>1, <1>4, <1>5

\* A call's intervals are points, one for each register it clobbers.
LEMMA CallIntervalShape ==
  ASSUME NEW f, AllocatorExpects(f), NEW first, InOrder(f, first), NEW i \in CallIntervals(f, first)
  PROVE  /\ i.type = "call" /\ i.pin \in Clobbered /\ i.st \in Int /\ i.st = i.ed
         /\ \A j \in CallIntervals(f, first) : i.st = j.st /\ i.pin = j.pin => i = j
<1> DEFINE Held_(s, r) == [Interval(SiteOf(f, s).ops[1], Point(first, s), Point(first, s), "call") EXCEPT !.pin = r]
<1>1. \A v, st, ed, type, a : LET j == [Interval(v, st, ed, type) EXCEPT !.pin = a]
                              IN j.st = st /\ j.ed = ed /\ j.type = type /\ j.pin = a
  BY DEF Interval
<1>2. \A s, r : Held_(s, r).st = Point(first, s) /\ Held_(s, r).ed = Point(first, s)
                /\ Held_(s, r).type = "call" /\ Held_(s, r).pin = r
  BY <1>1
<1>3. \A j \in CallIntervals(f, first) : \E s \in Sites(f) : \E r \in Clobbered : j = Held_(s, r)
  BY DEF CallIntervals
<1> HIDE DEF Held_
<1>4. PICK s \in Sites(f), r \in Clobbered : i = Held_(s, r)
  BY <1>3
<1>5. ASSUME NEW j \in CallIntervals(f, first), i.st = j.st, i.pin = j.pin
      PROVE  i = j
  <2>1. PICK t \in Sites(f), q \in Clobbered : j = Held_(t, q)
    BY <1>3
  <2>2. Point(first, s) = Point(first, t) /\ r = q
    BY <1>2, <1>4, <1>5, <2>1
  <2>3. s = t
    BY <2>2, PointsDiffer
  <2>4. QED
    BY <1>4, <2>1, <2>2, <2>3
<1>6. Point(first, s) \in Int
  BY PointIsNumber
<1>7. QED
  BY <1>2, <1>4, <1>5, <1>6

\* The intervals of constants and globals are points.
LEMMA PointIntervalShape ==
  ASSUME NEW f, AllocatorExpects(f), NEW first, InOrder(f, first), NEW i \in PointIntervals(UsesIn(f, first))
  PROVE  i.type \in {"global", "imm"} /\ i.st \in Int /\ i.st = i.ed
<1>1. \A v, st, ed, type, a : LET j == [Interval(v, st, ed, type) EXCEPT !.uses = a]
                              IN j.st = st /\ j.ed = ed /\ j.type = type
  BY DEF Interval
<1>2. PICK u \in UsesIn(f, first) :
        \E a : i = [Interval(u[1], u[2], u[2], IF u[1][1] = "const" THEN "imm" ELSE "global") EXCEPT !.uses = a]
  BY DEF PointIntervals
<1>3. i.st = u[2] /\ i.ed = u[2] /\ i.type = IF u[1][1] = "const" THEN "imm" ELSE "global"
  BY <1>1, <1>2
<1>4. u[2] \in Int
  <2>1. \E s \in Sites(f) : u[2] = Point(first, s)
    BY DEF UsesIn
  <2>2. QED
    BY <2>1, PointIsNumber
<1>5. QED
  BY <1>3, <1>4

\* The three kinds of intervals.
LEMMA KindsOfIntervals ==
  ASSUME NEW f, AllocatorExpects(f), NEW i \in IntervalsOf(f)
  PROVE  \/ i \in CallIntervals(f, FirstPoints(f)) \/ i \in PointIntervals(UsesIn(f, FirstPoints(f)))
         \/ \E r : /\ i = ValueInterval(f, r, Definitions(f, FirstPoints(f)), UsesIn(f, FirstPoints(f)),
                                        LoopSet(f, FirstPoints(f)))
                   /\ r \in ToSet(f.args) \/ DefPoints(f, FirstPoints(f), r) # {}
<1> DEFINE first == FirstPoints(f)
<1>1. \A d \in Definitions(f, first) : DefPoints(f, first, d[1]) # {}
  BY DEF DefPoints
<1> HIDE DEF first
<1>2. \/ i \in CallIntervals(f, first) \/ i \in PointIntervals(UsesIn(f, first))
      \/ \E r \in ToSet(f.args) \cup {d[1] : d \in Definitions(f, first)} :
           i = ValueInterval(f, r, Definitions(f, first), UsesIn(f, first), LoopSet(f, first))
  BY DEF IntervalsOf, first
<1>3. QED
  BY <1>1, <1>2 DEF first

\* linear_scan_reg_alloc.cpp:1246-1480: what live_interval_analysis makes of a
\* function is what the scan takes for granted: no interval ends before it
\* begins, a call is a point and holds a register once, and two arguments do
\* not come in one register.
THEOREM IntervalsAreWellformed ==
  ASSUME NEW f, AllocatorExpects(f)
  PROVE  Wellformed(IntervalsOf(f))
<1> DEFINE first == FirstPoints(f)
           Value_(r) == ValueInterval(f, r, Definitions(f, first), UsesIn(f, first), LoopSet(f, first))
<1>1. InOrder(f, first)
  BY FirstPointsInOrder
<1>2. \A i \in IntervalsOf(f) :
        \/ i \in CallIntervals(f, first) \/ i \in PointIntervals(UsesIn(f, first))
        \/ \E r : i = Value_(r) /\ (r \in ToSet(f.args) \/ DefPoints(f, first, r) # {})
  BY KindsOfIntervals
<1>3. \A r : IsPinOf(Value_(r), f, r)
  BY ValueIntervalPin
<1>4. \A r : r \in ToSet(f.args) \/ DefPoints(f, first, r) # {} =>
               Value_(r).st \in Int /\ Value_(r).ed \in Int /\ Value_(r).st <= Value_(r).ed
  BY <1>1, ValueIntervalEnds
<1> HIDE DEF first, Value_
<1>5. ASSUME NEW i \in IntervalsOf(f)
      PROVE  /\ i.st \in Int /\ i.ed \in Int /\ i.st <= i.ed
             /\ i.type = "call" => i.pin \in Clobbered /\ i.st = i.ed /\ i \in CallIntervals(f, first)
             /\ i.type = "arg" => \E r \in ToSet(f.args) : i = Value_(r)
             /\ i.type = "arg" /\ ~i.onStack => i.pin \in 0..(ArgRegs - 1)
             /\ i.type \in {"local", "arg", "call", "global", "imm"}
  <2>1. CASE i \in CallIntervals(f, first)
    BY <1>1, <2>1, CallIntervalShape
  <2>2. CASE i \in PointIntervals(UsesIn(f, first))
    BY <1>1, <2>2, PointIntervalShape
  <2>3. CASE \E r : i = Value_(r) /\ (r \in ToSet(f.args) \/ DefPoints(f, first, r) # {})
    <3>1. PICK r : i = Value_(r) /\ (r \in ToSet(f.args) \/ DefPoints(f, first, r) # {})
      BY <2>3
    <3>2. IsPinOf(i, f, r) /\ i.st \in Int /\ i.ed \in Int /\ i.st <= i.ed
      BY <1>3, <1>4, <3>1
    <3>3. i.type \in {"local", "arg"} /\ (i.type = "arg" => r \in ToSet(f.args))
      BY <3>2 DEF IsPinOf
    <3>4. ASSUME i.type = "arg", ~i.onStack
          PROVE  i.pin \in 0..(ArgRegs - 1)
      <4> DEFINE n == NumberOf(f, r)
      <4>1. n \in Nat /\ 1 <= n
        BY <3>3, <3>4, ArgumentNumbers
      <4>2. ~(n > ArgRegs) /\ i.pin = n - 1
        BY <3>2, <3>3, <3>4 DEF IsPinOf
      <4>3. ArgRegs \in Nat
        BY RegisterAssumption
      <4> HIDE DEF n
      <4>4. QED
        BY <4>1, <4>2, <4>3
    <3>5. QED
      BY <3>1, <3>2, <3>3, <3>4
  <2>4. QED
    BY <1>2, <2>1, <2>2, <2>3
<1>6. ASSUME NEW i \in IntervalsOf(f), NEW j \in IntervalsOf(f), i # j, i.pin = j.pin
      PROVE  /\ ~(i.type = "call" /\ j.type = "call" /\ i.st = j.st)
             /\ ~(i.type = "arg" /\ j.type = "arg" /\ ~i.onStack /\ ~j.onStack)
  <2>1. ~(i.type = "call" /\ j.type = "call" /\ i.st = j.st)
    BY <1>1, <1>5, <1>6, CallIntervalShape
  <2>2. ASSUME i.type = "arg", j.type = "arg", ~i.onStack, ~j.onStack
        PROVE  FALSE
    <3>1. PICK r \in ToSet(f.args), q \in ToSet(f.args) : i = Value_(r) /\ j = Value_(q)
      BY <1>5, <2>2
    <3> DEFINE m == NumberOf(f, r)
               n == NumberOf(f, q)
    <3>2. m \in Nat /\ n \in Nat /\ f.args[m] = r /\ f.args[n] = q
      BY ArgumentNumbers
    <3>3. IsPinOf(i, f, r) /\ IsPinOf(j, f, q)
      BY <1>3, <3>1
    <3>4. i.pin = m - 1 /\ j.pin = n - 1
      BY <2>2, <3>3 DEF IsPinOf
    <3> HIDE DEF m, n
    <3>5. m = n
      <4>1. m - 1 = n - 1 /\ m \in Nat /\ n \in Nat
        BY <1>6, <3>2, <3>4
      <4>2. QED
        BY <4>1
    <3>6. r = q
      BY <3>2, <3>5
    <3>7. QED
      BY <1>6, <3>1, <3>6
  <2>3. QED
    BY <2>1, <2>2
<1>7. QED
  BY <1>5, <1>6 DEF Wellformed

----------------------------------------------------------------------------
(* The back end.                                                           *)

\* The functions still without registers are functions of the unit, and there
\* is one while registers are given.
Ordered ==
  /\ unit \in Units /\ todo \in Seq(ToSet(unit.names))
  /\ stopped # "idle" => todo # <<>>

\* The scan goes on only while it runs.
LEMMA ScanIsBusy ==
  ASSUME ScanNext
  PROVE  stopped = "no"
BY DEF ScanNext, PlaceArgument, Reserve, Take, TryRegister, Narrow, Decide, NoRegister, Count,
       Heaviest, Ready, Searching

\* The invariant of the stages.
LEMMA ToDo ==
  BackEndSpec => []Ordered
<1>1. BackEndInit => Ordered
  BY UnitsAssumption DEF BackEndInit, Ordered
<1>2. Ordered /\ [BackEndNext]_vars => Ordered'
  <2> SUFFICES ASSUME Ordered, [BackEndNext]_vars
               PROVE  Ordered'
    OBVIOUS
  <2>1. CASE FinishFunction
    <3>1. unit' = unit /\ todo # <<>>
      BY <2>1 DEF FinishFunction, Ordered
    <3>2. \/ todo' = Tail(todo) /\ stopped' = "idle"
          \/ todo' = todo
      BY <2>1 DEF FinishFunction, Keep, Unscanned
    <3>3. Tail(todo) \in Seq(ToSet(unit.names))
      BY <3>1 DEF Ordered
    <3>4. QED
      BY <3>1, <3>2, <3>3 DEF Ordered
  <2>2. CASE BeginFunction
    BY <2>2 DEF BeginFunction, Ordered
  <2>3. CASE Scan
    BY <2>3, ScanIsBusy DEF Scan, Ordered
  <2>4. CASE UNCHANGED <<unit, todo, stopped>>
    BY <2>4 DEF Ordered
  <2>5. QED
    BY <2>1, <2>2, <2>3, <2>4 DEF BackEndNext, Assemble, StartRun, ArmRuns, MirRuns, BothShow, vars, scanVars
<1>3. QED
  BY <1>1, <1>2, PTL DEF BackEndSpec

\* linear_scan_reg_alloc.cpp:1246: for every unit whose functions are as RmPhi
\* leaves them, the one pair of points of each value, from one numbering of the
\* blocks and the loops it shows, covers every instruction the value is live at.
THEOREM LiveRangesCovered ==
  BackEndSpec => []LiveIsCovered
<1>1. Ordered => LiveIsCovered
  <2> SUFFICES ASSUME Ordered, todo # <<>>
               PROVE  IntervalsCover(F)
    BY DEF LiveIsCovered, IntervalsCover
  <2>1. Head(todo) \in ToSet(unit.names)
    BY DEF Ordered
  <2>2. AllocatorExpects(F)
    BY <2>1, UnitsAssumption DEF Ordered, Translated, F
  <2>3. QED
    BY <2>2, ExpectedIsCovered
<1>2. QED
  BY <1>1, ToDo, PTL

----------------------------------------------------------------------------
(* The scan, function by function.                                         *)

\* What waits, is being placed or has a register is of the set S.
Owned(S, all, one, lists) ==
  /\ all \subseteq S /\ one \in S \cup {NoInterval}
  /\ \A r \in Reg0 : \A k \in DOMAIN lists[r] : lists[r][k] \in S

\* Placing an interval of S,
LEMMA PlacedOwned ==
  ASSUME IInv, NEW S, NEW r, NEW i, Placed(r, i), i \in S, Owned(S, waiting, cur, regs)
  PROVE  \A q \in Reg0 : \A k \in DOMAIN regs'[q] : regs'[q][k] \in S
<1>1. r \in Reg0 /\ i \in Asked /\ regs \in [Reg0 -> Seq(Asked)]
  BY DEF Placed, IInv, TypeOK
<1>2. PICK k \in 0..Len(regs[r]) : regs' = [regs EXCEPT ![r] = Insert(@, k, i)]
  BY DEF Placed
<1>3. regs[r] \in Seq(Asked) /\ Len(regs[r]) \in Nat /\ DOMAIN regs[r] = 1..Len(regs[r])
  BY <1>1
<1>4. regs'[r] = Insert(regs[r], k, i) /\ \A q \in Reg0 : q # r => regs'[q] = regs[q]
  BY <1>1, <1>2
<1>5. ASSUME NEW n \in DOMAIN regs'[r]
      PROVE  regs'[r][n] \in S
  <2> DEFINE m == Len(regs[r])
  <2>1. n \in 1..(m + 1)
        /\ regs'[r][n] = IF n <= k THEN regs[r][n] ELSE IF n = k + 1 THEN i ELSE regs[r][n - 1]
    <3> DEFINE list == regs[r]
    <3>1. list \in Seq(Asked) /\ k \in 0..Len(list) /\ regs'[r] = Insert(list, k, i) /\ n \in DOMAIN regs'[r]
      BY <1>3, <1>4
    <3> HIDE DEF list
    <3>2. /\ DOMAIN Insert(list, k, i) = 1..(Len(list) + 1)
          /\ \A p \in 1..(Len(list) + 1) :
               Insert(list, k, i)[p] = IF p <= k THEN list[p] ELSE IF p = k + 1 THEN i ELSE list[p - 1]
      BY <1>1, <3>1, InsertShape
    <3>3. QED
      BY <3>1, <3>2 DEF list
  <2>2. \A p \in 1..m : regs[r][p] \in S
    BY <1>1, <1>3 DEF Owned
  <2>3. CASE n <= k
    <3>1. n \in 1..m
      BY <1>3, <2>1, <2>3
    <3>2. QED
      BY <2>1, <2>2, <2>3, <3>1
  <2>4. CASE n = k + 1
    BY <1>3, <2>1, <2>4
  <2>5. CASE k + 1 < n
    <3>1. n - 1 \in 1..m /\ ~(n <= k) /\ n # k + 1
      BY <1>3, <2>1, <2>5
    <3>2. QED
      BY <2>1, <2>2, <3>1
  <2>6. QED
    BY <1>3, <2>1, <2>3, <2>4, <2>5
<1>6. QED
  BY <1>4, <1>5 DEF Owned

\* and any step of the scan keep to S.
LEMMA ScanOwned ==
  ASSUME IInv, ScanNext, NEW S, Owned(S, waiting, cur, regs)
  PROVE  Owned(S, waiting', cur', regs')
<1>1. waiting \subseteq S /\ cur \in S \cup {NoInterval}
  BY DEF Owned
<1>2. CASE UNCHANGED regs /\ waiting' \subseteq waiting /\ cur' \in S \cup {NoInterval}
  BY <1>1, <1>2 DEF Owned
<1>3. CASE PlaceArgument
  <2>1. PICK i \in waiting :
          /\ \/ UNCHANGED regs
             \/ \E k \in 0..Len(regs[i.pin + ArgRegs]) :
                  /\ FitsAfter(regs[i.pin + ArgRegs], k, i)
                  /\ regs' = [regs EXCEPT ![i.pin + ArgRegs] = Insert(@, k, i)]
          /\ InRegister(i) /\ waiting' = waiting \ {i}
    BY <1>3 DEF PlaceArgument
  <2>2. cur' = cur
    BY <1>3 DEF PlaceArgument
  <2>3. CASE UNCHANGED regs
    BY <1>1, <1>2, <2>1, <2>2, <2>3
  <2>4. CASE \E k \in 0..Len(regs[i.pin + ArgRegs]) :
               /\ FitsAfter(regs[i.pin + ArgRegs], k, i)
               /\ regs' = [regs EXCEPT ![i.pin + ArgRegs] = Insert(@, k, i)]
    <3>1. i \in Asked
      BY DEF IInv, TypeOK
    <3>2. i.pin + ArgRegs \in Reg0
      BY <2>1, <3>1, AskedShape, RegisterNumbers
    <3>3. Placed(i.pin + ArgRegs, i)
      BY <2>4, <3>1, <3>2 DEF Placed
    <3>4. \A q \in Reg0 : \A k \in DOMAIN regs'[q] : regs'[q][k] \in S
      BY <1>1, <3>3, PlacedOwned
    <3>5. QED
      BY <1>1, <2>1, <2>2, <3>4 DEF Owned
  <2>5. QED
    BY <2>1, <2>3, <2>4
<1>4. CASE Reserve
  <2>1. waiting' \subseteq waiting /\ cur' = cur
    BY <1>4 DEF Reserve
  <2>2. PICK i \in waiting : Placed(i.pin, i)
    BY <1>4, ReservePlaces
  <2>3. \A q \in Reg0 : \A k \in DOMAIN regs'[q] : regs'[q][k] \in S
    BY <1>1, <2>2, PlacedOwned
  <2>4. QED
    BY <1>1, <2>1, <2>3 DEF Owned
<1>5. CASE Take
  <2>1. UNCHANGED regs /\ waiting' \subseteq waiting /\ cur' \in waiting
    BY <1>5 DEF Take
  <2>2. QED
    BY <1>1, <1>2, <2>1
<1>6. CASE TryRegister \/ Decide
  <2>1. CASE Placed(reg, cur) /\ cur' = NoInterval /\ UNCHANGED waiting
    <3>1. cur \in S
      BY <1>1, <1>6, SearchSteps DEF Searching
    <3>2. \A q \in Reg0 : \A k \in DOMAIN regs'[q] : regs'[q][k] \in S
      BY <2>1, <3>1, PlacedOwned
    <3>3. QED
      BY <1>1, <2>1, <3>2 DEF Owned
  <2>2. CASE UNCHANGED <<regs, waiting, cur>>
    BY <1>1, <1>2, <2>2
  <2>3. QED
    BY <1>6, <2>1, <2>2, SearchSteps DEF Conflict
<1>7. CASE Narrow \/ NoRegister \/ Count
  <2>1. UNCHANGED <<regs, waiting>> /\ cur' \in {cur, NoInterval}
    BY <1>7 DEF Narrow, NoRegister, Count
  <2>2. QED
    BY <1>1, <1>2, <2>1
<1>8. QED
  BY <1>3, <1>4, <1>5, <1>6, <1>7 DEF ScanNext

\* The scan of a function starts as LinearScan says.
LEMMA StartIInv == Init' => IInv'
<1>1. Init => IInv
  BY InitIInv
<1>2. QED
  BY <1>1, PTL

\* While the current function is scanned, its intervals are what has registers
\* and the scan's own invariant holds.
Scanning == stopped \in {"no", "done", "full", "307"}

OfTheFunction == Scanning => IInv /\ Owned(IntervalsOf(F), waiting, cur, regs)

\* Each function is scanned by itself, from its own intervals.
LEMMA ScansTheFunction ==
  BackEndSpec => [](Ordered /\ OfTheFunction)
<1>1. BackEndInit => OfTheFunction
  BY DEF BackEndInit, OfTheFunction, Scanning
<1>2. ASSUME Ordered, OfTheFunction, [BackEndNext]_vars
      PROVE  OfTheFunction'
  <2>1. CASE BeginFunction
    <3>1. F \in UNION {Translated(u) : u \in Units}
      <4>1. todo # <<>> /\ Head(todo) \in ToSet(unit.names)
        BY <1>2, <2>1 DEF BeginFunction, Ordered
      <4>2. F \in Translated(unit) /\ unit \in Units
        BY <1>2, <4>1 DEF F, Translated, Ordered
      <4>3. QED
        BY <4>2
    <3>2. IntervalsOf(F) \in Problems
      BY <3>1, UnitsAssumption
    <3>3. StartScan(IntervalsOf(F)) /\ F' = F
      BY <2>1 DEF BeginFunction, F
    <3>4. Init'
      BY <3>2, <3>3 DEF StartScan, Init
    <3>5. IntervalsOf(F)' = IntervalsOf(F)
      BY <2>1 DEF BeginFunction, F
    <3>6. Owned(IntervalsOf(F), waiting', cur', regs')
      BY <3>3 DEF StartScan, Owned
    <3>7. QED
      BY <3>4, <3>5, <3>6, StartIInv DEF OfTheFunction
  <2>2. CASE Scan
    <3>1. stopped = "no" /\ ScanNext /\ UNCHANGED <<unit, todo>>
      BY <2>2, ScanIsBusy DEF Scan
    <3>2. IInv /\ Owned(IntervalsOf(F), waiting, cur, regs)
      BY <1>2, <3>1 DEF OfTheFunction, Scanning
    <3>3. IInv'
      BY <3>1, <3>2, NextIInv
    <3>4. Owned(IntervalsOf(F), waiting', cur', regs')
      BY <3>1, <3>2, ScanOwned
    <3>5. IntervalsOf(F)' = IntervalsOf(F)
      BY <3>1 DEF F
    <3>6. QED
      BY <3>3, <3>4, <3>5 DEF OfTheFunction
  <2>3. CASE FinishFunction
    <3>1. stopped' \in {"idle", "spill"}
      BY <2>3 DEF FinishFunction, Keep, Unscanned
    <3>2. QED
      BY <3>1 DEF OfTheFunction, Scanning
  <2>4. CASE UNCHANGED <<unit, todo, scanVars>>
    <3>1. IntervalsOf(F)' = IntervalsOf(F) /\ UNCHANGED scanVars
      BY <2>4 DEF F
    <3>2. IInv => IInv'
      BY <3>1, NextIInv
    <3>3. Scanning' = Scanning /\ waiting' = waiting /\ cur' = cur /\ regs' = regs
      BY <3>1 DEF Scanning, scanVars
    <3>4. QED
      BY <1>2, <3>1, <3>2, <3>3 DEF OfTheFunction
  <2>5. QED
    BY <1>2, <2>1, <2>2, <2>3, <2>4 DEF BackEndNext, Assemble, StartRun, ArmRuns, MirRuns, BothShow, vars
<1>3. QED
  BY <1>1, <1>2, ToDo, PTL DEF BackEndSpec

\* linear_scan_reg_alloc.cpp:359-545 and 1246: for every such unit, when the
\* scan of a function is done, what needs a register at an instruction does
\* not have the register of another value, constant or call needed there.
THEOREM ValuesNeverShare ==
  BackEndSpec => []ValuesKeepApart
<1>1. ASSUME Ordered, OfTheFunction, stopped = "done", NEW r \in Reg0,
             NEW j \in DOMAIN regs[r], NEW k \in DOMAIN regs[r], j # k
      PROVE  SitesOf(F, regs[r][j]) \cap SitesOf(F, regs[r][k]) = {}
  <2>1. IInv /\ Owned(IntervalsOf(F), waiting, cur, regs)
    BY <1>1 DEF OfTheFunction, Scanning
  <2>2. AllocatorExpects(F)
    <3>1. todo # <<>> /\ Head(todo) \in ToSet(unit.names)
      BY <1>1 DEF Ordered
    <3>2. QED
      BY <1>1, <3>1, UnitsAssumption DEF Ordered, Translated, F
  <2>3. regs[r] \in Seq(Asked) /\ Sorted(regs[r])
    BY <2>1 DEF IInv, TypeOK, ListsSorted
  <2>4. \A n \in DOMAIN regs[r] : /\ regs[r][n] \in IntervalsOf(F)
                                  /\ regs[r][n].st \in Int /\ regs[r][n].ed \in Int
    BY <2>1, <2>3, AskedShape DEF Owned
  <2>5. regs[r][j].ed < regs[r][k].st \/ regs[r][k].ed < regs[r][j].st
    <3>1. j \in Nat /\ k \in Nat
      BY <2>3
    <3>2. j < k \/ k < j
      BY <1>1, <3>1
    <3>3. QED
      BY <2>3, <3>2 DEF Sorted
  <2>6. SUFFICES ASSUME NEW s \in SitesOf(F, regs[r][j]), s \in SitesOf(F, regs[r][k])
                 PROVE  FALSE
    OBVIOUS
  <2> DEFINE p == Point(FirstPoints(F), s)
             a == regs[r][j]
             c == regs[r][k]
  <2>7. Covers(a, p) /\ Covers(c, p) /\ p \in Nat
    BY <2>2, <2>4, <2>6, NeededIsCovered
  <2>8. a.st \in Int /\ a.ed \in Int /\ c.st \in Int /\ c.ed \in Int /\ (a.ed < c.st \/ c.ed < a.st)
    BY <2>4, <2>5
  <2> HIDE DEF p, a, c
  <2>9. QED
    BY <2>7, <2>8 DEF Covers
<1>2. Ordered /\ OfTheFunction => ValuesKeepApart
  BY <1>1 DEF ValuesKeepApart, SitesOf
<1>3. QED
  BY <1>2, ScansTheFunction, PTL

----------------------------------------------------------------------------
(* The stack: what putting the loads and stores in leaves of it.           *)

FrameFields == {"size", "slots", "save", "used", "data"}

\* Allocation b has the frame of a.
Kept(a, b) == DOMAIN b = DOMAIN a /\ \A x \in FrameFields : b[x] = a[x]

\* The state of what goes around one instruction.
Around(a, s) == DOMAIN s = {"a", "before", "after"} /\ Kept(a, s.a)

\* Borrowing a register for a value
LEMMA BorrowKeeps ==
  ASSUME NEW a, FrameFields \subseteq DOMAIN a, NEW s, Around(a, s), NEW v, NEW at, NEW k
  PROVE  Around(a, Borrow(s, v, at, k))
<1> DEFINE t == Borrow(s, v, at, k)
<1>1. /\ DOMAIN s = {"a", "before", "after"} /\ DOMAIN s.a = DOMAIN a
      /\ \A x \in FrameFields : s.a[x] = a[x] /\ x \in DOMAIN a
  BY DEF Around, Kept
<1>2. \/ \E n : t = [s EXCEPT !.a.error = n]
      \/ \E r, x, y, z, b, c : t = [a |-> [s.a EXCEPT !.use[r] = x, !.regs[r] = y, !.v2reg = z],
                                    before |-> b, after |-> c]
  <2> DEFINE r == GiveReg(s.a, at)
             w == IF ValueAt(s.a, r, at) = NoValue THEN v ELSE ValueAt(s.a, r, at)
             taken == w # v
             off == SlotOf(s.a, v, at)
             slot == s.a.save + 4 * k
             fromStack == v[1] = "reg"
             before == (IF taken THEN <<StoreOff(w, slot)>> ELSE <<>>)
                       \o (IF k > 0 /\ fromStack THEN <<LoadOff(w, off)>> ELSE <<>>)
             after  == (IF k = 0 THEN <<StoreOff(w, off)>> ELSE <<>>)
                       \o (IF taken THEN <<LoadOff(w, slot)>> ELSE <<>>)
             borrowed == [Interval(v, at, at, "local") EXCEPT !.uses = {at}]
             x == s.a.use[r] \cup {at}
             y == Append(s.a.regs[r], borrowed)
             z == Append(s.a.v2reg, [v |-> v, st |-> at, ed |-> at, reg |-> r])
             b == s.before \o before
             c == s.after \o after
             made == [a |-> [s.a EXCEPT !.use[r] = x, !.regs[r] = y, !.v2reg = z],
                      before |-> b, after |-> c]
             no == IF k = 0 THEN 308 ELSE 310
  <2>1. t = IF r = NoReg THEN [s EXCEPT !.a.error = no]
            ELSE IF (k = 0 \/ fromStack) /\ off = NoReg THEN [s EXCEPT !.a.error = 311] ELSE made
    BY Zenon DEF Borrow
  <2>2. \E q, x1, y1, z1, b1, c1 : made = [a |-> [s.a EXCEPT !.use[q] = x1, !.regs[q] = y1, !.v2reg = z1],
                                         before |-> b1, after |-> c1]
    <3> HIDE DEF r, x, y, z, b, c
    <3>1. QED OBVIOUS
  <2> HIDE DEF t, r, off, fromStack, no, made
  <2>3. QED BY <2>1, <2>2
<1> HIDE DEF t
<1>3. CASE \E n : t = [s EXCEPT !.a.error = n]
  <2>1. PICK n : t = [s EXCEPT !.a.error = n] BY <1>3
  <2>2. DOMAIN t = DOMAIN s /\ t.a = [s.a EXCEPT !.error = n] BY <1>1, <2>1
  <2>3. DOMAIN t.a = DOMAIN a /\ \A x \in FrameFields : t.a[x] = s.a[x] BY <1>1, <2>2 DEF FrameFields
  <2>4. QED BY <1>1, <2>2, <2>3 DEF Around, Kept, t
<1>4. CASE \E r, x, y, z, b, c : t = [a |-> [s.a EXCEPT !.use[r] = x, !.regs[r] = y, !.v2reg = z],
                                      before |-> b, after |-> c]
  <2>1. PICK r, x, y, z, b, c : t = [a |-> [s.a EXCEPT !.use[r] = x, !.regs[r] = y, !.v2reg = z],
                                     before |-> b, after |-> c]
    BY <1>4
  <2>2. DOMAIN t = {"a", "before", "after"} /\ t.a = [s.a EXCEPT !.use[r] = x, !.regs[r] = y, !.v2reg = z]
    BY <2>1
  <2>3. DOMAIN t.a = DOMAIN a /\ \A q \in FrameFields : t.a[q] = s.a[q] BY <1>1, <2>2 DEF FrameFields
  <2>4. QED BY <1>1, <2>2, <2>3 DEF Around, Kept, t
<1>5. QED BY <1>2, <1>3, <1>4

\* or looking whether it needs one changes nothing of the frame,
LEMMA ConsiderKeeps ==
  ASSUME NEW a, FrameFields \subseteq DOMAIN a, NEW s, Around(a, s), NEW v, NEW at, NEW k
  PROVE  Around(a, Consider(s, v, at, k))
<1> DEFINE t == [s EXCEPT !.a.error = 309]
<1>1. /\ DOMAIN s = {"a", "before", "after"} /\ DOMAIN s.a = DOMAIN a
      /\ \A x \in FrameFields : s.a[x] = a[x] /\ x \in DOMAIN a
  BY DEF Around, Kept
<1>2. Around(a, t)
  <2>1. DOMAIN t = DOMAIN s /\ t.a = [s.a EXCEPT !.error = 309] BY <1>1
  <2>2. DOMAIN t.a = DOMAIN a /\ \A x \in FrameFields : t.a[x] = s.a[x] BY <1>1, <2>1 DEF FrameFields
  <2>3. QED BY <1>1, <2>1, <2>2 DEF Around, Kept
<1>3. Consider(s, v, at, k) \in {s, t, Borrow(s, v, at, k)} BY DEF Consider
<1>4. QED BY <1>2, <1>3, BorrowKeeps

\* so that neither does doing it for all operands of an instruction,
Considering(a, values, at, n, g) ==
  g = [k \in 0..n |-> IF k = 0 THEN [a |-> a, before |-> <<>>, after |-> <<>>]
                      ELSE Consider(g[k - 1], values[k], at, k - 1)]

LEMMA ConsideringExists ==
  ASSUME NEW a, FrameFields \subseteq DOMAIN a, NEW values, NEW at
  PROVE  \A n \in Nat : \E g : Considering(a, values, at, n, g)
<1> DEFINE T == {n \in Nat : \E g : Considering(a, values, at, n, g)}
           start == [a |-> a, before |-> <<>>, after |-> <<>>]
<1>1. 0 \in T
  <2> DEFINE g == [k \in 0..0 |-> start]
  <2>1. \A k \in 0..0 : k = 0 OBVIOUS
  <2>2. Considering(a, values, at, 0, g) BY <2>1 DEF Considering
  <2>3. QED BY <2>2
<1>2. ASSUME NEW n \in Nat, n \in T PROVE n + 1 \in T
  <2>1. PICK h : Considering(a, values, at, n, h) BY <1>2
  <2> DEFINE g == [k \in 0..(n + 1) |-> IF k = n + 1 THEN Consider(h[n], values[n + 1], at, n) ELSE h[k]]
             e(k) == IF k = 0 THEN start ELSE Consider(g[k - 1], values[k], at, k - 1)
  <2>2. \A k \in 0..n : h[k] = IF k = 0 THEN start ELSE Consider(h[k - 1], values[k], at, k - 1)
    <3> HIDE DEF start
    <3>1. h = [k \in 0..n |-> IF k = 0 THEN start ELSE Consider(h[k - 1], values[k], at, k - 1)]
      BY <2>1 DEF Considering, start
    <3>2. QED BY <3>1
  <2>3. ASSUME NEW k \in 0..(n + 1) PROVE g[k] = e(k)
    <3>1. CASE k = n + 1
      <4>1. k - 1 = n /\ n \in 0..(n + 1) /\ n # n + 1 /\ k # 0 BY <3>1
      <4>2. g[k - 1] = h[n] BY <4>1
      <4> HIDE DEF start
      <4>3. QED BY <3>1, <4>1, <4>2
    <3>2. CASE k # n + 1
      <4>1. k \in 0..n BY <3>2
      <4>2. CASE k = 0 BY <2>2, <3>2, <4>1, <4>2
      <4>3. CASE k # 0
        <5>1. k - 1 \in 0..(n + 1) /\ k - 1 # n + 1 BY <4>1, <4>3
        <5>2. g[k - 1] = h[k - 1] BY <5>1
        <5> HIDE DEF start
        <5>3. QED BY <2>2, <3>2, <4>1, <4>3, <5>2
      <4>4. QED BY <4>2, <4>3
    <3>3. QED BY <3>1, <3>2
  <2>4. g = [k \in 0..(n + 1) |-> g[k]] OBVIOUS
  <2> HIDE DEF g
  <2>5. Considering(a, values, at, n + 1, g) BY <2>3, <2>4 DEF Considering
  <2>6. QED BY <2>5
<1> HIDE DEF T
<1>3. \A n \in Nat : n \in T BY <1>1, <1>2, Induction
<1>4. QED BY <1>3 DEF T

LEMMA ConsideredKeeps ==
  ASSUME NEW a, FrameFields \subseteq DOMAIN a, NEW values, Len(values) \in Nat, NEW at
  PROVE  Around(a, Considered(a, values, at))
<1> DEFINE m == Len(values)
           g == CHOOSE h : Considering(a, values, at, m, h)
           S == {k \in Nat : k <= m => Around(a, g[k])}
<1>1. Considering(a, values, at, m, g) BY ConsideringExists
<1>2. Considered(a, values, at) = g[m] BY DEF Considered, Considering
<1>3. m \in Nat OBVIOUS
<1> HIDE DEF m, g
<1>4. \A k \in 0..m : g[k] = IF k = 0 THEN [a |-> a, before |-> <<>>, after |-> <<>>]
                             ELSE Consider(g[k - 1], values[k], at, k - 1)
  BY <1>1 DEF Considering
<1>5. 0 \in S
  <2>1. g[0] = [a |-> a, before |-> <<>>, after |-> <<>>] BY <1>3, <1>4
  <2>2. QED BY <2>1 DEF Around, Kept
<1>6. ASSUME NEW k \in Nat, k \in S PROVE k + 1 \in S
  <2> SUFFICES ASSUME k + 1 <= m PROVE Around(a, g[k + 1]) OBVIOUS
  <2>1. k + 1 \in 0..m /\ k + 1 # 0 /\ (k + 1) - 1 = k /\ k <= m BY <1>3
  <2>2. g[k + 1] = Consider(g[k], values[k + 1], at, k) BY <1>4, <2>1
  <2>3. Around(a, g[k]) BY <1>6, <2>1
  <2>4. QED BY <2>2, <2>3, ConsiderKeeps
<1> HIDE DEF S
<1>7. \A k \in Nat : k \in S BY <1>5, <1>6, Induction
<1>8. QED BY <1>2, <1>3, <1>7 DEF S

\* an instruction put into its block,
LEMMA SpillAtKeeps ==
  ASSUME NEW a, FrameFields \subseteq DOMAIN a, NEW c, Kept(a, c), NEW f, NEW first, NEW b, NEW k,
         f.code[b][k].ops \in Seq(ToSet(f.code[b][k].ops))
  PROVE  Kept(a, SpillAt(c, f, first, b, k))
<1> DEFINE i == f.code[b][k]
           at == first[b] + k - 1
           values == <<IF i.r = 0 THEN NoValue ELSE Reg(i.r)>> \o i.ops
           x == AroundInstruction(c, i, at)
           y == [x.a EXCEPT !.code[b] = @ \o x.code]
<1>1. DOMAIN c = DOMAIN a /\ FrameFields \subseteq DOMAIN c /\ \A q \in FrameFields : c[q] = a[q] BY DEF Kept
<1>2. Len(values) \in Nat
  <2> DEFINE v == IF i.r = 0 THEN NoValue ELSE Reg(i.r)
             ops == i.ops
  <2>1. ops \in Seq(ToSet(ops) \cup {v})
    <3>1. ops \in Seq(ToSet(ops)) OBVIOUS
    <3> HIDE DEF ops, v
    <3>2. QED BY <3>1
  <2>2. <<v>> \in Seq(ToSet(ops) \cup {v}) OBVIOUS
  <2> HIDE DEF ops, v
  <2>3. <<v>> \o ops \in Seq(ToSet(ops) \cup {v}) BY <2>1, <2>2
  <2>4. Len(<<v>> \o ops) \in Nat BY <2>3
  <2>5. QED BY <2>4 DEF ops, v
<1>3. Around(c, Considered(c, values, at))
  <2> HIDE DEF values, at
  <2>1. QED BY <1>1, <1>2, ConsideredKeeps
<1>4. x.a = c \/ x.a = Considered(c, values, at).a
  <2> HIDE DEF at
  <2>1. CASE i.op \in {"call", "gep", "br"}
    <3>1. x = [a |-> c, code |-> <<Tagged(i, at)>>] BY <2>1 DEF AroundInstruction
    <3>2. QED BY <3>1
  <2>2. CASE i.op \notin {"call", "gep", "br"}
    <3> DEFINE s == Considered(c, values, at)
               code == [n \in DOMAIN s.before |-> Tagged(s.before[n], at)]
                       \o <<Tagged(i, at)>>
                       \o [n \in DOMAIN s.after |-> Tagged(s.after[n], at)]
    <3>1. x = [a |-> s.a, code |-> code] BY <2>2 DEF AroundInstruction
    <3> HIDE DEF s, code, x
    <3>2. x.a = s.a BY <3>1
    <3>3. QED BY <3>2 DEF s
  <2>3. QED BY <2>1, <2>2
<1>5. Kept(c, x.a) BY <1>3, <1>4 DEF Around, Kept
<1>6. SpillAt(c, f, first, b, k) = y BY DEF SpillAt
<1> HIDE DEF x
<1>7. DOMAIN y = DOMAIN x.a /\ \A q \in FrameFields : y[q] = x.a[q] BY <1>1, <1>5 DEF Kept, FrameFields
<1> HIDE DEF y
<1>8. QED BY <1>1, <1>5, <1>6, <1>7 DEF Kept

\* the instructions of a block,
Spilling(a, f, first, b, n, g) ==
  g = [k \in 0..n |-> IF k = 0 THEN a ELSE SpillAt(g[k - 1], f, first, b, k)]

LEMMA SpillingExists ==
  ASSUME NEW a, NEW f, NEW first, NEW b
  PROVE  \A n \in Nat : \E g : Spilling(a, f, first, b, n, g)
<1> DEFINE T == {n \in Nat : \E g : Spilling(a, f, first, b, n, g)}
<1>1. 0 \in T
  <2> DEFINE g == [k \in 0..0 |-> a]
  <2>1. \A k \in 0..0 : k = 0 OBVIOUS
  <2>2. Spilling(a, f, first, b, 0, g) BY <2>1 DEF Spilling
  <2>3. QED BY <2>2
<1>2. ASSUME NEW n \in Nat, n \in T PROVE n + 1 \in T
  <2>1. PICK h : Spilling(a, f, first, b, n, h) BY <1>2
  <2> DEFINE g == [k \in 0..(n + 1) |-> IF k = n + 1 THEN SpillAt(h[n], f, first, b, n + 1) ELSE h[k]]
             e(k) == IF k = 0 THEN a ELSE SpillAt(g[k - 1], f, first, b, k)
  <2>2. \A k \in 0..n : h[k] = IF k = 0 THEN a ELSE SpillAt(h[k - 1], f, first, b, k)
    BY <2>1 DEF Spilling
  <2>3. ASSUME NEW k \in 0..(n + 1) PROVE g[k] = e(k)
    <3>1. CASE k = n + 1
      <4>1. k - 1 = n /\ n \in 0..(n + 1) /\ n # n + 1 /\ k # 0 BY <3>1
      <4>2. g[k - 1] = h[n] BY <4>1
      <4>3. QED BY <3>1, <4>1, <4>2
    <3>2. CASE k # n + 1
      <4>1. k \in 0..n BY <3>2
      <4>2. CASE k = 0 BY <2>2, <3>2, <4>1, <4>2
      <4>3. CASE k # 0
        <5>1. k - 1 \in 0..(n + 1) /\ k - 1 # n + 1 BY <4>1, <4>3
        <5>2. g[k - 1] = h[k - 1] BY <5>1
        <5>3. QED BY <2>2, <3>2, <4>1, <4>3, <5>2
      <4>4. QED BY <4>2, <4>3
    <3>3. QED BY <3>1, <3>2
  <2>4. g = [k \in 0..(n + 1) |-> g[k]] OBVIOUS
  <2> HIDE DEF g
  <2>5. Spilling(a, f, first, b, n + 1, g) BY <2>3, <2>4 DEF Spilling
  <2>6. QED BY <2>5
<1> HIDE DEF T
<1>3. \A n \in Nat : n \in T BY <1>1, <1>2, Induction
<1>4. QED BY <1>3 DEF T

LEMMA SpillBlockKeeps ==
  ASSUME NEW a, FrameFields \subseteq DOMAIN a, NEW c, Kept(a, c), NEW f, AllocatorExpects(f), NEW first,
         NEW b \in ToSet(f.list)
  PROVE  Kept(a, SpillBlock(c, f, first, b))
<1> DEFINE m == Len(f.code[b])
           g == CHOOSE h : Spilling(c, f, first, b, m, h)
           S == {k \in Nat : k <= m => Kept(a, g[k])}
<1>1. b \in DOMAIN f.code /\ f.code \in Seq(Seq(AllInstrs(f)))
  BY DEF AllocatorExpects, ToSet
<1>2. f.code[b] \in Seq(AllInstrs(f)) BY <1>1
<1>3. m \in Nat BY <1>2
<1>4. \A k \in 1..m : f.code[b][k].ops \in Seq(ToSet(f.code[b][k].ops))
  <2>1. \A k \in 1..m : f.code[b][k] \in AllInstrs(f) BY <1>2
  <2>2. \A i \in AllInstrs(f) : i.ops \in Seq(ToSet(i.ops)) BY DEF AllocatorExpects
  <2>3. QED BY <2>1, <2>2
<1>5. Spilling(c, f, first, b, m, g) BY <1>3, SpillingExists
<1>6. SpillBlock(c, f, first, b) = g[m] BY DEF SpillBlock, Spilling
<1> HIDE DEF m, g
<1>7. \A k \in 0..m : g[k] = IF k = 0 THEN c ELSE SpillAt(g[k - 1], f, first, b, k)
  BY <1>5 DEF Spilling
<1>8. 0 \in S
  <2>1. g[0] = c BY <1>3, <1>7
  <2>2. QED BY <2>1
<1>9. ASSUME NEW k \in Nat, k \in S PROVE k + 1 \in S
  <2> SUFFICES ASSUME k + 1 <= m PROVE Kept(a, g[k + 1]) OBVIOUS
  <2>1. k + 1 \in 0..m /\ k + 1 \in 1..m /\ k + 1 # 0 /\ (k + 1) - 1 = k /\ k <= m BY <1>3
  <2>2. g[k + 1] = SpillAt(g[k], f, first, b, k + 1) BY <1>7, <2>1
  <2>3. Kept(a, g[k]) BY <1>9, <2>1
  <2>4. QED BY <1>4, <2>1, <2>2, <2>3, SpillAtKeeps
<1> HIDE DEF S
<1>10. \A k \in Nat : k \in S BY <1>8, <1>9, Induction
<1>11. QED BY <1>3, <1>6, <1>10 DEF S

\* and all blocks of the function.
SpillingBlocks(a, f, first, n, g) ==
  g = [k \in 0..n |-> IF k = 0 THEN a ELSE SpillBlock(g[k - 1], f, first, f.list[k])]

LEMMA SpillingBlocksExists ==
  ASSUME NEW a, NEW f, NEW first
  PROVE  \A n \in Nat : \E g : SpillingBlocks(a, f, first, n, g)
<1> DEFINE T == {n \in Nat : \E g : SpillingBlocks(a, f, first, n, g)}
<1>1. 0 \in T
  <2> DEFINE g == [k \in 0..0 |-> a]
  <2>1. \A k \in 0..0 : k = 0 OBVIOUS
  <2>2. SpillingBlocks(a, f, first, 0, g) BY <2>1 DEF SpillingBlocks
  <2>3. QED BY <2>2
<1>2. ASSUME NEW n \in Nat, n \in T PROVE n + 1 \in T
  <2>1. PICK h : SpillingBlocks(a, f, first, n, h) BY <1>2
  <2> DEFINE g == [k \in 0..(n + 1) |-> IF k = n + 1 THEN SpillBlock(h[n], f, first, f.list[n + 1]) ELSE h[k]]
             e(k) == IF k = 0 THEN a ELSE SpillBlock(g[k - 1], f, first, f.list[k])
  <2>2. \A k \in 0..n : h[k] = IF k = 0 THEN a ELSE SpillBlock(h[k - 1], f, first, f.list[k])
    BY <2>1 DEF SpillingBlocks
  <2>3. ASSUME NEW k \in 0..(n + 1) PROVE g[k] = e(k)
    <3>1. CASE k = n + 1
      <4>1. k - 1 = n /\ n \in 0..(n + 1) /\ n # n + 1 /\ k # 0 BY <3>1
      <4>2. g[k - 1] = h[n] BY <4>1
      <4>3. QED BY <3>1, <4>1, <4>2
    <3>2. CASE k # n + 1
      <4>1. k \in 0..n BY <3>2
      <4>2. CASE k = 0 BY <2>2, <3>2, <4>1, <4>2
      <4>3. CASE k # 0
        <5>1. k - 1 \in 0..(n + 1) /\ k - 1 # n + 1 BY <4>1, <4>3
        <5>2. g[k - 1] = h[k - 1] BY <5>1
        <5>3. QED BY <2>2, <3>2, <4>1, <4>3, <5>2
      <4>4. QED BY <4>2, <4>3
    <3>3. QED BY <3>1, <3>2
  <2>4. g = [k \in 0..(n + 1) |-> g[k]] OBVIOUS
  <2> HIDE DEF g
  <2>5. SpillingBlocks(a, f, first, n + 1, g) BY <2>3, <2>4 DEF SpillingBlocks
  <2>6. QED BY <2>5
<1> HIDE DEF T
<1>3. \A n \in Nat : n \in T BY <1>1, <1>2, Induction
<1>4. QED BY <1>3 DEF T

LEMMA SpillsKeep ==
  ASSUME NEW a, FrameFields \subseteq DOMAIN a, NEW f, AllocatorExpects(f), NEW first
  PROVE  Kept(a, InsertSpills(a, f, first))
<1> DEFINE m == Len(f.list)
           g == CHOOSE h : SpillingBlocks(a, f, first, m, h)
           S == {k \in Nat : k <= m => Kept(a, g[k])}
<1>1. f.list \in Seq(DOMAIN f.code) BY DEF AllocatorExpects
<1>2. m \in Nat /\ \A k \in 1..m : f.list[k] \in ToSet(f.list) BY <1>1 DEF ToSet
<1>3. SpillingBlocks(a, f, first, m, g) BY <1>2, SpillingBlocksExists
<1>4. InsertSpills(a, f, first) = g[m] BY DEF InsertSpills, SpillingBlocks
<1> HIDE DEF m, g
<1>5. \A k \in 0..m : g[k] = IF k = 0 THEN a ELSE SpillBlock(g[k - 1], f, first, f.list[k])
  BY <1>3 DEF SpillingBlocks
<1>6. 0 \in S
  <2>1. g[0] = a BY <1>2, <1>5
  <2>2. QED BY <2>1 DEF Kept
<1>7. ASSUME NEW k \in Nat, k \in S PROVE k + 1 \in S
  <2> SUFFICES ASSUME k + 1 <= m PROVE Kept(a, g[k + 1]) OBVIOUS
  <2>1. k + 1 \in 0..m /\ k + 1 \in 1..m /\ k + 1 # 0 /\ (k + 1) - 1 = k /\ k <= m BY <1>2
  <2>2. g[k + 1] = SpillBlock(g[k], f, first, f.list[k + 1]) BY <1>5, <2>1
  <2>3. Kept(a, g[k]) BY <1>7, <2>1
  <2>4. QED BY <1>2, <2>1, <2>2, <2>3, SpillBlockKeeps
<1> HIDE DEF S
<1>8. \A k \in Nat : k \in S BY <1>6, <1>7, Induction
<1>9. QED BY <1>2, <1>4, <1>8 DEF S

----------------------------------------------------------------------------
(* The stack: where things are put.                                        *)

\* Finitely many numbers have a bound.
LEMMA FiniteIsBounded ==
  ASSUME NEW S, S \subseteq Nat, IsFiniteSet(S)
  PROVE  \E b \in Nat : \A x \in S : x <= b
<1>1. PICK n \in Nat : ExistsSurjection(1..n, S) BY FS_NatSurjection
<1>2. PICK g \in Surjection(1..n, S) : TRUE BY <1>1 DEF ExistsSurjection
<1>3. g \in [1..n -> S] /\ \A x \in S : \E k \in 1..n : g[k] = x BY <1>2 DEF Surjection
<1> DEFINE T == {m \in Nat : \E b \in Nat : \A k \in 1..n : k <= m => g[k] <= b}
<1>4. 0 \in T
  <2>1. \A k \in 1..n : ~(k <= 0) OBVIOUS
  <2>2. QED BY <2>1
<1>5. ASSUME NEW m \in Nat, m \in T PROVE m + 1 \in T
  <2> SUFFICES \E b \in Nat : \A k \in 1..n : k <= m + 1 => g[k] <= b OBVIOUS
  <2>1. PICK b \in Nat : \A k \in 1..n : k <= m => g[k] <= b BY <1>5
  <2>2. CASE m + 1 \in 1..n
    <3> DEFINE c == g[m + 1]
    <3>1. c \in Nat BY <1>3, <2>2
    <3> HIDE DEF c
    <3>2. b + c \in Nat /\ b <= b + c /\ c <= b + c BY <3>1
    <3>3. ASSUME NEW k \in 1..n, k <= m + 1 PROVE g[k] <= b + c
      <4>1. g[k] \in Nat BY <1>3
      <4>2. CASE k = m + 1 BY <3>2, <4>2 DEF c
      <4>3. CASE k <= m
        <5> DEFINE d == g[k]
        <5>1. d <= b /\ d \in Nat BY <2>1, <4>1, <4>3
        <5> HIDE DEF d
        <5>2. d <= b + c BY <3>1, <3>2, <5>1
        <5>3. QED BY <5>2 DEF d
      <4>4. QED BY <3>3, <4>2, <4>3
    <3> DEFINE d == b + c
    <3>4. d \in Nat /\ \A k \in 1..n : k <= m + 1 => g[k] <= d BY <3>2, <3>3
    <3> HIDE DEF d
    <3>5. QED BY <3>4
  <2>3. CASE m + 1 \notin 1..n
    <3>1. \A k \in 1..n : k <= m + 1 => k <= m BY <2>3
    <3>2. \A k \in 1..n : k <= m + 1 => g[k] <= b BY <2>1, <3>1
    <3>3. QED BY <3>2
  <2>4. QED BY <2>2, <2>3
<1> HIDE DEF T
<1>6. \A m \in Nat : m \in T BY <1>4, <1>5, Induction
<1>7. PICK b \in Nat : \A k \in 1..n : k <= n => g[k] <= b BY <1>6 DEF T
<1>8. \A k \in 1..n : g[k] <= b BY <1>7
<1>9. \A x \in S : x <= b BY <1>3, <1>8
<1>10. QED BY <1>9

\* A padded size is a number of words and no less than the size.
LEMMA PaddedShape ==
  ASSUME NEW n \in Nat
  PROVE  Padded(n) \in Nat /\ Padded(n) % 4 = 0 /\ n <= Padded(n)
BY DEF Padded

\* The room for variables, register by register,
RoomUpTo(f, owners, n, g) ==
  g = [r \in 0..n |-> IF r = 0 THEN 0 ELSE g[r - 1] + (IF r \in owners THEN Padded(f.bytes[r]) ELSE 0)]

LEMMA RoomExists ==
  ASSUME NEW f, NEW owners
  PROVE  \A n \in Nat : \E g : RoomUpTo(f, owners, n, g)
<1> DEFINE T == {n \in Nat : \E g : RoomUpTo(f, owners, n, g)}
           Add(x, r) == x + (IF r \in owners THEN Padded(f.bytes[r]) ELSE 0)
<1>1. 0 \in T
  <2> DEFINE g == [k \in 0..0 |-> 0]
  <2>1. \A k \in 0..0 : k = 0 OBVIOUS
  <2>2. RoomUpTo(f, owners, 0, g) BY <2>1 DEF RoomUpTo
  <2>3. QED BY <2>2
<1>2. ASSUME NEW n \in Nat, n \in T PROVE n + 1 \in T
  <2>1. PICK h : RoomUpTo(f, owners, n, h) BY <1>2
  <2> DEFINE g == [k \in 0..(n + 1) |-> IF k = n + 1 THEN Add(h[n], n + 1) ELSE h[k]]
             e(k) == IF k = 0 THEN 0 ELSE Add(g[k - 1], k)
  <2>2. \A k \in 0..n : h[k] = IF k = 0 THEN 0 ELSE Add(h[k - 1], k)
    BY <2>1 DEF RoomUpTo
  <2> HIDE DEF Add
  <2>3. ASSUME NEW k \in 0..(n + 1) PROVE g[k] = e(k)
    <3>1. CASE k = n + 1
      <4>1. k - 1 = n /\ n \in 0..(n + 1) /\ n # n + 1 /\ k # 0 BY <3>1
      <4>2. g[k - 1] = h[n] BY <4>1
      <4>3. QED BY <3>1, <4>1, <4>2
    <3>2. CASE k # n + 1
      <4>1. k \in 0..n BY <3>2
      <4>2. CASE k = 0 BY <2>2, <3>2, <4>1, <4>2
      <4>3. CASE k # 0
        <5>1. k - 1 \in 0..(n + 1) /\ k - 1 # n + 1 BY <4>1, <4>3
        <5>2. g[k - 1] = h[k - 1] BY <5>1
        <5>3. QED BY <2>2, <3>2, <4>1, <4>3, <5>2
      <4>4. QED BY <4>2, <4>3
    <3>3. QED BY <3>1, <3>2
  <2>4. g = [k \in 0..(n + 1) |-> g[k]] OBVIOUS
  <2> HIDE DEF g
  <2>5. RoomUpTo(f, owners, n + 1, g) BY <2>3, <2>4 DEF RoomUpTo, Add
  <2>6. QED BY <2>5
<1> HIDE DEF T
<1>3. \A n \in Nat : n \in T BY <1>1, <1>2, Induction
<1>4. QED BY <1>3 DEF T

\* is a number of words that grows from each to the next by what it takes.
Roomy(f, owners, room) ==
  LET top == Max(owners \cup {0})
  IN /\ top \in Nat /\ \A r \in owners : r \in 1..top
     /\ \A r \in 0..top : room[r] \in Nat /\ room[r] % 4 = 0
     /\ \A r \in 0..top : \A q \in 0..top : q <= r => room[q] <= room[r]
     /\ \A r \in owners : room[r - 1] + f.bytes[r] <= room[r]

LEMMA RoomShape ==
  ASSUME NEW f, NEW owners, IsFiniteSet(owners), \A r \in owners : r \in Nat \ {0} /\ f.bytes[r] \in Nat
  PROVE  Roomy(f, owners, Room(f, owners))
<1> DEFINE top == Max(owners \cup {0})
           g == CHOOSE h : RoomUpTo(f, owners, top, h)
           more(r) == IF r \in owners THEN Padded(f.bytes[r]) ELSE 0
           S == {r \in Nat : r <= top => g[r] \in Nat /\ g[r] % 4 = 0}
<1>1. top \in Nat /\ \A r \in owners : r \in 1..top
  <2> DEFINE V == owners \cup {0}
  <2>1. V \subseteq Nat /\ V \subseteq Int /\ V # {} /\ 0 \in V OBVIOUS
  <2>2. IsFiniteSet(V) BY FS_AddElement
  <2>3. PICK b \in Nat : \A x \in V : x <= b BY <2>1, <2>2, FiniteIsBounded
  <2>4. Max(V) \in V /\ \A x \in V : x <= Max(V) BY <2>1, <2>3, GreatestOfBounded
  <2>5. QED BY <2>1, <2>4
<1>2. RoomUpTo(f, owners, top, g) BY <1>1, RoomExists
<1>3. Room(f, owners) = g BY DEF Room, RoomUpTo
<1> HIDE DEF top, g
<1>4. \A r \in 0..top : g[r] = IF r = 0 THEN 0 ELSE g[r - 1] + more(r)
  BY <1>2 DEF RoomUpTo
<1>5. ASSUME NEW r PROVE more(r) \in Nat /\ more(r) % 4 = 0
  <2>1. CASE r \in owners BY <2>1, PaddedShape
  <2>2. CASE r \notin owners BY <2>2
  <2>3. QED BY <2>1, <2>2
<1>6. \A r \in owners : f.bytes[r] <= more(r) /\ f.bytes[r] \in Nat BY PaddedShape
<1> HIDE DEF more
<1>7. 0 \in S BY <1>1, <1>4
<1>8. ASSUME NEW r \in Nat, r \in S PROVE r + 1 \in S
  <2> SUFFICES ASSUME r + 1 <= top PROVE g[r + 1] \in Nat /\ g[r + 1] % 4 = 0 OBVIOUS
  <2> DEFINE x == g[r]
             y == more(r + 1)
  <2>1. x \in Nat /\ x % 4 = 0 BY <1>1, <1>8
  <2>2. y \in Nat /\ y % 4 = 0 BY <1>5
  <2>3. r + 1 \in 0..top /\ r + 1 # 0 /\ (r + 1) - 1 = r BY <1>1
  <2>4. g[r + 1] = x + y BY <1>4, <2>3
  <2> HIDE DEF x, y
  <2>5. x + y \in Nat /\ (x + y) % 4 = 0 BY <2>1, <2>2
  <2>6. QED BY <2>4, <2>5
<1>9. \A r \in Nat : r \in S
  <2> HIDE DEF S
  <2>1. QED BY <1>7, <1>8, Induction
<1>10. \A r \in 0..top : g[r] \in Nat /\ g[r] % 4 = 0 BY <1>1, <1>9
<1>11. ASSUME NEW q \in 0..top PROVE \A r \in 0..top : q <= r => g[q] <= g[r]
  <2> DEFINE U == {r \in Nat : r <= top /\ q <= r => g[q] <= g[r]}
  <2>1. 0 \in U
    <3>1. q <= 0 => q = 0 OBVIOUS
    <3>2. g[q] \in Nat BY <1>10
    <3>3. QED BY <3>1, <3>2
  <2>2. ASSUME NEW r \in Nat, r \in U PROVE r + 1 \in U
    <3> SUFFICES ASSUME r + 1 <= top, q <= r + 1 PROVE g[q] <= g[r + 1] OBVIOUS
    <3>1. r + 1 \in 0..top /\ r \in 0..top /\ r + 1 # 0 /\ (r + 1) - 1 = r BY <1>1
    <3>2. g[r + 1] = g[r] + more(r + 1) BY <1>4, <3>1
    <3>3. g[r] \in Nat /\ g[q] \in Nat /\ more(r + 1) \in Nat BY <1>5, <1>10, <3>1
    <3>4. CASE q <= r
      <4>1. g[q] <= g[r] BY <2>2, <3>1, <3>4
      <4>2. QED BY <3>2, <3>3, <4>1
    <3>5. CASE ~(q <= r)
      <4>1. q = r + 1 BY <3>5
      <4>2. QED BY <3>3, <4>1
    <3>6. QED BY <3>4, <3>5
  <2>3. \A r \in Nat : r \in U
    <3> HIDE DEF U
    <3>1. QED BY <2>1, <2>2, Induction
  <2>4. QED BY <1>1, <2>3
<1>12. ASSUME NEW r \in owners PROVE g[r - 1] + f.bytes[r] <= g[r]
  <2> DEFINE x == g[r - 1]
             y == f.bytes[r]
             z == more(r)
  <2>1. r \in 0..top /\ r # 0 /\ r - 1 \in 0..top BY <1>1
  <2>2. g[r] = x + z /\ x \in Nat BY <1>4, <1>10, <2>1
  <2>3. y <= z /\ y \in Nat /\ z \in Nat BY <1>5, <1>6
  <2> HIDE DEF x, y, z
  <2>4. x + y <= x + z BY <2>2, <2>3
  <2>5. QED BY <2>2, <2>4 DEF x, y
<1>13. QED BY <1>1, <1>3, <1>10, <1>11, <1>12 DEF Roomy, top

\* What an interval asks of the stack: a value that is the address of a variable
\* asks for the bytes of it.
LEMMA DataOfIntervals ==
  ASSUME NEW f, AllocatorExpects(f), NEW i \in IntervalsOf(f), i.data > 0
  PROVE  i.v[2] \in DOMAIN f.bytes
<1> DEFINE first == FirstPoints(f)
           Value_(r) == ValueInterval(f, r, Definitions(f, first), UsesIn(f, first), LoopSet(f, first))
<1>1. CASE i \in CallIntervals(f, first)
  <2>1. \A v, st, ed, type, a : [Interval(v, st, ed, type) EXCEPT !.pin = a].data = 0
    BY DEF Interval
  <2>2. \E v, st, ed, a : i = [Interval(v, st, ed, "call") EXCEPT !.pin = a]
    BY <1>1 DEF CallIntervals
  <2>3. QED BY <2>1, <2>2
<1>2. CASE i \in PointIntervals(UsesIn(f, first))
  <2>1. \A v, st, ed, type, a : [Interval(v, st, ed, type) EXCEPT !.uses = a].data = 0
    BY DEF Interval
  <2>2. \E v, st, ed, type, a : i = [Interval(v, st, ed, type) EXCEPT !.uses = a]
    BY <1>2 DEF PointIntervals
  <2>3. QED BY <2>1, <2>2
<1>3. CASE \E r : i = Value_(r)
  <2>1. PICK r : i = Value_(r) BY <1>3
  <2>2. \A v, st, ed, type, a, b, c, d, e, g :
          LET j == [Interval(v, st, ed, type) EXCEPT !.pin = a, !.onStack = b, !.uses = c, !.num = d, !.den = e, !.data = g]
          IN j.v = v /\ j.data = g
    BY DEF Interval
  <2>3. i.v = Reg(r) /\ i.data = (IF r \in DOMAIN f.bytes THEN f.bytes[r] ELSE 0)
    BY <2>1, <2>2 DEF ValueInterval
  <2>4. QED BY <2>3 DEF Reg
<1>4. QED BY <1>1, <1>2, <1>3, KindsOfIntervals

\* The arguments on the stack are numbered from 0 on, one for each number.
CountedFromZero(args) ==
  /\ IsFiniteSet(args) /\ Cardinality(args) \in Nat
  /\ \A i \in args : i.pin \in Nat /\ i.pin < Cardinality(args) /\ i.st \in Int /\ i.ed \in Int
  /\ \A i, j \in args : i.pin = j.pin => i = j

LEMMA StackArgumentsNumbered ==
  ASSUME NEW f, AllocatorExpects(f)
  PROVE  CountedFromZero(StackArguments(IntervalsOf(f)))
<1> DEFINE A == StackArguments(IntervalsOf(f))
           first == FirstPoints(f)
           Value_(r) == ValueInterval(f, r, Definitions(f, first), UsesIn(f, first), LoopSet(f, first))
           last == Len(f.args)
           N == last - ArgRegs
           P == 0..(N - 1)
           g == [p \in P |-> Value_(f.args[p + ArgRegs + 1])]
<1>1. InOrder(f, first) BY FirstPointsInOrder
<1>2. ArgRegs \in Nat BY RegisterAssumption
<1>3. /\ last \in Nat /\ DOMAIN f.args = 1..last /\ \A n \in 1..last : f.args[n] \in ToSet(f.args)
      /\ \A m, n \in 1..last : f.args[m] = f.args[n] => m = n
  <2>1. f.args \in Seq(Nat) /\ \A j, k \in DOMAIN f.args : f.args[j] = f.args[k] => j = k
    BY DEF AllocatorExpects
  <2>2. QED BY <2>1 DEF ToSet
<1>4. \A r \in ToSet(f.args) : Value_(r) \in IntervalsOf(f) BY DEF IntervalsOf
<1>5. ASSUME NEW i \in A
      PROVE \E r \in ToSet(f.args) : i = Value_(r) /\ i.st \in Int /\ i.ed \in Int
  <2>1. i \in IntervalsOf(f) /\ i.type = "arg" BY DEF StackArguments
  <2>2. i \notin CallIntervals(f, first) BY <1>1, <2>1, CallIntervalShape
  <2>3. i \notin PointIntervals(UsesIn(f, first)) BY <1>1, <2>1, PointIntervalShape
  <2>4. PICK r : i = Value_(r) /\ (r \in ToSet(f.args) \/ DefPoints(f, first, r) # {})
    BY <2>1, <2>2, <2>3, KindsOfIntervals
  <2>5. IsPinOf(i, f, r) BY <2>4, ValueIntervalPin
  <2>6. r \in ToSet(f.args) BY <2>1, <2>5 DEF IsPinOf
  <2>7. i.st \in Int /\ i.ed \in Int BY <1>1, <2>4, ValueIntervalEnds
  <2>8. QED BY <2>4, <2>6, <2>7
<1>6. \A r \in ToSet(f.args) : IsPinOf(Value_(r), f, r) BY ValueIntervalPin
<1>7. \A r \in ToSet(f.args) : NumberOf(f, r) \in 1..last /\ f.args[NumberOf(f, r)] = r
  BY <1>3, ArgumentNumbers DEF NumberOf, ToSet
<1> HIDE DEF Value_, last
<1>8. ASSUME NEW p \in P
      PROVE  g[p] \in A /\ g[p].pin = p
  <2> DEFINE n == p + ArgRegs + 1
             r == f.args[n]
             m == NumberOf(f, r)
             v == Value_(r)
  <2>1. n \in 1..last /\ n > ArgRegs BY <1>2, <1>3
  <2>2. r \in ToSet(f.args) BY <1>3, <2>1
  <2>3. m \in 1..last /\ f.args[m] = r BY <1>7, <2>2
  <2>4. m = n BY <1>3, <2>1, <2>3
  <2>5. IsPinOf(v, f, r) /\ v \in IntervalsOf(f) BY <1>4, <1>6, <2>2
  <2>6. v.type = "arg" /\ v.onStack /\ v.pin = n - ArgRegs - 1
    <3> HIDE DEF n, v
    <3>1. m > ArgRegs BY <2>1, <2>4
    <3>2. QED BY <2>2, <2>4, <2>5, <3>1 DEF IsPinOf
  <2>7. v.pin = p BY <1>2, <2>6
  <2>8. g[p] = v OBVIOUS
  <2> HIDE DEF v, g
  <2>9. QED BY <2>5, <2>6, <2>7, <2>8 DEF StackArguments
<1>9. ASSUME NEW i \in A
      PROVE  i.pin \in P /\ g[i.pin] = i
  <2>1. PICK r \in ToSet(f.args) : i = Value_(r) BY <1>5
  <2> DEFINE m == NumberOf(f, r)
  <2>2. IsPinOf(i, f, r) /\ i.onStack /\ m \in 1..last /\ f.args[m] = r
    BY <1>6, <1>7, <2>1 DEF StackArguments
  <2> HIDE DEF m
  <2>3. m > ArgRegs /\ i.pin = m - ArgRegs - 1 BY <2>2 DEF IsPinOf, m
  <2>4. i.pin \in P /\ i.pin + ArgRegs + 1 = m BY <1>2, <1>3, <2>2, <2>3
  <2>5. g[i.pin] = Value_(f.args[i.pin + ArgRegs + 1]) BY <2>4
  <2>6. QED BY <2>1, <2>2, <2>4, <2>5
<1>10. g \in Surjection(P, A)
  <2>1. DOMAIN g = P /\ g = [p \in P |-> g[p]] OBVIOUS
  <2> HIDE DEF g, P, A
  <2>2. g \in [P -> A] BY <1>8, <2>1
  <2>3. \A i \in A : \E p \in P : g[p] = i BY <1>9
  <2>4. QED BY <2>2, <2>3 DEF Surjection
<1>11. g \in Injection(P, A)
  <2>1. \A p, q \in P : g[p] = g[q] => p = q
    <3> HIDE DEF g, P
    <3>1. QED BY <1>8
  <2> HIDE DEF g, P, A
  <2>2. g \in [P -> A] BY <1>10 DEF Surjection
  <2>3. QED BY <2>1, <2>2 DEF Injection, IsInjective
<1>12. N \in Int /\ 0 \in Int /\ N - 1 \in Int BY <1>2, <1>3
<1>13. IsFiniteSet(P) /\ Cardinality(P) = IF 0 > N - 1 THEN 0 ELSE (N - 1) - 0 + 1
  <2> DEFINE c == N - 1
  <2>1. c \in Int BY <1>12
  <2> HIDE DEF c
  <2>2. IsFiniteSet(0..c) /\ Cardinality(0..c) = IF 0 > c THEN 0 ELSE c - 0 + 1 BY <1>12, <2>1, FS_Interval
  <2>3. QED BY <2>2 DEF c
<1>14. IsFiniteSet(A) /\ Cardinality(A) = Cardinality(P)
  <2> HIDE DEF g, P, A
  <2>1. QED BY <1>10, <1>11, <1>13, FS_Surjection
<1>15. Cardinality(A) \in Nat /\ \A p \in P : p \in Nat /\ p < Cardinality(A)
  <2> DEFINE c == Cardinality(A)
  <2>1. c = IF 0 > N - 1 THEN 0 ELSE (N - 1) - 0 + 1 BY <1>13, <1>14
  <2> HIDE DEF c, N
  <2>2. c \in Nat /\ \A p \in P : p \in Nat /\ p < c BY <1>12, <2>1
  <2>3. QED BY <2>2 DEF c
<1> HIDE DEF g, P, A
<1>16. \A i \in A : i.pin \in Nat /\ i.pin < Cardinality(A) /\ i.st \in Int /\ i.ed \in Int
  BY <1>5, <1>9, <1>15
<1>17. \A i, j \in A : i.pin = j.pin => i = j BY <1>9
<1>18. QED BY <1>14, <1>15, <1>16, <1>17 DEF CountedFromZero, A

\* The virtual registers with a slot for their values are counted.
LEMMA VirtualSlotsShape ==
  ASSUME NEW lists
  PROVE  /\ IsFiniteSet(VirtualSlots(lists)) /\ Cardinality(VirtualSlots(lists)) \in Nat
         /\ \A r \in VirtualSlots(lists) :
              r \in Reg0 /\ r - IntRegs \in Nat /\ r - IntRegs < Cardinality(VirtualSlots(lists))
<1> DEFINE empty == {r \in IntRegs..(Registers - 1) : lists[r] = <<>>}
           e == (IF empty = {} THEN Registers ELSE Min(empty)) - 1
           V == VirtualSlots(lists)
<1>1. IntRegs \in Nat /\ Registers \in Nat /\ IntRegs <= Registers BY RegisterAssumption
<1>2. VirtualSlots(lists) = IntRegs..e BY DEF VirtualSlots
<1>3. e \in Int /\ e <= Registers - 1
  <2>1. CASE empty = {} BY <1>1, <2>1
  <2>2. CASE empty # {}
    <3>1. empty \subseteq Nat BY <1>1
    <3>2. Min(empty) \in empty BY <2>2, <3>1, LeastOfNumbers
    <3>3. Min(empty) \in IntRegs..(Registers - 1) BY <3>2
    <3> HIDE DEF empty
    <3>4. QED BY <1>1, <2>2, <3>3
  <2>3. QED BY <2>1, <2>2
<1> HIDE DEF e
<1>4. IsFiniteSet(IntRegs..e) /\ Cardinality(IntRegs..e) = IF IntRegs > e THEN 0 ELSE e - IntRegs + 1
  BY <1>1, <1>3, FS_Interval
<1> DEFINE c == Cardinality(IntRegs..e)
<1>5. c = IF IntRegs > e THEN 0 ELSE e - IntRegs + 1 BY <1>4
<1> HIDE DEF c
<1>6. c \in Nat /\ \A r \in IntRegs..e : r \in 0..(Registers - 1) /\ r - IntRegs \in Nat /\ r - IntRegs < c
  BY <1>1, <1>3, <1>5
<1>7. QED BY <1>2, <1>4, <1>6 DEF c, Reg0

\* What holds of the frame of an allocation.
Framed(f, a) ==
  /\ a.size % 4 = 0
  /\ 0 <= a.save /\ a.save + 4 * SaveSlots <= a.size
  /\ \A s \in a.slots : s.off % 4 = 0 /\ s.off >= 0 /\ s.off < a.size
  /\ StackApart(f, a)

\* linear_scan_reg_alloc.cpp:654-742: the stack of a function is laid out in
\* whole words, and what is on it at one point never meets.
LEMMA LayoutFramed ==
  ASSUME NEW f, AllocatorExpects(f), NEW lists,
         \A r \in Reg0 : lists[r] \in Seq(Asked) /\ Sorted(lists[r])
  PROVE  Framed(f, Layout(f, IntervalsOf(f), lists))
<1> DEFINE I == IntervalsOf(f)
           A == StackArguments(I)
           V == VirtualSlots(lists)
           save == 4 * Cardinality(A)
           base == save + 4 * SaveSlots
           top == Below(A, V)
           owners == {i.v[2] : i \in {j \in I : j.data > 0}}
           room == Room(f, owners)
           max == Max(owners \cup {0})
           mine == {Slot(i, 4 * i.pin) : i \in A}
           others == UNION {{Slot(i, base + 4 * (r - IntRegs)) :
                               i \in {j \in ToSet(lists[r]) : j.type \in {"local", "arg"}}} : r \in V}
           data == [r \in owners |-> top + room[r - 1]]
           size == top + room[max]
           l == [save |-> save, slots |-> mine \cup others, data |-> data, size |-> size]
<1>1. Layout(f, I, lists) = l BY Zenon DEF Layout
<1>2. CountedFromZero(A) BY StackArgumentsNumbered
<1>3. /\ Cardinality(V) \in Nat
      /\ \A r \in V : r \in Reg0 /\ r - IntRegs \in Nat /\ r - IntRegs < Cardinality(V)
  BY VirtualSlotsShape
<1>4. Roomy(f, owners, room)
  <2>1. owners \subseteq DOMAIN f.bytes BY DataOfIntervals
  <2>2. /\ IsFiniteSet(DOMAIN f.bytes)
        /\ \A r \in DOMAIN f.bytes : r \in Nat \ {0} /\ f.bytes[r] \in Nat
    BY DEF AllocatorExpects
  <2> HIDE DEF owners
  <2>3. IsFiniteSet(owners) BY <2>1, <2>2, FS_Subset
  <2>4. \A r \in owners : r \in Nat \ {0} /\ f.bytes[r] \in Nat BY <2>1, <2>2
  <2>5. QED BY <2>3, <2>4, RoomShape
<1>5. \A r \in owners : r \in Nat \ {0} /\ f.bytes[r] \in Nat
  <2>1. owners \subseteq DOMAIN f.bytes BY DataOfIntervals
  <2>2. QED BY <2>1 DEF AllocatorExpects
<1>6. /\ save \in Nat /\ save % 4 = 0 /\ base \in Nat /\ base % 4 = 0 /\ save + 4 * SaveSlots = base
      /\ top \in Nat /\ top % 4 = 0 /\ base <= top
      /\ \A n \in Nat : n < Cardinality(A) => 4 * n \in Nat /\ (4 * n) % 4 = 0 /\ 4 * n + 4 <= save
      /\ \A n \in Nat : n < Cardinality(V) => /\ base + 4 * n \in Nat /\ (base + 4 * n) % 4 = 0
                                              /\ base + 4 * n + 4 <= top
      /\ \A m, n \in Nat : 4 * m = 4 * n => m = n
  <2> DEFINE a == Cardinality(A)
             v == Cardinality(V)
             s == SaveSlots
  <2>1. a \in Nat /\ v \in Nat /\ s \in Nat BY <1>2, <1>3, SpillAssumption DEF CountedFromZero
  <2>2. top = 4 * (a + s + v) /\ save = 4 * a /\ base = 4 * a + 4 * s BY DEF Below
  <2> HIDE DEF a, v, s
  <2>3. /\ 4 * a \in Nat /\ (4 * a) % 4 = 0 /\ 4 * a + 4 * s \in Nat /\ (4 * a + 4 * s) % 4 = 0
        /\ 4 * (a + s + v) \in Nat /\ (4 * (a + s + v)) % 4 = 0 /\ 4 * a + 4 * s <= 4 * (a + s + v)
    BY <2>1
  <2>4. \A n \in Nat : n < a => 4 * n \in Nat /\ (4 * n) % 4 = 0 /\ 4 * n + 4 <= 4 * a BY <2>1
  <2>5. \A n \in Nat : n < v => /\ 4 * a + 4 * s + 4 * n \in Nat /\ (4 * a + 4 * s + 4 * n) % 4 = 0
                                /\ 4 * a + 4 * s + 4 * n + 4 <= 4 * (a + s + v)
    BY <2>1
  <2>6. QED BY <2>2, <2>3, <2>4, <2>5 DEF a, v, s
<1> HIDE DEF I
<1>7. max \in Nat /\ room[max] \in Nat /\ room[max] % 4 = 0
  <2> HIDE DEF owners, room
  <2>1. max \in Nat BY <1>4 DEF Roomy
  <2>2. max \in 0..max BY <2>1
  <2>3. QED BY <1>4, <2>1, <2>2 DEF Roomy
<1>8. size \in Nat /\ size % 4 = 0 /\ top <= size
  <2> DEFINE b == room[max]
  <2>1. b \in Nat /\ b % 4 = 0 /\ size = top + b BY <1>7
  <2> HIDE DEF b, top, size
  <2>2. QED BY <1>6, <2>1
<1>9. \A s \in mine : \E i \in A : s = Slot(i, 4 * i.pin) OBVIOUS
<1>10. ASSUME NEW s \in others
       PROVE  \E r \in V : \E k \in DOMAIN lists[r] : s = Slot(lists[r][k], base + 4 * (r - IntRegs))
  <2>1. PICK r \in V : \E i \in ToSet(lists[r]) : s = Slot(i, base + 4 * (r - IntRegs)) OBVIOUS
  <2>2. QED BY <2>1 DEF ToSet
<1> HIDE DEF A, V, owners, room, max, mine, others, size
<1>11. \A s \in mine : s.off \in Nat /\ s.off % 4 = 0 /\ s.off + 4 <= save
  BY <1>2, <1>6, <1>9 DEF CountedFromZero, Slot
<1>12. \A s \in others : s.off \in Nat /\ s.off % 4 = 0 /\ base <= s.off /\ s.off + 4 <= top
  <2> TAKE s \in others
  <2>1. PICK r \in V : \E k \in DOMAIN lists[r] : s = Slot(lists[r][k], base + 4 * (r - IntRegs)) BY <1>10
  <2> DEFINE n == r - IntRegs
  <2>2. n \in Nat /\ n < Cardinality(V) BY <1>3
  <2>3. s.off = base + 4 * n BY <2>1 DEF Slot
  <2> HIDE DEF n, base, top
  <2>4. base + 4 * n \in Nat /\ (base + 4 * n) % 4 = 0 /\ base + 4 * n + 4 <= top BY <1>6, <2>2
  <2>5. base <= base + 4 * n BY <1>6, <2>2
  <2>6. QED BY <2>3, <2>4, <2>5
<1>13. ASSUME NEW s \in mine, NEW t \in mine, s.off = t.off PROVE s = t
  <2>1. PICK i \in A, j \in A : s = Slot(i, 4 * i.pin) /\ t = Slot(j, 4 * j.pin) BY <1>9
  <2>2. 4 * i.pin = 4 * j.pin /\ i.pin \in Nat /\ j.pin \in Nat BY <1>2, <1>13, <2>1 DEF Slot, CountedFromZero
  <2>3. i.pin = j.pin BY <1>6, <2>2
  <2>4. i = j BY <1>2, <2>3 DEF CountedFromZero
  <2>5. QED BY <2>1, <2>4
<1>14. ASSUME NEW s \in others, NEW t \in others, s.off = t.off
       PROVE  s = t \/ s.ed < t.st \/ t.ed < s.st
  <2>1. PICK r \in V : \E k \in DOMAIN lists[r] : s = Slot(lists[r][k], base + 4 * (r - IntRegs)) BY <1>10
  <2>2. PICK k \in DOMAIN lists[r] : s = Slot(lists[r][k], base + 4 * (r - IntRegs)) BY <2>1
  <2>3. PICK q \in V : \E j \in DOMAIN lists[q] : t = Slot(lists[q][j], base + 4 * (q - IntRegs)) BY <1>10
  <2>4. PICK j \in DOMAIN lists[q] : t = Slot(lists[q][j], base + 4 * (q - IntRegs)) BY <2>3
  <2>5. r = q
    <3> DEFINE m == r - IntRegs
               n == q - IntRegs
    <3>1. m \in Nat /\ n \in Nat BY <1>3
    <3>2. s.off = base + 4 * m /\ t.off = base + 4 * n BY <2>2, <2>4 DEF Slot
    <3>3. r \in Int /\ q \in Int /\ IntRegs \in Int BY <1>3, RegisterAssumption DEF Reg0
    <3>4. m = n
      <4> HIDE DEF m, n, base
      <4>1. base + 4 * m = base + 4 * n BY <1>14, <3>2
      <4>2. QED BY <1>6, <3>1, <4>1
    <3>5. QED BY <3>3, <3>4
  <2>6. Sorted(lists[r]) /\ lists[r] \in Seq(Asked) BY <1>3
  <2>7. k \in Nat /\ j \in Nat BY <2>5, <2>6
  <2>8. k = j \/ k < j \/ j < k BY <2>7
  <2>9. k < j => lists[r][k].ed < lists[r][j].st BY <2>5, <2>6 DEF Sorted
  <2>10. j < k => lists[r][j].ed < lists[r][k].st BY <2>5, <2>6 DEF Sorted
  <2>11. /\ s.st = lists[r][k].st /\ s.ed = lists[r][k].ed
         /\ t.st = lists[r][j].st /\ t.ed = lists[r][j].ed
    BY <2>2, <2>4, <2>5 DEF Slot
  <2>12. k = j => s = t BY <2>2, <2>4, <2>5
  <2>13. QED BY <2>8, <2>9, <2>10, <2>11, <2>12
<1>15. DOMAIN data = owners /\ \A r \in owners : data[r] = top + room[r - 1] OBVIOUS
<1> HIDE DEF data
<1>16. \A r \in owners : /\ r \in 1..max /\ r - 1 \in 0..max /\ room[r - 1] \in Nat /\ room[r] \in Nat
                        /\ room[r - 1] + f.bytes[r] <= room[r] /\ room[r] <= room[max]
  <2> TAKE r \in owners
  <2>1. r \in 1..max BY <1>4 DEF Roomy, max
  <2>2. r - 1 \in 0..max /\ r \in 0..max /\ max \in 0..max /\ r <= max BY <1>7, <2>1
  <2>3. QED BY <1>4, <2>1, <2>2 DEF Roomy, max
<1>17. ASSUME NEW r \in owners
       PROVE  /\ base <= data[r] /\ data[r] + f.bytes[r] <= size /\ top <= data[r]
              /\ \A q \in owners : q < r => data[q] + f.bytes[q] <= data[r]
  <2> DEFINE x == room[r - 1]
             y == room[r]
             z == room[max]
             b == f.bytes[r]
  <2>1. x \in Nat /\ y \in Nat /\ x + b <= y /\ y <= z /\ z \in Nat /\ b \in Nat BY <1>5, <1>7, <1>16
  <2>2. data[r] = top + x /\ size = top + z BY <1>15 DEF size
  <2>3. base <= top + x /\ top <= top + x /\ top + x + b <= top + z
    <3> HIDE DEF x, y, z, b, base, top
    <3>1. QED BY <1>6, <2>1
  <2>4. ASSUME NEW q \in owners, q < r PROVE data[q] + f.bytes[q] <= data[r]
    <3> DEFINE u == room[q - 1]
               w == room[q]
               c == f.bytes[q]
    <3>1. u \in Nat /\ w \in Nat /\ u + c <= w /\ c \in Nat BY <1>5, <1>16
    <3>2. w <= x
      <4>1. q \in 0..max /\ r - 1 \in 0..max /\ q <= r - 1 BY <1>7, <1>16, <2>4
      <4>2. QED BY <1>4, <4>1 DEF Roomy, max
    <3>3. data[q] = top + u BY <1>15
    <3>4. top + u + c <= top + x
      <4> HIDE DEF x, u, w, c, top
      <4>1. QED BY <1>6, <2>1, <3>1, <3>2
    <3>5. QED BY <2>2, <3>3, <3>4
  <2>5. QED BY <2>2, <2>3, <2>4 DEF b, x
<1> DEFINE a == Layout(f, I, lists)
<1>18. a.save = save /\ a.slots = mine \cup others /\ a.data = data /\ a.size = size
  <2> HIDE DEF save
  <2>1. QED BY <1>1
<1> HIDE DEF a, save, base, top
<1>19. a.save + 4 * SaveSlots = base BY <1>6, <1>18
<1>20. \A s \in a.slots : s.off \in Nat /\ s.off % 4 = 0 /\ s.off + 4 <= top /\ s.off < a.size
                          /\ (s.off + 4 <= save \/ base <= s.off)
  <2> TAKE s \in a.slots
  <2>1. s \in mine \/ s \in others BY <1>18
  <2>2. CASE s \in mine
    <3>1. s.off \in Nat /\ s.off % 4 = 0 /\ s.off + 4 <= save BY <1>11, <2>2
    <3>2. save <= base BY <1>6, SpillAssumption
    <3>3. s.off + 4 <= top /\ s.off < size BY <1>6, <1>8, <3>1, <3>2
    <3>4. QED BY <1>18, <3>1, <3>3
  <2>3. CASE s \in others
    <3>1. s.off \in Nat /\ s.off % 4 = 0 /\ base <= s.off /\ s.off + 4 <= top BY <1>12, <2>3
    <3>2. s.off < size BY <1>6, <1>8, <3>1
    <3>3. QED BY <1>18, <3>1, <3>2
  <2>4. QED BY <2>1, <2>2, <2>3
<1>21. ASSUME NEW s \in a.slots, NEW t \in a.slots, s.off = t.off
       PROVE  s = t \/ s.ed < t.st \/ t.ed < s.st
  <2>1. \A x \in mine : \A y \in others : x.off # y.off
    <3> TAKE x \in mine
    <3> TAKE y \in others
    <3>1. x.off \in Nat /\ x.off + 4 <= save /\ y.off \in Nat /\ base <= y.off BY <1>11, <1>12
    <3>2. save <= base BY <1>6, SpillAssumption
    <3>3. QED BY <1>6, <3>1, <3>2
  <2>2. QED BY <1>13, <1>14, <1>18, <1>21, <2>1
<1>22. \A r \in DOMAIN a.data : /\ base <= a.data[r] /\ a.data[r] + f.bytes[r] <= a.size
                                /\ \A s \in a.slots : s.off + 4 <= a.data[r]
                                /\ \A q \in DOMAIN a.data : q < r => a.data[q] + f.bytes[q] <= a.data[r]
  <2> TAKE r \in DOMAIN a.data
  <2>1. r \in owners /\ DOMAIN a.data = owners BY <1>15, <1>18
  <2>2. \A s \in a.slots : s.off + 4 <= data[r]
    <3> TAKE s \in a.slots
    <3>1. s.off \in Nat /\ s.off + 4 <= top /\ top <= data[r] BY <1>17, <1>20, <2>1
    <3>2. data[r] \in Nat
      <4> DEFINE x == room[r - 1]
      <4>1. x \in Nat /\ data[r] = top + x BY <1>15, <1>16, <2>1
      <4> HIDE DEF x
      <4>2. QED BY <1>6, <4>1
    <3>3. QED BY <1>6, <3>1, <3>2
  <2>3. QED BY <1>17, <1>18, <2>1, <2>2
<1>23. StackApart(f, a) BY <1>18, <1>19, <1>20, <1>21, <1>22 DEF StackApart
<1>24. a.size % 4 = 0 /\ 0 <= a.save /\ a.save + 4 * SaveSlots <= a.size
  BY <1>6, <1>8, <1>18, <1>19
<1>25. \A s \in a.slots : s.off % 4 = 0 /\ s.off >= 0 /\ s.off < a.size BY <1>20
<1>26. QED BY <1>23, <1>24, <1>25 DEF Framed, a, I

\* The frame does not change with the fields that are not of it.
LEMMA KeptFramed ==
  ASSUME NEW f, NEW a, NEW b, Framed(f, a), Kept(a, b)
  PROVE  Framed(f, b)
<1>1. b.size = a.size /\ b.save = a.save /\ b.slots = a.slots /\ b.data = a.data
  BY DEF Kept, FrameFields
<1>2. QED BY <1>1 DEF Framed, StackApart

\* The scan uses a number of registers.
LEMMA UsedIsNumber ==
  UsedRegisters \in Nat
<1> DEFINE S == {r \in Reg0 : regs[r] # <<>>}
<1>1. S \subseteq Int /\ S \subseteq Nat /\ Registers \in Int /\ \A r \in S : r <= Registers
  BY RegisterAssumption DEF Reg0
<1>2. CASE S = {} BY <1>2 DEF UsedRegisters
<1>3. CASE S # {}
  <2> DEFINE m == CHOOSE r \in S : \A s \in S : s <= r
  <2>1. \E r \in S : \A s \in S : s <= r
    <3> HIDE DEF S
    <3>1. QED BY <1>1, <1>3, GreatestOfBounded
  <2>2. m \in S
    <3> HIDE DEF S
    <3>1. QED BY <2>1
  <2>3. UsedRegisters = 1 + m BY <1>3 DEF UsedRegisters
  <2> HIDE DEF m, S
  <2>4. QED BY <1>1, <2>2, <2>3
<1>4. QED BY <1>2, <1>3

\* What a function's scan ends with.
LEMMA AllocatedShape ==
  ASSUME NEW f, AllocatorExpects(f), NEW lists, NEW used \in Nat,
         \A r \in Reg0 : lists[r] \in Seq(Asked) /\ Sorted(lists[r])
  PROVE  LET a == Allocated(f, IntervalsOf(f), lists, used)
         IN FrameFields \subseteq DOMAIN a /\ Framed(f, a) /\ a.used \in 0..IntRegs
<1> DEFINE a == Allocated(f, IntervalsOf(f), lists, used)
           l == Layout(f, IntervalsOf(f), lists)
           n == Min({used, IntRegs})
<1>1. Framed(f, l) BY LayoutFramed
<1>2. \E x, y, z, u : a = [regs |-> x, use |-> y, v2reg |-> z,
                           save |-> l.save, slots |-> l.slots, data |-> l.data, size |-> l.size,
                           used |-> n, code |-> u, error |-> 0]
  <2> HIDE DEF l, n
  <2>1. QED BY DEF Allocated, l, n
<1>3. n \in 0..IntRegs
  <2>1. IntRegs \in Nat BY RegisterAssumption
  <2>2. n \in {used, IntRegs} /\ \A x \in {used, IntRegs} : n <= x BY <2>1, LeastOfNumbers
  <2>3. QED BY <2>1, <2>2
<1> HIDE DEF a, l, n
<1>4. /\ FrameFields \subseteq DOMAIN a /\ a.used = n
      /\ a.size = l.size /\ a.save = l.save /\ a.slots = l.slots /\ a.data = l.data
  BY <1>2 DEF FrameFields
<1>5. Framed(f, a) BY <1>1, <1>4 DEF Framed, StackApart
<1>6. QED BY <1>3, <1>4, <1>5 DEF a

\* The functions with registers and those without are those of the unit, and
\* what is on the stack of one with registers is as it should be.
Translating ==
  /\ DOMAIN alloc \cup ToSet(todo) = ToSet(unit.names)
  /\ \A n \in DOMAIN alloc : Framed(unit.func[n], alloc[n]) /\ alloc[n].used \in 0..IntRegs
  /\ image # <<>> => DOMAIN image = ToSet(unit.names)
  /\ stopped \in {"idle", "no", "done", "full", "307", "spill"}

\* What is in a list is its first element or in the rest.
LEMMA QueueParts ==
  ASSUME NEW S, NEW q \in Seq(S), q # <<>>
  PROVE  ToSet(q) = {Head(q)} \cup ToSet(Tail(q))
<1>1. Len(q) \in Nat /\ DOMAIN q = 1..Len(q) /\ Len(q) >= 1 /\ Head(q) = q[1] OBVIOUS
<1>2. DOMAIN Tail(q) = 1..(Len(q) - 1) /\ \A k \in 1..(Len(q) - 1) : Tail(q)[k] = q[k + 1] OBVIOUS
<1>3. \A k \in DOMAIN q : k = 1 \/ (k - 1 \in 1..(Len(q) - 1) /\ (k - 1) + 1 = k) BY <1>1
<1>4. \A k \in 1..(Len(q) - 1) : k + 1 \in DOMAIN q BY <1>1
<1>5. ASSUME NEW x \in ToSet(q) PROVE x \in {Head(q)} \cup ToSet(Tail(q))
  <2>1. PICK k \in DOMAIN q : x = q[k] BY DEF ToSet
  <2>2. CASE k = 1 BY <1>1, <2>1, <2>2
  <2>3. CASE k # 1
    <3>1. k - 1 \in DOMAIN Tail(q) /\ Tail(q)[k - 1] = x BY <1>2, <1>3, <2>1, <2>3
    <3>2. QED BY <3>1 DEF ToSet
  <2>4. QED BY <2>2, <2>3
<1>6. ASSUME NEW x \in ToSet(Tail(q)) PROVE x \in ToSet(q)
  <2>1. PICK k \in DOMAIN Tail(q) : x = Tail(q)[k] BY DEF ToSet
  <2>2. k + 1 \in DOMAIN q /\ q[k + 1] = x BY <1>2, <1>4, <2>1
  <2>3. QED BY <2>2 DEF ToSet
<1>7. Head(q) \in ToSet(q) BY <1>1 DEF ToSet
<1>8. QED BY <1>5, <1>6, <1>7

\* A function gets its registers and its stack.
LEMMA FinishTranslating ==
  ASSUME Ordered, OfTheFunction, Translating, FinishFunction
  PROVE  Translating'
<1> DEFINE a == Allocated(F, IntervalsOf(F), regs, UsedRegisters)
           b == InsertSpills(a, F, FirstPoints(F))
           name == Head(todo)
<1>1. stopped = "done" /\ Keep(b) /\ UNCHANGED <<unit, image, run>> BY DEF FinishFunction
<1>2. IInv /\ todo # <<>> BY <1>1 DEF OfTheFunction, Scanning, Ordered
<1>3. todo \in Seq(ToSet(unit.names)) /\ name \in ToSet(unit.names) BY <1>2 DEF Ordered
<1>4. AllocatorExpects(F) BY <1>3, UnitsAssumption DEF Ordered, Translated, F
<1>5. \A r \in Reg0 : regs[r] \in Seq(Asked) /\ Sorted(regs[r]) BY <1>2 DEF IInv, TypeOK, ListsSorted
<1>6. FrameFields \subseteq DOMAIN a /\ Framed(F, a) /\ a.used \in 0..IntRegs
  BY <1>4, <1>5, UsedIsNumber, AllocatedShape
<1>7. Kept(a, b)
  <2> HIDE DEF a
  <2>1. QED BY <1>4, <1>6, SpillsKeep
<1>8. Framed(F, b) /\ b.used \in 0..IntRegs
  <2> HIDE DEF a, b
  <2>1. b.used = a.used BY <1>7 DEF Kept, FrameFields
  <2>2. QED BY <1>6, <1>7, <2>1, KeptFramed
<1> HIDE DEF a, b
<1>9. CASE b.error = 0
  <2>1. /\ alloc' = [n \in DOMAIN alloc \cup {name} |-> IF n = name THEN b ELSE alloc[n]]
        /\ todo' = Tail(todo) /\ stopped' = "idle"
    BY <1>1, <1>9 DEF Keep, Unscanned
  <2>2. /\ DOMAIN alloc' = {name} \cup DOMAIN alloc /\ alloc'[name] = b
        /\ \A n \in DOMAIN alloc : n # name => alloc'[n] = alloc[n]
    BY <2>1
  <2>3. ToSet(todo) = {name} \cup ToSet(Tail(todo)) BY <1>2, <1>3, QueueParts
  <2>4. DOMAIN alloc' \cup ToSet(todo') = ToSet(unit.names) BY <2>1, <2>2, <2>3 DEF Translating
  <2>5. \A n \in DOMAIN alloc' : Framed(unit.func[n], alloc'[n]) /\ alloc'[n].used \in 0..IntRegs
    BY <1>8, <2>2 DEF Translating, F
  <2>6. QED BY <1>1, <2>1, <2>4, <2>5 DEF Translating
<1>10. CASE b.error # 0
  BY <1>1, <1>10 DEF Keep, Translating
<1>11. QED BY <1>9, <1>10

\* Every step keeps to that.
LEMMA TranslatingAlways ==
  BackEndSpec => []Translating
<1>1. BackEndInit => Translating
  BY DEF BackEndInit, Translating
<1>2. ASSUME Ordered, OfTheFunction, Translating, [BackEndNext]_vars
      PROVE  Translating'
  <2>1. CASE BeginFunction
    <3>1. UNCHANGED <<unit, todo, alloc, image>> /\ stopped' = "no"
      BY <2>1 DEF BeginFunction, StartScan
    <3>2. QED BY <1>2, <3>1 DEF Translating
  <2>2. CASE Scan
    <3>1. UNCHANGED <<unit, todo, alloc, image>> /\ ScanNext BY <2>2 DEF Scan
    <3>2. IInv' BY <1>2, <3>1, ScanIsBusy, NextIInv DEF OfTheFunction, Scanning
    <3>3. stopped' \in {"no", "done", "full", "307"} BY <3>2 DEF IInv, TypeOK
    <3>4. QED BY <1>2, <3>1, <3>3 DEF Translating
  <2>3. CASE FinishFunction BY <1>2, <2>3, FinishTranslating
  <2>4. CASE Assemble
    <3>1. UNCHANGED <<unit, todo, alloc, stopped>> /\ todo = <<>> /\ DOMAIN image' = DOMAIN alloc
      BY <2>4 DEF Assemble, scanVars
    <3>2. ToSet(todo) = {} BY <3>1 DEF ToSet
    <3>3. DOMAIN alloc = ToSet(unit.names) BY <1>2, <3>2 DEF Translating
    <3>4. QED BY <1>2, <3>1, <3>3 DEF Translating
  <2>5. CASE UNCHANGED <<unit, todo, alloc, image, stopped>> BY <1>2, <2>5 DEF Translating
  <2>6. QED
    BY <1>2, <2>1, <2>2, <2>3, <2>4, <2>5 DEF BackEndNext, StartRun, ArmRuns, MirRuns, BothShow, vars, scanVars
<1>3. QED
  BY <1>1, <1>2, ScansTheFunction, PTL DEF BackEndSpec

\* linear_scan_reg_alloc.cpp:654-742 and 758-1072: for every such unit, whatever
\* the number of its arguments, values and variables and however much is spilled,
\* what a function keeps on its stack never meets, and all its functions get code.
THEOREM StackNeverShared ==
  BackEndSpec => []BackEndTypeOK
<1>1. ASSUME Ordered, Translating
      PROVE  BackEndTypeOK
  <2>1. DOMAIN unit.func = ToSet(unit.names) BY <1>1, UnitsAssumption DEF Ordered
  <2>2. QED BY <1>1, <2>1 DEF BackEndTypeOK, Translating, Framed
<1>2. QED
  BY <1>1, ToDo, TranslatingAlways, PTL
=============================================================================
