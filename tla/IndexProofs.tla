----------------------------- MODULE IndexProofs -----------------------------
(***************************************************************************)
(* The documentation site's index: proofs about SearchIndex for any texts, *)
(* fields and queries, of the words SearchIndex models, without digits.    *)
(***************************************************************************)
EXTENDS SearchIndex, SequenceTheorems, FiniteSetTheorems, TLAPS

-----------------------------------------------------------------------------
(* Induction over a set of numbers, and what a function defined by         *)
(* recursion needs to be one.                                              *)

(* The least number of a set.                                              *)
LEMMA LeastNumber ==
    ASSUME NEW T \in SUBSET Nat, T # {}
    PROVE  \E x \in T : \A y \in T : x <= y
<1> DEFINE R == OpToRel(<, Nat)
<1>1. IsWellFoundedOn(R, Nat)
  BY NatLessThanWellFounded
<1>2. \A x, y \in Nat : <<y, x>> \in R <=> y < x
  BY DEF OpToRel
<1> HIDE DEF R
<1>3. PICK x \in T : \A y \in T : ~(<<y, x>> \in R)
  BY <1>1, WFMin
<1>4. ASSUME NEW y \in T PROVE x <= y
  <2>1. x \in Nat /\ y \in Nat
    OBVIOUS
  <2>2. ~(y < x)
    BY <1>2, <1>3, <2>1
  <2> QED  BY <2>1, <2>2
<1> QED  BY <1>4

LEMMA CountUp ==
    ASSUME NEW n \in Nat, NEW T, 0 \in T,
           \A i \in 1 .. n : i - 1 \in T => i \in T
    PROVE  \A i \in 0 .. n : i \in T
<1> DEFINE bad == {i \in 0 .. n : i \notin T}
<1> SUFFICES ASSUME bad # {} PROVE FALSE
  OBVIOUS
<1>1. bad \in SUBSET Nat
  OBVIOUS
<1> HIDE DEF bad
<1>2. PICK i \in bad : \A j \in bad : i <= j
  BY <1>1, LeastNumber
<1> USE DEF bad
<1>3. i \in 1 .. n /\ i - 1 \in 0 .. n /\ ~(i <= i - 1)
  OBVIOUS
<1>4. i - 1 \in T
  BY <1>2, <1>3
<1> QED  BY <1>3, <1>4

(* By a measure: what holds of z if it holds of all that measure less.     *)
LEMMA MeasureDown ==
    ASSUME NEW Z, NEW mu \in [Z -> Nat], NEW T,
           \A z \in Z : (\A y \in Z : mu[y] < mu[z] => y \in T) => z \in T
    PROVE  Z \subseteq T
<1> DEFINE bad == {mu[z] : z \in Z \ T}
<1> SUFFICES ASSUME bad # {} PROVE FALSE
  OBVIOUS
<1>1. bad \in SUBSET Nat
  OBVIOUS
<1> HIDE DEF bad
<1>2. PICK i \in bad : \A j \in bad : i <= j
  BY <1>1, LeastNumber
<1> USE DEF bad
<1>3. PICK z \in Z \ T : i = mu[z]
  OBVIOUS
<1>4. ASSUME NEW y \in Z, mu[y] < mu[z] PROVE y \in T
  <2>1. y \notin T => mu[y] \in bad
    OBVIOUS
  <2>2. mu[y] \in Nat /\ mu[z] \in Nat
    OBVIOUS
  <2> HIDE DEF bad
  <2>3. y \notin T => mu[z] <= mu[y]
    BY <1>2, <1>3, <2>1
  <2> QED  BY <1>4, <2>2, <2>3
<1> QED  BY <1>3, <1>4

(* A loop of n turns, the i-th from a state in D[i - 1] to one in D[i].    *)
Turns(n, D, turn) == \A i \in 1 .. n : \A x \in D[i - 1] : turn[i][x] \in D[i]
Loop(f, n, c, turn) == f = [i \in 0 .. n |-> IF i = 0 THEN c ELSE turn[i][f[i - 1]]]

LEMMA LoopRuns ==
    ASSUME NEW n \in Nat, NEW D, NEW c \in D[0], NEW turn, Turns(n, D, turn)
    PROVE  \E f : Loop(f, n, c, turn) /\ \A i \in 0 .. n : f[i] \in D[i]
<1> DEFINE ok(f, k) == /\ f[0] = c
                       /\ \A i \in 1 .. k : f[i] = turn[i][f[i - 1]]
                       /\ \A i \in 0 .. k : f[i] \in D[i]
           T == {k \in 0 .. n : \E f : ok(f, k)}
<1>1. 0 \in T
  <2> DEFINE f == [i \in {0} |-> c]
  <2>1. f[0] = c
    OBVIOUS
  <2> HIDE DEF f
  <2>2. ok(f, 0)
    BY <2>1
  <2> QED  BY <2>2
<1>0. \A i \in 1 .. n : \A x \in D[i - 1] : turn[i][x] \in D[i]
  BY DEF Turns
<1>2. ASSUME NEW k \in 1 .. n, k - 1 \in T PROVE k \in T
  <2>1. PICK g : ok(g, k - 1)
    BY <1>2
  <2> DEFINE f == [i \in 0 .. k |-> IF i = k THEN turn[k][g[k - 1]] ELSE g[i]]
  <2>2. f[k] = turn[k][g[k - 1]] /\ \A i \in 0 .. k - 1 : f[i] = g[i]
    OBVIOUS
  <2>3. k - 1 \in 0 .. k - 1 /\ 0 \in 0 .. k - 1 /\ k \in 0 .. n
    OBVIOUS
  <2> HIDE DEF f
  <2>4. ASSUME NEW i \in 1 .. k PROVE f[i] = turn[i][f[i - 1]]
    <3>1. i - 1 \in 0 .. k - 1 /\ (i # k => i \in 1 .. k - 1 /\ i \in 0 .. k - 1)
      OBVIOUS
    <3> QED  BY <2>1, <2>2, <3>1
  <2>5. ASSUME NEW i \in 0 .. k PROVE f[i] \in D[i]
    <3>1. i # k => i \in 0 .. k - 1
      OBVIOUS
    <3>2. g[k - 1] \in D[k - 1]
      BY <2>1, <2>3
    <3> QED  BY <1>0, <2>1, <2>2, <3>1, <3>2
  <2>6. f[0] = c
    BY <2>1, <2>2, <2>3
  <2> QED  BY <2>3, <2>4, <2>5, <2>6
<1> HIDE DEF T
<1>3. n \in T
  <2>1. \A i \in 0 .. n : i \in T
    BY <1>1, <1>2, CountUp
  <2> QED  BY <2>1
<1> USE DEF T
<1>4. PICK g : ok(g, n)
  BY <1>3
<1> DEFINE f == [i \in 0 .. n |-> g[i]]
<1>5. \A i \in 0 .. n : f[i] = g[i]
  OBVIOUS
<1>6. f = [i \in 0 .. n |-> IF i = 0 THEN c ELSE turn[i][f[i - 1]]]
  <2>1. ASSUME NEW i \in 0 .. n PROVE g[i] = IF i = 0 THEN c ELSE turn[i][f[i - 1]]
    <3>1. i # 0 => i \in 1 .. n /\ i - 1 \in 0 .. n
      OBVIOUS
    <3> QED  BY <1>4, <1>5, <3>1
  <2> QED  BY <2>1
<1>7. \A i \in 0 .. n : f[i] \in D[i]
  BY <1>4, <1>5
<1> HIDE DEF f
<1> QED  BY <1>6, <1>7 DEF Loop

(* Any function that follows the turns stays in D.                         *)
LEMMA LoopStays ==
    ASSUME NEW n \in Nat, NEW D, NEW f, f[0] \in D[0],
           \A i \in 1 .. n : f[i - 1] \in D[i - 1] => f[i] \in D[i]
    PROVE  \A i \in 0 .. n : f[i] \in D[i]
<1> DEFINE T == {i \in 0 .. n : f[i] \in D[i]}
<1>1. 0 \in T /\ \A i \in 1 .. n : i - 1 \in T => i \in T
  OBVIOUS
<1> HIDE DEF T
<1>2. \A i \in 0 .. n : i \in T
  BY <1>1, CountUp
<1> QED  BY <1>2 DEF T

(* A function defined by recursion exists if the recursion descends.       *)
Descends(Z, mu, stop, base, add, next) ==
    \A z \in Z : IF z \in stop THEN base[z] \in Int
                 ELSE next[z] \in Z /\ mu[next[z]] < mu[z] /\ add[z] \in Int
LEMMA DescentEnds ==
    ASSUME NEW Z, NEW M \in Nat, NEW mu \in [Z -> 0 .. M], NEW stop, NEW base, NEW add, NEW next,
           Descends(Z, mu, stop, base, add, next)
    PROVE  \E P \in [Z -> Int] : \A z \in Z :
             P[z] = IF z \in stop THEN base[z] ELSE add[z] + P[next[z]]
<1> DEFINE rhs(P, z) == IF z \in stop THEN base[z] ELSE add[z] + P[next[z]]
           T == {k \in 0 .. M + 1 : \E P \in [Z -> Int] : \A z \in Z : mu[z] < k => P[z] = rhs(P, z)}
<1>0. \A z \in Z : mu[z] \in Nat /\ mu[z] <= M
  OBVIOUS
<1>1. 0 \in T
  <2> DEFINE P == [z \in Z |-> 0]
  <2>1. P \in [Z -> Int]
    OBVIOUS
  <2>2. \A z \in Z : ~(mu[z] < 0)
    BY <1>0
  <2> HIDE DEF P
  <2> QED  BY <2>1, <2>2
<1>2. ASSUME NEW k \in 1 .. M + 1, k - 1 \in T PROVE k \in T
  <2>1. PICK P \in [Z -> Int] : \A z \in Z : mu[z] < k - 1 => P[z] = rhs(P, z)
    BY <1>2
  <2> DEFINE Q == [z \in Z |-> rhs(P, z)]
  <2>2. \A z \in Z : rhs(P, z) \in Int
    BY DEF Descends
  <2>3. Q \in [Z -> Int] /\ \A z \in Z : Q[z] = rhs(P, z)
    BY <2>2
  <2> HIDE DEF Q
  <2>4. ASSUME NEW z \in Z, mu[z] < k PROVE Q[z] = rhs(Q, z)
    <3>1. CASE z \in stop
      BY <2>3, <3>1
    <3>2. CASE z \notin stop
      <4>1. next[z] \in Z /\ mu[next[z]] < mu[z]
        BY <3>2 DEF Descends
      <4>2. mu[next[z]] < k - 1
        <5>1. mu[next[z]] \in Nat /\ mu[z] \in Nat
          BY <1>0, <4>1
        <5> QED  BY <2>4, <4>1, <5>1
      <4>3. Q[next[z]] = P[next[z]]
        BY <2>1, <2>3, <4>1, <4>2
      <4> QED  BY <2>3, <3>2, <4>3
    <3> QED  BY <3>1, <3>2
  <2>5. k \in 0 .. M + 1
    OBVIOUS
  <2> QED  BY <2>3, <2>4, <2>5
<1> HIDE DEF T
<1>3. M + 1 \in T
  <2>1. M + 1 \in Nat /\ M + 1 \in 0 .. M + 1
    OBVIOUS
  <2>2. \A i \in 0 .. M + 1 : i \in T
    BY <1>1, <1>2, <2>1, CountUp
  <2> QED  BY <2>1, <2>2
<1> USE DEF T
<1>4. PICK P \in [Z -> Int] : \A z \in Z : mu[z] < M + 1 => P[z] = rhs(P, z)
  BY <1>3
<1>5. \A z \in Z : P[z] = rhs(P, z)
  BY <1>0, <1>4
<1> QED  BY <1>5

-----------------------------------------------------------------------------
(* Vectors                                                                 *)

Vectors == {v \in Seq(Nat \X Nat) : \A i, j \in 1 .. Len(v) : i < j => v[i][1] < v[j][1]}

LEMMA VectorFacts ==
    ASSUME NEW v \in Vectors
    PROVE  /\ v \in Seq(Nat \X Nat) /\ Len(v) \in Nat /\ DOMAIN v = 1 .. Len(v)
           /\ \A i \in 1 .. Len(v) : v[i][1] \in Nat /\ v[i][2] \in Nat /\ v[i] = <<v[i][1], v[i][2]>>
           /\ \A i, j \in 1 .. Len(v) : i < j => v[i][1] < v[j][1]
<1>1. v \in Seq(Nat \X Nat) /\ \A i, j \in 1 .. Len(v) : i < j => v[i][1] < v[j][1]
  BY DEF Vectors
<1>2. Len(v) \in Nat /\ DOMAIN v = 1 .. Len(v) /\ v \in [1 .. Len(v) -> Nat \X Nat]
  BY <1>1, LenProperties
<1>3. \A p \in Nat \X Nat : p[1] \in Nat /\ p[2] \in Nat /\ p = <<p[1], p[2]>>
  OBVIOUS
<1> QED  BY <1>1, <1>2, <1>3

(* The pairs left of place r are below e, those right of it are not.       *)
Splits(v, e, r) ==
    /\ r \in 0 .. Len(v)
    /\ \A j \in 1 .. Len(v) : IF j <= r THEN v[j][1] < e ELSE v[j][1] >= e

(* The binary search finds the place.                                      *)
LEMMA PositionFound ==
    ASSUME NEW v \in Vectors, NEW e \in Nat
    PROVE  Splits(v, e, positionForIndex(v, e))
<1> DEFINE Z == (0 .. Len(v)) \X (0 .. Len(v))
           mid(z) == z[1] + (z[2] - z[1]) \div 2
           o(z) == v[mid(z) + 1][1]
           goes(z) == z[2] - z[1] > 1 /\ o(z) # e
           to(z) == <<IF o(z) < e THEN mid(z) ELSE z[1], IF o(z) > e THEN mid(z) ELSE z[2]>>
           last(z) == IF o(z) < e THEN mid(z) + 1 ELSE mid(z)
           eq(P) == P = [z \in Z |-> IF goes(z) THEN P[to(z)] ELSE last(z)]
<1>0. /\ Len(v) \in Nat
      /\ \A i \in 1 .. Len(v) : v[i][1] \in Nat
      /\ \A i, j \in 1 .. Len(v) : i < j => v[i][1] < v[j][1]
  BY VectorFacts
<1>1. ASSUME NEW z \in Z PROVE /\ z[1] \in 0 .. Len(v) /\ z[2] \in 0 .. Len(v)
                               /\ mid(z) \in Int
                               /\ z[1] < z[2] => mid(z) \in 0 .. Len(v) - 1 /\ z[1] <= mid(z) /\ mid(z) < z[2]
                               /\ z[2] - z[1] > 1 => z[1] < mid(z)
                               /\ z[2] - z[1] = 1 => mid(z) = z[1]
  <2>1. PICK t \in 0 .. Len(v), n \in 0 .. Len(v) : z[1] = t /\ z[2] = n
    OBVIOUS
  <2>2. mid(z) = t + (n - t) \div 2
    BY <2>1
  <2>3. t \in Nat /\ n \in Nat /\ t <= Len(v) /\ n <= Len(v)
    BY <1>0
  <2>4. t + (n - t) \div 2 \in Int
    BY <2>3
  <2>5. t < n => (t + (n - t) \div 2 >= t /\ t + (n - t) \div 2 < n)
    BY <2>3
  <2>6. n - t > 1 => t < t + (n - t) \div 2
    BY <2>3
  <2>7. n - t = 1 => t + (n - t) \div 2 = t
    BY <2>3
  <2> HIDE DEF mid
  <2> QED  BY <1>0, <2>1, <2>2, <2>3, <2>4, <2>5, <2>6, <2>7
<1>2. ASSUME NEW z \in Z, goes(z)
      PROVE  /\ o(z) \in Nat /\ to(z) \in Z
             /\ o(z) < e => to(z)[1] = mid(z) /\ to(z)[2] = z[2]
             /\ ~(o(z) < e) => o(z) > e /\ to(z)[1] = z[1] /\ to(z)[2] = mid(z)
  <2>1. z[1] < z[2] /\ z[2] - z[1] > 1 /\ o(z) # e
    BY <1>1, <1>2
  <2>2. mid(z) \in 0 .. Len(v) - 1 /\ mid(z) \in 0 .. Len(v) /\ mid(z) + 1 \in 1 .. Len(v)
    BY <1>0, <1>1, <2>1
  <2>3. o(z) \in Nat
    BY <1>0, <2>2
  <2>4. z[1] \in 0 .. Len(v) /\ z[2] \in 0 .. Len(v)
    BY <1>1
  <2> HIDE DEF mid, o, Z
  <2>5. o(z) < e \/ o(z) > e
    BY <2>1, <2>3
  <2>6. to(z)[1] = (IF o(z) < e THEN mid(z) ELSE z[1]) /\ to(z)[2] = IF o(z) > e THEN mid(z) ELSE z[2]
    OBVIOUS
  <2>7. to(z) \in (0 .. Len(v)) \X (0 .. Len(v))
    BY <2>2, <2>4
  <2>8. o(z) < e => ~(o(z) > e)
    BY <2>3
  <2> QED  BY <2>3, <2>5, <2>6, <2>7, <2>8 DEF Z
<1> DEFINE mu == [z \in Z |-> IF z[1] < z[2] THEN z[2] - z[1] ELSE 0]
<1>3. mu \in [Z -> 0 .. Len(v)] /\ \A z \in Z : goes(z) => mu[to(z)] < mu[z]
  <2>1. ASSUME NEW z \in Z PROVE mu[z] \in 0 .. Len(v) /\ (z[1] < z[2] => mu[z] = z[2] - z[1])
    <3>1. PICK t \in 0 .. Len(v), n \in 0 .. Len(v) : z[1] = t /\ z[2] = n
      OBVIOUS
    <3>2. mu[z] = IF t < n THEN n - t ELSE 0
      BY <3>1
    <3> QED  BY <1>0, <3>1, <3>2
  <2>2. ASSUME NEW z \in Z, goes(z) PROVE mu[to(z)] < mu[z]
    <3>1. /\ z[1] \in Nat /\ z[2] \in Nat /\ mid(z) \in Int
          /\ z[1] < mid(z) /\ mid(z) < z[2]
      BY <1>0, <1>1, <2>2
    <3>2. mu[z] = z[2] - z[1]
      BY <2>1, <3>1
    <3>3. to(z) \in Z /\ to(z)[1] < to(z)[2] => mu[to(z)] = to(z)[2] - to(z)[1]
      BY <2>1
    <3>4. CASE o(z) < e
      <4>1. to(z) \in Z /\ to(z)[1] = mid(z) /\ to(z)[2] = z[2]
        BY <1>2, <2>2, <3>4
      <4> HIDE DEF to, mid, mu, o, Z
      <4> QED  BY <3>1, <3>2, <3>3, <4>1
    <3>5. CASE ~(o(z) < e)
      <4>1. to(z) \in Z /\ to(z)[1] = z[1] /\ to(z)[2] = mid(z)
        BY <1>2, <2>2, <3>5
      <4> HIDE DEF to, mid, mu, o, Z
      <4> QED  BY <3>1, <3>2, <3>3, <4>1
    <3> QED  BY <3>4, <3>5
  <2>3. mu \in [Z -> 0 .. Len(v)]
    BY <2>1
  <2> QED  BY <2>2, <2>3
<1>4. \E P : eq(P)
  <2> DEFINE stop == {z \in Z : ~goes(z)}
             base == [z \in Z |-> last(z)]
             next == [z \in Z |-> to(z)]
             add == [z \in Z |-> 0]
  <2>1. \A z \in Z : (z \in stop <=> ~goes(z)) /\ base[z] = last(z) /\ next[z] = to(z) /\ add[z] = 0
    OBVIOUS
  <2>2. \A z \in Z : last(z) \in Int
    <3> TAKE z \in Z
    <3>1. mid(z) \in Int
      BY <1>1
    <3> HIDE DEF mid
    <3> QED  BY <3>1
  <2> HIDE DEF stop, base, next, add, mu, goes, to, last, o, mid, Z
  <2>3. \A z \in Z : IF z \in stop THEN base[z] \in Int
                     ELSE next[z] \in Z /\ mu[next[z]] < mu[z] /\ add[z] \in Int
    BY <1>2, <1>3, <2>1, <2>2
  <2>8. Descends(Z, mu, stop, base, add, next)
    BY <2>3 DEF Descends
  <2>7. mu \in [Z -> 0 .. Len(v)] /\ Len(v) \in Nat
    BY <1>0, <1>3
  <2>4. PICK P \in [Z -> Int] : \A z \in Z :
             P[z] = IF z \in stop THEN base[z] ELSE add[z] + P[next[z]]
    BY <2>8, <2>7, DescentEnds
  <2>5. \A z \in Z : P[z] = IF goes(z) THEN P[to(z)] ELSE last(z)
    <3> TAKE z \in Z
    <3>1. CASE goes(z)
      <4>1. P[z] = 0 + P[to(z)] /\ P[to(z)] \in Int
        BY <1>2, <2>1, <2>4, <3>1
      <4> QED  BY <3>1, <4>1
    <3>2. CASE ~goes(z)
      BY <2>1, <2>4, <3>2
    <3> QED  BY <3>1, <3>2
  <2>6. P = [z \in Z |-> IF goes(z) THEN P[to(z)] ELSE last(z)]
    BY <2>4, <2>5
  <2> QED  BY <2>6
<1> DEFINE P == CHOOSE P : eq(P)
<1>5. eq(P)
  BY <1>4
<1>6. positionForIndex(v, e) = IF v = <<>> THEN 0 ELSE P[<<0, Len(v)>>]
  BY DEF positionForIndex
<1> HIDE DEF P
<1>7. \A z \in Z : P[z] = IF goes(z) THEN P[to(z)] ELSE last(z)
  <2> HIDE DEF goes, to, last, Z
  <2> QED  BY <1>5
<1> DEFINE around(z) == /\ z[1] < z[2]
                        /\ \A j \in 1 .. Len(v) : /\ j <= z[1] => v[j][1] < e
                                                  /\ j > z[2] => v[j][1] > e
           T == {z \in Z : around(z) => Splits(v, e, P[z])}
<1>8. ASSUME NEW z \in Z, \A y \in Z : mu[y] < mu[z] => y \in T PROVE z \in T
  <2> SUFFICES ASSUME around(z) PROVE Splits(v, e, P[z])
    OBVIOUS
  <2>1. /\ z[1] \in Nat /\ z[2] \in Nat /\ z[2] <= Len(v) /\ z[1] < z[2]
        /\ mid(z) \in 0 .. Len(v) - 1 /\ z[1] <= mid(z) /\ mid(z) < z[2]
        /\ z[2] - z[1] > 1 => z[1] < mid(z)
        /\ z[2] - z[1] = 1 => mid(z) = z[1]
    BY <1>0, <1>1
  <2>2. mid(z) + 1 \in 1 .. Len(v) /\ o(z) \in Nat /\ mid(z) \in Nat
    BY <1>0, <2>1
  <2>3. ASSUME NEW j \in 1 .. Len(v)
        PROVE  /\ v[j][1] \in Nat
               /\ j <= mid(z) => v[j][1] < o(z)
               /\ j > mid(z) + 1 => v[j][1] > o(z)
               /\ j = mid(z) + 1 => v[j][1] = o(z)
    <3>1. /\ v[j][1] \in Nat
          /\ j < mid(z) + 1 => v[j][1] < v[mid(z) + 1][1]
          /\ mid(z) + 1 < j => v[mid(z) + 1][1] < v[j][1]
      BY <1>0, <2>2
    <3> HIDE DEF mid
    <3> QED  BY <2>2, <3>1
  <2>4. \A j \in 1 .. Len(v) : /\ j <= z[1] => v[j][1] < e
                               /\ j > z[2] => v[j][1] > e
    OBVIOUS
  <2>5. CASE goes(z)
    <3>1. to(z) \in Z /\ mu[to(z)] < mu[z] /\ P[z] = P[to(z)]
      BY <1>2, <1>3, <1>7, <2>5
    <3>2. around(to(z)) => Splits(v, e, P[z])
      <4> HIDE DEF around, to, mu, Z
      <4> QED  BY <1>8, <3>1
    <3>3. z[2] - z[1] > 1
      BY <2>5
    <3>4. CASE o(z) < e
      <4>1. to(z)[1] = mid(z) /\ to(z)[2] = z[2]
        BY <1>2, <2>5, <3>4
      <4> HIDE DEF mid, o, to, goes
      <4>2. ASSUME NEW j \in 1 .. Len(v) PROVE (j <= mid(z) => v[j][1] < e) /\ (j > z[2] => v[j][1] > e)
        BY <2>2, <2>3, <2>4, <3>4
      <4>3. around(to(z))
        BY <2>1, <4>1, <4>2
      <4> QED  BY <3>2, <4>3
    <3>5. CASE ~(o(z) < e)
      <4>1. o(z) > e /\ to(z)[1] = z[1] /\ to(z)[2] = mid(z)
        BY <1>2, <2>5, <3>5
      <4> HIDE DEF mid, o, to, goes
      <4>2. ASSUME NEW j \in 1 .. Len(v) PROVE (j <= z[1] => v[j][1] < e) /\ (j > mid(z) => v[j][1] > e)
        <5>1. j > mid(z) => (j > mid(z) + 1 \/ j = mid(z) + 1)
          BY <2>2
        <5> QED  BY <2>2, <2>3, <2>4, <4>1, <5>1
      <4>3. z[1] < mid(z)
        BY <2>1, <3>3
      <4>4. around(to(z))
        BY <4>1, <4>2, <4>3
      <4> QED  BY <3>2, <4>4
    <3> QED  BY <3>4, <3>5
  <2>6. CASE ~goes(z)
    <3>1. P[z] = last(z)
      BY <1>7, <2>6
    <3>2. z[2] - z[1] = 1 \/ o(z) = e
      <4>1. ~(z[2] - z[1] > 1) \/ o(z) = e
        BY <2>6
      <4> HIDE DEF o
      <4> QED  BY <2>1, <4>1
    <3> HIDE DEF mid, o, goes, to
    <3>3. CASE o(z) < e
      <4>1. P[z] = mid(z) + 1 /\ mid(z) = z[1] /\ z[2] = z[1] + 1
        BY <2>1, <2>2, <3>1, <3>2, <3>3
      <4>2. ASSUME NEW j \in 1 .. Len(v) PROVE IF j <= mid(z) + 1 THEN v[j][1] < e ELSE v[j][1] >= e
        BY <2>1, <2>2, <2>3, <2>4, <3>3, <4>1
      <4>3. mid(z) + 1 \in 0 .. Len(v)
        BY <2>2
      <4> QED  BY <4>1, <4>2, <4>3 DEF Splits
    <3>4. CASE ~(o(z) < e)
      <4>1. P[z] = mid(z)
        BY <3>1, <3>4
      <4>2. ASSUME NEW j \in 1 .. Len(v) PROVE IF j <= mid(z) THEN v[j][1] < e ELSE v[j][1] >= e
        <5>1. j <= mid(z) \/ j = mid(z) + 1 \/ j > mid(z) + 1
          BY <2>2
        <5> QED  BY <2>1, <2>2, <2>3, <2>4, <3>2, <3>4, <5>1
      <4>3. mid(z) \in 0 .. Len(v)
        BY <2>2
      <4> QED  BY <4>1, <4>2, <4>3 DEF Splits
    <3> QED  BY <3>3, <3>4
  <2> QED  BY <2>5, <2>6
<1>9. Z \subseteq T
  <2>1. mu \in [Z -> Nat]
    BY <1>0, <1>3
  <2> HIDE DEF T, Z, mu
  <2> QED  BY <1>8, <2>1, MeasureDown
<1>10. CASE v = <<>>
  <2>1. Len(v) = 0
    BY <1>10
  <2>2. positionForIndex(v, e) = 0
    BY <1>6, <1>10
  <2> QED  BY <2>1, <2>2 DEF Splits
<1>11. CASE v # <<>>
  <2>1. Len(v) > 0
    BY <1>11, VectorFacts, EmptySeq
  <2> DEFINE z == <<0, Len(v)>>
  <2>2. z \in Z /\ around(z)
    BY <1>0, <2>1
  <2>3. Splits(v, e, P[z])
    BY <1>9, <2>2
  <2> QED  BY <1>6, <1>11, <2>3
<1> QED  BY <1>10, <1>11

(* The value a vector holds for an index.                                  *)
ValueAt(v, e) == IF \E i \in DOMAIN v : v[i][1] = e
              THEN v[CHOOSE i \in DOMAIN v : v[i][1] = e][2] ELSE 0

LEMMA AtFacts ==
    ASSUME NEW v \in Vectors
    PROVE  /\ \A i \in 1 .. Len(v) : ValueAt(v, v[i][1]) = v[i][2]
           /\ \A e : (\A i \in 1 .. Len(v) : v[i][1] # e) => ValueAt(v, e) = 0
           /\ \A e : ValueAt(v, e) \in Nat
<1>1. /\ Len(v) \in Nat /\ DOMAIN v = 1 .. Len(v)
      /\ \A i \in 1 .. Len(v) : v[i][1] \in Nat /\ v[i][2] \in Nat
      /\ \A i, j \in 1 .. Len(v) : i < j => v[i][1] < v[j][1]
  BY VectorFacts
<1>2. ASSUME NEW i \in 1 .. Len(v) PROVE ValueAt(v, v[i][1]) = v[i][2]
  <2> DEFINE k == CHOOSE j \in DOMAIN v : v[j][1] = v[i][1]
  <2>1. k \in 1 .. Len(v) /\ v[k][1] = v[i][1]
    BY <1>1
  <2>2. ValueAt(v, v[i][1]) = v[k][2]
    BY <1>1 DEF ValueAt
  <2> HIDE DEF k
  <2>3. ~(k < i) /\ ~(i < k)
    BY <1>1, <2>1
  <2>4. k = i
    BY <1>1, <2>1, <2>3
  <2> QED  BY <2>2, <2>4
<1>3. ASSUME NEW e, \A i \in 1 .. Len(v) : v[i][1] # e PROVE ValueAt(v, e) = 0
  BY <1>1, <1>3 DEF ValueAt
<1>4. ASSUME NEW e PROVE ValueAt(v, e) \in Nat
  <2>1. CASE \E i \in 1 .. Len(v) : v[i][1] = e
    <3>1. PICK i \in 1 .. Len(v) : v[i][1] = e
      BY <2>1
    <3> QED  BY <1>1, <1>2, <3>1
  <2>2. CASE \A i \in 1 .. Len(v) : v[i][1] # e
    BY <1>3, <2>2
  <2> QED  BY <2>1, <2>2
<1> QED  BY <1>2, <1>3, <1>4

(* The empty vector.                                                       *)
LEMMA NoPairs == <<>> \in Vectors /\ \A e : ValueAt(<<>>, e) = 0
<1>1. <<>> \in Seq(Nat \X Nat) /\ Len(<<>>) = 0
  BY EmptySeq
<1>2. <<>> \in Vectors
  BY <1>1 DEF Vectors
<1> QED  BY <1>1, <1>2, AtFacts

(* t is s with t[r] put in at place r.                                     *)
PutIn(s, t, r) ==
    /\ r \in 1 .. Len(t) /\ Len(t) = Len(s) + 1
    /\ \A i \in 1 .. Len(s) : IF i < r THEN t[i] = s[i] ELSE t[i + 1] = s[i]
(* t is s but for place r.                                                 *)
Changed(s, t, r) ==
    /\ r \in 1 .. Len(t) /\ Len(t) = Len(s)
    /\ \A i \in 1 .. Len(s) : i # r => t[i] = s[i]

LEMMA InsertAtPutsIn ==
    ASSUME NEW S, NEW s \in Seq(S), NEW x \in S, NEW r \in 1 .. Len(s) + 1
    PROVE  /\ InsertAt(s, r, x) \in Seq(S) /\ InsertAt(s, r, x)[r] = x
           /\ PutIn(s, InsertAt(s, r, x), r)
<1> DEFINE a == SubSeq(s, 1, r - 1)
           b == SubSeq(s, r, Len(s))
           t == InsertAt(s, r, x)
<1>1. Len(s) \in Nat /\ (\A i \in 1 .. Len(s) : s[i] \in S) /\ r \in Nat /\ r >= 1 /\ r <= Len(s) + 1
  BY LenProperties, ElementOfSeq
<1>2. a \in Seq(S) /\ Len(a) = r - 1 /\ \A i \in 1 .. r - 1 : a[i] = s[i]
  <2>1. \A i \in 1 .. r - 1 : s[i] \in S
    BY <1>1
  <2>2. /\ a \in Seq(S) /\ Len(a) = IF 1 <= r - 1 THEN r - 1 - 1 + 1 ELSE 0
        /\ \A i \in 1 .. r - 1 - 1 + 1 : a[i] = s[1 + i - 1]
    BY <1>1, <2>1, SubSeqProperties
  <2> HIDE DEF a
  <2>3. \A i \in 1 .. r - 1 : i \in 1 .. r - 1 - 1 + 1 /\ 1 + i - 1 = i
    BY <1>1
  <2> QED  BY <1>1, <2>2, <2>3
<1>3. b \in Seq(S) /\ Len(b) = Len(s) + 1 - r /\ \A i \in 1 .. Len(s) + 1 - r : b[i] = s[r + i - 1]
  <2>1. \A i \in r .. Len(s) : s[i] \in S
    BY <1>1
  <2>2. /\ b \in Seq(S) /\ Len(b) = IF r <= Len(s) THEN Len(s) - r + 1 ELSE 0
        /\ \A i \in 1 .. Len(s) - r + 1 : b[i] = s[r + i - 1]
    BY <1>1, <2>1, SubSeqProperties
  <2> HIDE DEF b
  <2>3. \A i \in 1 .. Len(s) + 1 - r : i \in 1 .. Len(s) - r + 1
    BY <1>1
  <2> QED  BY <1>1, <2>2, <2>3
<1> HIDE DEF a, b
<1>4. <<x>> \in Seq(S) /\ Len(<<x>>) = 1 /\ <<x>>[1] = x
  OBVIOUS
<1>5. /\ a \o <<x>> \in Seq(S) /\ Len(a \o <<x>>) = r
      /\ \A i \in 1 .. r : (a \o <<x>>)[i] = IF i < r THEN s[i] ELSE x
  <2>1. /\ a \o <<x>> \in Seq(S) /\ Len(a \o <<x>>) = Len(a) + 1
        /\ \A i \in 1 .. Len(a) + 1 : (a \o <<x>>)[i] = IF i <= Len(a) THEN a[i] ELSE <<x>>[i - Len(a)]
    BY <1>2, <1>4, ConcatProperties
  <2>2. ASSUME NEW i \in 1 .. r PROVE (a \o <<x>>)[i] = IF i < r THEN s[i] ELSE x
    <3>1. i \in 1 .. Len(a) + 1 /\ (i < r => i \in 1 .. r - 1 /\ i <= Len(a))
          /\ (~(i < r) => ~(i <= Len(a)) /\ i - Len(a) = 1)
      BY <1>1, <1>2
    <3> QED  BY <1>2, <1>4, <2>1, <3>1
  <2> QED  BY <1>1, <1>2, <2>1, <2>2
<1>6. t = (a \o <<x>>) \o b
  BY DEF InsertAt, a, b
<1>7. /\ t \in Seq(S) /\ Len(t) = Len(s) + 1
      /\ \A i \in 1 .. Len(s) + 1 : t[i] = IF i <= r THEN (a \o <<x>>)[i] ELSE b[i - r]
  <2>1. /\ t \in Seq(S) /\ Len(t) = r + (Len(s) + 1 - r)
        /\ \A i \in 1 .. r + (Len(s) + 1 - r) : t[i] = IF i <= r THEN (a \o <<x>>)[i] ELSE b[i - r]
    BY <1>3, <1>5, <1>6, ConcatProperties
  <2>2. r + (Len(s) + 1 - r) = Len(s) + 1
    BY <1>1
  <2> QED  BY <2>1, <2>2
<1> HIDE DEF t
<1>8. t[r] = x
  BY <1>1, <1>5, <1>7
<1>9. ASSUME NEW i \in 1 .. Len(s) PROVE IF i < r THEN t[i] = s[i] ELSE t[i + 1] = s[i]
  <2>1. CASE i < r
    BY <1>1, <1>5, <1>7, <2>1
  <2>2. CASE ~(i < r)
    <3>1. /\ i + 1 \in 1 .. Len(s) + 1 /\ ~(i + 1 <= r)
          /\ i + 1 - r \in 1 .. Len(s) + 1 - r /\ r + (i + 1 - r) - 1 = i
      BY <1>1, <2>2
    <3>2. t[i + 1] = b[i + 1 - r] /\ b[i + 1 - r] = s[i]
      BY <1>3, <1>7, <3>1
    <3> QED  BY <2>2, <3>2
  <2> QED  BY <2>1, <2>2
<1>10. r \in 1 .. Len(t)
  BY <1>1, <1>7
<1> QED  BY <1>7, <1>8, <1>9, <1>10 DEF PutIn, t

(* upsert keeps a vector one, and changes it for one index.                *)
LEMMA Upserted ==
    ASSUME NEW v \in Vectors, NEW e \in Nat, NEW x \in Nat
    PROVE  /\ upsert(v, e, x) \in Vectors
           /\ \E r \in 1 .. Len(upsert(v, e, x)) :
                \/ /\ Changed(v, upsert(v, e, x), r) /\ v[r][1] = e
                   /\ upsert(v, e, x)[r] = <<e, v[r][2] + x>>
                \/ /\ PutIn(v, upsert(v, e, x), r) /\ upsert(v, e, x)[r] = <<e, x>>
                   /\ \A i \in 1 .. Len(v) : v[i][1] # e
<1> DEFINE r == positionForIndex(v, e) + 1
           u == upsert(v, e, x)
<1>1. /\ v \in Seq(Nat \X Nat) /\ Len(v) \in Nat /\ DOMAIN v = 1 .. Len(v)
      /\ \A i \in 1 .. Len(v) : v[i][1] \in Nat /\ v[i][2] \in Nat
      /\ \A i, j \in 1 .. Len(v) : i < j => v[i][1] < v[j][1]
  BY VectorFacts
<1>2. r \in 1 .. Len(v) + 1 /\ \A j \in 1 .. Len(v) : IF j < r THEN v[j][1] < e ELSE v[j][1] >= e
  <2>1. PICK p : p = positionForIndex(v, e)
    OBVIOUS
  <2>2. p \in 0 .. Len(v) /\ \A j \in 1 .. Len(v) : IF j <= p THEN v[j][1] < e ELSE v[j][1] >= e
    BY <2>1, PositionFound DEF Splits
  <2>3. \A j \in 1 .. Len(v) : j < p + 1 <=> j <= p
    BY <1>1, <2>2
  <2>4. p + 1 \in 1 .. Len(v) + 1
    BY <1>1, <2>2
  <2> QED  BY <2>1, <2>2, <2>3, <2>4
<1>3. u = IF r <= Len(v) /\ v[r][1] = e THEN [v EXCEPT ![r] = <<e, v[r][2] + x>>] ELSE InsertAt(v, r, <<e, x>>)
  BY DEF upsert
<1> HIDE DEF r, u
<1>4. CASE r <= Len(v) /\ v[r][1] = e
  <2>1. r \in 1 .. Len(v) /\ v[r][2] + x \in Nat
    BY <1>1, <1>2, <1>4
  <2>2. <<e, v[r][2] + x>> \in Nat \X Nat
    BY <2>1
  <2>3. u = [v EXCEPT ![r] = <<e, v[r][2] + x>>]
    BY <1>3, <1>4
  <2>4. /\ u \in Seq(Nat \X Nat) /\ Len(u) = Len(v)
        /\ \A j \in 1 .. Len(v) : u[j] = IF j = r THEN <<e, v[r][2] + x>> ELSE v[j]
    BY <1>1, <2>1, <2>2, <2>3, ExceptSeq
  <2>5. \A j \in 1 .. Len(v) : u[j][1] = v[j][1]
    BY <1>4, <2>4
  <2>6. u \in Vectors
    BY <1>1, <2>4, <2>5 DEF Vectors
  <2>7. Changed(v, u, r) /\ u[r] = <<e, v[r][2] + x>> /\ r \in 1 .. Len(u)
    BY <2>1, <2>4 DEF Changed
  <2> QED  BY <1>4, <2>6, <2>7 DEF u
<1>5. CASE ~(r <= Len(v) /\ v[r][1] = e)
  <2>1. u = InsertAt(v, r, <<e, x>>) /\ <<e, x>> \in Nat \X Nat
    BY <1>3, <1>5
  <2>2. u \in Seq(Nat \X Nat) /\ u[r] = <<e, x>> /\ PutIn(v, u, r)
    <3>1. \A y \in Nat \X Nat : /\ InsertAt(v, r, y) \in Seq(Nat \X Nat) /\ InsertAt(v, r, y)[r] = y
                                /\ PutIn(v, InsertAt(v, r, y), r)
      <4>1. PICK S : S = Nat \X Nat
        OBVIOUS
      <4>2. v \in Seq(S) /\ r \in 1 .. Len(v) + 1
        BY <1>1, <1>2, <4>1
      <4>3. \A y \in S : InsertAt(v, r, y) \in Seq(S) /\ InsertAt(v, r, y)[r] = y /\ PutIn(v, InsertAt(v, r, y), r)
        BY <4>2, InsertAtPutsIn
      <4> QED  BY <4>1, <4>3
    <3> QED  BY <2>1, <3>1
  <2>3. ASSUME NEW j \in 1 .. Len(v) PROVE IF j < r THEN v[j][1] < e ELSE v[j][1] > e
    <3>1. CASE j < r
      BY <1>2, <3>1
    <3>2. CASE j = r
      BY <1>1, <1>2, <1>5, <3>2
    <3>3. CASE j > r
      <4>1. r \in 1 .. Len(v)
        BY <1>1, <1>2, <3>3
      <4>2. v[r][1] >= e /\ v[r][1] < v[j][1] /\ v[r][1] \in Nat /\ v[j][1] \in Nat
        BY <1>1, <1>2, <3>3, <4>1
      <4> QED  BY <1>1, <1>2, <3>3, <4>2
    <3> QED  BY <1>1, <1>2, <3>1, <3>2, <3>3
  <2>4. Len(u) = Len(v) + 1 /\ r \in 1 .. Len(u)
    BY <2>2 DEF PutIn
  <2>9. \A i \in 1 .. Len(v) : IF i < r THEN u[i] = v[i] ELSE u[i + 1] = v[i]
    BY <2>2 DEF PutIn
  <2>5. ASSUME NEW j \in 1 .. Len(u)
        PROVE  /\ j < r => j \in 1 .. Len(v) /\ u[j] = v[j]
               /\ j = r => u[j][1] = e
               /\ j > r => j - 1 \in 1 .. Len(v) /\ j - 1 >= r /\ u[j] = v[j - 1]
    <3>1. CASE j < r
      <4>1. j \in 1 .. Len(v)
        BY <1>1, <1>2, <2>4, <3>1
      <4>2. u[j] = v[j]
        BY <2>9, <3>1, <4>1
      <4> QED  BY <1>1, <1>2, <3>1, <4>1, <4>2
    <3>2. CASE j = r
      BY <1>1, <1>2, <2>2, <3>2
    <3>3. CASE j > r
      <4>1. j - 1 \in 1 .. Len(v) /\ ~(j - 1 < r) /\ j - 1 >= r /\ (j - 1) + 1 = j
        BY <1>1, <1>2, <2>4, <3>3
      <4>2. u[j] = v[j - 1]
        BY <2>9, <4>1
      <4> QED  BY <1>1, <1>2, <3>3, <4>1, <4>2
    <3> QED  BY <1>1, <1>2, <2>4, <3>1, <3>2, <3>3
  <2>6. ASSUME NEW i \in 1 .. Len(u), NEW j \in 1 .. Len(u), i < j PROVE u[i][1] < u[j][1]
    <3>1. i \in Nat /\ j \in Nat /\ r \in Nat
      BY <1>1, <1>2, <2>4
    <3>2. CASE j < r
      <4>1. i < r
        BY <2>6, <3>1, <3>2
      <4> QED  BY <1>1, <2>5, <2>6, <3>2, <4>1
    <3>3. CASE j = r
      <4>1. i < r
        BY <2>6, <3>3
      <4> QED  BY <2>3, <2>5, <3>3, <4>1
    <3>4. CASE j > r
      <4>1. j - 1 \in 1 .. Len(v) /\ u[j] = v[j - 1] /\ v[j - 1][1] > e /\ v[j - 1][1] \in Nat
        <5>1. j - 1 \in 1 .. Len(v) /\ u[j] = v[j - 1] /\ ~(j - 1 < r)
          BY <2>5, <3>1, <3>4
        <5> QED  BY <1>1, <2>3, <5>1
      <4>2. CASE i < r
        <5>1. i \in 1 .. Len(v) /\ u[i] = v[i] /\ v[i][1] < e /\ v[i][1] \in Nat
          BY <1>1, <2>3, <2>5, <4>2
        <5> QED  BY <4>1, <5>1
      <4>3. CASE i = r
        BY <2>5, <4>1, <4>3
      <4>4. CASE i > r
        <5>1. i - 1 \in 1 .. Len(v) /\ u[i] = v[i - 1] /\ i - 1 < j - 1
          BY <2>5, <2>6, <3>1, <4>4
        <5> QED  BY <1>1, <4>1, <5>1
      <4> QED  BY <3>1, <4>2, <4>3, <4>4
    <3> QED  BY <3>1, <3>2, <3>3, <3>4
  <2>7. u \in Vectors
    BY <2>2, <2>6 DEF Vectors
  <2>8. \A i \in 1 .. Len(v) : v[i][1] # e
    <3> TAKE i \in 1 .. Len(v)
    <3>1. (v[i][1] < e \/ v[i][1] > e) /\ v[i][1] \in Nat
      BY <1>1, <2>3
    <3> QED  BY <3>1
  <2> QED  BY <2>2, <2>4, <2>7, <2>8 DEF u
<1> QED  BY <1>4, <1>5

-----------------------------------------------------------------------------
(* Sums                                                                    *)

Sums(T, s) == /\ T \in [0 .. Len(s) -> Int] /\ T[0] = 0
              /\ \A i \in 1 .. Len(s) : T[i] = T[i - 1] + s[i]

LEMMA TotalIsReached ==
    ASSUME NEW s \in Seq(Int)
    PROVE  \E T : Sums(T, s) /\ Total(s) = T[Len(s)]
<1> DEFINE n == Len(s)
           rhs(T, i) == IF i = 0 THEN 0 ELSE T[i - 1] + s[i]
           eq(T) == T = [i \in 0 .. n |-> rhs(T, i)]
<1>0. n \in Nat /\ \A i \in 1 .. n : s[i] \in Int
  BY LenProperties, ElementOfSeq
<1>1. \E T : eq(T) /\ T \in [0 .. n -> Int]
  <2> DEFINE Z == 0 .. n
             mu == [z \in Z |-> z]
             base == [z \in Z |-> 0]
             add == [z \in Z |-> IF z = 0 THEN 0 ELSE s[z]]
             next == [z \in Z |-> z - 1]
             stop == {0}
  <2>1. mu \in [Z -> 0 .. n]
    OBVIOUS
  <2>2. \A z \in Z : IF z \in stop THEN base[z] \in Int
                     ELSE next[z] \in Z /\ mu[next[z]] < mu[z] /\ add[z] \in Int
    BY <1>0
  <2>3. \A z \in Z : (z # 0 => next[z] = z - 1 /\ add[z] = s[z] /\ z - 1 \in Z /\ z \in 1 .. n) /\ base[z] = 0 /\ (z \in stop <=> z = 0)
    BY <1>0
  <2> HIDE DEF mu, base, add, next, stop, Z
  <2>4. Descends(Z, mu, stop, base, add, next)
    BY <2>2 DEF Descends
  <2>5. PICK P \in [Z -> Int] : \A z \in Z : P[z] = IF z \in stop THEN base[z] ELSE add[z] + P[next[z]]
    BY <1>0, <2>1, <2>4, DescentEnds
  <2>6. \A z \in Z : P[z] = rhs(P, z)
    <3> TAKE z \in Z
    <3>1. CASE z = 0
      BY <2>3, <2>5, <3>1
    <3>2. CASE z # 0
      <4>1. P[z] = s[z] + P[z - 1] /\ P[z - 1] \in Int /\ s[z] \in Int
        BY <1>0, <2>3, <2>5, <3>2
      <4> QED  BY <3>2, <4>1
    <3> QED  BY <3>1, <3>2
  <2> QED  BY <2>5, <2>6 DEF Z
<1> DEFINE T == CHOOSE T : eq(T)
<1>2. eq(T)
  BY <1>1
<1>3. Total(s) = T[n]
  BY DEF Total
<1> HIDE DEF T
<1>4. \A i \in 0 .. n : T[i] = rhs(T, i)
  BY <1>2
<1>5. T[0] = 0 /\ \A i \in 1 .. n : T[i] = T[i - 1] + s[i]
  <2>1. 0 \in 0 .. n /\ \A i \in 1 .. n : i \in 0 .. n /\ i # 0
    BY <1>0
  <2> QED  BY <1>4, <2>1
<1>6. T \in [0 .. n -> Int]
  <2> DEFINE D == [i \in 0 .. n |-> Int]
  <2>1. \A i \in 0 .. n : D[i] = Int
    OBVIOUS
  <2>2. 0 \in 0 .. n /\ \A i \in 1 .. n : i \in 0 .. n /\ i - 1 \in 0 .. n
    BY <1>0
  <2> HIDE DEF D
  <2>3. T[0] \in D[0] /\ \A i \in 1 .. n : T[i - 1] \in D[i - 1] => T[i] \in D[i]
    <3>1. ASSUME NEW i \in 1 .. n, T[i - 1] \in D[i - 1] PROVE T[i] \in D[i]
      <4>1. T[i - 1] \in Int /\ s[i] \in Int
        BY <1>0, <2>1, <2>2, <3>1
      <4>2. T[i] = T[i - 1] + s[i]
        BY <1>5
      <4>3. T[i] \in Int
        BY <4>1, <4>2
      <4> QED  BY <2>1, <2>2, <4>3
    <3> QED  BY <1>5, <2>1, <2>2, <3>1
  <2>4. \A i \in 0 .. n : T[i] \in D[i]
    BY <1>0, <2>3, LoopStays
  <2>5. \A i \in 0 .. n : T[i] \in Int
    BY <2>1, <2>4
  <2> QED  BY <1>2, <2>5
<1> QED  BY <1>3, <1>5, <1>6 DEF Sums

LEMMA SumsAreTotal ==
    ASSUME NEW s \in Seq(Int), NEW U, Sums(U, s)
    PROVE  Total(s) = U[Len(s)] /\ Total(s) \in Int
<1>1. PICK T : Sums(T, s) /\ Total(s) = T[Len(s)]
  BY TotalIsReached
<1>2. Len(s) \in Nat
  OBVIOUS
<1> DEFINE S == {i \in 0 .. Len(s) : T[i] = U[i]}
<1>3. 0 \in S /\ \A i \in 1 .. Len(s) : i - 1 \in S => i \in S
  BY <1>1, <1>2 DEF Sums
<1> HIDE DEF S
<1>4. \A i \in 0 .. Len(s) : i \in S
  BY <1>2, <1>3, CountUp
<1>5. T[Len(s)] = U[Len(s)] /\ U[Len(s)] \in Int
  BY <1>2, <1>4 DEF S, Sums
<1> QED  BY <1>1, <1>5

LEMMA TotalOfNone == Total(<<>>) = 0
<1>1. <<>> \in Seq(Int) /\ Len(<<>>) = 0
  BY EmptySeq
<1>2. PICK T : Sums(T, <<>>) /\ Total(<<>>) = T[Len(<<>>)]
  BY <1>1, TotalIsReached
<1> QED  BY <1>1, <1>2 DEF Sums

LEMMA TotalPutIn ==
    ASSUME NEW s \in Seq(Int), NEW t \in Seq(Int), NEW r, PutIn(s, t, r)
    PROVE  Total(t) = Total(s) + t[r]
<1>0. /\ Len(s) \in Nat /\ Len(t) = Len(s) + 1 /\ r \in 1 .. Len(t)
      /\ \A i \in 1 .. Len(s) : IF i < r THEN t[i] = s[i] ELSE t[i + 1] = s[i]
      /\ \A i \in 1 .. Len(t) : t[i] \in Int
      /\ \A i \in 1 .. Len(s) : s[i] \in Int
  BY LenProperties, ElementOfSeq DEF PutIn
<1>1. PICK T : Sums(T, s) /\ Total(s) = T[Len(s)]
  BY TotalIsReached
<1>2. T \in [0 .. Len(s) -> Int] /\ T[0] = 0 /\ \A i \in 1 .. Len(s) : T[i] = T[i - 1] + s[i]
  BY <1>1 DEF Sums
<1> DEFINE U == [i \in 0 .. Len(t) |-> IF i < r THEN T[i] ELSE T[i - 1] + t[r]]
<1>3. \A i \in 0 .. Len(t) : U[i] = IF i < r THEN T[i] ELSE T[i - 1] + t[r]
  OBVIOUS
<1>4. t[r] \in Int /\ r \in Nat /\ r >= 1
  BY <1>0
<1>5. U \in [0 .. Len(t) -> Int]
  <2>1. ASSUME NEW i \in 0 .. Len(t) PROVE (IF i < r THEN T[i] ELSE T[i - 1] + t[r]) \in Int
    <3>1. (i < r => i \in 0 .. Len(s)) /\ (~(i < r) => i - 1 \in 0 .. Len(s))
      BY <1>0, <1>4
    <3>2. (i < r => T[i] \in Int) /\ (~(i < r) => T[i - 1] \in Int)
      BY <1>2, <3>1
    <3> QED  BY <1>4, <3>2
  <2> QED  BY <2>1
<1> HIDE DEF U
<1>6. U[0] = 0
  BY <1>0, <1>2, <1>3, <1>4
<1>7. ASSUME NEW i \in 1 .. Len(t) PROVE U[i] = U[i - 1] + t[i]
  <2>0. i - 1 \in 0 .. Len(t) /\ i \in 0 .. Len(t) /\ i \in Nat
    BY <1>0
  <2>1. CASE i < r
    <3>1. i - 1 < r /\ i \in 1 .. Len(s)
      BY <1>0, <1>4, <2>1
    <3> QED  BY <1>0, <1>2, <1>3, <2>0, <2>1, <3>1
  <2>2. CASE i = r
    <3>1. i - 1 < r /\ i - 1 \in 0 .. Len(s)
      BY <1>0, <1>4, <2>2
    <3>2. U[i] = T[i - 1] + t[r] /\ U[i - 1] = T[i - 1]
      BY <1>3, <1>4, <2>0, <2>2, <3>1
    <3> QED  BY <2>2, <3>2
  <2>3. CASE i > r
    <3>1. /\ ~(i - 1 < r) /\ ~(i < r) /\ i - 1 \in 1 .. Len(s) /\ (i - 1) + 1 = i
          /\ i - 1 \in 0 .. Len(s) /\ (i - 1) - 1 \in 0 .. Len(s)
      BY <1>0, <1>4, <2>3
    <3>2. U[i] = T[i - 1] + t[r] /\ U[i - 1] = T[(i - 1) - 1] + t[r]
      BY <1>3, <2>0, <3>1
    <3>3. T[i - 1] = T[(i - 1) - 1] + s[i - 1] /\ s[i - 1] = t[i] /\ s[i - 1] \in Int
      BY <1>0, <1>2, <3>1
    <3>4. PICK a \in Int, b \in Int : T[i - 1] = a /\ T[(i - 1) - 1] = b
      BY <1>2, <3>1
    <3>5. U[i] = a + t[r] /\ U[i - 1] = b + t[r] /\ a = b + t[i] /\ t[i] \in Int
      BY <3>2, <3>3, <3>4
    <3> QED  BY <1>4, <3>5
  <2> QED  BY <1>4, <2>0, <2>1, <2>2, <2>3
<1>8. Sums(U, t)
  BY <1>5, <1>6, <1>7 DEF Sums
<1>9. Total(t) = U[Len(t)]
  BY <1>8, SumsAreTotal
<1>10. Len(t) \in 0 .. Len(t) /\ ~(Len(t) < r) /\ Len(t) - 1 = Len(s)
  BY <1>0, <1>4
<1> QED  BY <1>1, <1>3, <1>9, <1>10

LEMMA TotalChanged ==
    ASSUME NEW s \in Seq(Int), NEW t \in Seq(Int), NEW r, Changed(s, t, r)
    PROVE  Total(t) = Total(s) + (t[r] - s[r])
<1>0. /\ Len(s) \in Nat /\ Len(t) = Len(s) /\ r \in 1 .. Len(t)
      /\ \A i \in 1 .. Len(s) : i # r => t[i] = s[i]
      /\ \A i \in 1 .. Len(s) : s[i] \in Int /\ t[i] \in Int
  BY LenProperties, ElementOfSeq DEF Changed
<1>1. PICK T : Sums(T, s) /\ Total(s) = T[Len(s)]
  BY TotalIsReached
<1>2. T \in [0 .. Len(s) -> Int] /\ T[0] = 0 /\ \A i \in 1 .. Len(s) : T[i] = T[i - 1] + s[i]
  BY <1>1 DEF Sums
<1> DEFINE U == [i \in 0 .. Len(t) |-> IF i < r THEN T[i] ELSE T[i] + (t[r] - s[r])]
<1>3. \A i \in 0 .. Len(t) : U[i] = IF i < r THEN T[i] ELSE T[i] + (t[r] - s[r])
  OBVIOUS
<1>4. t[r] - s[r] \in Int /\ t[r] \in Int /\ s[r] \in Int /\ r \in Nat /\ r >= 1
  BY <1>0
<1>5. U \in [0 .. Len(t) -> Int]
  <2>1. ASSUME NEW i \in 0 .. Len(t) PROVE (IF i < r THEN T[i] ELSE T[i] + (t[r] - s[r])) \in Int
    <3>1. T[i] \in Int
      BY <1>0, <1>2
    <3> QED  BY <1>4, <3>1
  <2> QED  BY <2>1
<1> HIDE DEF U
<1>6. U[0] = 0
  BY <1>0, <1>2, <1>3, <1>4
<1>7. ASSUME NEW i \in 1 .. Len(t) PROVE U[i] = U[i - 1] + t[i]
  <2>0. /\ i - 1 \in 0 .. Len(t) /\ i \in 0 .. Len(t) /\ i \in Nat
        /\ T[i] = T[i - 1] + s[i] /\ T[i - 1] \in Int /\ s[i] \in Int /\ t[i] \in Int
    <3>1. i - 1 \in 0 .. Len(s) /\ i \in 1 .. Len(s) /\ i \in 0 .. Len(t) /\ i \in Nat
      BY <1>0
    <3> QED  BY <1>0, <1>2, <3>1
  <2>1. CASE i < r
    <3>1. i - 1 < r /\ s[i] = t[i]
      BY <1>0, <1>4, <2>1
    <3> QED  BY <1>3, <2>0, <2>1, <3>1
  <2>2. CASE i = r
    <3>1. i - 1 < r /\ ~(i < r)
      BY <1>4, <2>2
    <3>2. U[i] = T[i] + (t[i] - s[i]) /\ U[i - 1] = T[i - 1]
      BY <1>3, <2>0, <2>2, <3>1
    <3> QED  BY <2>0, <3>2
  <2>3. CASE i > r
    <3>1. ~(i - 1 < r) /\ ~(i < r) /\ t[i] = s[i]
      BY <1>0, <1>4, <2>0, <2>3
    <3>2. U[i] = T[i] + (t[r] - s[r]) /\ U[i - 1] = T[i - 1] + (t[r] - s[r])
      BY <1>3, <2>0, <3>1
    <3> QED  BY <1>4, <2>0, <3>1, <3>2
  <2> QED  BY <1>4, <2>0, <2>1, <2>2, <2>3
<1>8. Sums(U, t)
  BY <1>5, <1>6, <1>7 DEF Sums
<1>9. Total(t) = U[Len(t)]
  BY <1>8, SumsAreTotal
<1>10. Len(t) \in 0 .. Len(t) /\ ~(Len(t) < r) /\ Len(t) = Len(s)
  BY <1>0, <1>4
<1> QED  BY <1>1, <1>3, <1>9, <1>10

(* upsert adds x to the value of e.                                        *)
LEMMA UpsertAdds ==
    ASSUME NEW v \in Vectors, NEW e \in Nat, NEW x \in Nat
    PROVE  /\ upsert(v, e, x) \in Vectors
           /\ \A g \in Nat : ValueAt(upsert(v, e, x), g) = IF g = e THEN ValueAt(v, e) + x ELSE ValueAt(v, g)
<1> DEFINE u == upsert(v, e, x)
<1>1. /\ u \in Vectors
      /\ \E r \in 1 .. Len(u) :
           \/ /\ Changed(v, u, r) /\ v[r][1] = e
              /\ u[r] = <<e, v[r][2] + x>>
           \/ /\ PutIn(v, u, r) /\ u[r] = <<e, x>>
              /\ \A i \in 1 .. Len(v) : v[i][1] # e
  BY Upserted
<1> HIDE DEF u
<1>2. PICK r \in 1 .. Len(u) :
           \/ /\ Changed(v, u, r) /\ v[r][1] = e
              /\ u[r] = <<e, v[r][2] + x>>
           \/ /\ PutIn(v, u, r) /\ u[r] = <<e, x>>
              /\ \A i \in 1 .. Len(v) : v[i][1] # e
  BY <1>1
<1>3. /\ \A i \in 1 .. Len(v) : ValueAt(v, v[i][1]) = v[i][2]
      /\ \A g : (\A i \in 1 .. Len(v) : v[i][1] # g) => ValueAt(v, g) = 0
  BY AtFacts
<1>4. /\ \A i \in 1 .. Len(u) : ValueAt(u, u[i][1]) = u[i][2]
      /\ \A g : (\A i \in 1 .. Len(u) : u[i][1] # g) => ValueAt(u, g) = 0
  BY <1>1, AtFacts
<1>5. Len(v) \in Nat /\ Len(u) \in Nat /\ \A i \in 1 .. Len(v) : v[i][2] \in Nat
  BY <1>1, VectorFacts
<1>6. CASE Changed(v, u, r) /\ v[r][1] = e /\ u[r] = <<e, v[r][2] + x>>
  <2>1. Len(u) = Len(v) /\ r \in 1 .. Len(v) /\ \A i \in 1 .. Len(v) : i # r => u[i] = v[i]
    BY <1>6 DEF Changed
  <2>2. u[r][1] = e /\ u[r][2] = v[r][2] + x
    BY <1>6
  <2>3. ValueAt(u, e) = ValueAt(v, e) + x
    BY <1>3, <1>4, <1>6, <2>1, <2>2
  <2>4. ASSUME NEW g \in Nat, g # e PROVE ValueAt(u, g) = ValueAt(v, g)
    <3>1. CASE \E i \in 1 .. Len(v) : v[i][1] = g
      <4>1. PICK i \in 1 .. Len(v) : v[i][1] = g
        BY <3>1
      <4>2. i # r /\ u[i] = v[i]
        BY <1>6, <2>1, <2>4, <4>1
      <4> QED  BY <1>3, <1>4, <2>1, <4>1, <4>2
    <3>2. CASE \A i \in 1 .. Len(v) : v[i][1] # g
      <4>1. \A i \in 1 .. Len(u) : u[i][1] # g
        BY <2>1, <2>2, <2>4, <3>2
      <4> QED  BY <1>3, <1>4, <3>2, <4>1
    <3> QED  BY <3>1, <3>2
  <2> QED  BY <1>1, <2>3, <2>4 DEF u
<1>7. CASE /\ PutIn(v, u, r) /\ u[r] = <<e, x>>
           /\ \A i \in 1 .. Len(v) : v[i][1] # e
  <2>1. /\ Len(u) = Len(v) + 1 /\ r \in 1 .. Len(u)
        /\ \A i \in 1 .. Len(v) : IF i < r THEN u[i] = v[i] ELSE u[i + 1] = v[i]
    BY <1>7 DEF PutIn
  <2>2. u[r][1] = e /\ u[r][2] = x
    BY <1>7
  <2>3. ValueAt(u, e) = ValueAt(v, e) + x
    <3>1. ValueAt(v, e) = 0 /\ ValueAt(u, e) = x
      BY <1>3, <1>4, <1>7, <2>2
    <3> QED  BY <3>1
  <2>4. ASSUME NEW g \in Nat, g # e PROVE ValueAt(u, g) = ValueAt(v, g)
    <3>1. CASE \E i \in 1 .. Len(v) : v[i][1] = g
      <4>1. PICK i \in 1 .. Len(v) : v[i][1] = g
        BY <3>1
      <4>2. PICK j \in 1 .. Len(u) : u[j] = v[i]
        <5>1. i \in 1 .. Len(u) /\ i + 1 \in 1 .. Len(u)
          BY <1>5, <2>1
        <5> QED  BY <2>1, <5>1
      <4> QED  BY <1>3, <1>4, <4>1, <4>2
    <3>2. CASE \A i \in 1 .. Len(v) : v[i][1] # g
      <4>1. ASSUME NEW j \in 1 .. Len(u) PROVE u[j][1] # g
        <5>1. CASE j = r
          BY <2>2, <2>4, <5>1
        <5>2. CASE j < r
          <6>1. j \in 1 .. Len(v)
            BY <1>5, <2>1, <5>2
          <6> QED  BY <2>1, <3>2, <5>2, <6>1
        <5>3. CASE j > r
          <6>1. j - 1 \in 1 .. Len(v) /\ ~(j - 1 < r) /\ (j - 1) + 1 = j
            BY <1>5, <2>1, <5>3
          <6>2. u[(j - 1) + 1] = v[j - 1] /\ v[j - 1][1] # g
            BY <2>1, <3>2, <6>1
          <6> QED  BY <6>1, <6>2
        <5>4. j \in Nat /\ r \in Nat
          BY <2>1
        <5> QED  BY <5>1, <5>2, <5>3, <5>4
      <4> QED  BY <1>3, <1>4, <3>2, <4>1
    <3> QED  BY <3>1, <3>2
  <2> QED  BY <1>1, <2>3, <2>4 DEF u
<1> QED  BY <1>2, <1>6, <1>7

(* What the pass of dot adds up.                                           *)
Products(q, v) == [i \in 1 .. Len(v) |-> ValueAt(q, v[i][1]) * v[i][2]]

LEMMA ProductsAreNumbers ==
    ASSUME NEW q \in Vectors, NEW v \in Vectors
    PROVE  /\ Products(q, v) \in Seq(Int) /\ Len(Products(q, v)) = Len(v)
           /\ \A i \in 1 .. Len(v) : Products(q, v)[i] = ValueAt(q, v[i][1]) * v[i][2]
<1>1. Len(v) \in Nat /\ \A i \in 1 .. Len(v) : v[i][2] \in Nat /\ ValueAt(q, v[i][1]) \in Nat
  BY VectorFacts, AtFacts
<1>2. \A i \in 1 .. Len(v) : ValueAt(q, v[i][1]) * v[i][2] \in Int
  BY <1>1
<1>3. Products(q, v) \in [1 .. Len(v) -> Int]
  BY <1>2 DEF Products
<1>4. Products(q, v) \in Seq(Int)
  BY <1>1, <1>3, SeqDef
<1>5. \A i \in 1 .. Len(v) : Products(q, v)[i] = ValueAt(q, v[i][1]) * v[i][2]
  BY DEF Products
<1>6. DOMAIN Products(q, v) = 1 .. Len(v)
  BY DEF Products
<1> QED  BY <1>1, <1>4, <1>5, <1>6, LenProperties

LEMMA DotIsTheSum ==
    ASSUME NEW q \in Vectors, NEW v \in Vectors
    PROVE  dot(q, v) = Total(Products(q, v))
<1> DEFINE Z == (1 .. Len(q) + 1) \X (1 .. Len(v) + 1)
           out(z) == z[1] > Len(q) \/ z[2] > Len(v)
           rhs(D, z) == IF out(z) THEN 0
              ELSE CASE q[z[1]][1] < v[z[2]][1] -> D[<<z[1] + 1, z[2]>>]
                     [] q[z[1]][1] > v[z[2]][1] -> D[<<z[1], z[2] + 1>>]
                     [] OTHER -> q[z[1]][2] * v[z[2]][2] + D[<<z[1] + 1, z[2] + 1>>]
           eq(D) == D = [z \in Z |-> rhs(D, z)]
           mu == [z \in Z |-> (Len(q) + 1 - z[1]) + (Len(v) + 1 - z[2])]
<1>0. /\ Len(q) \in Nat /\ \A i \in 1 .. Len(q) : q[i][1] \in Nat /\ q[i][2] \in Nat
      /\ \A i, j \in 1 .. Len(q) : i < j => q[i][1] < q[j][1]
      /\ Len(v) \in Nat /\ \A i \in 1 .. Len(v) : v[i][1] \in Nat /\ v[i][2] \in Nat
      /\ \A i, j \in 1 .. Len(v) : i < j => v[i][1] < v[j][1]
  BY VectorFacts
<1>1. ASSUME NEW z \in Z
      PROVE  /\ z[1] \in Nat /\ z[2] \in Nat /\ z[1] >= 1 /\ z[2] >= 1
             /\ z[1] <= Len(q) + 1 /\ z[2] <= Len(v) + 1
             /\ mu[z] = (Len(q) + 1 - z[1]) + (Len(v) + 1 - z[2])
             /\ ~out(z) => z[1] \in 1 .. Len(q) /\ z[2] \in 1 .. Len(v)
  <2>1. z[1] \in 1 .. Len(q) + 1 /\ z[2] \in 1 .. Len(v) + 1
    OBVIOUS
  <2>2. mu[z] = (Len(q) + 1 - z[1]) + (Len(v) + 1 - z[2])
    OBVIOUS
  <2> HIDE DEF mu, Z
  <2> QED  BY <1>0, <2>1, <2>2
<1>2. ASSUME NEW z \in Z, ~out(z)
      PROVE  /\ <<z[1] + 1, z[2]>> \in Z /\ mu[<<z[1] + 1, z[2]>>] < mu[z]
             /\ <<z[1], z[2] + 1>> \in Z /\ mu[<<z[1], z[2] + 1>>] < mu[z]
             /\ <<z[1] + 1, z[2] + 1>> \in Z /\ mu[<<z[1] + 1, z[2] + 1>>] < mu[z]
  <2>1. PICK c, d : c = z[1] /\ d = z[2]
    OBVIOUS
  <2>2. c \in 1 .. Len(q) /\ d \in 1 .. Len(v) /\ mu[z] = (Len(q) + 1 - c) + (Len(v) + 1 - d)
    BY <1>1, <1>2, <2>1
  <2>3. c \in 1 .. Len(q) + 1 /\ c + 1 \in 1 .. Len(q) + 1 /\ d \in 1 .. Len(v) + 1 /\ d + 1 \in 1 .. Len(v) + 1
    BY <1>0, <2>2
  <2>4. <<c + 1, d>> \in Z /\ <<c, d + 1>> \in Z /\ <<c + 1, d + 1>> \in Z
    BY <2>3
  <2>5. /\ mu[<<c + 1, d>>] = (Len(q) + 1 - (c + 1)) + (Len(v) + 1 - d)
        /\ mu[<<c, d + 1>>] = (Len(q) + 1 - c) + (Len(v) + 1 - (d + 1))
        /\ mu[<<c + 1, d + 1>>] = (Len(q) + 1 - (c + 1)) + (Len(v) + 1 - (d + 1))
    <3>1. \A y \in Z : mu[y] = (Len(q) + 1 - y[1]) + (Len(v) + 1 - y[2])
      BY <1>1
    <3> HIDE DEF mu, Z
    <3> QED  BY <2>4, <3>1
  <2> HIDE DEF mu, Z
  <2>6. c \in Nat /\ d \in Nat
    BY <2>2
  <2>7. mu[<<c + 1, d>>] < mu[z] /\ mu[<<c, d + 1>>] < mu[z] /\ mu[<<c + 1, d + 1>>] < mu[z]
    BY <1>0, <2>2, <2>5, <2>6
  <2> QED  BY <2>1, <2>4, <2>7
<1>3. mu \in [Z -> 0 .. Len(q) + Len(v)]
  <2>1. \A z \in Z : (Len(q) + 1 - z[1]) + (Len(v) + 1 - z[2]) \in 0 .. Len(q) + Len(v)
    <3> TAKE z \in Z
    <3>1. z[1] \in Nat /\ z[2] \in Nat /\ z[1] >= 1 /\ z[2] >= 1 /\ z[1] <= Len(q) + 1 /\ z[2] <= Len(v) + 1
      BY <1>1
    <3>2. PICK c, d : c = z[1] /\ d = z[2]
      OBVIOUS
    <3> HIDE DEF Z
    <3>3. (Len(q) + 1 - c) + (Len(v) + 1 - d) \in 0 .. Len(q) + Len(v)
      BY <1>0, <3>1, <3>2
    <3> QED  BY <3>2, <3>3
  <2> QED  BY <2>1
<1>4. \E D : eq(D)
  <2> DEFINE stop == {z \in Z : out(z)}
             base == [z \in Z |-> 0]
             next == [z \in Z |-> CASE q[z[1]][1] < v[z[2]][1] -> <<z[1] + 1, z[2]>>
                                    [] q[z[1]][1] > v[z[2]][1] -> <<z[1], z[2] + 1>>
                                    [] OTHER -> <<z[1] + 1, z[2] + 1>>]
             add == [z \in Z |-> IF q[z[1]][1] < v[z[2]][1] \/ q[z[1]][1] > v[z[2]][1] THEN 0
                                 ELSE q[z[1]][2] * v[z[2]][2]]
  <2>0. \A z \in Z : (z \in stop <=> out(z)) /\ base[z] = 0
    OBVIOUS
  <2>1. \A z \in Z : next[z] = CASE q[z[1]][1] < v[z[2]][1] -> <<z[1] + 1, z[2]>>
                                  [] q[z[1]][1] > v[z[2]][1] -> <<z[1], z[2] + 1>>
                                  [] OTHER -> <<z[1] + 1, z[2] + 1>>
    OBVIOUS
  <2>9. \A z \in Z : add[z] = IF q[z[1]][1] < v[z[2]][1] \/ q[z[1]][1] > v[z[2]][1] THEN 0
                              ELSE q[z[1]][2] * v[z[2]][2]
    OBVIOUS
  <2> HIDE DEF stop, base, next, add, mu, Z
  <2>2. ASSUME NEW z \in Z, ~out(z)
        PROVE  /\ q[z[1]][1] \in Nat /\ v[z[2]][1] \in Nat
               /\ q[z[1]][2] \in Nat /\ v[z[2]][2] \in Nat
               /\ q[z[1]][2] * v[z[2]][2] \in Int
    <3>1. z[1] \in 1 .. Len(q) /\ z[2] \in 1 .. Len(v)
      BY <1>1, <2>2
    <3>2. q[z[1]][1] \in Nat /\ v[z[2]][1] \in Nat /\ q[z[1]][2] \in Nat /\ v[z[2]][2] \in Nat
      BY <1>0, <3>1
    <3> QED  BY <3>2
  <2>3. ASSUME NEW z \in Z, ~out(z)
        PROVE  next[z] \in Z /\ mu[next[z]] < mu[z] /\ add[z] \in Int
    <3>1. next[z] \in {<<z[1] + 1, z[2]>>, <<z[1], z[2] + 1>>, <<z[1] + 1, z[2] + 1>>}
      BY <2>1
    <3>2. next[z] \in Z /\ mu[next[z]] < mu[z]
      BY <1>2, <2>3, <3>1
    <3>3. PICK p : p = q[z[1]][2] * v[z[2]][2]
      OBVIOUS
    <3>4. p \in Int
      BY <2>2, <2>3, <3>3
    <3>5. add[z] \in {0, p}
      BY <2>9, <3>3
    <3>6. add[z] \in Int
      BY <3>4, <3>5
    <3> QED  BY <3>2, <3>6
  <2> HIDE DEF out
  <2>4. Descends(Z, mu, stop, base, add, next)
    BY <2>0, <2>3 DEF Descends
  <2>5. PICK n : n = Len(q) + Len(v)
    OBVIOUS
  <2>6. n \in Nat /\ mu \in [Z -> 0 .. n]
    BY <1>0, <1>3, <2>5
  <2>7. PICK D \in [Z -> Int] : \A z \in Z : D[z] = IF z \in stop THEN base[z] ELSE add[z] + D[next[z]]
    BY <2>4, <2>6, DescentEnds
  <2>8. \A z \in Z : D[z] = rhs(D, z)
    <3> TAKE z \in Z
    <3>1. CASE out(z)
      BY <2>0, <2>7, <3>1
    <3>2. CASE ~out(z)
      <4>1. D[z] = add[z] + D[next[z]] /\ D[next[z]] \in Int
        BY <2>0, <2>3, <2>7, <3>2
      <4>2. PICK a, b : a = q[z[1]][1] /\ b = v[z[2]][1] /\ a \in Nat /\ b \in Nat
        BY <2>2, <3>2
      <4>3. CASE a < b
        <5>0. add[z] = 0
          BY <2>9, <4>2, <4>3
        <5>3. ~(a > b)
          BY <4>2, <4>3
        <5>1. next[z] = <<z[1] + 1, z[2]>>
          BY <2>1, <4>2, <4>3, <5>3
        <5>2. D[z] = D[next[z]]
          BY <4>1, <5>0
        <5> QED  BY <3>2, <4>2, <4>3, <5>1, <5>2, <5>3
      <4>4. CASE a > b
        <5>1. ~(a < b)
          BY <4>2, <4>4
        <5>0. add[z] = 0
          BY <2>9, <4>2, <4>4
        <5>2. next[z] = <<z[1], z[2] + 1>>
          BY <2>1, <4>2, <4>4, <5>1
        <5>3. D[z] = D[next[z]]
          BY <4>1, <5>0
        <5> QED  BY <3>2, <4>2, <4>4, <5>1, <5>2, <5>3
      <4>5. CASE ~(a < b) /\ ~(a > b)
        <5>0. add[z] = q[z[1]][2] * v[z[2]][2]
          BY <2>9, <4>2, <4>5
        <5>1. next[z] = <<z[1] + 1, z[2] + 1>>
          BY <2>1, <4>2, <4>5
        <5> QED  BY <3>2, <4>1, <4>2, <4>5, <5>0, <5>1
      <4> QED  BY <4>3, <4>4, <4>5
    <3> QED  BY <3>1, <3>2
  <2> QED  BY <2>7, <2>8
<1> DEFINE D == CHOOSE D : eq(D)
<1>5. eq(D)
  BY <1>4
<1>6. dot(q, v) = D[<<1, 1>>]
  BY DEF dot
<1> HIDE DEF D
<1>7. \A z \in Z : D[z] = rhs(D, z)
  <2> HIDE DEF rhs, Z
  <2> QED  BY <1>5
<1>8. PICK s : s = Products(q, v)
  OBVIOUS
<1>9. /\ s \in Seq(Int) /\ Len(s) = Len(v)
      /\ \A i \in 1 .. Len(v) : s[i] = ValueAt(q, v[i][1]) * v[i][2] /\ s[i] \in Int
  <2>1. /\ s \in Seq(Int) /\ Len(s) = Len(v)
        /\ \A i \in 1 .. Len(v) : s[i] = ValueAt(q, v[i][1]) * v[i][2]
    BY <1>8, ProductsAreNumbers
  <2> QED  BY <2>1, ElementOfSeq
<1>10. PICK T : Sums(T, s) /\ Total(s) = T[Len(s)]
  BY <1>9, TotalIsReached
<1>11. /\ T \in [0 .. Len(v) -> Int] /\ T[0] = 0
       /\ \A i \in 1 .. Len(v) : T[i] = T[i - 1] + s[i]
  BY <1>9, <1>10 DEF Sums
<1>12. \A i \in 1 .. Len(q) : ValueAt(q, q[i][1]) = q[i][2]
  BY AtFacts
<1>13. \A e : (\A i \in 1 .. Len(q) : q[i][1] # e) => ValueAt(q, e) = 0
  BY AtFacts
<1> DEFINE left(z) == \A j \in 1 .. Len(q), i \in 1 .. Len(v) :
                        j < z[1] /\ i >= z[2] => q[j][1] < v[i][1]
           rest(z) == T[Len(v)] - T[z[2] - 1]
           W == {z \in Z : left(z) => D[z] = rest(z)}
<1>14. ASSUME NEW z \in Z, \A y \in Z : mu[y] < mu[z] => y \in W PROVE z \in W
  <2> SUFFICES ASSUME left(z) PROVE D[z] = rest(z)
    OBVIOUS
  <2>1. PICK c, d : c = z[1] /\ d = z[2]
    OBVIOUS
  <2>2. c \in 1 .. Len(q) + 1 /\ d \in 1 .. Len(v) + 1 /\ c \in Nat /\ d \in Nat
    BY <1>1, <2>1
  <2>3. \A j \in 1 .. Len(q), i \in 1 .. Len(v) : j < c /\ i >= d => q[j][1] < v[i][1]
    BY <2>1
  <2>4. rest(z) = T[Len(v)] - T[d - 1] /\ T[Len(v)] \in Int /\ T[d - 1] \in Int
    <3>1. Len(v) \in 0 .. Len(v) /\ d - 1 \in 0 .. Len(v)
      BY <1>0, <2>2
    <3> QED  BY <1>11, <2>1, <3>1
  <2>5. \A y \in Z : mu[y] < mu[z] /\ left(y) => D[y] = rest(y)
    BY <1>14
  <2>6. CASE c > Len(q)
    <3>1. D[z] = 0
      BY <1>7, <2>1, <2>6
    <3>2. ASSUME NEW i \in 1 .. Len(v), i >= d PROVE s[i] = 0
      <4>1. \A j \in 1 .. Len(q) : j < c
        BY <1>0, <2>2, <2>6
      <4>2. \A j \in 1 .. Len(q) : q[j][1] < v[i][1] /\ q[j][1] \in Nat /\ v[i][1] \in Nat
        BY <1>0, <2>3, <3>2, <4>1
      <4>3. \A j \in 1 .. Len(q) : q[j][1] # v[i][1]
        BY <4>2
      <4>4. ValueAt(q, v[i][1]) = 0 /\ v[i][2] \in Nat
        BY <1>0, <1>13, <4>3
      <4> QED  BY <1>9, <4>4
    <3> DEFINE F == {i \in 0 .. Len(v) : i >= d - 1 => T[i] = T[d - 1]}
    <3>3. 0 \in F
      BY <1>0, <2>2
    <3>4. ASSUME NEW i \in 1 .. Len(v), i - 1 \in F PROVE i \in F
      <4>1. CASE i - 1 >= d - 1
        <5>1. i >= d /\ i - 1 \in 0 .. Len(v)
          BY <1>0, <2>2, <4>1
        <5>2. T[i] = T[i - 1] + s[i] /\ s[i] = 0 /\ T[i - 1] = T[d - 1]
          BY <1>11, <3>2, <3>4, <4>1, <5>1
        <5> QED  BY <2>4, <5>1, <5>2
      <4>2. CASE ~(i - 1 >= d - 1)
        <5>1. i >= d - 1 => i = d - 1
          BY <2>2, <4>2
        <5> QED  BY <5>1
      <4> QED  BY <4>1, <4>2
    <3> HIDE DEF F
    <3>5. \A i \in 0 .. Len(v) : i \in F
      BY <1>0, <3>3, <3>4, CountUp
    <3>6. T[Len(v)] = T[d - 1]
      BY <1>0, <2>2, <3>5 DEF F
    <3> QED  BY <2>4, <3>1, <3>6
  <2>7. CASE d > Len(v)
    <3>1. D[z] = 0
      BY <1>7, <2>1, <2>7
    <3>2. d - 1 = Len(v)
      BY <1>0, <2>2, <2>7
    <3> QED  BY <2>4, <3>1, <3>2
  <2>8. CASE ~(c > Len(q)) /\ ~(d > Len(v))
    <3>0. ~out(z) /\ c \in 1 .. Len(q) /\ d \in 1 .. Len(v)
      BY <1>0, <2>1, <2>2, <2>8
    <3>1. PICK a, b : a = q[c][1] /\ b = v[d][1] /\ a \in Nat /\ b \in Nat
      BY <1>0, <3>0
    <3>2. /\ <<c + 1, d>> \in Z /\ mu[<<c + 1, d>>] < mu[z]
          /\ <<c, d + 1>> \in Z /\ mu[<<c, d + 1>>] < mu[z]
          /\ <<c + 1, d + 1>> \in Z /\ mu[<<c + 1, d + 1>>] < mu[z]
      BY <1>2, <2>1, <3>0
    <3>3. D[z] = CASE a < b -> D[<<c + 1, d>>]
                   [] a > b -> D[<<c, d + 1>>]
                   [] OTHER -> q[c][2] * v[d][2] + D[<<c + 1, d + 1>>]
      BY <1>7, <2>1, <3>0, <3>1
    <3>9. s[d] = ValueAt(q, b) * v[d][2] /\ s[d] \in Int
      BY <1>9, <3>0, <3>1
    <3>4. T[d] = T[d - 1] + s[d] /\ T[d] \in Int
      <4>1. d \in 0 .. Len(v)
        BY <3>0
      <4> QED  BY <1>11, <3>0, <4>1
    <3>5. ASSUME NEW i \in 1 .. Len(v), i >= d + 1 PROVE v[i][1] > b /\ v[i][1] \in Nat
      <4>1. d < i
        BY <2>2, <3>5
      <4>2. v[d][1] < v[i][1] /\ v[i][1] \in Nat
        BY <1>0, <3>0, <4>1
      <4> QED  BY <3>1, <4>2
    <3> HIDE DEF mu, Z, out
    <3>6. CASE a < b
      <4>1. ASSUME NEW j \in 1 .. Len(q), NEW i \in 1 .. Len(v), j < c + 1, i >= d PROVE q[j][1] < v[i][1]
        <5>1. CASE j < c
          BY <2>3, <4>1, <5>1
        <5>2. CASE j = c
          <6>1. i = d \/ i >= d + 1
            BY <2>2, <4>1
          <6> QED  BY <3>1, <3>5, <3>6, <5>2, <6>1
        <5> QED  BY <2>2, <4>1, <5>1, <5>2
      <4>2. left(<<c + 1, d>>)
        BY <4>1
      <4> HIDE DEF left
      <4>3. D[<<c + 1, d>>] = T[Len(v)] - T[d - 1]
        BY <2>5, <3>2, <4>2
      <4>4. D[z] = D[<<c + 1, d>>]
        <5>1. ~(a > b)
          BY <3>1, <3>6
        <5> QED  BY <3>3, <3>6, <5>1
      <4> QED  BY <2>4, <4>3, <4>4
    <3>7. CASE a > b
      <4>1. ASSUME NEW j \in 1 .. Len(q), NEW i \in 1 .. Len(v), j < c, i >= d + 1 PROVE q[j][1] < v[i][1]
        <5>1. i >= d
          BY <2>2, <4>1
        <5> QED  BY <2>3, <4>1, <5>1
      <4>2. left(<<c, d + 1>>)
        BY <4>1
      <4> HIDE DEF left
      <4>3. D[<<c, d + 1>>] = T[Len(v)] - T[d]
        <5>1. (d + 1) - 1 = d
          BY <2>2
        <5>2. D[<<c, d + 1>>] = T[Len(v)] - T[(d + 1) - 1]
          BY <2>5, <3>2, <4>2
        <5> QED  BY <5>1, <5>2
      <4>4. ASSUME NEW j \in 1 .. Len(q) PROVE q[j][1] # b
        <5>1. CASE j < c
          <6>1. q[j][1] < v[d][1] /\ q[j][1] \in Nat
            BY <1>0, <2>2, <2>3, <3>0, <5>1
          <6> QED  BY <3>1, <6>1
        <5>2. CASE ~(j < c)
          <6>1. j = c \/ c < j
            BY <2>2, <5>2
          <6>2. (q[j][1] = a \/ a < q[j][1]) /\ q[j][1] \in Nat
            BY <1>0, <3>0, <3>1, <6>1
          <6> QED  BY <3>1, <3>7, <6>2
        <5> QED  BY <5>1, <5>2
      <4>5. ValueAt(q, b) = 0 /\ v[d][2] \in Nat
        BY <1>0, <1>13, <3>0, <4>4
      <4>6. s[d] = 0
        BY <3>9, <4>5
      <4>7. D[z] = D[<<c, d + 1>>]
        <5>1. ~(a < b)
          BY <3>1, <3>7
        <5> QED  BY <3>3, <3>7, <5>1
      <4>8. T[d] = T[d - 1]
        BY <2>4, <3>4, <4>6
      <4> HIDE DEF rest
      <4> QED  BY <2>4, <4>3, <4>7, <4>8
    <3>8. CASE a = b
      <4>1. ASSUME NEW j \in 1 .. Len(q), NEW i \in 1 .. Len(v), j < c + 1, i >= d + 1 PROVE q[j][1] < v[i][1]
        <5>1. CASE j < c
          <6>1. i >= d
            BY <2>2, <4>1
          <6> QED  BY <2>3, <5>1, <6>1
        <5>2. CASE j = c
          BY <3>1, <3>5, <3>8, <4>1, <5>2
        <5> QED  BY <2>2, <4>1, <5>1, <5>2
      <4>2. left(<<c + 1, d + 1>>)
        BY <4>1
      <4> HIDE DEF left
      <4>3. D[<<c + 1, d + 1>>] = T[Len(v)] - T[d]
        <5>1. (d + 1) - 1 = d
          BY <2>2
        <5>2. D[<<c + 1, d + 1>>] = T[Len(v)] - T[(d + 1) - 1]
          BY <2>5, <3>2, <4>2
        <5> QED  BY <5>1, <5>2
      <4>4. ValueAt(q, b) = q[c][2]
        BY <1>12, <3>0, <3>1, <3>8
      <4>5. D[z] = s[d] + D[<<c + 1, d + 1>>]
        <5>1. ~(a < b) /\ ~(a > b)
          BY <3>1, <3>8
        <5>2. D[z] = q[c][2] * v[d][2] + D[<<c + 1, d + 1>>]
          BY <3>3, <5>1
        <5> QED  BY <3>9, <4>4, <5>2
      <4>6. s[d] \in Int
        BY <3>9
      <4> HIDE DEF rest
      <4> QED  BY <2>4, <3>4, <4>3, <4>5, <4>6
    <3> QED  BY <3>1, <3>6, <3>7, <3>8
  <2> QED  BY <2>6, <2>7, <2>8
<1>15. Z \subseteq W
  <2>1. mu \in [Z -> Nat]
    BY <1>0, <1>3
  <2> HIDE DEF W, Z, mu
  <2> QED  BY <1>14, <2>1, MeasureDown
<1>16. <<1, 1>> \in Z /\ left(<<1, 1>>)
  BY <1>0
<1>17. D[<<1, 1>>] = T[Len(v)] - T[1 - 1]
  BY <1>15, <1>16
<1>18. D[<<1, 1>>] = T[Len(v)]
  <2>1. T[Len(v)] \in Int /\ T[1 - 1] = 0
    BY <1>0, <1>11
  <2> QED  BY <1>17, <2>1
<1> QED  BY <1>6, <1>8, <1>9, <1>10, <1>18

LEMMA Distributes ==
    ASSUME NEW a \in Nat, NEW b \in Nat, NEW c \in Nat
    PROVE  a * (b + c) - a * b = a * c /\ a * (b + c) \in Int /\ a * b \in Int /\ a * c \in Int
OBVIOUS

(* dot is linear in its second vector.                                     *)
LEMMA DotGrows ==
    ASSUME NEW q \in Vectors, NEW v \in Vectors, NEW e \in Nat, NEW x \in Nat
    PROVE  dot(q, upsert(v, e, x)) = dot(q, v) + ValueAt(q, e) * x
<1> DEFINE u == upsert(v, e, x)
<1>0. u = upsert(v, e, x)
  OBVIOUS
<1>1. /\ u \in Vectors
      /\ \E r \in 1 .. Len(u) :
           \/ /\ Changed(v, u, r) /\ v[r][1] = e
              /\ u[r] = <<e, v[r][2] + x>>
           \/ /\ PutIn(v, u, r) /\ u[r] = <<e, x>>
              /\ \A i \in 1 .. Len(v) : v[i][1] # e
  BY Upserted
<1> HIDE DEF u
<1>2. PICK r \in 1 .. Len(u) :
           \/ /\ Changed(v, u, r) /\ v[r][1] = e
              /\ u[r] = <<e, v[r][2] + x>>
           \/ /\ PutIn(v, u, r) /\ u[r] = <<e, x>>
              /\ \A i \in 1 .. Len(v) : v[i][1] # e
  BY <1>1
<1>3. PICK s : s = Products(q, v)
  OBVIOUS
<1>4. PICK t : t = Products(q, u)
  OBVIOUS
<1>5. /\ s \in Seq(Int) /\ Len(s) = Len(v)
      /\ \A i \in 1 .. Len(v) : s[i] = ValueAt(q, v[i][1]) * v[i][2]
  BY <1>3, ProductsAreNumbers
<1>6. /\ t \in Seq(Int) /\ Len(t) = Len(u)
      /\ \A i \in 1 .. Len(u) : t[i] = ValueAt(q, u[i][1]) * u[i][2]
  BY <1>1, <1>4, ProductsAreNumbers
<1>7. dot(q, v) = Total(s) /\ dot(q, u) = Total(t)
  BY <1>1, <1>3, <1>4, DotIsTheSum
<1>8. PICK a : a = ValueAt(q, e)
  OBVIOUS
<1>9. a \in Nat
  BY <1>8, AtFacts
<1>10. Len(v) \in Nat /\ Len(u) \in Nat /\ \A i \in 1 .. Len(v) : v[i][2] \in Nat
  BY <1>1, VectorFacts
<1>11. Total(s) \in Int
  <2>1. \E T : Sums(T, s)
    BY <1>5, TotalIsReached
  <2> QED  BY <1>5, <2>1, SumsAreTotal
<1>12. CASE Changed(v, u, r) /\ v[r][1] = e /\ u[r] = <<e, v[r][2] + x>>
  <2>1. Len(u) = Len(v) /\ \A i \in 1 .. Len(v) : i # r => u[i] = v[i]
    BY <1>12 DEF Changed
  <2>2. \A i \in 1 .. Len(s) : i # r => t[i] = s[i]
    BY <1>5, <1>6, <2>1
  <2>3. Changed(s, t, r)
    BY <1>5, <1>6, <2>1, <2>2 DEF Changed
  <2>4. Total(t) = Total(s) + (t[r] - s[r])
    BY <1>5, <1>6, <2>3, TotalChanged
  <2>5. PICK c \in Nat : c = v[r][2]
    BY <1>10, <2>1
  <2>6. u[r][1] = e /\ u[r][2] = c + x
    BY <1>12, <2>5
  <2>7. s[r] = a * c /\ t[r] = a * (c + x)
    BY <1>5, <1>6, <1>8, <1>12, <2>1, <2>5, <2>6
  <2>8. t[r] - s[r] = a * x
    BY <1>9, <2>7, Distributes
  <2> QED  BY <1>0, <1>7, <1>8, <2>4, <2>8
<1>13. CASE /\ PutIn(v, u, r) /\ u[r] = <<e, x>>
            /\ \A i \in 1 .. Len(v) : v[i][1] # e
  <2>1. Len(u) = Len(v) + 1 /\ \A i \in 1 .. Len(v) : IF i < r THEN u[i] = v[i] ELSE u[i + 1] = v[i]
    BY <1>13 DEF PutIn
  <2>2. \A i \in 1 .. Len(v) : i \in 1 .. Len(u) /\ i + 1 \in 1 .. Len(u)
    BY <1>10, <2>1
  <2>3. \A i \in 1 .. Len(v) : IF i < r THEN t[i] = s[i] ELSE t[i + 1] = s[i]
    BY <1>5, <1>6, <2>1, <2>2
  <2>4. PutIn(s, t, r)
    BY <1>5, <1>6, <2>1, <2>3 DEF PutIn
  <2>5. Total(t) = Total(s) + t[r]
    BY <1>5, <1>6, <2>4, TotalPutIn
  <2>6. t[r] = a * x
    <3>1. u[r][1] = e /\ u[r][2] = x
      BY <1>13
    <3> QED  BY <1>6, <1>8, <3>1
  <2> QED  BY <1>0, <1>7, <1>8, <2>5, <2>6
<1> QED  BY <1>2, <1>12, <1>13

LEMMA DotOfNone ==
    ASSUME NEW q \in Vectors
    PROVE  dot(q, <<>>) = 0
<1>1. <<>> \in Vectors /\ Len(<<>>) = 0
  BY NoPairs, EmptySeq
<1>2. Products(q, <<>>) \in Seq(Int) /\ Len(Products(q, <<>>)) = 0
  BY <1>1, ProductsAreNumbers
<1>3. Products(q, <<>>) = <<>>
  BY <1>2, EmptySeq
<1> QED  BY <1>1, <1>3, DotIsTheSum, TotalOfNone

-----------------------------------------------------------------------------
(* The builder: how often a field holds a word                             *)

Word == Seq(Int)
Entry == [term : Word, count : Nat]

Along(g, s) == [i \in 1 .. Len(s) |-> g[s[i]]]
Weighted(g, fr) == [i \in 1 .. Len(fr) |-> g[fr[i].term] * fr[i].count]

(* fr lists the words of s, each once and with how often s has it: sums    *)
(* over the one and over the other agree.                                  *)
Tallies(fr, s) ==
    /\ \A i, j \in 1 .. Len(fr) : fr[i].term = fr[j].term => i = j
    /\ \A w \in Word : (\E i \in 1 .. Len(fr) : fr[i].term = w) <=> \E i \in 1 .. Len(s) : s[i] = w
    /\ \A g \in [Word -> Nat] : Total(Weighted(g, fr)) = Total(Along(g, s))

LEMMA SumsAreInts ==
    ASSUME NEW g \in [Word -> Nat]
    PROVE  /\ \A s \in Seq(Word) : /\ Along(g, s) \in Seq(Int) /\ Len(Along(g, s)) = Len(s)
                                   /\ \A i \in 1 .. Len(s) : Along(g, s)[i] = g[s[i]]
           /\ \A fr \in Seq(Entry) : /\ Weighted(g, fr) \in Seq(Int) /\ Len(Weighted(g, fr)) = Len(fr)
                                     /\ \A i \in 1 .. Len(fr) : Weighted(g, fr)[i] = g[fr[i].term] * fr[i].count
<1>1. ASSUME NEW s \in Seq(Word)
      PROVE  /\ Along(g, s) \in Seq(Int) /\ Len(Along(g, s)) = Len(s)
             /\ \A i \in 1 .. Len(s) : Along(g, s)[i] = g[s[i]]
  <2>1. Len(s) \in Nat /\ \A i \in 1 .. Len(s) : s[i] \in Word
    BY LenProperties, ElementOfSeq
  <2>2. \A i \in 1 .. Len(s) : g[s[i]] \in Int
    BY <2>1
  <2>3. Along(g, s) \in [1 .. Len(s) -> Int] /\ DOMAIN Along(g, s) = 1 .. Len(s)
        /\ \A i \in 1 .. Len(s) : Along(g, s)[i] = g[s[i]]
    BY <2>2 DEF Along
  <2>4. Along(g, s) \in Seq(Int)
    BY <2>1, <2>3, SeqDef
  <2> QED  BY <2>1, <2>3, <2>4, LenProperties
<1>2. ASSUME NEW fr \in Seq(Entry)
      PROVE  /\ Weighted(g, fr) \in Seq(Int) /\ Len(Weighted(g, fr)) = Len(fr)
             /\ \A i \in 1 .. Len(fr) : Weighted(g, fr)[i] = g[fr[i].term] * fr[i].count
  <2>1. Len(fr) \in Nat /\ \A i \in 1 .. Len(fr) : fr[i] \in Entry
    BY LenProperties, ElementOfSeq
  <2>2. \A i \in 1 .. Len(fr) : g[fr[i].term] * fr[i].count \in Int
    <3> TAKE i \in 1 .. Len(fr)
    <3>1. fr[i].term \in Word /\ fr[i].count \in Nat
      BY <2>1 DEF Entry
    <3>2. PICK a \in Nat : a = g[fr[i].term]
      BY <3>1
    <3>3. PICK b \in Nat : b = fr[i].count
      BY <3>1
    <3>4. a * b \in Int
      OBVIOUS
    <3> QED  BY <3>2, <3>3, <3>4
  <2>3. Weighted(g, fr) \in [1 .. Len(fr) -> Int] /\ DOMAIN Weighted(g, fr) = 1 .. Len(fr)
        /\ \A i \in 1 .. Len(fr) : Weighted(g, fr)[i] = g[fr[i].term] * fr[i].count
    <3> DEFINE p(i) == g[fr[i].term] * fr[i].count
    <3>1. \A i \in 1 .. Len(fr) : p(i) \in Int
      BY <2>2
    <3>2. Weighted(g, fr) = [i \in 1 .. Len(fr) |-> p(i)]
      BY DEF Weighted
    <3> HIDE DEF p
    <3>3. Weighted(g, fr) \in [1 .. Len(fr) -> Int] /\ DOMAIN Weighted(g, fr) = 1 .. Len(fr)
          /\ \A i \in 1 .. Len(fr) : Weighted(g, fr)[i] = p(i)
      BY <3>1, <3>2
    <3> QED  BY <3>3 DEF p
  <2>4. Weighted(g, fr) \in Seq(Int)
    BY <2>1, <2>3, SeqDef
  <2>5. Len(Weighted(g, fr)) = Len(fr)
    BY <2>1, <2>3, <2>4, LenProperties
  <2> QED  BY <2>3, <2>4, <2>5
<1> QED  BY <1>1, <1>2

LEMMA AppendPutsIn ==
    ASSUME NEW S, NEW s \in Seq(S), NEW x \in S
    PROVE  /\ Append(s, x) \in Seq(S) /\ Len(Append(s, x)) = Len(s) + 1 /\ Len(s) \in Nat
           /\ Append(s, x)[Len(s) + 1] = x /\ Len(s) + 1 \in 1 .. Len(Append(s, x))
           /\ \A i \in 1 .. Len(s) : Append(s, x)[i] = s[i] /\ i \in 1 .. Len(Append(s, x))
           /\ \A i \in 1 .. Len(Append(s, x)) : i \in 1 .. Len(s) \/ i = Len(s) + 1
<1>1. /\ Append(s, x) \in Seq(S) /\ Len(Append(s, x)) = Len(s) + 1
      /\ \A i \in 1 .. Len(s) : Append(s, x)[i] = s[i]
      /\ Append(s, x)[Len(s) + 1] = x
  BY AppendProperties
<1>2. Len(s) \in Nat
  BY LenProperties
<1> QED  BY <1>1, <1>2

(* Nothing counted yet.                                                    *)
LEMMA NothingCounted == <<>> \in Seq(Entry) /\ Tallies(<<>>, <<>>)
<1>1. <<>> \in Seq(Entry) /\ <<>> \in Seq(Word) /\ Len(<<>>) = 0
  BY EmptySeq
<1>2. ASSUME NEW g \in [Word -> Nat] PROVE Total(Weighted(g, <<>>)) = Total(Along(g, <<>>))
  <2>1. /\ Along(g, <<>>) \in Seq(Int) /\ Len(Along(g, <<>>)) = 0
        /\ Weighted(g, <<>>) \in Seq(Int) /\ Len(Weighted(g, <<>>)) = 0
    BY <1>1, SumsAreInts
  <2>2. Along(g, <<>>) = <<>> /\ Weighted(g, <<>>) = <<>>
    BY <2>1, EmptySeq
  <2> QED  BY <2>2
<1> QED  BY <1>1, <1>2 DEF Tallies

(* A word that was not there yet.                                          *)
LEMMA CountedAnew ==
    ASSUME NEW fr \in Seq(Entry), NEW s \in Seq(Word), Tallies(fr, s), NEW w \in Word,
           \A i \in 1 .. Len(fr) : fr[i].term # w
    PROVE  /\ Append(fr, [term |-> w, count |-> 1]) \in Seq(Entry)
           /\ Tallies(Append(fr, [term |-> w, count |-> 1]), Append(s, w))
<1>1. PICK e : e = [term |-> w, count |-> 1]
  OBVIOUS
<1>2. e \in Entry /\ e.term = w /\ e.count = 1
  BY <1>1 DEF Entry
<1>3. PICK t, u : t = Append(fr, e) /\ u = Append(s, w)
  OBVIOUS
<1>4. /\ t \in Seq(Entry) /\ Len(t) = Len(fr) + 1 /\ Len(fr) \in Nat
      /\ t[Len(fr) + 1] = e /\ Len(fr) + 1 \in 1 .. Len(t)
      /\ \A i \in 1 .. Len(fr) : t[i] = fr[i] /\ i \in 1 .. Len(t)
      /\ \A i \in 1 .. Len(t) : i \in 1 .. Len(fr) \/ i = Len(fr) + 1
  BY <1>2, <1>3, AppendPutsIn
<1>5. /\ u \in Seq(Word) /\ Len(u) = Len(s) + 1 /\ Len(s) \in Nat
      /\ u[Len(s) + 1] = w /\ Len(s) + 1 \in 1 .. Len(u)
      /\ \A i \in 1 .. Len(s) : u[i] = s[i] /\ i \in 1 .. Len(u)
      /\ \A i \in 1 .. Len(u) : i \in 1 .. Len(s) \/ i = Len(s) + 1
  BY <1>3, AppendPutsIn
<1>6. ASSUME NEW i \in 1 .. Len(t), NEW j \in 1 .. Len(t), t[i].term = t[j].term PROVE i = j
  BY <1>2, <1>4, <1>6 DEF Tallies
<1>7. ASSUME NEW x \in Word
      PROVE  (\E i \in 1 .. Len(t) : t[i].term = x) <=> \E i \in 1 .. Len(u) : u[i] = x
  <2>1. (\E i \in 1 .. Len(t) : t[i].term = x) <=> (x = w \/ \E i \in 1 .. Len(fr) : fr[i].term = x)
    BY <1>2, <1>4
  <2>2. (\E i \in 1 .. Len(u) : u[i] = x) <=> (x = w \/ \E i \in 1 .. Len(s) : s[i] = x)
    BY <1>5
  <2> QED  BY <2>1, <2>2 DEF Tallies
<1>8. ASSUME NEW g \in [Word -> Nat] PROVE Total(Weighted(g, t)) = Total(Along(g, u))
  <2>1. PICK a, b, c, d : a = Weighted(g, fr) /\ b = Weighted(g, t) /\ c = Along(g, s) /\ d = Along(g, u)
    OBVIOUS
  <2>2. /\ a \in Seq(Int) /\ Len(a) = Len(fr) /\ \A i \in 1 .. Len(fr) : a[i] = g[fr[i].term] * fr[i].count
        /\ b \in Seq(Int) /\ Len(b) = Len(t) /\ \A i \in 1 .. Len(t) : b[i] = g[t[i].term] * t[i].count
    BY <1>4, <2>1, SumsAreInts
  <2>3. /\ c \in Seq(Int) /\ Len(c) = Len(s) /\ \A i \in 1 .. Len(s) : c[i] = g[s[i]]
        /\ d \in Seq(Int) /\ Len(d) = Len(u) /\ \A i \in 1 .. Len(u) : d[i] = g[u[i]]
    BY <1>5, <2>1, SumsAreInts
  <2>4. PutIn(a, b, Len(fr) + 1)
    <3>1. \A i \in 1 .. Len(a) : i < Len(fr) + 1
      BY <1>4, <2>2
    <3>2. ASSUME NEW i \in 1 .. Len(fr) PROVE b[i] = a[i]
      <4>1. t[i] = fr[i] /\ i \in 1 .. Len(t)
        BY <1>4
      <4> QED  BY <2>2, <4>1, Zenon
    <3> QED  BY <1>4, <2>2, <3>1, <3>2 DEF PutIn
  <2>5. PutIn(c, d, Len(s) + 1)
    <3>1. \A i \in 1 .. Len(c) : i < Len(s) + 1 /\ d[i] = c[i]
      BY <1>5, <2>3
    <3> QED  BY <1>5, <2>3, <3>1 DEF PutIn
  <2>6. Total(b) = Total(a) + b[Len(fr) + 1] /\ Total(d) = Total(c) + d[Len(s) + 1]
    BY <2>2, <2>3, <2>4, <2>5, TotalPutIn
  <2>7. b[Len(fr) + 1] = g[w]
    <3>1. b[Len(fr) + 1] = g[w] * 1 /\ g[w] \in Nat
      BY <1>2, <1>4, <2>2
    <3> QED  BY <3>1
  <2>8. d[Len(s) + 1] = g[w]
    BY <1>5, <2>3
  <2>9. Total(a) = Total(c)
    BY <2>1 DEF Tallies
  <2> QED  BY <2>1, <2>6, <2>7, <2>8, <2>9
<1>9. Tallies(t, u)
  BY <1>6, <1>7, <1>8 DEF Tallies
<1> QED  BY <1>1, <1>3, <1>4, <1>9

(* One more of a word that was.                                            *)
LEMMA CountedAgain ==
    ASSUME NEW fr \in Seq(Entry), NEW s \in Seq(Word), Tallies(fr, s), NEW w \in Word,
           NEW k \in 1 .. Len(fr), fr[k].term = w
    PROVE  /\ [fr EXCEPT ![k].count = @ + 1] \in Seq(Entry)
           /\ Tallies([fr EXCEPT ![k].count = @ + 1], Append(s, w))
<1>1. Len(fr) \in Nat /\ DOMAIN fr = 1 .. Len(fr) /\ \A i \in 1 .. Len(fr) : fr[i] \in Entry
  BY LenProperties, ElementOfSeq
<1>2. \A i \in 1 .. Len(fr) : fr[i].term \in Word /\ fr[i].count \in Nat
  BY <1>1 DEF Entry
<1>3. PICK e : e = [fr[k] EXCEPT !.count = @ + 1]
  OBVIOUS
<1>4. e \in Entry /\ e.term = w /\ e.count = fr[k].count + 1
  <2>1. fr[k] \in [term : Word, count : Nat]
    BY <1>1 DEF Entry
  <2>2. e = [term |-> fr[k].term, count |-> fr[k].count + 1]
    BY <1>3, <2>1
  <2>3. fr[k].count + 1 \in Nat
    BY <1>2
  <2> QED  BY <1>2, <2>2, <2>3 DEF Entry
<1>5. PICK t, u : t = [fr EXCEPT ![k].count = @ + 1] /\ u = Append(s, w)
  OBVIOUS
<1>6. t = [fr EXCEPT ![k] = e]
  BY <1>3, <1>5, Zenon
<1>7. /\ t \in Seq(Entry) /\ Len(t) = Len(fr)
      /\ \A i \in 1 .. Len(fr) : t[i] = IF i = k THEN e ELSE fr[i]
  BY <1>4, <1>6, ExceptSeq
<1>8. /\ u \in Seq(Word) /\ Len(u) = Len(s) + 1 /\ Len(s) \in Nat
      /\ u[Len(s) + 1] = w /\ Len(s) + 1 \in 1 .. Len(u)
      /\ \A i \in 1 .. Len(s) : u[i] = s[i] /\ i \in 1 .. Len(u)
      /\ \A i \in 1 .. Len(u) : i \in 1 .. Len(s) \/ i = Len(s) + 1
  BY <1>5, AppendPutsIn
<1>9. \A i \in 1 .. Len(fr) : t[i].term = fr[i].term
  BY <1>4, <1>7
<1>10. ASSUME NEW x \in Word
       PROVE  (\E i \in 1 .. Len(t) : t[i].term = x) <=> \E i \in 1 .. Len(u) : u[i] = x
  <2>1. (\E i \in 1 .. Len(t) : t[i].term = x) <=> \E i \in 1 .. Len(fr) : fr[i].term = x
    BY <1>7, <1>9
  <2>2. (\E i \in 1 .. Len(u) : u[i] = x) <=> (x = w \/ \E i \in 1 .. Len(s) : s[i] = x)
    BY <1>8
  <2>3. (\E i \in 1 .. Len(fr) : fr[i].term = x) <=> \E i \in 1 .. Len(s) : s[i] = x
    BY DEF Tallies
  <2>4. x = w => \E i \in 1 .. Len(fr) : fr[i].term = x
    OBVIOUS
  <2> QED  BY <2>1, <2>2, <2>3, <2>4
<1>11. ASSUME NEW g \in [Word -> Nat] PROVE Total(Weighted(g, t)) = Total(Along(g, u))
  <2>1. PICK a, b, c, d : a = Weighted(g, fr) /\ b = Weighted(g, t) /\ c = Along(g, s) /\ d = Along(g, u)
    OBVIOUS
  <2>2. /\ a \in Seq(Int) /\ Len(a) = Len(fr) /\ \A i \in 1 .. Len(fr) : a[i] = g[fr[i].term] * fr[i].count
        /\ b \in Seq(Int) /\ Len(b) = Len(t) /\ \A i \in 1 .. Len(t) : b[i] = g[t[i].term] * t[i].count
    BY <1>7, <2>1, SumsAreInts
  <2>3. /\ c \in Seq(Int) /\ Len(c) = Len(s) /\ \A i \in 1 .. Len(s) : c[i] = g[s[i]]
        /\ d \in Seq(Int) /\ Len(d) = Len(u) /\ \A i \in 1 .. Len(u) : d[i] = g[u[i]]
    BY <1>8, <2>1, SumsAreInts
  <2>4. Changed(a, b, k)
    <3>1. \A i \in 1 .. Len(a) : i # k => b[i] = a[i]
      BY <1>7, <2>2
    <3> QED  BY <1>7, <2>2, <3>1 DEF Changed
  <2>5. PutIn(c, d, Len(s) + 1)
    <3>1. \A i \in 1 .. Len(c) : i < Len(s) + 1 /\ d[i] = c[i]
      BY <1>8, <2>3
    <3> QED  BY <1>8, <2>3, <3>1 DEF PutIn
  <2>6. Total(b) = Total(a) + (b[k] - a[k]) /\ Total(d) = Total(c) + d[Len(s) + 1]
    BY <2>2, <2>3, <2>4, <2>5, TotalChanged, TotalPutIn
  <2>7. b[k] - a[k] = g[w]
    <3>1. PICK p \in Nat, m \in Nat : p = g[w] /\ m = fr[k].count
      BY <1>2
    <3>2. b[k] = p * (m + 1) /\ a[k] = p * m
      BY <1>4, <1>7, <2>2, <3>1
    <3>3. p * (m + 1) - p * m = p * 1 /\ p * 1 = p
      BY Distributes
    <3> QED  BY <3>1, <3>2, <3>3
  <2>8. d[Len(s) + 1] = g[w]
    BY <1>8, <2>3
  <2>9. Total(a) = Total(c)
    BY <2>1 DEF Tallies
  <2> QED  BY <2>1, <2>6, <2>7, <2>8, <2>9
<1>12. \A i, j \in 1 .. Len(t) : t[i].term = t[j].term => i = j
  BY <1>7, <1>9 DEF Tallies
<1>13. Tallies(t, u)
  BY <1>10, <1>11, <1>12 DEF Tallies
<1> QED  BY <1>5, <1>7, <1>13

-----------------------------------------------------------------------------
(* The builder: the inverted index                                         *)

Posting == [index : Nat, postings : [Fields -> SUBSET Docs]]
Inverted == UNION {[S -> Posting] : S \in SUBSET Word}
Builders == [freq : [Docs \X Fields -> Seq(Entry)], inv : Inverted]

Has(s, w) == \E i \in 1 .. Len(s) : s[i] = w

(* Numbers in use are below the next one, and no two words share one.      *)
Numbered(inv) ==
    /\ IsFiniteSet(DOMAIN inv)
    /\ \A w \in DOMAIN inv : inv[w].index < Cardinality(DOMAIN inv)
    /\ \A v, w \in DOMAIN inv : inv[v].index = inv[w].index => v = w
(* The words of the texts ws, with where they are.                         *)
Posted(inv, ws) ==
    /\ \A w \in Word : w \in DOMAIN inv <=> \E k \in Docs \X Fields : Has(ws[k], w)
    /\ \A w \in DOMAIN inv, k \in Docs \X Fields : k[1] \in inv[w].postings[k[2]] <=> Has(ws[k], w)
Built(b, ws) ==
    /\ b \in Builders /\ Numbered(b.inv) /\ Posted(b.inv, ws)
    /\ \A k \in Docs \X Fields : Tallies(b.freq[k], ws[k])

(* The parts of AddToken: the entry of a word, the document put there.     *)
EntryOf(inv, w) == IF w \in DOMAIN inv THEN inv[w]
                   ELSE [index |-> Cardinality(DOMAIN inv), postings |-> [g \in Fields |-> {}]]
Noted(p, d, f) == [p EXCEPT !.postings[f] = @ \cup {d}]
Indexed(inv, d, f, w) ==
    [x \in DOMAIN inv \cup {w} |-> IF x = w THEN Noted(EntryOf(inv, w), d, f) ELSE inv[x]]

LEMMA PostedOnce ==
    ASSUME NEW p \in Posting, NEW d \in Docs, NEW f \in Fields
    PROVE  /\ Noted(p, d, f) \in Posting /\ Noted(p, d, f).index = p.index
           /\ \A k \in Docs \X Fields :
                k[1] \in Noted(p, d, f).postings[k[2]] <=> k[1] \in p.postings[k[2]] \/ k = <<d, f>>
<1>0. PICK q : q = Noted(p, d, f)
  OBVIOUS
<1>1. p = [index |-> p.index, postings |-> p.postings] /\ p.index \in Nat /\ p.postings \in [Fields -> SUBSET Docs]
  BY DEF Posting
<1>2. PICK P : P = [p.postings EXCEPT ![f] = @ \cup {d}]
  OBVIOUS
<1>3. P \in [Fields -> SUBSET Docs] /\ \A g \in Fields : P[g] = IF g = f THEN p.postings[f] \cup {d} ELSE p.postings[g]
  BY <1>1, <1>2
<1>4. q = [p EXCEPT !.postings = P]
  BY <1>0, <1>2, Zenon DEF Noted
<1>5. q = [index |-> p.index, postings |-> P]
  BY <1>1, <1>4
<1>6. q \in Posting /\ q.index = p.index /\ q.postings = P
  BY <1>1, <1>3, <1>5 DEF Posting
<1>7. ASSUME NEW k \in Docs \X Fields PROVE k[1] \in P[k[2]] <=> k[1] \in p.postings[k[2]] \/ k = <<d, f>>
  <2>1. k[1] \in Docs /\ k[2] \in Fields /\ k = <<k[1], k[2]>>
    OBVIOUS
  <2>2. k = <<d, f>> <=> k[1] = d /\ k[2] = f
    BY <2>1
  <2> QED  BY <1>3, <2>1, <2>2
<1> QED  BY <1>0, <1>6, <1>7

LEMMA InvertedFacts ==
    ASSUME NEW inv \in Inverted
    PROVE  /\ DOMAIN inv \subseteq Word /\ inv = [x \in DOMAIN inv |-> inv[x]]
           /\ \A x \in DOMAIN inv : inv[x] \in Posting
<1>1. PICK S \in SUBSET Word : inv \in [S -> Posting]
  BY DEF Inverted
<1> QED  BY <1>1

(* A token's word is known to the index afterwards, with its place.        *)
KnowsToken(new, inv, d, f, w) ==
    /\ DOMAIN new = DOMAIN inv \cup {w}
    /\ \A x \in DOMAIN new, k \in Docs \X Fields :
         k[1] \in new[x].postings[k[2]] <=>
           (x \in DOMAIN inv /\ k[1] \in inv[x].postings[k[2]]) \/ (x = w /\ k = <<d, f>>)

LEMMA TokenIndexed ==
    ASSUME NEW inv \in Inverted, Numbered(inv), NEW d \in Docs, NEW f \in Fields, NEW w \in Word
    PROVE  /\ Indexed(inv, d, f, w) \in Inverted /\ Numbered(Indexed(inv, d, f, w))
           /\ KnowsToken(Indexed(inv, d, f, w), inv, d, f, w)
<1>a. PICK p : p = EntryOf(inv, w)
  OBVIOUS
<1>b. PICK q : q = Noted(p, d, f)
  OBVIOUS
<1>c. PICK new : new = Indexed(inv, d, f, w)
  OBVIOUS
<1>1. /\ DOMAIN inv \subseteq Word
      /\ \A x \in DOMAIN inv : inv[x] \in Posting
  BY InvertedFacts
<1>2. /\ IsFiniteSet(DOMAIN inv)
      /\ \A x \in DOMAIN inv : inv[x].index < Cardinality(DOMAIN inv) /\ inv[x].index \in Nat
      /\ \A v, x \in DOMAIN inv : inv[v].index = inv[x].index => v = x
  BY <1>1 DEF Numbered, Posting
<1>3. PICK n \in Nat : n = Cardinality(DOMAIN inv)
  BY <1>2, FS_CardinalityType
<1>4. [g \in Fields |-> {}] \in [Fields -> SUBSET Docs]
  OBVIOUS
<1>5. p \in Posting /\ (w \in DOMAIN inv => p = inv[w])
      /\ (w \notin DOMAIN inv => p.index = n /\ \A k \in Docs \X Fields : k[1] \notin p.postings[k[2]])
  <2>1. CASE w \in DOMAIN inv
    BY <1>a, <1>1, <2>1 DEF EntryOf
  <2>2. CASE w \notin DOMAIN inv
    <3>1. p = [index |-> n, postings |-> [g \in Fields |-> {}]]
      BY <1>a, <1>3, <2>2 DEF EntryOf
    <3>2. p.postings = [g \in Fields |-> {}] /\ p.index = n
      BY <3>1
    <3>3. p \in Posting
      BY <1>4, <3>1 DEF Posting
    <3>4. \A k \in Docs \X Fields : k[2] \in Fields /\ k[1] \notin p.postings[k[2]]
      BY <3>2
    <3> QED  BY <2>2, <3>2, <3>3, <3>4
  <2> QED  BY <2>1, <2>2
<1>6. /\ q \in Posting /\ q.index = p.index
      /\ \A k \in Docs \X Fields : k[1] \in q.postings[k[2]] <=> k[1] \in p.postings[k[2]] \/ k = <<d, f>>
  BY <1>b, <1>5, PostedOnce
<1>7. /\ new = [x \in DOMAIN inv \cup {w} |-> IF x = w THEN q ELSE inv[x]]
      /\ DOMAIN new = DOMAIN inv \cup {w} /\ new[w] = q
      /\ \A x \in DOMAIN inv : x # w => new[x] = inv[x]
  BY <1>a, <1>b, <1>c DEF Indexed
<1>8. new \in Inverted
  <2>1. new \in [DOMAIN inv \cup {w} -> Posting] /\ DOMAIN inv \cup {w} \in SUBSET Word
    BY <1>1, <1>6, <1>7
  <2> QED  BY <2>1 DEF Inverted
<1>9. Numbered(new)
  <2>1. IsFiniteSet(DOMAIN inv \cup {w}) /\ Cardinality(DOMAIN inv \cup {w}) = IF w \in DOMAIN inv THEN n ELSE n + 1
    BY <1>2, <1>3, FS_AddElement
  <2>2. CASE w \in DOMAIN inv
    <3>1. DOMAIN new = DOMAIN inv /\ Cardinality(DOMAIN new) = n
      BY <1>3, <1>7, <2>2
    <3>2. \A x \in DOMAIN inv : new[x].index = inv[x].index
      BY <1>5, <1>6, <1>7, <2>2
    <3> QED  BY <1>2, <1>3, <3>1, <3>2 DEF Numbered
  <2>3. CASE w \notin DOMAIN inv
    <3>1. new[w].index = n /\ \A x \in DOMAIN inv : new[x].index = inv[x].index /\ new[x].index \in Nat
          /\ new[x].index < n
      BY <1>2, <1>3, <1>5, <1>6, <1>7, <2>3
    <3>2. \A x \in DOMAIN new : new[x].index < n + 1
      BY <1>7, <3>1
    <3>3. \A v, x \in DOMAIN new : new[v].index = new[x].index => v = x
      BY <1>2, <1>7, <3>1
    <3>4. IsFiniteSet(DOMAIN new) /\ Cardinality(DOMAIN new) = n + 1
      BY <1>7, <2>1, <2>3
    <3> QED  BY <3>2, <3>3, <3>4 DEF Numbered
  <2> QED  BY <2>2, <2>3
<1>10. ASSUME NEW x \in DOMAIN new, NEW k \in Docs \X Fields
       PROVE  k[1] \in new[x].postings[k[2]] <=>
                (x \in DOMAIN inv /\ k[1] \in inv[x].postings[k[2]]) \/ (x = w /\ k = <<d, f>>)
  <2>1. CASE x # w
    BY <1>7, <2>1
  <2>2. CASE x = w /\ w \in DOMAIN inv
    BY <1>5, <1>6, <1>7, <2>2
  <2>3. CASE x = w /\ w \notin DOMAIN inv
    BY <1>5, <1>6, <1>7, <2>3
  <2> QED  BY <2>1, <2>2, <2>3
<1> QED  BY <1>c, <1>7, <1>8, <1>9, <1>10 DEF KnowsToken

LEMMA TokenAdded ==
    ASSUME NEW ws \in [Docs \X Fields -> Seq(Word)], NEW b, Built(b, ws),
           NEW d \in Docs, NEW f \in Fields, NEW w \in Word
    PROVE  Built(AddToken(b, d, f, w), [ws EXCEPT ![<<d, f>>] = Append(@, w)])
<1>1. PICK k : k = <<d, f>>
  OBVIOUS
<1>2. k \in Docs \X Fields
  BY <1>1
<1>3. PICK vs : vs = [ws EXCEPT ![<<d, f>>] = Append(@, w)]
  OBVIOUS
<1>4. vs[k] = Append(ws[k], w) /\ \A l \in Docs \X Fields : l # k => vs[l] = ws[l]
  BY <1>1, <1>2, <1>3
<1>5. b.freq \in [Docs \X Fields -> Seq(Entry)] /\ b.inv \in Inverted
  BY DEF Built, Builders
<1>6. ws[k] \in Seq(Word) /\ b.freq[k] \in Seq(Entry) /\ Tallies(b.freq[k], ws[k])
  BY <1>2, <1>5 DEF Built
<1>7. \A x : Has(vs[k], x) <=> Has(ws[k], x) \/ x = w
  <2>1. PICK s, t : s = ws[k] /\ t = vs[k]
    OBVIOUS
  <2>2. s \in Seq(Word) /\ t = Append(s, w)
    BY <1>4, <1>6, <2>1
  <2>3. /\ t[Len(s) + 1] = w /\ Len(s) + 1 \in 1 .. Len(t)
        /\ \A i \in 1 .. Len(s) : t[i] = s[i] /\ i \in 1 .. Len(t)
        /\ \A i \in 1 .. Len(t) : i \in 1 .. Len(s) \/ i = Len(s) + 1
    BY <2>2, AppendPutsIn
  <2>4. \A x : (\E i \in 1 .. Len(t) : t[i] = x) <=> (\E i \in 1 .. Len(s) : s[i] = x) \/ x = w
    BY <2>3
  <2> QED  BY <2>1, <2>4 DEF Has
<1> DEFINE known == {i \in DOMAIN b.freq[k] : b.freq[k][i].term = w}
           new == Indexed(b.inv, d, f, w)
           fr == IF known = {} THEN Append(b.freq[k], [term |-> w, count |-> 1])
                 ELSE [b.freq[k] EXCEPT ![CHOOSE i \in known : TRUE].count = @ + 1]
           c == AddToken(b, d, f, w)
<1>8. c = [freq |-> [b.freq EXCEPT ![k] = fr], inv |-> new]
  BY <1>1, Zenon DEF AddToken, Indexed, Noted, EntryOf
<1>9. fr \in Seq(Entry) /\ Tallies(fr, vs[k])
  <2>1. DOMAIN b.freq[k] = 1 .. Len(b.freq[k])
    BY <1>6, LenProperties
  <2>2. CASE known = {}
    <3>1. \A i \in 1 .. Len(b.freq[k]) : b.freq[k][i].term # w
      BY <2>1, <2>2
    <3>2. fr = Append(b.freq[k], [term |-> w, count |-> 1])
      BY <2>2
    <3> HIDE DEF fr
    <3> QED  BY <1>4, <1>6, <3>1, <3>2, CountedAnew
  <2>3. CASE known # {}
    <3>1. PICK i : i = CHOOSE j \in known : TRUE
      OBVIOUS
    <3>2. i \in known
      BY <2>3, <3>1
    <3>3. i \in 1 .. Len(b.freq[k]) /\ b.freq[k][i].term = w
      BY <2>1, <3>2
    <3>4. fr = [b.freq[k] EXCEPT ![i].count = @ + 1]
      BY <2>3, <3>1
    <3> HIDE DEF fr
    <3> QED  BY <1>4, <1>6, <3>3, <3>4, CountedAgain
  <2> QED  BY <2>2, <2>3
<1>10. /\ new \in Inverted /\ Numbered(new) /\ DOMAIN new = DOMAIN b.inv \cup {w}
       /\ \A x \in DOMAIN new, l \in Docs \X Fields :
            l[1] \in new[x].postings[l[2]] <=>
              (x \in DOMAIN b.inv /\ l[1] \in b.inv[x].postings[l[2]]) \/ (x = w /\ l = <<d, f>>)
  <2>1. b.inv \in Inverted /\ Numbered(b.inv)
    BY <1>5 DEF Built
  <2> HIDE DEF fr, known, c
  <2>2. new \in Inverted /\ Numbered(new) /\ KnowsToken(new, b.inv, d, f, w)
    BY <2>1, TokenIndexed
  <2> HIDE DEF new
  <2> QED  BY <2>2 DEF KnowsToken
<1> HIDE DEF fr, new, known
<1>11. c.freq = [b.freq EXCEPT ![k] = fr] /\ c.inv = new /\ c = [freq |-> c.freq, inv |-> c.inv]
  BY <1>8
<1> HIDE DEF c
<1>12. /\ c.freq \in [Docs \X Fields -> Seq(Entry)] /\ c.freq[k] = fr
       /\ \A l \in Docs \X Fields : l # k => c.freq[l] = b.freq[l]
  BY <1>2, <1>5, <1>9, <1>11
<1>13. c \in Builders
  BY <1>10, <1>11, <1>12 DEF Builders
<1>14. \A l \in Docs \X Fields : Tallies(c.freq[l], vs[l])
  BY <1>4, <1>9, <1>12 DEF Built
<1>15. Posted(c.inv, vs)
  <2>1. /\ \A x \in Word : x \in DOMAIN b.inv <=> \E l \in Docs \X Fields : Has(ws[l], x)
        /\ \A x \in DOMAIN b.inv, l \in Docs \X Fields : l[1] \in b.inv[x].postings[l[2]] <=> Has(ws[l], x)
    BY DEF Built, Posted
  <2>2. DOMAIN b.inv \subseteq Word
    BY <1>5, InvertedFacts
  <2>3. \A l \in Docs \X Fields : \A x : Has(vs[l], x) <=> Has(ws[l], x) \/ (l = k /\ x = w)
    BY <1>4, <1>7
  <2>4. \A x \in Word : x \in DOMAIN new <=> \E l \in Docs \X Fields : Has(vs[l], x)
    BY <1>2, <1>10, <2>1, <2>3
  <2>5. ASSUME NEW x \in DOMAIN new, NEW l \in Docs \X Fields
        PROVE  l[1] \in new[x].postings[l[2]] <=> Has(vs[l], x)
    <3>1. l[1] \in new[x].postings[l[2]] <=>
            (x \in DOMAIN b.inv /\ l[1] \in b.inv[x].postings[l[2]]) \/ (x = w /\ l = k)
      BY <1>1, <1>10
    <3>2. x \in Word
      BY <1>10, <2>2
    <3>3. x \notin DOMAIN b.inv => ~Has(ws[l], x)
      BY <2>1, <3>2
    <3> QED  BY <2>1, <2>3, <3>1, <3>3
  <2> QED  BY <1>11, <2>4, <2>5 DEF Posted
<1> QED  BY <1>3, <1>10, <1>11, <1>13, <1>14, <1>15 DEF Built, c

(* A finite set listed.                                                    *)
LEMMA Listed ==
    ASSUME NEW S, IsFiniteSet(S)
    PROVE  /\ SetToSeq(S) \in Seq(S) /\ Len(SetToSeq(S)) = Cardinality(S) /\ Cardinality(S) \in Nat
           /\ \A i, j \in 1 .. Cardinality(S) : SetToSeq(S)[i] = SetToSeq(S)[j] => i = j
           /\ \A x \in S : \E i \in 1 .. Cardinality(S) : SetToSeq(S)[i] = x
<1>1. PICK n : n = Cardinality(S)
  OBVIOUS
<1>2. n \in Nat /\ ExistsBijection(1 .. n, S)
  BY <1>1, FS_CardinalityType
<1>3. PICK g : g \in Bijection(1 .. n, S)
  BY <1>2 DEF ExistsBijection
<1>4. g \in [1 .. n -> S] /\ IsInjective(g)
  BY <1>3 DEF Bijection, Injection
<1>5. PICK s : s = SetToSeq(S)
  OBVIOUS
<1>6. s \in [1 .. n -> S] /\ IsInjective(s)
  <2>1. s = CHOOSE f \in [1 .. n -> S] : IsInjective(f)
    BY <1>1, <1>5 DEF SetToSeq
  <2> QED  BY <1>4, <2>1
<1>7. s \in Injection(1 .. n, S)
  BY <1>6 DEF Injection
<1>8. Cardinality(1 .. n) = n
  <2>1. Cardinality(1 .. n) = IF 1 > n THEN 0 ELSE n - 1 + 1
    BY <1>2, FS_Interval
  <2> QED  BY <1>2, <2>1
<1>9. s \in Surjection(1 .. n, S)
  BY <1>1, <1>7, <1>8, FS_Injection
<1>10. s \in Seq(S) /\ Len(s) = n
  BY <1>2, <1>6, SeqDef, LenProperties
<1>11. \A i, j \in 1 .. n : s[i] = s[j] => i = j
  BY <1>6 DEF IsInjective
<1>12. \A x \in S : \E i \in 1 .. n : s[i] = x
  BY <1>9 DEF Surjection
<1> QED  BY <1>1, <1>2, <1>5, <1>10, <1>11, <1>12

(* The first i of a sequence.                                              *)
Upto(s, i) == [j \in 1 .. i |-> s[j]]
LEMMA UptoGrows ==
    ASSUME NEW S, NEW s \in Seq(S)
    PROVE  /\ Upto(s, 0) = <<>> /\ Upto(s, Len(s)) = s
           /\ \A i \in 0 .. Len(s) : Upto(s, i) \in Seq(S) /\ Len(Upto(s, i)) = i
           /\ \A i \in 1 .. Len(s) : Upto(s, i) = Append(Upto(s, i - 1), s[i])
<1>1. Len(s) \in Nat /\ (\A i \in 1 .. Len(s) : s[i] \in S) /\ s = [j \in 1 .. Len(s) |-> s[j]]
  BY LenProperties, ElementOfSeq
<1>2. ASSUME NEW i \in 0 .. Len(s) PROVE Upto(s, i) \in Seq(S) /\ Len(Upto(s, i)) = i
  <2>1. i \in Nat /\ \A j \in 1 .. i : j \in 1 .. Len(s)
    BY <1>1
  <2>2. Upto(s, i) \in [1 .. i -> S] /\ DOMAIN Upto(s, i) = 1 .. i
    BY <1>1, <2>1 DEF Upto
  <2>3. Upto(s, i) \in Seq(S)
    BY <2>1, <2>2, SeqDef
  <2> QED  BY <2>1, <2>2, <2>3, LenProperties
<1>3. Upto(s, Len(s)) = s
  BY <1>1 DEF Upto
<1>4. Upto(s, 0) = <<>>
  <2>1. 0 \in 0 .. Len(s)
    BY <1>1
  <2> QED  BY <1>2, <2>1, EmptySeq
<1>5. ASSUME NEW i \in 1 .. Len(s) PROVE Upto(s, i) = Append(Upto(s, i - 1), s[i])
  <2>1. i \in 0 .. Len(s) /\ i - 1 \in 0 .. Len(s) /\ (i - 1) + 1 = i /\ s[i] \in S /\ i \in Nat
    BY <1>1
  <2>2. PICK a, b : a = Upto(s, i - 1) /\ b = Append(Upto(s, i - 1), s[i])
    OBVIOUS
  <2>3. a \in Seq(S) /\ Len(a) = i - 1
    BY <1>2, <2>1, <2>2
  <2>4. b \in Seq(S) /\ Len(b) = i /\ b[i] = s[i] /\ \A j \in 1 .. i - 1 : b[j] = a[j]
    BY <2>1, <2>2, <2>3, AppendProperties
  <2>5. \A j \in 1 .. i - 1 : a[j] = s[j]
    BY <2>2 DEF Upto
  <2>6. \A j \in 1 .. i : j \in 1 .. i - 1 \/ j = i
    BY <2>1
  <2>7. \A j \in 1 .. i : b[j] = s[j]
    BY <2>4, <2>5, <2>6
  <2>8. b = [j \in 1 .. i |-> b[j]]
    BY <2>1, <2>4, LenProperties
  <2>9. b = [j \in 1 .. i |-> s[j]]
    BY <2>7, <2>8
  <2> QED  BY <2>2, <2>9 DEF Upto
<1> QED  BY <1>2, <1>3, <1>4, <1>5

LEMMA FieldAdded ==
    ASSUME NEW ws \in [Docs \X Fields -> Seq(Word)], NEW b, Built(b, ws),
           NEW d \in Docs, NEW f \in Fields, NEW words \in Seq(Word), ws[<<d, f>>] = <<>>
    PROVE  Built(AddField(b, d, f, words), [ws EXCEPT ![<<d, f>>] = words])
<1> DEFINE n == Len(words)
           k == <<d, f>>
           At1(i) == [ws EXCEPT ![k] = Upto(words, i)]
           D == [i \in 0 .. n |-> {x \in Builders : Built(x, At1(i))}]
           turn == [i \in 1 .. n |-> [x \in Builders |-> AddToken(x, d, f, words[i])]]
           eq(h) == h = [i \in 0 .. n |-> IF i = 0 THEN b ELSE AddToken(h[i - 1], d, f, words[i])]
<1>1. n \in Nat /\ \A i \in 1 .. n : words[i] \in Word
  BY LenProperties, ElementOfSeq
<1>2. k \in Docs \X Fields
  OBVIOUS
<1>3. /\ Upto(words, 0) = <<>> /\ Upto(words, n) = words
      /\ \A i \in 0 .. n : Upto(words, i) \in Seq(Word)
      /\ \A i \in 1 .. n : Upto(words, i) = Append(Upto(words, i - 1), words[i])
  BY UptoGrows
<1> HIDE DEF k, n
<1>4. \A i \in 0 .. n : At1(i) \in [Docs \X Fields -> Seq(Word)] /\ At1(i)[k] = Upto(words, i)
  BY <1>2, <1>3
<1>5. At1(0) = ws
  <2>1. At1(0) = [ws EXCEPT ![k] = <<>>] /\ ws[k] = <<>>
    BY <1>3 DEF k
  <2> QED  BY <2>1
<1>6. \A i \in 1 .. n : At1(i) = [At1(i - 1) EXCEPT ![k] = Append(@, words[i])]
  <2> TAKE i \in 1 .. n
  <2>1. i - 1 \in 0 .. n
    BY <1>1
  <2>2. PICK u, v : u = Upto(words, i - 1) /\ v = Upto(words, i)
    OBVIOUS
  <2>3. v = Append(u, words[i])
    BY <1>3, <2>2
  <2>4. [ws EXCEPT ![k] = v] = [[ws EXCEPT ![k] = u] EXCEPT ![k] = Append(u, words[i])]
    BY <1>2, <2>3
  <2>5. [ws EXCEPT ![k] = u][k] = u
    BY <1>2
  <2> QED  BY <2>2, <2>4, <2>5
<1>7. At1(n) = [ws EXCEPT ![k] = words]
  BY <1>3
<1> HIDE DEF At1
<1>8. ASSUME NEW i \in 1 .. n, NEW x, Built(x, At1(i - 1)) PROVE Built(AddToken(x, d, f, words[i]), At1(i))
  <2>0. i - 1 \in 0 .. n /\ words[i] \in Word
    BY <1>1
  <2>1. i - 1 \in 0 .. n /\ At1(i - 1) \in [Docs \X Fields -> Seq(Word)] /\ words[i] \in Word
    BY <1>4, <2>0
  <2>2. Built(AddToken(x, d, f, words[i]), [At1(i - 1) EXCEPT ![<<d, f>>] = Append(@, words[i])])
    <3>1. PICK vs : vs = At1(i - 1)
      OBVIOUS
    <3>2. vs \in [Docs \X Fields -> Seq(Word)] /\ Built(x, vs)
      BY <1>8, <2>1, <3>1
    <3>3. Built(AddToken(x, d, f, words[i]), [vs EXCEPT ![<<d, f>>] = Append(@, words[i])])
      BY <2>1, <3>2, TokenAdded
    <3> QED  BY <3>1, <3>3
  <2> QED  BY <1>6, <2>2 DEF k
<1>9. \A x, ys : Built(x, ys) => x \in Builders
  BY DEF Built
<1>10. \A i \in 0 .. n : \A x : x \in D[i] <=> Built(x, At1(i))
  BY <1>9
<1> HIDE DEF D
<1>11. b \in D[0]
  BY <1>1, <1>5, <1>10
<1>12. \A i \in 1 .. n : \A x \in D[i - 1] : turn[i][x] \in D[i] /\ turn[i][x] = AddToken(x, d, f, words[i])
  <2> TAKE i \in 1 .. n
  <2> TAKE x \in D[i - 1]
  <2>1. i - 1 \in 0 .. n /\ i \in 0 .. n
    BY <1>1
  <2>2. Built(x, At1(i - 1)) /\ x \in Builders
    BY <1>9, <1>10, <2>1
  <2>3. turn[i][x] = AddToken(x, d, f, words[i])
    BY <2>2
  <2> QED  BY <1>8, <1>10, <2>1, <2>2, <2>3
<1> HIDE DEF turn
<1>13. \E h : eq(h)
  <2>0. Turns(n, D, turn)
    BY <1>12 DEF Turns
  <2>1. PICK h : Loop(h, n, b, turn) /\ \A i \in 0 .. n : h[i] \in D[i]
    BY <1>1, <1>11, <2>0, LoopRuns
  <2>2. \A i \in 0 .. n : i # 0 => i \in 1 .. n /\ i - 1 \in 0 .. n
    BY <1>1
  <2>3. \A i \in 0 .. n : i # 0 => turn[i][h[i - 1]] = AddToken(h[i - 1], d, f, words[i])
    BY <1>12, <2>1, <2>2
  <2> QED  BY <2>1, <2>3 DEF Loop
<1> DEFINE h == CHOOSE h : eq(h)
<1>14. eq(h)
  BY <1>13
<1>15. AddField(b, d, f, words) = h[n]
  BY DEF AddField, n
<1> HIDE DEF h
<1>16. h[0] = b /\ \A i \in 1 .. n : h[i] = AddToken(h[i - 1], d, f, words[i])
  <2>1. 0 \in 0 .. n /\ \A i \in 1 .. n : i \in 0 .. n /\ i # 0
    BY <1>1
  <2>2. \A i \in 0 .. n : h[i] = IF i = 0 THEN b ELSE AddToken(h[i - 1], d, f, words[i])
    BY <1>14
  <2> QED  BY <2>1, <2>2
<1>17. \A i \in 0 .. n : h[i] \in D[i]
  <2>1. h[0] \in D[0]
    BY <1>11, <1>16
  <2>2. \A i \in 1 .. n : h[i - 1] \in D[i - 1] => h[i] \in D[i]
    BY <1>12, <1>16
  <2> QED  BY <1>1, <2>1, <2>2, LoopStays
<1>18. Built(h[n], At1(n))
  BY <1>1, <1>10, <1>17
<1> QED  BY <1>7, <1>15, <1>18 DEF k

With(ws, d, doc) == [k \in Docs \X Fields |-> IF k[1] = d THEN doc[k[2]] ELSE ws[k]]

LEMMA FieldsAdded ==
    ASSUME NEW ws \in [Docs \X Fields -> Seq(Word)], NEW b, Built(b, ws),
           NEW d \in Docs, NEW doc \in [Fields -> Seq(Word)],
           \A f \in Fields : ws[<<d, f>>] = <<>>
    PROVE  Built(AddFields(b, d, doc), With(ws, d, doc))
<1> DEFINE order == SetToSeq(Fields)
           n == Len(order)
           At1(i) == [k \in Docs \X Fields |->
                        IF k[1] = d /\ \E j \in 1 .. i : order[j] = k[2] THEN doc[k[2]] ELSE ws[k]]
           D == [i \in 0 .. n |-> {x \in Builders : Built(x, At1(i))}]
           turn == [i \in 1 .. n |-> [x \in Builders |-> AddField(x, d, order[i], doc[order[i]])]]
           eq(h) == h = [i \in 0 .. n |-> IF i = 0 THEN b ELSE AddField(h[i - 1], d, order[i], doc[order[i]])]
<1>1. /\ order \in Seq(Fields) /\ n \in Nat /\ \A i \in 1 .. n : order[i] \in Fields
      /\ \A i, j \in 1 .. n : order[i] = order[j] => i = j
      /\ \A f \in Fields : \E i \in 1 .. n : order[i] = f
  <2>1. PICK F : F = Fields
    OBVIOUS
  <2>2. IsFiniteSet(F)
    BY <2>1, IndexAssumption
  <2>3. PICK s : s = SetToSeq(F)
    OBVIOUS
  <2>4. /\ s \in Seq(F) /\ Len(s) = Cardinality(F) /\ Cardinality(F) \in Nat
        /\ \A i, j \in 1 .. Cardinality(F) : s[i] = s[j] => i = j
        /\ \A x \in F : \E i \in 1 .. Cardinality(F) : s[i] = x
    BY <2>2, <2>3, Listed
  <2>5. \A i \in 1 .. Len(s) : s[i] \in F
    BY <2>4, ElementOfSeq
  <2>6. order = s
    BY <2>1, <2>3
  <2> HIDE DEF order
  <2> QED  BY <2>1, <2>4, <2>5, <2>6
<1> HIDE DEF order
<1> HIDE DEF n
<1>2. \A f \in Fields : doc[f] \in Seq(Word)
  OBVIOUS
<1>3. \A k \in Docs \X Fields : k[1] \in Docs /\ k[2] \in Fields /\ k = <<k[1], k[2]>>
  OBVIOUS
<1>4. \A i \in 0 .. n : At1(i) \in [Docs \X Fields -> Seq(Word)]
  BY <1>2, <1>3
<1>5. At1(0) = ws
  BY <1>1
<1>6. ASSUME NEW i \in 1 .. n
      PROVE  /\ At1(i - 1)[<<d, order[i]>>] = <<>>
             /\ At1(i) = [At1(i - 1) EXCEPT ![<<d, order[i]>>] = doc[order[i]]]
  <2>1. <<d, order[i]>> \in Docs \X Fields /\ i \in Nat /\ i - 1 \in 0 .. n
    BY <1>1
  <2>2. \A j \in 1 .. i - 1 : order[j] # order[i]
    BY <1>1
  <2>3. At1(i - 1)[<<d, order[i]>>] = <<>>
    BY <2>1, <2>2
  <2>4. ASSUME NEW k \in Docs \X Fields
        PROVE  At1(i)[k] = IF k = <<d, order[i]>> THEN doc[order[i]] ELSE At1(i - 1)[k]
    <3>1. (\E j \in 1 .. i : order[j] = k[2]) <=> (\E j \in 1 .. i - 1 : order[j] = k[2]) \/ order[i] = k[2]
      BY <2>1
    <3>2. k = <<d, order[i]>> <=> k[1] = d /\ k[2] = order[i]
      BY <1>3
    <3>3. /\ At1(i)[k] = IF k[1] = d /\ \E j \in 1 .. i : order[j] = k[2] THEN doc[k[2]] ELSE ws[k]
          /\ At1(i - 1)[k] = IF k[1] = d /\ \E j \in 1 .. i - 1 : order[j] = k[2] THEN doc[k[2]] ELSE ws[k]
      OBVIOUS
    <3> HIDE DEF At1
    <3> QED  BY <3>1, <3>2, <3>3
  <2>5. /\ At1(i) = [k \in Docs \X Fields |-> At1(i)[k]]
        /\ At1(i - 1) = [k \in Docs \X Fields |-> At1(i - 1)[k]]
    OBVIOUS
  <2> HIDE DEF At1
  <2>6. [At1(i - 1) EXCEPT ![<<d, order[i]>>] = doc[order[i]]]
          = [k \in Docs \X Fields |-> IF k = <<d, order[i]>> THEN doc[order[i]] ELSE At1(i - 1)[k]]
    BY <2>5
  <2>7. At1(i) = [k \in Docs \X Fields |-> IF k = <<d, order[i]>> THEN doc[order[i]] ELSE At1(i - 1)[k]]
    BY <2>4, <2>5
  <2> QED  BY <2>3, <2>6, <2>7
<1>7. At1(n) = With(ws, d, doc)
  BY <1>1, <1>3 DEF With
<1> HIDE DEF At1
<1>8. ASSUME NEW i \in 1 .. n, NEW x, Built(x, At1(i - 1))
      PROVE  Built(AddField(x, d, order[i], doc[order[i]]), At1(i))
  <2>0. i - 1 \in 0 .. n /\ order[i] \in Fields
    BY <1>1
  <2>1. PICK vs : vs = At1(i - 1)
    OBVIOUS
  <2>2. PICK f \in Fields : f = order[i]
    BY <2>0
  <2>3. PICK words \in Seq(Word) : words = doc[f]
    BY <1>2
  <2>4. vs \in [Docs \X Fields -> Seq(Word)] /\ Built(x, vs) /\ vs[<<d, f>>] = <<>>
    BY <1>4, <1>6, <1>8, <2>0, <2>1, <2>2
  <2>5. Built(AddField(x, d, f, words), [vs EXCEPT ![<<d, f>>] = words])
    BY <2>4, FieldAdded
  <2>6. At1(i) = [vs EXCEPT ![<<d, f>>] = words]
    BY <1>6, <2>1, <2>2, <2>3
  <2> QED  BY <2>2, <2>3, <2>5, <2>6
<1>9. \A x, ys : Built(x, ys) => x \in Builders
  BY DEF Built
<1>10. \A i \in 0 .. n : \A x : x \in D[i] <=> Built(x, At1(i))
  BY <1>9
<1> HIDE DEF D
<1>11. b \in D[0]
  BY <1>1, <1>5, <1>10
<1>12. \A i \in 1 .. n : \A x \in D[i - 1] : turn[i][x] \in D[i] /\ turn[i][x] = AddField(x, d, order[i], doc[order[i]])
  <2> TAKE i \in 1 .. n
  <2> TAKE x \in D[i - 1]
  <2>1. i - 1 \in 0 .. n /\ i \in 0 .. n
    BY <1>1
  <2>2. Built(x, At1(i - 1)) /\ x \in Builders
    BY <1>9, <1>10, <2>1
  <2>3. turn[i][x] = AddField(x, d, order[i], doc[order[i]])
    BY <2>2
  <2> QED  BY <1>8, <1>10, <2>1, <2>2, <2>3
<1> HIDE DEF turn
<1>13. \E h : eq(h)
  <2>0. Turns(n, D, turn)
    BY <1>12 DEF Turns
  <2>1. PICK h : Loop(h, n, b, turn) /\ \A i \in 0 .. n : h[i] \in D[i]
    BY <1>1, <1>11, <2>0, LoopRuns
  <2>2. \A i \in 0 .. n : i # 0 => i \in 1 .. n /\ i - 1 \in 0 .. n
    BY <1>1
  <2>3. \A i \in 0 .. n : i # 0 => turn[i][h[i - 1]] = AddField(h[i - 1], d, order[i], doc[order[i]])
    BY <1>12, <2>1, <2>2
  <2>4. \A i \in 0 .. n : (IF i = 0 THEN b ELSE turn[i][h[i - 1]])
                           = IF i = 0 THEN b ELSE AddField(h[i - 1], d, order[i], doc[order[i]])
    BY <2>3
  <2>5. eq(h)
    BY <2>1, <2>4 DEF Loop
  <2> QED  BY <2>5
<1> DEFINE h == CHOOSE h : eq(h)
<1>14. eq(h)
  BY <1>13
<1>15. AddFields(b, d, doc) = h[n]
  BY DEF AddFields, n, order
<1> HIDE DEF h
<1>16. h[0] = b /\ \A i \in 1 .. n : h[i] = AddField(h[i - 1], d, order[i], doc[order[i]])
  <2>1. 0 \in 0 .. n /\ \A i \in 1 .. n : i \in 0 .. n /\ i # 0
    BY <1>1
  <2>2. \A i \in 0 .. n : h[i] = IF i = 0 THEN b ELSE AddField(h[i - 1], d, order[i], doc[order[i]])
    BY <1>14
  <2> QED  BY <2>1, <2>2
<1>17. \A i \in 0 .. n : h[i] \in D[i]
  <2>1. h[0] \in D[0]
    BY <1>11, <1>16
  <2>2. \A i \in 1 .. n : h[i - 1] \in D[i - 1] => h[i] \in D[i]
    BY <1>12, <1>16
  <2> QED  BY <1>1, <2>1, <2>2, LoopStays
<1>18. Built(h[n], At1(n))
  BY <1>1, <1>10, <1>17
<1> QED  BY <1>7, <1>15, <1>18

-----------------------------------------------------------------------------
(* The invariant of the index                                              *)

(* What each field of each document holds; nothing before it is added.     *)
FieldTexts == [k \in Docs \X Fields |-> IF text[k[1]] = <<>> THEN <<>> ELSE text[k[1]][k[2]]]

IndexInv ==
    /\ text \in [Docs -> [Fields -> Texts] \cup {<<>>}]
    /\ Built([freq |-> frequencies, inv |-> invertedIndex], FieldTexts)
    /\ \/ index = <<>>
       \/ /\ \A d \in Docs : text[d] # <<>>
          /\ index = [vectors |-> createFieldVectors, tokenSet |-> createTokenSet(Terms)]

LEMMA FieldTextsAreTexts ==
    ASSUME text \in [Docs -> [Fields -> Texts] \cup {<<>>}]
    PROVE  FieldTexts \in [Docs \X Fields -> Seq(Word)]
<1>1. <<>> \in Seq(Word) /\ Texts \subseteq Seq(Word)
  BY IndexAssumption, EmptySeq DEF Word
<1>2. ASSUME NEW k \in Docs \X Fields
      PROVE  (IF text[k[1]] = <<>> THEN <<>> ELSE text[k[1]][k[2]]) \in Seq(Word)
  <2>1. k[1] \in Docs /\ k[2] \in Fields
    OBVIOUS
  <2>2. text[k[1]] # <<>> => text[k[1]] \in [Fields -> Texts]
    BY <2>1
  <2> QED  BY <1>1, <2>1, <2>2
<1> QED  BY <1>2 DEF FieldTexts

LEMMA IndexInvInit == IndexInit => IndexInv
<1> SUFFICES ASSUME IndexInit PROVE IndexInv
  OBVIOUS
<1>1. /\ text = [d \in Docs |-> <<>>] /\ invertedIndex = <<>>
      /\ frequencies = [k \in Docs \X Fields |-> <<>>] /\ index = <<>>
  BY DEF IndexInit
<1>2. text \in [Docs -> [Fields -> Texts] \cup {<<>>}]
  BY <1>1
<1>3. PICK b : b = [freq |-> frequencies, inv |-> invertedIndex]
  OBVIOUS
<1>4. b.freq = frequencies /\ b.inv = invertedIndex /\ DOMAIN b.inv = {}
  BY <1>1, <1>3
<1>5. \A k \in Docs \X Fields : b.freq[k] = <<>> /\ FieldTexts[k] = <<>>
  BY <1>1, <1>4 DEF FieldTexts
<1>6. b \in Builders
  <2>1. b.freq \in [Docs \X Fields -> Seq(Entry)]
    BY <1>1, <1>4, NothingCounted
  <2>2. b.inv \in [{} -> Posting]
    BY <1>1, <1>4
  <2>3. b.inv \in Inverted
    BY <2>2 DEF Inverted
  <2> QED  BY <1>3, <1>4, <2>1, <2>3 DEF Builders
<1>7. Numbered(b.inv)
  BY <1>4, FS_EmptySet DEF Numbered
<1>8. Posted(b.inv, FieldTexts)
  <2>1. \A k \in Docs \X Fields : \A w : ~Has(FieldTexts[k], w)
    BY <1>5, EmptySeq DEF Has
  <2> QED  BY <1>4, <2>1 DEF Posted
<1>9. \A k \in Docs \X Fields : Tallies(b.freq[k], FieldTexts[k])
  BY <1>5, NothingCounted
<1> QED  BY <1>1, <1>2, <1>3, <1>6, <1>7, <1>8, <1>9 DEF IndexInv, Built

LEMMA IndexInvNext == IndexInv /\ [IndexNext]_indexVars => IndexInv'
<1> SUFFICES ASSUME IndexInv, [IndexNext]_indexVars PROVE IndexInv'
  OBVIOUS
<1>1. /\ text \in [Docs -> [Fields -> Texts] \cup {<<>>}]
      /\ Built([freq |-> frequencies, inv |-> invertedIndex], FieldTexts)
  BY DEF IndexInv
<1>2. ASSUME NEW d \in Docs, NEW doc \in [Fields -> Texts], AddDoc(d, doc) PROVE IndexInv'
  <2>1. PICK b, c : /\ b = [freq |-> frequencies, inv |-> invertedIndex]
                    /\ c = AddFields(b, d, doc)
    OBVIOUS
  <2>2. /\ index = <<>> /\ text[d] = <<>> /\ text' = [text EXCEPT ![d] = doc]
        /\ frequencies' = c.freq /\ invertedIndex' = c.inv /\ index' = index
    BY <1>2, <2>1 DEF AddDoc
  <2>3. text' \in [Docs -> [Fields -> Texts] \cup {<<>>}]
    BY <1>1, <2>2
  <2>4. doc \in [Fields -> Seq(Word)]
    BY IndexAssumption DEF Word
  <2>5. PICK ws : ws = FieldTexts
    OBVIOUS
  <2>6. ws \in [Docs \X Fields -> Seq(Word)] /\ Built(b, ws)
    BY <1>1, <2>1, <2>5, FieldTextsAreTexts
  <2>7. \A f \in Fields : ws[<<d, f>>] = <<>>
    BY <2>2, <2>5 DEF FieldTexts
  <2>8. Built(c, With(ws, d, doc))
    BY <2>1, <2>4, <2>6, <2>7, FieldsAdded
  <2>9. FieldTexts' = With(ws, d, doc)
    <3>1. ASSUME NEW k \in Docs \X Fields
          PROVE  (IF text'[k[1]] = <<>> THEN <<>> ELSE text'[k[1]][k[2]])
                   = IF k[1] = d THEN doc[k[2]] ELSE ws[k]
      <4>1. k[1] \in Docs /\ k[2] \in Fields /\ ws[k] = IF text[k[1]] = <<>> THEN <<>> ELSE text[k[1]][k[2]]
        BY <2>5 DEF FieldTexts
      <4>2. CASE k[1] # d
        <5>1. text'[k[1]] = text[k[1]]
          BY <1>1, <2>2, <4>1, <4>2
        <5> QED  BY <4>1, <4>2, <5>1
      <4>3. CASE k[1] = d
        <5>1. text'[k[1]] = doc
          BY <1>1, <2>2, <4>3
        <5>2. doc # <<>>
          <6>1. DOMAIN doc = Fields /\ k[2] \in DOMAIN doc
            BY <4>1
          <6>2. DOMAIN <<>> = {}
            OBVIOUS
          <6> QED  BY <6>1, <6>2
        <5> QED  BY <4>3, <5>1, <5>2
      <4> QED  BY <4>2, <4>3
    <3> QED  BY <3>1 DEF FieldTexts, With
  <2>10. c = [freq |-> c.freq, inv |-> c.inv]
    <3>1. c \in Builders
      BY <2>8 DEF Built
    <3> QED  BY <3>1 DEF Builders
  <2>11. Built([freq |-> frequencies', inv |-> invertedIndex'], FieldTexts')
    BY <2>2, <2>8, <2>9, <2>10
  <2> QED  BY <2>2, <2>3, <2>11 DEF IndexInv
<1>3. CASE build
  <2>1. /\ \A d \in Docs : text[d] # <<>>
        /\ index' = [vectors |-> createFieldVectors, tokenSet |-> createTokenSet(Terms)]
        /\ text' = text /\ invertedIndex' = invertedIndex /\ frequencies' = frequencies
    BY <1>3 DEF build
  <2>2. createFieldVectors' = createFieldVectors /\ Terms' = Terms /\ FieldTexts' = FieldTexts
    BY <2>1 DEF createFieldVectors, FieldVector, Terms, FieldTexts
  <2>3. createTokenSet(Terms)' = createTokenSet(Terms)
    BY <2>2
  <2> QED  BY <1>1, <2>1, <2>2, <2>3 DEF IndexInv
<1>4. CASE UNCHANGED indexVars
  <2>1. text' = text /\ invertedIndex' = invertedIndex /\ frequencies' = frequencies /\ index' = index
    BY <1>4 DEF indexVars
  <2>2. createFieldVectors' = createFieldVectors /\ Terms' = Terms /\ FieldTexts' = FieldTexts
    BY <2>1 DEF createFieldVectors, FieldVector, Terms, FieldTexts
  <2>3. createTokenSet(Terms)' = createTokenSet(Terms)
    BY <2>2
  <2> QED  BY <2>1, <2>2, <2>3 DEF IndexInv
<1> QED  BY <1>2, <1>3, <1>4 DEF IndexNext

LEMMA IndexInvTypes == IndexInv => IndexTypeOK
<1> SUFFICES ASSUME IndexInv PROVE IndexTypeOK
  OBVIOUS
<1>1. PICK b : b = [freq |-> frequencies, inv |-> invertedIndex]
  OBVIOUS
<1>2. b.freq = frequencies /\ b.inv = invertedIndex
  BY <1>1
<1>3. b \in Builders /\ Numbered(b.inv)
  BY <1>1 DEF IndexInv, Built
<1>4. invertedIndex \in Inverted /\ DOMAIN frequencies = Docs \X Fields
  BY <1>2, <1>3 DEF Builders
<1>5. IsFiniteSet(Terms) /\ Cardinality(Terms) \in Nat /\ \A w \in Terms : invertedIndex[w].index < Cardinality(Terms)
  BY <1>2, <1>3, FS_CardinalityType DEF Numbered, Terms
<1>6. ASSUME NEW w \in Terms
      PROVE  /\ invertedIndex[w].index \in 0 .. Cardinality(Terms) - 1
             /\ invertedIndex[w].postings \in [Fields -> SUBSET Docs]
  <2>1. invertedIndex[w] \in Posting
    BY <1>4, InvertedFacts DEF Terms
  <2>2. invertedIndex[w].index \in Nat /\ invertedIndex[w].postings \in [Fields -> SUBSET Docs]
    BY <2>1 DEF Posting
  <2> QED  BY <1>5, <2>2
<1>7. index = <<>> \/ DOMAIN index = {"vectors", "tokenSet"}
  BY DEF IndexInv
<1> QED  BY <1>4, <1>6, <1>7 DEF IndexInv, IndexTypeOK

THEOREM IndexInvHolds == IndexSpec => []IndexInv
BY IndexInvInit, IndexInvNext, PTL DEF IndexSpec

(* IndexTypeOK: ids are below the number of terms, postings name documents *)
(* of the builder, whatever order the tokens come in (Builder.add).        *)
THEOREM IndexTyped == IndexSpec => []IndexTypeOK
<1>1. IndexInv => IndexTypeOK
  BY IndexInvTypes
<1> QED  BY <1>1, IndexInvHolds, PTL

=============================================================================
