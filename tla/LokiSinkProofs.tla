--------------------------- MODULE LokiSinkProofs ---------------------------
(***************************************************************************)
(* Proofs about LokiSink, for any entries, streams, requests and limits:   *)
(* type correctness, the ownership of entries, and the counters; that what *)
(* it counts as sent is in Loki and that each of its steps takes, sheds,   *)
(* stores, confirms or loses entries as LogDelivery allows, or changes     *)
(* nothing LogDelivery speaks of; that Loki has no more copies of an entry *)
(* than attempts were made; and that, until Stop adds a second flusher,    *)
(* the entries of a stream reach Loki in the order they were admitted.     *)
(***************************************************************************)
EXTENDS LokiSink, SequenceTheorems, FunctionTheorems, FiniteSetTheorems, WellFoundedInduction, TLAPS

-----------------------------------------------------------------------------
(* Sequences of distinct entries                                           *)

LEMMA ToSetOf ==
    ASSUME NEW s \in Seq(Entries)
    PROVE  /\ ToSet(s) = {s[i] : i \in 1..Len(s)}
           /\ ToSet(s) \subseteq Entries
           /\ IsInjective(s) <=> \A i, j \in 1..Len(s) : s[i] = s[j] => i = j
<1>1. DOMAIN s = 1..Len(s) /\ \A i \in 1..Len(s) : s[i] \in Entries
  BY LenProperties, ElementOfSeq
<1> QED  BY <1>1 DEF ToSet, IsInjective

LEMMA ToSetEmpty == ToSet(<<>>) = {} /\ IsInjective(<<>>)
  BY DEF ToSet, IsInjective

LEMMA AppendDistinct ==
    ASSUME NEW s \in Seq(Entries), NEW e \in Entries
    PROVE  /\ Append(s, e) \in Seq(Entries)
           /\ ToSet(Append(s, e)) = ToSet(s) \cup {e}
           /\ IsInjective(s) /\ e \notin ToSet(s) => IsInjective(Append(s, e))
<1> DEFINE t == Append(s, e)
<1>1. /\ t \in Seq(Entries) /\ Len(t) = Len(s) + 1 /\ Len(s) \in Nat
      /\ \A i \in 1..Len(s) : t[i] = s[i]
      /\ t[Len(s) + 1] = e
  BY AppendProperties, LenProperties
<1> HIDE DEF t
<1>2. 1..Len(t) = 1..Len(s) \cup {Len(s) + 1}
  BY <1>1
<1>3. ToSet(t) = ToSet(s) \cup {e}
  BY <1>1, <1>2, ToSetOf
<1>4. ASSUME IsInjective(s), e \notin ToSet(s) PROVE IsInjective(t)
  BY <1>1, <1>2, <1>4, ToSetOf
<1> QED  BY <1>1, <1>3, <1>4 DEF t

LEMMA HeadTailDistinct ==
    ASSUME NEW s \in Seq(Entries), s # <<>>
    PROVE  /\ Head(s) \in ToSet(s) /\ Head(s) \in Entries
           /\ Tail(s) \in Seq(Entries)
           /\ ToSet(s) = {Head(s)} \cup ToSet(Tail(s))
           /\ IsInjective(s) => /\ IsInjective(Tail(s))
                                /\ Head(s) \notin ToSet(Tail(s))
<1> DEFINE t == Tail(s)
<1>1. /\ t \in Seq(Entries) /\ Len(t) = Len(s) - 1 /\ Len(s) \in Nat \ {0}
      /\ \A i \in 1..Len(t) : t[i] = s[i + 1]
      /\ Head(s) = s[1] /\ Head(s) \in Entries
  BY HeadTailProperties, EmptySeq
<1> HIDE DEF t
<1>2. ToSet(s) = {s[1]} \cup ToSet(t)
  <2>1. ASSUME NEW i \in 1..Len(s) PROVE s[i] \in {s[1]} \cup ToSet(t)
    <3>1. CASE i = 1
      BY <3>1
    <3>2. CASE i # 1
      <4>1. i - 1 \in 1..Len(t) /\ t[i - 1] = s[i]
        BY <1>1, <3>2
      <4> QED  BY <1>1, <4>1, ToSetOf
    <3> QED  BY <3>1, <3>2
  <2>2. ASSUME NEW i \in 1..Len(t) PROVE t[i] \in ToSet(s)
    <3>1. i + 1 \in 1..Len(s) /\ t[i] = s[i + 1]
      BY <1>1
    <3> QED  BY <3>1, ToSetOf
  <2>3. s[1] \in ToSet(s)
    BY <1>1, ToSetOf
  <2>4. ToSet(s) = {s[i] : i \in 1..Len(s)} /\ ToSet(t) = {t[i] : i \in 1..Len(t)}
    BY <1>1, ToSetOf
  <2> QED  BY <2>1, <2>2, <2>3, <2>4
<1>3. ASSUME IsInjective(s) PROVE IsInjective(t) /\ s[1] \notin ToSet(t)
  <2>1. \A i, j \in 1..Len(s) : s[i] = s[j] => i = j
    BY <1>3, ToSetOf
  <2>2. \A i \in 1..Len(t) : i + 1 \in 1..Len(s) /\ t[i] = s[i + 1] /\ i + 1 # 1
    BY <1>1
  <2>3. IsInjective(t)
    BY <1>1, <2>1, <2>2, ToSetOf
  <2>4. 1 \in 1..Len(s)
    BY <1>1
  <2> QED  BY <1>1, <2>1, <2>2, <2>3, <2>4, ToSetOf
<1> QED  BY <1>1, <1>2, <1>3 DEF t

(* A sequence splits into two disjoint sequences of distinct entries.      *)
LEMMA SplitDistinct ==
    ASSUME NEW s \in Seq(Entries), NEW n \in 0..Len(s)
    PROVE  /\ SubSeq(s, 1, n) \in Seq(Entries) /\ Len(SubSeq(s, 1, n)) = n
           /\ \A i \in 1..n : SubSeq(s, 1, n)[i] = s[i]
           /\ SubSeq(s, n + 1, Len(s)) \in Seq(Entries)
           /\ ToSet(s) = ToSet(SubSeq(s, 1, n)) \cup ToSet(SubSeq(s, n + 1, Len(s)))
           /\ IsInjective(s) =>
                /\ IsInjective(SubSeq(s, 1, n))
                /\ IsInjective(SubSeq(s, n + 1, Len(s)))
                /\ ToSet(SubSeq(s, 1, n)) \cap ToSet(SubSeq(s, n + 1, Len(s))) = {}
<1> DEFINE l == SubSeq(s, 1, n)
           r == SubSeq(s, n + 1, Len(s))
<1>1. Len(s) \in Nat /\ n \in Nat /\ \A i \in 1..Len(s) : s[i] \in Entries
  BY LenProperties, ElementOfSeq
<1>2. /\ l \in Seq(Entries) /\ Len(l) = n
      /\ \A i \in 1..n : l[i] = s[i] /\ i \in 1..Len(s)
  BY <1>1, SubSeqProperties
<1>3. /\ r \in Seq(Entries) /\ Len(r) = Len(s) - n
      /\ \A i \in 1..(Len(s) - n) : r[i] = s[n + i] /\ n + i \in 1..Len(s)
  <2>1. \A i \in (n + 1)..Len(s) : s[i] \in Entries
    BY <1>1
  <2>2. /\ r \in Seq(Entries)
        /\ Len(r) = IF n + 1 <= Len(s) THEN Len(s) - (n + 1) + 1 ELSE 0
        /\ \A i \in 1..(Len(s) - (n + 1) + 1) : r[i] = s[(n + 1) + i - 1]
    BY <1>1, <2>1, SubSeqProperties
  <2> HIDE DEF r
  <2> QED  BY <1>1, <2>2
<1> HIDE DEF l, r
<1>4. ToSet(s) = ToSet(l) \cup ToSet(r)
  <2>1. ASSUME NEW i \in 1..Len(s) PROVE s[i] \in ToSet(l) \cup ToSet(r)
    <3>1. CASE i <= n
      BY <1>1, <1>2, <3>1, ToSetOf
    <3>2. CASE i > n
      <4>1. i - n \in 1..Len(r) /\ r[i - n] = s[i]
        BY <1>1, <1>3, <3>2
      <4> QED  BY <1>3, <4>1, ToSetOf
    <3> QED  BY <1>1, <3>1, <3>2
  <2>2. /\ ToSet(s) = {s[i] : i \in 1..Len(s)}
        /\ ToSet(l) = {l[i] : i \in 1..n}
        /\ ToSet(r) = {r[i] : i \in 1..(Len(s) - n)}
    BY <1>2, <1>3, ToSetOf
  <2>3. ToSet(l) \subseteq ToSet(s)
    BY <1>2, <2>2
  <2>4. ToSet(r) \subseteq ToSet(s)
    BY <1>3, <2>2
  <2> QED  BY <2>1, <2>2, <2>3, <2>4
<1>5. ASSUME IsInjective(s)
      PROVE  IsInjective(l) /\ IsInjective(r) /\ ToSet(l) \cap ToSet(r) = {}
  <2>1. \A i, j \in 1..Len(s) : s[i] = s[j] => i = j
    BY <1>5, ToSetOf
  <2>2. IsInjective(l)
    BY <1>2, <2>1, ToSetOf
  <2>3. IsInjective(r)
    <3>1. ASSUME NEW i \in 1..(Len(s) - n), NEW j \in 1..(Len(s) - n), r[i] = r[j]
          PROVE  i = j
      <4>1. n + i = n + j
        BY <1>3, <2>1, <3>1
      <4> QED  BY <1>1, <4>1
    <3> QED  BY <1>3, <3>1, ToSetOf
  <2>4. ASSUME NEW i \in 1..n, NEW j \in 1..(Len(s) - n) PROVE l[i] # r[j]
    <3>1. i # n + j
      BY <1>1
    <3> QED  BY <1>2, <1>3, <2>1, <3>1
  <2>5. ToSet(l) = {l[i] : i \in 1..n} /\ ToSet(r) = {r[i] : i \in 1..(Len(s) - n)}
    BY <1>2, <1>3, ToSetOf
  <2> QED  BY <2>2, <2>3, <2>4, <2>5
<1> QED  BY <1>2, <1>3, <1>4, <1>5 DEF l, r

(* A chunk is a prefix of what is left of a popped stream.                 *)
LEMMA ChunkLenIsLength ==
    ASSUME NEW s \in Seq(Entries)
    PROVE  ChunkLen(s) \in 0..Len(s)
<1>1. Len(s) \in Nat /\ MaxBatchEntries \in Nat
  BY LenProperties, SinkAssumption
<1>2. ChunkLimit(s) \in 0..Len(s)
  BY <1>1 DEF ChunkLimit
<1> DEFINE T == {i \in 1..ChunkLimit(s) :
                   \A m \in 1..(i - 1) : Bytes(SubSeq(s, 1, m)) < MaxBatchBytes}
<1>3. T \in SUBSET (1..ChunkLimit(s))
  OBVIOUS
<1>4. ChunkLen(s) = Cardinality(T)
  BY DEF ChunkLen
<1> HIDE DEF T
<1>5. /\ IsFiniteSet(1..ChunkLimit(s))
      /\ Cardinality(1..ChunkLimit(s)) = ChunkLimit(s)
  <2>1. 1 \in Int /\ ChunkLimit(s) \in Int
    BY <1>1, <1>2
  <2>2. /\ IsFiniteSet(1..ChunkLimit(s))
        /\ Cardinality(1..ChunkLimit(s)) =
             IF 1 > ChunkLimit(s) THEN 0 ELSE ChunkLimit(s) - 1 + 1
    BY <2>1, FS_Interval
  <2> QED  BY <1>1, <1>2, <2>2
<1>6. Cardinality(T) \in Nat /\ Cardinality(T) <= ChunkLimit(s)
  BY <1>3, <1>5, FS_Subset, FS_CardinalityType
<1> QED  BY <1>1, <1>2, <1>4, <1>6

LEMMA ChunkAndRest ==
    ASSUME NEW s \in Seq(Entries)
    PROVE  /\ Chunk(s) \in Seq(Entries) /\ Rest(s) \in Seq(Entries)
           /\ ToSet(s) = ToSet(Chunk(s)) \cup ToSet(Rest(s))
           /\ IsInjective(s) => /\ IsInjective(Chunk(s)) /\ IsInjective(Rest(s))
                                /\ ToSet(Chunk(s)) \cap ToSet(Rest(s)) = {}
<1> DEFINE n == ChunkLen(s)
<1>1. n \in 0..Len(s)
  BY ChunkLenIsLength
<1>2. Chunk(s) = SubSeq(s, 1, n) /\ Rest(s) = SubSeq(s, n + 1, Len(s))
  BY DEF Chunk, Rest
<1> HIDE DEF n
<1> QED  BY <1>1, <1>2, SplitDistinct

-----------------------------------------------------------------------------
(* Counting entries and bytes                                              *)

LEMMA EntriesFinite ==
    ASSUME NEW S \in SUBSET Entries
    PROVE  IsFiniteSet(S) /\ Cardinality(S) \in Nat
<1>1. IsFiniteSet(Entries)
  BY SinkAssumption
<1>2. IsFiniteSet(S)
  BY <1>1, FS_Subset
<1> QED  BY <1>2, FS_CardinalityType

LEMMA SizeIsNat == ASSUME NEW e \in Entries PROVE Size[e] \in Nat
  BY SinkAssumption

Cells(S) == UNION {{e} \X (1..Size[e]) : e \in S}

LEMMA CellsOfOne ==
    ASSUME NEW e \in Entries
    PROVE  /\ IsFiniteSet({e} \X (1..Size[e]))
           /\ Cardinality({e} \X (1..Size[e])) = Size[e]
<1>1. IsFiniteSet({e}) /\ Cardinality({e}) = 1
  BY FS_Singleton
<1>2. IsFiniteSet(1..Size[e]) /\ Cardinality(1..Size[e]) = Size[e]
  <2>1. 1 \in Int /\ Size[e] \in Int /\ Size[e] >= 0
    BY SizeIsNat
  <2>2. /\ IsFiniteSet(1..Size[e])
        /\ Cardinality(1..Size[e]) = IF 1 > Size[e] THEN 0 ELSE Size[e] - 1 + 1
    BY <2>1, FS_Interval
  <2> QED  BY <2>1, <2>2
<1>3. /\ IsFiniteSet({e} \X (1..Size[e]))
      /\ Cardinality({e} \X (1..Size[e]))
           = Cardinality({e}) * Cardinality(1..Size[e])
  BY <1>1, <1>2, FS_Product
<1> QED  BY <1>1, <1>2, <1>3, SizeIsNat

LEMMA CellsFinite ==
    ASSUME NEW S \in SUBSET Entries
    PROVE  IsFiniteSet(Cells(S)) /\ Weight(S) = Cardinality(Cells(S))
           /\ Weight(S) \in Nat
<1> DEFINE C == {{e} \X (1..Size[e]) : e \in S}
           g == [e \in S |-> {e} \X (1..Size[e])]
<1>1. g \in Surjection(S, C)
  BY DEF Surjection
<1>2. IsFiniteSet(S)
  BY EntriesFinite
<1>3. \A c \in C : IsFiniteSet(c)
  BY CellsOfOne
<1> HIDE DEF C, g
<1>4. IsFiniteSet(C)
  BY <1>1, <1>2, FS_Surjection
<1>5. IsFiniteSet(UNION C)
  BY <1>3, <1>4, FS_UNION
<1>6. Cells(S) = UNION C /\ Weight(S) = Cardinality(Cells(S))
  BY DEF Cells, Weight, C
<1> QED  BY <1>5, <1>6, FS_CardinalityType

LEMMA WeightOfNone == Weight({}) = 0
<1>1. Cells({}) = {}
  BY DEF Cells
<1> QED  BY <1>1, CellsFinite, FS_EmptySet

LEMMA WeightOfOne == ASSUME NEW e \in Entries PROVE Weight({e}) = Size[e]
<1>1. Cells({e}) = {e} \X (1..Size[e])
  BY DEF Cells
<1> QED  BY <1>1, CellsFinite, CellsOfOne

(* The weight of disjoint sets adds up, as their number of elements does.  *)
LEMMA DisjointAdds ==
    ASSUME NEW S \in SUBSET Entries, NEW T \in SUBSET Entries, S \cap T = {}
    PROVE  /\ Cardinality(S \cup T) = Cardinality(S) + Cardinality(T)
           /\ Weight(S \cup T) = Weight(S) + Weight(T)
<1>1. Cells(S \cup T) = Cells(S) \cup Cells(T)
  BY DEF Cells
<1>2. Cells(S) \cap Cells(T) = {}
  BY DEF Cells
<1>3. /\ IsFiniteSet(Cells(S)) /\ IsFiniteSet(Cells(T))
      /\ Cardinality(Cells(S)) \in Nat /\ Cardinality(Cells(T)) \in Nat
      /\ Weight(S) = Cardinality(Cells(S)) /\ Weight(T) = Cardinality(Cells(T))
  BY CellsFinite
<1>4. Cardinality({}) = 0
  BY FS_EmptySet
<1>5. Weight(S \cup T) = Weight(S) + Weight(T)
  <2> DEFINE A == Cells(S)
             B == Cells(T)
  <2>1. Cells(S \cup T) = A \cup B /\ Cardinality(A \cap B) = 0
    BY <1>1, <1>2, <1>4
  <2>2. IsFiniteSet(A) /\ IsFiniteSet(B)
    BY <1>3
  <2>3. Weight(S) = Cardinality(A) /\ Weight(T) = Cardinality(B)
        /\ Cardinality(A) \in Nat /\ Cardinality(B) \in Nat
    BY <1>3
  <2>4. Weight(S \cup T) = Cardinality(A \cup B)
    <3>1. S \cup T \in SUBSET Entries
      OBVIOUS
    <3> QED  BY <2>1, <3>1, CellsFinite
  <2> HIDE DEF A, B
  <2>5. Cardinality(A \cup B) = Cardinality(A) + Cardinality(B) - 0
    BY <2>1, <2>2, FS_Union
  <2> QED  BY <2>3, <2>4, <2>5
<1>6. /\ IsFiniteSet(S) /\ IsFiniteSet(T)
      /\ Cardinality(S) \in Nat /\ Cardinality(T) \in Nat
  BY EntriesFinite
<1>7. Cardinality(S \cup T) = Cardinality(S) + Cardinality(T)
  <2>1. Cardinality(S \cap T) = 0
    BY <1>4
  <2>2. Cardinality(S \cup T) =
          Cardinality(S) + Cardinality(T) - Cardinality(S \cap T)
    BY <1>6, FS_Union
  <2> QED  BY <1>6, <2>1, <2>2
<1> QED  BY <1>5, <1>7

(* The length of a sequence of distinct entries is their number.           *)
LEMMA LenCounts ==
    ASSUME NEW s \in Seq(Entries), IsInjective(s)
    PROVE  Len(s) = Cardinality(ToSet(s))
<1>1. /\ Len(s) \in Nat
      /\ ToSet(s) = {s[i] : i \in 1..Len(s)}
      /\ \A i, j \in 1..Len(s) : s[i] = s[j] => i = j
  BY LenProperties, ToSetOf
<1>2. s \in [1..Len(s) -> ToSet(s)]
  BY <1>1, LenProperties
<1>3. s \in Bijection(1..Len(s), ToSet(s))
  BY <1>1, <1>2, Fun_IsBij
<1>4. IsFiniteSet(1..Len(s)) /\ Cardinality(1..Len(s)) = Len(s)
  <2>1. 1 \in Int /\ Len(s) \in Int /\ Len(s) >= 0
    BY <1>1
  <2>2. /\ IsFiniteSet(1..Len(s))
        /\ Cardinality(1..Len(s)) = IF 1 > Len(s) THEN 0 ELSE Len(s) - 1 + 1
    BY <2>1, FS_Interval
  <2> QED  BY <2>1, <2>2
<1>5. ExistsBijection(1..Len(s), ToSet(s))
  BY <1>3 DEF ExistsBijection
<1> QED  BY <1>4, <1>5, FS_Bijection

-----------------------------------------------------------------------------
(* Type correctness                                                        *)

LEMMA BatchIsSeq ==
    ASSUME NEW b \in Batches
    PROVE  b \in Seq(Entries) /\ IsInjective(b) /\ ToSet(b) \subseteq Entries
  BY SinkAssumption, ToSetOf

(* What one iteration of an enqueue call's loop handles.                   *)
LEMMA HeadOfPending ==
    ASSUME TypeOK, ~MutexFree
    PROVE  /\ Head(pending) \in Entries /\ Tail(pending) \in Seq(Entries)
           /\ Keys[Head(pending)] \in Streams
           /\ Size[Head(pending)] \in Nat
           /\ StreamLabels(Head(pending)) \in LabelSets
<1>1. Head(pending) \in Entries /\ Tail(pending) \in Seq(Entries)
  BY HeadTailDistinct DEF TypeOK, MutexFree
<1>2. Keys[Head(pending)] \in Streams /\ Size[Head(pending)] \in Nat
  BY <1>1, SinkAssumption
<1>3. StreamLabels(Head(pending)) \in LabelSets
  BY <1>1, <1>2, SinkAssumption DEF StreamLabels
<1> QED  BY <1>1, <1>2, <1>3

StoredRecords == Seq([entry : Entries, labels : LabelSets \cup {None}])

LEMMA FunctionIsSeq ==
    ASSUME NEW T, NEW n \in Nat, NEW g \in [1..n -> T]
    PROVE  g \in Seq(T)
  OBVIOUS

(* What a chunk leaves in Loki has the type of what Loki holds.            *)
LEMMA StoreTyped ==
    ASSUME TypeOK, NEW f \in Flushers, taken[f] # <<>>, Store(f)
    PROVE  loki' \in [Streams -> StoredRecords]
<1> DEFINE s == taken[f]
           k == Keys[Head(s)]
           n == ChunkLen(s)
           stored == [i \in 1..n |-> [entry |-> s[i], labels |-> labels[k]]]
<1>1. s \in Seq(Entries) /\ s # <<>>
  BY DEF TypeOK
<1>2. n \in 0..Len(s)
  BY <1>1, ChunkLenIsLength
<1>3. Head(s) \in Entries
  BY <1>1, HeadTailDistinct
<1>4. k \in Streams
  BY <1>3, SinkAssumption
<1>5. labels[k] \in LabelSets \cup {None}
  BY <1>4 DEF TypeOK
<1>6. \A i \in 1..n : s[i] \in Entries
  BY <1>1, <1>2, LenProperties, ElementOfSeq
<1>7. loki' = [loki EXCEPT ![k] = @ \o stored]
  BY DEF Store
<1>8. loki \in [Streams -> StoredRecords]
  BY DEF TypeOK, StoredRecords
<1> HIDE DEF s, k, n
<1>9. stored \in StoredRecords
  <2>1. n \in Nat
    BY <1>1, <1>2, LenProperties
  <2>2. \A i \in 1..n : [entry |-> s[i], labels |-> labels[k]]
                          \in [entry : Entries, labels : LabelSets \cup {None}]
    BY <1>5, <1>6
  <2>3. stored \in [1..n -> [entry : Entries, labels : LabelSets \cup {None}]]
    BY <2>2
  <2> HIDE DEF stored
  <2> QED  BY <2>1, <2>3, FunctionIsSeq DEF StoredRecords
<1> HIDE DEF stored
<1>10. loki[k] \o stored \in StoredRecords
  BY <1>4, <1>8, <1>9, ConcatProperties DEF StoredRecords
<1> HIDE DEF StoredRecords
<1> QED  BY <1>4, <1>7, <1>8, <1>10

LEMMA SinkInitTyped == Init => TypeOK
  BY EmptySeq, SinkAssumption DEF Init, TypeOK, Flushers

LEMMA SinkTypeStep == TypeOK /\ [Next]_vars => TypeOK'
<1> SUFFICES ASSUME TypeOK, [Next]_vars PROVE TypeOK'
  OBVIOUS
<1>1. ASSUME NEW b \in Batches, Lock(b) PROVE TypeOK'
  BY <1>1, BatchIsSeq DEF TypeOK, Lock
<1>2. CASE AdmitEntry
  <2> DEFINE e == Head(pending)
             k == Keys[e]
  <2>1. /\ ~MutexFree /\ UNCHANGED <<offered, shed, ticker, phase, due, taken,
                                      attempt, verdict, sent, failed, loki>>
        /\ buffer' = [buffer EXCEPT ![k] = Append(@, e)]
        /\ labels' = [labels EXCEPT ![k] = IF @ = None THEN StreamLabels(e)
                                                       ELSE @]
        /\ usedBytes' = usedBytes + Size[e] /\ usedEntries' = usedEntries + 1
        /\ admitted' = Append(admitted, e) /\ pending' = Tail(pending)
    BY <1>2 DEF AdmitEntry
  <2>2. /\ e \in Entries /\ Tail(pending) \in Seq(Entries) /\ k \in Streams
        /\ Size[e] \in Nat /\ StreamLabels(e) \in LabelSets
    BY <2>1, HeadOfPending
  <2> HIDE DEF e, k
  <2>3. /\ buffer[k] \in Seq(Entries) /\ admitted \in Seq(Entries)
        /\ buffer \in [Streams -> Seq(Entries)]
    BY <2>2 DEF TypeOK
  <2>4. Append(buffer[k], e) \in Seq(Entries) /\ Append(admitted, e) \in Seq(Entries)
    BY <2>2, <2>3, AppendProperties
  <2>5. buffer' \in [Streams -> Seq(Entries)]
    BY <2>1, <2>3, <2>4
  <2>6. labels' \in [Streams -> LabelSets \cup {None}]
    BY <2>1, <2>2 DEF TypeOK
  <2>7. usedEntries' \in Int /\ usedBytes' \in Int
    BY <2>1, <2>2 DEF TypeOK
  <2> QED  BY <2>1, <2>2, <2>4, <2>5, <2>6, <2>7 DEF TypeOK
<1>3. CASE ShedEntry
  BY <1>3, HeadOfPending DEF ShedEntry, TypeOK
<1>4. ASSUME NEW keys \in SUBSET Streams, Tick(keys) PROVE TypeOK'
  BY <1>4 DEF Tick, TypeOK
<1>5. CASE TickerReturn
  BY <1>5 DEF TickerReturn, TypeOK
<1>6. ASSUME NEW f \in Flushers, NEW k \in Streams, FlushStream(f, k) PROVE TypeOK'
  <2>1. buffer[k] \in Seq(Entries) /\ <<>> \in Seq(Entries)
    BY EmptySeq DEF TypeOK
  <2> QED  BY <1>6, <2>1 DEF FlushStream, TypeOK
<1>7. ASSUME NEW f \in Flushers, Post(f) PROVE TypeOK'
  <2>1. Posting(f) /\ UNCHANGED PostVars
    BY <1>7 DEF Post, PostAccepted, PostRejected, PostUnclear
  <2>2. attempt' \in [Flushers -> Nat]
    BY <1>7 DEF Post, PostAccepted, PostRejected, PostUnclear, TypeOK
  <2>3. verdict' \in [Flushers -> {"none", "ok", "fail"}]
    BY <1>7 DEF Post, PostAccepted, PostRejected, PostUnclear, TypeOK
  <2>4. Store(f) \/ UNCHANGED loki
    BY <1>7 DEF Post, PostAccepted, PostRejected, PostUnclear
  <2>5. loki' \in [Streams -> StoredRecords]
    BY <2>1, <2>4, StoreTyped DEF Posting, TypeOK, StoredRecords
  <2> QED  BY <2>1, <2>2, <2>3, <2>5 DEF PostVars, TypeOK, StoredRecords
<1>8. ASSUME NEW f \in Flushers, Settle(f) PROVE TypeOK'
  <2> DEFINE c == Chunk(taken[f])
  <2>1. taken[f] \in Seq(Entries)
    BY DEF TypeOK
  <2>2. /\ c \in Seq(Entries) /\ Rest(taken[f]) \in Seq(Entries)
        /\ ToSet(c) \subseteq Entries
    BY <2>1, ChunkAndRest, ToSetOf
  <2>3. Len(c) \in Nat /\ Bytes(c) \in Nat
    BY <2>2, LenProperties, CellsFinite DEF Bytes
  <2>4. /\ usedEntries' = usedEntries - Len(c) /\ usedBytes' = usedBytes - Bytes(c)
        /\ sent' \in {sent, sent \cup ToSet(c)}
        /\ failed' \in {failed, failed \cup ToSet(c)}
        /\ taken' = [taken EXCEPT ![f] = Rest(@)]
        /\ attempt' = [attempt EXCEPT ![f] = 0]
        /\ verdict' = [verdict EXCEPT ![f] = "none"]
        /\ UNCHANGED <<pending, offered, admitted, shed, buffer, labels,
                       ticker, phase, due, loki>>
    BY <1>8 DEF Settle
  <2> HIDE DEF c
  <2>5. sent' \subseteq Entries /\ failed' \subseteq Entries
    BY <2>2, <2>4 DEF TypeOK
  <2>6. usedEntries' \in Int /\ usedBytes' \in Int
    BY <2>3, <2>4 DEF TypeOK
  <2>7. taken' \in [Flushers -> Seq(Entries)]
    BY <2>2, <2>4 DEF TypeOK
  <2>8. /\ attempt' \in [Flushers -> Nat]
        /\ verdict' \in [Flushers -> {"none", "ok", "fail"}]
    BY <2>4 DEF TypeOK
  <2> QED  BY <2>4, <2>5, <2>6, <2>7, <2>8 DEF TypeOK
<1>9. CASE StopClose
  BY <1>9 DEF StopClose, TypeOK
<1>10. CASE FlushAll
  BY <1>10 DEF FlushAll, NonEmpty, TypeOK
<1>11. CASE FlushDeadline
  BY <1>11 DEF FlushDeadline, TypeOK
<1>12. CASE StopReturn
  BY <1>12 DEF StopReturn, TypeOK
<1>13. CASE UNCHANGED vars
  BY <1>13 DEF vars, TypeOK
<1> QED  BY <1>1, <1>2, <1>3, <1>4, <1>5, <1>6, <1>7, <1>8, <1>9, <1>10,
            <1>11, <1>12, <1>13
         DEF Next, Enqueue, EnqueuePushRequest, Batches

(* Every variable of the sink keeps its type, for any requests, limits and *)
(* answers of Loki; in particular a chunk never takes more entries than    *)
(* the popped stream has (flushStream :504-605).                           *)
THEOREM SinkTypeCorrect == Spec => []TypeOK
<1>1. Init => TypeOK
  BY SinkInitTyped
<1>2. TypeOK /\ [Next]_vars => TypeOK'
  BY SinkTypeStep
<1> QED  BY <1>1, <1>2, PTL DEF Spec

-----------------------------------------------------------------------------
(* The ownership of entries                                                *)

(* EachEntryOnce is not inductive: that an entry admitted now is not held  *)
(* already follows from what the call at hand has yet to handle, and that  *)
(* a popped stream leaves none of its entries behind from the keys.        *)
PendingIsNew ==
    /\ IsInjective(pending) /\ ToSet(pending) \subseteq offered
    /\ ToSet(pending) \cap (ToSet(admitted) \cup shed) = {}
    /\ ToSet(admitted) \cup shed \subseteq offered
BufferedByKey == \A k \in Streams : \A e \in ToSet(buffer[k]) : Keys[e] = k

Ownership == TypeOK /\ EachEntryOnce /\ PendingIsNew /\ BufferedByKey

LEMMA HeldIsEntries ==
    ASSUME TypeOK
    PROVE  InBuffers \subseteq Entries /\ InFlight \subseteq Entries
           /\ Held \in SUBSET Entries
<1>1. \A k \in Streams : ToSet(buffer[k]) \subseteq Entries
  BY ToSetOf DEF TypeOK
<1>2. \A f \in Flushers : ToSet(taken[f]) \subseteq Entries
  BY ToSetOf DEF TypeOK
<1> QED  BY <1>1, <1>2 DEF InBuffers, InFlight, Held

LEMMA SameHeld ==
    ASSUME UNCHANGED <<buffer, taken>>
    PROVE  InBuffers' = InBuffers /\ InFlight' = InFlight /\ Held' = Held
  BY DEF InBuffers, InFlight, Held

(* An admitted entry is new, and joins the held ones at its stream's end.  *)
LEMMA AdmitSets ==
    ASSUME Ownership, AdmitEntry, NEW e, e = Head(pending)
    PROVE  /\ e \in Entries /\ e \in offered
           /\ e \notin Held \cup sent \cup failed \cup shed \cup ToSet(admitted)
           /\ InBuffers' = InBuffers \cup {e} /\ InFlight' = InFlight
           /\ Held' = Held \cup {e}
           /\ ToSet(admitted') = ToSet(admitted) \cup {e}
           /\ IsInjective(admitted')
           /\ \A k \in Streams : /\ ToSet(buffer'[k]) \subseteq
                                      ToSet(buffer[k]) \cup {d \in {e} : Keys[d] = k}
                                 /\ IsInjective(buffer'[k])
<1> DEFINE k == Keys[e]
<1>1. /\ pending # <<>> /\ pending \in Seq(Entries) /\ admitted \in Seq(Entries)
      /\ buffer \in [Streams -> Seq(Entries)] /\ k \in Streams
      /\ buffer' = [buffer EXCEPT ![k] = Append(@, e)]
      /\ admitted' = Append(admitted, e)
      /\ UNCHANGED <<offered, shed, taken, sent, failed>>
  BY HeadOfPending DEF AdmitEntry, MutexFree, Ownership, TypeOK
<1>2. e \in Entries /\ e \in ToSet(pending)
  BY <1>1, HeadTailDistinct
<1>3. e \notin ToSet(admitted) /\ e \notin shed /\ e \in offered
  BY <1>2 DEF Ownership, PendingIsNew
<1>4. e \notin Held \cup sent \cup failed
  BY <1>3 DEF Ownership, EachEntryOnce
<1> HIDE DEF k
<1>5. /\ ToSet(admitted') = ToSet(admitted) \cup {e}
      /\ IsInjective(admitted')
  <2>1. IsInjective(admitted)
    BY DEF Ownership, EachEntryOnce
  <2> QED  BY <1>1, <1>2, <1>3, <2>1, AppendDistinct
<1>6. /\ ToSet(buffer'[k]) = ToSet(buffer[k]) \cup {e}
      /\ IsInjective(buffer'[k])
  <2>1. buffer'[k] = Append(buffer[k], e) /\ buffer[k] \in Seq(Entries)
    BY <1>1
  <2>2. e \notin ToSet(buffer[k]) /\ IsInjective(buffer[k])
    BY <1>1, <1>4 DEF Held, InBuffers, Ownership, EachEntryOnce
  <2> QED  BY <1>2, <2>1, <2>2, AppendDistinct
<1>7. \A j \in Streams \ {k} : buffer'[j] = buffer[j] /\ IsInjective(buffer[j])
  BY <1>1 DEF Ownership, EachEntryOnce
<1>8. InBuffers' = InBuffers \cup {e}
  <2>1. /\ \A x : x \in InBuffers' <=> \E j \in Streams : x \in ToSet(buffer'[j])
        /\ \A x : x \in InBuffers <=> \E j \in Streams : x \in ToSet(buffer[j])
    BY DEF InBuffers
  <2>2. \A x : \A j \in Streams : x \in ToSet(buffer'[j]) <=>
          x \in ToSet(buffer[j]) \/ (j = k /\ x = e)
    BY <1>6, <1>7
  <2> QED  BY <1>1, <2>1, <2>2
<1>9. InFlight' = InFlight
  BY <1>1 DEF InFlight
<1>10. \A j \in Streams : /\ ToSet(buffer'[j]) \subseteq
                               ToSet(buffer[j]) \cup {d \in {e} : Keys[d] = j}
                          /\ IsInjective(buffer'[j])
  BY <1>6, <1>7 DEF k
<1> QED  BY <1>2, <1>3, <1>4, <1>5, <1>8, <1>9, <1>10 DEF Held

(* A popped stream moves from the buffers to a flusher.                    *)
LEMMA FlushSets ==
    ASSUME Ownership, NEW f \in Flushers, NEW k \in Streams, FlushStream(f, k)
    PROVE  /\ InBuffers' = InBuffers \ ToSet(buffer[k])
           /\ InFlight' = InFlight \cup ToSet(buffer[k])
           /\ Held' = Held
           /\ \A j \in Streams : buffer'[j] \in {buffer[j], <<>>}
           /\ taken'[f] = buffer[k]
           /\ \A g \in Flushers \ {f} : taken'[g] = taken[g]
<1>1. /\ buffer \in [Streams -> Seq(Entries)] /\ taken \in [Flushers -> Seq(Entries)]
      /\ buffer' = [buffer EXCEPT ![k] = <<>>]
      /\ taken' = [taken EXCEPT ![f] = buffer[k]] /\ taken[f] = <<>>
  BY DEF FlushStream, Ownership, TypeOK
<1>2. \A j \in Streams \ {k} : /\ buffer'[j] = buffer[j]
                               /\ ToSet(buffer[j]) \cap ToSet(buffer[k]) = {}
  BY <1>1 DEF Ownership, BufferedByKey
<1>3. buffer'[k] = <<>> /\ ToSet(buffer'[k]) = {} /\ ToSet(taken[f]) = {}
  BY <1>1, ToSetEmpty
<1>4. taken'[f] = buffer[k] /\ \A g \in Flushers \ {f} : taken'[g] = taken[g]
  BY <1>1
<1>5. InBuffers' = InBuffers \ ToSet(buffer[k])
  BY <1>2, <1>3 DEF InBuffers
<1>6. InFlight' = InFlight \cup ToSet(buffer[k])
  BY <1>3, <1>4 DEF InFlight
<1>7. ToSet(buffer[k]) \subseteq InBuffers
  BY DEF InBuffers
<1>8. Held' = Held
  BY <1>5, <1>6, <1>7 DEF Held
<1> QED  BY <1>2, <1>3, <1>4, <1>5, <1>6, <1>8

(* A settled chunk leaves the flusher that popped it, and the sink.        *)
LEMMA SettleSets ==
    ASSUME Ownership, NEW f \in Flushers, Settle(f), NEW c, c = Chunk(taken[f])
    PROVE  /\ c \in Seq(Entries) /\ IsInjective(c) /\ ToSet(c) \subseteq InFlight
           /\ InBuffers' = InBuffers /\ InFlight' = InFlight \ ToSet(c)
           /\ Held' = Held \ ToSet(c)
           /\ ToSet(taken'[f]) \subseteq ToSet(taken[f]) /\ IsInjective(taken'[f])
           /\ \A g \in Flushers \ {f} : taken'[g] = taken[g]
<1> DEFINE r == Rest(taken[f])
<1>1. /\ taken \in [Flushers -> Seq(Entries)] /\ taken[f] \in Seq(Entries)
      /\ taken' = [taken EXCEPT ![f] = Rest(@)] /\ buffer' = buffer
      /\ IsInjective(taken[f])
  BY DEF Settle, Ownership, TypeOK, EachEntryOnce
<1>2. /\ c \in Seq(Entries) /\ IsInjective(c) /\ IsInjective(r)
      /\ ToSet(taken[f]) = ToSet(c) \cup ToSet(r) /\ ToSet(c) \cap ToSet(r) = {}
  BY <1>1, ChunkAndRest
<1>3. taken'[f] = r /\ \A g \in Flushers \ {f} : taken'[g] = taken[g]
  BY <1>1
<1> HIDE DEF r
<1>4. \A g \in Flushers \ {f} : ToSet(taken[g]) \cap ToSet(taken[f]) = {}
  BY DEF Flushers, Ownership, EachEntryOnce
<1>5. InFlight' = InFlight \ ToSet(c)
  BY <1>2, <1>3, <1>4 DEF InFlight
<1>6. InBuffers' = InBuffers
  BY <1>1 DEF InBuffers
<1>7. ToSet(c) \subseteq InFlight /\ InBuffers \cap InFlight = {}
  BY <1>2 DEF InFlight, Ownership, EachEntryOnce
<1>8. Held' = Held \ ToSet(c)
  BY <1>5, <1>6, <1>7 DEF Held
<1> QED  BY <1>2, <1>3, <1>5, <1>6, <1>7, <1>8

LEMMA OwnershipInit == Init => Ownership
<1> SUFFICES ASSUME Init PROVE Ownership
  OBVIOUS
<1>1. TypeOK
  BY SinkInitTyped
<1>2. /\ \A k \in Streams : ToSet(buffer[k]) = {} /\ IsInjective(buffer[k])
      /\ \A f \in Flushers : ToSet(taken[f]) = {} /\ IsInjective(taken[f])
      /\ ToSet(admitted) = {} /\ IsInjective(admitted)
      /\ ToSet(pending) = {} /\ IsInjective(pending)
      /\ sent = {} /\ failed = {} /\ shed = {}
  BY ToSetEmpty DEF Init
<1>3. InBuffers = {} /\ InFlight = {} /\ Held = {}
  BY <1>2 DEF InBuffers, InFlight, Held
<1>4. EachEntryOnce
  BY <1>2, <1>3 DEF EachEntryOnce, Flushers
<1> QED  BY <1>1, <1>2, <1>4 DEF Ownership, PendingIsNew, BufferedByKey

(* A step that moves no entry.                                             *)
LEMMA SameOwners ==
    ASSUME Ownership, TypeOK',
           UNCHANGED <<pending, offered, admitted, shed, buffer, taken, sent, failed>>
    PROVE  Ownership'
<1>1. InBuffers' = InBuffers /\ InFlight' = InFlight /\ Held' = Held
  BY SameHeld
<1>2. EachEntryOnce'
  BY <1>1 DEF Ownership, EachEntryOnce
<1>3. PendingIsNew' /\ BufferedByKey'
  BY DEF Ownership, PendingIsNew, BufferedByKey
<1> QED  BY <1>2, <1>3 DEF Ownership

LEMMA OwnershipStep == Ownership /\ [Next]_vars => Ownership'
<1> SUFFICES ASSUME Ownership, [Next]_vars PROVE Ownership'
  OBVIOUS
<1> TypeOK'
  BY SinkTypeStep DEF Ownership
<1>1. ASSUME NEW b \in Batches, Lock(b) PROVE Ownership'
  <2>1. /\ pending = <<>> /\ pending' = b /\ offered' = offered \cup ToSet(b)
        /\ ToSet(b) \cap offered = {}
        /\ UNCHANGED <<admitted, shed, buffer, taken, sent, failed>>
    BY <1>1 DEF Lock, MutexFree
  <2>2. EachEntryOnce'
    BY <2>1, SameHeld DEF Ownership, EachEntryOnce
  <2>3. PendingIsNew'
    BY <2>1, BatchIsSeq DEF Ownership, PendingIsNew
  <2>4. BufferedByKey'
    BY <2>1 DEF Ownership, BufferedByKey
  <2> QED  BY <2>2, <2>3, <2>4 DEF Ownership
<1>2. CASE AdmitEntry
  <2> DEFINE e == Head(pending)
  <2>1. /\ pending' = Tail(pending) /\ pending # <<>> /\ pending \in Seq(Entries)
        /\ UNCHANGED <<offered, shed, taken, sent, failed>>
    BY <1>2 DEF AdmitEntry, MutexFree, Ownership, TypeOK
  <2>2. /\ e \in Entries /\ e \in offered
        /\ e \notin Held \cup sent \cup failed \cup shed \cup ToSet(admitted)
        /\ InBuffers' = InBuffers \cup {e} /\ InFlight' = InFlight
        /\ Held' = Held \cup {e}
        /\ ToSet(admitted') = ToSet(admitted) \cup {e} /\ IsInjective(admitted')
        /\ \A k \in Streams : /\ ToSet(buffer'[k]) \subseteq
                                   ToSet(buffer[k]) \cup {d \in {e} : Keys[d] = k}
                              /\ IsInjective(buffer'[k])
    BY <1>2, AdmitSets
  <2>3. /\ ToSet(pending) = {e} \cup ToSet(pending') /\ IsInjective(pending')
        /\ e \notin ToSet(pending')
    BY <2>1, HeadTailDistinct DEF Ownership, PendingIsNew
  <2> HIDE DEF e
  <2>4. EachEntryOnce'
    <3>1. ToSet(admitted') = (Held \cup sent \cup failed)'
      BY <2>1, <2>2 DEF Ownership, EachEntryOnce
    <3>2. (Held \cap (sent \cup failed) = {} /\ sent \cap failed = {})'
      BY <2>1, <2>2 DEF Ownership, EachEntryOnce
    <3>3. (shed \cap ToSet(admitted) = {})'
      BY <2>1, <2>2 DEF Ownership, EachEntryOnce
    <3>4. (InBuffers \cap InFlight = {})'
      BY <2>1, <2>2 DEF Ownership, EachEntryOnce, Held
    <3>5. /\ (ToSet(taken["ticker"]) \cap ToSet(taken["stopper"]) = {})'
          /\ \A f \in Flushers : IsInjective(taken'[f])
      BY <2>1 DEF Ownership, EachEntryOnce
    <3> QED  BY <2>2, <3>1, <3>2, <3>3, <3>4, <3>5 DEF EachEntryOnce
  <2>5. PendingIsNew'
    BY <2>1, <2>2, <2>3 DEF Ownership, PendingIsNew
  <2>6. BufferedByKey'
    BY <2>2 DEF Ownership, BufferedByKey
  <2> QED  BY <2>4, <2>5, <2>6 DEF Ownership
<1>3. CASE ShedEntry
  <2> DEFINE e == Head(pending)
  <2>1. /\ pending' = Tail(pending) /\ pending # <<>> /\ pending \in Seq(Entries)
        /\ shed' = shed \cup {e}
        /\ UNCHANGED <<offered, admitted, buffer, taken, sent, failed>>
    BY <1>3 DEF ShedEntry, MutexFree, Ownership, TypeOK
  <2>2. /\ ToSet(pending) = {e} \cup ToSet(pending') /\ IsInjective(pending')
        /\ e \notin ToSet(pending')
    BY <2>1, HeadTailDistinct DEF Ownership, PendingIsNew
  <2> HIDE DEF e
  <2>3. e \in offered /\ e \notin ToSet(admitted)
    BY <2>2 DEF Ownership, PendingIsNew
  <2>4. EachEntryOnce'
    BY <2>1, <2>3, SameHeld DEF Ownership, EachEntryOnce
  <2>5. PendingIsNew'
    BY <2>1, <2>2, <2>3 DEF Ownership, PendingIsNew
  <2>6. BufferedByKey'
    BY <2>1 DEF Ownership, BufferedByKey
  <2> QED  BY <2>4, <2>5, <2>6 DEF Ownership
<1>4. ASSUME NEW f \in Flushers, NEW k \in Streams, FlushStream(f, k)
      PROVE  Ownership'
  <2>1. UNCHANGED <<pending, offered, admitted, shed, sent, failed>>
    BY <1>4 DEF FlushStream
  <2>2. /\ InBuffers' = InBuffers \ ToSet(buffer[k])
        /\ InFlight' = InFlight \cup ToSet(buffer[k]) /\ Held' = Held
        /\ \A j \in Streams : buffer'[j] \in {buffer[j], <<>>}
        /\ taken'[f] = buffer[k]
        /\ \A g \in Flushers \ {f} : taken'[g] = taken[g]
    BY <1>4, FlushSets
  <2>3. \A g \in Flushers : ToSet(taken[g]) \cap ToSet(buffer[k]) = {}
    BY DEF Ownership, EachEntryOnce, InBuffers, InFlight
  <2>4. EachEntryOnce'
    <3>1. (InBuffers \cap InFlight = {})'
      BY <2>2 DEF Ownership, EachEntryOnce
    <3>2. (ToSet(taken["ticker"]) \cap ToSet(taken["stopper"]) = {})'
      BY <2>2, <2>3 DEF Flushers
    <3>3. \A j \in Streams : IsInjective(buffer'[j])
      BY <2>2, ToSetEmpty DEF Ownership, EachEntryOnce
    <3>4. \A g \in Flushers : IsInjective(taken'[g])
      BY <2>2 DEF Ownership, EachEntryOnce
    <3> QED  BY <2>1, <2>2, <3>1, <3>2, <3>3, <3>4 DEF Ownership, EachEntryOnce
  <2>5. PendingIsNew'
    BY <2>1 DEF Ownership, PendingIsNew
  <2>6. BufferedByKey'
    BY <2>2, ToSetEmpty DEF Ownership, BufferedByKey
  <2> QED  BY <2>4, <2>5, <2>6 DEF Ownership
<1>5. ASSUME NEW f \in Flushers, Settle(f) PROVE Ownership'
  <2> DEFINE c == Chunk(taken[f])
  <2>1. /\ UNCHANGED <<pending, offered, admitted, shed, buffer>>
        /\ \/ sent' = sent \cup ToSet(c) /\ failed' = failed
           \/ sent' = sent /\ failed' = failed \cup ToSet(c)
    BY <1>5 DEF Settle
  <2>2. /\ c \in Seq(Entries) /\ IsInjective(c) /\ ToSet(c) \subseteq InFlight
        /\ InBuffers' = InBuffers /\ InFlight' = InFlight \ ToSet(c)
        /\ Held' = Held \ ToSet(c)
        /\ ToSet(taken'[f]) \subseteq ToSet(taken[f]) /\ IsInjective(taken'[f])
        /\ \A g \in Flushers \ {f} : taken'[g] = taken[g]
    BY <1>5, SettleSets
  <2> HIDE DEF c
  <2>3. ToSet(c) \subseteq Held
    BY <2>2 DEF Held
  <2>4. EachEntryOnce'
    <3>1. ToSet(admitted') = (Held \cup sent \cup failed)'
      BY <2>1, <2>2, <2>3 DEF Ownership, EachEntryOnce
    <3>2. (Held \cap (sent \cup failed) = {} /\ sent \cap failed = {})'
      BY <2>1, <2>2, <2>3 DEF Ownership, EachEntryOnce
    <3>3. (ToSet(taken["ticker"]) \cap ToSet(taken["stopper"]) = {})'
      <4>1. ToSet(taken["ticker"]) \cap ToSet(taken["stopper"]) = {}
        BY DEF Ownership, EachEntryOnce
      <4>2. \A g \in Flushers : ToSet(taken'[g]) \subseteq ToSet(taken[g])
        BY <2>2
      <4> QED  BY <4>1, <4>2 DEF Flushers
    <3>4. \A g \in Flushers : IsInjective(taken'[g])
      BY <2>2 DEF Ownership, EachEntryOnce
    <3> QED  BY <2>1, <2>2, <3>1, <3>2, <3>3, <3>4 DEF Ownership, EachEntryOnce
  <2>5. PendingIsNew' /\ BufferedByKey'
    BY <2>1 DEF Ownership, PendingIsNew, BufferedByKey
  <2> QED  BY <2>4, <2>5 DEF Ownership
<1>6. ASSUME NEW keys \in SUBSET Streams, Tick(keys) PROVE Ownership'
  BY <1>6, SameOwners DEF Tick
<1>7. ASSUME NEW f \in Flushers, Post(f) PROVE Ownership'
  BY <1>7, SameOwners DEF Post, PostAccepted, PostRejected, PostUnclear, PostVars
<1>8. CASE TickerReturn \/ StopClose \/ FlushAll \/ FlushDeadline \/ StopReturn
  BY <1>8, SameOwners DEF TickerReturn, StopClose, FlushAll, FlushDeadline, StopReturn
<1>9. CASE UNCHANGED vars
  BY <1>9, SameOwners DEF vars
<1> QED  BY <1>1, <1>2, <1>3, <1>4, <1>5, <1>6, <1>7, <1>8, <1>9
         DEF Next, Enqueue, EnqueuePushRequest, Batches

(* Ownership is an inductive invariant of the sink: every entry of a call  *)
(* is yet to be handled, held under its own key, settled or shed.          *)
THEOREM OwnershipHolds == Spec => []Ownership
<1>1. Init => Ownership
  BY OwnershipInit
<1>2. Ownership /\ [Next]_vars => Ownership'
  BY OwnershipStep
<1> QED  BY <1>1, <1>2, PTL DEF Spec

(* No entry is lost or owned twice, whatever interleaving of enqueues, the *)
(* ticker's flush and Stop's (flushStream :490-501).                       *)
THEOREM SinkOwnsOnce == Spec => []EachEntryOnce
<1>1. Ownership => EachEntryOnce
  BY DEF Ownership
<1> QED  BY <1>1, OwnershipHolds, PTL

-----------------------------------------------------------------------------
(* The counters, and what they bound                                       *)

Accounting == EntriesAccounted /\ BytesAccounted /\ DroppableBounded

LEMMA AccountingInit == Init => Accounting
<1> SUFFICES ASSUME Init PROVE Accounting
  OBVIOUS
<1>1. Held = {}
  BY ToSetEmpty DEF Init, Held, InBuffers, InFlight
<1>2. Cardinality({}) = 0 /\ Weight({}) = 0 /\ MaxBufferEntries >= 0
  BY FS_EmptySet, WeightOfNone, SinkAssumption
<1>3. Held \cap Droppable = {}
  BY <1>1
<1> QED  BY <1>1, <1>2, <1>3
         DEF Init, Accounting, EntriesAccounted, BytesAccounted, DroppableBounded

LEMMA SameCounters ==
    ASSUME Accounting, Held' = Held, UNCHANGED <<usedEntries, usedBytes>>
    PROVE  Accounting'
  BY DEF Accounting, EntriesAccounted, BytesAccounted, DroppableBounded

LEMMA AdmitCounts == Ownership /\ Accounting /\ AdmitEntry => Accounting'
<1> SUFFICES ASSUME Ownership, Accounting, AdmitEntry PROVE Accounting'
  OBVIOUS
<1> DEFINE e == Head(pending)
<1>1. /\ usedEntries' = usedEntries + 1 /\ usedBytes' = usedBytes + Size[e]
      /\ ~(BufferFull /\ e \in Droppable)
  BY DEF AdmitEntry
<1>2. e \in Entries /\ e \notin Held /\ Held' = Held \cup {e}
  BY AdmitSets
<1>3. Held \in SUBSET Entries
  BY HeldIsEntries DEF Ownership
<1>4. usedEntries = Cardinality(Held) /\ usedBytes = Weight(Held)
  BY DEF Accounting, EntriesAccounted, BytesAccounted
<1> HIDE DEF e
<1>5. /\ Cardinality(Held') = Cardinality(Held) + 1
      /\ Weight(Held') = Weight(Held) + Size[e]
  <2>1. Cardinality({e}) = 1 /\ Weight({e}) = Size[e]
    BY <1>2, FS_Singleton, WeightOfOne
  <2>2. {e} \in SUBSET Entries /\ Held \cap {e} = {}
    BY <1>2
  <2>3. /\ Cardinality(Held \cup {e}) = Cardinality(Held) + Cardinality({e})
        /\ Weight(Held \cup {e}) = Weight(Held) + Weight({e})
    BY <1>3, <2>2, DisjointAdds
  <2> QED  BY <1>2, <2>1, <2>3
<1>6. Cardinality((Held \cap Droppable)') <= MaxBufferEntries
  <2>1. CASE e \in Droppable
    <3>1. usedEntries < MaxBufferEntries
      <4>1. ~(usedEntries >= MaxBufferEntries)
        BY <1>1, <2>1 DEF BufferFull
      <4>2. usedEntries \in Int /\ MaxBufferEntries \in Nat
        BY SinkAssumption DEF Ownership, TypeOK
      <4> QED  BY <4>1, <4>2
    <3>2. Held' \in SUBSET Entries
      BY <1>2, <1>3
    <3>3. Held' \cap Droppable \in SUBSET Held'
      OBVIOUS
    <3>4. Cardinality(Held' \cap Droppable) <= Cardinality(Held')
      BY <3>2, <3>3, EntriesFinite, FS_Subset
    <3>5. /\ Cardinality(Held) \in Nat /\ Cardinality(Held') \in Nat
          /\ Cardinality(Held' \cap Droppable) \in Nat /\ MaxBufferEntries \in Nat
      BY <1>3, <3>2, <3>3, EntriesFinite, SinkAssumption
    <3>6. Cardinality(Held' \cap Droppable) <= MaxBufferEntries
      BY <1>4, <1>5, <3>1, <3>4, <3>5
    <3> QED  BY <3>6 DEF Droppable
  <2>2. CASE e \notin Droppable
    <3>1. (Held \cap Droppable)' = Held \cap Droppable
      BY <1>2, <2>2 DEF Droppable
    <3> QED  BY <3>1 DEF Accounting, DroppableBounded
  <2> QED  BY <2>1, <2>2
<1> QED  BY <1>1, <1>4, <1>5, <1>6
         DEF Accounting, EntriesAccounted, BytesAccounted, DroppableBounded

LEMMA SettleCounts ==
    ASSUME Ownership, Accounting, NEW f \in Flushers, Settle(f)
    PROVE  Accounting'
<1> DEFINE c == Chunk(taken[f])
           S == ToSet(c)
<1>1. usedEntries' = usedEntries - Len(c) /\ usedBytes' = usedBytes - Weight(S)
  BY DEF Settle, Bytes
<1>2. /\ c \in Seq(Entries) /\ IsInjective(c) /\ S \subseteq InFlight
      /\ Held' = Held \ S
  BY SettleSets
<1>3. Len(c) = Cardinality(S)
  BY <1>2, LenCounts
<1>4. Held \in SUBSET Entries /\ S \subseteq Held
  BY <1>2, HeldIsEntries DEF Ownership, Held
<1>5. usedEntries = Cardinality(Held) /\ usedBytes = Weight(Held)
  BY DEF Accounting, EntriesAccounted, BytesAccounted
<1> HIDE DEF c, S
<1>6. /\ Cardinality(Held') = Cardinality(Held) - Cardinality(S)
      /\ Weight(Held') = Weight(Held) - Weight(S)
  <2>1. Held = Held' \cup S /\ Held' \cap S = {}
    BY <1>2, <1>4
  <2>2. Held' \in SUBSET Entries /\ S \in SUBSET Entries
    BY <1>2, <1>4
  <2>3. /\ Cardinality(Held' \cup S) = Cardinality(Held') + Cardinality(S)
        /\ Weight(Held' \cup S) = Weight(Held') + Weight(S)
    BY <2>1, <2>2, DisjointAdds
  <2>4. /\ Cardinality(Held') \in Nat /\ Cardinality(S) \in Nat
        /\ Weight(Held') \in Nat /\ Weight(S) \in Nat
    BY <2>2, EntriesFinite, CellsFinite
  <2>5. /\ Cardinality(Held) = Cardinality(Held') + Cardinality(S)
        /\ Weight(Held) = Weight(Held') + Weight(S)
    BY ONLY <2>1, <2>3
  <2> QED  BY <2>4, <2>5
<1>7. Cardinality((Held \cap Droppable)') <= MaxBufferEntries
  <2> DEFINE D == Held \cap Droppable
             E == Held' \cap Droppable
  <2>1. E \in SUBSET D /\ D \in SUBSET Entries
    BY <1>2, <1>4
  <2>2. Cardinality(E) <= Cardinality(D)
    BY <2>1, EntriesFinite, FS_Subset
  <2>3. Cardinality(E) \in Nat /\ Cardinality(D) \in Nat /\ MaxBufferEntries \in Nat
    BY <2>1, EntriesFinite, SinkAssumption
  <2>4. Cardinality(D) <= MaxBufferEntries
    BY DEF Accounting, DroppableBounded
  <2>5. (Held \cap Droppable)' = E
    BY DEF Droppable
  <2> HIDE DEF D, E
  <2> QED  BY <2>2, <2>3, <2>4, <2>5
<1> QED  BY <1>1, <1>3, <1>5, <1>6, <1>7
         DEF Accounting, EntriesAccounted, BytesAccounted, DroppableBounded

LEMMA AccountingStep == Ownership /\ Accounting /\ [Next]_vars => Accounting'
<1> SUFFICES ASSUME Ownership, Accounting, [Next]_vars PROVE Accounting'
  OBVIOUS
<1>1. ASSUME NEW b \in Batches, Lock(b) PROVE Accounting'
  BY <1>1, SameHeld, SameCounters DEF Lock
<1>2. CASE AdmitEntry
  BY <1>2, AdmitCounts
<1>3. CASE ShedEntry
  BY <1>3, SameHeld, SameCounters DEF ShedEntry
<1>4. ASSUME NEW f \in Flushers, NEW k \in Streams, FlushStream(f, k)
      PROVE  Accounting'
  <2>1. Held' = Held
    BY <1>4, FlushSets
  <2>2. UNCHANGED <<usedEntries, usedBytes>>
    BY <1>4 DEF FlushStream
  <2> QED  BY <2>1, <2>2, SameCounters
<1>5. ASSUME NEW f \in Flushers, Settle(f) PROVE Accounting'
  BY <1>5, SettleCounts
<1>6. ASSUME NEW keys \in SUBSET Streams, Tick(keys) PROVE Accounting'
  BY <1>6, SameHeld, SameCounters DEF Tick
<1>7. ASSUME NEW f \in Flushers, Post(f) PROVE Accounting'
  <2>1. UNCHANGED <<buffer, taken, usedEntries, usedBytes>>
    BY <1>7 DEF Post, PostAccepted, PostRejected, PostUnclear, PostVars
  <2> QED  BY <2>1, SameHeld, SameCounters
<1>8. CASE TickerReturn \/ StopClose \/ FlushAll \/ FlushDeadline \/ StopReturn
  <2>1. UNCHANGED <<buffer, taken, usedEntries, usedBytes>>
    BY <1>8 DEF TickerReturn, StopClose, FlushAll, FlushDeadline, StopReturn
  <2> QED  BY <2>1, SameHeld, SameCounters
<1>9. CASE UNCHANGED vars
  BY <1>9, SameHeld, SameCounters DEF vars
<1> QED  BY <1>1, <1>2, <1>3, <1>4, <1>5, <1>6, <1>7, <1>8, <1>9
         DEF Next, Enqueue, EnqueuePushRequest, Batches

LEMMA AccountingHolds == Spec => []Accounting
<1>1. Init => Accounting
  BY AccountingInit
<1>2. Ownership /\ Accounting /\ [Next]_vars => Accounting'
  BY AccountingStep
<1> QED  BY <1>1, <1>2, OwnershipHolds, PTL DEF Spec

(* The counter of entries is always what the buffers and the flushers hold *)
(* (Enqueue :221, flushStream :574 and :595): it never drifts, in however  *)
(* many chunks a popped stream is settled.                                 *)
THEOREM SinkCountsEntries == Spec => []EntriesAccounted
<1>1. Accounting => EntriesAccounted
  BY DEF Accounting
<1> QED  BY <1>1, AccountingHolds, PTL

(* And the counter of bytes is their total size (Enqueue :222, flushStream *)
(* :579 and :600).                                                         *)
THEOREM SinkCountsBytes == Spec => []BytesAccounted
<1>1. Accounting => BytesAccounted
  BY DEF Accounting
<1> QED  BY <1>1, AccountingHolds, PTL

(* Severities the policy may drop never fill more than the buffer limit    *)
(* (Enqueue :195-205), because the counter it tests is exact.              *)
THEOREM SinkBoundsDroppable == Spec => []DroppableBounded
<1>1. Accounting => DroppableBounded
  BY DEF Accounting
<1> QED  BY <1>1, AccountingHolds, PTL

-----------------------------------------------------------------------------
(* What is in Loki                                                         *)

EntriesOf(q) == {q[i].entry : i \in DOMAIN q}

LEMMA StoredOfConcat ==
    ASSUME NEW T, NEW s \in Seq(T), NEW t \in Seq(T)
    PROVE  EntriesOf(s \o t) = EntriesOf(s) \cup EntriesOf(t)
<1> DEFINE u == s \o t
<1>1. /\ Len(s) \in Nat /\ Len(t) \in Nat /\ u \in Seq(T)
      /\ Len(u) = Len(s) + Len(t)
      /\ \A i \in 1..Len(u) : u[i] = IF i <= Len(s) THEN s[i] ELSE t[i - Len(s)]
  BY LenProperties, ConcatProperties
<1> HIDE DEF u
<1>2. DOMAIN s = 1..Len(s) /\ DOMAIN t = 1..Len(t) /\ DOMAIN u = 1..Len(u)
  BY <1>1, LenProperties
<1>3. ASSUME NEW i \in 1..Len(s)
      PROVE  i \in 1..Len(u) /\ u[i] = s[i]
  BY <1>1
<1>4. ASSUME NEW i \in 1..Len(t)
      PROVE  i + Len(s) \in 1..Len(u) /\ u[i + Len(s)] = t[i]
  <2>1. i + Len(s) \in 1..Len(u) /\ ~(i + Len(s) <= Len(s))
    BY <1>1
  <2>2. (i + Len(s)) - Len(s) = i
    BY <1>1
  <2> QED  BY <1>1, <2>1, <2>2
<1>5. ASSUME NEW i \in 1..Len(u)
      PROVE  \/ i \in 1..Len(s) /\ u[i] = s[i]
             \/ i - Len(s) \in 1..Len(t) /\ u[i] = t[i - Len(s)]
  BY <1>1
<1>6. {u[i].entry : i \in 1..Len(u)} =
        {s[i].entry : i \in 1..Len(s)} \cup {t[i].entry : i \in 1..Len(t)}
  <2> DEFINE U == {u[i].entry : i \in 1..Len(u)}
             S == {s[i].entry : i \in 1..Len(s)}
             R == {t[i].entry : i \in 1..Len(t)}
  <2>1. ASSUME NEW i \in 1..Len(u) PROVE u[i].entry \in S \cup R
    <3>1. CASE i \in 1..Len(s) /\ u[i] = s[i]
      BY <3>1
    <3>2. CASE i - Len(s) \in 1..Len(t) /\ u[i] = t[i - Len(s)]
      BY <3>2
    <3> QED  BY <1>5, <3>1, <3>2
  <2>2. S \subseteq U
    BY <1>3
  <2>3. ASSUME NEW i \in 1..Len(t) PROVE t[i].entry \in U
    <3>1. i + Len(s) \in 1..Len(u) /\ u[i + Len(s)].entry = t[i].entry
      BY <1>4
    <3> QED  BY <3>1
  <2> QED  BY <2>1, <2>2, <2>3
<1> QED  BY <1>2, <1>6 DEF u, EntriesOf

(* Storing a chunk adds its entries to what Loki has, and nothing else.    *)
LEMMA StoreAdds ==
    ASSUME TypeOK, NEW f \in Flushers, taken[f] # <<>>, Store(f)
    PROVE  Stored' = Stored \cup ToSet(Chunk(taken[f]))
<1> PICK k : k = Keys[Head(taken[f])]
  OBVIOUS
<1> DEFINE s == taken[f]
           n == ChunkLen(s)
           stored == [i \in 1..n |-> [entry |-> s[i], labels |-> labels[k]]]
<1>1. s \in Seq(Entries) /\ s # <<>>
  BY DEF TypeOK
<1>2. n \in 0..Len(s) /\ n \in Nat
  BY <1>1, ChunkLenIsLength, LenProperties
<1>3. k \in Streams
  BY <1>1, HeadTailDistinct, SinkAssumption
<1>4. /\ loki' = [loki EXCEPT ![k] = @ \o stored]
      /\ loki \in [Streams -> StoredRecords]
  BY DEF Store, TypeOK, StoredRecords
<1>5. ToSet(Chunk(s)) = {s[i] : i \in 1..n}
  <2> DEFINE c == Chunk(s)
  <2> HIDE DEF s
  <2>1. c = SubSeq(s, 1, n)
    BY DEF Chunk
  <2> HIDE DEF c, n
  <2>2. c \in Seq(Entries) /\ Len(c) = n /\ \A i \in 1..n : c[i] = s[i]
    BY <1>1, <1>2, <2>1, SplitDistinct
  <2>3. ToSet(c) = {c[i] : i \in 1..n}
    BY <2>2, ToSetOf
  <2> QED  BY <2>2, <2>3 DEF c
<1>6. \A i \in 1..n : s[i] \in Entries
  BY <1>1, <1>2, LenProperties, ElementOfSeq
<1>7. labels[k] \in LabelSets \cup {None}
  BY <1>3 DEF TypeOK
<1> HIDE DEF s, n
<1>8. /\ stored \in StoredRecords
      /\ EntriesOf(stored) = {s[i] : i \in 1..n}
  <2>1. stored \in [1..n -> [entry : Entries, labels : LabelSets \cup {None}]]
    BY <1>6, <1>7
  <2>2. DOMAIN stored = 1..n /\ \A i \in 1..n : stored[i].entry = s[i]
    OBVIOUS
  <2> HIDE DEF stored
  <2>3. stored \in StoredRecords
    BY <1>2, <2>1, FunctionIsSeq DEF StoredRecords
  <2> QED  BY <2>2, <2>3 DEF EntriesOf
<1> HIDE DEF stored
<1>9. loki'[k] = loki[k] \o stored /\ \A j \in Streams \ {k} : loki'[j] = loki[j]
  BY <1>3, <1>4
<1>10. EntriesOf(loki[k] \o stored) = EntriesOf(loki[k]) \cup ToSet(Chunk(s))
  <2>1. loki[k] \in StoredRecords
    BY <1>3, <1>4
  <2>2. EntriesOf(loki[k] \o stored) = EntriesOf(loki[k]) \cup EntriesOf(stored)
    BY <1>8, <2>1, StoredOfConcat DEF StoredRecords
  <2> QED  BY <1>5, <1>8, <2>2
<1>11. StoredEntries(k)' = StoredEntries(k) \cup ToSet(Chunk(s))
  <2>1. StoredEntries(k)' = EntriesOf(loki'[k])
    BY DEF StoredEntries, EntriesOf
  <2>2. StoredEntries(k) = EntriesOf(loki[k])
    BY DEF StoredEntries, EntriesOf
  <2> QED  BY <1>9, <1>10, <2>1, <2>2
<1>12. \A j \in Streams \ {k} : StoredEntries(j)' = StoredEntries(j)
  BY <1>9 DEF StoredEntries
<1>13. Stored' = Stored \cup ToSet(Chunk(s))
  BY <1>3, <1>11, <1>12 DEF Stored
<1> QED  BY <1>13 DEF s

(* SentIsStored is not inductive: a chunk is counted as sent after, and    *)
(* under another critical section than, the attempt that stored it.        *)
PostedIsStored ==
    /\ \A f \in Flushers : verdict[f] # "none" => taken[f] # <<>>
    /\ \A f \in Flushers : verdict[f] = "ok" => ToSet(Chunk(taken[f])) \subseteq Stored
    /\ SentIsStored

LEMMA PostedInit == Init => PostedIsStored
  BY DEF Init, PostedIsStored, SentIsStored

LEMMA SameStored == ASSUME UNCHANGED loki PROVE Stored' = Stored
  BY DEF Stored, StoredEntries

LEMMA SamePosted ==
    ASSUME PostedIsStored, UNCHANGED <<taken, verdict, sent, loki>>
    PROVE  PostedIsStored'
<1>1. Stored' = Stored
  BY SameStored
<1> QED  BY <1>1 DEF PostedIsStored, SentIsStored

LEMMA PostedStep == TypeOK /\ PostedIsStored /\ [Next]_vars => PostedIsStored'
<1> SUFFICES ASSUME TypeOK, PostedIsStored, [Next]_vars PROVE PostedIsStored'
  OBVIOUS
<1>1. ASSUME NEW b \in Batches, Lock(b) PROVE PostedIsStored'
  BY <1>1, SamePosted DEF Lock
<1>2. CASE AdmitEntry \/ ShedEntry
  BY <1>2, SamePosted DEF AdmitEntry, ShedEntry
<1>3. ASSUME NEW keys \in SUBSET Streams, Tick(keys) PROVE PostedIsStored'
  BY <1>3, SamePosted DEF Tick
<1>4. ASSUME NEW f \in Flushers, NEW k \in Streams, FlushStream(f, k)
      PROVE  PostedIsStored'
  <2>1. /\ \A g \in Flushers \ {f} : taken'[g] = taken[g]
        /\ UNCHANGED <<verdict, sent, loki>> /\ taken[f] = <<>>
    BY <1>4 DEF FlushStream, TypeOK
  <2>2. verdict[f] = "none"
    BY <2>1 DEF PostedIsStored
  <2>3. Stored' = Stored
    BY <2>1 DEF Stored, StoredEntries
  <2>4. \A g \in Flushers : verdict'[g] # "none" => taken'[g] # <<>>
    BY <2>1, <2>2 DEF PostedIsStored
  <2>5. \A g \in Flushers :
          verdict'[g] = "ok" => ToSet(Chunk(taken'[g])) \subseteq Stored'
    BY <2>1, <2>2, <2>3 DEF PostedIsStored
  <2>6. sent' \subseteq Stored'
    BY <2>1, <2>3 DEF PostedIsStored, SentIsStored
  <2> QED  BY <2>4, <2>5, <2>6 DEF PostedIsStored, SentIsStored
<1>5. ASSUME NEW f \in Flushers, Post(f) PROVE PostedIsStored'
  <2>1. /\ taken[f] # <<>> /\ UNCHANGED <<taken, sent>>
        /\ \A g \in Flushers \ {f} : verdict'[g] = verdict[g]
    BY <1>5 DEF Post, PostAccepted, PostRejected, PostUnclear, Posting, PostVars, TypeOK
  <2>2. Store(f) \/ loki' = loki
    BY <1>5 DEF Post, PostAccepted, PostRejected, PostUnclear
  <2>3. Stored \subseteq Stored'
    <3>1. loki' = loki => Stored' = Stored
      BY DEF Stored, StoredEntries
    <3> QED  BY <2>1, <2>2, <3>1, StoreAdds
  <2>4. verdict'[f] = "ok" => ToSet(Chunk(taken[f])) \subseteq Stored'
    <3>1. CASE PostAccepted(f)
      <4>1. Store(f)
        BY <3>1 DEF PostAccepted
      <4>2. Stored' = Stored \cup ToSet(Chunk(taken[f]))
        BY <2>1, <4>1, StoreAdds
      <4> QED  BY <4>2
    <3>2. CASE PostRejected(f) \/ PostUnclear(f)
      <4>1. verdict'[f] # "ok"
        BY <3>2 DEF PostRejected, PostUnclear, TypeOK
      <4> QED  BY <4>1
    <3> QED  BY <1>5, <3>1, <3>2 DEF Post
  <2>5. \A g \in Flushers : verdict'[g] # "none" => taken'[g] # <<>>
    BY <2>1 DEF PostedIsStored
  <2>6. \A g \in Flushers :
          verdict'[g] = "ok" => ToSet(Chunk(taken'[g])) \subseteq Stored'
    BY <2>1, <2>3, <2>4 DEF PostedIsStored
  <2>7. sent' \subseteq Stored'
    BY <2>1, <2>3 DEF PostedIsStored, SentIsStored
  <2> QED  BY <2>5, <2>6, <2>7 DEF PostedIsStored, SentIsStored
<1>6. ASSUME NEW f \in Flushers, Settle(f) PROVE PostedIsStored'
  <2>1. /\ \A g \in Flushers \ {f} : verdict'[g] = verdict[g] /\ taken'[g] = taken[g]
        /\ verdict'[f] = "none" /\ loki' = loki
    BY <1>6 DEF Settle, TypeOK
  <2>2. Stored' = Stored
    BY <2>1 DEF Stored, StoredEntries
  <2>3. sent' \subseteq Stored'
    <3>1. sent' = IF verdict[f] = "ok" THEN sent \cup ToSet(Chunk(taken[f])) ELSE sent
      BY <1>6 DEF Settle
    <3> QED  BY <2>2, <3>1 DEF PostedIsStored, SentIsStored
  <2>4. \A g \in Flushers : verdict'[g] # "none" => taken'[g] # <<>>
    BY <2>1 DEF PostedIsStored
  <2>5. \A g \in Flushers :
          verdict'[g] = "ok" => ToSet(Chunk(taken'[g])) \subseteq Stored'
    BY <2>1, <2>2 DEF PostedIsStored
  <2> QED  BY <2>3, <2>4, <2>5 DEF PostedIsStored, SentIsStored
<1>7. CASE TickerReturn \/ StopClose \/ FlushAll \/ FlushDeadline \/ StopReturn
  BY <1>7, SamePosted DEF TickerReturn, StopClose, FlushAll, FlushDeadline, StopReturn
<1>8. CASE UNCHANGED vars
  BY <1>8, SamePosted DEF vars
<1> QED  BY <1>1, <1>2, <1>3, <1>4, <1>5, <1>6, <1>7, <1>8
         DEF Next, Enqueue, EnqueuePushRequest, Batches

LEMMA PostedHolds == Spec => []PostedIsStored
<1>1. TypeOK /\ PostedIsStored /\ [Next]_vars => PostedIsStored'
  BY PostedStep
<1> QED  BY <1>1, PostedInit, SinkTypeCorrect, PTL DEF Spec

(* What the sink counts as sent is in Loki, however many attempts it took  *)
(* and whatever the other goroutine did between (postWithRetry :640-641).  *)
THEOREM SinkSentIsStored == Spec => []SentIsStored
<1>1. PostedIsStored => SentIsStored
  BY DEF PostedIsStored
<1> QED  BY <1>1, PostedHolds, PTL

-----------------------------------------------------------------------------
(* The refinement                                                          *)

Fates == [e \in Entries |-> Fate(e)]

LEMMA FateCases ==
    ASSUME Ownership, NEW e \in Entries
    PROVE  /\ e \in shed <=> Fate(e) = "shed"
           /\ e \in Held <=> Fate(e) = "held"
           /\ e \in sent <=> Fate(e) = "sent"
           /\ e \in failed <=> Fate(e) = "lost"
           /\ e \notin shed \cup Held \cup sent \cup failed <=> Fate(e) = "new"
<1>1. /\ Held \cap (sent \cup failed) = {} /\ sent \cap failed = {}
      /\ shed \cap (Held \cup sent \cup failed) = {}
  BY DEF Ownership, EachEntryOnce
<1> QED  BY <1>1 DEF Fate

(* The counters report pressure exactly when there is pressure.            *)
LEMMA PressureIsReal ==
    ASSUME Ownership, Accounting
    PROVE  /\ Delivery!With("held") = Held
           /\ Delivery!UnderPressure <=> BufferFull
<1>1. Delivery!With("held") = Held
  <2>1. Held \subseteq Entries
    BY HeldIsEntries DEF Ownership
  <2> QED  BY <2>1, FateCases DEF Delivery!With
<1>2. \A S : Delivery!Cardinality(S) = Cardinality(S)
  BY DEF Delivery!Cardinality, Cardinality
<1>3. Delivery!Weight(Held) = Weight(Held)
  BY <1>2 DEF Delivery!Weight, Weight
<1>4. usedEntries = Cardinality(Held) /\ usedBytes = Weight(Held)
  BY DEF Accounting, EntriesAccounted, BytesAccounted
<1> QED  BY <1>1, <1>2, <1>3, <1>4 DEF Delivery!UnderPressure, BufferFull

LEMMA SameFates ==
    ASSUME Held' = Held, UNCHANGED <<shed, sent, failed>>
    PROVE  Fates' = Fates
  BY DEF Fates, Fate

LEMMA AdmitTakes ==
    ASSUME Ownership, Accounting, AdmitEntry
    PROVE  \E e \in Entries : Delivery!Take(e)
<1> PICK e : e = Head(pending)
  OBVIOUS
<1>1. /\ e \in Entries /\ e \notin Held \cup sent \cup failed \cup shed
      /\ Held' = Held \cup {e}
  BY AdmitSets
<1>2. /\ UNCHANGED <<shed, sent, failed, loki>>
      /\ ~(BufferFull /\ e \in Droppable)
  BY DEF AdmitEntry
<1>3. Fate(e) = "new"
  BY <1>1, FateCases
<1>4. ~(Delivery!UnderPressure /\ e \in Droppable)
  BY <1>2, PressureIsReal
<1>5. \A x \in Entries : Fate(x)' = IF x \in {e} THEN "held" ELSE Fate(x)
  BY <1>1, <1>2 DEF Fate
<1>6. Stored' = Stored
  BY <1>2, SameStored
<1>7. Delivery!Decide({e}, "held")
  BY <1>5 DEF Delivery!Decide
<1> QED  BY <1>1, <1>3, <1>4, <1>6, <1>7 DEF Delivery!Take

LEMMA ShedSheds ==
    ASSUME Ownership, Accounting, ShedEntry
    PROVE  \E e \in Entries : Delivery!Shed(e)
<1> PICK e : e = Head(pending)
  OBVIOUS
<1>1. /\ pending # <<>> /\ pending \in Seq(Entries) /\ shed' = shed \cup {e}
      /\ UNCHANGED <<buffer, taken, sent, failed, loki>>
      /\ BufferFull /\ e \in Droppable
  BY DEF ShedEntry, MutexFree, Ownership, TypeOK
<1>2. e \in Entries /\ e \in ToSet(pending)
  BY <1>1, HeadTailDistinct
<1>3. e \notin Held \cup sent \cup failed \cup shed
  BY <1>2 DEF Ownership, PendingIsNew, EachEntryOnce
<1>4. Fate(e) = "new"
  BY <1>2, <1>3, FateCases
<1>5. Delivery!UnderPressure
  BY <1>1, PressureIsReal
<1>6. \A x \in Entries : Fate(x)' = IF x \in {e} THEN "shed" ELSE Fate(x)
  <2>1. Held' = Held
    BY <1>1, SameHeld
  <2> QED  BY <1>1, <1>3, <2>1 DEF Fate
<1>7. Stored' = Stored
  BY <1>1, SameStored
<1>8. Delivery!Decide({e}, "shed")
  BY <1>6 DEF Delivery!Decide
<1> QED  BY <1>1, <1>2, <1>4, <1>5, <1>7, <1>8 DEF Delivery!Shed

LEMMA ChunkIsHeld ==
    ASSUME Ownership, NEW f \in Flushers
    PROVE  ToSet(Chunk(taken[f])) \subseteq Held /\ Held \subseteq Entries
<1>1. taken[f] \in Seq(Entries)
  BY DEF Ownership, TypeOK
<1>2. ToSet(Chunk(taken[f])) \subseteq ToSet(taken[f])
  BY <1>1, ChunkAndRest
<1> QED  BY <1>2, HeldIsEntries DEF Held, InFlight, Ownership

LEMMA PostStores ==
    ASSUME Ownership, Accounting, NEW f \in Flushers, Post(f)
    PROVE  \/ \E S \in SUBSET Entries : Delivery!Store(S)
           \/ Fates' = Fates /\ Stored' = Stored
<1>1. taken[f] # <<>> /\ UNCHANGED <<buffer, taken, shed, sent, failed>>
  BY DEF Post, PostAccepted, PostRejected, PostUnclear, Posting, PostVars
<1>2. Fates' = Fates
  BY <1>1, SameHeld, SameFates
<1>3. CASE Store(f)
  <2> PICK S : S = ToSet(Chunk(taken[f]))
    OBVIOUS
  <2>1. S \in SUBSET Entries /\ S \subseteq Delivery!With("held")
    BY ChunkIsHeld, PressureIsReal
  <2>2. Stored' = Stored \cup S
    BY <1>1, <1>3, StoreAdds DEF Ownership
  <2> QED  BY <1>2, <2>1, <2>2 DEF Delivery!Store, Fates
<1>4. CASE loki' = loki
  BY <1>2, <1>4, SameStored
<1>5. Store(f) \/ loki' = loki
  BY DEF Post, PostAccepted, PostRejected, PostUnclear
<1> QED  BY <1>3, <1>4, <1>5

LEMMA SettleConfirmsOrLoses ==
    ASSUME Ownership, Accounting, PostedIsStored, NEW f \in Flushers, Settle(f)
    PROVE  \E S \in SUBSET Entries : Delivery!Confirm(S) \/ Delivery!Lose(S)
<1> PICK S : S = ToSet(Chunk(taken[f]))
  OBVIOUS
<1>1. /\ S \in SUBSET Entries /\ S \subseteq Held
      /\ S \subseteq Delivery!With("held")
  BY ChunkIsHeld, PressureIsReal
<1>2. Held' = Held \ S
  BY SettleSets
<1>3. UNCHANGED <<shed, loki>> /\ Stored' = Stored
  BY SameStored DEF Settle
<1>4. S \cap (shed \cup sent \cup failed) = {}
  BY <1>1 DEF Ownership, EachEntryOnce
<1>5. verdict[f] = "ok" \/ verdict[f] # "ok"
  OBVIOUS
<1>6. CASE verdict[f] = "ok"
  <2>1. sent' = sent \cup S /\ failed' = failed
    BY <1>6 DEF Settle
  <2>2. \A x \in Entries : Fate(x)' = IF x \in S THEN "sent" ELSE Fate(x)
    BY <1>2, <1>3, <1>4, <2>1 DEF Fate
  <2>3. Delivery!Decide(S, "sent")
    BY <2>2 DEF Delivery!Decide
  <2>4. S \subseteq Stored
    BY <1>6 DEF PostedIsStored
  <2> QED  BY <1>1, <1>3, <2>3, <2>4 DEF Delivery!Confirm
<1>7. CASE verdict[f] # "ok"
  <2>1. sent' = sent /\ failed' = failed \cup S
    BY <1>7 DEF Settle
  <2>2. \A x \in Entries : Fate(x)' = IF x \in S THEN "lost" ELSE Fate(x)
    BY <1>2, <1>3, <1>4, <2>1 DEF Fate
  <2>3. Delivery!Decide(S, "lost")
    BY <2>2 DEF Delivery!Decide
  <2> QED  BY <1>1, <1>3, <2>3 DEF Delivery!Lose
<1> QED  BY <1>5, <1>6, <1>7

LEMMA DeliveryInit == Init => Delivery!Init
<1> SUFFICES ASSUME Init PROVE Delivery!Init
  OBVIOUS
<1>1. Held = {}
  BY ToSetEmpty DEF Init, Held, InBuffers, InFlight
<1>2. \A e \in Entries : Fate(e) = "new"
  BY <1>1 DEF Fate, Init
<1>3. \A k \in Streams : StoredEntries(k) = {}
  BY DEF Init, StoredEntries
<1>4. Stored = {}
  BY <1>3 DEF Stored
<1> QED  BY <1>2, <1>4 DEF Delivery!Init

LEMMA DeliveryStep ==
    ASSUME Ownership, Accounting, PostedIsStored, [Next]_vars
    PROVE  Delivery!Next \/ (Fates' = Fates /\ Stored' = Stored)
<1>1. ASSUME NEW b \in Batches, Lock(b) PROVE Fates' = Fates /\ Stored' = Stored
  BY <1>1, SameHeld, SameFates, SameStored DEF Lock
<1>2. CASE AdmitEntry
  BY <1>2, AdmitTakes DEF Delivery!Next
<1>3. CASE ShedEntry
  BY <1>3, ShedSheds DEF Delivery!Next
<1>4. ASSUME NEW keys \in SUBSET Streams, Tick(keys)
      PROVE  Fates' = Fates /\ Stored' = Stored
  BY <1>4, SameHeld, SameFates, SameStored DEF Tick
<1>5. ASSUME NEW f \in Flushers, NEW k \in Streams, FlushStream(f, k)
      PROVE  Fates' = Fates /\ Stored' = Stored
  <2>1. Held' = Held
    BY <1>5, FlushSets
  <2>2. UNCHANGED <<shed, sent, failed, loki>>
    BY <1>5 DEF FlushStream
  <2> QED  BY <2>1, <2>2, SameFates, SameStored
<1>6. ASSUME NEW f \in Flushers, Post(f)
      PROVE  Delivery!Next \/ (Fates' = Fates /\ Stored' = Stored)
  BY <1>6, PostStores DEF Delivery!Next
<1>7. ASSUME NEW f \in Flushers, Settle(f) PROVE Delivery!Next
  BY <1>7, SettleConfirmsOrLoses DEF Delivery!Next
<1>8. CASE TickerReturn \/ StopClose \/ FlushAll \/ FlushDeadline \/ StopReturn
  <2>1. UNCHANGED <<buffer, taken, shed, sent, failed, loki>>
    BY <1>8 DEF TickerReturn, StopClose, FlushAll, FlushDeadline, StopReturn
  <2> QED  BY <2>1, SameHeld, SameFates, SameStored
<1>9. CASE UNCHANGED vars
  BY <1>9, SameHeld, SameFates, SameStored DEF vars
<1> QED  BY <1>1, <1>2, <1>3, <1>4, <1>5, <1>6, <1>7, <1>8, <1>9
         DEF Next, Enqueue, EnqueuePushRequest, Batches

(* The sink implements LogDelivery: every entry is taken or shed as its    *)
(* severity and the real pressure demand, and an entry taken is held until *)
(* it is confirmed in Loki or lost, in one step of one flusher.            *)
THEOREM SinkImplementsDelivery == Spec => ImplementsDelivery
<1>1. Init => Delivery!Init
  BY DeliveryInit
<1>2. Ownership /\ Accounting /\ PostedIsStored /\ [Next]_vars
        => [Delivery!Next]_<<[e \in Entries |-> Fate(e)], Stored>>
  BY DeliveryStep DEF Fates
<1> QED  BY <1>1, <1>2, OwnershipHolds, AccountingHolds, PostedHolds, PTL
         DEF Spec, ImplementsDelivery, Delivery!Spec

-----------------------------------------------------------------------------
(* A chunk in Loki                                                         *)

LEMMA ChunkSeq ==
    ASSUME NEW s \in Seq(Entries)
    PROVE  /\ ChunkLen(s) \in Nat /\ ChunkLen(s) <= Len(s) /\ Len(s) \in Nat
           /\ Chunk(s) \in Seq(Entries) /\ Len(Chunk(s)) = ChunkLen(s)
           /\ \A i \in 1..ChunkLen(s) : Chunk(s)[i] = s[i]
           /\ Rest(s) \in Seq(Entries) /\ Len(Rest(s)) = Len(s) - ChunkLen(s)
           /\ \A i \in 1..(Len(s) - ChunkLen(s)) : Rest(s)[i] = s[ChunkLen(s) + i]
<1> DEFINE n == ChunkLen(s)
<1>1. n \in 0..Len(s) /\ Len(s) \in Nat
  BY ChunkLenIsLength, LenProperties
<1>2. Chunk(s) = SubSeq(s, 1, n) /\ Rest(s) = SubSeq(s, n + 1, Len(s))
  BY DEF Chunk, Rest
<1> HIDE DEF n
<1>3. \A i \in (n + 1) .. Len(s) : s[i] \in Entries
  BY <1>1, ElementOfSeq
<1>4. n + 1 \in Int /\ Len(s) \in Int
  BY <1>1
<1>5. /\ Len(SubSeq(s, n + 1, Len(s))) = IF n + 1 <= Len(s) THEN Len(s) - (n + 1) + 1 ELSE 0
      /\ \A i \in 1 .. Len(s) - (n + 1) + 1 :
           SubSeq(s, n + 1, Len(s))[i] = s[(n + 1) + i - 1]
  BY <1>3, <1>4, SubSeqProperties
<1>6. Len(Rest(s)) = Len(s) - n
  BY <1>1, <1>2, <1>5
<1>7. \A i \in 1..(Len(s) - n) : Rest(s)[i] = s[n + i]
  <2> TAKE i \in 1..(Len(s) - n)
  <2>1. i \in 1 .. Len(s) - (n + 1) + 1 /\ (n + 1) + i - 1 = n + i
    BY <1>1
  <2> QED  BY <1>2, <1>5, <2>1
<1>8. /\ SubSeq(s, 1, n) \in Seq(Entries) /\ Len(SubSeq(s, 1, n)) = n
      /\ \A i \in 1..n : SubSeq(s, 1, n)[i] = s[i]
      /\ SubSeq(s, n + 1, Len(s)) \in Seq(Entries)
  BY <1>1, SplitDistinct
<1> QED  BY <1>1, <1>2, <1>6, <1>7, <1>8 DEF n

(* An attempt that Loki stores puts the chunk at the end of its stream.    *)
LEMMA StoreShape ==
    ASSUME TypeOK, NEW f \in Flushers, taken[f] # <<>>, Store(f)
    PROVE  \E k \in Streams, st \in StoredRecords :
             /\ k = Keys[Head(taken[f])] /\ loki'[k] = loki[k] \o st
             /\ loki[k] \in StoredRecords
             /\ \A j \in Streams \ {k} : loki'[j] = loki[j]
             /\ Len(st) = Len(Chunk(taken[f]))
             /\ \A i \in 1..Len(st) : st[i].entry = Chunk(taken[f])[i]
<1> DEFINE s == taken[f]
           n == ChunkLen(s)
<1>1. s \in Seq(Entries) /\ s # <<>>
  BY DEF TypeOK
<1>2. PICK k \in Streams : k = Keys[Head(s)]
  BY <1>1, HeadTailDistinct, SinkAssumption
<1> DEFINE st == [i \in 1..n |-> [entry |-> s[i], labels |-> labels[k]]]
<1>3. loki' = [loki EXCEPT ![k] = @ \o st] /\ loki \in [Streams -> StoredRecords]
  BY <1>2 DEF Store, TypeOK, StoredRecords
<1>4. labels[k] \in LabelSets \cup {None}
  BY DEF TypeOK
<1> HIDE DEF s
<1>5. /\ n \in Nat /\ n <= Len(s) /\ Len(s) \in Nat /\ Len(Chunk(s)) = n
      /\ \A i \in 1..n : Chunk(s)[i] = s[i]
  BY <1>1, ChunkSeq
<1> HIDE DEF n
<1>6. \A i \in 1..n : s[i] \in Entries
  BY <1>1, <1>5, ElementOfSeq
<1>7. st \in [1..n -> [entry : Entries, labels : LabelSets \cup {None}]]
  BY <1>4, <1>6
<1>8. DOMAIN st = 1..n /\ \A i \in 1..n : st[i].entry = s[i]
  OBVIOUS
<1> HIDE DEF st
<1>9. st \in StoredRecords
  BY <1>5, <1>7, FunctionIsSeq DEF StoredRecords
<1>10. Len(st) = n
  BY <1>5, <1>8, <1>9, LenProperties DEF StoredRecords
<1>11. \A i \in 1..Len(st) : st[i].entry = Chunk(s)[i]
  BY <1>5, <1>8, <1>10
<1>12. /\ loki'[k] = loki[k] \o st /\ loki[k] \in StoredRecords
       /\ \A j \in Streams \ {k} : loki'[j] = loki[j]
  BY <1>3
<1> QED  BY <1>2, <1>5, <1>9, <1>10, <1>11, <1>12 DEF s

-----------------------------------------------------------------------------
(* Copies                                                                  *)

At(q, e) == {i \in DOMAIN q : q[i].entry = e}
Copies(k, e) == At(loki[k], e)

LEMMA AtFinite ==
    ASSUME NEW T, NEW q \in Seq(T), NEW e
    PROVE  IsFiniteSet(At(q, e)) /\ Cardinality(At(q, e)) \in Nat
<1>1. Len(q) \in Nat /\ DOMAIN q = 1..Len(q)
  BY LenProperties
<1>2. IsFiniteSet(1..Len(q))
  BY <1>1, FS_Interval
<1>3. At(q, e) \subseteq 1..Len(q)
  BY <1>1 DEF At
<1> QED  BY <1>2, <1>3, FS_Subset, FS_CardinalityType

(* Appending records of which one at most is of e adds one copy at most.   *)
LEMMA AtConcat ==
    ASSUME NEW T, NEW q \in Seq(T), NEW st \in Seq(T), NEW e,
           \A i, j \in 1..Len(st) : st[i].entry = e /\ st[j].entry = e => i = j
    PROVE  /\ (\A i \in 1..Len(st) : st[i].entry # e) => At(q \o st, e) = At(q, e)
           /\ Cardinality(At(q \o st, e)) <= Cardinality(At(q, e)) + 1
<1> DEFINE u == q \o st
<1>1. /\ Len(q) \in Nat /\ Len(st) \in Nat /\ u \in Seq(T)
      /\ Len(u) = Len(q) + Len(st)
      /\ \A i \in 1..Len(u) : u[i] = IF i <= Len(q) THEN q[i] ELSE st[i - Len(q)]
  BY LenProperties, ConcatProperties
<1> HIDE DEF u
<1>2. DOMAIN q = 1..Len(q) /\ DOMAIN u = 1..Len(u)
  BY <1>1, LenProperties
<1>3. ASSUME NEW i \in 1..Len(q)
      PROVE  i \in 1..Len(u) /\ u[i] = q[i]
  BY <1>1
<1>4. ASSUME NEW i \in 1..Len(u), i \notin 1..Len(q)
      PROVE  i - Len(q) \in 1..Len(st) /\ u[i] = st[i - Len(q)]
  BY <1>1, <1>4
<1>5. ASSUME \A i \in 1..Len(st) : st[i].entry # e PROVE At(u, e) = At(q, e)
  <2>1. ASSUME NEW i \in At(u, e) PROVE i \in At(q, e)
    <3>1. i \in 1..Len(u) /\ u[i].entry = e
      BY <1>2 DEF At
    <3>2. i \in 1..Len(q)
      BY <1>4, <1>5, <3>1
    <3> QED  BY <1>2, <1>3, <3>1, <3>2 DEF At
  <2>2. ASSUME NEW i \in At(q, e) PROVE i \in At(u, e)
    BY <1>2, <1>3 DEF At
  <2> QED  BY <2>1, <2>2
<1>6. ASSUME NEW m \in 1..Len(st), st[m].entry = e
      PROVE  At(u, e) \subseteq At(q, e) \cup {Len(q) + m}
  <2> SUFFICES ASSUME NEW i \in At(u, e), i \notin At(q, e) PROVE i = Len(q) + m
    OBVIOUS
  <2>1. i \in 1..Len(u) /\ u[i].entry = e
    BY <1>2 DEF At
  <2>2. i \notin 1..Len(q)
    BY <1>2, <1>3, <2>1 DEF At
  <2>3. i - Len(q) \in 1..Len(st) /\ st[i - Len(q)].entry = e
    BY <1>4, <2>1, <2>2
  <2>4. i - Len(q) = m
    BY <1>6, <2>3
  <2> QED  BY <1>1, <2>1, <2>4
<1>7. /\ IsFiniteSet(At(q, e)) /\ Cardinality(At(q, e)) \in Nat
      /\ IsFiniteSet(At(u, e)) /\ Cardinality(At(u, e)) \in Nat
  BY <1>1, AtFinite
<1>8. ASSUME NEW m \in 1..Len(st), st[m].entry = e
      PROVE  Cardinality(At(u, e)) <= Cardinality(At(q, e)) + 1
  <2> DEFINE x == Len(q) + m
             V == At(q, e) \cup {x}
  <2>1. IsFiniteSet(V) /\ Cardinality(V) \in {Cardinality(At(q, e)), Cardinality(At(q, e)) + 1}
    BY <1>7, FS_AddElement
  <2>2. At(u, e) \subseteq V
    BY <1>6, <1>8
  <2> HIDE DEF V
  <2>3. Cardinality(At(u, e)) <= Cardinality(V)
    BY <2>1, <2>2, FS_Subset
  <2> QED  BY <1>7, <2>1, <2>3
<1>9. Cardinality(At(u, e)) <= Cardinality(At(q, e)) + 1
  <2>1. CASE \A i \in 1..Len(st) : st[i].entry # e
    BY <1>5, <1>7, <2>1
  <2>2. CASE \E m \in 1..Len(st) : st[m].entry = e
    BY <1>8, <2>2
  <2> QED  BY <2>1, <2>2
<1> QED  BY <1>5, <1>9 DEF u

(* An attempt adds one copy of each entry of its chunk, and of no other.   *)
LEMMA StoreCopies ==
    ASSUME Ownership, NEW f \in Flushers, taken[f] # <<>>, Store(f),
           NEW k \in Streams, NEW e \in Entries
    PROVE  /\ e \notin ToSet(Chunk(taken[f])) => Copies(k, e)' = Copies(k, e)
           /\ Cardinality(Copies(k, e)') <= Cardinality(Copies(k, e)) + 1
<1> DEFINE c == Chunk(taken[f])
<1>1. PICK h \in Streams, st \in StoredRecords :
        /\ loki'[h] = loki[h] \o st /\ loki[h] \in StoredRecords
        /\ \A j \in Streams \ {h} : loki'[j] = loki[j]
        /\ Len(st) = Len(c)
        /\ \A i \in 1..Len(st) : st[i].entry = c[i]
  BY StoreShape DEF Ownership
<1>2. c \in Seq(Entries) /\ IsInjective(c)
  BY ChunkAndRest DEF Ownership, TypeOK, EachEntryOnce
<1> HIDE DEF c
<1>3. /\ ToSet(c) = {c[i] : i \in 1..Len(c)}
      /\ \A i, j \in 1..Len(c) : c[i] = c[j] => i = j
  BY <1>2, ToSetOf
<1>4. CASE k = h
  <2>1. /\ \A i, j \in 1..Len(st) : st[i].entry = e /\ st[j].entry = e => i = j
        /\ e \notin ToSet(c) => \A i \in 1..Len(st) : st[i].entry # e
    BY <1>1, <1>3
  <2>2. /\ (\A i \in 1..Len(st) : st[i].entry # e) => At(loki[h] \o st, e) = At(loki[h], e)
        /\ Cardinality(At(loki[h] \o st, e)) <= Cardinality(At(loki[h], e)) + 1
    BY <1>1, <2>1, AtConcat DEF StoredRecords
  <2> QED  BY <1>1, <1>4, <2>1, <2>2 DEF Copies, At, c
<1>5. CASE k # h
  <2>1. Copies(k, e)' = Copies(k, e)
    BY <1>1, <1>5 DEF Copies, At
  <2>2. Cardinality(Copies(k, e)) \in Nat
    BY AtFinite DEF Copies, Ownership, TypeOK
  <2> QED  BY <2>1, <2>2
<1> QED  BY <1>4, <1>5

(* BoundedCopies is not inductive: the bound on an entry being posted is   *)
(* the number of attempts so far, and what was never posted has no copies. *)
Count(k, e) == Cardinality(Copies(k, e))

AttemptsCounted ==
    \A f \in Flushers :
        /\ taken[f] = <<>> => attempt[f] = 0 /\ verdict[f] = "none"
        /\ verdict[f] = "none" => attempt[f] < MaxAttempts
CopiesCounted ==
    \A k \in Streams, e \in Entries :
        /\ Count(k, e) <= MaxAttempts
        /\ e \notin InFlight \cup sent \cup failed => Count(k, e) = 0
        /\ \A f \in Flushers : e \in ToSet(Rest(taken[f])) => Count(k, e) = 0
        /\ \A f \in Flushers : verdict[f] = "none" /\ e \in ToSet(Chunk(taken[f]))
                                 => Count(k, e) <= attempt[f]
CopiesBounded == AttemptsCounted /\ CopiesCounted

LEMMA CountIsNat ==
    ASSUME TypeOK, NEW k \in Streams, NEW e
    PROVE  Count(k, e) \in Nat
  BY AtFinite DEF Count, Copies, TypeOK

LEMMA SameCopies ==
    ASSUME CopiesBounded, UNCHANGED <<taken, attempt, verdict, sent, failed, loki>>
    PROVE  CopiesBounded'
<1>1. InFlight' = InFlight
  BY DEF InFlight
<1>2. \A k \in Streams, e \in Entries : Count(k, e)' = Count(k, e)
  BY DEF Count, Copies, At
<1>3. AttemptsCounted'
  BY DEF CopiesBounded, AttemptsCounted
<1>4. CopiesCounted'
  BY <1>1, <1>2 DEF CopiesBounded, CopiesCounted
<1> QED  BY <1>3, <1>4 DEF CopiesBounded

(* What a flusher takes is split into the chunk at hand and the rest.      *)
LEMMA TakenSplit ==
    ASSUME Ownership
    PROVE  /\ \A f \in Flushers :
                /\ ToSet(taken[f]) = ToSet(Chunk(taken[f])) \cup ToSet(Rest(taken[f]))
                /\ ToSet(Chunk(taken[f])) \cap ToSet(Rest(taken[f])) = {}
                /\ ToSet(taken[f]) \subseteq InFlight
           /\ \A f, g \in Flushers : f # g => ToSet(taken[f]) \cap ToSet(taken[g]) = {}
<1>1. \A f \in Flushers : taken[f] \in Seq(Entries) /\ IsInjective(taken[f])
  BY DEF Ownership, TypeOK, EachEntryOnce
<1>2. \A f, g \in Flushers : f # g => ToSet(taken[f]) \cap ToSet(taken[g]) = {}
  BY DEF Ownership, EachEntryOnce, Flushers
<1>3. \A f \in Flushers : ToSet(taken[f]) \subseteq InFlight
  BY DEF InFlight
<1> QED  BY <1>1, <1>2, <1>3, ChunkAndRest

LEMMA PopCopies ==
    ASSUME Ownership, CopiesBounded, NEW f \in Flushers, NEW k \in Streams,
           FlushStream(f, k)
    PROVE  CopiesBounded'
<1>1. /\ taken[f] = <<>> /\ UNCHANGED <<attempt, verdict, sent, failed, loki>>
      /\ attempt \in [Flushers -> Nat]
  BY DEF FlushStream, Ownership, TypeOK
<1>2. /\ taken'[f] = buffer[k] /\ \A g \in Flushers \ {f} : taken'[g] = taken[g]
      /\ InFlight' = InFlight \cup ToSet(buffer[k])
  BY FlushSets
<1>3. attempt[f] = 0 /\ verdict[f] = "none"
  BY <1>1 DEF CopiesBounded, AttemptsCounted
<1>4. AttemptsCounted'
  BY <1>1, <1>2, <1>3 DEF CopiesBounded, AttemptsCounted
<1>5. /\ ToSet(buffer[k]) \cap (InFlight \cup sent \cup failed) = {}
      /\ ToSet(buffer[k]) = ToSet(Chunk(buffer[k])) \cup ToSet(Rest(buffer[k]))
      /\ ToSet(buffer[k]) \subseteq Entries
  <2>1. ToSet(buffer[k]) \subseteq InBuffers
    BY DEF InBuffers
  <2>2. buffer[k] \in Seq(Entries)
    BY DEF Ownership, TypeOK
  <2> QED  BY <2>1, <2>2, ChunkAndRest, ToSetOf DEF Ownership, EachEntryOnce, Held
<1>6. \A j \in Streams, e \in Entries : Count(j, e)' = Count(j, e)
  BY <1>1 DEF Count, Copies, At
<1>7. \A j \in Streams, e \in Entries : e \in ToSet(buffer[k]) => Count(j, e) = 0
  BY <1>5 DEF CopiesBounded, CopiesCounted
<1>8. ASSUME NEW j \in Streams, NEW e \in Entries
      PROVE  /\ Count(j, e)' <= MaxAttempts
             /\ e \notin InFlight' \cup sent' \cup failed' => Count(j, e)' = 0
    BY <1>1, <1>2, <1>6 DEF CopiesBounded, CopiesCounted
<1>9. ASSUME NEW j \in Streams, NEW e \in Entries, NEW g \in Flushers
      PROVE  /\ e \in ToSet(Rest(taken'[g])) => Count(j, e)' = 0
             /\ verdict'[g] = "none" /\ e \in ToSet(Chunk(taken'[g]))
                  => Count(j, e)' <= attempt'[g]
  <2>1. CASE g = f
    BY <1>1, <1>2, <1>3, <1>5, <1>6, <1>7, <2>1
  <2>2. CASE g # f
    <3>1. taken'[g] = taken[g] /\ verdict'[g] = verdict[g] /\ attempt'[g] = attempt[g]
      BY <1>1, <1>2, <2>2
    <3> QED  BY <1>6, <3>1 DEF CopiesBounded, CopiesCounted
  <2> QED  BY <2>1, <2>2
<1>10. CopiesCounted'
  BY <1>8, <1>9 DEF CopiesCounted
<1> QED  BY <1>4, <1>10 DEF CopiesBounded

(* An attempt, whatever its outcome: the entries of its chunk had as many  *)
(* copies as attempts at most, and have one more at most.                  *)
LEMMA PostCopies ==
    ASSUME Ownership, CopiesBounded, NEW f \in Flushers, Post(f)
    PROVE  CopiesBounded'
<1>1. /\ taken[f] # <<>> /\ verdict[f] = "none" /\ attempt[f] < MaxAttempts
      /\ UNCHANGED <<taken, sent, failed>>
      /\ Store(f) \/ loki' = loki
  BY DEF Post, PostAccepted, PostRejected, PostUnclear, Posting, PostVars,
     CopiesBounded, AttemptsCounted
<1>t. /\ attempt \in [Flushers -> Nat] /\ MaxAttempts \in Nat \ {0}
      /\ verdict \in [Flushers -> {"none", "ok", "fail"}]
  BY SinkAssumption DEF Ownership, TypeOK
<1>2. /\ \A g \in Flushers \ {f} : attempt'[g] = attempt[g] /\ verdict'[g] = verdict[g]
      /\ verdict'[f] = "none" => attempt'[f] = attempt[f] + 1 /\ attempt'[f] < MaxAttempts
  <2>1. CASE PostAccepted(f)
    BY <1>t, <2>1 DEF PostAccepted
  <2>2. CASE PostRejected(f)
    BY <1>t, <2>2 DEF PostRejected
  <2>3. CASE PostUnclear(f)
    BY <1>t, <2>3 DEF PostUnclear
  <2> QED  BY <2>1, <2>2, <2>3 DEF Post
<1>3. AttemptsCounted'
  BY <1>1, <1>2 DEF CopiesBounded, AttemptsCounted
<1> DEFINE c == ToSet(Chunk(taken[f]))
<1>4. ASSUME NEW k \in Streams, NEW e \in Entries
      PROVE  /\ Count(k, e) \in Nat /\ Count(k, e)' \in Nat
             /\ e \notin c => Count(k, e)' = Count(k, e)
             /\ Count(k, e)' <= Count(k, e) + 1
  <2>1. Count(k, e) \in Nat
    BY CountIsNat DEF Ownership
  <2>2. CASE loki' = loki
    BY <2>1, <2>2 DEF Count, Copies, At
  <2>3. CASE Store(f)
    <3>1. TypeOK'
      BY SinkTypeStep DEF Ownership, Next
    <3>2. Count(k, e)' \in Nat
      <4>1. loki'[k] \in Seq([entry : Entries, labels : LabelSets \cup {None}])
        BY <3>1 DEF TypeOK
      <4> QED  BY <4>1, AtFinite DEF Count, Copies, At
    <3> QED  BY <1>1, <2>1, <2>3, <3>2, StoreCopies DEF Count
  <2> QED  BY <1>1, <2>2, <2>3
<1>5. InFlight' = InFlight
  BY <1>1 DEF InFlight
<1>6. /\ c \subseteq InFlight
      /\ \A g \in Flushers : c \cap ToSet(Rest(taken[g])) = {}
      /\ \A g \in Flushers \ {f} : c \cap ToSet(Chunk(taken[g])) = {}
  BY TakenSplit
<1>7. \A k \in Streams, e \in c : e \in Entries => Count(k, e) <= attempt[f]
  BY <1>1 DEF CopiesBounded, CopiesCounted
<1> HIDE DEF c
<1>8. ASSUME NEW k \in Streams, NEW e \in Entries
      PROVE  /\ Count(k, e)' <= MaxAttempts
             /\ e \notin InFlight' \cup sent' \cup failed' => Count(k, e)' = 0
             /\ \A g \in Flushers : e \in ToSet(Rest(taken'[g])) => Count(k, e)' = 0
             /\ \A g \in Flushers : verdict'[g] = "none" /\ e \in ToSet(Chunk(taken'[g]))
                                      => Count(k, e)' <= attempt'[g]
  <2>1. CASE e \notin c
    <3>1. Count(k, e)' = Count(k, e)
      BY <1>4, <2>1
    <3>2. \A g \in Flushers \ {f} : verdict'[g] = verdict[g] /\ attempt'[g] = attempt[g]
      BY <1>2
    <3>3. e \notin ToSet(Chunk(taken'[f]))
      BY <1>1, <2>1 DEF c
    <3> QED  BY <1>1, <1>5, <3>1, <3>2, <3>3 DEF CopiesBounded, CopiesCounted
  <2>2. CASE e \in c
    <3>1. Count(k, e)' <= attempt[f] + 1
      BY <1>4, <1>7, <1>t, <2>2
    <3>2. Count(k, e)' <= MaxAttempts
      BY <1>1, <1>4, <1>t, <3>1
    <3>3. e \in InFlight' /\ \A g \in Flushers : e \notin ToSet(Rest(taken'[g]))
      BY <1>1, <1>5, <1>6, <2>2
    <3>4. \A g \in Flushers \ {f} : e \notin ToSet(Chunk(taken'[g]))
      BY <1>1, <1>6, <2>2
    <3> QED  BY <1>2, <3>1, <3>2, <3>3, <3>4
  <2> QED  BY <2>1, <2>2
<1>9. CopiesCounted'
  BY <1>8 DEF CopiesCounted
<1> QED  BY <1>3, <1>9 DEF CopiesBounded

LEMMA SettleCopies ==
    ASSUME Ownership, CopiesBounded, NEW f \in Flushers, Settle(f)
    PROVE  CopiesBounded'
<1> DEFINE c == Chunk(taken[f])
           r == Rest(taken[f])
<1>1. /\ taken'[f] = r /\ attempt'[f] = 0 /\ verdict'[f] = "none" /\ loki' = loki
      /\ \A g \in Flushers \ {f} : /\ taken'[g] = taken[g]
                                   /\ attempt'[g] = attempt[g] /\ verdict'[g] = verdict[g]
      /\ sent' \cup failed' = sent \cup failed \cup ToSet(c)
  BY DEF Settle, Ownership, TypeOK
<1>2. InFlight' = InFlight \ ToSet(c)
  BY SettleSets
<1>3. ToSet(r) = ToSet(Chunk(r)) \cup ToSet(Rest(r))
  BY ChunkAndRest DEF Ownership, TypeOK
<1> HIDE DEF c
<1>4. AttemptsCounted'
  BY <1>1, SinkAssumption DEF CopiesBounded, AttemptsCounted
<1>5. \A k \in Streams, e \in Entries : Count(k, e)' = Count(k, e)
  BY <1>1 DEF Count, Copies, At
<1>6. \A k \in Streams, e \in Entries : e \in ToSet(r) => Count(k, e) = 0
  BY DEF CopiesBounded, CopiesCounted
<1> HIDE DEF r
<1>7. ASSUME NEW k \in Streams, NEW e \in Entries
      PROVE  /\ Count(k, e)' <= MaxAttempts
             /\ e \notin InFlight' \cup sent' \cup failed' => Count(k, e)' = 0
  BY <1>1, <1>2, <1>5 DEF CopiesBounded, CopiesCounted
<1>8. ASSUME NEW k \in Streams, NEW e \in Entries, NEW g \in Flushers
      PROVE  /\ e \in ToSet(Rest(taken'[g])) => Count(k, e)' = 0
             /\ verdict'[g] = "none" /\ e \in ToSet(Chunk(taken'[g]))
                  => Count(k, e)' <= attempt'[g]
  <2>1. CASE g = f
    BY <1>1, <1>3, <1>5, <1>6, <2>1
  <2>2. CASE g # f
    <3>1. taken'[g] = taken[g] /\ verdict'[g] = verdict[g] /\ attempt'[g] = attempt[g]
      BY <1>1, <2>2
    <3> QED  BY <1>5, <3>1 DEF CopiesBounded, CopiesCounted
  <2> QED  BY <2>1, <2>2
<1>9. CopiesCounted'
  BY <1>7, <1>8 DEF CopiesCounted
<1> QED  BY <1>4, <1>9 DEF CopiesBounded

LEMMA CopiesStep == Ownership /\ CopiesBounded /\ [Next]_vars => CopiesBounded'
<1> SUFFICES ASSUME Ownership, CopiesBounded, [Next]_vars PROVE CopiesBounded'
  OBVIOUS
<1>1. ASSUME NEW b \in Batches, Lock(b) PROVE CopiesBounded'
  BY <1>1, SameCopies DEF Lock
<1>2. CASE AdmitEntry \/ ShedEntry
  BY <1>2, SameCopies DEF AdmitEntry, ShedEntry
<1>3. ASSUME NEW keys \in SUBSET Streams, Tick(keys) PROVE CopiesBounded'
  BY <1>3, SameCopies DEF Tick
<1>4. ASSUME NEW f \in Flushers, NEW k \in Streams, FlushStream(f, k)
      PROVE  CopiesBounded'
  BY <1>4, PopCopies
<1>5. ASSUME NEW f \in Flushers, Post(f) PROVE CopiesBounded'
  BY <1>5, PostCopies
<1>6. ASSUME NEW f \in Flushers, Settle(f) PROVE CopiesBounded'
  BY <1>6, SettleCopies
<1>7. CASE TickerReturn \/ StopClose \/ FlushAll \/ FlushDeadline \/ StopReturn
  BY <1>7, SameCopies DEF TickerReturn, StopClose, FlushAll, FlushDeadline, StopReturn
<1>8. CASE UNCHANGED vars
  BY <1>8, SameCopies DEF vars
<1> QED  BY <1>1, <1>2, <1>3, <1>4, <1>5, <1>6, <1>7, <1>8
         DEF Next, Enqueue, EnqueuePushRequest, Batches

LEMMA CopiesInit == Init => CopiesBounded
<1> SUFFICES ASSUME Init PROVE CopiesBounded
  OBVIOUS
<1>1. \A f \in Flushers : taken[f] = <<>> /\ attempt[f] = 0 /\ verdict[f] = "none"
  BY DEF Init
<1>2. MaxAttempts \in Nat \ {0}
  BY SinkAssumption
<1>3. AttemptsCounted
  BY <1>1, <1>2 DEF AttemptsCounted
<1>4. \A k \in Streams, e \in Entries : Count(k, e) = 0
  <2> TAKE k \in Streams, e \in Entries
  <2>1. loki[k] = <<>> /\ DOMAIN <<>> = {}
    BY DEF Init
  <2>2. Copies(k, e) = {}
    BY <2>1 DEF Copies, At
  <2> QED  BY <2>2, FS_EmptySet DEF Count
<1>5. CopiesCounted
  BY <1>1, <1>2, <1>4 DEF CopiesCounted
<1> QED  BY <1>3, <1>5 DEF CopiesBounded

LEMMA CopiesHold == Spec => []CopiesBounded
<1>1. Ownership /\ CopiesBounded /\ [Next]_vars => CopiesBounded'
  BY CopiesStep
<1> QED  BY <1>1, CopiesInit, OwnershipHolds, PTL DEF Spec

(* No entry is in Loki more often than postWithRetry may post its chunk.   *)
THEOREM SinkBoundsCopies == Spec => []BoundedCopies
<1>1. TypeOK /\ CopiesBounded => BoundedCopies
  <2> SUFFICES ASSUME TypeOK, CopiesBounded, NEW k \in Streams, NEW e \in StoredEntries(k)
               PROVE  Cardinality({i \in DOMAIN loki[k] : loki[k][i].entry = e}) <= MaxAttempts
    BY DEF BoundedCopies
  <2>1. e \in Entries
    <3>1. loki[k] \in StoredRecords
      BY DEF TypeOK, StoredRecords
    <3>2. PICK i \in DOMAIN loki[k] : e = loki[k][i].entry
      BY DEF StoredEntries
    <3>3. i \in 1..Len(loki[k])
      BY <3>1, LenProperties DEF StoredRecords
    <3>4. loki[k][i] \in [entry : Entries, labels : LabelSets \cup {None}]
      BY <3>1, <3>3, ElementOfSeq DEF StoredRecords
    <3> QED  BY <3>2, <3>4
  <2> QED  BY <2>1 DEF CopiesBounded, CopiesCounted, Count, Copies, At
<1> QED  BY <1>1, CopiesHold, SinkTypeCorrect, PTL

-----------------------------------------------------------------------------
(* Order: first copies                                                     *)

LEMMA LeastOf ==
    ASSUME NEW T \in SUBSET Nat, T # {}
    PROVE  \E x \in T : \A y \in T : x <= y
<1> DEFINE R == OpToRel(<, Nat)
<1>1. IsWellFoundedOn(R, Nat)
  BY NatLessThanWellFounded
<1>2. \A x, y \in Nat : <<y, x>> \in R <=> y < x
  BY DEF OpToRel
<1> HIDE DEF R
<1>3. PICK x \in T : \A y \in T : ~(<<y, x>> \in R)
  BY <1>1, WFMin
<1>4. ASSUME NEW y \in T PROVE x <= y
  <2>1. x \in Nat /\ y \in Nat
    OBVIOUS
  <2>2. ~(y < x)
    BY <1>2, <1>3, <2>1
  <2> QED  BY <2>1, <2>2
<1> QED  BY <1>4

(* A copy of d precedes every copy of e.                                   *)
StoredBefore(k, d, e) ==
    \E i \in 1..Len(loki[k]) :
        /\ loki[k][i].entry = d
        /\ \A j \in 1..i : loki[k][j].entry # e

LEMMA FirstIsFirst ==
    ASSUME TypeOK, NEW k \in Streams, NEW e \in StoredEntries(k)
    PROVE  /\ FirstStored(k, e) \in 1..Len(loki[k])
           /\ loki[k][FirstStored(k, e)].entry = e
           /\ \A j \in 1..(FirstStored(k, e) - 1) : loki[k][j].entry # e
<1> DEFINE First(i) == /\ loki[k][i].entry = e
                       /\ \A j \in 1..(i - 1) : loki[k][j].entry # e
<1>1. DOMAIN loki[k] = 1..Len(loki[k]) /\ Len(loki[k]) \in Nat
  BY LenProperties DEF TypeOK
<1> DEFINE T == {i \in 1..Len(loki[k]) : loki[k][i].entry = e}
<1>2. T \in SUBSET Nat /\ T # {}
  BY <1>1 DEF StoredEntries
<1>3. PICK x \in T : \A y \in T : x <= y
  BY <1>2, LeastOf
<1>4. \A j \in 1..(x - 1) : loki[k][j].entry # e
  <2> SUFFICES ASSUME NEW j \in 1..(x - 1), loki[k][j].entry = e PROVE FALSE
    OBVIOUS
  <2>1. x \in 1..Len(loki[k])
    OBVIOUS
  <2>2. j \in 1..Len(loki[k]) /\ ~(x <= j)
    BY <1>1, <2>1
  <2> QED  BY <1>3, <2>2
<1>5. x \in DOMAIN loki[k] /\ First(x)
  BY <1>1, <1>4
<1>6. FirstStored(k, e) = CHOOSE i \in DOMAIN loki[k] : First(i)
  BY DEF FirstStored
<1> HIDE DEF First
<1>7. FirstStored(k, e) \in DOMAIN loki[k] /\ First(FirstStored(k, e))
  BY <1>5, <1>6
<1> QED  BY <1>1, <1>7 DEF First

LEMMA BeforeMeansFirst ==
    ASSUME TypeOK, NEW k \in Streams, NEW d \in StoredEntries(k),
           NEW e \in StoredEntries(k), StoredBefore(k, d, e)
    PROVE  FirstStored(k, d) < FirstStored(k, e)
<1> DEFINE m == FirstStored(k, d)
           n == FirstStored(k, e)
           q == loki[k]
<1>1. /\ m \in 1..Len(q) /\ \A j \in 1..(m - 1) : q[j].entry # d
      /\ n \in 1..Len(q) /\ q[n].entry = e
  BY FirstIsFirst
<1>2. PICK i \in 1..Len(q) : q[i].entry = d /\ \A j \in 1..i : q[j].entry # e
  BY DEF StoredBefore
<1>3. Len(q) \in Nat
  BY LenProperties DEF TypeOK
<1> HIDE DEF m, n, q
<1>4. m <= i
  <2> SUFFICES ASSUME ~(m <= i) PROVE FALSE
    OBVIOUS
  <2>1. i \in 1..(m - 1)
    BY <1>1, <1>3
  <2> QED  BY <1>1, <1>2, <2>1
<1>5. i < n
  <2> SUFFICES ASSUME ~(i < n) PROVE FALSE
    OBVIOUS
  <2>1. n \in 1..i
    BY <1>1, <1>3
  <2> QED  BY <1>1, <1>2, <2>1
<1>6. m < n
  BY <1>1, <1>3, <1>4, <1>5
<1> QED  BY <1>6 DEF m, n

-----------------------------------------------------------------------------
(* The order of admission                                                  *)

Earlier(d, e) ==
    \E i, j \in 1..Len(admitted) : i < j /\ admitted[i] = d /\ admitted[j] = e
InOrder(s) == \A i, j \in 1..Len(s) : i < j => Earlier(s[i], s[j])

LEMMA EarlierFacts ==
    ASSUME Ownership, NEW d, NEW e, Earlier(d, e)
    PROVE  ~Earlier(e, d) /\ d # e /\ d \in ToSet(admitted) /\ e \in ToSet(admitted)
<1>1. /\ \A i, j \in 1..Len(admitted) : admitted[i] = admitted[j] => i = j
      /\ ToSet(admitted) = {admitted[i] : i \in 1..Len(admitted)}
      /\ Len(admitted) \in Nat
  BY ToSetOf, LenProperties DEF Ownership, TypeOK, EachEntryOnce
<1>2. PICK i, j \in 1..Len(admitted) : i < j /\ admitted[i] = d /\ admitted[j] = e
  BY DEF Earlier
<1>3. d \in ToSet(admitted) /\ e \in ToSet(admitted)
  BY <1>1, <1>2
<1>4. d # e
  BY <1>1, <1>2
<1>5. ~Earlier(e, d)
  <2> SUFFICES ASSUME NEW m \in 1..Len(admitted), NEW n \in 1..Len(admitted),
                      m < n, admitted[m] = e, admitted[n] = d
               PROVE  FALSE
    BY DEF Earlier
  <2>1. m = j /\ n = i
    BY <1>1, <1>2
  <2> QED  BY <1>1, <1>2, <2>1
<1> QED  BY <1>3, <1>4, <1>5

(* An entry admitted now comes after all the others, whose order stays.    *)
LEMMA EarlierGrows ==
    ASSUME Ownership, AdmitEntry, NEW x, x = Head(pending)
    PROVE  /\ \A d \in ToSet(admitted) : Earlier(d, x)'
           /\ \A d, e \in ToSet(admitted) : Earlier(d, e)' <=> Earlier(d, e)
<1> DEFINE m == Len(admitted)
<1>1. admitted \in Seq(Entries) /\ x \in Entries /\ admitted' = Append(admitted, x)
  BY HeadOfPending DEF AdmitEntry, Ownership, TypeOK
<1>2. x \notin ToSet(admitted)
  BY AdmitSets
<1>3. /\ Len(admitted') = m + 1 /\ admitted'[m + 1] = x /\ m \in Nat
      /\ \A i \in 1..m : admitted'[i] = admitted[i]
      /\ ToSet(admitted) = {admitted[i] : i \in 1..m}
  BY <1>1, AppendProperties, LenProperties, ToSetOf
<1> HIDE DEF m
<1>4. ASSUME NEW d \in ToSet(admitted) PROVE Earlier(d, x)'
  <2>1. PICK i \in 1..m : admitted[i] = d
    BY <1>3
  <2>2. i \in 1..(m + 1) /\ m + 1 \in 1..(m + 1) /\ i < m + 1
    BY <1>3
  <2> QED  BY <1>3, <2>1, <2>2 DEF Earlier
<1>5. ASSUME NEW d \in ToSet(admitted), NEW e \in ToSet(admitted), Earlier(d, e)
      PROVE  Earlier(d, e)'
  <2>1. PICK i, j \in 1..m : i < j /\ admitted[i] = d /\ admitted[j] = e
    BY <1>5 DEF Earlier, m
  <2>2. i \in 1..(m + 1) /\ j \in 1..(m + 1)
    BY <1>3
  <2> QED  BY <1>3, <2>1, <2>2 DEF Earlier
<1>6. ASSUME NEW d \in ToSet(admitted), NEW e \in ToSet(admitted), Earlier(d, e)'
      PROVE  Earlier(d, e)
  <2>1. PICK i, j \in 1..(m + 1) : i < j /\ admitted'[i] = d /\ admitted'[j] = e
    BY <1>3, <1>6 DEF Earlier
  <2>2. i # m + 1 /\ j # m + 1
    BY <1>2, <1>3, <2>1
  <2>3. i \in 1..m /\ j \in 1..m
    BY <1>3, <2>2
  <2> QED  BY <1>3, <2>1, <2>3 DEF Earlier, m
<1> QED  BY <1>4, <1>5, <1>6

-----------------------------------------------------------------------------
(* The line                                                                *)

(* StoredInOrder is not inductive: the entries of a stream stand in line,  *)
(* the settled ones first, then those of the ticker's chunk, of the rest   *)
(* it popped, and of the buffer; a chunk is stored as a whole or not.      *)
Line == taken["ticker"]
Stopperless == due["stopper"] = {} /\ taken["stopper"] = <<>>
LineOrdered ==
    /\ \A k \in Streams : InOrder(buffer[k])
    /\ InOrder(Line)
    /\ \A d, e \in ToSet(Line) : Keys[d] = Keys[e]
    /\ \A e \in ToSet(Line), d \in InBuffers : Keys[e] = Keys[d] => Earlier(e, d)
    /\ \A e \in sent \cup failed, d \in Held : Keys[e] = Keys[d] => Earlier(e, d)
LokiOrdered ==
    /\ \A k \in Streams : \A e \in StoredEntries(k) : Keys[e] = k
    /\ \A k \in Streams : \A d, e \in StoredEntries(k) :
         Earlier(d, e) => StoredBefore(k, d, e)
    /\ \A k \in Streams : \A d, e \in ToSet(Chunk(Line)) :
         d \in StoredEntries(k) => e \in StoredEntries(k)
Ordered == Stopperless /\ LineOrdered /\ LokiOrdered
OrderedSink == phase = "running" => Ordered

(* What is in Loki was taken from the line, or is at its head.             *)
LEMMA StoredIsPast ==
    ASSUME Ownership, CopiesBounded, NEW k \in Streams, NEW e \in StoredEntries(k)
    PROVE  /\ e \in Entries /\ e \in InFlight \cup sent \cup failed
           /\ e \notin ToSet(Rest(Line))
<1>1. /\ loki[k] \in StoredRecords /\ DOMAIN loki[k] = 1..Len(loki[k])
  BY LenProperties DEF Ownership, TypeOK, StoredRecords
<1>2. PICK i \in DOMAIN loki[k] : e = loki[k][i].entry
  BY DEF StoredEntries
<1>3. e \in Entries
  <2>1. loki[k][i] \in [entry : Entries, labels : LabelSets \cup {None}]
    BY <1>1, <1>2, ElementOfSeq DEF StoredRecords
  <2> QED  BY <1>2, <2>1
<1>4. Count(k, e) # 0
  <2>1. IsFiniteSet(Copies(k, e)) /\ Copies(k, e) # {}
    BY <1>1, <1>2, AtFinite DEF Copies, At, StoredRecords
  <2> QED  BY <2>1, FS_EmptySet DEF Count
<1> QED  BY <1>3, <1>4 DEF CopiesBounded, CopiesCounted, Flushers, Line

LEMMA SameOrder ==
    ASSUME OrderedSink, UNCHANGED <<admitted, buffer, taken, sent, failed, loki>>,
           phase' = "running" => phase = "running" /\ due'["stopper"] = due["stopper"]
    PROVE  OrderedSink'
<1> SUFFICES ASSUME phase' = "running" PROVE Ordered'
  BY DEF OrderedSink
<1>1. Ordered
  BY DEF OrderedSink
<1>2. Stopperless'
  BY <1>1 DEF Ordered, Stopperless
<1>3. InBuffers' = InBuffers /\ Held' = Held
  BY SameHeld
<1>4. LineOrdered'
  BY <1>1, <1>3 DEF Ordered, LineOrdered, InOrder, Earlier, Line
<1>5. \A k \in Streams : StoredEntries(k)' = StoredEntries(k)
  BY DEF StoredEntries
<1>6. \A k \in Streams : \A d, e : StoredBefore(k, d, e)' <=> StoredBefore(k, d, e)
  BY DEF StoredBefore
<1>7. \A d, e : Earlier(d, e)' <=> Earlier(d, e)
  BY DEF Earlier
<1>8. Line' = Line
  BY DEF Line
<1>9. LokiOrdered'
  BY <1>1, <1>5, <1>6, <1>7, <1>8 DEF Ordered, LokiOrdered
<1> QED  BY <1>2, <1>4, <1>9 DEF Ordered

LEMMA TickerAlone ==
    ASSUME Stopperless
    PROVE  InFlight = ToSet(Line)
<1>1. ToSet(taken["stopper"]) = {}
  BY ToSetEmpty DEF Stopperless
<1> QED  BY <1>1 DEF InFlight, Flushers, Line

(* A stream that is popped becomes the line.                               *)
LEMMA PopOrder ==
    ASSUME Ownership, CopiesBounded, Ordered, NEW f \in Flushers,
           NEW k \in Streams, FlushStream(f, k)
    PROVE  Ordered'
<1>1. /\ f = "ticker" /\ UNCHANGED <<admitted, sent, failed, loki>>
      /\ due'["stopper"] = due["stopper"] /\ Line = <<>>
  BY DEF FlushStream, Ownership, TypeOK, Ordered, Stopperless, Flushers, Line
<1>2. /\ InBuffers' = InBuffers \ ToSet(buffer[k])
      /\ Held' = Held
      /\ \A j \in Streams : buffer'[j] \in {buffer[j], <<>>}
      /\ Line' = buffer[k] /\ taken'["stopper"] = taken["stopper"]
  BY <1>1, FlushSets DEF Line, Flushers
<1>3. Stopperless'
  BY <1>1, <1>2 DEF Ordered, Stopperless
<1>4. \A d, e : Earlier(d, e)' <=> Earlier(d, e)
  BY <1>1 DEF Earlier
<1>5. \A s : InOrder(s)' <=> InOrder(s)
  BY <1>4 DEF InOrder
<1>6. \A j \in Streams : InOrder(buffer[j])'
  <2> TAKE j \in Streams
  <2>1. InOrder(buffer[j])
    BY DEF Ordered, LineOrdered
  <2>2. InOrder(<<>>)
    BY DEF InOrder
  <2>3. InOrder(buffer[j])' <=> \A m, n \in 1..Len(buffer'[j]) :
                                  m < n => Earlier(buffer'[j][m], buffer'[j][n])
    BY <1>4 DEF InOrder
  <2> QED  BY <1>2, <2>1, <2>2, <2>3 DEF InOrder
<1>7. InOrder(Line)'
  <2>1. InOrder(buffer[k])
    BY DEF Ordered, LineOrdered
  <2> QED  BY <1>2, <1>4, <2>1 DEF InOrder
<1>8. \A d, e \in ToSet(Line') : Keys[d] = k
  BY <1>2 DEF Ownership, BufferedByKey
<1>9. \A d \in InBuffers' : Keys[d] # k
  BY <1>2 DEF InBuffers, Ownership, BufferedByKey
<1>10. \A e \in sent' \cup failed', d \in Held' : Keys[e] = Keys[d] => Earlier(e, d)'
  BY <1>1, <1>2, <1>4 DEF Ordered, LineOrdered
<1>11. LineOrdered'
  BY <1>6, <1>7, <1>8, <1>9, <1>10 DEF LineOrdered
<1>12. \A j \in Streams : StoredEntries(j)' = StoredEntries(j)
  BY <1>1 DEF StoredEntries
<1>13. ASSUME NEW j \in Streams, NEW d \in ToSet(Chunk(Line')) PROVE d \notin StoredEntries(j)
  <2>1. buffer[k] \in Seq(Entries)
    BY DEF Ownership, TypeOK
  <2>2. d \in ToSet(buffer[k])
    BY <1>2, <2>1, ChunkAndRest
  <2>3. d \in InBuffers
    BY <2>2 DEF InBuffers
  <2>4. d \notin InFlight \cup sent \cup failed
    BY <2>3 DEF Ownership, EachEntryOnce, Held
  <2> QED  BY <2>4, StoredIsPast
<1>14. \A j \in Streams : \A d, e : StoredBefore(j, d, e)' <=> StoredBefore(j, d, e)
  BY <1>1 DEF StoredBefore
<1>15. LokiOrdered'
  BY <1>4, <1>12, <1>13, <1>14 DEF Ordered, LokiOrdered
<1> QED  BY <1>3, <1>11, <1>15 DEF Ordered

(* The order of a sequence is the order of its parts.                      *)
LEMMA SplitOrder ==
    ASSUME NEW s \in Seq(Entries), InOrder(s)
    PROVE  /\ InOrder(Chunk(s)) /\ InOrder(Rest(s))
           /\ \A e \in ToSet(Chunk(s)), d \in ToSet(Rest(s)) : Earlier(e, d)
<1> DEFINE n == ChunkLen(s)
           c == Chunk(s)
           r == Rest(s)
<1>1. /\ n \in Nat /\ n <= Len(s) /\ Len(s) \in Nat
      /\ c \in Seq(Entries) /\ Len(c) = n /\ \A i \in 1..n : c[i] = s[i]
      /\ r \in Seq(Entries) /\ Len(r) = Len(s) - n
      /\ \A i \in 1..(Len(s) - n) : r[i] = s[n + i]
  BY ChunkSeq
<1> HIDE DEF n, c, r
<1>2. \A i, j \in 1..Len(s) : i < j => Earlier(s[i], s[j])
  BY DEF InOrder
<1>3. InOrder(c)
  BY <1>1, <1>2 DEF InOrder
<1>4. InOrder(r)
  <2> SUFFICES ASSUME NEW i \in 1..Len(r), NEW j \in 1..Len(r), i < j
               PROVE  Earlier(r[i], r[j])
    BY DEF InOrder
  <2>1. n + i \in 1..Len(s) /\ n + j \in 1..Len(s) /\ n + i < n + j
    BY <1>1
  <2>2. Earlier(s[n + i], s[n + j])
    BY <1>2, <2>1
  <2> QED  BY <1>1, <2>2
<1>5. ASSUME NEW e \in ToSet(c), NEW d \in ToSet(r) PROVE Earlier(e, d)
  <2>1. PICK i \in 1..Len(c) : e = c[i]
    BY <1>1, ToSetOf
  <2>2. PICK j \in 1..Len(r) : d = r[j]
    BY <1>1, ToSetOf
  <2>3. i \in 1..Len(s) /\ n + j \in 1..Len(s) /\ i < n + j
    BY <1>1
  <2>4. Earlier(s[i], s[n + j])
    BY <1>2, <2>3
  <2> QED  BY <1>1, <2>1, <2>2, <2>4
<1> QED  BY <1>3, <1>4, <1>5 DEF c, r

(* The head of the line is settled, before the rest and the buffers.       *)
LEMMA SettleOrder ==
    ASSUME Ownership, CopiesBounded, Ordered, NEW f \in Flushers, Settle(f)
    PROVE  Ordered'
<1> DEFINE c == ToSet(Chunk(Line))
           r == ToSet(Rest(Line))
<1>1. f = "ticker"
  BY DEF Settle, Ordered, Stopperless, CopiesBounded, AttemptsCounted, Flushers
<1>2. /\ UNCHANGED <<admitted, buffer, due, loki>>
      /\ Line \in Seq(Entries) /\ Line' = Rest(Line)
      /\ taken'["stopper"] = taken["stopper"]
      /\ sent' \cup failed' = sent \cup failed \cup c
  BY <1>1 DEF Settle, Ownership, TypeOK, Line, Flushers
<1>3. Stopperless'
  BY <1>2 DEF Ordered, Stopperless
<1>4. InFlight = ToSet(Line) /\ InFlight' = r
  BY <1>2, <1>3, TickerAlone DEF Ordered, InFlight, Flushers, Line, Stopperless, ToSet
<1>5. InBuffers' = InBuffers
  BY <1>2 DEF InBuffers
<1>6. ToSet(Line) = c \cup r
  BY <1>2, ChunkAndRest
<1>7. \A d, e : Earlier(d, e)' <=> Earlier(d, e)
  BY <1>2 DEF Earlier
<1>8. \A s : InOrder(s)' <=> InOrder(s)
  BY <1>7 DEF InOrder
<1>9. InOrder(Rest(Line)) /\ \A e \in c, d \in r : Earlier(e, d)
  BY <1>2, SplitOrder DEF Ordered, LineOrdered
<1> HIDE DEF c, r
<1>10. \A k \in Streams : InOrder(buffer[k])'
  BY <1>2, <1>8 DEF Ordered, LineOrdered, InOrder
<1>11. InOrder(Line)'
  BY <1>2, <1>7, <1>9 DEF InOrder
<1>12. \A d, e \in ToSet(Line') : Keys[d] = Keys[e]
  BY <1>2, <1>6 DEF Ordered, LineOrdered, r
<1>13. \A e \in ToSet(Line'), d \in InBuffers' : Keys[e] = Keys[d] => Earlier(e, d)'
  BY <1>2, <1>5, <1>6, <1>7 DEF Ordered, LineOrdered, r
<1>14. ASSUME NEW e \in sent' \cup failed', NEW d \in Held', Keys[e] = Keys[d]
       PROVE  Earlier(e, d)
  <2>1. d \in InBuffers \cup r
    BY <1>4, <1>5 DEF Held
  <2>2. d \in Held
    BY <1>4, <1>6, <2>1 DEF Held
  <2>3. CASE e \in sent \cup failed
    BY <1>14, <2>2, <2>3 DEF Ordered, LineOrdered
  <2>4. CASE e \in c
    BY <1>6, <1>9, <1>14, <2>1, <2>4 DEF Ordered, LineOrdered
  <2> QED  BY <1>2, <2>3, <2>4
<1>15. LineOrdered'
  BY <1>7, <1>10, <1>11, <1>12, <1>13, <1>14 DEF LineOrdered
<1>16. \A k \in Streams : StoredEntries(k)' = StoredEntries(k)
  BY <1>2 DEF StoredEntries
<1>17. \A k \in Streams : \A d, e : StoredBefore(k, d, e)' <=> StoredBefore(k, d, e)
  BY <1>2 DEF StoredBefore
<1>18. ASSUME NEW k \in Streams, NEW d \in ToSet(Chunk(Line')) PROVE d \notin StoredEntries(k)
  <2>1. Rest(Line) \in Seq(Entries)
    BY <1>2, ChunkAndRest
  <2>2. d \in ToSet(Rest(Line))
    BY <1>2, <2>1, ChunkAndRest
  <2> QED  BY <2>2, StoredIsPast
<1>19. LokiOrdered'
  BY <1>7, <1>16, <1>17, <1>18 DEF Ordered, LokiOrdered
<1> QED  BY <1>3, <1>15, <1>19 DEF Ordered

(* A new entry stands at the end of its stream's line.                     *)
LEMMA AdmitOrder ==
    ASSUME Ownership, CopiesBounded, Ordered, AdmitEntry
    PROVE  Ordered'
<1> PICK x : x = Head(pending)
  OBVIOUS
<1> DEFINE h == Keys[x]
<1>1. /\ UNCHANGED <<taken, due, sent, failed, loki>> /\ h \in Streams /\ x \in Entries
      /\ buffer'[h] = Append(buffer[h], x) /\ buffer[h] \in Seq(Entries)
      /\ \A k \in Streams \ {h} : buffer'[k] = buffer[k]
  BY HeadOfPending DEF AdmitEntry, Ownership, TypeOK
<1>2. /\ InBuffers' = InBuffers \cup {x} /\ InFlight' = InFlight
      /\ Held' = Held \cup {x} /\ x \notin ToSet(admitted)
  BY AdmitSets
<1>3. /\ \A d \in ToSet(admitted) : Earlier(d, x)'
      /\ \A d, e \in ToSet(admitted) : Earlier(d, e)' <=> Earlier(d, e)
  BY EarlierGrows
<1>4. /\ InBuffers \subseteq ToSet(admitted) /\ InFlight \subseteq ToSet(admitted)
      /\ Held \subseteq ToSet(admitted) /\ sent \cup failed \subseteq ToSet(admitted)
  BY DEF Ownership, EachEntryOnce, Held
<1>5. Stopperless' /\ Line' = Line /\ ToSet(Line) \subseteq ToSet(admitted)
  BY <1>1, <1>4, TickerAlone DEF Ordered, Stopperless, Line
<1> HIDE DEF h
<1> DEFINE E(d, e) == \E i, j \in 1..Len(admitted') :
                        i < j /\ admitted'[i] = d /\ admitted'[j] = e
<1>6. /\ \A d \in ToSet(admitted) : E(d, x)
      /\ \A d, e \in ToSet(admitted) : E(d, e) <=> Earlier(d, e)
  BY <1>3 DEF Earlier
<1>7. \A d, e : Earlier(d, e)' <=> E(d, e)
  BY DEF Earlier
<1> HIDE DEF E
<1>8. ASSUME NEW s \in Seq(Entries), ToSet(s) \subseteq ToSet(admitted), InOrder(s)
      PROVE  \A i, j \in 1..Len(s) : i < j => E(s[i], s[j])
  <2>1. \A i \in 1..Len(s) : s[i] \in ToSet(admitted)
    BY <1>8, ToSetOf
  <2> QED  BY <1>6, <1>8, <2>1 DEF InOrder
<1>9. ASSUME NEW k \in Streams
      PROVE  \A i, j \in 1..Len(buffer'[k]) : i < j => E(buffer'[k][i], buffer'[k][j])
  <2>1. /\ buffer[k] \in Seq(Entries) /\ ToSet(buffer[k]) \subseteq ToSet(admitted)
        /\ InOrder(buffer[k])
    BY <1>4 DEF Ownership, TypeOK, InBuffers, Ordered, LineOrdered
  <2>2. \A i, j \in 1..Len(buffer[k]) : i < j => E(buffer[k][i], buffer[k][j])
    BY <1>8, <2>1
  <2>3. CASE k # h
    BY <1>1, <2>2, <2>3
  <2>4. CASE k = h
    <3>1. PICK s \in Seq(Entries) : s = buffer[h]
      BY <1>1
    <3>2. /\ Len(Append(s, x)) = Len(s) + 1 /\ Append(s, x)[Len(s) + 1] = x
          /\ \A i \in 1..Len(s) : Append(s, x)[i] = s[i] /\ s[i] \in ToSet(admitted)
          /\ Len(s) \in Nat
      BY <1>1, <2>1, <2>4, <3>1, AppendProperties, LenProperties, ToSetOf
    <3>3. ASSUME NEW i \in 1..(Len(s) + 1), NEW j \in 1..(Len(s) + 1), i < j
          PROVE  E(Append(s, x)[i], Append(s, x)[j])
      <4>1. i \in 1..Len(s)
        BY <3>2, <3>3
      <4>2. CASE j = Len(s) + 1
        BY <1>6, <3>2, <4>1, <4>2
      <4>3. CASE j # Len(s) + 1
        <5>1. j \in 1..Len(s)
          BY <3>2, <4>3
        <5>2. E(s[i], s[j])
          BY <2>2, <2>4, <3>1, <3>3, <4>1, <5>1
        <5> QED  BY <3>2, <4>1, <5>1, <5>2
      <4> QED  BY <4>2, <4>3
    <3>4. \A i, j \in 1..(Len(s) + 1) : i < j => E(Append(s, x)[i], Append(s, x)[j])
      BY <3>3
    <3>5. buffer'[k] = Append(s, x) /\ Len(buffer'[k]) = Len(s) + 1
      BY <1>1, <2>4, <3>1, <3>2
    <3> QED  BY <3>4, <3>5
  <2> QED  BY <2>3, <2>4
<1>10. \A i, j \in 1..Len(Line) : i < j => E(Line[i], Line[j])
  <2>1. Line \in Seq(Entries) /\ InOrder(Line)
    BY DEF Ownership, TypeOK, Line, Flushers, Ordered, LineOrdered
  <2> QED  BY <1>5, <1>8, <2>1
<1>11. \A d, e \in ToSet(Line) : Keys[d] = Keys[e]
  BY DEF Ordered, LineOrdered
<1>12. \A e \in ToSet(Line), d \in InBuffers' : Keys[e] = Keys[d] => E(e, d)
  BY <1>2, <1>4, <1>5, <1>6 DEF Ordered, LineOrdered
<1>13. \A e \in sent \cup failed, d \in Held' : Keys[e] = Keys[d] => E(e, d)
  BY <1>2, <1>4, <1>6 DEF Ordered, LineOrdered
<1>14. LineOrdered'
  <2>1. \A k \in Streams : InOrder(buffer[k])'
    BY <1>7, <1>9 DEF InOrder
  <2>2. InOrder(Line)'
    BY <1>5, <1>7, <1>10 DEF InOrder
  <2> QED  BY <1>1, <1>5, <1>7, <1>11, <1>12, <1>13, <2>1, <2>2 DEF LineOrdered
<1>15. \A k \in Streams : /\ StoredEntries(k)' = StoredEntries(k)
                          /\ StoredEntries(k) \subseteq ToSet(admitted)
  <2>1. \A k \in Streams : StoredEntries(k)' = StoredEntries(k)
    BY <1>1 DEF StoredEntries
  <2> QED  BY <1>4, <2>1, StoredIsPast
<1>16. \A k \in Streams : \A d, e : StoredBefore(k, d, e)' <=> StoredBefore(k, d, e)
  BY <1>1 DEF StoredBefore
<1>17. LokiOrdered'
  BY <1>5, <1>6, <1>7, <1>15, <1>16 DEF Ordered, LokiOrdered
<1> QED  BY <1>5, <1>14, <1>17 DEF Ordered

(* Loki stores the head of the line: all of it, after what it has, and     *)
(* what it has of that chunk or of earlier ones keeps its place.           *)
LEMMA StoreOrder ==
    ASSUME Ownership, CopiesBounded, Ordered, Line # <<>>, Store("ticker"),
           UNCHANGED <<admitted, taken>>
    PROVE  LokiOrdered'
<1> DEFINE c == Chunk(Line)
<1>1. PICK h \in Streams, st \in StoredRecords :
        /\ h = Keys[Head(Line)] /\ loki'[h] = loki[h] \o st
        /\ loki[h] \in StoredRecords
        /\ \A j \in Streams \ {h} : loki'[j] = loki[j]
        /\ Len(st) = Len(c)
        /\ \A i \in 1..Len(st) : st[i].entry = c[i]
  BY StoreShape DEF Ownership, Flushers, Line
<1>2. /\ Line \in Seq(Entries) /\ IsInjective(Line) /\ InOrder(Line)
      /\ InFlight = ToSet(Line)
  BY TickerAlone DEF Ownership, TypeOK, EachEntryOnce, Flushers, Ordered, LineOrdered, Line
<1>3. /\ c \in Seq(Entries) /\ IsInjective(c) /\ InOrder(c)
      /\ ToSet(Line) = ToSet(c) \cup ToSet(Rest(Line))
  BY <1>2, ChunkAndRest, SplitOrder
<1>4. \A e \in ToSet(c) : Keys[e] = h
  <2>1. Head(Line) \in ToSet(Line)
    BY <1>2, HeadTailDistinct
  <2> QED  BY <1>1, <1>3, <2>1 DEF Ordered, LineOrdered
<1> HIDE DEF c
<1>5. /\ ToSet(c) = {c[i] : i \in 1..Len(c)} /\ Len(c) \in Nat
      /\ \A i, j \in 1..Len(c) : c[i] = c[j] => i = j
  BY <1>3, ToSetOf, LenProperties
<1> DEFINE q == loki[h]
           u == loki'[h]
<1>6. /\ Len(q) \in Nat /\ Len(u) = Len(q) + Len(c)
      /\ \A i \in 1..Len(q) : i \in 1..Len(u) /\ u[i] = q[i]
      /\ \A i \in 1..Len(c) : Len(q) + i \in 1..Len(u) /\ u[Len(q) + i].entry = c[i]
  <2>1. /\ Len(q) \in Nat /\ Len(st) \in Nat /\ Len(u) = Len(q) + Len(st)
        /\ \A i \in 1..Len(u) : u[i] = IF i <= Len(q) THEN q[i] ELSE st[i - Len(q)]
    <3>1. PICK T : StoredRecords = Seq(T)
      BY DEF StoredRecords
    <3>2. q \in Seq(T) /\ st \in Seq(T) /\ u = q \o st
      BY <1>1, <3>1
    <3> HIDE DEF q, u
    <3> QED  BY <3>2, LenProperties, ConcatProperties
  <2> HIDE DEF q, u
  <2>2. ASSUME NEW i \in 1..Len(c)
        PROVE  Len(q) + i \in 1..Len(u) /\ u[Len(q) + i].entry = c[i]
    <3>1. Len(q) + i \in 1..Len(u) /\ ~(Len(q) + i <= Len(q)) /\ (Len(q) + i) - Len(q) = i
      BY <1>1, <2>1
    <3> QED  BY <1>1, <2>1, <3>1
  <2> QED  BY <1>1, <2>1, <2>2
<1>7. StoredEntries(h)' = StoredEntries(h) \cup ToSet(c)
  <2>1. EntriesOf(loki[h] \o st) = EntriesOf(loki[h]) \cup EntriesOf(st)
    BY <1>1, StoredOfConcat DEF StoredRecords
  <2>2. EntriesOf(st) = ToSet(c)
    <3>1. DOMAIN st = 1..Len(c)
      BY <1>1, LenProperties DEF StoredRecords
    <3>2. \A i \in 1..Len(c) : st[i].entry = c[i]
      BY <1>1
    <3>3. {st[i].entry : i \in 1..Len(c)} = {c[i] : i \in 1..Len(c)}
      BY <3>2
    <3> QED  BY <1>5, <3>1, <3>3 DEF EntriesOf
  <2>3. StoredEntries(h)' = EntriesOf(loki'[h]) /\ StoredEntries(h) = EntriesOf(loki[h])
    BY DEF StoredEntries, EntriesOf
  <2> QED  BY <1>1, <2>1, <2>2, <2>3
<1>8. \A j \in Streams \ {h} : StoredEntries(j)' = StoredEntries(j)
  BY <1>1 DEF StoredEntries
<1>9. \A e : e \notin StoredEntries(h) => \A i \in 1..Len(q) : q[i].entry # e
  <2>1. DOMAIN q = 1..Len(q)
    BY <1>1, LenProperties DEF StoredRecords
  <2> QED  BY <2>1 DEF StoredEntries
<1> DEFINE B(d, e) == \E i \in 1..Len(u) : /\ u[i].entry = d
                                           /\ \A j \in 1..i : u[j].entry # e
<1>10. ASSUME NEW d \in StoredEntries(h)', NEW e \in StoredEntries(h)', Earlier(d, e)
       PROVE  B(d, e)
  <2>1. CASE d \in StoredEntries(h) /\ e \in StoredEntries(h)
    <3>1. PICK i \in 1..Len(q) : q[i].entry = d /\ \A j \in 1..i : q[j].entry # e
      BY <1>10, <2>1 DEF Ordered, LokiOrdered, StoredBefore
    <3>2. \A j \in 1..i : j \in 1..Len(q)
      BY <1>6
    <3> HIDE DEF q, u
    <3> QED  BY <1>6, <3>1, <3>2
  <2>2. CASE d \in StoredEntries(h) /\ e \notin StoredEntries(h)
    <3>1. PICK i \in 1..Len(q) : q[i].entry = d
      <4>1. DOMAIN q = 1..Len(q)
        BY <1>1, LenProperties DEF StoredRecords
      <4> QED  BY <2>2, <4>1 DEF StoredEntries
    <3>2. \A j \in 1..i : j \in 1..Len(q) /\ q[j].entry # e
      BY <1>6, <1>9, <2>2
    <3> HIDE DEF q, u
    <3> QED  BY <1>6, <3>1, <3>2
  <2>3. CASE d \notin StoredEntries(h) /\ e \in StoredEntries(h)
    <3>1. d \in ToSet(c)
      BY <1>7, <1>10, <2>3
    <3>2. e \notin ToSet(c)
      BY <2>3, <3>1 DEF Ordered, LokiOrdered, c
    <3>3. e \in sent \cup failed
      BY <1>2, <1>3, <2>3, <3>2, StoredIsPast
    <3>4. d \in Held /\ Keys[d] = Keys[e]
      BY <1>2, <1>3, <1>4, <2>3, <3>1 DEF Held, Ordered, LokiOrdered
    <3>5. Earlier(e, d)
      BY <3>3, <3>4 DEF Ordered, LineOrdered
    <3> QED  BY <1>10, <3>5, EarlierFacts
  <2>4. CASE d \notin StoredEntries(h) /\ e \notin StoredEntries(h)
    <3>1. PICK m \in 1..Len(c), n \in 1..Len(c) : d = c[m] /\ e = c[n]
      BY <1>5, <1>7, <1>10, <2>4
    <3>2. ~Earlier(e, d) /\ d # e
      BY <1>10, EarlierFacts
    <3>3. m < n
      <4>1. ~(n < m)
        BY <1>3, <3>1, <3>2 DEF InOrder
      <4> QED  BY <1>5, <3>1, <3>2, <4>1
    <3>4. ASSUME NEW j \in 1..(Len(q) + m) PROVE u[j].entry # e
      <4>1. CASE j <= Len(q)
        <5>1. j \in 1..Len(q) /\ q[j].entry # e
          BY <1>6, <1>9, <2>4, <4>1
        <5> HIDE DEF q, u
        <5> QED  BY <1>6, <5>1
      <4>2. CASE ~(j <= Len(q))
        <5> PICK i \in 1..Len(c) : j = Len(q) + i /\ i < n
          <6> HIDE DEF q, u
          <6>1. j - Len(q) \in 1..Len(c) /\ j = Len(q) + (j - Len(q)) /\ j - Len(q) < n
            BY <1>5, <1>6, <3>3, <4>2
          <6> QED  BY <6>1
        <5> HIDE DEF q, u
        <5>1. u[j].entry = c[i] /\ c[i] # c[n]
          BY <1>5, <1>6
        <5> QED  BY <3>1, <5>1
      <4> QED  BY <4>1, <4>2
    <3> HIDE DEF q, u
    <3>5. Len(q) + m \in 1..Len(u) /\ u[Len(q) + m].entry = d
      BY <1>6, <3>1
    <3> QED  BY <3>4, <3>5
  <2> QED  BY <2>1, <2>2, <2>3, <2>4
<1>11. \A d, e : /\ StoredBefore(h, d, e)' <=> B(d, e)
                 /\ Earlier(d, e)' <=> Earlier(d, e)
                 /\ \A k \in Streams \ {h} : StoredBefore(k, d, e)' <=> StoredBefore(k, d, e)
  <2>1. \A d, e : StoredBefore(h, d, e)' <=> B(d, e)
    BY DEF StoredBefore
  <2>2. \A d, e : Earlier(d, e)' <=> Earlier(d, e)
    BY DEF Earlier
  <2>3. \A d, e : \A k \in Streams \ {h} : StoredBefore(k, d, e)' <=> StoredBefore(k, d, e)
    BY <1>1, SMTT(20) DEF StoredBefore
  <2> HIDE DEF B
  <2> QED  BY <2>1, <2>2, <2>3
<1> HIDE DEF B, q, u
<1>12. \A k \in Streams : \A d, e \in StoredEntries(k)' :
         Earlier(d, e)' => StoredBefore(k, d, e)'
  <2> TAKE k \in Streams
  <2>1. CASE k = h
    BY <1>10, <1>11, <2>1
  <2>2. CASE k # h
    BY <1>8, <1>11, <2>2 DEF Ordered, LokiOrdered
  <2> QED  BY <2>1, <2>2
<1>13. \A k \in Streams : \A e \in StoredEntries(k)' : Keys[e] = k
  BY <1>4, <1>7, <1>8 DEF Ordered, LokiOrdered
<1>14. \A k \in Streams : \A d, e \in ToSet(Chunk(Line')) :
         d \in StoredEntries(k)' => e \in StoredEntries(k)'
  <2>1. Line' = Line
    BY DEF Line
  <2> QED  BY <1>4, <1>7, <1>13, <2>1 DEF c
<1> QED  BY <1>11, <1>12, <1>13, <1>14 DEF LokiOrdered

LEMMA PostOrder ==
    ASSUME Ownership, CopiesBounded, Ordered, NEW f \in Flushers, Post(f)
    PROVE  Ordered'
<1>1. /\ taken[f] # <<>> /\ UNCHANGED <<admitted, buffer, due, taken, sent, failed>>
      /\ Store(f) \/ loki' = loki
  BY DEF Post, PostAccepted, PostRejected, PostUnclear, Posting, PostVars
<1>2. f = "ticker" /\ Line # <<>> /\ Line' = Line
  BY <1>1 DEF Ordered, Stopperless, Flushers, Line
<1>3. Stopperless'
  BY <1>1 DEF Ordered, Stopperless
<1>4. InBuffers' = InBuffers /\ Held' = Held
  BY <1>1, SameHeld
<1>5. LineOrdered'
  BY <1>1, <1>2, <1>4 DEF Ordered, LineOrdered, InOrder, Earlier
<1>6. CASE Store(f)
  <2>1. LokiOrdered'
    BY <1>1, <1>2, <1>6, StoreOrder
  <2> QED  BY <1>3, <1>5, <2>1 DEF Ordered
<1>7. CASE loki' = loki
  <2>1. \A k \in Streams : StoredEntries(k)' = StoredEntries(k)
    BY <1>7 DEF StoredEntries
  <2>2. \A k \in Streams : \A d, e : StoredBefore(k, d, e)' <=> StoredBefore(k, d, e)
    BY <1>7 DEF StoredBefore
  <2>3. \A d, e : Earlier(d, e)' <=> Earlier(d, e)
    BY <1>1 DEF Earlier
  <2>4. LokiOrdered'
    BY <1>2, <2>1, <2>2, <2>3 DEF Ordered, LokiOrdered
  <2> QED  BY <1>3, <1>5, <2>4 DEF Ordered
<1> QED  BY <1>1, <1>6, <1>7

LEMMA OrderInit == Init => OrderedSink
<1> SUFFICES ASSUME Init PROVE Ordered
  BY DEF OrderedSink
<1>1. /\ \A k \in Streams : buffer[k] = <<>> /\ loki[k] = <<>>
      /\ \A f \in Flushers : taken[f] = <<>> /\ due[f] = {}
      /\ sent = {} /\ failed = {} /\ Line = <<>>
  BY DEF Init, Line, Flushers
<1>2. InOrder(<<>>)
  BY DEF InOrder
<1>3. Stopperless
  BY <1>1 DEF Stopperless, Flushers
<1>4. LineOrdered
  BY <1>1, <1>2, ToSetEmpty DEF LineOrdered
<1>5. \A k \in Streams : StoredEntries(k) = {}
  BY <1>1 DEF StoredEntries
<1>6. LokiOrdered
  BY <1>5 DEF LokiOrdered
<1> QED  BY <1>3, <1>4, <1>6 DEF Ordered

LEMMA OrderStep ==
    Ownership /\ CopiesBounded /\ OrderedSink /\ [Next]_vars => OrderedSink'
<1> SUFFICES ASSUME Ownership, CopiesBounded, OrderedSink, [Next]_vars
             PROVE  OrderedSink'
  OBVIOUS
<1>1. ASSUME NEW b \in Batches, Lock(b) PROVE OrderedSink'
  BY <1>1, SameOrder DEF Lock
<1>2. CASE ShedEntry
  BY <1>2, SameOrder DEF ShedEntry
<1>3. CASE AdmitEntry
  BY <1>3, AdmitOrder DEF AdmitEntry, OrderedSink
<1>4. ASSUME NEW keys \in SUBSET Streams, Tick(keys) PROVE OrderedSink'
  <2>1. due'["stopper"] = due["stopper"]
    BY <1>4 DEF Tick, Ownership, TypeOK, Flushers
  <2> QED  BY <1>4, <2>1, SameOrder DEF Tick
<1>5. ASSUME NEW f \in Flushers, NEW k \in Streams, FlushStream(f, k)
      PROVE  OrderedSink'
  BY <1>5, PopOrder DEF FlushStream, OrderedSink
<1>6. ASSUME NEW f \in Flushers, Post(f) PROVE OrderedSink'
  <2>1. phase' = phase
    BY <1>6 DEF Post, PostAccepted, PostRejected, PostUnclear, PostVars
  <2> QED  BY <1>6, <2>1, PostOrder DEF OrderedSink
<1>7. ASSUME NEW f \in Flushers, Settle(f) PROVE OrderedSink'
  BY <1>7, SettleOrder DEF Settle, OrderedSink
<1>8. CASE TickerReturn
  BY <1>8, SameOrder DEF TickerReturn
<1>9. CASE StopClose \/ FlushAll \/ FlushDeadline \/ StopReturn
  <2>1. phase' # "running"
    BY <1>9 DEF StopClose, FlushAll, FlushDeadline, StopReturn
  <2> QED  BY <2>1 DEF OrderedSink
<1>10. CASE UNCHANGED vars
  BY <1>10, SameOrder DEF vars
<1> QED  BY <1>1, <1>2, <1>3, <1>4, <1>5, <1>6, <1>7, <1>8, <1>9, <1>10
         DEF Next, Enqueue, EnqueuePushRequest, Batches

(* Until Stop adds a second flusher, the first copies of a stream's        *)
(* entries are in Loki in the order of their admission (flushStream        *)
(* :490-605).                                                              *)
THEOREM SinkStoresInOrder == Spec => []StoredInOrder
<1>1. Ownership /\ CopiesBounded /\ OrderedSink /\ [Next]_vars => OrderedSink'
  BY OrderStep
<1>2. Ownership /\ OrderedSink => StoredInOrder
  <2> SUFFICES ASSUME Ownership, Ordered, NEW k \in Streams,
                      NEW i \in DOMAIN admitted, NEW j \in DOMAIN admitted, i < j,
                      admitted[i] \in StoredEntries(k), admitted[j] \in StoredEntries(k)
               PROVE  FirstStored(k, admitted[i]) < FirstStored(k, admitted[j])
    BY DEF OrderedSink, StoredInOrder
  <2>1. DOMAIN admitted = 1..Len(admitted)
    BY LenProperties DEF Ownership, TypeOK
  <2>2. Earlier(admitted[i], admitted[j])
    BY <2>1 DEF Earlier
  <2>3. StoredBefore(k, admitted[i], admitted[j])
    BY <2>2 DEF Ordered, LokiOrdered
  <2> QED  BY <2>3, BeforeMeansFirst DEF Ownership
<1> QED  BY <1>1, <1>2, OrderInit, OwnershipHolds, CopiesHold, PTL DEF Spec

=============================================================================
