---------------------------- MODULE CatalogProofs ----------------------------
(***************************************************************************)
(* The catalog: proofs, for any records, templates, tenants, batches and   *)
(* numbers of attempts, whatever fails, races or is repeated, that rows    *)
(* have times of records, that they only widen, that the two stores agree, *)
(* and that first_seen moves only where two workers created a template.    *)
(***************************************************************************)
EXTENDS TemplateCatalog, SequenceTheorems, TLAPS

-----------------------------------------------------------------------------
(* Sequences                                                               *)

LEMMA ElementsOf ==
    ASSUME NEW T, NEW s \in Seq(T)
    PROVE  ToSet(s) = {s[i] : i \in 1..Len(s)} /\ ToSet(s) \subseteq T
<1>1. DOMAIN s = 1..Len(s) /\ \A i \in 1..Len(s) : s[i] \in T
  BY LenProperties, ElementOfSeq
<1> QED  BY <1>1 DEF ToSet

LEMMA ArrayIsSeq ==
    ASSUME NEW T, NEW n \in Nat, NEW g \in [1..n -> T]
    PROVE  g \in Seq(T)
  OBVIOUS

(* What holds of the parts holds of the whole.                             *)
LEMMA ElementsOfConcat ==
    ASSUME NEW T, NEW s \in Seq(T), NEW n \in Nat, NEW g \in [1..n -> T], NEW S,
           \A i \in 1..Len(s) : s[i] \in S, \A i \in 1..n : g[i] \in S
    PROVE  s \o g \in Seq(T) /\ \A i \in 1..Len(s \o g) : (s \o g)[i] \in S
<1>1. g \in Seq(T) /\ Len(g) = n
  <2>1. g \in Seq(T)
    BY ArrayIsSeq
  <2>2. DOMAIN g = 1..n /\ DOMAIN g = 1..Len(g) /\ Len(g) \in Nat
    BY <2>1, LenProperties
  <2>3. Len(g) = n
    BY <2>2
  <2> QED  BY <2>1, <2>3
<1>2. /\ s \o g \in Seq(T) /\ Len(s) \in Nat /\ Len(s \o g) = Len(s) + n
      /\ \A i \in 1..Len(s \o g) : (s \o g)[i] = IF i <= Len(s) THEN s[i] ELSE g[i - Len(s)]
  BY <1>1, LenProperties, ConcatProperties
<1>3. ASSUME NEW i \in 1..Len(s \o g) PROVE (s \o g)[i] \in S
  <2>1. CASE i <= Len(s)
    BY <1>2, <2>1
  <2>2. CASE ~(i <= Len(s))
    <3>1. i - Len(s) \in 1..n
      BY <1>2, <2>2
    <3> QED  BY <1>2, <2>2, <3>1
  <2> QED  BY <2>1, <2>2
<1> QED  BY <1>2, <1>3

-----------------------------------------------------------------------------
(* The miner                                                               *)

WitnessedTimes(t) == {e \in Times : {e.first, e.last} \subseteq SeenTimes(t)}
Good == {r \in Results : {r.first, r.last} \subseteq SeenTimes(r.template)}

(* What attempt a's worker may be: at a record of the batch, with one of   *)
(* the record's templates, and with results that have witnesses.           *)
WorkerGood(a, w) ==
    /\ w \in Workers /\ w.item \in 1..Len(MinerBatch[a[1]])
    /\ w.step \in {"write", "report"} =>
         w.template \in Templates /\ w.template \in Mined[MinerBatch[a[1]][w.item]]
    /\ \A i \in 1..Len(w.results) : w.results[i] \in Good

Witnessed(t, e) == e \in Times \cup {None} /\ (e # None => e \in WitnessedTimes(t))

(* RowsAreWitnessed starts in the miner: every time an entry, a result or  *)
(* the batcher's output has was the time of a record of its template.      *)
WorkersGood == worker \in [Attempts -> Workers] /\ \A a \in Attempts : WorkerGood(a, worker[a])
EntriesGood == /\ entry \in [Templates -> Times \cup {None}]
               /\ \A t \in Templates : Witnessed(t, entry[t])
OutboxGood == outbox \in Seq(Results) /\ \A i \in 1..Len(outbox) : outbox[i] \in Good

(* Between its lookup and its write a worker is right about the template,  *)
(* or another worker has created it and it is marked.                      *)
RaceMarked ==
    \A a \in Attempts : worker[a].step = "write" =>
        IF worker[a].exists THEN entry[worker[a].template] # None
        ELSE entry[worker[a].template] # None => worker[a].template \in raced

MinerWitnessed ==
    /\ analysis \in [MinerBatches -> 0 .. Done]
    /\ WorkersGood /\ EntriesGood /\ OutboxGood /\ RaceMarked
    /\ raced \subseteq Templates

LEMMA MinerConstants ==
    /\ \A b \in MinerBatches : /\ Len(MinerBatch[b]) \in Nat \ {0}
                               /\ \A i \in 1..Len(MinerBatch[b]) : MinerBatch[b][i] \in Logs
    /\ \A a \in Attempts : a[1] \in MinerBatches /\ a[2] \in 1..MinerAttempts /\ a = <<a[1], a[2]>>
    /\ \A l \in Logs : Seen[l] \in Nat /\ Mined[l] \subseteq Templates
    /\ Now \in Nat /\ MinerAttempts \in Nat \ {0} /\ Done = MinerAttempts + 1
<1>1. \A b \in MinerBatches : MinerBatch[b] \in Seq(Logs) /\ MinerBatch[b] # <<>>
  BY MinerAssumption
<1>2. \A b \in MinerBatches : /\ Len(MinerBatch[b]) \in Nat \ {0}
                              /\ \A i \in 1..Len(MinerBatch[b]) : MinerBatch[b][i] \in Logs
  BY <1>1, EmptySeq, ElementOfSeq
<1>3. \A a \in Attempts : a[1] \in MinerBatches /\ a[2] \in 1..MinerAttempts /\ a = <<a[1], a[2]>>
  BY DEF Attempts
<1> QED  BY <1>2, <1>3, MinerAssumption DEF Done

(* The result of a record: with times of records, or with the time it is   *)
(* made up.                                                                *)
LEMMA GoodResults ==
    /\ \A l \in Logs, t \in Templates, e \in Times :
         e \in WitnessedTimes(t) => Sent(l, t, e.first, e.last) \in Good
    /\ \A l \in Logs, t \in {Fallback, Missing} : Sent(l, t, Now, Now) \in Good
    /\ \A l \in Logs : \A t \in Templates : t \in Mined[l] =>
         Seen[l] \in SeenTimes(t) /\ Sent(l, t, Seen[l], Seen[l]) \in Good
<1>1. Fallback \notin Templates /\ Missing \notin Templates
  BY MinerAssumption
<1>2. \A l \in Logs : \A t \in Templates : t \in Mined[l] => Seen[l] \in SeenTimes(t)
  BY DEF SeenTimes
<1>3. \A l \in Logs, t \in {Fallback, Missing} : Sent(l, t, Now, Now) \in Good
  BY <1>1, MinerConstants DEF Good, Sent, Results, SeenTimes
<1>4. \A l \in Logs, t \in Templates, x \in Nat, y \in Nat :
        {x, y} \subseteq SeenTimes(t) => Sent(l, t, x, y) \in Good
  BY DEF Good, Sent, Results
<1>5. \A l \in Logs, t \in Templates, e \in Times :
        e \in WitnessedTimes(t) => Sent(l, t, e.first, e.last) \in Good
  BY <1>4 DEF WitnessedTimes, Times
<1>6. \A l \in Logs : \A t \in Templates : t \in Mined[l] =>
        Sent(l, t, Seen[l], Seen[l]) \in Good
  BY <1>2, <1>4, MinerConstants
<1> QED  BY <1>2, <1>3, <1>5, <1>6

LEMMA WorkerSet ==
    ASSUME WorkersGood, NEW a \in Attempts, NEW w, WorkerGood(a, w),
           worker' = [worker EXCEPT ![a] = w]
    PROVE  WorkersGood'
<1>1. w \in Workers
  BY DEF WorkerGood
<1>2. worker' \in [Attempts -> Workers]
  BY <1>1 DEF WorkersGood
<1>3. ASSUME NEW b \in Attempts PROVE WorkerGood(b, worker'[b])
  <2>1. worker'[b] = IF b = a THEN w ELSE worker[b]
    BY DEF WorkersGood
  <2> QED  BY <2>1 DEF WorkersGood
<1>4. \A b \in Attempts : WorkerGood(b, worker'[b])
  BY <1>3
<1> QED  BY <1>2, <1>4 DEF WorkersGood, WorkerGood

LEMMA WorkerFields ==
    ASSUME NEW a \in Attempts, NEW w, WorkerGood(a, w)
    PROVE  /\ w.step \in {"idle", "mine", "write", "report", "answered"} /\ w.item \in Nat
           /\ w.template \in Templates \cup {None} /\ w.exists \in BOOLEAN
           /\ w.results \in Seq(Results)
           /\ w = [step |-> w.step, item |-> w.item, template |-> w.template,
                   exists |-> w.exists, results |-> w.results]
  BY DEF WorkerGood, Workers

(* A step that lets no worker begin a write, and leaves the memory alone.  *)
NoNewWriter == \A a \in Attempts : worker'[a] = worker[a] \/ worker'[a].step # "write"

LEMMA RaceKept ==
    ASSUME RaceMarked, NoNewWriter, UNCHANGED <<entry, raced>>
    PROVE  RaceMarked'
  BY DEF RaceMarked, NoNewWriter

LEMMA WorkerStarts ==
    ASSUME WorkersGood, NEW a \in Attempts,
           worker' = [worker EXCEPT ![a].step = "mine"]
    PROVE  WorkersGood' /\ NoNewWriter
<1> DEFINE w == [worker[a] EXCEPT !.step = "mine"]
<1>1. WorkerGood(a, worker[a])
  BY DEF WorkersGood
<1>2. w = [step |-> "mine", item |-> worker[a].item, template |-> worker[a].template,
           exists |-> worker[a].exists, results |-> worker[a].results]
  BY <1>1, WorkerFields
<1>3. w \in Workers
  BY <1>1, <1>2, WorkerFields DEF Workers
<1>4. WorkerGood(a, w)
  BY <1>1, <1>2, <1>3 DEF WorkerGood
<1>5. worker' = [worker EXCEPT ![a] = w]
  OBVIOUS
<1>6. NoNewWriter
  BY <1>2, <1>5 DEF NoNewWriter, WorkersGood
<1> HIDE DEF w
<1> QED  BY <1>4, <1>5, <1>6, WorkerSet

LEMMA WorkerAdvances ==
    ASSUME WorkersGood, NEW a \in Attempts,
           NEW results \in Seq(Results), \A i \in 1..Len(results) : results[i] \in Good,
           Advance(a, results)
    PROVE  WorkersGood' /\ NoNewWriter
<1> DEFINE r == IF analysis[a[1]] = a[2] THEN results ELSE <<>>
           last == worker[a].item = Len(MinerBatch[a[1]])
           w == [step |-> IF last THEN "answered" ELSE "mine",
                 item |-> IF last THEN worker[a].item ELSE worker[a].item + 1,
                 template |-> None, exists |-> FALSE, results |-> r]
<1>1. WorkerGood(a, worker[a])
  BY DEF WorkersGood
<1>2. r \in Seq(Results) /\ \A i \in 1..Len(r) : r[i] \in Good
  BY EmptySeq
<1>3. worker[a].item \in 1..Len(MinerBatch[a[1]]) /\ Len(MinerBatch[a[1]]) \in Nat
  BY <1>1, MinerConstants DEF WorkerGood
<1>4. worker' = [worker EXCEPT ![a] = w]
  BY DEF Advance
<1> HIDE DEF r
<1>5. w.item \in 1..Len(MinerBatch[a[1]]) /\ w.item \in Nat
  BY <1>3
<1>6. w \in Workers
  BY <1>2, <1>5 DEF Workers
<1>7. WorkerGood(a, w)
  BY <1>2, <1>5, <1>6 DEF WorkerGood
<1>8. NoNewWriter
  BY <1>4 DEF NoNewWriter, WorkersGood
<1> HIDE DEF w
<1> QED  BY <1>4, <1>7, <1>8, WorkerSet

(* What the batcher sends on for a batch has witnesses too.                *)
LEMMA OutboxGrows ==
    ASSUME OutboxGood, NEW n \in Nat, NEW g \in [1..n -> Good], outbox' = outbox \o g
    PROVE  OutboxGood'
<1>1. g \in [1..n -> Results] /\ \A i \in 1..n : g[i] \in Good
  BY DEF Good
<1>2. outbox \o g \in Seq(Results) /\ \A i \in 1..Len(outbox \o g) : (outbox \o g)[i] \in Good
  BY <1>1, ElementsOfConcat DEF OutboxGood
<1> QED  BY <1>2 DEF OutboxGood, Good, Results, SeenTimes

LEMMA ResultIsGood ==
    ASSUME NEW b \in MinerBatches, NEW i \in 1..Len(MinerBatch[b]), NEW s \in Seq(Results),
           \A j \in 1..Len(s) : s[j] \in Good
    PROVE  ResultOf(b, s, i) \in Good
<1> DEFINE own == {r \in ToSet(s) : r.log = MinerBatch[b][i]}
<1>1. MinerBatch[b][i] \in Logs
  BY MinerConstants
<1>2. ToSet(s) \subseteq Good
  BY ElementsOf
<1>3. CASE own = {}
  <2>1. ResultOf(b, s, i) = Sent(MinerBatch[b][i], Missing, Now, Now)
    BY <1>3 DEF ResultOf
  <2> QED  BY <2>1, <1>1, GoodResults
<1>4. CASE own # {}
  <2>1. ResultOf(b, s, i) = CHOOSE r \in own : TRUE
    BY <1>4 DEF ResultOf
  <2>2. (CHOOSE r \in own : TRUE) \in own
    BY <1>4
  <2> QED  BY <2>1, <2>2, <1>2
<1> QED  BY <1>3, <1>4

-----------------------------------------------------------------------------
(* The miner's steps                                                       *)

LEMMA ClientSteps ==
    ASSUME MinerWitnessed, NEW b \in MinerBatches, Analyze(b) \/ Answer(b) \/ Retry(b)
    PROVE  MinerWitnessed'
<1> USE DEF MinerWitnessed
<1>1. analysis[b] \in 0..Done /\ Done = MinerAttempts + 1 /\ MinerAttempts \in Nat \ {0}
  BY MinerConstants
<1>2. EntriesGood' /\ (raced \subseteq Templates)'
  BY DEF EntriesGood, Analyze, Answer, Retry, Witnessed, WitnessedTimes, SeenTimes
<1>3. \A l \in 1..Len(MinerBatch[b]) : MinerBatch[b][l] \in Logs
  BY MinerConstants
<1>4. Len(MinerBatch[b]) \in Nat
  BY MinerConstants
<1>5. CASE Analyze(b)
  <2>1. <<b, 1>> \in Attempts /\ 1 \in 0..Done
    BY <1>1 DEF Attempts
  <2>2. WorkersGood' /\ RaceMarked'
    BY <1>5, <2>1, WorkerStarts, RaceKept DEF Analyze
  <2>3. OutboxGood'
    BY <1>5 DEF Analyze, OutboxGood, Good, Results, SeenTimes
  <2>4. (analysis \in [MinerBatches -> 0 .. Done])'
    BY <1>5, <2>1 DEF Analyze, Done
  <2> QED  BY <1>2, <2>2, <2>3, <2>4
<1>6. CASE Answer(b)
  <2> DEFINE a == <<b, analysis[b]>>
             g == [i \in 1..Len(MinerBatch[b]) |-> ResultOf(b, worker[a].results, i)]
  <2>1. a \in Attempts
    BY <1>6 DEF Answer, Attempts
  <2>2. WorkerGood(a, worker[a])
    BY <2>1 DEF WorkersGood
  <2>3. /\ worker[a].results \in Seq(Results)
        /\ \A i \in 1..Len(worker[a].results) : worker[a].results[i] \in Good
    <3> HIDE DEF a
    <3> QED  BY <2>1, <2>2, WorkerFields DEF WorkerGood
  <2>4. g \in [1..Len(MinerBatch[b]) -> Good]
    <3>1. \A i \in 1..Len(MinerBatch[b]) : ResultOf(b, worker[a].results, i) \in Good
      <4> TAKE i \in 1..Len(MinerBatch[b])
      <4> HIDE DEF a
      <4> QED  BY <2>3, ResultIsGood
    <3> QED  BY <3>1
  <2>5. outbox' = outbox \o g
    BY <1>6 DEF Answer
  <2>6. OutboxGood'
    <3> HIDE DEF g
    <3> QED  BY <1>4, <2>4, <2>5, OutboxGrows
  <2>7. WorkersGood' /\ RaceMarked'
    BY <1>6, RaceKept DEF Answer, WorkersGood, WorkerGood, NoNewWriter
  <2>8. (analysis \in [MinerBatches -> 0 .. Done])'
    BY <1>1, <1>6 DEF Answer, Done
  <2> QED  BY <1>2, <2>6, <2>7, <2>8
<1>7. CASE Retry(b)
  <2>1. CASE analysis[b] < MinerAttempts
    <3>1. <<b, analysis[b] + 1>> \in Attempts /\ analysis[b] + 1 \in 0..Done
      BY <1>1, <1>7, <2>1 DEF Attempts, Retry
    <3>2. WorkersGood' /\ RaceMarked'
      BY <1>7, <2>1, <3>1, WorkerStarts, RaceKept DEF Retry
    <3>3. OutboxGood'
      BY <1>7, <2>1 DEF Retry, OutboxGood, Good, Results, SeenTimes
    <3>4. (analysis \in [MinerBatches -> 0 .. Done])'
      BY <1>7, <2>1, <3>1 DEF Retry, Done
    <3> QED  BY <1>2, <3>2, <3>3, <3>4
  <2>2. CASE ~(analysis[b] < MinerAttempts)
    <3> DEFINE g == [i \in 1..Len(MinerBatch[b]) |-> Sent(MinerBatch[b][i], Fallback, Now, Now)]
    <3>1. g \in [1..Len(MinerBatch[b]) -> Good]
      BY <1>3, GoodResults
    <3>2. outbox' = outbox \o g
      BY <1>7, <2>2 DEF Retry
    <3>3. OutboxGood'
      <4> HIDE DEF g
      <4> QED  BY <1>4, <3>1, <3>2, OutboxGrows
    <3>4. WorkersGood' /\ RaceMarked'
      BY <1>7, <2>2, RaceKept DEF Retry, WorkersGood, WorkerGood, NoNewWriter
    <3>5. (analysis \in [MinerBatches -> 0 .. Done])'
      BY <1>1, <1>7, <2>2 DEF Retry, Done
    <3> QED  BY <1>2, <3>3, <3>4, <3>5
  <2> QED  BY <2>1, <2>2
<1> QED  BY <1>5, <1>6, <1>7

LEMMA WorkerReports ==
    ASSUME NEW w \in Workers,
           NEW v, v = [w EXCEPT !.step = "report", !.exists = FALSE]
    PROVE  /\ v \in Workers /\ v.step = "report" /\ v.template = w.template
           /\ v.item = w.item /\ v.results = w.results
<1>1. v \in Workers
  BY DEF Workers
<1>2. v.step = "report" /\ v.template = w.template /\ v.item = w.item /\ v.results = w.results
  BY DEF Workers
<1> QED  BY <1>1, <1>2

LEMMA WorkerSteps ==
    ASSUME MinerWitnessed, NEW a \in Attempts, Skip(a) \/ LookUp(a) \/ Write(a) \/ Report(a)
    PROVE  MinerWitnessed'
<1> USE DEF MinerWitnessed
<1> DEFINE w == worker[a]
           l == MinerBatch[a[1]][w.item]
<1>1. WorkerGood(a, w) /\ w \in Workers
  BY DEF WorkersGood, WorkerGood
<1>2. l = Record(a) /\ l \in Logs /\ w.item \in 1..Len(MinerBatch[a[1]])
  BY <1>1, MinerConstants DEF WorkerGood, Record
<1>3. (analysis \in [MinerBatches -> 0 .. Done])' /\ OutboxGood'
  BY DEF Skip, LookUp, Write, Report, OutboxGood, Done
<1>4. w.results \in Seq(Results) /\ \A i \in 1..Len(w.results) : w.results[i] \in Good
  BY <1>1, WorkerFields DEF WorkerGood
<1>5. CASE Skip(a)
  <2>1. WorkersGood' /\ RaceMarked'
    BY <1>4, <1>5, WorkerAdvances, RaceKept DEF Skip
  <2> QED  BY <1>3, <1>5, <2>1 DEF Skip, EntriesGood
<1>6. CASE LookUp(a)
  <2>1. PICK t \in Mined[l] :
          worker' = [worker EXCEPT ![a] = [w EXCEPT !.step = "write", !.template = t,
                                                    !.exists = (entry[t] # None)]]
    BY <1>2, <1>6 DEF LookUp
  <2>2. t \in Templates
    BY <1>2, <2>1, MinerConstants
  <2> DEFINE v == [w EXCEPT !.step = "write", !.template = t, !.exists = (entry[t] # None)]
  <2>3. /\ v \in Workers /\ v.step = "write" /\ v.template = t /\ v.exists = (entry[t] # None)
        /\ v.item = w.item /\ v.results = w.results
    <3> DEFINE e == entry[t] # None
    <3>1. e \in BOOLEAN
      OBVIOUS
    <3>2. v = [w EXCEPT !.step = "write", !.template = t, !.exists = e]
      OBVIOUS
    <3> HIDE DEF w, v, e
    <3>3. v \in Workers
      BY <1>1, <2>2, <3>1, <3>2 DEF Workers
    <3>4. /\ v.step = "write" /\ v.template = t /\ v.exists = e
          /\ v.item = w.item /\ v.results = w.results
      BY <1>1, <2>2, <3>1, <3>2 DEF Workers
    <3> QED  BY <3>3, <3>4 DEF e
  <2>5. WorkerGood(a, v)
    <3> HIDE DEF v
    <3> QED  BY <1>2, <1>4, <2>2, <2>3, <2>1 DEF WorkerGood
  <2>6. WorkersGood'
    <3> HIDE DEF v
    <3>1. worker' = [worker EXCEPT ![a] = v]
      BY <2>1 DEF v
    <3> QED  BY <2>5, <3>1, WorkerSet
  <2>7. RaceMarked'
    <3>1. \A b \in Attempts : worker'[b] = IF b = a THEN v ELSE worker[b]
      <4> HIDE DEF v
      <4>1. worker' = [worker EXCEPT ![a] = v]
        BY <2>1 DEF v
      <4> QED  BY <4>1 DEF WorkersGood
    <3>2. v.template = t /\ v.exists = (entry[t] # None)
      BY <2>3
    <3> HIDE DEF v
    <3>3. UNCHANGED <<entry, raced>>
      BY <1>6 DEF LookUp
    <3>4. ASSUME NEW b \in Attempts, worker'[b].step = "write"
          PROVE  IF worker'[b].exists THEN entry[worker'[b].template] # None
                 ELSE entry[worker'[b].template] # None => worker'[b].template \in raced
      BY <3>1, <3>2, <3>4 DEF RaceMarked
    <3> QED  BY <3>3, <3>4 DEF RaceMarked
  <2> QED  BY <1>3, <1>6, <2>6, <2>7 DEF LookUp, EntriesGood
<1>7. CASE Write(a)
  <2> DEFINE t == w.template
             v == [w EXCEPT !.step = "report", !.exists = FALSE]
  <2>1. w.step = "write" /\ t \in Templates /\ t \in Mined[l]
    BY <1>1, <1>7 DEF Write, WorkerGood
  <2>2. /\ v \in Workers /\ v.step = "report" /\ v.template = t
        /\ v.item = w.item /\ v.results = w.results
    <3> HIDE DEF w
    <3> QED  BY <1>1, WorkerReports
  <2>4. WorkerGood(a, v)
    <3> HIDE DEF v
    <3> QED  BY <1>2, <1>4, <2>1, <2>2 DEF WorkerGood
  <2>5. WorkersGood'
    <3>1. worker' = [worker EXCEPT ![a] = v]
      BY <1>7 DEF Write
    <3> HIDE DEF v
    <3> QED  BY <2>4, <3>1, WorkerSet
  <2>6. Seen[l] \in Nat /\ Seen[l] \in SeenTimes(t)
    BY <1>2, <2>1, MinerConstants, GoodResults
  <2>7. \A b \in Attempts : worker'[b] = IF b = a THEN v ELSE worker[b]
    <3>1. worker' = [worker EXCEPT ![a] = v]
      BY <1>7 DEF Write
    <3> HIDE DEF v
    <3> QED  BY <3>1 DEF WorkersGood
  <2>8. v.step = "report"
    BY <2>2
  <2>9. IF w.exists THEN entry[t] # None ELSE entry[t] # None => t \in raced
    BY <2>1 DEF RaceMarked
  <2>10. CASE UNCHANGED <<entry, raced>>
    <3>1. RaceMarked'
      <4> HIDE DEF v
      <4> QED  BY <2>7, <2>8, <2>10 DEF RaceMarked
    <3> QED  BY <1>3, <2>5, <2>10, <3>1 DEF EntriesGood
  <2>11. CASE /\ entry' = [entry EXCEPT ![t] = IF w.exists THEN [@ EXCEPT !.last = Seen[l]]
                                ELSE [first |-> Seen[l], last |-> Seen[l]]]
              /\ raced' = IF entry[t] = None /\ Looking(t) # {a} THEN raced \cup {t} ELSE raced
    <3> DEFINE e == IF w.exists THEN [entry[t] EXCEPT !.last = Seen[l]]
                                ELSE [first |-> Seen[l], last |-> Seen[l]]
    <3>1. e \in Times /\ e \in WitnessedTimes(t)
      <4>1. CASE w.exists
        <5>1. entry[t] \in Times /\ {entry[t].first, entry[t].last} \subseteq SeenTimes(t)
          BY <2>1, <2>9, <4>1 DEF EntriesGood, Witnessed, WitnessedTimes
        <5>2. e = [first |-> entry[t].first, last |-> Seen[l]]
          BY <4>1, <5>1 DEF Times
        <5> QED  BY <5>1, <5>2, <2>6 DEF Times, WitnessedTimes
      <4>2. CASE ~w.exists
        BY <4>2, <2>6 DEF Times, WitnessedTimes
      <4> QED  BY <4>1, <4>2
    <3>2. entry' = [entry EXCEPT ![t] = e]
      BY <2>11
    <3> HIDE DEF e
    <3>3. \A u \in Templates : entry'[u] = IF u = t THEN e ELSE entry[u]
      BY <3>2 DEF EntriesGood
    <3>4. entry' \in [Templates -> Times \cup {None}]
      BY <3>1, <3>2 DEF EntriesGood
    <3>5. \A u \in Templates : Witnessed(u, entry'[u])
      BY <3>1, <3>3 DEF EntriesGood, Witnessed
    <3>6. EntriesGood'
      BY <3>4, <3>5 DEF EntriesGood, Witnessed, WitnessedTimes, SeenTimes
    <3>7. raced' \subseteq Templates /\ raced \subseteq raced'
      BY <2>1, <2>11
    <3>8. ASSUME NEW b \in Attempts, worker'[b].step = "write"
          PROVE  IF worker'[b].exists THEN entry'[worker'[b].template] # None
                 ELSE entry'[worker'[b].template] # None => worker'[b].template \in raced'
      <4>1. b # a /\ worker'[b] = worker[b] /\ worker[b].step = "write"
        <5> HIDE DEF v
        <5> QED  BY <2>7, <2>8, <3>8
      <4>2. worker[b].template \in Templates
        BY <4>1 DEF WorkersGood, WorkerGood
      <4>3. CASE worker[b].template = t
        <5>1. e # None
          BY <3>1, MinerAssumption DEF Times
        <5>2. b \in Looking(t)
          BY <4>1, <4>3 DEF Looking
        <5>3. entry[t] = None => t \in raced'
          BY <2>11, <4>1, <5>2
        <5>4. ~worker[b].exists /\ entry[t] # None => t \in raced
          BY <4>1, <4>3 DEF RaceMarked
        <5> QED  BY <2>1, <3>3, <3>7, <4>1, <4>3, <5>1, <5>3, <5>4
      <4>4. CASE worker[b].template # t
        BY <3>3, <3>7, <4>1, <4>2, <4>4 DEF RaceMarked
      <4> QED  BY <4>3, <4>4
    <3>9. RaceMarked'
      BY <3>8 DEF RaceMarked
    <3> QED  BY <1>3, <2>5, <3>6, <3>7, <3>9
  <2> QED  BY <1>2, <1>7, <2>10, <2>11 DEF Write
<1>8. CASE Report(a)
  <2>1. /\ w.template \in Templates /\ w.template \in Mined[l]
    BY <1>1, <1>8 DEF Report, WorkerGood
  <2> DEFINE result(e) == IF e = None THEN Sent(l, w.template, Seen[l], Seen[l])
                                      ELSE Sent(l, w.template, e.first, e.last)
  <2>2. result(entry[w.template]) \in Good /\ result(None) \in Good
    BY <1>2, <2>1, GoodResults DEF EntriesGood, Witnessed
  <2>3. PICK r \in Good : Advance(a, Append(w.results, r))
    BY <1>2, <1>8, <2>2 DEF Report
  <2>4. r \in Results
    BY DEF Good
  <2>5. /\ Append(w.results, r) \in Seq(Results)
        /\ \A i \in 1..Len(Append(w.results, r)) : Append(w.results, r)[i] \in Good
    BY <1>4, <2>3, <2>4, AppendProperties, LenProperties
  <2>6. WorkersGood' /\ RaceMarked'
    BY <1>8, <2>3, <2>5, WorkerAdvances, RaceKept DEF Report
  <2> QED  BY <1>3, <1>8, <2>6 DEF Report, EntriesGood
<1> QED  BY <1>5, <1>6, <1>7, <1>8

LEMMA MinerStep ==
    ASSUME MinerWitnessed, MinerNext
    PROVE  MinerWitnessed'
<1>1. CASE \E b \in MinerBatches : Analyze(b) \/ Answer(b) \/ Retry(b)
  BY <1>1, ClientSteps
<1>2. CASE \E a \in Attempts : Skip(a) \/ LookUp(a) \/ Write(a) \/ Report(a)
  BY <1>2, WorkerSteps
<1> QED  BY <1>1, <1>2 DEF MinerNext

LEMMA MinerStarts ==
    ASSUME MinerInit
    PROVE  MinerWitnessed
<1> DEFINE w == [step |-> "idle", item |-> 1, template |-> None, exists |-> FALSE,
                 results |-> <<>>]
<1>1. w \in Workers /\ \A i \in 1..Len(w.results) : w.results[i] \in Good
  BY EmptySeq DEF Workers
<1>2. \A a \in Attempts : WorkerGood(a, w)
  BY <1>1, MinerConstants DEF WorkerGood
<1>3. worker = [a \in Attempts |-> w]
  BY DEF MinerInit
<1>4. \A a \in Attempts : worker[a] = w
  BY <1>3
<1>5. WorkersGood
  <2> HIDE DEF w
  <2> QED  BY <1>1, <1>2, <1>3, <1>4 DEF WorkersGood
<1>6. RaceMarked
  BY <1>4 DEF RaceMarked
<1>7. EntriesGood /\ OutboxGood
  BY EmptySeq DEF MinerInit, EntriesGood, Witnessed, OutboxGood
<1>8. analysis \in [MinerBatches -> 0 .. Done] /\ raced \subseteq Templates
  BY MinerConstants DEF MinerInit
<1> QED  BY <1>5, <1>6, <1>7, <1>8 DEF MinerWitnessed

(* A first time moves only where two workers created the template.         *)
LEMMA FirstTimesStand ==
    ASSUME MinerWitnessed, MinerNext, NEW t \in Templates,
           entry[t] # None, t \notin raced'
    PROVE  entry'[t] # None /\ entry'[t].first = entry[t].first
<1>1. CASE UNCHANGED entry
  BY <1>1
<1>2. CASE \E a \in Attempts : Write(a) /\ ~UNCHANGED entry
  <2>1. PICK a \in Attempts : Write(a) /\ ~UNCHANGED entry
    BY <1>2
  <2> DEFINE w == worker[a]
             seen == Seen[Record(a)]
             e == IF w.exists THEN [entry[w.template] EXCEPT !.last = seen]
                              ELSE [first |-> seen, last |-> seen]
  <2>2. w.step = "write" /\ w.template \in Templates
    BY <2>1 DEF Write, MinerWitnessed, WorkersGood, WorkerGood
  <2>3. /\ entry' = [entry EXCEPT ![w.template] = e]
        /\ raced \subseteq raced'
    BY <2>1 DEF Write
  <2>4. IF w.exists THEN entry[w.template] # None
        ELSE entry[w.template] # None => w.template \in raced
    BY <2>2 DEF MinerWitnessed, RaceMarked
  <2>5. CASE t # w.template
    <3> HIDE DEF e, w
    <3> QED  BY <2>2, <2>3, <2>5 DEF MinerWitnessed, EntriesGood
  <2>6. CASE t = w.template
    <3>1. w.exists
      BY <2>3, <2>4, <2>6
    <3>2. entry[t] \in Times
      BY DEF MinerWitnessed, EntriesGood
    <3>3. e = [entry[t] EXCEPT !.last = seen]
      BY <2>6, <3>1
    <3>4. entry'[t] = e
      <4> HIDE DEF e, w
      <4> QED  BY <2>2, <2>3, <2>6 DEF MinerWitnessed, EntriesGood
    <3>5. e.first = entry[t].first
      BY <3>2, <3>3 DEF Times
    <3>6. seen \in Nat
      BY <2>1, MinerConstants DEF MinerWitnessed, WorkersGood, WorkerGood, Record
    <3>7. e \in Times
      BY <3>2, <3>3, <3>6 DEF Times
    <3>8. e # None
      BY <3>7, MinerAssumption DEF Times
    <3> QED  BY <3>4, <3>5, <3>8
  <2> QED  BY <2>5, <2>6
<1>3. UNCHANGED entry \/ \E a \in Attempts : Write(a)
  BY DEF MinerNext, Analyze, Answer, Retry, Skip, LookUp, Report
<1> QED  BY <1>1, <1>2, <1>3

-----------------------------------------------------------------------------
(* The index feed                                                          *)

RowTimes == [first : Nat, last : Nat]
GoodContents == {x \in Contents : {x.first, x.last} \subseteq SeenTimes(x.id)}
CoveredRow(R, x) == R[<<x.tenant, x.id>>] # NoRow /\ R[<<x.tenant, x.id>>].last >= x.last

(* A candidate is published once, with times that have witnesses; only its *)
(* own handlers work on it.                                                *)
ClientGood ==
    /\ published \in [Candidates -> PublishState]
    /\ candidate \in [Candidates -> Contents \cup {NoRow}]
    /\ publisher \in [FeedHandlers -> HandlerSteps]
    /\ \A c \in Candidates : published[c].attempt = 0 => published[c].outcome = "none"
    /\ \A c \in Candidates : published[c].attempt > 0 => candidate[c] \in GoodContents
    /\ \A h \in FeedHandlers : publisher[h] # "idle" => published[h[1]].attempt > 0

StoresGood ==
    /\ row \in [Tenants \X Ids -> RowTimes \cup {NoRow}]
    /\ point \in [Ids -> [tenant : Tenants, last : Nat] \cup {NoRow}]
    /\ RowsAreWitnessed /\ PointHasRow

(* What the handlers and the clients believe of the stores stays true.     *)
BeliefsHold ==
    /\ \A h \in FeedHandlers :
         /\ publisher[h] \in {"point", "accepted"} => CoveredRow(row, candidate[h[1]])
         /\ publisher[h] = "accepted" => point[candidate[h[1]].id] # NoRow
    /\ AcceptedIsCovered

FeedGood == ClientGood /\ StoresGood /\ BeliefsHold

RowsWiden == \A k \in Tenants \X Ids : row[k] # NoRow =>
                /\ row'[k] # NoRow
                /\ row'[k].first <= row[k].first /\ row'[k].last >= row[k].last
PointsStay == \A i \in Ids : point[i] # NoRow => point'[i] # NoRow

LEMMA Merged ==
    ASSUME NEW old \in RowTimes \cup {NoRow}, NEW x \in Contents
    PROVE  /\ Merge(old, x) \in RowTimes /\ Merge(old, x) # NoRow
           /\ Merge(old, x).last >= x.last
           /\ old # NoRow => /\ Merge(old, x).first <= old.first
                             /\ Merge(old, x).last >= old.last
           /\ {Merge(old, x).first, Merge(old, x).last}
                \subseteq {x.first, x.last} \cup IF old = NoRow THEN {} ELSE {old.first, old.last}
<1> DEFINE m == Merge(old, x)
<1>1. x.first \in Nat /\ x.last \in Nat
  BY DEF Contents
<1>2. CASE old = NoRow
  <2>1. m = [first |-> x.first, last |-> x.last]
    BY <1>2 DEF Merge
  <2> QED  BY <1>1, <1>2, <2>1, FeedAssumption DEF RowTimes
<1>3. CASE old # NoRow
  <2>1. old \in RowTimes /\ old.first \in Nat /\ old.last \in Nat
    BY <1>3 DEF RowTimes
  <2>2. CASE old.last < x.last
    <3>1. m = [first |-> Least(old.first, x.first), last |-> Greatest(old.last, x.last)]
      BY <1>3, <2>2 DEF Merge
    <3>2. /\ Least(old.first, x.first) \in {old.first, x.first}
          /\ Least(old.first, x.first) <= old.first
          /\ Greatest(old.last, x.last) = x.last
      BY <1>1, <2>1, <2>2 DEF Least, Greatest
    <3>3. m \in RowTimes /\ m # NoRow
      BY <1>1, <2>1, <3>1, <3>2, FeedAssumption DEF RowTimes
    <3>4. m.first = Least(old.first, x.first) /\ m.last = x.last
      BY <3>1, <3>2
    <3> QED  BY <1>1, <1>3, <2>1, <2>2, <3>2, <3>3, <3>4
  <2>3. CASE ~(old.last < x.last)
    <3>1. m = old
      BY <1>3, <2>3 DEF Merge
    <3> QED  BY <1>1, <1>3, <2>1, <2>3, <3>1
  <2> QED  BY <2>2, <2>3
<1> QED  BY <1>2, <1>3

(* A row is written.                                                       *)
LEMMA RowWritten ==
    ASSUME StoresGood, NEW x \in GoodContents,
           row' = [row EXCEPT ![<<x.tenant, x.id>>] = Merge(@, x)], point' = point
    PROVE  StoresGood' /\ RowsWiden /\ CoveredRow(row', x) /\ PointsStay
<1> DEFINE k0 == <<x.tenant, x.id>>
           m == Merge(row[k0], x)
<1>1. /\ x \in Contents /\ k0 \in Tenants \X Ids /\ k0[2] = x.id
      /\ {x.first, x.last} \subseteq SeenTimes(x.id)
  BY DEF GoodContents, Contents
<1>2. row[k0] \in RowTimes \cup {NoRow}
  BY <1>1 DEF StoresGood
<1>3. /\ m \in RowTimes /\ m # NoRow /\ m.last >= x.last
      /\ row[k0] # NoRow => m.first <= row[k0].first /\ m.last >= row[k0].last
      /\ {m.first, m.last}
           \subseteq {x.first, x.last} \cup IF row[k0] = NoRow THEN {}
                                            ELSE {row[k0].first, row[k0].last}
  BY <1>1, <1>2, Merged
<1>4. row[k0] # NoRow => {row[k0].first, row[k0].last} \subseteq SeenTimes(x.id)
  BY <1>1 DEF StoresGood, RowsAreWitnessed
<1>5. {m.first, m.last} \subseteq SeenTimes(x.id)
  BY <1>1, <1>3, <1>4
<1>6. row' = [row EXCEPT ![k0] = m]
  OBVIOUS
<1> HIDE DEF m
<1>7. \A k \in Tenants \X Ids : row'[k] = IF k = k0 THEN m ELSE row[k]
  BY <1>6 DEF StoresGood
<1>8. row' \in [Tenants \X Ids -> RowTimes \cup {NoRow}]
  BY <1>3, <1>6 DEF StoresGood
<1>9. \A k \in Tenants \X Ids : row[k] # NoRow => row[k].first \in Nat /\ row[k].last \in Nat
  BY DEF StoresGood, RowTimes
<1>10. RowsWiden
  BY <1>3, <1>7, <1>9 DEF RowsWiden
<1>11. ASSUME NEW k \in Tenants \X Ids, row'[k] # NoRow
       PROVE  {row'[k].first, row'[k].last} \subseteq SeenTimes(k[2])
  <2>1. CASE k = k0
    BY <1>1, <1>5, <1>7, <2>1
  <2>2. CASE k # k0
    BY <1>7, <1>11, <2>2 DEF StoresGood, RowsAreWitnessed
  <2> QED  BY <2>1, <2>2
<1>12. ASSUME NEW i \in Ids, point[i] # NoRow
       PROVE  row'[<<point[i].tenant, i>>] # NoRow
                /\ row'[<<point[i].tenant, i>>].last >= point[i].last
  <2> DEFINE k == <<point[i].tenant, i>>
  <2>1. k \in Tenants \X Ids /\ point[i].last \in Nat
    BY <1>12 DEF StoresGood
  <2>2. row[k] # NoRow /\ row[k].last >= point[i].last
    BY <1>12 DEF StoresGood, PointHasRow
  <2>3. row'[k] # NoRow /\ row'[k].last >= row[k].last /\ row'[k] \in RowTimes
    BY <1>8, <1>10, <2>1, <2>2 DEF RowsWiden
  <2>4. row'[k].last \in Nat
    BY <2>3 DEF RowTimes
  <2> HIDE DEF k
  <2>5. row'[k] # NoRow /\ row'[k].last >= point[i].last
    BY <1>9, <2>1, <2>2, <2>3, <2>4
  <2> QED  BY <2>5 DEF k
<1>13. RowsAreWitnessed'
  BY <1>11 DEF RowsAreWitnessed, SeenTimes
<1>14. PointHasRow'
  BY <1>12 DEF PointHasRow
<1>15. CoveredRow(row', x) /\ PointsStay
  BY <1>1, <1>3, <1>7 DEF CoveredRow, PointsStay
<1> QED  BY <1>8, <1>10, <1>13, <1>14, <1>15 DEF StoresGood

(* A point is written after its row.                                       *)
LEMMA PointWritten ==
    ASSUME StoresGood, NEW x \in GoodContents, CoveredRow(row, x),
           point' = [point EXCEPT ![x.id] = [tenant |-> x.tenant, last |-> x.last]],
           row' = row
    PROVE  StoresGood' /\ RowsWiden /\ PointsStay /\ point'[x.id] # NoRow
<1> DEFINE p == [tenant |-> x.tenant, last |-> x.last]
<1>1. x.id \in Ids /\ x.tenant \in Tenants /\ x.last \in Nat
  BY DEF GoodContents, Contents
<1>2. p \in [tenant : Tenants, last : Nat] /\ p # NoRow
  BY <1>1, FeedAssumption
<1>3. \A i \in Ids : point'[i] = IF i = x.id THEN p ELSE point[i]
  BY DEF StoresGood
<1>4. point' \in [Ids -> [tenant : Tenants, last : Nat] \cup {NoRow}]
  BY <1>2 DEF StoresGood
<1>5. PointHasRow'
  BY <1>3 DEF StoresGood, PointHasRow, CoveredRow
<1>6. RowsAreWitnessed'
  BY DEF StoresGood, RowsAreWitnessed, SeenTimes
<1>7. RowsWiden
  BY DEF RowsWiden, StoresGood, RowTimes
<1>8. PointsStay /\ point'[x.id] # NoRow
  BY <1>1, <1>2, <1>3 DEF PointsStay
<1> QED  BY <1>4, <1>5, <1>6, <1>7, <1>8 DEF StoresGood

LEMMA StoresKept ==
    ASSUME StoresGood, UNCHANGED <<row, point>>
    PROVE  StoresGood' /\ RowsWiden /\ PointsStay
<1>1. RowsWiden /\ PointsStay
  BY DEF RowsWiden, PointsStay, StoresGood, RowTimes
<1>2. StoresGood'
  BY DEF StoresGood, RowsAreWitnessed, PointHasRow, SeenTimes
<1> QED  BY <1>1, <1>2

(* Rows widen and points stay, so only a new belief needs a reason.        *)
LEMMA BeliefsKept ==
    ASSUME FeedGood, StoresGood', RowsWiden, PointsStay,
           \A c \in Candidates : published[c].attempt > 0 => candidate'[c] = candidate[c],
           \A h \in FeedHandlers :
             \/ publisher'[h] = publisher[h]
             \/ publisher'[h] \notin {"point", "accepted"}
             \/ /\ published[h[1]].attempt > 0 /\ CoveredRow(row', candidate[h[1]])
                /\ publisher'[h] = "accepted" => point'[candidate[h[1]].id] # NoRow,
           \A c \in Candidates :
             \/ published'[c].outcome = published[c].outcome
             \/ published'[c].outcome # "accepted"
             \/ \E h \in FeedHandlers : h[1] = c /\ publisher[h] = "accepted"
    PROVE  BeliefsHold'
<1> USE DEF FeedGood
<1>1. ASSUME NEW x \in Contents, CoveredRow(row, x) PROVE CoveredRow(row', x)
  <2> DEFINE k == <<x.tenant, x.id>>
  <2>1. k \in Tenants \X Ids /\ x.last \in Nat
    BY DEF Contents
  <2>2. row[k] # NoRow /\ row[k].last >= x.last
    BY <1>1 DEF CoveredRow
  <2>3. row'[k] # NoRow /\ row'[k].last >= row[k].last
    BY <2>1, <2>2 DEF RowsWiden
  <2>4. row[k].last \in Nat /\ row'[k].last \in Nat
    BY <2>1, <2>2, <2>3 DEF StoresGood, RowTimes
  <2> HIDE DEF k
  <2>5. row'[k] # NoRow /\ row'[k].last >= x.last
    BY <2>1, <2>2, <2>3, <2>4
  <2> QED  BY <2>5 DEF CoveredRow, k
<1>2. \A x \in Contents : point[x.id] # NoRow => point'[x.id] # NoRow
  BY DEF PointsStay, Contents
<1>3. \A c \in Candidates : published[c].attempt > 0 =>
        candidate[c] \in Contents /\ candidate'[c] = candidate[c]
  BY DEF ClientGood, GoodContents
<1>4. ASSUME NEW h \in FeedHandlers, publisher'[h] \in {"point", "accepted"}
      PROVE  /\ CoveredRow(row', candidate'[h[1]])
             /\ publisher'[h] = "accepted" => point'[candidate'[h[1]].id] # NoRow
  <2>1. h[1] \in Candidates
    BY DEF FeedHandlers
  <2>2. published[h[1]].attempt > 0
    BY <1>4 DEF ClientGood
  <2>3. candidate[h[1]] \in Contents /\ candidate'[h[1]] = candidate[h[1]]
    BY <1>3, <2>1, <2>2
  <2>4. CASE publisher'[h] = publisher[h]
    BY <1>1, <1>2, <1>4, <2>3, <2>4 DEF BeliefsHold
  <2>5. CASE publisher'[h] # publisher[h]
    BY <1>4, <2>3, <2>5
  <2> QED  BY <2>4, <2>5
<1>5. ASSUME NEW c \in Candidates, published'[c].outcome = "accepted"
      PROVE  /\ CoveredRow(row', candidate'[c]) /\ point'[candidate'[c].id] # NoRow
  <2>1. published[c] \in PublishState /\ published[c].attempt \in Nat
    BY FeedAssumption DEF ClientGood, PublishState
  <2>2. CASE published[c].outcome = "accepted"
    <3>1. published[c].attempt > 0
      BY <2>1, <2>2 DEF ClientGood
    <3>2. CoveredRow(row, candidate[c]) /\ point[candidate[c].id] # NoRow
      BY <2>2 DEF BeliefsHold, AcceptedIsCovered, CoveredRow, RowKey
    <3> QED  BY <1>1, <1>2, <1>3, <3>1, <3>2
  <2>3. CASE published[c].outcome # "accepted"
    <3>1. PICK h \in FeedHandlers : h[1] = c /\ publisher[h] = "accepted"
      BY <1>5, <2>3
    <3>2. published[c].attempt > 0
      BY <3>1 DEF ClientGood
    <3>3. CoveredRow(row, candidate[c]) /\ point[candidate[c].id] # NoRow
      BY <3>1 DEF BeliefsHold
    <3> QED  BY <1>1, <1>2, <1>3, <3>2, <3>3
  <2> QED  BY <2>2, <2>3
<1>6. AcceptedIsCovered'
  BY <1>5 DEF AcceptedIsCovered, CoveredRow, RowKey
<1> QED  BY <1>4, <1>6 DEF BeliefsHold, CoveredRow

LEMMA ClientFields ==
    ASSUME ClientGood, NEW c \in Candidates
    PROVE  /\ published[c].attempt \in 0..FeedAttempts /\ FeedAttempts \in Nat \ {0}
           /\ published[c].outcome \in Outcomes \cup {"none"}
           /\ Waiting(c) => published[c].attempt \in 1..FeedAttempts /\ published[c].outcome = "none"
<1>1. published[c] \in PublishState /\ FeedAttempts \in Nat \ {0}
  BY FeedAssumption DEF ClientGood
<1>2. published[c].attempt \in 0..FeedAttempts /\ published[c].outcome \in Outcomes \cup {"none"}
  BY <1>1 DEF PublishState
<1> QED  BY <1>1, <1>2 DEF Waiting

LEMMA PublishGood ==
    ASSUME FeedGood, NEW c \in Candidates, NEW x \in GoodContents, Publish(c, x)
    PROVE  FeedGood' /\ RowsWiden
<1> USE DEF FeedGood
<1>1. StoresGood' /\ RowsWiden /\ PointsStay
  BY StoresKept DEF Publish
<1>2. /\ <<c, 1>> \in FeedHandlers /\ x \in Contents /\ FeedAttempts \in Nat \ {0}
      /\ published[c].attempt = 0 /\ published[c].outcome = "none"
  BY FeedAssumption DEF FeedHandlers, GoodContents, Publish, ClientGood
<1>3. \A d \in Candidates : /\ d # c => published'[d] = published[d] /\ candidate'[d] = candidate[d]
                            /\ d = c => /\ published'[d].attempt = 1 /\ candidate'[d] = x
                                        /\ published'[d].outcome = "none"
  BY <1>2 DEF Publish, ClientGood, PublishState
<1>4. published' \in [Candidates -> PublishState]
  BY <1>2 DEF Publish, ClientGood, PublishState
<1>5. /\ candidate' \in [Candidates -> Contents \cup {NoRow}]
      /\ publisher' \in [FeedHandlers -> HandlerSteps]
      /\ \A h \in FeedHandlers : publisher'[h] = IF h = <<c, 1>> THEN "row" ELSE publisher[h]
  BY <1>2 DEF Publish, ClientGood, HandlerSteps
<1>6. \A h \in FeedHandlers : publisher'[h] # "idle" => published'[h[1]].attempt > 0
  <2> TAKE h \in FeedHandlers
  <2> HAVE publisher'[h] # "idle"
  <2>1. h[1] \in Candidates
    BY DEF FeedHandlers
  <2>2. CASE h[1] = c
    BY <1>3, <2>1, <2>2
  <2>3. CASE h[1] # c
    <3>1. h # <<c, 1>>
      BY <2>3
    <3> QED  BY <1>3, <1>5, <2>1, <2>3, <3>1 DEF ClientGood
  <2> QED  BY <2>2, <2>3
<1>7. \A d \in Candidates : /\ published'[d].attempt = 0 => published'[d].outcome = "none"
                            /\ published'[d].attempt > 0 => candidate'[d] \in GoodContents
  BY <1>3 DEF ClientGood
<1>8. ClientGood'
  BY <1>4, <1>5, <1>6, <1>7 DEF ClientGood, GoodContents, SeenTimes
<1>9. BeliefsHold'
  BY <1>1, <1>2, <1>3, <1>5, BeliefsKept
<1> QED  BY <1>1, <1>8, <1>9

LEMMA AckedGood ==
    ASSUME FeedGood, NEW c \in Candidates, Acked(c)
    PROVE  FeedGood' /\ RowsWiden
<1> USE DEF FeedGood
<1>1. StoresGood' /\ RowsWiden /\ PointsStay
  BY StoresKept DEF Acked
<1>2. /\ published[c].attempt \in 1..FeedAttempts /\ published[c].outcome = "none"
      /\ publisher[Latest(c)] \in {"accepted", "rejected"}
  <2>1. Waiting(c) /\ publisher[Latest(c)] \in {"accepted", "rejected"}
    BY DEF Acked
  <2> QED  BY <2>1, ClientFields
<1>3. Latest(c) \in FeedHandlers /\ Latest(c)[1] = c
  BY <1>2 DEF Latest, FeedHandlers
<1>4. \A d \in Candidates : /\ d # c => published'[d] = published[d]
                            /\ d = c => /\ published'[d].attempt = published[d].attempt
                                        /\ published'[d].outcome = publisher[Latest(c)]
  BY DEF Acked, ClientGood, PublishState
<1>5. published' \in [Candidates -> PublishState]
  BY <1>2 DEF Acked, ClientGood, PublishState, Outcomes
<1>6. \A d \in Candidates : published'[d].attempt = published[d].attempt
  BY <1>4
<1>7. UNCHANGED <<candidate, publisher>>
  BY DEF Acked
<1>8. ASSUME NEW d \in Candidates, published'[d].attempt = 0
      PROVE  published'[d].outcome = "none"
  BY <1>2, <1>4, <1>8 DEF ClientGood
<1>9. ClientGood'
  <2>1. \A h \in FeedHandlers : h[1] \in Candidates
    BY DEF FeedHandlers
  <2> QED  BY <1>5, <1>6, <1>7, <1>8, <2>1 DEF ClientGood, GoodContents, SeenTimes
<1>10. BeliefsHold'
  BY <1>1, <1>3, <1>4, <1>7, BeliefsKept
<1> QED  BY <1>1, <1>9, <1>10

LEMMA AgainGood ==
    ASSUME FeedGood, NEW c \in Candidates, Again(c)
    PROVE  FeedGood' /\ RowsWiden
<1> USE DEF FeedGood
<1>1. StoresGood' /\ RowsWiden /\ PointsStay
  BY StoresKept DEF Again
<1>2. /\ published[c].attempt \in 1..FeedAttempts /\ published[c].outcome = "none"
      /\ FeedAttempts \in Nat
  <2>1. Waiting(c)
    BY DEF Again
  <2> QED  BY <2>1, ClientFields
<1>3. candidate' = candidate /\ \A h \in FeedHandlers : h[1] \in Candidates
  BY DEF Again, FeedHandlers
<1>4. CASE published[c].attempt < FeedAttempts
  <2> DEFINE n == published[c].attempt + 1
  <2>1. n \in 1..FeedAttempts /\ <<c, n>> \in FeedHandlers
    BY <1>2, <1>4 DEF FeedHandlers
  <2>2. published' = [published EXCEPT ![c].attempt = n]
    BY <1>4 DEF Again
  <2>3. publisher' = [publisher EXCEPT ![<<c, n>>] = "row"]
    BY <1>4 DEF Again
  <2> HIDE DEF n
  <2>4. \A d \in Candidates : /\ d # c => published'[d] = published[d]
                              /\ d = c => published'[d].attempt = n
                              /\ published'[d].outcome = published[d].outcome
    BY <2>2 DEF ClientGood, PublishState
  <2>5. published' \in [Candidates -> PublishState]
    BY <2>1, <2>2 DEF ClientGood, PublishState
  <2>6. /\ publisher' \in [FeedHandlers -> HandlerSteps]
        /\ \A h \in FeedHandlers : publisher'[h] = IF h = <<c, n>> THEN "row" ELSE publisher[h]
    BY <2>1, <2>3 DEF ClientGood, HandlerSteps
  <2>7. \A d \in Candidates : published[d].attempt > 0 <=> published'[d].attempt > 0
    BY <1>2, <2>1, <2>4
  <2>8. \A h \in FeedHandlers : publisher'[h] # "idle" => published'[h[1]].attempt > 0
    <3> TAKE h \in FeedHandlers
    <3> HAVE publisher'[h] # "idle"
    <3>1. CASE h = <<c, n>>
      BY <2>1, <2>4, <3>1
    <3>2. CASE h # <<c, n>>
      BY <1>3, <2>6, <2>7, <3>2 DEF ClientGood
    <3> QED  BY <3>1, <3>2
  <2>9. \A d \in Candidates : published'[d].attempt = 0 => published'[d].outcome = "none"
    BY <1>2, <2>4 DEF ClientGood
  <2>10. ClientGood'
    BY <1>3, <2>5, <2>6, <2>7, <2>8, <2>9 DEF ClientGood, GoodContents, SeenTimes
  <2>11. BeliefsHold'
    BY <1>1, <1>3, <2>4, <2>6, BeliefsKept
  <2> QED  BY <1>1, <2>10, <2>11
<1>5. CASE ~(published[c].attempt < FeedAttempts)
  <2>1. published' = [published EXCEPT ![c].outcome = "lost"] /\ publisher' = publisher
    BY <1>5 DEF Again
  <2>2. \A d \in Candidates : /\ d # c => published'[d] = published[d]
                              /\ published'[d].attempt = published[d].attempt
                              /\ d = c => published'[d].outcome = "lost"
    BY <2>1 DEF ClientGood, PublishState
  <2>3. published' \in [Candidates -> PublishState]
    BY <2>1 DEF ClientGood, PublishState, Outcomes
  <2>4. \A d \in Candidates : published'[d].attempt = 0 => published'[d].outcome = "none"
    BY <1>2, <2>2 DEF ClientGood
  <2>5. ClientGood'
    BY <1>3, <2>1, <2>2, <2>3, <2>4 DEF ClientGood, GoodContents, SeenTimes
  <2>6. BeliefsHold'
    BY <1>1, <1>3, <2>1, <2>2, BeliefsKept
  <2> QED  BY <1>1, <2>5, <2>6
<1> QED  BY <1>4, <1>5

(* A handler goes on.                                                      *)
LEMMA HandlerMoves ==
    ASSUME ClientGood, NEW h \in FeedHandlers, publisher[h] # "idle", NEW s \in HandlerSteps,
           publisher' = [publisher EXCEPT ![h] = s], UNCHANGED <<published, candidate>>
    PROVE  /\ ClientGood' /\ published[h[1]].attempt > 0 /\ candidate[h[1]] \in GoodContents
           /\ h[1] \in Candidates
           /\ \A g \in FeedHandlers : publisher'[g] = IF g = h THEN s ELSE publisher[g]
<1>1. h[1] \in Candidates /\ published[h[1]].attempt > 0 /\ candidate[h[1]] \in GoodContents
  BY DEF ClientGood, FeedHandlers
<1>2. \A g \in FeedHandlers : publisher'[g] = IF g = h THEN s ELSE publisher[g]
  BY DEF ClientGood
<1>3. publisher' \in [FeedHandlers -> HandlerSteps]
  BY DEF ClientGood
<1>4. ClientGood'
  BY <1>1, <1>2, <1>3 DEF ClientGood, GoodContents, SeenTimes
<1> QED  BY <1>1, <1>2, <1>4

LEMMA UpsertRowGood ==
    ASSUME FeedGood, NEW h \in FeedHandlers, UpsertRow(h)
    PROVE  FeedGood' /\ RowsWiden
<1> USE DEF FeedGood
<1> DEFINE x == candidate[h[1]]
<1>1. publisher[h] # "idle" /\ UNCHANGED <<published, candidate, point>>
  BY DEF UpsertRow
<1>2. End(h, "rejected") \in {"rejected", "idle"}
  BY DEF End
<1>3. CASE row' = [row EXCEPT ![RowKey(h[1])] = Merge(@, x)]
           /\ \E s \in {"point", End(h, "rejected")} : publisher' = [publisher EXCEPT ![h] = s]
  <2>1. PICK s \in {"point", "rejected", "idle"} : publisher' = [publisher EXCEPT ![h] = s]
    BY <1>2, <1>3
  <2>2. s \in HandlerSteps
    BY DEF HandlerSteps
  <2>3. /\ ClientGood' /\ published[h[1]].attempt > 0 /\ x \in GoodContents /\ h[1] \in Candidates
        /\ \A g \in FeedHandlers : publisher'[g] = IF g = h THEN s ELSE publisher[g]
    BY <1>1, <2>1, <2>2, HandlerMoves
  <2>4. row' = [row EXCEPT ![<<x.tenant, x.id>>] = Merge(@, x)]
    BY <1>3 DEF RowKey
  <2>5. StoresGood' /\ RowsWiden /\ CoveredRow(row', x) /\ PointsStay
    <3> HIDE DEF x
    <3> QED  BY <1>1, <2>3, <2>4, RowWritten
  <2>6. BeliefsHold'
    BY <1>1, <2>3, <2>5, BeliefsKept
  <2> QED  BY <2>3, <2>5, <2>6
<1>4. CASE publisher' = [publisher EXCEPT ![h] = End(h, "rejected")] /\ UNCHANGED row
  <2>1. PICK s \in {"rejected", "idle"} : publisher' = [publisher EXCEPT ![h] = s]
    BY <1>2, <1>4
  <2>2. s \in HandlerSteps
    BY DEF HandlerSteps
  <2>3. /\ ClientGood' /\ published[h[1]].attempt > 0 /\ h[1] \in Candidates
        /\ \A g \in FeedHandlers : publisher'[g] = IF g = h THEN s ELSE publisher[g]
    BY <1>1, <2>1, <2>2, HandlerMoves
  <2>4. StoresGood' /\ RowsWiden /\ PointsStay
    BY <1>1, <1>4, StoresKept
  <2>5. BeliefsHold'
    BY <1>1, <2>3, <2>4, BeliefsKept
  <2> QED  BY <2>3, <2>4, <2>5
<1> QED  BY <1>3, <1>4 DEF UpsertRow

LEMMA UpsertPointGood ==
    ASSUME FeedGood, NEW h \in FeedHandlers, UpsertPoint(h)
    PROVE  FeedGood' /\ RowsWiden
<1> USE DEF FeedGood
<1> DEFINE x == candidate[h[1]]
<1>1. publisher[h] = "point" /\ UNCHANGED <<published, candidate, row>>
  BY DEF UpsertPoint
<1>2. End(h, "rejected") \in {"rejected", "idle"} /\ End(h, "accepted") \in {"accepted", "idle"}
  BY DEF End
<1>3. CASE point' = [point EXCEPT ![x.id] = [tenant |-> x.tenant, last |-> x.last]]
           /\ \E s \in {End(h, "accepted"), End(h, "rejected")} :
                publisher' = [publisher EXCEPT ![h] = s]
  <2>1. PICK s \in {"accepted", "rejected", "idle"} : publisher' = [publisher EXCEPT ![h] = s]
    BY <1>2, <1>3
  <2>2. s \in HandlerSteps
    BY DEF HandlerSteps
  <2>3. /\ ClientGood' /\ published[h[1]].attempt > 0 /\ x \in GoodContents /\ h[1] \in Candidates
        /\ \A g \in FeedHandlers : publisher'[g] = IF g = h THEN s ELSE publisher[g]
    BY <1>1, <2>1, <2>2, HandlerMoves
  <2>4. CoveredRow(row, x)
    BY <1>1 DEF BeliefsHold
  <2>5. StoresGood' /\ RowsWiden /\ PointsStay /\ point'[x.id] # NoRow
    <3> HIDE DEF x
    <3> QED  BY <1>1, <1>3, <2>3, <2>4, PointWritten
  <2>6. CoveredRow(row', x)
    BY <1>1, <2>4
  <2>7. BeliefsHold'
    BY <1>1, <2>3, <2>5, <2>6, BeliefsKept
  <2> QED  BY <2>3, <2>5, <2>7
<1>4. CASE publisher' = [publisher EXCEPT ![h] = End(h, "rejected")] /\ UNCHANGED point
  <2>1. PICK s \in {"rejected", "idle"} : publisher' = [publisher EXCEPT ![h] = s]
    BY <1>2, <1>4
  <2>2. s \in HandlerSteps
    BY DEF HandlerSteps
  <2>3. /\ ClientGood' /\ published[h[1]].attempt > 0 /\ h[1] \in Candidates
        /\ \A g \in FeedHandlers : publisher'[g] = IF g = h THEN s ELSE publisher[g]
    BY <1>1, <2>1, <2>2, HandlerMoves
  <2>4. StoresGood' /\ RowsWiden /\ PointsStay
    BY <1>1, <1>4, StoresKept
  <2>5. BeliefsHold'
    BY <1>1, <2>3, <2>4, BeliefsKept
  <2> QED  BY <2>3, <2>4, <2>5
<1> QED  BY <1>3, <1>4 DEF UpsertPoint

-----------------------------------------------------------------------------
(* The catalog                                                             *)

Catalog == MinerWitnessed /\ FeedGood

LEMMA CatalogInit == Init => Catalog
<1> SUFFICES ASSUME Init PROVE Catalog
  OBVIOUS
<1>1. MinerWitnessed
  BY MinerStarts DEF Init
<1>2. FeedInit
  BY DEF Init
<1>3. /\ \A c \in Candidates : published[c].attempt = 0 /\ published[c].outcome = "none"
      /\ \A h \in FeedHandlers : publisher[h] = "idle"
      /\ \A k \in Tenants \X Ids : row[k] = NoRow
      /\ \A i \in Ids : point[i] = NoRow
  BY <1>2 DEF FeedInit, FeedHandlers
<1>4. ClientGood
  BY <1>2, <1>3, FeedAssumption DEF FeedInit, ClientGood, PublishState, FeedHandlers, HandlerSteps
<1>5. StoresGood
  BY <1>2, <1>3 DEF FeedInit, StoresGood, RowsAreWitnessed, PointHasRow
<1>6. BeliefsHold
  BY <1>3 DEF BeliefsHold, AcceptedIsCovered
<1> QED  BY <1>1, <1>4, <1>5, <1>6 DEF Catalog, FeedGood

(* What the bridge publishes has witnesses.                                *)
LEMMA BridgePublishes ==
    ASSUME MinerWitnessed, NEW c \in Candidates, c <= Len(outbox),
           NEW tenant \in Tenant[outbox[c].log]
    PROVE  ToCandidate(outbox[c], tenant) \in GoodContents
<1>1. c \in Nat /\ c > 0
  BY CatalogAssumption
<1>2. outbox[c] \in Good
  <2>1. Len(outbox) \in Nat
    BY LenProperties DEF MinerWitnessed, OutboxGood
  <2>2. c \in 1..Len(outbox)
    BY <1>1, <2>1
  <2> QED  BY <2>2 DEF MinerWitnessed, OutboxGood
<1> DEFINE r == outbox[c]
<1>3. /\ r.log \in Logs /\ r.template \in Ids /\ r.first \in Nat /\ r.last \in Nat
      /\ {r.first, r.last} \subseteq SeenTimes(r.template)
  BY <1>2, CatalogAssumption DEF Good, Results
<1>4. tenant \in Tenants
  BY <1>3, CatalogAssumption
<1> HIDE DEF r
<1>5. ToCandidate(r, tenant) \in GoodContents
  BY <1>3, <1>4 DEF ToCandidate, GoodContents, Contents
<1> QED  BY <1>5 DEF r

LEMMA CatalogStep ==
    ASSUME Catalog, [Next]_catalogVars
    PROVE  /\ Catalog' /\ RowsWiden
           /\ \A t \in Templates : entry[t] # None /\ t \notin raced' =>
                entry'[t] # None /\ entry'[t].first = entry[t].first
<1> USE DEF Catalog
<1>1. ASSUME UNCHANGED feedVars PROVE FeedGood' /\ RowsWiden
  <2>1. StoresGood' /\ RowsWiden
    BY <1>1, StoresKept DEF feedVars, FeedGood
  <2>2. ClientGood'
    BY <1>1 DEF feedVars, FeedGood, ClientGood, GoodContents, SeenTimes
  <2>3. BeliefsHold'
    BY <1>1 DEF feedVars, FeedGood, BeliefsHold, AcceptedIsCovered, CoveredRow, RowKey
  <2> QED  BY <2>1, <2>2, <2>3 DEF FeedGood
<1>2. ASSUME UNCHANGED minerVars
      PROVE  /\ MinerWitnessed'
             /\ \A t \in Templates : entry[t] # None =>
                  entry'[t] # None /\ entry'[t].first = entry[t].first
  <2>1. WorkersGood' /\ EntriesGood' /\ OutboxGood' /\ RaceMarked'
    BY <1>2 DEF minerVars, MinerWitnessed, WorkersGood, WorkerGood, EntriesGood, OutboxGood,
                RaceMarked, Good, WitnessedTimes, Witnessed, SeenTimes
  <2> QED  BY <1>2, <2>1 DEF minerVars, MinerWitnessed
<1>3. CASE MinerNext /\ UNCHANGED feedVars
  BY <1>1, <1>3, MinerStep, FirstTimesStand
<1>4. CASE FeedNext /\ UNCHANGED minerVars
  <2>1. FeedGood' /\ RowsWiden
    BY <1>4, AckedGood, AgainGood, UpsertRowGood, UpsertPointGood DEF FeedNext
  <2> QED  BY <1>2, <1>4, <2>1
<1>5. CASE \E c \in Candidates :
             /\ c <= Len(outbox)
             /\ \E tenant \in Tenant[outbox[c].log] :
                  Publish(c, ToCandidate(outbox[c], tenant))
             /\ UNCHANGED minerVars
  <2>1. FeedGood' /\ RowsWiden
    BY <1>5, BridgePublishes, PublishGood
  <2> QED  BY <1>2, <1>5, <2>1
<1>6. CASE UNCHANGED catalogVars
  BY <1>1, <1>2, <1>6 DEF catalogVars
<1> QED  BY <1>3, <1>4, <1>5, <1>6 DEF Next

LEMMA CatalogHolds == Spec => []Catalog
<1>1. Catalog /\ [Next]_catalogVars => Catalog'
  BY CatalogStep
<1> QED  BY CatalogInit, <1>1, PTL DEF Spec

(* Every variable of the miner and of the index feed keeps its type.       *)
THEOREM CatalogTyped == Spec => []TypeOK
<1>1. Catalog => TypeOK
  BY DEF Catalog, MinerWitnessed, FeedGood, ClientGood, StoresGood, TypeOK, MinerTypeOK,
         FeedTypeOK, WorkersGood, EntriesGood, OutboxGood, RowTimes
<1> QED  BY <1>1, CatalogHolds, PTL

(* Both times of a row of Postgres are times of records of its template.   *)
THEOREM RowsFromRecords == Spec => []RowsAreWitnessed
<1>1. Catalog => RowsAreWitnessed
  BY DEF Catalog, FeedGood, StoresGood
<1> QED  BY <1>1, CatalogHolds, PTL

(* A point of Qdrant has a row of Postgres that is at least as recent.     *)
THEOREM StoresAgree == Spec => []PointHasRow
<1>1. Catalog => PointHasRow
  BY DEF Catalog, FeedGood, StoresGood
<1> QED  BY <1>1, CatalogHolds, PTL

(* What the service has accepted stays in both stores.                     *)
THEOREM AcceptedStays == Spec => []AcceptedIsCovered
<1>1. Catalog => AcceptedIsCovered
  BY DEF Catalog, FeedGood, BeliefsHold
<1> QED  BY <1>1, CatalogHolds, PTL

(* Late and repeated handlers never narrow a row or take it away.          *)
THEOREM LateHandlersOnlyWiden == Spec => RowsOnlyWiden
<1>1. Catalog /\ [Next]_catalogVars =>
        [\A k \in Tenants \X Ids : row[k] # NoRow =>
           /\ row'[k] # NoRow
           /\ row'[k].first <= row[k].first /\ row'[k].last >= row[k].last]_catalogVars
  BY CatalogStep DEF RowsWiden
<1> QED  BY <1>1, CatalogHolds, PTL DEF Spec, RowsOnlyWiden

(* The miner's first_seen_unix moves only where two workers raced.         *)
THEOREM FirstSeenKept == Spec => FirstSeenStands
<1>1. Catalog /\ [Next]_catalogVars =>
        [\A t \in Templates :
           entry[t] # None /\ t \notin raced' =>
              entry'[t] # None /\ entry'[t].first = entry[t].first]_catalogVars
  BY CatalogStep
<1> QED  BY <1>1, CatalogHolds, PTL DEF Spec, FirstSeenStands

=============================================================================
