----------------------------- MODULE MinerMemory -----------------------------
(***************************************************************************)
(* The miner (miner/main.py) and the client the gateway calls it with      *)
(* (gateway/pkg/miner/client.go and batcher.go).  A worker takes a batch   *)
(* record by record: Drain3 names a template, and the template's entry in  *)
(* Redis is looked up, written and read back in separate round trips, each *)
(* of which may fail and is then skipped.  An attempt the client has given *)
(* up on may go on while the next one repeats its work.                    *)
(*                                                                         *)
(* A template's text, regex and id are functions of one another, so an     *)
(* entry is the two times it keeps.  The first lookup of a record decides  *)
(* only how its result is labelled (cache or heuristic) and is left out,   *)
(* as are the example messages, a list of their own with a bounded length. *)
(***************************************************************************)
EXTENDS Integers, Sequences, FiniteSets, SequencesExt

CONSTANTS
    Logs, Templates,
    Mined,              \* [Logs -> SUBSET Templates]: what Drain3 may answer
    Seen,               \* [Logs -> Nat]: the record's timestamp, in seconds
    Blank,              \* the records with an empty message
    MinerBatches,       \* numbers: the batcher analyzes them in order
    MinerBatch,         \* [MinerBatches -> Seq(Logs)]
    MinerAttempts,      \* MaxRetries + 1
    Fallback,           \* the template of a batch without results ("unknown")
    Missing,            \* the template of a record without a result
    Now, None

ASSUME MinerAssumption ==
    /\ Mined \in [Logs -> SUBSET Templates] /\ Seen \in [Logs -> Nat]
    /\ \A l \in Logs : Mined[l] # {} /\ Seen[l] <= Now
    /\ Blank \subseteq Logs
    /\ MinerBatches \subseteq Nat /\ MinerBatch \in [MinerBatches -> Seq(Logs)]
    \* the batcher's flush sends no empty batch
    /\ \A b \in MinerBatches : MinerBatch[b] # <<>>
    /\ MinerAttempts \in Nat \ {0} /\ Now \in Nat
    /\ Fallback \notin Templates /\ Missing \notin Templates
    /\ None \notin [first : Nat, last : Nat]

VARIABLES
    analysis,     \* [MinerBatches -> attempts made, or "done"]: the client
    worker,       \* [MinerBatches \X 1 .. MinerAttempts -> Workers]
    entry,        \* Redis tmpl:{id}: [Templates -> [first, last] or None]
    outbox,       \* the results the batcher has sent on, in order
    raced         \* the templates created by one worker between another's
                  \*   lookup and its write

minerVars == <<analysis, worker, entry, outbox, raced>>

Attempts == MinerBatches \X (1 .. MinerAttempts)
Times == [first : Nat, last : Nat]
Results == [log : Logs, template : Templates \cup {Fallback, Missing},
            first : Nat, last : Nat]
Workers == [step : {"idle", "mine", "write", "report", "answered"},
            item : Nat, template : Templates \cup {None}, exists : BOOLEAN,
            results : Seq(Results)]

MinerInit ==
    /\ analysis = [b \in MinerBatches |-> 0]
    /\ worker = [a \in Attempts |-> [step |-> "idle", item |-> 1,
                                     template |-> None, exists |-> FALSE,
                                     results |-> <<>>]]
    /\ entry = [t \in Templates |-> None]
    /\ outbox = <<>> /\ raced = {}

Done == MinerAttempts + 1
Record(a) == MinerBatch[a[1]][worker[a].item]

(* On to the next record of the batch, or to the answer.  Nobody reads the *)
(* results of an attempt that was given up on.                             *)
Advance(a, results) ==
    worker' = [worker EXCEPT ![a] =
      [step |-> IF @.item = Len(MinerBatch[a[1]]) THEN "answered" ELSE "mine",
       item |-> IF @.item = Len(MinerBatch[a[1]]) THEN @.item ELSE @.item + 1,
       template |-> None, exists |-> FALSE,
       results |-> IF analysis[a[1]] = a[2] THEN results ELSE <<>>]]

-----------------------------------------------------------------------------
(* The client                                                              *)

(* AnalyzeBatch calls the miner.                                           *)
Analyze(b) ==
    /\ \A c \in MinerBatches : c < b => analysis[c] = Done
    /\ analysis[b] = 0
    /\ analysis' = [analysis EXCEPT ![b] = 1]
    /\ worker' = [worker EXCEPT ![<<b, 1>>].step = "mine"]
    /\ UNCHANGED <<entry, outbox, raced>>

Sent(l, t, first, last) ==
    [log |-> l, template |-> t, first |-> first, last |-> last]

(* The answer comes back: each record of the batch goes on with the result *)
(* of its record_index, or with "missing" if the miner skipped it.         *)
ResultOf(b, results, i) ==
    LET l == MinerBatch[b][i]
        own == {r \in ToSet(results) : r.log = l}
    IN  IF own = {} THEN Sent(l, Missing, Now, Now)
                    ELSE CHOOSE r \in own : TRUE

Answer(b) ==
    /\ analysis[b] \in 1 .. MinerAttempts
    /\ worker[<<b, analysis[b]>>].step = "answered"
    /\ outbox' = outbox \o
         [i \in 1 .. Len(MinerBatch[b]) |->
            ResultOf(b, worker[<<b, analysis[b]>>].results, i)]
    /\ analysis' = [analysis EXCEPT ![b] = Done]
    /\ UNCHANGED <<worker, entry, raced>>

(* An attempt fails or its deadline passes, wherever the worker is.        *)
Retry(b) ==
    /\ analysis[b] \in 1 .. MinerAttempts
    /\ IF analysis[b] < MinerAttempts
         THEN /\ analysis' = [analysis EXCEPT ![b] = @ + 1]
              /\ worker' = [worker EXCEPT ![<<b, analysis[b] + 1>>].step = "mine"]
              /\ UNCHANGED outbox
         ELSE /\ analysis' = [analysis EXCEPT ![b] = Done]
              /\ outbox' = outbox \o
                   [i \in 1 .. Len(MinerBatch[b]) |->
                      Sent(MinerBatch[b][i], Fallback, Now, Now)]
              /\ UNCHANGED worker
    /\ UNCHANGED <<entry, raced>>

-----------------------------------------------------------------------------
(* A worker of the miner                                                   *)

(* A record with an empty message has no result.                           *)
Skip(a) ==
    /\ worker[a].step = "mine" /\ Record(a) \in Blank
    /\ Advance(a, worker[a].results)
    /\ UNCHANGED <<analysis, entry, outbox, raced>>

(* A faulty form: an EXISTS that fails counts as a new template.           *)
LookUpOrNew(a) ==
    /\ worker[a].step = "mine" /\ Record(a) \notin Blank
    /\ \E t \in Mined[Record(a)], found \in BOOLEAN :
         /\ found => entry[t] # None
         /\ worker' = [worker EXCEPT
              ![a] = [@ EXCEPT !.step = "write", !.template = t,
                               !.exists = found]]
    /\ UNCHANGED <<analysis, entry, outbox, raced>>
(* Drain3 names the template, and upsert asks Redis whether it exists.     *)
LookUp(a) ==
    /\ worker[a].step = "mine" /\ Record(a) \notin Blank
    /\ \E t \in Mined[Record(a)] :
         worker' = [worker EXCEPT
           ![a] = [@ EXCEPT !.step = "write", !.template = t,
                            !.exists = (entry[t] # None)]]
    /\ UNCHANGED <<analysis, entry, outbox, raced>>

(* The workers between the lookup of template t and its write.             *)
Looking(t) == {a \in Attempts : worker[a].step = "write" /\ worker[a].template = t}

(* upsert writes: a new entry gets both times, a known one its last time.  *)
(* An error, of the lookup already or here, is logged; the write may have  *)
(* been made all the same.                                                 *)
Write(a) ==
    LET w == worker[a]
        seen == Seen[Record(a)]
    IN  /\ w.step = "write"
        /\ \/ /\ entry' = [entry EXCEPT ![w.template] =
                   IF w.exists THEN [@ EXCEPT !.last = seen]
                               ELSE [first |-> seen, last |-> seen]]
              /\ raced' = IF entry[w.template] = None /\ Looking(w.template) # {a}
                            THEN raced \cup {w.template} ELSE raced
           \/ UNCHANGED <<entry, raced>>
        /\ worker' = [worker EXCEPT ![a].step = "report", ![a].exists = FALSE]
        /\ UNCHANGED <<analysis, outbox>>

(* A faulty form: what cannot be read back is reported as never seen.      *)
ReportNever(a) ==
    LET w == worker[a]
        l == Record(a)
        result(e) == IF e = None THEN Sent(l, w.template, 0, 0)
                                 ELSE Sent(l, w.template, e.first, e.last)
    IN  /\ w.step = "report"
        /\ \/ Advance(a, Append(w.results, result(entry[w.template])))
           \/ Advance(a, Append(w.results, result(None)))
        /\ UNCHANGED <<analysis, entry, outbox, raced>>
(* The entry is read back: the result carries its times, or the record's   *)
(* own if there is none or the read fails.                                 *)
Report(a) ==
    LET w == worker[a]
        l == Record(a)
        result(e) == IF e = None THEN Sent(l, w.template, Seen[l], Seen[l])
                                 ELSE Sent(l, w.template, e.first, e.last)
    IN  /\ w.step = "report"
        /\ \/ Advance(a, Append(w.results, result(entry[w.template])))
           \/ Advance(a, Append(w.results, result(None)))
        /\ UNCHANGED <<analysis, entry, outbox, raced>>

-----------------------------------------------------------------------------
MinerNext ==
    \/ \E b \in MinerBatches : Analyze(b) \/ Answer(b) \/ Retry(b)
    \/ \E a \in Attempts : Skip(a) \/ LookUp(a) \/ Write(a) \/ Report(a)

(* The values the variables take.                                          *)
MinerTypeOK ==
    /\ analysis \in [MinerBatches -> 0 .. Done]
    /\ worker \in [Attempts -> Workers]
    /\ entry \in [Templates -> Times \cup {None}]
    /\ outbox \in Seq(Results) /\ raced \subseteq Templates
=============================================================================
