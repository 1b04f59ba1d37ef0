------------------------------ MODULE Sampling ------------------------------
(***************************************************************************)
(* The sampling decision, end to end: the sampler client of each gateway   *)
(* (gateway/pkg/sampler/client.go) with its circuit breaker, the sampler   *)
(* service's DecideBatch, and the counters and moving averages the service *)
(* keeps in Redis.  A handler makes several round trips to Redis for every *)
(* item, the handlers of several calls interleave between them, and a      *)
(* handler whose caller has given up may go on.                            *)
(*                                                                         *)
(* The moving average is a floating-point number the code formats with six *)
(* decimals; here it is an integer, in units of 1/Scale.  Window sums are  *)
(* left out: they go into the answer and into the reason of a decision the *)
(* budget stage takes, never into the decision itself, because that stage  *)
(* applies the same modulus as the stage after it.                         *)
(***************************************************************************)
EXTENDS Integers, Sequences, FiniteSets, Functions

CONSTANTS
    Gateways, Calls,          \* calls are numbers; a gateway makes its own
    Client,                   \* [Calls -> Gateways]   one at a time, in order
    Records,
    Batch,                    \* [Calls -> Seq(Records)]
    Stream,                   \* [Records -> Streams]: tenant, template,
    Streams,                  \*   service and environment
    Minute,                   \* [Records -> Nat], all within one day
    Level,                    \* [Records -> Severities]: what the log line says
    Schema,                   \* [Records -> what Normalized.Schema says]
    Namespace,                \* [Records -> Namespaces]
    EnforceSeverity,          \* the severities of EnforcementConfig set to true
    EnforceNamespace,         \* EnforcementConfig.ByNamespace: its true entries
    MaxFailures,              \* NewBreaker(5, 30s)
    NoveltyOn, Log2On, WarmupN,
    SteadyK,                  \* [Severities -> Nat \ {0}]
    AlphaNum, AlphaDen,       \* GetEMAAlpha
    FactorNum, FactorDen,     \* SpikeFactor
    MinSpike, Scale

Severities == {"unspecified", "debug", "info", "warn", "error", "fatal"}
Minutes == {Minute[r] : r \in Records}
Position(c) == 1 .. Len(Batch[c])

ASSUME SamplingAssumption ==
    /\ Calls \subseteq Nat /\ Client \in [Calls -> Gateways]
    /\ Batch \in [Calls -> Seq(Records)]
    /\ Stream \in [Records -> Streams] /\ Minute \in [Records -> Nat]
    /\ Level \in [Records -> Severities]
    /\ EnforceSeverity \subseteq Severities
    /\ SteadyK \in [Severities -> Nat \ {0}] /\ WarmupN \in Nat
    /\ NoveltyOn \in BOOLEAN /\ Log2On \in BOOLEAN
    /\ {MaxFailures, AlphaNum, AlphaDen, FactorNum, FactorDen, MinSpike, Scale}
         \subseteq Nat \ {0}
    /\ AlphaNum < AlphaDen
    \* the batcher's flush sends no empty batch
    /\ \A c \in Calls : Batch[c] # <<>>
    \* a record is one position of one call
    /\ \A c, d \in Calls : \A i \in Position(c), j \in Position(d) :
         Batch[c][i] = Batch[d][j] => c = d /\ i = j

(* The least minute count that can be a spike lies beyond what the average *)
(* can lag behind a count it follows one by one, (1 - alpha) / alpha, by   *)
(* more than the last decimal's rounding.  The defaults are far inside:    *)
(* alpha 0.067, factor 3, at least 100 a minute, six decimals.             *)
ASSUME LagAssumption ==
    2 * Scale * ((FactorNum - FactorDen) * MinSpike * AlphaNum
                   - FactorNum * (AlphaDen - AlphaNum))
        > FactorNum * AlphaDen

VARIABLES
    call,        \* [Calls -> {"new", "waiting", "done"}]: the gateway's side
    handler,     \* [Calls -> Handlers]: the service's side
    bucket,      \* Redis: [Keys -> [Minutes -> Nat]]
    total,       \* Redis: [Keys -> Nat]
    ema,         \* Redis: [Keys -> Nat], 0 for a missing key
    failures,    \* [Gateways -> Nat]
    cooling,     \* the gateways whose breaker has resetTime ahead
    fate,        \* [Records -> {"undecided", "kept", "suppressed"}]
    \* what the properties need to remember
    number,      \* [Records -> Nat]: the total a record's Touch was given
    outcomes,    \* [Gateways -> Seq(BOOLEAN)]: calls sent, TRUE if answered
    disturbed,   \* the keys whose updates were not one after the other
    spiked       \* the records the spike stage matched

vars == <<call, handler, bucket, total, ema, failures, cooling, fate,
          number, outcomes, disturbed, spiked>>
clientVars == <<call, failures, cooling, fate, outcomes>>
redisVars == <<bucket, total, ema>>

(* mapSeverity is given Normalized.Schema.                                 *)
mapSeverity(r) == IF Schema[r] \in Severities THEN Schema[r] ELSE "unspecified"

(* baseKey                                                                 *)
Key(r) == <<Stream[r], mapSeverity(r)>>
Keys == {Key(r) : r \in Records}

shouldEnforce(r) ==
    \/ Schema[r] \in EnforceSeverity \cup {"fatal"}
    \/ Namespace[r] \in EnforceNamespace

-----------------------------------------------------------------------------
(* The policy                                                              *)

SeverityKeep == {"error", "fatal"}
IsPowerOfTwo(n) == \E k \in 0 .. n : n = 2 ^ k

(* A faulty form: the average does not decay.                              *)
NewEmaUndecayed(cur, old) ==
    (2 * AlphaNum * cur * Scale + AlphaDen) \div (2 * AlphaDen)
NewEma(cur, old) ==
    (2 * (AlphaNum * cur * Scale + (AlphaDen - AlphaNum) * old) + AlphaDen)
        \div (2 * AlphaDen)

Spikes(cur, e) ==
    /\ e > 0
    /\ cur * Scale * FactorDen >= FactorNum * e
    /\ cur >= MinSpike

(* The totals that keep a record whatever the rates are.                   *)
Milestone(sev, n) ==
    \/ NoveltyOn /\ n <= 1
    \/ n <= WarmupN
    \/ Log2On /\ IsPowerOfTwo(n)
    \/ n % SteadyK[sev] = 0

Keeps(sev, n, cur, e) ==
    \/ sev \in SeverityKeep
    \/ Spikes(cur, e)
    \/ Milestone(sev, n)

-----------------------------------------------------------------------------
Steps == {"idle", "count", "read", "write", "answered", "failed"}
Handlers == [step : Steps, item : Nat, n : Nat, cur : Nat, ema : Nat,
             answer : Seq(BOOLEAN)]

Init ==
    /\ call = [c \in Calls |-> "new"]
    /\ handler = [c \in Calls |-> [step |-> "idle", item |-> 1, n |-> 0,
                                   cur |-> 0, ema |-> 0, answer |-> <<>>]]
    /\ bucket = [k \in Keys |-> [m \in Minutes |-> 0]]
    /\ total = [k \in Keys |-> 0]
    /\ ema = [k \in Keys |-> 0]
    /\ failures = [g \in Gateways |-> 0]
    /\ cooling = {}
    /\ fate = [r \in Records |-> "undecided"]
    /\ number = [r \in Records |-> 0]
    /\ outcomes = [g \in Gateways |-> <<>>]
    /\ disturbed = {} /\ spiked = {}

-----------------------------------------------------------------------------
(* Breaker                                                                 *)

Open(g) == failures[g] >= MaxFailures /\ g \in cooling

(* A faulty form: an answered call takes one failure back.                 *)
SuccessDecrements(g) ==
    /\ failures' = [failures EXCEPT ![g] = @ - 1]
    /\ cooling' = cooling \ {g}
    /\ outcomes' = [outcomes EXCEPT ![g] = Append(@, TRUE)]
(* A faulty form: an answered call leaves the count of failures.           *)
SuccessForgotten(g) ==
    /\ UNCHANGED failures
    /\ cooling' = cooling \ {g}
    /\ outcomes' = [outcomes EXCEPT ![g] = Append(@, TRUE)]
Success(g) ==
    /\ failures' = [failures EXCEPT ![g] = 0]
    /\ cooling' = cooling \ {g}
    /\ outcomes' = [outcomes EXCEPT ![g] = Append(@, TRUE)]

Fail(g) ==
    /\ failures' = [failures EXCEPT ![g] = @ + 1]
    /\ cooling' = IF failures[g] + 1 >= MaxFailures THEN cooling \cup {g}
                                                     ELSE cooling
    /\ outcomes' = [outcomes EXCEPT ![g] = Append(@, FALSE)]

(* The thirty seconds of an open breaker pass.                             *)
Cool(g) ==
    /\ g \in cooling
    /\ cooling' = cooling \ {g}
    /\ UNCHANGED <<call, handler, redisVars, failures, fate, number, outcomes,
                   disturbed, spiked>>

-----------------------------------------------------------------------------
(* The gateway's side of a call                                            *)

InBatch(c, r) == \E i \in Position(c) : Batch[c][i] = r

(* Every record of the batch gets fallbackDecision, which keeps it.        *)
Fallback(c) == fate' = [r \in Records |-> IF InBatch(c, r) THEN "kept" ELSE fate[r]]

(* Decisions are joined to records by record_index; what is suppressed     *)
(* but not enforced goes the way of the kept ones.                         *)
Route(c) ==
    fate' = [r \in Records |->
               IF ~InBatch(c, r) THEN fate[r]
               ELSE LET i == CHOOSE i \in Position(c) : Batch[c][i] = r
                    IN  IF shouldEnforce(r) /\ ~handler[c].answer[i]
                          THEN "suppressed" ELSE "kept"]

(* The call of a batch: an open breaker decides it without the service.    *)
Begin(c) ==
    /\ call[c] = "new"
    /\ \A d \in Calls : d < c /\ Client[d] = Client[c] => call[d] = "done"
    /\ IF Open(Client[c])
         THEN /\ Fallback(c)
              /\ call' = [call EXCEPT ![c] = "done"]
              /\ UNCHANGED handler
         ELSE /\ call' = [call EXCEPT ![c] = "waiting"]
              /\ handler' = [handler EXCEPT ![c].step = "count"]
              /\ UNCHANGED fate
    /\ UNCHANGED <<redisVars, failures, cooling, number, outcomes, disturbed,
                   spiked>>

(* A faulty form: an answer is applied even after the deadline.            *)
ReplyLate(c) ==
    /\ call[c] # "new" /\ handler[c].step = "answered"
    /\ call' = [call EXCEPT ![c] = "done"]
    /\ handler' = [handler EXCEPT ![c].step = "idle"]
    /\ Route(c) /\ Success(Client[c])
    /\ UNCHANGED <<redisVars, number, disturbed, spiked>>
Reply(c) ==
    /\ call[c] = "waiting" /\ handler[c].step = "answered"
    /\ call' = [call EXCEPT ![c] = "done"]
    /\ Route(c) /\ Success(Client[c])
    /\ UNCHANGED <<handler, redisVars, number, disturbed, spiked>>

(* The call returns an error: the service's own, a broken connection, or   *)
(* the deadline, wherever the handler is; the handler may go on.           *)
GiveUp(c) ==
    /\ call[c] = "waiting"
    /\ call' = [call EXCEPT ![c] = "done"]
    /\ Fallback(c) /\ Fail(Client[c])
    /\ UNCHANGED <<handler, redisVars, number, disturbed, spiked>>

-----------------------------------------------------------------------------
(* The service's side: for every item, Store.Touch and then evaluate       *)

Item(c) == Batch[c][handler[c].item]
MidTouch(c, k) == handler[c].step \in {"read", "write"} /\ Key(Item(c)) = k

(* A faulty form: the total is the one the last handler left behind.       *)
IncrStale(k, m) ==
    /\ bucket' = [bucket EXCEPT ![k][m] = @ + 1]
    /\ total' = [total EXCEPT ![k] = 1 + Cardinality({r \in Records :
                   Key(r) = k /\ number[r] > 0 /\ fate[r] # "undecided"})]
(* The first transaction counts the record in its minute and in the total. *)
Incr(k, m) ==
    /\ bucket' = [bucket EXCEPT ![k][m] = @ + 1]
    /\ total' = [total EXCEPT ![k] = @ + 1]

Count(c) ==
    LET r == Item(c)
        k == Key(r)
    IN  /\ handler[c].step = "count"
        /\ Incr(k, Minute[r])
        /\ number' = [number EXCEPT ![r] = total'[k]]
        /\ handler' = [handler EXCEPT
             ![c] = [@ EXCEPT !.step = "read", !.n = total'[k],
                              !.cur = bucket'[k][Minute[r]]]]
        /\ disturbed' =
             IF \/ \E d \in Calls : MidTouch(d, k)
                \/ \E m \in Minutes : m > Minute[r] /\ bucket[k][m] > 0
               THEN disturbed \cup {k} ELSE disturbed
        /\ UNCHANGED <<clientVars, ema, spiked>>

(* The transaction fails, or only its reply is lost: the handler ends with *)
(* an error, what the earlier items did stays done.                        *)
CountFails(c) ==
    LET r == Item(c)
        k == Key(r)
    IN  /\ handler[c].step = "count"
        /\ handler' = [handler EXCEPT ![c].step = "failed"]
        /\ \/ UNCHANGED <<bucket, total, number, disturbed>>
           \/ /\ Incr(k, Minute[r])
              /\ number' = [number EXCEPT ![r] = total'[k]]
              /\ disturbed' = disturbed \cup {k}
        /\ UNCHANGED <<clientVars, ema, spiked>>

(* The second transaction reads the average; an error reads as no average. *)
ReadEma(c) ==
    LET k == Key(Item(c)) IN
    /\ handler[c].step = "read"
    /\ \/ /\ handler' = [handler EXCEPT ![c].step = "write", ![c].ema = ema[k]]
          /\ UNCHANGED disturbed
       \/ /\ handler' = [handler EXCEPT ![c].step = "write", ![c].ema = 0]
          /\ disturbed' = disturbed \cup {k}
    /\ UNCHANGED <<clientVars, redisVars, number, spiked>>

(* The new average goes back and an error is ignored; then evaluate takes  *)
(* the decision, and the handler goes on to the next item or answers.      *)
Decide(c) ==
    LET r == Item(c)
        h == handler[c]
        e == NewEma(h.cur, h.ema)
        last == h.item = Len(Batch[c])
    IN  /\ h.step = "write"
        /\ \/ ema' = [ema EXCEPT ![Key(r)] = e] /\ UNCHANGED disturbed
           \/ disturbed' = disturbed \cup {Key(r)} /\ UNCHANGED ema
        /\ handler' = [handler EXCEPT ![c] =
             [step |-> IF last THEN "answered" ELSE "count",
              item |-> IF last THEN h.item ELSE h.item + 1,
              n |-> 0, cur |-> 0, ema |-> 0,
              answer |-> Append(h.answer, Keeps(mapSeverity(r), h.n, h.cur, e))]]
        /\ spiked' = IF Spikes(h.cur, e) THEN spiked \cup {r} ELSE spiked
        /\ UNCHANGED <<clientVars, bucket, total, number>>

-----------------------------------------------------------------------------
Next ==
    \/ \E c \in Calls : \/ Begin(c) \/ Reply(c) \/ GiveUp(c)
                        \/ Count(c) \/ CountFails(c) \/ ReadEma(c)
                        \/ Decide(c)
    \/ \E g \in Gateways : Cool(g)

Spec == Init /\ [][Next]_vars

-----------------------------------------------------------------------------
(* Properties                                                              *)

(* The values the variables take.                                          *)
TypeOK ==
    /\ call \in [Calls -> {"new", "waiting", "done"}]
    /\ handler \in [Calls -> Handlers]
    /\ bucket \in [Keys -> [Minutes -> Nat]]
    /\ total \in [Keys -> Nat] /\ ema \in [Keys -> Nat]
    /\ failures \in [Gateways -> Nat] /\ cooling \subseteq Gateways
    /\ fate \in [Records -> {"undecided", "kept", "suppressed"}]
    /\ number \in [Records -> Nat]
    /\ outcomes \in [Gateways -> Seq(BOOLEAN)]
    /\ disturbed \subseteq Keys /\ spiked \subseteq Records

(* What is dropped is represented by what is kept: however the handlers of *)
(* a key interleave, fail and are abandoned, a suppressed record drew no   *)
(* milestone itself, and each milestone before its own number was drawn by *)
(* a record of its key that is not suppressed.                             *)
SuppressedAreRepresented ==
    \A r \in Records : fate[r] = "suppressed" =>
        /\ number[r] > 0 /\ ~Milestone(mapSeverity(r), number[r])
        /\ \A n \in 1 .. number[r] : Milestone(mapSeverity(r), n) =>
             \E q \in Records : /\ Key(q) = Key(r) /\ number[q] = n
                                /\ fate[q] # "suppressed"

(* Breaker: the failures that open it are the latest calls of its gateway, *)
(* all in a row: no answer lies between them, and a call the open breaker  *)
(* decided itself is not one of them.                                      *)
OpenIsEarned ==
    \A g \in Gateways : LET o == outcomes[g] IN
        /\ failures[g] <= Len(o)
        /\ \A i \in Len(o) - failures[g] + 1 .. Len(o) : ~o[i]

(* The spike stage compares a minute's count with an average that already  *)
(* contains it, taken once per record.  As long as the updates of a key    *)
(* come one after the other, none is lost and its minutes do not go back,  *)
(* the average follows the count too closely for the stage ever to match,  *)
(* whatever the rate does.                                                 *)
SpikesComeFromDisorder == \A r \in spiked : Key(r) \in disturbed

(* A decision is final: an answer that comes after the deadline, or a      *)
(* handler that goes on, changes nothing for the records of its batch.     *)
DecisionsAreFinal ==
    [][\A r \in Records : fate[r] # "undecided" => fate'[r] = fate[r]]_vars

(* docs/_docs/reference/component-services.md:140, "HIGH SEVERITY -> KEEP  *)
(* (error, fatal always kept)".  The gateway fills the severity with the   *)
(* schema of the line, which is never one.                                 *)
ErrorsAreKept ==
    \A r \in Records : Level[r] \in SeverityKeep => fate[r] # "suppressed"
=============================================================================
