--------------------------- MODULE GatewayPipeline ---------------------------
(***************************************************************************)
(* The gateway's asynchronous pipeline (gateway/pkg/server/http.go and the *)
(* miner and sampler batchers it wires together): HTTP handlers enqueue    *)
(* requests, and five goroutines carry their records over bounded channels *)
(*                                                                         *)
(*   rawQueue -> raw worker -> miner batcher -> miner bridge               *)
(*            -> sampler batcher -> Loki bridge -> Loki sink               *)
(*                              \-> suppressed                             *)
(*                                                                         *)
(* while Stop takes the stages down one after the other.  One action is    *)
(* one channel operation, or one call a goroutine makes between two of     *)
(* them.  The records a goroutine holds in local variables have places of  *)
(* their own next to the channels, so at any moment every record is at one *)
(* position of one place.  What the miner and the sampler answer is left   *)
(* open: a call that fails gives each record of the batch a fallback.      *)
(***************************************************************************)
EXTENDS Integers, Sequences, FiniteSets, SequencesExt

CONSTANTS
    Requests,         \* the well-formed ingest requests
    Records,          \* the log records they carry
    RecordsOf,        \* [Requests -> Seq(Records)]
    LokiRequests,     \* the requests that arrive on the Loki push endpoint
    Enforced,         \* the records shouldEnforce holds for
    RawCap,           \* capacity of rawQueue: 2 * MaxBatch
    ChanCap,          \* capacity of every other channel: 4096
    MinerBatch, SamplerBatch,   \* the batchers' MaxBatch
    CanStop           \* whether Stop is ever called

ASSUME PipelineAssumption ==
    /\ RecordsOf \in [Requests -> Seq(Records)]
    /\ LokiRequests \subseteq Requests /\ Enforced \subseteq Records
    /\ RawCap \in Nat \ {0} /\ ChanCap \in Nat \ {0}
    /\ MinerBatch \in Nat \ {0} /\ SamplerBatch \in Nat \ {0}
    /\ CanStop \in BOOLEAN
    \* a record is one position of one request
    /\ \A r \in Requests : IsInjective(RecordsOf[r])
    /\ \A q, r \in Requests :
         q # r => ToSet(RecordsOf[q]) \cap ToSet(RecordsOf[r]) = {}

(* The channels, and the local variables that hold records between two     *)
(* channel operations.                                                     *)
Channels == {"minerIn", "minerOut", "samplerIn", "kept", "suppressed"}
Locals == {"work",        \* rest of the batch the raw worker sends
           "minerBuf",    \* buf of the miner batcher,
           "mined",       \* and what its flush has yet to send
           "bridge",      \* the record the miner bridge sends
           "samplerBuf",  \* buf of the sampler batcher,
           "decided",     \* and what its flush has yet to route
           "toSink"}      \* the record the Loki bridge enqueues
Places == Channels \cup Locals

Workers == {"rawWorker", "minerBridge", "lokiBridge"}
Batchers == {"minerBatcher", "samplerBatcher"}

(* The steps of Stop, in order; "failed" is an expired Shutdown context.   *)
Stages == {"running", "sinks", "sampler", "miner", "workers", "shutdown",
           "stopped", "failed"}

VARIABLES
    req,          \* [Requests -> {"new", "handling", "accepted", "refused"}]
    forwarded,    \* requests handed to the raw sink
    rawQueue,     \* accepted requests the raw worker has not taken
    entered,      \* records the raw worker took, in that order
    at,           \* [Places -> Seq(Records)]
    toIndex,      \* the record the miner bridge publishes
    offered,      \* records offered to the index feed, in that order
    suppress,     \* records the sampler decided to suppress
    routed,       \* records the sampler batcher has routed, in that order
    sunk,         \* records given to the Loki sink, in that order
    late,         \* those given to it after its last flush
    goroutine,    \* [Workers \cup Batchers -> {"on", "draining", "off"}]
    stage

vars == <<req, forwarded, rawQueue, entered, at, toIndex, offered, suppress,
          routed, sunk, late, goroutine, stage>>

handlerVars == <<req, forwarded>>
indexVars == <<toIndex, offered>>
samplerVars == <<suppress, routed>>
sinkVars == <<sunk, late>>

-----------------------------------------------------------------------------
Init ==
    /\ req = [r \in Requests |-> "new"]
    /\ forwarded = {} /\ rawQueue = <<>> /\ entered = <<>>
    /\ at = [p \in Places |-> <<>>]
    /\ toIndex = <<>> /\ offered = <<>>
    /\ suppress = {} /\ routed = <<>>
    /\ sunk = <<>> /\ late = {}
    /\ goroutine = [g \in Workers \cup Batchers |-> "on"]
    /\ stage = "running"

(* A faulty form of the capacity: one place too many.                      *)
RoomForOneMore(c) == Len(at[c]) <= ChanCap
Room(c) == Len(at[c]) < ChanCap

(* The oldest record of p goes to the end of q; or all of p's records do.  *)
Move(p, q) ==
    /\ at[p] # <<>>
    /\ at' = [at EXCEPT ![p] = Tail(@), ![q] = Append(@, Head(at[p]))]
MoveAll(p, q) ==
    /\ at[p] # <<>>
    /\ at' = [at EXCEPT ![p] = <<>>, ![q] = at[p]]

(* Stop closes the batchers' stop channels and cancels workerCtx.          *)
StopSeen(g) ==
    \/ g = "samplerBatcher" /\ stage \notin {"running", "sinks"}
    \/ g = "minerBatcher" /\ stage \notin {"running", "sinks", "sampler"}
    \/ g \in Workers
         /\ stage \notin {"running", "sinks", "sampler", "miner"}

-----------------------------------------------------------------------------
(* HTTP handlers                                                           *)

(* A request is parsed; a Loki push goes to the raw sink at once.          *)
Handle(r) ==
    /\ req[r] = "new" /\ stage \notin {"shutdown", "stopped", "failed"}
    /\ req' = [req EXCEPT ![r] = "handling"]
    /\ forwarded' = IF r \in LokiRequests THEN forwarded \cup {r} ELSE forwarded
    /\ UNCHANGED <<rawQueue, entered, at, indexVars, samplerVars, sinkVars,
                   goroutine, stage>>

(* enqueueRawBatch: the queue takes the batch ...                          *)
Accept(r) ==
    /\ req[r] = "handling" /\ Len(rawQueue) < RawCap
    /\ req' = [req EXCEPT ![r] = "accepted"]
    /\ rawQueue' = Append(rawQueue, r)
    /\ UNCHANGED <<forwarded, entered, at, indexVars, samplerVars, sinkVars,
                   goroutine, stage>>

(* A faulty form: the batch is queued and the timeout reported all the same. *)
RefuseQueued(r) ==
    /\ req[r] = "handling" /\ Len(rawQueue) < RawCap
    /\ req' = [req EXCEPT ![r] = "refused"]
    /\ rawQueue' = Append(rawQueue, r)
    /\ UNCHANGED <<forwarded, entered, at, indexVars, samplerVars, sinkVars,
                   goroutine, stage>>

(* ... or EnqueueTimeout passes or the client goes away before.            *)
Refuse(r) ==
    /\ req[r] = "handling"
    /\ req' = [req EXCEPT ![r] = "refused"]
    /\ UNCHANGED <<forwarded, rawQueue, entered, at, indexVars, samplerVars,
                   sinkVars, goroutine, stage>>

-----------------------------------------------------------------------------
(* runRawWorker                                                            *)

(* A faulty form: the miner bridge does not wait for publishing to end.    *)
AtSelectEarly(g) ==
    /\ goroutine[g] = "on"
    /\ CASE g = "rawWorker" -> at["work"] = <<>>
         [] g = "minerBatcher" -> /\ at["mined"] = <<>>
                                  /\ Len(at["minerBuf"]) < MinerBatch
         [] g = "minerBridge" -> at["bridge"] = <<>>
         [] g = "samplerBatcher" -> /\ at["decided"] = <<>>
                                    /\ Len(at["samplerBuf"]) < SamplerBatch
         [] g = "lokiBridge" -> at["toSink"] = <<>>
AtSelect(g) ==
    /\ goroutine[g] = "on"
    /\ CASE g = "rawWorker" -> at["work"] = <<>>
         [] g = "minerBatcher" -> /\ at["mined"] = <<>>
                                  /\ Len(at["minerBuf"]) < MinerBatch
         [] g = "minerBridge" -> at["bridge"] = <<>> /\ toIndex = <<>>
         [] g = "samplerBatcher" -> /\ at["decided"] = <<>>
                                    /\ Len(at["samplerBuf"]) < SamplerBatch
         [] g = "lokiBridge" -> at["toSink"] = <<>>

TakeBatch ==
    /\ AtSelect("rawWorker") /\ rawQueue # <<>>
    /\ LET records == RecordsOf[Head(rawQueue)]
       IN /\ at' = [at EXCEPT !["work"] = records]
          /\ entered' = entered \o records
    /\ rawQueue' = Tail(rawQueue)
    /\ UNCHANGED <<handlerVars, indexVars, samplerVars, sinkVars, goroutine,
                   stage>>

(* The send blocks while the channel is full, whatever the context says.   *)
SendRecord ==
    /\ Room("minerIn") /\ Move("work", "minerIn")
    /\ UNCHANGED <<handlerVars, rawQueue, entered, indexVars, samplerVars,
                   sinkVars, goroutine, stage>>

(* A worker's select sees workerCtx cancelled; another ready case may win. *)
WorkerReturn(g) ==
    /\ g \in Workers /\ AtSelect(g) /\ StopSeen(g)
    /\ goroutine' = [goroutine EXCEPT ![g] = "off"]
    /\ UNCHANGED <<handlerVars, rawQueue, entered, at, indexVars, samplerVars,
                   sinkVars, stage>>

-----------------------------------------------------------------------------
(* The miner batcher                                                       *)

PipelineMove ==
    UNCHANGED <<handlerVars, rawQueue, entered, sinkVars, goroutine, stage>>

MinerCollect ==
    /\ AtSelect("minerBatcher") /\ Move("minerIn", "minerBuf")
    /\ PipelineMove /\ UNCHANGED <<indexVars, samplerVars>>

(* Faulty forms: a batch the miner fails on is dropped; no timer.          *)
MinerFlushDropping ==
    /\ goroutine["minerBatcher"] # "off" /\ at["mined"] = <<>>
    /\ at["minerBuf"] # <<>> /\ at' = [at EXCEPT !["minerBuf"] = <<>>]
    /\ PipelineMove /\ UNCHANGED <<indexVars, samplerVars>>
MinerFlushWhenFull ==
    /\ goroutine["minerBatcher"] # "off" /\ at["mined"] = <<>>
    /\ Len(at["minerBuf"]) = MinerBatch
    /\ MoveAll("minerBuf", "mined")
    /\ PipelineMove /\ UNCHANGED <<indexVars, samplerVars>>

(* flush, because the batch is full, the timer fired or Stop was called.   *)
MinerFlush ==
    /\ goroutine["minerBatcher"] # "off" /\ at["mined"] = <<>>
    /\ MoveAll("minerBuf", "mined")
    /\ PipelineMove /\ UNCHANGED <<indexVars, samplerVars>>

MinerEmit ==
    /\ Room("minerOut") /\ Move("mined", "minerOut")
    /\ PipelineMove /\ UNCHANGED <<indexVars, samplerVars>>

(* Either batcher: the select sees stopCh closed, the last flush is done,  *)
(* and run returns.                                                        *)
BatcherDrain(g) ==
    /\ g \in Batchers /\ AtSelect(g) /\ StopSeen(g)
    /\ goroutine' = [goroutine EXCEPT ![g] = "draining"]
    /\ UNCHANGED <<handlerVars, rawQueue, entered, at, indexVars, samplerVars,
                   sinkVars, stage>>
BatcherReturn(g) ==
    /\ g \in Batchers /\ goroutine[g] = "draining"
    /\ IF g = "minerBatcher" THEN at["minerBuf"] \o at["mined"] = <<>>
                             ELSE at["samplerBuf"] \o at["decided"] = <<>>
    /\ goroutine' = [goroutine EXCEPT ![g] = "off"]
    /\ UNCHANGED <<handlerVars, rawQueue, entered, at, indexVars, samplerVars,
                   sinkVars, stage>>

-----------------------------------------------------------------------------
(* runMinerToSamplerBridge                                                 *)

BridgeTake ==
    /\ AtSelect("minerBridge") /\ Move("minerOut", "bridge")
    /\ PipelineMove /\ UNCHANGED <<indexVars, samplerVars>>

BridgeSend ==
    /\ Room("samplerIn") /\ Move("bridge", "samplerIn")
    /\ toIndex' = at["bridge"]
    /\ PipelineMove /\ UNCHANGED <<offered, samplerVars>>

(* ProcessMinedRecord ends, and its error is ignored.                      *)
BridgePublish ==
    /\ toIndex # <<>>
    /\ offered' = offered \o toIndex /\ toIndex' = <<>>
    /\ PipelineMove /\ UNCHANGED <<at, samplerVars>>

-----------------------------------------------------------------------------
(* The sampler batcher                                                     *)

SamplerCollect ==
    /\ AtSelect("samplerBatcher") /\ Move("samplerIn", "samplerBuf")
    /\ PipelineMove /\ UNCHANGED <<indexVars, samplerVars>>

(* The sampler suppresses some records of the batch, none when it fails or *)
(* the breaker is open.                                                    *)
SamplerFlush(S) ==
    /\ goroutine["samplerBatcher"] # "off" /\ at["decided"] = <<>>
    /\ S \subseteq ToSet(at["samplerBuf"])
    /\ suppress' = suppress \cup S
    /\ MoveAll("samplerBuf", "decided")
    /\ PipelineMove /\ UNCHANGED <<indexVars, routed>>

(* A suppress decision counts only where it is enforced.                   *)
Dropped(e) == e \in suppress /\ e \in Enforced

(* A faulty form: every suppress decision counts, enforced or not.         *)
RouteUnenforced ==
    /\ at["decided"] # <<>>
    /\ LET c == IF Head(at["decided"]) \in suppress THEN "suppressed" ELSE "kept"
       IN Room(c) /\ Move("decided", c)
    /\ routed' = Append(routed, Head(at["decided"]))
    /\ PipelineMove /\ UNCHANGED <<indexVars, suppress>>

Route ==
    /\ at["decided"] # <<>>
    /\ LET c == IF Dropped(Head(at["decided"])) THEN "suppressed" ELSE "kept"
       IN Room(c) /\ Move("decided", c)
    /\ routed' = Append(routed, Head(at["decided"]))
    /\ PipelineMove /\ UNCHANGED <<indexVars, suppress>>

-----------------------------------------------------------------------------
(* runSamplerToLokiBridge                                                  *)

LokiTake ==
    /\ AtSelect("lokiBridge") /\ Move("kept", "toSink")
    /\ PipelineMove /\ UNCHANGED <<indexVars, samplerVars>>

LokiEnqueue ==
    /\ at["toSink"] # <<>>
    /\ sunk' = sunk \o at["toSink"]
    /\ late' = IF stage = "running" THEN late ELSE late \cup ToSet(at["toSink"])
    /\ at' = [at EXCEPT !["toSink"] = <<>>]
    /\ UNCHANGED <<handlerVars, rawQueue, entered, indexVars, samplerVars,
                   goroutine, stage>>

-----------------------------------------------------------------------------
(* Stop                                                                    *)

Advance(from, to) ==
    /\ stage = from /\ stage' = to
    /\ UNCHANGED <<handlerVars, rawQueue, entered, at, indexVars, samplerVars,
                   sinkVars, goroutine>>

StopSinks == CanStop /\ Advance("running", "sinks")
StopSampler == Advance("sinks", "sampler")
StopMiner == Advance("sampler", "miner")
CancelWorkers == Advance("miner", "workers")

(* A faulty form: workerWg counts the raw worker alone.                    *)
JoinRawWorker == goroutine["rawWorker"] = "off" /\ Advance("workers", "shutdown")

(* workerWg counts the three workers, not the batchers.                    *)
JoinWorkers ==
    /\ \A g \in Workers : goroutine[g] = "off"
    /\ Advance("workers", "shutdown")

(* Shutdown waits for the handlers, as long as its context allows.         *)
ShutdownReturns ==
    /\ \A r \in Requests : req[r] # "handling"
    /\ Advance("shutdown", "stopped")
ShutdownExpires ==
    /\ \E r \in Requests : req[r] = "handling"
    /\ Advance("shutdown", "failed")

Stop == \/ StopSinks \/ StopSampler \/ StopMiner \/ CancelWorkers
        \/ JoinWorkers \/ ShutdownReturns \/ ShutdownExpires

-----------------------------------------------------------------------------
Next ==
    \/ \E r \in Requests : Handle(r) \/ Accept(r) \/ Refuse(r)
    \/ TakeBatch \/ SendRecord
    \/ MinerCollect \/ MinerFlush \/ MinerEmit
    \/ BridgeTake \/ BridgeSend \/ BridgePublish
    \/ SamplerCollect \/ Route
    \/ \E S \in SUBSET Records : SamplerFlush(S)
    \/ LokiTake \/ LokiEnqueue
    \/ \E g \in Workers : WorkerReturn(g)
    \/ \E g \in Batchers : BatcherDrain(g) \/ BatcherReturn(g)
    \/ Stop

Spec == Init /\ [][Next]_vars

(***************************************************************************)
(* Fairness.  A goroutine that can take a step takes one: timers fire, and *)
(* every call to the miner, the sampler and the index feed has a timeout.  *)
(* A select chooses among its ready cases at random, so it does not pass   *)
(* over a closed stop channel for ever: strong fairness for the returns.   *)
(* Nothing makes a client send, or the enqueue timeout pass in time.       *)
(***************************************************************************)
Fairness ==
    /\ WF_vars(TakeBatch) /\ WF_vars(SendRecord)
    /\ WF_vars(MinerCollect) /\ WF_vars(MinerFlush) /\ WF_vars(MinerEmit)
    /\ WF_vars(BridgeTake) /\ WF_vars(BridgeSend) /\ WF_vars(BridgePublish)
    /\ WF_vars(SamplerCollect) /\ WF_vars(Route)
    /\ WF_vars(\E S \in SUBSET Records : SamplerFlush(S))
    /\ WF_vars(LokiTake) /\ WF_vars(LokiEnqueue)
    /\ \A g \in Workers : SF_vars(WorkerReturn(g))
    /\ \A g \in Batchers : SF_vars(BatcherDrain(g)) /\ WF_vars(BatcherReturn(g))
    /\ WF_vars(StopSampler \/ StopMiner \/ CancelWorkers \/ JoinWorkers)
    /\ WF_vars(ShutdownReturns \/ ShutdownExpires)
    /\ \A r \in Requests : WF_vars(Accept(r) \/ Refuse(r))

FairSpec == Spec /\ Fairness

-----------------------------------------------------------------------------
(* Properties                                                              *)

Typed ==
    /\ req \in [Requests -> {"new", "handling", "accepted", "refused"}]
    /\ forwarded \subseteq LokiRequests
    /\ rawQueue \in Seq(Requests)
    /\ at \in [Places -> Seq(Records)]
    /\ entered \in Seq(Records) /\ offered \in Seq(Records)
    /\ routed \in Seq(Records) /\ sunk \in Seq(Records)
    /\ toIndex \in Seq(Records)
    /\ suppress \subseteq Records /\ late \subseteq Records
    /\ goroutine \in [Workers \cup Batchers -> {"on", "draining", "off"}]
    /\ stage \in Stages

WithinCapacity ==
    /\ Len(rawQueue) <= RawCap
    /\ \A c \in Channels : Len(at[c]) <= ChanCap
    /\ Len(at["minerBuf"]) <= MinerBatch
    /\ Len(at["samplerBuf"]) <= SamplerBatch

(* Types, and no channel or batch ever holds more than its capacity        *)
(* (NewHTTP http.go:131-141, the batchers' MaxBatch).                      *)
TypeOK == Typed /\ WithinCapacity

(* Up to the sampler's routing no record is lost, duplicated or overtaken: *)
(* what the raw worker took is, in that order, what has been routed        *)
(* followed by what is on its way, the furthest first, through four        *)
(* goroutines, batch flushes and failures, and while Stop takes the stages *)
(* down (http.go:549-618, both batchers' run).                             *)
ToMiner == at["minerBuf"] \o (at["minerIn"] \o at["work"])
AfterMiner == at["bridge"] \o (at["minerOut"] \o (at["mined"] \o ToMiner))
AfterBridge ==
    at["decided"] \o (at["samplerBuf"] \o (at["samplerIn"] \o AfterMiner))
PipelineInOrder == entered = routed \o AfterBridge

(* The index feed is offered every mined record exactly once and in order, *)
(* whether or not publishing it succeeds, and lags the sampler's input by  *)
(* one record at most (http.go:603-613).                                   *)
IndexInOrder ==
    /\ entered = offered \o (toIndex \o AfterMiner)
    /\ Len(toIndex) <= 1 /\ Len(at["bridge"]) <= 1
    /\ toIndex # <<>> => at["bridge"] = <<>>

(* The routed records split into two streams without loss and in order: an *)
(* enforced suppression goes to the suppressed channel, everything else to *)
(* the Loki sink; so a fallback or a shadow decision never drops a record, *)
(* and nothing suppressed reaches Loki (sampler/batcher.go:94-120,         *)
(* http.go:627-635).  Selects: a is s without the records outside T (what  *)
(* SelectSeq computes, in the form a proof can use).                       *)
Selects(a, s, T) ==
    \E f \in [DOMAIN a -> DOMAIN s] :
        /\ \A i, j \in DOMAIN a : i < j => f[i] < f[j]
        /\ \A i \in DOMAIN a : a[i] = s[f[i]]
        /\ \A j \in DOMAIN s : s[j] \in T <=> \E i \in DOMAIN a : f[i] = j
RoutedInOrder ==
    /\ Selects(sunk \o (at["toSink"] \o at["kept"]), routed,
               Records \ (suppress \cap Enforced))
    /\ Selects(at["suppressed"], routed, suppress \cap Enforced)

(* 200 and 503 mean what the client takes them for: an accepted request is *)
(* queued or its records entered the pipeline, contiguous and once, and a  *)
(* refused one, which the client will send again, left nothing behind in   *)
(* the pipeline (enqueueRawBatch http.go:780-794).                         *)
AnswersAreTrue ==
    /\ IsInjective(rawQueue)
    /\ IsInjective(entered)
    /\ \A r \in Requests : req[r] # "accepted" => r \notin ToSet(rawQueue)
    /\ \A r \in Requests :
         IF req[r] = "accepted" /\ r \notin ToSet(rawQueue)
           THEN LET n == Len(RecordsOf[r])
                IN  \E i \in 0..(Len(entered) - n) :
                      SubSeq(entered, i + 1, i + n) = RecordsOf[r]
           ELSE ToSet(RecordsOf[r]) \cap ToSet(entered) = {}

(* Without Stop, the records of every accepted request leave the pipeline, *)
(* for the Loki sink or as enforced suppressions: no cycle of full         *)
(* channels blocks the five goroutines for ever.                           *)
AcceptedIsRouted ==
    \A r \in Requests :
        req[r] = "accepted" ~>
            ToSet(RecordsOf[r]) \subseteq ToSet(sunk) \cup ToSet(at["suppressed"])

(* Stop comes to an end (http.go:223, "Stop gracefully shuts down the HTTP *)
(* server and raw worker").                                                *)
StopReturns == stage = "sinks" ~> stage \in {"stopped", "failed"}

(* After workerWg.Wait the workers are gone: nothing more goes to the Loki *)
(* sink, the index feed or the miner batcher (http.go:415-420), although   *)
(* the batchers that Stop does not wait for may still be moving records.   *)
WorkersGone == stage \in {"shutdown", "stopped", "failed"}
QuietAfterJoin ==
    [][WorkersGone => UNCHANGED <<sunk, late, offered, toIndex, entered>>]_vars

(* What docs and comments promise and the code does not keep.              *)

(* "Stop gracefully shuts down": when it has returned, the records of      *)
(* every request answered 200 are in the sink before its last flush, or    *)
(* suppressed.                                                             *)
StopDrains ==
    stage = "stopped" =>
        \A r \in Requests : req[r] = "accepted" =>
            ToSet(RecordsOf[r]) \subseteq
                (ToSet(sunk) \ late) \cup ToSet(at["suppressed"])

(* overview.md: suppressed lines end in "Metrics Only", so suppressing a   *)
(* record never keeps the records behind it from being routed.             *)
SuppressedNeverBlocks ==
    \A r \in Requests :
        req[r] = "accepted" ~> ToSet(RecordsOf[r]) \subseteq ToSet(routed)
==============================================================================
