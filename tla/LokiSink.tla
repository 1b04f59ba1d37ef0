------------------------------ MODULE LokiSink ------------------------------
(***************************************************************************)
(* The gateway's Loki sink (gateway/pkg/sink/loki/loki.go): log entries    *)
(* are admitted into per-stream buffers under one mutex, a ticker          *)
(* goroutine pops due streams and posts them in chunks with retries, and   *)
(* Stop runs a second flusher over whatever is still buffered.             *)
(*                                                                         *)
(* One action is one critical section of s.mu, or one HTTP attempt outside *)
(* it.  The two enqueue calls hold the mutex while they admit their        *)
(* entries one by one (pending # <<>>): an AdmitEntry or ShedEntry step is *)
(* one iteration of their loop.                                            *)
(***************************************************************************)
EXTENDS Integers, Sequences, FiniteSets, SequencesExt

CONSTANTS
    Entries,          \* the log entries offered to this sink
    Streams,          \* the stream keys of those entries
    Keys,             \* [Entries -> Streams]: streamKey / streamKeyFromLabels
    LabelSets,        \* label sets, of entries and of streams
    Labels,           \* [Entries -> LabelSets]: all the labels of an entry
    KeyLabels,        \* [Streams -> LabelSets]: the labels that form a key
    Severity,         \* [Entries -> Severities]: the severity label
    Size,             \* [Entries -> Nat]: len(Line) + 32
    Processed,        \* the batches Enqueue may be called with
    Pushed,           \* the batches EnqueuePushRequest may be called with
    MaxBufferEntries, MaxBufferBytes,
    MaxBatchEntries, MaxBatchBytes,
    MaxAttempts,      \* 5 in postWithRetry
    RetryEnabled, DropDebugFirst, ProtectInfo,
    CanStop,          \* whether Stop is ever called
    None              \* no label set: the stream does not exist yet

Severities == {"debug", "info", "warn", "error", "fatal", "none"}
Batches == Processed \cup Pushed

ASSUME SinkAssumption ==
    /\ IsFiniteSet(Entries)
    /\ Keys \in [Entries -> Streams]
    /\ Labels \in [Entries -> LabelSets]
    /\ KeyLabels \in [Streams -> LabelSets]
    /\ Severity \in [Entries -> Severities]
    /\ Size \in [Entries -> Nat]
    \* the severity label is part of the stream key
    /\ \A d, e \in Entries : Keys[d] = Keys[e] => Severity[d] = Severity[e]
    \* an entry is one position of one batch
    /\ Batches \subseteq Seq(Entries)
    /\ \A b \in Batches : b # <<>> /\ IsInjective(b)
    /\ MaxBufferEntries \in Nat /\ MaxBufferBytes \in Nat
    /\ MaxBatchEntries \in Nat /\ MaxBatchBytes \in Nat
    /\ MaxAttempts \in Nat \ {0}
    /\ RetryEnabled \in BOOLEAN /\ DropDebugFirst \in BOOLEAN
    /\ ProtectInfo \in BOOLEAN /\ CanStop \in BOOLEAN
    /\ None \notin LabelSets

(* The two goroutines that run flushStream: the one Start spawns, and the  *)
(* caller of Stop.                                                         *)
Flushers == {"ticker", "stopper"}

VARIABLES
    pending,      \* entries the call that holds the mutex has yet to handle
    offered,      \* entries brought in by some call so far
    admitted,     \* entries put in a buffer, in that order
    shed,         \* entries dropped with reason buffer_full
    buffer,       \* [Streams -> Seq(Entries)]: streamBuffer.entries
    labels,       \* [Streams -> LabelSets \cup {None}]: streamBuffer.labels
    usedEntries, usedBytes,
    ticker,       \* "on"; "last" if a tick may still be handled; "off"
    phase,        \* of Stop: "running", "closed", "flushing", "stopped"
    due,          \* [Flushers -> SUBSET Streams]: keys still to flush
    taken,        \* [Flushers -> Seq(Entries)]: popped, not yet settled
    attempt,      \* [Flushers -> Nat]: failed attempts of the current chunk
    verdict,      \* [Flushers -> {"none", "ok", "fail"}]: postWithRetry's
    sent,         \* entries of the chunks that succeeded
    failed,       \* entries dropped with reason retry_exhausted
    loki          \* [Streams -> Seq]: what the Loki server has stored

vars == <<pending, offered, admitted, shed, buffer, labels, usedEntries,
          usedBytes, ticker, phase, due, taken, attempt, verdict, sent,
          failed, loki>>

-----------------------------------------------------------------------------
(* Only the loop of an enqueue call keeps s.mu for more than one step.     *)
MutexFree == pending = <<>>

(* The sum of the sizes of a set of entries, as the number of pairs of an  *)
(* entry and one of its bytes.  The entries of a buffer are distinct.      *)
Weight(S) == Cardinality(UNION {{e} \X (1..Size[e]) : e \in S})
Bytes(s) == Weight(ToSet(s))

(* A chunk has at most MaxBatchEntries entries and goes on to entry i only *)
(* while the bytes before it stay under MaxBatchBytes.                     *)
ChunkLimit(s) == IF Len(s) < MaxBatchEntries THEN Len(s) ELSE MaxBatchEntries
ChunkLen(s) ==
    Cardinality({i \in 1..ChunkLimit(s) :
                   \A m \in 1..(i - 1) : Bytes(SubSeq(s, 1, m)) < MaxBatchBytes})
Chunk(s) == SubSeq(s, 1, ChunkLen(s))
Rest(s) == SubSeq(s, ChunkLen(s) + 1, Len(s))

(* Faulty forms: the limit is passed by one; entries in flight, which are  *)
(* still held, are not counted.                                            *)
BufferFullLate == usedBytes >= MaxBufferBytes \/ usedEntries > MaxBufferEntries
BufferFullBuffered ==
    LET buffered == UNION {ToSet(buffer[k]) : k \in Streams}
    IN \/ Weight(buffered) >= MaxBufferBytes
       \/ Cardinality(buffered) >= MaxBufferEntries
BufferFull == usedBytes >= MaxBufferBytes \/ usedEntries >= MaxBufferEntries

ShouldDropUnderPressure(sev) ==
    \/ sev = "debug"
    \/ DropDebugFirst /\ sev = "info" /\ ~ProtectInfo

(* EnqueuePushRequest takes a missing severity label for "info"; Enqueue   *)
(* uses the label as it is.                                                *)
PushedEntries == UNION {ToSet(b) : b \in Pushed}
EffectiveSeverity(e) ==
    IF e \in PushedEntries /\ Severity[e] = "none" THEN "info" ELSE Severity[e]
Droppable == {e \in Entries : ShouldDropUnderPressure(EffectiveSeverity(e))}

(* A stream is created with the labels of its key by Enqueue, and with all *)
(* the labels of the request at hand by EnqueuePushRequest.                *)
StreamLabels(e) ==
    IF e \in PushedEntries THEN Labels[e] ELSE KeyLabels[Keys[e]]

NonEmpty == {k \in Streams : buffer[k] # <<>>}
Overfull == {k \in NonEmpty : \/ Bytes(buffer[k]) >= MaxBatchBytes
                              \/ Len(buffer[k]) >= MaxBatchEntries}

Idle(f) == due[f] = {} /\ taken[f] = <<>>

Init ==
    /\ pending = <<>> /\ offered = {} /\ admitted = <<>> /\ shed = {}
    /\ buffer = [k \in Streams |-> <<>>]
    /\ labels = [k \in Streams |-> None]
    /\ usedEntries = 0 /\ usedBytes = 0
    /\ ticker = "on" /\ phase = "running"
    /\ due = [f \in Flushers |-> {}]
    /\ taken = [f \in Flushers |-> <<>>]
    /\ attempt = [f \in Flushers |-> 0]
    /\ verdict = [f \in Flushers |-> "none"]
    /\ sent = {} /\ failed = {}
    /\ loki = [k \in Streams |-> <<>>]

-----------------------------------------------------------------------------
(* Enqueue and EnqueuePushRequest                                          *)

Lock(batch) ==
    /\ MutexFree
    /\ ToSet(batch) \cap offered = {}
    /\ pending' = batch
    /\ offered' = offered \cup ToSet(batch)
    /\ UNCHANGED <<admitted, shed, buffer, labels, usedEntries, usedBytes,
                   ticker, phase, due, taken, attempt, verdict, sent, failed,
                   loki>>

Enqueue(batch) == batch \in Processed /\ Lock(batch)
EnqueuePushRequest(batch) == batch \in Pushed /\ Lock(batch)

(* One iteration of the loop, the buffer at its limit and the entry of a   *)
(* severity the policy gives up.                                           *)
ShedEntry ==
    /\ ~MutexFree
    /\ BufferFull /\ Head(pending) \in Droppable
    /\ shed' = shed \cup {Head(pending)}
    /\ pending' = Tail(pending)
    /\ UNCHANGED <<offered, admitted, buffer, labels, usedEntries, usedBytes,
                   ticker, phase, due, taken, attempt, verdict, sent, failed,
                   loki>>

(* A faulty form: the newest entry goes to the front of its buffer.        *)
AdmitEntryInFront ==
    /\ ~MutexFree
    /\ ~(BufferFull /\ Head(pending) \in Droppable)
    /\ LET e == Head(pending)
           k == Keys[e]
       IN /\ buffer' = [buffer EXCEPT ![k] = <<e>> \o @]
          /\ labels' = [labels EXCEPT ![k] = IF @ = None THEN StreamLabels(e)
                                                         ELSE @]
          /\ usedBytes' = usedBytes + Size[e]
          /\ admitted' = Append(admitted, e)
    /\ usedEntries' = usedEntries + 1
    /\ pending' = Tail(pending)
    /\ UNCHANGED <<offered, shed, ticker, phase, due, taken, attempt, verdict,
                   sent, failed, loki>>

AdmitEntry ==
    /\ ~MutexFree
    /\ ~(BufferFull /\ Head(pending) \in Droppable)
    /\ LET e == Head(pending)
           k == Keys[e]
       IN /\ buffer' = [buffer EXCEPT ![k] = Append(@, e)]
          /\ labels' = [labels EXCEPT ![k] = IF @ = None THEN StreamLabels(e)
                                                         ELSE @]
          /\ usedBytes' = usedBytes + Size[e]
          /\ admitted' = Append(admitted, e)
    /\ usedEntries' = usedEntries + 1
    /\ pending' = Tail(pending)
    /\ UNCHANGED <<offered, shed, ticker, phase, due, taken, attempt, verdict,
                   sent, failed, loki>>

-----------------------------------------------------------------------------
(* The ticker goroutine and flushStream                                    *)

(* A faulty flushDue, that flushes full streams but never old ones.        *)
TickFullOnly(keys) ==
    /\ MutexFree /\ ticker # "off" /\ Idle("ticker")
    /\ keys = Overfull
    /\ due' = [due EXCEPT !["ticker"] = keys]
    /\ ticker' = IF ticker = "last" THEN "off" ELSE ticker
    /\ UNCHANGED <<pending, offered, admitted, shed, buffer, labels,
                   usedEntries, usedBytes, phase, taken, attempt, verdict,
                   sent, failed, loki>>

(* flushDue collects, under the mutex, the streams that are full or whose  *)
(* last push is flushInterval old; age is left open, so any set of         *)
(* non-empty streams that holds the full ones may be due.  A tick received *)
(* just before Stop stops the ticker is still handled.                     *)
Tick(keys) ==
    /\ MutexFree /\ ticker # "off" /\ Idle("ticker")
    /\ Overfull \subseteq keys /\ keys \subseteq NonEmpty
    /\ due' = [due EXCEPT !["ticker"] = keys]
    /\ ticker' = IF ticker = "last" THEN "off" ELSE ticker
    /\ UNCHANGED <<pending, offered, admitted, shed, buffer, labels,
                   usedEntries, usedBytes, phase, taken, attempt, verdict,
                   sent, failed, loki>>

(* The goroutine sees stopCh closed and returns.                           *)
TickerReturn ==
    /\ ticker = "last" /\ Idle("ticker")
    /\ ticker' = "off"
    /\ UNCHANGED <<pending, offered, admitted, shed, buffer, labels,
                   usedEntries, usedBytes, phase, due, taken, attempt,
                   verdict, sent, failed, loki>>

(* A faulty form: the entries are copied out but stay in the buffer.       *)
FlushStreamCopying(f, k) ==
    /\ MutexFree /\ k \in due[f] /\ taken[f] = <<>>
    /\ due' = [due EXCEPT ![f] = @ \ {k}]
    /\ taken' = [taken EXCEPT ![f] = buffer[k]]
    /\ UNCHANGED <<pending, offered, admitted, shed, buffer, labels,
                   usedEntries, usedBytes, ticker, phase, attempt, verdict,
                   sent, failed, loki>>

(* flushStream takes ownership of the stream's entries; the other flusher  *)
(* may have emptied it since its key was collected.                        *)
FlushStream(f, k) ==
    /\ MutexFree /\ k \in due[f] /\ taken[f] = <<>>
    /\ due' = [due EXCEPT ![f] = @ \ {k}]
    /\ taken' = [taken EXCEPT ![f] = buffer[k]]
    /\ buffer' = [buffer EXCEPT ![k] = <<>>]
    /\ UNCHANGED <<pending, offered, admitted, shed, labels, usedEntries,
                   usedBytes, ticker, phase, attempt, verdict, sent, failed,
                   loki>>

(* Loki stores the chunk f is posting, under the stream's labels.          *)
Store(f) ==
    LET k == Keys[Head(taken[f])]
        stored == [i \in 1..ChunkLen(taken[f]) |->
                     [entry |-> taken[f][i], labels |-> labels[k]]]
    IN loki' = [loki EXCEPT ![k] = @ \o stored]

Posting(f) == taken[f] # <<>> /\ verdict[f] = "none"

PostVars == <<pending, offered, admitted, shed, buffer, labels, usedEntries,
              usedBytes, ticker, phase, due, taken, sent, failed>>

(* An attempt answered 2xx.                                                *)
PostAccepted(f) ==
    /\ Posting(f)
    /\ Store(f)
    /\ verdict' = [verdict EXCEPT ![f] = "ok"]
    /\ UNCHANGED attempt /\ UNCHANGED PostVars

(* An attempt answered with a status that is not retried: nothing stored.  *)
PostRejected(f) ==
    /\ Posting(f)
    /\ verdict' = [verdict EXCEPT ![f] = "fail"]
    /\ UNCHANGED <<loki, attempt>> /\ UNCHANGED PostVars

(* Faulty forms of the retry: counting down, starting over at the limit,   *)
(* with one attempt too many, and giving up with success.                  *)
Unclear(f, next, end) ==
    /\ Posting(f)
    /\ Store(f) \/ UNCHANGED loki
    /\ attempt' = [attempt EXCEPT ![f] = next]
    /\ verdict' = [verdict EXCEPT ![f] = end]
    /\ UNCHANGED PostVars
UnclearCountingDown(f) == Unclear(f, attempt[f] - 1, "none")
UnclearStartingOver(f) ==
    Unclear(f, (attempt[f] + 1) % MaxAttempts, "none") /\ UNCHANGED loki
UnclearOnceMore(f) ==
    Unclear(f, attempt[f] + 1, IF attempt[f] < MaxAttempts THEN "none" ELSE "fail")
UnclearIsOk(f) ==
    Unclear(f, attempt[f] + 1, IF attempt[f] + 1 < MaxAttempts THEN "none" ELSE "ok")

(* An attempt that timed out, lost its connection, or got 429 or 5xx: Loki *)
(* may have stored the chunk all the same.                                 *)
PostUnclear(f) ==
    /\ Posting(f)
    /\ Store(f) \/ UNCHANGED loki
    /\ attempt' = [attempt EXCEPT ![f] = IF RetryEnabled THEN @ + 1 ELSE @]
    /\ verdict' = [verdict EXCEPT ![f] =
                     IF RetryEnabled /\ attempt[f] + 1 < MaxAttempts
                     THEN "none" ELSE "fail"]
    /\ UNCHANGED PostVars

(* Faulty forms: a dropped chunk is not given back; the bytes of all the   *)
(* entries taken are given back with the first chunk.                      *)
SettleSentOnly(f) ==
    /\ MutexFree /\ verdict[f] # "none"
    /\ LET chunk == Chunk(taken[f])
       IN IF verdict[f] = "ok"
          THEN /\ usedEntries' = usedEntries - Len(chunk)
               /\ usedBytes' = usedBytes - Bytes(chunk)
               /\ sent' = sent \cup ToSet(chunk) /\ UNCHANGED failed
          ELSE /\ failed' = failed \cup ToSet(chunk)
               /\ UNCHANGED <<usedEntries, usedBytes, sent>>
    /\ taken' = [taken EXCEPT ![f] = Rest(@)]
    /\ attempt' = [attempt EXCEPT ![f] = 0]
    /\ verdict' = [verdict EXCEPT ![f] = "none"]
    /\ UNCHANGED <<pending, offered, admitted, shed, buffer, labels, ticker,
                   phase, due, loki>>
SettleAllBytes(f) ==
    /\ MutexFree /\ verdict[f] # "none"
    /\ LET chunk == Chunk(taken[f])
       IN /\ usedEntries' = usedEntries - Len(chunk)
          /\ usedBytes' = usedBytes - Bytes(taken[f])
          /\ sent' = IF verdict[f] = "ok" THEN sent \cup ToSet(chunk) ELSE sent
          /\ failed' = IF verdict[f] = "ok" THEN failed
                                            ELSE failed \cup ToSet(chunk)
    /\ taken' = [taken EXCEPT ![f] = Rest(@)]
    /\ attempt' = [attempt EXCEPT ![f] = 0]
    /\ verdict' = [verdict EXCEPT ![f] = "none"]
    /\ UNCHANGED <<pending, offered, admitted, shed, buffer, labels, ticker,
                   phase, due, loki>>

(* The end of the chunk loop's body: the counters give up the chunk,       *)
(* whether it was sent or is dropped.                                      *)
Settle(f) ==
    /\ MutexFree /\ verdict[f] # "none"
    /\ LET chunk == Chunk(taken[f])
       IN /\ usedEntries' = usedEntries - Len(chunk)
          /\ usedBytes' = usedBytes - Bytes(chunk)
          /\ sent' = IF verdict[f] = "ok" THEN sent \cup ToSet(chunk) ELSE sent
          /\ failed' = IF verdict[f] = "ok" THEN failed
                                            ELSE failed \cup ToSet(chunk)
    /\ taken' = [taken EXCEPT ![f] = Rest(@)]
    /\ attempt' = [attempt EXCEPT ![f] = 0]
    /\ verdict' = [verdict EXCEPT ![f] = "none"]
    /\ UNCHANGED <<pending, offered, admitted, shed, buffer, labels, ticker,
                   phase, due, loki>>

-----------------------------------------------------------------------------
(* Stop                                                                    *)

(* The ticker is stopped and stopCh closed: no tick follows, and the       *)
(* goroutine returns once it is back at its select.                        *)
StopClose ==
    /\ CanStop /\ phase = "running"
    /\ phase' = "closed"
    /\ ticker' = IF Idle("ticker") THEN "last" ELSE "off"
    /\ UNCHANGED <<pending, offered, admitted, shed, buffer, labels,
                   usedEntries, usedBytes, due, taken, attempt, verdict, sent,
                   failed, loki>>

(* flushAll collects the keys of the non-empty streams once.               *)
FlushAll ==
    /\ MutexFree /\ phase = "closed"
    /\ phase' = "flushing"
    /\ due' = [due EXCEPT !["stopper"] = NonEmpty]
    /\ UNCHANGED <<pending, offered, admitted, shed, buffer, labels,
                   usedEntries, usedBytes, ticker, taken, attempt, verdict,
                   sent, failed, loki>>

(* Its ten seconds are over: the streams not yet begun are left alone.     *)
FlushDeadline ==
    /\ phase = "flushing" /\ due["stopper"] # {} /\ taken["stopper"] = <<>>
    /\ due' = [due EXCEPT !["stopper"] = {}]
    /\ UNCHANGED <<pending, offered, admitted, shed, buffer, labels,
                   usedEntries, usedBytes, ticker, phase, taken, attempt,
                   verdict, sent, failed, loki>>

StopReturn ==
    /\ phase = "flushing" /\ Idle("stopper")
    /\ phase' = "stopped"
    /\ UNCHANGED <<pending, offered, admitted, shed, buffer, labels,
                   usedEntries, usedBytes, ticker, due, taken, attempt,
                   verdict, sent, failed, loki>>

Post(f) == PostAccepted(f) \/ PostRejected(f) \/ PostUnclear(f)

Next ==
    \/ \E batch \in Processed : Enqueue(batch)
    \/ \E batch \in Pushed : EnqueuePushRequest(batch)
    \/ AdmitEntry \/ ShedEntry
    \/ \E keys \in SUBSET Streams : Tick(keys)
    \/ TickerReturn
    \/ \E f \in Flushers : \/ \E k \in Streams : FlushStream(f, k)
                           \/ Post(f) \/ Settle(f)
    \/ StopClose \/ FlushAll \/ FlushDeadline \/ StopReturn

Spec == Init /\ [][Next]_vars

(***************************************************************************)
(* Fairness.  The steps of a goroutine that is neither blocked nor done    *)
(* are taken: weak fairness, strong where they need the mutex, because a   *)
(* sync.Mutex does not starve a waiter.  Time passes, so a stream that     *)
(* stays non-empty is due at some tick.  Nothing makes Loki answer 2xx,    *)
(* and nobody has to call Stop or an enqueue.                              *)
(***************************************************************************)
Fairness ==
    /\ WF_vars(AdmitEntry \/ ShedEntry)
    /\ \A k \in Streams :
         SF_vars(\E keys \in SUBSET Streams : k \in keys /\ Tick(keys))
    /\ WF_vars(TickerReturn)
    /\ \A f \in Flushers : /\ SF_vars(\E k \in Streams : FlushStream(f, k))
                           /\ WF_vars(Post(f))
                           /\ SF_vars(Settle(f))
    /\ SF_vars(FlushAll)
    /\ WF_vars(StopReturn)

FairSpec == Spec /\ Fairness

-----------------------------------------------------------------------------
(* Properties                                                              *)

InBuffers == UNION {ToSet(buffer[k]) : k \in Streams}
InFlight == UNION {ToSet(taken[f]) : f \in Flushers}
Held == InBuffers \cup InFlight

StoredEntries(k) == {loki[k][i].entry : i \in DOMAIN loki[k]}
Stored == UNION {StoredEntries(k) : k \in Streams}

TypeOK ==
    /\ pending \in Seq(Entries) /\ admitted \in Seq(Entries)
    /\ offered \subseteq Entries /\ shed \subseteq Entries
    /\ sent \subseteq Entries /\ failed \subseteq Entries
    /\ buffer \in [Streams -> Seq(Entries)]
    /\ labels \in [Streams -> LabelSets \cup {None}]
    /\ usedEntries \in Int /\ usedBytes \in Int
    /\ ticker \in {"on", "last", "off"}
    /\ phase \in {"running", "closed", "flushing", "stopped"}
    /\ due \in [Flushers -> SUBSET Streams]
    /\ taken \in [Flushers -> Seq(Entries)]
    /\ attempt \in [Flushers -> Nat]
    /\ verdict \in [Flushers -> {"none", "ok", "fail"}]
    /\ loki \in [Streams -> Seq([entry : Entries,
                                 labels : LabelSets \cup {None}])]

(* The counters the drop policy reads (usedEntries, usedBytes) are exactly *)
(* what the sink still holds: entries in the stream buffers plus entries a *)
(* flusher popped and has not settled, although each is added and given    *)
(* back by different goroutines in different critical sections             *)
(* (Enqueue :221-222, flushStream :574-579 and :595-600).                  *)
EntriesAccounted == usedEntries = Cardinality(Held)
BytesAccounted == usedBytes = Weight(Held)

(* No entry is lost or owned twice: an admitted entry is at one position   *)
(* of one buffer, or of one flusher's chunk list, or settled as sent or as *)
(* failed, and never two of these; a shed entry is none of them            *)
(* (flushStream's pop :490-501 against Enqueue and the other flusher).     *)
EachEntryOnce ==
    /\ IsInjective(admitted)
    /\ ToSet(admitted) = Held \cup sent \cup failed
    /\ Held \cap (sent \cup failed) = {} /\ sent \cap failed = {}
    /\ shed \cap ToSet(admitted) = {}
    /\ InBuffers \cap InFlight = {}
    /\ ToSet(taken["ticker"]) \cap ToSet(taken["stopper"]) = {}
    /\ \A k \in Streams : IsInjective(buffer[k])
    /\ \A f \in Flushers : IsInjective(taken[f])

(* Entries of a severity the policy may drop never take more than the      *)
(* buffer limit, however many flushes are under way (Enqueue :195-205):    *)
(* debug and unprotected info cannot crowd out the protected severities.   *)
DroppableBounded == Cardinality(Held \cap Droppable) <= MaxBufferEntries

(* What the sink counts as sent is in Loki (postWithRetry :640-641).       *)
SentIsStored == sent \subseteq Stored

(* Retrying an attempt whose answer was lost stores a chunk again, but no  *)
(* entry more often than postWithRetry's attempts, and an entry that was   *)
(* settled is never posted again (postWithRetry :651-665, flushStream).    *)
BoundedCopies ==
    \A k \in Streams : \A e \in StoredEntries(k) :
        Cardinality({i \in DOMAIN loki[k] : loki[k][i].entry = e}) <= MaxAttempts

(* Until Stop adds a second flusher, the entries of a stream reach Loki in *)
(* the order they were admitted: a first copy never comes after the first  *)
(* copy of a later entry, across batches, chunks, retries and failures     *)
(* (flushDue :462-464, flushStream :497-605).                              *)
FirstStored(k, e) ==
    CHOOSE i \in DOMAIN loki[k] :
        /\ loki[k][i].entry = e
        /\ \A j \in 1..(i - 1) : loki[k][j].entry # e
StoredInOrder ==
    phase = "running" =>
        \A k \in Streams : \A i, j \in DOMAIN admitted :
            i < j /\ {admitted[i], admitted[j]} \subseteq StoredEntries(k)
            => FirstStored(k, admitted[i]) < FirstStored(k, admitted[j])

(* While nobody stops the sink, every entry it admitted is settled, sent   *)
(* or given up, whatever Loki answers (flushDue, flushStream).             *)
Settled(e) == e \in sent \cup failed
HeldIsSettled ==
    \A e \in Entries : e \in Held ~> Settled(e) \/ phase # "running"

(* Stop returns: its final flush is bounded by the number of attempts      *)
(* although enqueues and the ticker's last flush go on beside it (Stop     *)
(* :165-176, flushAll).                                                    *)
StopReturns == phase = "closed" ~> phase = "stopped"

(* The sink implements LogDelivery: buffers, in-flight chunks, two         *)
(* flushers, retries and counters change nothing about the fate of an      *)
(* entry; in particular the counters never report pressure that is not     *)
(* there, nor miss it.                                                     *)
Fate(e) == CASE e \in shed -> "shed"
             [] e \in Held -> "held"
             [] e \in sent -> "sent"
             [] e \in failed -> "lost"
             [] OTHER -> "new"
Delivery == INSTANCE LogDelivery
              WITH Sheddable <- Droppable,
                   MaxEntries <- MaxBufferEntries, MaxBytes <- MaxBufferBytes,
                   fate <- [e \in Entries |-> Fate(e)], stored <- Stored
ImplementsDelivery == Delivery!Spec

(* What the comments promise and the code does not keep.                   *)

(* gateway-service.md: EnqueuePushRequest "Preserves original labels       *)
(* exactly".                                                               *)
LabelsPreserved ==
    \A k \in Streams : \A i \in DOMAIN loki[k] :
        loki[k][i].labels = Labels[loki[k][i].entry]
============================================================================
