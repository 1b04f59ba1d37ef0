----------------------- MODULE GatewayPipelineProofs -----------------------
(***************************************************************************)
(* Proofs about GatewayPipeline, for any requests, capacities, batch sizes *)
(* and enforcement: type correctness, the two order invariants, the        *)
(* silence after the join of the workers, what the answers 200 and 503     *)
(* mean, and the split between the sink and the suppressed channel.        *)
(***************************************************************************)
EXTENDS GatewayPipeline, SequenceTheorems, TLAPS

(* Moving the head of one sequence to the end of the one in front of it    *)
(* leaves their concatenation, and whatever follows it, as it was.         *)
LEMMA MoveHead ==
    ASSUME NEW a \in Seq(Records), NEW b \in Seq(Records),
           NEW c \in Seq(Records), b # <<>>
    PROVE  Append(a, Head(b)) \o (Tail(b) \o c) = a \o (b \o c)
<1> DEFINE l == Append(a, Head(b)) \o (Tail(b) \o c)
           r == a \o (b \o c)
<1>1. /\ Head(b) \in Records /\ Head(b) = b[1]
      /\ Tail(b) \in Seq(Records) /\ Len(Tail(b)) = Len(b) - 1
      /\ \A i \in 1..(Len(b) - 1) : Tail(b)[i] = b[i + 1]
  BY HeadTailProperties
<1>2. /\ Append(a, Head(b)) \in Seq(Records)
      /\ Len(Append(a, Head(b))) = Len(a) + 1
      /\ \A i \in 1..(Len(a) + 1) :
           Append(a, Head(b))[i] = IF i <= Len(a) THEN a[i] ELSE b[1]
  BY <1>1, AppendProperties
<1>3. l \in Seq(Records) /\ r \in Seq(Records) /\ Len(l) = Len(r)
  BY <1>1, <1>2, ConcatProperties
<1>4. ASSUME NEW i \in 1..Len(l) PROVE l[i] = r[i]
  BY <1>1, <1>2, <1>3, ConcatProperties
<1> QED  BY <1>3, <1>4, SeqEqual

(* What Move does to the places, and what MoveAll does.                    *)
LEMMA MoveEffect ==
    ASSUME at \in [Places -> Seq(Records)],
           NEW p \in Places, NEW q \in Places, p # q, Move(p, q)
    PROVE  /\ at' \in [Places -> Seq(Records)]
           /\ at[p] # <<>> /\ Head(at[p]) \in Records
           /\ at'[p] = Tail(at[p]) /\ at'[q] = Append(at[q], Head(at[p]))
           /\ \A r \in Places \ {p, q} : at'[r] = at[r]
<1>1. at[p] \in Seq(Records) /\ at[q] \in Seq(Records) /\ at[p] # <<>>
  BY DEF Move
<1>2. Head(at[p]) \in Records /\ Tail(at[p]) \in Seq(Records)
  BY <1>1, HeadTailProperties
<1>3. Append(at[q], Head(at[p])) \in Seq(Records)
  BY <1>1, <1>2, AppendProperties
<1> QED  BY <1>1, <1>2, <1>3 DEF Move

LEMMA MoveAllEffect ==
    ASSUME at \in [Places -> Seq(Records)],
           NEW p \in Places, NEW q \in Places, p # q, MoveAll(p, q)
    PROVE  /\ at' \in [Places -> Seq(Records)]
           /\ at'[p] = <<>> /\ at'[q] = at[p]
           /\ \A r \in Places \ {p, q} : at'[r] = at[r]
  BY EmptySeq DEF MoveAll

(* Every step is type correct.                                             *)
LEMMA TypeStep == Typed /\ [Next]_vars => Typed'
<1> SUFFICES ASSUME Typed, [Next]_vars PROVE Typed'
  OBVIOUS
<1> USE PipelineAssumption DEF Typed, handlerVars, indexVars, samplerVars,
        sinkVars
<1>1. ASSUME NEW r \in Requests, Handle(r) PROVE Typed'
  BY <1>1 DEF Handle
<1>2. ASSUME NEW r \in Requests, Accept(r) PROVE Typed'
  BY <1>2, AppendProperties DEF Accept
<1>3. ASSUME NEW r \in Requests, Refuse(r) PROVE Typed'
  BY <1>3 DEF Refuse
<1>4. CASE TakeBatch
  <2>1. Head(rawQueue) \in Requests /\ Tail(rawQueue) \in Seq(Requests)
    BY <1>4, HeadTailProperties DEF TakeBatch
  <2>2. entered \o RecordsOf[Head(rawQueue)] \in Seq(Records)
    BY <2>1, ConcatProperties
  <2> QED  BY <1>4, <2>1, <2>2 DEF TakeBatch, Places, Locals
<1>5. CASE SendRecord
  <2>1. at' \in [Places -> Seq(Records)]
    BY <1>5, MoveEffect DEF SendRecord, Places, Locals, Channels
  <2> QED  BY <1>5, <2>1 DEF SendRecord
<1>6. CASE MinerCollect
  <2>1. at' \in [Places -> Seq(Records)]
    BY <1>6, MoveEffect DEF MinerCollect, Places, Locals, Channels
  <2> QED  BY <1>6, <2>1 DEF MinerCollect, PipelineMove
<1>7. CASE MinerFlush
  <2>1. at' \in [Places -> Seq(Records)]
    BY <1>7, MoveAllEffect DEF MinerFlush, Places, Locals, Channels
  <2> QED  BY <1>7, <2>1 DEF MinerFlush, PipelineMove
<1>8. CASE MinerEmit
  <2>1. at' \in [Places -> Seq(Records)]
    BY <1>8, MoveEffect DEF MinerEmit, Places, Locals, Channels
  <2> QED  BY <1>8, <2>1 DEF MinerEmit, PipelineMove
<1>9. CASE BridgeTake
  <2>1. at' \in [Places -> Seq(Records)]
    BY <1>9, MoveEffect DEF BridgeTake, Places, Locals, Channels
  <2> QED  BY <1>9, <2>1 DEF BridgeTake, PipelineMove
<1>10. CASE BridgeSend
  <2>1. at' \in [Places -> Seq(Records)] /\ at["bridge"] \in Seq(Records)
    BY <1>10, MoveEffect DEF BridgeSend, Places, Locals, Channels
  <2> QED  BY <1>10, <2>1 DEF BridgeSend, PipelineMove
<1>11. CASE BridgePublish
  BY <1>11, ConcatProperties, EmptySeq DEF BridgePublish, PipelineMove
<1>12. CASE SamplerCollect
  <2>1. at' \in [Places -> Seq(Records)]
    BY <1>12, MoveEffect DEF SamplerCollect, Places, Locals, Channels
  <2> QED  BY <1>12, <2>1 DEF SamplerCollect, PipelineMove
<1>13. ASSUME NEW S \in SUBSET Records, SamplerFlush(S) PROVE Typed'
  <2>1. at' \in [Places -> Seq(Records)]
    BY <1>13, MoveAllEffect DEF SamplerFlush, Places, Locals, Channels
  <2> QED  BY <1>13, <2>1 DEF SamplerFlush, PipelineMove
<1>14. CASE Route
  <2>1. PICK c \in {"suppressed", "kept"} : Move("decided", c)
    BY <1>14 DEF Route
  <2>2. at' \in [Places -> Seq(Records)] /\ Head(at["decided"]) \in Records
    BY <2>1, MoveEffect DEF Places, Locals, Channels
  <2> QED  BY <1>14, <2>2, AppendProperties DEF Route, PipelineMove
<1>15. CASE LokiTake
  <2>1. at' \in [Places -> Seq(Records)]
    BY <1>15, MoveEffect DEF LokiTake, Places, Locals, Channels
  <2> QED  BY <1>15, <2>1 DEF LokiTake, PipelineMove
<1>16. CASE LokiEnqueue
  <2>1. at["toSink"] \in Seq(Records) /\ <<>> \in Seq(Records)
    BY EmptySeq DEF Places, Locals
  <2>2. ToSet(at["toSink"]) \subseteq Records
    BY <2>1 DEF ToSet
  <2> QED  BY <1>16, <2>1, <2>2, ConcatProperties DEF LokiEnqueue
<1>17. ASSUME NEW g \in Workers, WorkerReturn(g) PROVE Typed'
  BY <1>17 DEF WorkerReturn
<1>18. ASSUME NEW g \in Batchers, BatcherDrain(g) \/ BatcherReturn(g)
       PROVE Typed'
  BY <1>18 DEF BatcherDrain, BatcherReturn
<1>19. CASE Stop
  BY <1>19 DEF Stop, StopSinks, StopSampler, StopMiner, CancelWorkers,
     JoinWorkers, ShutdownReturns, ShutdownExpires, Advance, Stages
<1>20. CASE UNCHANGED vars
  BY <1>20 DEF vars
<1> QED
  BY <1>1, <1>2, <1>3, <1>4, <1>5, <1>6, <1>7, <1>8, <1>9, <1>10, <1>11,
     <1>12, <1>13, <1>14, <1>15, <1>16, <1>17, <1>18, <1>19, <1>20 DEF Next

(* A Move makes one place longer by one, and no other place longer; a      *)
(* MoveAll makes longer only the place it fills.                           *)
LEMMA MoveLength ==
    ASSUME at \in [Places -> Seq(Records)],
           NEW p \in Places, NEW q \in Places, p # q, Move(p, q)
    PROVE  /\ \A r \in Places \ {q} : Len(at'[r]) <= Len(at[r])
           /\ Len(at'[q]) = Len(at[q]) + 1
<1>1. at[p] \in Seq(Records) /\ at[q] \in Seq(Records) /\ at[p] # <<>>
  BY DEF Move
<1>2. Head(at[p]) \in Records /\ Len(Tail(at[p])) = Len(at[p]) - 1
      /\ Len(at[p]) \in Nat
  BY <1>1, HeadTailProperties, LenProperties
<1>3. Len(Append(at[q], Head(at[p]))) = Len(at[q]) + 1
  BY <1>1, <1>2, AppendProperties
<1>4. \A r \in Places : Len(at[r]) \in Nat
  BY LenProperties
<1>5. /\ at'[p] = Tail(at[p]) /\ at'[q] = Append(at[q], Head(at[p]))
      /\ \A r \in Places \ {p, q} : at'[r] = at[r]
  BY MoveEffect
<1> QED  BY <1>2, <1>3, <1>4, <1>5

LEMMA MoveAllLength ==
    ASSUME at \in [Places -> Seq(Records)],
           NEW p \in Places, NEW q \in Places, p # q, MoveAll(p, q)
    PROVE  \A r \in Places \ {q} : Len(at'[r]) <= Len(at[r])
<1>1. \A r \in Places : Len(at[r]) \in Nat
  BY LenProperties
<1>2. Len(<<>>) = 0
  BY EmptySeq
<1>3. at'[p] = <<>> /\ \A r \in Places \ {p, q} : at'[r] = at[r]
  BY MoveAllEffect
<1>4. \A r \in Places \ {p, q} : Len(at'[r]) <= Len(at[r])
  BY <1>1, <1>3
<1>5. Len(at'[p]) <= Len(at[p])
  BY <1>1, <1>2, <1>3
<1> QED  BY <1>4, <1>5

(* A place is bounded by its channel's capacity or its batcher's MaxBatch; *)
(* the step that makes it longer found it below that bound.                *)
LEMMA CapacityStep == Typed /\ WithinCapacity /\ [Next]_vars => WithinCapacity'
<1> SUFFICES ASSUME Typed, WithinCapacity, [Next]_vars PROVE WithinCapacity'
  OBVIOUS
<1> USE PipelineAssumption
<1> DEFINE Bounds == Channels \cup {"minerBuf", "samplerBuf"}
<1>p. PICK bound \in [Bounds -> Nat] :
        /\ bound["minerBuf"] = MinerBatch /\ bound["samplerBuf"] = SamplerBatch
        /\ \A c \in Channels : bound[c] = ChanCap
  <2> DEFINE b == [p \in Bounds |-> CASE p = "minerBuf" -> MinerBatch
                                     [] p = "samplerBuf" -> SamplerBatch
                                     [] OTHER -> ChanCap]
  <2>1. b \in [Bounds -> Nat]
    BY DEF Channels
  <2> QED  BY <2>1 DEF Channels
<1> DEFINE Bounded == \A p \in Bounds : Len(at[p]) <= bound[p]
<1>0. /\ at \in [Places -> Seq(Records)] /\ Bounds \subseteq Places
      /\ \A p \in Places : Len(at[p]) \in Nat
      /\ \A p \in Bounds : bound[p] \in Nat
      /\ rawQueue \in Seq(Requests) /\ Len(rawQueue) \in Nat
  BY LenProperties DEF Typed, Places, Channels, Locals
<1>a. WithinCapacity <=> (Len(rawQueue) <= RawCap /\ Bounded)
  BY <1>p DEF WithinCapacity
<1>b. WithinCapacity' <=> (Len(rawQueue') <= RawCap /\ Bounded')
  BY <1>p DEF WithinCapacity
<1>c. ASSUME NEW q \in Places, \A r \in Places \ {q} : Len(at'[r]) <= Len(at[r]),
             q \in Bounds => Len(at'[q]) <= bound[q],
             \A r \in Places : Len(at'[r]) \in Nat
      PROVE  Bounded'
  <2> SUFFICES ASSUME NEW r \in Bounds PROVE Len(at'[r]) <= bound[r]
    OBVIOUS
  <2>1. Len(at[r]) <= bound[r] /\ r \in Places
    BY <1>0, <1>a
  <2> QED  BY <1>0, <1>c, <2>1
<1>d. ASSUME NEW p \in Places, NEW q \in Places, p # q, Move(p, q),
             q \in Bounds => Len(at[q]) < bound[q]
      PROVE  Bounded'
  <2>1. \A r \in Places : Len(at'[r]) \in Nat
    BY <1>0, <1>d, MoveEffect, LenProperties
  <2>2. /\ \A r \in Places \ {q} : Len(at'[r]) <= Len(at[r])
        /\ Len(at'[q]) = Len(at[q]) + 1
    BY <1>0, <1>d, MoveLength
  <2>3. q \in Bounds => Len(at'[q]) <= bound[q]
    BY <1>0, <1>d, <2>2
  <2> HIDE DEF Bounded
  <2> QED  BY <1>c, <2>1, <2>2, <2>3
<1>e. ASSUME NEW p \in Places, NEW q \in Places \ Bounds, p # q,
             MoveAll(p, q)
      PROVE  Bounded'
  <2>1. \A r \in Places : Len(at'[r]) \in Nat
    BY <1>0, <1>e, MoveAllEffect, LenProperties
  <2>2. \A r \in Places \ {q} : Len(at'[r]) <= Len(at[r])
    BY <1>0, <1>e, MoveAllLength
  <2> HIDE DEF Bounded
  <2> QED  BY <1>c, <1>e, <2>1, <2>2
<1>q. (rawQueue' = rawQueue /\ Bounded') => WithinCapacity'
  BY <1>a, <1>b
<1>f. UNCHANGED <<rawQueue, at>> => WithinCapacity'
  BY <1>a, <1>b
<1> USE DEF Places, Channels, Locals
<1>1. CASE \E r \in Requests : Handle(r) \/ Refuse(r)
  BY <1>1, <1>f DEF Handle, Refuse
<1>2. ASSUME NEW r \in Requests, Accept(r) PROVE WithinCapacity'
  <2>1. Len(rawQueue') = Len(rawQueue) + 1 /\ Len(rawQueue) < RawCap
    BY <1>0, <1>2, AppendProperties DEF Accept
  <2>2. Len(rawQueue') <= RawCap
    BY <1>0, <2>1
  <2>3. Bounded'
    BY <1>2, <1>a DEF Accept
  <2> QED  BY <1>b, <2>2, <2>3
<1>3. CASE TakeBatch
  <2>1. Len(rawQueue') = Len(rawQueue) - 1
    BY <1>0, <1>3, HeadTailProperties DEF TakeBatch
  <2>2. \A p \in Bounds : at'[p] = at[p]
    BY <1>0, <1>3 DEF TakeBatch
  <2>3. Bounded'
    BY <1>a, <2>2
  <2>4. Len(rawQueue') <= RawCap
    BY <1>0, <1>a, <2>1
  <2> QED  BY <1>b, <2>3, <2>4
<1>4. CASE SendRecord
  BY <1>4, <1>d, <1>p, <1>q DEF SendRecord, Room
<1>5. CASE MinerCollect
  BY <1>5, <1>d, <1>p, <1>q DEF MinerCollect, AtSelect, PipelineMove
<1>6. CASE MinerFlush
  BY <1>6, <1>e, <1>q DEF MinerFlush, PipelineMove
<1>7. CASE MinerEmit
  BY <1>7, <1>d, <1>p, <1>q DEF MinerEmit, Room, PipelineMove
<1>8. CASE BridgeTake
  BY <1>8, <1>d, <1>q DEF BridgeTake, PipelineMove
<1>9. CASE BridgeSend
  BY <1>9, <1>d, <1>p, <1>q DEF BridgeSend, Room, PipelineMove
<1>10. CASE BridgePublish
  BY <1>10, <1>f DEF BridgePublish, PipelineMove
<1>11. CASE SamplerCollect
  BY <1>11, <1>d, <1>p, <1>q DEF SamplerCollect, AtSelect, PipelineMove
<1>12. CASE \E S \in SUBSET Records : SamplerFlush(S)
  BY <1>12, <1>e, <1>q DEF SamplerFlush, PipelineMove
<1>13. CASE Route
  <2>1. PICK c \in {"suppressed", "kept"} : Room(c) /\ Move("decided", c)
    BY <1>13 DEF Route
  <2> QED  BY <1>13, <2>1, <1>d, <1>p, <1>q DEF Route, Room, PipelineMove
<1>14. CASE LokiTake
  BY <1>14, <1>d, <1>q DEF LokiTake, PipelineMove
<1>15. CASE LokiEnqueue
  <2>1. \A p \in Bounds : at'[p] = at[p]
    BY <1>0, <1>15 DEF LokiEnqueue
  <2>2. Bounded'
    BY <1>a, <2>1
  <2> QED  BY <1>15, <1>q, <2>2 DEF LokiEnqueue
<1>16. CASE \/ \E g \in Workers : WorkerReturn(g)
            \/ \E g \in Batchers : BatcherDrain(g) \/ BatcherReturn(g)
  BY <1>16, <1>f DEF WorkerReturn, BatcherDrain, BatcherReturn
<1>17. CASE Stop
  BY <1>17, <1>f DEF Stop, StopSinks, StopSampler, StopMiner, CancelWorkers,
     JoinWorkers, ShutdownReturns, ShutdownExpires, Advance
<1>18. CASE UNCHANGED vars
  BY <1>18, <1>f DEF vars
<1> QED
  BY <1>1, <1>2, <1>3, <1>4, <1>5, <1>6, <1>7, <1>8, <1>9, <1>10, <1>11,
     <1>12, <1>13, <1>14, <1>15, <1>16, <1>17, <1>18 DEF Next

(* Type correctness, and the capacities of the channels and batches.       *)
THEOREM TypeCorrect == Spec => []TypeOK
<1>1. Init => TypeOK
  <2>1. Init => Typed
    BY EmptySeq DEF Init, Typed, Stages
  <2>2. Init => WithinCapacity
    BY PipelineAssumption, EmptySeq
    DEF Init, WithinCapacity, Places, Channels, Locals
  <2> QED  BY <2>1, <2>2 DEF TypeOK
<1>2. TypeOK /\ [Next]_vars => TypeOK'
  BY TypeStep, CapacityStep DEF TypeOK
<1> QED  BY <1>1, <1>2, PTL DEF Spec

-----------------------------------------------------------------------------
(* Order.  A step of the pipeline moves the head of one place to the end   *)
(* of the next, which MoveHead says leaves the line of records as it was;  *)
(* TakeBatch extends it at the end.                                        *)

LEMMA MoveKeepsOrder ==
    ASSUME at \in [Places -> Seq(Records)],
           NEW p \in Places, NEW q \in Places, p # q, Move(p, q),
           NEW c \in Seq(Records)
    PROVE  at'[q] \o (at'[p] \o c) = at[q] \o (at[p] \o c)
<1>1. /\ at[p] \in Seq(Records) /\ at[q] \in Seq(Records) /\ at[p] # <<>>
      /\ at'[p] = Tail(at[p]) /\ at'[q] = Append(at[q], Head(at[p]))
  BY DEF Move
<1>2. Append(at[q], Head(at[p])) \o (Tail(at[p]) \o c) = at[q] \o (at[p] \o c)
  BY <1>1, MoveHead
<1> QED  BY ONLY <1>1, <1>2

LEMMA PlacesTyped ==
    ASSUME TypeOK
    PROVE  /\ \A p \in Places : at[p] \in Seq(Records)
           /\ ToMiner \in Seq(Records) /\ AfterMiner \in Seq(Records)
           /\ AfterBridge \in Seq(Records)
           /\ at["minerIn"] \o at["work"] \in Seq(Records)
           /\ at["mined"] \o ToMiner \in Seq(Records)
           /\ at["minerOut"] \o (at["mined"] \o ToMiner) \in Seq(Records)
           /\ at["samplerIn"] \o AfterMiner \in Seq(Records)
           /\ at["samplerBuf"] \o (at["samplerIn"] \o AfterMiner) \in Seq(Records)
<1>1. \A p \in Places : at[p] \in Seq(Records)
  BY DEF TypeOK, Typed
<1>2. \A s, t \in Seq(Records) : s \o t \in Seq(Records)
  BY ConcatProperties
<1>3. /\ at["minerIn"] \o at["work"] \in Seq(Records)
      /\ ToMiner \in Seq(Records)
  BY <1>1, <1>2 DEF ToMiner, Places, Channels, Locals
<1>4. /\ at["mined"] \o ToMiner \in Seq(Records)
      /\ at["minerOut"] \o (at["mined"] \o ToMiner) \in Seq(Records)
      /\ AfterMiner \in Seq(Records)
  BY <1>1, <1>2, <1>3 DEF AfterMiner, Places, Channels, Locals
<1>5. /\ at["samplerIn"] \o AfterMiner \in Seq(Records)
      /\ at["samplerBuf"] \o (at["samplerIn"] \o AfterMiner) \in Seq(Records)
      /\ AfterBridge \in Seq(Records)
  BY <1>1, <1>2, <1>4 DEF AfterBridge, Places, Channels, Locals
<1> QED  BY <1>1, <1>3, <1>4, <1>5

(* The steps up to the miner bridge keep the line behind the bridge.       *)
LEMMA MinerSteps ==
    ASSUME TypeOK,
           \/ SendRecord \/ MinerCollect \/ MinerFlush \/ MinerEmit
           \/ BridgeTake
    PROVE  AfterMiner' = AfterMiner
<1>0. at \in [Places -> Seq(Records)]
  BY DEF TypeOK, Typed
<1> USE DEF Places, Channels, Locals
<1>1. CASE SendRecord
  <2>1. Move("work", "minerIn")
    BY <1>1 DEF SendRecord
  <2> DEFINE nothing == <<>>
  <2>a. nothing \in Seq(Records)
    BY EmptySeq
  <2> HIDE DEF nothing
  <2>b. at'["minerIn"] \o (at'["work"] \o nothing)
          = at["minerIn"] \o (at["work"] \o nothing)
    BY <1>0, <2>1, <2>a, MoveKeepsOrder
  <2>2. at'["minerIn"] \o (at'["work"] \o <<>>)
          = at["minerIn"] \o (at["work"] \o <<>>)
    BY <2>b DEF nothing
  <2>3. /\ at'["work"] \o <<>> = at'["work"]
        /\ at["work"] \o <<>> = at["work"]
    BY <1>0, <2>1, MoveEffect, ConcatEmptySeq
  <2>4. \A r \in {"bridge", "minerOut", "mined", "minerBuf"} : at'[r] = at[r]
    BY <1>0, <2>1 DEF Move
  <2> QED  BY <2>2, <2>3, <2>4 DEF AfterMiner, ToMiner
<1>2. CASE MinerCollect
  <2>1. Move("minerIn", "minerBuf")
    BY <1>2 DEF MinerCollect
  <2>w. at["work"] \in Seq(Records)
    BY <1>0
  <2>2. at'["minerBuf"] \o (at'["minerIn"] \o at["work"])
          = at["minerBuf"] \o (at["minerIn"] \o at["work"])
    BY <1>0, <2>1, <2>w, MoveKeepsOrder
  <2>3. \A r \in {"bridge", "minerOut", "mined", "work"} : at'[r] = at[r]
    BY <1>0, <2>1 DEF Move
  <2> QED  BY <2>2, <2>3 DEF AfterMiner, ToMiner
<1>3. CASE MinerFlush
  <2>1. /\ at["mined"] = <<>> /\ at'["mined"] = at["minerBuf"]
        /\ at'["minerBuf"] = <<>>
        /\ \A r \in {"bridge", "minerOut", "minerIn", "work"} : at'[r] = at[r]
    <3>1. at["mined"] = <<>> /\ MoveAll("minerBuf", "mined")
      BY <1>3 DEF MinerFlush
    <3>2. /\ at'["minerBuf"] = <<>> /\ at'["mined"] = at["minerBuf"]
          /\ \A r \in Places \ {"minerBuf", "mined"} : at'[r] = at[r]
      BY <1>0, <3>1, MoveAllEffect
    <3> QED  BY <3>1, <3>2
  <2>2. at'["mined"] \o ToMiner' = at["mined"] \o ToMiner
    BY <2>1, PlacesTyped, ConcatEmptySeq DEF ToMiner
  <2> QED  BY <2>1, <2>2 DEF AfterMiner
<1>4. CASE MinerEmit
  <2>1. Move("mined", "minerOut")
    BY <1>4 DEF MinerEmit
  <2>2. at'["minerOut"] \o (at'["mined"] \o ToMiner)
          = at["minerOut"] \o (at["mined"] \o ToMiner)
    BY <1>0, <2>1, PlacesTyped, MoveKeepsOrder
  <2>3. \A r \in {"bridge", "minerBuf", "minerIn", "work"} : at'[r] = at[r]
    BY <1>0, <2>1 DEF Move
  <2>4. ToMiner' = ToMiner
    BY <2>3 DEF ToMiner
  <2> QED  BY <2>2, <2>3, <2>4 DEF AfterMiner
<1>5. CASE BridgeTake
  <2>1. Move("minerOut", "bridge")
    BY <1>5 DEF BridgeTake
  <2> DEFINE behind == at["mined"] \o ToMiner
  <2>a. behind \in Seq(Records)
    BY PlacesTyped
  <2>b. AfterMiner = at["bridge"] \o (at["minerOut"] \o behind)
    BY DEF AfterMiner
  <2> HIDE DEF behind
  <2>c. at'["bridge"] \o (at'["minerOut"] \o behind)
          = at["bridge"] \o (at["minerOut"] \o behind)
    BY <1>0, <2>1, <2>a, MoveKeepsOrder
  <2>2. at'["bridge"] \o (at'["minerOut"] \o (at["mined"] \o ToMiner))
          = AfterMiner
    BY ONLY <2>b, <2>c DEF behind
  <2>3. \A r \in {"mined", "minerBuf", "minerIn", "work"} : at'[r] = at[r]
    BY <1>0, <2>1 DEF Move
  <2>4. ToMiner' = ToMiner
    BY <2>3 DEF ToMiner
  <2> QED  BY <2>2, <2>3, <2>4 DEF AfterMiner
<1> QED  BY <1>1, <1>2, <1>3, <1>4, <1>5

(* So do they for the line behind the sampler's routing, and so do the     *)
(* bridge's send and the sampler batcher's steps.                          *)
LEMMA SamplerSteps ==
    ASSUME TypeOK,
           \/ SendRecord \/ MinerCollect \/ MinerFlush \/ MinerEmit
           \/ BridgeTake \/ BridgeSend \/ SamplerCollect
           \/ \E S \in SUBSET Records : SamplerFlush(S)
    PROVE  AfterBridge' = AfterBridge
<1>0. at \in [Places -> Seq(Records)]
  BY DEF TypeOK, Typed
<1> USE DEF Places, Channels, Locals
<1>1. CASE \/ SendRecord \/ MinerCollect \/ MinerFlush \/ MinerEmit
           \/ BridgeTake
  <2>1. \A r \in {"decided", "samplerBuf", "samplerIn"} : at'[r] = at[r]
    <3>1. CASE SendRecord
      BY <1>0, <3>1 DEF SendRecord, Move
    <3>2. CASE MinerCollect
      BY <1>0, <3>2 DEF MinerCollect, Move
    <3>3. CASE MinerFlush
      BY <1>0, <3>3 DEF MinerFlush, MoveAll
    <3>4. CASE MinerEmit
      BY <1>0, <3>4 DEF MinerEmit, Move
    <3>5. CASE BridgeTake
      BY <1>0, <3>5 DEF BridgeTake, Move
    <3> QED  BY <1>1, <3>1, <3>2, <3>3, <3>4, <3>5
  <2> QED  BY <1>1, <2>1, MinerSteps DEF AfterBridge
<1>2. CASE BridgeSend
  <2> DEFINE rest == at["minerOut"] \o (at["mined"] \o ToMiner)
  <2>1. Move("bridge", "samplerIn")
    BY <1>2 DEF BridgeSend
  <2>2. \A r \in {"minerOut", "mined", "minerBuf", "minerIn", "work",
                  "decided", "samplerBuf"} : at'[r] = at[r]
    BY <1>0, <2>1 DEF Move
  <2>3. AfterMiner' = at'["bridge"] \o rest /\ AfterMiner = at["bridge"] \o rest
    BY <2>2 DEF AfterMiner, ToMiner
  <2>r. rest \in Seq(Records)
    BY PlacesTyped
  <2> HIDE DEF rest
  <2>4. at'["samplerIn"] \o (at'["bridge"] \o rest)
          = at["samplerIn"] \o (at["bridge"] \o rest)
    BY <1>0, <2>1, <2>r, MoveKeepsOrder
  <2> QED  BY <2>2, <2>3, <2>4 DEF AfterBridge
<1>3. CASE SamplerCollect
  <2>1. Move("samplerIn", "samplerBuf")
    BY <1>3 DEF SamplerCollect
  <2>2. \A r \in {"bridge", "minerOut", "mined", "minerBuf", "minerIn", "work",
                  "decided"} : at'[r] = at[r]
    BY <1>0, <2>1 DEF Move
  <2>3. AfterMiner' = AfterMiner
    BY <2>2 DEF AfterMiner, ToMiner
  <2>4. at'["samplerBuf"] \o (at'["samplerIn"] \o AfterMiner)
          = at["samplerBuf"] \o (at["samplerIn"] \o AfterMiner)
    BY <1>0, <2>1, PlacesTyped, MoveKeepsOrder
  <2> QED  BY <2>2, <2>3, <2>4 DEF AfterBridge
<1>4. ASSUME NEW S \in SUBSET Records, SamplerFlush(S)
      PROVE  AfterBridge' = AfterBridge
  <2>1. /\ at["decided"] = <<>> /\ at'["decided"] = at["samplerBuf"]
        /\ at'["samplerBuf"] = <<>>
        /\ \A r \in {"bridge", "minerOut", "mined", "minerBuf", "minerIn",
                     "work", "samplerIn"} : at'[r] = at[r]
    <3>1. at["decided"] = <<>> /\ MoveAll("samplerBuf", "decided")
      BY <1>4 DEF SamplerFlush
    <3>2. /\ at'["samplerBuf"] = <<>> /\ at'["decided"] = at["samplerBuf"]
          /\ \A r \in Places \ {"samplerBuf", "decided"} : at'[r] = at[r]
      BY <1>0, <3>1, MoveAllEffect
    <3> QED  BY <3>1, <3>2
  <2>2. AfterMiner' = AfterMiner
    BY <2>1 DEF AfterMiner, ToMiner
  <2>3. /\ <<>> \o (at["samplerIn"] \o AfterMiner) = at["samplerIn"] \o AfterMiner
        /\ <<>> \o (at["samplerBuf"] \o (at["samplerIn"] \o AfterMiner))
              = at["samplerBuf"] \o (at["samplerIn"] \o AfterMiner)
    BY PlacesTyped, ConcatEmptySeq
  <2> QED  BY <2>1, <2>2, <2>3 DEF AfterBridge
<1> QED  BY <1>1, <1>2, <1>3, <1>4

LEMMA Regroup ==
    ASSUME NEW a \in Seq(Records), NEW b \in Seq(Records), NEW c \in Seq(Records)
    PROVE  (a \o b) \o c = a \o (b \o c)
  BY ConcatAssociative

(* The raw worker puts the records of a batch at the end of the line.      *)
LEMMA TakeBatchExtends ==
    ASSUME TypeOK, TakeBatch
    PROVE  \E records \in Seq(Records) :
             /\ entered' = entered \o records
             /\ AfterMiner' = AfterMiner \o records
             /\ AfterBridge' = AfterBridge \o records
<1> DEFINE records == RecordsOf[Head(rawQueue)]
<1>1. records \in Seq(Records)
  BY PipelineAssumption, HeadTailProperties DEF TakeBatch, TypeOK, Typed
<1> HIDE DEF records
<1>2. /\ at["work"] = <<>> /\ at'["work"] = records
      /\ \A r \in {"decided", "samplerBuf", "samplerIn", "bridge", "minerOut",
                   "mined", "minerBuf", "minerIn"} : at'[r] = at[r]
      /\ entered' = entered \o records
  BY DEF TakeBatch, AtSelect, TypeOK, Typed, Places, Channels, Locals, records
<1>3. \A r \in {"decided", "samplerBuf", "samplerIn", "bridge", "minerOut",
               "mined", "minerBuf", "minerIn"} : at[r] \in Seq(Records)
  BY DEF TypeOK, Typed, Places, Channels, Locals
<1> DEFINE Extends(s) == \A a \in Seq(Records) :
                            a \o (s \o records) = (a \o s) \o records
<1>4. \A s \in Seq(Records) : Extends(s)
  BY <1>1, Regroup
<1> HIDE DEF Extends
<1>5. ToMiner' = ToMiner \o records
  <2>1. ToMiner = at["minerBuf"] \o at["minerIn"]
    BY <1>2, <1>3, ConcatEmptySeq DEF ToMiner
  <2>2. ToMiner' = at["minerBuf"] \o (at["minerIn"] \o records)
    BY <1>2 DEF ToMiner
  <2>3. at["minerBuf"] \in Seq(Records) /\ Extends(at["minerIn"])
    BY <1>3, <1>4
  <2> QED  BY <2>1, <2>2, <2>3 DEF Extends
<1>6. AfterMiner' = AfterMiner \o records
  <2> DEFINE m == at["mined"] \o ToMiner
             o == at["minerOut"] \o m
  <2>1. Extends(ToMiner) /\ Extends(m) /\ Extends(o)
    BY <1>4, PlacesTyped
  <2>2. /\ at["mined"] \in Seq(Records) /\ at["minerOut"] \in Seq(Records)
        /\ at["bridge"] \in Seq(Records)
    BY <1>3
  <2>3. AfterMiner' = at["bridge"] \o (at["minerOut"]
                         \o (at["mined"] \o (ToMiner \o records)))
    BY <1>2, <1>5 DEF AfterMiner
  <2>4. at["mined"] \o (ToMiner \o records) = m \o records
    BY <2>1, <2>2 DEF Extends
  <2>5. AfterMiner = at["bridge"] \o o
    BY DEF AfterMiner
  <2> HIDE DEF m
  <2>6. at["minerOut"] \o (m \o records) = o \o records
    BY <2>1, <2>2 DEF Extends
  <2> HIDE DEF o
  <2>7. at["bridge"] \o (o \o records) = (at["bridge"] \o o) \o records
    BY <2>1, <2>2 DEF Extends
  <2> QED  BY <2>3, <2>4, <2>5, <2>6, <2>7
<1>7. AfterBridge' = AfterBridge \o records
  <2> DEFINE i == at["samplerIn"] \o AfterMiner
             b == at["samplerBuf"] \o i
  <2>1. Extends(AfterMiner) /\ Extends(i) /\ Extends(b)
    BY <1>4, PlacesTyped
  <2>2. /\ at["samplerIn"] \in Seq(Records)
        /\ at["samplerBuf"] \in Seq(Records) /\ at["decided"] \in Seq(Records)
    BY <1>3
  <2>3. AfterBridge' = at["decided"] \o (at["samplerBuf"]
                         \o (at["samplerIn"] \o (AfterMiner \o records)))
    BY <1>2, <1>6 DEF AfterBridge
  <2>4. at["samplerIn"] \o (AfterMiner \o records) = i \o records
    BY <2>1, <2>2 DEF Extends
  <2>5. AfterBridge = at["decided"] \o b
    BY DEF AfterBridge
  <2> HIDE DEF i
  <2>6. at["samplerBuf"] \o (i \o records) = b \o records
    BY <2>1, <2>2 DEF Extends
  <2> HIDE DEF b
  <2>7. at["decided"] \o (b \o records) = (at["decided"] \o b) \o records
    BY <2>1, <2>2 DEF Extends
  <2> QED  BY <2>3, <2>4, <2>5, <2>6, <2>7
<1> QED  BY <1>1, <1>2, <1>6, <1>7

(* The steps that leave the line from the raw worker to the routing alone. *)
LEMMA OtherSteps ==
    ASSUME TypeOK,
           \/ \E r \in Requests : Handle(r) \/ Accept(r) \/ Refuse(r)
           \/ LokiTake \/ LokiEnqueue
           \/ \E g \in Workers : WorkerReturn(g)
           \/ \E g \in Batchers : BatcherDrain(g) \/ BatcherReturn(g)
           \/ Stop \/ UNCHANGED vars
    PROVE  /\ AfterBridge' = AfterBridge /\ AfterMiner' = AfterMiner
           /\ at'["bridge"] = at["bridge"]
           /\ UNCHANGED <<entered, routed, offered, toIndex>>
<1> DEFINE Line == {"decided", "samplerBuf", "samplerIn", "bridge", "minerOut",
                    "mined", "minerBuf", "minerIn", "work"}
<1> USE DEF indexVars, samplerVars
<1>1. (\A r \in Line : at'[r] = at[r]) /\ UNCHANGED <<entered, routed, offered, toIndex>>
  <2>1. CASE \E r \in Requests : Handle(r) \/ Accept(r) \/ Refuse(r)
    BY <2>1 DEF Handle, Accept, Refuse
  <2>2. CASE LokiTake
    BY <2>2 DEF LokiTake, Move, PipelineMove, TypeOK, Typed, Places, Channels, Locals
  <2>3. CASE LokiEnqueue
    BY <2>3 DEF LokiEnqueue, TypeOK, Typed, Places, Channels, Locals
  <2>4. CASE \/ \E g \in Workers : WorkerReturn(g)
             \/ \E g \in Batchers : BatcherDrain(g) \/ BatcherReturn(g)
    BY <2>4 DEF WorkerReturn, BatcherDrain, BatcherReturn
  <2>5. CASE Stop
    BY <2>5 DEF Stop, StopSinks, StopSampler, StopMiner, CancelWorkers,
       JoinWorkers, ShutdownReturns, ShutdownExpires, Advance
  <2>6. CASE UNCHANGED vars
    BY <2>6 DEF vars
  <2> QED  BY <2>1, <2>2, <2>3, <2>4, <2>5, <2>6
<1>2. AfterMiner' = AfterMiner
  BY <1>1 DEF AfterMiner, ToMiner
<1> QED  BY <1>1, <1>2 DEF AfterBridge

(* PipelineInOrder is inductive with the types.                            *)
LEMMA OrderStep ==
    ASSUME TypeOK, PipelineInOrder, [Next]_vars
    PROVE  PipelineInOrder'
<1> USE DEF PipelineInOrder
<1>1. CASE \/ SendRecord \/ MinerCollect \/ MinerFlush \/ MinerEmit
           \/ BridgeTake \/ BridgeSend \/ SamplerCollect
           \/ \E S \in SUBSET Records : SamplerFlush(S)
  <2>1. UNCHANGED <<entered, routed>>
    BY <1>1 DEF SendRecord, MinerCollect, MinerFlush, MinerEmit, BridgeTake,
       BridgeSend, SamplerCollect, SamplerFlush, PipelineMove, samplerVars
  <2> QED  BY <1>1, <2>1, SamplerSteps
<1>2. CASE TakeBatch
  <2>1. PICK records \in Seq(Records) :
          entered' = entered \o records /\ AfterBridge' = AfterBridge \o records
    BY <1>2, TakeBatchExtends
  <2>2. routed \in Seq(Records) /\ AfterBridge \in Seq(Records) /\ routed' = routed
    BY <1>2, PlacesTyped DEF TypeOK, Typed, TakeBatch, samplerVars
  <2>3. (routed \o AfterBridge) \o records = routed \o (AfterBridge \o records)
    BY <2>2, Regroup
  <2> QED  BY <2>1, <2>2, <2>3
<1>3. CASE Route
  <2> DEFINE rest == at["samplerBuf"] \o (at["samplerIn"] \o AfterMiner)
  <2>1. PICK c \in {"suppressed", "kept"} : Move("decided", c)
    BY <1>3 DEF Route
  <2>2. /\ at'["decided"] = Tail(at["decided"]) /\ at["decided"] # <<>>
        /\ \A r \in {"samplerBuf", "samplerIn", "bridge", "minerOut", "mined",
                     "minerBuf", "minerIn", "work"} : at'[r] = at[r]
    BY <2>1 DEF Move, TypeOK, Typed, Places, Channels, Locals
  <2>3. AfterMiner' = AfterMiner
    BY <2>2 DEF AfterMiner, ToMiner
  <2>4. AfterBridge' = Tail(at["decided"]) \o rest
    BY <2>2, <2>3 DEF AfterBridge
  <2>5. rest \in Seq(Records) /\ routed \in Seq(Records)
        /\ at["decided"] \in Seq(Records)
    BY PlacesTyped DEF TypeOK, Typed, Places, Locals
  <2>6. AfterBridge = at["decided"] \o rest
    BY DEF AfterBridge
  <2> HIDE DEF rest
  <2>7. Append(routed, Head(at["decided"])) \o (Tail(at["decided"]) \o rest)
          = routed \o (at["decided"] \o rest)
    BY <2>2, <2>5, MoveHead
  <2>8. routed' = Append(routed, Head(at["decided"])) /\ entered' = entered
    BY <1>3 DEF Route, PipelineMove
  <2> QED  BY <2>4, <2>6, <2>7, <2>8
<1>4. CASE BridgePublish
  <2>1. UNCHANGED <<at, entered, routed>>
    BY <1>4 DEF BridgePublish, PipelineMove, samplerVars
  <2> QED  BY <2>1 DEF AfterBridge, AfterMiner, ToMiner
<1>5. CASE \/ \E r \in Requests : Handle(r) \/ Accept(r) \/ Refuse(r)
           \/ LokiTake \/ LokiEnqueue
           \/ \E g \in Workers : WorkerReturn(g)
           \/ \E g \in Batchers : BatcherDrain(g) \/ BatcherReturn(g)
           \/ Stop \/ UNCHANGED vars
  BY <1>5, OtherSteps
<1> QED  BY <1>1, <1>2, <1>3, <1>4, <1>5 DEF Next

(* Up to the sampler's routing no record is lost, duplicated or overtaken, *)
(* whatever the capacities, whatever fails, and while the gateway stops.   *)
THEOREM OrderKept == Spec => []PipelineInOrder
<1>1. Init => PipelineInOrder
  <2> SUFFICES ASSUME Init PROVE PipelineInOrder
    OBVIOUS
  <2>1. /\ routed = <<>> /\ entered = <<>>
        /\ \A p \in {"decided", "samplerBuf", "samplerIn", "bridge", "minerOut",
                     "mined", "minerBuf", "minerIn", "work"} : at[p] = <<>>
    BY DEF Init, Places, Channels, Locals
  <2>2. <<>> \o <<>> = <<>>
    BY EmptySeq, ConcatEmptySeq
  <2> QED
    BY <2>1, <2>2 DEF PipelineInOrder, AfterBridge, AfterMiner, ToMiner
<1>2. TypeOK /\ PipelineInOrder /\ [Next]_vars => PipelineInOrder'
  BY OrderStep
<1> QED  BY <1>1, <1>2, TypeCorrect, PTL DEF Spec

LEMMA Singleton ==
    ASSUME NEW s \in Seq(Records), s # <<>>, Len(s) <= 1
    PROVE  Len(s) = 1 /\ Tail(s) = <<>>
<1>1. Len(s) \in Nat \ {0}
  BY EmptySeq
<1>2. Tail(s) \in Seq(Records) /\ Len(Tail(s)) = Len(s) - 1
  BY HeadTailProperties
<1> QED  BY <1>1, <1>2, EmptySeq

(* IndexInOrder is inductive with the types: what it says of the bridge's  *)
(* two local variables is what keeps the records in order when the bridge  *)
(* hands one over to publishing.                                           *)
LEMMA IndexStep ==
    ASSUME TypeOK, IndexInOrder, [Next]_vars
    PROVE  IndexInOrder'
<1>t. /\ offered \in Seq(Records) /\ toIndex \in Seq(Records)
      /\ AfterMiner \in Seq(Records) /\ at["bridge"] \in Seq(Records)
      /\ at \in [Places -> Seq(Records)]
  BY PlacesTyped DEF TypeOK, Typed, Places, Locals
<1>1. CASE SendRecord \/ MinerCollect \/ MinerFlush \/ MinerEmit
  <2>1. UNCHANGED <<entered, offered, toIndex>>
    BY <1>1 DEF SendRecord, MinerCollect, MinerFlush, MinerEmit, PipelineMove,
       indexVars
  <2>2. at'["bridge"] = at["bridge"]
    BY <1>1, <1>t DEF SendRecord, MinerCollect, MinerFlush, MinerEmit, Move,
       MoveAll, Places, Channels, Locals
  <2> QED  BY <1>1, <2>1, <2>2, MinerSteps DEF IndexInOrder
<1>2. CASE BridgeTake
  <2>1. /\ UNCHANGED <<entered, offered, toIndex>>
        /\ toIndex = <<>> /\ at["bridge"] = <<>>
    BY <1>2 DEF BridgeTake, AtSelect, PipelineMove, indexVars
  <2>2. at'["bridge"] = Append(at["bridge"], Head(at["minerOut"]))
    BY <1>2, <1>t DEF BridgeTake, Move, Places, Channels, Locals
  <2>3. Len(at'["bridge"]) = 1
    BY <2>1, <2>2
  <2> QED  BY <1>2, <2>1, <2>3, MinerSteps DEF IndexInOrder
<1>3. CASE BridgeSend
  <2> DEFINE rest == at["minerOut"] \o (at["mined"] \o ToMiner)
  <2>1. /\ UNCHANGED <<entered, offered>> /\ toIndex' = at["bridge"]
        /\ at["bridge"] # <<>> /\ at'["bridge"] = Tail(at["bridge"])
        /\ \A r \in {"minerOut", "mined", "minerBuf", "minerIn", "work"} :
             at'[r] = at[r]
    BY <1>3, <1>t DEF BridgeSend, PipelineMove, Move, Places, Channels, Locals
  <2>2. toIndex = <<>>
    BY <2>1 DEF IndexInOrder
  <2>3. Len(at["bridge"]) = 1 /\ Tail(at["bridge"]) = <<>>
    BY <1>t, <2>1, Singleton DEF IndexInOrder
  <2>4. rest \in Seq(Records)
    BY PlacesTyped
  <2>a. ToMiner' = ToMiner
    BY <2>1 DEF ToMiner
  <2>b. AfterMiner' = at'["bridge"] \o rest
    BY <2>1, <2>a DEF AfterMiner
  <2>5. AfterMiner = at["bridge"] \o rest /\ AfterMiner' = <<>> \o rest
    BY <2>1, <2>3, <2>b DEF AfterMiner
  <2> HIDE DEF rest
  <2>6. <<>> \o rest = rest /\ <<>> \o AfterMiner = AfterMiner
    BY <1>t, <2>4, ConcatEmptySeq
  <2>7. toIndex' \o AfterMiner' = toIndex \o AfterMiner
    BY <2>1, <2>2, <2>5, <2>6
  <2>8. entered' = offered' \o (toIndex' \o AfterMiner')
    BY <2>1, <2>7 DEF IndexInOrder
  <2>9. Len(toIndex') = 1 /\ at'["bridge"] = <<>>
    BY <2>1, <2>3
  <2> QED  BY <2>8, <2>9, EmptySeq DEF IndexInOrder
<1>4. CASE BridgePublish
  <2>1. /\ UNCHANGED <<entered, at>>
        /\ offered' = offered \o toIndex /\ toIndex' = <<>>
    BY <1>4 DEF BridgePublish, PipelineMove
  <2>2. AfterMiner' = AfterMiner
    BY <2>1 DEF AfterMiner, ToMiner
  <2>3. (offered \o toIndex) \o AfterMiner = offered \o (toIndex \o AfterMiner)
    BY <1>t, Regroup, ZenonT(30)
  <2>4. <<>> \o AfterMiner = AfterMiner
    BY <1>t, ConcatEmptySeq
  <2> QED  BY <2>1, <2>2, <2>3, <2>4 DEF IndexInOrder
<1>5. CASE TakeBatch
  <2>1. PICK records \in Seq(Records) :
          entered' = entered \o records /\ AfterMiner' = AfterMiner \o records
    BY <1>5, TakeBatchExtends
  <2>2. UNCHANGED <<offered, toIndex>> /\ at'["bridge"] = at["bridge"]
    BY <1>5, <1>t DEF TakeBatch, indexVars, Places, Locals
  <2>3. toIndex \o AfterMiner \in Seq(Records)
    BY <1>t, ConcatProperties
  <2>4. toIndex \o (AfterMiner \o records) = (toIndex \o AfterMiner) \o records
    <3>1. toIndex \in Seq(Records) /\ AfterMiner \in Seq(Records)
      BY <1>t
    <3> HIDE DEF AfterMiner
    <3>2. (toIndex \o AfterMiner) \o records = toIndex \o (AfterMiner \o records)
      BY <3>1, ConcatAssociative
    <3> QED  BY ONLY <3>2
  <2> DEFINE line == toIndex \o AfterMiner
  <2> HIDE DEF line
  <2>5. offered \o (line \o records) = (offered \o line) \o records
    <3>1. line \in Seq(Records)
      BY <2>3 DEF line
    <3>2. offered \in Seq(Records)
      BY <1>t
    <3>3. (offered \o line) \o records = offered \o (line \o records)
      BY <3>1, <3>2, ConcatAssociative
    <3> QED  BY ONLY <3>3
  <2> QED  BY <2>1, <2>2, <2>4, <2>5 DEF line, IndexInOrder
<1>6. CASE \/ SamplerCollect \/ Route
           \/ \E S \in SUBSET Records : SamplerFlush(S)
  <2>1. /\ UNCHANGED <<entered, offered, toIndex>>
        /\ \A r \in {"bridge", "minerOut", "mined", "minerBuf", "minerIn",
                     "work"} : at'[r] = at[r]
    <3>1. CASE SamplerCollect
      BY <1>t, <3>1 DEF SamplerCollect, PipelineMove, Move, indexVars, Places,
         Channels, Locals
    <3>2. CASE Route
      <4>1. PICK c \in {"suppressed", "kept"} : Move("decided", c)
        BY <3>2 DEF Route
      <4> QED  BY <1>t, <3>2, <4>1 DEF Route, PipelineMove, Move, indexVars,
                  Places, Channels, Locals
    <3>3. CASE \E S \in SUBSET Records : SamplerFlush(S)
      BY <1>t, <3>3 DEF SamplerFlush, PipelineMove, MoveAll, indexVars, Places,
         Channels, Locals
    <3> QED  BY <1>6, <3>1, <3>2, <3>3
  <2> QED  BY <2>1 DEF IndexInOrder, AfterMiner, ToMiner
<1>7. CASE \/ \E r \in Requests : Handle(r) \/ Accept(r) \/ Refuse(r)
           \/ LokiTake \/ LokiEnqueue
           \/ \E g \in Workers : WorkerReturn(g)
           \/ \E g \in Batchers : BatcherDrain(g) \/ BatcherReturn(g)
           \/ Stop \/ UNCHANGED vars
  BY <1>7, OtherSteps DEF IndexInOrder
<1> QED  BY <1>1, <1>2, <1>3, <1>4, <1>5, <1>6, <1>7 DEF Next

(* The index feed is offered each mined record once, in pipeline order.    *)
THEOREM IndexFedInOrder == Spec => []IndexInOrder
<1>1. Init => IndexInOrder
  <2> SUFFICES ASSUME Init PROVE IndexInOrder
    OBVIOUS
  <2>1. /\ offered = <<>> /\ toIndex = <<>> /\ entered = <<>>
        /\ \A p \in {"bridge", "minerOut", "mined", "minerBuf", "minerIn",
                     "work"} : at[p] = <<>>
    BY DEF Init, Places, Channels, Locals
  <2>2. <<>> \o <<>> = <<>> /\ Len(<<>>) = 0
    BY EmptySeq, ConcatEmptySeq
  <2>3. AfterMiner = <<>>
    BY <2>1, <2>2 DEF AfterMiner, ToMiner
  <2> QED  BY <2>1, <2>2, <2>3 DEF IndexInOrder
<1>2. TypeOK /\ IndexInOrder /\ [Next]_vars => IndexInOrder'
  BY IndexStep
<1> QED  BY <1>1, <1>2, TypeCorrect, PTL DEF Spec

-----------------------------------------------------------------------------
(* Joining the workers.  A worker that has returned holds no record, so    *)
(* once all three have, nothing is left that could reach the sink or the   *)
(* index feed.                                                             *)

WorkersEmpty ==
    /\ goroutine["minerBridge"] = "off" => at["bridge"] = <<>> /\ toIndex = <<>>
    /\ goroutine["lokiBridge"] = "off" => at["toSink"] = <<>>
Joined == WorkersGone => \A g \in Workers : goroutine[g] = "off"

LEMMA JoinStep ==
    ASSUME TypeOK, WorkersEmpty, Joined, [Next]_vars
    PROVE  WorkersEmpty' /\ Joined'
<1> USE DEF WorkersEmpty, Joined, WorkersGone
<1>t. /\ at \in [Places -> Seq(Records)]
      /\ goroutine \in [Workers \cup Batchers -> {"on", "draining", "off"}]
  BY DEF TypeOK, Typed
<1> USE DEF Places, Channels, Locals, PipelineMove, indexVars
<1>1. CASE \E r \in Requests : Handle(r) \/ Accept(r) \/ Refuse(r)
  BY <1>1 DEF Handle, Accept, Refuse
<1>2. CASE TakeBatch
  BY <1>2, <1>t DEF TakeBatch
<1>3. CASE SendRecord \/ MinerCollect \/ MinerEmit \/ SamplerCollect
  BY <1>3, <1>t DEF SendRecord, MinerCollect, MinerEmit, SamplerCollect, Move
<1>4. CASE MinerFlush \/ \E S \in SUBSET Records : SamplerFlush(S)
  BY <1>4, <1>t DEF MinerFlush, SamplerFlush, MoveAll
<1>5. CASE BridgeTake
  BY <1>5, <1>t DEF BridgeTake, AtSelect, Move
<1>6. CASE BridgeSend
  BY <1>6, <1>t DEF BridgeSend, Move
<1>7. CASE BridgePublish
  BY <1>7 DEF BridgePublish
<1>8. CASE Route
  <2>1. PICK c \in {"suppressed", "kept"} : Move("decided", c)
    BY <1>8 DEF Route
  <2> QED  BY <1>8, <1>t, <2>1 DEF Route, Move
<1>9. CASE LokiTake
  BY <1>9, <1>t DEF LokiTake, AtSelect, Move
<1>10. CASE LokiEnqueue
  BY <1>10, <1>t DEF LokiEnqueue
<1>11. ASSUME NEW g \in Workers, WorkerReturn(g)
       PROVE  WorkersEmpty' /\ Joined'
  BY <1>11, <1>t DEF WorkerReturn, AtSelect, Workers
<1>12. ASSUME NEW g \in Batchers, BatcherDrain(g) \/ BatcherReturn(g)
       PROVE  WorkersEmpty' /\ Joined'
  BY <1>12, <1>t DEF BatcherDrain, BatcherReturn, Batchers, Workers
<1>13. CASE Stop
  BY <1>13 DEF Stop, StopSinks, StopSampler, StopMiner, CancelWorkers,
     JoinWorkers, ShutdownReturns, ShutdownExpires, Advance
<1>14. CASE UNCHANGED vars
  BY <1>14 DEF vars
<1> QED
  BY <1>1, <1>2, <1>3, <1>4, <1>5, <1>6, <1>7, <1>8, <1>9, <1>10, <1>11,
     <1>12, <1>13, <1>14 DEF Next

LEMMA QuietStep ==
    ASSUME TypeOK, WorkersEmpty, Joined, WorkersGone, [Next]_vars
    PROVE  UNCHANGED <<sunk, late, offered, toIndex, entered>>
<1>1. /\ \A g \in Workers : goroutine[g] = "off"
      /\ at["bridge"] = <<>> /\ toIndex = <<>> /\ at["toSink"] = <<>>
  BY DEF WorkersEmpty, Joined, Workers
<1>2. ~TakeBatch /\ ~BridgeSend /\ ~BridgePublish /\ ~LokiEnqueue
  BY <1>1 DEF TakeBatch, AtSelect, BridgeSend, Move, BridgePublish,
     LokiEnqueue, Workers
<1> USE DEF PipelineMove, indexVars, sinkVars
<1>3. CASE \E r \in Requests : Handle(r) \/ Accept(r) \/ Refuse(r)
  BY <1>3 DEF Handle, Accept, Refuse
<1>4. CASE SendRecord \/ MinerCollect \/ MinerFlush \/ MinerEmit \/ BridgeTake
  BY <1>4 DEF SendRecord, MinerCollect, MinerFlush, MinerEmit, BridgeTake
<1>5. CASE \/ SamplerCollect \/ Route \/ LokiTake
           \/ \E S \in SUBSET Records : SamplerFlush(S)
  BY <1>5 DEF SamplerCollect, Route, LokiTake, SamplerFlush
<1>6. CASE \/ \E g \in Workers : WorkerReturn(g)
           \/ \E g \in Batchers : BatcherDrain(g) \/ BatcherReturn(g)
  BY <1>6 DEF WorkerReturn, BatcherDrain, BatcherReturn
<1>7. CASE Stop
  BY <1>7 DEF Stop, StopSinks, StopSampler, StopMiner, CancelWorkers,
     JoinWorkers, ShutdownReturns, ShutdownExpires, Advance
<1>8. CASE UNCHANGED vars
  BY <1>8 DEF vars
<1> QED  BY <1>2, <1>3, <1>4, <1>5, <1>6, <1>7, <1>8 DEF Next

(* Once Stop has joined the workers, no record reaches the sink or the     *)
(* index feed any more, whatever the batchers still do.                    *)
THEOREM NothingAfterJoin == Spec => QuietAfterJoin
<1>1. Init => WorkersEmpty /\ Joined
  BY DEF Init, WorkersEmpty, Joined, WorkersGone, Workers, Places, Locals
<1>2. TypeOK /\ WorkersEmpty /\ Joined /\ [Next]_vars => (WorkersEmpty /\ Joined)'
  BY JoinStep
<1>3. /\ TypeOK /\ WorkersEmpty /\ Joined /\ [Next]_vars
      => [WorkersGone => UNCHANGED <<sunk, late, offered, toIndex, entered>>]_vars
  BY QuietStep
<1> QED  BY <1>1, <1>2, <1>3, TypeCorrect, PTL DEF Spec, QuietAfterJoin

-----------------------------------------------------------------------------
(* Answers.  AnswersAreTrue is inductive with the types: a request is put  *)
(* into the queue only while it has no answer, and its records are not in  *)
(* the pipeline before its batch is taken from there.                      *)

Queued(r) == r \in ToSet(rawQueue)
Apart(r) == ToSet(RecordsOf[r]) \cap ToSet(entered) = {}
Arrived(r) ==
    \E i \in 0..(Len(entered) - Len(RecordsOf[r])) :
        SubSeq(entered, i + 1, i + Len(RecordsOf[r])) = RecordsOf[r]

LEMMA AppendToSet ==
    ASSUME NEW S, NEW s \in Seq(S), NEW e \in S
    PROVE  ToSet(Append(s, e)) = ToSet(s) \cup {e}
<1>1. /\ Len(Append(s, e)) = Len(s) + 1 /\ Append(s, e) \in Seq(S)
      /\ \A i \in 1..Len(s) : Append(s, e)[i] = s[i]
      /\ Append(s, e)[Len(s) + 1] = e
  BY AppendProperties
<1>2. Len(s) \in Nat /\ DOMAIN s = 1..Len(s)
      /\ DOMAIN Append(s, e) = 1..(Len(s) + 1)
  BY <1>1, LenProperties
<1> QED  BY <1>1, <1>2 DEF ToSet

LEMMA AppendInjective2 ==
    ASSUME NEW S, NEW s \in Seq(S), NEW e \in S, IsInjective(s), e \notin ToSet(s)
    PROVE  IsInjective(Append(s, e))
<1>1. /\ Len(Append(s, e)) = Len(s) + 1 /\ Append(s, e) \in Seq(S)
      /\ \A i \in 1..Len(s) : Append(s, e)[i] = s[i]
      /\ Append(s, e)[Len(s) + 1] = e
  BY AppendProperties
<1>2. Len(s) \in Nat /\ DOMAIN s = 1..Len(s)
      /\ DOMAIN Append(s, e) = 1..(Len(s) + 1)
  BY <1>1, LenProperties
<1> QED  BY <1>1, <1>2 DEF ToSet, IsInjective

(* Taking the head of an injective sequence leaves the others in it.       *)
LEMMA TailOfInjective ==
    ASSUME NEW S, NEW s \in Seq(S), s # <<>>, IsInjective(s)
    PROVE  /\ IsInjective(Tail(s)) /\ Head(s) \in ToSet(s)
           /\ ToSet(Tail(s)) = ToSet(s) \ {Head(s)}
<1>1. /\ Head(s) = s[1] /\ Tail(s) \in Seq(S) /\ Len(Tail(s)) = Len(s) - 1
      /\ \A i \in 1..(Len(s) - 1) : Tail(s)[i] = s[i + 1]
      /\ Len(s) \in Nat \ {0}
  BY HeadTailProperties, EmptySeq
<1>2. DOMAIN s = 1..Len(s) /\ DOMAIN Tail(s) = 1..(Len(s) - 1)
  BY <1>1, LenProperties
<1>3. IsInjective(Tail(s)) /\ Head(s) \in ToSet(s)
  BY <1>1, <1>2 DEF IsInjective, ToSet
<1>4. ASSUME NEW x \in ToSet(Tail(s)) PROVE x \in ToSet(s) \ {Head(s)}
  BY <1>1, <1>2 DEF IsInjective, ToSet
<1>5. ASSUME NEW x \in ToSet(s), x # Head(s) PROVE x \in ToSet(Tail(s))
  <2>1. PICK i \in 1..Len(s) : x = s[i]
    BY <1>2 DEF ToSet
  <2>2. i - 1 \in 1..(Len(s) - 1) /\ Tail(s)[i - 1] = x
    BY <1>1, <1>5, <2>1
  <2> QED  BY <1>2, <2>2 DEF ToSet
<1> QED  BY <1>3, <1>4, <1>5

LEMMA ConcatSet ==
    ASSUME NEW s \in Seq(Records), NEW t \in Seq(Records)
    PROVE  /\ ToSet(s \o t) = ToSet(s) \cup ToSet(t)
           /\ IsInjective(s) /\ IsInjective(t) /\ ToSet(s) \cap ToSet(t) = {}
                => IsInjective(s \o t)
           /\ IsInjective(s \o t) => ToSet(s) \cap ToSet(t) = {}
<1>1. /\ s \o t \in Seq(Records) /\ Len(s \o t) = Len(s) + Len(t)
      /\ \A i \in 1..Len(s) : (s \o t)[i] = s[i]
      /\ \A i \in Len(s) + 1 .. Len(s) + Len(t) : (s \o t)[i] = t[i - Len(s)]
  BY ConcatProperties
<1>2. /\ Len(s) \in Nat /\ Len(t) \in Nat
      /\ DOMAIN s = 1..Len(s) /\ DOMAIN t = 1..Len(t)
      /\ DOMAIN (s \o t) = 1..(Len(s) + Len(t))
  BY <1>1, LenProperties
<1>3. \A i \in 1..Len(t) : /\ Len(s) + i \in 1..(Len(s) + Len(t))
                            /\ (s \o t)[Len(s) + i] = t[i]
  BY <1>1, <1>2
<1>4. ToSet(s \o t) = ToSet(s) \cup ToSet(t)
  <2>1. ASSUME NEW i \in 1..(Len(s) + Len(t))
        PROVE  (s \o t)[i] \in ToSet(s) \cup ToSet(t)
    <3>1. CASE i <= Len(s)
      BY <1>1, <1>2, <3>1 DEF ToSet
    <3>2. CASE i > Len(s)
      <4>1. i - Len(s) \in 1..Len(t) /\ (s \o t)[i] = t[i - Len(s)]
        BY <1>1, <1>2, <3>2
      <4> QED  BY <1>2, <4>1 DEF ToSet
    <3> QED  BY <1>2, <3>1, <3>2
  <2>2. \A i \in 1..Len(s) : s[i] \in ToSet(s \o t)
    BY <1>1, <1>2 DEF ToSet
  <2>3. \A i \in 1..Len(t) : t[i] \in ToSet(s \o t)
    BY <1>2, <1>3 DEF ToSet
  <2>4. ToSet(s \o t) \subseteq ToSet(s) \cup ToSet(t)
    BY <1>2, <2>1 DEF ToSet
  <2>5. ToSet(s) \cup ToSet(t) \subseteq ToSet(s \o t)
    BY <1>2, <2>2, <2>3 DEF ToSet
  <2> QED  BY <2>4, <2>5
<1>5. ASSUME IsInjective(s), IsInjective(t), ToSet(s) \cap ToSet(t) = {}
      PROVE  IsInjective(s \o t)
  <2> SUFFICES ASSUME NEW i \in 1..(Len(s) + Len(t)),
                      NEW j \in 1..(Len(s) + Len(t)),
                      (s \o t)[i] = (s \o t)[j]
               PROVE  i = j
    BY <1>2 DEF IsInjective
  <2>1. \A m \in 1..Len(s) : s[m] \in ToSet(s)
    BY <1>2 DEF ToSet
  <2>2. \A m \in 1..Len(t) : t[m] \in ToSet(t)
    BY <1>2 DEF ToSet
  <2>3. CASE i <= Len(s) /\ j <= Len(s)
    BY <1>1, <1>2, <1>5, <2>3 DEF IsInjective
  <2>4. CASE i > Len(s) /\ j > Len(s)
    BY <1>1, <1>2, <1>5, <2>4, SMTT(20) DEF IsInjective
  <2>5. CASE i <= Len(s) /\ j > Len(s)
    BY <1>1, <1>2, <1>5, <2>1, <2>2, <2>5
  <2>6. CASE i > Len(s) /\ j <= Len(s)
    BY <1>1, <1>2, <1>5, <2>1, <2>2, <2>6
  <2> QED  BY <1>2, <2>3, <2>4, <2>5, <2>6
<1>6. ASSUME IsInjective(s \o t), NEW x \in ToSet(s), x \in ToSet(t) PROVE FALSE
  <2>1. PICK i \in 1..Len(s), j \in 1..Len(t) : x = s[i] /\ x = t[j]
    BY <1>2, <1>6 DEF ToSet
  <2>2. (s \o t)[i] = x /\ i \in 1..(Len(s) + Len(t))
    <3>1. (s \o t)[i] = s[i]
      BY <1>1
    <3>2. i \in 1..(Len(s) + Len(t))
      BY <1>2
    <3> QED  BY <2>1, <3>1, <3>2
  <2>3. (s \o t)[Len(s) + j] = x /\ Len(s) + j \in 1..(Len(s) + Len(t))
    BY <1>3, <2>1
  <2>4. i # Len(s) + j
    <3>1. i \in Int /\ j \in Int /\ i <= Len(s) /\ 1 <= j
      BY <1>2
    <3> QED  BY <1>2, <3>1
  <2> QED  BY <1>2, <1>6, <2>2, <2>3, <2>4 DEF IsInjective
<1> QED  BY <1>4, <1>5, <1>6

LEMMA AnswersNamed ==
    AnswersAreTrue <=>
        /\ IsInjective(rawQueue) /\ IsInjective(entered)
        /\ \A r \in Requests :
             /\ req[r] # "accepted" => ~Queued(r)
             /\ req[r] = "accepted" /\ ~Queued(r) => Arrived(r)
             /\ ~(req[r] = "accepted" /\ ~Queued(r)) => Apart(r)
  BY DEF AnswersAreTrue, Queued, Apart, Arrived

LEMMA AnswersFrame ==
    ASSUME AnswersAreTrue, UNCHANGED <<rawQueue, entered>>,
           \A r \in Requests : req'[r] = "accepted" <=> req[r] = "accepted"
    PROVE  AnswersAreTrue'
  BY AnswersNamed DEF AnswersAreTrue

LEMMA AcceptAnswers ==
    ASSUME TypeOK, AnswersAreTrue, NEW r \in Requests, Accept(r)
    PROVE  AnswersAreTrue'
<1>1. /\ rawQueue \in Seq(Requests)
      /\ req \in [Requests -> {"new", "handling", "accepted", "refused"}]
  BY DEF TypeOK, Typed
<1>2. /\ rawQueue' = Append(rawQueue, r) /\ entered' = entered
      /\ req[r] = "handling" /\ req' = [req EXCEPT ![r] = "accepted"]
  BY DEF Accept
<1>3. r \notin ToSet(rawQueue) /\ Apart(r)
  BY <1>2, AnswersNamed DEF Queued
<1>4. IsInjective(rawQueue') /\ ToSet(rawQueue') = ToSet(rawQueue) \cup {r}
  BY <1>1, <1>2, <1>3, AnswersNamed, AppendToSet, AppendInjective2
<1>5. IsInjective(entered')
  BY <1>2, AnswersNamed
<1>6. ASSUME NEW q \in Requests
      PROVE  /\ req'[q] # "accepted" => q \notin ToSet(rawQueue')
             /\ IF req'[q] = "accepted" /\ q \notin ToSet(rawQueue')
                  THEN Arrived(q) ELSE Apart(q)
  <2>1. CASE q = r
    BY <1>1, <1>2, <1>3, <1>4, <2>1
  <2>2. CASE q # r
    <3>1. req'[q] = req[q] /\ (q \in ToSet(rawQueue') <=> Queued(q))
      BY <1>1, <1>2, <1>4, <2>2 DEF Queued
    <3> QED  BY <3>1, AnswersNamed
  <2> QED  BY <2>1, <2>2
<1> QED  BY <1>2, <1>4, <1>5, <1>6 DEF AnswersAreTrue, Arrived, Apart

(* Taking a batch: its records were apart from all that has entered, and   *)
(* are contiguous at the end of it.                                        *)
LEMMA TakeBatchAnswers ==
    ASSUME TypeOK, AnswersAreTrue, TakeBatch
    PROVE  AnswersAreTrue'
<1>0. PICK r \in Requests : r = Head(rawQueue)
  BY HeadTailProperties DEF TypeOK, Typed, TakeBatch
<1> DEFINE new == RecordsOf[r]
<1>1. /\ rawQueue \in Seq(Requests) /\ rawQueue # <<>>
      /\ entered \in Seq(Records)
      /\ rawQueue' = Tail(rawQueue) /\ entered' = entered \o new /\ req' = req
  BY <1>0 DEF TypeOK, Typed, TakeBatch, handlerVars
<1>2. new \in Seq(Records)
  BY PipelineAssumption
<1>3. /\ IsInjective(rawQueue') /\ Queued(r)
      /\ ToSet(rawQueue') = ToSet(rawQueue) \ {r}
  BY <1>0, <1>1, TailOfInjective, AnswersNamed DEF Queued
<1>4. req[r] = "accepted" /\ Apart(r)
  BY <1>3, AnswersNamed
<1>5. /\ IsInjective(entered \o new)
      /\ ToSet(entered \o new) = ToSet(entered) \cup ToSet(new)
  BY <1>1, <1>2, <1>4, ConcatSet, AnswersNamed, PipelineAssumption DEF Apart
<1>6. /\ entered \o new \in Seq(Records)
      /\ Len(entered \o new) = Len(entered) + Len(new)
      /\ \A i \in 1..Len(entered) : (entered \o new)[i] = entered[i]
      /\ \A i \in Len(entered) + 1 .. Len(entered) + Len(new) :
           (entered \o new)[i] = new[i - Len(entered)]
      /\ Len(entered) \in Nat /\ Len(new) \in Nat
  BY <1>1, <1>2, ConcatProperties, LenProperties
<1>7. Arrived(r)'
  <2>1. SubSeq(entered \o new, Len(entered) + 1, Len(entered) + Len(new)) = new
    <3>1. /\ Len(entered) + 1 \in 1..(Len(entered \o new) + 1)
          /\ Len(entered) + Len(new) \in Len(entered)..Len(entered \o new)
      BY <1>6
    <3>2. SubSeq(entered \o new, Len(entered) + 1, Len(entered) + Len(new))
            = SubSeq(new, 1, Len(new))
      BY <1>1, <1>2, <1>6, SubSeqOfConcat2
    <3> QED  BY <1>2, <3>2, SubSeqFull
  <2>2. Len(entered) \in 0..(Len(entered \o new) - Len(new))
    BY <1>6
  <2> QED  BY <1>1, <2>1, <2>2 DEF Arrived
<1>8. ASSUME NEW q \in Requests, q # r, Arrived(q) PROVE Arrived(q)'
  <2> DEFINE n == Len(RecordsOf[q])
  <2>1. PICK i \in 0..(Len(entered) - n) : SubSeq(entered, i + 1, i + n) = RecordsOf[q]
    BY <1>8 DEF Arrived
  <2>2. n \in Nat
    BY PipelineAssumption, LenProperties
  <2>3. SubSeq(entered \o new, i + 1, i + n) = SubSeq(entered, i + 1, i + n)
    <3>1. i \in Nat /\ i + n <= Len(entered)
      BY <1>6, <2>2
    <3>2. CASE n = 0
      <4>1. i + n < i + 1 /\ i + 1 \in Int /\ i + n \in Int
        BY <3>1, <3>2
      <4> QED  BY <4>1, SubSeqEmpty
    <3>3. CASE n > 0
      <4>1. i + 1 \in 1..Len(entered) /\ i + n \in 1..Len(entered)
        BY <1>6, <2>2, <3>1, <3>3
      <4> HIDE DEF new, n
      <4> QED  BY <1>1, <1>2, <4>1, SubSeqOfConcat1
    <3> QED  BY <2>2, <3>2, <3>3
  <2>4. i \in 0..(Len(entered \o new) - n)
    BY <1>6, <2>2
  <2> QED  BY <1>1, <2>1, <2>3, <2>4 DEF Arrived
<1>9. ASSUME NEW q \in Requests, q # r, Apart(q) PROVE Apart(q)'
  <2>1. ToSet(RecordsOf[q]) \cap ToSet(new) = {}
    BY <1>2, <1>9, PipelineAssumption
  <2> QED  BY <1>1, <1>5, <1>9, <2>1 DEF Apart
<1>10. ASSUME NEW q \in Requests
       PROVE  /\ req'[q] # "accepted" => ~Queued(q)'
              /\ IF req'[q] = "accepted" /\ ~Queued(q)'
                   THEN Arrived(q)' ELSE Apart(q)'
  <2>1. CASE q = r
    BY <1>1, <1>3, <1>4, <1>7, <2>1 DEF Queued
  <2>2. CASE q # r
    <3>1. req'[q] = req[q] /\ (Queued(q)' <=> Queued(q))
      BY <1>1, <1>3, <2>2 DEF Queued
    <3> QED  BY <3>1, <1>8, <1>9, <2>2, AnswersNamed
  <2> QED  BY <2>1, <2>2
<1> QED  BY <1>1, <1>3, <1>5, <1>10 DEF AnswersAreTrue, Queued, Arrived, Apart

LEMMA AnswersStep ==
    ASSUME TypeOK, AnswersAreTrue, [Next]_vars
    PROVE  AnswersAreTrue'
<1>t. req \in [Requests -> {"new", "handling", "accepted", "refused"}]
  BY DEF TypeOK, Typed
<1>1. ASSUME NEW r \in Requests, Handle(r) \/ Refuse(r) PROVE AnswersAreTrue'
  <2>1. UNCHANGED <<rawQueue, entered>>
    BY <1>1 DEF Handle, Refuse
  <2>2. \A q \in Requests : req'[q] = "accepted" <=> req[q] = "accepted"
    BY <1>1, <1>t DEF Handle, Refuse
  <2> QED  BY <2>1, <2>2, AnswersFrame
<1>2. CASE UNCHANGED <<req, rawQueue, entered>>
  BY <1>2, AnswersFrame
<1>3. CASE \E r \in Requests : Accept(r)
  BY <1>3, AcceptAnswers
<1>4. CASE TakeBatch
  BY <1>4, TakeBatchAnswers
<1> USE DEF PipelineMove, handlerVars
<1>5. CASE SendRecord \/ MinerCollect \/ MinerFlush \/ MinerEmit \/ BridgeTake
  BY <1>5, <1>2 DEF SendRecord, MinerCollect, MinerFlush, MinerEmit, BridgeTake
<1>6. CASE \/ BridgeSend \/ BridgePublish \/ SamplerCollect \/ Route
           \/ \E S \in SUBSET Records : SamplerFlush(S)
           \/ LokiTake \/ LokiEnqueue
  BY <1>6, <1>2 DEF BridgeSend, BridgePublish, SamplerCollect, Route,
     SamplerFlush, LokiTake, LokiEnqueue
<1>7. CASE \/ \E g \in Workers : WorkerReturn(g)
           \/ \E g \in Batchers : BatcherDrain(g) \/ BatcherReturn(g)
  BY <1>7, <1>2 DEF WorkerReturn, BatcherDrain, BatcherReturn
<1>8. CASE Stop
  BY <1>8, <1>2 DEF Stop, StopSinks, StopSampler, StopMiner, CancelWorkers,
     JoinWorkers, ShutdownReturns, ShutdownExpires, Advance
<1>9. CASE UNCHANGED vars
  BY <1>9, <1>2 DEF vars
<1> QED  BY <1>1, <1>3, <1>4, <1>5, <1>6, <1>7, <1>8, <1>9 DEF Next

(* An accepted request is queued or entered whole and once; a refused one  *)
(* left nothing behind.                                                    *)
THEOREM AnswersKept == Spec => []AnswersAreTrue
<1>1. Init => AnswersAreTrue
  <2> SUFFICES ASSUME Init PROVE AnswersAreTrue
    OBVIOUS
  <2>1. rawQueue = <<>> /\ entered = <<>> /\ \A r \in Requests : req[r] = "new"
    BY DEF Init
  <2>2. DOMAIN <<>> = {} /\ ToSet(<<>>) = {}
    BY EmptySeq, LenProperties DEF ToSet
  <2>3. IsInjective(<<>>)
    BY <2>2 DEF IsInjective
  <2> QED  BY <2>1, <2>2, <2>3, AnswersNamed DEF Queued, Apart
<1>2. TypeOK /\ AnswersAreTrue /\ [Next]_vars => AnswersAreTrue'
  BY AnswersStep
<1> QED  BY <1>1, <1>2, TypeCorrect, PTL DEF Spec

-----------------------------------------------------------------------------
(* Routing.  The two streams grow with the routed records, and a decision  *)
(* taken later changes nothing for those already routed: a record is in    *)
(* one place only, which is what PipelineInOrder and the injectivity of    *)
(* what has entered say together.                                          *)

LEMMA SelectsMore ==
    ASSUME NEW a \in Seq(Records), NEW s \in Seq(Records), NEW T,
           NEW e \in T, e \in Records, Selects(a, s, T)
    PROVE  Selects(Append(a, e), Append(s, e), T)
<1>1. PICK f \in [DOMAIN a -> DOMAIN s] :
        /\ \A i, j \in DOMAIN a : i < j => f[i] < f[j]
        /\ \A i \in DOMAIN a : a[i] = s[f[i]]
        /\ \A j \in DOMAIN s : s[j] \in T <=> \E i \in DOMAIN a : f[i] = j
  BY DEF Selects
<1> DEFINE b == Append(a, e)
           t == Append(s, e)
           m == Len(a)
           n == Len(s)
           g == [i \in 1..(m + 1) |-> IF i = m + 1 THEN n + 1 ELSE f[i]]
<1>2. /\ b \in Seq(Records) /\ Len(b) = m + 1 /\ b[m + 1] = e
      /\ t \in Seq(Records) /\ Len(t) = n + 1 /\ t[n + 1] = e
      /\ \A i \in 1..m : b[i] = a[i]
      /\ \A j \in 1..n : t[j] = s[j]
  BY AppendProperties
<1>3. /\ m \in Nat /\ n \in Nat /\ DOMAIN a = 1..m /\ DOMAIN s = 1..n
      /\ DOMAIN b = 1..(m + 1) /\ DOMAIN t = 1..(n + 1)
  BY <1>2, LenProperties
<1> HIDE DEF b, t, m, n
<1>4. \A i \in 1..m : g[i] = f[i] /\ f[i] \in 1..n
  BY <1>1, <1>3
<1>5. g[m + 1] = n + 1
  BY <1>3
<1>6. g \in [1..(m + 1) -> 1..(n + 1)]
  BY <1>3, <1>4
<1> HIDE DEF g
<1>7. ASSUME NEW i \in 1..(m + 1), NEW j \in 1..(m + 1), i < j
      PROVE  g[i] < g[j]
  <2>1. i \in 1..m
    BY <1>3, <1>7
  <2>2. CASE j = m + 1
    BY <1>3, <1>4, <1>5, <2>1, <2>2
  <2>3. CASE j # m + 1
    <3>1. j \in 1..m
      BY <1>3, <2>3
    <3> QED  BY <1>1, <1>3, <1>4, <1>7, <2>1, <3>1
  <2> QED  BY <2>2, <2>3
<1>8. ASSUME NEW i \in 1..(m + 1) PROVE b[i] = t[g[i]]
  <2>1. CASE i = m + 1
    BY <1>2, <1>5, <2>1
  <2>2. CASE i # m + 1
    <3>1. i \in 1..m
      BY <1>3, <2>2
    <3>2. a[i] = s[f[i]] /\ f[i] \in 1..n
      BY <1>1, <1>3, <1>4, <3>1
    <3> QED  BY <1>2, <1>4, <3>1, <3>2
  <2> QED  BY <2>1, <2>2
<1>9. ASSUME NEW j \in 1..(n + 1)
      PROVE  t[j] \in T <=> \E i \in 1..(m + 1) : g[i] = j
  <2>1. CASE j = n + 1
    <3>1. m + 1 \in 1..(m + 1)
      BY <1>3
    <3> QED  BY <1>2, <1>5, <2>1, <3>1
  <2>2. CASE j # n + 1
    <3>1. j \in 1..n
      BY <1>3, <2>2
    <3>2. t[j] \in T <=> \E i \in 1..m : f[i] = j
      BY <1>1, <1>2, <1>3, <3>1
    <3>3. ASSUME NEW i \in 1..m, f[i] = j PROVE \E k \in 1..(m + 1) : g[k] = j
      <4>1. i \in 1..(m + 1)
        BY <1>3
      <4> QED  BY <1>4, <3>3, <4>1
    <3>4. ASSUME NEW k \in 1..(m + 1), g[k] = j PROVE \E i \in 1..m : f[i] = j
      <4>1. k # m + 1
        BY <1>5, <2>2, <3>4
      <4>2. k \in 1..m
        BY <1>3, <4>1
      <4> QED  BY <1>4, <3>4, <4>2
    <3> QED  BY <3>2, <3>3, <3>4
  <2> QED  BY <2>1, <2>2
<1>10. Selects(b, t, T)
  <2>1. /\ g \in [DOMAIN b -> DOMAIN t]
        /\ \A i, j \in DOMAIN b : i < j => g[i] < g[j]
    BY <1>3, <1>6, <1>7
  <2>2. \A i \in DOMAIN b : b[i] = t[g[i]]
    BY <1>3, <1>8
  <2>3. \A j \in DOMAIN t : t[j] \in T <=> \E i \in DOMAIN b : g[i] = j
    BY <1>3, <1>9
  <2> QED  BY <2>1, <2>2, <2>3 DEF Selects
<1> QED  BY <1>10 DEF b, t

LEMMA SelectsNoMore ==
    ASSUME NEW a \in Seq(Records), NEW s \in Seq(Records), NEW T,
           NEW e \in Records, e \notin T, Selects(a, s, T)
    PROVE  Selects(a, Append(s, e), T)
<1>1. PICK f \in [DOMAIN a -> DOMAIN s] :
        /\ \A i, j \in DOMAIN a : i < j => f[i] < f[j]
        /\ \A i \in DOMAIN a : a[i] = s[f[i]]
        /\ \A j \in DOMAIN s : s[j] \in T <=> \E i \in DOMAIN a : f[i] = j
  BY DEF Selects
<1> DEFINE t == Append(s, e)
           n == Len(s)
<1>2. /\ t \in Seq(Records) /\ Len(t) = n + 1 /\ t[n + 1] = e
      /\ \A j \in 1..n : t[j] = s[j]
  BY AppendProperties
<1>3. n \in Nat /\ DOMAIN s = 1..n /\ DOMAIN t = 1..(n + 1)
  BY <1>2, LenProperties
<1> HIDE DEF t, n
<1>4. f \in [DOMAIN a -> DOMAIN t] /\ \A i \in DOMAIN a : f[i] \in 1..n
  BY <1>3
<1>5. \A i \in DOMAIN a : a[i] = t[f[i]]
  BY <1>1, <1>2, <1>4
<1>6. ASSUME NEW j \in 1..(n + 1)
      PROVE  t[j] \in T <=> \E i \in DOMAIN a : f[i] = j
  <2>1. CASE j = n + 1
    <3>1. \A i \in DOMAIN a : f[i] # j
      BY <1>3, <1>4, <2>1
    <3> QED  BY <1>2, <2>1, <3>1
  <2>2. CASE j # n + 1
    <3>1. j \in 1..n
      BY <1>3, <2>2
    <3> QED  BY <1>1, <1>2, <1>3, <3>1
  <2> QED  BY <2>1, <2>2
<1>7. Selects(a, t, T)
  <2>1. \A j \in DOMAIN t : t[j] \in T <=> \E i \in DOMAIN a : f[i] = j
    BY <1>3, <1>6
  <2> QED  BY <1>1, <1>4, <1>5, <2>1 DEF Selects
<1> QED  BY <1>7 DEF t

LEMMA SelectsSame ==
    ASSUME NEW a, NEW s, NEW T, NEW U, Selects(a, s, T),
           \A x \in ToSet(s) : x \in T <=> x \in U
    PROVE  Selects(a, s, U)
<1>1. \A j \in DOMAIN s : s[j] \in T <=> s[j] \in U
  BY DEF ToSet
<1> QED  BY <1>1 DEF Selects

LEMMA AppendOfConcat ==
    ASSUME NEW a \in Seq(Records), NEW b \in Seq(Records), NEW e \in Records
    PROVE  a \o Append(b, e) = Append(a \o b, e)
<1>1. /\ <<e>> \in Seq(Records) /\ Append(b, e) = b \o <<e>>
      /\ a \o b \in Seq(Records)
  BY AppendIsConcat, ConcatProperties
<1>2. Append(a \o b, e) = (a \o b) \o <<e>>
  BY <1>1, AppendIsConcat
<1>3. (a \o b) \o <<e>> = a \o (b \o <<e>>)
  BY <1>1, Regroup
<1> QED  BY <1>1, <1>2, <1>3

(* No record the batcher has routed is among those it decides on now.      *)
LEMMA RoutedIsPast ==
    ASSUME TypeOK, PipelineInOrder, AnswersAreTrue
    PROVE  ToSet(routed) \cap ToSet(at["samplerBuf"]) = {}
<1> DEFINE rest == at["samplerIn"] \o AfterMiner
           line == at["samplerBuf"] \o rest
<1>1. /\ routed \in Seq(Records) /\ at["decided"] \in Seq(Records)
      /\ at["samplerBuf"] \in Seq(Records) /\ at["samplerIn"] \in Seq(Records)
      /\ AfterMiner \in Seq(Records) /\ AfterBridge \in Seq(Records)
  BY PlacesTyped DEF TypeOK, Typed, Places, Channels, Locals
<1>2. rest \in Seq(Records) /\ line \in Seq(Records)
  BY <1>1, ConcatProperties
<1>3. entered = routed \o AfterBridge /\ AfterBridge = at["decided"] \o line
  BY DEF PipelineInOrder, AfterBridge
<1> HIDE DEF rest
<1>4. ToSet(line) = ToSet(at["samplerBuf"]) \cup ToSet(rest)
  BY <1>1, <1>2, ConcatSet
<1> HIDE DEF line
<1>5. ToSet(AfterBridge) = ToSet(at["decided"]) \cup ToSet(line)
  BY <1>1, <1>2, <1>3, ConcatSet
<1>6. ToSet(routed) \cap ToSet(AfterBridge) = {}
  BY <1>1, <1>3, ConcatSet DEF AnswersAreTrue
<1> QED  BY <1>4, <1>5, <1>6

Sinkward == sunk \o (at["toSink"] \o at["kept"])
Gone == suppress \cap Enforced

LEMMA RouteStep ==
    ASSUME TypeOK, RoutedInOrder, Route
    PROVE  RoutedInOrder'
<1> DEFINE e == Head(at["decided"])
<1>t. /\ at \in [Places -> Seq(Records)] /\ routed \in Seq(Records)
      /\ sunk \in Seq(Records) /\ at["decided"] \in Seq(Records)
      /\ at["toSink"] \in Seq(Records) /\ at["kept"] \in Seq(Records)
      /\ at["suppressed"] \in Seq(Records)
  BY DEF TypeOK, Typed, Places, Channels, Locals
<1>1. PICK c \in {"suppressed", "kept"} :
        /\ Move("decided", c) /\ (c = "suppressed" <=> e \in Gone)
  BY DEF Route, Dropped, Gone
<1>2. /\ routed' = Append(routed, e) /\ suppress' = suppress /\ sunk' = sunk
  BY DEF Route, PipelineMove, sinkVars
<1>3. /\ e \in Records /\ at'[c] = Append(at[c], e)
      /\ \A p \in {"toSink", "kept", "suppressed"} \ {c} : at'[p] = at[p]
  <2>1. "decided" \in Places /\ c \in Places /\ "decided" # c
    BY DEF Places, Channels, Locals
  <2>2. {"toSink", "kept", "suppressed"} \ {c} \subseteq Places \ {"decided", c}
    BY DEF Places, Channels, Locals
  <2> HIDE DEF Move, Places
  <2> QED  BY <1>t, <1>1, <2>1, <2>2, MoveEffect
<1> HIDE DEF e
<1>4. Sinkward \in Seq(Records)
  BY <1>t, ConcatProperties DEF Sinkward
<1>5. Selects(Sinkward, routed, Records \ Gone) /\ Selects(at["suppressed"], routed, Gone)
  BY DEF RoutedInOrder, Sinkward, Gone
<1>6. CASE c = "suppressed"
  <2>1. Sinkward' = Sinkward /\ at'["suppressed"] = Append(at["suppressed"], e)
    BY <1>2, <1>3, <1>6 DEF Sinkward
  <2>2. Selects(Sinkward, Append(routed, e), Records \ Gone)
    BY <1>t, <1>1, <1>3, <1>4, <1>5, <1>6, SelectsNoMore
  <2>3. Selects(Append(at["suppressed"], e), Append(routed, e), Gone)
    BY <1>t, <1>1, <1>3, <1>5, <1>6, SelectsMore
  <2> QED  BY <1>2, <2>1, <2>2, <2>3 DEF RoutedInOrder, Sinkward, Gone
<1>7. CASE c = "kept"
  <2>1. at'["suppressed"] = at["suppressed"] /\ at'["toSink"] = at["toSink"]
        /\ at'["kept"] = Append(at["kept"], e)
    BY <1>3, <1>7
  <2>2. Sinkward' = Append(Sinkward, e)
    <3>1. Sinkward' = sunk \o (at["toSink"] \o Append(at["kept"], e))
      BY <1>2, <2>1 DEF Sinkward
    <3>2. at["toSink"] \o Append(at["kept"], e) = Append(at["toSink"] \o at["kept"], e)
      BY <1>t, <1>3, AppendOfConcat
    <3>3. at["toSink"] \o at["kept"] \in Seq(Records)
      BY <1>t, ConcatProperties
    <3>4. sunk \o Append(at["toSink"] \o at["kept"], e)
            = Append(sunk \o (at["toSink"] \o at["kept"]), e)
      BY <1>t, <1>3, <3>3, AppendOfConcat, ZenonT(30)
    <3> QED  BY <3>1, <3>2, <3>4 DEF Sinkward
  <2>3. Selects(Append(Sinkward, e), Append(routed, e), Records \ Gone)
    BY <1>t, <1>1, <1>3, <1>4, <1>5, <1>7, SelectsMore
  <2>4. Selects(at["suppressed"], Append(routed, e), Gone)
    BY <1>t, <1>1, <1>3, <1>5, <1>7, SelectsNoMore
  <2> QED  BY <1>2, <2>1, <2>2, <2>3, <2>4 DEF RoutedInOrder, Sinkward, Gone
<1> QED  BY <1>6, <1>7

LEMMA RoutedStep ==
    ASSUME TypeOK, PipelineInOrder, AnswersAreTrue, RoutedInOrder, [Next]_vars
    PROVE  RoutedInOrder'
<1>t. /\ at \in [Places -> Seq(Records)] /\ sunk \in Seq(Records)
      /\ at["toSink"] \in Seq(Records) /\ at["kept"] \in Seq(Records)
  BY DEF TypeOK, Typed, Places, Channels, Locals
<1>u. ASSUME UNCHANGED <<routed, suppress>>, Sinkward' = Sinkward,
             at'["suppressed"] = at["suppressed"]
      PROVE  RoutedInOrder'
  BY <1>u DEF RoutedInOrder, Sinkward
<1>v. ASSUME UNCHANGED <<routed, suppress, sunk>>,
             \A p \in {"toSink", "kept", "suppressed"} : at'[p] = at[p]
      PROVE  RoutedInOrder'
  BY <1>u, <1>v DEF Sinkward
<1> USE DEF PipelineMove, samplerVars, sinkVars
<1>1. CASE \E r \in Requests : Handle(r) \/ Accept(r) \/ Refuse(r)
  BY <1>1, <1>v DEF Handle, Accept, Refuse
<1>2. CASE \/ TakeBatch \/ SendRecord \/ MinerCollect \/ MinerEmit
           \/ BridgeTake \/ BridgeSend \/ SamplerCollect
  BY <1>2, <1>t, <1>v DEF TakeBatch, SendRecord, MinerCollect, MinerEmit,
     BridgeTake, BridgeSend, SamplerCollect, Move, Places, Channels, Locals
<1>3. CASE MinerFlush \/ BridgePublish
  BY <1>3, <1>t, <1>v DEF MinerFlush, BridgePublish, MoveAll, Places, Channels,
     Locals
<1>4. CASE Route
  BY <1>4, RouteStep
<1>5. ASSUME NEW S \in SUBSET Records, SamplerFlush(S) PROVE RoutedInOrder'
  <2>1. /\ S \subseteq ToSet(at["samplerBuf"]) /\ suppress' = suppress \cup S
        /\ routed' = routed /\ sunk' = sunk
        /\ \A p \in {"toSink", "kept", "suppressed"} : at'[p] = at[p]
    BY <1>5, <1>t DEF SamplerFlush, MoveAll, Places, Channels, Locals
  <2>2. \A x \in ToSet(routed) : x \in suppress' <=> x \in suppress
    BY <2>1, RoutedIsPast
  <2>3. /\ Selects(Sinkward, routed, Records \ Gone)
        /\ Selects(at["suppressed"], routed, Gone)
    BY DEF RoutedInOrder, Sinkward, Gone
  <2> DEFINE later == suppress' \cap Enforced
  <2>4. \A x \in ToSet(routed) : /\ x \in Gone <=> x \in later
                                 /\ x \in Records \ Gone <=> x \in Records \ later
    BY <2>2 DEF Gone
  <2> HIDE DEF later
  <2>5. Selects(Sinkward, routed, Records \ later)
    BY <2>3, <2>4, SelectsSame
  <2>6. Selects(at["suppressed"], routed, later)
    BY <2>3, <2>4, SelectsSame
  <2> QED  BY <2>1, <2>5, <2>6 DEF RoutedInOrder, Sinkward, later
<1>6. CASE LokiTake
  <2>1. at'["toSink"] \o (at'["kept"] \o <<>>) = at["toSink"] \o (at["kept"] \o <<>>)
    <3>1. "kept" \in Places /\ "toSink" \in Places /\ Move("kept", "toSink")
      BY <1>6 DEF LokiTake, Places, Channels, Locals
    <3> HIDE DEF Places
    <3> QED  BY <1>t, <3>1, EmptySeq, MoveKeepsOrder, ZenonT(30)
  <2>2. at' \in [Places -> Seq(Records)]
    BY <1>6, TypeStep DEF TypeOK, Typed, Next
  <2>3. at'["kept"] \o <<>> = at'["kept"] /\ at["kept"] \o <<>> = at["kept"]
    BY <1>t, <2>2, ConcatEmptySeq DEF Places, Channels
  <2>4. at'["suppressed"] = at["suppressed"]
    BY <1>6, <1>t DEF LokiTake, Move, Places, Channels, Locals
  <2>5. UNCHANGED <<routed, suppress, sunk>>
    BY <1>6 DEF LokiTake
  <2> QED  BY <2>1, <2>3, <2>4, <2>5, <1>u DEF Sinkward
<1>7. CASE LokiEnqueue
  <2>1. /\ sunk' = sunk \o at["toSink"] /\ at'["toSink"] = <<>>
        /\ at'["kept"] = at["kept"] /\ at'["suppressed"] = at["suppressed"]
        /\ UNCHANGED <<routed, suppress>>
    BY <1>7, <1>t DEF LokiEnqueue, Places, Channels, Locals
  <2>2. (sunk \o at["toSink"]) \o at["kept"] = Sinkward
    BY <1>t, Regroup DEF Sinkward
  <2>3. <<>> \o at["kept"] = at["kept"]
    BY <1>t, ConcatEmptySeq
  <2> QED  BY <1>u, <2>1, <2>2, <2>3 DEF Sinkward
<1>8. CASE \/ \E g \in Workers : WorkerReturn(g)
           \/ \E g \in Batchers : BatcherDrain(g) \/ BatcherReturn(g)
  BY <1>8, <1>v DEF WorkerReturn, BatcherDrain, BatcherReturn
<1>9. CASE Stop
  BY <1>9, <1>v DEF Stop, StopSinks, StopSampler, StopMiner, CancelWorkers,
     JoinWorkers, ShutdownReturns, ShutdownExpires, Advance
<1>10. CASE UNCHANGED vars
  BY <1>10, <1>v DEF vars
<1> QED
  BY <1>1, <1>2, <1>3, <1>4, <1>5, <1>6, <1>7, <1>8, <1>9, <1>10 DEF Next

(* What is routed splits into the two streams without loss and in order:   *)
(* no enforced suppression reaches Loki, nothing else is kept from it.     *)
THEOREM RoutedWithoutLoss == Spec => []RoutedInOrder
<1>1. Init => RoutedInOrder
  <2> SUFFICES ASSUME Init PROVE RoutedInOrder
    OBVIOUS
  <2>1. /\ routed = <<>> /\ sunk = <<>>
        /\ \A p \in {"toSink", "kept", "suppressed"} : at[p] = <<>>
    BY DEF Init, Places, Channels, Locals
  <2>2. <<>> \o <<>> = <<>> /\ DOMAIN <<>> = {}
    BY EmptySeq, ConcatEmptySeq, LenProperties
  <2>3. ASSUME NEW T PROVE Selects(<<>>, <<>>, T)
    <3>1. [x \in {} |-> x] \in [{} -> {}]
      OBVIOUS
    <3> QED  BY <2>2, <3>1 DEF Selects
  <2> QED  BY <2>1, <2>2, <2>3 DEF RoutedInOrder
<1>2. /\ TypeOK /\ PipelineInOrder /\ AnswersAreTrue /\ RoutedInOrder /\ [Next]_vars
      => RoutedInOrder'
  BY RoutedStep
<1> QED  BY <1>1, <1>2, TypeCorrect, OrderKept, AnswersKept, PTL DEF Spec

=============================================================================
