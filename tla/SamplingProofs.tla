--------------------------- MODULE SamplingProofs ---------------------------
(***************************************************************************)
(* The sampling decision: proofs, for any gateways, calls, batches, keys   *)
(* and policy, that what is suppressed is represented by what is kept,     *)
(* that decisions are final, that the breaker opens on failures in a row,  *)
(* and that the spike stage matches only after updates in disorder,        *)
(* wherever handlers interleave, fail or are abandoned.                    *)
(***************************************************************************)
EXTENDS Sampling, SequenceTheorems, TLAPS

-----------------------------------------------------------------------------
(* Types                                                                   *)

LEMMA QuotientIsNat ==
    ASSUME NEW a \in Nat, NEW b \in Nat \ {0}
    PROVE  a \div b \in Nat
  OBVIOUS

LEMMA ProductIsNat == ASSUME NEW a \in Nat, NEW b \in Nat PROVE a * b \in Nat
  OBVIOUS

LEMMA EmaIsNat ==
    ASSUME NEW cur \in Nat, NEW old \in Nat
    PROVE  NewEma(cur, old) \in Nat
<1>1. AlphaNum \in Nat /\ AlphaDen \in Nat \ {0} /\ Scale \in Nat /\ AlphaDen - AlphaNum \in Nat
  BY SamplingAssumption
<1>2. AlphaNum * cur \in Nat
  BY <1>1, ProductIsNat
<1>3. AlphaNum * cur * Scale \in Nat /\ (AlphaDen - AlphaNum) * old \in Nat
  BY <1>1, <1>2, ProductIsNat
<1> DEFINE x == AlphaNum * cur * Scale
           y == (AlphaDen - AlphaNum) * old
<1> HIDE DEF x, y
<1>4. 2 * (x + y) + AlphaDen \in Nat /\ 2 * AlphaDen \in Nat \ {0}
  BY <1>1, <1>3 DEF x, y
<1>5. (2 * (x + y) + AlphaDen) \div (2 * AlphaDen) \in Nat
  BY <1>4, QuotientIsNat
<1> QED  BY <1>5 DEF NewEma, x, y

LEMMA KeepsIsBoolean ==
    ASSUME NEW sev, NEW n, NEW cur, NEW e
    PROVE  Keeps(sev, n, cur, e) \in BOOLEAN
  BY DEF Keeps, Milestone, Spikes

(* A record's place in its batch, and its key.                             *)
LEMMA PlacedRecords ==
    /\ \A c \in Calls : Len(Batch[c]) \in Nat \ {0} /\ Client[c] \in Gateways
    /\ \A c \in Calls : \A i \in Position(c) : Batch[c][i] \in Records
    /\ \A r \in Records : /\ Key(r) \in Keys /\ Minute[r] \in Minutes
                          /\ mapSeverity(r) \in Severities
<1>1. \A c \in Calls : Batch[c] \in Seq(Records) /\ Batch[c] # <<>> /\ Client[c] \in Gateways
  BY SamplingAssumption
<1>2. \A c \in Calls : Len(Batch[c]) \in Nat \ {0}
  BY <1>1, EmptySeq
<1>3. \A c \in Calls : \A i \in Position(c) : Batch[c][i] \in Records
  BY <1>1, ElementOfSeq DEF Position
<1>4. \A r \in Records : /\ Key(r) \in Keys /\ Minute[r] \in Minutes
                         /\ mapSeverity(r) \in Severities
  BY DEF Keys, Minutes, mapSeverity, Severities
<1> QED  BY <1>1, <1>2, <1>3, <1>4

(* TypeOK is not inductive: that a handler is at an item of its batch      *)
(* depends on its answer being as long as the items it is done with.       *)
AtItem(c) ==
    LET h == handler[c] IN
    /\ h.item \in Position(c)
    /\ h.step \in {"idle", "count", "read", "write"} => Len(h.answer) = h.item - 1
    /\ h.step = "answered" => Len(h.answer) = Len(Batch[c])
    /\ Len(h.answer) <= Len(Batch[c])
    /\ call[c] = "new" => h.step = "idle"
AtItems == \A c \in Calls : AtItem(c)
Typed == TypeOK /\ AtItems

LEMMA TypedInit == Init => Typed
<1> SUFFICES ASSUME Init PROVE Typed
  OBVIOUS
<1>1. <<>> \in Seq(BOOLEAN) /\ Len(<<>>) = 0
  BY EmptySeq
<1>2. TypeOK
  BY <1>1, SamplingAssumption DEF Init, TypeOK, Handlers, Steps
<1>3. AtItems
  BY <1>1, PlacedRecords DEF Init, AtItems, AtItem, Position
<1> QED  BY <1>2, <1>3 DEF Typed

(* What the first transaction of Touch does.                               *)
LEMMA CountEffect ==
    ASSUME Typed, NEW c \in Calls, Count(c) \/ CountFails(c)
    PROVE  LET r == Item(c) IN
           /\ handler' \in [Calls -> Handlers]
           /\ \A d \in Calls \ {c} : handler'[d] = handler[d]
           /\ handler[c].step = "count"
           /\ handler'[c].item = handler[c].item /\ handler'[c].answer = handler[c].answer
           /\ \/ /\ handler'[c].step = "read" /\ handler'[c].n = number'[r]
                 /\ Count(c)
              \/ handler'[c].step = "failed" /\ CountFails(c)
           /\ r \in Records /\ r = Batch[c][handler[c].item]
           /\ \/ /\ Incr(Key(r), Minute[r])
                 /\ number' = [number EXCEPT ![r] = total[Key(r)] + 1]
                 /\ total' = [total EXCEPT ![Key(r)] = total[Key(r)] + 1]
                 /\ bucket' \in [Keys -> [Minutes -> Nat]]
              \/ UNCHANGED <<bucket, total, number>> /\ CountFails(c)
           /\ disturbed' \subseteq Keys
           /\ UNCHANGED <<clientVars, ema, spiked>>
<1> DEFINE r == Item(c)
           k == Key(r)
<1>1. /\ r \in Records /\ k \in Keys /\ Minute[r] \in Minutes
      /\ r = Batch[c][handler[c].item]
  BY PlacedRecords DEF Typed, AtItems, AtItem, Item
<1>2. /\ handler \in [Calls -> Handlers] /\ bucket \in [Keys -> [Minutes -> Nat]]
      /\ total \in [Keys -> Nat] /\ number \in [Records -> Nat] /\ disturbed \subseteq Keys
  BY DEF Typed, TypeOK
<1> HIDE DEF r, k
<1>3. /\ handler[c] \in Handlers
      /\ \A x \in Nat, y \in Nat :
           [handler[c] EXCEPT !.step = "read", !.n = x, !.cur = y] \in Handlers
      /\ [handler[c] EXCEPT !.step = "failed"] \in Handlers
  BY <1>2 DEF Handlers, Steps
<1>4. ASSUME Incr(k, Minute[r])
      PROVE  /\ bucket' \in [Keys -> [Minutes -> Nat]]
             /\ total' = [total EXCEPT ![k] = total[k] + 1]
             /\ total'[k] = total[k] + 1 /\ total'[k] \in Nat
             /\ bucket'[k][Minute[r]] \in Nat
  <2>1. bucket' = [bucket EXCEPT ![k] = [bucket[k] EXCEPT ![Minute[r]] = bucket[k][Minute[r]] + 1]]
    BY <1>4 DEF Incr
  <2>2. [bucket[k] EXCEPT ![Minute[r]] = bucket[k][Minute[r]] + 1] \in [Minutes -> Nat]
    BY <1>1, <1>2
  <2>3. bucket' \in [Keys -> [Minutes -> Nat]]
    BY <1>1, <1>2, <2>1, <2>2
  <2>4. total' = [total EXCEPT ![k] = total[k] + 1]
    BY <1>4 DEF Incr
  <2>5. total'[k] = total[k] + 1 /\ total'[k] \in Nat
    BY <1>1, <1>2, <2>4
  <2> QED  BY <1>1, <2>3, <2>4, <2>5
<1>5. CASE Count(c)
  <2>1. /\ handler[c].step = "count" /\ Incr(k, Minute[r])
        /\ number' = [number EXCEPT ![r] = total'[k]]
        /\ handler' = [handler EXCEPT ![c] =
             [handler[c] EXCEPT !.step = "read", !.n = total'[k],
                                !.cur = bucket'[k][Minute[r]]]]
        /\ disturbed' \in {disturbed, disturbed \cup {k}}
        /\ UNCHANGED <<clientVars, ema, spiked>>
    BY <1>5 DEF Count, r, k
  <2>2. /\ handler' \in [Calls -> Handlers]
        /\ \A d \in Calls \ {c} : handler'[d] = handler[d]
        /\ handler'[c] = [handler[c] EXCEPT !.step = "read", !.n = total'[k],
                                            !.cur = bucket'[k][Minute[r]]]
    BY <1>2, <1>3, <1>4, <2>1
  <2>3. /\ handler'[c].item = handler[c].item /\ handler'[c].answer = handler[c].answer
        /\ handler'[c].step = "read" /\ handler'[c].n = total'[k]
    BY <1>3, <2>2 DEF Handlers
  <2>4. number' = [number EXCEPT ![r] = total[k] + 1] /\ number'[r] = total'[k]
    BY <1>1, <1>2, <1>4, <2>1
  <2>5. disturbed' \subseteq Keys
    BY <1>1, <1>2, <2>1
  <2> QED  BY <1>1, <1>4, <1>5, <2>1, <2>2, <2>3, <2>4, <2>5 DEF r, k
<1>6. CASE CountFails(c)
  <2>1. /\ handler[c].step = "count"
        /\ handler' = [handler EXCEPT ![c] = [handler[c] EXCEPT !.step = "failed"]]
        /\ \/ UNCHANGED <<bucket, total, number, disturbed>>
           \/ /\ Incr(k, Minute[r])
              /\ number' = [number EXCEPT ![r] = total'[k]]
              /\ disturbed' = disturbed \cup {k}
        /\ UNCHANGED <<clientVars, ema, spiked>>
    BY <1>6 DEF CountFails, r, k
  <2>2. /\ handler' \in [Calls -> Handlers]
        /\ \A d \in Calls \ {c} : handler'[d] = handler[d]
        /\ handler'[c] = [handler[c] EXCEPT !.step = "failed"]
    BY <1>2, <1>3, <2>1
  <2>3. /\ handler'[c].item = handler[c].item /\ handler'[c].answer = handler[c].answer
        /\ handler'[c].step = "failed"
    BY <1>3, <2>2 DEF Handlers
  <2>4. disturbed' \subseteq Keys
    BY <1>1, <1>2, <2>1
  <2>5. CASE UNCHANGED <<bucket, total, number, disturbed>>
    BY <1>1, <1>6, <2>1, <2>2, <2>3, <2>4, <2>5 DEF r, k
  <2>6. CASE Incr(k, Minute[r]) /\ number' = [number EXCEPT ![r] = total'[k]]
    <3>1. number' = [number EXCEPT ![r] = total[k] + 1]
      BY <1>4, <2>6
    <3> QED  BY <1>1, <1>4, <1>6, <2>1, <2>2, <2>3, <2>4, <2>6, <3>1 DEF r, k
  <2> QED  BY <2>1, <2>5, <2>6
<1> QED  BY <1>5, <1>6

LEMMA ReadEffect ==
    ASSUME Typed, NEW c \in Calls, ReadEma(c)
    PROVE  /\ handler' \in [Calls -> Handlers]
           /\ \A d \in Calls \ {c} : handler'[d] = handler[d]
           /\ handler[c].step = "read" /\ handler'[c].step = "write"
           /\ handler'[c].item = handler[c].item /\ handler'[c].answer = handler[c].answer
           /\ handler'[c].n = handler[c].n
           /\ disturbed' \subseteq Keys
           /\ UNCHANGED <<clientVars, redisVars, number, spiked>>
<1> DEFINE k == Key(Item(c))
<1>1. k \in Keys
  BY PlacedRecords DEF Typed, AtItems, AtItem, Item
<1>2. /\ handler \in [Calls -> Handlers] /\ ema \in [Keys -> Nat] /\ disturbed \subseteq Keys
  BY DEF Typed, TypeOK
<1>3. /\ handler[c].step = "read"
      /\ UNCHANGED <<clientVars, redisVars, number, spiked>>
      /\ \E e \in Nat : handler' = [handler EXCEPT ![c].step = "write", ![c].ema = e]
      /\ disturbed' \in {disturbed, disturbed \cup {k}}
  <2>1. ema[k] \in Nat
    BY <1>1, <1>2
  <2> QED  BY <2>1 DEF ReadEma
<1> HIDE DEF k
<1>4. PICK e \in Nat : handler' = [handler EXCEPT ![c].step = "write", ![c].ema = e]
  BY <1>3
<1>5. /\ handler'[c] = [handler[c] EXCEPT !.step = "write", !.ema = e]
      /\ \A d \in Calls \ {c} : handler'[d] = handler[d]
      /\ handler[c] \in Handlers
  BY <1>2, <1>4
<1>6. /\ handler'[c] \in Handlers /\ handler'[c].step = "write"
      /\ handler'[c].item = handler[c].item /\ handler'[c].answer = handler[c].answer
      /\ handler'[c].n = handler[c].n
  BY <1>5 DEF Handlers, Steps
<1>7. handler' \in [Calls -> Handlers]
  BY <1>2, <1>4, <1>5, <1>6
<1>8. disturbed' \subseteq Keys
  BY <1>1, <1>2, <1>3
<1> QED  BY <1>3, <1>5, <1>6, <1>7, <1>8

(* What the decision adds to the answer, and where the handler goes.       *)
LEMMA DecideEffect ==
    ASSUME Typed, NEW c \in Calls, Decide(c)
    PROVE  LET r == Item(c)
               h == handler[c]
               last == h.item = Len(Batch[c])
           IN
           /\ handler' \in [Calls -> Handlers]
           /\ \A d \in Calls \ {c} : handler'[d] = handler[d]
           /\ h.step = "write" /\ r \in Records /\ r = Batch[c][h.item]
           /\ handler'[c].step = IF last THEN "answered" ELSE "count"
           /\ handler'[c].item = IF last THEN h.item ELSE h.item + 1
           /\ Len(handler'[c].answer) = Len(h.answer) + 1
           /\ \A i \in 1..Len(h.answer) : handler'[c].answer[i] = h.answer[i]
           /\ ~handler'[c].answer[Len(h.answer) + 1] => ~Milestone(mapSeverity(r), h.n)
           /\ ema' \in [Keys -> Nat] /\ disturbed' \subseteq Keys /\ spiked' \subseteq Records
           /\ UNCHANGED <<clientVars, bucket, total, number>>
<1> DEFINE r == Item(c)
           h == handler[c]
           k == Key(r)
           last == h.item = Len(Batch[c])
           e == NewEma(h.cur, h.ema)
           keep == Keeps(mapSeverity(r), h.n, h.cur, e)
           new == [step |-> IF last THEN "answered" ELSE "count",
                   item |-> IF last THEN h.item ELSE h.item + 1,
                   n |-> 0, cur |-> 0, ema |-> 0, answer |-> Append(h.answer, keep)]
<1>1. r \in Records /\ k \in Keys /\ r = Batch[c][h.item]
  BY PlacedRecords DEF Typed, AtItems, AtItem, Item
<1>2. /\ handler \in [Calls -> Handlers] /\ ema \in [Keys -> Nat]
      /\ disturbed \subseteq Keys /\ spiked \subseteq Records
  BY DEF Typed, TypeOK
<1>3. /\ h.step = "write" /\ handler' = [handler EXCEPT ![c] = new]
      /\ ema' = [ema EXCEPT ![k] = e] \/ ema' = ema
      /\ disturbed' \in {disturbed, disturbed \cup {k}}
      /\ spiked' \in {spiked, spiked \cup {r}}
      /\ UNCHANGED <<clientVars, bucket, total, number>>
  BY DEF Decide
<1>4. h.cur \in Nat /\ h.ema \in Nat /\ h.item \in Nat /\ h.answer \in Seq(BOOLEAN)
  BY <1>2 DEF Handlers
<1>5. e \in Nat /\ keep \in BOOLEAN
  BY <1>4, EmaIsNat, KeepsIsBoolean
<1>6. ~keep => ~Milestone(mapSeverity(r), h.n)
  BY DEF Keeps
<1> HIDE DEF r, k, e, keep
<1>7. /\ Append(h.answer, keep) \in Seq(BOOLEAN)
      /\ Len(Append(h.answer, keep)) = Len(h.answer) + 1
      /\ \A i \in 1..Len(h.answer) : Append(h.answer, keep)[i] = h.answer[i]
      /\ Append(h.answer, keep)[Len(h.answer) + 1] = keep
  BY <1>4, <1>5, AppendProperties
<1>8. new \in Handlers
  <2>1. /\ (IF last THEN "answered" ELSE "count") \in Steps
        /\ (IF last THEN h.item ELSE h.item + 1) \in Nat
    BY <1>4 DEF Steps
  <2> QED  BY <1>7, <2>1 DEF Handlers
<1>9. /\ new.step = IF last THEN "answered" ELSE "count"
      /\ new.item = IF last THEN h.item ELSE h.item + 1
      /\ new.answer = Append(h.answer, keep)
  OBVIOUS
<1> HIDE DEF new
<1>10. /\ handler' \in [Calls -> Handlers] /\ handler'[c] = new
       /\ \A d \in Calls \ {c} : handler'[d] = handler[d]
  BY <1>2, <1>3, <1>8
<1>11. ema' \in [Keys -> Nat] /\ disturbed' \subseteq Keys /\ spiked' \subseteq Records
  BY <1>1, <1>2, <1>3, <1>5
<1> HIDE DEF h
<1> QED  BY <1>1, <1>3, <1>6, <1>7, <1>9, <1>10, <1>11 DEF r, h

(* The gateway's actions: what they do to calls, handlers, the breaker.    *)
LEMMA GatewayEffect ==
    ASSUME Typed, NEW c \in Calls, Begin(c) \/ Reply(c) \/ GiveUp(c)
    PROVE  /\ call' \in [Calls -> {"new", "waiting", "done"}]
           /\ \A d \in Calls \ {c} : call'[d] = call[d]
           /\ call'[c] # "new" /\ call[c] # "done"
           /\ fate' # fate => call'[c] = "done"
           /\ handler' \in [Calls -> Handlers]
           /\ \A d \in Calls \ {c} : handler'[d] = handler[d]
           /\ handler'[c].item = handler[c].item /\ handler'[c].answer = handler[c].answer
           /\ handler'[c].n = handler[c].n
           /\ \/ handler'[c].step = handler[c].step
              \/ handler[c].step = "idle" /\ handler'[c].step = "count"
           /\ \/ fate' = fate
              \/ Fallback(c)
              \/ Route(c) /\ handler[c].step = "answered"
           /\ UNCHANGED <<redisVars, number, disturbed, spiked>>
<1>1. /\ handler \in [Calls -> Handlers] /\ call \in [Calls -> {"new", "waiting", "done"}]
      /\ handler[c] \in Handlers
  BY DEF Typed, TypeOK
<1>2. CASE Reply(c) \/ GiveUp(c)
  <2>1. /\ call[c] = "waiting" /\ call' = [call EXCEPT ![c] = "done"]
        /\ handler' = handler /\ UNCHANGED <<redisVars, number, disturbed, spiked>>
        /\ Fallback(c) \/ (Route(c) /\ handler[c].step = "answered")
    BY <1>2 DEF Reply, GiveUp
  <2>2. call'[c] = "done" /\ \A d \in Calls \ {c} : call'[d] = call[d]
    BY <1>1, <2>1
  <2>3. call' \in [Calls -> {"new", "waiting", "done"}]
    BY <1>1, <2>1
  <2> QED  BY <1>1, <2>1, <2>2, <2>3
<1>3. CASE Begin(c)
  <2>1. call[c] = "new" /\ UNCHANGED <<redisVars, number, disturbed, spiked>>
    BY <1>3 DEF Begin
  <2>2. CASE Fallback(c) /\ call' = [call EXCEPT ![c] = "done"] /\ handler' = handler
    <3>1. call'[c] = "done" /\ \A d \in Calls \ {c} : call'[d] = call[d]
      BY <1>1, <2>2
    <3>2. call' \in [Calls -> {"new", "waiting", "done"}]
      BY <1>1, <2>2
    <3> QED  BY <1>1, <2>1, <2>2, <3>1, <3>2
  <2>3. CASE /\ call' = [call EXCEPT ![c] = "waiting"] /\ fate' = fate
             /\ handler' = [handler EXCEPT ![c].step = "count"]
    <3>1. call'[c] = "waiting" /\ \A d \in Calls \ {c} : call'[d] = call[d]
      BY <1>1, <2>3
    <3>2. call' \in [Calls -> {"new", "waiting", "done"}]
      BY <1>1, <2>3
    <3>3. /\ handler'[c] = [handler[c] EXCEPT !.step = "count"]
          /\ \A d \in Calls \ {c} : handler'[d] = handler[d]
      BY <1>1, <2>3
    <3>4. /\ handler'[c] \in Handlers /\ handler'[c].step = "count"
          /\ handler'[c].item = handler[c].item /\ handler'[c].answer = handler[c].answer
          /\ handler'[c].n = handler[c].n
      BY <1>1, <3>3 DEF Handlers, Steps
    <3>5. handler' \in [Calls -> Handlers]
      BY <1>1, <2>3, <3>3, <3>4
    <3>6. handler[c].step = "idle"
      BY <2>1 DEF Typed, AtItems, AtItem
    <3> QED  BY <2>1, <2>3, <3>1, <3>2, <3>3, <3>4, <3>5, <3>6
  <2> QED  BY <1>3, <2>2, <2>3 DEF Begin
<1> QED  BY <1>2, <1>3

(* The breaker's variables.                                                *)
BreakerTyped ==
    /\ failures \in [Gateways -> Nat] /\ cooling \subseteq Gateways
    /\ outcomes \in [Gateways -> Seq(BOOLEAN)]

LEMMA BreakerEffect ==
    ASSUME BreakerTyped, OpenIsEarned, NEW g \in Gateways, Success(g) \/ Fail(g)
    PROVE  BreakerTyped' /\ OpenIsEarned'
<1> DEFINE f == failures[g]
           o == outcomes[g]
<1>1. /\ f \in Nat /\ o \in Seq(BOOLEAN) /\ f <= Len(o)
      /\ \A i \in Len(o) - f + 1 .. Len(o) : ~o[i]
  BY DEF BreakerTyped, OpenIsEarned
<1>2. PICK b \in BOOLEAN, n \in {0, f + 1} :
        /\ failures' = [failures EXCEPT ![g] = n] /\ (b => n = 0)
        /\ outcomes' = [outcomes EXCEPT ![g] = Append(o, b)]
        /\ cooling' \subseteq cooling \cup {g}
  <2>1. CASE Success(g)
    BY <2>1 DEF Success
  <2>2. CASE Fail(g)
    BY <2>2 DEF Fail
  <2> QED  BY <2>1, <2>2
<1> HIDE DEF f, o
<1>3. /\ Append(o, b) \in Seq(BOOLEAN) /\ Len(Append(o, b)) = Len(o) + 1
      /\ \A i \in 1..Len(o) : Append(o, b)[i] = o[i]
      /\ Append(o, b)[Len(o) + 1] = b /\ Len(o) \in Nat
  BY <1>1, AppendProperties, LenProperties
<1>4. BreakerTyped'
  BY <1>1, <1>2, <1>3 DEF BreakerTyped
<1>5. /\ failures'[g] = n /\ outcomes'[g] = Append(o, b)
      /\ \A h \in Gateways \ {g} : failures'[h] = failures[h] /\ outcomes'[h] = outcomes[h]
  BY <1>2 DEF BreakerTyped
<1>6. /\ n <= Len(Append(o, b))
      /\ \A i \in Len(Append(o, b)) - n + 1 .. Len(Append(o, b)) : ~Append(o, b)[i]
  <2>1. n <= Len(o) + 1
    BY <1>1, <1>3
  <2>2. ASSUME NEW i \in Len(o) + 1 - n + 1 .. Len(o) + 1 PROVE ~Append(o, b)[i]
    <3>1. n = f + 1 /\ ~b
      BY <1>1, <1>2, <1>3, <2>2
    <3>2. CASE i = Len(o) + 1
      BY <1>3, <3>1, <3>2
    <3>3. CASE i # Len(o) + 1
      <4>1. i \in 1..Len(o) /\ i \in Len(o) - f + 1 .. Len(o)
        BY <1>1, <1>3, <3>1, <3>3
      <4> QED  BY <1>1, <1>3, <4>1
    <3> QED  BY <3>2, <3>3
  <2> QED  BY <1>3, <2>1, <2>2
<1>7. OpenIsEarned'
  BY <1>5, <1>6 DEF OpenIsEarned
<1> QED  BY <1>4, <1>7

LEMMA BreakerStep == Typed /\ OpenIsEarned /\ [Next]_vars => BreakerTyped' /\ OpenIsEarned'
<1> SUFFICES ASSUME Typed, OpenIsEarned, [Next]_vars PROVE BreakerTyped' /\ OpenIsEarned'
  OBVIOUS
<1>1. BreakerTyped
  BY DEF Typed, TypeOK, BreakerTyped
<1>2. CASE UNCHANGED <<failures, cooling, outcomes>>
  BY <1>1, <1>2 DEF BreakerTyped, OpenIsEarned
<1>3. ASSUME NEW c \in Calls, Begin(c) PROVE UNCHANGED <<failures, cooling, outcomes>>
  BY <1>3 DEF Begin
<1>4. ASSUME NEW c \in Calls, Reply(c) \/ GiveUp(c) PROVE BreakerTyped' /\ OpenIsEarned'
  <2>1. Success(Client[c]) \/ Fail(Client[c])
    BY <1>4 DEF Reply, GiveUp
  <2> QED  BY <1>1, <2>1, BreakerEffect, PlacedRecords
<1>5. ASSUME NEW c \in Calls, Count(c) \/ CountFails(c) \/ ReadEma(c) \/ Decide(c)
      PROVE  UNCHANGED <<failures, cooling, outcomes>>
  BY <1>5 DEF Count, CountFails, ReadEma, Decide, clientVars
<1>6. ASSUME NEW g \in Gateways, Cool(g) PROVE BreakerTyped' /\ OpenIsEarned'
  BY <1>1, <1>6 DEF Cool, BreakerTyped, OpenIsEarned
<1>7. CASE UNCHANGED vars
  BY <1>2, <1>7 DEF vars
<1> QED  BY <1>2, <1>3, <1>4, <1>5, <1>6, <1>7 DEF Next

(* What an answer, or its absence, does to the records of a batch.         *)
LEMMA FateEffect ==
    ASSUME Typed, NEW c \in Calls, Fallback(c) \/ Route(c)
    PROVE  /\ fate' \in [Records -> {"undecided", "kept", "suppressed"}]
           /\ \A r \in Records : fate'[r] # fate[r] => InBatch(c, r)
           /\ \A r \in Records : fate'[r] = "suppressed" /\ fate[r] # "suppressed" =>
                /\ Route(c)
                /\ \E i \in Position(c) : Batch[c][i] = r /\ ~handler[c].answer[i]
<1>1. fate \in [Records -> {"undecided", "kept", "suppressed"}]
  BY DEF Typed, TypeOK
<1>2. CASE Fallback(c)
  BY <1>1, <1>2 DEF Fallback
<1>3. CASE Route(c)
  <2> DEFINE P(r) == CHOOSE i \in Position(c) : Batch[c][i] = r
             R(r) == IF ~InBatch(c, r) THEN fate[r]
                     ELSE IF shouldEnforce(r) /\ ~handler[c].answer[P(r)]
                            THEN "suppressed" ELSE "kept"
  <2>1. fate' = [r \in Records |-> R(r)]
    BY <1>3 DEF Route
  <2>2. ASSUME NEW r \in Records, InBatch(c, r)
        PROVE  P(r) \in Position(c) /\ Batch[c][P(r)] = r
    BY <2>2 DEF InBatch
  <2> HIDE DEF P
  <2>3. \A r \in Records : R(r) \in {"undecided", "kept", "suppressed"}
    BY <1>1
  <2>4. ASSUME NEW r \in Records, fate'[r] = "suppressed", fate[r] # "suppressed"
        PROVE  \E i \in Position(c) : Batch[c][i] = r /\ ~handler[c].answer[i]
    <3>1. InBatch(c, r) /\ ~handler[c].answer[P(r)]
      BY <2>1, <2>4
    <3> QED  BY <2>2, <3>1
  <2>5. \A r \in Records : fate'[r] # fate[r] => InBatch(c, r)
    BY <2>1
  <2> HIDE DEF R
  <2> QED  BY <1>3, <2>1, <2>3, <2>4, <2>5
<1> QED  BY <1>2, <1>3

LEMMA TypedStep == Typed /\ OpenIsEarned /\ [Next]_vars => Typed'
<1> SUFFICES ASSUME Typed, OpenIsEarned, [Next]_vars PROVE Typed'
  OBVIOUS
<1>b. BreakerTyped'
  BY BreakerStep
<1>t. /\ handler \in [Calls -> Handlers] /\ call \in [Calls -> {"new", "waiting", "done"}]
      /\ bucket \in [Keys -> [Minutes -> Nat]] /\ total \in [Keys -> Nat]
      /\ ema \in [Keys -> Nat] /\ number \in [Records -> Nat]
      /\ fate \in [Records -> {"undecided", "kept", "suppressed"}]
      /\ disturbed \subseteq Keys /\ spiked \subseteq Records
  BY DEF Typed, TypeOK
<1>a. \A c \in Calls : AtItem(c)
  BY DEF Typed, AtItems
\* only one handler moves: the others are where they were
<1>o. ASSUME NEW c \in Calls, \A d \in Calls \ {c} : handler'[d] = handler[d] /\ call'[d] = call[d],
             AtItem(c)'
      PROVE  AtItems'
  BY <1>a, <1>o DEF AtItems, AtItem
<1>1. ASSUME NEW c \in Calls, Begin(c) \/ Reply(c) \/ GiveUp(c) PROVE Typed'
  <2>1. /\ call' \in [Calls -> {"new", "waiting", "done"}] /\ call'[c] # "new"
        /\ \A d \in Calls \ {c} : handler'[d] = handler[d] /\ call'[d] = call[d]
        /\ handler' \in [Calls -> Handlers]
        /\ handler'[c].item = handler[c].item /\ handler'[c].answer = handler[c].answer
        /\ \/ handler'[c].step = handler[c].step
           \/ handler[c].step = "idle" /\ handler'[c].step = "count"
        /\ fate' = fate \/ Fallback(c) \/ Route(c)
        /\ UNCHANGED <<redisVars, number, disturbed, spiked>>
    BY <1>1, GatewayEffect
  <2>2. fate' \in [Records -> {"undecided", "kept", "suppressed"}]
    BY <1>t, <2>1, FateEffect
  <2>3. AtItem(c)'
    BY <1>a, <2>1 DEF AtItem
  <2>4. TypeOK'
    BY <1>b, <1>t, <2>1, <2>2 DEF TypeOK, BreakerTyped, redisVars
  <2> QED  BY <1>o, <2>1, <2>3, <2>4 DEF Typed
<1>2. ASSUME NEW c \in Calls, Count(c) \/ CountFails(c) PROVE Typed'
  <2> DEFINE r == Item(c)
  <2>1. /\ handler' \in [Calls -> Handlers]
        /\ \A d \in Calls \ {c} : handler'[d] = handler[d]
        /\ handler[c].step = "count" /\ handler'[c].step \in {"read", "failed"}
        /\ handler'[c].item = handler[c].item /\ handler'[c].answer = handler[c].answer
        /\ r \in Records
        /\ \/ /\ number' = [number EXCEPT ![r] = total[Key(r)] + 1]
              /\ total' = [total EXCEPT ![Key(r)] = total[Key(r)] + 1]
              /\ bucket' \in [Keys -> [Minutes -> Nat]]
           \/ UNCHANGED <<bucket, total, number>>
        /\ disturbed' \subseteq Keys
        /\ UNCHANGED <<clientVars, ema, spiked>>
    BY <1>2, CountEffect
  <2> HIDE DEF r
  <2>2. Key(r) \in Keys
    BY <2>1, PlacedRecords
  <2>3. total' \in [Keys -> Nat] /\ number' \in [Records -> Nat] /\ bucket' \in [Keys -> [Minutes -> Nat]]
    BY <1>t, <2>1, <2>2
  <2>4. TypeOK'
    BY <1>b, <1>t, <2>1, <2>3 DEF TypeOK, BreakerTyped, clientVars
  <2>5. AtItem(c)'
    BY <1>a, <2>1 DEF AtItem, clientVars
  <2> QED  BY <1>o, <2>1, <2>4, <2>5 DEF Typed, clientVars
<1>3. ASSUME NEW c \in Calls, ReadEma(c) PROVE Typed'
  <2>1. /\ handler' \in [Calls -> Handlers]
        /\ \A d \in Calls \ {c} : handler'[d] = handler[d]
        /\ handler[c].step = "read" /\ handler'[c].step = "write"
        /\ handler'[c].item = handler[c].item /\ handler'[c].answer = handler[c].answer
        /\ disturbed' \subseteq Keys
        /\ UNCHANGED <<clientVars, redisVars, number, spiked>>
    BY <1>3, ReadEffect
  <2>2. TypeOK'
    BY <1>b, <1>t, <2>1 DEF TypeOK, BreakerTyped, clientVars, redisVars
  <2>3. AtItem(c)'
    BY <1>a, <2>1 DEF AtItem, clientVars
  <2> QED  BY <1>o, <2>1, <2>2, <2>3 DEF Typed, clientVars
<1>4. ASSUME NEW c \in Calls, Decide(c) PROVE Typed'
  <2> DEFINE h == handler[c]
             last == h.item = Len(Batch[c])
  <2>1. /\ handler' \in [Calls -> Handlers]
        /\ \A d \in Calls \ {c} : handler'[d] = handler[d]
        /\ h.step = "write"
        /\ handler'[c].step = IF last THEN "answered" ELSE "count"
        /\ handler'[c].item = IF last THEN h.item ELSE h.item + 1
        /\ Len(handler'[c].answer) = Len(h.answer) + 1
        /\ ema' \in [Keys -> Nat] /\ disturbed' \subseteq Keys /\ spiked' \subseteq Records
        /\ UNCHANGED <<clientVars, bucket, total, number>>
    BY <1>4, DecideEffect
  <2>2. TypeOK'
    BY <1>b, <1>t, <2>1 DEF TypeOK, BreakerTyped, clientVars
  <2>3. /\ h.item \in 1..Len(Batch[c]) /\ Len(h.answer) = h.item - 1
        /\ call[c] # "new" /\ Len(Batch[c]) \in Nat
    BY <1>a, <2>1, PlacedRecords DEF AtItem, Position
  <2>4. AtItem(c)'
    <3>1. call'[c] # "new"
      BY <2>1, <2>3 DEF clientVars
    <3>2. CASE last
      BY <2>1, <2>3, <3>1, <3>2 DEF AtItem, Position
    <3>3. CASE ~last
      BY <2>1, <2>3, <3>1, <3>3 DEF AtItem, Position
    <3> QED  BY <3>2, <3>3
  <2> QED  BY <1>o, <2>1, <2>2, <2>4 DEF Typed, clientVars
<1>5. ASSUME NEW g \in Gateways, Cool(g) PROVE Typed'
  <2>1. UNCHANGED <<call, handler, redisVars, fate, number, disturbed, spiked>>
    BY <1>5 DEF Cool
  <2>2. TypeOK'
    BY <1>b, <1>t, <2>1 DEF TypeOK, BreakerTyped, redisVars
  <2> QED  BY <1>a, <2>1, <2>2 DEF Typed, AtItems, AtItem
<1>6. CASE UNCHANGED vars
  BY <1>6 DEF vars, Typed, TypeOK, AtItems, AtItem
<1> QED  BY <1>1, <1>2, <1>3, <1>4, <1>5, <1>6 DEF Next

LEMMA EarnedInit == Init => OpenIsEarned
<1> SUFFICES ASSUME Init PROVE OpenIsEarned
  OBVIOUS
<1>1. \A g \in Gateways : failures[g] = 0 /\ Len(outcomes[g]) = 0
  BY EmptySeq DEF Init
<1> QED  BY <1>1 DEF OpenIsEarned

LEMMA TypedHolds == Spec => [](Typed /\ OpenIsEarned)
<1>1. Typed /\ OpenIsEarned /\ [Next]_vars => Typed'
  BY TypedStep
<1>2. Typed /\ OpenIsEarned /\ [Next]_vars => OpenIsEarned'
  BY BreakerStep
<1> QED  BY <1>1, <1>2, TypedInit, EarnedInit, PTL DEF Spec

(* Calls, handlers, Redis and the breaker keep their types; a handler is   *)
(* at an item of its batch as long as it works (DecideBatch's loop).       *)
THEOREM SamplingTyped == Spec => []TypeOK
<1>1. Typed => TypeOK
  BY DEF Typed
<1> QED  BY <1>1, TypedHolds, PTL

(* An open breaker's failures are the latest calls of its gateway, in a    *)
(* row (breaker.go, Success and Fail).                                     *)
THEOREM BreakerOpensOnARow == Spec => []OpenIsEarned
  BY TypedHolds, PTL

-----------------------------------------------------------------------------
(* Final decisions                                                         *)

(* A record is in one batch, and is decided when its call is over.         *)
DecidedByCall ==
    \A r \in Records : fate[r] # "undecided" =>
        \E c \in Calls : InBatch(c, r) /\ call[c] = "done"

LEMMA OnePlace ==
    ASSUME NEW c \in Calls, NEW d \in Calls, NEW i \in Position(c), NEW j \in Position(d),
           Batch[c][i] = Batch[d][j]
    PROVE  c = d /\ i = j
<1>1. \A x, y \in Calls : \A m \in Position(x), n \in Position(y) :
        Batch[x][m] = Batch[y][n] => x = y /\ m = n
  BY SamplingAssumption
<1> QED  BY <1>1

LEMMA OneBatch ==
    ASSUME NEW c \in Calls, NEW d \in Calls, NEW r, InBatch(c, r), InBatch(d, r)
    PROVE  c = d
<1>1. PICK i \in Position(c), j \in Position(d) : Batch[c][i] = r /\ Batch[d][j] = r
  BY DEF InBatch
<1> QED  BY <1>1, OnePlace

(* What is decided stays decided, and the call that decides now is over.   *)
LEMMA FinalStep ==
    ASSUME Typed, DecidedByCall, [Next]_vars
    PROVE  /\ DecidedByCall'
           /\ \A r \in Records : fate[r] # "undecided" => fate'[r] = fate[r]
<1>1. ASSUME NEW c \in Calls, Begin(c) \/ Reply(c) \/ GiveUp(c)
      PROVE  /\ DecidedByCall'
             /\ \A r \in Records : fate[r] # "undecided" => fate'[r] = fate[r]
  <2>1. /\ \A d \in Calls \ {c} : call'[d] = call[d]
        /\ call[c] # "done"
        /\ fate' # fate => call'[c] = "done"
        /\ fate' = fate \/ Fallback(c) \/ Route(c)
    BY <1>1, GatewayEffect
  <2>2. \A r \in Records : fate'[r] # fate[r] => InBatch(c, r) /\ call'[c] = "done"
    BY <2>1, FateEffect
  <2>3. ASSUME NEW r \in Records, fate[r] # "undecided" PROVE fate'[r] = fate[r]
    <3>1. PICK d \in Calls : InBatch(d, r) /\ call[d] = "done"
      BY <2>3 DEF DecidedByCall
    <3>2. ~InBatch(c, r)
      BY <2>1, <3>1, OneBatch
    <3> QED  BY <2>2, <3>2
  <2>4. ASSUME NEW r \in Records, fate'[r] # "undecided"
        PROVE  \E d \in Calls : InBatch(d, r) /\ call'[d] = "done"
    <3>1. CASE fate'[r] # fate[r]
      BY <2>2, <3>1
    <3>2. CASE fate'[r] = fate[r]
      <4>1. PICK d \in Calls : InBatch(d, r) /\ call[d] = "done"
        BY <2>4, <3>2 DEF DecidedByCall
      <4> QED  BY <2>1, <4>1
    <3> QED  BY <3>1, <3>2
  <2> QED  BY <2>3, <2>4 DEF DecidedByCall, InBatch
<1>2. CASE UNCHANGED <<call, fate>>
  BY <1>2 DEF DecidedByCall, InBatch
<1>3. ASSUME NEW c \in Calls, Count(c) \/ CountFails(c) \/ ReadEma(c) \/ Decide(c)
      PROVE  UNCHANGED <<call, fate>>
  BY <1>3 DEF Count, CountFails, ReadEma, Decide, clientVars
<1>4. ASSUME NEW g \in Gateways, Cool(g) PROVE UNCHANGED <<call, fate>>
  BY <1>4 DEF Cool
<1>5. CASE UNCHANGED vars
  BY <1>2, <1>5 DEF vars
<1> QED  BY <1>1, <1>2, <1>3, <1>4, <1>5 DEF Next

LEMMA DecidedHolds == Spec => []DecidedByCall
<1>1. Init => DecidedByCall
  BY DEF Init, DecidedByCall
<1>2. Typed /\ DecidedByCall /\ [Next]_vars => DecidedByCall'
  BY FinalStep
<1> QED  BY <1>1, <1>2, TypedHolds, PTL DEF Spec

(* A decision is final: a late answer, a deadline or a handler that goes   *)
(* on changes nothing for the records of a batch (DecideBatch, the flush). *)
THEOREM DecisionsStand == Spec => DecisionsAreFinal
<1>1. Typed /\ DecidedByCall /\ [Next]_vars
        => [\A r \in Records : fate[r] # "undecided" => fate'[r] = fate[r]]_vars
  BY FinalStep
<1> QED  BY <1>1, TypedHolds, DecidedHolds, PTL DEF Spec, DecisionsAreFinal

-----------------------------------------------------------------------------
(* Representation                                                          *)

(* SuppressedAreRepresented is not inductive: it follows from who drew     *)
(* which number, what a handler has drawn for the item at hand and not for *)
(* the later ones, and what its answer says of the earlier ones.           *)
Passed(r) == number[r] > 0 /\ ~Milestone(mapSeverity(r), number[r])
NumbersDrawn ==
    /\ \A r \in Records : number[r] <= total[Key(r)]
    /\ \A k \in Keys : \A n \in 1..total[k] :
         \E q \in Records : Key(q) = k /\ number[q] = n
ItemDrawn(c) ==
    LET h == handler[c] IN
    /\ h.step \in {"idle", "count", "read", "write"} =>
         \A i \in Position(c) : i > h.item => number[Batch[c][i]] = 0
    /\ h.step \in {"idle", "count"} => number[Item(c)] = 0
    /\ h.step \in {"read", "write"} => number[Item(c)] = h.n /\ h.n > 0
    /\ \A i \in Position(c) : i <= Len(h.answer) /\ ~h.answer[i] => Passed(Batch[c][i])
SkippedPassed == \A r \in Records : fate[r] = "suppressed" => Passed(r)
Represented == NumbersDrawn /\ (\A c \in Calls : ItemDrawn(c)) /\ SkippedPassed

LEMMA RepresentedInit == Init => Represented
<1> SUFFICES ASSUME Init PROVE Represented
  OBVIOUS
<1>1. /\ \A r \in Records : number[r] = 0 /\ fate[r] = "undecided"
      /\ \A k \in Keys : total[k] = 0
      /\ \A c \in Calls : /\ handler[c].step = "idle" /\ handler[c].answer = <<>>
                          /\ handler[c].item = 1
  BY DEF Init
<1>2. NumbersDrawn
  BY <1>1, PlacedRecords DEF NumbersDrawn
<1>3. ASSUME NEW c \in Calls PROVE ItemDrawn(c)
  <2>1. \A i \in Position(c) : Batch[c][i] \in Records
    BY PlacedRecords
  <2>2. 1 \in Position(c) /\ Len(Batch[c]) \in Nat
    BY PlacedRecords DEF Position
  <2>3. Len(<<>>) = 0
    BY EmptySeq
  <2>4. \A i \in Position(c) : ~(i <= 0)
    BY <2>2 DEF Position
  <2> QED  BY <1>1, <2>1, <2>2, <2>3, <2>4 DEF ItemDrawn, Item
<1>4. SkippedPassed
  BY <1>1 DEF SkippedPassed
<1> QED  BY <1>2, <1>3, <1>4 DEF Represented

(* A record that passed has drawn its number before, and keeps it.         *)
LEMMA DrawStep ==
    ASSUME Typed, Represented, NEW c \in Calls, Count(c) \/ CountFails(c)
    PROVE  Represented'
<1> DEFINE r == Item(c)
           k == Key(r)
<1>1. /\ \A d \in Calls \ {c} : handler'[d] = handler[d]
      /\ handler[c].step = "count"
      /\ handler'[c].item = handler[c].item /\ handler'[c].answer = handler[c].answer
      /\ \/ handler'[c].step = "read" /\ handler'[c].n = number'[r] /\ Count(c)
         \/ handler'[c].step = "failed" /\ CountFails(c)
      /\ r \in Records /\ r = Batch[c][handler[c].item]
      /\ \/ /\ number' = [number EXCEPT ![r] = total[k] + 1]
            /\ total' = [total EXCEPT ![k] = total[k] + 1]
         \/ UNCHANGED <<total, number>> /\ CountFails(c)
      /\ fate' = fate
  BY CountEffect DEF clientVars
<1>2. /\ number \in [Records -> Nat] /\ total \in [Keys -> Nat]
      /\ k \in Keys /\ \A q \in Records : Key(q) \in Keys
  BY <1>1, PlacedRecords DEF Typed, TypeOK
<1>3. /\ number[r] = 0 /\ \A i \in Position(c) : i > handler[c].item => number[Batch[c][i]] = 0
      /\ handler[c].item \in Position(c)
  BY <1>1 DEF Represented, ItemDrawn, Typed, AtItems, AtItem
<1>p. \A d \in Calls : \A i \in Position(d) :
        Batch[d][i] \in Records /\ (Batch[d][i] = r => d = c /\ i = handler[c].item)
  BY <1>1, <1>3, PlacedRecords, OnePlace
<1>n. \A d \in Calls : handler[d].item \in Position(d) /\ Item(d) = Batch[d][handler[d].item]
  BY DEF Typed, AtItems, AtItem, Item
<1>i. /\ Item(c)' = r /\ \A d \in Calls \ {c} : Item(d)' = Item(d)
  BY <1>1 DEF Item
<1> HIDE DEF r, k
<1>4. CASE /\ number' = [number EXCEPT ![r] = total[k] + 1]
           /\ total' = [total EXCEPT ![k] = total[k] + 1]
  <2>1. /\ number'[r] = total[k] + 1 /\ total'[k] = total[k] + 1
        /\ \A q \in Records \ {r} : number'[q] = number[q]
        /\ \A j \in Keys \ {k} : total'[j] = total[j]
        /\ Key(r) = k
    BY <1>1, <1>2, <1>4 DEF k
  <2>2. \A q \in Records : number'[q] <= total'[Key(q)]
    <3> TAKE q \in Records
    <3>1. number[q] <= total[Key(q)] /\ number[q] \in Nat /\ total[Key(q)] \in Nat
      BY <1>2 DEF Represented, NumbersDrawn
    <3>2. CASE q = r
      BY <1>2, <2>1, <3>2
    <3>3. CASE q # r
      BY <1>2, <2>1, <3>1, <3>3
    <3> QED  BY <3>2, <3>3
  <2>3. ASSUME NEW j \in Keys, NEW n \in 1..total'[j]
        PROVE  \E q \in Records : Key(q) = j /\ number'[q] = n
    <3>1. CASE j = k /\ n = total[k] + 1
      BY <1>1, <2>1, <3>1
    <3>2. CASE ~(j = k /\ n = total[k] + 1)
      <4>1. n \in 1..total[j]
        BY <1>2, <2>1, <2>3, <3>2
      <4>2. PICK q \in Records : Key(q) = j /\ number[q] = n
        BY <4>1 DEF Represented, NumbersDrawn
      <4>3. q # r
        BY <1>3, <4>1, <4>2
      <4> QED  BY <2>1, <4>2, <4>3
    <3> QED  BY <3>1, <3>2
  <2>4. NumbersDrawn'
    BY <2>2, <2>3 DEF NumbersDrawn, Key, mapSeverity, Keys
  <2>5. ASSUME NEW q \in Records, Passed(q) PROVE Passed(q)'
    <3>1. q # r
      BY <1>3, <2>5 DEF Passed
    <3> QED  BY <2>1, <2>5, <3>1 DEF Passed
  <2>6. ASSUME NEW d \in Calls \ {c} PROVE ItemDrawn(d)'
    <3>1. handler'[d] = handler[d] /\ ItemDrawn(d) /\ Item(d)' = Item(d)
      BY <1>1, <1>i DEF Represented
    <3>2. \A i \in Position(d) : /\ number'[Batch[d][i]] = number[Batch[d][i]]
                                 /\ Passed(Batch[d][i]) => Passed(Batch[d][i])'
      <4> TAKE i \in Position(d)
      <4>1. Batch[d][i] \in Records \ {r}
        BY <1>p, <2>6
      <4> QED  BY <2>1, <4>1 DEF Passed
    <3>3. number'[Item(d)] = number[Item(d)]
      BY <1>n, <2>6, <3>2
    <3> QED  BY <3>1, <3>2, <3>3 DEF ItemDrawn
  <2>7. ItemDrawn(c)'
    <3>1. \A i \in Position(c) : i > handler[c].item => number'[Batch[c][i]] = 0
      <4> TAKE i \in Position(c)
      <4> HAVE i > handler[c].item
      <4>1. i # handler[c].item
        BY <1>3, PlacedRecords DEF Position
      <4> QED  BY <1>3, <1>p, <2>1, <4>1
    <3>2. \A i \in Position(c) : i <= Len(handler[c].answer) /\ ~handler[c].answer[i]
                                   => Passed(Batch[c][i])'
      <4> TAKE i \in Position(c)
      <4> HAVE i <= Len(handler[c].answer) /\ ~handler[c].answer[i]
      <4>1. Passed(Batch[c][i])
        BY DEF Represented, ItemDrawn
      <4>2. Batch[c][i] \in Records \ {r}
        BY <1>3, <1>p, <4>1 DEF Passed
      <4> QED  BY <2>1, <4>1, <4>2 DEF Passed
    <3>3. number'[r] > 0
      BY <1>2, <2>1
    <3> QED  BY <1>1, <1>i, <3>1, <3>2, <3>3 DEF ItemDrawn
  <2>8. SkippedPassed'
    BY <1>1, <2>5 DEF Represented, SkippedPassed
  <2> QED  BY <2>4, <2>6, <2>7, <2>8 DEF Represented
<1>5. CASE UNCHANGED <<total, number>> /\ CountFails(c)
  <2>1. handler'[c].step \in {"read", "failed"}
    BY <1>1
  <2>2. CASE handler'[c].step = "read"
    <3>1. Count(c) /\ CountFails(c)
      BY <1>1, <1>5, <2>2
    <3>2. handler'[c].step = "failed"
      BY <3>1, <1>2 DEF CountFails, Typed, TypeOK
    <3> QED  BY <2>2, <3>2
  <2>3. CASE handler'[c].step = "failed"
    <3>1. \A q : Passed(q)' <=> Passed(q)
      BY <1>5 DEF Passed
    <3>2. NumbersDrawn'
      BY <1>5 DEF Represented, NumbersDrawn
    <3>3. SkippedPassed'
      BY <1>1, <3>1 DEF Represented, SkippedPassed
    <3>4. ItemDrawn(c)'
      BY <1>1, <2>3, <3>1 DEF Represented, ItemDrawn
    <3>5. \A d \in Calls \ {c} : ItemDrawn(d)'
      BY <1>1, <1>5, <1>i, <3>1 DEF Represented, ItemDrawn
    <3> QED  BY <3>2, <3>3, <3>4, <3>5 DEF Represented
  <2> QED  BY <2>1, <2>2, <2>3
<1> QED  BY <1>1, <1>4, <1>5 DEF k

(* A record the handler's answer gives up has drawn no milestone.          *)
LEMMA AnswerStep ==
    ASSUME Typed, Represented, NEW c \in Calls, Decide(c)
    PROVE  Represented'
<1> DEFINE r == Item(c)
           h == handler[c]
           last == h.item = Len(Batch[c])
<1>1. /\ \A d \in Calls \ {c} : handler'[d] = handler[d]
      /\ h.step = "write" /\ r \in Records /\ r = Batch[c][h.item]
      /\ handler'[c].step = IF last THEN "answered" ELSE "count"
      /\ handler'[c].item = IF last THEN h.item ELSE h.item + 1
      /\ Len(handler'[c].answer) = Len(h.answer) + 1
      /\ \A i \in 1..Len(h.answer) : handler'[c].answer[i] = h.answer[i]
      /\ ~handler'[c].answer[Len(h.answer) + 1] => ~Milestone(mapSeverity(r), h.n)
      /\ UNCHANGED <<fate, total, number>>
  BY DecideEffect DEF clientVars
<1>2. /\ h.item \in 1..Len(Batch[c]) /\ Len(h.answer) = h.item - 1
      /\ Len(Batch[c]) \in Nat
  BY <1>1, PlacedRecords DEF Typed, AtItems, AtItem, Position
<1>3. /\ number[r] = h.n /\ h.n > 0
      /\ \A i \in 1..Len(Batch[c]) : i > h.item => number[Batch[c][i]] = 0
      /\ \A i \in 1..Len(Batch[c]) : i <= Len(h.answer) /\ ~h.answer[i] => Passed(Batch[c][i])
  BY <1>1 DEF Represented, ItemDrawn, Position
<1> HIDE DEF r, h
<1>4. \A q : Passed(q)' <=> Passed(q)
  BY <1>1 DEF Passed
<1>5. NumbersDrawn' /\ SkippedPassed'
  BY <1>1, <1>4 DEF Represented, NumbersDrawn, SkippedPassed
<1>6. \A d \in Calls \ {c} : ItemDrawn(d)'
  BY <1>1, <1>4 DEF Represented, ItemDrawn, Item
<1>7. ASSUME NEW i \in 1..Len(Batch[c]), i <= Len(handler'[c].answer), ~handler'[c].answer[i]
      PROVE  Passed(Batch[c][i])
  <2>1. CASE i <= Len(h.answer)
    <3>1. i \in 1..Len(h.answer) /\ ~h.answer[i]
      BY <1>1, <1>2, <1>7, <2>1, SMTT(20)
    <3> QED  BY <1>3, <2>1, <3>1
  <2>2. CASE ~(i <= Len(h.answer))
    <3>1. i = h.item /\ i = Len(h.answer) + 1
      BY <1>1, <1>2, <1>7, <2>2
    <3>2. ~Milestone(mapSeverity(r), h.n)
      BY <1>1, <1>7, <3>1
    <3> QED  BY <1>1, <1>3, <3>1, <3>2 DEF Passed
  <2> QED  BY <2>1, <2>2
<1>8. ItemDrawn(c)'
  <2>1. CASE last
    BY <1>1, <1>4, <1>7, <2>1 DEF ItemDrawn, Position
  <2>2. CASE ~last
    <3>1. /\ handler'[c].step = "count" /\ handler'[c].item = h.item + 1
          /\ h.item + 1 \in 1..Len(Batch[c])
      BY <1>1, <1>2, <2>2
    <3>2. \A i \in 1..Len(Batch[c]) : i > h.item + 1 => number'[Batch[c][i]] = 0
      BY <1>1, <1>2, <1>3
    <3>3. number'[Item(c)'] = 0
      BY <1>1, <1>2, <1>3, <3>1, SMTT(20) DEF Item
    <3> QED  BY <1>4, <1>7, <3>1, <3>2, <3>3 DEF ItemDrawn, Position
  <2> QED  BY <2>1, <2>2
<1> QED  BY <1>5, <1>6, <1>8 DEF Represented

(* The gateway suppresses only what an answer of the service gives up.     *)
LEMMA RouteKeepsRepresented ==
    ASSUME Typed, Represented, NEW c \in Calls, Begin(c) \/ Reply(c) \/ GiveUp(c)
    PROVE  Represented'
<1>1. /\ \A d \in Calls \ {c} : handler'[d] = handler[d]
      /\ handler'[c].item = handler[c].item /\ handler'[c].answer = handler[c].answer
      /\ handler'[c].n = handler[c].n
      /\ \/ handler'[c].step = handler[c].step
         \/ handler[c].step = "idle" /\ handler'[c].step = "count"
      /\ \/ fate' = fate
         \/ Fallback(c)
         \/ Route(c) /\ handler[c].step = "answered"
      /\ UNCHANGED <<total, number>>
  BY GatewayEffect DEF redisVars
<1>2. \A q : Passed(q)' <=> Passed(q)
  BY <1>1 DEF Passed
<1>3. NumbersDrawn'
  BY <1>1 DEF Represented, NumbersDrawn
<1>4. \A d \in Calls : Item(d)' = Item(d)
  BY <1>1 DEF Item
<1>5. ASSUME NEW d \in Calls PROVE ItemDrawn(d)'
  <2>1. CASE d = c
    BY <1>1, <1>2, <1>4, <2>1 DEF Represented, ItemDrawn
  <2>2. CASE d # c
    BY <1>1, <1>2, <1>4, <2>2 DEF Represented, ItemDrawn
  <2> QED  BY <2>1, <2>2
<1>6. ASSUME NEW r \in Records, fate'[r] = "suppressed" PROVE Passed(r)
  <2>1. CASE fate[r] = "suppressed"
    BY <2>1 DEF Represented, SkippedPassed
  <2>2. CASE fate[r] # "suppressed"
    <3>1. Fallback(c) \/ Route(c)
      BY <1>1, <1>6, <2>2
    <3>2. Route(c) /\ \E i \in Position(c) : Batch[c][i] = r /\ ~handler[c].answer[i]
      BY <1>6, <2>2, <3>1, FateEffect
    <3>3. PICK i \in Position(c) : Batch[c][i] = r /\ ~handler[c].answer[i]
      BY <3>2
    <3>4. handler[c].step = "answered"
      <4>1. CASE Fallback(c)
        <5>1. fate'[r] # "suppressed"
          BY <2>2, <4>1 DEF Fallback
        <5> QED  BY <1>6, <5>1
      <4>2. CASE ~Fallback(c)
        BY <1>1, <1>6, <2>2, <4>2
      <4> QED  BY <4>1, <4>2
    <3>5. Len(handler[c].answer) = Len(Batch[c]) /\ i <= Len(Batch[c])
      BY <3>3, <3>4, PlacedRecords DEF Typed, AtItems, AtItem, Position
    <3> QED  BY <3>3, <3>5 DEF Represented, ItemDrawn
  <2> QED  BY <2>1, <2>2
<1>7. SkippedPassed'
  BY <1>2, <1>6 DEF SkippedPassed
<1> QED  BY <1>3, <1>5, <1>7 DEF Represented

LEMMA RepresentedStep == Typed /\ Represented /\ [Next]_vars => Represented'
<1> SUFFICES ASSUME Typed, Represented, [Next]_vars PROVE Represented'
  OBVIOUS
<1>1. ASSUME NEW c \in Calls, ReadEma(c) PROVE Represented'
  <2>1. /\ \A d \in Calls \ {c} : handler'[d] = handler[d]
        /\ handler[c].step = "read" /\ handler'[c].step = "write"
        /\ handler'[c].item = handler[c].item /\ handler'[c].answer = handler[c].answer
        /\ handler'[c].n = handler[c].n
        /\ UNCHANGED <<fate, total, number>>
    BY <1>1, ReadEffect DEF clientVars, redisVars
  <2>2. \A q : Passed(q)' <=> Passed(q)
    BY <2>1 DEF Passed
  <2>3. NumbersDrawn' /\ SkippedPassed'
    BY <2>1, <2>2 DEF Represented, NumbersDrawn, SkippedPassed
  <2>4. ASSUME NEW d \in Calls PROVE ItemDrawn(d)'
    <3>1. Item(d)' = Item(d)
      BY <2>1 DEF Item
    <3>2. CASE d = c
      BY <2>1, <2>2, <3>1, <3>2 DEF Represented, ItemDrawn
    <3>3. CASE d # c
      BY <2>1, <2>2, <3>1, <3>3 DEF Represented, ItemDrawn
    <3> QED  BY <3>2, <3>3
  <2> QED  BY <2>3, <2>4 DEF Represented
<1>2. CASE UNCHANGED <<handler, total, number, fate>>
  <2>1. \A q : Passed(q)' <=> Passed(q)
    BY <1>2 DEF Passed
  <2>2. NumbersDrawn' /\ SkippedPassed'
    BY <1>2, <2>1 DEF Represented, NumbersDrawn, SkippedPassed
  <2>3. \A d \in Calls : ItemDrawn(d)'
    BY <1>2, <2>1 DEF Represented, ItemDrawn, Item
  <2> QED  BY <2>2, <2>3 DEF Represented
<1>3. ASSUME NEW g \in Gateways, Cool(g) PROVE UNCHANGED <<handler, total, number, fate>>
  BY <1>3 DEF Cool, redisVars
<1>4. CASE UNCHANGED vars
  BY <1>2, <1>4 DEF vars
<1> QED  BY <1>1, <1>2, <1>3, <1>4, DrawStep, AnswerStep, RouteKeepsRepresented DEF Next

LEMMA RepresentedHolds == Spec => []Represented
<1>1. Typed /\ Represented /\ [Next]_vars => Represented'
  BY RepresentedStep
<1> QED  BY <1>1, RepresentedInit, TypedHolds, PTL DEF Spec

(* A suppressed record drew no milestone, and each milestone before its    *)
(* number was drawn by a record of its key that is not suppressed          *)
(* (DecideBatch, Touch and evaluate, and the gateway's fallback).          *)
THEOREM SuppressionIsRepresented == Spec => []SuppressedAreRepresented
<1>1. Typed /\ Represented => SuppressedAreRepresented
  <2> SUFFICES ASSUME Typed, Represented, NEW r \in Records, fate[r] = "suppressed"
               PROVE  /\ number[r] > 0 /\ ~Milestone(mapSeverity(r), number[r])
                      /\ \A n \in 1 .. number[r] : Milestone(mapSeverity(r), n) =>
                           \E q \in Records : /\ Key(q) = Key(r) /\ number[q] = n
                                              /\ fate[q] # "suppressed"
    BY DEF SuppressedAreRepresented
  <2>1. Passed(r)
    BY DEF Represented, SkippedPassed
  <2>2. ASSUME NEW n \in 1..number[r], Milestone(mapSeverity(r), n)
        PROVE  \E q \in Records : /\ Key(q) = Key(r) /\ number[q] = n
                                  /\ fate[q] # "suppressed"
    <3>1. /\ number[r] \in Nat /\ number[r] <= total[Key(r)] /\ total[Key(r)] \in Nat
          /\ Key(r) \in Keys
      BY PlacedRecords DEF Represented, NumbersDrawn, Typed, TypeOK
    <3>2. n \in 1..total[Key(r)]
      BY <3>1
    <3>3. PICK q \in Records : Key(q) = Key(r) /\ number[q] = n
      BY <3>1, <3>2 DEF Represented, NumbersDrawn
    <3>4. mapSeverity(q) = mapSeverity(r)
      BY <3>3 DEF Key
    <3>5. ~Passed(q)
      BY <2>2, <3>3, <3>4 DEF Passed
    <3> QED  BY <3>3, <3>5 DEF Represented, SkippedPassed
  <2> QED  BY <2>1, <2>2 DEF Passed
<1> QED  BY <1>1, TypedHolds, RepresentedHolds, PTL

-----------------------------------------------------------------------------
(* Spikes                                                                  *)

LEMMA TimesIsMonotone ==
    ASSUME NEW a \in Nat, NEW x \in Int, NEW y \in Int, x >= y
    PROVE  a * x >= a * y
  OBVIOUS

LEMMA TimesCancels ==
    ASSUME NEW a \in Nat \ {0}, NEW x \in Int, NEW y \in Int, a * x >= a * y
    PROVE  x >= y
  OBVIOUS

(* Following survives one update: with a weight of a/b for the new count   *)
(* and d/b for the average, a lag of d/a shrinks to d/b, and the count     *)
(* adds a/b at most.                                                       *)
LEMMA LagSurvives ==
    ASSUME NEW a \in Nat, NEW d \in Nat, NEW b \in Nat \ {0}, b = a + d, NEW s \in Nat,
           NEW c \in Nat, NEW e \in Nat, NEW f \in Nat,
           2 * b * f >= 2 * (a * c * s + d * e) - b + 1,
           2 * a * e + b >= 2 * s * (a * (c - 1) - d)
    PROVE  2 * a * f + b >= 2 * s * (a * c - d)
<1>1. a * (2 * b * f) >= a * (2 * (a * c * s + d * e) - b + 1)
  BY TimesIsMonotone
<1>2. d * (2 * a * e + b) >= d * (2 * s * (a * (c - 1) - d))
  BY TimesIsMonotone
<1>3. b * (2 * a * f + b) >= b * (2 * s * (a * c - d))
  BY <1>1, <1>2
<1> QED  BY <1>3, TimesCancels

(* A count of at least m that the average follows is below n/q times it.   *)
LEMMA LagBelowFactor ==
    ASSUME NEW a \in Nat \ {0}, NEW d \in Nat, NEW b \in Nat \ {0}, NEW s \in Nat \ {0},
           NEW c \in Nat, NEW e \in Nat, NEW n \in Nat, NEW q \in Nat, NEW m \in Nat,
           c >= m,
           2 * s * ((n - q) * m * a - n * d) > n * b,
           2 * a * e + b >= 2 * s * (a * c - d)
    PROVE  ~(c * s * q >= n * e)
<1>1. n - q >= 0
  <2> SUFFICES ASSUME n - q < 0 PROVE FALSE
    OBVIOUS
  <2>1. m * a \in Nat /\ n * d >= 0 /\ n * b >= 0
    OBVIOUS
  <2>2. (q - n) * (m * a) >= 0 /\ (n - q) * m * a = -((q - n) * (m * a))
    BY <2>1
  <2> DEFINE z == (n - q) * m * a - n * d
  <2>3. z \in Int /\ 0 - z >= 0
    BY <2>1, <2>2
  <2>4. 2 * s * z > n * b
    OBVIOUS
  <2> HIDE DEF z
  <2>5. s * (0 - z) >= 0 /\ 2 * s * z = -(2 * (s * (0 - z)))
    BY <2>3
  <2> QED  BY <2>1, <2>4, <2>5
<1>2. n * (2 * a * e + b) >= n * (2 * s * (a * c - d))
  BY TimesIsMonotone
<1>3. (n - q) * c >= (n - q) * m
  BY <1>1, TimesIsMonotone
<1>4. (2 * s * a) * ((n - q) * c) >= (2 * s * a) * ((n - q) * m)
  <2> 2 * s * a \in Nat
    OBVIOUS
  <2> QED  BY <1>1, <1>3, TimesIsMonotone
<1>5. (2 * a) * (n * e) >= (2 * a) * (c * s * q) + 1
  BY <1>2, <1>4
<1> QED  BY <1>5

(* The average e is no further behind the count c than an average that is  *)
(* updated at every count of a minute, in the rounded units of Redis.      *)
Follows(c, e) ==
    2 * AlphaNum * e + AlphaDen >= 2 * Scale * (AlphaNum * c - (AlphaDen - AlphaNum))

LEMMA Rates ==
    /\ AlphaNum \in Nat \ {0} /\ AlphaDen \in Nat \ {0} /\ AlphaDen - AlphaNum \in Nat
    /\ FactorNum \in Nat \ {0} /\ FactorDen \in Nat \ {0}
    /\ MinSpike \in Nat \ {0} /\ Scale \in Nat \ {0}
  BY SamplingAssumption

LEMMA QuotientIsClose ==
    ASSUME NEW y \in Nat, NEW n \in Nat \ {0}
    PROVE  n * (y \div n) >= y - n + 1
  OBVIOUS

LEMMA RoundedQuotient ==
    ASSUME NEW x \in Nat, NEW b \in Nat \ {0}
    PROVE  2 * b * ((2 * x + b) \div (2 * b)) >= 2 * x - b + 1
<1> DEFINE n == 2 * b
           y == 2 * x + b
<1>1. n \in Nat \ {0} /\ y \in Nat /\ y - n = 2 * x - b
  OBVIOUS
<1>2. n * (y \div n) >= y - n + 1
  <2> HIDE DEF n, y
  <2> QED  BY <1>1, QuotientIsClose
<1> QED  BY <1>1, <1>2

LEMMA NewEmaFollows ==
    ASSUME NEW cur \in Nat, NEW old \in Nat, Follows(cur - 1, old)
    PROVE  NewEma(cur, old) \in Nat /\ Follows(cur, NewEma(cur, old))
<1> DEFINE a == AlphaNum
           b == AlphaDen
           d == AlphaDen - AlphaNum
           s == Scale
           f == NewEma(cur, old)
<1>1. /\ a \in Nat /\ b \in Nat \ {0} /\ d \in Nat /\ s \in Nat /\ b = a + d
      /\ f \in Nat
  <2>1. f \in Nat
    BY EmaIsNat
  <2> HIDE DEF f
  <2> QED  BY <2>1, Rates
<1>2. a * cur * s + d * old \in Nat
  <2>1. a * cur \in Nat
    BY <1>1, ProductIsNat
  <2>2. a * cur * s \in Nat /\ d * old \in Nat
    BY <1>1, <2>1, ProductIsNat
  <2> HIDE DEF a, s, d
  <2> QED  BY <2>2
<1>3. f = (2 * (a * cur * s + d * old) + b) \div (2 * b)
  BY DEF NewEma
<1>4. 2 * a * old + b >= 2 * s * (a * (cur - 1) - d)
  BY DEF Follows
<1>h. HIDE DEF a, b, d, s, f
<1>5. 2 * b * f >= 2 * (a * cur * s + d * old) - b + 1
  <2> DEFINE x == a * cur * s + d * old
  <2>1. x \in Nat /\ f = (2 * x + b) \div (2 * b)
    BY <1>2, <1>3
  <2>2. 2 * b * f >= 2 * x - b + 1
    <3> HIDE DEF x
    <3> QED  BY <1>1, <2>1, RoundedQuotient
  <2> QED  BY <2>2
<1>6. 2 * a * f + b >= 2 * s * (a * cur - d)
  BY <1>1, <1>4, <1>5, LagSurvives
<1> QED  BY <1>1, <1>6 DEF Follows, a, b, d, s, f

LEMMA NothingFollows == ASSUME NEW e \in Nat PROVE Follows(0, e)
<1> DEFINE d == AlphaDen - AlphaNum
           a == AlphaNum
           s == Scale
<1>1. a \in Nat /\ d \in Nat /\ s \in Nat /\ AlphaDen \in Nat
  BY Rates
<1>h. HIDE DEF a, d, s
<1>2. a * e \in Nat /\ s * d \in Nat
  BY <1>1, ProductIsNat
<1>3. 2 * a * e = 2 * (a * e) /\ 2 * s * (a * 0 - d) = -(2 * (s * d))
  BY <1>1
<1>4. 2 * a * e + AlphaDen >= 2 * s * (a * 0 - d)
  BY <1>1, <1>2, <1>3
<1> QED  BY <1>4 DEF Follows, a, d, s

LEMMA FollowedIsNoSpike ==
    ASSUME NEW cur \in Nat, NEW e \in Nat, Follows(cur, e)
    PROVE  ~Spikes(cur, e)
<1> SUFFICES ASSUME cur >= MinSpike PROVE ~(cur * Scale * FactorDen >= FactorNum * e)
  BY DEF Spikes
<1> DEFINE a == AlphaNum
           b == AlphaDen
           d == AlphaDen - AlphaNum
           s == Scale
           n == FactorNum
           q == FactorDen
           m == MinSpike
<1>1. /\ a \in Nat \ {0} /\ b \in Nat \ {0} /\ d \in Nat /\ s \in Nat \ {0}
      /\ n \in Nat /\ q \in Nat /\ m \in Nat /\ cur >= m
  BY Rates
<1>2. 2 * s * ((n - q) * m * a - n * d) > n * b
  BY LagAssumption
<1>3. 2 * a * e + b >= 2 * s * (a * cur - d)
  BY DEF Follows
<1>h. HIDE DEF a, b, d, s, n, q, m
<1>4. ~(cur * s * q >= n * e)
  BY <1>1, <1>2, <1>3, LagBelowFactor
<1> QED  BY <1>4 DEF s, q, n

(* The stage's argument, as an invariant: between two updates of a key the *)
(* average follows the count of its last minute, and the one handler that  *)
(* is amid an update follows with the average it starts from.              *)
Settled(k) ==
    \A m \in Minutes : (\A n \in Minutes : n > m => bucket[k][n] = 0)
                         => Follows(bucket[k][m], ema[k])
Touching(c, k) ==
    LET h == handler[c]
        m == Minute[Item(c)]
    IN  /\ h.cur = bucket[k][m] /\ h.cur > 0
        /\ \A n \in Minutes : n > m => bucket[k][n] = 0
        /\ h.step = "read" => Follows(h.cur - 1, ema[k])
        /\ h.step = "write" => Follows(h.cur - 1, h.ema)
InTurn(k) ==
    /\ \A c, d \in Calls : MidTouch(c, k) /\ MidTouch(d, k) => c = d
    /\ \A c \in Calls : MidTouch(c, k) => Touching(c, k)
    /\ (\A c \in Calls : ~MidTouch(c, k)) => Settled(k)
Following == \A k \in Keys \ disturbed : InTurn(k)

LEMMA FollowingInit == Init => Following /\ SpikesComeFromDisorder
<1> SUFFICES ASSUME Init PROVE Following /\ SpikesComeFromDisorder
  OBVIOUS
<1>1. /\ \A c \in Calls : handler[c].step = "idle"
      /\ \A k \in Keys : ema[k] = 0 /\ \A m \in Minutes : bucket[k][m] = 0
      /\ spiked = {}
  BY DEF Init
<1>2. ASSUME NEW k \in Keys PROVE InTurn(k)
  BY <1>1, NothingFollows DEF InTurn, Settled, MidTouch
<1> QED  BY <1>1, <1>2 DEF Following, SpikesComeFromDisorder

(* A step that leaves a key's values and its handlers alone.               *)
LEMMA OtherKeys ==
    ASSUME NEW k, InTurn(k), bucket'[k] = bucket[k], ema'[k] = ema[k],
           \A d \in Calls : MidTouch(d, k)' => handler'[d] = handler[d],
           \A d \in Calls : MidTouch(d, k) => handler'[d] = handler[d]
    PROVE  InTurn(k)'
<1>1. ASSUME NEW d \in Calls, handler'[d] = handler[d]
      PROVE  Item(d)' = Item(d) /\ (MidTouch(d, k)' <=> MidTouch(d, k))
  BY <1>1 DEF Item, MidTouch
<1>2. \A d \in Calls : MidTouch(d, k)' <=> MidTouch(d, k)
  BY <1>1
<1>3. ASSUME NEW d \in Calls, MidTouch(d, k)' PROVE Touching(d, k)'
  <2>1. handler'[d] = handler[d] /\ Item(d)' = Item(d) /\ MidTouch(d, k)
    BY <1>1, <1>3
  <2>2. Touching(d, k)
    BY <2>1 DEF InTurn
  <2> QED  BY <2>1, <2>2 DEF Touching
<1>4. Settled(k) => Settled(k)'
  BY DEF Settled
<1> QED  BY <1>2, <1>3, <1>4 DEF InTurn

LEMMA CountInTurn ==
    ASSUME Typed, Following, NEW c \in Calls, Count(c)
    PROVE  Following'
<1>0. PICK r : r = Item(c)
  OBVIOUS
<1> DEFINE k == Key(r)
           m == Minute[r]
<1>1. r \in Records /\ k \in Keys /\ m \in Minutes /\ m \in Nat /\ Minutes \subseteq Nat
  <2>1. r \in Records
    BY <1>0, PlacedRecords DEF Typed, AtItems, AtItem, Item
  <2>2. Minute \in [Records -> Nat]
    BY SamplingAssumption
  <2> QED  BY <2>1, <2>2, PlacedRecords DEF Minutes
<1>2. /\ handler \in [Calls -> Handlers] /\ bucket \in [Keys -> [Minutes -> Nat]]
      /\ ema \in [Keys -> Nat] /\ handler[c] \in Handlers
  BY DEF Typed, TypeOK
<1>h. HIDE DEF k, m
<1>3. /\ handler[c].step = "count" /\ ema' = ema
      /\ bucket' = [bucket EXCEPT ![k] = [bucket[k] EXCEPT ![m] = bucket[k][m] + 1]]
      /\ handler' = [handler EXCEPT ![c] =
           [handler[c] EXCEPT !.step = "read", !.n = total'[k], !.cur = bucket'[k][m]]]
      /\ disturbed' = IF \/ \E d \in Calls : MidTouch(d, k)
                         \/ \E n \in Minutes : n > m /\ bucket[k][n] > 0
                        THEN disturbed \cup {k} ELSE disturbed
  BY <1>0 DEF Count, Incr, k, m
<1>4. /\ bucket'[k] = [bucket[k] EXCEPT ![m] = bucket[k][m] + 1]
      /\ \A j \in Keys \ {k} : bucket'[j] = bucket[j]
      /\ bucket[k] \in [Minutes -> Nat]
  BY <1>1, <1>2, <1>3
<1>5. /\ bucket'[k][m] = bucket[k][m] + 1 /\ bucket[k][m] \in Nat
      /\ \A n \in Minutes \ {m} : bucket'[k][n] = bucket[k][n]
  BY <1>1, <1>4
<1>6. /\ handler'[c] = [handler[c] EXCEPT !.step = "read", !.n = total'[k],
                                          !.cur = bucket'[k][m]]
      /\ \A d \in Calls \ {c} : handler'[d] = handler[d]
  BY <1>2, <1>3
<1>7. /\ handler'[c].step = "read" /\ handler'[c].cur = bucket'[k][m]
      /\ handler'[c].item = handler[c].item
  BY <1>2, <1>6 DEF Handlers
<1>8. Item(c)' = r
  BY <1>0, <1>7 DEF Item
<1>9. ASSUME NEW j \in Keys \ disturbed', j # k PROVE InTurn(j)'
  <2>1. InTurn(j)
    BY <1>3, <1>9 DEF Following
  <2>2. ~MidTouch(c, j) /\ ~MidTouch(c, j)'
    BY <1>0, <1>3, <1>8, <1>9 DEF MidTouch, k
  <2>3. bucket'[j] = bucket[j] /\ ema'[j] = ema[j]
    BY <1>3, <1>4, <1>9
  <2> QED  BY <1>6, <2>1, <2>2, <2>3, OtherKeys
<1>10. ASSUME k \notin disturbed' PROVE InTurn(k)'
  <2>1. /\ k \notin disturbed /\ \A d \in Calls : ~MidTouch(d, k)
        /\ \A n \in Minutes : ~(n > m /\ bucket[k][n] > 0)
    BY <1>3, <1>10
  <2>2. \A n \in Minutes : n > m => bucket[k][n] = 0
    BY <1>4, <2>1
  <2>3. Settled(k)
    BY <1>1, <2>1 DEF Following, InTurn
  <2>4. Follows(bucket[k][m], ema[k])
    BY <1>1, <2>2, <2>3 DEF Settled
  <2>5. \A d \in Calls \ {c} : ~MidTouch(d, k)'
    BY <1>6, <2>1 DEF MidTouch, Item
  <2>6. MidTouch(c, k)'
    BY <1>7, <1>8 DEF MidTouch, k
  <2>7. \A n \in Minutes : n > m => bucket'[k][n] = 0
    BY <1>1, <1>5, <2>2
  <2>8. /\ handler'[c].cur = bucket'[k][m] /\ handler'[c].cur > 0
        /\ handler'[c].cur - 1 = bucket[k][m] /\ handler'[c].step = "read"
        /\ ema'[k] = ema[k]
    BY <1>3, <1>5, <1>7
  <2>9. Touching(c, k)'
    BY <1>8, <2>4, <2>7, <2>8 DEF Touching, m
  <2> QED  BY <2>5, <2>6, <2>9 DEF InTurn
<1> QED  BY <1>9, <1>10 DEF Following, Keys, Key, mapSeverity

LEMMA CountFailsInTurn ==
    ASSUME Typed, Following, NEW c \in Calls, CountFails(c)
    PROVE  Following'
<1>0. PICK r : r = Item(c)
  OBVIOUS
<1> DEFINE k == Key(r)
<1>1. /\ handler \in [Calls -> Handlers] /\ bucket \in [Keys -> [Minutes -> Nat]]
      /\ handler[c] \in Handlers
  BY DEF Typed, TypeOK
<1>2. /\ handler[c].step = "count" /\ ema' = ema
      /\ handler' = [handler EXCEPT ![c] = [handler[c] EXCEPT !.step = "failed"]]
      /\ \/ bucket' = bucket /\ disturbed' = disturbed
         \/ Incr(k, Minute[r]) /\ disturbed' = disturbed \cup {k}
  BY <1>0 DEF CountFails
<1>3. \A j \in Keys \ disturbed' : bucket'[j] = bucket[j] /\ j \notin disturbed
  BY <1>1, <1>2 DEF Incr
<1>4. /\ \A d \in Calls \ {c} : handler'[d] = handler[d]
      /\ handler'[c].step = "failed"
  BY <1>1, <1>2 DEF Handlers
<1>5. ASSUME NEW j \in Keys \ disturbed' PROVE InTurn(j)'
  <2>1. InTurn(j) /\ bucket'[j] = bucket[j] /\ ema'[j] = ema[j]
    BY <1>2, <1>3 DEF Following
  <2>2. ~MidTouch(c, j) /\ ~MidTouch(c, j)'
    BY <1>2, <1>4 DEF MidTouch
  <2> QED  BY <1>4, <2>1, <2>2, OtherKeys
<1> QED  BY <1>5 DEF Following, Keys, Key, mapSeverity

LEMMA ReadInTurn ==
    ASSUME Typed, Following, NEW c \in Calls, ReadEma(c)
    PROVE  Following'
<1>0. PICK k : k = Key(Item(c))
  OBVIOUS
<1>1. /\ handler \in [Calls -> Handlers] /\ handler[c] \in Handlers
  BY DEF Typed, TypeOK
<1>2. /\ handler[c].step = "read" /\ ema' = ema /\ bucket' = bucket
      /\ \/ /\ handler' = [handler EXCEPT ![c].step = "write", ![c].ema = ema[k]]
            /\ disturbed' = disturbed
         \/ /\ handler' = [handler EXCEPT ![c].step = "write", ![c].ema = 0]
            /\ disturbed' = disturbed \cup {k}
  BY <1>0 DEF ReadEma, redisVars
<1>3. PICK e : /\ handler' = [handler EXCEPT ![c].step = "write", ![c].ema = e]
               /\ k \notin disturbed' => e = ema[k]
  BY <1>2
<1>4. /\ handler'[c] = [handler[c] EXCEPT !.step = "write", !.ema = e]
      /\ \A d \in Calls \ {c} : handler'[d] = handler[d]
  BY <1>1, <1>3
<1>5. /\ handler'[c].step = "write" /\ handler'[c].ema = e
      /\ handler'[c].cur = handler[c].cur /\ handler'[c].item = handler[c].item
  BY <1>1, <1>4 DEF Handlers
<1>6. Item(c)' = Item(c)
  BY <1>5 DEF Item
<1>7. ASSUME NEW j \in Keys \ disturbed', j # k PROVE InTurn(j)'
  <2>1. InTurn(j)
    BY <1>2, <1>7 DEF Following
  <2>2. ~MidTouch(c, j) /\ ~MidTouch(c, j)'
    BY <1>0, <1>6, <1>7 DEF MidTouch
  <2> QED  BY <1>2, <1>4, <2>1, <2>2, OtherKeys
<1>8. ASSUME k \in Keys \ disturbed' PROVE InTurn(k)'
  <2>1. InTurn(k) /\ MidTouch(c, k) /\ MidTouch(c, k)'
    BY <1>0, <1>2, <1>5, <1>6, <1>8 DEF Following, MidTouch
  <2>2. Touching(c, k) /\ \A d \in Calls \ {c} : ~MidTouch(d, k)
    BY <2>1 DEF InTurn
  <2>3. \A d \in Calls \ {c} : ~MidTouch(d, k)'
    BY <1>4, <2>2 DEF MidTouch, Item
  <2>4. Touching(c, k)'
    BY <1>2, <1>3, <1>5, <1>6, <1>8, <2>2 DEF Touching
  <2> QED  BY <2>1, <2>3, <2>4 DEF InTurn
<1> QED  BY <1>7, <1>8 DEF Following, Keys, Key, mapSeverity

(* The update ends: the average that goes back follows the count, so the   *)
(* stage that compares the two does not match.                             *)
LEMMA DecideInTurn ==
    ASSUME Typed, Following, SpikesComeFromDisorder, NEW c \in Calls, Decide(c)
    PROVE  Following' /\ SpikesComeFromDisorder'
<1>0. PICK r, h : r = Item(c) /\ h = handler[c]
  OBVIOUS
<1> DEFINE k == Key(r)
           m == Minute[r]
           e == NewEma(h.cur, h.ema)
<1>1. r \in Records /\ k \in Keys /\ m \in Minutes /\ Minutes \subseteq Nat
  <2>1. r \in Records
    BY <1>0, PlacedRecords DEF Typed, AtItems, AtItem, Item
  <2>2. Minute \in [Records -> Nat]
    BY SamplingAssumption
  <2> QED  BY <2>1, <2>2, PlacedRecords DEF Minutes
<1>2. /\ handler \in [Calls -> Handlers] /\ h \in Handlers /\ ema \in [Keys -> Nat]
      /\ h.cur \in Nat /\ h.ema \in Nat /\ bucket \in [Keys -> [Minutes -> Nat]]
  BY <1>0 DEF Typed, TypeOK, Handlers
<1>3. /\ h.step = "write" /\ bucket' = bucket
      /\ \/ ema' = [ema EXCEPT ![k] = e] /\ disturbed' = disturbed
         \/ disturbed' = disturbed \cup {k} /\ ema' = ema
      /\ spiked' = IF Spikes(h.cur, e) THEN spiked \cup {r} ELSE spiked
  BY <1>0 DEF Decide
<1>4. /\ \A d \in Calls \ {c} : handler'[d] = handler[d]
      /\ handler'[c].step \in {"answered", "count"}
  BY DecideEffect
<1>h. HIDE DEF k, m, e
<1>5. ASSUME NEW j \in Keys \ disturbed', j # k PROVE InTurn(j)'
  <2>1. InTurn(j)
    BY <1>3, <1>5 DEF Following
  <2>2. ~MidTouch(c, j) /\ ~MidTouch(c, j)'
    BY <1>0, <1>4, <1>5 DEF MidTouch, k
  <2>3. bucket'[j] = bucket[j] /\ ema'[j] = ema[j]
    BY <1>2, <1>3, <1>5
  <2> QED  BY <1>4, <2>1, <2>2, <2>3, OtherKeys
<1>6. ASSUME k \notin disturbed' PROVE InTurn(k)' /\ ~Spikes(h.cur, e)
  <2>1. ema' = [ema EXCEPT ![k] = e] /\ k \notin disturbed
    BY <1>3, <1>6
  <2>2. InTurn(k) /\ MidTouch(c, k)
    BY <1>0, <1>1, <1>3, <2>1 DEF Following, MidTouch, k
  <2>3. /\ h.cur = bucket[k][m] /\ h.cur > 0 /\ Follows(h.cur - 1, h.ema)
        /\ \A n \in Minutes : n > m => bucket[k][n] = 0
        /\ \A d \in Calls \ {c} : ~MidTouch(d, k)
    BY <1>0, <1>3, <2>2 DEF InTurn, Touching, m
  <2>4. e \in Nat /\ Follows(h.cur, e)
    BY <1>2, <2>3, NewEmaFollows DEF e
  <2>5. ~Spikes(h.cur, e)
    BY <1>2, <2>4, FollowedIsNoSpike
  <2>6. ema'[k] = e
    BY <1>1, <1>2, <2>1
  <2>7. \A d \in Calls : ~MidTouch(d, k)'
    <3>1. \A d \in Calls \ {c} : ~MidTouch(d, k)'
      BY <1>4, <2>3 DEF MidTouch, Item
    <3>2. ~MidTouch(c, k)'
      BY <1>4 DEF MidTouch
    <3> QED  BY <3>1, <3>2
  <2>8. Settled(k)'
    <3> SUFFICES ASSUME NEW n \in Minutes, \A l \in Minutes : l > n => bucket'[k][l] = 0
                 PROVE  Follows(bucket'[k][n], ema'[k])
      BY DEF Settled
    <3>1. CASE n = m
      BY <1>3, <2>3, <2>4, <2>6, <3>1
    <3>2. CASE n > m
      <4>1. bucket'[k][n] = 0
        BY <1>3, <2>3, <3>2
      <4> QED  BY <2>4, <2>6, <4>1, NothingFollows
    <3>3. CASE n < m
      <4>1. bucket[k][m] = 0
        BY <1>1, <1>3, <3>3
      <4> QED  BY <1>2, <2>3, <4>1
    <3> QED  BY <1>1, <3>1, <3>2, <3>3
  <2>9. InTurn(k)'
    BY <2>7, <2>8 DEF InTurn
  <2> QED  BY <2>5, <2>9
<1>7. Following'
  BY <1>5, <1>6 DEF Following, Keys, Key, mapSeverity
<1>8. ASSUME NEW q \in spiked' PROVE Key(q) \in disturbed'
  <2>1. CASE q \in spiked
    BY <1>3, <2>1 DEF SpikesComeFromDisorder
  <2>2. CASE q \notin spiked
    <3>1. q = r /\ Spikes(h.cur, e)
      BY <1>3, <1>8, <2>2
    <3> QED  BY <1>6, <3>1 DEF k
  <2> QED  BY <2>1, <2>2
<1> QED  BY <1>7, <1>8 DEF SpikesComeFromDisorder, Key, mapSeverity

LEMMA FollowingStep ==
    Typed /\ Following /\ SpikesComeFromDisorder /\ [Next]_vars
      => Following' /\ SpikesComeFromDisorder'
<1> SUFFICES ASSUME Typed, Following, SpikesComeFromDisorder, [Next]_vars
             PROVE  Following' /\ SpikesComeFromDisorder'
  OBVIOUS
<1>1. ASSUME spiked' = spiked, disturbed \subseteq disturbed'
      PROVE  SpikesComeFromDisorder'
  BY <1>1 DEF SpikesComeFromDisorder, Key, mapSeverity
<1>2. ASSUME UNCHANGED <<redisVars, disturbed, spiked>>,
             NEW c \in Calls, \A d \in Calls \ {c} : handler'[d] = handler[d],
             \/ handler'[c] = handler[c]
             \/ handler[c].step = "idle" /\ handler'[c].step = "count"
      PROVE  Following' /\ SpikesComeFromDisorder'
  <2>1. ASSUME NEW k \in Keys \ disturbed' PROVE InTurn(k)'
    <3>1. InTurn(k)
      BY <1>2 DEF Following
    <3>2. handler'[c] = handler[c] \/ (~MidTouch(c, k) /\ ~MidTouch(c, k)')
      BY <1>2 DEF MidTouch
    <3>3. bucket'[k] = bucket[k] /\ ema'[k] = ema[k]
      BY <1>2 DEF redisVars
    <3> QED  BY <1>2, <3>1, <3>2, <3>3, OtherKeys
  <2>2. Following'
    BY <2>1 DEF Following, Keys, Key, mapSeverity
  <2> QED  BY <1>1, <1>2, <2>2
<1>3. ASSUME UNCHANGED <<handler, redisVars, disturbed, spiked>>
      PROVE  Following' /\ SpikesComeFromDisorder'
  <2>1. ASSUME NEW k \in Keys \ disturbed' PROVE InTurn(k)'
    <3>1. InTurn(k) /\ bucket'[k] = bucket[k] /\ ema'[k] = ema[k] /\ handler' = handler
      BY <1>3 DEF Following, redisVars
    <3> QED  BY <3>1, OtherKeys
  <2>2. Following'
    BY <2>1 DEF Following, Keys, Key, mapSeverity
  <2> QED  BY <1>1, <1>3, <2>2
<1>4. ASSUME NEW c \in Calls, Begin(c) PROVE Following' /\ SpikesComeFromDisorder'
  <2>1. handler \in [Calls -> Handlers] /\ call[c] = "new" /\ handler[c].step = "idle"
    BY <1>4 DEF Begin, Typed, TypeOK, AtItems, AtItem
  <2>2. /\ UNCHANGED <<redisVars, disturbed, spiked>>
        /\ handler' = handler \/ handler' = [handler EXCEPT ![c].step = "count"]
    BY <1>4 DEF Begin
  <2>3. /\ \A d \in Calls \ {c} : handler'[d] = handler[d]
        /\ handler'[c] = handler[c] \/ handler'[c].step = "count"
    BY <2>1, <2>2 DEF Handlers
  <2> QED  BY <1>2, <2>1, <2>2, <2>3
<1>5. ASSUME NEW c \in Calls, Reply(c) \/ GiveUp(c)
      PROVE  Following' /\ SpikesComeFromDisorder'
  <2>1. UNCHANGED <<handler, redisVars, disturbed, spiked>>
    BY <1>5 DEF Reply, GiveUp
  <2> QED  BY <1>3, <2>1
<1>6. ASSUME NEW c \in Calls, Count(c) \/ CountFails(c)
      PROVE  Following' /\ SpikesComeFromDisorder'
  <2>1. spiked' = spiked /\ disturbed \subseteq disturbed'
    BY <1>6 DEF Count, CountFails
  <2> QED  BY <1>1, <1>6, <2>1, CountInTurn, CountFailsInTurn
<1>7. ASSUME NEW c \in Calls, ReadEma(c) PROVE Following' /\ SpikesComeFromDisorder'
  <2>1. spiked' = spiked /\ disturbed \subseteq disturbed'
    BY <1>7 DEF ReadEma
  <2> QED  BY <1>1, <1>7, <2>1, ReadInTurn
<1>8. ASSUME NEW g \in Gateways, Cool(g) PROVE Following' /\ SpikesComeFromDisorder'
  BY <1>3, <1>8 DEF Cool
<1>9. CASE UNCHANGED vars
  BY <1>3, <1>9 DEF vars, redisVars
<1> QED  BY <1>4, <1>5, <1>6, <1>7, <1>8, <1>9, DecideInTurn DEF Next

(* The spike stage of evaluate matches only for a key whose updates were   *)
(* disturbed: two handlers amid Touch, a lost read or write of the         *)
(* average, or a minute that goes back.  Whatever the rates, in one        *)
(* undisturbed row of updates it never does.                               *)
THEOREM SpikesNeedDisorder == Spec => []SpikesComeFromDisorder
<1>1. /\ Init => Following /\ SpikesComeFromDisorder
      /\ Typed /\ Following /\ SpikesComeFromDisorder /\ [Next]_vars
           => Following' /\ SpikesComeFromDisorder'
  BY FollowingInit, FollowingStep
<1> QED  BY <1>1, TypedHolds, PTL DEF Spec

=============================================================================
