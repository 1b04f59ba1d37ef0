---------------------------- MODULE LogDelivery ----------------------------
(***************************************************************************)
(* What the Loki sink promises the gateway about each log entry, without   *)
(* buffers, locks, goroutines, chunks or retries.  An entry is taken or    *)
(* shed when it is offered, and shed only if it may be and what the sink   *)
(* holds at that moment really is at the limit; an entry taken is held     *)
(* until it is confirmed, which it can be only once Loki has it, or lost.  *)
(***************************************************************************)
EXTENDS Integers, FiniteSets

CONSTANTS
    Entries,      \* the log entries
    Size,         \* [Entries -> Nat]: what an entry weighs
    Sheddable,    \* the entries that may be shed under pressure
    MaxEntries,   \* the number and
    MaxBytes      \* the weight of held entries that count as pressure

VARIABLES
    fate,         \* [Entries -> Fates]
    stored        \* the entries Loki has

Fates == {"new", "held", "shed", "sent", "lost"}

With(f) == {e \in Entries : fate[e] = f}
Weight(S) == Cardinality(UNION {{e} \X (1..Size[e]) : e \in S})
UnderPressure == \/ Cardinality(With("held")) >= MaxEntries
                 \/ Weight(With("held")) >= MaxBytes

Decide(S, f) == fate' = [e \in Entries |-> IF e \in S THEN f ELSE fate[e]]

Init ==
    /\ fate = [e \in Entries |-> "new"]
    /\ stored = {}

Take(e) ==
    /\ fate[e] = "new"
    /\ ~(UnderPressure /\ e \in Sheddable)
    /\ Decide({e}, "held")
    /\ UNCHANGED stored

Shed(e) ==
    /\ fate[e] = "new"
    /\ UnderPressure /\ e \in Sheddable
    /\ Decide({e}, "shed")
    /\ UNCHANGED stored

Store(S) ==
    /\ S \subseteq With("held")
    /\ stored' = stored \cup S
    /\ UNCHANGED fate

Confirm(S) ==
    /\ S \subseteq With("held") \cap stored
    /\ Decide(S, "sent")
    /\ UNCHANGED stored

Lose(S) ==
    /\ S \subseteq With("held")
    /\ Decide(S, "lost")
    /\ UNCHANGED stored

Next ==
    \/ \E e \in Entries : Take(e) \/ Shed(e)
    \/ \E S \in SUBSET Entries : Store(S) \/ Confirm(S) \/ Lose(S)

Spec == Init /\ [][Next]_<<fate, stored>>
============================================================================
