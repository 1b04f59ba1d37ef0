------------------------------ MODULE IndexFeed ------------------------------
(***************************************************************************)
(* The index feed: PublishCandidate of the gateway's client                *)
(* (gateway/pkg/indexfeed/client.go) and the service's handler             *)
(* (indexfeed/pkg/service), which writes a candidate to two stores one     *)
(* after the other, the row of its tenant and template in Postgres and the *)
(* point of its template in Qdrant.  The client repeats an attempt that    *)
(* fails, and the handler of an attempt given up on may go on, even after  *)
(* later candidates.                                                       *)
(*                                                                         *)
(* A candidate's text, regex and version are functions of its template, so *)
(* the branch of the upsert that compares versions never holds, and a      *)
(* candidate the gateway sends is never invalid.  It carries no stats.     *)
(***************************************************************************)
EXTENDS Integers, FiniteSets

CONSTANTS
    Candidates,      \* the numbers of the candidates a gateway publishes
    Ids,             \* the template ids
    Tenants,
    FeedAttempts,    \* MaxRetries + 1
    NoRow

ASSUME FeedAssumption ==
    /\ Candidates \subseteq Nat /\ FeedAttempts \in Nat \ {0}
    /\ NoRow \notin [first : Nat, last : Nat] \cup [tenant : Tenants, last : Nat]
    /\ NoRow \notin [tenant : Tenants, id : Ids, first : Nat, last : Nat]

VARIABLES
    published,    \* [Candidates -> PublishState]: the client
    candidate,    \* [Candidates -> Contents]: what it publishes
    publisher,    \* [Candidates \X 1 .. FeedAttempts -> handler's step]
    row,          \* Postgres: [Tenants \X Ids -> [first, last] or NoRow]
    point         \* Qdrant: [Ids -> [tenant, last] or NoRow]

feedVars == <<published, candidate, publisher, row, point>>

(* A client has made so many attempts, or is done: the candidate was       *)
(* accepted, rejected, or given up after the last attempt.                 *)
Outcomes == {"accepted", "rejected", "lost"}
PublishState == [attempt : 0 .. FeedAttempts, outcome : Outcomes \cup {"none"}]
Contents == [tenant : Tenants, id : Ids, first : Nat, last : Nat]
HandlerSteps == {"idle", "row", "point", "accepted", "rejected"}

FeedInit ==
    /\ published = [c \in Candidates |-> [attempt |-> 0, outcome |-> "none"]]
    /\ candidate = [c \in Candidates |-> NoRow]
    /\ publisher = [h \in Candidates \X (1 .. FeedAttempts) |-> "idle"]
    /\ row = [k \in Tenants \X Ids |-> NoRow]
    /\ point = [i \in Ids |-> NoRow]

Waiting(c) == published[c].attempt > 0 /\ published[c].outcome = "none"
Latest(c) == <<c, published[c].attempt>>
RowKey(c) == <<candidate[c].tenant, candidate[c].id>>

(* What a handler ends with; nobody reads it once it was given up on.      *)
End(h, outcome) ==
    IF Waiting(h[1]) /\ h = Latest(h[1]) THEN outcome ELSE "idle"

Least(m, n) == IF m <= n THEN m ELSE n
Greatest(m, n) == IF m >= n THEN m ELSE n

-----------------------------------------------------------------------------
(* The client                                                              *)

(* PublishCandidate, with contents x; the bridge publishes one at a time.  *)
Publish(c, x) ==
    /\ published[c].attempt = 0
    /\ \A d \in Candidates : d < c => published[d].outcome # "none"
    /\ candidate' = [candidate EXCEPT ![c] = x]
    /\ published' = [published EXCEPT ![c].attempt = 1]
    /\ publisher' = [publisher EXCEPT ![<<c, 1>>] = "row"]
    /\ UNCHANGED <<row, point>>

(* The ack of the attempt the client waits for: a rejection is final.      *)
Acked(c) ==
    /\ Waiting(c) /\ publisher[Latest(c)] \in {"accepted", "rejected"}
    /\ published' = [published EXCEPT ![c].outcome = publisher[Latest(c)]]
    /\ UNCHANGED <<candidate, publisher, row, point>>

(* A faulty form: one attempt more than there are.                         *)
AgainOnceMore(c) ==
    /\ Waiting(c)
    /\ published' = [published EXCEPT ![c].attempt = @ + 1]
    /\ publisher' = [publisher EXCEPT ![<<c, published[c].attempt + 1>>] = "row"]
    /\ UNCHANGED <<candidate, row, point>>
(* The attempt fails or its deadline passes, wherever the handler is.      *)
Again(c) ==
    /\ Waiting(c)
    /\ IF published[c].attempt < FeedAttempts
         THEN /\ published' = [published EXCEPT ![c].attempt = @ + 1]
              /\ publisher' = [publisher EXCEPT
                                 ![<<c, published[c].attempt + 1>>] = "row"]
         ELSE /\ published' = [published EXCEPT ![c].outcome = "lost"]
              /\ UNCHANGED publisher
    /\ UNCHANGED <<candidate, row, point>>

-----------------------------------------------------------------------------
(* The handler                                                             *)

(* A faulty form: the row takes the candidate's times as they are.         *)
MergeLatest(old, x) ==
    IF old = NoRow \/ old.last < x.last
      THEN [first |-> x.first, last |-> x.last]
      ELSE old
(* UpsertTemplateSQL: a candidate that is not newer leaves the row alone,  *)
(* its first_seen included.                                                *)
Merge(old, x) ==
    IF old = NoRow THEN [first |-> x.first, last |-> x.last]
    ELSE IF old.last < x.last
      THEN [first |-> Least(old.first, x.first),
            last |-> Greatest(old.last, x.last)]
    ELSE old

(* A faulty form: the handler goes on to the point after a failed row.     *)
UpsertRowAnyway(h) ==
    LET x == candidate[h[1]]
        k == RowKey(h[1])
    IN  /\ publisher[h] = "row"
        /\ \/ row' = [row EXCEPT ![k] = Merge(@, x)]
           \/ UNCHANGED row
        /\ publisher' = [publisher EXCEPT ![h] = "point"]
        /\ UNCHANGED <<published, candidate, point>>
(* UpsertTemplate; on an error, with or without its effect, the candidate  *)
(* is rejected.                                                            *)
UpsertRow(h) ==
    LET x == candidate[h[1]]
        k == RowKey(h[1])
    IN  /\ publisher[h] = "row"
        /\ \/ /\ row' = [row EXCEPT ![k] = Merge(@, x)]
              /\ \E s \in {"point", End(h, "rejected")} :
                   publisher' = [publisher EXCEPT ![h] = s]
           \/ /\ publisher' = [publisher EXCEPT ![h] = End(h, "rejected")]
              /\ UNCHANGED row
        /\ UNCHANGED <<published, candidate, point>>

(* The point is written whatever it holds: its id is the template's alone, *)
(* the tenant is part of what is overwritten.                              *)
UpsertPoint(h) ==
    LET x == candidate[h[1]] IN
    /\ publisher[h] = "point"
    /\ \/ /\ point' = [point EXCEPT ![x.id] = [tenant |-> x.tenant, last |-> x.last]]
          /\ \E s \in {End(h, "accepted"), End(h, "rejected")} :
               publisher' = [publisher EXCEPT ![h] = s]
       \/ /\ publisher' = [publisher EXCEPT ![h] = End(h, "rejected")]
          /\ UNCHANGED point
    /\ UNCHANGED <<published, candidate, row>>

-----------------------------------------------------------------------------
FeedHandlers == Candidates \X (1 .. FeedAttempts)

(* The steps of a client that waits and of the handlers.                   *)
FeedNext ==
    \/ \E c \in Candidates : Acked(c) \/ Again(c)
    \/ \E h \in FeedHandlers : UpsertRow(h) \/ UpsertPoint(h)

(* The values the variables take.                                          *)
FeedTypeOK ==
    /\ published \in [Candidates -> PublishState]
    /\ candidate \in [Candidates -> Contents \cup {NoRow}]
    /\ publisher \in [FeedHandlers -> HandlerSteps]
    /\ row \in [Tenants \X Ids -> [first : Nat, last : Nat] \cup {NoRow}]
    /\ point \in [Ids -> [tenant : Tenants, last : Nat] \cup {NoRow}]
=============================================================================
