--------------------------- MODULE TemplateCatalog ---------------------------
(***************************************************************************)
(* From a log record to the searchable catalog: the miner's memory and the *)
(* index feed, joined by the gateway's bridge (runMinerToSamplerBridge in  *)
(* gateway/pkg/server/http.go), which publishes each result as a candidate *)
(* in the order the miner batcher sends them, and goes on when publishing  *)
(* fails.                                                                  *)
(***************************************************************************)
EXTENDS MinerMemory, IndexFeed

CONSTANTS
    Tenant        \* [Logs -> SUBSET Tenants]: the tenant label a record may have

ASSUME CatalogAssumption ==
    /\ Tenant \in [Logs -> SUBSET Tenants]
    /\ Ids = Templates \cup {Fallback, Missing}
    \* the results an instance follows into the index feed: the first ones
    /\ \E n \in 1 .. Cardinality(Logs) : Candidates = 1 .. n
    /\ \A l \in Logs : Cardinality({b \in MinerBatches :
                                      l \in ToSet(MinerBatch[b])}) = 1
    /\ \A b \in MinerBatches : IsInjective(MinerBatch[b])

catalogVars == <<minerVars, feedVars>>

Init == MinerInit /\ FeedInit

(* convertMinedRecordToCandidate                                           *)
ToCandidate(r, tenant) == [tenant |-> tenant, id |-> r.template,
                           first |-> r.first, last |-> r.last]

Next ==
    \/ MinerNext /\ UNCHANGED feedVars
    \/ FeedNext /\ UNCHANGED minerVars
    \/ \E c \in Candidates :
         /\ c <= Len(outbox)
         /\ \E tenant \in Tenant[outbox[c].log] :
              Publish(c, ToCandidate(outbox[c], tenant))
         /\ UNCHANGED minerVars

Spec == Init /\ [][Next]_catalogVars

-----------------------------------------------------------------------------
(* Properties                                                              *)

(* The values the variables take.                                          *)
TypeOK == MinerTypeOK /\ FeedTypeOK

(* The times at which a template may have been seen: those of the records  *)
(* Drain3 may put there; a fallback template is seen when it is made up.   *)
SeenTimes(t) == IF t \in Templates THEN {Seen[l] : l \in {m \in Logs : t \in Mined[m]}}
                                   ELSE {Now}

(* Whatever fails, races or is repeated on the way from the miner's memory *)
(* to Postgres, both times of a row are times of records of its template,  *)
(* never a default or another template's.                                  *)
RowsAreWitnessed ==
    \A k \in Tenants \X Ids : row[k] # NoRow =>
        {row[k].first, row[k].last} \subseteq SeenTimes(k[2])

(* A row's life only widens: handlers that finish late, out of order or    *)
(* twice neither take its last_seen back nor move its first_seen forward,  *)
(* and no row goes away.                                                   *)
RowsOnlyWiden ==
    [][\A k \in Tenants \X Ids : row[k] # NoRow =>
         /\ row'[k] # NoRow
         /\ row'[k].first <= row[k].first /\ row'[k].last >= row[k].last]_catalogVars

(* The two stores: what a search can find in Qdrant is in Postgres too,    *)
(* for the tenant the point names and at least as recent, however handlers *)
(* of one template overlap and whichever write fails.                      *)
PointHasRow ==
    \A i \in Ids : point[i] # NoRow =>
        LET k == <<point[i].tenant, i>>
        IN  row[k] # NoRow /\ row[k].last >= point[i].last

(* An accepted candidate is in both stores from then on, although a late   *)
(* handler may have put an older time or another tenant into its point.    *)
AcceptedIsCovered ==
    \A c \in Candidates : published[c].outcome = "accepted" =>
        /\ row[RowKey(c)] # NoRow /\ row[RowKey(c)].last >= candidate[c].last
        /\ point[candidate[c].id] # NoRow

(* The miner's EXISTS keeps first_seen_unix: unless two workers create a   *)
(* template at once, no record, retry or failed call moves it.             *)
FirstSeenStands ==
    [][\A t \in Templates :
         entry[t] # None /\ t \notin raced' =>
            entry'[t] # None /\ entry'[t].first = entry[t].first]_catalogVars
=============================================================================
