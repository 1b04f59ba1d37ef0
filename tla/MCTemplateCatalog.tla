-------------------------- MODULE MCTemplateCatalog --------------------------
(***************************************************************************)
(* A small instance of TemplateCatalog for TLC: records are numbers, 1 and *)
(* 2 share a template and arrive out of order, 3 has an empty message.     *)
(***************************************************************************)
EXTENDS TemplateCatalog, TLC

CONSTANTS t, unknown, missing, acme, default

MCMined == [l \in Logs |-> {t}]
MCSeen == (1 :> 5) @@ (2 :> 3) @@ (3 :> 8)
MCMinerBatch == (1 :> <<1>>) @@ (2 :> <<2, 3>>)
(* Record 2 is followed for either tenant.                                 *)
MCTenant == [l \in Logs |-> IF l = 2 THEN Tenants ELSE {acme}]

(* A bound: how often, along a behaviour, a client may give an attempt up. *)
CONSTANT MaxGiveUps
FewGiveUps ==
    MaxGiveUps >=
      Cardinality({a \in Attempts : a[2] > 1 /\ worker[a].step # "idle"})
        + Cardinality({i \in DOMAIN outbox : outbox[i].template = Fallback})
        + Cardinality({h \in FeedHandlers : 1 < h[2] /\ h[2] <= published[h[1]].attempt})
        + Cardinality({c \in Candidates : published[c].outcome = "lost"})
==============================================================================
