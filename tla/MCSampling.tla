----------------------------- MODULE MCSampling -----------------------------
(***************************************************************************)
(* Small instances of Sampling for TLC.  Records and calls are numbers;    *)
(* the first gateway makes calls 1 and 3, the second one call 2.           *)
(***************************************************************************)
EXTENDS Sampling, TLC

CONSTANTS g1, g2, s

MCClient == (1 :> g1) @@ (2 :> g2) @@ (3 :> g1)
MCBatch == (1 :> <<1, 2>>) @@ (2 :> <<3>>) @@ (3 :> <<4>>)
MCStream == [r \in Records |-> s]
(* Record 3 belongs to the minute before the others'.                      *)
MCMinute == [r \in Records |-> IF r = 3 THEN 1 ELSE 2]
MCLevel == [r \in Records |-> IF r = 4 THEN "error" ELSE "info"]
MCSchema == [r \in Records |-> "json"]
MCNamespace == [r \in Records |-> IF r = 2 THEN "prod" ELSE "staging"]
MCSteadyK == [v \in Severities |-> 4]
=============================================================================
