-------------------------- MODULE MCGatewayPipeline --------------------------
(***************************************************************************)
(* Small instances of GatewayPipeline for TLC.  Records are numbers; push  *)
(* arrives on the Loki endpoint, the other requests on the JSON one.       *)
(***************************************************************************)
EXTENDS GatewayPipeline

CONSTANTS json, push, single, other

MCRecordsOf ==
    Restrict((json :> <<1, 2>>) @@ (push :> <<3, 4>>)
               @@ (single :> <<5>>) @@ (other :> <<6>>), Requests)
==============================================================================
