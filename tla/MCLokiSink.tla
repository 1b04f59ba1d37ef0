----------------------------- MODULE MCLokiSink -----------------------------
(***************************************************************************)
(* Small instances of LokiSink for TLC.  Entries are numbers, their key,   *)
(* severity, size and labels are given by the tables below.                *)
(***************************************************************************)
EXTENDS LokiSink

CONSTANTS a, b, x, y

(* Two streams, "a" of debug (droppable) and "b" of error entries.         *)
MCKeys == Restrict((1 :> a) @@ (2 :> b) @@ (3 :> a) @@ (4 :> a), Entries)
MCSeverity == Restrict((1 :> "debug") @@ (2 :> "error") @@ (3 :> "debug") @@ (4 :> "debug"), Entries)
MCSize == Restrict((1 :> 3) @@ (2 :> 2) @@ (3 :> 1) @@ (4 :> 1), Entries)
MCLabels == Restrict((1 :> x) @@ (2 :> x) @@ (3 :> x) @@ (4 :> y), Entries)
MCKeyLabels == (a :> x) @@ (b :> y)

(* Enqueue gets one entry at a time from the gateway's bridge; a push      *)
(* request brings several.                                                 *)
Singles == {<<e>> : e \in Entries}
Requests == {<<1, 3>>, <<2, 4>>}
============================================================================
