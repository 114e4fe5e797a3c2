----------------------------- MODULE MCPipeline -----------------------------
(* Small instances of Pipeline for TLC. *)
EXTENDS Pipeline, TLC

CONSTANTS a1, a2, a3, f1, f2, d1, d2

MCDistinct == (a1 :> f1) @@ (a2 :> f2)
MCSame == (a1 :> f1) @@ (a2 :> f1)
MCStorm == (a1 :> f1) @@ (a2 :> f1) @@ (a3 :> f1)
MCOne == a1 :> f1

MCApi == [d \in Deciders |-> "api"]
MCSlack == [d \in Deciders |-> "slack"]
MCMcp == [d \in Deciders |-> "mcp"]

\* Alerts of one situation are alike, and so are analysts on one surface.
MCAlike == Permutations(Alerts) \cup Permutations(Deciders)
=============================================================================
