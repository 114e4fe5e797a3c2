--------------------------- MODULE MCToolClients ---------------------------
(* Small instances of ToolClients for TLC. *)
EXTENDS ToolClients, TLC

CONSTANTS c1, c2

Crew(r1, r2) == (c1 :> r1) @@ (c2 :> r2)
Knows(i, a, h) == [indicator |-> i, account |-> a, host |-> h, isolated |-> FALSE]

\* Two callers that share a token and its lock, one host in each condition.
MCFalcon ==
    [role: {Crew("endpoint", "executor"), Crew("executor", "executor")},
     world: {Knows("bad", "ordinary", h) : h \in {"absent", "quiet", "alerting"}}]
\* Two lookups that share the cache.
MCCached ==
    [role: {Crew("threat_intel", "threat_intel")},
     world: {Knows(i, "ordinary", "quiet") : i \in {"clean", "unknown"}}]
MCOthers ==
    [role: {Crew("identity", "public_intel")},
     world: {Knows("bad", "absent", "quiet"), Knows("clean", "privileged", "quiet")}]
MCSituations == MCFalcon \cup MCCached \cup MCOthers
=============================================================================
