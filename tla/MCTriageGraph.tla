--------------------------- MODULE MCTriageGraph ---------------------------
(* Small instances of TriageGraph for TLC. *)
EXTENDS TriageGraph

Shape(sev, ents, crit) == [severity |-> sev, entities |-> ents, criticality |-> crit]

On(flags) == [f \in Flags |-> f \in flags]
MCInvestigating == {On({"investigator_enabled"})}
MCResponding == {On({"response_planner_enabled", "response_actions_enabled"}),
                 On({"response_planner_enabled"})}
MCNoPlans == {}

\* A host alert on an ordinary and on a crown jewel asset.
MCHostAlerts == {Shape(2, {"username", "hostname"}, 1),
                 Shape(2, {"username", "hostname"}, 4)}
\* A critical alert, and one above the configured severity.
MCSevereAlerts == {Shape(4, {"source_ip", "username"}, 2),
                   Shape(3, {"source_ip", "username"}, 2)}
MCAlerts == MCHostAlerts \cup MCSevereAlerts
\* An alert with a host and a user, and one with a user.
MCOneAlert == {Shape(2, {"username", "hostname"}, 1)}
MCUserAlert == {Shape(2, {"username"}, 1)}

\* The last one is unrecognised, by an actor whose name holds an approving word.
MCDecisions == {"confirm", "reject", "confirm_or_reject", "note_by_approver"}
MCApprove == {"confirm"}
MCOwnWords ==
    [d \in Decisions |-> CASE d = "confirm" -> {"approving"}
                          [] d = "reject" -> {"rejecting"}
                          [] d = "confirm_or_reject" -> {"approving", "rejecting"}
                          [] OTHER -> {}]
MCByWords ==
    [d \in Decisions |-> IF d = "note_by_approver" THEN {"approving"} ELSE {}]

MCPlans == {<<"hostname">>, <<"discovered", "username">>,
            <<"hostname", "username", "discovered">>}
MCPlanEach == {<<"hostname">>, <<"username">>}
=============================================================================
