-------------------------------- MODULE Gate --------------------------------
(***************************************************************************)
(* The pure decision functions of the triage graph: who may close an      *)
(* alert without a human, and what an analyst's decision authorises.      *)
(* Sources: aegis/graph.py, aegis/nodes/synthesizer.py,                    *)
(* aegis/nodes/executor.py, aegis/schemas/state.py.                        *)
(*                                                                         *)
(* Data abstraction.  A confidence is a percentage; a severity and a       *)
(* criticality are their ranks in SEVERITY_ORDER and CRITICALITY_ORDER;    *)
(* a decision is a value whose text contains the word classes OwnWords,    *)
(* and whose "(by <actor> via <source>)" suffix contains ByWords.          *)
(***************************************************************************)
EXTENDS Integers, Sequences, FiniteSets

CONSTANTS
    MaxSeverity,        \* settings.max_auto_close_severity, as a rank
    Decisions,          \* decisions an analyst can submit
    NoDecision,         \* None
    OwnWords, ByWords   \* functions on Decisions, see above

Words == {"approving", "rejecting"}

ASSUME GateAssumption ==
    /\ MaxSeverity \in 0..4
    /\ NoDecision \notin Decisions
    /\ OwnWords \in [Decisions -> SUBSET Words]
    /\ ByWords \in [Decisions -> SUBSET Words]

-----------------------------------------------------------------------------
Flags == {"kill_switch", "shadow_mode", "investigator_enabled",
          "response_planner_enabled", "response_actions_enabled"}
Settings == [Flags -> BOOLEAN]

Severities == 0..4
CRITICAL == 4
Criticalities == 0..4
CROWN_JEWEL == 4
Confidences == 0..100

\* The entity fields of a SIEMAlert, each standing for the value it holds; a
\* containment step names one of them or something else ("discovered").
Entities == {"source_ip", "destination_ip", "username", "hostname", "file_hash"}
Targets == Entities \cup {"discovered"}

\* The three enrichment nodes and the entity each one looks up.
Agents == {"threat_intel", "identity", "endpoint"}
EntityOf == [a \in Agents |-> CASE a = "threat_intel" -> "source_ip"
                              [] a = "identity" -> "username"
                              [] a = "endpoint" -> "hostname"]

\* The alert as the graph reads it: `entities` are the entity fields that are
\* set, `criticality` is lookup_asset(hostname).
Alert == [severity: Severities, entities: SUBSET Entities,
          criticality: Criticalities]

Verdicts == {"false_positive", "true_positive", "ambiguous"}

\* What an enrichment node can put in its channel: the entity it looks up is
\* missing ("skipped"), the lookup failed ("error"), or evidence came back,
\* of a privileged principal or not.
Outcomes == {"skipped", "error", "found", "privileged"}
EnrichmentData == [agent: Agents, outcome: Outcomes]

HasError(es) == \E e \in es : e.outcome = "error"
HasPrivileged(es) == \E e \in es : e.outcome = "privileged"

\* AUTO_CLOSE_CONFIDENCE and the cap of _enforce_safety_rules, in percent.
AUTO_CLOSE_CONFIDENCE == 95
FAILED_CAP == 70

-----------------------------------------------------------------------------
\* synthesizer._enforce_safety_rules: what is left of the model's answer.
EnforcedVerdict(v, es) ==
    IF es = {} \/ (HasError(es) /\ v = "false_positive") THEN "ambiguous" ELSE v

EnforcedConfidence(c, es) ==
    IF es = {} THEN 0
    ELSE IF HasError(es) /\ c > FAILED_CAP THEN FAILED_CAP ELSE c

\* Mutant: the privileged-principal guard is dropped.
gate_decision_unprivileged(s, alert, es, verdict, confidence) ==
    IF /\ ~s["kill_switch"] /\ ~s["shadow_mode"] /\ es # {}
       /\ verdict = "false_positive" /\ confidence >= AUTO_CLOSE_CONFIDENCE
       /\ ~HasError(es)
       /\ alert.severity # CRITICAL /\ alert.severity <= MaxSeverity
       /\ "hostname" \in alert.entities => alert.criticality < CROWN_JEWEL
    THEN "auto_close" ELSE "human_review"

\* graph.gate_decision: every early return to "human_review" is a conjunct.
gate_decision(s, alert, es, verdict, confidence) ==
    IF /\ ~s["kill_switch"]
       /\ ~s["shadow_mode"]
       /\ es # {}
       /\ verdict = "false_positive"
       /\ confidence >= AUTO_CLOSE_CONFIDENCE
       /\ ~HasError(es)
       /\ alert.severity # CRITICAL
       /\ alert.severity <= MaxSeverity
       /\ ~HasPrivileged(es)
       /\ "hostname" \in alert.entities => alert.criticality < CROWN_JEWEL
    THEN "auto_close" ELSE "human_review"

route_after_synthesis(s, alert, es, verdict, confidence) ==
    IF gate_decision(s, alert, es, verdict, confidence) = "auto_close"
    THEN "auto_close"
    ELSE IF s["investigator_enabled"] THEN "investigator" ELSE "planner"

-----------------------------------------------------------------------------
\* Mutant: an approving word is enough.
approves_without_rejection_check(d) ==
    d # NoDecision /\ "approving" \in OwnWords[d] \cup ByWords[d]

\* executor.decision_approves_response, applied to the attributed text that
\* apply_decision stores.
decision_approves_response(d) ==
    /\ d # NoDecision
    /\ "rejecting" \notin OwnWords[d] \cup ByWords[d]
    /\ "approving" \in OwnWords[d] \cup ByWords[d]

\* executor.allowed_targets
allowed_targets(alert) == alert.entities

\* graph.route_after_decision: the executor node, or END (no next node).
route_after_decision(s, d) ==
    IF s["response_actions_enabled"] /\ decision_approves_response(d)
    THEN {"executor"} ELSE {}
=============================================================================
