---------------------------- MODULE TriageGraph ----------------------------
(***************************************************************************)
(* One alert's thread in the LangGraph checkpointer: the run started by    *)
(* the worker (or by MCP triage_alert), the suspension at human_review,    *)
(* and the run resumed by apply_decision.  aegis/graph.py wires the nodes; *)
(* each node is one action, and a superstep ends when all of its nodes     *)
(* have finished.  `next` is what graph.get_state(cfg).next reports.       *)
(*                                                                         *)
(* Settings are re-read from the environment by every node, so an operator *)
(* can flip a flag between any two steps (Reconfigure).  A node acts first *)
(* and is checkpointed after: a run may end before a node did anything, or *)
(* after its tool calls or its containment and before their record.  Then  *)
(* the thread still shows the node as pending, and a later run runs it     *)
(* again.                                                                  *)
(***************************************************************************)
EXTENDS Gate

CONSTANTS
    InitialSettings,    \* the environment the process was started in
    Flippable,          \* flags the operator may change while the thread lives
    AlertShapes,        \* alerts a run can be started with
    ModelConfidences,   \* confidences the synthesis model can answer
    Plans,              \* plans the planner model can propose
    MaxActions,         \* planner.MAX_ACTIONS
    MaxToolCalls,       \* settings.investigation_max_tool_calls
    RecursionLimit,     \* LangGraph's recursion_limit: its default, for neither
                        \* build_graph nor a caller sets it
    MaxBatch,           \* bound: tool calls in one model response
    MaxRuns,            \* bound: graph.invoke({"alert": ...}) on this thread
    MaxFlips,           \* bound: settings changed by the operator
    MaxRaises,          \* bound: runs that end in a node without its record
    MaxResumes,         \* bound: decisions submitted
    UngatedSurface      \* TRUE: decisions may come from MCP, which does not
                        \* check that the alert is awaiting approval

ASSUME TriageGraphAssumption ==
    /\ InitialSettings \subseteq Settings
    /\ Flippable \subseteq Flags
    /\ AlertShapes \subseteq Alert
    /\ ModelConfidences \subseteq Confidences
    /\ Plans \subseteq Seq(Targets)
    /\ MaxActions \in Nat /\ MaxToolCalls \in Nat \ {0} /\ MaxBatch \in Nat
    /\ MaxRuns \in Nat /\ MaxFlips \in Nat /\ MaxRaises \in Nat
    /\ MaxResumes \in Nat /\ RecursionLimit \in Nat
    /\ UngatedSurface \in BOOLEAN

VARIABLES
    settings,     \* environment flags
    alert,        \* state["alert"]
    next,         \* snapshot.next: nodes of the current superstep still to run
    active,       \* an invoke() is executing on this thread
    resume,       \* Command(resume=...), visible to the first superstep only
    pending,      \* enrichments written by finished nodes of this superstep
    enrichments,  \* state["enrichments"]
    verdict, confidence,
    inv,          \* investigation: opened, tool calls its last message asks
                  \* for, tool_calls_used, past the timeout
    report,       \* investigation_report
    plan,         \* response_plan; <<>> is None or an empty plan
    decision,     \* human_decision
    \* History: what the surfaces saw and what this run did.  executed_actions
    \* is left out: no node reads it.
    tickets,      \* plans on the tickets handed out so far
    asked,        \* this run handed out a ticket
    seen,         \* plan on the ticket the last decision was taken from
    closed,       \* this run went through auto_close
    investigated, \* this run went through the investigator
    toolsRun,     \* tool calls made, recorded or not
    contained,    \* targets acted on, recorded or not
    count         \* uses of each bound, supersteps of the last invoke()

channels == <<alert, enrichments, verdict, confidence, inv, report, plan,
              decision>>
history == <<tickets, asked, seen, closed, investigated, toolsRun, contained>>
control == <<next, active, resume, pending>>
vars == <<settings, channels, control, history, count>>

Nodes == Agents \cup {"orchestrator", "synthesizer", "auto_close",
                      "investigator", "investigation_tools",
                      "investigation_report", "planner", "human_review",
                      "executor"}
Counts == [runs: Nat, flips: Nat, raises: Nat, resumes: Nat, supersteps: Nat]
Investigations == [open: BOOLEAN, calls: Nat, used: Nat, late: BOOLEAN]
ReportKinds == {"none", "failed", "not_performed", "not_summarised", "written"}

\* Counters saturate where their exact value stops mattering.
Saturate(n, top) == IF n > top THEN top ELSE n

Init ==
    /\ settings \in InitialSettings
    /\ alert \in AlertShapes
    /\ next = {} /\ active = FALSE /\ resume = NoDecision /\ pending = {}
    /\ enrichments = {} /\ verdict = "ambiguous" /\ confidence = 0
    /\ inv = [open |-> FALSE, calls |-> 0, used |-> 0, late |-> FALSE]
    /\ report = [kind |-> "none", exhausted |-> FALSE]
    /\ plan = <<>> /\ decision = NoDecision
    /\ tickets = {} /\ asked = FALSE /\ seen = <<>>
    /\ closed = FALSE /\ investigated = FALSE /\ toolsRun = 0 /\ contained = {}
    /\ count = [runs |-> 0, flips |-> 0, raises |-> 0, resumes |-> 0, supersteps |-> 0]

-----------------------------------------------------------------------------
(* The environment of a run.                                               *)

\* An operator edits the environment; get_settings() re-reads it.
Reconfigure(f) ==
    /\ count.flips < MaxFlips
    /\ settings' = [settings EXCEPT ![f] = ~@]
    /\ count' = [count EXCEPT !.flips = @ + 1]
    /\ UNCHANGED <<channels, control, history>>

\* graph.invoke({"alert": a}, cfg): START again, whatever was pending on the
\* thread is dropped, the channels of an earlier run stay.
Invoke(a) ==
    /\ ~active /\ count.runs < MaxRuns
    /\ alert' = a
    /\ next' = {"orchestrator"} /\ active' = TRUE
    /\ resume' = NoDecision /\ pending' = {}
    /\ asked' = FALSE /\ closed' = FALSE /\ investigated' = FALSE
    /\ count' = [count EXCEPT !.runs = @ + 1, !.supersteps = 0]
    /\ UNCHANGED <<settings, enrichments, verdict, confidence, inv, report, plan,
                   decision, contained, tickets, seen, toolsRun>>

\* decisions.apply_decision: refuses a thread with no state or nothing next,
\* then graph.invoke(Command(resume=...)).  The REST endpoint also requires
\* AWAITING_APPROVAL and Slack a message with buttons; both exist once a ticket
\* was handed out, and a re-run by MCP triage_alert takes neither back.
Resume(d, t) ==
    /\ ~active /\ count.runs > 0 /\ next # {}
    /\ tickets # {} \/ UngatedSurface
    /\ count.resumes < MaxResumes
    /\ active' = TRUE /\ resume' = d /\ seen' = t
    /\ count' = [count EXCEPT !.resumes = @ + 1, !.supersteps = 0]
    /\ UNCHANGED <<settings, channels, next, pending, tickets, asked, closed,
                   investigated, toolsRun, contained>>

\* A run ends in a node (an asset file that cannot be read, a parse error no
\* node catches, a checkpoint write that fails, the process dies): no channel
\* is written and `next` stays.
RunBreaks ==
    /\ active /\ count.raises < MaxRaises
    /\ active' = FALSE /\ resume' = NoDecision
    /\ count' = [count EXCEPT !.raises = @ + 1]
    /\ UNCHANGED <<settings, channels, next, pending>>

\* The node had not acted yet, or is one that does not act.
NodeRaises == RunBreaks /\ UNCHANGED history

\* The monotonic clock passes investigation_timeout_seconds.
Timeout ==
    /\ inv.open /\ ~inv.late
    /\ inv' = [inv EXCEPT !.late = TRUE]
    /\ UNCHANGED <<settings, alert, enrichments, verdict, confidence, report,
                   plan, decision, control, history, count>>

-----------------------------------------------------------------------------
(* The nodes.                                                              *)

\* LangGraph counts the supersteps of an invoke() and raises past its limit.
\* The count stops nothing here, so that a run that would meet it can be seen;
\* past the limit its value does not matter.
SuperstepEnds ==
    count' = [count EXCEPT !.supersteps = Saturate(@ + 1, RecursionLimit + 1)]

\* Node n is the whole superstep, m comes next; an empty m is END.
RunTo(n, m) ==
    /\ active /\ next = {n}
    /\ next' = m /\ active' = (m # {})
    /\ resume' = NoDecision
    /\ SuperstepEnds
    /\ UNCHANGED <<pending, settings>>

orchestrator_node ==
    /\ RunTo("orchestrator", Agents)
    /\ UNCHANGED <<channels, history>>

\* An enrichment node reports: nothing to look up, a failed lookup, or evidence.
enrichment_node(a, o) ==
    /\ active /\ a \in next
    /\ (o = "skipped") = (EntityOf[a] \notin alert.entities)
    /\ LET all == pending \cup {[agent |-> a, outcome |-> o]} IN
       IF next = {a}
       THEN /\ next' = {"synthesizer"} /\ resume' = NoDecision
            /\ enrichments' = enrichments \cup all /\ pending' = {}
            /\ SuperstepEnds
       ELSE /\ next' = next \ {a} /\ pending' = all
            /\ UNCHANGED <<enrichments, resume, count>>
    /\ UNCHANGED <<settings, alert, verdict, confidence, inv, report, plan,
                   decision, active, history>>

\* Only identity evidence can be privileged.
threat_intel_node ==
    \E o \in Outcomes \ {"privileged"} : enrichment_node("threat_intel", o)
identity_node == \E o \in Outcomes : enrichment_node("identity", o)
endpoint_node ==
    \E o \in Outcomes \ {"privileged"} : enrichment_node("endpoint", o)

\* synthesizer_node with its conditional edge; v and c are what the model
\* answered, or the fixed answer of the except branch.
Synthesize(v, c) ==
    /\ verdict' = v /\ confidence' = c
    /\ RunTo("synthesizer",
             {route_after_synthesis(settings, alert, enrichments, v, c)})
    /\ UNCHANGED <<alert, enrichments, inv, report, plan, decision, history>>

synthesizer_node ==
    \/ \E v \in Verdicts, c \in ModelConfidences :
          Synthesize(EnforcedVerdict(v, enrichments),
                     EnforcedConfidence(c, enrichments))
    \/ Synthesize("ambiguous", 0)

\* Mutant: the verdict is stored where the human's decision belongs.
auto_close_by_verdict ==
    /\ RunTo("auto_close", {})
    /\ decision' = verdict /\ closed' = TRUE
    /\ UNCHANGED <<alert, enrichments, verdict, confidence, inv, report, plan,
                   contained, tickets, asked, seen, investigated, toolsRun>>

auto_close_node ==
    /\ RunTo("auto_close", {})
    /\ decision' = NoDecision /\ closed' = TRUE
    /\ UNCHANGED <<alert, enrichments, verdict, confidence, inv, report, plan,
                   contained, tickets, asked, seen, investigated, toolsRun>>

\* Mutant: off by one.
budget_not_exceeded(i) == i.used <= MaxToolCalls /\ ~i.late

budget_remaining(i) == i.used < MaxToolCalls /\ ~i.late

\* investigator.should_continue
should_continue(i) ==
    IF i.calls = 0 \/ ~budget_remaining(i)
    THEN "investigation_report" ELSE "investigation_tools"

\* Mutant: the calls of a turn are not counted.
InvestigatorTurnUncounted(n) ==
    LET i == [inv EXCEPT !.open = TRUE, !.calls = n] IN
    /\ RunTo("investigator", {should_continue(i)})
    /\ inv' = i /\ investigated' = TRUE
    /\ UNCHANGED <<alert, enrichments, verdict, confidence, report, plan,
                   decision, contained, tickets, asked, seen, closed, toolsRun>>

\* investigator_node: the model asks for n tool calls.
InvestigatorTurn(n) ==
    LET i == [inv EXCEPT !.open = TRUE, !.calls = n,
                         !.used = Saturate(@ + n, MaxToolCalls)] IN
    /\ RunTo("investigator", {should_continue(i)})
    /\ inv' = i /\ investigated' = TRUE
    /\ UNCHANGED <<alert, enrichments, verdict, confidence, report, plan,
                   decision, contained, tickets, asked, seen, closed, toolsRun>>

\* Mutant: a turn that fails is tried again.
InvestigatorRetries ==
    /\ RunTo("investigator", {"investigator"})
    /\ investigated' = TRUE
    /\ UNCHANGED <<alert, enrichments, verdict, confidence, inv, report, plan, decision,
                   contained, tickets, asked, seen, closed, toolsRun>>

\* investigator_node, except branch: a report, and no message appended.
InvestigatorFails ==
    /\ RunTo("investigator", {should_continue(inv)})
    /\ investigated' = TRUE
    /\ report' = [kind |-> "failed", exhausted |-> FALSE]
    /\ UNCHANGED <<alert, enrichments, verdict, confidence, inv, plan, decision,
                   contained, tickets, asked, seen, closed, toolsRun>>

\* toolsRun after n more calls; past the bound of BudgetRespected it saturates.
ToolsAfter(n) == Saturate(toolsRun + n, MaxToolCalls * (1 + MaxRaises))

\* ToolNode: every call of the last message runs, and its result (an error
\* included) becomes the last message.
investigation_tools ==
    /\ RunTo("investigation_tools", {"investigator"})
    /\ toolsRun' = ToolsAfter(inv.calls)
    /\ inv' = [inv EXCEPT !.calls = 0]
    /\ UNCHANGED <<alert, enrichments, verdict, confidence, report, plan, decision,
                   tickets, asked, seen, closed, investigated, contained>>

\* ToolNode made n of the calls, and their results were never recorded: the
\* message that asks for them is still the last one.
ToolsUnrecorded(n) ==
    /\ RunBreaks /\ next = {"investigation_tools"}
    /\ n \in 1..inv.calls /\ toolsRun' = ToolsAfter(n)
    /\ UNCHANGED <<tickets, asked, seen, closed, investigated, contained>>

\* Mutants: only the clock counts as exhaustion; the report goes back to the gate.
report_by_clock(kind) ==
    /\ (kind = "not_performed") = ~inv.open
    /\ kind \in {"not_performed", "not_summarised", "written"}
    /\ RunTo("investigation_report", {"planner"})
    /\ report' = [kind |-> kind, exhausted |-> kind = "written" /\ inv.late]
    /\ UNCHANGED <<alert, enrichments, verdict, confidence, inv, plan, decision,
                   history>>

report_then_regate(kind) ==
    /\ (kind = "not_performed") = ~inv.open
    /\ kind \in {"not_performed", "not_summarised", "written"}
    /\ RunTo("investigation_report", {"synthesizer"})
    /\ report' = [kind |-> kind,
                  exhausted |-> kind = "written" /\ ~budget_remaining(inv)]
    /\ UNCHANGED <<alert, enrichments, verdict, confidence, inv, plan, decision,
                   history>>

investigation_report_node(kind) ==
    /\ (kind = "not_performed") = ~inv.open
    /\ kind \in {"not_performed", "not_summarised", "written"}
    /\ RunTo("investigation_report", {"planner"})
    /\ report' = [kind |-> kind,
                  exhausted |-> kind = "written" /\ ~budget_remaining(inv)]
    /\ UNCHANGED <<alert, enrichments, verdict, confidence, inv, plan, decision,
                   history>>

\* Mutant: the planner's edge skips the human.
PlanThenExecute(p) ==
    /\ RunTo("planner", {"executor"})
    /\ plan' = p
    /\ UNCHANGED <<alert, enrichments, verdict, confidence, inv, report,
                   decision, history>>

\* planner_node: disabled or failing leaves the channel, a false positive
\* clears it, and a long plan is trimmed.
PlanWritten(p) ==
    /\ RunTo("planner", {"human_review"})
    /\ plan' = p
    /\ UNCHANGED <<alert, enrichments, verdict, confidence, inv, report,
                   decision, history>>

planner_node ==
    IF ~settings["response_planner_enabled"] THEN PlanWritten(plan)
    ELSE IF verdict = "false_positive" THEN PlanWritten(<<>>)
    ELSE \/ PlanWritten(plan)
         \/ \E p \in Plans : PlanWritten(SubSeq(p, 1, Saturate(Len(p), MaxActions)))

\* human_review_node, first execution: the ticket goes out with the interrupt.
HumanReviewSuspends ==
    /\ active /\ next = {"human_review"} /\ resume = NoDecision
    /\ active' = FALSE /\ asked' = TRUE
    /\ tickets' = tickets \cup {plan}
    /\ SuperstepEnds
    /\ UNCHANGED <<settings, channels, next, resume, pending, seen, closed,
                   investigated, toolsRun, contained>>

\* human_review_node, re-executed with the decision, then its conditional edge.
HumanReviewResumes ==
    /\ resume # NoDecision
    /\ RunTo("human_review", route_after_decision(settings, resume))
    /\ decision' = resume
    /\ UNCHANGED <<alert, enrichments, verdict, confidence, inv, report, plan,
                   history>>

\* Mutant: the plan's targets are not checked against the alert.
PermittedByPlan(p, a) == {p[i] : i \in DOMAIN p}

\* The targets of plan p that executor_node performs on alert a.
Permitted(p, a) == {p[i] : i \in DOMAIN p} \cap allowed_targets(a)

\* executor_node checks again that execution is enabled and approved.
Actionable ==
    IF settings["response_actions_enabled"] /\ decision_approves_response(decision)
    THEN Permitted(plan, alert) ELSE {}

\* executor_node: every actionable target is tried, `done` are those its backend
\* acted on (one that raised may have acted, and does not stop the others).
executor_node(done) ==
    /\ RunTo("executor", {})
    /\ contained' = contained \cup done
    /\ UNCHANGED <<channels, tickets, asked, seen, closed, investigated, toolsRun>>

\* The executor acted on `done`, and no checkpoint says so: it is still pending,
\* with the same decision, and runs again on the next resume, whatever that says.
ContainmentUnrecorded(done) ==
    /\ RunBreaks /\ next = {"executor"} /\ done # {}
    /\ contained' = contained \cup done
    /\ UNCHANGED <<tickets, asked, seen, closed, investigated, toolsRun>>

-----------------------------------------------------------------------------
InvestigatorNode ==
    (\E n \in 0..MaxBatch : InvestigatorTurn(n)) \/ InvestigatorFails

ReportNode == \E k \in ReportKinds : investigation_report_node(k)

ExecutorNode == \E done \in SUBSET Actionable : executor_node(done)

\* A run ends after effects that no checkpoint records.
EffectUnrecorded ==
    \/ \E n \in 1..inv.calls : ToolsUnrecorded(n)
    \/ \E done \in SUBSET Actionable : ContainmentUnrecorded(done)

Node ==
    \/ orchestrator_node
    \/ threat_intel_node
    \/ identity_node
    \/ endpoint_node
    \/ synthesizer_node
    \/ auto_close_node
    \/ InvestigatorNode
    \/ investigation_tools
    \/ ReportNode
    \/ planner_node
    \/ HumanReviewSuspends
    \/ HumanReviewResumes
    \/ ExecutorNode

\* The analyst reads one of the tickets handed out, or none if there is none.
Surfaces ==
    \E d \in Decisions : \E t \in (IF tickets = {} THEN {<<>>} ELSE tickets) :
        Resume(d, t)

Next ==
    \/ \E f \in Flippable : Reconfigure(f)
    \/ \E a \in AlertShapes : Invoke(a)
    \/ Surfaces
    \/ NodeRaises
    \/ EffectUnrecorded
    \/ Timeout
    \/ Node

Spec == Init /\ [][Next]_vars

\* invoke() is a loop in the calling thread: it keeps executing nodes until
\* the graph suspends, ends or raises.  Nobody is bound to decide, to retry,
\* to reconfigure or to be late.
FairSpec == Spec /\ WF_vars(Node)

-----------------------------------------------------------------------------
(* Properties.                                                             *)

TypeOK ==
    /\ settings \in Settings
    /\ alert \in Alert
    /\ next \in SUBSET Nodes
    /\ active \in BOOLEAN
    /\ resume \in Decisions \cup {NoDecision}
    /\ pending \in SUBSET EnrichmentData
    /\ enrichments \in SUBSET EnrichmentData
    /\ verdict \in Verdicts
    /\ confidence \in Confidences
    /\ inv \in Investigations
    /\ report \in [kind: ReportKinds, exhausted: BOOLEAN]
    /\ plan \in Seq(Targets)
    /\ decision \in Decisions \cup {NoDecision}
    /\ contained \in SUBSET Targets
    /\ tickets \in SUBSET Seq(Targets)
    /\ seen \in Seq(Targets)
    /\ asked \in BOOLEAN /\ closed \in BOOLEAN /\ investigated \in BOOLEAN
    /\ toolsRun \in Nat
    /\ count \in Counts

\* An alert that closed without a human went through the whole fan-in: each of
\* the three nodes reported, none with an error or a privileged principal, in
\* this run or in an earlier one on the same thread, and the alert is neither
\* critical nor on a crown jewel (gate_decision, and the edges that make the
\* synthesizer wait for all three).
AutoCloseJustified ==
    closed => /\ \A a \in Agents : \E e \in enrichments : e.agent = a
              /\ ~HasError(enrichments) /\ ~HasPrivileged(enrichments)
              /\ verdict = "false_positive"
              /\ confidence >= AUTO_CLOSE_CONFIDENCE
              /\ alert.severity < CRITICAL
              /\ "hostname" \in alert.entities => alert.criticality < CROWN_JEWEL

\* route_after_synthesis decides before the agent runs, "so nothing the
\* investigation finds can cause an alert to close itself": a run that
\* investigated or that asked a human never closes the alert.
InvestigatedNeverCloses == closed => ~investigated /\ ~asked

\* Containment acted only after this run put a ticket in front of a human, and
\* only while the recorded decision holds an approving word and no rejecting
\* one (decision_approves_response: "Rejection wins on ambiguity").
ContainmentApproved ==
    [][contained' # contained =>
          /\ asked /\ decision # NoDecision
          /\ OwnWords[decision] \cup ByWords[decision] = {"approving"}]_vars

\* A containment step ran only on an entity the alert names, and only if it
\* was on the ticket the approver was looking at (schemas/response.py: the
\* executor acts "only on actions a human approved").
ExecutedWasOnTicket ==
    [][\A t \in contained' \ contained :
          t \in alert.entities /\ \E i \in DOMAIN seen : seen[i] = t]_vars

\* Calls are counted before they execute: over every run of the thread the
\* investigation executes fewer of them than its budget.  A run that ends between
\* ToolNode's calls and their record lets a later one repeat those of the last
\* message, once more fewer than the budget.
BudgetRespected == toolsRun <= (MaxToolCalls - 1) * (1 + count.raises)

\* When this run's loop stopped with calls the model still wanted, a written
\* report says the budget cut it short.
CutOffIsFlagged ==
    investigated /\ "planner" \in next /\ report.kind = "written" /\ inv.calls > 0
        => report.exhausted

\* No invoke() needs more supersteps than LangGraph allows, however the model
\* spreads its tool calls over turns, and also when a run inherits the channels
\* of one that raised in mid-investigation.  A run takes at most
\* 2 * MaxToolCalls + 5: with the default of 10 calls that is the default limit
\* of 25, with nothing to spare.
WithinRecursionLimit == count.supersteps <= RecursionLimit

\* The thread seen as the promise of HumanInTheLoop.
Phase == IF next = {} THEN IF count.runs = 0 THEN "triage" ELSE "ended"
         ELSE IF next = {"executor"} THEN "approved"
         ELSE IF next = {"human_review"} /\ asked THEN "waiting"
         ELSE "triage"
Promise == INSTANCE HumanInTheLoop WITH phase <- Phase, failures <- count.raises

\* The graph implements that promise: an alert ends closed by the gate or
\* decided by the human who was asked, and an approval contains once, and once
\* more for each run that ended before it recorded what it did.
ImplementsPromise == Promise!Spec

\* Every invoke() ends: the graph suspends, finishes or raises, however often
\* the model asks for tools.
RunEnds == active ~> ~active
=============================================================================
