------------------------- MODULE TriageGraph_proofs -------------------------
(***************************************************************************)
(* Theorems about TriageGraph, for every alert, plan, decision, bound and  *)
(* setting of the environment.                                             *)
(***************************************************************************)
EXTENDS TriageGraph, SequenceTheorems, TLAPS

-----------------------------------------------------------------------------
(* Helpers of the model.                                                   *)

\* A counter that saturates is a natural number, and never more than the sum.
LEMMA SaturateNat ==
    ASSUME NEW n \in Nat, NEW top \in Nat
    PROVE  /\ Saturate(n, top) \in Nat
           /\ Saturate(n, top) <= n /\ Saturate(n, top) <= top
BY DEF Saturate

\* A trimmed plan is a plan (planner_node keeps a prefix).
LEMMA TrimmedPlan ==
    ASSUME NEW p \in Plans
    PROVE  SubSeq(p, 1, Saturate(Len(p), MaxActions)) \in Seq(Targets)
<1>1. p \in Seq(Targets) /\ Len(p) \in Nat /\ MaxActions \in Nat
  BY TriageGraphAssumption, LenProperties
<1>2. Saturate(Len(p), MaxActions) \in Nat /\ Saturate(Len(p), MaxActions) <= Len(p)
  BY <1>1, SaturateNat
<1> QED
  BY <1>1, <1>2, SubSeqProperties

\* The three enrichment nodes are one step of some agent.
LEMMA EnrichmentStep ==
    ASSUME threat_intel_node \/ identity_node \/ endpoint_node
    PROVE  \E a \in Agents, o \in Outcomes : enrichment_node(a, o)
BY DEF threat_intel_node, identity_node, endpoint_node, Agents

\* What _enforce_safety_rules leaves is a verdict and a confidence.
LEMMA EnforcedAnswer ==
    ASSUME NEW v \in Verdicts, NEW c \in Confidences, NEW es
    PROVE  EnforcedVerdict(v, es) \in Verdicts /\ EnforcedConfidence(c, es) \in Confidences
BY DEF EnforcedVerdict, EnforcedConfidence, Verdicts, Confidences, FAILED_CAP

-----------------------------------------------------------------------------
(* Type correctness.                                                       *)

LEMMA InitTypeOK == Init => TypeOK
<1> SUFFICES ASSUME Init PROVE TypeOK
  OBVIOUS
<1>1. settings \in Settings /\ alert \in Alert
  BY TriageGraphAssumption DEF Init
<1>2. inv \in Investigations /\ count \in Counts
  BY DEF Init, Investigations, Counts
<1>3. report \in [kind: ReportKinds, exhausted: BOOLEAN]
  BY DEF Init, ReportKinds
<1>4. verdict \in Verdicts /\ confidence \in Confidences
  BY DEF Init, Verdicts, Confidences
<1>5. plan \in Seq(Targets) /\ seen \in Seq(Targets)
  BY EmptySeq DEF Init
<1> QED
  BY <1>1, <1>2, <1>3, <1>4, <1>5 DEF Init, TypeOK

USE DEF channels, history, control

\* A use of one of the bounds keeps the counters' type.
LEMMA CountsBump ==
    ASSUME NEW c \in Counts
    PROVE  /\ [c EXCEPT !.runs = @ + 1, !.supersteps = 0] \in Counts
           /\ [c EXCEPT !.flips = @ + 1] \in Counts
           /\ [c EXCEPT !.raises = @ + 1] \in Counts
           /\ [c EXCEPT !.resumes = @ + 1, !.supersteps = 0] \in Counts
<1>1. \A k \in Counts, n \in Nat : /\ [k EXCEPT !.runs = n] \in Counts
                                    /\ [k EXCEPT !.flips = n] \in Counts
                                    /\ [k EXCEPT !.raises = n] \in Counts
                                    /\ [k EXCEPT !.resumes = n] \in Counts
                                    /\ [k EXCEPT !.supersteps = n] \in Counts
  BY DEF Counts
<1>2. c.runs + 1 \in Nat /\ c.flips + 1 \in Nat /\ c.raises + 1 \in Nat
      /\ c.resumes + 1 \in Nat
  BY DEF Counts
<1>3. /\ [c EXCEPT !.runs = c.runs + 1, !.supersteps = 0]
           = [[c EXCEPT !.runs = c.runs + 1] EXCEPT !.supersteps = 0]
      /\ [c EXCEPT !.resumes = c.resumes + 1, !.supersteps = 0]
           = [[c EXCEPT !.resumes = c.resumes + 1] EXCEPT !.supersteps = 0]
  OBVIOUS
<1> QED
  BY <1>1, <1>2, <1>3

\* The end of a superstep counts it and touches no other counter.
LEMMA SuperstepCounts ==
    ASSUME TypeOK, SuperstepEnds
    PROVE  /\ count' \in Counts /\ count'.runs = count.runs
           /\ count'.supersteps <= count.supersteps + 1
<1>1. count \in Counts /\ RecursionLimit + 1 \in Nat /\ count.supersteps + 1 \in Nat
  BY TriageGraphAssumption DEF TypeOK, Counts
<1>2. /\ Saturate(count.supersteps + 1, RecursionLimit + 1) \in Nat
      /\ Saturate(count.supersteps + 1, RecursionLimit + 1) <= count.supersteps + 1
  BY <1>1, SaturateNat
<1> QED
  BY <1>1, <1>2 DEF SuperstepEnds, Counts

\* The number of tool calls made stays a number.
LEMMA ToolsAfterNat ==
    ASSUME TypeOK, NEW n \in Nat
    PROVE  ToolsAfter(n) \in Nat /\ ToolsAfter(n) <= toolsRun + n
<1>1. toolsRun + n \in Nat /\ MaxToolCalls \in Nat /\ 1 + MaxRaises \in Nat
  BY TriageGraphAssumption DEF TypeOK
<1>2. MaxToolCalls * (1 + MaxRaises) \in Nat
  BY <1>1
<1> QED
  BY <1>1, <1>2, SaturateNat DEF ToolsAfter

\* A run that breaks off writes no channel, and what it did can only be tool
\* calls or containment.
LEMMA BreakStep ==
    ASSUME NodeRaises \/ EffectUnrecorded
    PROVE  RunBreaks /\ UNCHANGED <<tickets, asked, seen, closed, investigated>>
BY DEF NodeRaises, EffectUnrecorded, ToolsUnrecorded, ContainmentUnrecorded

\* What the executor may act on are targets.
LEMMA ActionableTargets == TypeOK => Actionable \subseteq Targets
BY DEF Actionable, Permitted, allowed_targets, TypeOK, Alert, Targets

LEMMA EnvironmentTypeOK ==
    ASSUME TypeOK,
           \/ \E f \in Flippable : Reconfigure(f)
           \/ \E a \in AlertShapes : Invoke(a)
           \/ Surfaces \/ NodeRaises \/ EffectUnrecorded \/ Timeout
    PROVE  TypeOK'
<1> count \in Counts
  BY DEF TypeOK
<1>1. CASE \E f \in Flippable : Reconfigure(f)
  <2>1. PICK f \in Flippable : Reconfigure(f)
    BY <1>1
  <2>2. [settings EXCEPT ![f] = ~@] \in Settings
    BY TriageGraphAssumption DEF TypeOK, Settings
  <2> QED
    BY <2>1, <2>2, CountsBump DEF Reconfigure, TypeOK
<1>2. CASE \E a \in AlertShapes : Invoke(a)
  BY <1>2, TriageGraphAssumption, CountsBump DEF Invoke, TypeOK, Nodes
<1>3. CASE Surfaces
  <2>1. PICK d \in Decisions, t \in Seq(Targets) : Resume(d, t)
    BY <1>3, EmptySeq DEF Surfaces, TypeOK
  <2> QED
    BY <2>1, CountsBump DEF Resume, TypeOK
<1>4. CASE NodeRaises
  BY <1>4, CountsBump DEF NodeRaises, RunBreaks, TypeOK
<1>5. CASE Timeout
  BY <1>5 DEF Timeout, TypeOK, Investigations
<1>6. CASE EffectUnrecorded
  <2>1. CASE \E n \in 1..inv.calls : ToolsUnrecorded(n)
    <3>1. PICK n \in 1..inv.calls : ToolsUnrecorded(n)
      BY <2>1
    <3>2. n \in Nat
      OBVIOUS
    <3> QED
      BY <3>1, <3>2, ToolsAfterNat, CountsBump DEF ToolsUnrecorded, RunBreaks, TypeOK
  <2>2. CASE \E done \in SUBSET Actionable : ContainmentUnrecorded(done)
    BY <2>2, ActionableTargets, CountsBump DEF ContainmentUnrecorded, RunBreaks, TypeOK
  <2> QED
    BY <1>6, <2>1, <2>2 DEF EffectUnrecorded
<1> QED
  BY <1>1, <1>2, <1>3, <1>4, <1>5, <1>6

LEMMA NodeTypeOK == TypeOK /\ Node => TypeOK'
<1> SUFFICES ASSUME TypeOK, Node PROVE TypeOK'
  OBVIOUS
<1> USE DEF Nodes
<1> count \in Counts /\ (SuperstepEnds => count' \in Counts)
  BY SuperstepCounts DEF TypeOK
<1>1. CASE orchestrator_node
  BY <1>1 DEF orchestrator_node, RunTo, TypeOK
<1>2. CASE \E a \in Agents, o \in Outcomes : enrichment_node(a, o)
  <2>1. PICK a \in Agents, o \in Outcomes : enrichment_node(a, o)
    BY <1>2
  <2>2. [agent |-> a, outcome |-> o] \in EnrichmentData
    BY DEF EnrichmentData
  <2>3. pending \cup {[agent |-> a, outcome |-> o]} \in SUBSET EnrichmentData
    BY <2>2 DEF TypeOK
  <2> QED
    BY <2>1, <2>3 DEF enrichment_node, TypeOK
<1>3. CASE synthesizer_node
  <2>1. PICK v \in Verdicts, c \in Confidences : Synthesize(v, c)
    <3>1. CASE Synthesize("ambiguous", 0)
      BY <3>1 DEF Verdicts, Confidences
    <3>2. CASE \E v \in Verdicts, c \in ModelConfidences :
                 Synthesize(EnforcedVerdict(v, enrichments),
                            EnforcedConfidence(c, enrichments))
      BY <3>2, EnforcedAnswer, TriageGraphAssumption
    <3> QED
      BY <1>3, <3>1, <3>2 DEF synthesizer_node
  <2> QED
    BY <2>1 DEF Synthesize, RunTo, TypeOK, route_after_synthesis
<1>4. CASE auto_close_node
  BY <1>4 DEF auto_close_node, RunTo, TypeOK
<1>5. CASE InvestigatorNode
  <2>1. CASE InvestigatorFails
    BY <2>1 DEF InvestigatorFails, RunTo, TypeOK, should_continue, ReportKinds
  <2>2. CASE \E n \in 0..MaxBatch : InvestigatorTurn(n)
    <3>1. PICK n \in 0..MaxBatch : InvestigatorTurn(n)
      BY <2>2
    <3>2. n \in Nat /\ MaxToolCalls \in Nat /\ inv.used + n \in Nat
      BY TriageGraphAssumption DEF TypeOK, Investigations
    <3>3. Saturate(inv.used + n, MaxToolCalls) \in Nat
      BY <3>2, SaturateNat
    <3>4. inv' \in Investigations
      BY <3>1, <3>2, <3>3 DEF InvestigatorTurn, TypeOK, Investigations
    <3> QED
      BY <3>1, <3>4 DEF InvestigatorTurn, RunTo, TypeOK, should_continue
  <2> QED
    BY <1>5, <2>1, <2>2 DEF InvestigatorNode
<1>6. CASE investigation_tools
  <2>1. inv.calls \in Nat
    BY DEF TypeOK, Investigations
  <2>2. ToolsAfter(inv.calls) \in Nat
    BY <2>1, ToolsAfterNat
  <2>3. [inv EXCEPT !.calls = 0] \in Investigations
    BY DEF TypeOK, Investigations
  <2> QED
    BY <1>6, <2>2, <2>3 DEF investigation_tools, RunTo, TypeOK
<1>7. CASE ReportNode
  <2>1. PICK k \in ReportKinds : investigation_report_node(k)
    BY <1>7 DEF ReportNode
  <2>2. (k = "written" /\ ~budget_remaining(inv)) \in BOOLEAN
    OBVIOUS
  <2> QED
    BY <2>1, <2>2 DEF investigation_report_node, RunTo, TypeOK
<1>8. CASE planner_node
  <2>1. PICK p \in Seq(Targets) : PlanWritten(p)
    BY <1>8, TrimmedPlan, EmptySeq DEF planner_node, TypeOK
  <2> QED
    BY <2>1 DEF PlanWritten, RunTo, TypeOK
<1>9. CASE HumanReviewSuspends
  BY <1>9 DEF HumanReviewSuspends, TypeOK
<1>10. CASE HumanReviewResumes
  BY <1>10 DEF HumanReviewResumes, RunTo, TypeOK, route_after_decision
<1>11. CASE ExecutorNode
  <2>1. PICK done \in SUBSET Actionable : executor_node(done)
    BY <1>11 DEF ExecutorNode
  <2> QED
    BY <2>1, ActionableTargets DEF executor_node, RunTo, TypeOK
<1> QED
  BY <1>1, <1>2, <1>3, <1>4, <1>5, <1>6, <1>7, <1>8, <1>9, <1>10, <1>11, EnrichmentStep DEF Node

\* Every channel of a thread, every counter and every history variable keeps
\* its type, whatever the operator, the models and the analysts do.
THEOREM GraphTypeCorrect == Spec => []TypeOK
<1>1. TypeOK /\ [Next]_vars => TypeOK'
  <2> SUFFICES ASSUME TypeOK, [Next]_vars PROVE TypeOK'
    OBVIOUS
  <2>1. CASE Node
    BY <2>1, NodeTypeOK
  <2>2. CASE Next /\ ~Node
    BY <2>2, EnvironmentTypeOK DEF Next
  <2>3. CASE UNCHANGED vars
    BY <2>3 DEF vars, TypeOK
  <2> QED
    BY <2>1, <2>2, <2>3
<1> QED
  BY <1>1, InitTypeOK, PTL DEF Spec

-----------------------------------------------------------------------------
(* The investigation budget.                                               *)

\* What one run that ends without its record may let a later one repeat.
Repeatable(c) == (MaxToolCalls - 1) * c.raises

\* Calls are counted when the model asks for them, before they execute: as long
\* as the count is under the budget it covers what is asked for and, apart from
\* what was repeated, what ran.
BudgetInv ==
    /\ toolsRun < MaxToolCalls + Repeatable(count)
    /\ inv.used < MaxToolCalls =>
          /\ toolsRun + inv.calls <= inv.used + Repeatable(count)
          /\ inv.calls <= inv.used
    /\ "investigation_tools" \in next => inv.used < MaxToolCalls

LEMMA BudgetTypes ==
    ASSUME TypeOK
    PROVE  /\ MaxToolCalls \in Nat /\ MaxToolCalls >= 1 /\ toolsRun \in Nat
           /\ inv.used \in Nat /\ inv.calls \in Nat /\ count.raises \in Nat
           /\ Repeatable(count) \in Nat
           /\ Repeatable([count EXCEPT !.raises = @ + 1])
                = Repeatable(count) + (MaxToolCalls - 1)
<1>1. /\ MaxToolCalls \in Nat /\ MaxToolCalls >= 1 /\ toolsRun \in Nat
      /\ inv.used \in Nat /\ inv.calls \in Nat /\ count.raises \in Nat
  BY TriageGraphAssumption DEF TypeOK, Investigations, Counts
<1>2. [count EXCEPT !.raises = @ + 1].raises = count.raises + 1
  BY DEF TypeOK, Counts
<1>3. \A m, r \in Nat : m * r \in Nat /\ m * (r + 1) = m * r + m
  OBVIOUS
<1>4. MaxToolCalls - 1 \in Nat
  BY <1>1
<1> QED
  BY <1>1, <1>2, <1>3, <1>4 DEF Repeatable

\* Nothing but the investigation touches what BudgetInv speaks of.
LEMMA BudgetUntouched ==
    ASSUME TypeOK, BudgetInv, UNCHANGED <<toolsRun, inv>>,
           \/ count'.raises = count.raises
           \/ count' = [count EXCEPT !.raises = @ + 1],
           "investigation_tools" \in next' => "investigation_tools" \in next
    PROVE  BudgetInv'
<1> DEFINE k == Repeatable(count)
           k2 == Repeatable(count')
<1>1. k2 = k \/ k2 = k + (MaxToolCalls - 1)
  <2>1. CASE count'.raises = count.raises
    BY <2>1 DEF Repeatable
  <2>2. CASE count' = [count EXCEPT !.raises = @ + 1]
    BY <2>2, BudgetTypes
  <2> QED
    BY <2>1, <2>2
<1>2. BudgetInv' <=>
        /\ toolsRun < MaxToolCalls + k2
        /\ inv.used < MaxToolCalls =>
              toolsRun + inv.calls <= inv.used + k2 /\ inv.calls <= inv.used
        /\ "investigation_tools" \in next' => inv.used < MaxToolCalls
  BY DEF BudgetInv, Repeatable
<1>3. /\ toolsRun < MaxToolCalls + k
      /\ inv.used < MaxToolCalls =>
            toolsRun + inv.calls <= inv.used + k /\ inv.calls <= inv.used
      /\ "investigation_tools" \in next => inv.used < MaxToolCalls
  BY DEF BudgetInv
<1>4. k \in Nat
  BY BudgetTypes
<1> HIDE DEF k, k2
<1> QED
  BY <1>1, <1>2, <1>3, <1>4, BudgetTypes

\* The end of a superstep is no failure.
LEMMA SuperstepRepeats ==
    ASSUME TypeOK, SuperstepEnds
    PROVE  count'.raises = count.raises /\ Repeatable(count') = Repeatable(count)
BY DEF SuperstepEnds, Repeatable, TypeOK, Counts

LEMMA TurnKeepsBudget ==
    ASSUME TypeOK, BudgetInv, NEW n \in 0..MaxBatch, InvestigatorTurn(n)
    PROVE  BudgetInv'
<1> DEFINE used == Saturate(inv.used + n, MaxToolCalls)
           k == Repeatable(count)
<1>1. n \in Nat /\ k \in Nat
  BY TriageGraphAssumption, BudgetTypes
<1>2. inv' = [open |-> TRUE, calls |-> n, used |-> used, late |-> inv.late]
  BY DEF InvestigatorTurn, TypeOK, Investigations
<1>3. used < MaxToolCalls => inv.used < MaxToolCalls /\ used = inv.used + n
  BY <1>1, BudgetTypes DEF Saturate
<1>4. toolsRun' = toolsRun /\ Repeatable(count') = k
  BY SuperstepRepeats DEF InvestigatorTurn, RunTo
<1>5. "investigation_tools" \in next' => used < MaxToolCalls
  <2>1. next' = {should_continue(inv')}
    BY DEF InvestigatorTurn, RunTo
  <2> QED
    BY <2>1, <1>2 DEF should_continue, budget_remaining
<1>6. /\ toolsRun < MaxToolCalls + k
      /\ inv.used < MaxToolCalls => toolsRun + inv.calls <= inv.used + k
  BY DEF BudgetInv
<1> HIDE DEF used, k
<1>7. used < MaxToolCalls => toolsRun + n <= used + k /\ n <= used
  BY <1>1, <1>3, <1>6, BudgetTypes
<1> QED
  BY <1>2, <1>4, <1>5, <1>6, <1>7 DEF BudgetInv

LEMMA FailureKeepsBudget ==
    ASSUME TypeOK, BudgetInv, InvestigatorFails
    PROVE  BudgetInv'
<1>1. UNCHANGED <<toolsRun, inv>> /\ next' = {should_continue(inv)}
  BY DEF InvestigatorFails, RunTo
<1>2. Repeatable(count') = Repeatable(count)
  BY SuperstepRepeats DEF InvestigatorFails, RunTo
<1> QED
  BY <1>1, <1>2 DEF BudgetInv, should_continue, budget_remaining

LEMMA ToolsKeepBudget ==
    ASSUME TypeOK, BudgetInv, investigation_tools
    PROVE  BudgetInv'
<1> DEFINE k == Repeatable(count)
<1>1. inv.used < MaxToolCalls /\ toolsRun + inv.calls <= inv.used + k
  BY DEF BudgetInv, investigation_tools, RunTo
<1>2. toolsRun' <= toolsRun + inv.calls /\ toolsRun' \in Nat
  BY ToolsAfterNat, BudgetTypes DEF investigation_tools
<1>3. inv' = [open |-> inv.open, calls |-> 0, used |-> inv.used, late |-> inv.late]
  BY DEF investigation_tools, TypeOK, Investigations
<1>4. "investigation_tools" \notin next'
  BY DEF investigation_tools, RunTo
<1>5. Repeatable(count') = k /\ k \in Nat
  BY SuperstepRepeats, BudgetTypes DEF investigation_tools, RunTo
<1> HIDE DEF k
<1>6. /\ toolsRun' < MaxToolCalls + k /\ toolsRun' + 0 <= inv.used + k
      /\ 0 <= inv.used
  BY <1>1, <1>2, <1>5, BudgetTypes
<1>7. inv'.used = inv.used /\ inv'.calls = 0
  BY <1>3
<1> QED
  BY <1>4, <1>5, <1>6, <1>7 DEF BudgetInv

\* Calls made and not recorded are repeated, fewer than the budget of them.
LEMMA UnrecordedKeepsBudget ==
    ASSUME TypeOK, BudgetInv, NEW n \in 1..inv.calls, ToolsUnrecorded(n)
    PROVE  BudgetInv'
<1> DEFINE k == Repeatable(count)
<1>1. /\ inv.used < MaxToolCalls /\ toolsRun + inv.calls <= inv.used + k
      /\ inv.calls <= inv.used
  BY DEF BudgetInv, ToolsUnrecorded
<1>2. n \in Nat /\ n <= inv.calls
  BY BudgetTypes
<1>3. toolsRun' <= toolsRun + n /\ toolsRun' \in Nat
  BY <1>2, ToolsAfterNat DEF ToolsUnrecorded
<1>4. Repeatable(count') = k + (MaxToolCalls - 1) /\ k \in Nat
  BY BudgetTypes DEF ToolsUnrecorded, RunBreaks
<1>5. UNCHANGED <<inv, next>>
  BY DEF ToolsUnrecorded, RunBreaks
<1> HIDE DEF k
<1>6. /\ toolsRun' < MaxToolCalls + (k + (MaxToolCalls - 1))
      /\ toolsRun' + inv.calls <= inv.used + (k + (MaxToolCalls - 1))
  BY <1>1, <1>2, <1>3, <1>4, BudgetTypes
<1> QED
  BY <1>1, <1>4, <1>5, <1>6 DEF BudgetInv

LEMMA BudgetStep == TypeOK /\ BudgetInv /\ [Next]_vars => BudgetInv'
<1> SUFFICES ASSUME TypeOK, BudgetInv, [Next]_vars PROVE BudgetInv'
  OBVIOUS
<1> SuperstepEnds => count'.raises = count.raises
  BY SuperstepRepeats
<1>1. CASE InvestigatorNode
  BY <1>1, TurnKeepsBudget, FailureKeepsBudget DEF InvestigatorNode
<1>2. CASE investigation_tools
  BY <1>2, ToolsKeepBudget
<1>3. CASE Timeout
  BY <1>3 DEF Timeout, TypeOK, Investigations, BudgetInv, Repeatable
<1>4. CASE orchestrator_node \/ auto_close_node \/ HumanReviewSuspends
  BY <1>4, BudgetUntouched
  DEF orchestrator_node, auto_close_node, HumanReviewSuspends, RunTo, Agents
<1>5. CASE \E a \in Agents, o \in Outcomes : enrichment_node(a, o)
  BY <1>5, BudgetUntouched DEF enrichment_node
<1>6. CASE synthesizer_node
  <2>1. PICK v, c : Synthesize(v, c)
    BY <1>6 DEF synthesizer_node
  <2> QED
    BY <2>1, BudgetUntouched DEF Synthesize, RunTo, route_after_synthesis
<1>7. CASE ReportNode \/ planner_node
  BY <1>7, BudgetUntouched
  DEF ReportNode, investigation_report_node, planner_node, PlanWritten, RunTo
<1>8. CASE HumanReviewResumes \/ ExecutorNode
  BY <1>8, BudgetUntouched
  DEF HumanReviewResumes, ExecutorNode, executor_node, RunTo, route_after_decision
<1>9. CASE EffectUnrecorded
  <2>1. CASE \E done \in SUBSET Actionable : ContainmentUnrecorded(done)
    BY <2>1, BudgetUntouched DEF ContainmentUnrecorded, RunBreaks
  <2> QED
    BY <1>9, <2>1, UnrecordedKeepsBudget DEF EffectUnrecorded
<1>10. CASE NodeRaises
  BY <1>10, BudgetUntouched DEF NodeRaises, RunBreaks
<1>11. CASE (\E f \in Flippable : Reconfigure(f)) \/ (\E a \in AlertShapes : Invoke(a)) \/ Surfaces
  <2>1. count'.raises = count.raises
    BY <1>11 DEF Reconfigure, Invoke, Surfaces, Resume, TypeOK, Counts
  <2>2. /\ UNCHANGED <<toolsRun, inv>>
        /\ "investigation_tools" \in next' => "investigation_tools" \in next
    BY <1>11 DEF Reconfigure, Invoke, Surfaces, Resume
  <2> QED
    BY <2>1, <2>2, BudgetUntouched
<1>12. CASE UNCHANGED vars
  BY <1>12, BudgetUntouched DEF vars
<1> QED
  BY <1>1, <1>2, <1>3, <1>4, <1>5, <1>6, <1>7, <1>8, <1>9, <1>10, <1>11, <1>12, EnrichmentStep
  DEF Next, Node

\* The tool calls a thread makes stay below investigation_max_tool_calls, and by
\* as many again for each run that ended without its record, however many runs
\* it has, however the model batches its calls and whichever node breaks off
\* (investigator.budget_remaining, should_continue, ToolNode).
THEOREM BudgetHolds == Spec => []BudgetRespected
<1>1. Init => BudgetInv
  <2>1. Init => Repeatable(count) = 0
    BY TriageGraphAssumption DEF Init, Repeatable
  <2> QED
    BY <2>1, TriageGraphAssumption DEF Init, BudgetInv
<1>2. TypeOK /\ BudgetInv => BudgetRespected
  <2> SUFFICES ASSUME TypeOK, BudgetInv PROVE BudgetRespected
    OBVIOUS
  <2>1. toolsRun < MaxToolCalls + Repeatable(count)
    BY DEF BudgetInv
  <2>2. \A m, r \in Nat : m * (1 + r) = m * r + m
    OBVIOUS
  <2>3. (MaxToolCalls - 1) * (1 + count.raises) = Repeatable(count) + (MaxToolCalls - 1)
    BY <2>2, BudgetTypes DEF Repeatable
  <2> QED
    BY <2>1, <2>3, BudgetTypes DEF BudgetRespected
<1> QED
  BY <1>1, <1>2, BudgetStep, GraphTypeCorrect, PTL DEF Spec

-----------------------------------------------------------------------------
(* The auto-close gate.                                                    *)

Reported(es) == \A a \in Agents : \E e \in es : e.agent = a

Justified ==
    /\ Reported(enrichments)
    /\ ~HasError(enrichments) /\ ~HasPrivileged(enrichments)
    /\ verdict = "false_positive"
    /\ confidence >= AUTO_CLOSE_CONFIDENCE
    /\ alert.severity < CRITICAL
    /\ "hostname" \in alert.entities => alert.criticality < CROWN_JEWEL

\* The fan-in: while the lookups run, each agent is still to run or has
\* written; the synthesizer starts with all three reports.
GateInv ==
    /\ "orchestrator" \in next => next = {"orchestrator"} /\ pending = {}
    /\ next \cap Agents # {} =>
          \A a \in Agents : a \in next \/ \E e \in pending : e.agent = a
    /\ "synthesizer" \in next => Reported(enrichments)
    /\ "auto_close" \in next => Justified
    /\ closed => next = {} /\ Justified

\* Steps that leave the evidence, the verdict and the front of the graph alone.
LEMMA GateUntouched ==
    ASSUME GateInv, UNCHANGED <<alert, enrichments, verdict, confidence, closed, pending>>,
           next # {} \/ next' = next,
           next' = next \/ next' \cap (Agents \cup {"orchestrator", "synthesizer", "auto_close"}) = {}
    PROVE  GateInv'
BY DEF GateInv, Justified, Reported

LEMMA LookupKeepsGate ==
    ASSUME GateInv, NEW a \in Agents, NEW o \in Outcomes, enrichment_node(a, o)
    PROVE  GateInv'
<1> DEFINE all == pending \cup {[agent |-> a, outcome |-> o]}
<1>1. \A b \in Agents : b \in next \ {a} \/ \E e \in all : e.agent = b
  <2>1. \A b \in Agents : b \in next \/ \E e \in pending : e.agent = b
    BY DEF GateInv, enrichment_node
  <2>2. [agent |-> a, outcome |-> o] \in all /\ [agent |-> a, outcome |-> o].agent = a
    OBVIOUS
  <2> QED
    BY <2>1, <2>2
<1>2. UNCHANGED <<alert, verdict, confidence, closed>> /\ ~closed
  BY DEF enrichment_node, GateInv
<1>3. CASE next = {a}
  <2>1. next' = {"synthesizer"} /\ enrichments' = enrichments \cup all
    BY <1>3 DEF enrichment_node
  <2>2. Reported(enrichments')
    BY <1>1, <1>3, <2>1 DEF Reported
  <2> QED
    BY <1>2, <2>1, <2>2 DEF GateInv, Agents
<1>4. CASE next # {a}
  <2>1. next' = next \ {a} /\ pending' = all /\ enrichments' = enrichments
    BY <1>4 DEF enrichment_node
  <2>2. "orchestrator" \notin next'
    BY <2>1 DEF GateInv, enrichment_node, Agents
  <2> QED
    BY <1>1, <1>2, <2>1, <2>2 DEF GateInv, Justified
<1> QED
  BY <1>3, <1>4

LEMMA SynthesisKeepsGate ==
    ASSUME TypeOK, GateInv, synthesizer_node
    PROVE  GateInv'
<1>1. PICK v \in Verdicts, c \in Confidences : Synthesize(v, c)
  <2>1. CASE Synthesize("ambiguous", 0)
    BY <2>1 DEF Verdicts, Confidences
  <2>2. CASE \E v \in Verdicts, c \in ModelConfidences :
               Synthesize(EnforcedVerdict(v, enrichments),
                          EnforcedConfidence(c, enrichments))
    BY <2>2, EnforcedAnswer, TriageGraphAssumption
  <2> QED
    BY <2>1, <2>2 DEF synthesizer_node
<1>2. /\ next = {"synthesizer"} /\ verdict' = v /\ confidence' = c
      /\ UNCHANGED <<alert, enrichments, closed, pending>> /\ ~closed
      /\ next' = {route_after_synthesis(settings, alert, enrichments, v, c)}
  BY <1>1 DEF Synthesize, RunTo, GateInv
<1>3. Reported(enrichments)
  BY <1>2 DEF GateInv
<1>4. gate_decision(settings, alert, enrichments, v, c) = "auto_close" => Justified'
  BY <1>2, <1>3 DEF gate_decision, Justified, TypeOK, Alert, Severities, CRITICAL
<1>5. \/ next' = {"auto_close"} /\ Justified'
      \/ next' \in {{"investigator"}, {"planner"}}
  BY <1>2, <1>4 DEF route_after_synthesis
<1> QED
  BY <1>2, <1>5 DEF GateInv, Agents

LEMMA GateStep == TypeOK /\ GateInv /\ [Next]_vars => GateInv'
<1> SUFFICES ASSUME TypeOK, GateInv, [Next]_vars PROVE GateInv'
  OBVIOUS
<1>1. CASE orchestrator_node
  BY <1>1 DEF orchestrator_node, RunTo, GateInv, Agents
<1>2. CASE \E a \in Agents, o \in Outcomes : enrichment_node(a, o)
  BY <1>2, LookupKeepsGate
<1>3. CASE synthesizer_node
  BY <1>3, SynthesisKeepsGate
<1>4. CASE auto_close_node
  BY <1>4 DEF auto_close_node, RunTo, GateInv, Justified
<1>5. CASE InvestigatorNode
  BY <1>5, GateUntouched
  DEF InvestigatorNode, InvestigatorTurn, InvestigatorFails, RunTo, should_continue, Agents
<1>6. CASE investigation_tools \/ ReportNode
  BY <1>6, GateUntouched
  DEF investigation_tools, ReportNode, investigation_report_node, RunTo, Agents
<1>7. CASE planner_node
  BY <1>7, GateUntouched DEF planner_node, PlanWritten, RunTo, Agents
<1>8. CASE HumanReviewSuspends \/ HumanReviewResumes \/ ExecutorNode
  BY <1>8, GateUntouched
  DEF HumanReviewSuspends, HumanReviewResumes, ExecutorNode, executor_node, RunTo,
      route_after_decision, Agents
<1>9. CASE \E a \in AlertShapes : Invoke(a)
  BY <1>9 DEF Invoke, GateInv, Agents
<1>10. CASE Next /\ ~Node /\ ~\E a \in AlertShapes : Invoke(a)
  BY <1>10, GateUntouched, BreakStep
  DEF Next, Reconfigure, Surfaces, Resume, RunBreaks, Timeout
<1>11. CASE UNCHANGED vars
  BY <1>11, GateUntouched DEF vars
<1> QED
  BY <1>1, <1>2, <1>3, <1>4, <1>5, <1>6, <1>7, <1>8, <1>9, <1>10, <1>11, EnrichmentStep DEF Next, Node

\* No alert closes without a human unless all three lookups reported, none
\* failed or met a privileged principal, and the alert is neither critical nor
\* on a crown jewel (gate_decision and the fan-in of build_graph).
THEOREM AutoCloseSafe == Spec => []AutoCloseJustified
<1>1. Init => GateInv
  BY DEF Init, GateInv
<1>2. GateInv => AutoCloseJustified
  BY DEF GateInv, Justified, Reported, AutoCloseJustified
<1> QED
  BY <1>1, <1>2, GateStep, GraphTypeCorrect, PTL DEF Spec

-----------------------------------------------------------------------------
(* One way through the graph.                                              *)

Early == Agents \cup {"orchestrator", "synthesizer", "auto_close"}

\* A run that investigated or asked a human is past the gate.
PastGateInv ==
    /\ investigated \/ asked => next \cap Early = {}
    /\ closed => next = {} /\ ~investigated /\ ~asked

LEMMA PastGateUntouched ==
    ASSUME PastGateInv, UNCHANGED <<closed, investigated, asked>>, next # {} \/ next' = next,
           next \cap Early # {} \/ next' \cap Early = {}
    PROVE  PastGateInv'
BY DEF PastGateInv

LEMMA PastGateStep == TypeOK /\ PastGateInv /\ [Next]_vars => PastGateInv'
<1> SUFFICES ASSUME TypeOK, PastGateInv, [Next]_vars PROVE PastGateInv'
  OBVIOUS
<1>1. CASE orchestrator_node \/ synthesizer_node
  BY <1>1, PastGateUntouched
  DEF orchestrator_node, synthesizer_node, Synthesize, RunTo, Early
<1>2. CASE \E a \in Agents, o \in Outcomes : enrichment_node(a, o)
  BY <1>2, PastGateUntouched DEF enrichment_node, Early
<1>3. CASE auto_close_node
  BY <1>3 DEF auto_close_node, RunTo, PastGateInv, Early
<1>4. CASE InvestigatorNode
  <2>1. next = {"investigator"} /\ investigated' /\ UNCHANGED <<asked, closed>>
    BY <1>4 DEF InvestigatorNode, InvestigatorTurn, InvestigatorFails, RunTo
  <2>2. next' \in {{"investigation_tools"}, {"investigation_report"}}
    BY <1>4
    DEF InvestigatorNode, InvestigatorTurn, InvestigatorFails, RunTo, should_continue
  <2> QED
    BY <2>1, <2>2 DEF PastGateInv, Early, Agents
<1>5. CASE investigation_tools \/ ReportNode \/ planner_node
  BY <1>5, PastGateUntouched
  DEF investigation_tools, ReportNode, investigation_report_node, planner_node,
      PlanWritten, RunTo, Early, Agents
<1>6. CASE HumanReviewSuspends
  BY <1>6 DEF HumanReviewSuspends, PastGateInv, Early, Agents
<1>7. CASE HumanReviewResumes \/ ExecutorNode
  BY <1>7, PastGateUntouched
  DEF HumanReviewResumes, ExecutorNode, executor_node, RunTo, route_after_decision,
      Early, Agents
<1>8. CASE \E a \in AlertShapes : Invoke(a)
  BY <1>8 DEF Invoke, PastGateInv
<1>9. CASE \/ \E f \in Flippable : Reconfigure(f)
           \/ Surfaces \/ NodeRaises \/ EffectUnrecorded \/ Timeout \/ UNCHANGED vars
  <2>1. UNCHANGED <<next, closed, investigated, asked>>
    BY <1>9, BreakStep DEF Reconfigure, Surfaces, Resume, RunBreaks, Timeout, vars
  <2> QED
    BY <2>1 DEF PastGateInv
<1> QED
  BY <1>1, <1>2, <1>3, <1>4, <1>5, <1>6, <1>7, <1>8, <1>9, EnrichmentStep DEF Next, Node

LEMMA PastGate == Spec => []PastGateInv
<1>1. Init => PastGateInv
  BY DEF Init, PastGateInv
<1> QED
  BY <1>1, PastGateStep, GraphTypeCorrect, PTL DEF Spec

\* Nothing an investigation finds, and nothing a human was asked about, closes
\* an alert by itself (route_after_synthesis).
THEOREM InvestigationNeverCloses == Spec => []InvestigatedNeverCloses
<1>1. PastGateInv => InvestigatedNeverCloses
  BY DEF PastGateInv, InvestigatedNeverCloses
<1> QED
  BY <1>1, PastGate, PTL

-----------------------------------------------------------------------------
(* The report of an investigation that was cut short.                      *)

\* The loop leaves for the report because the model asked for nothing more, or
\* because the budget is gone, and a budget never comes back.
CutOffInv ==
    /\ "investigation_report" \in next => inv.calls = 0 \/ ~budget_remaining(inv)
    /\ CutOffIsFlagged

LEMMA CutOffUntouched ==
    ASSUME CutOffInv, UNCHANGED <<inv, report>>,
           next' \cap {"investigation_report", "planner"} = {}
           \/ UNCHANGED <<next, investigated>>
    PROVE  CutOffInv'
BY DEF CutOffInv, CutOffIsFlagged, budget_remaining

LEMMA CutOffStep == TypeOK /\ PastGateInv /\ CutOffInv /\ [Next]_vars => CutOffInv'
<1> SUFFICES ASSUME TypeOK, PastGateInv, CutOffInv, [Next]_vars PROVE CutOffInv'
  OBVIOUS
<1>1. CASE orchestrator_node \/ auto_close_node \/ \E a \in AlertShapes : Invoke(a)
  BY <1>1, CutOffUntouched DEF orchestrator_node, auto_close_node, Invoke, RunTo, Agents
<1>2. CASE \E a \in Agents, o \in Outcomes : enrichment_node(a, o)
  <2>1. PICK a \in Agents, o \in Outcomes : enrichment_node(a, o)
    BY <1>2
  <2>2. ~investigated'
    BY <2>1 DEF enrichment_node, PastGateInv, Early
  <2>3. "investigation_report" \in next' => "investigation_report" \in next
    BY <2>1 DEF enrichment_node
  <2>4. UNCHANGED inv
    BY <2>1 DEF enrichment_node
  <2> QED
    BY <2>2, <2>3, <2>4 DEF CutOffInv, CutOffIsFlagged, budget_remaining
<1>3. CASE synthesizer_node
  <2>1. next' \in {{"auto_close"}, {"investigator"}, {"planner"}} /\ ~investigated'
    BY <1>3
    DEF synthesizer_node, Synthesize, RunTo, route_after_synthesis, PastGateInv, Early
  <2> QED
    BY <2>1 DEF CutOffInv, CutOffIsFlagged
<1>4. CASE InvestigatorNode
  <2>1. next' = {should_continue(inv')}
    BY <1>4 DEF InvestigatorNode, InvestigatorTurn, InvestigatorFails, RunTo
  <2> QED
    BY <2>1 DEF should_continue, CutOffInv, CutOffIsFlagged
<1>5. CASE investigation_tools
  BY <1>5 DEF investigation_tools, RunTo, CutOffInv, CutOffIsFlagged
<1>6. CASE ReportNode
  <2>1. PICK k \in ReportKinds : investigation_report_node(k)
    BY <1>6 DEF ReportNode
  <2>2. /\ next' = {"planner"} /\ UNCHANGED inv
        /\ inv.calls = 0 \/ ~budget_remaining(inv)
    BY <2>1 DEF investigation_report_node, RunTo, CutOffInv
  <2>3. report' = [kind |-> k, exhausted |-> k = "written" /\ ~budget_remaining(inv)]
    BY <2>1 DEF investigation_report_node
  <2>4. inv.calls > 0 => ~budget_remaining(inv)
    BY <2>2 DEF TypeOK, Investigations
  <2> QED
    BY <2>2, <2>3, <2>4 DEF CutOffInv, CutOffIsFlagged
<1>7. CASE planner_node \/ HumanReviewSuspends \/ HumanReviewResumes \/ ExecutorNode
  BY <1>7, CutOffUntouched
  DEF planner_node, PlanWritten, HumanReviewSuspends, HumanReviewResumes, ExecutorNode,
      executor_node, RunTo, route_after_decision
<1>8. CASE Timeout
  <2>1. inv' = [inv EXCEPT !.late = TRUE] /\ UNCHANGED <<next, report, investigated>>
    BY <1>8 DEF Timeout
  <2> QED
    BY <2>1 DEF CutOffInv, CutOffIsFlagged, budget_remaining, TypeOK, Investigations
<1>9. CASE \/ \E f \in Flippable : Reconfigure(f)
           \/ Surfaces \/ NodeRaises \/ EffectUnrecorded \/ UNCHANGED vars
  BY <1>9, CutOffUntouched, BreakStep DEF Reconfigure, Surfaces, Resume, RunBreaks, vars
<1> QED
  BY <1>1, <1>2, <1>3, <1>4, <1>5, <1>6, <1>7, <1>8, <1>9, EnrichmentStep DEF Next, Node

\* A written report never passes off an investigation the budget cut short as
\* one that found everything it asked for (investigation_report_node).
THEOREM CutOffReported == Spec => []CutOffIsFlagged
<1>1. Init => CutOffInv
  BY DEF Init, CutOffInv, CutOffIsFlagged
<1>2. CutOffInv => CutOffIsFlagged
  BY DEF CutOffInv
<1> QED
  BY <1>1, <1>2, CutOffStep, PastGate, GraphTypeCorrect, PTL DEF Spec

-----------------------------------------------------------------------------
(* The length of a run.                                                    *)

\* How many supersteps an invoke() has taken when a node comes next.  A turn of
\* the investigator and its tools take two and use up a call at least; but a
\* turn that fails runs the calls a run before left behind, and those were
\* counted then: so calls still wanted have two supersteps of the bound to come.
LengthInv ==
    LET s == count.supersteps IN
    /\ s <= 2 * MaxToolCalls + 5
    /\ inv.calls > 0 => inv.used > 0
    /\ resume # NoDecision => s = 0
    /\ "investigation_tools" \in next => inv.used < MaxToolCalls
    /\ active =>
         /\ "orchestrator" \in next => s = 0
         /\ next \cap Agents # {} => s <= 1
         /\ "synthesizer" \in next => s <= 2
         /\ "investigator" \in next =>
               /\ s <= 2 * MaxToolCalls + 1
               /\ s <= 2 * inv.used + 3
               /\ inv.calls > 0 => s <= 2 * inv.used + 1
         /\ "investigation_tools" \in next => s <= 2 * inv.used + 2
         /\ "auto_close" \in next => s <= 3
         /\ "investigation_report" \in next => s <= 2 * MaxToolCalls + 2
         /\ "planner" \in next => s <= 2 * MaxToolCalls + 3
         /\ "human_review" \in next => s <= 2 * MaxToolCalls + 4
         /\ "executor" \in next => s <= 1

LEMMA LengthTypes ==
    ASSUME TypeOK
    PROVE  /\ MaxToolCalls \in Nat /\ MaxToolCalls >= 1
           /\ count.supersteps \in Nat /\ inv.used \in Nat /\ inv.calls \in Nat
BY TriageGraphAssumption DEF TypeOK, Counts, Investigations

\* A superstep of one node.
LEMMA LengthRunTo ==
    ASSUME TypeOK, NEW n, NEW m, RunTo(n, m)
    PROVE  /\ active /\ next = {n} /\ next' = m
           /\ active' = (m # {}) /\ resume' = NoDecision
           /\ count'.supersteps \in Nat /\ count'.supersteps <= count.supersteps + 1
<1>1. count' \in Counts /\ count'.supersteps <= count.supersteps + 1
  BY SuperstepCounts DEF RunTo
<1> QED
  BY <1>1 DEF RunTo, Counts

\* A turn as a record with its fields.
LEMMA TurnRecord ==
    ASSUME NEW j \in Investigations, NEW n, NEW u,
           NEW k, k = [j EXCEPT !.open = TRUE, !.calls = n, !.used = u]
    PROVE  k = [open |-> TRUE, calls |-> n, used |-> u, late |-> j.late]
BY DEF Investigations

LEMMA LengthTurn ==
    ASSUME TypeOK, LengthInv, NEW n \in 0..MaxBatch, InvestigatorTurn(n)
    PROVE  LengthInv'
<1> DEFINE used == Saturate(inv.used + n, MaxToolCalls)
           i == [open |-> TRUE, calls |-> n, used |-> used, late |-> inv.late]
<1>1. n \in Nat
  BY TriageGraphAssumption
<1>2. inv' = i /\ RunTo("investigator", {should_continue(i)})
  <2>1. \A k : k = [inv EXCEPT !.open = TRUE, !.calls = n, !.used = used] => k = i
    <3>1. inv \in Investigations
      BY DEF TypeOK
    <3> HIDE DEF used
    <3> QED
      BY <3>1, TurnRecord
  <2>2. [inv EXCEPT !.open = TRUE, !.calls = n, !.used = used] = i
    BY <2>1
  <2> HIDE DEF i
  <2> QED
    BY <2>2, Zenon DEF InvestigatorTurn
<1>3. /\ used \in Nat /\ (n > 0 => used > 0)
      /\ used < MaxToolCalls => used = inv.used + n
  BY <1>1, LengthTypes DEF Saturate
<1>4. CASE should_continue(i) = "investigation_tools"
  <2>1. n > 0 /\ used < MaxToolCalls
    BY <1>1, <1>4 DEF should_continue, budget_remaining
  <2>2. RunTo("investigator", {"investigation_tools"})
    BY <1>2, <1>4
  <2>3. /\ next = {"investigator"} /\ active /\ next' = {"investigation_tools"}
        /\ resume' = NoDecision
        /\ count'.supersteps \in Nat /\ count'.supersteps <= count.supersteps + 1
    BY <2>2, LengthRunTo
  <2>4. count'.supersteps <= 2 * used + 2 /\ used <= MaxToolCalls
    <3> HIDE DEF used
    <3> QED
      BY <1>1, <1>3, <2>1, <2>3, LengthTypes DEF LengthInv
  <2> HIDE DEF used
  <2> QED
    BY <1>1, <1>2, <1>3, <2>1, <2>3, <2>4, LengthTypes DEF LengthInv, Agents
<1>5. CASE should_continue(i) = "investigation_report"
  <2>1. RunTo("investigator", {"investigation_report"})
    BY <1>2, <1>5
  <2>2. /\ next = {"investigator"} /\ active /\ next' = {"investigation_report"}
        /\ resume' = NoDecision
        /\ count'.supersteps \in Nat /\ count'.supersteps <= count.supersteps + 1
    BY <2>1, LengthRunTo
  <2> HIDE DEF used
  <2> QED
    BY <1>1, <1>2, <1>3, <2>2, LengthTypes DEF LengthInv, Agents
<1> QED
  BY <1>4, <1>5 DEF should_continue

\* A step that leaves the investigation alone and does not lead back to it.
LEMMA LengthOnwards ==
    ASSUME TypeOK, LengthInv, NEW n, NEW m, RunTo(n, m), inv' = inv,
           \/ n = "orchestrator" /\ m = Agents
           \/ n = "synthesizer" /\ m \in {{"auto_close"}, {"investigator"}, {"planner"}}
           \/ n = "investigation_report" /\ m = {"planner"}
           \/ n = "planner" /\ m = {"human_review"}
           \/ n = "human_review" /\ m \in {{"executor"}, {}} /\ resume # NoDecision
           \/ n \in {"auto_close", "executor"} /\ m = {}
    PROVE  LengthInv'
BY LengthRunTo, LengthTypes DEF LengthInv, Agents

LEMMA LengthNode ==
    ASSUME TypeOK, LengthInv, Node
    PROVE  LengthInv'
<1>1. CASE orchestrator_node \/ synthesizer_node \/ auto_close_node
  <2>1. /\ inv' = inv
        /\ \/ RunTo("orchestrator", Agents)
           \/ \E m \in {{"auto_close"}, {"investigator"}, {"planner"}} : RunTo("synthesizer", m)
           \/ RunTo("auto_close", {})
    BY <1>1 DEF orchestrator_node, synthesizer_node, Synthesize, auto_close_node,
                route_after_synthesis
  <2> QED
    BY <2>1, LengthOnwards
<1>2. CASE \E a \in Agents, o \in Outcomes : enrichment_node(a, o)
  <2>1. PICK a \in Agents, o \in Outcomes : enrichment_node(a, o)
    BY <1>2
  <2>2. active /\ active' /\ a \in next /\ inv' = inv
    BY <2>1 DEF enrichment_node
  <2>3. CASE next = {a}
    <3>1. next' = {"synthesizer"} /\ resume' = NoDecision /\ SuperstepEnds
      BY <2>1, <2>3 DEF enrichment_node
    <3>2. count'.supersteps \in Nat /\ count'.supersteps <= count.supersteps + 1
      BY <3>1, SuperstepCounts DEF Counts
    <3> QED
      BY <2>2, <3>1, <3>2, LengthTypes DEF LengthInv, Agents
  <2>4. CASE next # {a}
    <3>1. next' \subseteq next /\ UNCHANGED <<resume, count>>
      BY <2>1, <2>4 DEF enrichment_node
    <3> QED
      BY <2>2, <3>1 DEF LengthInv
  <2> QED
    BY <2>3, <2>4
<1>3. CASE InvestigatorNode
  <2>1. CASE InvestigatorFails
    <3>1. inv' = inv /\ RunTo("investigator", {should_continue(inv)})
      BY <2>1 DEF InvestigatorFails
    <3>2. CASE should_continue(inv) = "investigation_tools"
      <4>1. inv.calls > 0 /\ inv.used < MaxToolCalls
        BY <3>2, LengthTypes DEF should_continue, budget_remaining
      <4> QED
        BY <3>1, <3>2, <4>1, LengthRunTo, LengthTypes DEF LengthInv, Agents
    <3>3. CASE should_continue(inv) = "investigation_report"
      BY <3>1, <3>3, LengthRunTo, LengthTypes DEF LengthInv, Agents
    <3> QED
      BY <3>2, <3>3 DEF should_continue
  <2> QED
    BY <1>3, <2>1, LengthTurn DEF InvestigatorNode
<1>4. CASE investigation_tools
  <2>1. /\ inv' = [open |-> inv.open, calls |-> 0, used |-> inv.used, late |-> inv.late]
        /\ RunTo("investigation_tools", {"investigator"})
    BY <1>4 DEF investigation_tools, TypeOK, Investigations
  <2> QED
    BY <2>1, LengthRunTo, LengthTypes DEF LengthInv, Agents
<1>5. CASE ReportNode \/ planner_node
  <2>1. /\ inv' = inv
        /\ \/ RunTo("investigation_report", {"planner"})
           \/ RunTo("planner", {"human_review"})
    BY <1>5 DEF ReportNode, investigation_report_node, planner_node, PlanWritten
  <2> QED
    BY <2>1, LengthOnwards
<1>6. CASE HumanReviewSuspends
  <2>1. /\ active /\ ~active' /\ next = {"human_review"}
        /\ UNCHANGED <<next, inv>> /\ resume' = NoDecision
    BY <1>6 DEF HumanReviewSuspends
  <2>2. count'.supersteps \in Nat /\ count'.supersteps <= count.supersteps + 1
    BY <1>6, SuperstepCounts DEF HumanReviewSuspends, Counts
  <2> QED
    BY <2>1, <2>2, LengthTypes DEF LengthInv
<1>7. CASE HumanReviewResumes
  <2>1. /\ inv' = inv /\ resume # NoDecision
        /\ \E m \in {{"executor"}, {}} : RunTo("human_review", m)
    BY <1>7 DEF HumanReviewResumes, route_after_decision
  <2> QED
    BY <2>1, LengthOnwards
<1>8. CASE ExecutorNode
  <2>1. inv' = inv /\ RunTo("executor", {})
    BY <1>8 DEF ExecutorNode, executor_node
  <2> QED
    BY <2>1, LengthOnwards
<1> QED
  BY <1>1, <1>2, <1>3, <1>4, <1>5, <1>6, <1>7, <1>8, EnrichmentStep DEF Node

LEMMA LengthStep ==
    ASSUME TypeOK, LengthInv, [Next]_vars
    PROVE  LengthInv'
<1>1. CASE \/ \E a \in AlertShapes : Invoke(a)
           \/ Surfaces
  <2>1. /\ count'.supersteps = 0 /\ inv' = inv
        /\ \/ next' = {"orchestrator"} /\ resume' = NoDecision
           \/ next' = next
    BY <1>1 DEF Invoke, Surfaces, Resume, TypeOK, Counts
  <2> QED
    BY <2>1, LengthTypes DEF LengthInv, Agents
<1>2. CASE \/ \E f \in Flippable : Reconfigure(f)
           \/ NodeRaises \/ EffectUnrecorded \/ Timeout \/ UNCHANGED vars
  <2>1. /\ count'.supersteps = count.supersteps /\ next' = next
        /\ inv'.calls = inv.calls /\ inv'.used = inv.used
        /\ active' \in {active, FALSE} /\ resume' \in {resume, NoDecision}
    BY <1>2, BreakStep DEF Reconfigure, RunBreaks, Timeout, vars, TypeOK, Counts, Investigations
  <2>2. active' => active
    BY <1>2, BreakStep DEF Reconfigure, RunBreaks, Timeout, vars
  <2> QED
    BY <2>1, <2>2, LengthTypes DEF LengthInv
<1> QED
  BY <1>1, <1>2, LengthNode DEF Next

\* No invoke() takes more supersteps than LangGraph allows, if it allows two for
\* each call of the budget and five for the rest of the graph (build_graph; the
\* default limit of 25 is just that for the default budget of 10).
THEOREM RunsWithinLimit ==
    ASSUME 2 * MaxToolCalls + 5 <= RecursionLimit PROVE Spec => []WithinRecursionLimit
<1>1. Init => LengthInv
  BY TriageGraphAssumption DEF Init, LengthInv
<1>2. TypeOK /\ LengthInv /\ [Next]_vars => LengthInv'
  BY LengthStep
<1>3. TypeOK /\ LengthInv => WithinRecursionLimit
  BY LengthTypes, TriageGraphAssumption DEF LengthInv, WithinRecursionLimit
<1> QED
  BY <1>1, <1>2, <1>3, GraphTypeCorrect, PTL DEF Spec

-----------------------------------------------------------------------------
(* A thread that is triaged once and decided on a surface that needs a     *)
(* ticket.  With a second run or an ungated surface the theorems below     *)
(* do not hold (run GraphStaleTicket).                                     *)

OneGatedRun == MaxRuns <= 1 /\ ~UngatedSurface

\* A decision reaches the graph only after this run handed out its ticket.
AskInv ==
    /\ count.runs = 0 => next = {} /\ tickets = {}
    /\ next \cap Agents # {} => next \subseteq Agents
    /\ tickets # {} => asked
    /\ resume # NoDecision => asked
    /\ "executor" \in next => asked

LEMMA AskUntouched ==
    ASSUME AskInv, count'.runs = count.runs, UNCHANGED <<tickets, asked>>,
           resume' \in {resume, NoDecision}, next # {} \/ next' = next,
           "executor" \in next' => "executor" \in next,
           next' \cap Agents # {} => next' \subseteq Agents
    PROVE  AskInv'
BY DEF AskInv

LEMMA AskStep ==
    ASSUME OneGatedRun, TypeOK, AskInv, [Next]_vars
    PROVE  AskInv'
<1> SuperstepEnds => count'.runs = count.runs
  BY SuperstepCounts
<1>1. CASE orchestrator_node \/ synthesizer_node \/ auto_close_node
  BY <1>1, AskUntouched
  DEF orchestrator_node, synthesizer_node, Synthesize, auto_close_node, RunTo,
      route_after_synthesis, Agents
<1>2. CASE \E a \in Agents, o \in Outcomes : enrichment_node(a, o)
  <2>1. PICK a \in Agents, o \in Outcomes : enrichment_node(a, o)
    BY <1>2
  <2>2. next \subseteq Agents
    BY <2>1 DEF enrichment_node, AskInv
  <2>3. /\ next # {} /\ (next' \subseteq next \/ next' = {"synthesizer"})
        /\ count'.runs = count.runs /\ UNCHANGED <<tickets, asked>>
        /\ resume' \in {resume, NoDecision}
    BY <2>1 DEF enrichment_node
  <2> QED
    BY <2>1, <2>2, <2>3, AskUntouched DEF enrichment_node, Agents
<1>3. CASE InvestigatorNode \/ investigation_tools \/ ReportNode \/ planner_node
  <2>1. /\ \E n, m \in Nodes \ (Agents \cup {"executor"}) : next = {n} /\ next' = {m}
        /\ count'.runs = count.runs /\ UNCHANGED <<tickets, asked>>
        /\ resume' = NoDecision
    BY <1>3
    DEF InvestigatorNode, InvestigatorTurn, InvestigatorFails, investigation_tools,
        ReportNode, investigation_report_node, planner_node, PlanWritten, RunTo,
        should_continue, Nodes, Agents
  <2> QED
    BY <2>1, AskUntouched
<1>4. CASE HumanReviewSuspends
  BY <1>4 DEF HumanReviewSuspends, AskInv
<1>5. CASE HumanReviewResumes
  BY <1>5 DEF HumanReviewResumes, RunTo, route_after_decision, AskInv, Agents
<1>6. CASE ExecutorNode
  BY <1>6, AskUntouched DEF ExecutorNode, executor_node, RunTo
<1>7. CASE \E a \in AlertShapes : Invoke(a)
  <2>1. PICK a \in AlertShapes : Invoke(a)
    BY <1>7
  <2>2. count \in Counts /\ MaxRuns \in Nat /\ MaxRuns <= 1 /\ count.runs < MaxRuns
    BY <2>1, TriageGraphAssumption DEF Invoke, OneGatedRun, TypeOK
  <2>3. count.runs = 0 /\ [count EXCEPT !.runs = @ + 1, !.supersteps = 0].runs = 1
    BY <2>2 DEF Counts
  <2>4. count'.runs = 1 /\ tickets' = {}
    BY <2>1, <2>3 DEF Invoke, AskInv
  <2>5. next' = {"orchestrator"} /\ resume' = NoDecision
    BY <2>1 DEF Invoke
  <2> QED
    BY <2>4, <2>5 DEF AskInv, Agents
<1>8. CASE Surfaces
  <2>1. count'.runs = count.runs /\ UNCHANGED <<next, tickets, asked>> /\ tickets # {}
    BY <1>8 DEF Surfaces, Resume, TypeOK, Counts, OneGatedRun
  <2> QED
    BY <2>1 DEF AskInv
<1>9. CASE \/ \E f \in Flippable : Reconfigure(f)
           \/ NodeRaises \/ EffectUnrecorded \/ Timeout \/ UNCHANGED vars
  <2>1. /\ count'.runs = count.runs /\ UNCHANGED <<next, tickets, asked>>
        /\ resume' \in {resume, NoDecision}
    BY <1>9, BreakStep DEF Reconfigure, RunBreaks, Timeout, vars, TypeOK, Counts
  <2> QED
    BY <2>1 DEF AskInv
<1> QED
  BY <1>1, <1>2, <1>3, <1>4, <1>5, <1>6, <1>7, <1>8, <1>9, EnrichmentStep DEF Next, Node

LEMMA AskedFirst == ASSUME OneGatedRun PROVE Spec => []AskInv
<1>1. Init => AskInv
  BY DEF Init, AskInv
<1>2. TypeOK /\ AskInv /\ [Next]_vars => AskInv'
  BY AskStep
<1> QED
  BY <1>1, <1>2, GraphTypeCorrect, PTL DEF Spec

LEMMA OnlyExecutorActs ==
    ASSUME [Next]_vars, contained' # contained
    PROVE  next = {"executor"} /\ contained' \ contained \subseteq Actionable
<1>1. CASE ExecutorNode
  BY <1>1 DEF ExecutorNode, executor_node, RunTo
<1>2. CASE EffectUnrecorded
  BY <1>2 DEF EffectUnrecorded, ToolsUnrecorded, ContainmentUnrecorded
<1>3. CASE Node /\ ~ExecutorNode
  BY <1>3
  DEF Node, orchestrator_node, threat_intel_node, identity_node, endpoint_node,
      enrichment_node, synthesizer_node, Synthesize,
      auto_close_node, InvestigatorNode, InvestigatorTurn, InvestigatorFails,
      investigation_tools, ReportNode, investigation_report_node, planner_node,
      PlanWritten, HumanReviewSuspends, HumanReviewResumes
<1>4. CASE ~Node /\ ~EffectUnrecorded
  BY <1>4 DEF Next, Reconfigure, Invoke, Surfaces, Resume, NodeRaises, Timeout, vars
<1> QED
  BY <1>1, <1>2, <1>3, <1>4

LEMMA ContainmentStep ==
    ASSUME TypeOK, AskInv, [Next]_vars, contained' # contained
    PROVE  /\ asked /\ decision # NoDecision
           /\ OwnWords[decision] \cup ByWords[decision] = {"approving"}
<1>1. contained \subseteq contained'
  BY DEF Next, Node, orchestrator_node, threat_intel_node, identity_node, endpoint_node,
      enrichment_node, synthesizer_node, Synthesize,
      auto_close_node, InvestigatorNode, InvestigatorTurn, InvestigatorFails,
      investigation_tools, ReportNode, investigation_report_node, planner_node,
      PlanWritten, HumanReviewSuspends, HumanReviewResumes, ExecutorNode, executor_node,
      Reconfigure, Invoke, Surfaces, Resume, NodeRaises, Timeout, vars,
      EffectUnrecorded, ToolsUnrecorded, ContainmentUnrecorded
<1>2. "executor" \in next /\ Actionable # {}
  BY <1>1, OnlyExecutorActs
<1>3. decision_approves_response(decision)
  BY <1>2 DEF Actionable
<1>4. decision \in Decisions
  BY <1>3 DEF TypeOK, decision_approves_response
<1>5. OwnWords[decision] \cup ByWords[decision] \subseteq Words
  BY <1>4, GateAssumption
<1> QED
  BY <1>2, <1>3, <1>5 DEF AskInv, decision_approves_response, Words

\* Containment acts only after this run put a ticket in front of a human, and
\* only on a recorded decision that approves without rejecting (executor_node,
\* route_after_decision).
THEOREM ContainmentNeedsApproval ==
    ASSUME OneGatedRun PROVE Spec => ContainmentApproved
<1>1. TypeOK /\ AskInv /\ [Next]_vars =>
        [contained' # contained =>
            /\ asked /\ decision # NoDecision
            /\ OwnWords[decision] \cup ByWords[decision] = {"approving"}]_vars
  BY ContainmentStep
<1> QED
  BY <1>1, AskedFirst, GraphTypeCorrect, PTL DEF Spec, ContainmentApproved

\* Only one plan is ever on a ticket, the one in the channel, and it stays
\* there; a decision that is on its way was taken from that ticket.
TicketInv ==
    /\ tickets \subseteq {plan}
    /\ tickets # {} => next \subseteq {"human_review", "executor"}
    /\ resume # NoDecision \/ "executor" \in next => seen \in tickets

LEMMA TicketStep ==
    ASSUME OneGatedRun, TypeOK, AskInv, TicketInv, [Next]_vars
    PROVE  TicketInv'
\* The nodes before the ticket.
<1>1. ASSUME next # {}, ~(next \subseteq {"human_review", "executor"}), tickets' = tickets,
             resume' \in {resume, NoDecision}, "executor" \notin next'
      PROVE  TicketInv'
  BY <1>1 DEF TicketInv
<1>2. CASE orchestrator_node \/ synthesizer_node \/ auto_close_node
  BY <1>1, <1>2
  DEF orchestrator_node, synthesizer_node, Synthesize, auto_close_node, RunTo,
      route_after_synthesis, Agents
<1>3. CASE \E a \in Agents, o \in Outcomes : enrichment_node(a, o)
  <2>1. PICK a \in Agents, o \in Outcomes : enrichment_node(a, o)
    BY <1>3
  <2>2. /\ a \in next /\ next \subseteq Agents /\ tickets' = tickets
        /\ next' \subseteq next \cup {"synthesizer"} /\ resume' \in {resume, NoDecision}
    BY <2>1 DEF enrichment_node, AskInv
  <2> QED
    BY <1>1, <2>2 DEF Agents
<1>4. CASE InvestigatorNode \/ investigation_tools \/ ReportNode \/ planner_node
  <2>1. /\ \E n, m \in Nodes \ {"human_review", "executor"} :
              next = {n} /\ next' \in {{m}, {"human_review"}}
        /\ tickets' = tickets /\ resume' = NoDecision
    BY <1>4
    DEF InvestigatorNode, InvestigatorTurn, InvestigatorFails, investigation_tools,
        ReportNode, investigation_report_node, planner_node, PlanWritten, RunTo,
        should_continue, Nodes, Agents
  <2> QED
    BY <1>1, <2>1
<1>5. CASE HumanReviewSuspends
  BY <1>5 DEF HumanReviewSuspends, TicketInv
<1>6. CASE HumanReviewResumes
  BY <1>6 DEF HumanReviewResumes, RunTo, route_after_decision, TicketInv
<1>7. CASE ExecutorNode
  BY <1>7 DEF ExecutorNode, executor_node, RunTo, TicketInv
<1>8. CASE \E a \in AlertShapes : Invoke(a)
  <2>1. PICK a \in AlertShapes : Invoke(a)
    BY <1>8
  <2>2. count.runs \in Nat /\ MaxRuns \in Nat /\ MaxRuns <= 1 /\ count.runs < MaxRuns
    BY <2>1, TriageGraphAssumption DEF Invoke, OneGatedRun, TypeOK, Counts
  <2>3. tickets = {}
    BY <2>2 DEF AskInv
  <2> QED
    BY <2>1, <2>3 DEF Invoke, TicketInv
<1>9. CASE Surfaces
  BY <1>9 DEF Surfaces, Resume, TicketInv, OneGatedRun
<1>10. CASE \/ \E f \in Flippable : Reconfigure(f)
            \/ NodeRaises \/ EffectUnrecorded \/ Timeout \/ UNCHANGED vars
  BY <1>10, BreakStep DEF Reconfigure, RunBreaks, Timeout, vars, TicketInv
<1> QED
  BY <1>2, <1>3, <1>4, <1>5, <1>6, <1>7, <1>8, <1>9, <1>10, EnrichmentStep DEF Next, Node

LEMMA OnTicketStep ==
    ASSUME TicketInv, [Next]_vars, NEW t \in contained' \ contained
    PROVE  t \in alert.entities /\ \E i \in DOMAIN seen : seen[i] = t
<1>1. t \in Actionable /\ "executor" \in next
  BY OnlyExecutorActs
<1>2. t \in Permitted(plan, alert) /\ "executor" \in next
  BY <1>1 DEF Actionable
<1>3. seen = plan
  BY <1>2 DEF TicketInv
<1> QED
  BY <1>2, <1>3 DEF Permitted, allowed_targets

\* What the executor does was on the ticket the approver was looking at, and on
\* an entity the alert names (executor_node, allowed_targets: "only on actions a
\* human approved"), whatever flags flip, nodes raise and decisions are repeated
\* in between, and whether or not the act was recorded.
THEOREM ExecutedFromTicket ==
    ASSUME OneGatedRun PROVE Spec => ExecutedWasOnTicket
<1>1. Init => TicketInv
  BY DEF Init, TicketInv
<1>2. TypeOK /\ AskInv /\ TicketInv /\ [Next]_vars => TicketInv'
  BY TicketStep
<1>3. TicketInv /\ [Next]_vars =>
        [\A t \in contained' \ contained :
            t \in alert.entities /\ \E i \in DOMAIN seen : seen[i] = t]_vars
  BY OnTicketStep
<1> QED
  BY <1>1, <1>2, <1>3, AskedFirst, GraphTypeCorrect, PTL DEF Spec, ExecutedWasOnTicket

-----------------------------------------------------------------------------
(* Refinement.                                                             *)

\* Steps inside triage, and steps that leave the thread where it is.
LEMMA PhaseKept ==
    ASSUME UNCHANGED <<contained, count.raises>>,
           Phase' = Phase \/ Phase' = "triage"
    PROVE  [Promise!Next]_(Promise!vars)
BY DEF Promise!Next, Promise!Restart, Promise!vars

LEMMA PromiseStep ==
    ASSUME TypeOK, TypeOK', AskInv, [Next]_vars
    PROVE  [Promise!Next]_(Promise!vars)
<1> SuperstepEnds => count'.runs = count.runs /\ count'.raises = count.raises
  BY SuperstepCounts, SuperstepRepeats
<1>0. next # {} => count.runs # 0
  BY DEF AskInv
<1>1. CASE orchestrator_node \/ synthesizer_node
  <2>1. Phase' = "triage" /\ UNCHANGED <<contained, count.raises>>
    BY <1>1
    DEF orchestrator_node, synthesizer_node, Synthesize, RunTo, route_after_synthesis,
        Phase, Agents
  <2> QED
    BY <2>1, PhaseKept
<1>2. CASE \E a \in Agents, o \in Outcomes : enrichment_node(a, o)
  <2>1. PICK a \in Agents, o \in Outcomes : enrichment_node(a, o)
    BY <1>2
  <2>2. next \subseteq Agents
    BY <2>1 DEF enrichment_node, AskInv
  <2>3. next' # {} /\ (next' \subseteq Agents \/ next' = {"synthesizer"})
    BY <2>1, <2>2 DEF enrichment_node
  <2>4. Phase' = "triage" /\ UNCHANGED <<contained, count.raises>>
    BY <2>1, <2>3 DEF enrichment_node, Phase, Agents
  <2> QED
    BY <2>4, PhaseKept
<1>3. CASE auto_close_node
  <2>1. Phase = "triage" /\ Phase' = "ended" /\ UNCHANGED <<contained, count.raises>>
    BY <1>0, <1>3 DEF auto_close_node, RunTo, Phase
  <2> QED
    BY <2>1 DEF Promise!Next, Promise!Close, Promise!Move
<1>4. CASE InvestigatorNode \/ investigation_tools \/ ReportNode
  <2>1. Phase' = "triage" /\ UNCHANGED <<contained, count.raises>>
    BY <1>4
    DEF InvestigatorNode, InvestigatorTurn, InvestigatorFails, investigation_tools,
        ReportNode, investigation_report_node, RunTo, should_continue, Phase
  <2> QED
    BY <2>1, PhaseKept
<1>5. CASE planner_node
  <2>1. Phase = "triage" /\ Phase' \in {"triage", "waiting"} /\ UNCHANGED <<contained, count.raises>>
    BY <1>5 DEF planner_node, PlanWritten, RunTo, Phase
  <2> QED
    BY <2>1 DEF Promise!Next, Promise!Ask, Promise!Move, Promise!vars
<1>6. CASE HumanReviewSuspends
  <2>1. Phase \in {"triage", "waiting"} /\ Phase' = "waiting" /\ UNCHANGED <<contained, count.raises>>
    BY <1>6 DEF HumanReviewSuspends, Phase
  <2> QED
    BY <2>1 DEF Promise!Next, Promise!Ask, Promise!Move, Promise!vars
<1>7. CASE HumanReviewResumes
  <2>1. asked /\ next = {"human_review"} /\ UNCHANGED <<contained, count.raises>> /\ count'.runs = count.runs
    BY <1>7 DEF HumanReviewResumes, RunTo, AskInv
  <2>2. next' \in {{}, {"executor"}}
    BY <1>7 DEF HumanReviewResumes, RunTo, route_after_decision
  <2>3. Phase = "waiting" /\ Phase' \in {"ended", "approved"}
    BY <1>0, <2>1, <2>2 DEF Phase
  <2> QED
    BY <2>1, <2>3 DEF Promise!Next, Promise!Approve, Promise!Dismiss, Promise!Move
<1>8. CASE ExecutorNode
  <2>1. Phase = "approved" /\ Phase' = "ended"
    BY <1>0, <1>8 DEF ExecutorNode, executor_node, RunTo, Phase
  <2>2. contained \subseteq contained' /\ contained' \in SUBSET Targets
    BY <1>8 DEF ExecutorNode, executor_node, TypeOK
  <2>3. count'.raises = count.raises
    BY <1>8 DEF ExecutorNode, executor_node, RunTo
  <2> QED
    BY <2>1, <2>2, <2>3 DEF Promise!Next, Promise!Contain, Promise!Act
<1>9. CASE \E a \in AlertShapes : Invoke(a)
  <2>1. Phase' = "triage" /\ UNCHANGED <<contained, count.raises>>
    BY <1>9 DEF Invoke, Phase
  <2> QED
    BY <2>1, PhaseKept
<1>10. CASE \/ \E f \in Flippable : Reconfigure(f)
            \/ Surfaces \/ Timeout \/ UNCHANGED vars
  <2>1. count'.runs = count.runs /\ UNCHANGED <<next, asked, contained, count.raises>>
    BY <1>10 DEF Reconfigure, Surfaces, Resume, Timeout, vars, TypeOK, Counts
  <2> QED
    BY <2>1, PhaseKept DEF Phase
<1>11. CASE NodeRaises \/ EffectUnrecorded
  <2>1. /\ count'.runs = count.runs /\ count'.raises = count.raises + 1
        /\ UNCHANGED <<next, asked>>
    BY <1>11, BreakStep DEF RunBreaks, TypeOK, Counts
  <2>2. UNCHANGED Phase
    BY <2>1 DEF Phase
  <2>3. CASE UNCHANGED contained
    BY <2>1, <2>2, <2>3 DEF Promise!Next, Promise!Fail
  <2>4. CASE \E done \in SUBSET Actionable : ContainmentUnrecorded(done)
    <3>1. next = {"executor"} /\ contained \subseteq contained'
      BY <2>4 DEF ContainmentUnrecorded
    <3>2. Phase = "approved" /\ contained' \in SUBSET Targets
      BY <1>0, <3>1 DEF Phase, TypeOK
    <3> QED
      BY <2>1, <2>2, <3>1, <3>2 DEF Promise!Next, Promise!Fail, Promise!Act
  <2> QED
    BY <1>11, <2>3, <2>4 DEF NodeRaises, EffectUnrecorded, ToolsUnrecorded
<1> QED
  BY <1>1, <1>2, <1>3, <1>4, <1>5, <1>6, <1>7, <1>8, <1>9, <1>10, <1>11, EnrichmentStep DEF Next, Node

\* The graph implements HumanInTheLoop: an alert is closed by the gate or
\* waits for the human who was asked, only an approval leads to containment, and
\* it does so once, and once more for each run that broke off.
THEOREM GraphImplementsPromise ==
    ASSUME OneGatedRun PROVE Spec => ImplementsPromise
<1>1. Init => Promise!Init
  BY DEF Init, Promise!Init, Phase
<1>2. TypeOK /\ TypeOK' /\ AskInv /\ [Next]_vars => [Promise!Next]_(Promise!vars)
  BY PromiseStep
<1> QED
  BY <1>1, <1>2, AskedFirst, GraphTypeCorrect, PTL DEF Spec, ImplementsPromise, Promise!Spec

=============================================================================
