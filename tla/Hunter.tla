------------------------------- MODULE Hunter -------------------------------
(***************************************************************************)
(* `python -m aegis.hunt_cli --all --file` (aegis/hunter.py, hunt_cli.py): *)
(* one process runs the hypotheses one after the other.  A hunt asks a     *)
(* model what to query, runs what it asks for within a budget, has a       *)
(* report written, and files its findings as alerts.  Its tools include    *)
(* those of McpClient and the inventory of AssetFile.                      *)
(*                                                                         *)
(* What a query returns is left out: no step depends on it.  A finding is  *)
(* filed under a fresh random id.                                          *)
(***************************************************************************)
EXTENDS AlertStore, McpClient, AssetFile

CONSTANTS
    hunter,        \* the process
    reader,        \* its thread, as a reader of the inventory
    HuntIds,       \* the ids its alerts may get
    Hypotheses,    \* how many there are to run
    Budget,        \* settings.hunt_max_tool_calls
    Cap,           \* settings.hunt_max_findings
    MaxBatch,      \* bound: tool calls in one answer of the model
    MaxFindings    \* bound: findings in one report

ASSUME HunterAssumption ==
    /\ hunter \in Processes /\ reader \in Readers /\ HuntIds \subseteq AlertIds
    /\ Hypotheses \in Nat \ {0} /\ Budget \in Nat \ {0} /\ Cap \in Nat \ {0}
    /\ MaxBatch \in Nat \ {0} /\ MaxFindings \in Nat

NoId == "none"

VARIABLES hunt   \* where the process is, and what the hunt under way has done

huntVars == <<hunt>>
huntDeps == <<storeVars, mcpVars, assetVars>>

\* used: the code's count; made: history, the calls that were made.  calls: of
\* the model's last answer, still to run.  findings: of the report, still to
\* file.  filed: of this hunt.
NewHunt(n) == [at |-> "tools", number |-> n, used |-> 0, made |-> 0, calls |-> 0,
               findings |-> 0, filed |-> 0, id |-> NoId]

\* main: the process starts its first hunt, if it runs at all.
HuntInit(on) ==
    hunt = IF on THEN NewHunt(1) ELSE [NewHunt(1) EXCEPT !.at = "exited"]

At(place) == hunt.at = place
Goes(place) == hunt' = [hunt EXCEPT !.at = place]

\* The process ends, by itself or by an exception, and its queue with it.  No
\* worker runs in it.
Exits ==
    /\ Goes("exited")
    /\ queue' = [queue EXCEPT ![hunter] = <<>>]
    /\ UNCHANGED <<triaged, puts, mcpVars, assetVars>>

-----------------------------------------------------------------------------
(* hunt()                                                                  *)

\* _tool_map and bind_tools: the external tools are loaded, or were before.
LoadTools ==
    /\ At("tools") /\ LoadStep
    /\ UNCHANGED <<storeVars, assetVars, hunt>>

ToolsAtHand ==
    /\ At("tools") /\ HaveTools
    /\ Goes("asking")
    /\ UNCHANGED huntDeps

\* _tool_map is called outside the try block: the exception ends the process.
ToolsRaise ==
    /\ At("tools") /\ LoadRaises
    /\ Exits /\ UNCHANGED registry

\* The model asks for a batch of calls, or for none.
AskModel ==
    /\ At("asking") /\ hunt.used < Budget
    /\ \E n \in 0..MaxBatch :
          hunt' = [hunt EXCEPT !.calls = n, !.at = IF n = 0 THEN "reporting" ELSE "calling"]
    /\ UNCHANGED huntDeps

\* The loop's condition.
OutOfBudget ==
    /\ At("asking") /\ hunt.used >= Budget
    /\ Goes("reporting")
    /\ UNCHANGED huntDeps

\* Mutant: an answer counts once, however many calls it asks for.
CountedOnce == [hunt EXCEPT !.used = IF hunt.calls = 1 THEN @ + 1 ELSE @,
                            !.made = @ + 1, !.calls = @ - 1]

\* A call is counted before it is made; nothing looks at the budget until the
\* batch is through.
Counted == [hunt EXCEPT !.used = @ + 1, !.made = @ + 1, !.calls = @ - 1]

NextCall(h) == [h EXCEPT !.at = IF h.calls = 0 THEN "asking" ELSE "calling"]

\* Text comes back, and the hunt goes on: so it is with a tool that does not
\* exist.
CallReturnsText ==
    /\ At("calling")
    /\ hunt' = NextCall(Counted)
    /\ UNCHANGED huntDeps

\* A search that fails reads as one that found no events.
CallLogTool == CallReturnsText

\* A server that has failed, answers with an error or does not answer in time
\* is reported as text.
CallMcpTool == load.kept # <<>> /\ CallReturnsText

\* get_asset_context and list_known_assets look into the inventory.  (Without a
\* file it is a constant table, and the call returns text.)
CallAssetTool ==
    /\ At("calling")
    /\ StartLookup(reader)
    /\ hunt' = [Counted EXCEPT !.at = "looking"]
    /\ UNCHANGED <<storeVars, mcpVars>>

AssetToolAnswers ==
    /\ At("looking") /\ lookup[reader].at = "returned"
    /\ hunt' = NextCall(hunt)
    /\ UNCHANGED huntDeps

\* The model writes the report: what is over the limit is dropped.
Report ==
    /\ At("reporting")
    /\ \E n \in 0..MaxFindings :
          hunt' = [hunt EXCEPT !.at = "filing", !.findings = IF n < Cap THEN n ELSE Cap]
    /\ UNCHANGED huntDeps

\* Instead of a report the model returns nothing: what is made of it is made
\* outside the try block.
ReportIsNone ==
    /\ At("reporting")
    /\ Exits /\ UNCHANGED registry

\* A model that cannot be built or reached, arguments a tool refuses, an
\* inventory that does not load: the hunt reports no findings.
HuntFails ==
    /\ \/ At("asking") /\ hunt.used < Budget
       \/ At("reporting")
       \/ At("looking") /\ lookup[reader].at = "raised"
    /\ hunt' = [hunt EXCEPT !.at = "filing", !.calls = 0]
    /\ UNCHANGED huntDeps

CallRefused ==
    /\ At("calling")
    /\ hunt' = [Counted EXCEPT !.at = "filing", !.calls = 0]
    /\ UNCHANGED huntDeps

-----------------------------------------------------------------------------
(* file_findings and main.                                                 *)

\* A finding that makes no valid alert is passed over.
SkipFinding ==
    /\ At("filing") /\ hunt.findings > 0
    /\ hunt' = [hunt EXCEPT !.findings = @ - 1]
    /\ UNCHANGED huntDeps

ClaimFinding ==
    /\ At("filing") /\ hunt.findings > 0
    /\ \E i \in HuntIds \ registry :
          Claimed(i) /\ hunt' = [hunt EXCEPT !.at = "putting", !.id = i, !.findings = @ - 1]
    /\ UNCHANGED <<mcpVars, assetVars>>

\* create_if_absent raises and nothing catches it: the INSERT was made or not.
ClaimRaises ==
    /\ At("filing") /\ hunt.findings > 0
    /\ Exits
    /\ \/ UNCHANGED registry
       \/ \E i \in HuntIds : registry' = registry \cup {i}

\* The put is on the queue of this process.
PutFinding ==
    /\ At("putting")
    /\ QueuePut(hunter, hunt.id)
    /\ hunt' = [hunt EXCEPT !.at = "filing", !.id = NoId, !.filed = @ + 1]
    /\ UNCHANGED <<mcpVars, assetVars>>

\* The next hypothesis; after the last, main returns.
NextHunt ==
    /\ At("filing") /\ hunt.findings = 0
    /\ \/ /\ hunt.number < Hypotheses
          /\ hunt' = NewHunt(hunt.number + 1) /\ UNCHANGED huntDeps
       \/ /\ hunt.number = Hypotheses
          /\ Exits /\ UNCHANGED registry

-----------------------------------------------------------------------------
LookUp == LookupStep(reader) /\ UNCHANGED <<storeVars, mcpVars, huntVars>>

HuntStep ==
    \/ LookUp
    \/ LoadTools \/ ToolsAtHand \/ ToolsRaise
    \/ AskModel \/ OutOfBudget
    \/ CallLogTool \/ CallMcpTool \/ CallAssetTool \/ AssetToolAnswers \/ CallRefused
    \/ Report \/ ReportIsNone \/ HuntFails
    \/ SkipFinding \/ ClaimFinding \/ ClaimRaises \/ PutFinding \/ NextHunt

\* The process's other thread and the servers move as well.
HunterNext ==
    \/ HuntStep
    \/ OpenServer /\ UNCHANGED <<storeVars, assetVars, huntVars>>
    \/ \E s \in Servers : Degrade(s) /\ UNCHANGED <<storeVars, assetVars, huntVars>>

\* The process runs, and what it calls answers or times out.
HunterFairness == WF_<<huntDeps, huntVars>>(HuntStep)

-----------------------------------------------------------------------------
HunterTypeOK ==
    hunt \in [at: {"tools", "asking", "calling", "looking", "reporting", "filing",
                   "putting", "exited"},
              number: 1..Hypotheses, used: Nat, made: Nat, calls: 0..MaxBatch, findings: Nat,
              filed: Nat, id: HuntIds \cup {NoId}]

\* "Bounded": however the model batches its calls, each hunt of a process
\* overshoots its budget by less than one batch and files no more than the
\* limit ("A hunt that fills the queue is worse than one that finds nothing").
HuntBounded ==
    /\ hunt.made <= Budget - 1 + MaxBatch
    /\ hunt.filed + hunt.findings <= Cap

\* "An unreachable server should cost the tools it would have provided": the
\* process comes to its end whatever its servers, the inventory and the models
\* do, given room in its queue for what it files.
HuntEnds == <>(hunt.at = "exited")

\* "files what it finds as alerts into the normal pipeline", "Enqueue findings
\* for triage": what a hunt has put on a queue is triaged in the end.
FiledIsTriaged == \A i \in HuntIds : puts[i] > 0 ~> i \in triaged
=============================================================================
