# A verification development for Aegis SOC triage

TLA+ models of the alert triage service in `src/aegis`, TLC configurations that check
them on small instances, and TLAPS proofs of what matters most. Nothing here runs with
the service; the modules are read beside the code, and every definition that models code
is listed with its source lines in `PROJECT.json` ("map").

## The system

An alert enters through the webhook, the Splunk poller or a threat hunt, waits in a bounded queue, is
taken by one worker thread, and is triaged by a LangGraph graph. The graph either closes
the alert or suspends it with a ticket for an analyst; the analyst answers over REST,
Slack or MCP; an approved containment plan is then executed.

| Part | Source | State it keeps | Operations |
|---|---|---|---|
| Triage graph | `graph.py`, `schemas/state.py` | one thread per alert in the checkpointer: channels, pending nodes | nodes and routing functions; invoke, resume |
| Synthesis | `nodes/synthesizer.py` | none | model answer, then `_enforce_safety_rules` |
| Enrichment | `nodes/threat_intel.py`, `identity.py`, `endpoint.py` | none | one lookup each, failure reported as data |
| Investigator | `nodes/investigator.py` | messages, `tool_calls_used`, start time (channels) | turn, tools, report |
| Planner, executor | `nodes/planner.py`, `nodes/executor.py` | `response_plan`, `executed_actions` (channels) | propose, perform |
| Registry, queue | `ingest/store.py`, `store_pg.py` | a record per alert; `ALERT_QUEUE` | create_if_absent, update, get; put, get |
| Dedupe index | `dedup.py`, `store_pg.py` | fingerprint -> first alert, count, first_seen | check |
| Worker | `ingest/worker.py` | the alert in hand | triage_once, retry, catch-all |
| Ingestion | `ingest/api.py` | none | receive, decide |
| Splunk poller | `ingest/splunk_poller.py`, `splunk_source.py` | `POLL_HEALTH`; no checkpoint | search a window, claim, put, record |
| Threat hunter | `hunter.py`, `hunt_cli.py`, `schemas/hunt.py` | budget and report of the hunt under way | hunt, file_findings |
| Decisions | `decisions.py` | none | apply_decision |
| Slack | `notify/slack.py`, `slack_handler.py` | messages in the channel | post, refresh, resolve |
| MCP server | `mcp_server.py` | none | triage_alert, submit_decision |
| Settings | `llm/config.py` | the environment, re-read by each caller | |
| Tool clients | `tools/_http.py`, `vt_client.py`, `isc_client.py`, `edr_client.py`, `keycloak_client.py`, `containment.py` | a bearer token per provider under a lock; the reputation cache | lookup, authenticate, retry, contain |
| Asset file | `tools/assets_file.py` | `_assets`, `_mtime` under a lock | refresh, look up |
| External MCP tools | `tools/mcp_client.py`, `mcp_tools.py` | a thread with open sessions; the loaded tools | start, list, filter, call |
| Log search, model providers, metrics, other CLIs, simulation | see `PROJECT.json` | counters | |

How they interact. Producers call the registry and then the queue. The worker calls the
dedupe index, the registry, the graph, Slack, the checkpointer and the registry again,
in that order and without any lock across calls. A deciding surface calls the
checkpointer, the graph, the registry and Slack, also without a lock. With
`POSTGRES_URL` set the registry, the index and the checkpointer are shared by processes:
the API with its worker and poller in one, the Slack handler and the MCP server in
others. The queue is in the memory of the ingest process. A poller is a
thread of the API or a process by itself, and a hunt is a process: each claims its alerts
in the shared registry and puts them on the queue of its own process. A hunt looks assets
up in a file that somebody else edits, and calls tools of MCP servers that a background
thread opens. The enrichment nodes of one run
call the tool clients from threads of their own, and the executor calls one of them on
behalf of an analyst: those calls meet in the token, its lock and the cache.

What is hard: interleavings of the worker's and the deciders' calls; a decision on a
thread that is not where the surface believes; retries of a step that already left
something behind; effects that come before their record; calls that fail between two
writes, or take effect and are not answered; restarts; flags that change in
mid-run; a queue that is full; a second run of one thread; a token that expires in
mid-lookup, an answer that is lost or cannot be read; polls that overlap, fail, or take
longer than the overlap; a file that changes between a look at its time and its load; a
subprocess that hangs while somebody waits for it. `PROJECT.json` ("hazards")
lists each at its line, with the property that covers it.

What makes each part correct:

* graph: nothing closes without evidence; nothing found later closes an alert; nothing is
  contained without an approval; the investigation ends, within its budget but for calls a
  broken run left unrecorded;
* registry, queue, worker: an alert is in one place, is not forgotten, gets one ticket,
  and ends in a final status;
* dedupe: a suppressed alert belongs to a triaged one, and is counted; a window begins with
  the first alert of its kind, whichever index keeps it;
* poller: no event is put twice, none is missed that the overlap can save, and a stalled
  search is reported once;
* hunter: a hunt is bounded, ends, and what it files is triaged;
* asset file: a lookup answers from what was at the path while it ran, as far as times tell;
* MCP client: tools that write never reach a model, and no server stops a hunt;
* decisions: what waits can be decided, a decision is not lost or undone, and it contains
  once;
* tool clients: a failure never reads as a finding, containment is not repeated, a cached
  verdict ages out, every call returns.

## Modules

* `Gate` - the pure functions: `_enforce_safety_rules`, `gate_decision`, the routes,
  `decision_approves_response`, `allowed_targets`. A confidence is a percentage, a
  severity or criticality a rank, an entity the name of the alert field holding it. A
  decision is a value with two sets of word classes, those of its own text (`OwnWords`)
  and those of the attribution suffix `apply_decision` appends (`ByWords`).
* `TriageGraph` - one thread of the graph. `next` is `snapshot.next`, `active` says an
  invoke is running. One action per node, the three enrichment nodes of one superstep in
  any order with their writes held back until it ends; `Invoke` and `Resume` are the two
  ways in; `Reconfigure` is an operator changing the environment. A node acts first and is
  checkpointed after: a run that ends in between (`RunBreaks`) leaves the thread pending,
  either before the node did anything (`NodeRaises`) or with tool calls or containment done
  and not recorded (`EffectUnrecorded`), and then a later run does them again. `tickets`,
  `asked`, `seen`, `closed`, `investigated`, `toolsRun`, `contained` and the count of
  supersteps are history.
* `HumanInTheLoop` - what the graph promises, with no node in sight: triage ends or asks;
  only the human who was asked moves on; an approval contains once, or again after a failure
  (`Fail`) that left no record of it.
* `Pipeline` - everything around the graph, one action per call on a shared component.
  `worker.pc` and `decider[d].pc` name the next call. A thread is reduced to what is left
  of its run, its message id and its decision; a running graph keeps its own copy and
  writes it back, as LangGraph does. `Receive`/`Put` are the producers, `Take`...`Close`
  the worker, `Submit`...`MarkResolved` the surfaces, `Crash` a restart of the ingest
  process (REST calls die with it, Slack's and MCP's do not). A call may fail without effect, or
  take effect and lose its answer: `CallFails` is both for the worker (the write is the one
  before the `pc` it fails at), `Returns` for a call that would have been its last,
  `GraphRaises` for a run of the graph, `DeciderFails` for a decision. For a producer it is
  the second disjunct of `Receive`, and `unanswered` keeps the alerts it left without a put.
* `AlertLifecycle` - the edges an alert's status may move along: the ordinary ones, and, where
  calls may fail (`Faulty`), those a retry, the catch-all of the worker and a decision under
  way add.
* `ToolClients` - the live clients below the nodes. A caller's `call` says what it waits
  for: the token lock, an answer to one request of its chain, a backoff. `Answered` takes a
  readable answer, `Unanswered` a transient failure, `Refused` a permanent one, `Garbled` a
  200 that is not JSON; `Following` is the order of the requests. Time passes while
  everyone waits; `world` is what the providers really hold, so that a result can be
  compared with the truth. `LeftOut` is the 200 that leaves out what the provider holds, and
  which a client reads as nothing found. Credentials are taken to be configured.
* `AlertStore` - the registry that processes share and the queue each keeps to itself, as
  the feeds see them; `Work` is a worker taking the next alert, the rest of which is
  `Pipeline`.
* `Poller` - polling processes. `poll[p].at` names the next call of the poll under way.
  Time is in ticks and kept as ages, so the clock needs no bound: `age` of an event (it is
  in the window while that is at most `Lookback`), and the history `gap`, the ticks between
  the last finished poll and the one under way. An event is indexed up to `MaxLag` late;
  `Slack` is what the overlap then leaves. `HeldUp` is a put that waits on a full queue.
* `AssetFile` - `_refresh` as its two steps, the look at the file's time and the load, with
  the lock, several readers, and `Edit`, somebody else's change of the file. Versions may
  share a time and come back with theirs; `times` and `again` are the history that tells.
* `McpClient` - the client's thread (`opener`), the thread that asks (`load`), the servers.
  A timeout is a step that may be taken while the awaited thing has not happened. Each
  tool that is listed is wrapped before any is kept, and one of `unwrappable` costs them all
  (`CannotWrap`).
* `Hunter` - one process of `hunt_cli --all --file`, one action per call; extends the three
  modules above it depends on. `Exits` is also how it ends on an exception nothing catches:
  an unreadable configuration, a model that returns no report, a failed INSERT.
* `DedupePromise` - what the worker relies on when it asks an index; `Dedupe` - the
  dictionary of each process and the Postgres table, and the refinement `KeepsPromise`. The
  dictionary drops expired entries, the table overwrites them; seen through `Live` they are
  one abstract window. A restart may empty the dictionary and never the table (`Lasting`).
* `Feeds` - pollers, hunt, readers and workers in one specification. A behaviour begins in
  one of the `Scenes`, which say what runs: parts that share nothing but the registry are
  checked apart, and the state space is the union of the scenes.
* `MCTriageGraph`, `MCPipeline`, `MCToolClients`, `MCFeeds` - instances for TLC.
* `TriageGraph_proofs`, `ToolClients_proofs`, `Feeds_proofs` - theorems about the module of
  that name; `Dedupe_proofs` - the lemmas on single steps of an index that the last one cites.
* `Pipeline_proofs` - types and where an alert is; on it rest `PipelineStatus_proofs` (what
  a record's status says) and on that one `PipelineStorm_proofs` (duplicates and their
  counts) and `PipelineDecisions_proofs` (what becomes of a decision).

Definitions marked "Mutant" are the code with a plausible mistake. No specification uses
them; putting one in place of the original shows that a property can fail.

## Runs

Each passing run's bounds are the smallest in which its question can be answered wrongly.

| Run | Checks | Bounds, and why they are enough |
|---|---|---|
| GraphInvestigation | AutoCloseJustified, BudgetRespected, CutOffIsFlagged, InvestigatedNeverCloses, WithinRecursionLimit, RunEnds | budget 3, turns of up to 2 calls (so that a turn can straddle the budget), two runs (a second run starts with the channels of the first), one run that breaks off, before or after a tool call or two; a recursion limit of 2 * 3 + 5, as the limit of 25 is to the default budget of 10 |
| GraphResponse | TypeOK, AutoCloseJustified, ContainmentApproved, ExecutedWasOnTicket, ImplementsPromise | alerts that fail each alert-side condition of the gate, confidence on either side of 95, plans with permitted and foreign targets, one longer than the limit, decisions with each mixture of words, a flag flipped at any moment, a run that breaks off, before or after it contained, and a second decision |
| PipelineIntake | TypeOK, SingleOwner, OneTicket | 2 alerts of one situation, 2 producers, queue of 1 (so that it fills), an MCP decider (who may decide at any moment), a fault or a lost answer, a restart, a window that expires |
| PipelineProgress | NoOrphan, DecisionKept, SecondClickHarmless, Settles | 2 alerts, queue of 2 (never full), a Slack decider who races the worker and may click again, a fault or a lost answer anywhere, fairness |
| PipelineStorm | DuplicateOfTriaged, OccurrencesMatch, AwaitingIsDecidable, FollowsLifecycle | a storm of 3 alerts, a clock that passes the window, 2 REST deciders, no faults |
| ToolLookups | TypeOK, CleanWasObserved, ContainmentSentOnce, ReputationFresh, CallEnds | two callers of 2 calls each: a lookup and a containment, or two containments, on one Falcon token and its lock; two lookups on one cache entry; Keycloak beside the public feeds. One retry, tokens of 3 ticks refreshed 1 early (so that a chain of requests outlives one), a cache of 1 tick, hosts and accounts in each condition |
| Feeds | TypeOK, QueuedIsRegistered, NoneMissed, NeverTwice, StallReportedOnce, LookupFresh, LoadedTools, HuntBounded, PollsRecur, HuntEnds, KeepsPromise | see below |

The scenes of Feeds, each small enough for its question and no smaller:

* one poller, two events that may be indexed a tick late, a queue of 1 (so that a `put` can
  block past the overlap), failures of search and claim, one restart. Interval 1, Overlap 2
  and MaxLag 1 leave a `Slack` of 2, so that one failed poll is made up for and two are not;
  Threshold 2 and SearchTime 1 tell a stall from a slow search;
* two pollers that reach for one event, beside an event ingested long ago;
* a hunt of two hypotheses, budget 2, answers of up to two calls (so that a batch straddles
  the budget), reports of up to two findings with a limit of one; its servers are one of
  another transport and two of stdio, each up, hung or broken from the start or later, with
  three tools, one of which writes, and room for one; or they are two of
  stdio, one of which lists a tool that writes and cannot be wrapped; or its configuration cannot be read;
* the same hunt, without servers, over an inventory of three versions, one that does not
  load, one older than the one it replaces, two of one time, changed, removed or brought back at any moment;
* two readers of that inventory;
* two workers and either index, three alerts of two fingerprints, a window of 1, restarts.

PipelineIntake and PipelineStorm use symmetry: their alerts share one fingerprint and
their deciders one surface, and no liveness is checked.

Runs that must find a violation, each a statement of the repository that the code does
not keep (quotes in `PROJECT.json`, "findings"):

| Run | Statement | What happens |
|---|---|---|
| GraphStaleTicket | only actions a human approved run | `triage_alert` on a suspended alert replaces the plan under the first ticket |
| PipelineSelfDuplicate | a transient fault must not lose an alert | the retry is a duplicate of itself |
| PipelineFullQueue | later alerts must not queue forever | the only consumer blocks in `put` |
| PipelineTwoAnalysts | re-deciding must not re-run terminal nodes | check and resume are two steps |
| HuntLost | what a hunt finds goes into the normal pipeline | `hunt_cli --file` puts it on the queue of a process that has no worker and exits |

HuntLost has a poller and a worker in another process beside the hunt, and assumes that this
worker keeps taking alerts (`WorkedSpec`), so that only the missing worker is to blame.
ToolLookups sets `EmptyAnswers` to FALSE, which keeps the answers that leave something out,
below, out of it.

Observed behaviour without a run of its own, found with the same models:

Graph, worker and decisions:

* three skipped lookups make the list of enrichments non-empty, so an alert that names no
  entity passes gate condition 0 (`graph.py:90`);
* the attribution suffix is classified with the decision, so an approving word in an
  actor's name counts (`decisions.py:49`);
* MCP `submit_decision` resumes a run that raised before any ticket went out
  (`mcp_server.py:157`); if the worker's run is still going, its return overwrites the
  decision, so DecisionKept is stated for Slack;
* the claim on a fingerprint survives a failed triage, so DuplicateOfTriaged needs the
  absence of faults (`worker.py:109`);
* an occurrence refresh overtaken by a decision puts the buttons back (`worker.py:99`);
* a click that lands between the post of a ticket (`worker.py:136`) and the registry update
  (`worker.py:140`) is overwritten by it, and an alert that was resolved reads awaiting
  approval again although "a resolved alert cannot be re-decided" (`mcp_server.py:154`). REST
  does not accept a decision before that update, so FollowsLifecycle is stated for REST;
* with two ingest processes the counts the index returns can be written to the record in
  the other order (`worker.py:80`);
* a fault between resume and registry update leaves the record awaiting approval for good
  (`decisions.py:52`), and a restart leaves records reading queued (`store.py:87`);
* an INSERT whose answer is lost (`store_pg.py:139`) has registered the alert, but
  `receive_alert` raises before the put; the SIEM's retry is then answered as a duplicate, and
  the record reads queued for good. NoOrphan and Settles except that alert, and no other;
* an UPDATE whose answer is lost (`worker.py:140`, `worker.py:156`) has taken effect, and the
  catch-all writes failed over awaiting approval or auto-closed; a decision that was taken
  meanwhile is recorded over failed. These are the edges of `AlertLifecycle!AfterFault`;
* the executor acts before its checkpoint (`executor.py:119`): if the run ends in between, the
  approval is on the thread and the executor pending, so the next resume runs it again, and
  contains again even if its own decision rejects. In the same way the calls of an
  investigation's last message are made again after a run that broke off before they were
  recorded, beyond the budget (`graph.py:280`);
* a run takes up to 2 * `investigation_max_tool_calls` + 5 supersteps, 25 at the default;
  LangGraph's limit is 25 by default and `graph.py` sets none, so that with a budget of 11
  calls, one a turn, the run raises instead of asking a human (`llm/config.py:176` bounds
  the setting from below only).

Tool clients:

* an answer that leaves out what the provider holds reads as nothing found, and would break
  CleanWasObserved and ReputationFresh: Falcon lists alerts and returns none of them, for the
  guard counts what was returned (`edr_client.py:202`); its resources are null or missing
  (`edr_client.py:88`); VirusTotal's votes are missing, which is then cached
  (`vt_client.py:53`);
* the bearer is read once for a chain of requests with retries, so it can expire in
  mid-lookup although it is refreshed "a minute early so a token cannot expire
  mid-investigation" (`edr_client.py:82`), and a 401 does not drop the cached token; both end
  as an error, which CleanWasObserved shows is never read as a finding;
* a 200 that is not JSON passes `request_json` and the token and reputation clients, and
  the node raises (`_http.py:58`);
* what only Shodan knows is missed when only Shodan fails (`isc_client.py:69`);
* a containment whose answer is lost is recorded as failed although the host may be
  isolated (`containment.py:47`): the price of not retrying. ContainmentSentOnce is about one
  call; a second run of the executor is a second call (`TriageGraph`);
* httpx's timeout is for each read, so an answer that trickles in can take longer: that an
  attempt ends within `Timeout` is an idealisation, CallEnds needs only that it ends;
* a log search that failed reads as one without events (`logsearch_splunk.py:90`).

Feeds:

* there is no checkpoint, though `splunk_source.py:6` speaks of checkpointing on time: an
  event that is not found while it is in the window is lost. With the defaults, interval 60
  and overlap 120, one poll that times out uses the overlap up;
* an INSERT whose answer is lost, or a stop between claim and put, leaves a record that no
  queue holds, and the next poll takes the alert for a duplicate (`splunk_poller.py:80`);
* failed polls are not recorded, so `/healthz` reads ok while every poll fails
  (`splunk_poller.py:130`), and a poll whose rows are all rejected counts as empty;
* rows without an event id and alert id share one, so all but the first are dropped
  (`splunk_source.py:84`);
* one server that cannot be reached costs the tools of all (`mcp_client.py:91`), where a
  comment promises the loss of its own (`mcp_client.py:41`), and so does one tool, even one
  that writes, whose schema gives a parameter a list of types: the list is looked up in a
  dictionary (`mcp_tools.py:119`), where the docstring says that an unknown type is no reason
  to drop a parameter; the empty result is cached for
  the life of the process, and a start that timed out leaves its thread running;
* a configuration file that cannot be read raises out of a function that "Never raises"
  (`mcp_tools.py:159`, `mcp_tools.py:168`) and out of the hunt (`hunter.py:77`);
* an external tool named like a built-in one replaces it in a hunt (`hunter.py:70`), while
  the investigator prefers the built-in one (`investigation_tools.py:198`);
* a hunt overshoots its budget by up to a batch less one (`hunter.py:93`), a hunt that
  failed reports no findings and a budget that was not exhausted, and
  `settings.hunter_enabled` is read by nothing;
* `put` in `file_findings` would wait for good if more were filed than the queue holds;
* two edits of the inventory within one granule of its time, or a file restored with the
  time it had before, are not noticed (`assets_file.py:141`): LookupFresh excepts a file whose
  time the path had before, and holds again from the next new time on;
* a worker that blocks requeueing into the full queue (`worker.py:60`) holds up a poller in
  the same process for good, at `splunk_poller.py:80`;
* `create_if_absent` that raises in `file_findings` (`hunter.py:165`), or a model that returns
  no report (`hunter.py:114`), ends the process with its queue.

Deadlock is not checked: an empty system waits for alerts and a suspended thread for a
human.

Fairness. `TriageGraph!FairSpec` assumes weak fairness of `Node`: invoke is a loop in the
calling thread. `Pipeline!FairSpec` assumes it of the worker thread and of each blocked
`put`. Alerts, decisions, failures, restarts and the clock are never forced.
`ToolClients!FairSpec` assumes it of each caller's thread and of time, which ends every
backoff and, by the timeout given to httpx, every attempt; nobody is bound to start a
lookup. `PollerFairness` assumes it of each poller's thread, the
indexer and time (a search ends by its timeout, a stopped process is started again), and not
of the workers, for one can block in a put of its own (PipelineFullQueue): PollsRecur says
that nothing else ends a poller's polls. `WorkerFairness` is added for HuntLost alone;
`HunterFairness` of the hunting thread alone: what it calls answers or times out, while the
client's thread, the servers and the editor of the inventory may stop for good.

## Proofs

All for every value of the constants, from the assumptions named in the modules
(`GateAssumption`, `TriageGraphAssumption`, `PipelineAssumption`, `PollerAssumption`,
`AlertStoreAssumption`, `HunterAssumption`, `McpAssumption`, `ToolClientsAssumption`,
`AssetFileAssumption`, `FeedsAssumption`: the constants have their types; `DedupeAssumption`
says more, and is named below). A theorem that needs more says so in its statement:

| Hypothesis | Meaning | What the code does without it |
|---|---|---|
| `OneGatedRun` | the alert is triaged once, and decisions come from a surface that needs a ticket | GraphStaleTicket |
| `OneFault` | no restart yet, and at most one call that failed or lost its answer | a restart, or a catch-all that fails too, leaves a record reading queued |
| `FaultFree` | no failed call, no lost answer and no restart yet | the claim of a failed alert stays in the index; a decision stops half-way |
| `NoRetry` | no failed call and no lost answer yet, or `MaxAttempts` = 1 | PipelineSelfDuplicate |
| `RestOnly` | every analyst decides over REST | Slack and MCP accept a decision before the record says awaiting approval |
| `NoMcp` | every analyst decides over REST or Slack | MCP resumes a thread the worker still runs |
| `LoneAnalyst` | at most one analyst; over REST, no restarts | PipelineTwoAnalysts; a REST call that dies with the process leaves the executor pending |
| `~EmptyAnswers` | no answer leaves out what the provider holds | `edr_client.py:88`, `edr_client.py:202`, `vt_client.py:53` |
| `IsFiniteSet(Alerts)` | so that there is a number of duplicates to compare with | |

`OneFault`, `FaultFree` and `NoRetry` are conditions on the state, inside the invariant:
they hold from the start of every behaviour until something fails, and the theorem speaks of
that part of it.

`TriageGraph_proofs`:

* `GraphTypeCorrect` - TypeOK is inductive.
* `BudgetHolds` - BudgetInv: the calls made plus those the last message asks for are
  covered by `used` and by what broken runs made for nothing, at most `MaxToolCalls` - 1
  each; and the tools run only after a test that left `used` below the budget.
  BudgetRespected alone is not inductive: it does not see the calls asked for.
* `AutoCloseSafe` - GateInv: by the time a node after the fan-in runs, each agent has an
  entry, and while `auto_close` is next the gate's conditions hold. It is needed because
  the settings may change between the gate and the close.
* `InvestigationNeverCloses` - PastGateInv: once the run investigated or asked, neither the
  synthesizer nor `auto_close` is next.
* `RunsWithinLimit` - LengthInv: how many supersteps an invoke has taken when each node
  comes next, given the calls used. It assumes 2 * `MaxToolCalls` + 5 <= `RecursionLimit`,
  which at the defaults is 25 <= 25. WithinRecursionLimit alone does not say how far the
  run still has to go; calls left by a run that raised are the hard case, for a turn that
  fails then goes to the tools without using up another call.
* `CutOffReported` - CutOffInv relates the report to the budget test made in the same run.
* `ContainmentNeedsApproval` and `GraphImplementsPromise` - AskInv: the executor is next
  only with a recorded, approving decision of a run that asked. That also covers a run that
  acts and breaks off, and the one that then acts again, whatever decision resumed it: in
  the promise a failure leaves the plan approved.
* `ExecutedFromTicket` - TicketInv: the one ticket that went out is the plan in the channel
  and stays so, the thread is then at the review or the executor, and a decision under way
  was taken on that ticket. The property sees a step only; the plan in the channel could
  have changed since the ticket.

The last three assume `OneGatedRun`.

`Pipeline_proofs`:

* `PipelineTypeCorrect` - TypeInv: TypeOK and that an actor in mid-call has an alert in
  hand.
* `AlertHasSingleOwner`, `AlertHasOneTicket` - OwnerInv: SingleOwner, OneTicket, that an
  alert not in the registry is nowhere, that an idle worker holds nothing, and that an
  alert with a ticket is neither queued nor on its way there, and if the worker holds it,
  only at the calls after the post. Each is needed for the other: an alert posted twice
  would have to be taken twice.

`PipelineStatus_proofs`:

* `NoAlertForgotten` - OrphanInv: NoOrphan up to `OneFault`, that the catch-all is entered
  by a fault only (so the write that records it is not the first to fail), and that a
  duplicate has its status before the original is told (so a fault there forgets nothing).
  The alert whose INSERT was not answered is excepted, and only that one.
* `RegistryFollowsLifecycle` - a refinement of `AlertLifecycle`, for `RestOnly`, through any
  restarts, and with its `AfterFault` edges through any failures, lost answers and retries.
  LifeInv: what is queued reads queued, the alert in the worker's hand has the status that
  fits the call the worker is at (any, once it is at the catch-all), and the alert of a
  decision under way reads awaiting approval or resolved, or failed if the catch-all was
  there. CalmInv: without faults nothing raises, so the ordinary edges suffice. Each step of
  the system is then an edge of the lifecycle or leaves the statuses alone.
* `ListedCanBeDecided` - ReviewInv, for `RestOnly` and up to `FaultFree`: whoever took the
  thread of a listed alert past the review still has to record it; what reads awaiting
  approval or resolved has a thread past the worker's run, so that a late decision resumes
  nothing earlier.

`PipelineStorm_proofs`, for any finite or infinite set of alerts, window and surfaces:

* `DuplicatesAreOfTriaged` - StormInv, up to `FaultFree`: an alert in the index was triaged
  and has left queue and worker, or is the one under triage; the entry the worker was
  answered with, and the original of every duplicate, is of the first sort. The property
  alone does not survive the step that suppresses an alert.
* `OccurrencesAreCounted` - CountInv, for `IsFiniteSet(Alerts)`: the count of the index, that
  of the original's record and the number of its duplicates agree up to the one duplicate
  that is between `check` and `_record_duplicate`'s second write.
* `SelfDuplicateNeedsRetry` - SelfInv, up to `NoRetry`: an alert that is in the index has left
  the queue for good and is not about to be checked. Restarts and failures of the database
  do not break it; a requeue does, which is what PipelineSelfDuplicate shows.

`PipelineDecisions_proofs`, for `NoMcp`, through any faults, retries and restarts:

* `DecisionsAreKept` - DecisionInv: an alert whose graph may still be run (`Fresh`: also
  while the worker is about to post or close, for the answer of the graph's last checkpoint
  may be lost, and then the retry starts over) was not asked about by anyone: no decision, no
  message, no record that awaits approval, no call under way, nothing executed. Every other
  has a thread at the review or past it. So the worker's run, which writes back its own copy,
  finds nothing to erase, and a call that resumes finds a thread at the review or past it.
* `ExecutedAgainAfterFaultOnly`, `ContainedOnceByLoneAnalyst` - ClickInv, for `LoneAnalyst`: the
  checkpoint a call loaded is that of the thread, and before the first fault an alert that
  was executed has a thread that is over or a call about to checkpoint that. Buttons that a
  refresh brought back therefore lead to a finished thread. Two analysts invalidate the
  first part.

`ToolClients_proofs`, for any number of callers in any roles:

* `TypeCorrect`, `CleanIsObserved`, `ContainedOnce` - ToolInv: besides the types, which requests
  each role can be at, that the later requests of a host's chain are sent only for a host
  that exists, that a containment not yet sent counts none and one that was sent is never
  in a backoff, and what the last result says of the provider. `CleanIsObserved` needs
  `~EmptyAnswers`.
* `ReputationIsFresh` - for `~EmptyAnswers`; CacheOK: a clean or unknown entry of the cache is at least as old as
  the indicator is malicious. The cache is shared, so it is about all callers at once.

`Feeds_proofs`, for any scenes, so also for those no run composes:

* `FeedsTypeCorrect` - TypeOK, with the parts of the invariants below that its types rest on.
* `LookupsAreFresh` - FileInv: a time that was read, or that the inventory was loaded with,
  is one the path has had. So when a file with a new time has the loaded time, what was
  loaded is that file, even if an edit came between the look at the time and the load; and a
  lookup that met a file with a reused time knows it. Nothing is assumed of the times: two
  versions may share one, and a version may come back.
* `PutOnce`, `QueuedHasRecord` - ClaimInv: an id without a record was never put, and one
  between its claim and its put has a record, was not put yet and is in the hands of one
  feed alone. Neither property says anything of an id in hand.
* `NothingIsMissed` - PollerInv: an event without a record was not found by the last search
  that finished, so it was at most `MaxLag` old then, and is older now by `gap` and the time
  of the poll under way; likewise for the search under way unless the event is among its
  rows. Once it has left the window, one of the two times exceeds `Slack`. The invariant is
  kept for each poller by itself, across restarts and whatever the other pollers claim.
* `StallsAreReported` - from PollerInv: `warned` is set no later than the count reaches the
  threshold, and the number of warnings is one just when it is set.
* `ToolsAllOrNothing` - McpInv: the client's thread opens the servers in their order and is
  ready only past the last; tools are listed once it is ready; what is handed out is
  `Kept(load.specs)` if each of them could be wrapped, and nothing otherwise. What `Kept` returns is a lemma (`KeptTools`), shown by induction along
  the listing.
* `HuntsAreBounded` - HuntInv: the calls made and those still to run stay within the bound
  under which the model's last answer was admitted, and a finding in hand counts as filed.
* `IndexKeepsPromise` - the refinement: DedupeInv is the type of the entries, and each step
  of either index, seen through `Live`, is a step of `DedupePromise` (`StepPromised` in
  `Dedupe_proofs`). `DedupeAssumption` says that the marker for no row is not a row.

Each inductive invariant was checked by TLC on the constants of a run before it was proved.

Only model-checked: RunEnds, Settles, CallEnds, PollsRecur and HuntEnds, which are liveness
under fairness and outside what TLAPS is used for here. Every other property of a passing
run is stated by a theorem, some under a hypothesis of the table above, which the run's
constants also satisfy. Of the statements that a run finds violated, NoSelfDuplicate,
ExecutedOnce and ExecutedWasOnTicket have theorems that say what it takes to violate them.

## Not modelled, and why

Prompts, model answers (any answer the schema admits), risk scores, the choice of a model
(`select_reasoner_role`), message layout, authentication, schema validation, arguments of
tools, query text, what a log search returns, wire formats and the mock providers: no
property depends on them. The in-memory registry and checkpointer: one process, so the
races between processes do not arise. The resets that only tests call. LangGraph itself is
modelled from how the code uses it; its recursion limit is a
constant, and a run past it is seen in the count of supersteps, not stopped.

## Plan

1. Done: `Gate`, `TriageGraph`, `HumanInTheLoop`, `Pipeline`, `AlertLifecycle`,
   `ToolClients`, the feeds (`AlertStore`, `Poller`, `Hunter`, `AssetFile`, `McpClient`,
   `Feeds`), `Dedupe` with `DedupePromise`, their runs and the theorems above.
2. MCP `triage_alert` as an actor beside the worker, and a second ingest process: tickets
   and occurrence counts across processes, and which of the theorems about `Pipeline` survive
   them.
