------------------------------ MODULE Pipeline ------------------------------
(***************************************************************************)
(* The triage service around the graph: producers (webhook and Splunk      *)
(* poller) fill the process's queue, one worker thread drains it, and      *)
(* analysts decide over REST, Slack or MCP.  They share the alert registry,*)
(* the dedupe index and the checkpointer (all in Postgres, the deployment  *)
(* in which the surfaces are processes of their own) and the Slack channel.*)
(* Sources: aegis/ingest/{api,worker,store,store_pg}.py, aegis/dedup.py,   *)
(* aegis/decisions.py, aegis/notify/{slack,slack_handler}.py,              *)
(* aegis/mcp_server.py.                                                    *)
(*                                                                         *)
(* Each action is one call on a shared component; an actor's pc says which *)
(* call comes next, so every interleaving of two actors' calls is covered. *)
(* The run of the graph itself is TriageGraph; here a thread only says     *)
(* what is left of it, `next`.                                             *)
(***************************************************************************)
EXTENDS Integers, Sequences, FiniteSets

CONSTANTS
    Alerts, NoAlert,
    Fingerprints,
    fingerprint,      \* function: the situation an alert describes
    Producers,        \* threads that ingest, among them "webhook"
    Deciders,         \* analysts at work at the same time
    NoDecider,
    Surface,          \* function: "api", "slack" or "mcp" for each of them
    QueueSize,        \* ALERT_QUEUE.maxsize
    MaxAttempts,      \* settings.max_triage_attempts
    DedupeEnabled,    \* settings.dedupe_enabled
    DedupeWindow,     \* settings.dedupe_window_seconds
    SlackInterval,    \* settings.slack_occurrence_update_seconds
    SlackEnabled,     \* a bot token is configured
    MaxNow,           \* bound: clock
    MaxFaults,        \* bound: calls that fail
    MaxCrashes        \* bound: restarts of the ingest process

ASSUME PipelineAssumption ==
    /\ NoAlert \notin Alerts
    /\ NoDecider \notin Deciders
    /\ fingerprint \in [Alerts -> Fingerprints]
    /\ Surface \in [Deciders -> {"api", "slack", "mcp"}]
    /\ QueueSize \in Nat \ {0} /\ MaxAttempts \in Nat \ {0}
    /\ DedupeEnabled \in BOOLEAN /\ SlackEnabled \in BOOLEAN
    /\ DedupeWindow \in Nat /\ SlackInterval \in Nat
    /\ MaxNow \in Nat /\ MaxFaults \in Nat /\ MaxCrashes \in Nat

VARIABLES
    registry,   \* REGISTRY: alert -> record
    queue,      \* ALERT_QUEUE
    putting,    \* producer -> alert it registered and has still to put
    unanswered, \* history: alerts registered by an INSERT whose answer was lost
    worker,     \* the worker thread: pc, alert in hand, duplicate entry in hand,
                \* its run's own copy of the thread
    index,      \* DEDUPE_INDEX: fingerprint -> entry
    thread,     \* checkpointer: alert -> what is left of its run
    slack,      \* Slack channel: alert -> its ticket message
    decider,    \* analyst's call: pc, alert, checkpoint as loaded, outcome
    now,        \* clock
    posted,     \* history: tickets posted to Slack for an alert
    performed,  \* history: times the executor ran for an alert
    count       \* uses of each bound

vars == <<registry, queue, putting, unanswered, worker, index, thread, slack, decider, now,
          posted, performed, count>>

Statuses == {"absent", "queued", "running", "auto_closed", "awaiting_approval",
             "resolved", "failed", "duplicate"}
AlertRecord == [status: Statuses, attempts: Nat, occurrences: Nat,
                duplicate_of: Alerts \cup {NoAlert}, ticket: BOOLEAN,
                slack_ts: BOOLEAN, slack_updated_at: Nat,
                decision: Deciders \cup {NoDecider}]
Absent == [status |-> "absent", attempts |-> 0, occurrences |-> 1,
           duplicate_of |-> NoAlert, ticket |-> FALSE, slack_ts |-> FALSE,
           slack_updated_at |-> 0, decision |-> NoDecider]

DedupeEntry == [alert: Alerts \cup {NoAlert}, first_seen: Nat, occurrences: Nat]
NoEntry == [alert |-> NoAlert, first_seen |-> 0, occurrences |-> 0]

\* snapshot.next, coarsely: no state, in mid-run, human_review (from the
\* checkpoint of the node before it, whether or not the interrupt was raised
\* yet: a resume reaches it either way), decided with the executor still to
\* run, END; with the checkpointed slack_ts and human_decision.
Nexts == {"none", "running", "human_review", "executor", "end"}
Checkpoint == [next: Nexts, slack_ts: BOOLEAN, decision: Deciders \cup {NoDecider}]
NoCheckpoint == [next |-> "none", slack_ts |-> FALSE, decision |-> NoDecider]

Messages == {"none", "buttons", "resolved"}

WorkerPcs == {"idle", "check", "duplicate", "occurrences", "original", "refresh",
              "start", "invoke", "run", "transient", "permanent", "requeue",
              "post", "save_ts", "await", "close", "unhandled"}
DeciderPcs == {"idle", "get_state", "load", "resume", "perform", "finish",
               "record", "mark"}

Workers == [pc: WorkerPcs, alert: Alerts \cup {NoAlert}, dup: DedupeEntry,
            ckpt: Checkpoint]
Calls == [pc: DeciderPcs, alert: Alerts \cup {NoAlert}, ckpt: Checkpoint,
          out: Deciders \cup {NoDecider}]
Counts == [faults: Nat, crashes: Nat]

NoCall == [pc |-> "idle", alert |-> NoAlert, ckpt |-> NoCheckpoint, out |-> NoDecider]
Idle == [pc |-> "idle", alert |-> NoAlert, dup |-> NoEntry, ckpt |-> NoCheckpoint]

Init ==
    /\ registry = [a \in Alerts |-> Absent]
    /\ queue = <<>>
    /\ putting = [p \in Producers |-> NoAlert]
    /\ unanswered = {}
    /\ worker = Idle
    /\ index = [f \in Fingerprints |-> NoEntry]
    /\ thread = [a \in Alerts |-> NoCheckpoint]
    /\ slack = [a \in Alerts |-> "none"]
    /\ decider = [d \in Deciders |-> NoCall]
    /\ now = 0
    /\ posted = [a \in Alerts |-> 0]
    /\ performed = [a \in Alerts |-> 0]
    /\ count = [faults |-> 0, crashes |-> 0]

\* REGISTRY.update(a, ...): nothing happens to an alert that is not there.
update(a, rec) == IF registry[a].status = "absent" THEN registry
                  ELSE [registry EXCEPT ![a] = rec]

-----------------------------------------------------------------------------
(* Ingestion: api.receive_alert and splunk_poller.poll_once.               *)

\* Mutant: a redelivered alert is accepted again.
ReceiveAgain(p, a) ==
    /\ putting[p] = NoAlert
    /\ registry' = [registry EXCEPT ![a].status = "queued"]
    /\ putting' = [putting EXCEPT ![p] = a]
    /\ UNCHANGED <<queue, unanswered, worker, index, thread, slack, decider,
                   now, posted, performed, count>>

\* create_if_absent; a redelivered alert is answered as a duplicate and
\* nothing else happens.  An INSERT that fails changes nothing either; one
\* whose answer is lost has registered the alert, and the exception it raises
\* ends the request, or the poll, before the put.
Receive(p, a) ==
    /\ putting[p] = NoAlert
    /\ registry[a].status = "absent"
    /\ registry' = [registry EXCEPT ![a].status = "queued"]
    /\ \/ /\ putting' = [putting EXCEPT ![p] = a]
          /\ UNCHANGED <<unanswered, count>>
       \/ /\ count.faults < MaxFaults
          /\ count' = [count EXCEPT !.faults = @ + 1]
          /\ unanswered' = unanswered \cup {a}
          /\ UNCHANGED putting
    /\ UNCHANGED <<queue, worker, index, thread, slack, decider, now, posted,
                   performed>>

\* Mutant: a queue without maxsize.
PutUnbounded(p) ==
    /\ putting[p] # NoAlert
    /\ queue' = Append(queue, putting[p])
    /\ putting' = [putting EXCEPT ![p] = NoAlert]
    /\ UNCHANGED <<registry, unanswered, worker, index, thread, slack, decider,
                   now, posted, performed, count>>

\* ALERT_QUEUE.put: blocks the thread (the webhook's event loop) when full.
Put(p) ==
    /\ putting[p] # NoAlert
    /\ Len(queue) < QueueSize
    /\ queue' = Append(queue, putting[p])
    /\ putting' = [putting EXCEPT ![p] = NoAlert]
    /\ UNCHANGED <<registry, unanswered, worker, index, thread, slack, decider,
                   now, posted, performed, count>>

-----------------------------------------------------------------------------
(* The worker thread: worker_loop and triage_once.                         *)

Go(pc) == worker' = [worker EXCEPT !.pc = pc]

\* A database call outside the try block raises: worker_loop catches it.
Raises ==
    /\ count.faults < MaxFaults
    /\ count' = [count EXCEPT !.faults = @ + 1]
    /\ Go("unhandled")

\* The last call of triage_once has taken effect.  It returns, or the answer
\* is lost and it raises all the same.
Returns ==
    \/ worker' = Idle /\ UNCHANGED count
    \/ Raises

\* ALERT_QUEUE.get
Take ==
    /\ worker.pc = "idle" /\ queue # <<>>
    /\ worker' = [Idle EXCEPT !.pc = "check", !.alert = Head(queue)]
    /\ queue' = Tail(queue)
    /\ UNCHANGED <<registry, putting, unanswered, index, thread, slack, decider,
                   now, posted, performed, count>>

\* DEDUPE_INDEX.check: one atomic statement.  The window runs from first_seen.
Live(e) == e.alert # NoAlert /\ now - e.first_seen <= DedupeWindow

\* Mutant: the upsert moves the fingerprint to the latest alert.
CheckMovesClaim ==
    LET a == worker.alert
        f == fingerprint[a]
        hit == [index[f] EXCEPT !.occurrences = @ + 1, !.alert = a] IN
    /\ worker.pc = "check"
    /\ IF Live(index[f])
       THEN /\ index' = [index EXCEPT ![f] = hit]
            /\ worker' = [worker EXCEPT !.pc = "duplicate", !.dup = hit]
       ELSE /\ index' = [index EXCEPT ![f] = [alert |-> a, first_seen |-> now,
                                              occurrences |-> 1]]
            /\ Go("start")
    /\ UNCHANGED <<registry, queue, putting, unanswered, thread, slack, decider,
                   now, posted, performed, count>>

Check ==
    LET a == worker.alert
        f == fingerprint[a]
        hit == [index[f] EXCEPT !.occurrences = @ + 1] IN
    /\ worker.pc = "check"
    /\ IF ~DedupeEnabled THEN Go("start") /\ UNCHANGED index
       ELSE IF Live(index[f])
       THEN /\ index' = [index EXCEPT ![f] = hit]
            /\ worker' = [worker EXCEPT !.pc = "duplicate", !.dup = hit]
       ELSE /\ index' = [index EXCEPT ![f] = [alert |-> a, first_seen |-> now,
                                              occurrences |-> 1]]
            /\ Go("start")
    /\ UNCHANGED <<registry, queue, putting, unanswered, thread, slack, decider,
                   now, posted, performed, count>>

\* _record_duplicate: first the alert, then the original's count ...
MarkDuplicate ==
    LET a == worker.alert IN
    /\ worker.pc = "duplicate"
    /\ registry' = update(a, [registry[a] EXCEPT !.status = "duplicate",
                                                 !.duplicate_of = worker.dup.alert])
    /\ Go("occurrences")
    /\ UNCHANGED <<queue, putting, unanswered, index, thread, slack, decider,
                   now, posted, performed, count>>

\* Mutant: the count goes to the duplicate's own record.
CountOnDuplicate ==
    LET a == worker.alert IN
    /\ worker.pc = "occurrences"
    /\ registry' = update(a, [registry[a] EXCEPT !.occurrences = worker.dup.occurrences])
    /\ Go("original")
    /\ UNCHANGED <<queue, putting, unanswered, index, thread, slack, decider,
                   now, posted, performed, count>>

CountOccurrence ==
    LET o == worker.dup.alert IN
    /\ worker.pc = "occurrences"
    /\ registry' = update(o, [registry[o] EXCEPT !.occurrences = worker.dup.occurrences])
    /\ Go("original")
    /\ UNCHANGED <<queue, putting, unanswered, index, thread, slack, decider,
                   now, posted, performed, count>>

\* ... then REGISTRY.get(original) decides whether its ticket is refreshed:
\* pending, posted, and not refreshed within the interval.
ReadOriginal ==
    LET r == registry[worker.dup.alert] IN
    /\ worker.pc = "original"
    /\ worker' = IF /\ r.status = "awaiting_approval" /\ r.slack_ts /\ r.ticket
                    /\ SlackInterval = 0 \/ now - r.slack_updated_at >= SlackInterval
                 THEN [worker EXCEPT !.pc = "refresh"] ELSE Idle
    /\ UNCHANGED <<registry, queue, putting, unanswered, index, thread, slack,
                   decider, now, posted, performed, count>>

\* slack_updated_at, then chat.update with the ticket and its buttons, unless
\* the answer of the write is lost.  The registry write commutes with every
\* other action, so both are one step.
RefreshTicket(ok) ==
    LET o == worker.dup.alert IN
    /\ worker.pc = "refresh"
    /\ registry' = update(o, [registry[o] EXCEPT !.slack_updated_at = now])
    /\ \/ /\ slack' = IF ok /\ SlackEnabled THEN [slack EXCEPT ![o] = "buttons"] ELSE slack
          /\ worker' = Idle /\ UNCHANGED count
       \/ Raises /\ UNCHANGED slack
    /\ UNCHANGED <<queue, putting, unanswered, index, thread, decider, now,
                   posted, performed>>

Start ==
    LET a == worker.alert IN
    /\ worker.pc = "start"
    /\ registry' = update(a, [registry[a] EXCEPT !.status = "running"])
    /\ Go("invoke")
    /\ UNCHANGED <<queue, putting, unanswered, index, thread, slack, decider,
                   now, posted, performed, count>>

\* app.invoke({"alert": alert}, cfg): the first checkpoint, then the run, which
\* keeps its own copy of the channels.
InvokeGraph ==
    LET a == worker.alert
        started == [thread[a] EXCEPT !.next = "running"] IN
    /\ worker.pc = "invoke"
    /\ thread' = [thread EXCEPT ![a] = started]
    /\ worker' = [worker EXCEPT !.pc = "run", !.ckpt = started]
    /\ UNCHANGED <<registry, queue, putting, unanswered, index, slack, decider,
                   now, posted, performed, count>>

\* The graph comes to the review and suspends for a human, or closes the alert;
\* auto_close_node clears the decision of an earlier run.
GraphReturns(next, by, pc) ==
    /\ worker.pc = "run"
    /\ thread' = [thread EXCEPT ![worker.alert] =
                     [worker.ckpt EXCEPT !.next = next, !.decision = by]]
    /\ worker' = [worker EXCEPT !.pc = pc, !.ckpt = NoCheckpoint]
    /\ UNCHANGED <<registry, queue, putting, unanswered, index, slack, decider,
                   now, posted, performed, count>>

Interrupted == GraphReturns("human_review", worker.ckpt.decision, "post")
AutoClosed == GraphReturns("end", NoDecider, "close")

\* app.invoke raises; nothing is written past the last checkpoint, which may be
\* the one it would have returned with ("post", "close"), its answer lost.
GraphRaises(kind) ==
    /\ worker.pc \in {"invoke", "run", "post", "close"} /\ count.faults < MaxFaults
    /\ count' = [count EXCEPT !.faults = @ + 1]
    /\ Go(kind)
    /\ UNCHANGED <<registry, queue, putting, unanswered, index, thread, slack,
                   decider, now, posted, performed>>

\* Mutant: the alert is marked for a retry and never put back.
HandleTriageErrorForgets ==
    LET a == worker.alert
        attempts == registry[a].attempts + 1
        retry == worker.pc = "transient" /\ attempts < MaxAttempts IN
    /\ worker.pc \in {"transient", "permanent"}
    /\ registry' = update(a, [registry[a] EXCEPT
                                !.status = IF retry THEN "queued" ELSE "failed",
                                !.attempts = attempts])
    /\ worker' = Idle
    /\ UNCHANGED <<queue, putting, unanswered, index, thread, slack, decider,
                   now, posted, performed, count>>

\* _handle_triage_error
HandleTriageError ==
    LET a == worker.alert
        attempts == registry[a].attempts + 1
        retry == worker.pc = "transient" /\ attempts < MaxAttempts IN
    /\ worker.pc \in {"transient", "permanent"}
    /\ registry' = update(a, [registry[a] EXCEPT
                                !.status = IF retry THEN "queued" ELSE "failed",
                                !.attempts = attempts])
    /\ IF retry THEN Go("requeue") /\ UNCHANGED count ELSE Returns
    /\ UNCHANGED <<queue, putting, unanswered, index, thread, slack, decider,
                   now, posted, performed>>

\* ALERT_QUEUE.put(alert), in the only thread that takes from the queue.
Requeue ==
    /\ worker.pc = "requeue" /\ Len(queue) < QueueSize
    /\ queue' = Append(queue, worker.alert)
    /\ worker' = Idle
    /\ UNCHANGED <<registry, putting, unanswered, index, thread, slack, decider,
                   now, posted, performed, count>>

\* notifier.post_ticket: no token or a failed post gives no message.
PostTicket(ok) ==
    LET a == worker.alert IN
    /\ worker.pc = "post"
    /\ IF ok /\ SlackEnabled
       THEN /\ slack' = [slack EXCEPT ![a] = "buttons"]
            /\ posted' = [posted EXCEPT ![a] = @ + 1]
            /\ Go("save_ts")
       ELSE Go("await") /\ UNCHANGED <<slack, posted>>
    /\ UNCHANGED <<registry, queue, putting, unanswered, index, thread, decider,
                   now, performed, count>>

\* Mutant: the whole output of the worker's run is written back.
SaveWholeState ==
    /\ worker.pc = "save_ts"
    /\ thread' = [thread EXCEPT ![worker.alert] =
                     [next |-> "human_review", slack_ts |-> TRUE, decision |-> NoDecider]]
    /\ Go("await")
    /\ UNCHANGED <<registry, queue, putting, unanswered, index, slack, decider,
                   now, posted, performed, count>>

\* app.update_state(cfg, {"slack_ts": ts}): a new checkpoint on the latest one.
SaveTs ==
    /\ worker.pc = "save_ts"
    /\ thread' = [thread EXCEPT ![worker.alert].slack_ts = TRUE]
    /\ Go("await")
    /\ UNCHANGED <<registry, queue, putting, unanswered, index, slack, decider,
                   now, posted, performed, count>>

\* slack_ts is the id of the message posted on the way here, None without one.
Await ==
    LET a == worker.alert IN
    /\ worker.pc = "await"
    /\ registry' = update(a, [registry[a] EXCEPT !.status = "awaiting_approval",
                                                 !.ticket = TRUE,
                                                 !.slack_ts = slack[a] # "none"])
    /\ Returns
    /\ UNCHANGED <<queue, putting, unanswered, index, thread, slack, decider,
                   now, posted, performed>>

Close ==
    LET a == worker.alert IN
    /\ worker.pc = "close"
    /\ registry' = update(a, [registry[a] EXCEPT !.status = "auto_closed"])
    /\ Returns
    /\ UNCHANGED <<queue, putting, unanswered, index, thread, slack, decider,
                   now, posted, performed>>

\* Mutant: the try block covers what follows app.invoke, so a fault while the
\* message id is saved starts a retry.
CallFailsRetried ==
    /\ worker.pc \in {"save_ts", "await", "close"}
    /\ count.faults < MaxFaults
    /\ count' = [count EXCEPT !.faults = @ + 1]
    /\ Go("transient")
    /\ UNCHANGED <<registry, queue, putting, unanswered, index, thread, slack,
                   decider, now, posted, performed>>

\* The call the worker is about to make fails without effect, or the one it
\* made last has taken effect and the answer is lost ("invoke": that of Start,
\* "requeue": that of the update before the put).
CallFails ==
    /\ worker.pc \in {"check", "duplicate", "occurrences", "original", "refresh",
                      "start", "invoke", "transient", "permanent", "requeue",
                      "save_ts", "await", "close"}
    /\ Raises
    /\ UNCHANGED <<registry, queue, putting, unanswered, index, thread, slack,
                   decider, now, posted, performed>>

\* Mutant: the exception leaves worker_loop, and the thread is gone.
WorkerDies == worker.pc = "unhandled" /\ UNCHANGED vars

\* The catch-all marks the alert failed, whatever it read by then; if that
\* fails too it is only logged.
RecordUnhandled ==
    LET a == worker.alert IN
    /\ worker.pc = "unhandled"
    /\ worker' = Idle
    /\ \/ /\ registry' = update(a, [registry[a] EXCEPT !.status = "failed"])
          /\ UNCHANGED count
       \/ /\ count.faults < MaxFaults
          /\ count' = [count EXCEPT !.faults = @ + 1]
          /\ UNCHANGED registry
    /\ UNCHANGED <<queue, putting, unanswered, index, thread, slack, decider,
                   now, posted, performed>>

-----------------------------------------------------------------------------
(* Decisions: the three surfaces, then decisions.apply_decision.           *)

\* Mutant: REST does not look at the record either.
AdmitsAnything(s, a) == s \in {"api", "slack", "mcp"}

\* What makes surface s pass a decision on: REST looks at the registry (and is
\* served by the event loop, which a blocked put occupies), Slack needs a
\* message with buttons, MCP looks at nothing.
Admits(s, a) ==
    \/ /\ s = "api" /\ registry[a].status = "awaiting_approval"
       /\ \A p \in Producers : p = "webhook" =>
              putting[p] = NoAlert \/ Len(queue) < QueueSize
    \/ s = "slack" /\ slack[a] = "buttons"
    \/ s = "mcp"

Submit(d, a) ==
    /\ decider[d].pc = "idle"
    /\ Admits(Surface[d], a)
    /\ decider' = [decider EXCEPT ![d] = [NoCall EXCEPT !.pc = "get_state", !.alert = a]]
    /\ UNCHANGED <<registry, queue, putting, unanswered, worker, index, thread,
                   slack, now, posted, performed, count>>

\* graph.get_state: DecisionError on an unknown or finished thread.
GetState(d) ==
    LET n == thread[decider[d].alert].next IN
    /\ decider[d].pc = "get_state"
    /\ decider' = IF n \in {"none", "end"}
                  THEN [decider EXCEPT ![d] = NoCall]
                  ELSE [decider EXCEPT ![d].pc = "load"]
    /\ UNCHANGED <<registry, queue, putting, unanswered, worker, index, thread,
                   slack, now, posted, performed, count>>

\* graph.invoke(Command(resume=...)) reads the checkpoint it resumes from.
LoadCheckpoint(d) ==
    /\ decider[d].pc = "load"
    /\ decider' = [decider EXCEPT ![d].pc = "resume",
                                  ![d].ckpt = thread[decider[d].alert]]
    /\ UNCHANGED <<registry, queue, putting, unanswered, worker, index, thread,
                   slack, now, posted, performed, count>>

\* What the resumed run leaves on the thread: its own copy of the channels.
Commit(d, next, by) ==
    thread' = [thread EXCEPT ![decider[d].alert] =
                  [next |-> next, slack_ts |-> decider[d].ckpt.slack_ts,
                   decision |-> by]]

\* human_review takes the decision; route_after_decision sends it to the
\* executor or to END.
ResumeReview(d, next) ==
    /\ decider[d].pc = "resume" /\ decider[d].ckpt.next = "human_review"
    /\ Commit(d, next, d)
    /\ decider' = [decider EXCEPT ![d].pc = IF next = "executor" THEN "perform" ELSE "record",
                                  ![d].out = d]
    /\ UNCHANGED <<registry, queue, putting, unanswered, worker, index, slack,
                   now, posted, performed, count>>

\* The thread was past the review: the pending executor runs again, a finished
\* thread has nothing to run.  The recorded decision is the earlier one.
ResumeLate(d) ==
    /\ decider[d].pc = "resume" /\ decider[d].ckpt.next \in {"executor", "end"}
    /\ decider' = [decider EXCEPT
                      ![d].pc = IF decider[d].ckpt.next = "executor"
                                THEN "perform" ELSE "record",
                      ![d].out = decider[d].ckpt.decision]
    /\ UNCHANGED <<registry, queue, putting, unanswered, worker, index, thread,
                   slack, now, posted, performed, count>>

\* The thread was still before human_review: its pending nodes run, and the
\* review, which the resume value does not reach, suspends without a decision.
ResumeEarly(d, next) ==
    LET by == IF next = "end" THEN NoDecider ELSE decider[d].ckpt.decision IN
    /\ decider[d].pc = "resume" /\ decider[d].ckpt.next = "running"
    /\ Commit(d, next, by)
    /\ decider' = [decider EXCEPT ![d].pc = "record", ![d].out = by]
    /\ UNCHANGED <<registry, queue, putting, unanswered, worker, index, slack,
                   now, posted, performed, count>>

\* The executor's calls, then its checkpoint.  Twice is as bad as it gets.
Perform(d) ==
    LET a == decider[d].alert IN
    /\ decider[d].pc = "perform"
    /\ performed' = [performed EXCEPT ![a] = IF @ < 2 THEN @ + 1 ELSE @]
    /\ decider' = [decider EXCEPT ![d].pc = "finish"]
    /\ UNCHANGED <<registry, queue, putting, unanswered, worker, index, thread,
                   slack, now, posted, count>>

\* Mutant: the executor has no edge to END.
FinishWithoutEnd(d) ==
    /\ decider[d].pc = "finish"
    /\ Commit(d, "executor", decider[d].out)
    /\ decider' = [decider EXCEPT ![d].pc = "record"]
    /\ UNCHANGED <<registry, queue, putting, unanswered, worker, index, slack,
                   now, posted, performed, count>>

Finish(d) ==
    /\ decider[d].pc = "finish"
    /\ Commit(d, "end", decider[d].out)
    /\ decider' = [decider EXCEPT ![d].pc = "record"]
    /\ UNCHANGED <<registry, queue, putting, unanswered, worker, index, slack,
                   now, posted, performed, count>>

\* Mutant: the decision is recorded, the status is not.
RecordDecisionOnly(d) ==
    LET a == decider[d].alert IN
    /\ decider[d].pc = "record"
    /\ registry' = update(a, [registry[a] EXCEPT !.decision = decider[d].out])
    /\ decider' = IF Surface[d] = "slack" THEN [decider EXCEPT ![d].pc = "mark"]
                  ELSE [decider EXCEPT ![d] = NoCall]
    /\ UNCHANGED <<queue, putting, unanswered, worker, index, thread, slack,
                   now, posted, performed, count>>

\* REGISTRY.update(status=RESOLVED, decision=out.get("human_decision"))
RecordDecision(d) ==
    LET a == decider[d].alert IN
    /\ decider[d].pc = "record"
    /\ registry' = update(a, [registry[a] EXCEPT !.status = "resolved",
                                                 !.decision = decider[d].out])
    /\ decider' = IF Surface[d] = "slack" THEN [decider EXCEPT ![d].pc = "mark"]
                  ELSE [decider EXCEPT ![d] = NoCall]
    /\ UNCHANGED <<queue, putting, unanswered, worker, index, thread, slack,
                   now, posted, performed, count>>

\* slack_handler: the message id from the checkpoint, else from the registry;
\* then chat.update replaces the buttons, unless Slack fails.
MarkResolved(d, ok) ==
    LET a == decider[d].alert IN
    /\ decider[d].pc = "mark"
    /\ slack' = IF ok /\ (thread[a].slack_ts \/ registry[a].slack_ts)
                THEN [slack EXCEPT ![a] = "resolved"] ELSE slack
    /\ decider' = [decider EXCEPT ![d] = NoCall]
    /\ UNCHANGED <<registry, queue, putting, unanswered, worker, index, thread,
                   now, posted, performed, count>>

\* A call of the decider fails, or the answer of its last one is lost, or its
\* process dies: nothing more happens.
DeciderFails(d) ==
    /\ decider[d].pc # "idle" /\ count.faults < MaxFaults
    /\ count' = [count EXCEPT !.faults = @ + 1]
    /\ decider' = [decider EXCEPT ![d] = NoCall]
    /\ UNCHANGED <<registry, queue, putting, unanswered, worker, index, thread,
                   slack, now, posted, performed>>

-----------------------------------------------------------------------------
\* The ingest process restarts: queue, threads and REST calls are gone, the
\* database and Slack are not.
Crash ==
    /\ count.crashes < MaxCrashes
    /\ count' = [count EXCEPT !.crashes = @ + 1]
    /\ queue' = <<>> /\ worker' = Idle
    /\ putting' = [p \in Producers |-> NoAlert]
    /\ decider' = [d \in Deciders |-> IF Surface[d] = "api" THEN NoCall ELSE decider[d]]
    /\ UNCHANGED <<registry, unanswered, index, thread, slack, now, posted,
                   performed>>

Tick ==
    /\ now < MaxNow
    /\ now' = now + 1
    /\ UNCHANGED <<registry, queue, putting, unanswered, worker, index, thread,
                   slack, decider, posted, performed, count>>

Ingest == \E p \in Producers : Put(p) \/ \E a \in Alerts : Receive(p, a)

Duplicate ==
    \/ MarkDuplicate
    \/ CountOccurrence
    \/ ReadOriginal
    \/ \E ok \in BOOLEAN : RefreshTicket(ok)

Triage ==
    \/ Start
    \/ InvokeGraph
    \/ Interrupted
    \/ AutoClosed
    \/ \E kind \in {"transient", "permanent"} : GraphRaises(kind)
    \/ HandleTriageError
    \/ Requeue
    \/ \E ok \in BOOLEAN : PostTicket(ok)
    \/ SaveTs
    \/ Await
    \/ Close

Worker == Take \/ Check \/ Duplicate \/ Triage \/ CallFails \/ RecordUnhandled

Decide(d) ==
    \/ GetState(d)
    \/ LoadCheckpoint(d)
    \/ \E next \in {"executor", "end"} : ResumeReview(d, next)
    \/ ResumeLate(d)
    \/ \E next \in {"human_review", "end"} : ResumeEarly(d, next)
    \/ Perform(d)
    \/ Finish(d)
    \/ RecordDecision(d)
    \/ \E ok \in BOOLEAN : MarkResolved(d, ok)
    \/ DeciderFails(d)

Next ==
    \/ Ingest
    \/ Worker
    \/ \E d \in Deciders : Decide(d) \/ \E a \in Alerts : Submit(d, a)
    \/ Crash
    \/ Tick

Spec == Init /\ [][Next]_vars

\* The worker loop and a blocked put are threads that keep running; alerts,
\* decisions, crashes and failures need not happen.
FairSpec == Spec /\ WF_vars(Worker) /\ \A p \in Producers : WF_vars(Put(p))

-----------------------------------------------------------------------------
(* Properties.                                                             *)

TypeOK ==
    /\ registry \in [Alerts -> AlertRecord]
    /\ queue \in Seq(Alerts) /\ Len(queue) <= QueueSize
    /\ putting \in [Producers -> Alerts \cup {NoAlert}]
    /\ unanswered \subseteq Alerts
    /\ worker \in Workers
    /\ index \in [Fingerprints -> DedupeEntry]
    /\ thread \in [Alerts -> Checkpoint]
    /\ slack \in [Alerts -> Messages]
    /\ decider \in [Deciders -> Calls]
    /\ now \in Nat
    /\ posted \in [Alerts -> Nat]
    /\ performed \in [Alerts -> Nat]
    /\ count \in Counts

Queued(a) == \E i \in DOMAIN queue : queue[i] = a
BeingPut(a) == \E p \in Producers : putting[p] = a

\* However the webhook, the poller, SIEM retries and the worker's requeue
\* interleave, an alert is in one place at a time: one slot of the queue, one
\* producer's put, or the worker's hand ("a retry must not trigger a second
\* triage", store.py).
SingleOwner ==
    /\ \A i, j \in DOMAIN queue : queue[i] = queue[j] => i = j
    /\ \A p, q \in Producers : putting[p] = putting[q] /\ putting[p] # NoAlert => p = q
    /\ \A a \in Alerts :
          /\ worker.alert = a => ~Queued(a) /\ ~BeingPut(a)
          /\ Queued(a) => ~BeingPut(a)

\* No alert gets a second Slack ticket, across redeliveries, retries, faults
\* and restarts ("... or a duplicate ticket", store.py).
OneTicket == \A a \in Alerts : posted[a] <= 1

\* An alert that reads queued or running is still in somebody's hands, so it
\* cannot be forgotten (api.receive_alert registers it before it is queued;
\* the worker requeues, settles or fails what it took), but for one thing: the
\* INSERT that registered it was not answered, so nobody ever put it.
NoOrphan ==
    \A a \in Alerts : registry[a].status \in {"queued", "running"} =>
        Queued(a) \/ BeingPut(a) \/ worker.alert = a \/ a \in unanswered

\* A suppressed alert describes the same situation as another alert, and that
\* one was triaged (AlertStatus.DUPLICATE: "same situation as an alert already
\* triaged").
DuplicateOfTriaged ==
    \A a \in Alerts : registry[a].status = "duplicate" =>
        LET o == registry[a].duplicate_of IN
        /\ o \in Alerts \ {a} /\ fingerprint[o] = fingerprint[a]
        /\ registry[o].status \in {"auto_closed", "awaiting_approval", "resolved"}

\* A transient fault never makes an alert the duplicate of itself, which would
\* end it untriaged (llm/config.py: "A transient database or network fault
\* must not lose an alert").
NoSelfDuplicate ==
    \A a \in Alerts : registry[a].status = "duplicate" => registry[a].duplicate_of # a

\* The original's occurrence count is itself plus the alerts suppressed under
\* it, so an ongoing attack reads as ongoing (_record_duplicate).
OccurrencesMatch ==
    worker.pc # "occurrences" =>
        \A o \in Alerts : registry[o].occurrences =
            1 + Cardinality({a \in Alerts : registry[a].duplicate_of = o})

\* What /approvals lists can be decided: the thread is suspended at the review,
\* or a decision on it is on its way (decisions.apply_decision).
AwaitingIsDecidable ==
    \A a \in Alerts : registry[a].status = "awaiting_approval" =>
        \/ thread[a].next = "human_review"
        \/ \E d \in Deciders : decider[d].pc # "idle" /\ decider[d].alert = a

\* One decision contains once: the executor runs at most once for an alert
\* (apply_decision: "Re-deciding would re-run terminal nodes").
ExecutedOnce == \A a \in Alerts : performed[a] <= 1

\* Buttons that come back on a resolved message, after a refresh that read the
\* record before the decision, lead to nothing: one analyst who clicks again
\* and again executes containment again only after something failed on the way
\* ("Already resolved. Re-deciding would re-run terminal nodes").
SecondClickHarmless ==
    [][\A a \in Alerts : performed[a] > 0 /\ performed'[a] > performed[a]
                             => count.faults > 0]_vars

\* A decision checkpointed on the thread is not erased, whatever the worker
\* that posted the ticket still has to do: update_state writes slack_ts alone,
\* and a resumed run writes back its own decision (triage_once,
\* human_review_node).
DecisionKept ==
    [][\A a \in Alerts : thread[a].decision # NoDecider
                            => thread'[a].decision # NoDecider]_vars

\* The status of each alert follows the lifecycle of AlertLifecycle.
StatusOf == [a \in Alerts |-> registry[a].status]
Lifecycle == INSTANCE AlertLifecycle WITH status <- StatusOf, Faulty <- MaxFaults > 0
FollowsLifecycle == Lifecycle!Spec

\* Every alert whose producer was told that it is registered is triaged,
\* suppressed or failed in the end: the worker keeps taking alerts
\* (worker_loop: otherwise "every later alert queues forever").
Settles ==
    \A a \in Alerts : registry[a].status = "queued"
        ~> registry[a].status \notin {"queued", "running"} \/ a \in unanswered
=============================================================================
