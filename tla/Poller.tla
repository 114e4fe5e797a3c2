------------------------------- MODULE Poller -------------------------------
(***************************************************************************)
(* The Splunk poller (aegis/ingest/splunk_poller.py, splunk_source.py):    *)
(* every interval it searches a window that ends now and begins before the *)
(* previous poll, claims each alert in the registry and puts the new ones  *)
(* on its process's queue.  There is no checkpoint: what no search sees    *)
(* while it is in the window is never ingested.                            *)
(*                                                                         *)
(* Several processes may poll: the API with its poller thread, and         *)
(* `python -m aegis.ingest.splunk_poller`.  Time is in ticks and is kept   *)
(* as ages, so that the clock has no bound.  An event is a row that maps   *)
(* onto a valid alert; rows that do not are rejected one by one and leave  *)
(* no trace but a metric.                                                  *)
(***************************************************************************)
EXTENDS AlertStore

CONSTANTS
    Pollers,     \* the processes that poll
    Events,
    alertId,     \* function: the id map_row gives each event
    Interval,    \* settings.splunk_poll_interval_seconds
    Overlap,     \* settings.splunk_poll_overlap_seconds
    Threshold,   \* settings.splunk_empty_poll_warning
    SearchTime,  \* timeout of the HTTP client
    MaxLag       \* an event is indexed at most so long after it happened

\* poll_loop
Lookback == Interval + Overlap

ASSUME PollerAssumption ==
    /\ Pollers \subseteq Processes
    /\ alertId \in [Events -> AlertIds]
    /\ Interval \in Nat \ {0} /\ Overlap \in Nat /\ Threshold \in Nat \ {0}
    /\ SearchTime \in Nat /\ MaxLag \in 0..Overlap

VARIABLES
    age,      \* ticks since each event happened; -1 before
    indexed,  \* events a search can find
    poll,     \* what each poller is doing
    health,   \* POLL_HEALTH of each process
    gap,      \* history: ticks between the last poll that was finished and the
              \* one under way, or up to now
    spare     \* bound: stops of polling processes still to come

pollerVars == <<age, indexed, poll, health, gap, spare>>

\* An event that is indexed late is still found by a search this much later
\* than one that came before it was indexed.
Slack == Lookback - MaxLag

UpTo(n, top) == IF n < top THEN n ELSE top

NoEvent == "none"
Healthy == [empty |-> 0, warned |-> FALSE, warnings |-> 0]
NotPolling == [at |-> "off", timer |-> 0, since |-> 0, rows |-> {}, seen |-> FALSE,
               hand |-> NoEvent]

\* The processes of on run the poller, no other does.  The events of old have
\* long left every window, and stops is the bound on crashes.
PollerInit(on, old, stops) ==
    /\ age = [e \in Events |-> IF e \in old THEN Lookback + 1 ELSE -1]
    /\ indexed = old
    /\ poll = [p \in Pollers |->
                  [NotPolling EXCEPT !.at = IF p \in on THEN "polling" ELSE "off"]]
    /\ health = [p \in Pollers |-> Healthy]
    /\ gap = [p \in Pollers |-> 0]
    /\ spare = stops

-----------------------------------------------------------------------------
(* One poll.                                                               *)

Becomes(p, r) == poll' = [poll EXCEPT ![p] = r]
Waiting(p) == Becomes(p, [NotPolling EXCEPT !.at = "waiting", !.timer = Interval])

\* Once the gap is too long it stays so: an event may have been missed.
GapGrows(p) == [gap EXCEPT ![p] = UpTo(@ + poll[p].since, Slack + 1)]
GapEnds(p) == [gap EXCEPT ![p] = IF @ > Slack THEN @ ELSE poll[p].since]

\* Mutant: the window is the interval.
WithinInterval(e) == age[e] <= Interval

\* earliest_time = -lookback, latest_time = now.
InWindow(e) == age[e] <= Lookback

\* search_alerts sends its request: the rows are those of this moment.
Search(p) ==
    /\ poll[p].at = "polling"
    /\ Becomes(p, [NotPolling EXCEPT !.at = "searching", !.timer = SearchTime,
                                     !.rows = {e \in indexed : InWindow(e)}])
    /\ UNCHANGED <<storeVars, age, indexed, health, gap, spare>>

SearchAnswers(p) ==
    /\ poll[p].at = "searching"
    /\ Becomes(p, [poll[p] EXCEPT !.at = "claiming", !.seen = poll[p].rows # {}])
    /\ UNCHANGED <<storeVars, age, indexed, health, gap, spare>>

\* Mutant: the claim is not consulted.
ClaimsAnyway(p, e) ==
    /\ poll[p].at = "claiming" /\ e \in poll[p].rows
    /\ Claimed(alertId[e])
    /\ Becomes(p, [poll[p] EXCEPT !.rows = @ \ {e}, !.at = "putting", !.hand = e])
    /\ UNCHANGED <<age, indexed, health, gap, spare>>

\* REGISTRY.create_if_absent for the next alert; a duplicate is passed over.
Claim(p, e) ==
    /\ poll[p].at = "claiming" /\ e \in poll[p].rows
    /\ IF alertId[e] \in registry
       THEN /\ Becomes(p, [poll[p] EXCEPT !.rows = @ \ {e}])
            /\ UNCHANGED storeVars
       ELSE /\ Claimed(alertId[e])
            /\ Becomes(p, [poll[p] EXCEPT !.rows = @ \ {e}, !.at = "putting",
                                          !.hand = e])
    /\ UNCHANGED <<age, indexed, health, gap, spare>>

Put(p) ==
    /\ poll[p].at = "putting"
    /\ QueuePut(p, alertId[poll[p].hand])
    /\ Becomes(p, [poll[p] EXCEPT !.at = "claiming", !.hand = NoEvent])
    /\ UNCHANGED <<age, indexed, health, gap, spare>>

\* Mutant: a poll without rows warns each time.
WarnedAgain(h) ==
    IF h.empty < Threshold THEN h ELSE [h EXCEPT !.warnings = @ + 1]

\* _warn_if_persistently_empty
Warned(h) ==
    IF h.empty < Threshold \/ h.warned THEN h
    ELSE [h EXCEPT !.warned = TRUE, !.warnings = @ + 1]

\* POLL_HEALTH.record
Recorded(h, seen) ==
    IF seen THEN [h EXCEPT !.empty = 0, !.warned = FALSE, !.warnings = 0]
    ELSE [h EXCEPT !.empty = UpTo(@ + 1, Threshold)]

\* The batch is through.
Finish(p) ==
    /\ poll[p].at = "claiming" /\ poll[p].rows = {}
    /\ health' = [health EXCEPT ![p] = Warned(Recorded(@, poll[p].seen))]
    /\ gap' = GapEnds(p)
    /\ Waiting(p)
    /\ UNCHANGED <<storeVars, age, indexed, spare>>

\* Mutant: an exception ends the thread.
FailureEndsLoop(p) == Becomes(p, NotPolling)

\* The except clause of poll_loop: back to waiting, whatever was left.
Abandoned(p) == Waiting(p)

\* The search fails or times out, or a claim raises: the INSERT was made or not.
PollFails(p) ==
    /\ \/ /\ poll[p].at = "searching"
          /\ UNCHANGED storeVars
       \/ /\ poll[p].at = "claiming"
          /\ \E e \in poll[p].rows : UNCHANGED storeVars \/ Claimed(alertId[e])
    /\ gap' = GapGrows(p)
    /\ Abandoned(p)
    /\ UNCHANGED <<age, indexed, health, spare>>

\* stop.wait(interval) is over.
Wake(p) ==
    /\ poll[p].at = "waiting" /\ poll[p].timer = 0
    /\ Becomes(p, [NotPolling EXCEPT !.at = "polling"])
    /\ UNCHANGED <<storeVars, age, indexed, health, gap, spare>>

-----------------------------------------------------------------------------
(* Restarts, time and the indexer.                                         *)

\* The process stops; its queue and its counts are gone.
Crash(p) ==
    /\ poll[p].at \notin {"off", "down"} /\ spare > 0
    /\ Becomes(p, [NotPolling EXCEPT !.at = "down"])
    /\ queue' = [queue EXCEPT ![p] = <<>>]
    /\ health' = [health EXCEPT ![p] = Healthy]
    /\ gap' = GapGrows(p)
    /\ spare' = spare - 1
    /\ UNCHANGED <<registry, triaged, puts, age, indexed>>

Restart(p) ==
    /\ poll[p].at = "down"
    /\ Becomes(p, [NotPolling EXCEPT !.at = "polling"])
    /\ UNCHANGED <<storeVars, age, indexed, health, gap, spare>>

Happens(e) ==
    /\ age[e] = -1 /\ \E p \in Pollers : poll[p].at # "off"
    /\ age' = [age EXCEPT ![e] = 0]
    /\ UNCHANGED <<storeVars, indexed, poll, health, gap, spare>>

Index(e) ==
    /\ age[e] >= 0 /\ e \notin indexed
    /\ indexed' = indexed \cup {e}
    /\ UNCHANGED <<storeVars, age, poll, health, gap, spare>>

\* Nobody has a step to take before time passes.
Resting(p) ==
    \/ poll[p].at \in {"off", "down"}
    \/ poll[p].at \in {"waiting", "searching"} /\ poll[p].timer > 0
    \/ poll[p].at = "putting" /\ Len(queue[p]) = QueueSize[p]

Aged(r) ==
    CASE r.at = "waiting" -> [r EXCEPT !.timer = @ - 1]
      [] r.at = "searching" -> [r EXCEPT !.timer = @ - 1, !.since = UpTo(@ + 1, Slack + 1)]
      [] r.at = "putting" -> [r EXCEPT !.since = UpTo(@ + 1, Slack + 1)]
      [] OTHER -> r

Tick ==
    /\ \A p \in Pollers : Resting(p)
    /\ \E p \in Pollers : poll[p].at # "off"
    /\ \A e \in Events : age[e] >= MaxLag => e \in indexed
    /\ age' = [e \in Events |-> IF age[e] < 0 THEN -1 ELSE UpTo(age[e] + 1, Lookback + 1)]
    /\ poll' = [p \in Pollers |-> Aged(poll[p])]
    /\ gap' = [p \in Pollers |-> IF poll[p].at \in {"waiting", "down"}
                                 THEN UpTo(gap[p] + 1, Slack + 1) ELSE gap[p]]
    /\ UNCHANGED <<storeVars, indexed, health, spare>>

-----------------------------------------------------------------------------
PollStep(p) ==
    \/ Search(p)
    \/ SearchAnswers(p)
    \/ \E e \in Events : Claim(p, e)
    \/ Put(p)
    \/ Finish(p)
    \/ PollFails(p)
    \/ Wake(p)
    \/ Restart(p)

PollerNext ==
    \/ \E p \in Pollers : PollStep(p) \/ Crash(p) \/ (Work(p) /\ UNCHANGED pollerVars)
    \/ \E e \in Events : Happens(e) \/ Index(e)
    \/ Tick

\* The pollers' threads run, a search ends with an answer or with its timeout, a
\* stopped process is started again, events are indexed and time passes.
\* Nothing has to happen, to fail or to stop; and no worker has to take what is
\* queued, since it can block for good in a put of its own (Pipeline).
PollerFairness ==
    /\ \A p \in Pollers : WF_<<storeVars, pollerVars>>(PollStep(p))
    /\ WF_pollerVars(\E e \in Events : Index(e))
    /\ WF_pollerVars(Tick)

\* A worker that is not held up.
WorkerFairness == \A p \in Pollers : WF_storeVars(Work(p))

-----------------------------------------------------------------------------
(* Properties.                                                             *)

PollerTypeOK ==
    /\ age \in [Events -> -1..(Lookback + 1)]
    /\ indexed \subseteq Events
    /\ poll \in [Pollers -> [at: {"off", "polling", "searching", "claiming", "putting",
                                  "waiting", "down"},
                             timer: Nat, since: 0..(Slack + 1), rows: SUBSET Events,
                             seen: BOOLEAN, hand: Events \cup {NoEvent}]]
    /\ health \in [Pollers -> [empty: 0..Threshold, warned: BOOLEAN, warnings: Nat]]
    /\ gap \in [Pollers -> 0..(Slack + 1)]
    /\ spare \in Nat

\* "Each poll looks back further than the interval so a late-indexed event is
\* not missed": when an event leaves the window without a record, every poller
\* that runs has left more than the overlap allows between two polls it
\* finished (failed polls, slow searches, a full queue and downtime all count).
NoneMissed ==
    \A e \in Events : age[e] > Lookback /\ alertId[e] \notin registry =>
        \A p \in Pollers :
            \/ poll[p].at = "off" \/ e \in poll[p].rows
            \/ gap[p] > Slack \/ poll[p].since > Slack

\* "An alert_id already seen is never enqueued twice", whatever the windows
\* overlap, polls are repeated, and processes poll at once or restart.
NeverTwice == \A i \in AlertIds : puts[i] <= 1

\* A search that stops matching is reported after Threshold empty polls, and
\* once per stall, however failed polls fall between the empty ones
\* (PollHealth, _warn_if_persistently_empty; /healthz reads the same count).
StallReportedOnce ==
    \A p \in Pollers :
        /\ health[p].warnings <= 1
        /\ health[p].empty >= Threshold => health[p].warnings = 1

\* A put that waits for a worker which takes nothing any more.
HeldUp(p) == poll[p].at = "putting" /\ Len(queue[p]) = QueueSize[p]

\* "A failed poll must not end the loop": a poller that runs searches again and
\* again, whatever fails.  One thing alone can end it, a queue that is full for
\* good; with a worker that goes on taking it never ends.
PollsRecur ==
    \A p \in Pollers : poll[p].at # "off" => []<>(poll[p].at = "polling") \/ <>[]HeldUp(p)
=============================================================================
