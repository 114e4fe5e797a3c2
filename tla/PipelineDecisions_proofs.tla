------------------------ MODULE PipelineDecisions_proofs ------------------------
(***************************************************************************)
(* What becomes of a decision: theorems about Pipeline where the analysts  *)
(* decide over REST or Slack, through any faults, retries and restarts.    *)
(* MCP is left out: it looks at no record, so a decision may resume a      *)
(* thread that the worker still runs, and be erased by it.                 *)
(***************************************************************************)
EXTENDS PipelineStatus_proofs

NoMcp == \A d \in Deciders : Surface[d] \in {"api", "slack"}

\* The graph has reached the review of a, or gone past it.
Reviewed(a) == thread[a].next \in Past

\* The graph may still be run for a: even its last checkpoint may have lost its
\* answer, and a retry starts over.
FreshPcs == {"check", "start", "invoke", "run", "post", "close", "transient", "permanent",
             "requeue"}
Fresh(a) == \/ registry[a].status = "absent" \/ Queued(a) \/ BeingPut(a)
            \/ worker.alert = a /\ worker.pc \in FreshPcs

\* The review of a is open to analysts, or over.
Open(a) == Reviewed(a) /\ ~Fresh(a)

\* Nobody has been asked about a.
Untouched(a) ==
    /\ thread[a].decision = NoDecider /\ slack[a] = "none" /\ performed[a] = 0
    /\ registry[a].status # "awaiting_approval"
    /\ \A d \in Deciders : decider[d].pc # "idle" => decider[d].alert # a

\* A call carries the decision it goes by.
Informed(c) ==
    /\ c.pc = "resume" => /\ c.ckpt.next \in Past
                          /\ c.ckpt.next = "executor" => c.ckpt.decision # NoDecider
    /\ c.pc \in {"perform", "finish"} => c.out # NoDecider

DecisionInv ==
    /\ \A a \in Alerts : Open(a) \/ Untouched(a)
    /\ worker.pc \in {"post", "save_ts", "await"} => Reviewed(worker.alert)
    /\ worker.pc = "refresh" => Open(worker.dup.alert)
    /\ worker.pc = "run" => worker.ckpt.decision = NoDecider
    /\ \A a \in Alerts : thread[a].next = "executor" => thread[a].decision # NoDecider
    /\ \A d \in Deciders : Informed(decider[d])

\* No thread loses its decision.
Kept == \A a \in Alerts : thread[a].decision # NoDecider => thread'[a].decision # NoDecider

LEMMA InitDecisionInv == Init => DecisionInv
BY DEF Init, DecisionInv, Untouched, Informed, NoCheckpoint, NoCall, Idle, Absent

\* Only the steps that follow put an alert where the graph may be run for it.
LEMMA FreshBefore ==
    ASSUME TypeInv, OwnerInv, worker.pc # "idle", UNCHANGED <<queue, putting>>, Present,
           \/ worker' = Idle
           \/ worker'.alert = worker.alert /\ (worker'.pc \in FreshPcs => worker.pc \in FreshPcs)
    PROVE  \A b \in Alerts : (Fresh(b))' => Fresh(b)
BY IdleHasNone DEF Fresh, Present, Queued, BeingPut

\* A step that leaves the threads alone, and asks about no alert before its
\* review.
LEMMA QuietThread ==
    ASSUME TypeInv, DecisionInv, UNCHANGED <<thread, decider, performed>>,
           \A b \in Alerts : (Fresh(b))' => Fresh(b),
           \A b \in Alerts : /\ slack'[b] = slack[b] \/ (Open(b))'
                             /\ registry'[b].status = "awaiting_approval"
                                    => registry[b].status = "awaiting_approval" \/ (Open(b))',
           worker'.pc \in {"post", "save_ts", "await"}
               => worker'.alert = worker.alert /\ Reviewed(worker.alert),
           worker'.pc = "refresh" => /\ worker'.dup.alert = worker.dup.alert
                                     /\ worker.dup.alert \in Alerts /\ Open(worker.dup.alert),
           worker'.pc = "run" => UNCHANGED worker
    PROVE  DecisionInv' /\ Kept
<1>1. \A b \in Alerts : Open(b) => (Open(b))'
  BY DEF Open, Reviewed
<1>2. \A b \in Alerts : Untouched(b) => (Untouched(b))' \/ (Open(b))'
  BY DEF Untouched
<1>3. \A b \in Alerts : (Open(b))' \/ (Untouched(b))'
  BY <1>1, <1>2 DEF DecisionInv
<1>4. (worker.pc \in {"post", "save_ts", "await"} => Reviewed(worker.alert))'
  BY DEF Reviewed
<1>5. (worker.pc = "refresh" => Open(worker.dup.alert))'
  <2>1. ASSUME NEW o \in Alerts, o = worker'.dup.alert, (Open(o))'
        PROVE  (Open(worker.dup.alert))'
    BY <2>1 DEF Open, Reviewed, Fresh, Queued, BeingPut
  <2> QED
    BY <1>1, <2>1
<1> QED
  BY <1>3, <1>4, <1>5 DEF DecisionInv, Kept

\* One that does not even move the worker.
LEMMA SteadyThread ==
    ASSUME TypeInv, DecisionInv, UNCHANGED <<thread, decider, performed, worker, slack>>,
           \A b \in Alerts : (Fresh(b))' => Fresh(b),
           \A b \in Alerts : registry'[b].status = "awaiting_approval"
                                 => registry[b].status = "awaiting_approval"
    PROVE  DecisionInv' /\ Kept
<1>1. /\ worker.pc \in {"post", "save_ts", "await"} => Reviewed(worker.alert)
      /\ worker.pc = "refresh" => worker.dup.alert \in Alerts /\ Open(worker.dup.alert)
  BY DEF DecisionInv, TypeInv, Hands, DupPcs
<1> QED
  BY <1>1, QuietThread

LEMMA IngestDecision ==
    ASSUME TypeInv, OwnerInv, DecisionInv,
           Take \/ Tick \/ UNCHANGED vars \/ \E p \in Producers : Put(p) \/ \E a \in Alerts : Receive(p, a)
    PROVE  DecisionInv' /\ Kept
<1>1. CASE \E p \in Producers : Put(p)
  <2>1. PICK p \in Producers : Put(p)
    BY <1>1
  <2>2. /\ \A b \in Alerts : (Queued(b) \/ BeingPut(b))' => Queued(b) \/ BeingPut(b)
        /\ UNCHANGED <<registry, worker, thread, decider, slack, performed>>
    BY <2>1, PutMoves DEF Put
  <2>3. \A b \in Alerts : (Fresh(b))' => Fresh(b)
    BY <2>2 DEF Fresh
  <2> QED
    BY <2>2, <2>3, SteadyThread
<1>2. CASE \E p \in Producers, a \in Alerts : Receive(p, a)
  <2>1. PICK p \in Producers, a \in Alerts : Receive(p, a)
    BY <1>2
  <2>2. /\ Sets(a, "queued") /\ registry[a].status = "absent"
        /\ \A b \in Alerts \ {a} : (Queued(b) \/ BeingPut(b))' => Queued(b) \/ BeingPut(b)
        /\ UNCHANGED <<worker, thread, decider, slack, performed>>
    BY <2>1, ReceiveSets, ReceiveMoves DEF Receive
  <2>3. \A b \in Alerts : (Fresh(b))' => Fresh(b)
    BY <2>2 DEF Fresh, Sets
  <2> QED
    BY <2>2, <2>3, SteadyThread DEF Sets
<1>3. CASE Take
  <2>1. /\ \A b \in Alerts : (Queued(b))' => Queued(b)
        /\ \A b \in Alerts : (BeingPut(b))' = BeingPut(b)
        /\ worker'.pc = "check" /\ worker'.alert \in Alerts /\ Queued(worker'.alert)
        /\ UNCHANGED <<registry, thread, decider, slack, performed>>
    BY <1>3, TakeMoves DEF Take
  <2>2. \A b \in Alerts : (Fresh(b))' => Fresh(b)
    BY <2>1 DEF Fresh
  <2> QED
    BY <2>1, <2>2, QuietThread
<1>4. CASE Tick \/ UNCHANGED vars
  <2>1. UNCHANGED <<registry, queue, putting, worker, thread, decider, slack, performed>>
    BY <1>4 DEF Tick, vars
  <2>2. \A b \in Alerts : (Fresh(b))' => Fresh(b)
    BY <2>1 DEF Fresh, Queued, BeingPut
  <2> QED
    BY <2>1, <2>2, SteadyThread
<1> QED
  BY <1>1, <1>2, <1>3, <1>4

\* The worker before and after the run of the graph.
LEMMA SettleDecision ==
    ASSUME TypeInv, OwnerInv, DecisionInv,
           \/ Requeue \/ Check \/ Start \/ HandleTriageError \/ CallFails \/ RecordUnhandled
           \/ \E kind \in {"transient", "permanent"} : GraphRaises(kind)
    PROVE  DecisionInv' /\ Kept
<1>0. worker \in Workers
  BY DEF TypeInv, TypeOK
<1>1. CASE Requeue
  <2>1. /\ \A b \in Alerts : (Queued(b))' <=> b = worker.alert \/ Queued(b)
        /\ \A b \in Alerts : (BeingPut(b))' = BeingPut(b)
        /\ worker.pc = "requeue" /\ worker' = Idle
        /\ UNCHANGED <<registry, thread, decider, slack, performed>>
    BY <1>1, RequeueMoves DEF Requeue
  <2>2. \A b \in Alerts : (Fresh(b))' => Fresh(b)
    BY <2>1, IdleHasNone DEF Fresh, FreshPcs
  <2> QED
    BY <2>1, <2>2, IdleHasNone, QuietThread
<1>2. ASSUME worker.pc # "idle", Present,
             UNCHANGED <<queue, putting, thread, decider, slack, performed>>,
             \/ worker' = Idle
             \/ worker'.alert = worker.alert /\ (worker'.pc \in FreshPcs => worker.pc \in FreshPcs),
             worker'.pc \notin {"run", "post", "save_ts", "await", "refresh"},
             \A b \in Alerts : registry'[b].status = "awaiting_approval"
                                   => registry[b].status = "awaiting_approval"
      PROVE  DecisionInv' /\ Kept
  BY <1>2, FreshBefore, QuietThread
<1>3. CASE Check \/ \E kind \in {"transient", "permanent"} : GraphRaises(kind)
  <2>1. /\ UNCHANGED <<registry, queue, putting, thread, decider, slack, performed>>
        /\ worker'.alert = worker.alert
        /\ worker.pc \in {"check", "invoke", "run", "post", "close"}
        /\ worker'.pc \in {"start", "duplicate", "transient", "permanent"}
    <3>1. CASE Check
      BY <3>1, RunStepLeads DEF RunStep, Leads, Check
    <3>2. CASE \E kind \in {"transient", "permanent"} : GraphRaises(kind)
      BY <1>0, <3>2 DEF GraphRaises, Go, Workers
    <3> QED
      BY <1>3, <3>1, <3>2
  <2>2. worker'.pc \in FreshPcs => worker.pc \in FreshPcs
    BY <2>1 DEF FreshPcs
  <2> QED
    BY <1>2, <2>1, <2>2 DEF Present
<1>4. CASE CallFails
  <2>1. /\ UNCHANGED <<registry, queue, putting, thread, decider, slack, performed>>
        /\ worker.pc # "idle"
        /\ worker'.alert = worker.alert /\ worker'.pc = "unhandled"
    BY <1>4, CallFailsLeads DEF CallFails
  <2> QED
    BY <1>2, <2>1 DEF FreshPcs, Present
<1>5. CASE Start
  <2>1. /\ UNCHANGED <<queue, putting, thread, decider, slack, performed>>
        /\ Sets(worker.alert, "running")
        /\ worker'.alert = worker.alert /\ worker.pc = "start" /\ worker'.pc = "invoke"
    BY <1>0, <1>5, StartSets DEF Start, Go, Workers
  <2> QED
    BY <1>2, <2>1 DEF FreshPcs, Present, Sets
<1>6. CASE HandleTriageError
  <2>1. /\ UNCHANGED <<queue, putting, thread, decider, slack, performed>>
        /\ worker.pc \in {"transient", "permanent"}
        /\ \/ Sets(worker.alert, "queued") /\ worker' = [worker EXCEPT !.pc = "requeue"]
           \/ Sets(worker.alert, "failed") /\ Returns
    BY <1>6, HandleErrorSets DEF HandleTriageError
  <2>2. \/ worker'.alert = worker.alert /\ worker'.pc \in {"requeue", "unhandled"}
        \/ worker' = Idle /\ worker'.pc = "idle"
    BY <1>0, <2>1, IdleHasNone, ReturnsLeads DEF Workers
  <2> QED
    BY <1>2, <2>1, <2>2 DEF FreshPcs, Present, Sets
<1>7. CASE RecordUnhandled
  <2>1. /\ UNCHANGED <<queue, putting, thread, decider, slack, performed>>
        /\ worker.pc = "unhandled"
        /\ worker' = Idle /\ worker'.pc = "idle"
        /\ UNCHANGED registry \/ Sets(worker.alert, "failed")
    BY <1>7, UnhandledSets, IdleHasNone DEF RecordUnhandled
  <2> QED
    BY <1>2, <2>1 DEF Present, Sets
<1> QED
  BY <1>1, <1>3, <1>4, <1>5, <1>6, <1>7

\* A duplicate: the ticket is refreshed for an original that awaits approval.
LEMMA DuplicateDecision ==
    ASSUME TypeInv, OwnerInv, DecisionInv,
           MarkDuplicate \/ CountOccurrence \/ ReadOriginal \/ \E ok \in BOOLEAN : RefreshTicket(ok)
    PROVE  DecisionInv' /\ Kept
<1> DEFINE o == worker.dup.alert
<1>0. worker \in Workers /\ worker.pc \in DupPcs /\ o \in Alerts /\ worker.alert \in Alerts
  BY DEF MarkDuplicate, CountOccurrence, ReadOriginal, RefreshTicket, DupPcs, TypeInv, TypeOK,
         Hands
<1>1. Present /\ worker.pc # "idle" /\ UNCHANGED <<queue, putting, thread, decider, performed>>
  BY <1>0, QuietWorkPresent
  DEF QuietWork, Duplicate, MarkDuplicate, CountOccurrence, ReadOriginal, RefreshTicket, DupPcs
<1>2. ASSUME \/ worker' = Idle
             \/ worker'.alert = worker.alert /\ worker'.pc \in {"occurrences", "original", "unhandled"}
             \/ /\ worker'.alert = worker.alert /\ worker'.pc = "refresh"
                /\ worker'.dup.alert = o /\ Open(o),
             \A b \in Alerts : slack'[b] = slack[b] \/ Open(b),
             \A b \in Alerts : registry'[b].status = "awaiting_approval"
                                   => registry[b].status = "awaiting_approval"
      PROVE  DecisionInv' /\ Kept
  <2>1. \A b \in Alerts : (Fresh(b))' => Fresh(b)
    BY <1>1, <1>2, FreshBefore DEF FreshPcs
  <2>2. \A b \in Alerts : Open(b) => (Open(b))'
    BY <1>1, <2>1 DEF Open, Reviewed
  <2> QED
    BY <1>0, <1>1, <1>2, <2>1, <2>2, IdleHasNone, QuietThread
<1>3. CASE MarkDuplicate
  <2>1. worker'.alert = worker.alert /\ worker'.pc = "occurrences" /\ UNCHANGED slack
    BY <1>0, <1>3 DEF MarkDuplicate, Go, Workers
  <2> QED
    BY <1>2, <1>3, <2>1, MarkDuplicateSets
<1>4. CASE CountOccurrence
  <2>1. worker'.alert = worker.alert /\ worker'.pc = "original" /\ UNCHANGED slack
    BY <1>0, <1>4 DEF CountOccurrence, Go, Workers
  <2> QED
    BY <1>2, <1>4, <2>1, CountKeeps DEF StatusKept
<1>5. CASE ReadOriginal
  <2>1. /\ UNCHANGED <<registry, slack>>
        /\ \/ worker' = Idle
           \/ worker' = [worker EXCEPT !.pc = "refresh"] /\ registry[o].status = "awaiting_approval"
    BY <1>5 DEF ReadOriginal
  <2>2. CASE registry[o].status = "awaiting_approval" /\ worker' = [worker EXCEPT !.pc = "refresh"]
    <3>1. Open(o)
      BY <1>0, <2>2 DEF DecisionInv, Untouched
    <3>2. /\ worker'.alert = worker.alert /\ worker'.pc = "refresh" /\ worker'.dup.alert = o
      BY <1>0, <2>2 DEF Workers
    <3> QED
      BY <1>2, <2>1, <3>1, <3>2
  <2> QED
    BY <1>2, <2>1, <2>2
<1>6. CASE \E ok \in BOOLEAN : RefreshTicket(ok)
  <2>1. PICK ok \in BOOLEAN : RefreshTicket(ok)
    BY <1>6
  <2>2. /\ worker.pc = "refresh"
        /\ worker' = Idle \/ (worker'.alert = worker.alert /\ worker'.pc = "unhandled")
        /\ slack' = [slack EXCEPT ![o] = "buttons"] \/ UNCHANGED slack
    BY <2>1, RaisesLeads DEF RefreshTicket
  <2>3. Open(o)
    BY <2>2 DEF DecisionInv
  <2>4. \A b \in Alerts : slack'[b] = slack[b] \/ Open(b)
    BY <2>2, <2>3 DEF TypeInv, TypeOK
  <2> QED
    BY <1>2, <2>1, <2>2, <2>4, RefreshKeeps DEF StatusKept
<1> QED
  BY <1>3, <1>4, <1>5, <1>6

\* After the run: the ticket, its id, and the record.
LEMMA TicketDecision ==
    ASSUME TypeInv, OwnerInv, DecisionInv, Await \/ Close \/ \E ok \in BOOLEAN : PostTicket(ok)
    PROVE  DecisionInv' /\ Kept
<1> DEFINE a == worker.alert
<1>0. /\ worker \in Workers /\ worker.pc \in {"post", "await", "close"} /\ a \in Alerts
      /\ worker.pc # "close" => Reviewed(a)
  BY DEF Await, Close, PostTicket, TypeInv, TypeOK, Hands, DecisionInv
<1>1. UNCHANGED <<queue, putting, thread, decider, performed>>
  BY DEF Await, Close, PostTicket
<1>a. registry[a].status # "absent" /\ ~Queued(a) /\ ~BeingPut(a)
  BY <1>0, HandPresent
<1>2. CASE Await \/ Close
  <2>1. /\ worker.pc \in {"await", "close"} /\ UNCHANGED slack /\ Returns
        /\ Sets(a, "auto_closed") \/ (Sets(a, "awaiting_approval") /\ worker.pc = "await")
    BY <1>2, AwaitSets, CloseSets DEF Await, Close
  <2>2. /\ worker' = Idle \/ (worker'.alert = a /\ worker'.pc = "unhandled")
        /\ worker'.pc \in {"idle", "unhandled"}
    BY <2>1, ReturnsLeads, IdleHasNone
  <2>3. Present
    BY <2>1 DEF Present, Sets
  <2>4. \A b \in Alerts : (Fresh(b))' => Fresh(b)
    BY <1>0, <1>1, <2>2, <2>3, FreshBefore DEF FreshPcs
  <2>5. ASSUME NEW b \in Alerts, b = a, worker.pc = "await" PROVE (Open(b))'
    <3>1. Reviewed(b) /\ ~Queued(b) /\ ~BeingPut(b)
      BY <1>0, <1>a, <2>5
    <3>2. (Reviewed(b))' /\ ~(Queued(b))' /\ ~(BeingPut(b))'
      BY <1>1, <3>1 DEF Reviewed, Queued, BeingPut
    <3>3. registry'[b].status # "absent"
      BY <2>1, <2>5 DEF Sets
    <3> QED
      BY <2>2, <3>2, <3>3 DEF Open, Fresh, FreshPcs
  <2>6. \A b \in Alerts : registry'[b].status = "awaiting_approval"
                             => registry[b].status = "awaiting_approval" \/ (Open(b))'
    BY <2>1, <2>5 DEF Sets
  <2> QED
    BY <1>1, <2>1, <2>2, <2>4, <2>6, QuietThread
<1>3. CASE \E ok \in BOOLEAN : PostTicket(ok)
  <2>1. /\ UNCHANGED registry /\ worker.pc = "post"
        /\ worker'.alert = a /\ worker'.pc \in {"save_ts", "await"}
        /\ slack' = [slack EXCEPT ![a] = "buttons"] \/ UNCHANGED slack
    BY <1>0, <1>3 DEF PostTicket, Go, Workers
  <2>a. (Open(a))'
    BY <1>0, <1>1, <1>a, <2>1 DEF Open, Reviewed, Fresh, FreshPcs, Queued, BeingPut
  <2>2. \A b \in Alerts : slack'[b] = slack[b] \/ (Open(b))'
    BY <1>0, <2>1, <2>a DEF TypeInv, TypeOK
  <2>3. \A b \in Alerts : (Fresh(b))' => Fresh(b)
    BY <1>0, <1>1, <2>1, FreshBefore DEF Present, FreshPcs
  <2> QED
    BY <1>0, <1>1, <2>1, <2>2, <2>3, QuietThread
<1> QED
  BY <1>2, <1>3

\* The run of the graph: what is written to the thread of the alert in hand.
LEMMA RunWrites ==
    ASSUME TypeInv, InvokeGraph \/ Interrupted \/ AutoClosed \/ SaveTs
    PROVE  LET a == worker.alert IN
           /\ a \in Alerts /\ worker'.alert = a
           /\ UNCHANGED <<registry, queue, putting, decider, slack, performed, count>>
           /\ \A b \in Alerts \ {a} : thread'[b] = thread[b]
           /\ \/ /\ worker.pc = "invoke" /\ worker'.pc = "run"
                 /\ thread'[a].next = "running" /\ thread'[a].decision = thread[a].decision
                 /\ worker'.ckpt.decision = thread[a].decision
              \/ /\ worker.pc = "run" /\ worker'.pc \in {"post", "close"}
                 /\ thread'[a].next \in {"human_review", "end"}
                 /\ thread'[a].decision \in {worker.ckpt.decision, NoDecider}
              \/ /\ worker.pc = "save_ts" /\ worker'.pc = "await"
                 /\ thread'[a].next = thread[a].next /\ thread'[a].decision = thread[a].decision
<1> DEFINE a == worker.alert
<1>1. /\ worker \in Workers /\ a \in Alerts /\ worker.ckpt \in Checkpoint
      /\ thread \in [Alerts -> Checkpoint] /\ thread[a] \in Checkpoint
  BY DEF InvokeGraph, Interrupted, AutoClosed, GraphReturns, SaveTs, TypeInv, TypeOK, Hands,
         Workers
<1>2. /\ UNCHANGED <<registry, queue, putting, decider, slack, performed, count>>
      /\ worker'.alert = a
  BY <1>1 DEF InvokeGraph, Interrupted, AutoClosed, GraphReturns, SaveTs, Go, Workers
<1>3. CASE InvokeGraph
  <2> DEFINE k == [thread[a] EXCEPT !.next = "running"]
  <2>1. k.next = "running" /\ k.decision = thread[a].decision
    BY <1>1 DEF Checkpoint
  <2>2. /\ worker.pc = "invoke" /\ thread' = [thread EXCEPT ![a] = k]
        /\ worker' = [worker EXCEPT !.pc = "run", !.ckpt = k]
    BY <1>3 DEF InvokeGraph
  <2> HIDE DEF k
  <2>3. /\ worker'.pc = "run" /\ worker'.ckpt = k /\ thread'[a] = k
        /\ \A b \in Alerts \ {a} : thread'[b] = thread[b]
    BY <1>1, <2>2 DEF Workers
  <2> QED
    BY <1>1, <1>2, <2>1, <2>2, <2>3
<1>4. ASSUME NEW next \in {"human_review", "end"},
             NEW by \in {worker.ckpt.decision, NoDecider}, NEW pc \in {"post", "close"},
             GraphReturns(next, by, pc)
      PROVE  /\ worker.pc = "run" /\ worker'.pc \in {"post", "close"}
             /\ thread'[a].next \in {"human_review", "end"}
             /\ thread'[a].decision \in {worker.ckpt.decision, NoDecider}
             /\ \A b \in Alerts \ {a} : thread'[b] = thread[b]
  <2> DEFINE k == [worker.ckpt EXCEPT !.next = next, !.decision = by]
  <2>2. k.next = next /\ k.decision = by
    BY <1>1 DEF Checkpoint
  <2>3. /\ worker.pc = "run" /\ thread' = [thread EXCEPT ![a] = k]
        /\ worker' = [worker EXCEPT !.pc = pc, !.ckpt = NoCheckpoint]
    BY <1>4 DEF GraphReturns
  <2> HIDE DEF k
  <2>4. worker'.pc = pc /\ thread'[a] = k /\ \A b \in Alerts \ {a} : thread'[b] = thread[b]
    BY <1>1, <2>3 DEF Workers
  <2> QED
    BY <1>1, <2>2, <2>3, <2>4
<1>5. CASE SaveTs
  <2> DEFINE k == [thread[a] EXCEPT !.slack_ts = TRUE]
  <2>1. k.next = thread[a].next /\ k.decision = thread[a].decision
    BY <1>1 DEF Checkpoint
  <2>2. /\ worker.pc = "save_ts" /\ thread' = [thread EXCEPT ![a] = k]
        /\ worker' = [worker EXCEPT !.pc = "await"]
    BY <1>1, <1>5 DEF SaveTs, Go
  <2> HIDE DEF k
  <2>3. worker'.pc = "await" /\ thread'[a] = k /\ \A b \in Alerts \ {a} : thread'[b] = thread[b]
    BY <1>1, <2>2 DEF Workers
  <2> QED
    BY <1>1, <1>2, <2>1, <2>2, <2>3
<1>6. CASE Interrupted \/ AutoClosed
  BY <1>1, <1>2, <1>4, <1>6 DEF Interrupted, AutoClosed
<1> QED
  BY <1>3, <1>5, <1>6

LEMMA RunDecision ==
    ASSUME TypeInv, OwnerInv, DecisionInv, InvokeGraph \/ Interrupted \/ AutoClosed \/ SaveTs
    PROVE  DecisionInv' /\ Kept
<1>0. PICK a \in Alerts : a = worker.alert
  BY RunWrites
<1>1. /\ a = worker.alert /\ worker'.alert = a
      /\ UNCHANGED <<registry, queue, putting, decider, slack, performed>>
      /\ \A b \in Alerts \ {a} : thread'[b] = thread[b]
      /\ worker.pc \in {"invoke", "run", "save_ts"} /\ worker'.pc \in {"run", "post", "close", "await"}
      /\ worker'.pc \in FreshPcs => worker.pc \in FreshPcs
  BY <1>0, RunWrites DEF FreshPcs
<1>2. \A b \in Alerts : (Fresh(b))' => Fresh(b)
  BY <1>1, FreshBefore DEF Present
<1>3. registry[a].status # "absent" /\ ~Queued(a) /\ ~BeingPut(a)
  BY <1>1, HandPresent
<1>4. \A b \in Alerts \ {a} : /\ (Open(b) \/ Untouched(b))'
                              /\ (thread[b].next = "executor" => thread[b].decision # NoDecider)'
  BY <1>1, <1>2 DEF Open, Reviewed, Untouched, DecisionInv
<1>5. (\A d \in Deciders : Informed(decider[d]))'
  BY <1>1 DEF DecisionInv
<1>6. ASSUME (Open(a) \/ Untouched(a))',
             (thread[a].next = "executor" => thread[a].decision # NoDecider)',
             worker'.pc \in {"post", "save_ts", "await"} => (Reviewed(a))',
             worker'.pc = "run" => worker'.ckpt.decision = NoDecider,
             thread[a].decision # NoDecider => thread'[a].decision # NoDecider
      PROVE  DecisionInv' /\ Kept
  <2>1. (\A b \in Alerts : Open(b) \/ Untouched(b))'
    BY <1>4, <1>6
  <2>2. (\A b \in Alerts : thread[b].next = "executor" => thread[b].decision # NoDecider)'
    BY <1>4, <1>6
  <2>3. (worker.pc \in {"post", "save_ts", "await"} => Reviewed(worker.alert))'
    BY <1>1, <1>6 DEF Reviewed
  <2>4. Kept
    BY <1>1, <1>6 DEF Kept
  <2>5. worker'.pc # "refresh"
    BY <1>1
  <2> QED
    BY <1>5, <1>6, <2>1, <2>2, <2>3, <2>4, <2>5 DEF DecisionInv
<1>7. CASE worker.pc = "invoke" /\ worker'.pc = "run" /\ thread'[a].next = "running"
           /\ thread'[a].decision = thread[a].decision
           /\ worker'.ckpt.decision = thread[a].decision
  <2>1. Untouched(a)
    BY <1>1, <1>7 DEF DecisionInv, Open, Fresh, FreshPcs
  <2>2. (Untouched(a))' /\ thread[a].decision = NoDecider
    BY <1>1, <1>7, <2>1 DEF Untouched
  <2> QED
    BY <1>6, <1>7, <2>2
<1>8. CASE worker.pc = "run" /\ worker'.pc \in {"post", "close"}
           /\ thread'[a].next \in {"human_review", "end"}
           /\ thread'[a].decision \in {worker.ckpt.decision, NoDecider}
  <2>1. Untouched(a) /\ thread'[a].decision = NoDecider
    BY <1>1, <1>8 DEF DecisionInv, Open, Fresh, FreshPcs
  <2>2. (Untouched(a))' /\ (Reviewed(a))' /\ thread[a].decision = NoDecider
    BY <1>1, <1>8, <2>1 DEF Reviewed, Past, Untouched
  <2> QED
    BY <1>6, <1>8, <2>2
<1>9. CASE worker.pc = "save_ts" /\ worker'.pc = "await"
           /\ thread'[a].next = thread[a].next /\ thread'[a].decision = thread[a].decision
  <2>1. (Reviewed(a))' /\ Reviewed(a)
    BY <1>1, <1>9 DEF DecisionInv, Reviewed
  <2>2. (Open(a))'
    BY <1>1, <1>3, <1>9, <2>1 DEF Open, Fresh, FreshPcs, Queued, BeingPut
  <2> QED
    BY <1>1, <1>6, <1>9, <2>1, <2>2 DEF DecisionInv
<1> QED
  BY <1>0, <1>7, <1>8, <1>9, RunWrites

\* One step of an analyst's call.
LEMMA DecideWrites ==
    ASSUME TypeInv, NEW d \in Deciders, Decide(d), Informed(decider[d]),
           LET a == decider[d].alert IN
           thread[a].next = "executor" => thread[a].decision # NoDecider,
           decider[d].pc # "idle" => Reviewed(decider[d].alert)
    PROVE  LET a == decider[d].alert IN
           /\ \A b \in Alerts \ {a} : thread'[b] = thread[b]
           /\ Informed(decider'[d])
           /\ \/ thread'[a] = thread[a]
              \/ thread'[a].next \in {"executor", "end"} /\ thread'[a].decision # NoDecider
           /\ \A b \in Alerts \ {a} : slack'[b] = slack[b] /\ performed'[b] = performed[b]
<1> DEFINE a == decider[d].alert
           c == decider[d]
<1>1. /\ decider \in [Deciders -> Calls] /\ c \in Calls /\ a \in Alerts
      /\ thread \in [Alerts -> Checkpoint] /\ slack \in [Alerts -> Messages]
      /\ performed \in [Alerts -> Nat]
  BY DecideAlert DEF TypeInv, TypeOK
<1>2. \A b \in Alerts \ {a} : slack'[b] = slack[b] /\ performed'[b] = performed[b]
  BY <1>1 DEF Decide, GetState, LoadCheckpoint, ResumeReview, ResumeLate, ResumeEarly, Perform,
              Finish, RecordDecision, MarkResolved, DeciderFails
<1>3. ASSUME NEW x, decider' = [decider EXCEPT ![d] = x], Informed(x), UNCHANGED thread
      PROVE  /\ \A b \in Alerts \ {a} : thread'[b] = thread[b]
             /\ Informed(decider'[d]) /\ thread'[a] = thread[a]
  <2>1. decider'[d] = x
    BY <1>1, <1>3
  <2> QED
    BY <1>3, <2>1
<1>4. ASSUME NEW x, decider' = [decider EXCEPT ![d] = x], Informed(x),
             NEW next \in {"executor", "end"}, NEW by, by # NoDecider, Commit(d, next, by)
      PROVE  /\ \A b \in Alerts \ {a} : thread'[b] = thread[b]
             /\ Informed(decider'[d])
             /\ thread'[a].next \in {"executor", "end"} /\ thread'[a].decision # NoDecider
  <2>1. decider'[d] = x
    BY <1>1, <1>4
  <2>2. /\ \A b \in Alerts \ {a} : thread'[b] = thread[b]
        /\ thread'[a].next = next /\ thread'[a].decision = by
    BY <1>1, <1>4 DEF Commit
  <2> QED
    BY <1>4, <2>1, <2>2
<1>5. /\ Informed(NoCall)
      /\ \A pc \in {"load", "record", "mark"} : Informed([c EXCEPT !.pc = pc])
      /\ c.out # NoDecider => Informed([c EXCEPT !.pc = "finish"])
  BY <1>1 DEF Informed, NoCall, Calls
<1>6. CASE GetState(d) \/ RecordDecision(d) \/ DeciderFails(d)
           \/ \E ok \in BOOLEAN : MarkResolved(d, ok)
  <2>1. UNCHANGED thread
    BY <1>6 DEF GetState, RecordDecision, DeciderFails, MarkResolved
  <2>2. \/ decider' = [decider EXCEPT ![d] = NoCall]
        \/ \E pc \in {"load", "mark"} : decider' = [decider EXCEPT ![d] = [c EXCEPT !.pc = pc]]
    BY <1>1, <1>6 DEF GetState, RecordDecision, DeciderFails, MarkResolved
  <2> QED
    BY <1>2, <1>3, <1>5, <2>1, <2>2
<1>7. CASE LoadCheckpoint(d)
  <2> DEFINE x == [c EXCEPT !.pc = "resume", !.ckpt = thread[a]]
  <2>1. decider' = [decider EXCEPT ![d] = x] /\ UNCHANGED thread /\ c.pc = "load"
    BY <1>1, <1>7 DEF LoadCheckpoint
  <2>2. x.pc = "resume" /\ x.ckpt = thread[a]
    BY <1>1 DEF Calls
  <2>3. Informed(x)
    BY <2>1, <2>2 DEF Informed, Reviewed
  <2> HIDE DEF x
  <2> QED
    BY <1>2, <1>3, <2>1, <2>3
<1>8. CASE \E next \in {"executor", "end"} : ResumeReview(d, next)
  <2>1. PICK next \in {"executor", "end"} : ResumeReview(d, next)
    BY <1>8
  <2> DEFINE x == [c EXCEPT !.pc = IF next = "executor" THEN "perform" ELSE "record", !.out = d]
  <2>2. decider' = [decider EXCEPT ![d] = x] /\ Commit(d, next, d)
    BY <1>1, <2>1 DEF ResumeReview
  <2>3. x.pc \in {"perform", "record"} /\ x.out = d /\ d # NoDecider
    BY <1>1, PipelineAssumption DEF Calls
  <2>4. Informed(x)
    BY <2>3 DEF Informed
  <2> HIDE DEF x
  <2> QED
    BY <1>2, <1>4, <2>2, <2>3, <2>4
<1>9. CASE ResumeLate(d)
  <2> DEFINE x == [c EXCEPT !.pc = IF c.ckpt.next = "executor" THEN "perform" ELSE "record",
                            !.out = c.ckpt.decision]
  <2>1. decider' = [decider EXCEPT ![d] = x] /\ UNCHANGED thread /\ c.pc = "resume"
    BY <1>1, <1>9 DEF ResumeLate
  <2>2. /\ x.pc = IF c.ckpt.next = "executor" THEN "perform" ELSE "record"
        /\ x.out = c.ckpt.decision
    BY <1>1 DEF Calls
  <2>3. Informed(x)
    BY <2>1, <2>2 DEF Informed
  <2> HIDE DEF x
  <2> QED
    BY <1>2, <1>3, <2>1, <2>3
<1>10. CASE Perform(d)
  <2>1. /\ decider' = [decider EXCEPT ![d] = [c EXCEPT !.pc = "finish"]] /\ UNCHANGED thread
        /\ c.pc = "perform"
    BY <1>1, <1>10 DEF Perform
  <2>2. Informed([c EXCEPT !.pc = "finish"])
    BY <1>5, <2>1 DEF Informed
  <2> QED
    BY <1>2, <1>3, <2>1, <2>2
<1>11. CASE Finish(d)
  <2>1. /\ decider' = [decider EXCEPT ![d] = [c EXCEPT !.pc = "record"]]
        /\ Commit(d, "end", c.out) /\ c.out # NoDecider
    BY <1>1, <1>11 DEF Finish, Informed
  <2>2. Informed([c EXCEPT !.pc = "record"])
    BY <1>5
  <2> QED
    BY <1>2, <1>4, <2>1, <2>2
<1>12. ~\E next \in {"human_review", "end"} : ResumeEarly(d, next)
  BY DEF ResumeEarly, Informed, Past
<1> QED
  BY <1>6, <1>7, <1>8, <1>9, <1>10, <1>11, <1>12 DEF Decide

LEMMA CallDecision ==
    ASSUME NoMcp, TypeInv, OwnerInv, DecisionInv,
           NEW d \in Deciders, Decide(d) \/ \E a \in Alerts : Submit(d, a)
    PROVE  DecisionInv' /\ Kept
<1>1. UNCHANGED <<queue, putting, worker>> /\ (UNCHANGED registry \/ RecordDecision(d))
  BY DecideKeeps
<1>2. ASSUME NEW a \in Alerts, Open(a), (Reviewed(a))',
             \A b \in Alerts : registry'[b].status = "absent" => registry[b].status = "absent",
             \A b \in Alerts \ {a} : registry'[b].status = registry[b].status,
             \A b \in Alerts \ {a} : /\ thread'[b] = thread[b] /\ slack'[b] = slack[b]
                                     /\ performed'[b] = performed[b],
             \A e \in Deciders \ {d} : decider'[e] = decider[e],
             decider'[d].pc # "idle" => decider'[d].alert = a,
             thread[a].decision # NoDecider => thread'[a].decision # NoDecider,
             thread'[a].next = "executor" => thread'[a].decision # NoDecider,
             Informed(decider'[d])
      PROVE  DecisionInv' /\ Kept
  <2>1. \A b \in Alerts : (Fresh(b))' => Fresh(b)
    BY <1>1, <1>2 DEF Fresh, Queued, BeingPut
  <2>2. \A b \in Alerts : (Reviewed(b) => (Reviewed(b))') /\ (Open(b) => (Open(b))')
    BY <1>2, <2>1 DEF Open, Reviewed
  <2>3. \A b \in Alerts \ {a} : Untouched(b) => (Untouched(b))'
    BY <1>2 DEF Untouched
  <2>4. \A b \in Alerts : (Open(b))' \/ (Untouched(b))'
    BY <1>2, <2>2, <2>3 DEF DecisionInv
  <2>5. /\ (worker.pc \in {"post", "save_ts", "await"} => Reviewed(worker.alert))'
        /\ (worker.pc = "refresh" => Open(worker.dup.alert))'
    <3>1. /\ worker.pc \in {"post", "save_ts", "await"} => worker.alert \in Alerts
          /\ worker.pc = "refresh" => worker.dup.alert \in Alerts
      BY DEF TypeInv, Hands, DupPcs
    <3>2. ASSUME NEW o \in Alerts, worker.alert = o, (Reviewed(o))'
          PROVE  (Reviewed(worker.alert))'
      BY <1>1, <3>2 DEF Reviewed
    <3>3. ASSUME NEW o \in Alerts, worker.dup.alert = o, (Open(o))'
          PROVE  (Open(worker.dup.alert))'
      BY <1>1, <3>3 DEF Open, Reviewed, Fresh, Queued, BeingPut
    <3> QED
      BY <1>1, <2>2, <3>1, <3>2, <3>3 DEF DecisionInv
  <2>6. (\A b \in Alerts : thread[b].next = "executor" => thread[b].decision # NoDecider)'
        /\ Kept
    BY <1>2 DEF DecisionInv, Kept
  <2>7. (\A e \in Deciders : Informed(decider[e]))'
    <3>1. \A e \in Deciders : Informed(decider'[e])
      BY <1>2 DEF DecisionInv
    <3> QED
      BY <3>1
  <2> QED
    BY <1>1, <2>4, <2>5, <2>6, <2>7 DEF DecisionInv
<1>3. CASE Decide(d)
  <2>0. PICK a \in Alerts : a = decider[d].alert
    BY <1>3, DecideAlert
  <2>1. /\ decider[d].pc # "idle" /\ a = decider[d].alert
        /\ \A e \in Deciders \ {d} : decider'[e] = decider[e]
        /\ decider'[d].pc # "idle" => decider'[d].alert = a
    BY <1>3, <2>0, DecideAlert
  <2>2. /\ Informed(decider[d]) /\ Open(a) /\ Reviewed(a)
        /\ thread[a].next = "executor" => thread[a].decision # NoDecider
    BY <2>1 DEF DecisionInv, Untouched, Open
  <2>3. /\ \A b \in Alerts \ {a} : /\ thread'[b] = thread[b] /\ slack'[b] = slack[b]
                                    /\ performed'[b] = performed[b]
        /\ Informed(decider'[d])
        /\ \/ thread'[a] = thread[a]
           \/ thread'[a].next \in {"executor", "end"} /\ thread'[a].decision # NoDecider
    BY <1>3, <2>1, <2>2, DecideWrites
  <2>4. (Reviewed(a))'
    BY <2>2, <2>3 DEF Reviewed, Past
  <2>5. UNCHANGED registry \/ Sets(a, "resolved")
    BY <1>1, <2>1, DecisionSets
  <2> QED
    BY <1>2, <2>1, <2>2, <2>3, <2>4, <2>5 DEF Sets
<1>4. CASE \E a \in Alerts : Submit(d, a)
  <2>1. PICK a \in Alerts : Submit(d, a)
    BY <1>4
  <2>2. /\ decider'[d].pc = "get_state" /\ decider'[d].alert = a
        /\ Admits(Surface[d], a)
        /\ \A e \in Deciders \ {d} : decider'[e] = decider[e]
        /\ UNCHANGED <<registry, thread, slack, performed>>
    BY <2>1, SubmitAlert DEF Submit
  <2>3. Open(a) /\ (Reviewed(a))'
    BY <2>2 DEF NoMcp, Admits, DecisionInv, Untouched, Open, Reviewed
  <2> QED
    BY <1>2, <2>2, <2>3 DEF Informed, Reviewed, DecisionInv
<1> QED
  BY <1>3, <1>4

LEMMA CrashDecision ==
    ASSUME TypeInv, OwnerInv, DecisionInv, Crash
    PROVE  DecisionInv' /\ Kept
<1>1. /\ \A b \in Alerts : ~(Queued(b))' /\ ~(BeingPut(b))'
      /\ worker' = Idle /\ UNCHANGED <<registry, thread, slack, performed>>
      /\ \A d \in Deciders : decider'[d] = NoCall \/ decider'[d] = decider[d]
  BY CrashMoves DEF Crash
<1>2. \A b \in Alerts : (Fresh(b))' => Fresh(b)
  BY <1>1, IdleHasNone DEF Fresh
<1>3. \A b \in Alerts : (Open(b) => (Open(b))') /\ (Untouched(b) => (Untouched(b))')
  BY <1>1, <1>2 DEF Open, Reviewed, Untouched, NoCall
<1>4. (\A d \in Deciders : Informed(decider[d]))'
  BY <1>1 DEF DecisionInv, Informed, NoCall
<1> QED
  BY <1>1, <1>2, <1>3, <1>4, IdleHasNone DEF DecisionInv, Kept

LEMMA DecisionStep ==
    NoMcp /\ TypeInv /\ OwnerInv /\ DecisionInv /\ [Next]_vars => DecisionInv' /\ Kept
<1> SUFFICES ASSUME NoMcp, TypeInv, OwnerInv, DecisionInv, [Next]_vars
             PROVE  DecisionInv' /\ Kept
  OBVIOUS
<1>1. CASE Take \/ Tick \/ UNCHANGED vars
           \/ \E p \in Producers : Put(p) \/ \E a \in Alerts : Receive(p, a)
  BY <1>1, IngestDecision
<1>2. CASE Requeue \/ CallFails \/ Start \/ HandleTriageError \/ RecordUnhandled
  BY <1>2, SettleDecision
<1>3. CASE RunStep
  BY <1>3, SettleDecision, TicketDecision, RunDecision DEF RunStep
<1>4. CASE MarkDuplicate \/ CountOccurrence \/ ReadOriginal
           \/ \E ok \in BOOLEAN : RefreshTicket(ok)
  BY <1>4, DuplicateDecision
<1>5. CASE Await \/ Close
  BY <1>5, TicketDecision
<1>6. CASE \E d \in Deciders : Decide(d) \/ \E a \in Alerts : Submit(d, a)
  BY <1>6, CallDecision
<1>7. CASE Crash
  BY <1>7, CrashDecision
<1> QED
  BY <1>1, <1>2, <1>3, <1>4, <1>5, <1>6, <1>7, StepKinds

LEMMA DecisionInvariant == NoMcp => (Spec => []DecisionInv)
<1> SUFFICES ASSUME NoMcp PROVE Spec => []DecisionInv
  OBVIOUS
<1>1. TypeInv /\ OwnerInv /\ DecisionInv /\ [Next]_vars => DecisionInv'
  BY DecisionStep
<1> QED
  BY <1>1, InitDecisionInv, TypeInvariant, OwnerInvariant, PTL DEF Spec

\* A decision that was checkpointed stays: whatever the worker still has to do
\* for the ticket it posted, however many analysts decide at once, and across
\* retries, faults and restarts (triage_once: update_state; human_review_node).
THEOREM DecisionsAreKept == NoMcp => (Spec => DecisionKept)
<1> SUFFICES ASSUME NoMcp PROVE Spec => DecisionKept
  OBVIOUS
<1>1. TypeInv /\ OwnerInv /\ DecisionInv /\ [Next]_vars
         => [\A a \in Alerts : thread[a].decision # NoDecider
                                   => thread'[a].decision # NoDecider]_vars
  BY DecisionStep DEF Kept
<1> QED
  BY <1>1, TypeInvariant, OwnerInvariant, DecisionInvariant, PTL DEF Spec, DecisionKept

-----------------------------------------------------------------------------
(* The second click of one analyst.                                        *)

\* One analyst at a time, and no restart in the middle of a REST call (the
\* Slack listener is a process of its own).
LoneAnalyst ==
    /\ \A d, e \in Deciders : d = e
    /\ \A d \in Deciders : Surface[d] = "api" => MaxCrashes = 0

\* Nobody moved the thread since the call looked at it.
UpToDate(d) ==
    LET n == thread[decider[d].alert].next IN
    /\ decider[d].pc = "resume" => decider[d].ckpt.next = n
    /\ decider[d].pc \in {"perform", "finish"} => n = "executor"

\* Whatever was executed is over, or about to be checkpointed as such.
Over(a) == \/ thread[a].next = "end"
           \/ \E d \in Deciders : decider[d].alert = a /\ decider[d].pc = "finish"

ClickInv ==
    /\ \A d \in Deciders : UpToDate(d)
    /\ count.faults = 0 => \A a \in Alerts : performed[a] > 0 => Over(a)

\* Containment is executed again only after a fault.
NoSecond == \A a \in Alerts : performed[a] > 0 /\ performed'[a] > performed[a]
                                  => count.faults > 0

LEMMA InitClickInv == Init => ClickInv
<1> SUFFICES ASSUME Init PROVE ClickInv
  OBVIOUS
<1>1. /\ \A d \in Deciders : decider[d].pc = "idle"
      /\ \A a \in Alerts : performed[a] = 0
  BY DEF Init, NoCall
<1> QED
  BY <1>1 DEF ClickInv, UpToDate

\* A step of somebody else: threads past the review stay where they are.
LEMMA OthersKeepClick ==
    ASSUME TypeInv, [Next]_vars, DecisionInv, ClickInv, UNCHANGED <<decider, performed>>,
           \A b \in Alerts : Open(b) => thread'[b].next = thread[b].next
    PROVE  ClickInv' /\ NoSecond
<1>1. \A d \in Deciders : decider[d].pc # "idle" =>
          thread'[decider[d].alert].next = thread[decider[d].alert].next
  BY DEF DecisionInv, Untouched, TypeInv, Hands
<1>2. \A d \in Deciders : (UpToDate(d))'
  BY <1>1 DEF ClickInv, UpToDate
<1>3. \A a \in Alerts : performed[a] > 0 /\ Over(a) => (Over(a))'
  BY DEF Over, DecisionInv, Untouched
<1>4. count'.faults = 0 => count.faults = 0
  BY CountGrows
<1> QED
  BY <1>2, <1>3, <1>4 DEF ClickInv, NoSecond, TypeInv, TypeOK

\* A step of the analyst's own call.
LEMMA CallClick ==
    ASSUME LoneAnalyst, NoMcp, TypeInv, OwnerInv, [Next]_vars, DecisionInv, ClickInv,
           NEW d \in Deciders, Decide(d)
    PROVE  ClickInv' /\ NoSecond
<1> DEFINE c == decider[d]
<1>0. PICK a \in Alerts : a = decider[d].alert
  BY DecideAlert
<1>1. /\ decider \in [Deciders -> Calls] /\ c \in Calls /\ c.alert = a /\ c.pc # "idle"
      /\ thread \in [Alerts -> Checkpoint] /\ performed \in [Alerts -> Nat]
      /\ \A e \in Deciders : e = d
      /\ performed[a] \in Nat
  BY <1>0, DecideAlert DEF TypeInv, TypeOK, LoneAnalyst
<1>2. UpToDate(d) /\ (count.faults = 0 /\ performed[a] > 0 => thread[a].next = "end" \/ c.pc = "finish")
  BY <1>1 DEF ClickInv, Over
<1>3. count'.faults = 0 => count.faults = 0
  BY CountGrows
<1>4. \A b \in Alerts \ {a} : performed[b] > 0 /\ count.faults = 0 => thread[b].next = "end"
  BY <1>1 DEF ClickInv, Over
<1>5. ASSUME decider'[d].pc = "idle" \/ decider'[d].alert = a,
             \A b \in Alerts \ {a} : thread'[b] = thread[b] /\ performed'[b] = performed[b],
             decider'[d].pc = "resume" => decider'[d].ckpt.next = thread'[a].next,
             decider'[d].pc \in {"perform", "finish"} => thread'[a].next = "executor",
             count'.faults = 0 /\ performed'[a] > 0
                 => thread'[a].next = "end" \/ (decider'[d].pc = "finish" /\ decider'[d].alert = a),
             performed[a] > 0 /\ performed'[a] > performed[a] => count.faults > 0
      PROVE  ClickInv' /\ NoSecond
  <2>1. \A e \in Deciders : (UpToDate(e))'
    BY <1>1, <1>5 DEF UpToDate
  <2>2. \A b \in Alerts : count'.faults = 0 /\ performed'[b] > 0 => (Over(b))'
    BY <1>1, <1>3, <1>4, <1>5 DEF Over
  <2>3. NoSecond
    <3>1. \A b \in Alerts \ {a} : ~(performed'[b] > performed[b])
      <4>1. \A b \in Alerts : performed[b] \in Nat
        BY DEF TypeInv, TypeOK
      <4> QED
        BY <1>5, <4>1
    <3> QED
      BY <1>5, <3>1 DEF NoSecond
  <2> QED
    BY <2>1, <2>2, <2>3 DEF ClickInv
<1>6. CASE GetState(d) \/ RecordDecision(d) \/ \E ok \in BOOLEAN : MarkResolved(d, ok)
  <2>1. UNCHANGED <<thread, performed>> /\ c.pc \in {"get_state", "record", "mark"}
    BY <1>6 DEF GetState, RecordDecision, MarkResolved
  <2>2. \/ decider' = [decider EXCEPT ![d] = NoCall]
        \/ \E pc \in {"load", "mark"} : decider' = [decider EXCEPT ![d] = [c EXCEPT !.pc = pc]]
    BY <1>1, <1>6 DEF GetState, RecordDecision, MarkResolved
  <2>3. CASE decider' = [decider EXCEPT ![d] = NoCall]
    <3>1. decider'[d].pc = "idle"
      BY <1>1, <2>3 DEF NoCall
    <3> QED
      BY <1>1, <1>2, <1>3, <1>5, <2>1, <2>3, <3>1
  <2>4. ASSUME NEW pc \in {"load", "mark"}, decider' = [decider EXCEPT ![d] = [c EXCEPT !.pc = pc]]
        PROVE  ClickInv' /\ NoSecond
    <3> DEFINE x == [c EXCEPT !.pc = pc]
    <3>1. x.pc = pc /\ x.alert = a
      BY <1>1 DEF Calls
    <3>2. decider'[d] = x
      BY <1>1, <2>4
    <3> HIDE DEF x
    <3> QED
      BY <1>1, <1>2, <1>3, <1>5, <2>1, <3>1, <3>2
  <2> QED
    BY <2>2, <2>3, <2>4
<1>7. CASE LoadCheckpoint(d)
  <2> DEFINE x == [c EXCEPT !.pc = "resume", !.ckpt = thread[a]]
  <2>1. /\ decider' = [decider EXCEPT ![d] = x] /\ UNCHANGED <<thread, performed>>
        /\ c.pc = "load"
    BY <1>1, <1>7 DEF LoadCheckpoint
  <2>2. x.pc = "resume" /\ x.ckpt = thread[a] /\ x.alert = a
    BY <1>1 DEF Calls
  <2>9. decider'[d] = x
    BY <1>1, <2>1
  <2> HIDE DEF x
  <2> QED
    BY <2>9, <1>1, <1>2, <1>3, <1>5, <2>1, <2>2
<1>8. CASE \E next \in {"executor", "end"} : ResumeReview(d, next)
  <2>1. PICK next \in {"executor", "end"} : ResumeReview(d, next)
    BY <1>8
  <2> DEFINE x == [c EXCEPT !.pc = IF next = "executor" THEN "perform" ELSE "record", !.out = d]
  <2>2. /\ decider' = [decider EXCEPT ![d] = x] /\ Commit(d, next, d) /\ UNCHANGED performed
        /\ c.pc = "resume" /\ c.ckpt.next = "human_review"
    BY <1>1, <2>1 DEF ResumeReview
  <2>3. x.pc = (IF next = "executor" THEN "perform" ELSE "record") /\ x.alert = a
    BY <1>1 DEF Calls
  <2>4. thread'[a].next = next /\ \A b \in Alerts \ {a} : thread'[b] = thread[b]
    BY <1>1, <2>2 DEF Commit
  <2>5. count.faults = 0 => ~(performed[a] > 0)
    BY <1>1, <1>2, <2>2 DEF UpToDate
  <2>9. decider'[d] = x
    BY <1>1, <2>2
  <2> HIDE DEF x
  <2> QED
    BY <2>9, <1>1, <1>3, <1>5, <2>2, <2>3, <2>4, <2>5
<1>9. CASE ResumeLate(d)
  <2> DEFINE x == [c EXCEPT !.pc = IF c.ckpt.next = "executor" THEN "perform" ELSE "record",
                            !.out = c.ckpt.decision]
  <2>1. /\ decider' = [decider EXCEPT ![d] = x] /\ UNCHANGED <<thread, performed>>
        /\ c.pc = "resume"
    BY <1>1, <1>9 DEF ResumeLate
  <2>2. /\ x.pc = (IF c.ckpt.next = "executor" THEN "perform" ELSE "record")
        /\ x.alert = a
    BY <1>1 DEF Calls
  <2>3. c.ckpt.next = thread[a].next
    BY <1>1, <1>2, <2>1 DEF UpToDate
  <2>9. decider'[d] = x
    BY <1>1, <2>1
  <2> HIDE DEF x
  <2> QED
    BY <2>9, <1>1, <1>2, <1>3, <1>5, <2>1, <2>2, <2>3
<1>10. CASE Perform(d)
  <2> DEFINE x == [c EXCEPT !.pc = "finish"]
  <2>1. /\ decider' = [decider EXCEPT ![d] = x] /\ UNCHANGED thread /\ c.pc = "perform"
        /\ \A b \in Alerts \ {a} : performed'[b] = performed[b]
    BY <1>1, <1>10 DEF Perform
  <2>2. x.pc = "finish" /\ x.alert = a
    BY <1>1 DEF Calls
  <2>3. thread[a].next = "executor"
    BY <1>1, <1>2, <2>1 DEF UpToDate
  <2>4. performed[a] > 0 => count.faults # 0
    BY <1>2, <2>1, <2>3
  <2>5. count.faults \in Nat
    BY CountGrows
  <2>9. decider'[d] = x
    BY <1>1, <2>1
  <2> HIDE DEF x
  <2> QED
    BY <2>9, <1>1, <1>5, <2>1, <2>2, <2>3, <2>4, <2>5
<1>11. CASE Finish(d)
  <2> DEFINE x == [c EXCEPT !.pc = "record"]
  <2>1. /\ decider' = [decider EXCEPT ![d] = x] /\ UNCHANGED performed
        /\ Commit(d, "end", c.out)
    BY <1>1, <1>11 DEF Finish
  <2>2. x.pc = "record" /\ x.alert = a
    BY <1>1 DEF Calls
  <2>3. thread'[a].next = "end" /\ \A b \in Alerts \ {a} : thread'[b] = thread[b]
    BY <1>1, <2>1 DEF Commit
  <2>9. decider'[d] = x
    BY <1>1, <2>1
  <2> HIDE DEF x
  <2> QED
    BY <2>9, <1>1, <1>5, <2>1, <2>2, <2>3
<1>12. CASE DeciderFails(d)
  <2>1. /\ decider' = [decider EXCEPT ![d] = NoCall] /\ UNCHANGED <<thread, performed>>
        /\ count'.faults = count.faults + 1 /\ count.faults \in Nat
    BY <1>12, CountGrows DEF DeciderFails, TypeInv, TypeOK, Counts
  <2>2. decider'[d].pc = "idle"
    BY <1>1, <2>1 DEF NoCall
  <2> QED
    BY <1>1, <1>5, <2>1, <2>2
<1>13. ~\E next \in {"human_review", "end"} : ResumeEarly(d, next)
  BY DEF ResumeEarly, DecisionInv, Informed, Past
<1> QED
  BY <1>6, <1>7, <1>8, <1>9, <1>10, <1>11, <1>12, <1>13 DEF Decide

LEMMA ClickStep ==
    ASSUME LoneAnalyst, NoMcp, TypeInv, OwnerInv, DecisionInv, ClickInv, [Next]_vars
    PROVE  ClickInv' /\ NoSecond
<1>1. CASE \E d \in Deciders : Decide(d)
  BY <1>1, CallClick
<1>2. CASE \E d \in Deciders, a \in Alerts : Submit(d, a)
  <2>1. PICK d \in Deciders, a \in Alerts : Submit(d, a)
    BY <1>2
  <2>2. /\ decider'[d].pc = "get_state" /\ decider[d].pc = "idle"
        /\ \A e \in Deciders \ {d} : decider'[e] = decider[e]
        /\ UNCHANGED <<thread, count, performed>>
    BY <2>1, SubmitAlert DEF Submit
  <2>3. \A e \in Deciders : (UpToDate(e))'
    BY <2>2 DEF ClickInv, UpToDate
  <2>4. \A b \in Alerts : Over(b) => (Over(b))'
    BY <2>2 DEF Over
  <2> QED
    BY <2>2, <2>3, <2>4 DEF ClickInv, NoSecond, TypeInv, TypeOK
<1>3. CASE Crash
  <2>1. /\ UNCHANGED <<thread, performed>> /\ count.crashes < MaxCrashes
        /\ decider' = [d \in Deciders |-> IF Surface[d] = "api" THEN NoCall ELSE decider[d]]
    BY <1>3 DEF Crash
  <2>2. MaxCrashes # 0
    BY <2>1, CountGrows, PipelineAssumption
  <2>3. \A d \in Deciders : decider'[d] = decider[d]
    BY <2>1, <2>2 DEF LoneAnalyst
  <2>4. decider' = decider
    BY <2>1, <2>3 DEF TypeInv, TypeOK
  <2> QED
    BY <2>1, <2>4, OthersKeepClick
<1>4. CASE InvokeGraph \/ Interrupted \/ AutoClosed \/ SaveTs
  <2>1. PICK a \in Alerts : a = worker.alert
    BY <1>4, RunWrites
  <2>2. worker.pc \in {"invoke", "run"} => ~Open(a)
    BY <2>1 DEF Open, Fresh, FreshPcs
  <2>3. /\ \A b \in Alerts \ {a} : thread'[b] = thread[b]
        /\ Open(a) => thread'[a].next = thread[a].next
        /\ UNCHANGED <<decider, performed>>
    BY <1>4, <2>1, <2>2, RunWrites
  <2> QED
    BY <2>3, OthersKeepClick
<1>5. CASE \/ Take \/ Requeue \/ CallFails \/ Start \/ MarkDuplicate \/ CountOccurrence
           \/ ReadOriginal \/ (\E ok \in BOOLEAN : RefreshTicket(ok))
           \/ HandleTriageError \/ Await \/ Close \/ RecordUnhandled
  <2>1. UNCHANGED <<thread, decider, performed>>
    BY <1>5 DEF Take, Requeue, CallFails, Start, MarkDuplicate, CountOccurrence, ReadOriginal,
                RefreshTicket, HandleTriageError, Await, Close, RecordUnhandled
  <2> QED
    BY <2>1, OthersKeepClick
<1>6. CASE \/ \E p \in Producers : Put(p) \/ \E a \in Alerts : Receive(p, a)
           \/ Check \/ Tick \/ UNCHANGED vars
           \/ \E kind \in {"transient", "permanent"} : GraphRaises(kind)
           \/ \E ok \in BOOLEAN : PostTicket(ok)
  <2>1. UNCHANGED <<thread, decider, performed>>
    BY <1>6 DEF Put, Receive, Check, Tick, vars, GraphRaises, PostTicket
  <2> QED
    BY <2>1, OthersKeepClick
<1> QED
  BY <1>1, <1>2, <1>3, <1>4, <1>5, <1>6, StepKinds DEF RunStep

\* One analyst who clicks again, and again, has containment executed again only
\* after something failed on the way: the buttons that a refresh brings back on
\* a resolved message lead to a thread that is over (apply_decision).
THEOREM ExecutedAgainAfterFaultOnly == NoMcp /\ LoneAnalyst => (Spec => SecondClickHarmless)
<1> SUFFICES ASSUME NoMcp, LoneAnalyst PROVE Spec => SecondClickHarmless
  OBVIOUS
<1>1. TypeInv /\ OwnerInv /\ DecisionInv /\ ClickInv /\ [Next]_vars => ClickInv'
  BY ClickStep
<1>2. TypeInv /\ OwnerInv /\ DecisionInv /\ ClickInv /\ [Next]_vars
         => [\A a \in Alerts : performed[a] > 0 /\ performed'[a] > performed[a]
                                   => count.faults > 0]_vars
  BY ClickStep DEF NoSecond
<1>3. Spec => []DecisionInv
  BY DecisionInvariant
<1> QED
  BY <1>1, <1>2, <1>3, InitClickInv, TypeInvariant, OwnerInvariant, PTL
  DEF Spec, SecondClickHarmless

\* Nobody but the executor raises performed, and by one at a time.
LEMMA PerformRaises ==
    ASSUME TypeInv, [Next]_vars, NEW a \in Alerts
    PROVE  performed'[a] = performed[a] \/ performed'[a] = performed[a] + 1
<1>0. performed \in [Alerts -> Nat] /\ performed[a] \in Nat
  BY DEF TypeInv, TypeOK
<1>1. ASSUME NEW d \in Deciders, Perform(d)
      PROVE  performed'[a] = performed[a] \/ performed'[a] = performed[a] + 1
  BY <1>0, <1>1 DEF Perform
<1>2. ASSUME NEW d \in Deciders, Decide(d), ~Perform(d)
      PROVE  UNCHANGED performed
  BY <1>2 DEF Decide, GetState, LoadCheckpoint, ResumeReview, ResumeLate, ResumeEarly, Finish,
              RecordDecision, MarkResolved, DeciderFails
<1>3. CASE UNCHANGED vars
  BY <1>3 DEF vars
<1>4. CASE Next /\ ~\E d \in Deciders : Decide(d)
  BY <1>4 DEF Next, Ingest, Put, Receive, Worker, Duplicate, Triage, Take, Check, MarkDuplicate,
              CountOccurrence, ReadOriginal, RefreshTicket, Start, InvokeGraph, Interrupted,
              AutoClosed, GraphReturns, GraphRaises, HandleTriageError, Requeue, PostTicket,
              SaveTs, Await, Close, CallFails, RecordUnhandled, Submit, Crash, Tick
<1> QED
  BY <1>1, <1>2, <1>3, <1>4

\* So with one analyst and no fault one decision contains once; two analysts
\* are enough for it to happen twice (run PipelineTwoAnalysts).
THEOREM ContainedOnceByLoneAnalyst ==
    NoMcp /\ LoneAnalyst => (Spec => [](count.faults = 0 => ExecutedOnce))
<1> SUFFICES ASSUME NoMcp, LoneAnalyst PROVE Spec => [](count.faults = 0 => ExecutedOnce)
  OBVIOUS
<1>1. Init => (count.faults = 0 => ExecutedOnce)
  BY DEF Init, ExecutedOnce
<1>2. TypeInv /\ OwnerInv /\ DecisionInv /\ ClickInv /\ [Next]_vars => ClickInv'
  BY ClickStep
<1>3. TypeInv /\ OwnerInv /\ DecisionInv /\ ClickInv /\ [Next]_vars
         /\ (count.faults = 0 => ExecutedOnce)
         => (count.faults = 0 => ExecutedOnce)'
  <2> SUFFICES ASSUME TypeInv, OwnerInv, DecisionInv, ClickInv, [Next]_vars,
                      count.faults = 0 => ExecutedOnce, count'.faults = 0, NEW a \in Alerts
               PROVE  performed'[a] <= 1
    BY DEF ExecutedOnce
  <2>1. count.faults = 0
    BY CountGrows
  <2>2. performed[a] \in Nat /\ performed[a] <= 1
    BY <2>1 DEF TypeInv, TypeOK, ExecutedOnce
  <2>3. ~(performed[a] > 0 /\ performed'[a] > performed[a])
    BY <2>1, ClickStep DEF NoSecond
  <2> QED
    BY <2>2, <2>3, PerformRaises
<1>4. Spec => []DecisionInv
  BY DecisionInvariant
<1> QED
  BY <1>1, <1>2, <1>3, <1>4, InitClickInv, TypeInvariant, OwnerInvariant, PTL DEF Spec

=============================================================================
