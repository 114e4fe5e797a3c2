--------------------------- MODULE Pipeline_proofs ---------------------------
(***************************************************************************)
(* Theorems about Pipeline, for any number of alerts, producers and        *)
(* analysts, any queue size, dedupe window, retry limit and bound.         *)
(***************************************************************************)
EXTENDS Pipeline, SequenceTheorems, TLAPS

-----------------------------------------------------------------------------
(* Type correctness.                                                       *)

DupPcs == {"duplicate", "occurrences", "original", "refresh"}

\* Whoever is in the middle of a call has an alert in hand.
Hands ==
    /\ worker.pc # "idle" => worker.alert \in Alerts
    /\ worker.pc \in DupPcs => worker.dup.alert \in Alerts
    /\ \A d \in Deciders : decider[d].pc # "idle" => decider[d].alert \in Alerts

TypeInv == TypeOK /\ Hands

LEMMA RecordUpdates ==
    ASSUME NEW r \in AlertRecord
    PROVE  /\ \A s \in Statuses : [r EXCEPT !.status = s] \in AlertRecord
           /\ \A s \in Statuses, n \in Nat :
                 [r EXCEPT !.status = s, !.attempts = n] \in AlertRecord
           /\ \A o \in Alerts, s \in Statuses :
                 [r EXCEPT !.status = s, !.duplicate_of = o] \in AlertRecord
           /\ \A n \in Nat : [r EXCEPT !.occurrences = n] \in AlertRecord
           /\ \A n \in Nat : [r EXCEPT !.slack_updated_at = n] \in AlertRecord
           /\ \A s \in Statuses, t, u \in BOOLEAN :
                 [r EXCEPT !.status = s, !.ticket = t, !.slack_ts = u] \in AlertRecord
           /\ \A s \in Statuses, d \in Deciders \cup {NoDecider} :
                 [r EXCEPT !.status = s, !.decision = d] \in AlertRecord
BY DEF AlertRecord

LEMMA UpdateType ==
    ASSUME registry \in [Alerts -> AlertRecord], NEW a \in Alerts, NEW r \in AlertRecord
    PROVE  update(a, r) \in [Alerts -> AlertRecord]
BY DEF update

LEMMA CountsBump ==
    ASSUME NEW c \in Counts
    PROVE  [c EXCEPT !.faults = @ + 1] \in Counts /\ [c EXCEPT !.crashes = @ + 1] \in Counts
BY DEF Counts

LEMMA InitTypeInv == Init => TypeInv
<1> SUFFICES ASSUME Init PROVE TypeInv
  OBVIOUS
<1>1. Absent \in AlertRecord /\ NoEntry \in DedupeEntry /\ NoCheckpoint \in Checkpoint
  BY DEF Absent, AlertRecord, Statuses, NoEntry, DedupeEntry, NoCheckpoint, Checkpoint, Nexts
<1>2. Idle \in Workers /\ NoCall \in Calls /\ count \in Counts
  BY <1>1 DEF Init, Idle, Workers, WorkerPcs, NoCall, Calls, DeciderPcs, Counts
<1>3. queue \in Seq(Alerts) /\ Len(queue) <= QueueSize
  BY PipelineAssumption, EmptySeq DEF Init
<1> QED
  BY <1>1, <1>2, <1>3
  DEF Init, TypeInv, TypeOK, Hands, Idle, NoCall, Messages, DupPcs

\* What the producers and the clock do.
LEMMA IngestTypeInv ==
    ASSUME TypeInv, Ingest \/ Tick
    PROVE  TypeInv'
<1>1. CASE \E p \in Producers, a \in Alerts : Receive(p, a)
  <2>1. PICK p \in Producers, a \in Alerts : Receive(p, a)
    BY <1>1
  <2>2. [registry[a] EXCEPT !.status = "queued"] \in AlertRecord
    BY RecordUpdates DEF TypeInv, TypeOK, Statuses
  <2>3. registry' \in [Alerts -> AlertRecord]
    BY <2>1, <2>2 DEF Receive, TypeInv, TypeOK
  <2>4. /\ putting' \in [Producers -> Alerts \cup {NoAlert}]
        /\ unanswered' \subseteq Alerts
    BY <2>1 DEF Receive, TypeInv, TypeOK
  <2>5. count' \in Counts
    BY <2>1, CountsBump DEF Receive, TypeInv, TypeOK
  <2> QED
    BY <2>1, <2>3, <2>4, <2>5 DEF Receive, TypeInv, TypeOK, Hands
<1>2. CASE \E p \in Producers : Put(p)
  <2>1. PICK p \in Producers : Put(p)
    BY <1>2
  <2>2. putting[p] \in Alerts /\ QueueSize \in Nat /\ queue \in Seq(Alerts)
    BY <2>1, PipelineAssumption DEF Put, TypeInv, TypeOK
  <2>3. queue' \in Seq(Alerts) /\ Len(queue') = Len(queue) + 1
    BY <2>1, <2>2, AppendProperties DEF Put
  <2>4. Len(queue') <= QueueSize
    BY <2>1, <2>2, <2>3, LenProperties DEF Put
  <2> QED
    BY <2>1, <2>3, <2>4 DEF Put, TypeInv, TypeOK, Hands
<1>3. CASE Tick
  BY <1>3 DEF Tick, TypeInv, TypeOK, Hands
<1> QED
  BY <1>1, <1>2, <1>3 DEF Ingest

\* The worker's next call, with what it has in hand.
LEMMA GoType ==
    ASSUME TypeInv, NEW pc \in WorkerPcs, Go(pc), worker.pc # "idle",
           pc \in DupPcs => worker.dup.alert \in Alerts
    PROVE  /\ worker' \in Workers
           /\ worker'.pc # "idle" => worker'.alert \in Alerts
           /\ worker'.pc \in DupPcs => worker'.dup.alert \in Alerts
           /\ worker'.alert = worker.alert
BY DEF Go, TypeInv, TypeOK, Hands, Workers

LEMMA RaisesType ==
    ASSUME TypeInv, worker.pc # "idle", Raises
    PROVE  /\ worker' \in Workers /\ count' \in Counts
           /\ worker'.pc = "unhandled" /\ worker'.alert = worker.alert
           /\ worker.alert \in Alerts /\ worker'.pc \notin DupPcs
<1>1. worker \in Workers /\ count \in Counts /\ "unhandled" \in WorkerPcs
  BY DEF TypeInv, TypeOK, WorkerPcs
<1> QED
  BY <1>1, CountsBump DEF Raises, Go, TypeInv, Hands, Workers, DupPcs

LEMMA IdleType == Idle \in Workers /\ Idle.pc = "idle"
BY DEF Idle, Workers, WorkerPcs, NoEntry, DedupeEntry, NoCheckpoint, Checkpoint, Nexts

\* triage_once is over, or has raised at the very end.
LEMMA ReturnsType ==
    ASSUME TypeInv, worker.pc # "idle", Returns
    PROVE  /\ worker' \in Workers /\ count' \in Counts /\ worker'.pc \notin DupPcs
           /\ worker'.pc # "idle" => worker'.alert \in Alerts
<1>1. CASE Raises
  BY <1>1, RaisesType
<1>2. CASE worker' = Idle /\ UNCHANGED count
  BY <1>2, IdleType DEF TypeInv, TypeOK, DupPcs
<1> QED
  BY <1>1, <1>2 DEF Returns

\* A worker step that touches only the registry, Slack, the threads and itself.
LEMMA WorkerStepType ==
    ASSUME TypeInv,
           UNCHANGED <<queue, putting, unanswered, index, decider, now, performed>>,
           registry' \in [Alerts -> AlertRecord], thread' \in [Alerts -> Checkpoint],
           slack' \in [Alerts -> Messages], posted' \in [Alerts -> Nat], count' \in Counts,
           worker' \in Workers,
           worker'.pc # "idle" => worker'.alert \in Alerts,
           worker'.pc \in DupPcs => worker'.dup.alert \in Alerts
    PROVE  TypeInv'
BY DEF TypeInv, TypeOK, Hands

LEMMA TakeTypeInv == ASSUME TypeInv, Take PROVE TypeInv'
<1>1. queue \in Seq(Alerts) /\ queue # <<>> /\ Len(queue) <= QueueSize
  BY DEF Take, TypeInv, TypeOK
<1>2. Head(queue) \in Alerts /\ Tail(queue) \in Seq(Alerts)
      /\ Len(Tail(queue)) = Len(queue) - 1
  BY <1>1, HeadTailProperties
<1>3. Len(queue') <= QueueSize
  BY <1>1, <1>2, PipelineAssumption, LenProperties DEF Take
<1>4. worker' \in Workers /\ worker'.pc = "check" /\ worker'.alert \in Alerts
  BY <1>2, IdleType DEF Take, Workers, WorkerPcs, Idle
<1> QED
  BY <1>2, <1>3, <1>4 DEF Take, TypeInv, TypeOK, Hands, DupPcs

LEMMA CheckTypeInv == ASSUME TypeInv, Check PROVE TypeInv'
<1> DEFINE a == worker.alert
           f == fingerprint[a]
           hit == [index[f] EXCEPT !.occurrences = @ + 1]
           claim == [alert |-> a, first_seen |-> now, occurrences |-> 1]
<1>1. a \in Alerts /\ worker \in Workers /\ worker.pc = "check"
  BY DEF Check, TypeInv, TypeOK, Hands
<1>2. f \in Fingerprints /\ index[f] \in DedupeEntry /\ claim \in DedupeEntry
  BY <1>1, PipelineAssumption DEF TypeInv, TypeOK, DedupeEntry
<1>3. hit \in DedupeEntry /\ hit.alert = index[f].alert
  BY <1>2 DEF DedupeEntry
<1>4. CASE Go("start") /\ index' \in [Fingerprints -> DedupeEntry]
  <2>1. /\ worker' \in Workers /\ worker'.alert \in Alerts
        /\ worker'.pc \notin DupPcs
    BY <1>1, <1>4 DEF Go, Workers, WorkerPcs, DupPcs
  <2> QED
    BY <1>4, <2>1 DEF Check, TypeInv, TypeOK, Hands
<1>5. CASE /\ Live(index[f])
           /\ index' = [index EXCEPT ![f] = hit]
           /\ worker' = [worker EXCEPT !.pc = "duplicate", !.dup = hit]
  <2>1. hit.alert \in Alerts
    BY <1>2, <1>3, <1>5 DEF Live, DedupeEntry
  <2>2. /\ worker' \in Workers /\ worker'.alert \in Alerts
        /\ worker'.dup.alert \in Alerts
    BY <1>1, <1>3, <1>5, <2>1 DEF Workers, WorkerPcs
  <2>3. index' \in [Fingerprints -> DedupeEntry]
    BY <1>2, <1>3, <1>5 DEF TypeInv, TypeOK
  <2> QED
    BY <2>2, <2>3 DEF Check, TypeInv, TypeOK, Hands
<1>6. \/ Go("start") /\ UNCHANGED index
      \/ Go("start") /\ index' = [index EXCEPT ![f] = claim]
      \/ /\ Live(index[f])
         /\ index' = [index EXCEPT ![f] = hit]
         /\ worker' = [worker EXCEPT !.pc = "duplicate", !.dup = hit]
  BY DEF Check
<1>7. /\ index \in [Fingerprints -> DedupeEntry]
      /\ [index EXCEPT ![f] = claim] \in [Fingerprints -> DedupeEntry]
  BY <1>2 DEF TypeInv, TypeOK
<1> QED
  BY <1>4, <1>5, <1>6, <1>7

LEMMA DuplicateTypeInv == ASSUME TypeInv, Duplicate PROVE TypeInv'
<1> DEFINE a == worker.alert
           o == worker.dup.alert
<1>1. /\ a \in Alerts /\ o \in Alerts /\ worker \in Workers /\ worker.pc \in DupPcs
      /\ worker.dup.occurrences \in Nat
      /\ registry \in [Alerts -> AlertRecord] /\ slack \in [Alerts -> Messages] /\ now \in Nat
  BY DEF Duplicate, MarkDuplicate, CountOccurrence, ReadOriginal, RefreshTicket,
         DupPcs, TypeInv, TypeOK, Hands, Workers, DedupeEntry
<1>2. registry[a] \in AlertRecord /\ registry[o] \in AlertRecord
  BY <1>1
<1>3. CASE MarkDuplicate
  <2>1. registry' \in [Alerts -> AlertRecord]
    BY <1>1, <1>2, <1>3, RecordUpdates, UpdateType DEF MarkDuplicate, Statuses
  <2>2. Go("occurrences") /\ worker.pc # "idle" /\ "occurrences" \in WorkerPcs
    BY <1>3 DEF MarkDuplicate, WorkerPcs
  <2>3. /\ worker' \in Workers
        /\ worker'.pc # "idle" => worker'.alert \in Alerts
        /\ worker'.pc \in DupPcs => worker'.dup.alert \in Alerts
    BY <1>1, <2>2, GoType
  <2> QED
    BY <1>3, <2>1, <2>3, WorkerStepType DEF MarkDuplicate, TypeInv, TypeOK
<1>4. CASE CountOccurrence
  <2>1. registry' \in [Alerts -> AlertRecord]
    BY <1>1, <1>2, <1>4, RecordUpdates, UpdateType DEF CountOccurrence
  <2>2. Go("original") /\ worker.pc # "idle" /\ "original" \in WorkerPcs
    BY <1>4 DEF CountOccurrence, WorkerPcs
  <2> QED
    BY <1>1, <1>4, <2>1, <2>2, GoType, WorkerStepType DEF CountOccurrence, TypeInv, TypeOK
<1>5. CASE ReadOriginal
  <2>1. worker' = Idle \/ Go("refresh")
    BY <1>5 DEF ReadOriginal, Go
  <2>2. worker.pc # "idle" /\ "refresh" \in WorkerPcs
    BY <1>5 DEF ReadOriginal, WorkerPcs
  <2>3. Go("refresh") => /\ worker' \in Workers
                         /\ worker'.pc # "idle" => worker'.alert \in Alerts
                         /\ worker'.pc \in DupPcs => worker'.dup.alert \in Alerts
    BY <1>1, <2>2, GoType
  <2>4. /\ worker' \in Workers
        /\ worker'.pc # "idle" => worker'.alert \in Alerts
        /\ worker'.pc \in DupPcs => worker'.dup.alert \in Alerts
    BY <2>1, <2>3, IdleType DEF DupPcs
  <2> QED
    BY <1>5, <2>4, WorkerStepType DEF ReadOriginal, TypeInv, TypeOK
<1>6. CASE \E ok \in BOOLEAN : RefreshTicket(ok)
  <2>0. [registry[o] EXCEPT !.slack_updated_at = now] \in AlertRecord
    BY <1>1, <1>2, RecordUpdates
  <2>1. registry' = update(o, [registry[o] EXCEPT !.slack_updated_at = now])
    BY <1>6 DEF RefreshTicket
  <2>2. registry' \in [Alerts -> AlertRecord]
    BY <1>1, <2>0, <2>1, UpdateType
  <2>3. slack' \in [Alerts -> Messages] /\ Returns
    BY <1>1, <1>6 DEF RefreshTicket, Messages, Returns
  <2>4. worker.pc # "idle"
    BY <1>6 DEF RefreshTicket
  <2> QED
    BY <1>6, <2>2, <2>3, <2>4, ReturnsType, WorkerStepType DEF RefreshTicket, TypeInv, TypeOK
<1> QED
  BY <1>3, <1>4, <1>5, <1>6 DEF Duplicate

LEMMA TriageTypeInv == ASSUME TypeInv, Triage PROVE TypeInv'
<1> DEFINE a == worker.alert
<1>1. /\ a \in Alerts /\ worker \in Workers /\ worker.pc # "idle"
      /\ worker.ckpt \in Checkpoint
  BY DEF Triage, Start, InvokeGraph, Interrupted, AutoClosed, GraphReturns, GraphRaises,
         HandleTriageError, Requeue, PostTicket, SaveTs, Await, Close, TypeInv, TypeOK, Hands,
         Workers
<1>2. /\ registry \in [Alerts -> AlertRecord] /\ registry[a] \in AlertRecord
      /\ thread \in [Alerts -> Checkpoint] /\ thread[a] \in Checkpoint
      /\ slack \in [Alerts -> Messages] /\ posted \in [Alerts -> Nat] /\ count \in Counts
  BY <1>1 DEF TypeInv, TypeOK
<1>3. CASE Start
  <2>1. registry' \in [Alerts -> AlertRecord]
    BY <1>1, <1>2, <1>3, RecordUpdates, UpdateType DEF Start, Statuses
  <2>2. Go("invoke") /\ "invoke" \in WorkerPcs \ DupPcs
    BY <1>3 DEF Start, WorkerPcs, DupPcs
  <2> QED
    BY <1>1, <1>2, <1>3, <2>1, <2>2, GoType, WorkerStepType DEF Start
<1>4. CASE InvokeGraph
  <2>1. [thread[a] EXCEPT !.next = "running"] \in Checkpoint
    BY <1>2 DEF Checkpoint, Nexts
  <2>2. thread' \in [Alerts -> Checkpoint]
    BY <1>1, <1>2, <1>4, <2>1 DEF InvokeGraph
  <2>3. worker' \in Workers /\ worker'.pc = "run" /\ worker'.alert \in Alerts
    BY <1>1, <1>4, <2>1 DEF InvokeGraph, Workers, WorkerPcs
  <2> QED
    BY <1>2, <1>4, <2>2, <2>3, WorkerStepType DEF InvokeGraph, DupPcs
<1>5. CASE Interrupted \/ AutoClosed
  <2>1. PICK next \in {"human_review", "end"}, by \in Deciders \cup {NoDecider},
             pc \in {"post", "close"} : GraphReturns(next, by, pc)
    BY <1>1, <1>5 DEF Interrupted, AutoClosed, Checkpoint
  <2>2. [worker.ckpt EXCEPT !.next = next, !.decision = by] \in Checkpoint
        /\ NoCheckpoint \in Checkpoint
    BY <1>1 DEF Checkpoint, Nexts, NoCheckpoint
  <2>3. thread' \in [Alerts -> Checkpoint]
    BY <1>1, <1>2, <2>1, <2>2 DEF GraphReturns
  <2>4. worker' \in Workers /\ worker'.pc = pc /\ worker'.alert \in Alerts
    BY <1>1, <2>1, <2>2 DEF GraphReturns, Workers, WorkerPcs
  <2> QED
    BY <1>2, <2>1, <2>3, <2>4, WorkerStepType DEF GraphReturns, DupPcs
<1>6. CASE \E kind \in {"transient", "permanent"} : GraphRaises(kind)
  <2>1. PICK kind \in {"transient", "permanent"} : GraphRaises(kind)
    BY <1>6
  <2>2. Go(kind) /\ kind \in WorkerPcs \ DupPcs /\ count' \in Counts
    BY <1>2, <2>1, CountsBump DEF GraphRaises, WorkerPcs, DupPcs
  <2> QED
    BY <1>1, <1>2, <2>1, <2>2, GoType, WorkerStepType DEF GraphRaises
<1>7. CASE HandleTriageError
  <2>1. registry[a].attempts + 1 \in Nat
    BY <1>2 DEF AlertRecord
  <2>2. registry' \in [Alerts -> AlertRecord]
    BY <1>1, <1>2, <1>7, <2>1, RecordUpdates, UpdateType DEF HandleTriageError, Statuses
  <2>3. Returns \/ (Go("requeue") /\ UNCHANGED count)
    BY <1>7 DEF HandleTriageError
  <2>4. "requeue" \in WorkerPcs \ DupPcs
    BY DEF WorkerPcs, DupPcs
  <2>5. /\ worker' \in Workers /\ worker'.pc \notin DupPcs /\ count' \in Counts
        /\ worker'.pc # "idle" => worker'.alert \in Alerts
    BY <1>1, <1>2, <2>3, <2>4, GoType, ReturnsType DEF Go, Workers
  <2> QED
    BY <1>2, <1>7, <2>2, <2>5, WorkerStepType DEF HandleTriageError
<1>8. CASE Requeue
  <2>1. queue \in Seq(Alerts) /\ QueueSize \in Nat
    BY PipelineAssumption DEF TypeInv, TypeOK
  <2>2. queue' \in Seq(Alerts) /\ Len(queue') = Len(queue) + 1
    BY <1>1, <1>8, <2>1, AppendProperties DEF Requeue
  <2>3. Len(queue') <= QueueSize
    BY <1>8, <2>1, <2>2, LenProperties DEF Requeue
  <2> QED
    BY <1>8, <2>2, <2>3, IdleType DEF Requeue, TypeInv, TypeOK, Hands, DupPcs
<1>9. CASE \E ok \in BOOLEAN : PostTicket(ok)
  <2>1. /\ slack' \in [Alerts -> Messages] /\ posted' \in [Alerts -> Nat]
        /\ Go("save_ts") \/ Go("await")
    BY <1>1, <1>2, <1>9 DEF PostTicket, Messages
  <2>2. {"save_ts", "await"} \subseteq WorkerPcs \ DupPcs
    BY DEF WorkerPcs, DupPcs
  <2>3. /\ worker' \in Workers /\ worker'.pc \notin DupPcs
        /\ worker'.pc # "idle" => worker'.alert \in Alerts
    BY <1>1, <2>1, <2>2, GoType DEF Go, Workers
  <2> QED
    BY <1>2, <1>9, <2>1, <2>3, WorkerStepType DEF PostTicket
<1>10. CASE SaveTs
  <2>1. [thread[a] EXCEPT !.slack_ts = TRUE] \in Checkpoint
    BY <1>2 DEF Checkpoint
  <2>2. thread' \in [Alerts -> Checkpoint]
    BY <1>1, <1>2, <1>10, <2>1 DEF SaveTs
  <2>3. Go("await") /\ "await" \in WorkerPcs \ DupPcs
    BY <1>10 DEF SaveTs, WorkerPcs, DupPcs
  <2> QED
    BY <1>1, <1>2, <1>10, <2>2, <2>3, GoType, WorkerStepType DEF SaveTs
<1>11. CASE Await \/ Close
  <2>1. Returns
    BY <1>11 DEF Await, Close
  <2>2. /\ [registry[a] EXCEPT !.status = "auto_closed"] \in AlertRecord
        /\ [registry[a] EXCEPT !.status = "awaiting_approval", !.ticket = TRUE,
                               !.slack_ts = slack[a] # "none"] \in AlertRecord
    BY <1>2, RecordUpdates DEF Statuses
  <2>3. registry' \in [Alerts -> AlertRecord]
    BY <1>1, <1>2, <1>11, <2>2, UpdateType DEF Await, Close
  <2> QED
    BY <1>1, <1>2, <1>11, <2>1, <2>3, ReturnsType, WorkerStepType DEF Await, Close
<1> QED
  BY <1>3, <1>4, <1>5, <1>6, <1>7, <1>8, <1>9, <1>10, <1>11 DEF Triage

LEMMA FaultTypeInv == ASSUME TypeInv, CallFails \/ RecordUnhandled PROVE TypeInv'
<1>1. /\ worker.pc # "idle" /\ worker.alert \in Alerts /\ count \in Counts
      /\ registry \in [Alerts -> AlertRecord] /\ registry[worker.alert] \in AlertRecord
  BY DEF CallFails, RecordUnhandled, TypeInv, TypeOK, Hands
<1>2. CASE CallFails
  <2>1. Raises
    BY <1>2 DEF CallFails
  <2> QED
    BY <1>1, <1>2, <2>1, RaisesType, WorkerStepType DEF CallFails, TypeInv, TypeOK
<1>3. CASE RecordUnhandled
  <2>0. [registry[worker.alert] EXCEPT !.status = "failed"] \in AlertRecord
    BY <1>1, RecordUpdates DEF Statuses
  <2>1. registry' \in [Alerts -> AlertRecord] /\ count' \in Counts
    BY <1>1, <1>3, <2>0, UpdateType, CountsBump DEF RecordUnhandled
  <2>2. worker' = Idle
    BY <1>3 DEF RecordUnhandled
  <2> QED
    BY <1>3, <2>1, <2>2, IdleType, WorkerStepType DEF RecordUnhandled, TypeInv, TypeOK, DupPcs
<1> QED
  BY <1>2, <1>3

\* A decider step that touches only the registry, Slack, a thread and itself.
LEMMA DeciderStepType ==
    ASSUME TypeInv, NEW d \in Deciders, NEW c \in Calls,
           c.pc # "idle" => c.alert \in Alerts,
           decider' = [decider EXCEPT ![d] = c],
           UNCHANGED <<queue, putting, unanswered, worker, index, now, posted>>,
           registry' \in [Alerts -> AlertRecord], thread' \in [Alerts -> Checkpoint],
           slack' \in [Alerts -> Messages], performed' \in [Alerts -> Nat], count' \in Counts
    PROVE  TypeInv'
BY DEF TypeInv, TypeOK, Hands

LEMMA NoCallType == NoCall \in Calls /\ NoCall.pc = "idle"
BY DEF NoCall, Calls, DeciderPcs, NoCheckpoint, Checkpoint, Nexts

LEMMA SubmitTypeInv ==
    ASSUME TypeInv, NEW d \in Deciders, NEW a \in Alerts, Submit(d, a)
    PROVE  TypeInv'
<1> DEFINE c == [NoCall EXCEPT !.pc = "get_state", !.alert = a]
<1>1. c \in Calls /\ c.alert \in Alerts
  BY NoCallType DEF Calls, DeciderPcs, NoCall
<1> QED
  BY <1>1, DeciderStepType DEF Submit, TypeInv, TypeOK

LEMMA CommitType ==
    ASSUME TypeInv, NEW d \in Deciders, decider[d].pc # "idle",
           NEW next \in Nexts, NEW by \in Deciders \cup {NoDecider}, Commit(d, next, by)
    PROVE  thread' \in [Alerts -> Checkpoint]
<1>1. decider[d] \in Calls /\ decider[d].alert \in Alerts
  BY DEF TypeInv, TypeOK, Hands
<1>2. [next |-> next, slack_ts |-> decider[d].ckpt.slack_ts, decision |-> by] \in Checkpoint
  BY <1>1 DEF Calls, Checkpoint
<1> QED
  BY <1>1, <1>2 DEF Commit, TypeInv, TypeOK

LEMMA DecideTypeInv ==
    ASSUME TypeInv, NEW d \in Deciders, Decide(d)
    PROVE  TypeInv'
<1> DEFINE a == decider[d].alert
<1>1. decider[d].pc # "idle" /\ decider \in [Deciders -> Calls]
  BY DEF Decide, GetState, LoadCheckpoint, ResumeReview, ResumeLate, ResumeEarly, Perform,
         Finish, RecordDecision, MarkResolved, DeciderFails, TypeInv, TypeOK
<1>2. /\ decider[d] \in Calls /\ a \in Alerts
      /\ registry \in [Alerts -> AlertRecord] /\ registry[a] \in AlertRecord
      /\ thread \in [Alerts -> Checkpoint] /\ thread[a] \in Checkpoint
      /\ slack \in [Alerts -> Messages] /\ performed \in [Alerts -> Nat] /\ count \in Counts
  BY <1>1 DEF TypeInv, TypeOK, Hands
<1>3. /\ decider[d].ckpt \in Checkpoint /\ decider[d].out \in Deciders \cup {NoDecider}
      /\ decider[d].ckpt.decision \in Deciders \cup {NoDecider}
  BY <1>2 DEF Calls, Checkpoint
<1>4. /\ \A pc \in DeciderPcs : /\ [decider[d] EXCEPT !.pc = pc] \in Calls
                                /\ [decider[d] EXCEPT !.pc = pc].alert = a
      /\ \A pc \in DeciderPcs, k \in Checkpoint :
            /\ [decider[d] EXCEPT !.pc = pc, !.ckpt = k] \in Calls
            /\ [decider[d] EXCEPT !.pc = pc, !.ckpt = k].alert = a
      /\ \A pc \in DeciderPcs, o \in Deciders \cup {NoDecider} :
            /\ [decider[d] EXCEPT !.pc = pc, !.out = o] \in Calls
            /\ [decider[d] EXCEPT !.pc = pc, !.out = o].alert = a
  BY <1>2 DEF Calls
<1>5. ASSUME NEW c \in Calls, c.alert = a \/ c = NoCall,
             decider' = [decider EXCEPT ![d] = c],
             UNCHANGED <<queue, putting, unanswered, worker, index, now, posted>>,
             registry' \in [Alerts -> AlertRecord], thread' \in [Alerts -> Checkpoint],
             slack' \in [Alerts -> Messages], performed' \in [Alerts -> Nat],
             count' \in Counts
      PROVE  TypeInv'
  BY <1>2, <1>5, NoCallType, DeciderStepType
<1>6. CASE GetState(d) \/ DeciderFails(d)
  <2>1. decider' \in {[decider EXCEPT ![d] = NoCall],
                      [decider EXCEPT ![d] = [decider[d] EXCEPT !.pc = "load"]]}
    BY <1>1, <1>6 DEF GetState, DeciderFails
  <2>2. [decider[d] EXCEPT !.pc = "load"] \in Calls
        /\ [decider[d] EXCEPT !.pc = "load"].alert = a
    BY <1>2, <1>4 DEF DeciderPcs
  <2>3. count' \in Counts
    BY <1>2, <1>6, CountsBump DEF GetState, DeciderFails
  <2> QED
    BY <1>2, <1>5, <1>6, <2>1, <2>2, <2>3, NoCallType DEF GetState, DeciderFails
<1>7. CASE LoadCheckpoint(d)
  <2> DEFINE c == [decider[d] EXCEPT !.pc = "resume", !.ckpt = thread[a]]
  <2>1. decider' = [decider EXCEPT ![d] = c]
    BY <1>1, <1>7 DEF LoadCheckpoint
  <2>2. c \in Calls /\ c.alert = a
    BY <1>2, <1>4 DEF DeciderPcs
  <2> QED
    BY <1>2, <1>5, <1>7, <2>1, <2>2 DEF LoadCheckpoint
<1>8. CASE \/ \E next \in {"executor", "end"} : ResumeReview(d, next)
           \/ ResumeLate(d)
           \/ \E next \in {"human_review", "end"} : ResumeEarly(d, next)
  <2>1. PICK pc \in {"perform", "record"}, o \in Deciders \cup {NoDecider} :
           decider' = [decider EXCEPT ![d] = [decider[d] EXCEPT !.pc = pc, !.out = o]]
    <3>1. CASE \E next \in {"executor", "end"} : ResumeReview(d, next)
      <4>1. PICK next \in {"executor", "end"} : ResumeReview(d, next)
        BY <3>1
      <4>2. CASE next = "executor"
        BY <1>1, <4>1, <4>2 DEF ResumeReview
      <4>3. CASE next = "end"
        BY <1>1, <4>1, <4>3 DEF ResumeReview
      <4> QED
        BY <4>2, <4>3
    <3>2. CASE ResumeLate(d)
      BY <1>1, <1>3, <3>2 DEF ResumeLate
    <3>3. CASE \E next \in {"human_review", "end"} : ResumeEarly(d, next)
      <4>1. PICK next \in {"human_review", "end"} : ResumeEarly(d, next)
        BY <3>3
      <4> DEFINE by == IF next = "end" THEN NoDecider ELSE decider[d].ckpt.decision
      <4>2. by \in Deciders \cup {NoDecider}
        BY <1>3
      <4>3. decider' = [decider EXCEPT ![d] = [decider[d] EXCEPT !.pc = "record", !.out = by]]
        BY <1>1, <4>1 DEF ResumeEarly
      <4> HIDE DEF by
      <4> QED
        BY <4>2, <4>3
    <3> QED
      BY <1>8, <3>1, <3>2, <3>3
  <2>2. [decider[d] EXCEPT !.pc = pc, !.out = o] \in Calls
        /\ [decider[d] EXCEPT !.pc = pc, !.out = o].alert = a
    BY <1>2, <1>4 DEF DeciderPcs
  <2>3. thread' \in [Alerts -> Checkpoint]
    <3>1. CASE ResumeLate(d)
      BY <1>2, <3>1 DEF ResumeLate
    <3>2. CASE ~ResumeLate(d)
      <4>1. PICK next \in Nexts, by \in Deciders \cup {NoDecider} : Commit(d, next, by)
        BY <1>3, <1>8, <3>2 DEF ResumeReview, ResumeEarly, Nexts
      <4> QED
        BY <1>1, <4>1, CommitType
    <3> QED
      BY <3>1, <3>2
  <2> QED
    BY <1>2, <1>5, <1>8, <2>1, <2>2, <2>3 DEF ResumeReview, ResumeLate, ResumeEarly
<1>9. CASE Perform(d)
  <2>1. decider' = [decider EXCEPT ![d] = [decider[d] EXCEPT !.pc = "finish"]]
    BY <1>1, <1>9 DEF Perform
  <2>2. [decider[d] EXCEPT !.pc = "finish"] \in Calls
        /\ [decider[d] EXCEPT !.pc = "finish"].alert = a
    BY <1>2, <1>4 DEF DeciderPcs
  <2>3. performed' \in [Alerts -> Nat]
    BY <1>2, <1>9 DEF Perform
  <2> QED
    BY <1>2, <1>5, <1>9, <2>1, <2>2, <2>3 DEF Perform
<1>10. CASE Finish(d)
  <2>1. decider' = [decider EXCEPT ![d] = [decider[d] EXCEPT !.pc = "record"]]
    BY <1>1, <1>10 DEF Finish
  <2>2. [decider[d] EXCEPT !.pc = "record"] \in Calls
        /\ [decider[d] EXCEPT !.pc = "record"].alert = a
    BY <1>2, <1>4 DEF DeciderPcs
  <2>3. thread' \in [Alerts -> Checkpoint]
    BY <1>1, <1>3, <1>10, CommitType DEF Finish, Nexts
  <2> QED
    BY <1>2, <1>5, <1>10, <2>1, <2>2, <2>3 DEF Finish
<1>11. CASE RecordDecision(d)
  <2>1. decider' \in {[decider EXCEPT ![d] = NoCall],
                      [decider EXCEPT ![d] = [decider[d] EXCEPT !.pc = "mark"]]}
    BY <1>1, <1>11 DEF RecordDecision
  <2>2. [decider[d] EXCEPT !.pc = "mark"] \in Calls
        /\ [decider[d] EXCEPT !.pc = "mark"].alert = a
    BY <1>2, <1>4 DEF DeciderPcs
  <2>3. [registry[a] EXCEPT !.status = "resolved", !.decision = decider[d].out]
           \in AlertRecord
    BY <1>2, <1>3, RecordUpdates DEF Statuses
  <2>4. registry' \in [Alerts -> AlertRecord]
    BY <1>2, <1>11, <2>3, UpdateType DEF RecordDecision
  <2> QED
    BY <1>2, <1>5, <1>11, <2>1, <2>2, <2>4, NoCallType DEF RecordDecision
<1>12. CASE \E ok \in BOOLEAN : MarkResolved(d, ok)
  <2>1. slack' \in [Alerts -> Messages] /\ decider' = [decider EXCEPT ![d] = NoCall]
    BY <1>2, <1>12 DEF MarkResolved, Messages
  <2> QED
    BY <1>2, <1>5, <1>12, <2>1, NoCallType DEF MarkResolved
<1> QED
  BY <1>6, <1>7, <1>8, <1>9, <1>10, <1>11, <1>12 DEF Decide

LEMMA CrashTypeInv == ASSUME TypeInv, Crash PROVE TypeInv'
<1>1. queue' \in Seq(Alerts) /\ Len(queue') <= QueueSize
  BY PipelineAssumption, EmptySeq DEF Crash
<1>2. decider' \in [Deciders -> Calls]
      /\ \A d \in Deciders : decider'[d].pc # "idle" => decider'[d].alert \in Alerts
  BY NoCallType DEF Crash, TypeInv, TypeOK, Hands
<1>3. worker' \in Workers /\ worker'.pc = "idle" /\ count' \in Counts
  BY IdleType, CountsBump DEF Crash, TypeInv, TypeOK
<1> QED
  BY <1>1, <1>2, <1>3 DEF Crash, TypeInv, TypeOK, Hands, DupPcs

LEMMA TypeStep == TypeInv /\ [Next]_vars => TypeInv'
<1> SUFFICES ASSUME TypeInv, [Next]_vars PROVE TypeInv'
  OBVIOUS
<1>1. CASE Ingest \/ Tick
  BY <1>1, IngestTypeInv
<1>2. CASE Worker
  BY <1>2, TakeTypeInv, CheckTypeInv, DuplicateTypeInv, TriageTypeInv, FaultTypeInv
  DEF Worker
<1>3. CASE \E d \in Deciders : Decide(d) \/ \E a \in Alerts : Submit(d, a)
  BY <1>3, DecideTypeInv, SubmitTypeInv
<1>4. CASE Crash
  BY <1>4, CrashTypeInv
<1>5. CASE UNCHANGED vars
  BY <1>5 DEF vars, TypeInv, TypeOK, Hands
<1> QED
  BY <1>1, <1>2, <1>3, <1>4, <1>5 DEF Next

LEMMA TypeInvariant == Spec => []TypeInv
BY InitTypeInv, TypeStep, PTL DEF Spec

\* Every record, message, checkpoint and call keeps its type and the queue its
\* bound, and no call works on an alert nobody handed it.
THEOREM PipelineTypeCorrect == Spec => []TypeOK
<1>1. TypeInv => TypeOK
  BY DEF TypeInv
<1> QED
  BY <1>1, TypeInvariant, PTL

-----------------------------------------------------------------------------
(* Where an alert can be, and how many tickets it can have.                *)

\* Past the post, on the way to idle: the only calls left cannot requeue.
PostedPcs == {"save_ts", "await", "unhandled"}

OwnerInv ==
    /\ SingleOwner
    \* An alert nobody registered is nowhere and has no ticket.
    /\ \A a \in Alerts : registry[a].status = "absent" =>
          ~Queued(a) /\ ~BeingPut(a) /\ worker.alert # a /\ posted[a] = 0
    /\ worker.pc = "idle" => worker.alert = NoAlert
    \* A ticket is posted in the last run of an alert.
    /\ \A a \in Alerts : posted[a] # 0 =>
          /\ ~Queued(a) /\ ~BeingPut(a)
          /\ worker.alert = a => worker.pc \in PostedPcs
    /\ OneTicket

LEMMA InitOwnerInv == Init => OwnerInv
<1> SUFFICES ASSUME Init PROVE OwnerInv
  OBVIOUS
<1>1. DOMAIN queue = {} /\ worker.alert = NoAlert /\ NoAlert \notin Alerts
  BY PipelineAssumption DEF Init, Idle
<1>2. \A a \in Alerts : ~Queued(a) /\ ~BeingPut(a) /\ worker.alert # a /\ posted[a] = 0
  BY <1>1 DEF Init, Queued, BeingPut
<1>3. SingleOwner
  BY <1>1, <1>2 DEF Init, SingleOwner
<1> QED
  BY <1>1, <1>2, <1>3 DEF OwnerInv, OneTicket

\* No alert leaves the registry.
Present == \A a \in Alerts : registry'[a].status = "absent" => registry[a].status = "absent"

LEMMA UpdateKeepsPresent ==
    ASSUME TypeInv, NEW a \in Alerts, NEW r,
           r.status = "absent" => registry[a].status = "absent",
           registry' = update(a, r)
    PROVE  Present
BY DEF update, Present, TypeInv, TypeOK

LEMMA SetStatusPresent ==
    ASSUME NEW r \in AlertRecord, NEW s
    PROVE  /\ [r EXCEPT !.status = s].status = s
           /\ \A n : [r EXCEPT !.status = s, !.attempts = n].status = s
           /\ \A o : [r EXCEPT !.status = s, !.duplicate_of = o].status = s
           /\ \A t, u : [r EXCEPT !.status = s, !.ticket = t, !.slack_ts = u].status = s
           /\ \A d : [r EXCEPT !.status = s, !.decision = d].status = s
           /\ \A n : [r EXCEPT !.occurrences = n].status = r.status
           /\ \A n : [r EXCEPT !.slack_updated_at = n].status = r.status
BY DEF AlertRecord

\* A step that moves no alert.
LEMMA QuietStep ==
    ASSUME OwnerInv, UNCHANGED <<queue, putting, posted>>,
           Present,
           \/ worker' = Idle
           \/ /\ worker'.alert = worker.alert
              /\ worker.pc # "idle" => worker'.pc # "idle"
              /\ worker'.pc = "idle" => worker.pc = "idle"
              /\ worker.pc \in PostedPcs => worker'.pc \in PostedPcs
    PROVE  OwnerInv'
<1>1. \A a \in Alerts : worker'.alert = a => worker.alert = a
  BY PipelineAssumption DEF Idle
<1>2. \A a \in Alerts : (Queued(a))' = Queued(a) /\ (BeingPut(a))' = BeingPut(a)
  BY DEF Queued, BeingPut
<1>3. SingleOwner' /\ OneTicket'
  BY <1>1, <1>2 DEF OwnerInv, SingleOwner, OneTicket
<1>4. worker'.pc = "idle" => worker'.alert = NoAlert
  BY DEF OwnerInv, Idle
<1>5. \A a \in Alerts : posted[a] # 0 /\ worker'.alert = a => worker'.pc \in PostedPcs
  BY PipelineAssumption DEF OwnerInv, Idle
<1> QED
  BY <1>1, <1>2, <1>3, <1>4, <1>5 DEF OwnerInv, Present

\* The steps of the worker that move no alert.
QuietWork == \/ Check \/ Duplicate \/ Start \/ InvokeGraph \/ Interrupted \/ AutoClosed
             \/ \E kind \in {"transient", "permanent"} : GraphRaises(kind)
             \/ HandleTriageError \/ SaveTs \/ Await \/ Close \/ CallFails \/ RecordUnhandled

LEMMA QuietWorkPresent ==
    ASSUME TypeInv, QuietWork
    PROVE  Present
<1> DEFINE a == worker.alert
           o == worker.dup.alert
<1>1. CASE MarkDuplicate \/ CountOccurrence \/ \E ok \in BOOLEAN : RefreshTicket(ok)
  <2>1. a \in Alerts /\ o \in Alerts /\ registry[a] \in AlertRecord /\ registry[o] \in AlertRecord
    BY <1>1 DEF MarkDuplicate, CountOccurrence, RefreshTicket, TypeInv, TypeOK, Hands, DupPcs
  <2>2. CASE MarkDuplicate
    <3> DEFINE r == [registry[a] EXCEPT !.status = "duplicate", !.duplicate_of = o]
    <3>1. r.status = "duplicate" /\ registry' = update(a, r)
      BY <2>1, <2>2, SetStatusPresent DEF MarkDuplicate
    <3> QED
      BY <2>1, <3>1, UpdateKeepsPresent
  <2>3. CASE CountOccurrence
    <3> DEFINE r == [registry[o] EXCEPT !.occurrences = worker.dup.occurrences]
    <3>1. r.status = registry[o].status /\ registry' = update(o, r)
      BY <2>1, <2>3, SetStatusPresent DEF CountOccurrence
    <3> QED
      BY <2>1, <3>1, UpdateKeepsPresent
  <2>4. CASE \E ok \in BOOLEAN : RefreshTicket(ok)
    <3> DEFINE r == [registry[o] EXCEPT !.slack_updated_at = now]
    <3>1. r.status = registry[o].status /\ registry' = update(o, r)
      BY <2>1, <2>4, SetStatusPresent DEF RefreshTicket
    <3> QED
      BY <2>1, <3>1, UpdateKeepsPresent
  <2> QED
    BY <1>1, <2>2, <2>3, <2>4
<1>2. CASE Start \/ HandleTriageError \/ Await \/ Close
           \/ (RecordUnhandled /\ registry' # registry)
  <2>1. a \in Alerts /\ registry[a] \in AlertRecord
    BY <1>2 DEF Start, HandleTriageError, Await, Close, RecordUnhandled, TypeInv, TypeOK, Hands
  <2>2. CASE Start
    <3> DEFINE r == [registry[a] EXCEPT !.status = "running"]
    <3>1. r.status = "running" /\ registry' = update(a, r)
      BY <2>1, <2>2, SetStatusPresent DEF Start
    <3> QED
      BY <2>1, <3>1, UpdateKeepsPresent
  <2>3. CASE HandleTriageError
    <3>1. PICK s \in {"queued", "failed"} :
             registry' = update(a, [registry[a] EXCEPT !.status = s,
                                                       !.attempts = registry[a].attempts + 1])
      BY <2>3 DEF HandleTriageError
    <3> DEFINE r == [registry[a] EXCEPT !.status = s, !.attempts = registry[a].attempts + 1]
    <3>2. r.status = s
      BY <2>1, SetStatusPresent
    <3>3. r.status # "absent" /\ registry' = update(a, r)
      BY <3>1, <3>2
    <3> HIDE DEF r
    <3> QED
      BY <2>1, <3>3, UpdateKeepsPresent
  <2>4. CASE Await
    <3> DEFINE r == [registry[a] EXCEPT !.status = "awaiting_approval", !.ticket = TRUE,
                                      !.slack_ts = slack[a] # "none"]
    <3>1. r.status = "awaiting_approval" /\ registry' = update(a, r)
      BY <2>1, <2>4, SetStatusPresent DEF Await
    <3> QED
      BY <2>1, <3>1, UpdateKeepsPresent
  <2>5. CASE Close
    <3> DEFINE r == [registry[a] EXCEPT !.status = "auto_closed"]
    <3>1. r.status = "auto_closed" /\ registry' = update(a, r)
      BY <2>1, <2>5, SetStatusPresent DEF Close
    <3> QED
      BY <2>1, <3>1, UpdateKeepsPresent
  <2>6. CASE RecordUnhandled /\ registry' # registry
    <3> DEFINE r == [registry[a] EXCEPT !.status = "failed"]
    <3>1. r.status = "failed" /\ registry' = update(a, r)
      BY <2>1, <2>6, SetStatusPresent DEF RecordUnhandled
    <3> QED
      BY <2>1, <3>1, UpdateKeepsPresent
  <2> QED
    BY <1>2, <2>2, <2>3, <2>4, <2>5, <2>6
<1>3. CASE UNCHANGED registry
  BY <1>3 DEF Present
<1> QED
  BY <1>1, <1>2, <1>3
  DEF QuietWork, Duplicate, Check, ReadOriginal, InvokeGraph, Interrupted, AutoClosed,
      GraphReturns, GraphRaises, SaveTs, CallFails

LEMMA QuietWorkOwnerInv ==
    ASSUME TypeInv, OwnerInv, QuietWork
    PROVE  OwnerInv'
<1>1. worker \in Workers /\ Present
  BY QuietWorkPresent DEF TypeInv, TypeOK
<1>2. UNCHANGED <<queue, putting, posted>>
  BY DEF QuietWork, Check, Duplicate, MarkDuplicate, CountOccurrence, ReadOriginal,
         RefreshTicket, Start, InvokeGraph, Interrupted, AutoClosed, GraphReturns,
         GraphRaises, HandleTriageError, SaveTs, Await, Close, CallFails, RecordUnhandled
<1>3. \/ worker' = Idle
      \/ /\ worker'.alert = worker.alert
         /\ worker'.pc # "idle"
         /\ worker.pc \notin PostedPcs \/ worker'.pc \in PostedPcs
  BY <1>1
  DEF QuietWork, Check, Duplicate, MarkDuplicate, CountOccurrence, ReadOriginal, Go,
      RefreshTicket, Start, InvokeGraph, Interrupted, AutoClosed, GraphReturns, GraphRaises,
      HandleTriageError, SaveTs, Await, Close, CallFails, RecordUnhandled, Raises, Returns,
      Workers, PostedPcs
<1> QED
  BY <1>1, <1>2, <1>3, QuietStep DEF PostedPcs

\* Decisions and the clock move no alert either.
LEMMA DecideOwnerInv ==
    ASSUME TypeInv, OwnerInv,
           Tick \/ \E d \in Deciders : Decide(d) \/ \E a \in Alerts : Submit(d, a)
    PROVE  OwnerInv'
<1>1. UNCHANGED <<queue, putting, worker, posted>>
  BY DEF Tick, Submit, Decide, GetState, LoadCheckpoint, ResumeReview, ResumeLate, ResumeEarly,
         Perform, Finish, RecordDecision, MarkResolved, DeciderFails
<1>2. Present
  <2>1. CASE \E d \in Deciders : RecordDecision(d)
    <3>1. PICK d \in Deciders : RecordDecision(d)
      BY <2>1
    <3>2. decider[d].alert \in Alerts /\ registry[decider[d].alert] \in AlertRecord
      BY <3>1 DEF RecordDecision, TypeInv, TypeOK, Hands
    <3> DEFINE r == [registry[decider[d].alert] EXCEPT !.status = "resolved",
                                                       !.decision = decider[d].out]
    <3>3. r.status = "resolved" /\ registry' = update(decider[d].alert, r)
      BY <3>1, <3>2, SetStatusPresent DEF RecordDecision
    <3> QED
      BY <3>2, <3>3, UpdateKeepsPresent
  <2>2. CASE UNCHANGED registry
    BY <2>2 DEF Present
  <2> QED
    BY <2>1, <2>2
    DEF Tick, Submit, Decide, GetState, LoadCheckpoint, ResumeReview, ResumeLate, ResumeEarly,
        Perform, Finish, MarkResolved, DeciderFails
<1> QED
  BY <1>1, <1>2, QuietStep

\* A restart and a posted ticket.
LEMMA CrashOwnerInv == ASSUME OwnerInv, Crash PROVE OwnerInv'
<1>1. DOMAIN queue' = {} /\ worker'.alert = NoAlert /\ NoAlert \notin Alerts
  BY PipelineAssumption DEF Crash, Idle
<1>2. \A a \in Alerts : ~(Queued(a))' /\ ~(BeingPut(a))' /\ worker'.alert # a
  BY <1>1 DEF Crash, Queued, BeingPut
<1>3. SingleOwner'
  BY <1>1, <1>2 DEF Crash, SingleOwner
<1> QED
  BY <1>1, <1>2, <1>3 DEF Crash, OwnerInv, OneTicket

LEMMA PostOwnerInv ==
    ASSUME TypeInv, OwnerInv, NEW ok \in BOOLEAN, PostTicket(ok)
    PROVE  OwnerInv'
<1> DEFINE a == worker.alert
<1>1. /\ worker \in Workers /\ worker.pc = "post" /\ a \in Alerts
      /\ posted \in [Alerts -> Nat]
  BY DEF PostTicket, TypeInv, TypeOK, Hands
<1>2. UNCHANGED <<registry, queue, putting>>
  BY DEF PostTicket
<1>3. CASE UNCHANGED posted /\ Go("await")
  BY <1>1, <1>2, <1>3, QuietStep DEF Present, Go, Workers, PostedPcs
<1>4. CASE posted' = [posted EXCEPT ![a] = @ + 1] /\ Go("save_ts")
  <2>1. posted[a] = 0 /\ ~Queued(a) /\ ~BeingPut(a) /\ registry[a].status # "absent"
    BY <1>1 DEF OwnerInv, SingleOwner, PostedPcs
  <2>2. /\ posted'[a] = 1 /\ \A b \in Alerts \ {a} : posted'[b] = posted[b]
        /\ worker'.alert = a /\ worker'.pc = "save_ts"
    BY <1>1, <1>4, <2>1 DEF Go, Workers
  <2>3. \A b \in Alerts : (Queued(b))' = Queued(b) /\ (BeingPut(b))' = BeingPut(b)
    BY <1>2 DEF Queued, BeingPut
  <2>4. SingleOwner'
    BY <1>2, <2>2, <2>3 DEF OwnerInv, SingleOwner
  <2> QED
    BY <1>1, <1>2, <2>1, <2>2, <2>3, <2>4 DEF OwnerInv, OneTicket, PostedPcs
<1> QED
  BY <1>3, <1>4 DEF PostTicket

-----------------------------------------------------------------------------
(* The steps that move an alert.                                           *)

\* Registering an alert that was nowhere.
LEMMA ReceiveOwnerInv ==
    ASSUME TypeInv, OwnerInv, NEW p \in Producers, NEW a \in Alerts, Receive(p, a)
    PROVE  OwnerInv'
<1>1. /\ registry \in [Alerts -> AlertRecord] /\ putting \in [Producers -> Alerts \cup {NoAlert}]
      /\ registry[a] \in AlertRecord
  BY DEF TypeInv, TypeOK
<1>2. ~Queued(a) /\ ~BeingPut(a) /\ worker.alert # a /\ posted[a] = 0
  BY DEF Receive, OwnerInv
<1>3. /\ registry'[a].status = "queued"
      /\ \A b \in Alerts \ {a} : registry'[b] = registry[b]
  BY <1>1, SetStatusPresent DEF Receive
<1>4. /\ putting'[p] \in {a, NoAlert} /\ putting[p] = NoAlert
      /\ \A q \in Producers \ {p} : putting'[q] = putting[q]
  BY <1>1 DEF Receive
<1>5. UNCHANGED <<queue, worker, posted>>
  BY DEF Receive
<1>6. \A b \in Alerts : (Queued(b))' = Queued(b)
  BY <1>5 DEF Queued
<1>7. \A b \in Alerts \ {a} : (BeingPut(b))' => BeingPut(b)
  BY <1>4, PipelineAssumption DEF BeingPut
<1>8. \A q, r \in Producers :
         putting'[q] = putting'[r] /\ putting'[q] # NoAlert => q = r
  BY <1>2, <1>4 DEF BeingPut, OwnerInv, SingleOwner
<1>9. SingleOwner'
  BY <1>2, <1>5, <1>6, <1>7, <1>8 DEF OwnerInv, SingleOwner
<1> QED
  BY <1>2, <1>3, <1>5, <1>6, <1>7, <1>9 DEF OwnerInv, OneTicket

\* What appending and taking do to the alerts of a queue.
LEMMA AppendQueue ==
    ASSUME NEW q \in Seq(Alerts), NEW a \in Alerts
    PROVE  /\ DOMAIN Append(q, a) = DOMAIN q \cup {Len(q) + 1}
           /\ \A i \in DOMAIN q : Append(q, a)[i] = q[i]
           /\ Append(q, a)[Len(q) + 1] = a
           /\ Len(q) + 1 \notin DOMAIN q
BY AppendProperties, LenProperties

LEMMA TailQueue ==
    ASSUME NEW q \in Seq(Alerts), q # <<>>
    PROVE  /\ \A i \in DOMAIN Tail(q) : i + 1 \in DOMAIN q /\ i \in Nat /\ Tail(q)[i] = q[i + 1]
           /\ 1 \in DOMAIN q /\ Head(q) = q[1]
           /\ \A i \in DOMAIN Tail(q) : i + 1 # 1
BY HeadTailProperties, LenProperties, EmptySeq

\* Putting an alert nobody else holds at the end of the queue.
LEMMA EnqueueOwner ==
    ASSUME TypeInv, NEW a \in Alerts, ~Queued(a), queue' = Append(queue, a),
           \A i, j \in DOMAIN queue : queue[i] = queue[j] => i = j
    PROVE  /\ \A i, j \in DOMAIN queue' : queue'[i] = queue'[j] => i = j
           /\ \A b \in Alerts : (Queued(b))' <=> b = a \/ Queued(b)
<1>1. queue \in Seq(Alerts)
  BY DEF TypeInv, TypeOK
<1> QED
  BY <1>1, AppendQueue DEF Queued

LEMMA PutOwnerInv ==
    ASSUME TypeInv, OwnerInv, NEW p \in Producers, Put(p)
    PROVE  OwnerInv'
<1>0. PICK a \in Alerts : putting[p] = a
  BY DEF Put, TypeInv, TypeOK
<1>1. putting \in [Producers -> Alerts \cup {NoAlert}] /\ BeingPut(a)
  BY <1>0 DEF TypeInv, TypeOK, BeingPut
<1>2. ~Queued(a) /\ worker.alert # a /\ registry[a].status # "absent" /\ posted[a] = 0
  BY <1>1 DEF OwnerInv, SingleOwner
<1>3. UNCHANGED <<registry, worker, posted>>
  BY DEF Put
<1>4. /\ \A i, j \in DOMAIN queue' : queue'[i] = queue'[j] => i = j
      /\ \A b \in Alerts : (Queued(b))' <=> b = a \/ Queued(b)
  BY <1>0, <1>2, EnqueueOwner DEF Put, OwnerInv, SingleOwner
<1>5. putting'[p] = NoAlert /\ \A q \in Producers \ {p} : putting'[q] = putting[q]
  BY <1>1 DEF Put
<1>6. /\ \A b \in Alerts : (BeingPut(b))' => BeingPut(b)
      /\ ~(BeingPut(a))'
  <2>1. NoAlert \notin Alerts
    BY PipelineAssumption
  <2>2. \A q \in Producers \ {p} : putting[q] # a
    BY <1>0, <2>1 DEF OwnerInv, SingleOwner
  <2>3. \A q \in Producers, b \in Alerts : putting'[q] = b => putting[q] = b /\ q # p
    BY <1>5, <2>1
  <2> QED
    BY <2>2, <2>3 DEF BeingPut
<1>7. \A q, r \in Producers :
         putting'[q] = putting'[r] /\ putting'[q] # NoAlert => q = r
  <2>1. \A q, r \in Producers : putting[q] = putting[r] /\ putting[q] # NoAlert => q = r
    BY DEF OwnerInv, SingleOwner
  <2> QED
    BY <1>5, <2>1
<1>8. (\A b \in Alerts : /\ worker.alert = b => ~Queued(b) /\ ~BeingPut(b)
                         /\ Queued(b) => ~BeingPut(b))'
  BY <1>2, <1>3, <1>4, <1>6 DEF OwnerInv, SingleOwner
<1>9. SingleOwner'
  BY <1>4, <1>7, <1>8 DEF SingleOwner
<1> QED
  BY <1>2, <1>3, <1>4, <1>6, <1>9 DEF OwnerInv, OneTicket

LEMMA RequeueOwnerInv == ASSUME TypeInv, OwnerInv, Requeue PROVE OwnerInv'
<1> DEFINE a == worker.alert
<1>1. a \in Alerts /\ worker' = Idle
  BY DEF Requeue, TypeInv, TypeOK, Hands
<1>2. ~Queued(a) /\ ~BeingPut(a) /\ registry[a].status # "absent" /\ posted[a] = 0
  BY <1>1 DEF Requeue, OwnerInv, SingleOwner, PostedPcs
<1>3. UNCHANGED <<registry, putting, posted>>
  BY DEF Requeue
<1>4. /\ \A i, j \in DOMAIN queue' : queue'[i] = queue'[j] => i = j
      /\ \A b \in Alerts : (Queued(b))' <=> b = a \/ Queued(b)
  BY <1>1, <1>2, EnqueueOwner DEF Requeue, OwnerInv, SingleOwner
<1>5. \A b \in Alerts : (BeingPut(b))' = BeingPut(b) /\ worker'.alert # b
  BY <1>1, <1>3, PipelineAssumption DEF BeingPut, Idle
<1>6. SingleOwner'
  BY <1>2, <1>3, <1>4, <1>5 DEF OwnerInv, SingleOwner
<1> QED
  BY <1>1, <1>2, <1>3, <1>4, <1>5, <1>6 DEF OwnerInv, OneTicket, Idle

LEMMA TakeOwnerInv == ASSUME TypeInv, OwnerInv, Take PROVE OwnerInv'
<1> DEFINE a == Head(queue)
<1>1. queue \in Seq(Alerts) /\ queue # <<>> /\ queue' = Tail(queue)
  BY DEF Take, TypeInv, TypeOK
<1>2. a \in Alerts /\ Queued(a) /\ 1 \in DOMAIN queue /\ queue[1] = a
  BY <1>1, TailQueue, HeadTailProperties DEF Queued
<1>3. worker'.alert = a /\ worker'.pc = "check"
  BY DEF Take, Idle
<1>4. UNCHANGED <<registry, putting, posted>>
  BY DEF Take
<1>5. ~BeingPut(a) /\ registry[a].status # "absent" /\ posted[a] = 0
  BY <1>2 DEF OwnerInv, SingleOwner
<1>6. \A i, j \in DOMAIN queue : queue[i] = queue[j] => i = j
  BY DEF OwnerInv, SingleOwner
<1>7. /\ \A i, j \in DOMAIN queue' : queue'[i] = queue'[j] => i = j
      /\ \A b \in Alerts : (Queued(b))' => Queued(b) /\ b # a
  BY <1>1, <1>2, <1>6, TailQueue DEF Queued
<1>8. \A b \in Alerts : (BeingPut(b))' = BeingPut(b)
  BY <1>4 DEF BeingPut
<1>9. SingleOwner'
  BY <1>3, <1>4, <1>5, <1>7, <1>8 DEF OwnerInv, SingleOwner
<1> QED
  BY <1>3, <1>4, <1>5, <1>7, <1>8, <1>9 DEF OwnerInv, OneTicket

LEMMA OwnerStep == TypeInv /\ OwnerInv /\ [Next]_vars => OwnerInv'
<1> SUFFICES ASSUME TypeInv, OwnerInv, [Next]_vars PROVE OwnerInv'
  OBVIOUS
<1>1. CASE Ingest
  BY <1>1, ReceiveOwnerInv, PutOwnerInv DEF Ingest
<1>2. CASE QuietWork
  BY <1>2, QuietWorkOwnerInv
<1>3. CASE Take \/ Requeue \/ \E ok \in BOOLEAN : PostTicket(ok)
  BY <1>3, TakeOwnerInv, RequeueOwnerInv, PostOwnerInv
<1>4. CASE Tick \/ \E d \in Deciders : Decide(d) \/ \E a \in Alerts : Submit(d, a)
  BY <1>4, DecideOwnerInv
<1>5. CASE Crash
  BY <1>5, CrashOwnerInv
<1>6. CASE UNCHANGED vars
  <2>1. Present /\ UNCHANGED <<queue, putting, posted, worker>>
    BY <1>6 DEF vars, Present
  <2> QED
    BY <2>1, QuietStep
<1> QED
  BY <1>1, <1>2, <1>3, <1>4, <1>5, <1>6 DEF Next, Worker, Triage, QuietWork

LEMMA OwnerInvariant == Spec => []OwnerInv
BY InitOwnerInv, OwnerStep, TypeInvariant, PTL DEF Spec

\* However ingestion, retries, faults and restarts interleave, an alert is in
\* one place at a time (create_if_absent, ALERT_QUEUE, _handle_triage_error).
THEOREM AlertHasSingleOwner == Spec => []SingleOwner
<1>1. OwnerInv => SingleOwner
  BY DEF OwnerInv
<1> QED
  BY <1>1, OwnerInvariant, PTL

\* No alert ever gets a second Slack ticket: nothing that fails once it is
\* posted, or loses its answer, puts the alert back (triage_once).
THEOREM AlertHasOneTicket == Spec => []OneTicket
<1>1. OwnerInv => OneTicket
  BY DEF OwnerInv
<1> QED
  BY <1>1, OwnerInvariant, PTL

=============================================================================
