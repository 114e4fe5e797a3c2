------------------------- MODULE PipelineStatus_proofs -------------------------
(***************************************************************************)
(* What the status of an alert says: theorems about Pipeline that follow   *)
(* the records of the registry, for any number of alerts, producers and    *)
(* analysts and any bound.                                                 *)
(***************************************************************************)
EXTENDS Pipeline_proofs

-----------------------------------------------------------------------------
(* What a step does to the records.                                        *)

\* The record of a becomes r.
Changes(a, r) ==
    registry'[a] = r /\ \A b \in Alerts \ {a} : registry'[b] = registry[b]

\* The status of a becomes s, and what is known of duplicates is kept.
Sets(a, s) ==
    /\ registry'[a].status = s
    /\ registry'[a].duplicate_of = registry[a].duplicate_of
    /\ registry'[a].occurrences = registry[a].occurrences
    /\ \A b \in Alerts \ {a} : registry'[b] = registry[b]

\* Every alert keeps its status.
StatusKept == \A b \in Alerts : registry'[b].status = registry[b].status

LEMMA UpdateChanges ==
    ASSUME TypeInv, NEW a \in Alerts, registry[a].status # "absent", NEW r,
           registry' = update(a, r)
    PROVE  Changes(a, r)
BY DEF update, Changes, TypeInv, TypeOK

LEMMA UpdateAbsent ==
    ASSUME NEW a \in Alerts, registry[a].status = "absent", NEW r,
           registry' = update(a, r)
    PROVE  registry' = registry
BY DEF update

\* A record that differs from that of a present alert in its status.
SameCounts(r, a) ==
    r.duplicate_of = registry[a].duplicate_of /\ r.occurrences = registry[a].occurrences

LEMMA UpdateSets ==
    ASSUME TypeInv, NEW a \in Alerts, registry[a].status # "absent", NEW r, NEW s,
           r.status = s, SameCounts(r, a), registry' = update(a, r)
    PROVE  Sets(a, s)
<1>1. Changes(a, r)
  BY UpdateChanges
<1> QED
  BY <1>1 DEF Changes, Sets, SameCounts

\* The alert in the worker's hand has a record.
LEMMA HandPresent ==
    ASSUME TypeInv, OwnerInv, worker.pc # "idle"
    PROVE  /\ worker.alert \in Alerts /\ registry[worker.alert] \in AlertRecord
           /\ registry[worker.alert].status # "absent"
           /\ ~Queued(worker.alert) /\ ~BeingPut(worker.alert)
BY DEF TypeInv, TypeOK, Hands, OwnerInv, SingleOwner

\* A call that raises, or returns, and what is left in hand.
LEMMA RaisesLeads ==
    ASSUME TypeInv, Raises
    PROVE  /\ worker'.alert = worker.alert /\ worker'.pc = "unhandled"
           /\ count'.faults = count.faults + 1 /\ count'.crashes = count.crashes
           /\ count.faults < MaxFaults
BY DEF Raises, Go, TypeInv, TypeOK, Workers, Counts

LEMMA ReturnsLeads ==
    ASSUME TypeInv, Returns
    PROVE  \/ worker' = Idle /\ UNCHANGED count
           \/ /\ worker'.alert = worker.alert /\ worker'.pc = "unhandled"
              /\ count'.faults = count.faults + 1 /\ count'.crashes = count.crashes
              /\ count.faults < MaxFaults
BY RaisesLeads DEF Returns

LEMMA ReceiveSets ==
    ASSUME TypeInv, NEW p \in Producers, NEW a \in Alerts, Receive(p, a)
    PROVE  Sets(a, "queued")
<1> DEFINE r == [registry[a] EXCEPT !.status = "queued"]
<1>1. registry \in [Alerts -> AlertRecord] /\ registry[a] \in AlertRecord
  BY DEF TypeInv, TypeOK
<1>2. r.status = "queued" /\ SameCounts(r, a)
  BY <1>1 DEF AlertRecord, SameCounts
<1>3. registry' = [registry EXCEPT ![a] = r]
  BY <1>1 DEF Receive
<1> HIDE DEF r
<1>4. Changes(a, r)
  BY <1>1, <1>3 DEF Changes
<1> QED
  BY <1>2, <1>4 DEF Changes, Sets, SameCounts

LEMMA StartSets ==
    ASSUME TypeInv, OwnerInv, Start
    PROVE  Sets(worker.alert, "running")
<1> DEFINE a == worker.alert
           r == [registry[a] EXCEPT !.status = "running"]
<1>1. worker.pc # "idle" /\ registry' = update(a, r)
  BY DEF Start
<1>2. a \in Alerts /\ registry[a] \in AlertRecord /\ registry[a].status # "absent"
  BY <1>1, HandPresent
<1>3. r.status = "running" /\ SameCounts(r, a)
  BY <1>2 DEF AlertRecord, SameCounts
<1> HIDE DEF r
<1> QED
  BY <1>1, <1>2, <1>3, UpdateSets

LEMMA MarkDuplicateSets ==
    ASSUME TypeInv, OwnerInv, MarkDuplicate
    PROVE  /\ registry'[worker.alert].status = "duplicate"
           /\ registry'[worker.alert].duplicate_of = worker.dup.alert
           /\ registry'[worker.alert].occurrences = registry[worker.alert].occurrences
           /\ \A b \in Alerts \ {worker.alert} : registry'[b] = registry[b]
<1> DEFINE a == worker.alert
           r == [registry[a] EXCEPT !.status = "duplicate", !.duplicate_of = worker.dup.alert]
<1>1. worker.pc # "idle" /\ registry' = update(a, r)
  BY DEF MarkDuplicate
<1>2. a \in Alerts /\ registry[a] \in AlertRecord /\ registry[a].status # "absent"
  BY <1>1, HandPresent
<1>3. /\ r.status = "duplicate" /\ r.duplicate_of = worker.dup.alert
      /\ r.occurrences = registry[a].occurrences
  BY <1>2 DEF AlertRecord
<1> HIDE DEF r
<1>4. Changes(a, r)
  BY <1>1, <1>2, UpdateChanges
<1> QED
  BY <1>3, <1>4 DEF Changes

LEMMA HandleErrorSets ==
    ASSUME TypeInv, OwnerInv, HandleTriageError
    PROVE  \/ /\ Sets(worker.alert, "queued") /\ worker.pc = "transient"
              /\ worker' = [worker EXCEPT !.pc = "requeue"] /\ UNCHANGED count
           \/ Sets(worker.alert, "failed") /\ Returns
<1> DEFINE a == worker.alert
<1>1. PICK s \in {"queued", "failed"} :
         /\ registry' = update(a, [registry[a] EXCEPT !.status = s,
                                                      !.attempts = registry[a].attempts + 1])
         /\ s = "queued" => /\ worker.pc = "transient" /\ UNCHANGED count
                            /\ worker' = [worker EXCEPT !.pc = "requeue"]
         /\ s = "failed" => Returns
  BY DEF HandleTriageError, Go
<1> DEFINE r == [registry[a] EXCEPT !.status = s, !.attempts = registry[a].attempts + 1]
<1>2. a \in Alerts /\ registry[a] \in AlertRecord /\ registry[a].status # "absent"
  BY HandPresent DEF HandleTriageError
<1>3. r.status = s /\ SameCounts(r, a) /\ registry' = update(a, r)
  BY <1>1, <1>2 DEF AlertRecord, SameCounts
<1> HIDE DEF r
<1>4. Sets(a, s)
  BY <1>2, <1>3, UpdateSets
<1> QED
  BY <1>1, <1>4

LEMMA AwaitSets ==
    ASSUME TypeInv, OwnerInv, Await
    PROVE  Sets(worker.alert, "awaiting_approval")
<1> DEFINE a == worker.alert
           r == [registry[a] EXCEPT !.status = "awaiting_approval", !.ticket = TRUE,
                                  !.slack_ts = slack[a] # "none"]
<1>1. worker.pc # "idle" /\ registry' = update(a, r)
  BY DEF Await
<1>2. a \in Alerts /\ registry[a] \in AlertRecord /\ registry[a].status # "absent"
  BY <1>1, HandPresent
<1>3. r.status = "awaiting_approval" /\ SameCounts(r, a)
  BY <1>2 DEF AlertRecord, SameCounts
<1> HIDE DEF r
<1> QED
  BY <1>1, <1>2, <1>3, UpdateSets

LEMMA CloseSets ==
    ASSUME TypeInv, OwnerInv, Close
    PROVE  Sets(worker.alert, "auto_closed")
<1> DEFINE a == worker.alert
           r == [registry[a] EXCEPT !.status = "auto_closed"]
<1>1. worker.pc # "idle" /\ registry' = update(a, r)
  BY DEF Close
<1>2. a \in Alerts /\ registry[a] \in AlertRecord /\ registry[a].status # "absent"
  BY <1>1, HandPresent
<1>3. r.status = "auto_closed" /\ SameCounts(r, a)
  BY <1>2 DEF AlertRecord, SameCounts
<1> HIDE DEF r
<1> QED
  BY <1>1, <1>2, <1>3, UpdateSets

LEMMA UnhandledSets ==
    ASSUME TypeInv, OwnerInv, RecordUnhandled
    PROVE  \/ Sets(worker.alert, "failed") /\ UNCHANGED count
           \/ UNCHANGED registry /\ count' = [count EXCEPT !.faults = @ + 1]
<1> DEFINE a == worker.alert
           r == [registry[a] EXCEPT !.status = "failed"]
<1>1. worker.pc # "idle"
      /\ \/ registry' = update(a, r) /\ UNCHANGED count
         \/ UNCHANGED registry /\ count' = [count EXCEPT !.faults = @ + 1]
  BY DEF RecordUnhandled
<1>2. a \in Alerts /\ registry[a] \in AlertRecord /\ registry[a].status # "absent"
  BY <1>1, HandPresent
<1>3. r.status = "failed" /\ SameCounts(r, a)
  BY <1>2 DEF AlertRecord, SameCounts
<1> HIDE DEF r
<1>4. registry' = update(a, r) => Sets(a, "failed")
  BY <1>2, <1>3, UpdateSets
<1> QED
  BY <1>1, <1>4

\* Counting an occurrence touches only the count of the original.
LEMMA CountKeeps ==
    ASSUME TypeInv, CountOccurrence
    PROVE  LET o == worker.dup.alert IN
           /\ StatusKept /\ o \in Alerts
           /\ \A b \in Alerts : registry'[b].duplicate_of = registry[b].duplicate_of
           /\ \A b \in Alerts \ {o} : registry'[b].occurrences = registry[b].occurrences
           /\ registry[o].status # "absent" => registry'[o].occurrences = worker.dup.occurrences
<1> DEFINE o == worker.dup.alert
           r == [registry[o] EXCEPT !.occurrences = worker.dup.occurrences]
<1>1. o \in Alerts /\ registry[o] \in AlertRecord /\ registry' = update(o, r)
  BY DEF CountOccurrence, TypeInv, TypeOK, Hands, DupPcs
<1>2. /\ r.status = registry[o].status /\ r.duplicate_of = registry[o].duplicate_of
      /\ r.occurrences = worker.dup.occurrences
  BY <1>1 DEF AlertRecord
<1> HIDE DEF r
<1>3. CASE registry[o].status = "absent"
  BY <1>1, <1>3, UpdateAbsent DEF StatusKept
<1>4. CASE registry[o].status # "absent"
  <2>1. Changes(o, r)
    BY <1>1, <1>4, UpdateChanges
  <2> QED
    BY <1>1, <1>2, <2>1 DEF Changes, StatusKept
<1> QED
  BY <1>3, <1>4

LEMMA RefreshKeeps ==
    ASSUME TypeInv, NEW ok \in BOOLEAN, RefreshTicket(ok)
    PROVE  /\ StatusKept
           /\ \A b \in Alerts : /\ registry'[b].duplicate_of = registry[b].duplicate_of
                                /\ registry'[b].occurrences = registry[b].occurrences
<1> DEFINE o == worker.dup.alert
           r == [registry[o] EXCEPT !.slack_updated_at = now]
<1>1. o \in Alerts /\ registry[o] \in AlertRecord /\ registry' = update(o, r)
  BY DEF RefreshTicket, TypeInv, TypeOK, Hands, DupPcs
<1>2. r.status = registry[o].status /\ SameCounts(r, o)
  BY <1>1 DEF AlertRecord, SameCounts
<1> HIDE DEF r
<1>3. CASE registry[o].status = "absent"
  BY <1>1, <1>3, UpdateAbsent DEF StatusKept
<1>4. CASE registry[o].status # "absent"
  <2>1. Changes(o, r)
    BY <1>1, <1>4, UpdateChanges
  <2> QED
    BY <1>1, <1>2, <2>1 DEF Changes, StatusKept, SameCounts
<1> QED
  BY <1>3, <1>4

LEMMA DecisionSets ==
    ASSUME TypeInv, NEW d \in Deciders, RecordDecision(d)
    PROVE  \/ Sets(decider[d].alert, "resolved")
           \/ registry[decider[d].alert].status = "absent" /\ UNCHANGED registry
<1> DEFINE a == decider[d].alert
           r == [registry[a] EXCEPT !.status = "resolved", !.decision = decider[d].out]
<1>1. a \in Alerts /\ registry[a] \in AlertRecord /\ registry' = update(a, r)
  BY DEF RecordDecision, TypeInv, TypeOK, Hands
<1>2. r.status = "resolved" /\ SameCounts(r, a)
  BY <1>1 DEF AlertRecord, SameCounts
<1> HIDE DEF r
<1> QED
  BY <1>1, <1>2, UpdateAbsent, UpdateSets

\* The worker's calls that leave the registry alone, and where they lead.
RunStep == \/ Check \/ InvokeGraph \/ Interrupted \/ AutoClosed \/ SaveTs
           \/ \E kind \in {"transient", "permanent"} : GraphRaises(kind)
           \/ \E ok \in BOOLEAN : PostTicket(ok)

Leads(p, q) == \/ p = "check" /\ q \in {"start", "duplicate"}
               \/ p = "invoke" /\ q \in {"run", "transient", "permanent"}
               \/ p = "run" /\ q \in {"post", "close", "transient", "permanent"}
               \/ p = "post" /\ q \in {"save_ts", "await", "transient", "permanent"}
               \/ p = "save_ts" /\ q = "await"
               \/ p = "close" /\ q \in {"transient", "permanent"}

LEMMA RunStepLeads ==
    ASSUME TypeInv, RunStep
    PROVE  /\ UNCHANGED <<registry, queue, putting, decider>>
           /\ worker'.alert = worker.alert /\ Leads(worker.pc, worker'.pc)
<1>1. worker \in Workers
  BY DEF TypeInv, TypeOK
<1>2. CASE Check
  BY <1>1, <1>2 DEF Check, Go, Workers, Leads
<1>3. CASE InvokeGraph \/ Interrupted \/ AutoClosed \/ SaveTs
  BY <1>1, <1>3 DEF InvokeGraph, Interrupted, AutoClosed, GraphReturns, SaveTs, Go, Workers, Leads
<1>4. CASE \/ \E kind \in {"transient", "permanent"} : GraphRaises(kind)
           \/ \E ok \in BOOLEAN : PostTicket(ok)
  BY <1>1, <1>4 DEF GraphRaises, PostTicket, Go, Workers, Leads
<1> QED
  BY <1>2, <1>3, <1>4 DEF RunStep

LEMMA CallFailsLeads ==
    ASSUME TypeInv, CallFails
    PROVE  /\ UNCHANGED <<registry, queue, putting, decider>>
           /\ worker'.alert = worker.alert /\ worker.pc # "idle" /\ worker'.pc = "unhandled"
           /\ count'.faults = count.faults + 1 /\ count'.crashes = count.crashes
           /\ count.faults < MaxFaults
BY RaisesLeads DEF CallFails

\* Analysts move no alert, and write one thing to the registry.
LEMMA DecideKeeps ==
    ASSUME NEW d \in Deciders, Decide(d) \/ \E a \in Alerts : Submit(d, a)
    PROVE  /\ UNCHANGED <<queue, putting, worker, index>>
           /\ UNCHANGED registry \/ RecordDecision(d)
BY DEF Submit, Decide, GetState, LoadCheckpoint, ResumeReview, ResumeLate, ResumeEarly,
       Perform, Finish, RecordDecision, MarkResolved, DeciderFails

\* Faults and restarts are only ever added.
LEMMA CountGrows ==
    ASSUME TypeInv, [Next]_vars
    PROVE  /\ count.faults \in Nat /\ count.crashes \in Nat
           /\ count'.faults \in Nat /\ count'.crashes \in Nat
           /\ count'.faults >= count.faults /\ count'.crashes >= count.crashes
<1>1. count \in Counts
  BY DEF TypeInv, TypeOK
<1> DEFINE Counted == \/ UNCHANGED count
                      \/ count' = [count EXCEPT !.faults = @ + 1]
                      \/ count' = [count EXCEPT !.crashes = @ + 1]
<1>2. Take \/ Check \/ Duplicate \/ CallFails \/ RecordUnhandled => Counted
  BY DEF Take, Check, Duplicate, MarkDuplicate, CountOccurrence, ReadOriginal, RefreshTicket,
         CallFails, RecordUnhandled, Raises
<1>3. Triage => Counted
  BY DEF Triage, Start, InvokeGraph, Interrupted, AutoClosed, GraphReturns, GraphRaises,
         HandleTriageError, Requeue, PostTicket, SaveTs, Await, Close, Returns, Raises
<1>4. ASSUME NEW d \in Deciders, Decide(d) PROVE Counted
  BY <1>4 DEF Decide, GetState, LoadCheckpoint, ResumeReview, ResumeLate, ResumeEarly, Perform,
              Finish, RecordDecision, MarkResolved, DeciderFails
<1>5. Ingest \/ Crash \/ Tick \/ (\E d \in Deciders, a \in Alerts : Submit(d, a))
         \/ UNCHANGED vars => Counted
  BY DEF Ingest, Put, Receive, Crash, Tick, Submit, vars
<1>6. Counted
  BY <1>2, <1>3, <1>4, <1>5 DEF Next, Worker
<1> QED
  BY <1>1, <1>6 DEF Counts

\* What was registered without an answer stays so.
LEMMA UnansweredGrows ==
    ASSUME [Next]_vars
    PROVE  unanswered \subseteq unanswered'
<1>1. Take \/ Check \/ Duplicate \/ CallFails \/ RecordUnhandled => UNCHANGED unanswered
  BY DEF Take, Check, Duplicate, MarkDuplicate, CountOccurrence, ReadOriginal, RefreshTicket,
         CallFails, RecordUnhandled
<1>2. Triage => UNCHANGED unanswered
  BY DEF Triage, Start, InvokeGraph, Interrupted, AutoClosed, GraphReturns, GraphRaises,
         HandleTriageError, Requeue, PostTicket, SaveTs, Await, Close
<1>3. ASSUME NEW d \in Deciders, Decide(d) PROVE UNCHANGED unanswered
  BY <1>3 DEF Decide, GetState, LoadCheckpoint, ResumeReview, ResumeLate, ResumeEarly, Perform,
              Finish, RecordDecision, MarkResolved, DeciderFails
<1>4. Crash \/ Tick \/ (\E d \in Deciders, a \in Alerts : Submit(d, a))
         \/ UNCHANGED vars => UNCHANGED unanswered
  BY DEF Crash, Tick, Submit, vars
<1>5. Ingest => unanswered \subseteq unanswered'
  BY DEF Ingest, Put, Receive
<1> QED
  BY <1>1, <1>2, <1>3, <1>4, <1>5 DEF Next, Worker

\* The steps of the system, by what they do to the registry and the queue.
LEMMA StepKinds ==
    ASSUME [Next]_vars
    PROVE  \/ \E p \in Producers : Put(p) \/ \E a \in Alerts : Receive(p, a)
           \/ Take \/ Requeue \/ RunStep \/ CallFails
           \/ Start \/ MarkDuplicate \/ CountOccurrence \/ ReadOriginal
           \/ \E ok \in BOOLEAN : RefreshTicket(ok)
           \/ HandleTriageError \/ Await \/ Close \/ RecordUnhandled
           \/ \E d \in Deciders : Decide(d) \/ \E a \in Alerts : Submit(d, a)
           \/ Crash \/ Tick \/ UNCHANGED vars
BY DEF Next, Ingest, Worker, Duplicate, Triage, RunStep

\* Where the alerts of the queue and of the producers go.
LEMMA PutMoves ==
    ASSUME TypeInv, OwnerInv, NEW p \in Producers, Put(p)
    PROVE  /\ \A b \in Alerts : Queued(b) \/ BeingPut(b) <=> (Queued(b) \/ BeingPut(b))'
           /\ UNCHANGED <<registry, worker, decider, thread, index, count>>
<1>0. PICK a \in Alerts : putting[p] = a
  BY DEF Put, TypeInv, TypeOK
<1>1. /\ putting \in [Producers -> Alerts \cup {NoAlert}] /\ BeingPut(a)
      /\ putting' = [putting EXCEPT ![p] = NoAlert] /\ NoAlert \notin Alerts
  BY <1>0, PipelineAssumption DEF Put, TypeInv, TypeOK, BeingPut
<1>2. ~Queued(a)
  BY <1>1 DEF OwnerInv, SingleOwner
<1>3. \A b \in Alerts : (Queued(b))' <=> b = a \/ Queued(b)
  BY <1>0, <1>2, EnqueueOwner DEF Put, OwnerInv, SingleOwner
<1>4. \A b \in Alerts \ {a} : (BeingPut(b))' <=> BeingPut(b)
  BY <1>0, <1>1 DEF BeingPut
<1> QED
  BY <1>1, <1>3, <1>4 DEF Put

LEMMA ReceiveMoves ==
    ASSUME TypeInv, NEW p \in Producers, NEW a \in Alerts, Receive(p, a)
    PROVE  /\ (BeingPut(a))' \/ a \in unanswered'
           /\ \A b \in Alerts : (Queued(b))' = Queued(b)
           /\ \A b \in Alerts \ {a} : (BeingPut(b))' <=> BeingPut(b)
           /\ UNCHANGED <<worker, decider, thread, index>>
<1>1. /\ putting \in [Producers -> Alerts \cup {NoAlert}] /\ NoAlert \notin Alerts
      /\ putting[p] = NoAlert
      /\ putting' = [putting EXCEPT ![p] = a] \/ (UNCHANGED putting /\ a \in unanswered')
  BY PipelineAssumption DEF Receive, TypeInv, TypeOK
<1> QED
  BY <1>1 DEF Receive, Queued, BeingPut

LEMMA TakeMoves ==
    ASSUME TypeInv, OwnerInv, Take
    PROVE  /\ worker'.pc = "check" /\ worker'.alert \in Alerts /\ Queued(worker'.alert)
           /\ \A b \in Alerts : Queued(b) <=> (Queued(b))' \/ b = worker'.alert
           /\ \A b \in Alerts : (BeingPut(b))' = BeingPut(b)
           /\ UNCHANGED <<registry, decider, thread, index, count>>
<1>1. queue \in Seq(Alerts) /\ queue # <<>> /\ queue' = Tail(queue)
  BY DEF Take, TypeInv, TypeOK
<1>2. worker'.pc = "check" /\ worker'.alert = queue[1] /\ 1 \in DOMAIN queue
  BY <1>1, TailQueue DEF Take, Idle
<1>3. \A i \in DOMAIN Tail(queue) : i + 1 \in DOMAIN queue /\ Tail(queue)[i] = queue[i + 1]
  BY <1>1, TailQueue
<1>4. \A i \in DOMAIN queue : i # 1 => i - 1 \in DOMAIN Tail(queue) /\ Tail(queue)[i - 1] = queue[i]
  BY <1>1, HeadTailProperties, LenProperties
<1>5. \A b \in Alerts : (Queued(b))' => Queued(b)
  BY <1>1, <1>3 DEF Queued
<1>6. \A b \in Alerts : Queued(b) => (Queued(b))' \/ b = queue[1]
  BY <1>1, <1>4 DEF Queued
<1>7. worker'.alert \in Alerts /\ Queued(worker'.alert)
  BY <1>1, <1>2, ElementOfSeq DEF Queued
<1> QED
  BY <1>2, <1>5, <1>6, <1>7 DEF Take, BeingPut

LEMMA RequeueMoves ==
    ASSUME TypeInv, OwnerInv, Requeue
    PROVE  /\ worker' = Idle
           /\ \A b \in Alerts : (Queued(b))' <=> b = worker.alert \/ Queued(b)
           /\ \A b \in Alerts : (BeingPut(b))' = BeingPut(b)
           /\ UNCHANGED <<registry, decider, thread, index, count>>
<1>1. worker.alert \in Alerts /\ ~Queued(worker.alert)
  BY HandPresent DEF Requeue
<1>2. \A b \in Alerts : (Queued(b))' <=> b = worker.alert \/ Queued(b)
  BY <1>1, EnqueueOwner DEF Requeue, OwnerInv, SingleOwner
<1> QED
  BY <1>2 DEF Requeue, BeingPut

LEMMA CrashMoves ==
    ASSUME Crash
    PROVE  /\ \A b \in Alerts : ~(Queued(b))' /\ ~(BeingPut(b))'
           /\ worker' = Idle
           /\ UNCHANGED <<registry, thread, index>>
<1>1. DOMAIN queue' = {} /\ NoAlert \notin Alerts
  BY PipelineAssumption DEF Crash
<1> QED
  BY <1>1 DEF Crash, Queued, BeingPut

LEMMA IdleHasNone == Idle.pc = "idle" /\ Idle.alert = NoAlert /\ NoAlert \notin Alerts
BY PipelineAssumption DEF Idle

-----------------------------------------------------------------------------
(* No alert is forgotten.                                                  *)

Held(a) == Queued(a) \/ BeingPut(a) \/ worker.alert = a
Unsettled(a) == registry[a].status \in {"queued", "running"}

\* No restart, and at most one call has failed: the second one may be that
\* which records the first.
OneFault == count.crashes = 0 /\ count.faults <= 1

OrphanInv ==
    /\ OneFault => NoOrphan
    \* The catch-all is entered by a fault only.
    /\ worker.pc = "unhandled" => count.faults >= 1
    \* A duplicate is settled before the original is told.
    /\ worker.pc \in {"occurrences", "original", "refresh"} => ~Unsettled(worker.alert)

\* What a step has to respect.
LEMMA OrphanStepRule ==
    ASSUME OrphanInv, TypeInv, [Next]_vars,
           OneFault' => \A b \in Alerts : (Unsettled(b))' =>
                            \/ (Held(b))' \/ b \in unanswered'
                            \/ Unsettled(b) /\ (Held(b) => (Held(b))')
    PROVE  (OneFault => NoOrphan)'
<1>1. OneFault' => OneFault
  BY CountGrows DEF OneFault
<1>2. unanswered \subseteq unanswered'
  BY UnansweredGrows
<1> QED
  BY <1>1, <1>2 DEF OrphanInv, NoOrphan, Held, Unsettled

LEMMA SameStatusSettled ==
    ASSUME StatusKept
    PROVE  \A b \in Alerts : (Unsettled(b))' <=> Unsettled(b)
BY DEF StatusKept, Unsettled

LEMMA SetsSettled ==
    ASSUME NEW a \in Alerts, NEW s, Sets(a, s)
    PROVE  /\ (Unsettled(a))' <=> s \in {"queued", "running"}
           /\ \A b \in Alerts \ {a} : (Unsettled(b))' <=> Unsettled(b)
BY DEF Sets, Unsettled

LEMMA InitOrphanInv == Init => OrphanInv
BY DEF Init, OrphanInv, NoOrphan, Absent, Idle

LEMMA OrphanStep == TypeInv /\ OwnerInv /\ OrphanInv /\ [Next]_vars => OrphanInv'
<1> SUFFICES ASSUME TypeInv, OwnerInv, OrphanInv, [Next]_vars PROVE OrphanInv'
  OBVIOUS
<1>0. /\ count.faults \in Nat /\ count'.faults \in Nat /\ count'.faults >= count.faults
      /\ worker \in Workers
  BY CountGrows DEF TypeInv, TypeOK
<1>1. CASE \E p \in Producers : Put(p)
  <2>1. PICK p \in Producers : Put(p)
    BY <1>1
  <2>2. /\ \A b \in Alerts : Held(b) <=> (Held(b))'
        /\ UNCHANGED <<registry, worker, count>>
    BY <2>1, PutMoves DEF Held
  <2>3. \A b \in Alerts : (Unsettled(b))' <=> Unsettled(b)
    BY <2>2 DEF Unsettled
  <2>4. (OneFault => NoOrphan)'
    BY <2>2, <2>3, OrphanStepRule
  <2> QED
    BY <2>2, <2>4 DEF OrphanInv, Unsettled
<1>2. CASE \E p \in Producers, a \in Alerts : Receive(p, a)
  <2>1. PICK p \in Producers, a \in Alerts : Receive(p, a)
    BY <1>2
  <2>2. /\ Sets(a, "queued")
        /\ (Held(a))' \/ a \in unanswered'
        /\ \A b \in Alerts \ {a} : (Held(b))' <=> Held(b)
        /\ UNCHANGED worker
    BY <2>1, ReceiveSets, ReceiveMoves DEF Held
  <2>3. (OneFault => NoOrphan)'
    BY <2>2, SetsSettled, OrphanStepRule
  <2>4. worker.pc # "idle" => worker.alert \in Alerts \ {a}
    BY <2>1, HandPresent DEF Receive
  <2> QED
    BY <1>0, <2>2, <2>3, <2>4, SetsSettled DEF OrphanInv
<1>3. CASE Take \/ Requeue
  <2>1. \A b \in Alerts : Held(b) => (Held(b))'
    <3>1. CASE Take
      <4>1. worker.pc = "idle"
        BY <3>1 DEF Take
      <4>2. \A b \in Alerts : worker.alert # b
        BY <4>1, IdleHasNone DEF OwnerInv
      <4> QED
        BY <3>1, <4>2, TakeMoves DEF Held
    <3>2. CASE Requeue
      BY <3>2, RequeueMoves DEF Held
    <3> QED
      BY <1>3, <3>1, <3>2
  <2>2. UNCHANGED <<registry, count>> /\ worker'.pc \in {"check", "idle"}
    BY <1>3, TakeMoves, RequeueMoves, IdleHasNone
  <2>3. (OneFault => NoOrphan)'
    BY <2>1, <2>2, OrphanStepRule DEF Unsettled
  <2> QED
    BY <2>2, <2>3 DEF OrphanInv
<1>4. CASE RunStep \/ CallFails
  <2>1. /\ UNCHANGED <<registry, queue, putting>> /\ worker'.alert = worker.alert
        /\ worker'.pc \notin {"occurrences", "original", "refresh"}
    BY <1>4, RunStepLeads, CallFailsLeads DEF Leads
  <2>2. \A b \in Alerts : (Held(b))' = Held(b) /\ (Unsettled(b))' = Unsettled(b)
    BY <2>1 DEF Held, Queued, BeingPut, Unsettled
  <2>3. (OneFault => NoOrphan)'
    BY <2>2, OrphanStepRule
  <2>4. worker'.pc = "unhandled" => count'.faults >= 1
    BY <1>0, <1>4, RunStepLeads, CallFailsLeads DEF Leads
  <2> QED
    BY <2>1, <2>3, <2>4 DEF OrphanInv
<1>5. CASE Start \/ MarkDuplicate
  <2>1. /\ worker.alert \in Alerts /\ worker'.alert = worker.alert
        /\ worker'.pc \in {"invoke", "occurrences"}
        /\ UNCHANGED <<queue, putting>>
    BY <1>0, <1>5, HandPresent DEF Start, MarkDuplicate, Go, Workers
  <2>2. \A b \in Alerts : (Held(b))' = Held(b)
    BY <2>1 DEF Held, Queued, BeingPut
  <2>3. /\ \A b \in Alerts \ {worker.alert} : (Unsettled(b))' <=> Unsettled(b)
        /\ MarkDuplicate => ~(Unsettled(worker.alert))'
    BY <1>5, <2>1, StartSets, MarkDuplicateSets DEF Sets, Unsettled
  <2>4. (OneFault => NoOrphan)'
    BY <2>1, <2>2, <2>3, OrphanStepRule DEF Held
  <2>5. worker'.pc = "occurrences" => MarkDuplicate
    BY <1>0, <1>5 DEF Start, Go, Workers
  <2>6. worker'.pc = "occurrences" => ~(Unsettled(worker.alert))'
    BY <2>3, <2>5
  <2> QED
    BY <2>1, <2>4, <2>6 DEF OrphanInv, Unsettled
<1>6. CASE CountOccurrence \/ ReadOriginal \/ \E ok \in BOOLEAN : RefreshTicket(ok)
  <2>1. /\ StatusKept /\ UNCHANGED <<queue, putting>>
        /\ worker.alert \in Alerts /\ ~Unsettled(worker.alert)
    BY <1>6, HandPresent, CountKeeps, RefreshKeeps
    DEF CountOccurrence, ReadOriginal, RefreshTicket, StatusKept, OrphanInv
  <2>2. worker' = Idle \/ Returns \/ (/\ worker'.alert = worker.alert
                                      /\ worker'.pc \in {"original", "refresh"})
    BY <1>0, <1>6 DEF CountOccurrence, ReadOriginal, RefreshTicket, Go, Workers, Returns
  <2>3. \A b \in Alerts : (Unsettled(b))' <=> Unsettled(b)
    BY <2>1, SameStatusSettled
  <2>4. \A b \in Alerts : b # worker.alert => (Held(b) => (Held(b))')
    BY <2>1 DEF Held, Queued, BeingPut
  <2>5. (OneFault => NoOrphan)'
    BY <2>1, <2>3, <2>4, OrphanStepRule
  <2>6. worker'.pc # "idle" => worker'.alert = worker.alert
    BY <2>2, IdleHasNone, ReturnsLeads
  <2>7. registry'[worker.alert].status \notin {"queued", "running"}
    BY <2>1 DEF StatusKept, Unsettled
  <2>8. worker'.pc # "idle" => ~(Unsettled(worker.alert))'
    BY <2>6, <2>7 DEF Unsettled
  <2>9. worker'.pc = "unhandled" => count'.faults >= 1
    BY <1>0, <2>2, IdleHasNone, ReturnsLeads
  <2> QED
    BY <2>5, <2>8, <2>9 DEF OrphanInv, Unsettled
<1>7. CASE HandleTriageError \/ Await \/ Close \/ RecordUnhandled
  <2>1. worker.pc # "idle" /\ UNCHANGED <<queue, putting>>
    BY <1>7 DEF HandleTriageError, Await, Close, RecordUnhandled
  <2>2. worker.alert \in Alerts
    BY <2>1, HandPresent
  <2>3. \/ \E s \in {"failed", "auto_closed", "awaiting_approval"} :
              Sets(worker.alert, s) /\ (worker' = Idle \/ Returns)
        \/ Sets(worker.alert, "queued") /\ worker' = [worker EXCEPT !.pc = "requeue"]
        \/ RecordUnhandled /\ count' = [count EXCEPT !.faults = @ + 1] /\ worker' = Idle
    BY <1>7, HandleErrorSets, AwaitSets, CloseSets, UnhandledSets
    DEF Await, Close, RecordUnhandled
  <2>4. worker'.pc \in {"idle", "requeue"} \/ (worker'.pc = "unhandled" /\ count'.faults >= 1)
    BY <1>0, <2>3, IdleHasNone, ReturnsLeads DEF Workers
  <2>5. \A b \in Alerts : b # worker.alert => (Held(b) => (Held(b))')
    BY <2>1 DEF Held, Queued, BeingPut
  <2>6. CASE \E s \in {"failed", "auto_closed", "awaiting_approval"} :
                Sets(worker.alert, s) /\ (worker' = Idle \/ Returns)
    BY <2>2, <2>4, <2>5, <2>6, SetsSettled, OrphanStepRule DEF OrphanInv
  <2>7. CASE Sets(worker.alert, "queued") /\ worker' = [worker EXCEPT !.pc = "requeue"]
    <3>1. worker'.alert = worker.alert
      BY <1>0, <2>7 DEF Workers
    <3>2. \A b \in Alerts : Held(b) => (Held(b))'
      BY <2>5, <3>1 DEF Held
    <3>3. (Held(worker.alert))'
      BY <3>1 DEF Held
    <3>4. (OneFault => NoOrphan)'
      BY <2>2, <2>7, <3>1, <3>2, SetsSettled, OrphanStepRule DEF Held
    <3> QED
      BY <2>4, <3>4 DEF OrphanInv
  <2>8. CASE RecordUnhandled /\ count' = [count EXCEPT !.faults = @ + 1] /\ worker' = Idle
    <3>1. count.faults >= 1
      BY <2>8 DEF RecordUnhandled, OrphanInv
    <3>2. ~OneFault'
      BY <1>0, <2>8, <3>1 DEF OneFault, TypeInv, TypeOK, Counts
    <3> QED
      BY <2>4, <3>2 DEF OrphanInv
  <2> QED
    BY <2>3, <2>6, <2>7, <2>8
<1>8. CASE \E d \in Deciders : Decide(d) \/ \E a \in Alerts : Submit(d, a)
  <2>1. PICK d \in Deciders : Decide(d) \/ \E a \in Alerts : Submit(d, a)
    BY <1>8
  <2>2. /\ UNCHANGED <<queue, putting, worker>>
        /\ UNCHANGED registry \/ RecordDecision(d)
    BY <2>1, DecideKeeps
  <2>3. RecordDecision(d) => decider[d].alert \in Alerts
    BY DEF RecordDecision, TypeInv, Hands
  <2>4. \A b \in Alerts : (Unsettled(b))' => Unsettled(b)
    BY <2>2, <2>3, DecisionSets, SetsSettled DEF Unsettled
  <2>5. \A b \in Alerts : Held(b) => (Held(b))'
    BY <2>2 DEF Held, Queued, BeingPut
  <2>6. (OneFault => NoOrphan)'
    BY <2>4, <2>5, OrphanStepRule
  <2>7. worker.pc # "idle" => worker.alert \in Alerts
    BY HandPresent
  <2>8. worker.pc # "idle" => ((Unsettled(worker.alert))' => Unsettled(worker.alert))
    BY <2>2, <2>4, <2>7 DEF Unsettled
  <2> QED
    BY <1>0, <2>2, <2>6, <2>8 DEF OrphanInv, Unsettled
<1>9. CASE Crash
  <2>1. ~OneFault' /\ worker'.pc = "idle"
    BY <1>9, CrashMoves, IdleHasNone DEF Crash, OneFault, TypeInv, TypeOK, Counts
  <2> QED
    BY <2>1 DEF OrphanInv
<1>10. CASE Tick \/ UNCHANGED vars
  <2>1. UNCHANGED <<registry, queue, putting, unanswered, worker, count>>
    BY <1>10 DEF Tick, vars
  <2> QED
    BY <2>1 DEF OrphanInv, OneFault, NoOrphan, Queued, BeingPut, Unsettled
<1> QED
  BY <1>1, <1>2, <1>3, <1>4, <1>5, <1>6, <1>7, <1>8, <1>9, <1>10, StepKinds

LEMMA OrphanInvariant == Spec => []OrphanInv
BY InitOrphanInv, OrphanStep, TypeInvariant, OwnerInvariant, PTL DEF Spec

\* An alert that reads queued or running is in the queue, in a producer's put
\* or in the worker's hand, or else its own INSERT was not answered, unless the
\* process restarted or a second call failed or lost its answer (receive_alert,
\* _handle_triage_error, the catch-all of worker_loop): whatever the surfaces,
\* the retry limit and the size of the queue.
THEOREM NoAlertForgotten == Spec => [](OneFault => NoOrphan)
<1>1. OrphanInv => (OneFault => NoOrphan)
  BY DEF OrphanInv
<1> QED
  BY <1>1, OrphanInvariant, PTL

-----------------------------------------------------------------------------
(* The lifecycle of a record, where analysts decide over REST.             *)

RestOnly == \A d \in Deciders : Surface[d] = "api"

\* What an alert may read while an analyst decides it: meanwhile the catch-all
\* of the worker may have failed it.
UnderDecision == {"awaiting_approval", "resolved", "failed"}

\* The status an alert has while the worker is at pc with it.
Fits(pc, s) ==
    /\ pc \in {"check", "duplicate", "start", "requeue"} => s = "queued"
    /\ pc \in {"occurrences", "original", "refresh"} => s = "duplicate"
    /\ pc \in {"invoke", "run", "transient", "permanent", "post", "save_ts", "await", "close"}
           => s = "running"
    /\ pc = "unhandled" => s \in Statuses \ {"absent"}

LifeInv ==
    /\ \A a \in Alerts : Queued(a) \/ BeingPut(a) => registry[a].status = "queued"
    /\ worker.pc # "idle" => Fits(worker.pc, registry[worker.alert].status)
    /\ \A d \in Deciders : decider[d].pc # "idle" =>
          registry[decider[d].alert].status \in UnderDecision

LEMMA FitsUnderWay ==
    ASSUME NEW pc \in WorkerPcs, pc \notin {"idle", "unhandled"}, NEW s, Fits(pc, s)
    PROVE  s \in {"queued", "duplicate", "running"}
BY DEF Fits, WorkerPcs

LEMMA SameDecider ==
    ASSUME LifeInv, TypeInv, UNCHANGED decider,
           \A b \in Alerts : registry[b].status \in UnderDecision
               => registry'[b].status \in UnderDecision
    PROVE  (\A d \in Deciders : decider[d].pc # "idle" =>
               registry[decider[d].alert].status \in UnderDecision)'
BY DEF LifeInv, TypeInv, Hands

\* The worker moves the alert in its hand to s, or puts it down.
LEMMA HandStep ==
    ASSUME TypeInv, OwnerInv, LifeInv, worker.pc # "idle",
           UNCHANGED <<queue, putting, decider>>,
           NEW s, registry'[worker.alert].status = s,
           \A b \in Alerts \ {worker.alert} : registry'[b].status = registry[b].status,
           worker.pc = "unhandled" => s \in {"failed", registry[worker.alert].status},
           \/ worker' = Idle
           \/ worker'.alert = worker.alert /\ Fits(worker'.pc, s)
    PROVE  LifeInv'
<1> DEFINE a == worker.alert
<1>1. a \in Alerts /\ ~Queued(a) /\ ~BeingPut(a) /\ worker.pc \in WorkerPcs
  BY HandPresent DEF TypeInv, TypeOK, Workers
<1>2. registry[a].status \in UnderDecision => s \in UnderDecision
  <2>1. CASE worker.pc = "unhandled"
    BY <2>1 DEF UnderDecision
  <2>2. CASE worker.pc # "unhandled"
    <3>1. registry[a].status \in {"queued", "duplicate", "running"}
      BY <1>1, <2>2, FitsUnderWay DEF LifeInv
    <3> QED
      BY <3>1 DEF UnderDecision
  <2> QED
    BY <2>1, <2>2
<1>3. (\A d \in Deciders : decider[d].pc # "idle" =>
               registry[decider[d].alert].status \in UnderDecision)'
  BY <1>2, SameDecider
<1>4. \A b \in Alerts : (Queued(b) \/ BeingPut(b))' => Queued(b) \/ BeingPut(b)
  BY DEF Queued, BeingPut
<1>5. \A b \in Alerts : (Queued(b) \/ BeingPut(b))' => registry'[b].status = "queued"
  BY <1>1, <1>4 DEF LifeInv
<1>6. worker'.pc # "idle" => Fits(worker'.pc, registry'[worker'.alert].status)
  BY IdleHasNone
<1> QED
  BY <1>3, <1>5, <1>6 DEF LifeInv

LEMMA InitLifeInv == Init => LifeInv
<1> SUFFICES ASSUME Init PROVE LifeInv
  OBVIOUS
<1>1. DOMAIN queue = {} /\ worker.pc = "idle" /\ \A d \in Deciders : decider[d].pc = "idle"
  BY DEF Init, Idle, NoCall
<1>2. \A a \in Alerts : ~Queued(a) /\ ~BeingPut(a)
  BY <1>1, PipelineAssumption DEF Init, Queued, BeingPut
<1> QED
  BY <1>1, <1>2 DEF LifeInv

\* An analyst's call is on one alert from its first step to its last.
LEMMA DecideAlert ==
    ASSUME TypeInv, NEW d \in Deciders, Decide(d)
    PROVE  /\ decider[d].pc # "idle" /\ decider[d].alert \in Alerts
           /\ \A e \in Deciders \ {d} : decider'[e] = decider[e]
           /\ decider'[d].pc # "idle" => decider'[d].alert = decider[d].alert
<1>1. decider \in [Deciders -> Calls] /\ decider[d].pc # "idle" /\ decider[d] \in Calls
  BY DEF Decide, GetState, LoadCheckpoint, ResumeReview, ResumeLate, ResumeEarly, Perform,
         Finish, RecordDecision, MarkResolved, DeciderFails, TypeInv, TypeOK
<1>2. decider[d].alert \in Alerts
  BY <1>1 DEF TypeInv, Hands
<1>3. NoCall.pc = "idle"
  BY DEF NoCall
<1>4. /\ \A pc : [decider[d] EXCEPT !.pc = pc].alert = decider[d].alert
      /\ \A pc, k : [decider[d] EXCEPT !.pc = pc, !.ckpt = k].alert = decider[d].alert
      /\ \A pc, o : [decider[d] EXCEPT !.pc = pc, !.out = o].alert = decider[d].alert
  BY <1>1 DEF Calls
<1>5. ASSUME NEW c, c.pc = "idle" \/ c.alert = decider[d].alert,
             decider' = [decider EXCEPT ![d] = c]
      PROVE  /\ \A e \in Deciders \ {d} : decider'[e] = decider[e]
             /\ decider'[d].pc # "idle" => decider'[d].alert = decider[d].alert
  BY <1>1, <1>5
<1>6. CASE decider' = [decider EXCEPT ![d] = NoCall]
  BY <1>1, <1>3, <1>5, <1>6, <1>2
<1>7. CASE \E pc : decider' = [decider EXCEPT ![d].pc = pc]
  <2>1. PICK pc : decider' = [decider EXCEPT ![d] = [decider[d] EXCEPT !.pc = pc]]
    BY <1>1, <1>7
  <2> QED
    BY <1>1, <1>4, <1>5, <1>2, <2>1
<1>8. CASE \E pc, k : decider' = [decider EXCEPT ![d].pc = pc, ![d].ckpt = k]
  <2>1. PICK pc, k : decider' = [decider EXCEPT ![d].pc = pc, ![d].ckpt = k]
    BY <1>8
  <2> DEFINE x == [decider[d] EXCEPT !.pc = pc, !.ckpt = k]
  <2>2. decider' = [decider EXCEPT ![d] = x] /\ x.alert = decider[d].alert
    BY <1>1, <1>4, <2>1
  <2> HIDE DEF x
  <2> QED
    BY <1>1, <1>2, <1>5, <2>2
<1>9. CASE \E pc, o : decider' = [decider EXCEPT ![d].pc = pc, ![d].out = o]
  <2>1. PICK pc, o : decider' = [decider EXCEPT ![d].pc = pc, ![d].out = o]
    BY <1>9
  <2> DEFINE x == [decider[d] EXCEPT !.pc = pc, !.out = o]
  <2>2. decider' = [decider EXCEPT ![d] = x] /\ x.alert = decider[d].alert
    BY <1>1, <1>4, <2>1
  <2> HIDE DEF x
  <2> QED
    BY <1>1, <1>2, <1>5, <2>2
<1>10. CASE GetState(d) \/ RecordDecision(d) \/ DeciderFails(d)
            \/ \E ok \in BOOLEAN : MarkResolved(d, ok)
  BY <1>1, <1>6, <1>7, <1>2, <1>10 DEF GetState, RecordDecision, DeciderFails, MarkResolved
<1>11. CASE Perform(d) \/ Finish(d)
  BY <1>1, <1>7, <1>2, <1>11 DEF Perform, Finish
<1>12. CASE LoadCheckpoint(d)
  BY <1>1, <1>8, <1>2, <1>12 DEF LoadCheckpoint
<1>13. CASE \/ \E next \in {"executor", "end"} : ResumeReview(d, next)
            \/ ResumeLate(d)
            \/ \E next \in {"human_review", "end"} : ResumeEarly(d, next)
  <2>1. ASSUME NEW next, ResumeReview(d, next)
        PROVE  \E pc, o : decider' = [decider EXCEPT ![d].pc = pc, ![d].out = o]
    BY <2>1 DEF ResumeReview
  <2>2. ASSUME NEW next, ResumeEarly(d, next)
        PROVE  \E pc, o : decider' = [decider EXCEPT ![d].pc = pc, ![d].out = o]
    BY <2>2 DEF ResumeEarly
  <2>3. ASSUME ResumeLate(d)
        PROVE  \E pc, o : decider' = [decider EXCEPT ![d].pc = pc, ![d].out = o]
    BY <2>3 DEF ResumeLate
  <2>4. \E pc, o : decider' = [decider EXCEPT ![d].pc = pc, ![d].out = o]
    BY <1>13, <2>1, <2>2, <2>3
  <2> QED
    BY <1>1, <1>2, <1>9, <2>4
<1> QED
  BY <1>10, <1>11, <1>12, <1>13 DEF Decide

LEMMA SubmitAlert ==
    ASSUME TypeInv, NEW d \in Deciders, NEW a \in Alerts, Submit(d, a)
    PROVE  /\ decider'[d] = [NoCall EXCEPT !.pc = "get_state", !.alert = a]
           /\ decider'[d].pc = "get_state" /\ decider'[d].alert = a
           /\ decider[d].pc = "idle" /\ Admits(Surface[d], a)
           /\ \A e \in Deciders \ {d} : decider'[e] = decider[e]
           /\ UNCHANGED <<registry, thread, count, worker, queue, putting>>
BY DEF Submit, TypeInv, TypeOK, NoCall

LEMMA LifeStep == RestOnly /\ TypeInv /\ OwnerInv /\ LifeInv /\ [Next]_vars => LifeInv'
<1> SUFFICES ASSUME RestOnly, TypeInv, OwnerInv, LifeInv, [Next]_vars PROVE LifeInv'
  OBVIOUS
<1>0. worker \in Workers /\ worker.pc \in WorkerPcs
  BY DEF TypeInv, TypeOK, Workers
<1>1. CASE \E p \in Producers : Put(p)
  <2>1. PICK p \in Producers : Put(p)
    BY <1>1
  <2>2. /\ \A b \in Alerts : (Queued(b) \/ BeingPut(b))' => Queued(b) \/ BeingPut(b)
        /\ UNCHANGED <<registry, worker, decider>>
    BY <2>1, PutMoves
  <2> QED
    BY <2>2 DEF LifeInv
<1>2. CASE \E p \in Producers, a \in Alerts : Receive(p, a)
  <2>1. PICK p \in Producers, a \in Alerts : Receive(p, a)
    BY <1>2
  <2>2. /\ Sets(a, "queued") /\ registry[a].status = "absent"
        /\ \A b \in Alerts \ {a} : (Queued(b) \/ BeingPut(b))' => Queued(b) \/ BeingPut(b)
        /\ UNCHANGED <<worker, decider>>
    BY <2>1, ReceiveSets, ReceiveMoves DEF Receive
  <2>3. \A b \in Alerts : (Queued(b) \/ BeingPut(b))' => registry'[b].status = "queued"
    BY <2>2 DEF Sets, LifeInv
  <2>4. worker.pc # "idle" => worker.alert \in Alerts \ {a}
    BY <2>2, HandPresent
  <2>5. (\A d \in Deciders : decider[d].pc # "idle" =>
               registry[decider[d].alert].status \in UnderDecision)'
    BY <2>2, SameDecider DEF Sets, UnderDecision
  <2>6. worker'.pc # "idle" => Fits(worker'.pc, registry'[worker'.alert].status)
    BY <2>2, <2>4 DEF LifeInv, Sets
  <2> QED
    BY <2>3, <2>5, <2>6 DEF LifeInv
<1>3. CASE Take
  <2>1. /\ worker'.pc = "check" /\ worker'.alert \in Alerts /\ Queued(worker'.alert)
        /\ \A b \in Alerts : (Queued(b) \/ BeingPut(b))' => Queued(b) \/ BeingPut(b)
        /\ UNCHANGED <<registry, decider>>
    BY <1>3, TakeMoves
  <2>2. registry[worker'.alert].status = "queued"
    BY <2>1 DEF LifeInv
  <2>3. Fits(worker'.pc, registry'[worker'.alert].status)
    BY <2>1, <2>2 DEF Fits
  <2> QED
    BY <2>1, <2>3 DEF LifeInv
<1>4. CASE Requeue
  <2>1. /\ worker' = Idle /\ UNCHANGED <<registry, decider>>
        /\ \A b \in Alerts : (Queued(b) \/ BeingPut(b))' =>
              b = worker.alert \/ Queued(b) \/ BeingPut(b)
    BY <1>4, RequeueMoves
  <2>2. registry[worker.alert].status = "queued"
    BY <1>4 DEF Requeue, LifeInv, Fits
  <2> QED
    BY <2>1, <2>2, IdleHasNone DEF LifeInv
<1>5. CASE RunStep
  <2>1. /\ UNCHANGED <<registry, queue, putting, decider>>
        /\ worker'.alert = worker.alert /\ Leads(worker.pc, worker'.pc)
    BY <1>5, RunStepLeads
  <2>2. /\ worker.pc \notin {"idle", "unhandled"}
        /\ Fits(worker'.pc, registry[worker.alert].status)
    BY <1>0, <2>1 DEF LifeInv, Leads, Fits
  <2> QED
    BY <2>1, <2>2, HandStep
<1>6. CASE CallFails
  <2>1. /\ UNCHANGED <<registry, queue, putting, decider>> /\ worker.pc # "idle"
        /\ worker'.alert = worker.alert /\ worker'.pc = "unhandled"
    BY <1>6, CallFailsLeads
  <2>2. registry[worker.alert].status \in Statuses \ {"absent"}
    BY <2>1, HandPresent DEF AlertRecord
  <2>3. Fits("unhandled", registry[worker.alert].status)
    BY <2>2 DEF Fits
  <2> QED
    BY <2>1, <2>3, HandStep
<1>7. CASE Start
  <2>1. /\ Sets(worker.alert, "running") /\ UNCHANGED <<queue, putting, decider>>
        /\ worker.pc = "start" /\ worker'.alert = worker.alert /\ worker'.pc = "invoke"
    BY <1>0, <1>7, StartSets DEF Start, Go, Workers
  <2>2. Fits(worker'.pc, "running")
    BY <2>1 DEF Fits
  <2> QED
    BY <2>1, <2>2, HandStep DEF Sets
<1>8. CASE MarkDuplicate
  <2>1. /\ UNCHANGED <<queue, putting, decider>>
        /\ worker.pc = "duplicate" /\ worker'.alert = worker.alert
        /\ worker'.pc = "occurrences"
    BY <1>0, <1>8 DEF MarkDuplicate, Go, Workers
  <2>2. Fits(worker'.pc, "duplicate")
    BY <2>1 DEF Fits
  <2> QED
    BY <1>8, <2>1, <2>2, MarkDuplicateSets, HandStep
<1>9. CASE CountOccurrence \/ ReadOriginal \/ \E ok \in BOOLEAN : RefreshTicket(ok)
  <2>1. StatusKept /\ UNCHANGED <<queue, putting, decider>> /\ worker.pc # "idle"
        /\ worker.pc \in {"occurrences", "original", "refresh"}
    BY <1>9, CountKeeps, RefreshKeeps
    DEF CountOccurrence, ReadOriginal, RefreshTicket, StatusKept
  <2>2. worker' = Idle \/ Returns \/ (/\ worker'.alert = worker.alert
                                      /\ worker'.pc \in {"original", "refresh"})
    BY <1>0, <1>9 DEF CountOccurrence, ReadOriginal, RefreshTicket, Go, Workers, Returns
  <2>3. registry[worker.alert].status = "duplicate" /\ worker.alert \in Alerts
    BY <2>1, HandPresent DEF LifeInv, Fits
  <2>4. worker' = Idle \/ (worker'.alert = worker.alert /\ Fits(worker'.pc, "duplicate"))
    BY <2>2, ReturnsLeads DEF Fits, Statuses
  <2>5. /\ registry'[worker.alert].status = "duplicate"
        /\ \A b \in Alerts \ {worker.alert} : registry'[b].status = registry[b].status
    BY <2>1, <2>3 DEF StatusKept
  <2> QED
    BY <2>1, <2>4, <2>5, HandStep
<1>10. CASE HandleTriageError \/ Await \/ Close
  <2>1. UNCHANGED <<queue, putting, decider>> /\ worker.pc \notin {"idle", "unhandled"}
    BY <1>10 DEF HandleTriageError, Await, Close
  <2>2. PICK s \in {"queued", "failed", "awaiting_approval", "auto_closed"} :
           /\ Sets(worker.alert, s)
           /\ \/ Returns
              \/ s = "queued" /\ worker' = [worker EXCEPT !.pc = "requeue"]
    BY <1>10, HandleErrorSets, AwaitSets, CloseSets DEF Await, Close
  <2>3. worker' = Idle \/ (worker'.alert = worker.alert /\ Fits(worker'.pc, s))
    BY <1>0, <2>2, ReturnsLeads DEF Fits, Workers, Statuses
  <2> QED
    BY <2>1, <2>2, <2>3, HandStep DEF Sets
<1>11. CASE RecordUnhandled
  <2>1. UNCHANGED <<queue, putting, decider>> /\ worker.pc # "idle" /\ worker' = Idle
    BY <1>11 DEF RecordUnhandled
  <2>2. CASE Sets(worker.alert, "failed")
    BY <2>1, <2>2, HandStep DEF Sets
  <2>3. CASE UNCHANGED registry
    BY <2>1, <2>3, HandStep
  <2> QED
    BY <1>11, <2>2, <2>3, UnhandledSets
<1>12. CASE \E d \in Deciders : Decide(d)
  <2>1. PICK d \in Deciders : Decide(d)
    BY <1>12
  <2> DEFINE a == decider[d].alert
  <2>2. /\ UNCHANGED <<queue, putting, worker>>
        /\ UNCHANGED registry \/ RecordDecision(d)
    BY <2>1, DecideKeeps
  <2>3. /\ decider[d].pc # "idle" /\ a \in Alerts
        /\ \A e \in Deciders \ {d} : decider'[e] = decider[e]
        /\ decider'[d].pc # "idle" => decider'[d].alert = a
    BY <2>1, DecideAlert
  <2>4. registry[a].status \in UnderDecision
    BY <2>3 DEF LifeInv
  <2>5. /\ registry'[a].status \in UnderDecision
        /\ \A b \in Alerts \ {a} : registry'[b].status = registry[b].status
    BY <2>2, <2>4, DecisionSets DEF Sets, UnderDecision
  <2>6. /\ ~Queued(a) /\ ~BeingPut(a)
        /\ worker.pc \notin {"idle", "unhandled"} => worker.alert # a
    BY <1>0, <2>3, <2>4, FitsUnderWay DEF LifeInv, UnderDecision
  <2>7. \A b \in Alerts : (Queued(b) \/ BeingPut(b))' => Queued(b) \/ BeingPut(b)
    BY <2>2 DEF Queued, BeingPut
  <2>8. worker'.pc # "idle" => Fits(worker'.pc, registry'[worker'.alert].status)
    <3>1. CASE worker.alert = a
      BY <2>2, <2>5, <2>6, <3>1 DEF Fits, UnderDecision, Statuses
    <3>2. CASE worker.alert # a
      BY <2>2, <2>5, <3>2, HandPresent DEF LifeInv
    <3> QED
      BY <3>1, <3>2
  <2>9. ASSUME NEW e \in Deciders, decider'[e].pc # "idle"
        PROVE  registry'[decider'[e].alert].status \in UnderDecision
    <3>1. CASE e = d
      BY <2>3, <2>5, <2>9, <3>1
    <3>2. CASE e # d
      <4>1. decider'[e] = decider[e] /\ decider[e].alert \in Alerts
        BY <2>3, <2>9, <3>2 DEF TypeInv, Hands
      <4>2. registry[decider[e].alert].status \in UnderDecision
        BY <2>9, <4>1 DEF LifeInv
      <4> QED
        BY <2>5, <4>1, <4>2
    <3> QED
      BY <3>1, <3>2
  <2>10. \A b \in Alerts : (Queued(b) \/ BeingPut(b))' => registry'[b].status = "queued"
    BY <2>5, <2>6, <2>7 DEF LifeInv
  <2> QED
    BY <2>8, <2>9, <2>10 DEF LifeInv
<1>13. CASE \E d \in Deciders, a \in Alerts : Submit(d, a)
  <2>1. PICK d \in Deciders, a \in Alerts : Submit(d, a)
    BY <1>13
  <2>2. registry[a].status = "awaiting_approval"
    BY <2>1, SubmitAlert DEF RestOnly, Admits
  <2>3. /\ UNCHANGED <<registry, queue, putting, worker>>
        /\ decider'[d].alert = a /\ \A e \in Deciders \ {d} : decider'[e] = decider[e]
    BY <2>1, SubmitAlert
  <2>4. \A b \in Alerts : (Queued(b) \/ BeingPut(b))' => registry'[b].status = "queued"
    BY <2>3 DEF LifeInv, Queued, BeingPut
  <2>5. \A e \in Deciders : decider'[e].pc # "idle" =>
           registry'[decider'[e].alert].status \in UnderDecision
    BY <2>2, <2>3 DEF LifeInv, UnderDecision
  <2> QED
    BY <2>3, <2>4, <2>5 DEF LifeInv
<1>14. CASE Crash
  <2>1. \A d \in Deciders : decider'[d].pc = "idle"
    BY <1>14 DEF Crash, RestOnly, NoCall
  <2> QED
    BY <1>14, <2>1, CrashMoves, IdleHasNone DEF LifeInv
<1>15. CASE Tick \/ UNCHANGED vars
  <2>1. UNCHANGED <<registry, queue, putting, worker, decider>>
    BY <1>15 DEF Tick, vars
  <2> QED
    BY <2>1 DEF LifeInv, Queued, BeingPut
<1> QED
  BY <1>1, <1>2, <1>3, <1>4, <1>5, <1>6, <1>7, <1>8, <1>9, <1>10, <1>11, <1>12, <1>13,
     <1>14, <1>15, StepKinds

LEMMA LifeInvariant == RestOnly => (Spec => []LifeInv)
<1> SUFFICES ASSUME RestOnly PROVE Spec => []LifeInv
  OBVIOUS
<1>1. TypeInv /\ OwnerInv /\ LifeInv /\ [Next]_vars => LifeInv'
  BY LifeStep
<1> QED
  BY <1>1, InitLifeInv, TypeInvariant, OwnerInvariant, PTL DEF Spec

\* Without faults nothing raises, and no alert fails.
Trouble == {"transient", "permanent", "unhandled"}
CalmInv ==
    MaxFaults = 0 =>
        worker.pc \notin Trouble /\ \A a \in Alerts : registry[a].status # "failed"

LEMMA CalmStep == TypeInv /\ OwnerInv /\ CalmInv /\ [Next]_vars => CalmInv'
<1> SUFFICES ASSUME TypeInv, OwnerInv, CalmInv, [Next]_vars, MaxFaults = 0
             PROVE  /\ worker'.pc \notin Trouble
                    /\ \A a \in Alerts : registry'[a].status # "failed"
  BY DEF CalmInv
<1>0. /\ worker \in Workers /\ ~(count.faults < MaxFaults)
      /\ worker.pc \notin Trouble /\ \A a \in Alerts : registry[a].status # "failed"
  BY DEF TypeInv, TypeOK, Counts, CalmInv
<1>1. ASSUME UNCHANGED registry \/ StatusKept, UNCHANGED worker \/ worker'.pc \notin Trouble
      PROVE  /\ worker'.pc \notin Trouble
             /\ \A a \in Alerts : registry'[a].status # "failed"
  BY <1>0, <1>1 DEF StatusKept
<1>2. ASSUME NEW a \in Alerts, NEW t \in Statuses \ {"failed"}, Sets(a, t),
             UNCHANGED worker \/ worker'.pc \notin Trouble
      PROVE  /\ worker'.pc \notin Trouble
             /\ \A b \in Alerts : registry'[b].status # "failed"
  BY <1>0, <1>2 DEF Sets
<1>3. ~CallFails /\ ~HandleTriageError /\ ~RecordUnhandled
  BY <1>0, CallFailsLeads DEF HandleTriageError, RecordUnhandled, Trouble
<1>4. CASE (\E p \in Producers : Put(p)) \/ Take \/ Requeue \/ ReadOriginal \/ Crash
           \/ Tick \/ UNCHANGED vars
  <2>1. UNCHANGED registry
    BY <1>4 DEF Put, Take, Requeue, ReadOriginal, Crash, Tick, vars
  <2>2. CASE (\E p \in Producers : Put(p)) \/ Tick \/ UNCHANGED vars
    BY <1>1, <2>1, <2>2 DEF Put, Tick, vars
  <2>3. CASE Take
    BY <1>1, <2>1, <2>3, TakeMoves DEF Trouble
  <2>4. CASE Requeue \/ ReadOriginal \/ Crash
    <3>1. worker' = Idle \/ worker' = [worker EXCEPT !.pc = "refresh"]
      BY <2>4 DEF Requeue, ReadOriginal, Crash
    <3> QED
      BY <1>0, <1>1, <2>1, <3>1, IdleHasNone DEF Workers, Trouble
  <2> QED
    BY <1>4, <2>2, <2>3, <2>4
<1>5. CASE \E p \in Producers, a \in Alerts : Receive(p, a)
  <2>1. PICK p \in Producers, a \in Alerts : Receive(p, a)
    BY <1>5
  <2> QED
    BY <1>2, <2>1, ReceiveSets, ReceiveMoves DEF Statuses
<1>6. CASE RunStep
  <2>1. ~\E kind \in {"transient", "permanent"} : GraphRaises(kind)
    BY <1>0 DEF GraphRaises
  <2>2. CASE Check \/ InvokeGraph \/ SaveTs \/ \E ok \in BOOLEAN : PostTicket(ok)
    BY <1>0, <2>2 DEF Check, InvokeGraph, SaveTs, PostTicket, Go, Workers, Trouble
  <2>3. CASE Interrupted \/ AutoClosed
    BY <1>0, <2>3 DEF Interrupted, AutoClosed, GraphReturns, Workers, Trouble
  <2> QED
    BY <1>6, <2>1, <2>2, <2>3 DEF RunStep
<1>7. CASE Start \/ Await \/ Close
  <2>1. worker.alert \in Alerts
    BY <1>7, HandPresent DEF Start, Await, Close
  <2>2. worker'.pc \notin Trouble
    BY <1>0, <1>7, ReturnsLeads DEF Start, Await, Close, Go, Idle, Workers, Trouble
  <2> QED
    BY <1>2, <1>7, <2>1, <2>2, StartSets, AwaitSets, CloseSets DEF Statuses
<1>8. CASE MarkDuplicate
  <2>1. worker'.pc \notin Trouble
    BY <1>0, <1>8 DEF MarkDuplicate, Go, Workers, Trouble
  <2> QED
    BY <1>0, <1>8, <2>1, MarkDuplicateSets
<1>9. CASE CountOccurrence \/ \E ok \in BOOLEAN : RefreshTicket(ok)
  <2>1. CASE CountOccurrence
    BY <1>0, <1>1, <2>1, CountKeeps DEF CountOccurrence, Go, Workers, Trouble
  <2>2. CASE \E ok \in BOOLEAN : RefreshTicket(ok)
    <3>1. worker' = Idle \/ Returns
      BY <2>2 DEF RefreshTicket, Returns
    <3> QED
      BY <1>0, <1>1, <2>2, <3>1, RefreshKeeps, ReturnsLeads DEF Idle, Trouble
  <2> QED
    BY <1>9, <2>1, <2>2
<1>10. CASE \E d \in Deciders : Decide(d) \/ \E a \in Alerts : Submit(d, a)
  <2>1. PICK d \in Deciders : Decide(d) \/ \E a \in Alerts : Submit(d, a)
    BY <1>10
  <2>2. UNCHANGED worker /\ (UNCHANGED registry \/ RecordDecision(d))
    BY <2>1, DecideKeeps
  <2>3. RecordDecision(d) => decider[d].alert \in Alerts
    BY DEF RecordDecision, TypeInv, Hands
  <2> QED
    BY <1>1, <1>2, <2>2, <2>3, DecisionSets DEF Statuses
<1> QED
  BY <1>3, <1>4, <1>5, <1>6, <1>7, <1>8, <1>9, <1>10, StepKinds

LEMMA CalmInvariant == Spec => []CalmInv
<1>1. Init => CalmInv
  BY DEF Init, CalmInv, Absent, Idle, Trouble
<1> QED
  BY <1>1, CalmStep, TypeInvariant, OwnerInvariant, PTL DEF Spec

\* One alert takes an edge of the lifecycle, or no status changes.
LEMMA MoveMaps ==
    ASSUME TypeInv, NEW a \in Alerts, NEW s, <<registry[a].status, s>> \in Lifecycle!Edges,
           registry'[a].status = s,
           \A b \in Alerts \ {a} : registry'[b].status = registry[b].status
    PROVE  Lifecycle!Next
<1> DEFINE e == <<registry[a].status, s>>
<1>1. StatusOf' = [StatusOf EXCEPT ![a] = s]
  BY DEF StatusOf
<1>2. StatusOf[a] = e[1] /\ s = e[2]
  BY DEF StatusOf
<1> QED
  BY <1>1, <1>2 DEF Lifecycle!Next, Lifecycle!Move

LEMMA StutterMaps ==
    ASSUME StatusKept
    PROVE  UNCHANGED StatusOf
BY DEF StatusKept, StatusOf

\* The edges an alert can take.
LEMMA OrdinaryEdges ==
    /\ <<"absent", "queued">> \in Lifecycle!Edges
    /\ <<"queued", "running">> \in Lifecycle!Edges
    /\ <<"queued", "duplicate">> \in Lifecycle!Edges
    /\ <<"running", "auto_closed">> \in Lifecycle!Edges
    /\ <<"running", "awaiting_approval">> \in Lifecycle!Edges
    /\ <<"awaiting_approval", "resolved">> \in Lifecycle!Edges
BY DEF Lifecycle!Edges, Lifecycle!Ordinary

LEMMA FaultEdges ==
    ASSUME MaxFaults # 0
    PROVE  /\ <<"running", "queued">> \in Lifecycle!Edges
           /\ <<"failed", "resolved">> \in Lifecycle!Edges
           /\ \A s \in Statuses \ {"absent", "failed"} : <<s, "failed">> \in Lifecycle!Edges
<1>1. MaxFaults > 0
  BY PipelineAssumption
<1> QED
  BY <1>1 DEF Lifecycle!Edges, Lifecycle!AfterFault, Statuses

LEMMA LifecycleStep ==
    ASSUME RestOnly, TypeInv, OwnerInv, LifeInv, CalmInv, [Next]_vars
    PROVE  [Lifecycle!Next]_StatusOf
<1>1. CASE UNCHANGED registry
  BY <1>1 DEF StatusOf
<1>2. CASE \E p \in Producers, a \in Alerts : Receive(p, a)
  <2>1. PICK p \in Producers, a \in Alerts : Receive(p, a)
    BY <1>2
  <2>2. Sets(a, "queued") /\ registry[a].status = "absent"
    BY <2>1, ReceiveSets DEF Receive
  <2> QED
    BY <2>2, MoveMaps, OrdinaryEdges DEF Sets
<1>3. CASE Start
  <2>1. Sets(worker.alert, "running") /\ worker.alert \in Alerts
    BY <1>3, StartSets, HandPresent DEF Start
  <2>2. registry[worker.alert].status = "queued"
    BY <1>3 DEF Start, LifeInv, Fits
  <2> QED
    BY <2>1, <2>2, MoveMaps, OrdinaryEdges DEF Sets
<1>4. CASE MarkDuplicate
  <2>1. registry[worker.alert].status = "queued" /\ worker.alert \in Alerts
    BY <1>4, HandPresent DEF MarkDuplicate, LifeInv, Fits
  <2> QED
    BY <1>4, <2>1, MarkDuplicateSets, MoveMaps, OrdinaryEdges
<1>5. CASE CountOccurrence \/ \E ok \in BOOLEAN : RefreshTicket(ok)
  BY <1>5, CountKeeps, RefreshKeeps, StutterMaps
<1>6. CASE HandleTriageError \/ Await \/ Close
  <2>1. PICK s \in {"queued", "failed", "awaiting_approval", "auto_closed"} :
           /\ Sets(worker.alert, s)
           /\ s \in {"queued", "failed"} => HandleTriageError
    BY <1>6, HandleErrorSets, AwaitSets, CloseSets
  <2>2. registry[worker.alert].status = "running" /\ worker.alert \in Alerts
    BY <1>6, HandPresent DEF HandleTriageError, Await, Close, LifeInv, Fits
  <2>3. HandleTriageError => MaxFaults # 0
    BY DEF HandleTriageError, CalmInv, Trouble
  <2>4. <<"running", s>> \in Lifecycle!Edges
    BY <2>1, <2>3, OrdinaryEdges, FaultEdges DEF Statuses
  <2> QED
    BY <2>1, <2>2, <2>4, MoveMaps DEF Sets
<1>7. CASE RecordUnhandled
  <2>1. UNCHANGED registry \/ Sets(worker.alert, "failed")
    BY <1>7, UnhandledSets
  <2>2. registry[worker.alert].status \in Statuses \ {"absent"} /\ worker.alert \in Alerts
    BY <1>7, HandPresent DEF RecordUnhandled, LifeInv, Fits
  <2>3. MaxFaults # 0
    BY <1>7 DEF RecordUnhandled, CalmInv, Trouble
  <2>4. CASE Sets(worker.alert, "failed") /\ registry[worker.alert].status = "failed"
    <3>1. StatusKept
      BY <2>2, <2>4 DEF Sets, StatusKept
    <3> QED
      BY <3>1, StutterMaps
  <2>5. CASE Sets(worker.alert, "failed") /\ registry[worker.alert].status # "failed"
    BY <2>2, <2>3, <2>5, MoveMaps, FaultEdges DEF Sets
  <2> QED
    BY <1>1, <2>1, <2>4, <2>5
<1>8. CASE \E d \in Deciders : RecordDecision(d)
  <2>1. PICK d \in Deciders : RecordDecision(d)
    BY <1>8
  <2> DEFINE a == decider[d].alert
  <2>2. a \in Alerts /\ registry[a].status \in UnderDecision
    BY <2>1 DEF RecordDecision, LifeInv, TypeInv, Hands
  <2>3. Sets(a, "resolved")
    BY <2>1, <2>2, DecisionSets DEF UnderDecision
  <2>4. CASE registry[a].status = "resolved"
    <3>1. StatusKept
      BY <2>2, <2>3, <2>4 DEF Sets, StatusKept
    <3> QED
      BY <3>1, StutterMaps
  <2>5. CASE registry[a].status = "awaiting_approval"
    BY <2>2, <2>3, <2>5, MoveMaps, OrdinaryEdges DEF Sets
  <2>6. CASE registry[a].status = "failed"
    <3>1. MaxFaults # 0
      BY <2>2, <2>6 DEF CalmInv
    <3> QED
      BY <2>2, <2>3, <2>6, <3>1, MoveMaps, FaultEdges DEF Sets
  <2> QED
    BY <2>2, <2>4, <2>5, <2>6 DEF UnderDecision
<1>9. \/ UNCHANGED registry \/ Start \/ MarkDuplicate \/ CountOccurrence
      \/ \E p \in Producers, a \in Alerts : Receive(p, a)
      \/ \E ok \in BOOLEAN : RefreshTicket(ok)
      \/ HandleTriageError \/ Await \/ Close \/ RecordUnhandled
      \/ \E d \in Deciders : RecordDecision(d)
  BY StepKinds, PutMoves, TakeMoves, RequeueMoves, RunStepLeads, CallFailsLeads, CrashMoves,
     DecideKeeps
  DEF ReadOriginal, Tick, vars
<1> QED
  BY <1>1, <1>2, <1>3, <1>4, <1>5, <1>6, <1>7, <1>8, <1>9

\* The registry implements AlertLifecycle where every analyst decides over
\* REST, which looks at the record first: an operator who polls
\* GET /alerts/{id} sees statuses move along its edges only, through restarts
\* along the ordinary ones, and where calls may fail or lose their answers along
\* those that AlertLifecycle adds for it: no alert is triaged again but by a
\* retry, and none is failed and then listed for approval (AlertStatus,
\* store.py).
THEOREM RegistryFollowsLifecycle == RestOnly => (Spec => FollowsLifecycle)
<1> SUFFICES ASSUME RestOnly PROVE Spec => FollowsLifecycle
  OBVIOUS
<1>1. Init => Lifecycle!Init
  BY DEF Init, Lifecycle!Init, StatusOf, Absent
<1>2. TypeInv /\ OwnerInv /\ LifeInv /\ CalmInv /\ [Next]_vars
         => [Lifecycle!Next]_StatusOf
  BY LifecycleStep
<1> QED
  BY <1>1, <1>2, TypeInvariant, OwnerInvariant, LifeInvariant, CalmInvariant, PTL
  DEF Spec, FollowsLifecycle, Lifecycle!Spec

-----------------------------------------------------------------------------
(* What /approvals lists can be decided.                                   *)

\* The graph has reached the review, or gone past it.
Past == {"human_review", "executor", "end"}
Deciding == {"perform", "finish", "record"}
FaultFree == count.faults = 0 /\ count.crashes = 0

ReviewInv ==
    /\ \A a \in Alerts : registry[a].status \in {"awaiting_approval", "resolved"}
                             => thread[a].next \in Past
    /\ \A d \in Deciders : decider[d].pc # "idle" => thread[decider[d].alert].next \in Past
    /\ \A d \in Deciders : decider[d].pc = "resume" => decider[d].ckpt.next \in Past
    /\ worker.pc \in {"post", "save_ts", "await"}
           => thread[worker.alert].next = "human_review"
    \* Who took the thread past the review has still to record it.
    /\ FaultFree => \A a \in Alerts : registry[a].status = "awaiting_approval" =>
           \/ thread[a].next = "human_review"
           \/ \E d \in Deciders : decider[d].alert = a /\ decider[d].pc \in Deciding

\* What the graph writes to the threads.
LEMMA RunThread ==
    ASSUME TypeInv, RunStep
    PROVE  /\ \A b \in Alerts \ {worker.alert} : thread'[b] = thread[b]
           /\ worker'.pc \in {"post", "save_ts", "await"} =>
                 \/ thread'[worker.alert].next = "human_review"
                 \/ /\ worker.pc \in {"post", "save_ts", "await"}
                    /\ thread'[worker.alert].next = thread[worker.alert].next
<1> DEFINE a == worker.alert
<1>1. /\ worker \in Workers /\ worker.pc # "idle" /\ a \in Alerts
      /\ thread \in [Alerts -> Checkpoint] /\ worker.ckpt \in Checkpoint
  BY DEF RunStep, Check, InvokeGraph, Interrupted, AutoClosed, GraphReturns, GraphRaises, SaveTs,
         PostTicket, TypeInv, TypeOK, Hands, Workers
<1>2. CASE Check \/ \E kind \in {"transient", "permanent"} : GraphRaises(kind)
  BY <1>1, <1>2 DEF Check, GraphRaises, Go, Workers
<1>3. CASE InvokeGraph
  BY <1>1, <1>3 DEF InvokeGraph, Workers
<1>4. CASE Interrupted
  BY <1>1, <1>4 DEF Interrupted, GraphReturns, Checkpoint
<1>5. CASE AutoClosed
  BY <1>1, <1>5 DEF AutoClosed, GraphReturns, Workers
<1>6. CASE SaveTs
  BY <1>1, <1>6 DEF SaveTs, Checkpoint
<1>7. CASE \E ok \in BOOLEAN : PostTicket(ok)
  BY <1>1, <1>7 DEF PostTicket
<1> QED
  BY <1>2, <1>3, <1>4, <1>5, <1>6, <1>7 DEF RunStep

\* The other steps of the worker leave the threads alone.
LEMMA SettleThread ==
    ASSUME \/ Take \/ Requeue \/ CallFails \/ Start \/ MarkDuplicate \/ CountOccurrence
           \/ ReadOriginal \/ (\E ok \in BOOLEAN : RefreshTicket(ok))
           \/ HandleTriageError \/ Await \/ Close \/ RecordUnhandled
    PROVE  UNCHANGED <<thread, decider>>
BY DEF Take, Requeue, CallFails, Start, MarkDuplicate, CountOccurrence, ReadOriginal,
       RefreshTicket, HandleTriageError, Await, Close, RecordUnhandled

\* What one step of an analyst's call does to the thread it is on.
LEMMA DecideThread ==
    ASSUME TypeInv, NEW d \in Deciders, Decide(d),
           decider[d].pc = "resume" => decider[d].ckpt.next \in Past
    PROVE  LET a == decider[d].alert IN
           /\ \A b \in Alerts \ {a} : thread'[b] = thread[b]
           /\ thread'[a] = thread[a] \/ thread'[a].next \in {"executor", "end"}
           /\ decider'[d].pc = "resume" => decider'[d].ckpt = thread[a]
           /\ \/ thread'[a] = thread[a] /\ decider[d].pc \notin Deciding
              \/ decider'[d].pc \in Deciding
              \/ RecordDecision(d)
              \/ count'.faults = count.faults + 1
<1> DEFINE a == decider[d].alert
<1>1. /\ decider \in [Deciders -> Calls] /\ decider[d] \in Calls /\ a \in Alerts
      /\ thread \in [Alerts -> Checkpoint] /\ count \in Counts
  BY DecideAlert DEF TypeInv, TypeOK
<1>2. NoCall.pc = "idle"
  BY DEF NoCall
<1>3. CASE GetState(d)
  BY <1>1, <1>2, <1>3 DEF GetState, Calls, Deciding
<1>4. CASE LoadCheckpoint(d)
  BY <1>1, <1>4 DEF LoadCheckpoint, Calls, Deciding
<1>5. CASE \E next \in {"executor", "end"} : ResumeReview(d, next)
  BY <1>1, <1>5 DEF ResumeReview, Commit, Calls, Deciding
<1>6. CASE ResumeLate(d)
  BY <1>1, <1>6 DEF ResumeLate, Calls, Deciding
<1>7. CASE \E next \in {"human_review", "end"} : ResumeEarly(d, next)
  BY <1>7 DEF ResumeEarly, Past
<1>8. CASE Perform(d)
  BY <1>1, <1>8 DEF Perform, Calls, Deciding
<1>9. CASE Finish(d)
  BY <1>1, <1>9 DEF Finish, Commit, Calls, Deciding
<1>10. CASE RecordDecision(d)
  BY <1>1, <1>2, <1>10 DEF RecordDecision, Calls
<1>11. CASE \E ok \in BOOLEAN : MarkResolved(d, ok)
  BY <1>1, <1>2, <1>11 DEF MarkResolved, Deciding
<1>12. CASE DeciderFails(d)
  BY <1>1, <1>2, <1>12 DEF DeciderFails, Counts
<1> QED
  BY <1>3, <1>4, <1>5, <1>6, <1>7, <1>8, <1>9, <1>10, <1>11, <1>12 DEF Decide

LEMMA FaultFreeBefore ==
    ASSUME TypeInv, [Next]_vars, FaultFree'
    PROVE  FaultFree
BY CountGrows DEF FaultFree

LEMMA InitReviewInv == Init => ReviewInv
BY DEF Init, ReviewInv, Absent, Idle, NoCall

\* A worker step that lists nothing new and leaves the other alerts alone.
LEMMA ReviewKept ==
    ASSUME TypeInv, OwnerInv, LifeInv, ReviewInv, [Next]_vars, UNCHANGED decider,
           NEW a \in Alerts,
           thread'[a] = thread[a] \/ registry[a].status \notin UnderDecision,
           registry'[a].status \notin {"awaiting_approval", "resolved"},
           \A b \in Alerts \ {a} : /\ registry'[b].status = registry[b].status
                                   /\ thread'[b] = thread[b],
           worker'.pc \in {"post", "save_ts", "await"}
               => thread'[worker'.alert].next = "human_review"
    PROVE  ReviewInv'
<1>1. FaultFree' => FaultFree
  BY FaultFreeBefore
<1>2. \A b \in Alerts : registry'[b].status \in {"awaiting_approval", "resolved"} =>
         registry'[b].status = registry[b].status /\ thread'[b] = thread[b]
  OBVIOUS
<1>3. \A d \in Deciders : decider[d].pc # "idle" =>
         /\ decider[d].alert \in Alerts /\ thread'[decider[d].alert] = thread[decider[d].alert]
  BY DEF LifeInv, TypeInv, Hands
<1>4. \A d \in Deciders : decider'[d].pc # "idle" => thread'[decider'[d].alert].next \in Past
  BY <1>3 DEF ReviewInv
<1> QED
  BY <1>1, <1>2, <1>4 DEF ReviewInv

LEMMA ReviewStep ==
    RestOnly /\ TypeInv /\ OwnerInv /\ LifeInv /\ ReviewInv /\ [Next]_vars => ReviewInv'
<1> SUFFICES ASSUME RestOnly, TypeInv, OwnerInv, LifeInv, ReviewInv, [Next]_vars
             PROVE  ReviewInv'
  OBVIOUS
<1>0. worker \in Workers /\ worker.pc \in WorkerPcs
  BY DEF TypeInv, TypeOK, Workers
<1>1. ASSUME UNCHANGED <<registry, thread, decider>>,
             worker'.pc \notin {"post", "save_ts", "await"} \/ UNCHANGED worker
      PROVE  ReviewInv'
  <2>1. FaultFree' => FaultFree
    BY FaultFreeBefore
  <2> QED
    BY <1>1, <2>1 DEF ReviewInv
<1>2. CASE (\E p \in Producers : Put(p)) \/ Take \/ Requeue \/ ReadOriginal \/ Tick
           \/ UNCHANGED vars
  <2>1. UNCHANGED <<registry, thread, decider>>
    BY <1>2, SettleThread DEF Put, Take, Requeue, ReadOriginal, Tick, vars
  <2>2. worker'.pc \notin {"post", "save_ts", "await"} \/ UNCHANGED worker
    BY <1>0, <1>2, IdleHasNone, TakeMoves, RequeueMoves DEF Put, ReadOriginal, Workers, Tick, vars
  <2> QED
    BY <1>1, <2>1, <2>2
<1>3. CASE \E p \in Producers, a \in Alerts : Receive(p, a)
  <2>1. PICK p \in Producers, a \in Alerts : Receive(p, a)
    BY <1>3
  <2>2. /\ Sets(a, "queued") /\ registry[a].status = "absent"
        /\ UNCHANGED <<worker, decider, thread>>
    BY <2>1, ReceiveSets, ReceiveMoves DEF Receive
  <2>3. worker'.pc \in {"post", "save_ts", "await"}
           => thread'[worker'.alert].next = "human_review"
    BY <2>2 DEF ReviewInv
  <2> QED
    BY <2>2, <2>3, ReviewKept DEF Sets
<1>4. CASE RunStep
  <2>1. /\ UNCHANGED <<registry, decider>>
        /\ worker'.alert = worker.alert /\ Leads(worker.pc, worker'.pc)
    BY <1>4, RunStepLeads
  <2>2. worker.pc \notin {"idle", "unhandled"} /\ worker.alert \in Alerts
    BY <2>1, HandPresent DEF Leads
  <2>3. registry[worker.alert].status \notin UnderDecision
    BY <1>0, <2>2, FitsUnderWay DEF LifeInv, UnderDecision
  <2>5. registry'[worker.alert].status \notin {"awaiting_approval", "resolved"}
    BY <2>1, <2>3 DEF UnderDecision
  <2>4. /\ \A b \in Alerts \ {worker.alert} : thread'[b] = thread[b]
        /\ worker'.pc \in {"post", "save_ts", "await"} =>
              thread'[worker'.alert].next = "human_review"
    BY <1>4, <2>1, RunThread DEF ReviewInv
  <2> QED
    BY <2>1, <2>2, <2>3, <2>4, <2>5, ReviewKept
<1>5. CASE CallFails
  BY <1>1, <1>5, CallFailsLeads, SettleThread
<1>6. CASE Start \/ MarkDuplicate \/ HandleTriageError \/ Close \/ RecordUnhandled
  <2>1. worker.pc # "idle" /\ worker.alert \in Alerts /\ UNCHANGED <<thread, decider>>
    BY <1>6, HandPresent, SettleThread
    DEF Start, MarkDuplicate, HandleTriageError, Close, RecordUnhandled
  <2>3. worker'.pc \notin {"post", "save_ts", "await"}
    BY <1>0, <1>6, IdleHasNone, ReturnsLeads
    DEF Start, MarkDuplicate, HandleTriageError, Close, RecordUnhandled, Go, Workers
  <2>4. CASE UNCHANGED registry
    BY <1>1, <2>1, <2>3, <2>4
  <2>5. CASE registry' # registry
    <3>1. /\ registry'[worker.alert].status \notin {"awaiting_approval", "resolved"}
          /\ \A b \in Alerts \ {worker.alert} : registry'[b] = registry[b]
      BY <1>6, <2>5, StartSets, MarkDuplicateSets, HandleErrorSets, CloseSets, UnhandledSets
      DEF Sets
    <3> QED
      BY <2>1, <2>3, <3>1, ReviewKept
  <2> QED
    BY <2>4, <2>5
<1>7. CASE CountOccurrence \/ \E ok \in BOOLEAN : RefreshTicket(ok)
  <2>1. StatusKept /\ UNCHANGED <<thread, decider>>
    BY <1>7, CountKeeps, RefreshKeeps, SettleThread
  <2>2. worker'.pc \notin {"post", "save_ts", "await"}
    BY <1>0, <1>7, IdleHasNone, ReturnsLeads
    DEF CountOccurrence, RefreshTicket, Go, Workers, Returns
  <2>3. FaultFree' => FaultFree
    BY FaultFreeBefore
  <2> QED
    BY <2>1, <2>2, <2>3 DEF ReviewInv, StatusKept
<1>8. CASE Await
  <2>1. /\ Sets(worker.alert, "awaiting_approval") /\ UNCHANGED <<thread, decider>>
        /\ worker'.pc \in {"idle", "unhandled"} /\ thread[worker.alert].next = "human_review"
        /\ worker.alert \in Alerts
    BY <1>8, AwaitSets, HandPresent, SettleThread, ReturnsLeads, IdleHasNone DEF Await, ReviewInv
  <2>2. FaultFree' => FaultFree
    BY FaultFreeBefore
  <2> QED
    BY <2>1, <2>2 DEF ReviewInv, Sets, Past
<1>9. CASE \E d \in Deciders : Decide(d)
  <2>1. PICK d \in Deciders : Decide(d)
    BY <1>9
  <2> DEFINE a == decider[d].alert
  <2>2. /\ a \in Alerts /\ decider[d].pc # "idle"
        /\ \A e \in Deciders \ {d} : decider'[e] = decider[e]
        /\ decider'[d].pc # "idle" => decider'[d].alert = a
        /\ UNCHANGED worker
        /\ UNCHANGED registry \/ RecordDecision(d)
    BY <2>1, DecideAlert, DecideKeeps
  <2>3. /\ \A b \in Alerts \ {a} : thread'[b] = thread[b]
        /\ thread'[a] = thread[a] \/ thread'[a].next \in {"executor", "end"}
        /\ decider'[d].pc = "resume" => decider'[d].ckpt = thread[a]
        /\ \/ thread'[a] = thread[a] /\ decider[d].pc \notin Deciding
           \/ decider'[d].pc \in Deciding
           \/ RecordDecision(d)
           \/ count'.faults = count.faults + 1
    BY <2>1, DecideThread DEF ReviewInv
  <2>4. registry[a].status \in UnderDecision /\ thread[a].next \in Past
    BY <2>2 DEF LifeInv, ReviewInv
  <2>5. /\ registry'[a].status \in UnderDecision
        /\ RecordDecision(d) => registry'[a].status = "resolved"
        /\ ~RecordDecision(d) => registry'[a].status = registry[a].status
        /\ \A b \in Alerts \ {a} : registry'[b] = registry[b]
    BY <2>2, <2>4, DecisionSets DEF Sets, UnderDecision
  <2>6. worker.pc \in {"post", "save_ts", "await"} => worker.alert \in Alerts \ {a}
    BY <2>4, HandPresent DEF LifeInv, Fits, UnderDecision
  <2>7. \A b \in Alerts : registry'[b].status \in {"awaiting_approval", "resolved"}
                              => thread'[b].next \in Past
    BY <2>3, <2>4, <2>5 DEF ReviewInv, Past
  <2>8. \A e \in Deciders : decider'[e].pc = "resume" => decider'[e].ckpt.next \in Past
    BY <2>2, <2>3, <2>4 DEF ReviewInv
  <2>9. worker'.pc \in {"post", "save_ts", "await"}
           => thread'[worker'.alert].next = "human_review"
    BY <2>2, <2>3, <2>6 DEF ReviewInv
  <2>11. \A e \in Deciders : decider'[e].pc # "idle" => thread'[decider'[e].alert].next \in Past
    <3>1. thread'[a].next \in Past
      BY <2>3, <2>4 DEF Past
    <3>2. \A e \in Deciders \ {d} : decider[e].pc # "idle" => decider[e].alert \in Alerts
      BY DEF TypeInv, Hands
    <3> QED
      BY <2>2, <2>3, <3>1, <3>2 DEF ReviewInv
  <2>10. ASSUME FaultFree', NEW b \in Alerts, registry'[b].status = "awaiting_approval"
         PROVE  \/ thread'[b].next = "human_review"
                \/ \E e \in Deciders : decider'[e].alert = b /\ decider'[e].pc \in Deciding
    <3>1. FaultFree /\ count'.faults = 0 /\ count.faults = 0
      BY <2>10, FaultFreeBefore DEF FaultFree
    <3>2. registry[b].status = "awaiting_approval" /\ ~(b = a /\ RecordDecision(d))
      BY <2>5, <2>10
    <3>3. \/ thread[b].next = "human_review"
          \/ \E e \in Deciders : decider[e].alert = b /\ decider[e].pc \in Deciding
      BY <2>10, <3>1, <3>2 DEF ReviewInv
    <3>4. CASE b # a
      BY <2>2, <2>3, <2>10, <3>3, <3>4
    <3>5. CASE b = a /\ decider'[d].pc \in Deciding
      BY <2>2, <3>5 DEF Deciding
    <3>6. CASE b = a /\ thread'[a] = thread[a] /\ decider[d].pc \notin Deciding
      BY <2>2, <3>3, <3>6
    <3> QED
      BY <2>3, <3>1, <3>2, <3>4, <3>5, <3>6
  <2> QED
    BY <2>7, <2>8, <2>9, <2>10, <2>11 DEF ReviewInv
<1>10. CASE \E d \in Deciders, a \in Alerts : Submit(d, a)
  <2>1. PICK d \in Deciders, a \in Alerts : Submit(d, a)
    BY <1>10
  <2>2. /\ UNCHANGED <<registry, thread, worker, count>>
        /\ decider[d].pc = "idle" /\ decider'[d].pc = "get_state" /\ decider'[d].alert = a
        /\ \A e \in Deciders \ {d} : decider'[e] = decider[e]
        /\ registry[a].status = "awaiting_approval"
    BY <2>1, SubmitAlert DEF RestOnly, Admits
  <2>3. \A b \in Alerts :
           (\E e \in Deciders : decider[e].alert = b /\ decider[e].pc \in Deciding)
               => (\E e \in Deciders : decider'[e].alert = b /\ decider'[e].pc \in Deciding)
    BY <2>2 DEF Deciding
  <2>4. \A e \in Deciders : decider'[e].pc = "resume" => decider'[e].ckpt.next \in Past
    BY <2>2 DEF ReviewInv
  <2>5. \A e \in Deciders : decider'[e].pc # "idle" => thread'[decider'[e].alert].next \in Past
    BY <2>2 DEF ReviewInv
  <2> QED
    BY <2>2, <2>3, <2>4, <2>5 DEF ReviewInv, FaultFree
<1>11. CASE Crash
  <2>1. /\ UNCHANGED <<registry, thread>> /\ worker' = Idle /\ ~FaultFree'
        /\ \A d \in Deciders : decider'[d].pc = "idle"
    BY <1>11, CrashMoves DEF Crash, RestOnly, NoCall, FaultFree, TypeInv, TypeOK, Counts
  <2> QED
    BY <2>1, IdleHasNone DEF ReviewInv
<1> QED
  BY <1>2, <1>3, <1>4, <1>5, <1>6, <1>7, <1>8, <1>9, <1>10, <1>11, StepKinds

\* Where analysts decide over REST, every alert that reads awaiting approval
\* can be decided or is being decided, as long as nothing failed: the record
\* changes after the graph is suspended, and a second decision on the same
\* alert does not lose the first (triage_once, apply_decision).
THEOREM ListedCanBeDecided ==
    RestOnly => (Spec => [](FaultFree => AwaitingIsDecidable))
<1> SUFFICES ASSUME RestOnly PROVE Spec => [](FaultFree => AwaitingIsDecidable)
  OBVIOUS
<1>1. TypeInv /\ OwnerInv /\ LifeInv /\ ReviewInv /\ [Next]_vars => ReviewInv'
  BY ReviewStep
<1>2. ReviewInv => (FaultFree => AwaitingIsDecidable)
  BY DEF ReviewInv, AwaitingIsDecidable, Deciding
<1> QED
  BY <1>1, <1>2, InitReviewInv, TypeInvariant, OwnerInvariant, LifeInvariant, PTL DEF Spec

=============================================================================
