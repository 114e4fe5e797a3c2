-------------------------- MODULE PipelineStorm_proofs --------------------------
(***************************************************************************)
(* What deduplication tells about an alert storm: theorems about Pipeline  *)
(* for any number of alerts, producers and analysts on any surface, and    *)
(* any dedupe window.  The first two say what holds while no call fails    *)
(* and the process is not restarted, the last one what faults and restarts *)
(* leave of it.                                                            *)
(***************************************************************************)
EXTENDS PipelineStatus_proofs, FiniteSetTheorems

-----------------------------------------------------------------------------
(* Alerts that have left the queue for good.                               *)

RetryPcs == {"transient", "permanent", "requeue", "unhandled"}
\* The original of a fingerprint, while it is being triaged.
ClaimPcs == {"start", "invoke", "run", "post", "save_ts", "await", "close"}
CountedPcs == {"occurrences", "original", "refresh"}

Away(a) == registry[a].status # "absent" /\ ~Queued(a) /\ ~BeingPut(a)
Triaged(a) == registry[a].status \in {"auto_closed", "awaiting_approval", "resolved"}
Done(a) == Triaged(a) /\ Away(a) /\ worker.alert # a

\* What is known of duplicates is kept by every other step.
DupKept ==
    /\ \A b \in Alerts : /\ registry'[b].duplicate_of = registry[b].duplicate_of
                         /\ registry'[b].occurrences = registry[b].occurrences
                         /\ registry'[b].status = "duplicate" => registry[b].status = "duplicate"

\* The steps that are left without faults, restarts and retries, by what they
\* do to the worker.
Aside == \/ \E p \in Producers : Put(p) \/ \E a \in Alerts : Receive(p, a)
         \/ \E d \in Deciders : Decide(d) \/ \E a \in Alerts : Submit(d, a)
         \/ Tick \/ UNCHANGED vars
OnOriginal == Start \/ (RunStep /\ ~Check) \/ Await \/ Close
OnDuplicate == ReadOriginal \/ \E ok \in BOOLEAN : RefreshTicket(ok)

LEMMA FaultFreeSteps ==
    ASSUME TypeInv, [Next]_vars, FaultFree', worker.pc \notin RetryPcs
    PROVE  Aside \/ Take \/ Check \/ OnOriginal \/ MarkDuplicate \/ CountOccurrence \/ OnDuplicate
<1>1. count \in Counts /\ FaultFree
  BY FaultFreeBefore DEF TypeInv, TypeOK
<1>2. ~Crash /\ ~CallFails
  BY <1>1, CallFailsLeads DEF Crash, FaultFree, Counts
<1>3. ~Requeue /\ ~HandleTriageError /\ ~RecordUnhandled
  BY DEF Requeue, HandleTriageError, RecordUnhandled, RetryPcs
<1> QED
  BY <1>2, <1>3, StepKinds DEF Aside, OnOriginal, OnDuplicate

LEMMA AsideKeeps ==
    ASSUME TypeInv, OwnerInv, Aside
    PROVE  /\ UNCHANGED <<worker, index>> /\ DupKept
           /\ \A b \in Alerts : Away(b) => (Away(b))'
           /\ \A b \in Alerts : Triaged(b) => (Triaged(b))'
<1>1. CASE \E p \in Producers : Put(p)
  <2>1. PICK p \in Producers : Put(p)
    BY <1>1
  <2> QED
    BY <2>1, PutMoves DEF DupKept, Away, Triaged
<1>2. CASE \E p \in Producers, a \in Alerts : Receive(p, a)
  <2>1. PICK p \in Producers, a \in Alerts : Receive(p, a)
    BY <1>2
  <2>2. /\ Sets(a, "queued") /\ registry[a].status = "absent"
        /\ UNCHANGED <<worker, index>>
        /\ \A b \in Alerts \ {a} : (Queued(b))' = Queued(b) /\ ((BeingPut(b))' <=> BeingPut(b))
    BY <2>1, ReceiveSets, ReceiveMoves DEF Receive
  <2> QED
    BY <2>2 DEF Sets, DupKept, Away, Triaged
<1>3. CASE \E d \in Deciders : Decide(d) \/ \E a \in Alerts : Submit(d, a)
  <2>1. PICK d \in Deciders : Decide(d) \/ \E a \in Alerts : Submit(d, a)
    BY <1>3
  <2>2. /\ UNCHANGED <<queue, putting, worker, index>>
        /\ UNCHANGED registry \/ RecordDecision(d)
    BY <2>1, DecideKeeps
  <2>3. \A b \in Alerts : (Queued(b))' = Queued(b) /\ (BeingPut(b))' = BeingPut(b)
    BY <2>2 DEF Queued, BeingPut
  <2>4. UNCHANGED registry
        \/ (decider[d].alert \in Alerts /\ Sets(decider[d].alert, "resolved"))
    BY <2>2, DecisionSets DEF RecordDecision, TypeInv, Hands
  <2> QED
    BY <2>2, <2>3, <2>4 DEF Sets, DupKept, Away, Triaged
<1>4. CASE Tick \/ UNCHANGED vars
  <2>1. UNCHANGED <<registry, queue, putting, worker, index>>
    BY <1>4 DEF Tick, vars
  <2> QED
    BY <2>1 DEF DupKept, Away, Triaged, Queued, BeingPut
<1> QED
  BY <1>1, <1>2, <1>3, <1>4 DEF Aside

LEMMA TakeKeeps ==
    ASSUME TypeInv, OwnerInv, Take
    PROVE  /\ UNCHANGED <<registry, index>> /\ DupKept
           /\ worker.pc = "idle" /\ worker'.pc = "check" /\ worker'.alert \in Alerts
           /\ \A b \in Alerts : Away(b) => (Away(b))' /\ worker'.alert # b
BY TakeMoves DEF Take, DupKept, Away

\* The worker's other steps move no alert.
LEMMA WorkKeeps ==
    ASSUME TypeInv, OwnerInv, Check \/ OnOriginal \/ MarkDuplicate \/ CountOccurrence \/ OnDuplicate
    PROVE  /\ worker.alert \in Alerts /\ Away(worker.alert) /\ worker \in Workers
           /\ worker' = Idle \/ worker'.alert = worker.alert
           /\ \A b \in Alerts : Away(b) => (Away(b))'
<1>1. /\ worker.pc # "idle" /\ UNCHANGED <<queue, putting>> /\ worker \in Workers
      /\ worker' = Idle \/ worker'.alert = worker.alert
  <2>1. worker \in Workers
    BY DEF TypeInv, TypeOK
  <2>2. CASE Check \/ OnOriginal
    <3>1. CASE Check \/ RunStep
      BY <2>1, <3>1, RunStepLeads DEF RunStep, Leads
    <3>2. CASE Start \/ Await \/ Close
      BY <2>1, <3>2, ReturnsLeads DEF Start, Await, Close, Go, Workers
    <3> QED
      BY <2>2, <3>1, <3>2 DEF OnOriginal
  <2>3. CASE MarkDuplicate \/ CountOccurrence \/ OnDuplicate
    BY <2>1, <2>3, RaisesLeads DEF MarkDuplicate, CountOccurrence, OnDuplicate, ReadOriginal,
                                   RefreshTicket, Go, Workers
  <2> QED
    BY <2>2, <2>3
<1>2. worker.alert \in Alerts /\ Away(worker.alert)
  BY <1>1, HandPresent DEF Away
<1>3. Present
  BY QuietWorkPresent DEF QuietWork, OnOriginal, RunStep, OnDuplicate, Duplicate, PostTicket, Present
<1>4. \A b \in Alerts : (Queued(b))' = Queued(b) /\ (BeingPut(b))' = BeingPut(b)
  BY <1>1 DEF Queued, BeingPut
<1> QED
  BY <1>1, <1>2, <1>3, <1>4 DEF Away, Present

\* Triage of an original: it ends with the alert triaged.
LEMMA OnOriginalKeeps ==
    ASSUME TypeInv, OwnerInv, OnOriginal, FaultFree'
    PROVE  /\ UNCHANGED index /\ DupKept /\ worker.pc \in ClaimPcs
           /\ \/ worker'.alert = worker.alert /\ worker'.pc \in ClaimPcs
              \/ worker' = Idle /\ (registry'[worker.alert].status
                                        \in {"auto_closed", "awaiting_approval"})
           /\ \A b \in Alerts \ {worker.alert} : registry'[b] = registry[b]
<1>1. worker \in Workers /\ count \in Counts
  BY DEF TypeInv, TypeOK
<1>2. CASE RunStep /\ ~Check
  <2>1. UNCHANGED registry /\ worker'.alert = worker.alert
    BY <1>2, RunStepLeads
  <2>2. UNCHANGED index
    BY <1>2 DEF RunStep, InvokeGraph, Interrupted, AutoClosed, GraphReturns, SaveTs, GraphRaises,
                PostTicket
  <2>3. ~\E kind \in {"transient", "permanent"} : GraphRaises(kind)
    BY <1>1 DEF GraphRaises, FaultFree, Counts
  <2>4. CASE \E ok \in BOOLEAN : PostTicket(ok)
    BY <1>1, <2>1, <2>2, <2>4 DEF PostTicket, Go, Workers, ClaimPcs, DupKept
  <2>5. CASE InvokeGraph \/ SaveTs
    BY <1>1, <2>1, <2>2, <2>5 DEF InvokeGraph, SaveTs, Go, Workers, ClaimPcs, DupKept
  <2>6. CASE Interrupted \/ AutoClosed
    BY <1>1, <2>1, <2>2, <2>6 DEF Interrupted, AutoClosed, GraphReturns, Workers, ClaimPcs, DupKept
  <2> QED
    BY <1>2, <2>3, <2>4, <2>5, <2>6 DEF RunStep
<1>3. CASE Start
  <2>1. /\ Sets(worker.alert, "running") /\ UNCHANGED index /\ worker.pc = "start"
        /\ worker'.alert = worker.alert /\ worker'.pc = "invoke"
    BY <1>1, <1>3, StartSets DEF Start, Go, Workers
  <2> QED
    BY <2>1 DEF Sets, DupKept, ClaimPcs
<1>4. CASE Await \/ Close
  <2>1. /\ Sets(worker.alert, "awaiting_approval") \/ Sets(worker.alert, "auto_closed")
        /\ UNCHANGED index /\ worker.pc \in {"await", "close"} /\ Returns
    BY <1>4, AwaitSets, CloseSets DEF Await, Close
  <2>2. worker' = Idle
    BY <1>1, <2>1, ReturnsLeads DEF FaultFree, Counts
  <2> QED
    BY <2>1, <2>2 DEF Sets, DupKept, ClaimPcs
<1> QED
  BY <1>2, <1>3, <1>4 DEF OnOriginal

LEMMA OnDuplicateKeeps ==
    ASSUME TypeInv, OnDuplicate
    PROVE  /\ UNCHANGED index /\ DupKept /\ StatusKept /\ worker.pc \in {"original", "refresh"}
           /\ \/ worker' = Idle
              \/ /\ worker'.alert = worker.alert /\ worker'.dup = worker.dup
                 /\ worker'.pc = "refresh"
              \/ worker'.pc = "unhandled" /\ count'.faults # 0 /\ ~FaultFree'
<1>1. worker \in Workers /\ count.faults \in Nat
  BY DEF TypeInv, TypeOK, Counts
<1>2. CASE ReadOriginal
  BY <1>1, <1>2 DEF ReadOriginal, Workers, DupKept, StatusKept
<1>3. CASE \E ok \in BOOLEAN : RefreshTicket(ok)
  <2>1. /\ UNCHANGED index /\ worker.pc = "refresh" /\ (worker' = Idle \/ Raises)
    BY <1>3 DEF RefreshTicket
  <2>2. worker' = Idle \/ (worker'.pc = "unhandled" /\ count'.faults # 0 /\ ~FaultFree')
    BY <1>1, <2>1, RaisesLeads DEF FaultFree
  <2> QED
    BY <1>3, <2>1, <2>2, RefreshKeeps DEF DupKept, StatusKept
<1> QED
  BY <1>2, <1>3 DEF OnDuplicate

\* What has been triaged stays triaged.
LEMMA DoneStable ==
    ASSUME TypeInv, OwnerInv, [Next]_vars, FaultFree', worker.pc \notin RetryPcs
    PROVE  \A o \in Alerts : Done(o) => (Done(o))'
<1>1. CASE Aside
  BY <1>1, AsideKeeps DEF Done
<1>2. CASE Take
  <2>1. \A b \in Alerts : Triaged(b) => (Triaged(b))'
    BY <1>2, TakeKeeps DEF Triaged
  <2> QED
    BY <1>2, <2>1, TakeKeeps DEF Done
<1>3. CASE Check \/ OnOriginal \/ MarkDuplicate \/ CountOccurrence \/ OnDuplicate
  <2>1. /\ \A b \in Alerts : Away(b) => (Away(b))'
        /\ \A b \in Alerts : worker'.alert = b => worker.alert = b
    BY <1>3, WorkKeeps, IdleHasNone
  <2>2. \A b \in Alerts \ {worker.alert} : registry'[b].status = registry[b].status
    BY <1>3, OnOriginalKeeps, OnDuplicateKeeps, CountKeeps, MarkDuplicateSets
    DEF Check, StatusKept
  <2> QED
    BY <2>1, <2>2 DEF Done, Triaged
<1> QED
  BY <1>1, <1>2, <1>3, FaultFreeSteps

-----------------------------------------------------------------------------
(* Which alert an alert is the duplicate of.                               *)

\* The index holds alerts that were triaged, or the one that is being triaged.
OriginalInv ==
    \A f \in Fingerprints : index[f].alert # NoAlert =>
        /\ fingerprint[index[f].alert] = f
        /\ Done(index[f].alert) \/ (worker.alert = index[f].alert /\ worker.pc \in ClaimPcs)

\* The entry a duplicate was answered with.
HitInv ==
    worker.pc \in DupPcs => /\ Done(worker.dup.alert)
                            /\ fingerprint[worker.dup.alert] = fingerprint[worker.alert]

\* What the record of a duplicate says.
ToldInv ==
    \A a \in Alerts : registry[a].duplicate_of # NoAlert =>
        /\ Done(registry[a].duplicate_of) /\ registry[a].duplicate_of # a
        /\ fingerprint[registry[a].duplicate_of] = fingerprint[a]
        /\ Away(a) /\ (worker.alert = a => worker.pc \in CountedPcs)

MarkedInv ==
    \A a \in Alerts : registry[a].status = "duplicate" => registry[a].duplicate_of # NoAlert

StormInv ==
    FaultFree => worker.pc \notin RetryPcs /\ OriginalInv /\ HitInv /\ ToldInv /\ MarkedInv

LEMMA IndexType ==
    ASSUME TypeInv
    PROVE  /\ \A f \in Fingerprints : /\ index[f].alert \in Alerts \cup {NoAlert}
                                      /\ index[f].occurrences \in Nat
           /\ \A a \in Alerts : /\ registry[a].duplicate_of \in Alerts \cup {NoAlert}
                                /\ registry[a].occurrences \in Nat
           /\ \A a \in Alerts : fingerprint[a] \in Fingerprints
           /\ NoAlert \notin Alerts
BY PipelineAssumption DEF TypeInv, TypeOK, DedupeEntry, AlertRecord

\* The answers of DEDUPE_INDEX.check.
LEMMA CheckAnswers ==
    ASSUME TypeInv, Check
    PROVE  LET a == worker.alert
               f == fingerprint[a] IN
           /\ a \in Alerts /\ f \in Fingerprints /\ worker.pc = "check" /\ UNCHANGED registry
           /\ worker'.alert = a
           /\ \A g \in Fingerprints \ {f} : index'[g] = index[g]
           /\ \/ worker'.pc = "start" /\ index'[f] = index[f]
              \/ /\ worker'.pc = "start"
                 /\ index'[f].alert = a /\ index'[f].occurrences = 1
              \/ /\ worker'.pc = "duplicate" /\ worker'.dup = index'[f]
                 /\ index[f].alert # NoAlert /\ index'[f].alert = index[f].alert
                 /\ index'[f].occurrences = index[f].occurrences + 1
<1> DEFINE a == worker.alert
           f == fingerprint[a]
           hit == [index[f] EXCEPT !.occurrences = @ + 1]
           claim == [alert |-> a, first_seen |-> now, occurrences |-> 1]
<1>1. a \in Alerts /\ worker \in Workers /\ worker.pc = "check" /\ UNCHANGED registry
  BY DEF Check, TypeInv, TypeOK, Hands
<1>2. /\ f \in Fingerprints /\ index[f] \in DedupeEntry
      /\ index \in [Fingerprints -> DedupeEntry]
  BY <1>1, IndexType DEF TypeInv, TypeOK
<1>3. hit.alert = index[f].alert /\ hit.occurrences = index[f].occurrences + 1
  BY <1>2 DEF DedupeEntry
<1>4. claim.alert = a /\ claim.occurrences = 1
  OBVIOUS
<1>5. \/ Go("start") /\ UNCHANGED index
      \/ Go("start") /\ index' = [index EXCEPT ![f] = claim]
      \/ /\ index[f].alert # NoAlert
         /\ index' = [index EXCEPT ![f] = hit]
         /\ worker' = [worker EXCEPT !.pc = "duplicate", !.dup = hit]
  BY DEF Check, Live
<1> HIDE DEF hit, claim
<1>6. CASE Go("start") /\ UNCHANGED index
  BY <1>1, <1>2, <1>6 DEF Go, Workers
<1>7. CASE Go("start") /\ index' = [index EXCEPT ![f] = claim]
  BY <1>1, <1>2, <1>4, <1>7 DEF Go, Workers
<1>8. CASE /\ index[f].alert # NoAlert
           /\ index' = [index EXCEPT ![f] = hit]
           /\ worker' = [worker EXCEPT !.pc = "duplicate", !.dup = hit]
  <2>1. /\ worker'.pc = "duplicate" /\ worker'.dup = hit /\ worker'.alert = a
        /\ index'[f] = hit
    BY <1>1, <1>2, <1>8 DEF Workers
  <2> QED
    BY <1>1, <1>2, <1>3, <1>8, <2>1
<1> QED
  BY <1>5, <1>6, <1>7, <1>8

LEMMA InitStormInv == Init => StormInv
<1> SUFFICES ASSUME Init PROVE StormInv
  OBVIOUS
<1>1. /\ worker.pc = "idle"
      /\ \A f \in Fingerprints : index[f].alert = NoAlert
      /\ \A a \in Alerts : registry[a].duplicate_of = NoAlert /\ registry[a].status = "absent"
  BY DEF Init, Idle, NoEntry, Absent
<1> QED
  BY <1>1 DEF StormInv, OriginalInv, HitInv, ToldInv, MarkedInv, RetryPcs, DupPcs

\* The next four lemmas show each part over the steps that are left.
LEMMA NoRetries ==
    ASSUME TypeInv, OwnerInv, FaultFree', worker.pc \notin RetryPcs,
           Aside \/ Take \/ Check \/ OnOriginal \/ MarkDuplicate \/ CountOccurrence \/ OnDuplicate
    PROVE  worker'.pc \notin RetryPcs
<1>0. worker \in Workers
  BY DEF TypeInv, TypeOK
<1>1. CASE Aside \/ Take
  BY <1>1, AsideKeeps, TakeKeeps DEF RetryPcs
<1>2. CASE Check \/ OnOriginal \/ OnDuplicate
  BY <1>2, CheckAnswers, OnOriginalKeeps, OnDuplicateKeeps, IdleHasNone DEF RetryPcs, ClaimPcs
<1>3. CASE MarkDuplicate \/ CountOccurrence
  BY <1>0, <1>3 DEF MarkDuplicate, CountOccurrence, Go, Workers, RetryPcs
<1> QED
  BY <1>1, <1>2, <1>3

LEMMA OriginalStep ==
    ASSUME TypeInv, OwnerInv, OriginalInv, FaultFree',
           \A o \in Alerts : Done(o) => (Done(o))',
           Aside \/ Take \/ Check \/ OnOriginal \/ MarkDuplicate \/ CountOccurrence \/ OnDuplicate
    PROVE  OriginalInv'
<1> SUFFICES ASSUME NEW f \in Fingerprints, index'[f].alert # NoAlert
             PROVE  /\ fingerprint[index'[f].alert] = f
                    /\ \/ (Done(index[f].alert))'
                       \/ worker'.alert = index'[f].alert /\ worker'.pc \in ClaimPcs
  BY DEF OriginalInv
<1>1. ASSUME NEW o \in Alerts, o = index[f].alert, o = index'[f].alert,
             worker.alert = o /\ worker.pc \in ClaimPcs
                 => (Done(o))' \/ (worker'.alert = o /\ worker'.pc \in ClaimPcs)
      PROVE  /\ fingerprint[index'[f].alert] = f
             /\ \/ (Done(index[f].alert))'
                \/ worker'.alert = index'[f].alert /\ worker'.pc \in ClaimPcs
  <2>1. fingerprint[o] = f /\ (Done(o) \/ (worker.alert = o /\ worker.pc \in ClaimPcs))
    BY <1>1, IndexType DEF OriginalInv
  <2>2. (Done(o))' \/ (worker'.alert = o /\ worker'.pc \in ClaimPcs)
    BY <1>1, <2>1
  <2>3. (Done(o))' => (Done(index[f].alert))'
    BY <1>1 DEF Done, Triaged, Away, Queued, BeingPut
  <2> QED
    BY <1>1, <2>1, <2>2, <2>3
<1>2. CASE UNCHANGED index /\ (worker.pc \in ClaimPcs => UNCHANGED worker)
  <2>1. index[f].alert \in Alerts /\ index'[f].alert = index[f].alert
    BY <1>2, IndexType
  <2> QED
    BY <1>1, <1>2, <2>1
<1>3. CASE Aside \/ Take \/ MarkDuplicate \/ CountOccurrence \/ OnDuplicate
  <2>1. UNCHANGED index /\ (worker.pc \in ClaimPcs => UNCHANGED worker)
    BY <1>3, AsideKeeps, TakeKeeps, OnDuplicateKeeps
    DEF MarkDuplicate, CountOccurrence, ClaimPcs
  <2> QED
    BY <1>2, <2>1
<1>4. CASE OnOriginal
  <2> DEFINE o == index[f].alert
  <2>1. UNCHANGED index /\ o \in Alerts
    BY <1>4, OnOriginalKeeps, IndexType
  <2>2. /\ worker.alert \in Alerts /\ \A b \in Alerts : Away(b) => (Away(b))'
        /\ Away(worker.alert)
    BY <1>4, WorkKeeps
  <2>3. ASSUME worker.alert = o PROVE (Done(o))' \/ (worker'.alert = o /\ worker'.pc \in ClaimPcs)
    <3>1. PICK a \in Alerts : a = o
      BY <2>1
    <3>2. (Away(a))'
      BY <2>2, <2>3, <3>1
    <3>3. CASE worker' = Idle /\ registry'[a].status \in {"auto_closed", "awaiting_approval"}
      <4>1. (Done(a))'
        BY <3>2, <3>3, IdleHasNone DEF Done, Triaged
      <4> QED
        BY <2>1, <3>1, <4>1
    <3> QED
      BY <1>4, <2>3, <3>1, <3>3, OnOriginalKeeps
  <2> QED
    BY <1>1, <2>1, <2>3
<1>5. CASE Check
  <2> DEFINE a == worker.alert
  <2>1. CASE f # fingerprint[a] \/ index'[f].alert = index[f].alert
    <3>1. index'[f].alert = index[f].alert /\ index[f].alert \in Alerts
      BY <1>5, <2>1, CheckAnswers, IndexType
    <3>2. worker.pc \notin ClaimPcs
      BY <1>5, CheckAnswers DEF ClaimPcs
    <3> QED
      BY <1>1, <3>1, <3>2
  <2>2. CASE f = fingerprint[a] /\ index'[f].alert # index[f].alert
    <3>1. index'[f].alert = a /\ worker'.alert = a /\ worker'.pc = "start"
      BY <1>5, <2>2, CheckAnswers
    <3> QED
      BY <2>2, <3>1 DEF ClaimPcs
  <2> QED
    BY <2>1, <2>2
<1> QED
  BY <1>3, <1>4, <1>5

LEMMA HitStep ==
    ASSUME TypeInv, OwnerInv, OriginalInv, HitInv, FaultFree',
           \A o \in Alerts : Done(o) => (Done(o))',
           Aside \/ Take \/ Check \/ OnOriginal \/ MarkDuplicate \/ CountOccurrence \/ OnDuplicate
    PROVE  HitInv'
<1>0. worker \in Workers
  BY DEF TypeInv, TypeOK
<1>1. ASSUME NEW o \in Alerts, Done(o), worker'.dup.alert = o,
             fingerprint[o] = fingerprint[worker'.alert]
      PROVE  HitInv'
  <2>1. (Done(o))'
    BY <1>1
  <2>2. (Done(worker.dup.alert))'
    BY <1>1, <2>1 DEF Done, Triaged, Away, Queued, BeingPut
  <2> QED
    BY <1>1, <2>2 DEF HitInv
<1>2. CASE worker.pc \in DupPcs /\ worker'.dup = worker.dup /\ worker'.alert = worker.alert
  <2>1. worker.dup.alert \in Alerts
    BY <1>2 DEF TypeInv, Hands
  <2> QED
    BY <1>1, <1>2, <2>1 DEF HitInv
<1>3. CASE worker'.pc \notin DupPcs
  BY <1>3 DEF HitInv
<1>4. CASE Aside \/ Take \/ OnOriginal \/ OnDuplicate
  <2>1. \/ worker'.pc \notin DupPcs
        \/ worker.pc \in DupPcs /\ worker'.dup = worker.dup /\ worker'.alert = worker.alert
    BY <1>4, AsideKeeps, TakeKeeps, OnOriginalKeeps, OnDuplicateKeeps, IdleHasNone
    DEF DupPcs, ClaimPcs
  <2> QED
    BY <1>2, <1>3, <2>1
<1>5. CASE MarkDuplicate \/ CountOccurrence
  <2>1. worker.pc \in DupPcs /\ worker'.dup = worker.dup /\ worker'.alert = worker.alert
    BY <1>0, <1>5 DEF MarkDuplicate, CountOccurrence, Go, Workers, DupPcs
  <2> QED
    BY <1>2, <2>1
<1>6. CASE Check
  <2> DEFINE f == fingerprint[worker.alert]
  <2>1. CASE worker'.pc = "start"
    BY <1>3, <2>1 DEF DupPcs
  <2>2. CASE worker'.pc # "start"
    <3>1. /\ f \in Fingerprints /\ index[f].alert # NoAlert /\ worker'.alert = worker.alert
          /\ worker'.dup.alert = index[f].alert /\ worker.pc = "check"
      BY <1>6, <2>2, CheckAnswers
    <3>2. index[f].alert \in Alerts /\ fingerprint[index[f].alert] = f /\ Done(index[f].alert)
      BY <3>1, IndexType DEF OriginalInv, ClaimPcs
    <3> QED
      BY <1>1, <3>1, <3>2
  <2> QED
    BY <2>1, <2>2
<1> QED
  BY <1>4, <1>5, <1>6

LEMMA ToldStep ==
    ASSUME TypeInv, OwnerInv, HitInv, ToldInv, FaultFree',
           \A o \in Alerts : Done(o) => (Done(o))',
           Aside \/ Take \/ Check \/ OnOriginal \/ MarkDuplicate \/ CountOccurrence \/ OnDuplicate
    PROVE  ToldInv'
<1>0. worker \in Workers
  BY DEF TypeInv, TypeOK
<1> SUFFICES ASSUME NEW a \in Alerts, registry'[a].duplicate_of # NoAlert
             PROVE  /\ (Done(registry[a].duplicate_of))' /\ registry'[a].duplicate_of # a
                    /\ fingerprint[registry'[a].duplicate_of] = fingerprint[a]
                    /\ (Away(a))' /\ (worker'.alert = a => worker'.pc \in CountedPcs)
  BY DEF ToldInv
<1>1. ASSUME NEW o \in Alerts, Done(o), registry'[a].duplicate_of = o, o # a,
             fingerprint[o] = fingerprint[a], (Away(a))',
             worker'.alert = a => worker'.pc \in CountedPcs
      PROVE  /\ (Done(registry[a].duplicate_of))' /\ registry'[a].duplicate_of # a
             /\ fingerprint[registry'[a].duplicate_of] = fingerprint[a]
             /\ (Away(a))' /\ (worker'.alert = a => worker'.pc \in CountedPcs)
  <2>1. (Done(o))'
    BY <1>1
  <2>2. (Done(registry[a].duplicate_of))'
    BY <1>1, <2>1 DEF Done, Triaged, Away, Queued, BeingPut
  <2> QED
    BY <1>1, <2>2
<1>2. CASE MarkDuplicate /\ worker.alert = a
  <2> DEFINE o == worker.dup.alert
  <2>1. /\ worker.pc = "duplicate" /\ worker'.pc = "occurrences" /\ o \in Alerts
        /\ registry'[a].duplicate_of = o
    BY <1>0, <1>2, MarkDuplicateSets DEF MarkDuplicate, Go, Workers, TypeInv, Hands, DupPcs
  <2>2. Done(o) /\ fingerprint[o] = fingerprint[a] /\ o # a
    BY <1>2, <2>1 DEF HitInv, DupPcs, Done
  <2>3. (Away(a))'
    BY <1>2, WorkKeeps
  <2> QED
    BY <1>1, <2>1, <2>2, <2>3 DEF CountedPcs
<1>3. CASE ~(MarkDuplicate /\ worker.alert = a)
  <2> DEFINE o == registry[a].duplicate_of
  <2>1. registry'[a].duplicate_of = o
    <3>1. CASE Aside \/ Take \/ OnOriginal \/ OnDuplicate
      BY <3>1, AsideKeeps, TakeKeeps, OnOriginalKeeps, OnDuplicateKeeps DEF DupKept
    <3>2. CASE Check \/ MarkDuplicate \/ CountOccurrence
      BY <1>3, <3>2, CheckAnswers, MarkDuplicateSets, CountKeeps
    <3> QED
      BY <3>1, <3>2
  <2>2. /\ o \in Alerts /\ Done(o) /\ o # a /\ fingerprint[o] = fingerprint[a] /\ Away(a)
        /\ worker.alert = a => worker.pc \in CountedPcs
    BY <2>1, IndexType DEF ToldInv
  <2>3. (Away(a))'
    BY <2>2, AsideKeeps, TakeKeeps, WorkKeeps
  <2>4. worker'.alert = a => worker'.pc \in CountedPcs
    <3>1. CASE Aside \/ Take
      BY <2>2, <3>1, AsideKeeps, TakeKeeps
    <3>2. CASE Check \/ OnOriginal \/ OnDuplicate
      BY <2>2, <3>2, CheckAnswers, OnOriginalKeeps, OnDuplicateKeeps, IdleHasNone
      DEF CountedPcs, ClaimPcs
    <3>3. CASE MarkDuplicate \/ CountOccurrence
      BY <1>0, <1>3, <3>3 DEF MarkDuplicate, CountOccurrence, Go, Workers, CountedPcs
    <3> QED
      BY <3>1, <3>2, <3>3
  <2> QED
    BY <1>1, <2>1, <2>2, <2>3, <2>4
<1> QED
  BY <1>2, <1>3

LEMMA MarkedStep ==
    ASSUME TypeInv, OwnerInv, MarkedInv, FaultFree',
           Aside \/ Take \/ Check \/ OnOriginal \/ MarkDuplicate \/ CountOccurrence \/ OnDuplicate
    PROVE  MarkedInv'
<1>1. CASE Aside \/ Take \/ OnOriginal \/ OnDuplicate
  BY <1>1, AsideKeeps, TakeKeeps, OnOriginalKeeps, OnDuplicateKeeps DEF DupKept, MarkedInv
<1>2. CASE Check \/ CountOccurrence
  BY <1>2, CheckAnswers, CountKeeps DEF StatusKept, MarkedInv
<1>3. CASE MarkDuplicate
  <2>1. worker.dup.alert \in Alerts /\ NoAlert \notin Alerts
    BY <1>3, IndexType DEF MarkDuplicate, TypeInv, Hands, DupPcs
  <2> QED
    BY <1>3, <2>1, MarkDuplicateSets DEF MarkedInv
<1> QED
  BY <1>1, <1>2, <1>3

LEMMA StormStep == TypeInv /\ OwnerInv /\ StormInv /\ [Next]_vars => StormInv'
<1> SUFFICES ASSUME TypeInv, OwnerInv, StormInv, [Next]_vars, FaultFree' PROVE StormInv'
  BY DEF StormInv
<1>1. FaultFree /\ worker.pc \notin RetryPcs /\ OriginalInv /\ HitInv /\ ToldInv /\ MarkedInv
  BY FaultFreeBefore DEF StormInv
<1>2. /\ Aside \/ Take \/ Check \/ OnOriginal \/ MarkDuplicate \/ CountOccurrence \/ OnDuplicate
      /\ \A o \in Alerts : Done(o) => (Done(o))'
  BY <1>1, FaultFreeSteps, DoneStable
<1>3. worker'.pc \notin RetryPcs
  BY <1>1, <1>2, NoRetries
<1>4. OriginalInv' /\ HitInv' /\ ToldInv' /\ MarkedInv'
  BY <1>1, <1>2, OriginalStep, HitStep, ToldStep, MarkedStep
<1> QED
  BY <1>3, <1>4 DEF StormInv

LEMMA StormInvariant == Spec => []StormInv
BY InitStormInv, StormStep, TypeInvariant, OwnerInvariant, PTL DEF Spec

\* While nothing fails, an alert is suppressed only under another alert of the
\* same fingerprint, which was triaged and not suppressed itself (worker_loop:
\* the one thread that claims a fingerprint also finishes its triage before it
\* looks at the next alert): for any alerts, window and surfaces.
THEOREM DuplicatesAreOfTriaged == Spec => [](FaultFree => DuplicateOfTriaged)
<1>1. TypeInv /\ StormInv => (FaultFree => DuplicateOfTriaged)
  BY IndexType DEF StormInv, ToldInv, MarkedInv, DuplicateOfTriaged, Done, Triaged
<1> QED
  BY <1>1, TypeInvariant, StormInvariant, PTL

-----------------------------------------------------------------------------
(* How many alerts an original stands for.                                 *)

Dups(o) == {a \in Alerts : registry[a].duplicate_of = o}

\* What the index has counted and the record of the original not yet ...
HitUnderWay(f) == IF worker.pc \in {"duplicate", "occurrences"} /\ fingerprint[worker.alert] = f
                  THEN 1 ELSE 0
\* ... and the duplicate that is marked and not yet counted.
MarkUnderWay(o) == IF worker.pc = "occurrences" /\ worker.dup.alert = o THEN 1 ELSE 0

EntryInv ==
    worker.pc \in {"duplicate", "occurrences"} =>
        LET f == fingerprint[worker.alert] IN
        /\ worker.dup.alert = index[f].alert
        /\ worker.dup.occurrences = index[f].occurrences

\* The index and the record of the original agree,
IndexedInv ==
    \A f \in Fingerprints : index[f].alert # NoAlert =>
        index[f].occurrences = registry[index[f].alert].occurrences + HitUnderWay(f)

\* and the record agrees with those that were suppressed.
RecordedInv ==
    \A o \in Alerts : registry[o].occurrences + MarkUnderWay(o) = 1 + Cardinality(Dups(o))

CountInv == FaultFree => EntryInv /\ IndexedInv /\ RecordedInv

LEMMA InitCountInv == Init => CountInv
<1> SUFFICES ASSUME Init PROVE CountInv
  OBVIOUS
<1>1. /\ worker.pc = "idle"
      /\ \A f \in Fingerprints : index[f].alert = NoAlert
      /\ \A a \in Alerts : registry[a].duplicate_of = NoAlert /\ registry[a].occurrences = 1
  BY DEF Init, Idle, NoEntry, Absent
<1>2. \A o \in Alerts : Dups(o) = {}
  BY <1>1, PipelineAssumption DEF Dups
<1>3. RecordedInv
  BY <1>1, <1>2, FS_EmptySet DEF RecordedInv, MarkUnderWay
<1> QED
  BY <1>1, <1>3 DEF CountInv, EntryInv, IndexedInv

\* A step that counts nothing.
LEMMA NothingCounted ==
    ASSUME TypeInv, EntryInv, IndexedInv, RecordedInv, DupKept, UNCHANGED index,
           \/ UNCHANGED worker
           \/ {worker.pc, worker'.pc} \cap {"duplicate", "occurrences"} = {}
    PROVE  EntryInv' /\ IndexedInv' /\ RecordedInv'
<1>1. \A o \in Alerts : (Dups(o))' = Dups(o) /\ (MarkUnderWay(o))' = MarkUnderWay(o)
  BY DEF DupKept, Dups, MarkUnderWay
<1>2. \A f \in Fingerprints : (HitUnderWay(f))' = HitUnderWay(f)
  BY DEF HitUnderWay
<1>3. EntryInv'
  BY DEF EntryInv
<1>4. RecordedInv'
  BY <1>1 DEF RecordedInv, DupKept
<1>5. IndexedInv'
  BY <1>2, IndexType DEF IndexedInv, DupKept
<1> QED
  BY <1>3, <1>4, <1>5

LEMMA CheckCounts ==
    ASSUME TypeInv, OwnerInv, OriginalInv, ToldInv, EntryInv, IndexedInv, RecordedInv, Check
    PROVE  EntryInv' /\ IndexedInv' /\ RecordedInv'
<1> DEFINE a == worker.alert
           f == fingerprint[a]
<1>1. /\ a \in Alerts /\ f \in Fingerprints /\ worker.pc = "check" /\ UNCHANGED registry
      /\ worker'.alert = a
      /\ \A g \in Fingerprints \ {f} : index'[g] = index[g]
      /\ worker'.pc \in {"start", "duplicate"}
  BY CheckAnswers
<1>2. RecordedInv'
  BY <1>1 DEF RecordedInv, Dups, MarkUnderWay
<1>3. registry[a].occurrences = 1
  <2>1. Dups(a) = {}
    BY <1>1, IndexType DEF Dups, ToldInv, Done
  <2>2. registry[a].occurrences + 0 = 1 + 0
    BY <1>1, <2>1, FS_EmptySet DEF RecordedInv, MarkUnderWay
  <2> QED
    BY <1>1, <2>2, IndexType
<1>4. \A g \in Fingerprints : /\ HitUnderWay(g) = 0
                              /\ g # f => (HitUnderWay(g))' = 0
                              /\ worker'.pc = "start" => (HitUnderWay(g))' = 0
                              /\ g = f /\ worker'.pc = "duplicate" => (HitUnderWay(g))' = 1
  BY <1>1 DEF HitUnderWay
<1>5. ASSUME NEW g \in Fingerprints, index'[g].alert # NoAlert
      PROVE  index'[g].occurrences = registry[index'[g].alert].occurrences + (HitUnderWay(g))'
  <2>1. CASE index'[g].alert = index[g].alert /\ index'[g].occurrences = index[g].occurrences
             /\ (HitUnderWay(g))' = 0
    BY <1>4, <1>5, <2>1 DEF IndexedInv
  <2>2. CASE g = f /\ worker'.pc = "start" /\ index'[f].alert = a /\ index'[f].occurrences = 1
    BY <1>3, <1>4, <2>2
  <2>3. CASE g = f /\ worker'.pc = "duplicate"
    <3>1. /\ index[f].alert # NoAlert /\ index'[f].alert = index[f].alert
          /\ index'[f].occurrences = index[f].occurrences + 1
      BY <2>3, CheckAnswers
    <3>2. /\ index[f].occurrences = registry[index[f].alert].occurrences + 0
          /\ registry[index[f].alert].occurrences \in Nat
      BY <1>1, <1>4, <3>1, IndexType DEF IndexedInv
    <3> QED
      BY <1>4, <2>3, <3>1, <3>2
  <2> QED
    BY <1>1, <1>4, <2>1, <2>2, <2>3, CheckAnswers
<1>6. IndexedInv'
  BY <1>1, <1>5 DEF IndexedInv
<1>7. EntryInv'
  BY <1>1, CheckAnswers DEF EntryInv
<1> QED
  BY <1>2, <1>6, <1>7

LEMMA MarkCounts ==
    ASSUME TypeInv, OwnerInv, ToldInv, EntryInv, IndexedInv, RecordedInv, MarkDuplicate,
           IsFiniteSet(Alerts)
    PROVE  EntryInv' /\ IndexedInv' /\ RecordedInv'
<1> DEFINE a == worker.alert
           o == worker.dup.alert
<1>1. /\ a \in Alerts /\ o \in Alerts /\ worker.pc = "duplicate" /\ worker'.pc = "occurrences"
      /\ worker'.alert = a /\ worker'.dup = worker.dup /\ UNCHANGED index
  BY DEF MarkDuplicate, Go, TypeInv, TypeOK, Hands, Workers, DupPcs
<1>2. /\ registry'[a].duplicate_of = o
      /\ \A b \in Alerts : registry'[b].occurrences = registry[b].occurrences
      /\ \A b \in Alerts \ {a} : registry'[b] = registry[b]
  BY MarkDuplicateSets
<1>3. registry[a].duplicate_of = NoAlert
  BY <1>1 DEF ToldInv, CountedPcs
<1>4. EntryInv'
  BY <1>1 DEF EntryInv
<1>5. IndexedInv'
  <2>1. \A f \in Fingerprints : (HitUnderWay(f))' = HitUnderWay(f)
    BY <1>1 DEF HitUnderWay
  <2> QED
    BY <1>1, <1>2, <2>1, IndexType DEF IndexedInv
<1>6. ASSUME NEW b \in Alerts
      PROVE  registry'[b].occurrences + (MarkUnderWay(b))' = 1 + (Cardinality(Dups(b)))'
  <2>1. /\ registry[b].occurrences + 0 = 1 + Cardinality(Dups(b))
        /\ registry[b].occurrences \in Nat /\ registry'[b].occurrences = registry[b].occurrences
    BY <1>1, <1>2, IndexType DEF RecordedInv, MarkUnderWay
  <2>2. CASE b = o
    <3>1. (Dups(b))' = Dups(b) \cup {a} /\ a \notin Dups(b)
      BY <1>1, <1>2, <1>3, <2>2, IndexType DEF Dups
    <3>2. IsFiniteSet(Dups(b))
      BY FS_Subset DEF Dups
    <3>3. (Cardinality(Dups(b)))' = Cardinality(Dups(b)) + 1
      BY <3>1, <3>2, FS_AddElement
    <3>4. (MarkUnderWay(b))' = 1 /\ Cardinality(Dups(b)) \in Nat
      BY <1>1, <2>2, <3>2, FS_CardinalityType DEF MarkUnderWay
    <3> QED
      BY <2>1, <3>3, <3>4
  <2>3. CASE b # o
    <3>1. (Dups(b))' = Dups(b)
      BY <1>1, <1>2, <1>3, <2>3, IndexType DEF Dups
    <3>2. (MarkUnderWay(b))' = 0
      BY <1>1, <2>3 DEF MarkUnderWay
    <3> QED
      BY <2>1, <3>1, <3>2
  <2> QED
    BY <2>2, <2>3
<1>7. RecordedInv'
  BY <1>6 DEF RecordedInv
<1> QED
  BY <1>4, <1>5, <1>7

LEMMA OccurrenceCounts ==
    ASSUME TypeInv, OwnerInv, OriginalInv, HitInv, EntryInv, IndexedInv, RecordedInv,
           CountOccurrence
    PROVE  EntryInv' /\ IndexedInv' /\ RecordedInv'
<1> DEFINE f == fingerprint[worker.alert]
           o == worker.dup.alert
<1>1. /\ worker.alert \in Alerts /\ o \in Alerts /\ worker.pc = "occurrences"
      /\ worker'.pc = "original" /\ UNCHANGED index /\ f \in Fingerprints
  BY IndexType DEF CountOccurrence, Go, TypeInv, TypeOK, Hands, Workers, DupPcs
<1>2. /\ index[f].alert = o /\ worker.dup.occurrences = index[f].occurrences
      /\ registry[o].status # "absent" /\ fingerprint[o] = f
  BY <1>1 DEF EntryInv, HitInv, DupPcs, Done, Away
<1>3. /\ \A b \in Alerts : registry'[b].duplicate_of = registry[b].duplicate_of
      /\ \A b \in Alerts \ {o} : registry'[b].occurrences = registry[b].occurrences
      /\ registry'[o].occurrences = index[f].occurrences
  BY <1>2, CountKeeps
<1>4. /\ index[f].occurrences = registry[o].occurrences + 1
      /\ registry[o].occurrences \in Nat
  BY <1>1, <1>2, IndexType DEF IndexedInv, HitUnderWay
<1>5. EntryInv'
  BY <1>1 DEF EntryInv
<1>6. ASSUME NEW b \in Alerts
      PROVE  registry'[b].occurrences + (MarkUnderWay(b))' = 1 + (Cardinality(Dups(b)))'
  <2>1. (Dups(b))' = Dups(b) /\ (MarkUnderWay(b))' = 0 /\ registry[b].occurrences \in Nat
    BY <1>1, <1>3, IndexType DEF Dups, MarkUnderWay
  <2>2. registry[b].occurrences + MarkUnderWay(b) = 1 + Cardinality(Dups(b))
    BY DEF RecordedInv
  <2>3. MarkUnderWay(b) = IF b = o THEN 1 ELSE 0
    BY <1>1 DEF MarkUnderWay
  <2>4. registry'[b].occurrences + 0 = registry[b].occurrences + MarkUnderWay(b)
    BY <1>3, <1>4, <2>1, <2>3
  <2> QED
    BY <2>1, <2>2, <2>4
<1>7. ASSUME NEW g \in Fingerprints, index[g].alert # NoAlert
      PROVE  index[g].occurrences = registry'[index[g].alert].occurrences + (HitUnderWay(g))'
  <2>1. (HitUnderWay(g))' = 0
    BY <1>1 DEF HitUnderWay
  <2>2. CASE g = f
    BY <1>2, <1>3, <1>4, <2>1, <2>2
  <2>3. CASE g # f
    <3>1. /\ index[g].alert \in Alerts /\ fingerprint[index[g].alert] = g
          /\ index[g].occurrences = registry[index[g].alert].occurrences + 0
      BY <1>7, <2>3, IndexType DEF OriginalInv, IndexedInv, HitUnderWay
    <3> QED
      BY <1>2, <1>3, <2>1, <2>3, <3>1
  <2> QED
    BY <2>2, <2>3
<1>8. RecordedInv' /\ IndexedInv'
  BY <1>1, <1>6, <1>7 DEF RecordedInv, IndexedInv
<1> QED
  BY <1>5, <1>8

LEMMA CountStep ==
    ASSUME IsFiniteSet(Alerts), TypeInv, OwnerInv, StormInv, CountInv, [Next]_vars
    PROVE  CountInv'
<1> SUFFICES ASSUME FaultFree' PROVE EntryInv' /\ IndexedInv' /\ RecordedInv'
  BY DEF CountInv
<1>1. /\ OriginalInv /\ HitInv /\ ToldInv /\ worker.pc \notin RetryPcs
      /\ EntryInv /\ IndexedInv /\ RecordedInv
  BY FaultFreeBefore DEF StormInv, CountInv
<1>2. CASE Aside \/ Take \/ OnOriginal \/ OnDuplicate
  <2>1. /\ DupKept /\ UNCHANGED index
        /\ \/ UNCHANGED worker
           \/ {worker.pc, worker'.pc} \cap {"duplicate", "occurrences"} = {}
    BY <1>2, AsideKeeps, TakeKeeps, OnOriginalKeeps, OnDuplicateKeeps, IdleHasNone DEF ClaimPcs
  <2> QED
    BY <1>1, <2>1, NothingCounted
<1>3. CASE Check \/ MarkDuplicate \/ CountOccurrence
  BY <1>1, <1>3, CheckCounts, MarkCounts, OccurrenceCounts
<1> QED
  BY <1>1, <1>2, <1>3, FaultFreeSteps

\* While nothing fails, the occurrences that an original shows are itself and
\* the alerts suppressed under it, except between the two registry writes of
\* _record_duplicate: a window that ends starts a new count with a new
\* original, and takes nothing from the old one.
THEOREM OccurrencesAreCounted ==
    IsFiniteSet(Alerts) => (Spec => [](FaultFree => OccurrencesMatch))
<1> SUFFICES ASSUME IsFiniteSet(Alerts) PROVE Spec => [](FaultFree => OccurrencesMatch)
  OBVIOUS
<1>1. TypeInv /\ OwnerInv /\ StormInv /\ CountInv /\ [Next]_vars => CountInv'
  BY CountStep
<1>2. TypeInv /\ CountInv => (FaultFree => OccurrencesMatch)
  <2> SUFFICES ASSUME TypeInv, RecordedInv, worker.pc # "occurrences", NEW o \in Alerts
               PROVE  registry[o].occurrences = 1 + Cardinality(Dups(o))
    BY DEF CountInv, OccurrencesMatch, Dups
  <2>1. registry[o].occurrences + 0 = 1 + Cardinality(Dups(o)) /\ registry[o].occurrences \in Nat
    BY IndexType DEF RecordedInv, MarkUnderWay
  <2> QED
    BY <2>1
<1> QED
  BY <1>1, <1>2, InitCountInv, TypeInvariant, OwnerInvariant, StormInvariant, PTL DEF Spec

-----------------------------------------------------------------------------
(* No alert is its own duplicate, unless it is triaged again.              *)

\* A transient error is final, or there was no error.
NoRetry == MaxAttempts = 1 \/ count.faults = 0

\* An alert that can meet the index no more.
Passed(a) == Away(a) /\ (worker.alert = a => worker.pc # "check")

ErrorPcs == {"transient", "permanent", "unhandled"}

SelfInv ==
    NoRetry =>
        /\ worker.pc # "requeue"
        /\ count.faults = 0 => worker.pc \notin ErrorPcs
        /\ \A f \in Fingerprints : index[f].alert # NoAlert => Passed(index[f].alert)
        /\ worker.pc = "duplicate" => worker.dup.alert # worker.alert
        /\ NoSelfDuplicate

\* The worker on an original, whatever fails on the way.
LEMMA OriginalMoves ==
    ASSUME TypeInv, OwnerInv, [Next]_vars, OnOriginal
    PROVE  /\ UNCHANGED index /\ DupKept
           /\ worker'.pc \notin {"check", "duplicate", "requeue"}
           /\ worker'.pc \in ErrorPcs => count'.faults # 0
<1>1. worker \in Workers /\ count \in Counts
  BY DEF TypeInv, TypeOK
<1>2. CASE RunStep /\ ~Check
  <2>1. UNCHANGED registry /\ Leads(worker.pc, worker'.pc)
    BY <1>2, RunStepLeads
  <2>2. UNCHANGED index /\ worker.pc # "check"
    BY <1>2 DEF RunStep, InvokeGraph, Interrupted, AutoClosed, GraphReturns, SaveTs, GraphRaises,
                PostTicket
  <2>3. worker'.pc \in ErrorPcs => \E kind \in {"transient", "permanent"} : GraphRaises(kind)
    BY <1>1, <1>2 DEF RunStep, InvokeGraph, Interrupted, AutoClosed, GraphReturns, SaveTs,
                      PostTicket, Go, Workers, ErrorPcs
  <2>4. worker'.pc \in ErrorPcs => count'.faults # 0
    BY <1>1, <2>3 DEF GraphRaises, Counts
  <2> QED
    BY <2>1, <2>2, <2>4 DEF DupKept, Leads
<1>3. CASE Start
  <2>1. Sets(worker.alert, "running") /\ UNCHANGED index /\ worker'.pc = "invoke"
    BY <1>1, <1>3, StartSets DEF Start, Go, Workers
  <2> QED
    BY <2>1 DEF Sets, DupKept, ErrorPcs
<1>4. CASE Await \/ Close
  <2>1. /\ Sets(worker.alert, "awaiting_approval") \/ Sets(worker.alert, "auto_closed")
        /\ UNCHANGED index /\ Returns
    BY <1>4, AwaitSets, CloseSets DEF Await, Close
  <2>2. worker'.pc = "idle" \/ (worker'.pc = "unhandled" /\ count'.faults # 0)
    BY <1>1, <2>1, ReturnsLeads, IdleHasNone DEF Counts
  <2> QED
    BY <2>1, <2>2 DEF Sets, DupKept, ErrorPcs
<1> QED
  BY <1>2, <1>3, <1>4 DEF OnOriginal

\* The worker on an alert that failed.
LEMMA ErrorMoves ==
    ASSUME TypeInv, OwnerInv, [Next]_vars, CallFails \/ HandleTriageError \/ RecordUnhandled
    PROVE  /\ UNCHANGED <<index, queue, putting>> /\ DupKept
           /\ worker.pc # "idle" /\ (worker' = Idle \/ worker'.alert = worker.alert)
           /\ worker'.pc \in {"idle", "requeue", "unhandled"}
           /\ worker'.pc = "unhandled" => count'.faults # 0
           /\ worker'.pc = "requeue" => worker.pc = "transient" /\ MaxAttempts # 1
<1>1. worker \in Workers /\ count.faults \in Nat
  BY CountGrows DEF TypeInv, TypeOK
<1>2. CASE CallFails
  BY <1>1, <1>2, CallFailsLeads DEF CallFails, DupKept
<1>3. CASE RecordUnhandled
  <2>1. UNCHANGED registry \/ Sets(worker.alert, "failed")
    BY <1>3, UnhandledSets
  <2> QED
    BY <1>3, <2>1, IdleHasNone DEF RecordUnhandled, Sets, DupKept
<1>4. CASE HandleTriageError
  <2>1. worker.alert \in Alerts /\ registry[worker.alert].attempts \in Nat
    BY <1>4, HandPresent DEF HandleTriageError, AlertRecord
  <2>2. UNCHANGED <<index, queue, putting>> /\ worker.pc # "idle"
    BY <1>4 DEF HandleTriageError
  <2>3. Sets(worker.alert, "queued") \/ Sets(worker.alert, "failed")
    BY <1>4, HandleErrorSets
  <2>4. DupKept
    BY <2>3 DEF Sets, DupKept
  <2>5. \/ Returns
        \/ /\ worker' = [worker EXCEPT !.pc = "requeue"] /\ worker.pc = "transient"
           /\ registry[worker.alert].attempts + 1 < MaxAttempts
    BY <1>4 DEF HandleTriageError, Go
  <2>6. CASE Returns
    <3>1. \/ worker' = Idle
          \/ /\ worker'.alert = worker.alert /\ worker'.pc = "unhandled"
             /\ count'.faults = count.faults + 1
      BY <2>6, ReturnsLeads
    <3>2. count'.faults = count.faults + 1 => count'.faults # 0
      BY <1>1
    <3> QED
      BY <2>2, <2>4, <3>1, <3>2, IdleHasNone
  <2>7. CASE /\ worker' = [worker EXCEPT !.pc = "requeue"] /\ worker.pc = "transient"
             /\ registry[worker.alert].attempts + 1 < MaxAttempts
    <3>1. worker'.pc = "requeue" /\ worker'.alert = worker.alert
      BY <1>1, <2>7 DEF Workers
    <3>2. MaxAttempts # 1
      BY <2>1, <2>7
    <3> QED
      BY <2>2, <2>4, <2>7, <3>1, <3>2
  <2> QED
    BY <2>5, <2>6, <2>7
<1> QED
  BY <1>2, <1>3, <1>4

LEMMA InitSelfInv == Init => SelfInv
<1> SUFFICES ASSUME Init PROVE SelfInv
  OBVIOUS
<1>1. /\ worker.pc = "idle"
      /\ \A f \in Fingerprints : index[f].alert = NoAlert
      /\ \A a \in Alerts : registry[a].status = "absent"
  BY DEF Init, Idle, NoEntry, Absent
<1> QED
  BY <1>1 DEF SelfInv, NoSelfDuplicate, ErrorPcs

\* Only a requeue brings back what has left the queue.
LEMMA PassedStable ==
    ASSUME TypeInv, OwnerInv, [Next]_vars, worker.pc # "requeue", NEW a \in Alerts, Passed(a)
    PROVE  (Passed(a))'
<1>1. CASE Aside
  BY <1>1, AsideKeeps DEF Passed
<1>2. CASE Take
  BY <1>2, TakeKeeps DEF Passed
<1>3. CASE Check \/ OnOriginal \/ MarkDuplicate \/ CountOccurrence \/ OnDuplicate
  <2>1. worker \in Workers
    BY DEF TypeInv, TypeOK
  <2>2. worker'.pc # "check"
    BY <1>3, <2>1, CheckAnswers, OriginalMoves, OnDuplicateKeeps, IdleHasNone
    DEF MarkDuplicate, CountOccurrence, Go, Workers
  <2> QED
    BY <1>3, <2>2, WorkKeeps DEF Passed
<1>4. CASE CallFails \/ HandleTriageError \/ RecordUnhandled
  <2>1. /\ UNCHANGED <<queue, putting>>
        /\ worker'.pc # "check"
    BY <1>4, ErrorMoves
  <2>2. Present
    BY <1>4, QuietWorkPresent DEF QuietWork
  <2> QED
    BY <2>1, <2>2 DEF Passed, Away, Present, Queued, BeingPut
<1>5. CASE Crash
  BY <1>5, CrashMoves, IdleHasNone DEF Passed, Away
<1> QED
  BY <1>1, <1>2, <1>3, <1>4, <1>5, StepKinds DEF Aside, OnOriginal, OnDuplicate, Requeue

LEMMA SelfStep == TypeInv /\ OwnerInv /\ SelfInv /\ [Next]_vars => SelfInv'
<1> SUFFICES ASSUME TypeInv, OwnerInv, SelfInv, [Next]_vars, NoRetry' PROVE SelfInv'
  BY DEF SelfInv
<1>1. /\ NoRetry /\ worker \in Workers
      /\ count'.faults = 0 => count.faults = 0
  BY CountGrows DEF NoRetry, TypeInv, TypeOK
<1>2. /\ worker.pc # "requeue" /\ NoSelfDuplicate
      /\ count.faults = 0 => worker.pc \notin ErrorPcs
      /\ \A f \in Fingerprints : index[f].alert # NoAlert => Passed(index[f].alert)
      /\ worker.pc = "duplicate" => worker.dup.alert # worker.alert
  BY <1>1 DEF SelfInv
<1>3. \A f \in Fingerprints : index[f].alert # NoAlert => (Passed(index[f].alert))' \/ index' # index
  <2> SUFFICES ASSUME NEW f \in Fingerprints, index[f].alert # NoAlert, index' = index
               PROVE  (Passed(index[f].alert))'
    OBVIOUS
  <2>1. PICK a \in Alerts : a = index[f].alert
    BY IndexType
  <2>2. (Passed(a))'
    BY <1>2, <2>1, PassedStable
  <2> QED
    BY <2>1, <2>2 DEF Passed, Away
<1>4. ASSUME UNCHANGED index, DupKept, worker'.pc \notin {"requeue", "duplicate"},
             count'.faults = 0 => worker'.pc \notin ErrorPcs
      PROVE  SelfInv'
  <2>1. NoSelfDuplicate'
    BY <1>2, <1>4 DEF NoSelfDuplicate, DupKept
  <2> QED
    BY <1>3, <1>4, <2>1 DEF SelfInv
<1>5. CASE Aside
  <2>1. UNCHANGED <<worker, index>> /\ NoSelfDuplicate'
    BY <1>2, <1>5, AsideKeeps DEF NoSelfDuplicate, DupKept
  <2> QED
    BY <1>1, <1>2, <1>3, <2>1 DEF SelfInv
<1>6. CASE Take \/ OnOriginal \/ OnDuplicate
  BY <1>4, <1>6, TakeKeeps, OriginalMoves, OnDuplicateKeeps, IdleHasNone DEF ErrorPcs
<1>7. CASE CountOccurrence
  <2>1. UNCHANGED index /\ worker'.pc = "original"
    BY <1>1, <1>7 DEF CountOccurrence, Go, Workers
  <2>2. NoSelfDuplicate'
    BY <1>2, <1>7, CountKeeps DEF StatusKept, NoSelfDuplicate
  <2> QED
    BY <1>3, <2>1, <2>2 DEF SelfInv, ErrorPcs
<1>8. CASE MarkDuplicate
  <2>1. /\ UNCHANGED index /\ worker'.pc = "occurrences"
        /\ worker.pc = "duplicate"
    BY <1>1, <1>8 DEF MarkDuplicate, Go, Workers
  <2>2. NoSelfDuplicate'
    BY <1>2, <1>8, <2>1, MarkDuplicateSets DEF NoSelfDuplicate
  <2> QED
    BY <1>3, <2>1, <2>2 DEF SelfInv, ErrorPcs
<1>9. CASE CallFails \/ HandleTriageError \/ RecordUnhandled
  <2>1. worker'.pc # "requeue"
    BY <1>1, <1>2, <1>9, ErrorMoves DEF NoRetry, ErrorPcs
  <2> QED
    BY <1>4, <1>9, <2>1, ErrorMoves DEF ErrorPcs
<1>10. CASE Crash
  BY <1>4, <1>10, CrashMoves, IdleHasNone DEF DupKept, ErrorPcs
<1>11. CASE Check
  <2> DEFINE a == worker.alert
             f == fingerprint[a]
  <2>1. /\ a \in Alerts /\ f \in Fingerprints /\ worker.pc = "check" /\ UNCHANGED registry
        /\ worker'.alert = a /\ worker'.pc \in {"start", "duplicate"}
        /\ \A g \in Fingerprints \ {f} : index'[g] = index[g]
        /\ index'[f].alert = index[f].alert \/ (index'[f].alert = a /\ worker'.pc = "start")
        /\ worker'.pc = "duplicate" => /\ index[f].alert # NoAlert
                                       /\ worker'.dup.alert = index[f].alert
    BY <1>11, CheckAnswers
  <2>2. worker'.pc = "duplicate" => worker'.dup.alert # worker'.alert
    BY <1>2, <2>1 DEF Passed
  <2>3. ASSUME NEW g \in Fingerprints, index'[g].alert # NoAlert
        PROVE  (Passed(index[g].alert))'
    <3>1. CASE index'[g].alert = index[g].alert
      <4>1. PICK b \in Alerts : b = index[g].alert
        BY <2>3, <3>1, IndexType
      <4>2. (Passed(b))'
        BY <1>2, <2>3, <3>1, <4>1, PassedStable
      <4> QED
        BY <3>1, <4>1, <4>2 DEF Passed, Away
    <3>2. CASE index'[g].alert = a /\ worker'.pc = "start"
      <4>1. PICK b \in Alerts : b = a
        BY <2>1
      <4>2. (Away(b))'
        BY <1>11, <4>1, WorkKeeps
      <4> QED
        BY <2>1, <3>2, <4>1, <4>2 DEF Passed, Away
    <3>3. CASE g # f
      BY <2>1, <3>1, <3>3
    <3>4. CASE g = f
      BY <2>1, <3>1, <3>2, <3>4
    <3> QED
      BY <3>3, <3>4
  <2>4. NoSelfDuplicate'
    BY <1>2, <2>1 DEF NoSelfDuplicate
  <2> QED
    BY <2>1, <2>2, <2>3, <2>4 DEF SelfInv, ErrorPcs
<1> QED
  BY <1>2, <1>5, <1>6, <1>7, <1>8, <1>9, <1>10, <1>11, StepKinds
  DEF Aside, OnOriginal, OnDuplicate, Requeue

\* An alert becomes the duplicate of itself only by a retry: not before the
\* first fault, and never where a transient error is final, across restarts and
\* failures of the database (triage_once: the claim is taken before the run).
\* With one fault and one retry it does (run PipelineSelfDuplicate).
THEOREM SelfDuplicateNeedsRetry == Spec => [](NoRetry => NoSelfDuplicate)
<1>1. SelfInv => (NoRetry => NoSelfDuplicate)
  BY DEF SelfInv
<1> QED
  BY <1>1, InitSelfInv, SelfStep, TypeInvariant, OwnerInvariant, PTL DEF Spec

=============================================================================
