----------------------------- MODULE AlertStore -----------------------------
(***************************************************************************)
(* What the processes that file alerts share and what each keeps to        *)
(* itself: the registry in Postgres, and ALERT_QUEUE in the memory of the  *)
(* process (aegis/ingest/store.py, store_pg.py).  The feeds that fill them *)
(* are Poller and Hunter; what becomes of an alert once a worker has taken *)
(* it is the subject of Pipeline.                                          *)
(***************************************************************************)
EXTENDS Integers, Sequences

CONSTANTS
    Processes,   \* operating system processes
    AlertIds,
    QueueSize    \* ALERT_QUEUE.maxsize in each process

ASSUME AlertStoreAssumption == QueueSize \in [Processes -> Nat \ {0}]

VARIABLES
    registry,   \* ids with a record
    queue,      \* each process's ALERT_QUEUE
    triaged,    \* ids a worker has taken
    puts        \* history: times an id was put on any queue

storeVars == <<registry, queue, triaged, puts>>

\* The alerts of known were filed and forgotten by every process before.
StoreInit(known) ==
    /\ registry = known /\ triaged = {}
    /\ queue = [p \in Processes |-> <<>>]
    /\ puts = [i \in AlertIds |-> 0]

StoreTypeOK ==
    /\ registry \subseteq AlertIds /\ triaged \subseteq AlertIds
    /\ queue \in [Processes -> Seq(AlertIds)]
    /\ \A p \in Processes : Len(queue[p]) <= QueueSize[p]
    /\ puts \in [AlertIds -> Nat]

\* Mutant: the put never blocks.
QueuePutUnbounded(p, i) ==
    /\ queue' = [queue EXCEPT ![p] = Append(@, i)]
    /\ puts' = [puts EXCEPT ![i] = @ + 1]
    /\ UNCHANGED <<registry, triaged>>

\* ALERT_QUEUE.put in process p: blocks while the queue is full.
QueuePut(p, i) ==
    /\ Len(queue[p]) < QueueSize[p]
    /\ queue' = [queue EXCEPT ![p] = Append(@, i)]
    /\ puts' = [puts EXCEPT ![i] = @ + 1]
    /\ UNCHANGED <<registry, triaged>>

\* Mutant: the record is left for the worker to make.
ClaimedLater(i) == UNCHANGED storeVars

\* create_if_absent(i) has created a record: one INSERT ON CONFLICT, so of two
\* processes only one is told so.
Claimed(i) == registry' = registry \cup {i} /\ UNCHANGED <<queue, triaged, puts>>

\* worker_loop of process p takes the next alert.
Work(p) ==
    /\ queue[p] # <<>>
    /\ triaged' = triaged \cup {Head(queue[p])}
    /\ queue' = [queue EXCEPT ![p] = Tail(@)]
    /\ UNCHANGED <<registry, puts>>

\* What waits for a worker, or has been with one, has a record: update and get
\* find it (a feed claims first and puts after, in every interleaving).
QueuedIsRegistered ==
    /\ triaged \subseteq registry
    /\ \A p \in Processes : \A n \in DOMAIN queue[p] : queue[p][n] \in registry
=============================================================================
