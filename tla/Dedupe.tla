------------------------------- MODULE Dedupe -------------------------------
(***************************************************************************)
(* The two dedupe indexes (aegis/dedup.py, ingest/store_pg.py), asked by   *)
(* several worker processes: a dictionary in each process, which drops     *)
(* what has expired whenever it is asked, or one table in Postgres, which  *)
(* keeps every row and overwrites an expired one.  Both are to implement   *)
(* DedupePromise.  Pipeline has the Postgres index with one worker and     *)
(* says what becomes of the answers.                                       *)
(*                                                                         *)
(* Each check is atomic: one thread per process asks the dictionary, which *)
(* has a lock besides; the table is asked with one statement.              *)
(***************************************************************************)
EXTENDS Integers

CONSTANTS
    Workers,         \* processes
    Alerts,
    fingerprintOf,   \* function: rule and entities of each alert
    Window,          \* settings.dedupe_window_seconds
    MaxOccurrences,  \* bound: alerts of one kind in a window
    NoRow            \* no entry

ASSUME DedupeAssumption ==
    /\ Window \in Nat /\ MaxOccurrences \in Nat \ {0} /\ DOMAIN fingerprintOf = Alerts
    /\ NoRow \notin [alert: Alerts, age: Nat, occurrences: Nat]
    /\ "aegis_dedupe" \notin Workers

VARIABLES
    backend,   \* active_dedupe_index(): "memory", "postgres", or "none"
    entries,   \* per scope and fingerprint; age counts from first_seen
    told       \* history: the last answer

dedupeVars == <<backend, entries, told>>

Table == "aegis_dedupe"
Scopes == Workers \cup {Table}
Prints == {fingerprintOf[a] : a \in Alerts}
NothingTold == [scope |-> NoRow, alert |-> NoRow, original |-> NoRow, occurrences |-> 0]

DedupeInit(b) ==
    /\ backend = b
    /\ entries = [k \in Scopes |-> [f \in Prints |-> NoRow]]
    /\ told = NothingTold

Stale(e) == e # NoRow /\ e.age > Window
NewRow(a) == [alert |-> a, age |-> 0, occurrences |-> 1]

TellsFirst(k, a) ==
    told' = [scope |-> k, alert |-> a, original |-> NoRow, occurrences |-> 1]
TellsOf(k, a, e) ==
    told' = [scope |-> k, alert |-> a, original |-> e.alert, occurrences |-> e.occurrences]

\* InMemoryDedupeIndex._purge
Purged(rows) == [f \in Prints |-> IF Stale(rows[f]) THEN NoRow ELSE rows[f]]

\* InMemoryDedupeIndex.check
CheckInMemory(w, a) ==
    LET rows == Purged(entries[w])
        f == fingerprintOf[a]
        hit == [rows[f] EXCEPT !.occurrences = @ + 1]
    IN  \/ /\ rows[f] # NoRow /\ rows[f].occurrences < MaxOccurrences
           /\ entries' = [entries EXCEPT ![w] = [rows EXCEPT ![f] = hit]]
           /\ TellsOf(w, a, hit)
        \/ /\ rows[f] = NoRow
           /\ entries' = [entries EXCEPT ![w] = [rows EXCEPT ![f] = NewRow(a)]]
           /\ TellsFirst(w, a)

\* Mutant: an expired row keeps the alert that claimed it before.
UpsertedForOld(e, a) ==
    IF e = NoRow THEN NewRow(a)
    ELSE IF Stale(e) THEN [NewRow(a) EXCEPT !.alert = e.alert]
    ELSE [e EXCEPT !.occurrences = @ + 1]

\* INSERT ... ON CONFLICT DO UPDATE: the three CASEs test the same condition.
Upserted(e, a) ==
    IF e = NoRow \/ Stale(e) THEN NewRow(a) ELSE [e EXCEPT !.occurrences = @ + 1]

\* PostgresDedupeIndex.check: only a claim returns a count of one.
CheckInPostgres(a) ==
    LET e == entries[Table][fingerprintOf[a]]
        row == Upserted(e, a)
    IN  /\ row.occurrences <= MaxOccurrences
        /\ entries' = [entries EXCEPT ![Table][fingerprintOf[a]] = row]
        /\ IF row.occurrences = 1 THEN TellsFirst(Table, a) ELSE TellsOf(Table, a, row)

Checks(w, a) ==
    /\ \/ backend = "memory" /\ CheckInMemory(w, a)
       \/ backend = "postgres" /\ CheckInPostgres(a)
    /\ UNCHANGED backend

\* A worker process stops and is started again: its dictionary is gone.
WorkerRestarts(w) ==
    /\ backend # "none"
    /\ entries' = [entries EXCEPT ![w] = [f \in Prints |-> NoRow]]
    /\ told' = NothingTold
    /\ UNCHANGED backend

TimePasses ==
    /\ backend # "none"
    /\ entries' = [k \in Scopes |-> [f \in Prints |->
                     LET e == entries[k][f] IN
                     IF e = NoRow \/ Stale(e) THEN e ELSE [e EXCEPT !.age = @ + 1]]]
    /\ told' = NothingTold
    /\ UNCHANGED backend

DedupeNext ==
    \/ \E w \in Workers, a \in Alerts : Checks(w, a)
    \/ \E w \in Workers : WorkerRestarts(w)
    \/ TimePasses

-----------------------------------------------------------------------------
Rows == [alert: Alerts, age: 0..(Window + 1), occurrences: 1..MaxOccurrences]

DedupeTypeOK ==
    /\ backend \in {"none", "memory", "postgres"}
    /\ entries \in [Scopes -> [Prints -> Rows \cup {NoRow}]]
    /\ told \in [scope: Scopes \cup {NoRow}, alert: Alerts \cup {NoRow},
                 original: Alerts \cup {NoRow}, occurrences: 0..MaxOccurrences]

\* A row that has expired counts for nothing, whether it is still there or not.
Live(e) == IF Stale(e) THEN NoRow ELSE e

\* Either index keeps the promise, to the process that has it or to all at
\* once: whatever is asked in which order, of expired rows that were dropped,
\* kept or overwritten, and across restarts, which the table does not notice
\* ("two workers each triage an alert storm once" only with the index in memory).
Promise == INSTANCE DedupePromise
              WITH claims <- [k \in Scopes |-> [f \in Prints |-> Live(entries[k][f])]],
                   NoClaim <- NoRow, Lasting <- {Table}
KeepsPromise == Promise!Spec
=============================================================================
