--------------------------- MODULE DedupePromise ---------------------------
(***************************************************************************)
(* What the worker relies on when it asks whether a situation has been     *)
(* triaged (aegis/dedup.py, ingest/store_pg.py): within a window that      *)
(* begins with the first alert of its kind, every later one is told of     *)
(* that first alert and of how many there were.  A scope is what shares    *)
(* one index: a process, or all of them with Postgres.                     *)
(***************************************************************************)
EXTENDS Integers

CONSTANTS
    Scopes, Alerts, fingerprintOf, Window, NoClaim,
    Lasting   \* scopes that outlive the processes

VARIABLES
    claims,   \* per scope and fingerprint: [alert, age, occurrences] or NoClaim
    told      \* the last answer: [scope, alert, original or NoClaim, occurrences]

Prints == {fingerprintOf[a] : a \in Alerts}
NothingTold == [scope |-> NoClaim, alert |-> NoClaim, original |-> NoClaim, occurrences |-> 0]

Init ==
    /\ claims = [k \in Scopes |-> [f \in Prints |-> NoClaim]]
    /\ told = NothingTold

\* "returns None when the alert is the first of its kind"
First(k, a) ==
    /\ told' = [scope |-> k, alert |-> a, original |-> NoClaim, occurrences |-> 1]
    /\ claims[k][fingerprintOf[a]] = NoClaim
    /\ claims' = [claims EXCEPT ![k][fingerprintOf[a]] =
                     [alert |-> a, age |-> 0, occurrences |-> 1]]

Repeated(k, a) ==
    LET c == claims[k][fingerprintOf[a]] IN
    /\ told'.scope = k /\ c # NoClaim
    /\ told' = [scope |-> k, alert |-> a, original |-> c.alert,
                occurrences |-> c.occurrences + 1]
    /\ claims' = [claims EXCEPT ![k][fingerprintOf[a]].occurrences = @ + 1]

\* "the same rule firing tomorrow is a new situation"
Expires(c) == c # NoClaim /\ c.age = Window

Pass ==
    /\ claims' = [k \in Scopes |-> [f \in Prints |->
                     LET c == claims[k][f] IN
                     IF c = NoClaim \/ Expires(c) THEN NoClaim
                     ELSE [c EXCEPT !.age = @ + 1]]]
    /\ told' = NothingTold

\* Nothing but a restart of the one process that uses it empties an index.
Forget(k) ==
    /\ k \notin Lasting
    /\ claims' = [claims EXCEPT ![k] = [f \in Prints |-> NoClaim]]
    /\ told' = NothingTold

Next ==
    \/ Pass
    \/ \E k \in Scopes, a \in Alerts : First(k, a) \/ Repeated(k, a)
    \/ \E k \in Scopes : Forget(k)

Spec == Init /\ [][Next]_<<claims, told>>
=============================================================================
