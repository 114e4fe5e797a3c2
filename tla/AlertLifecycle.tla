--------------------------- MODULE AlertLifecycle ---------------------------
(***************************************************************************)
(* The lifecycle of an alert record as an operator reads it off            *)
(* GET /alerts/{id} (AlertStatus, aegis/ingest/store.py): statuses only    *)
(* move along these edges, one alert at a time.                            *)
(***************************************************************************)
CONSTANTS
    Alerts,
    Faulty   \* a call of the worker may fail, or lose its answer

VARIABLE status

\* Each alert is triaged once, or suppressed, and an escalated one is decided.
Ordinary == {<<"absent", "queued">>, <<"queued", "running">>, <<"queued", "duplicate">>,
             <<"running", "auto_closed">>, <<"running", "awaiting_approval">>,
             <<"awaiting_approval", "resolved">>}

\* A retry goes back to the queue.  The catch-all of the worker fails what it
\* has in hand, which a write that was not answered may have settled; a
\* decision that was under way is recorded over it.
AfterFault == {<<"running", "queued">>, <<"failed", "resolved">>}
              \cup {"queued", "running", "duplicate", "auto_closed",
                    "awaiting_approval", "resolved"} \X {"failed"}

Edges == IF Faulty THEN Ordinary \cup AfterFault ELSE Ordinary

Init == status = [a \in Alerts |-> "absent"]

Move(a) == \E e \in Edges :
              /\ status[a] = e[1]
              /\ status' = [status EXCEPT ![a] = e[2]]

Next == \E a \in Alerts : Move(a)

Spec == Init /\ [][Next]_status
=============================================================================
