--------------------------- MODULE HumanInTheLoop ---------------------------
(***************************************************************************)
(* What the triage graph promises an operator about one alert, with no     *)
(* node, model or checkpoint in sight (aegis/graph.py, module docstring    *)
(* and the docstrings of route_after_synthesis and route_after_decision):  *)
(* triage either closes the alert or asks a human; after asking, only the  *)
(* human's answer moves on; containment needs an approval, and one         *)
(* approval contains once.  Once, that is, unless something fails: effects *)
(* come before their record, so a failure while an approved plan is        *)
(* carried out leaves it approved, and it is carried out again.            *)
(***************************************************************************)
EXTENDS Naturals

CONSTANT Targets

VARIABLES
    phase,       \* "triage", "waiting" on a human, "approved", "ended"
    contained,   \* targets acted on so far
    failures     \* runs that ended before their record

vars == <<phase, contained, failures>>

Init == phase = "triage" /\ contained = {} /\ failures = 0

Move(from, to) == phase = from /\ phase' = to /\ UNCHANGED <<contained, failures>>

\* Triage ends without a human, or asks one.
Close == Move("triage", "ended")
Ask == Move("triage", "waiting")

\* The human answers.
Approve == Move("waiting", "approved")
Dismiss == Move("waiting", "ended")

\* Acting only adds targets, and only while a plan is approved.
Act ==
    /\ phase = "approved"
    /\ contained' \in SUBSET Targets /\ contained \subseteq contained'

\* An approved plan is carried out, perhaps in part, and that is recorded.
Contain == Act /\ phase' = "ended" /\ UNCHANGED failures

\* A failure leaves the alert where it is; what was done stays done.
Fail == /\ Act \/ UNCHANGED contained
        /\ UNCHANGED phase /\ failures' = failures + 1

\* The same alert is triaged again.
Restart == phase' = "triage" /\ UNCHANGED <<contained, failures>>

Next == Close \/ Ask \/ Approve \/ Dismiss \/ Contain \/ Fail \/ Restart

Spec == Init /\ [][Next]_vars
=============================================================================
