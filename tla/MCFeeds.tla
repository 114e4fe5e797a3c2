------------------------------ MODULE MCFeeds ------------------------------
(* Small instances of Feeds for TLC. *)
EXTENDS Feeds, TLC

CONSTANTS p1, p2, hp,        \* two processes that poll, one that hunts
          e1, e2, h1, h2,    \* events, which are their own ids, and hunt ids
          r1, r2,            \* readers: of the hunt, and another thread
          s1, s2, s3, s4,    \* servers: of stdio, but s3 of another transport
          v1, v2, v3,        \* versions of the inventory; v3 does not load
          look, purge, peek, \* names of tools; purge writes
          odd                \* writes, and has a schema that does not convert

MCAlertId == [e \in Events |-> e]
MCQueueSize == [p \in Processes |-> IF p = hp THEN 2 ELSE 1]
\* Two alerts of one situation and one of another.
MCFingerprintOf == (e1 :> e1) @@ (e2 :> e1) @@ (h1 :> h1)
MCMtimeOf == (v1 :> 2) @@ (v2 :> 1) @@ (v3 :> 2)
MCOffers == (s1 :> <<purge, look>>) @@ (s2 :> <<peek>>) @@ (s3 :> <<>>) @@ (s4 :> <<odd>>)

Scene == [pollers |-> {}, old |-> {}, stops |-> 0, hunting |-> FALSE, config |-> NoServers, readers |-> {},
          index |-> "none"]

\* Polling alone, a hunt alone in its process, and two threads that look
\* assets up: what these share is the registry alone.
MCPolling == [Scene EXCEPT !.pollers = {p1}, !.stops = 1]
MCHunting == [Scene EXCEPT !.hunting = TRUE]
MCHunts ==
    {[MCHunting EXCEPT !.config = c] :
        c \in {Unreadable} \cup {[NoServers EXCEPT !.servers = s] : s \in {<<s3, s1, s2>>, <<s2, s4>>}}}
    \cup {[MCHunting EXCEPT !.readers = {r1}]}
MCReading == [Scene EXCEPT !.readers = {r1, r2}]
MCPollingTwice == [Scene EXCEPT !.pollers = {p1, p2}, !.old = {e2}]
MCStorms == {[Scene EXCEPT !.index = b] : b \in {"memory", "postgres"}}
MCScenes == MCStorms \cup {MCPolling, MCPollingTwice, MCReading} \cup MCHunts
\* A hunt beside a process that polls and has a worker, with no event to come.
MCHuntBesideWorker == {[MCHunting EXCEPT !.pollers = {p1}, !.old = {e1, e2}]}
=============================================================================
