----------------------------- MODULE ToolClients -----------------------------
(***************************************************************************)
(* The live clients of the security tools and what they share: the retry   *)
(* loop of tools/_http.py, a bearer token per provider behind a lock       *)
(* (edr_client, keycloak_client), the reputation cache of vt_client.  A    *)
(* caller is a thread in a lookup of an enrichment node, or in             *)
(* FalconContainment.perform on behalf of an analyst; both kinds use the   *)
(* Falcon token.                                                           *)
(*                                                                         *)
(* Time is in ticks and passes only while every caller is waiting for an   *)
(* answer, a backoff or the lock.  An attempt lasts at most Timeout ticks. *)
(***************************************************************************)
EXTENDS Integers, FiniteSets

CONSTANTS
    Callers, NoCaller,
    Situations,     \* what the callers do and what the providers hold
    MaxRetries,     \* settings.tool_max_retries
    Timeout,        \* settings.tool_timeout_seconds
    BackoffUnit,    \* one second
    Life,           \* expires_in of a token
    Margin,         \* how much earlier it is refreshed
    TTL,            \* settings.ioc_cache_ttl_seconds
    EmptyAnswers,   \* TRUE: a 200 may leave out what the provider holds
    MaxCalls        \* bound: lookups per caller

Roles == {"threat_intel", "public_intel", "identity", "endpoint", "executor"}

Reputations == {"clean", "bad", "unknown"}
Worlds == [indicator: Reputations, isolated: BOOLEAN,
           account: {"absent", "ordinary", "privileged"},
           host: {"absent", "quiet", "alerting"}]

ASSUME ToolClientsAssumption ==
    /\ NoCaller \notin Callers
    /\ Situations \subseteq [role: [Callers -> Roles], world: Worlds]
    /\ MaxRetries \in Nat /\ Timeout \in Nat \ {0} /\ BackoffUnit \in Nat
    /\ Life \in Nat \ {0} /\ Margin \in 0..(Life - 1)
    /\ TTL \in Nat /\ MaxCalls \in Nat
    /\ EmptyAnswers \in BOOLEAN

VARIABLES
    role,     \* what each caller does
    world,    \* what the providers hold on the entities looked up
    token,    \* ticks the cached token of each provider still lives
    lock,     \* holder of each _token_lock
    cache,    \* vt_client._cache: the one entry and its age
    call,     \* the call each caller is in
    result,   \* what its last call returned
    posts,    \* history: containment requests sent by its last call
    sinceBad, \* history: ticks since the indicator turned bad
    calls     \* uses of MaxCalls

vars == <<role, world, token, lock, cache, call, result, posts, sinceBad, calls>>

Clients == {"falcon", "keycloak"}
BearerRoles == {"identity", "endpoint", "executor"}
ClientOf == [r \in BearerRoles |-> IF r = "identity" THEN "keycloak" ELSE "falcon"]

\* The requests of each call, in order: the first, and what follows each.
First == [r \in Roles |-> CASE r = "threat_intel" -> "report"
                            [] r = "public_intel" -> "isc"
                            [] r = "identity" -> "users"
                            [] r = "endpoint" -> "devices"
                            [] r = "executor" -> "find"]
Following ==
    [q \in {"isc", "users", "groups", "credentials", "devices", "detail",
            "alerts", "find"} |->
        CASE q = "isc" -> "shodan"
          [] q = "users" -> "groups" [] q = "groups" -> "credentials"
          [] q = "credentials" -> "events"
          [] q = "devices" -> "detail" [] q = "detail" -> "alerts"
          [] q = "alerts" -> "entities"
          [] q = "find" -> "contain"]
Requests == DOMAIN Following \cup {"token", "report", "shodan", "events",
                                   "entities", "contain"}

Results == Reputations \cup {"none", "absent", "ordinary", "privileged",
                             "alerting", "performed", "error", "raised"}
Idle == [at |-> "idle", req |-> "none", try |-> 0, timer |-> 0, bearer |-> 0]

Init ==
    /\ \E s \in Situations : role = s.role /\ world = s.world
    /\ token = [k \in Clients |-> 0]
    /\ lock = [k \in Clients |-> NoCaller]
    /\ cache = [value |-> "none", age |-> 0]
    /\ call = [c \in Callers |-> Idle]
    /\ result = [c \in Callers |-> "none"]
    /\ posts = [c \in Callers |-> 0]
    /\ sinceBad = IF world.indicator = "bad" THEN TTL + 1 ELSE 0
    /\ calls = [c \in Callers |-> 0]

-----------------------------------------------------------------------------
\* Mutant: the lock is not a context manager.
NotReleased(c) == lock

\* Leaving `with _token_lock`, also by an exception.
Released(c) == [k \in Clients |-> IF lock[k] = c THEN NoCaller ELSE lock[k]]

\* A request is sent for the first time; the token lock is held for "token" only.
Send(c, q, b) ==
    /\ call' = [call EXCEPT ![c] = [at |-> "sending", req |-> q, try |-> 0,
                                    timer |-> Timeout, bearer |-> b]]
    /\ posts' = [posts EXCEPT ![c] = IF q = "contain" THEN @ + 1 ELSE @]
    /\ lock' = Released(c)
    /\ UNCHANGED result

Return(c, r) ==
    /\ call' = [call EXCEPT ![c] = Idle]
    /\ result' = [result EXCEPT ![c] = r]
    /\ lock' = Released(c)
    /\ UNCHANGED posts

\* Mutant: an entry never expires.
CacheFilled == TTL > 0 /\ cache.value # "none"

\* vt_client._cache_get
CacheHit == TTL > 0 /\ cache.value # "none" /\ cache.age <= TTL

Starts(c) ==
    /\ call[c].at = "idle" /\ calls[c] < MaxCalls
    /\ calls' = [calls EXCEPT ![c] = @ + 1]
    /\ UNCHANGED <<role, world, token, cache, sinceBad>>

\* lookup_ip_reputation_live, up to its request.
lookup_ip_reputation_live(c) ==
    /\ role[c] = "threat_intel" /\ Starts(c)
    /\ IF CacheHit THEN Return(c, cache.value) ELSE Send(c, "report", 0)

lookup_ip_reputation_public(c) ==
    /\ role[c] = "public_intel" /\ Starts(c)
    /\ Send(c, "isc", 0)

\* get_host_telemetry_live, lookup_user_live and FalconContainment.perform
\* first ask for the headers.
AskForToken(c) ==
    /\ role[c] \in BearerRoles /\ Starts(c)
    /\ call' = [call EXCEPT ![c] = [Idle EXCEPT !.at = "locking"]]
    /\ posts' = [posts EXCEPT ![c] = 0]
    /\ UNCHANGED <<result, lock>>

\* _auth_headers, _admin_token: a cached token is returned at once, or the
\* lock is held over the request for a new one.
TakeLock(c) ==
    LET k == ClientOf[role[c]] IN
    /\ call[c].at = "locking" /\ lock[k] = NoCaller
    /\ IF token[k] > Margin
       THEN Send(c, First[role[c]], token[k])
       ELSE /\ call' = [call EXCEPT ![c].at = "sending", ![c].req = "token",
                                    ![c].timer = Timeout]
            /\ lock' = [lock EXCEPT ![k] = c]
            /\ UNCHANGED <<result, posts>>
    /\ UNCHANGED <<role, world, token, cache, sinceBad, calls>>

-----------------------------------------------------------------------------
(* The answers to a request, as request_json and its callers take them.    *)

\* What a readable answer to q makes of the call: it goes on, or returns.  A
\* payload that cannot be used is an error in VirusTotal's parser, on the way
\* to the Keycloak profile, and when no alert of Falcon yields a process; it
\* raises where the code reads it outside the try block.  What is null or missing
\* in it is not an error: it reads as nothing found.
LeftOut(r) == IF EmptyAnswers THEN {r} ELSE {}

ReputationReading(q) ==
    CASE q = "report" -> {world.indicator, "error"} \cup LeftOut("clean")
      [] q = "isc" -> {"more"}
      [] q = "shodan" -> {world.indicator, "raised"} \cup LeftOut("clean")

AccountReading(q) ==
    CASE q = "users" -> {IF world.account = "absent" THEN "absent" ELSE "more", "error"}
                           \cup LeftOut("absent")
      [] q \in {"groups", "credentials"} -> {"more"}
      [] q = "events" -> {world.account, "raised"} \cup LeftOut("ordinary")

HostReading(q) ==
    CASE q = "devices" -> {IF world.host = "absent" THEN "absent" ELSE "more"}
                             \cup LeftOut("absent")
      [] q = "detail" -> {"more"}
      [] q = "alerts" -> {IF world.host = "alerting" THEN "more" ELSE "clean"}
                            \cup LeftOut("clean")
      [] q = "entities" -> {"alerting", "error", "raised"} \cup LeftOut("clean")

ContainmentReading(q) ==
    CASE q = "find" -> {IF world.host = "absent" THEN "error" ELSE "more"}
                          \cup LeftOut("error")
      [] q = "contain" -> {"performed"}

Reading(r, q) ==
    CASE r \in {"threat_intel", "public_intel"} -> ReputationReading(q)
      [] r = "identity" -> AccountReading(q)
      [] r = "endpoint" -> HostReading(q)
      [] r = "executor" -> ContainmentReading(q)

\* An expired bearer is answered with a 401.
Accepted(c) == role[c] \in BearerRoles /\ call[c].req # "token" => call[c].bearer > 0

Answered(c) ==
    LET q == call[c].req IN
    /\ call[c].at = "sending" /\ q # "token" /\ Accepted(c)
    /\ \E r \in Reading(role[c], q) :
          /\ IF r = "more" THEN Send(c, Following[q], call[c].bearer) ELSE Return(c, r)
          /\ cache' = IF q = "report" /\ r # "error"
                      THEN [value |-> r, age |-> 0] ELSE cache
    /\ world' = IF q = "contain" THEN [world EXCEPT !.isolated = TRUE] ELSE world
    /\ UNCHANGED <<role, token, sinceBad, calls>>

\* The payload holds an access_token.
TokenGranted(c) ==
    /\ call[c].at = "sending" /\ call[c].req = "token"
    /\ token' = [token EXCEPT ![ClientOf[role[c]]] = Life]
    /\ Send(c, First[role[c]], Life)
    /\ UNCHANGED <<role, world, cache, sinceBad, calls>>

\* Mutants: a failed alert query means no alerts; a containment is retried.
FailureReadsQuiet(q) == IF q = "alerts" THEN {"clean"} ELSE {"error"}
RetriesAlways(c) == MaxRetries

\* What a call returns when request q has failed for good: only Shodan may be
\* missing, and what it alone knows is then missed; ISC's payload is read next.
FailureReads(q) ==
    IF q # "shodan" THEN {"error"}
    ELSE {world.indicator, "unknown", "raised"} \cup
            (IF world.indicator = "bad" THEN {"clean"} ELSE {})

\* "a containment call is not safe to blind-retry"
Retries(c) ==
    IF role[c] = "executor" /\ call[c].req # "token" THEN 0 ELSE MaxRetries

Fails(c) == \E r \in FailureReads(call[c].req) : Return(c, r)

\* A 429, a 5xx, a redirect or no answer; the provider may have acted on the request.
Unanswered(c) ==
    /\ call[c].at = "sending"
    /\ IF call[c].try < Retries(c)
       THEN /\ call' = [call EXCEPT ![c].at = "sleeping",
                                    ![c].timer = BackoffUnit * 2 ^ call[c].try]
            /\ UNCHANGED <<result, lock, posts>>
       ELSE Fails(c)
    /\ \E done \in BOOLEAN :
          world' = IF call[c].req = "contain" /\ Accepted(c) /\ done
                   THEN [world EXCEPT !.isolated = TRUE] ELSE world
    /\ UNCHANGED <<role, token, cache, sinceBad, calls>>

\* Any other 4xx, and a token payload without a token.
Refused(c) ==
    /\ call[c].at = "sending"
    /\ Fails(c)
    /\ UNCHANGED <<role, world, token, cache, sinceBad, calls>>

\* A 200 whose body is not JSON: request_json does not catch it.  Its callers
\* do inside a lookup of Keycloak or Falcon, executor_node always does.
Garbled(c) ==
    LET q == call[c].req IN
    /\ call[c].at = "sending" /\ Accepted(c)
    /\ Return(c, IF role[c] = "executor" \/ (role[c] \in BearerRoles /\ q # "token")
                 THEN "error" ELSE "raised")
    /\ world' = IF q = "contain" THEN [world EXCEPT !.isolated = TRUE] ELSE world
    /\ UNCHANGED <<role, token, cache, sinceBad, calls>>

\* time.sleep(backoff) is over: the next attempt.
Resend(c) ==
    /\ call[c].at = "sleeping" /\ call[c].timer = 0
    /\ call' = [call EXCEPT ![c].at = "sending", ![c].try = @ + 1,
                            ![c].timer = Timeout]
    /\ posts' = [posts EXCEPT ![c] = IF call[c].req = "contain" THEN @ + 1 ELSE @]
    /\ UNCHANGED <<role, world, token, lock, cache, result, sinceBad, calls>>

-----------------------------------------------------------------------------
(* Time and the world.                                                     *)

\* Mutant: counts below zero.
LessUnchecked(n) == n - 1

Less(n) == IF n = 0 THEN 0 ELSE n - 1
UpTo(n, top) == IF n < top THEN n + 1 ELSE top

Tick ==
    /\ \A c \in Callers :
          /\ call[c].at \in {"sending", "sleeping"} => call[c].timer > 0
          /\ call[c].at = "locking" => lock[ClientOf[role[c]]] # NoCaller
    /\ call' = [c \in Callers |-> [call[c] EXCEPT !.timer = Less(@), !.bearer = Less(@)]]
    /\ token' = [k \in Clients |-> Less(token[k])]
    /\ cache' = [cache EXCEPT !.age = IF cache.value = "none" THEN 0 ELSE UpTo(@, TTL + 1)]
    /\ sinceBad' = IF world.indicator = "bad" THEN UpTo(sinceBad, TTL + 1) ELSE 0
    /\ UNCHANGED <<role, world, lock, result, posts, calls>>

\* The indicator is reported as malicious from now on.
TurnsBad ==
    /\ world.indicator # "bad"
    /\ world' = [world EXCEPT !.indicator = "bad"]
    /\ UNCHANGED <<role, token, lock, cache, call, result, posts, sinceBad, calls>>

-----------------------------------------------------------------------------
Calls(c) ==
    \/ lookup_ip_reputation_live(c)
    \/ lookup_ip_reputation_public(c)
    \/ AskForToken(c)

Step(c) ==
    \/ TakeLock(c)
    \/ Answered(c)
    \/ TokenGranted(c)
    \/ Unanswered(c)
    \/ Refused(c)
    \/ Garbled(c)
    \/ Resend(c)

Next == (\E c \in Callers : Calls(c) \/ Step(c)) \/ Tick \/ TurnsBad

Spec == Init /\ [][Next]_vars

\* Time passes and every thread runs; an attempt ends with an answer or with
\* the timeout of httpx.  Nobody is bound to start a lookup.
FairSpec == Spec /\ WF_vars(Tick) /\ \A c \in Callers : WF_vars(Step(c))

-----------------------------------------------------------------------------
(* Properties.                                                             *)

TypeOK ==
    /\ role \in [Callers -> Roles]
    /\ world \in Worlds
    /\ token \in [Clients -> 0..Life]
    /\ lock \in [Clients -> Callers \cup {NoCaller}]
    /\ cache \in [value: Results, age: 0..(TTL + 1)]
    /\ call \in [Callers -> [at: {"idle", "locking", "sending", "sleeping"},
                             req: Requests \cup {"none"}, try: 0..MaxRetries,
                             timer: Nat, bearer: 0..Life]]
    /\ result \in [Callers -> Results]
    /\ posts \in [Callers -> Nat]
    /\ sinceBad \in 0..(TTL + 1)
    /\ calls \in [Callers -> 0..MaxCalls]

\* No outage, retry, refusal or expired token makes a host look clean or an
\* entity look absent: Falcon reported no alert on a host that reads clean
\* (EDRParseError: reporting it clean "would let a compromised host look
\* benign"), and an absent host or account is in no inventory.
CleanWasObserved ==
    \A c \in Callers :
        /\ role[c] = "endpoint" /\ result[c] = "clean" => world.host = "quiet"
        /\ role[c] = "endpoint" /\ result[c] = "absent" => world.host = "absent"
        /\ role[c] = "identity" /\ result[c] = "absent" => world.account = "absent"

\* A containment that executor_node records as performed isolated the host,
\* and one approval sends one containment request, whatever was lost on the
\* way (FalconContainment: "not safe to blind-retry").
ContainmentSentOnce ==
    \A c \in Callers : role[c] = "executor" =>
        posts[c] <= 1 /\ (result[c] = "performed" => world.isolated)

\* A cached verdict is at most ioc_cache_ttl_seconds old: once an indicator has
\* been malicious for longer, no VirusTotal lookup returns anything else
\* unless it fails (vt_client._cache_get, _cache_put).
ReputationFresh ==
    [][\A c \in Callers :
          /\ role[c] = "threat_intel" /\ call'[c] = Idle
          /\ (call[c] # Idle \/ calls'[c] # calls[c])
          /\ result'[c] \in {"clean", "unknown"}
          => sinceBad <= TTL]_vars

\* Every call returns: retries are bounded, no attempt waits for ever, and the
\* token lock is released however the token request ended.
CallEnds == \A c \in Callers : call[c] # Idle ~> call[c] = Idle
=============================================================================
