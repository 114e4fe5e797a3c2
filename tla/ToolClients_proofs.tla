--------------------------- MODULE ToolClients_proofs ---------------------------
(***************************************************************************)
(* Theorems about ToolClients for any number of callers, in any roles and  *)
(* before any providers, and any retry limit, timeout, token life and      *)
(* cache lifetime.                                                         *)
(***************************************************************************)
EXTENDS ToolClients, FiniteSetTheorems, TLAPS

-----------------------------------------------------------------------------
(* Backoffs.                                                               *)

\* There are as many subsets of 1..n, so it is a natural number.
LEMMA PowerOfTwo == ASSUME NEW n \in Nat PROVE 2 ^ n \in Nat
<1>1. IsFiniteSet(1..n) /\ Cardinality(1..n) = n
  BY FS_Interval
<1>2. IsFiniteSet(SUBSET (1..n)) /\ Cardinality(SUBSET (1..n)) = 2 ^ n
  BY <1>1, FS_SUBSET
<1> QED
  BY <1>2, FS_CardinalityType

LEMMA Backoff == ASSUME NEW n \in Nat PROVE BackoffUnit * 2 ^ n \in Nat
<1>1. PICK m \in Nat : m = 2 ^ n
  BY PowerOfTwo
<1>2. BackoffUnit * m \in Nat
  BY ToolClientsAssumption
<1> QED
  BY <1>1, <1>2

-----------------------------------------------------------------------------
(* What a caller can be in the middle of.                                  *)

CallRecords == [at: {"idle", "locking", "sending", "sleeping"},
                req: Requests \cup {"none"}, try: 0..MaxRetries, timer: Nat, bearer: 0..Life]

RequestsOf(r) ==
    CASE r = "threat_intel" -> {"report"}
      [] r = "public_intel" -> {"isc", "shodan"}
      [] r = "identity" -> {"token", "users", "groups", "credentials", "events"}
      [] r = "endpoint" -> {"token", "devices", "detail", "alerts", "entities"}
      [] r = "executor" -> {"token", "find", "contain"}

\* A caller in role ro, in call k, that sent n containment requests and had r
\* from its last call, before providers that hold w.
CallOK(ro, k, n, r, w) ==
    /\ k.at = "idle" => k = Idle
    /\ k.at = "locking" => ro \in BearerRoles
    /\ k.at \in {"sending", "sleeping"} => k.req \in RequestsOf(ro)
    /\ k.at = "sleeping" => k.try < MaxRetries
    /\ ro = "endpoint" =>
          /\ k.req \in {"detail", "alerts", "entities"} => w.host # "absent"
          /\ r = "clean" /\ ~EmptyAnswers => w.host = "quiet"
          /\ r = "absent" /\ ~EmptyAnswers => w.host = "absent"
    /\ ro = "identity" => (r = "absent" /\ ~EmptyAnswers => w.account = "absent")
    /\ ro = "executor" =>
          /\ n <= 1
          /\ k.at = "locking" \/ k.req \in {"token", "find"} => n = 0
          /\ k.at = "sleeping" => k.req # "contain"
          /\ r = "performed" => w.isolated

CallsOK == \A c \in Callers : CallOK(role[c], call[c], posts[c], result[c], world)

\* What is known of the indicator is no older than the cache says.
CacheOK ==
    /\ world.indicator # "bad" => sinceBad = 0
    /\ cache.value \in {"clean", "unknown"} /\ ~EmptyAnswers => sinceBad <= cache.age

ToolInv == TypeOK /\ CallsOK /\ CacheOK

LEMMA RequestNames ==
    Requests = {"isc", "users", "groups", "credentials", "devices", "detail", "alerts", "find",
                "token", "report", "shodan", "events", "entities", "contain"}
BY DEF Requests, Following

LEMMA Follows ==
    /\ Following["isc"] = "shodan"
    /\ Following["users"] = "groups" /\ Following["groups"] = "credentials"
    /\ Following["credentials"] = "events"
    /\ Following["devices"] = "detail" /\ Following["detail"] = "alerts"
    /\ Following["alerts"] = "entities" /\ Following["find"] = "contain"
BY DEF Following

LEMMA Firsts ==
    /\ First["identity"] = "users" /\ First["endpoint"] = "devices" /\ First["executor"] = "find"
    /\ BearerRoles \subseteq Roles
    /\ \A ro \in BearerRoles : ClientOf[ro] \in Clients
BY DEF First, Roles, BearerRoles, ClientOf, Clients

LEMMA IdleFields ==
    /\ Idle \in CallRecords /\ Idle.at = "idle" /\ Idle.req = "none" /\ Idle.try = 0
    /\ Idle.timer = 0 /\ Idle.bearer = 0
BY ToolClientsAssumption DEF Idle, CallRecords

\* The answers to a request that can be read.
LEMMA Readings ==
    ASSUME world \in Worlds, NEW ro \in Roles, NEW q \in RequestsOf(ro), q # "token",
           NEW r \in Reading(ro, q)
    PROVE  /\ r = "more" => Following[q] \in RequestsOf(ro) \ {"token", "find", "devices"}
           /\ r # "more" => r \in Results
           /\ ro = "endpoint" =>
                 /\ r = "more" /\ q = "devices" => world.host # "absent"
                 /\ r = "clean" /\ ~EmptyAnswers => q = "alerts" /\ world.host # "alerting"
                 /\ r = "absent" /\ ~EmptyAnswers => world.host = "absent"
           /\ ro = "identity" /\ r = "absent" /\ ~EmptyAnswers => world.account = "absent"
           /\ ro = "executor" => /\ q = "find" => r # "performed"
                                 /\ q = "contain" => r # "more"
           /\ q = "report" => /\ ro = "threat_intel"
                              /\ ~EmptyAnswers => r \in {world.indicator, "error"}
           /\ ro = "threat_intel" => q = "report"
<1>1. /\ world.indicator \in {"clean", "bad", "unknown"}
      /\ world.account \in {"absent", "ordinary", "privileged"}
      /\ world.host \in {"absent", "quiet", "alerting"}
  BY DEF Worlds, Reputations
<1>2. CASE ro = "threat_intel"
  BY <1>1, <1>2 DEF RequestsOf, Reading, ReputationReading, LeftOut, Results,
                                    Reputations
<1>3. CASE ro = "public_intel"
  BY <1>1, <1>3, Follows DEF RequestsOf, Reading, ReputationReading, LeftOut, Results,
                                    Reputations
<1>4. CASE ro = "identity"
  <2>1. q \in {"users", "groups", "credentials", "events"}
    BY <1>4 DEF RequestsOf
  <2> QED
    BY <1>1, <1>4, <2>1, Follows DEF RequestsOf, Reading, AccountReading, LeftOut, Results
<1>5. CASE ro = "endpoint"
  <2>1. q \in {"devices", "detail", "alerts", "entities"}
    BY <1>5 DEF RequestsOf
  <2> QED
    BY <1>1, <1>5, <2>1, Follows, ToolClientsAssumption
    DEF RequestsOf, Reading, HostReading, LeftOut, Results, Reputations
<1>6. CASE ro = "executor"
  BY <1>1, <1>6, Follows DEF RequestsOf, Reading, ContainmentReading, LeftOut, Results
<1> QED
  BY <1>2, <1>3, <1>4, <1>5, <1>6 DEF Roles

LEMMA Failures ==
    ASSUME world \in Worlds, NEW ro \in Roles, NEW q \in RequestsOf(ro), NEW r \in FailureReads(q)
    PROVE  /\ r \in Results
           /\ ro # "public_intel" => r = "error"
BY DEF Worlds, RequestsOf, FailureReads, Roles, Results, Reputations

-----------------------------------------------------------------------------
(* One caller moves.                                                       *)

\* What callers do to the providers: a host is isolated.
WorldKept == /\ world' \in Worlds
             /\ world'.host = world.host /\ world'.account = world.account
             /\ world'.indicator = world.indicator
             /\ world.isolated => world'.isolated

LEMMA IsolateKeeps ==
    ASSUME TypeOK
    PROVE  /\ [world EXCEPT !.isolated = TRUE] \in Worlds
           /\ [world EXCEPT !.isolated = TRUE].isolated
           /\ world' \in {world, [world EXCEPT !.isolated = TRUE]} => WorldKept
BY DEF TypeOK, Worlds, WorldKept

LEMMA OthersOK ==
    ASSUME TypeOK, CallsOK, NEW c \in Callers, WorldKept, UNCHANGED role,
           \A e \in Callers \ {c} : /\ call'[e] = call[e] /\ result'[e] = result[e]
                                    /\ posts'[e] = posts[e],
           CallOK(role[c], call'[c], posts'[c], result'[c], world')
    PROVE  CallsOK'
<1>1. \A e \in Callers \ {c} : CallOK(role[e], call[e], posts[e], result[e], world')
  BY DEF CallsOK, CallOK, WorldKept
<1>2. \A e \in Callers : CallOK(role[e], call'[e], posts'[e], result'[e], world')
  BY <1>1
<1> QED
  BY <1>2 DEF CallsOK

\* What all steps of a caller leave well-formed.
Frame(c) ==
    /\ UNCHANGED role /\ WorldKept
    /\ token' \in [Clients -> 0..Life] /\ sinceBad' = sinceBad
    /\ cache' \in [value: Results, age: 0..(TTL + 1)]
    /\ calls' \in [Callers -> 0..MaxCalls]
    /\ \/ UNCHANGED cache
       \/ (~EmptyAnswers => cache'.value = world.indicator) /\ cache'.age = 0

LEMMA ReleasedType ==
    ASSUME TypeOK, NEW c \in Callers
    PROVE  Released(c) \in [Clients -> Callers \cup {NoCaller}]
BY DEF Released, TypeOK

LEMMA FrameCache == ASSUME TypeOK, CacheOK, NEW c \in Callers, Frame(c) PROVE CacheOK'
<1>1. sinceBad \in Nat /\ cache.age \in Nat
  BY ToolClientsAssumption DEF TypeOK
<1> QED
  BY <1>1 DEF CacheOK, Frame, WorldKept

LEMMA MoveInv ==
    ASSUME ToolInv, NEW c \in Callers, Frame(c), NEW k \in CallRecords, NEW r \in Results,
           NEW n \in Nat,
           call' = [call EXCEPT ![c] = k], result' = [result EXCEPT ![c] = r],
           posts' = [posts EXCEPT ![c] = n], lock' \in [Clients -> Callers \cup {NoCaller}],
           CallOK(role[c], k, n, r, world')
    PROVE  ToolInv'
<1>1. /\ call \in [Callers -> CallRecords] /\ result \in [Callers -> Results]
      /\ posts \in [Callers -> Nat]
  BY DEF ToolInv, TypeOK, CallRecords
<1>2. /\ call'[c] = k /\ result'[c] = r /\ posts'[c] = n
      /\ \A e \in Callers \ {c} : /\ call'[e] = call[e] /\ result'[e] = result[e]
                                  /\ posts'[e] = posts[e]
  BY <1>1
<1>3. CallsOK'
  BY <1>2, OthersOK DEF ToolInv, Frame
<1>4. call' \in [Callers -> CallRecords] /\ result' \in [Callers -> Results]
      /\ posts' \in [Callers -> Nat]
  BY <1>1
<1>5. TypeOK'
  BY <1>4 DEF ToolInv, TypeOK, CallRecords, Frame, WorldKept
<1> QED
  BY <1>3, <1>5, FrameCache DEF ToolInv

LEMMA SendInv ==
    ASSUME ToolInv, NEW c \in Callers, Frame(c), NEW q \in RequestsOf(role[c]),
           q # "token", NEW b \in 0..Life, Send(c, q, b),
           role[c] = "endpoint" /\ q \in {"detail", "alerts", "entities"} => world.host # "absent",
           role[c] = "executor" => posts[c] = 0
    PROVE  ToolInv'
<1> DEFINE k == [at |-> "sending", req |-> q, try |-> 0, timer |-> Timeout, bearer |-> b]
           n == IF q = "contain" THEN posts[c] + 1 ELSE posts[c]
<1>1. role[c] \in Roles /\ posts[c] \in Nat /\ result[c] \in Results
      /\ CallOK(role[c], call[c], posts[c], result[c], world)
  BY DEF ToolInv, TypeOK, CallsOK
<1>2. q \in Requests
  BY <1>1, RequestNames DEF RequestsOf, Roles
<1>3. /\ k \in CallRecords /\ k.at = "sending" /\ k.req = q
  BY <1>2, ToolClientsAssumption DEF CallRecords
<1>4. n \in Nat /\ (role[c] = "executor" => n <= 1 /\ (q = "find" => n = 0))
  BY <1>1
<1>5. CallOK(role[c], k, n, result[c], world')
  BY <1>1, <1>3, <1>4 DEF CallOK, Frame, WorldKept
<1>6. /\ call' = [call EXCEPT ![c] = k] /\ posts' = [posts EXCEPT ![c] = n]
      /\ result' = [result EXCEPT ![c] = result[c]]
      /\ lock' \in [Clients -> Callers \cup {NoCaller}]
  BY ReleasedType DEF Send, ToolInv, TypeOK
<1> HIDE DEF k, n
<1> QED
  BY <1>1, <1>3, <1>4, <1>5, <1>6, MoveInv

LEMMA ReturnInv ==
    ASSUME ToolInv, NEW c \in Callers, Frame(c), NEW r \in Results, Return(c, r),
           role[c] = "endpoint" => /\ r = "clean" /\ ~EmptyAnswers => world.host = "quiet"
                                   /\ r = "absent" /\ ~EmptyAnswers => world.host = "absent",
           role[c] = "identity" /\ r = "absent" /\ ~EmptyAnswers => world.account = "absent",
           role[c] = "executor" /\ r = "performed" => world'.isolated
    PROVE  ToolInv'
<1>1. role[c] \in Roles /\ posts[c] \in Nat
      /\ CallOK(role[c], call[c], posts[c], result[c], world)
  BY DEF ToolInv, TypeOK, CallsOK
<1>2. CallOK(role[c], Idle, posts[c], r, world')
  BY <1>1, IdleFields DEF CallOK, Frame, WorldKept
<1>3. /\ call' = [call EXCEPT ![c] = Idle] /\ posts' = [posts EXCEPT ![c] = posts[c]]
      /\ result' = [result EXCEPT ![c] = r]
      /\ lock' \in [Clients -> Callers \cup {NoCaller}]
  BY ReleasedType DEF Return, ToolInv, TypeOK
<1> QED
  BY <1>1, <1>2, <1>3, MoveInv, IdleFields

\* What is known of a caller and of the request it is in.
LEMMA CallerFacts ==
    ASSUME ToolInv, NEW c \in Callers
    PROVE  /\ role[c] \in Roles /\ call[c] \in CallRecords /\ posts[c] \in Nat
           /\ result[c] \in Results /\ call[c].bearer \in 0..Life /\ call[c].try \in 0..MaxRetries
           /\ CallOK(role[c], call[c], posts[c], result[c], world)
           /\ call[c].at \in {"sending", "sleeping"} => call[c].req \in RequestsOf(role[c])
           /\ world \in Worlds
           /\ UNCHANGED world => WorldKept
BY DEF ToolInv, TypeOK, CallsOK, CallOK, CallRecords, WorldKept

LEMMA TokenRoles ==
    ASSUME NEW ro \in Roles, "token" \in RequestsOf(ro)
    PROVE  ro \in BearerRoles
BY DEF Roles, RequestsOf, BearerRoles

LEMMA FirstRequest ==
    ASSUME NEW ro \in BearerRoles
    PROVE  First[ro] \in RequestsOf(ro) /\ First[ro] \notin {"token", "contain", "detail", "alerts", "entities"}
BY Firsts DEF BearerRoles, RequestsOf

LEMMA StartsFrame ==
    ASSUME ToolInv, NEW c \in Callers, Starts(c)
    PROVE  Frame(c)
<1>1. calls \in [Callers -> 0..MaxCalls] /\ calls[c] + 1 \in 0..MaxCalls
  BY ToolClientsAssumption DEF Starts, ToolInv, TypeOK
<1> QED
  BY <1>1, CallerFacts DEF Starts, Frame, ToolInv, TypeOK

LEMMA CallsInv == ASSUME ToolInv, NEW c \in Callers, Calls(c) PROVE ToolInv'
<1>1. Frame(c)
  BY StartsFrame DEF Calls, lookup_ip_reputation_live, lookup_ip_reputation_public, AskForToken
<1>2. CASE lookup_ip_reputation_live(c)
  <2>1. role[c] = "threat_intel" /\ cache.value \in Results
    BY <1>2 DEF lookup_ip_reputation_live, ToolInv, TypeOK
  <2>2. CASE Return(c, cache.value)
    BY <1>1, <2>1, <2>2, ReturnInv
  <2>3. CASE Send(c, "report", 0)
    <3>1. "report" \in RequestsOf(role[c]) /\ 0 \in 0..Life
      BY <2>1, ToolClientsAssumption DEF RequestsOf
    <3> QED
      BY <1>1, <2>1, <2>3, <3>1, SendInv
  <2> QED
    BY <1>2, <2>2, <2>3 DEF lookup_ip_reputation_live
<1>3. CASE lookup_ip_reputation_public(c)
  <2>1. /\ role[c] = "public_intel" /\ Send(c, "isc", 0)
        /\ "isc" \in RequestsOf(role[c]) /\ 0 \in 0..Life
    BY <1>3, ToolClientsAssumption DEF lookup_ip_reputation_public, RequestsOf
  <2> QED
    BY <1>1, <2>1, SendInv
<1>4. CASE AskForToken(c)
  <2> DEFINE k == [Idle EXCEPT !.at = "locking"]
  <2>1. /\ k \in CallRecords /\ k.at = "locking" /\ k.req = "none"
    BY ToolClientsAssumption DEF Idle, CallRecords
  <2>2. /\ call' = [call EXCEPT ![c] = k] /\ posts' = [posts EXCEPT ![c] = 0]
        /\ result' = [result EXCEPT ![c] = result[c]] /\ UNCHANGED world
        /\ role[c] \in BearerRoles /\ lock' \in [Clients -> Callers \cup {NoCaller}]
    BY <1>4 DEF AskForToken, Starts, ToolInv, TypeOK
  <2> HIDE DEF k
  <2>3. CallOK(role[c], k, 0, result[c], world')
    BY <2>1, <2>2, CallerFacts DEF CallOK
  <2> QED
    BY <1>1, <2>1, <2>2, <2>3, CallerFacts, MoveInv
<1> QED
  BY <1>2, <1>3, <1>4 DEF Calls

LEMMA TakeLockInv == ASSUME ToolInv, NEW c \in Callers, TakeLock(c) PROVE ToolInv'
<1>1. Frame(c) /\ call[c].at = "locking" /\ role[c] \in BearerRoles /\ UNCHANGED world
  BY CallerFacts DEF TakeLock, Frame, ToolInv, TypeOK, CallOK
<1>2. PICK l \in Clients : l = ClientOf[role[c]]
  BY <1>1, Firsts
<1>3. role[c] = "executor" => posts[c] = 0
  BY <1>1, CallerFacts DEF CallOK
<1>4. CASE Send(c, First[role[c]], token[l])
  <2>1. token[l] \in 0..Life
    BY DEF ToolInv, TypeOK
  <2> QED
    BY <1>1, <1>3, <1>4, <2>1, FirstRequest, SendInv
<1>5. CASE /\ call' = [call EXCEPT ![c].at = "sending", ![c].req = "token", ![c].timer = Timeout]
           /\ lock' = [lock EXCEPT ![l] = c]
           /\ UNCHANGED <<result, posts>>
  <2> DEFINE k == [call[c] EXCEPT !.at = "sending", !.req = "token", !.timer = Timeout]
  <2>1. k \in CallRecords /\ k.at = "sending" /\ k.req = "token"
    BY CallerFacts, RequestNames, ToolClientsAssumption DEF CallRecords
  <2>2. /\ call' = [call EXCEPT ![c] = k] /\ posts' = [posts EXCEPT ![c] = posts[c]]
        /\ result' = [result EXCEPT ![c] = result[c]]
        /\ lock' \in [Clients -> Callers \cup {NoCaller}]
    BY <1>5 DEF ToolInv, TypeOK
  <2> HIDE DEF k
  <2>3. "token" \in RequestsOf(role[c])
    BY <1>1 DEF BearerRoles, RequestsOf
  <2>4. CallOK(role[c], k, posts[c], result[c], world')
    BY <1>1, <1>3, <2>1, <2>3, CallerFacts DEF CallOK
  <2> QED
    BY <1>1, <2>1, <2>2, <2>4, CallerFacts, MoveInv
<1> QED
  BY <1>2, <1>4, <1>5 DEF TakeLock

LEMMA AnsweredInv == ASSUME ToolInv, NEW c \in Callers, Answered(c) PROVE ToolInv'
<1> DEFINE q == call[c].req
           ro == role[c]
<1>1. /\ call[c].at = "sending" /\ q # "token" /\ q \in RequestsOf(ro) /\ ro \in Roles
      /\ world \in Worlds
  BY CallerFacts DEF Answered
<1>2. PICK r \in Reading(ro, q) :
          /\ IF r = "more" THEN Send(c, Following[q], call[c].bearer) ELSE Return(c, r)
          /\ cache' = IF q = "report" /\ r # "error"
                      THEN [value |-> r, age |-> 0] ELSE cache
  BY DEF Answered
<1>3. /\ world' = IF q = "contain" THEN [world EXCEPT !.isolated = TRUE] ELSE world
      /\ UNCHANGED <<role, token, sinceBad, calls>>
  BY DEF Answered
<1>4. Frame(c)
  <2>1. WorldKept
    BY <1>3, IsolateKeeps DEF ToolInv
  <2>2. \/ UNCHANGED cache
        \/ /\ cache' = [value |-> r, age |-> 0] /\ r \in Results
           /\ ~EmptyAnswers => r = world.indicator
    <3>1. q = "report" => ro = "threat_intel" /\ (~EmptyAnswers => r \in {world.indicator, "error"})
      BY <1>1, Readings
    <3>2. r # "more" => r \in Results
      BY <1>1, Readings
    <3>3. q = "report" => r # "more"
      BY <1>1, <3>1 DEF Reading, ReputationReading, LeftOut, Worlds, Reputations
    <3> QED
      BY <1>2, <3>1, <3>2, <3>3
  <2>3. /\ cache' \in [value: Results, age: 0..(TTL + 1)]
        /\ \/ UNCHANGED cache
           \/ (~EmptyAnswers => cache'.value = world.indicator) /\ cache'.age = 0
    BY <2>2, ToolClientsAssumption DEF ToolInv, TypeOK
  <2> QED
    BY <1>3, <2>1, <2>3 DEF Frame, ToolInv, TypeOK
<1>5. CASE r = "more"
  <2>1. Following[q] \in RequestsOf(ro) \ {"token", "find", "devices"}
    BY <1>1, <1>5, Readings
  <2>2. ro = "endpoint" => world.host # "absent"
    <3>1. ro = "endpoint" => q \in {"devices", "detail", "alerts", "entities"}
      BY <1>1 DEF RequestsOf
    <3> QED
      BY <1>1, <1>5, <3>1, Readings, CallerFacts DEF CallOK
  <2>3. ro = "executor" => posts[c] = 0
    <3>1. ro = "executor" => q = "find"
      BY <1>1, <1>5, Readings DEF RequestsOf
    <3> QED
      BY <3>1, CallerFacts DEF CallOK
  <2> QED
    BY <1>2, <1>4, <1>5, <2>1, <2>2, <2>3, CallerFacts, SendInv
<1>6. CASE r # "more"
  <2>1. r \in Results /\ Return(c, r)
    BY <1>1, <1>2, <1>6, Readings
  <2>2. ro = "endpoint" => /\ r = "clean" /\ ~EmptyAnswers => world.host = "quiet"
                           /\ r = "absent" /\ ~EmptyAnswers => world.host = "absent"
    <3>1. ro = "endpoint" /\ r = "clean" /\ ~EmptyAnswers
              => world.host # "alerting" /\ world.host # "absent"
      BY <1>1, Readings, CallerFacts DEF CallOK
    <3> QED
      BY <1>1, <3>1, Readings DEF Worlds
  <2>3. ro = "identity" /\ r = "absent" /\ ~EmptyAnswers => world.account = "absent"
    BY <1>1, Readings
  <2>4. ro = "executor" /\ r = "performed" => world'.isolated
    <3>1. ro = "executor" /\ r = "performed" => q = "contain"
      BY <1>1, Readings DEF RequestsOf
    <3> QED
      BY <1>3, <3>1, IsolateKeeps DEF ToolInv
  <2> QED
    BY <1>4, <2>1, <2>2, <2>3, <2>4, ReturnInv
<1> QED
  BY <1>5, <1>6

LEMMA TokenGrantedInv == ASSUME ToolInv, NEW c \in Callers, TokenGranted(c) PROVE ToolInv'
<1>1. /\ call[c].at = "sending" /\ call[c].req = "token" /\ role[c] \in BearerRoles
      /\ UNCHANGED world
  BY CallerFacts, TokenRoles DEF TokenGranted
<1>2. Life \in 0..Life /\ token' \in [Clients -> 0..Life]
  <2>1. Life \in 0..Life
    BY ToolClientsAssumption
  <2>2. token \in [Clients -> 0..Life]
    BY DEF ToolInv, TypeOK
  <2>3. token' = [token EXCEPT ![ClientOf[role[c]]] = Life]
    BY DEF TokenGranted
  <2> QED
    BY <2>1, <2>2, <2>3
<1>3. Frame(c)
  BY <1>1, <1>2, CallerFacts DEF TokenGranted, Frame, ToolInv, TypeOK
<1>4. role[c] = "executor" => posts[c] = 0
  BY <1>1, CallerFacts DEF CallOK
<1> QED
  BY <1>1, <1>2, <1>3, <1>4, FirstRequest, SendInv DEF TokenGranted

\* A request that failed for good.
LEMMA FailsInv == ASSUME ToolInv, NEW c \in Callers, call[c].at = "sending", Frame(c), Fails(c)
                  PROVE  ToolInv'
<1>1. PICK r \in FailureReads(call[c].req) : Return(c, r)
  BY DEF Fails
<1>2. r \in Results /\ (role[c] # "public_intel" => r = "error")
  BY CallerFacts, Failures
<1> QED
  BY <1>1, <1>2, ReturnInv

LEMMA UnansweredInv == ASSUME ToolInv, NEW c \in Callers, Unanswered(c) PROVE ToolInv'
<1>1. Frame(c) /\ call[c].at = "sending"
  <2>1. WorldKept
    BY IsolateKeeps DEF Unanswered, ToolInv
  <2> QED
    BY <2>1 DEF Unanswered, Frame, ToolInv, TypeOK
<1>2. CASE ~(call[c].try < Retries(c))
  BY <1>1, <1>2, FailsInv DEF Unanswered
<1>3. CASE call[c].try < Retries(c)
  <2> DEFINE t == BackoffUnit * 2 ^ call[c].try
             k == [call[c] EXCEPT !.at = "sleeping", !.timer = t]
  <2>1. /\ call' = [call EXCEPT ![c].at = "sleeping", ![c].timer = t]
        /\ UNCHANGED <<result, lock, posts>>
    BY <1>3 DEF Unanswered
  <2>2. t \in Nat
    <3>1. call[c].try \in Nat
      BY CallerFacts, ToolClientsAssumption
    <3> QED
      BY <3>1, Backoff
  <2> HIDE DEF t
  <2>3. /\ k \in CallRecords /\ k.at = "sleeping" /\ k.req = call[c].req
        /\ k.try = call[c].try
    BY <2>2, CallerFacts DEF CallRecords
  <2>4. /\ call' = [call EXCEPT ![c] = k] /\ posts' = [posts EXCEPT ![c] = posts[c]]
        /\ result' = [result EXCEPT ![c] = result[c]]
        /\ lock' \in [Clients -> Callers \cup {NoCaller}]
    BY <2>1 DEF ToolInv, TypeOK
  <2> HIDE DEF k
  <2>5. call[c].try < MaxRetries /\ (role[c] = "executor" => call[c].req = "token")
    BY <1>3, CallerFacts, ToolClientsAssumption DEF Retries
  <2>6. CallOK(role[c], k, posts[c], result[c], world')
    BY <1>1, <2>3, <2>5, CallerFacts DEF CallOK, Frame, WorldKept
  <2> QED
    BY <1>1, <2>3, <2>4, <2>6, CallerFacts, MoveInv
<1> QED
  BY <1>2, <1>3

LEMMA RefusedInv == ASSUME ToolInv, NEW c \in Callers, Refused(c) PROVE ToolInv'
<1>1. Frame(c)
  BY CallerFacts DEF Refused, Frame, ToolInv, TypeOK
<1> QED
  BY <1>1, FailsInv DEF Refused

LEMMA GarbledInv == ASSUME ToolInv, NEW c \in Callers, Garbled(c) PROVE ToolInv'
<1>1. Frame(c)
  <2>1. WorldKept
    BY IsolateKeeps DEF Garbled, ToolInv
  <2> QED
    BY <2>1 DEF Garbled, Frame, ToolInv, TypeOK
<1>2. PICK r \in {"error", "raised"} : Return(c, r)
  BY DEF Garbled
<1>3. r \in Results
  BY DEF Results
<1> QED
  BY <1>1, <1>2, <1>3, ReturnInv

LEMMA ResendInv == ASSUME ToolInv, NEW c \in Callers, Resend(c) PROVE ToolInv'
<1> DEFINE k == [call[c] EXCEPT !.at = "sending", !.try = @ + 1, !.timer = Timeout]
           n == IF call[c].req = "contain" THEN posts[c] + 1 ELSE posts[c]
<1>1. Frame(c) /\ call[c].at = "sleeping" /\ call[c].try < MaxRetries /\ UNCHANGED world
  BY CallerFacts DEF Resend, Frame, ToolInv, TypeOK, CallOK
<1>2. call[c].try + 1 \in 0..MaxRetries
  BY <1>1, CallerFacts, ToolClientsAssumption
<1>3. k \in CallRecords /\ k.at = "sending" /\ k.req = call[c].req
  BY <1>2, CallerFacts, ToolClientsAssumption DEF CallRecords
<1>4. /\ call' = [call EXCEPT ![c] = k] /\ posts' = [posts EXCEPT ![c] = n]
      /\ result' = [result EXCEPT ![c] = result[c]]
      /\ lock' \in [Clients -> Callers \cup {NoCaller}]
  BY DEF Resend, ToolInv, TypeOK
<1>5. n \in Nat /\ (role[c] = "executor" => n = posts[c])
  BY <1>1, CallerFacts DEF CallOK
<1> HIDE DEF k, n
<1>6. CallOK(role[c], k, n, result[c], world')
  BY <1>1, <1>3, <1>5, CallerFacts DEF CallOK
<1> QED
  BY <1>1, <1>3, <1>4, <1>5, <1>6, CallerFacts, MoveInv

-----------------------------------------------------------------------------
(* The start, time and the world.                                          *)

LEMMA InitToolInv == Init => ToolInv
<1> SUFFICES ASSUME Init PROVE ToolInv
  OBVIOUS
<1>1. role \in [Callers -> Roles] /\ world \in Worlds
  <2>1. PICK s \in Situations : role = s.role /\ world = s.world
    BY DEF Init
  <2>2. s \in [role: [Callers -> Roles], world: Worlds]
    BY ToolClientsAssumption
  <2> QED
    BY <2>1, <2>2
<1>2. Idle \in CallRecords /\ "none" \in Results
  BY IdleFields DEF Results
<1>3. /\ sinceBad \in 0..(TTL + 1) /\ (world.indicator # "bad" => sinceBad = 0)
      /\ 0 \in 0..(TTL + 1) /\ 0 \in 0..MaxCalls /\ 0 \in 0..Life
  BY ToolClientsAssumption DEF Init
<1>4. TypeOK
  BY <1>1, <1>2, <1>3 DEF Init, TypeOK, CallRecords
<1>5. CallsOK
  BY IdleFields DEF Init, CallsOK, CallOK
<1>6. CacheOK
  BY <1>3 DEF Init, CacheOK
<1> QED
  BY <1>4, <1>5, <1>6 DEF ToolInv

LEMMA LessType == ASSUME NEW n \in Nat PROVE Less(n) \in Nat /\ Less(n) <= n
BY DEF Less

\* Time moves no caller on; it shortens what callers wait for and hold.
LEMMA TickCalls ==
    ASSUME ToolInv, Tick, NEW c \in Callers
    PROVE  /\ call'[c] \in CallRecords
           /\ call'[c].at = call[c].at /\ call'[c].req = call[c].req /\ call'[c].try = call[c].try
           /\ call[c].at = "idle" => call'[c] = Idle /\ call[c] = Idle
<1> DEFINE k == [call[c] EXCEPT !.timer = Less(@), !.bearer = Less(@)]
<1>1. call'[c] = k
  BY DEF Tick
<1>2. call[c] \in CallRecords /\ call[c].timer \in Nat /\ call[c].bearer \in 0..Life
  BY CallerFacts DEF CallRecords
<1>3. Less(call[c].timer) \in Nat /\ Less(call[c].bearer) \in 0..Life
  BY <1>2, LessType, ToolClientsAssumption
<1>4. /\ k \in CallRecords /\ k.at = call[c].at /\ k.req = call[c].req /\ k.try = call[c].try
  BY <1>2, <1>3 DEF CallRecords
<1>5. ASSUME call[c].at = "idle" PROVE k = Idle /\ call[c] = Idle
  <2>1. call[c] = Idle
    BY <1>5, CallerFacts DEF CallOK
  <2>2. Less(0) = 0
    BY DEF Less
  <2> QED
    BY <2>1, <2>2, IdleFields DEF Idle
<1> HIDE DEF k
<1> QED
  BY <1>1, <1>4, <1>5

LEMMA TickInv == ASSUME ToolInv, Tick PROVE ToolInv'
<1>1. /\ UNCHANGED <<role, world, lock, result, posts, calls>>
      /\ cache' = [cache EXCEPT !.age = IF cache.value = "none" THEN 0 ELSE UpTo(@, TTL + 1)]
      /\ sinceBad' = IF world.indicator = "bad" THEN UpTo(sinceBad, TTL + 1) ELSE 0
      /\ token' = [k \in Clients |-> Less(token[k])]
  BY DEF Tick
<1>2. /\ cache \in [value: Results, age: 0..(TTL + 1)] /\ sinceBad \in 0..(TTL + 1)
      /\ token \in [Clients -> 0..Life] /\ TTL \in Nat /\ Life \in Nat
  BY ToolClientsAssumption DEF ToolInv, TypeOK
<1>3. /\ \A n \in 0..(TTL + 1) : UpTo(n, TTL + 1) \in 0..(TTL + 1)
      /\ \A m, n \in 0..(TTL + 1) : m <= n => UpTo(m, TTL + 1) <= UpTo(n, TTL + 1)
  BY <1>2 DEF UpTo
<1>4. call' \in [Callers -> CallRecords]
  <2>1. call' = [c \in Callers |-> [call[c] EXCEPT !.timer = Less(@), !.bearer = Less(@)]]
    BY DEF Tick
  <2>2. \A c \in Callers : call'[c] \in CallRecords
    BY TickCalls
  <2> QED
    BY <2>1, <2>2
<1>5. token' \in [Clients -> 0..Life]
  <2>1. \A k \in Clients : Less(token[k]) \in 0..Life
    BY <1>2 DEF Less
  <2> QED
    BY <1>1, <2>1
<1>6. /\ cache' \in [value: Results, age: 0..(TTL + 1)] /\ sinceBad' \in 0..(TTL + 1)
      /\ cache'.value = cache.value
      /\ cache'.age = IF cache.value = "none" THEN 0 ELSE UpTo(cache.age, TTL + 1)
  <2> DEFINE g == IF cache.value = "none" THEN 0 ELSE UpTo(cache.age, TTL + 1)
  <2>1. g \in 0..(TTL + 1)
    BY <1>2, <1>3
  <2>2. cache' = [cache EXCEPT !.age = g]
    BY <1>1
  <2> HIDE DEF g
  <2>3. cache' \in [value: Results, age: 0..(TTL + 1)] /\ cache'.value = cache.value
        /\ cache'.age = g
    BY <1>2, <2>1, <2>2
  <2>4. sinceBad' \in 0..(TTL + 1)
    BY <1>1, <1>2, <1>3
  <2> QED
    BY <2>3, <2>4 DEF g
<1>7. TypeOK'
  BY <1>1, <1>4, <1>5, <1>6 DEF ToolInv, TypeOK, CallRecords
<1>8. CallsOK'
  <2> SUFFICES ASSUME NEW c \in Callers
               PROVE  CallOK(role[c], call'[c], posts[c], result[c], world)
    BY <1>1 DEF CallsOK
  <2> QED
    BY TickCalls, CallerFacts DEF CallOK
<1>9. CacheOK'
  <2>1. world.indicator # "bad" => sinceBad' = 0
    BY <1>1
  <2>2. ASSUME cache.value \in {"clean", "unknown"}, ~EmptyAnswers PROVE sinceBad' <= cache'.age
    <3>1. sinceBad <= cache.age /\ cache.age \in 0..(TTL + 1) /\ cache'.age = UpTo(cache.age, TTL + 1)
      BY <1>2, <1>6, <2>2 DEF ToolInv, CacheOK
    <3>2. UpTo(sinceBad, TTL + 1) <= UpTo(cache.age, TTL + 1) /\ UpTo(cache.age, TTL + 1) >= 0
      BY <1>2, <1>3, <3>1
    <3> QED
      BY <1>1, <3>1, <3>2
  <2> QED
    BY <1>1, <1>6, <2>1, <2>2 DEF CacheOK
<1> QED
  BY <1>7, <1>8, <1>9 DEF ToolInv

LEMMA TurnsBadInv == ASSUME ToolInv, TurnsBad PROVE ToolInv'
<1>1. /\ world' = [world EXCEPT !.indicator = "bad"] /\ world \in Worlds
      /\ UNCHANGED <<role, token, lock, cache, call, result, posts, sinceBad, calls>>
  BY DEF TurnsBad, ToolInv, TypeOK
<1>2. /\ world' \in Worlds /\ world'.indicator = "bad" /\ world'.host = world.host
      /\ world'.account = world.account /\ world'.isolated = world.isolated
  BY <1>1 DEF Worlds, Reputations
<1>3. TypeOK'
  BY <1>1, <1>2 DEF ToolInv, TypeOK
<1>4. \A c \in Callers : CallOK(role[c], call[c], posts[c], result[c], world')
  BY <1>2 DEF ToolInv, CallsOK, CallOK
<1>5. CallsOK'
  BY <1>1, <1>4 DEF CallsOK
<1>6. CacheOK'
  BY <1>1, <1>2 DEF ToolInv, CacheOK
<1> QED
  BY <1>3, <1>5, <1>6 DEF ToolInv

LEMMA ToolStep == ToolInv /\ [Next]_vars => ToolInv'
<1> SUFFICES ASSUME ToolInv, [Next]_vars PROVE ToolInv'
  OBVIOUS
<1>1. ASSUME NEW c \in Callers, Calls(c) PROVE ToolInv'
  BY <1>1, CallsInv
<1>2. ASSUME NEW c \in Callers, Step(c) PROVE ToolInv'
  BY <1>2, TakeLockInv, AnsweredInv, TokenGrantedInv, UnansweredInv, RefusedInv, GarbledInv,
     ResendInv DEF Step
<1>3. CASE UNCHANGED vars
  BY <1>3 DEF ToolInv, TypeOK, CallsOK, CallOK, CacheOK, vars
<1> QED
  BY <1>1, <1>2, <1>3, TickInv, TurnsBadInv DEF Next

\* What holds of the callers, the providers and the cache throughout.
LEMMA ToolInvariant == Spec => []ToolInv
<1> QED
  BY InitToolInv, ToolStep, PTL DEF Spec

-----------------------------------------------------------------------------
(* Theorems.                                                               *)

\* What callers, providers and caches hold is always well-formed, whatever the
\* order of requests, retries, refusals and ticks.
THEOREM TypeCorrect == Spec => []TypeOK
<1>1. ToolInv => TypeOK
  BY DEF ToolInv
<1> QED
  BY <1>1, ToolInvariant, PTL

\* As long as no answer leaves out what the provider holds, a host reads clean
\* only if Falcon had no alert on it, and a host or account reads absent only
\* if it is in no inventory, whatever is retried, refused or lost
\* (edr_client.get_host_telemetry_live, keycloak_client.lookup_user_live).
THEOREM CleanIsObserved == ~EmptyAnswers => (Spec => []CleanWasObserved)
<1> SUFFICES ASSUME ~EmptyAnswers PROVE Spec => []CleanWasObserved
  OBVIOUS
<1>1. ToolInv => CleanWasObserved
  BY DEF ToolInv, CallsOK, CallOK, CleanWasObserved
<1> QED
  BY <1>1, ToolInvariant, PTL

\* A containment sends its request at most once, and is recorded as performed
\* only on a host that is isolated, whoever shares the Falcon token
\* (FalconContainment.perform).
THEOREM ContainedOnce == Spec => []ContainmentSentOnce
<1>1. ToolInv => ContainmentSentOnce
  BY DEF ToolInv, CallsOK, CallOK, ContainmentSentOnce
<1> QED
  BY <1>1, ToolInvariant, PTL

\* A step of one caller leaves the others in their calls.
LEMMA OthersStay ==
    ASSUME ToolInv, NEW e \in Callers, Calls(e) \/ Step(e), NEW c \in Callers, c # e
    PROVE  call'[c] = call[c] /\ calls'[c] = calls[c]
<1>1. call \in [Callers -> CallRecords] /\ calls \in [Callers -> 0..MaxCalls]
  BY DEF ToolInv, TypeOK, CallRecords
<1>2. CASE Calls(e)
  BY <1>1, <1>2 DEF Calls, lookup_ip_reputation_live, lookup_ip_reputation_public, AskForToken,
                    Starts, Send, Return
<1>3. CASE Step(e)
  <2>1. UNCHANGED calls
    BY <1>3 DEF Step, TakeLock, Answered, TokenGranted, Unanswered, Refused, Garbled, Resend
  <2>2. CASE TakeLock(e)
    BY <1>1, <2>2 DEF TakeLock, Send
  <2>3. CASE Answered(e)
    BY <1>1, <2>3 DEF Answered, Send, Return
  <2>4. CASE TokenGranted(e)
    BY <1>1, <2>4 DEF TokenGranted, Send
  <2>5. CASE Unanswered(e)
    <3>1. CASE Fails(e)
      BY <1>1, <2>1, <3>1 DEF Fails, Return
    <3>2. CASE ~Fails(e)
      <4> DEFINE t == BackoffUnit * 2 ^ call[e].try
      <4>1. call' = [call EXCEPT ![e].at = "sleeping", ![e].timer = t]
        BY <2>5, <3>2 DEF Unanswered
      <4> HIDE DEF t
      <4> QED
        BY <1>1, <2>1, <4>1
    <3> QED
      BY <2>1, <3>1, <3>2
  <2>6. CASE Refused(e) \/ Garbled(e)
    BY <1>1, <2>6 DEF Refused, Garbled, Fails, Return
  <2>7. CASE Resend(e)
    BY <1>1, <2>7 DEF Resend
  <2> QED
    BY <1>3, <2>1, <2>2, <2>3, <2>4, <2>5, <2>6, <2>7 DEF Step
<1> QED
  BY <1>2, <1>3

\* How a VirusTotal lookup can end: with the cached verdict, with what the
\* provider holds, or with a failure.
LEMMA LookupEnds ==
    ASSUME ToolInv, NEW c \in Callers, role[c] = "threat_intel", Calls(c) \/ Step(c),
           call'[c] = Idle
    PROVE  \/ result'[c] = cache.value /\ cache.age <= TTL
           \/ ~EmptyAnswers => result'[c] = world.indicator
           \/ result'[c] \in {"error", "raised"}
<1>1. /\ call \in [Callers -> CallRecords] /\ result \in [Callers -> Results]
      /\ role[c] \in Roles /\ Idle.at = "idle" /\ world \in Worlds
  BY IdleFields DEF ToolInv, TypeOK, CallRecords
<1>2. ASSUME NEW q, NEW b, Send(c, q, b) PROVE FALSE
  <2>1. call'[c] = [at |-> "sending", req |-> q, try |-> 0, timer |-> Timeout, bearer |-> b]
    BY <1>1, <1>2 DEF Send
  <2> QED
    BY <1>1, <2>1
<1>3. ASSUME NEW r, Return(c, r) PROVE result'[c] = r
  BY <1>1, <1>3 DEF Return
<1>4. role[c] \notin BearerRoles /\ RequestsOf(role[c]) = {"report"}
  BY DEF BearerRoles, RequestsOf
<1>5. call[c].at \in {"sending", "sleeping"} => call[c].req = "report"
  BY <1>4, CallerFacts
<1>6. CASE Calls(c)
  BY <1>2, <1>3, <1>4, <1>6
  DEF Calls, lookup_ip_reputation_live, lookup_ip_reputation_public, AskForToken, CacheHit
<1>7. ASSUME call[c].at = "sending", Fails(c) PROVE result'[c] = "error"
  <2>1. PICK r \in FailureReads("report") : Return(c, r)
    BY <1>5, <1>7 DEF Fails
  <2> QED
    BY <1>3, <2>1 DEF FailureReads
<1>8. CASE Step(c)
  <2>1. ~TakeLock(c)
    BY <1>4, CallerFacts DEF TakeLock, CallOK
  <2>2. ~TokenGranted(c)
    BY <1>5 DEF TokenGranted
  <2>3. CASE Answered(c)
    <3>1. PICK r \in Reading("threat_intel", "report") :
              IF r = "more" THEN Send(c, Following["report"], call[c].bearer) ELSE Return(c, r)
      BY <1>5, <2>3 DEF Answered
    <3>2. r \in {world.indicator, "error"} \cup LeftOut("clean") /\ r # "more"
      BY <1>1 DEF Reading, ReputationReading, LeftOut, Worlds, Reputations
    <3> QED
      BY <1>2, <1>3, <3>1, <3>2 DEF LeftOut
  <2>4. CASE Unanswered(c)
    <3>1. CASE Fails(c)
      BY <1>7, <2>4, <3>1 DEF Unanswered
    <3>2. CASE ~Fails(c)
      <4>1. call'[c].at = "sleeping"
        BY <1>1, <2>4, <3>2 DEF Unanswered, CallRecords
      <4> QED
        BY <1>1, <4>1
    <3> QED
      BY <3>1, <3>2
  <2>5. CASE Refused(c)
    BY <1>7, <2>5 DEF Refused
  <2>6. CASE Garbled(c)
    <3>1. Return(c, "raised")
      BY <1>4, <2>6 DEF Garbled
    <3> QED
      BY <1>3, <3>1
  <2>7. ~Resend(c)
    <3>1. Resend(c) => call'[c].at = "sending"
      BY <1>1 DEF Resend, CallRecords
    <3> QED
      BY <1>1, <3>1
  <2> QED
    BY <1>8, <2>1, <2>2, <2>3, <2>4, <2>5, <2>6, <2>7 DEF Step
<1> QED
  BY <1>6, <1>8

LEMMA FreshStep ==
    ASSUME ~EmptyAnswers, ToolInv, [Next]_vars, NEW c \in Callers, role[c] = "threat_intel", call'[c] = Idle,
           call[c] # Idle \/ calls'[c] # calls[c], result'[c] \in {"clean", "unknown"}
    PROVE  sinceBad <= TTL
<1>1. Calls(c) \/ Step(c)
  <2>1. ~UNCHANGED vars
    BY DEF vars
  <2>2. ~Tick
    <3>1. Tick => UNCHANGED calls /\ call'[c].at = call[c].at
                  /\ (call[c].at = "idle" => call[c] = Idle)
      BY TickCalls DEF Tick
    <3> QED
      BY <3>1, IdleFields
  <2>3. ~TurnsBad
    BY DEF TurnsBad
  <2>4. ASSUME NEW e \in Callers, Calls(e) \/ Step(e) PROVE e = c
    BY <2>4, OthersStay
  <2> QED
    BY <2>1, <2>2, <2>3, <2>4 DEF Next
<1>2. sinceBad \in Nat /\ cache.age \in Nat /\ TTL \in Nat
  BY ToolClientsAssumption DEF ToolInv, TypeOK
<1>3. \/ cache.value \in {"clean", "unknown"} /\ cache.age <= TTL
      \/ world.indicator # "bad"
  BY <1>1, LookupEnds
<1> QED
  BY <1>2, <1>3 DEF ToolInv, CacheOK

\* As long as no answer leaves out the votes VirusTotal has, once an indicator has
\* been malicious for longer than ioc_cache_ttl_seconds no lookup of any caller
\* returns that it is clean or unknown, whatever other callers put into the cache
\* they share (vt_client._cache_get, _cache_put).
THEOREM ReputationIsFresh == ~EmptyAnswers => (Spec => ReputationFresh)
<1> SUFFICES ASSUME ~EmptyAnswers PROVE Spec => ReputationFresh
  OBVIOUS
<1>1. ToolInv /\ [Next]_vars =>
          [\A c \in Callers :
              /\ role[c] = "threat_intel" /\ call'[c] = Idle
              /\ (call[c] # Idle \/ calls'[c] # calls[c])
              /\ result'[c] \in {"clean", "unknown"}
              => sinceBad <= TTL]_vars
  BY FreshStep
<1> QED
  BY <1>1, ToolInvariant, PTL DEF Spec, ReputationFresh

=============================================================================
