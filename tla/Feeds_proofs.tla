---------------------------- MODULE Feeds_proofs ----------------------------
(***************************************************************************)
(* Theorems about Feeds for every number of processes, events, readers and *)
(* versions, and every set of scenes: an inventory lookup answers from     *)
(* what was at the path while it ran; what is queued has a record and is   *)
(* queued once; no event is missed that the overlap of polls can save, and *)
(* a search that stalls is reported once; a hunt keeps its bounds, and its *)
(* external tools are all or nothing; either dedupe index implements       *)
(* DedupePromise; every variable keeps its type.                           *)
(***************************************************************************)
EXTENDS Feeds, Dedupe_proofs, SequenceTheorems, WellFoundedInduction, TLAPS

-----------------------------------------------------------------------------
(* The inventory.                                                          *)

Files == Versions \cup {NoFile}
LookupPlaces == {"off", "idle", "locking", "loading", "returned", "raised"}
Lookups == [at: LookupPlaces, mtime: Nat \cup {NoMtime}, seen: SUBSET Files,
            reused: BOOLEAN, answer: Valid \cup {NoVersion}]
LoadedFiles == [version: Valid \cup {NoVersion}, mtime: Nat \cup {NoMtime}]

\* The file is among what its readers have seen since they began, and they know
\* whether its time was used before.  A time that was read, or loaded with, is one
\* the path has had: so when a file with a new time has the loaded time, what was
\* loaded is the file, even if a lookup loaded it with the time of its
\* predecessor.
FileInv ==
    /\ file \in Files /\ times \subseteq Nat /\ TimesOf(file) \subseteq times
    /\ again \in BOOLEAN
    /\ lookup \in [Readers -> Lookups]
    /\ loaded \in LoadedFiles
    /\ loaded.mtime # NoMtime => loaded.mtime \in times /\ loaded.version \in Valid
    /\ ~again /\ file # NoFile /\ loaded.mtime = mtimeOf[file] =>
          loaded.version = file /\ file \in Valid
    /\ \A r \in Readers :
          /\ lookup[r].at \in {"locking", "loading"} =>
                file \in lookup[r].seen /\ (again => lookup[r].reused)
          /\ lookup[r].at = "loading" => lookup[r].mtime \in times

LEMMA LookupChange ==
    ASSUME FileInv, LookupFresh, NEW r \in Readers, NEW k \in Lookups,
           lookup' = [lookup EXCEPT ![r] = k], UNCHANGED <<file, times, again>>,
           loaded' \in LoadedFiles,
           loaded'.mtime # NoMtime => loaded'.mtime \in times /\ loaded'.version \in Valid,
           ~again /\ file # NoFile /\ loaded'.mtime = mtimeOf[file] =>
              loaded'.version = file /\ file \in Valid,
           k.at \in {"locking", "loading"} => file \in k.seen /\ (again => k.reused),
           k.at = "loading" => k.mtime \in times,
           k.at = "returned" => k.answer \in Valid /\ (k.answer \in k.seen \/ k.reused),
           k.at = "raised" => \E f \in k.seen : f \notin Valid
    PROVE  FileInv' /\ LookupFresh'
BY DEF FileInv, LookupFresh

LEMMA StartKeepsFresh ==
    ASSUME FileInv, LookupFresh, NEW r \in Readers, StartLookup(r)
    PROVE  FileInv' /\ LookupFresh'
<1> DEFINE k == [NoLookup EXCEPT !.at = "locking", !.seen = {file}, !.reused = again]
<1>1. k \in Lookups /\ k.at = "locking" /\ k.seen = {file} /\ k.reused = again
  BY DEF NoLookup, Lookups, LookupPlaces, Files, FileInv
<1>2. lookup' = [lookup EXCEPT ![r] = k] /\ UNCHANGED <<file, times, again, loaded>>
  BY DEF StartLookup
<1> HIDE DEF k
<1> QED
  BY <1>1, <1>2, LookupChange DEF FileInv

LEMMA StatKeepsFresh ==
    ASSUME FileInv, LookupFresh, NEW r \in Readers, Stat(r)
    PROVE  FileInv' /\ LookupFresh'
<1>1. /\ lookup[r] \in Lookups /\ file \in lookup[r].seen /\ (again => lookup[r].reused)
      /\ file \in Files /\ UNCHANGED <<file, times, again, loaded>>
  BY DEF Stat, FileInv
<1>2. CASE file = NoFile /\ Raises(r)
  <2> DEFINE k == [lookup[r] EXCEPT !.at = "raised"]
  <2>1. k \in Lookups /\ k.at = "raised" /\ k.seen = lookup[r].seen
    BY <1>1 DEF Lookups, LookupPlaces
  <2>2. lookup' = [lookup EXCEPT ![r] = k]
    BY <1>2 DEF Raises
  <2>3. file \notin Valid
    BY <1>2, AssetFileAssumption
  <2> HIDE DEF k
  <2> QED
    BY <1>1, <2>1, <2>2, <2>3, LookupChange DEF FileInv
<1>3. CASE file # NoFile /\ lookup' = [lookup EXCEPT ![r].at = "loading",
                                                    ![r].mtime = mtimeOf[file]]
  <2> DEFINE k == [lookup[r] EXCEPT !.at = "loading", !.mtime = mtimeOf[file]]
  <2>1. mtimeOf[file] \in times /\ mtimeOf[file] \in Nat
    BY <1>1, <1>3 DEF FileInv, TimesOf
  <2>2. /\ k \in Lookups /\ k.at = "loading" /\ k.seen = lookup[r].seen
        /\ k.mtime = mtimeOf[file] /\ k.reused = lookup[r].reused
    BY <1>1, <2>1 DEF Lookups, LookupPlaces
  <2>3. lookup' = [lookup EXCEPT ![r] = k]
    BY <1>3
  <2>4. k.mtime \in times
    BY <2>1, <2>2
  <2>5. /\ loaded' \in LoadedFiles
        /\ loaded'.mtime # NoMtime => loaded'.mtime \in times /\ loaded'.version \in Valid
        /\ ~again /\ file # NoFile /\ loaded'.mtime = mtimeOf[file] =>
              loaded'.version = file /\ file \in Valid
    BY <1>1 DEF FileInv
  <2> HIDE DEF k
  <2> QED
    BY <1>1, <2>2, <2>3, <2>4, <2>5, LookupChange
<1>4. CASE file # NoFile /\ ~HasChanged(mtimeOf[file]) /\ Answers(r, loaded.version)
  <2> DEFINE k == [lookup[r] EXCEPT !.at = "returned", !.answer = loaded.version]
  <2>1. loaded.mtime = mtimeOf[file] /\ loaded.mtime # NoMtime
    BY <1>1, <1>4, AssetFileAssumption DEF HasChanged, NoMtime, Files
  <2>2. loaded.version \in Valid /\ (loaded.version \in lookup[r].seen \/ lookup[r].reused)
    BY <1>1, <1>4, <2>1 DEF FileInv
  <2>4. /\ k \in Lookups /\ k.at = "returned" /\ k.seen = lookup[r].seen
        /\ k.answer = loaded.version /\ k.reused = lookup[r].reused
    BY <1>1, <2>2 DEF Lookups, LookupPlaces
  <2>3. lookup' = [lookup EXCEPT ![r] = k]
    BY <1>4 DEF Answers
  <2> HIDE DEF k
  <2> QED
    BY <1>1, <2>2, <2>3, <2>4, LookupChange DEF FileInv
<1> QED
  BY <1>2, <1>3, <1>4 DEF Stat

LEMMA LoadKeepsFresh ==
    ASSUME FileInv, LookupFresh, NEW r \in Readers, Load(r)
    PROVE  FileInv' /\ LookupFresh'
<1>1. /\ lookup[r] \in Lookups /\ file \in lookup[r].seen
      /\ UNCHANGED <<file, times, again>> /\ lookup[r].mtime \in times
  BY DEF Load, FileInv
<1>2. CASE file \notin Valid /\ Raises(r) /\ UNCHANGED loaded
  <2> DEFINE k == [lookup[r] EXCEPT !.at = "raised"]
  <2>1. k \in Lookups /\ k.at = "raised" /\ k.seen = lookup[r].seen
    BY <1>1 DEF Lookups, LookupPlaces
  <2>2. lookup' = [lookup EXCEPT ![r] = k]
    BY <1>2 DEF Raises
  <2> HIDE DEF k
  <2> QED
    BY <1>1, <1>2, <2>1, <2>2, LookupChange DEF FileInv
<1>3. CASE /\ file \in Valid /\ Answers(r, file)
           /\ loaded' = [version |-> file, mtime |-> lookup[r].mtime]
  <2> DEFINE k == [lookup[r] EXCEPT !.at = "returned", !.answer = file]
  <2>1. k \in Lookups /\ k.at = "returned" /\ k.seen = lookup[r].seen /\ k.answer = file
    BY <1>1, <1>3 DEF Lookups, LookupPlaces
  <2>2. lookup' = [lookup EXCEPT ![r] = k]
    BY <1>3 DEF Answers
  <2>3. /\ loaded' \in LoadedFiles
        /\ loaded'.version = file /\ loaded'.mtime = lookup[r].mtime
    BY <1>1, <1>3 DEF Lookups, LoadedFiles
  <2> HIDE DEF k
  <2> QED
    BY <1>1, <1>3, <2>1, <2>2, <2>3, LookupChange
<1> QED
  BY <1>2, <1>3 DEF Load

LEMMA EditKeepsFresh ==
    ASSUME FileInv, LookupFresh, NEW f \in Files, Edit(f)
    PROVE  FileInv' /\ LookupFresh'
<1>1. /\ file' = f /\ times' = times \cup TimesOf(f) /\ UNCHANGED loaded
      /\ again' = (TimesOf(f) \cap times # {})
  BY DEF Edit
<1>2. TimesOf(f) \subseteq Nat /\ (f # NoFile => TimesOf(f) = {mtimeOf[f]})
  BY AssetFileAssumption DEF Files, TimesOf
<1>3. /\ file' \in Files /\ times' \subseteq Nat /\ TimesOf(file') \subseteq times'
      /\ times \subseteq times' /\ again' \in BOOLEAN
  BY <1>1, <1>2 DEF FileInv
<1>4. /\ lookup' \in [Readers -> Lookups]
      /\ \A r \in Readers :
            /\ lookup'[r].at = lookup[r].at /\ lookup'[r].mtime = lookup[r].mtime
            /\ lookup'[r].answer = lookup[r].answer
            /\ lookup[r].at \in {"locking", "loading"} =>
                  f \in lookup'[r].seen /\ (again' => lookup'[r].reused)
            /\ lookup[r].at \notin {"locking", "loading"} => lookup'[r] = lookup[r]
  <2> DEFINE k(r) == [lookup[r] EXCEPT !.seen = @ \cup {f}, !.reused = @ \/ again']
  <2>1. \A r \in Readers : lookup'[r] = IF lookup[r].at \in {"locking", "loading"}
                                        THEN k(r) ELSE lookup[r]
    BY DEF Edit
  <2>2. ASSUME NEW r \in Readers
        PROVE  /\ k(r) \in Lookups /\ k(r).at = lookup[r].at /\ k(r).mtime = lookup[r].mtime
               /\ k(r).answer = lookup[r].answer /\ f \in k(r).seen
               /\ (again' => k(r).reused)
    <3>1. lookup[r] \in Lookups
      BY DEF FileInv
    <3>2. (lookup[r].reused \/ again') \in BOOLEAN
      OBVIOUS
    <3> QED
      BY <3>1, <3>2 DEF Lookups
  <2>3. lookup' = [r \in Readers |-> lookup'[r]] /\ lookup \in [Readers -> Lookups]
    BY DEF Edit, FileInv
  <2> HIDE DEF k
  <2> QED
    BY <2>1, <2>2, <2>3
<1>5. /\ loaded' \in LoadedFiles
      /\ loaded'.mtime # NoMtime => loaded'.mtime \in times' /\ loaded'.version \in Valid
      /\ ~again' /\ file' # NoFile => loaded'.mtime # mtimeOf[file']
  <2>1. loaded' = loaded /\ loaded \in LoadedFiles
        /\ (loaded.mtime # NoMtime => loaded.mtime \in times /\ loaded.version \in Valid)
    BY <1>1 DEF FileInv
  <2>2. ASSUME ~again', file' # NoFile PROVE loaded.mtime # mtimeOf[file']
    <3>1. f # NoFile /\ mtimeOf[f] \in TimesOf(f) /\ mtimeOf[f] \in Nat
      BY <1>1, <1>2, <2>2
    <3>2. TimesOf(f) \cap times = {}
      BY <1>1, <2>2
    <3>3. mtimeOf[f] \notin times /\ mtimeOf[f] # NoMtime
      BY <3>1, <3>2 DEF NoMtime
    <3> QED
      BY <1>1, <2>1, <3>3
  <2> QED
    BY <1>3, <2>1, <2>2
<1>6. \A r \in Readers :
          /\ lookup'[r].at \in {"locking", "loading"} =>
                file' \in lookup'[r].seen /\ (again' => lookup'[r].reused)
          /\ lookup'[r].at = "loading" => lookup'[r].mtime \in times'
  BY <1>1, <1>3, <1>4 DEF FileInv
<1>7. FileInv'
  BY <1>3, <1>4, <1>5, <1>6 DEF FileInv, TimesOf
<1> QED
  BY <1>4, <1>7 DEF LookupFresh

\* Who moves the inventory.
LEMMA InventorySteps ==
    ASSUME [Next]_vars
    PROVE  \/ \E r \in Readers : StartLookup(r) \/ Stat(r) \/ Load(r)
           \/ \E f \in Files : Edit(f)
           \/ UNCHANGED assetVars
<1>1. CASE PollersMove \/ WorkersMove \/ UNCHANGED vars
  BY <1>1 DEF PollersMove, WorkersMove, vars
<1>2. CASE HunterMoves
  <2>1. reader \in Readers
    BY HunterAssumption
  <2>2. CASE HuntStep
    BY <2>1, <2>2
    DEF HuntStep, LookUp, LookupStep, LoadTools, ToolsAtHand, ToolsRaise, AskModel,
        OutOfBudget, CallLogTool, CallMcpTool, CallReturnsText, CallAssetTool,
        AssetToolAnswers, CallRefused, Report, ReportIsNone, HuntFails, SkipFinding,
        ClaimFinding, ClaimRaises, PutFinding, NextHunt, Exits, huntDeps
  <2>3. CASE \/ OpenServer /\ UNCHANGED <<storeVars, assetVars, huntVars>>
             \/ \E s \in Servers : Degrade(s) /\ UNCHANGED <<storeVars, assetVars, huntVars>>
    BY <2>3
  <2> QED
    BY <1>2, <2>2, <2>3 DEF HunterMoves, HunterNext
<1>3. CASE ReadersMove
  BY <1>3 DEF ReadersMove, LookupStep
<1>4. CASE FileChanges
  BY <1>4 DEF FileChanges, Files
<1> QED
  BY <1>1, <1>2, <1>3, <1>4 DEF Next

\* The invariant of the inventory.
LEMMA InventoryKept == Spec => [](FileInv /\ LookupFresh)
<1>1. Init => FileInv /\ LookupFresh
  <2> SUFFICES ASSUME Init PROVE FileInv /\ LookupFresh
    OBVIOUS
  <2>1. PICK on : AssetInit(on)
    BY DEF Init
  <2>2. /\ file \in Files /\ times = TimesOf(file) /\ again = FALSE
        /\ loaded.mtime = NoMtime /\ loaded \in LoadedFiles
    BY <2>1 DEF AssetInit, Files, LoadedFiles
  <2>5. TimesOf(file) \subseteq Nat
    BY <2>2, AssetFileAssumption DEF Files, TimesOf
  <2>3. file # NoFile => mtimeOf[file] # NoMtime
    BY <2>2, AssetFileAssumption DEF Files, NoMtime
  <2>4. /\ lookup \in [Readers -> Lookups]
        /\ \A r \in Readers : lookup[r].at \in {"idle", "off"}
    BY <2>1 DEF AssetInit, NoLookup, Lookups, LookupPlaces
  <2> QED
    BY <2>2, <2>3, <2>4, <2>5 DEF FileInv, LookupFresh
<1>2. FileInv /\ LookupFresh /\ [Next]_vars => FileInv' /\ LookupFresh'
  <2> SUFFICES ASSUME FileInv, LookupFresh, [Next]_vars PROVE FileInv' /\ LookupFresh'
    OBVIOUS
  <2>1. CASE UNCHANGED assetVars
    BY <2>1 DEF assetVars, FileInv, LookupFresh, TimesOf
  <2> QED
    BY <2>1, InventorySteps, StartKeepsFresh, StatKeepsFresh, LoadKeepsFresh, EditKeepsFresh
<1> QED
  BY <1>1, <1>2, PTL DEF Spec

\* A lookup answers from a version that was at the path while it ran, unless the
\* file had a time the path had had before, and fails only for one that was
\* missing or broken then (FileAssetInventory._refresh), for any number of
\* readers, any edits and any times.
THEOREM LookupsAreFresh == Spec => []LookupFresh
BY InventoryKept, PTL

-----------------------------------------------------------------------------
(* Claims and puts.                                                        *)

PollPlaces == {"off", "polling", "searching", "claiming", "putting", "waiting", "down"}
Polls == [at: PollPlaces, timer: Int, since: Int, rows: SUBSET Events, seen: BOOLEAN,
          hand: Events \cup {NoEvent}]
HuntPlaces == {"tools", "asking", "calling", "looking", "reporting", "filing", "putting",
               "exited"}
Hunts == [at: HuntPlaces, number: Int, used: Int, made: Int, calls: Int, findings: Int,
          filed: Int, id: HuntIds \cup {NoId}]

FeedTypes ==
    /\ registry \subseteq AlertIds /\ triaged \subseteq AlertIds
    /\ queue \in [Processes -> Seq(AlertIds)]
    /\ puts \in [AlertIds -> Nat]
    /\ indexed \subseteq Events
    /\ poll \in [Pollers -> Polls]
    /\ hunt \in Hunts

Holds(p) == poll[p].at = "putting"
HeldBy(p) == alertId[poll[p].hand]
HuntHolds == hunt.at = "putting"

\* An id without a record was never put.  An id between its claim and its put
\* has a record, was not put yet, and is in the hands of one feed alone.
ClaimInv ==
    /\ FeedTypes
    /\ QueuedIsRegistered
    /\ \A i \in AlertIds : puts[i] <= 1 /\ (i \notin registry => puts[i] = 0)
    /\ \A p \in Pollers : Holds(p) =>
          poll[p].hand \in Events /\ HeldBy(p) \in registry /\ puts[HeldBy(p)] = 0
    /\ \A p, q \in Pollers : Holds(p) /\ Holds(q) /\ HeldBy(p) = HeldBy(q) => p = q
    /\ HuntHolds => /\ hunt.id \in registry /\ puts[hunt.id] = 0
                    /\ \A p \in Pollers : Holds(p) => HeldBy(p) # hunt.id

\* Nobody claims for himself and nobody puts: records may be made, a queue may
\* be lost, hands may be emptied.
LEMMA HandsEmptied ==
    ASSUME ClaimInv, FeedTypes', registry \subseteq registry',
           UNCHANGED <<triaged, puts>>,
           \A p \in Processes : queue'[p] \in {queue[p], <<>>},
           \A p \in Pollers : poll'[p].at = "putting" => poll'[p] = poll[p],
           hunt'.at = "putting" => hunt' = hunt
    PROVE  ClaimInv'
<1>1. QueuedIsRegistered'
  BY DEF ClaimInv, QueuedIsRegistered
<1>2. \A i \in AlertIds : puts'[i] <= 1 /\ (i \notin registry' => puts'[i] = 0)
  BY DEF ClaimInv
<1>3. \A p \in Pollers : Holds(p)' => Holds(p) /\ HeldBy(p)' = HeldBy(p) /\ poll'[p] = poll[p]
  BY DEF Holds, HeldBy
<1>4. HuntHolds' => HuntHolds /\ hunt' = hunt
  BY DEF HuntHolds
<1> QED
  BY <1>1, <1>2, <1>3, <1>4 DEF ClaimInv

LEMMA ClaimIsFirst ==
    ASSUME ClaimInv, NEW i \in AlertIds, i \notin registry, Claimed(i)
    PROVE  /\ puts[i] = 0 /\ puts' = puts /\ registry' = registry \cup {i}
           /\ \A p \in Pollers : Holds(p) => HeldBy(p) # i
           /\ HuntHolds => hunt.id # i
           /\ QueuedIsRegistered'
BY DEF ClaimInv, Claimed, QueuedIsRegistered

LEMMA PutRegistered ==
    ASSUME ClaimInv, NEW p \in Processes, NEW i \in registry, puts[i] = 0, QueuePut(p, i)
    PROVE  /\ QueuedIsRegistered' /\ queue' \in [Processes -> Seq(AlertIds)]
           /\ puts' \in [AlertIds -> Nat] /\ puts'[i] = 1
           /\ \A j \in AlertIds : j # i => puts'[j] = puts[j]
           /\ UNCHANGED <<registry, triaged>>
<1>1. /\ queue \in [Processes -> Seq(AlertIds)] /\ i \in AlertIds /\ puts \in [AlertIds -> Nat]
      /\ queue' = [queue EXCEPT ![p] = Append(queue[p], i)]
      /\ puts' = [puts EXCEPT ![i] = puts[i] + 1] /\ UNCHANGED <<registry, triaged>>
  BY DEF ClaimInv, FeedTypes, QueuePut
<1>2. /\ Append(queue[p], i) \in Seq(AlertIds)
      /\ DOMAIN Append(queue[p], i) = 1..(Len(queue[p]) + 1)
      /\ Append(queue[p], i)[Len(queue[p]) + 1] = i
      /\ \A n \in 1..Len(queue[p]) : Append(queue[p], i)[n] = queue[p][n]
  BY <1>1, AppendProperties, LenProperties
<1>3. \A n \in 1..(Len(queue[p]) + 1) : n \in 1..Len(queue[p]) \/ n = Len(queue[p]) + 1
  BY <1>1, LenProperties
<1>4. \A n \in DOMAIN Append(queue[p], i) : Append(queue[p], i)[n] \in registry
  BY <1>1, <1>2, <1>3, LenProperties DEF ClaimInv, QueuedIsRegistered
<1>5. QueuedIsRegistered'
  BY <1>1, <1>4 DEF ClaimInv, QueuedIsRegistered
<1> QED
  BY <1>1, <1>2, <1>5

LEMMA WorkKeepsClaims ==
    ASSUME ClaimInv, NEW p \in Pollers, Work(p), UNCHANGED <<pollerVars, hunt>>
    PROVE  ClaimInv'
<1>1. p \in Processes
  BY PollerAssumption
<1>2. /\ queue \in [Processes -> Seq(AlertIds)] /\ queue[p] # <<>>
      /\ queue' = [queue EXCEPT ![p] = Tail(queue[p])]
      /\ triaged' = triaged \cup {Head(queue[p])} /\ UNCHANGED <<registry, puts>>
  BY DEF ClaimInv, FeedTypes, Work
<1>3. /\ Tail(queue[p]) \in Seq(AlertIds) /\ 1 \in DOMAIN queue[p]
      /\ Head(queue[p]) = queue[p][1]
      /\ \A n \in DOMAIN Tail(queue[p]) :
            n + 1 \in DOMAIN queue[p] /\ Tail(queue[p])[n] = queue[p][n + 1]
  BY <1>1, <1>2, HeadTailProperties, LenProperties
<1>4. QueuedIsRegistered'
  BY <1>1, <1>2, <1>3 DEF ClaimInv, QueuedIsRegistered
<1>5. FeedTypes'
  BY <1>1, <1>2, <1>3, <1>4 DEF ClaimInv, FeedTypes, pollerVars, QueuedIsRegistered
<1> QED
  BY <1>2, <1>4, <1>5 DEF ClaimInv, Holds, HeldBy, HuntHolds, pollerVars

\* A poller whose hand is empty after the step.
LEMMA PollerLetsGo ==
    ASSUME ClaimInv, NEW p \in Pollers, NEW r \in Polls, r.at # "putting", Becomes(p, r),
           registry \subseteq registry', registry' \subseteq AlertIds,
           UNCHANGED <<triaged, puts, indexed, hunt>>,
           queue' \in [Processes -> Seq(AlertIds)],
           \A q \in Processes : queue'[q] \in {queue[q], <<>>}
    PROVE  ClaimInv'
<1>1. /\ poll' \in [Pollers -> Polls] /\ poll'[p] = r
      /\ \A q \in Pollers : q # p => poll'[q] = poll[q]
  BY DEF ClaimInv, FeedTypes, Becomes
<1>2. FeedTypes'
  BY <1>1 DEF ClaimInv, FeedTypes
<1> QED
  BY <1>1, <1>2, HandsEmptied

LEMMA IdleIsPoll == NotPolling \in Polls /\ Slack \in Int
BY PollerAssumption DEF NotPolling, Polls, PollPlaces, NoEvent, Slack, Lookback

\* A claim that fails may have been made; one that succeeds fills the hand.
LEMMA MaybeClaimed ==
    ASSUME ClaimInv, NEW e \in Events, UNCHANGED storeVars \/ Claimed(alertId[e])
    PROVE  /\ registry \subseteq registry' /\ registry' \subseteq AlertIds
           /\ UNCHANGED <<triaged, puts, queue>>
<1>1. alertId[e] \in AlertIds
  BY PollerAssumption
<1> QED
  BY <1>1 DEF ClaimInv, FeedTypes, storeVars, Claimed

LEMMA ClaimKeepsClaims ==
    ASSUME ClaimInv, NEW p \in Pollers, NEW e \in Events, Claim(p, e), UNCHANGED hunt
    PROVE  ClaimInv'
<1>1. poll[p] \in Polls /\ alertId[e] \in AlertIds
  BY PollerAssumption DEF ClaimInv, FeedTypes
<1>2. CASE alertId[e] \in registry
  <2> DEFINE r == [poll[p] EXCEPT !.rows = @ \ {e}]
  <2>1. r \in Polls /\ r.at = "claiming"
    BY <1>1 DEF Claim, Polls
  <2>2. Becomes(p, r) /\ UNCHANGED <<registry, queue, triaged, puts, indexed>>
    BY <1>2 DEF Claim, storeVars
  <2> HIDE DEF r
  <2> QED
    BY <2>1, <2>2, PollerLetsGo DEF ClaimInv, FeedTypes
<1>3. CASE alertId[e] \notin registry
  <2> DEFINE r == [poll[p] EXCEPT !.rows = @ \ {e}, !.at = "putting", !.hand = e]
  <2>1. r \in Polls /\ r.hand = e
    BY <1>1 DEF Claim, Polls, PollPlaces
  <2>2. Becomes(p, r) /\ Claimed(alertId[e]) /\ UNCHANGED indexed
    BY <1>3 DEF Claim
  <2> HIDE DEF r
  <2>3. /\ puts[alertId[e]] = 0 /\ puts' = puts /\ registry' = registry \cup {alertId[e]}
        /\ \A q \in Pollers : Holds(q) => HeldBy(q) # alertId[e]
        /\ HuntHolds => hunt.id # alertId[e]
        /\ QueuedIsRegistered'
    BY <1>1, <1>3, <2>2, ClaimIsFirst
  <2>4. /\ poll' \in [Pollers -> Polls] /\ poll'[p] = r
        /\ \A q \in Pollers : q # p => poll'[q] = poll[q]
    BY <2>1, <2>2 DEF ClaimInv, FeedTypes, Becomes
  <2>5. FeedTypes'
    BY <1>1, <2>2, <2>3, <2>4 DEF ClaimInv, FeedTypes, Claimed
  <2>6. /\ HeldBy(p)' = alertId[e]
        /\ \A q \in Pollers : q # p => Holds(q)' = Holds(q) /\ HeldBy(q)' = HeldBy(q)
    BY <2>1, <2>4 DEF Holds, HeldBy
  <2>7. \A q \in Pollers : Holds(q)' =>
            poll'[q].hand \in Events /\ HeldBy(q)' \in registry' /\ puts'[HeldBy(q)'] = 0
    BY <2>1, <2>3, <2>4, <2>6 DEF ClaimInv
  <2>8. \A q, o \in Pollers : Holds(q)' /\ Holds(o)' /\ HeldBy(q)' = HeldBy(o)' => q = o
    BY <2>3, <2>6 DEF ClaimInv
  <2>9. HuntHolds' => /\ hunt'.id \in registry' /\ puts'[hunt'.id] = 0
                      /\ \A q \in Pollers : Holds(q)' => HeldBy(q)' # hunt'.id
    BY <2>3, <2>6 DEF ClaimInv, HuntHolds
  <2> QED
    BY <2>3, <2>5, <2>7, <2>8, <2>9 DEF ClaimInv
<1> QED
  BY <1>2, <1>3

LEMMA PutKeepsClaims ==
    ASSUME ClaimInv, NEW p \in Pollers, Put(p), UNCHANGED hunt
    PROVE  ClaimInv'
<1> DEFINE r == [poll[p] EXCEPT !.at = "claiming", !.hand = NoEvent]
           i == HeldBy(p)
<1>1. /\ Holds(p) /\ i \in registry /\ i \in AlertIds /\ puts[i] = 0
      /\ poll[p] \in Polls /\ p \in Processes
  BY PollerAssumption DEF Put, Holds, ClaimInv, FeedTypes
<1>2. QueuePut(p, i) /\ Becomes(p, r) /\ UNCHANGED indexed
  BY DEF Put, HeldBy
<1>3. r \in Polls /\ r.at # "putting"
  BY <1>1 DEF Polls, PollPlaces
<1> HIDE DEF r, i
<1>4. /\ QueuedIsRegistered' /\ queue' \in [Processes -> Seq(AlertIds)]
      /\ puts' \in [AlertIds -> Nat] /\ puts'[i] = 1
      /\ \A j \in AlertIds : j # i => puts'[j] = puts[j]
      /\ UNCHANGED <<registry, triaged>>
  BY <1>1, <1>2, PutRegistered
<1>5. /\ poll' \in [Pollers -> Polls] /\ poll'[p] = r
      /\ \A q \in Pollers : q # p => poll'[q] = poll[q]
  BY <1>2, <1>3 DEF ClaimInv, FeedTypes, Becomes
<1>6. FeedTypes'
  BY <1>2, <1>4, <1>5 DEF ClaimInv, FeedTypes
<1>7. /\ ~Holds(p)'
      /\ \A q \in Pollers : q # p => Holds(q)' = Holds(q) /\ HeldBy(q)' = HeldBy(q)
  BY <1>3, <1>5 DEF Holds, HeldBy
<1>8. \A q \in Pollers : Holds(q)' => q # p /\ Holds(q) /\ HeldBy(q) # i
  BY <1>1, <1>7 DEF ClaimInv, i
<1>9. \A q \in Pollers : Holds(q)' =>
          poll'[q].hand \in Events /\ HeldBy(q)' \in registry' /\ puts'[HeldBy(q)'] = 0
  BY <1>4, <1>5, <1>7, <1>8 DEF ClaimInv, FeedTypes
<1>10. HuntHolds' => /\ hunt'.id \in registry' /\ puts'[hunt'.id] = 0
                     /\ \A q \in Pollers : Holds(q)' => HeldBy(q)' # hunt'.id
  BY <1>1, <1>4, <1>7, <1>8 DEF ClaimInv, FeedTypes, HuntHolds, i
<1>11. \A j \in AlertIds : puts'[j] <= 1 /\ (j \notin registry' => puts'[j] = 0)
  BY <1>1, <1>4 DEF ClaimInv
<1>12. \A q, o \in Pollers : Holds(q)' /\ Holds(o)' /\ HeldBy(q)' = HeldBy(o)' => q = o
  BY <1>7, <1>8 DEF ClaimInv
<1> QED
  BY <1>4, <1>6, <1>9, <1>10, <1>11, <1>12 DEF ClaimInv

\* One step of a poll, its process's stop and its worker included.
LEMMA PollerKeepsClaims ==
    ASSUME ClaimInv, NEW p \in Pollers, PollStep(p) \/ Crash(p), UNCHANGED hunt
    PROVE  ClaimInv'
<1>1. poll[p] \in Polls /\ NotPolling \in Polls /\ NotPolling.at = "off"
  BY IdleIsPoll DEF ClaimInv, FeedTypes, NotPolling
<1>2. ASSUME NEW r \in Polls, r.at # "putting", Becomes(p, r), UNCHANGED <<storeVars, indexed>>
      PROVE  ClaimInv'
  BY <1>2, PollerLetsGo DEF storeVars, ClaimInv, FeedTypes
<1>3. CASE Search(p)
  <2> DEFINE r == [NotPolling EXCEPT !.at = "searching", !.timer = SearchTime,
                                     !.rows = {e \in indexed : InWindow(e)}]
  <2>1. SearchTime \in Int /\ {e \in indexed : InWindow(e)} \in SUBSET Events
    BY PollerAssumption DEF ClaimInv, FeedTypes
  <2>2. r \in Polls /\ r.at # "putting"
    BY <1>1, <2>1 DEF Polls, PollPlaces
  <2>3. Becomes(p, r) /\ UNCHANGED <<storeVars, indexed>>
    BY <1>3 DEF Search
  <2> HIDE DEF r
  <2> QED
    BY <1>2, <2>2, <2>3
<1>4. CASE SearchAnswers(p)
  <2> DEFINE r == [poll[p] EXCEPT !.at = "claiming", !.seen = poll[p].rows # {}]
  <2>1. r \in Polls /\ r.at # "putting"
    BY <1>1 DEF Polls, PollPlaces
  <2>2. Becomes(p, r) /\ UNCHANGED <<storeVars, indexed>>
    BY <1>4 DEF SearchAnswers
  <2> HIDE DEF r
  <2> QED
    BY <1>2, <2>1, <2>2
<1>5. CASE \E e \in Events : Claim(p, e)
  BY <1>5, ClaimKeepsClaims
<1>6. CASE Put(p)
  BY <1>6, PutKeepsClaims
<1> DEFINE w == [NotPolling EXCEPT !.at = "waiting", !.timer = Interval]
<1>7. w \in Polls /\ w.at # "putting"
  <2>1. Interval \in Int
    BY PollerAssumption
  <2> QED
    BY <1>1, <2>1 DEF Polls, PollPlaces
<1>8. Waiting(p) => Becomes(p, w)
  BY DEF Waiting
<1> HIDE DEF w
<1>9. CASE Finish(p)
  BY <1>2, <1>7, <1>8, <1>9 DEF Finish
<1>10. CASE PollFails(p)
  <2>1. UNCHANGED storeVars \/ \E e \in Events : UNCHANGED storeVars \/ Claimed(alertId[e])
    BY <1>1, <1>10 DEF PollFails, Polls
  <2>2. Becomes(p, w) /\ UNCHANGED indexed
    BY <1>8, <1>10 DEF PollFails, Abandoned
  <2>3. CASE UNCHANGED storeVars
    BY <1>2, <1>7, <2>2, <2>3
  <2>4. ASSUME NEW e \in Events, UNCHANGED storeVars \/ Claimed(alertId[e])
        PROVE  ClaimInv'
    BY <1>7, <2>2, <2>4, MaybeClaimed, PollerLetsGo DEF ClaimInv, FeedTypes
  <2> QED
    BY <2>1, <2>3, <2>4
<1> DEFINE anew == [NotPolling EXCEPT !.at = "polling"]
<1>11. anew \in Polls /\ anew.at # "putting"
  BY <1>1 DEF Polls, PollPlaces
<1>12. CASE Wake(p) \/ Restart(p)
  <2>1. Becomes(p, anew) /\ UNCHANGED <<storeVars, indexed>>
    BY <1>12 DEF Wake, Restart
  <2> HIDE DEF anew
  <2> QED
    BY <1>2, <1>11, <2>1
<1>13. CASE Crash(p)
  <2> DEFINE d == [NotPolling EXCEPT !.at = "down"]
  <2>1. d \in Polls /\ d.at # "putting"
    BY <1>1 DEF Polls, PollPlaces
  <2>2. Becomes(p, d) /\ UNCHANGED <<registry, triaged, puts, indexed>>
        /\ queue' = [queue EXCEPT ![p] = <<>>]
    BY <1>13 DEF Crash
  <2>3. /\ queue' \in [Processes -> Seq(AlertIds)]
        /\ \A q \in Processes : queue'[q] \in {queue[q], <<>>}
    <3>1. <<>> \in Seq(AlertIds) /\ queue \in [Processes -> Seq(AlertIds)] /\ p \in Processes
      BY EmptySeq, PollerAssumption DEF ClaimInv, FeedTypes
    <3> QED
      BY <2>2, <3>1
  <2> HIDE DEF d
  <2> QED
    BY <2>1, <2>2, <2>3, PollerLetsGo DEF ClaimInv, FeedTypes
<1> QED
  BY <1>3, <1>4, <1>5, <1>6, <1>9, <1>10, <1>12, <1>13 DEF PollStep

\* Events, the indexer and the clock.
LEMMA WorldKeepsClaims ==
    ASSUME ClaimInv, (\E e \in Events : Happens(e) \/ Index(e)) \/ Tick, UNCHANGED hunt
    PROVE  ClaimInv'
<1>1. CASE \E e \in Events : Happens(e) \/ Index(e)
  <2>1. FeedTypes' /\ UNCHANGED <<poll, registry, queue, triaged, puts>>
    BY <1>1 DEF Happens, Index, ClaimInv, FeedTypes, storeVars
  <2> QED
    BY <2>1, HandsEmptied
<1>2. CASE Tick
  <2>1. \A p \in Pollers : /\ Aged(poll[p]) \in Polls
                            /\ Aged(poll[p]).at = poll[p].at
                            /\ Aged(poll[p]).hand = poll[p].hand
    <3> TAKE p \in Pollers
    <3>1. poll[p] \in Polls
      BY DEF ClaimInv, FeedTypes
    <3>2. UpTo(poll[p].since + 1, Slack + 1) \in Int /\ poll[p].timer - 1 \in Int
      BY <3>1, IdleIsPoll DEF UpTo, Polls
    <3> QED
      BY <3>1, <3>2 DEF Aged, Polls
  <2>2. poll' = [p \in Pollers |-> Aged(poll[p])]
        /\ UNCHANGED <<indexed, registry, queue, triaged, puts>>
    BY <1>2 DEF Tick, storeVars
  <2>3. \A p \in Pollers : Holds(p)' = Holds(p) /\ HeldBy(p)' = HeldBy(p)
                            /\ poll'[p].hand = poll[p].hand
    BY <2>1, <2>2 DEF Holds, HeldBy
  <2>4. FeedTypes'
    BY <2>1, <2>2 DEF ClaimInv, FeedTypes
  <2>5. QueuedIsRegistered' /\ UNCHANGED <<HuntHolds>>
    BY <2>2 DEF ClaimInv, QueuedIsRegistered, HuntHolds
  <2> QED
    BY <2>2, <2>3, <2>4, <2>5 DEF ClaimInv
<1> QED
  BY <1>1, <1>2

\* The hunt's hand is empty after the step.
LEMMA HuntLetsGo ==
    ASSUME ClaimInv, hunt' \in Hunts, hunt'.at # "putting", UNCHANGED <<poll, indexed>>,
           registry \subseteq registry', registry' \subseteq AlertIds,
           UNCHANGED <<triaged, puts>>,
           queue' \in [Processes -> Seq(AlertIds)],
           \A q \in Processes : queue'[q] \in {queue[q], <<>>}
    PROVE  ClaimInv'
<1>1. FeedTypes'
  BY DEF ClaimInv, FeedTypes
<1> QED
  BY <1>1, HandsEmptied

\* Edits of the hunt's record, one field at a time.
LEMMA HuntEdits ==
    ASSUME NEW h \in Hunts
    PROVE  /\ \A place \in HuntPlaces : /\ [h EXCEPT !.at = place] \in Hunts
                                        /\ [h EXCEPT !.at = place].at = place
           /\ \A i \in HuntIds \cup {NoId} : /\ [h EXCEPT !.id = i] \in Hunts
                                            /\ [h EXCEPT !.id = i].id = i
                                            /\ [h EXCEPT !.id = i].at = h.at
           /\ \A n \in Int : /\ [h EXCEPT !.findings = n] \in Hunts
                             /\ [h EXCEPT !.findings = n].id = h.id
                             /\ [h EXCEPT !.findings = n].at = h.at
           /\ \A n \in Int : /\ [h EXCEPT !.filed = n] \in Hunts
                             /\ [h EXCEPT !.filed = n].at = h.at
           /\ \A n \in Int : [h EXCEPT !.calls = n] \in Hunts
           /\ \A n \in Int : [h EXCEPT !.used = n] \in Hunts
           /\ \A n \in Int : [h EXCEPT !.made = n] \in Hunts
           /\ \A n \in Int : [h EXCEPT !.calls = n].at = h.at
           /\ h.findings - 1 \in Int /\ h.filed + 1 \in Int /\ h.used + 1 \in Int
           /\ h.made + 1 \in Int /\ h.calls - 1 \in Int
BY DEF Hunts

LEMMA FindingClaimed ==
    ASSUME ClaimInv, ClaimFinding, UNCHANGED pollerVars
    PROVE  ClaimInv'
<1>1. PICK i \in HuntIds \ registry :
          Claimed(i) /\ hunt' = [hunt EXCEPT !.at = "putting", !.id = i, !.findings = @ - 1]
  BY DEF ClaimFinding
<1>2. i \in AlertIds /\ hunt \in Hunts
  BY HunterAssumption DEF ClaimInv, FeedTypes
<1>3. hunt' \in Hunts /\ hunt'.id = i
  <2> DEFINE h1 == [hunt EXCEPT !.at = "putting"]
             h2 == [h1 EXCEPT !.id = i]
             h3 == [h2 EXCEPT !.findings = hunt.findings - 1]
  <2>1. h1 \in Hunts
    BY <1>2, HuntEdits DEF HuntPlaces
  <2>2. hunt' = h3
    BY <1>1
  <2> HIDE DEF h1
  <2>3. h2 \in Hunts /\ h2.id = i
    BY <1>1, <2>1, HuntEdits
  <2> HIDE DEF h2
  <2>4. h3 \in Hunts /\ h3.id = i
    BY <1>2, <2>3, HuntEdits
  <2> HIDE DEF h3
  <2> QED
    BY <2>2, <2>4
<1>4. /\ puts[i] = 0 /\ puts' = puts /\ registry' = registry \cup {i}
      /\ \A q \in Pollers : Holds(q) => HeldBy(q) # i
      /\ QueuedIsRegistered'
  BY <1>1, <1>2, ClaimIsFirst
<1>5. FeedTypes'
  BY <1>1, <1>2, <1>3, <1>4 DEF ClaimInv, FeedTypes, pollerVars, Claimed
<1>6. \A q \in Pollers : Holds(q)' = Holds(q) /\ HeldBy(q)' = HeldBy(q) /\ poll'[q] = poll[q]
  BY DEF Holds, HeldBy, pollerVars
<1> QED
  BY <1>2, <1>3, <1>4, <1>5, <1>6 DEF ClaimInv, HuntHolds

LEMMA FindingPut ==
    ASSUME ClaimInv, PutFinding, UNCHANGED pollerVars
    PROVE  ClaimInv'
<1> DEFINE i == hunt.id
<1>1. /\ HuntHolds /\ i \in registry /\ puts[i] = 0 /\ i \in AlertIds
      /\ hunter \in Processes /\ hunt \in Hunts
      /\ \A q \in Pollers : Holds(q) => HeldBy(q) # i
  BY HunterAssumption DEF PutFinding, At, HuntHolds, ClaimInv, FeedTypes
<1>2. /\ QueuePut(hunter, i)
      /\ hunt' = [hunt EXCEPT !.at = "filing", !.id = NoId, !.filed = @ + 1]
  BY DEF PutFinding
<1>3. hunt' \in Hunts /\ hunt'.at # "putting"
  <2> DEFINE h1 == [hunt EXCEPT !.at = "filing"]
             h2 == [h1 EXCEPT !.id = NoId]
             h3 == [h2 EXCEPT !.filed = hunt.filed + 1]
  <2>1. h1 \in Hunts /\ h1.at = "filing"
    BY <1>1, HuntEdits DEF HuntPlaces
  <2>2. hunt' = h3
    BY <1>2
  <2> HIDE DEF h1
  <2>3. h2 \in Hunts /\ h2.at = "filing"
    BY <2>1, HuntEdits
  <2> HIDE DEF h2
  <2>4. h3 \in Hunts /\ h3.at = "filing"
    BY <1>1, <2>3, HuntEdits
  <2> HIDE DEF h3
  <2> QED
    BY <2>2, <2>4
<1> HIDE DEF i
<1>4. /\ QueuedIsRegistered' /\ queue' \in [Processes -> Seq(AlertIds)]
      /\ puts' \in [AlertIds -> Nat] /\ puts'[i] = 1
      /\ \A j \in AlertIds : j # i => puts'[j] = puts[j]
      /\ UNCHANGED <<registry, triaged>>
  BY <1>1, <1>2, PutRegistered
<1>5. FeedTypes'
  BY <1>3, <1>4 DEF ClaimInv, FeedTypes, pollerVars
<1>6. \A q \in Pollers : Holds(q)' = Holds(q) /\ HeldBy(q)' = HeldBy(q) /\ poll'[q] = poll[q]
  BY DEF Holds, HeldBy, pollerVars
<1>7. \A j \in AlertIds : puts'[j] <= 1 /\ (j \notin registry' => puts'[j] = 0)
  BY <1>1, <1>4 DEF ClaimInv
<1>8. \A q \in Pollers : Holds(q)' =>
          poll'[q].hand \in Events /\ HeldBy(q)' \in registry' /\ puts'[HeldBy(q)'] = 0
  BY <1>1, <1>4, <1>6 DEF ClaimInv, FeedTypes
<1>9. \A q, o \in Pollers : Holds(q)' /\ Holds(o)' /\ HeldBy(q)' = HeldBy(o)' => q = o
  BY <1>6 DEF ClaimInv
<1> QED
  BY <1>3, <1>4, <1>5, <1>7, <1>8, <1>9 DEF ClaimInv, HuntHolds

LEMMA PlaceKept ==
    ASSUME NEW h \in Hunts, NEW place \in HuntPlaces, place # "putting",
           hunt' = [h EXCEPT !.at = place]
    PROVE  hunt' \in Hunts /\ hunt'.at # "putting"
<1> DEFINE f == [h EXCEPT !.at = place]
<1>1. f \in Hunts /\ f.at # "putting"
  BY HuntEdits
<1>2. hunt' = f
  OBVIOUS
<1> HIDE DEF f
<1> QED
  BY <1>1, <1>2

LEMMA CallsCounted ==
    ASSUME NEW h \in Hunts, hunt \in Hunts
    PROVE  /\ Counted \in Hunts
           /\ NextCall(h) \in Hunts /\ NextCall(h).at # "putting"
<1> DEFINE c1 == [hunt EXCEPT !.used = hunt.used + 1]
           c2 == [c1 EXCEPT !.made = hunt.made + 1]
           c3 == [c2 EXCEPT !.calls = hunt.calls - 1]
<1>1. c1 \in Hunts
  BY HuntEdits
<1>2. Counted = c3
  BY DEF Counted
<1> HIDE DEF c1
<1>3. c2 \in Hunts
  BY <1>1, HuntEdits
<1> HIDE DEF c2
<1>4. c3 \in Hunts
  BY <1>3, HuntEdits
<1>5. NextCall(h) \in Hunts /\ NextCall(h).at # "putting"
  <2> DEFINE place == IF h.calls = 0 THEN "asking" ELSE "calling"
  <2>1. place \in HuntPlaces /\ place # "putting" /\ NextCall(h) = [h EXCEPT !.at = place]
    BY DEF HuntPlaces, NextCall
  <2> HIDE DEF place
  <2> QED
    BY <2>1, HuntEdits
<1> QED
  BY <1>2, <1>4, <1>5

\* The steps of a hunt that touch neither the registry nor the queues.
LEMMA QuietHuntSteps ==
    ASSUME hunt \in Hunts,
           \/ ToolsAtHand \/ AskModel \/ OutOfBudget
           \/ CallLogTool \/ CallMcpTool \/ CallAssetTool \/ AssetToolAnswers \/ CallRefused
           \/ Report \/ HuntFails \/ SkipFinding
    PROVE  hunt' \in Hunts /\ hunt'.at # "putting" /\ UNCHANGED storeVars
<1>1. UNCHANGED storeVars
  BY DEF ToolsAtHand, AskModel, OutOfBudget, CallLogTool, CallMcpTool, CallReturnsText,
         CallAssetTool, AssetToolAnswers, CallRefused, Report, HuntFails,
         SkipFinding, huntDeps
<1> SUFFICES hunt' \in Hunts /\ hunt'.at # "putting"
  BY <1>1
<1>2. CASE ToolsAtHand \/ OutOfBudget
  <2>1. PICK place \in {"asking", "reporting"} : hunt' = [hunt EXCEPT !.at = place]
    BY <1>2 DEF ToolsAtHand, OutOfBudget, Goes
  <2>2. place \in HuntPlaces /\ place # "putting"
    BY DEF HuntPlaces
  <2> QED
    BY <2>1, <2>2, PlaceKept
<1>3. CASE AskModel
  <2>1. PICK n \in 0..MaxBatch :
           hunt' = [hunt EXCEPT !.calls = n, !.at = IF n = 0 THEN "reporting" ELSE "calling"]
    BY <1>3 DEF AskModel
  <2> DEFINE h == [hunt EXCEPT !.calls = n]
             place == IF n = 0 THEN "reporting" ELSE "calling"
  <2>2. n \in Int /\ place \in HuntPlaces /\ place # "putting"
    BY HunterAssumption DEF HuntPlaces
  <2>3. h \in Hunts
    BY <2>2, HuntEdits
  <2>4. hunt' = [h EXCEPT !.at = place]
    BY <2>1
  <2> HIDE DEF h, place
  <2> QED
    BY <2>2, <2>3, <2>4, PlaceKept
<1>4. CASE CallLogTool \/ CallMcpTool
  <2>1. hunt' = NextCall(Counted)
    BY <1>4 DEF CallLogTool, CallMcpTool, CallReturnsText
  <2>2. Counted \in Hunts
    BY CallsCounted
  <2>3. NextCall(Counted) \in Hunts /\ NextCall(Counted).at # "putting"
    BY <2>2, CallsCounted
  <2> QED
    BY <2>1, <2>3
<1>5. CASE CallAssetTool
  <2>1. Counted \in Hunts /\ "looking" \in HuntPlaces
    BY CallsCounted DEF HuntPlaces
  <2>2. hunt' = [Counted EXCEPT !.at = "looking"]
    BY <1>5 DEF CallAssetTool
  <2> QED
    BY <2>1, <2>2, PlaceKept
<1>6. CASE AssetToolAnswers
  <2>1. hunt' = NextCall(hunt)
    BY <1>6 DEF AssetToolAnswers
  <2>2. NextCall(hunt) \in Hunts /\ NextCall(hunt).at # "putting"
    BY CallsCounted
  <2> QED
    BY <2>1, <2>2
<1>7. ASSUME NEW h \in Hunts, hunt' = [h EXCEPT !.at = "filing", !.calls = 0]
      PROVE  hunt' \in Hunts /\ hunt'.at # "putting"
  <2> DEFINE f == [h EXCEPT !.at = "filing"]
             c == [f EXCEPT !.calls = 0]
  <2>1. f \in Hunts /\ f.at = "filing"
    BY HuntEdits DEF HuntPlaces
  <2>2. hunt' = c
    BY <1>7
  <2> HIDE DEF f
  <2>3. c \in Hunts /\ c.at = "filing"
    BY <2>1, HuntEdits
  <2> HIDE DEF c
  <2> QED
    BY <2>2, <2>3
<1>8. CASE CallRefused
  <2>1. hunt' = [Counted EXCEPT !.at = "filing", !.calls = 0]
    BY <1>8 DEF CallRefused
  <2>2. Counted \in Hunts
    BY CallsCounted
  <2> QED
    BY <1>7, <2>1, <2>2
<1>9. CASE HuntFails
  <2>1. hunt' = [hunt EXCEPT !.at = "filing", !.calls = 0]
    BY <1>9 DEF HuntFails
  <2> QED
    BY <1>7, <2>1
<1>10. CASE Report
  <2>1. PICK n \in 0..MaxFindings :
           hunt' = [hunt EXCEPT !.at = "filing", !.findings = IF n < Cap THEN n ELSE Cap]
    BY <1>10 DEF Report
  <2> DEFINE f == [hunt EXCEPT !.at = "filing"]
             m == IF n < Cap THEN n ELSE Cap
             g == [f EXCEPT !.findings = m]
  <2>2. m \in Int
    BY HunterAssumption
  <2>3. f \in Hunts /\ f.at = "filing"
    BY HuntEdits DEF HuntPlaces
  <2>4. hunt' = g
    BY <2>1
  <2> HIDE DEF f, m
  <2>5. g \in Hunts /\ g.at = "filing"
    BY <2>2, <2>3, HuntEdits
  <2> HIDE DEF g
  <2> QED
    BY <2>4, <2>5
<1>11. CASE SkipFinding
  <2> DEFINE g == [hunt EXCEPT !.findings = hunt.findings - 1]
  <2>1. hunt' = g /\ hunt.at = "filing"
    BY <1>11 DEF SkipFinding, At
  <2>2. g \in Hunts /\ g.at = hunt.at
    BY HuntEdits
  <2> HIDE DEF g
  <2> QED
    BY <2>1, <2>2
<1> QED
  BY <1>1, <1>2, <1>3, <1>4, <1>5, <1>6, <1>8, <1>9, <1>10, <1>11

\* The process that hunts ends; a record may have been made.
LEMMA ExitKeepsClaims ==
    ASSUME ClaimInv, Exits, registry \subseteq registry', registry' \subseteq AlertIds,
           UNCHANGED pollerVars
    PROVE  ClaimInv'
<1>1. /\ hunt \in Hunts /\ queue \in [Processes -> Seq(AlertIds)] /\ hunter \in Processes
      /\ <<>> \in Seq(AlertIds) /\ UNCHANGED <<poll, indexed, triaged, puts>>
  BY HunterAssumption, EmptySeq DEF ClaimInv, FeedTypes, pollerVars, Exits
<1>2. hunt' \in Hunts /\ hunt'.at # "putting"
  BY <1>1, HuntEdits DEF Exits, Goes, HuntPlaces
<1>3. /\ queue' \in [Processes -> Seq(AlertIds)]
      /\ \A q \in Processes : queue'[q] \in {queue[q], <<>>}
  BY <1>1 DEF Exits
<1> QED
  BY <1>1, <1>2, <1>3, HuntLetsGo

LEMMA NextHuntKeepsClaims ==
    ASSUME ClaimInv, NextHunt, UNCHANGED pollerVars
    PROVE  ClaimInv'
<1>1. /\ hunt \in Hunts /\ queue \in [Processes -> Seq(AlertIds)] /\ registry \subseteq AlertIds
      /\ UNCHANGED <<poll, indexed>>
  BY DEF ClaimInv, FeedTypes, pollerVars
<1>2. CASE hunt' = NewHunt(hunt.number + 1) /\ UNCHANGED huntDeps
  <2>1. hunt.number + 1 \in Int
    BY <1>1 DEF Hunts
  <2>2. hunt' \in Hunts /\ hunt'.at # "putting"
    BY <1>2, <2>1 DEF NewHunt, Hunts, HuntPlaces
  <2> QED
    BY <1>1, <1>2, <2>2, HuntLetsGo DEF storeVars, huntDeps
<1>3. CASE Exits /\ UNCHANGED registry
  BY <1>1, <1>3, ExitKeepsClaims
<1> QED
  BY <1>2, <1>3 DEF NextHunt

\* Neither the store, nor a poll, nor the hunt has moved.
LEMMA ElsewhereKeepsClaims ==
    ASSUME ClaimInv, UNCHANGED <<registry, queue, triaged, puts, poll, indexed, hunt>>
    PROVE  ClaimInv'
<1>1. FeedTypes'
  BY DEF ClaimInv, FeedTypes
<1> QED
  BY <1>1, HandsEmptied

LEMMA NextKeepsClaims ==
    ASSUME ClaimInv, [Next]_vars
    PROVE  ClaimInv'
<1>1. CASE PollersMove
  <2>1. UNCHANGED hunt
    BY <1>1 DEF PollersMove, huntVars
  <2>2. CASE \E p \in Pollers : PollStep(p) \/ Crash(p)
    BY <2>1, <2>2, PollerKeepsClaims
  <2>3. CASE \E p \in Pollers : Work(p) /\ UNCHANGED pollerVars
    BY <2>1, <2>3, WorkKeepsClaims
  <2>4. CASE (\E e \in Events : Happens(e) \/ Index(e)) \/ Tick
    BY <2>1, <2>4, WorldKeepsClaims
  <2> QED
    BY <1>1, <2>2, <2>3, <2>4 DEF PollersMove, PollerNext
<1>2. CASE HunterMoves
  <2>1. UNCHANGED pollerVars /\ UNCHANGED <<poll, indexed>>
    BY <1>2 DEF HunterMoves, pollerVars
  <2>2. CASE \/ LookUp \/ LoadTools
             \/ OpenServer /\ UNCHANGED <<storeVars, assetVars, huntVars>>
             \/ \E s \in Servers : Degrade(s) /\ UNCHANGED <<storeVars, assetVars, huntVars>>
    <3>1. UNCHANGED <<storeVars, hunt>>
      BY <2>2 DEF LookUp, LoadTools, huntVars
    <3> QED
      BY <2>1, <3>1, ElsewhereKeepsClaims DEF storeVars
  <2>3. CASE \/ ToolsAtHand \/ AskModel \/ OutOfBudget
             \/ CallLogTool \/ CallMcpTool \/ CallAssetTool \/ AssetToolAnswers
             \/ CallRefused \/ Report \/ HuntFails \/ SkipFinding
    <3>1. hunt' \in Hunts /\ hunt'.at # "putting" /\ UNCHANGED storeVars
      BY <2>3, QuietHuntSteps DEF ClaimInv, FeedTypes
    <3> QED
      BY <2>1, <3>1, HuntLetsGo DEF storeVars, ClaimInv, FeedTypes
  <2>4. CASE ClaimFinding
    BY <2>1, <2>4, FindingClaimed
  <2>5. CASE PutFinding
    BY <2>1, <2>5, FindingPut
  <2>6. CASE NextHunt
    BY <2>1, <2>6, NextHuntKeepsClaims
  <2>7. CASE ToolsRaise \/ ReportIsNone \/ ClaimRaises
    <3>1. Exits /\ registry \subseteq registry' /\ registry' \subseteq AlertIds
      BY <2>7, HunterAssumption DEF ToolsRaise, ReportIsNone, ClaimRaises, ClaimInv, FeedTypes
    <3> QED
      BY <2>1, <3>1, ExitKeepsClaims
  <2> QED
    BY <1>2, <2>2, <2>3, <2>4, <2>5, <2>6, <2>7 DEF HunterMoves, HunterNext, HuntStep
<1>3. CASE ReadersMove \/ FileChanges \/ WorkersMove \/ UNCHANGED vars
  <2>1. UNCHANGED <<storeVars, pollerVars, hunt>>
    BY <1>3 DEF ReadersMove, FileChanges, WorkersMove, vars, huntVars
  <2> QED
    BY <2>1, ElsewhereKeepsClaims DEF storeVars, pollerVars
<1> QED
  BY <1>1, <1>2, <1>3 DEF Next

LEMMA InitClaims ==
    ASSUME Init
    PROVE  ClaimInv
<1>1. PICK scene \in Scenes :
         /\ StoreInit({alertId[e] : e \in scene.old})
         /\ PollerInit(scene.pollers, scene.old, scene.stops)
         /\ HuntInit(scene.hunting)
  BY DEF Init
<1>2. scene.old \subseteq Events
  BY FeedsAssumption
<1>3. registry \subseteq AlertIds /\ indexed \subseteq Events
  BY <1>1, <1>2, PollerAssumption DEF StoreInit, PollerInit
<1>4. /\ triaged = {} /\ queue = [p \in Processes |-> <<>>]
      /\ puts = [i \in AlertIds |-> 0]
  BY <1>1 DEF StoreInit
<1>5. poll \in [Pollers -> Polls] /\ \A p \in Pollers : poll[p].at # "putting"
  <2> DEFINE r(p) == [NotPolling EXCEPT !.at = IF p \in scene.pollers THEN "polling" ELSE "off"]
  <2>1. \A p \in Pollers : r(p) \in Polls /\ r(p).at # "putting"
    BY IdleIsPoll DEF Polls, PollPlaces
  <2>2. poll = [p \in Pollers |-> r(p)]
    BY <1>1 DEF PollerInit
  <2> HIDE DEF r
  <2> QED
    BY <2>1, <2>2
<1>6. hunt \in Hunts /\ hunt.at # "putting"
  <2>1. NewHunt(1) \in Hunts /\ NewHunt(1).at = "tools"
    BY DEF NewHunt, Hunts, HuntPlaces
  <2>2. hunt = NewHunt(1) \/ hunt = [NewHunt(1) EXCEPT !.at = "exited"]
    BY <1>1 DEF HuntInit
  <2> DEFINE h == NewHunt(1)
             g == [h EXCEPT !.at = "exited"]
  <2>3. "exited" \in HuntPlaces
    BY DEF HuntPlaces
  <2>4. h \in Hunts /\ h.at = "tools" /\ (hunt = h \/ hunt = g)
    BY <2>1, <2>2
  <2> HIDE DEF h
  <2>5. g \in Hunts /\ g.at = "exited"
    BY <2>3, <2>4, HuntEdits
  <2> HIDE DEF g
  <2> QED
    BY <2>4, <2>5
<1>7. queue \in [Processes -> Seq(AlertIds)] /\ puts \in [AlertIds -> Nat]
  BY <1>4, EmptySeq
<1>8. FeedTypes
  BY <1>3, <1>4, <1>5, <1>6, <1>7 DEF FeedTypes
<1>9. QueuedIsRegistered
  <2>1. DOMAIN <<>> = {}
    BY EmptySeq
  <2> QED
    BY <1>4, <2>1 DEF QueuedIsRegistered
<1> QED
  BY <1>4, <1>5, <1>6, <1>8, <1>9 DEF ClaimInv, Holds, HuntHolds

\* "An alert_id already seen is never enqueued twice" (poll_loop, file_findings):
\* for any number of processes that poll, hunt, stop and start again.
THEOREM PutOnce == Spec => []NeverTwice
<1>1. ClaimInv => NeverTwice
  BY DEF ClaimInv, NeverTwice
<1> QED
  BY <1>1, InitClaims, NextKeepsClaims, PTL DEF Spec

\* What is on a queue, or was taken from one, has a record (create_if_absent
\* comes before the put in every feed).
THEOREM QueuedHasRecord == Spec => []QueuedIsRegistered
<1>1. ClaimInv => QueuedIsRegistered
  BY DEF ClaimInv
<1> QED
  BY <1>1, InitClaims, NextKeepsClaims, PTL DEF Spec

-----------------------------------------------------------------------------
(* The dedupe indexes.                                                     *)

\* Either index keeps DedupePromise: a worker is told of the first alert of its
\* kind in the window and of how many there were (InMemoryDedupeIndex.check,
\* PostgresDedupeIndex.check), for any number of workers and any window.
THEOREM IndexKeepsPromise == Spec => KeepsPromise
<1>1. Init => DedupeInv /\ Promise!Init
  BY DedupeInitPromised DEF Init
<1>2. DedupeInv /\ [Next]_vars => DedupeInv' /\ [Promise!Next]_<<Claims, told>>
  <2> SUFFICES ASSUME DedupeInv, [Next]_vars
               PROVE  DedupeInv' /\ (Promise!Next \/ UNCHANGED <<Claims, told>>)
    OBVIOUS
  <2>1. DedupeNext \/ UNCHANGED dedupeVars
    BY DEF Next, vars, PollersMove, HunterMoves, ReadersMove, FileChanges, WorkersMove
  <2> QED
    BY <2>1, StepPromised
<1> QED
  BY <1>1, <1>2, PTL DEF Spec, KeepsPromise, Promise!Spec, Claims

-----------------------------------------------------------------------------
(* The bounds of a hunt.                                                   *)

BeforeReport == {"tools", "asking", "calling", "looking", "reporting"}

\* The calls made and those still to run stay within the bound the last answer
\* was admitted under; a finding in hand counts as filed.
HuntInv ==
    /\ hunt.used = hunt.made /\ hunt.calls >= 0 /\ hunt.findings >= 0
    /\ hunt.at = "calling" => hunt.calls > 0
    /\ hunt.at \in {"tools", "asking"} => hunt.calls = 0
    /\ hunt.made + hunt.calls <= Budget - 1 + MaxBatch
    /\ hunt.at \in BeforeReport => hunt.findings = 0 /\ hunt.filed = 0
    /\ hunt.filed + hunt.findings + (IF hunt.at = "putting" THEN 1 ELSE 0) <= Cap

\* Where a step leaves the hunt, and its numbers.
Numbers(place, u, m, c, f, d) ==
    /\ hunt'.at = place /\ hunt'.used = u /\ hunt'.made = m
    /\ hunt'.calls = c /\ hunt'.findings = f /\ hunt'.filed = d

LEMMA HuntKeepsBounds ==
    ASSUME hunt \in Hunts, hunt' \in Hunts, HuntInv, HuntStep
    PROVE  HuntInv'
<1>0. /\ hunt.used \in Int /\ hunt.made \in Int /\ hunt.calls \in Int
      /\ hunt.findings \in Int /\ hunt.filed \in Int
      /\ Budget \in Nat \ {0} /\ MaxBatch \in Nat \ {0} /\ Cap \in Nat \ {0}
  BY HunterAssumption DEF Hunts
<1>1. CASE LookUp \/ LoadTools
  BY <1>1 DEF LookUp, LoadTools, huntVars, HuntInv
<1>2. CASE ToolsAtHand
  <2>1. /\ hunt.at = "tools"
        /\ Numbers("asking", hunt.used, hunt.made, hunt.calls, hunt.findings, hunt.filed)
    BY <1>2 DEF ToolsAtHand, At, Goes, Numbers, Hunts
  <2> QED
    BY <1>0, <2>1 DEF HuntInv, Numbers, BeforeReport
<1>3. CASE AskModel
  <2>1. \E n \in 0..MaxBatch :
           /\ hunt.at = "asking" /\ hunt.used < Budget
           /\ Numbers(IF n = 0 THEN "reporting" ELSE "calling", hunt.used, hunt.made, n,
                      hunt.findings, hunt.filed)
    BY <1>3 DEF AskModel, At, Numbers, Hunts
  <2> QED
    BY <1>0, <2>1 DEF HuntInv, Numbers, BeforeReport
<1>4. CASE OutOfBudget
  <2>1. /\ hunt.at = "asking"
        /\ Numbers("reporting", hunt.used, hunt.made, hunt.calls, hunt.findings, hunt.filed)
    BY <1>4 DEF OutOfBudget, At, Goes, Numbers, Hunts
  <2> QED
    BY <1>0, <2>1 DEF HuntInv, Numbers, BeforeReport
<1>5. CASE CallLogTool \/ CallMcpTool
  <2>1. /\ hunt.at = "calling"
        /\ Numbers(IF hunt.calls = 1 THEN "asking" ELSE "calling", hunt.used + 1,
                   hunt.made + 1, hunt.calls - 1, hunt.findings, hunt.filed)
    <3>1. CallReturnsText
      BY <1>5 DEF CallLogTool, CallMcpTool
    <3> QED
      BY <3>1 DEF CallReturnsText, At, NextCall, Counted, Numbers, Hunts
  <2>2. hunt.findings = 0 /\ hunt.filed = 0 /\ hunt.calls > 0
    BY <2>1 DEF HuntInv, BeforeReport
  <2> QED
    BY <1>0, <2>1, <2>2 DEF HuntInv, Numbers, BeforeReport
<1>6. CASE CallAssetTool
  <2>1. /\ hunt.at = "calling"
        /\ Numbers("looking", hunt.used + 1, hunt.made + 1, hunt.calls - 1,
                   hunt.findings, hunt.filed)
    BY <1>6 DEF CallAssetTool, At, Counted, Numbers, Hunts
  <2>2. hunt.findings = 0 /\ hunt.filed = 0 /\ hunt.calls > 0
    BY <2>1 DEF HuntInv, BeforeReport
  <2> QED
    BY <1>0, <2>1, <2>2 DEF HuntInv, Numbers, BeforeReport
<1>7. CASE AssetToolAnswers
  <2>1. /\ hunt.at = "looking"
        /\ Numbers(IF hunt.calls = 0 THEN "asking" ELSE "calling", hunt.used, hunt.made,
                   hunt.calls, hunt.findings, hunt.filed)
    BY <1>7 DEF AssetToolAnswers, At, NextCall, Numbers, Hunts
  <2>2. hunt.findings = 0 /\ hunt.filed = 0
    BY <2>1 DEF HuntInv, BeforeReport
  <2> QED
    BY <1>0, <2>1, <2>2 DEF HuntInv, Numbers, BeforeReport
<1>8. CASE CallRefused
  <2>1. /\ hunt.at = "calling"
        /\ Numbers("filing", hunt.used + 1, hunt.made + 1, 0, hunt.findings, hunt.filed)
    BY <1>8 DEF CallRefused, At, Counted, Numbers, Hunts
  <2> QED
    BY <1>0, <2>1 DEF HuntInv, Numbers, BeforeReport
<1>9. CASE HuntFails
  <2>1. /\ hunt.at \in BeforeReport
        /\ Numbers("filing", hunt.used, hunt.made, 0, hunt.findings, hunt.filed)
    BY <1>9 DEF HuntFails, At, BeforeReport, Numbers, Hunts
  <2>2. hunt.findings = 0 /\ hunt.filed = 0
    BY <2>1 DEF HuntInv, BeforeReport
  <2> QED
    BY <1>0, <2>1, <2>2 DEF HuntInv, Numbers, BeforeReport
<1>10. CASE Report
  <2>1. \E n \in 0..Cap :
           /\ hunt.at = "reporting"
           /\ Numbers("filing", hunt.used, hunt.made, hunt.calls, n, hunt.filed)
    <3>1. PICK n \in 0..MaxFindings :
             hunt' = [hunt EXCEPT !.at = "filing", !.findings = IF n < Cap THEN n ELSE Cap]
      BY <1>10 DEF Report
    <3> DEFINE m == IF n < Cap THEN n ELSE Cap
    <3>2. m \in 0..Cap
      BY HunterAssumption
    <3>3. hunt' = [hunt EXCEPT !.at = "filing", !.findings = m]
      BY <3>1
    <3> HIDE DEF m
    <3>4. Numbers("filing", hunt.used, hunt.made, hunt.calls, m, hunt.filed)
      BY <3>3 DEF Numbers, Hunts
    <3> QED
      BY <1>10, <3>2, <3>4 DEF Report, At
  <2> QED
    BY <1>0, <2>1 DEF HuntInv, Numbers, BeforeReport
<1>11. CASE SkipFinding
  <2>1. /\ hunt.at = "filing" /\ hunt.findings > 0
        /\ Numbers("filing", hunt.used, hunt.made, hunt.calls, hunt.findings - 1, hunt.filed)
    BY <1>11 DEF SkipFinding, At, Numbers, Hunts
  <2> QED
    BY <1>0, <2>1 DEF HuntInv, Numbers, BeforeReport
<1>12. CASE ClaimFinding
  <2>1. /\ hunt.at = "filing" /\ hunt.findings > 0
        /\ Numbers("putting", hunt.used, hunt.made, hunt.calls, hunt.findings - 1, hunt.filed)
    BY <1>12 DEF ClaimFinding, At, Numbers, Hunts
  <2> QED
    BY <1>0, <2>1 DEF HuntInv, Numbers, BeforeReport
<1>13. CASE PutFinding
  <2>1. /\ hunt.at = "putting"
        /\ Numbers("filing", hunt.used, hunt.made, hunt.calls, hunt.findings, hunt.filed + 1)
    BY <1>13 DEF PutFinding, At, Numbers, Hunts
  <2> QED
    BY <1>0, <2>1 DEF HuntInv, Numbers, BeforeReport
<1>14. CASE Exits /\ hunt.at # "putting"
  <2>1. Numbers("exited", hunt.used, hunt.made, hunt.calls, hunt.findings, hunt.filed)
    BY <1>14 DEF Exits, Goes, Numbers, Hunts
  <2> QED
    BY <1>0, <1>14, <2>1 DEF HuntInv, Numbers, BeforeReport
<1>15. CASE ToolsRaise \/ ReportIsNone \/ ClaimRaises
  BY <1>14, <1>15 DEF ToolsRaise, ReportIsNone, ClaimRaises, At
<1>16. CASE NextHunt
  <2>1. CASE hunt' = NewHunt(hunt.number + 1)
    <3>1. Numbers("tools", 0, 0, 0, 0, 0)
      BY <2>1 DEF NewHunt, Numbers
    <3> QED
      BY <1>0, <3>1 DEF HuntInv, Numbers
  <2>2. CASE Exits
    BY <1>14, <1>16, <2>2 DEF NextHunt, At
  <2> QED
    BY <1>16, <2>1, <2>2 DEF NextHunt
<1> QED
  BY <1>1, <1>2, <1>3, <1>4, <1>5, <1>6, <1>7, <1>8, <1>9, <1>10, <1>11, <1>12, <1>13, <1>15,
     <1>16
  DEF HuntStep

\* "Bounded": a hunt overshoots its budget of tool calls by less than one answer
\* of the model and files no more than the limit (hunt, file_findings), for every
\* budget, limit and size of answer.
THEOREM HuntsAreBounded == Spec => []HuntBounded
<1>1. Init => HuntInv
  <2> SUFFICES ASSUME Init PROVE HuntInv
    OBVIOUS
  <2>1. PICK scene \in Scenes : HuntInit(scene.hunting)
    BY DEF Init
  <2>2. /\ hunt.at \in {"tools", "exited"} /\ hunt.used = 0 /\ hunt.made = 0
        /\ hunt.calls = 0 /\ hunt.findings = 0 /\ hunt.filed = 0
    BY <2>1 DEF HuntInit, NewHunt
  <2> QED
    BY <2>2, HunterAssumption DEF HuntInv
<1>2. ClaimInv /\ HuntInv /\ [Next]_vars => ClaimInv' /\ HuntInv'
  <2> SUFFICES ASSUME ClaimInv, HuntInv, [Next]_vars PROVE ClaimInv' /\ HuntInv'
    OBVIOUS
  <2>1. ClaimInv' /\ hunt \in Hunts /\ hunt' \in Hunts
    BY NextKeepsClaims DEF ClaimInv, FeedTypes
  <2>2. HuntStep \/ UNCHANGED hunt
    <3>1. CASE HunterMoves
      BY <3>1 DEF HunterMoves, HunterNext, huntVars
    <3>2. CASE ~HunterMoves
      BY <3>2 DEF Next, PollersMove, ReadersMove, FileChanges, WorkersMove, vars, huntVars
    <3> QED
      BY <3>1, <3>2
  <2>3. CASE UNCHANGED hunt
    BY <2>1, <2>3 DEF HuntInv
  <2> QED
    BY <2>1, <2>2, <2>3, HuntKeepsBounds
<1>3. ClaimInv /\ HuntInv => HuntBounded
  BY HunterAssumption DEF ClaimInv, FeedTypes, Hunts, HuntInv, HuntBounded
<1> QED
  BY <1>1, <1>2, <1>3, InitClaims, PTL DEF Spec

-----------------------------------------------------------------------------
(* What polls leave behind.                                                *)

PollRecords == [at: PollPlaces, timer: Nat, since: 0..(Slack + 1), rows: SUBSET Events,
                seen: BOOLEAN, hand: Events \cup {NoEvent}]
HealthRecords == [empty: 0..Threshold, warned: BOOLEAN, warnings: Nat]

\* A poll that is not under way has no time behind it.
PollOK(k) == k.at \in {"off", "polling", "waiting", "down"} => k.since = 0

\* A stall is warned of when it is recorded, and once.
HealthOK(h) == /\ h.warnings = IF h.warned THEN 1 ELSE 0
               /\ h.empty >= Threshold => h.warned

\* An event of age a that has no record was not found by the search of the last
\* poll that was finished, g + k.since ticks ago: it was not indexed then, so it
\* was at most MaxLag old.  So it is with the search under way, of k.since ticks
\* ago, unless the event is among its rows.
Covered(k, g, e, a) ==
    k.at # "off" /\ g <= Slack /\ k.since <= Slack =>
        /\ a <= MaxLag + g + k.since
        /\ k.at \in {"searching", "claiming", "putting"} =>
              e \in k.rows \/ a <= MaxLag + k.since

PollerInv ==
    /\ PollerTypeOK
    /\ \A p \in Pollers : PollOK(poll[p]) /\ HealthOK(health[p])
    /\ \A e \in Events : e \notin indexed => age[e] <= MaxLag
    /\ \A p \in Pollers, e \in Events :
          alertId[e] \notin registry => Covered(poll[p], gap[p], e, age[e])

LEMMA Times ==
    /\ Lookback \in Nat /\ MaxLag \in Nat /\ Slack \in Nat \ {0} /\ Lookback = MaxLag + Slack
    /\ Interval \in Nat /\ SearchTime \in Nat /\ Threshold \in Nat \ {0}
BY PollerAssumption DEF Lookback, Slack

\* What is known of a poller.
LEMMA PollerFacts ==
    ASSUME PollerInv, NEW p \in Pollers
    PROVE  /\ poll[p] \in PollRecords /\ poll[p].since \in 0..(Slack + 1) /\ gap[p] \in 0..(Slack + 1)
           /\ poll[p].timer \in Nat /\ poll[p].rows \in SUBSET Events
           /\ health[p] \in HealthRecords /\ PollOK(poll[p]) /\ HealthOK(health[p])
           /\ \A e \in Events : age[e] \in -1..(Lookback + 1)
           /\ \A e \in Events : alertId[e] \notin registry => Covered(poll[p], gap[p], e, age[e])
BY DEF PollerInv, PollerTypeOK, PollRecords, PollPlaces, HealthRecords

LEMMA NotPollingRecord ==
    /\ NotPolling \in PollRecords /\ NotPolling.since = 0 /\ NotPolling.at = "off"
    /\ NotPolling.rows = {}
BY Times DEF NotPolling, PollRecords, PollPlaces, NoEvent

LEMMA HealthyRecord == Healthy \in HealthRecords /\ HealthOK(Healthy)
BY Times DEF Healthy, HealthRecords, HealthOK

\* A poll's result is recorded.
LEMMA RecordedHealth ==
    ASSUME NEW h \in HealthRecords, HealthOK(h), NEW s \in BOOLEAN
    PROVE  Warned(Recorded(h, s)) \in HealthRecords /\ HealthOK(Warned(Recorded(h, s)))
<1> DEFINE r == Recorded(h, s)
<1> HIDE DEF r
<1>1. r \in HealthRecords /\ r.warnings = IF r.warned THEN 1 ELSE 0
  <2>1. CASE s
    <3>1. r = [h EXCEPT !.empty = 0, !.warned = FALSE, !.warnings = 0]
      BY <2>1 DEF Recorded, r
    <3>2. 0 \in 0..Threshold
      BY Times
    <3>3. r \in HealthRecords /\ ~r.warned /\ r.warnings = 0
      BY <3>1, <3>2 DEF HealthRecords
    <3> QED
      BY <3>3
  <2>2. CASE ~s
    <3> DEFINE n == UpTo(h.empty + 1, Threshold)
    <3>1. n \in 0..Threshold
      BY Times DEF UpTo, HealthRecords
    <3>2. r = [h EXCEPT !.empty = n]
      BY <2>2 DEF Recorded, r
    <3> HIDE DEF n
    <3> QED
      BY <3>1, <3>2 DEF HealthRecords, HealthOK
  <2> QED
    BY <2>1, <2>2
<1> SUFFICES Warned(r) \in HealthRecords /\ HealthOK(Warned(r))
  BY DEF r
<1>2. CASE r.empty < Threshold \/ r.warned
  <2>1. Warned(r) = r
    BY <1>2 DEF Warned
  <2>2. r.empty \in Nat /\ r.warned \in BOOLEAN
    BY <1>1, Times DEF HealthRecords
  <2>3. r.empty >= Threshold => r.warned
    BY <1>2, <2>2, Times
  <2> QED
    BY <1>1, <2>1, <2>3 DEF HealthOK
<1>3. CASE ~(r.empty < Threshold \/ r.warned)
  <2> DEFINE w == [r EXCEPT !.warned = TRUE, !.warnings = r.warnings + 1]
  <2>1. Warned(r) = w
    <3>1. Warned(r) = [r EXCEPT !.warned = TRUE, !.warnings = @ + 1]
      BY <1>3 DEF Warned
    <3>2. [r EXCEPT !.warned = TRUE].warnings = r.warnings
      BY <1>1 DEF HealthRecords
    <3> QED
      BY <3>1, <3>2
  <2>2. ~r.warned /\ r.warnings = 0
    <3>1. ~r.warned
      BY <1>3
    <3> QED
      BY <1>1, <3>1
  <2>3. w \in HealthRecords /\ w.warned /\ w.warnings = 1
    <3>1. w = [r EXCEPT !.warned = TRUE, !.warnings = 1]
      BY <2>2
    <3> HIDE DEF w
    <3> QED
      BY <1>1, <3>1 DEF HealthRecords
  <2> HIDE DEF w
  <2> QED
    BY <2>1, <2>3 DEF HealthOK
<1> QED
  BY <1>2, <1>3

\* One poller goes on.
LEMMA PollerMoves ==
    ASSUME PollerInv, NEW p \in Pollers, NEW k \in PollRecords, NEW g \in 0..(Slack + 1),
           NEW h \in HealthRecords, HealthOK(h), PollOK(k), spare' \in Nat,
           Becomes(p, k), gap' = [gap EXCEPT ![p] = g], health' = [health EXCEPT ![p] = h],
           UNCHANGED <<age, indexed>>, registry \subseteq registry',
           \A e \in Events : alertId[e] \notin registry' => Covered(k, g, e, age[e])
    PROVE  PollerInv'
<1>1. /\ poll \in [Pollers -> PollRecords] /\ gap \in [Pollers -> 0..(Slack + 1)]
      /\ health \in [Pollers -> HealthRecords]
  BY DEF PollerInv, PollerTypeOK, PollRecords, PollPlaces, HealthRecords
<1>2. /\ poll' \in [Pollers -> PollRecords] /\ gap' \in [Pollers -> 0..(Slack + 1)]
      /\ health' \in [Pollers -> HealthRecords]
      /\ poll'[p] = k /\ gap'[p] = g /\ health'[p] = h
      /\ \A q \in Pollers : q # p =>
            poll'[q] = poll[q] /\ gap'[q] = gap[q] /\ health'[q] = health[q]
  BY <1>1 DEF Becomes
<1>3. PollerTypeOK'
  BY <1>2 DEF PollerInv, PollerTypeOK, PollRecords, PollPlaces, HealthRecords
<1>4. \A q \in Pollers : PollOK(poll'[q]) /\ HealthOK(health'[q])
  BY <1>2 DEF PollerInv
<1>5. \A q \in Pollers, e \in Events :
         alertId[e] \notin registry' => Covered(poll'[q], gap'[q], e, age[e])
  BY <1>2 DEF PollerInv
<1>6. \A e \in Events : e \notin indexed' => age'[e] <= MaxLag
  BY DEF PollerInv
<1>7. \A q \in Pollers, e \in Events :
         alertId[e] \notin registry' => Covered(poll'[q], gap'[q], e, age'[e])
  BY <1>5
<1>8. /\ (\A q \in Pollers : PollOK(poll[q]) /\ HealthOK(health[q]))'
      /\ (\A q \in Pollers, e \in Events :
            alertId[e] \notin registry => Covered(poll[q], gap[q], e, age[e]))'
  BY <1>4, <1>7 DEF PollOK, HealthOK, Covered
<1> QED
  BY <1>3, <1>6, <1>8 DEF PollerInv

\* Sums of ticks, cut off where a gap is too long.
LEMMA Capped ==
    ASSUME NEW m \in Nat, NEW n \in Nat
    PROVE  /\ UpTo(m + n, Slack + 1) \in 0..(Slack + 1)
           /\ UpTo(m + n, Slack + 1) <= Slack =>
                 UpTo(m + n, Slack + 1) = m + n /\ m <= Slack /\ n <= Slack
BY Times DEF UpTo

\* A poll ends without a result: the gap is what it was and the poll's time.
LEMMA GapGrown ==
    ASSUME PollerInv, NEW p \in Pollers, NEW k \in PollRecords, k.since = 0,
           k.at \notin {"searching", "claiming", "putting"}, poll[p].at # "off",
           NEW e \in Events, alertId[e] \notin registry
    PROVE  Covered(k, UpTo(gap[p] + poll[p].since, Slack + 1), e, age[e])
<1> DEFINE g == UpTo(gap[p] + poll[p].since, Slack + 1)
<1>1. gap[p] \in Nat /\ poll[p].since \in Nat /\ age[e] \in Int
  BY PollerFacts, Times
<1>2. g \in Nat /\ (g <= Slack => /\ g = gap[p] + poll[p].since /\ gap[p] <= Slack
                                  /\ poll[p].since <= Slack)
  BY <1>1, Capped, Times
<1>3. Covered(poll[p], gap[p], e, age[e])
  BY PollerFacts
<1> HIDE DEF g
<1>4. g <= Slack => age[e] <= MaxLag + g + k.since
  BY <1>1, <1>2, <1>3, Times DEF Covered
<1> QED
  BY <1>4 DEF Covered, g

\* A search finds every event of the window that is indexed.
LEMMA SearchCovers ==
    ASSUME PollerInv, NEW p \in Pollers, Search(p)
    PROVE  PollerInv'
<1> DEFINE k == [NotPolling EXCEPT !.at = "searching", !.timer = SearchTime,
                                   !.rows = {e \in indexed : InWindow(e)}]
<1>1. {e \in indexed : InWindow(e)} \in SUBSET Events
  BY DEF PollerInv, PollerTypeOK
<1>2. /\ k \in PollRecords /\ k.at = "searching" /\ k.since = 0
      /\ k.rows = {e \in indexed : InWindow(e)}
  BY <1>1, NotPollingRecord, Times DEF PollRecords, PollPlaces
<1>3. /\ Becomes(p, k) /\ poll[p].at = "polling"
      /\ UNCHANGED <<registry, age, indexed, health, gap, spare>>
  BY DEF Search, storeVars
<1> HIDE DEF k
<1>4. ASSUME NEW e \in Events, alertId[e] \notin registry
      PROVE  Covered(k, gap[p], e, age[e])
  <2>1. /\ Covered(poll[p], gap[p], e, age[e]) /\ poll[p].since = 0
        /\ gap[p] \in Nat /\ age[e] \in Int
    BY <1>3, <1>4, PollerFacts, Times DEF PollOK
  <2>2. gap[p] <= Slack => age[e] <= MaxLag + gap[p]
    BY <1>3, <2>1, Times DEF Covered
  <2>3. e \in indexed /\ gap[p] <= Slack => e \in k.rows
    BY <1>2, <2>1, <2>2, Times DEF InWindow
  <2>4. e \notin indexed => age[e] <= MaxLag
    BY DEF PollerInv
  <2> QED
    BY <1>2, <2>1, <2>2, <2>3, <2>4, Times DEF Covered
<1>5. /\ gap[p] \in 0..(Slack + 1) /\ health[p] \in HealthRecords /\ HealthOK(health[p])
      /\ gap' = [gap EXCEPT ![p] = gap[p]] /\ health' = [health EXCEPT ![p] = health[p]]
      /\ spare' \in Nat
  BY <1>3, PollerFacts DEF PollerInv, PollerTypeOK
<1>6. PollOK(k)
  BY <1>2 DEF PollOK
<1> QED
  BY <1>2, <1>3, <1>4, <1>5, <1>6, PollerMoves

\* A step within a poll, or that starts one, keeps its place in time: rows are
\* dropped only when they have a record.
LEMMA PollerKeepsTime ==
    ASSUME PollerInv, NEW p \in Pollers, NEW k \in PollRecords, k.since = poll[p].since,
           PollOK(k), Becomes(p, k), registry \subseteq registry',
           UNCHANGED <<age, indexed, health, gap, spare>>, poll[p].at # "off",
           k.at \in {"searching", "claiming", "putting"} =>
              /\ poll[p].at \in {"searching", "claiming", "putting"}
              /\ \A e \in poll[p].rows \ k.rows : alertId[e] \in registry'
    PROVE  PollerInv'
<1>1. /\ gap[p] \in 0..(Slack + 1) /\ health[p] \in HealthRecords /\ HealthOK(health[p])
      /\ gap' = [gap EXCEPT ![p] = gap[p]] /\ health' = [health EXCEPT ![p] = health[p]]
      /\ spare' \in Nat
  BY PollerFacts DEF PollerInv, PollerTypeOK
<1>2. ASSUME NEW e \in Events, alertId[e] \notin registry'
      PROVE  Covered(k, gap[p], e, age[e])
  <2>1. Covered(poll[p], gap[p], e, age[e])
    BY <1>2, PollerFacts
  <2> QED
    BY <1>2, <2>1 DEF Covered
<1> QED
  BY <1>1, <1>2, PollerMoves

LEMMA ClaimCovers ==
    ASSUME PollerInv, NEW p \in Pollers, NEW e \in Events, Claim(p, e)
    PROVE  PollerInv'
<1>1. poll[p] \in PollRecords /\ poll[p].at = "claiming" /\ e \in poll[p].rows
  BY PollerFacts DEF Claim
<1>2. CASE alertId[e] \in registry
  <2> DEFINE k == [poll[p] EXCEPT !.rows = @ \ {e}]
  <2>1. /\ k \in PollRecords /\ k.since = poll[p].since /\ k.at = "claiming"
        /\ k.rows = poll[p].rows \ {e}
    BY <1>1 DEF PollRecords
  <2>2. Becomes(p, k) /\ UNCHANGED <<registry, age, indexed, health, gap, spare>>
    BY <1>2 DEF Claim, storeVars
  <2> HIDE DEF k
  <2>3. PollOK(k)
    BY <2>1 DEF PollOK
  <2> QED
    BY <1>1, <1>2, <2>1, <2>2, <2>3, PollerKeepsTime
<1>3. CASE alertId[e] \notin registry
  <2> DEFINE k == [poll[p] EXCEPT !.rows = @ \ {e}, !.at = "putting", !.hand = e]
  <2>1. /\ k \in PollRecords /\ k.since = poll[p].since /\ k.at = "putting"
        /\ k.rows = poll[p].rows \ {e}
    BY <1>1 DEF PollRecords, PollPlaces
  <2>2. /\ Becomes(p, k) /\ UNCHANGED <<age, indexed, health, gap, spare>>
        /\ registry' = registry \cup {alertId[e]}
    BY <1>3 DEF Claim, Claimed
  <2> HIDE DEF k
  <2>3. PollOK(k)
    BY <2>1 DEF PollOK
  <2> QED
    BY <1>1, <2>1, <2>2, <2>3, PollerKeepsTime
<1> QED
  BY <1>2, <1>3

\* A poll that ends, or a process that stops: back at rest.
LEMMA PollerRests ==
    ASSUME PollerInv, NEW p \in Pollers, NEW k \in PollRecords, k.since = 0,
           k.at \in {"waiting", "down"}, Becomes(p, k), poll[p].at # "off",
           gap' = GapGrows(p), NEW h \in HealthRecords, HealthOK(h),
           health' = [health EXCEPT ![p] = h], spare' \in Nat,
           UNCHANGED <<age, indexed>>, registry \subseteq registry'
    PROVE  PollerInv'
<1> DEFINE g == UpTo(gap[p] + poll[p].since, Slack + 1)
<1>1. gap' = [gap EXCEPT ![p] = g]
  BY DEF GapGrows
<1>2. g \in 0..(Slack + 1)
  BY Capped, PollerFacts, Times
<1>3. \A e \in Events : alertId[e] \notin registry' => Covered(k, g, e, age[e])
  BY GapGrown
<1>4. PollOK(k)
  BY DEF PollOK
<1> HIDE DEF g
<1> QED
  BY <1>1, <1>2, <1>3, <1>4, PollerMoves

\* All rows are through: the next gap begins at this poll's search.
LEMMA FinishCovers ==
    ASSUME PollerInv, NEW p \in Pollers, Finish(p)
    PROVE  PollerInv'
<1> DEFINE k == [NotPolling EXCEPT !.at = "waiting", !.timer = Interval]
           g == IF gap[p] > Slack THEN gap[p] ELSE poll[p].since
           h == Warned(Recorded(health[p], poll[p].seen))
<1>1. k \in PollRecords /\ k.since = 0 /\ k.at = "waiting"
  BY NotPollingRecord, Times DEF PollRecords, PollPlaces
<1>2. /\ Becomes(p, k) /\ gap' = [gap EXCEPT ![p] = g] /\ health' = [health EXCEPT ![p] = h]
      /\ UNCHANGED <<registry, age, indexed, spare>>
      /\ poll[p].at = "claiming" /\ poll[p].rows = {}
  BY DEF Finish, Waiting, GapEnds, storeVars
<1>3. h \in HealthRecords /\ HealthOK(h)
  BY PollerFacts, RecordedHealth DEF PollRecords
<1>4. g \in 0..(Slack + 1) /\ (g <= Slack => gap[p] <= Slack /\ g = poll[p].since)
  BY PollerFacts, Times
<1>5. PollOK(k) /\ spare' \in Nat
  BY <1>1, <1>2 DEF PollOK, PollerInv, PollerTypeOK
<1> HIDE DEF k, g, h
<1>6. ASSUME NEW e \in Events, alertId[e] \notin registry
      PROVE  Covered(k, g, e, age[e])
  <2>1. Covered(poll[p], gap[p], e, age[e]) /\ poll[p].since \in Nat
    BY <1>6, PollerFacts, Times
  <2>2. g <= Slack => age[e] <= MaxLag + poll[p].since
    BY <1>2, <1>4, <2>1 DEF Covered
  <2>3. g <= Slack => age[e] <= MaxLag + g + k.since
    BY <1>1, <1>4, <2>1, <2>2, Times
  <2> QED
    BY <1>1, <2>3 DEF Covered
<1> QED
  BY <1>1, <1>2, <1>3, <1>4, <1>5, <1>6, PollerMoves

LEMMA PollStepCovers ==
    ASSUME PollerInv, NEW p \in Pollers, PollStep(p) \/ Crash(p)
    PROVE  PollerInv'
<1>1. poll[p] \in PollRecords /\ health[p] \in HealthRecords /\ HealthOK(health[p])
      /\ PollOK(poll[p])
  BY PollerFacts
<1>2. health = [health EXCEPT ![p] = health[p]] /\ spare \in Nat
  BY DEF PollerInv, PollerTypeOK
<1>3. CASE SearchAnswers(p)
  <2> DEFINE k == [poll[p] EXCEPT !.at = "claiming", !.seen = poll[p].rows # {}]
  <2>1. /\ k \in PollRecords /\ k.since = poll[p].since /\ k.at = "claiming"
        /\ k.rows = poll[p].rows
    BY <1>1 DEF PollRecords, PollPlaces
  <2>2. /\ Becomes(p, k) /\ UNCHANGED <<registry, age, indexed, health, gap, spare>>
        /\ poll[p].at = "searching"
    BY <1>3 DEF SearchAnswers, storeVars
  <2> HIDE DEF k
  <2>3. PollOK(k)
    BY <2>1 DEF PollOK
  <2> QED
    BY <2>1, <2>2, <2>3, PollerKeepsTime
<1>4. CASE Put(p)
  <2> DEFINE k == [poll[p] EXCEPT !.at = "claiming", !.hand = NoEvent]
  <2>1. /\ k \in PollRecords /\ k.since = poll[p].since /\ k.at = "claiming"
        /\ k.rows = poll[p].rows
    BY <1>1 DEF PollRecords, PollPlaces
  <2>2. /\ Becomes(p, k) /\ UNCHANGED <<registry, age, indexed, health, gap, spare>>
        /\ poll[p].at = "putting"
    BY <1>4 DEF Put, QueuePut
  <2> HIDE DEF k
  <2>3. PollOK(k)
    BY <2>1 DEF PollOK
  <2> QED
    BY <2>1, <2>2, <2>3, PollerKeepsTime
<1>5. CASE PollFails(p)
  <2> DEFINE k == [NotPolling EXCEPT !.at = "waiting", !.timer = Interval]
  <2>1. k \in PollRecords /\ k.since = 0 /\ k.at = "waiting"
    BY NotPollingRecord, Times DEF PollRecords, PollPlaces
  <2>2. registry \subseteq registry'
    BY <1>5 DEF PollFails, storeVars, Claimed
  <2>3. /\ Becomes(p, k) /\ gap' = GapGrows(p) /\ UNCHANGED <<age, indexed, health, spare>>
        /\ poll[p].at # "off"
    BY <1>5 DEF PollFails, Abandoned, Waiting
  <2> HIDE DEF k
  <2> QED
    BY <1>1, <1>2, <2>1, <2>2, <2>3, PollerRests
<1>6. CASE Wake(p) \/ Restart(p)
  <2> DEFINE k == [NotPolling EXCEPT !.at = "polling"]
  <2>1. k \in PollRecords /\ k.since = 0 /\ k.at = "polling"
    BY NotPollingRecord DEF PollRecords, PollPlaces
  <2>2. /\ Becomes(p, k) /\ UNCHANGED <<registry, age, indexed, health, gap, spare>>
        /\ poll[p].at \in {"waiting", "down"}
    BY <1>6 DEF Wake, Restart, storeVars
  <2> HIDE DEF k
  <2>3. PollOK(k) /\ poll[p].since = 0
    BY <1>1, <2>1, <2>2 DEF PollOK
  <2> QED
    BY <2>1, <2>2, <2>3, PollerKeepsTime
<1>7. CASE Crash(p)
  <2> DEFINE k == [NotPolling EXCEPT !.at = "down"]
  <2>1. k \in PollRecords /\ k.since = 0 /\ k.at = "down"
    BY NotPollingRecord DEF PollRecords, PollPlaces
  <2>2. /\ Becomes(p, k) /\ gap' = GapGrows(p) /\ UNCHANGED <<registry, age, indexed>>
        /\ poll[p].at # "off" /\ health' = [health EXCEPT ![p] = Healthy]
        /\ spare > 0 /\ spare' = spare - 1
    BY <1>7 DEF Crash
  <2>3. spare' \in Nat
    BY <1>2, <2>2
  <2> HIDE DEF k
  <2> QED
    BY <2>1, <2>2, <2>3, HealthyRecord, PollerRests
<1> QED
  BY <1>3, <1>4, <1>5, <1>6, <1>7, SearchCovers, FinishCovers, ClaimCovers DEF PollStep

LEMMA OlderEvent ==
    ASSUME NEW a \in -1..(Lookback + 1)
    PROVE  LET b == IF a < 0 THEN -1 ELSE UpTo(a + 1, Lookback + 1)
           IN  b \in -1..(Lookback + 1) /\ b <= a + 1
BY Times DEF UpTo

\* What a tick does to a poller at rest.
LEMMA AgedPoll ==
    ASSUME PollerInv, NEW p \in Pollers, Resting(p)
    PROVE  /\ Aged(poll[p]) \in PollRecords /\ PollOK(Aged(poll[p]))
           /\ Aged(poll[p]).at = poll[p].at /\ Aged(poll[p]).rows = poll[p].rows
           /\ Aged(poll[p]).since = IF poll[p].at \in {"searching", "putting"}
                                    THEN UpTo(poll[p].since + 1, Slack + 1) ELSE poll[p].since
<1> DEFINE s == UpTo(poll[p].since + 1, Slack + 1)
           t == poll[p].timer - 1
<1>1. poll[p] \in PollRecords /\ poll[p].since \in Nat /\ poll[p].timer \in Nat /\ PollOK(poll[p])
  BY PollerFacts, Times
<1>2. s \in 0..(Slack + 1)
  BY <1>1, Capped
<1>3. poll[p].at \in {"waiting", "searching"} => t \in Nat
  BY <1>1 DEF Resting
<1> HIDE DEF s, t
<1>4. CASE poll[p].at = "waiting"
  <2>1. Aged(poll[p]) = [poll[p] EXCEPT !.timer = t]
    BY <1>4 DEF Aged, t
  <2> QED
    BY <1>1, <1>3, <1>4, <2>1 DEF PollRecords, PollOK
<1>5. CASE poll[p].at = "searching"
  <2>1. Aged(poll[p]) = [poll[p] EXCEPT !.timer = t, !.since = s]
    <3>1. [poll[p] EXCEPT !.timer = t].since = poll[p].since
      BY <1>1 DEF PollRecords
    <3> QED
      BY <1>5, <3>1 DEF Aged, t, s
  <2> QED
    BY <1>1, <1>2, <1>3, <1>5, <2>1 DEF PollRecords, PollOK, s
<1>6. CASE poll[p].at = "putting"
  <2>1. Aged(poll[p]) = [poll[p] EXCEPT !.since = s]
    BY <1>6 DEF Aged, s
  <2> QED
    BY <1>1, <1>2, <1>6, <2>1 DEF PollRecords, PollOK, s
<1>7. CASE poll[p].at \in {"off", "down"}
  <2>1. Aged(poll[p]) = poll[p]
    BY <1>7 DEF Aged
  <2> QED
    BY <1>1, <1>7, <2>1
<1> QED
  BY <1>4, <1>5, <1>6, <1>7 DEF Resting

\* A tick adds to the age of an event what it adds to the gap or to the poll.
LEMMA TickCovers == ASSUME PollerInv, Tick PROVE PollerInv'
<1>1. /\ poll' = [p \in Pollers |-> Aged(poll[p])]
      /\ age' = [e \in Events |-> IF age[e] < 0 THEN -1 ELSE UpTo(age[e] + 1, Lookback + 1)]
      /\ gap' = [p \in Pollers |-> IF poll[p].at \in {"waiting", "down"}
                                   THEN UpTo(gap[p] + 1, Slack + 1) ELSE gap[p]]
      /\ \A p \in Pollers : Resting(p)
      /\ \A e \in Events : age[e] >= MaxLag => e \in indexed
      /\ UNCHANGED <<registry, indexed, health, spare>>
  BY DEF Tick, storeVars
<1>2. \A e \in Events : age[e] \in -1..(Lookback + 1) /\ (e \notin indexed => age[e] <= MaxLag)
  BY DEF PollerInv, PollerTypeOK
<1>3. \A e \in Events : age'[e] \in -1..(Lookback + 1) /\ age'[e] <= age[e] + 1
  BY <1>1, <1>2, OlderEvent
<1>4. ASSUME NEW p \in Pollers
      PROVE  /\ gap'[p] \in 0..(Slack + 1)
             /\ poll[p].at \in {"waiting", "down"} /\ gap'[p] <= Slack =>
                   gap'[p] = gap[p] + 1 /\ gap[p] <= Slack
             /\ poll[p].at \notin {"waiting", "down"} => gap'[p] = gap[p]
  <2>1. gap[p] \in Nat /\ gap[p] \in 0..(Slack + 1)
    BY PollerFacts, Times
  <2> QED
    BY <1>1, <2>1, Capped
<1>5. PollerTypeOK'
  <2>1. gap' \in [Pollers -> 0..(Slack + 1)]
    BY <1>1, <1>4
  <2>2. poll' \in [Pollers -> PollRecords]
    BY <1>1, AgedPoll
  <2>3. age' \in [Events -> -1..(Lookback + 1)]
    BY <1>1, <1>3
  <2> QED
    BY <1>1, <2>1, <2>2, <2>3 DEF PollerInv, PollerTypeOK, PollRecords, PollPlaces
<1>6. \A p \in Pollers : PollOK(poll'[p]) /\ HealthOK(health'[p])
  BY <1>1, AgedPoll DEF PollerInv
<1>7. \A e \in Events : e \notin indexed' => age'[e] <= MaxLag
  <2> SUFFICES ASSUME NEW e \in Events, e \notin indexed PROVE age'[e] <= MaxLag
    BY <1>1
  <2>1. age[e] \in Int /\ age'[e] \in Int /\ ~(age[e] >= MaxLag) /\ age'[e] <= age[e] + 1
    BY <1>1, <1>2, <1>3, Times
  <2> QED
    BY <2>1, Times
<1>8. ASSUME NEW p \in Pollers, NEW e \in Events, alertId[e] \notin registry
      PROVE  Covered(poll'[p], gap'[p], e, age'[e])
  <2> DEFINE k == poll[p]
  <2>1. /\ poll'[p].at = k.at /\ poll'[p].rows = k.rows
        /\ poll'[p].since = IF k.at \in {"searching", "putting"}
                            THEN UpTo(k.since + 1, Slack + 1) ELSE k.since
    BY <1>1, AgedPoll
  <2>2. Covered(k, gap[p], e, age[e]) /\ k.since \in Nat /\ gap[p] \in Nat /\ PollOK(k)
    BY <1>8, PollerFacts, Times
  <2>3. age[e] \in Int /\ age'[e] \in Int /\ age'[e] <= age[e] + 1 /\ gap'[p] \in Int
    BY <1>2, <1>3, <1>4, Times
  <2>4. CASE k.at \in {"waiting", "down"}
    <3>1. ASSUME gap'[p] <= Slack PROVE age'[e] <= MaxLag + gap'[p] + k.since
      <4>1. gap'[p] = gap[p] + 1 /\ gap[p] <= Slack /\ k.since = 0
        BY <1>4, <2>2, <2>4, <3>1 DEF PollOK
      <4>2. age[e] <= MaxLag + gap[p]
        BY <2>2, <2>4, <4>1, Times DEF Covered
      <4> QED
        BY <2>2, <2>3, <4>1, <4>2, Times
    <3> QED
      BY <2>1, <2>4, <3>1 DEF Covered
  <2>5. CASE k.at \in {"searching", "putting"}
    <3>1. UpTo(k.since + 1, Slack + 1) <= Slack =>
              UpTo(k.since + 1, Slack + 1) = k.since + 1 /\ k.since <= Slack
      BY <2>2, Capped
    <3>2. gap'[p] = gap[p]
      BY <1>4, <2>5
    <3>3. ASSUME gap'[p] <= Slack, poll'[p].since <= Slack
          PROVE  /\ age'[e] <= MaxLag + gap'[p] + poll'[p].since
                 /\ e \in poll'[p].rows \/ age'[e] <= MaxLag + poll'[p].since
      <4>1. poll'[p].since = k.since + 1 /\ k.since <= Slack /\ gap[p] <= Slack
        BY <2>1, <2>5, <3>1, <3>2, <3>3
      <4>2. /\ age[e] <= MaxLag + gap[p] + k.since
            /\ e \in k.rows \/ age[e] <= MaxLag + k.since
        BY <2>2, <2>5, <4>1 DEF Covered
      <4> QED
        BY <2>1, <2>2, <2>3, <3>2, <4>1, <4>2, Times
    <3> QED
      BY <3>3 DEF Covered
  <2>6. CASE k.at = "off"
    BY <2>1, <2>6 DEF Covered
  <2> QED
    BY <1>1, <2>4, <2>5, <2>6 DEF Resting
<1>9. (\A p \in Pollers, e \in Events :
          alertId[e] \notin registry => Covered(poll[p], gap[p], e, age[e]))'
  BY <1>1, <1>8 DEF Covered
<1>10. (\A p \in Pollers : PollOK(poll[p]) /\ HealthOK(health[p]))'
  BY <1>6 DEF PollOK, HealthOK
<1> QED
  BY <1>5, <1>7, <1>9, <1>10 DEF PollerInv

LEMMA WorldCovers ==
    ASSUME PollerInv, NEW e \in Events, Happens(e) \/ Index(e)
    PROVE  PollerInv'
<1>1. UNCHANGED <<registry, poll, health, gap, spare>>
  BY DEF Happens, Index, storeVars
<1>2. CASE Happens(e)
  <2>1. /\ age' = [age EXCEPT ![e] = 0] /\ UNCHANGED indexed
        /\ age \in [Events -> -1..(Lookback + 1)]
    BY <1>2 DEF Happens, PollerInv, PollerTypeOK
  <2>2. 0 \in -1..(Lookback + 1) /\ 0 <= MaxLag
    BY Times
  <2>3. age' \in [Events -> -1..(Lookback + 1)]
        /\ \A o \in Events : age'[o] = 0 \/ age'[o] = age[o]
    BY <2>1, <2>2
  <2>4. PollerTypeOK'
    BY <1>1, <2>1, <2>3 DEF PollerInv, PollerTypeOK
  <2>5. \A o \in Events : o \notin indexed' => age'[o] <= MaxLag
    BY <2>1, <2>2, <2>3 DEF PollerInv
  <2>6. ASSUME NEW p \in Pollers, NEW o \in Events, alertId[o] \notin registry
        PROVE  Covered(poll[p], gap[p], o, age'[o])
    <3>1. Covered(poll[p], gap[p], o, age[o]) /\ gap[p] \in Nat /\ poll[p].since \in Nat
      BY <2>6, PollerFacts, Times
    <3>2. 0 <= MaxLag + gap[p] + poll[p].since /\ 0 <= MaxLag + poll[p].since
      BY <3>1, Times
    <3>3. Covered(poll[p], gap[p], o, 0)
      BY <3>2 DEF Covered
    <3> QED
      BY <2>3, <3>1, <3>3
  <2> QED
    BY <1>1, <2>4, <2>5, <2>6 DEF PollerInv
<1>3. CASE Index(e)
  <2>1. indexed \subseteq indexed' /\ indexed' \subseteq Events /\ UNCHANGED age
    BY <1>3 DEF Index, PollerInv, PollerTypeOK
  <2> QED
    BY <1>1, <2>1 DEF PollerInv, PollerTypeOK
<1> QED
  BY <1>2, <1>3

LEMMA InitCovers == Init => PollerInv
<1> SUFFICES ASSUME Init PROVE PollerInv
  OBVIOUS
<1>1. PICK scene \in Scenes :
         /\ StoreInit({alertId[e] : e \in scene.old})
         /\ PollerInit(scene.pollers, scene.old, scene.stops)
  BY DEF Init
<1>2. scene.old \subseteq Events /\ scene.stops \in Nat
  BY FeedsAssumption
<1>3. /\ registry = {alertId[e] : e \in scene.old} /\ indexed = scene.old
      /\ age = [e \in Events |-> IF e \in scene.old THEN Lookback + 1 ELSE -1]
      /\ health = [p \in Pollers |-> Healthy] /\ gap = [p \in Pollers |-> 0]
      /\ spare = scene.stops
  BY <1>1 DEF StoreInit, PollerInit
<1>4. ASSUME NEW p \in Pollers
      PROVE  poll[p] \in PollRecords /\ poll[p].since = 0 /\ poll[p].at \in {"polling", "off"}
  <2> DEFINE k == [NotPolling EXCEPT !.at = IF p \in scene.pollers THEN "polling" ELSE "off"]
  <2>1. poll[p] = k
    BY <1>1 DEF PollerInit
  <2>2. k \in PollRecords /\ k.since = 0 /\ k.at \in {"polling", "off"}
    BY NotPollingRecord DEF PollRecords, PollPlaces
  <2> HIDE DEF k
  <2> QED
    BY <2>1, <2>2
<1>5. PollerTypeOK
  <2>1. poll \in [Pollers -> PollRecords]
    BY <1>1, <1>4 DEF PollerInit
  <2>2. /\ age \in [Events -> -1..(Lookback + 1)] /\ gap \in [Pollers -> 0..(Slack + 1)]
        /\ health \in [Pollers -> HealthRecords]
    BY <1>3, Times, HealthyRecord
  <2> QED
    BY <1>2, <1>3, <2>1, <2>2 DEF PollerTypeOK, PollRecords, PollPlaces, HealthRecords
<1>6. \A p \in Pollers : PollOK(poll[p]) /\ HealthOK(health[p])
  BY <1>3, <1>4, HealthyRecord DEF PollOK
<1>7. \A e \in Events : e \notin indexed => age[e] <= MaxLag
  BY <1>3, Times
<1>8. ASSUME NEW p \in Pollers, NEW e \in Events, alertId[e] \notin registry
      PROVE  Covered(poll[p], gap[p], e, age[e])
  <2>1. age[e] = -1
    BY <1>3, <1>8
  <2> QED
    BY <1>3, <1>4, <2>1, Times DEF Covered
<1> QED
  BY <1>5, <1>6, <1>7, <1>8 DEF PollerInv

\* No record is ever taken out of the registry.
LEMMA HuntKeepsRecords ==
    ASSUME HunterMoves
    PROVE  registry \subseteq registry' /\ UNCHANGED pollerVars
<1>1. CASE HuntStep
  BY <1>1
  DEF HunterMoves, HuntStep, LookUp, LoadTools, ToolsAtHand, ToolsRaise, AskModel, OutOfBudget,
      CallLogTool, CallMcpTool, CallReturnsText, CallAssetTool, AssetToolAnswers, CallRefused,
      Report, ReportIsNone, HuntFails, SkipFinding, ClaimFinding, ClaimRaises, PutFinding,
      NextHunt, Exits, Claimed, QueuePut, huntDeps, storeVars
<1>2. CASE UNCHANGED <<storeVars, assetVars, huntVars>>
  BY <1>2 DEF HunterMoves, storeVars
<1> QED
  BY <1>1, <1>2 DEF HunterMoves, HunterNext

LEMMA NextCovers == PollerInv /\ [Next]_vars => PollerInv'
<1> SUFFICES ASSUME PollerInv, [Next]_vars PROVE PollerInv'
  OBVIOUS
<1>1. ASSUME registry \subseteq registry', UNCHANGED pollerVars PROVE PollerInv'
  <2>1. UNCHANGED <<age, indexed, poll, health, gap, spare>>
    BY <1>1 DEF pollerVars
  <2> QED
    BY <1>1, <2>1 DEF PollerInv, PollerTypeOK, PollOK, HealthOK, Covered
<1>2. CASE PollersMove
  <2>1. ASSUME NEW p \in Pollers, Work(p), UNCHANGED pollerVars PROVE PollerInv'
    BY <1>1, <2>1 DEF Work
  <2> QED
    BY <1>2, <2>1, PollStepCovers, WorldCovers, TickCovers DEF PollersMove, PollerNext
<1>3. CASE HunterMoves
  BY <1>1, <1>3, HuntKeepsRecords
<1>4. CASE ReadersMove \/ FileChanges \/ WorkersMove \/ UNCHANGED vars
  BY <1>1, <1>4 DEF ReadersMove, FileChanges, WorkersMove, storeVars, vars
<1> QED
  BY <1>2, <1>3, <1>4 DEF Next

\* "Each poll looks back further than the interval so a late-indexed event is
\* not missed" (poll_loop): no event leaves the window without a record unless
\* every poller that runs has let more time pass between two polls it finished
\* than the overlap makes up for, for every interval, overlap and indexing lag
\* within it, any number of processes that poll, and whatever fails.
THEOREM NothingIsMissed == Spec => []NoneMissed
<1>1. PollerInv => NoneMissed
  <2> SUFFICES ASSUME PollerInv, NEW e \in Events, age[e] > Lookback, alertId[e] \notin registry,
                      NEW p \in Pollers
               PROVE  \/ poll[p].at = "off" \/ e \in poll[p].rows
                      \/ gap[p] > Slack \/ poll[p].since > Slack
    BY DEF NoneMissed
  <2>1. /\ Covered(poll[p], gap[p], e, age[e]) /\ PollOK(poll[p]) /\ gap[p] \in Nat
        /\ age[e] \in Int /\ poll[p].since \in Nat /\ poll[p].at \in PollPlaces
    BY PollerFacts, Times DEF PollRecords
  <2>2. CASE poll[p].at \in {"searching", "claiming", "putting"}
    BY <2>1, <2>2, Times DEF Covered
  <2>3. CASE poll[p].at \in {"polling", "waiting", "down"}
    BY <2>1, <2>3, Times DEF Covered, PollOK
  <2> QED
    BY <2>1, <2>2, <2>3 DEF PollPlaces
<1> QED
  BY <1>1, InitCovers, NextCovers, PTL DEF Spec

\* A search that stops matching is reported after the threshold of empty polls,
\* and once per stall (PollHealth.record, _warn_if_persistently_empty), for
\* every threshold and however polls fail in between.
THEOREM StallsAreReported == Spec => []StallReportedOnce
<1>1. PollerInv => StallReportedOnce
  <2> SUFFICES ASSUME PollerInv, NEW p \in Pollers
               PROVE  /\ health[p].warnings <= 1
                      /\ health[p].empty >= Threshold => health[p].warnings = 1
    BY DEF StallReportedOnce
  <2> QED
    BY PollerFacts DEF HealthOK
<1> QED
  BY <1>1, InitCovers, NextCovers, PTL DEF Spec

-----------------------------------------------------------------------------
(* External tools.  What the loop of load_mcp_tools keeps is a recursive   *)
(* function of the specifications: it exists, and has its properties, by   *)
(* induction on how many of them the loop has looked at.                   *)

LEMMA Least ==
    ASSUME NEW T \in SUBSET Nat, T # {}
    PROVE  \E n \in T : \A m \in T : n <= m
<1> DEFINE R == OpToRel(<, Nat)
<1>1. IsWellFoundedOn(R, Nat)
  BY NatLessThanWellFounded
<1>2. \A m, n \in Nat : m < n => <<m, n>> \in R
  BY DEF OpToRel
<1> HIDE DEF R
<1>3. PICK n \in T : \A m \in T : ~(<<m, n>> \in R)
  BY <1>1, WFMin
<1>4. ASSUME NEW m \in T PROVE n <= m
  <2>1. m \in Nat /\ n \in Nat /\ ~(m < n)
    BY <1>2, <1>3
  <2> QED
    BY <2>1
<1> QED
  BY <1>4

LEMMA Induction ==
    ASSUME NEW T \in SUBSET Nat, 0 \in T, \A n \in T : n + 1 \in T
    PROVE  T = Nat
<1> SUFFICES ASSUME Nat \ T # {} PROVE FALSE
  OBVIOUS
<1>1. PICK n \in Nat \ T : \A m \in Nat \ T : n <= m
  BY Least
<1>2. n # 0 /\ n - 1 \in Nat
  BY <1>1
<1> QED
  BY <1>1, <1>2

\* What is kept of the first n of specs, given what is kept of those before.
Grown(f, specs, n) ==
    IF n = 0 THEN <<>>
    ELSE IF IsReadOnly(specs[n]) /\ Len(f[n - 1]) < MaxTools
         THEN Append(f[n - 1], specs[n])
    ELSE f[n - 1]

Grows(f, specs, k) == f = [n \in 0..k |-> Grown(f, specs, n)]

LEMMA GrowsExists == ASSUME NEW specs, NEW k \in Nat PROVE \E f : Grows(f, specs, k)
<1> DEFINE T == {j \in Nat : \E f : Grows(f, specs, j)}
<1>1. 0 \in T
  <2> DEFINE f == [n \in 0..0 |-> <<>>]
  <2>1. Grows(f, specs, 0)
    BY DEF Grows, Grown
  <2> QED
    BY <2>1
<1>2. ASSUME NEW j \in T PROVE j + 1 \in T
  <2>1. PICK f : Grows(f, specs, j)
    OBVIOUS
  <2> DEFINE g == [n \in 0..(j + 1) |-> IF n = j + 1 THEN Grown(f, specs, n) ELSE f[n]]
  <2>2. \A n \in 0..j : f[n] = Grown(f, specs, n)
    BY <2>1 DEF Grows
  <2>3. j + 1 \in 0..(j + 1) /\ \A n \in 0..j : n \in 0..(j + 1) /\ n # j + 1
    OBVIOUS
  <2>4. (\A n \in 0..j : g[n] = f[n]) /\ g[j + 1] = Grown(f, specs, j + 1)
    BY <2>3
  <2>5. g = [n \in 0..(j + 1) |-> g[n]]
    OBVIOUS
  <2> HIDE DEF g
  <2>6. /\ \A n \in 0..j : g[n] = f[n] /\ f[n] = Grown(f, specs, n)
        /\ g[j + 1] = Grown(f, specs, j + 1)
        /\ g = [n \in 0..(j + 1) |-> g[n]]
    BY <2>2, <2>4, <2>5
  <2>7. ASSUME NEW n \in 0..(j + 1) PROVE g[n] = Grown(g, specs, n)
    <3>0. n = 0 \/ n - 1 \in 0..j
      OBVIOUS
    <3>1. n = 0 \/ g[n - 1] = f[n - 1]
      BY <2>6, <3>0
    <3>2. Grown(g, specs, n) = Grown(f, specs, n)
      BY <3>1 DEF Grown
    <3>3. n \in 0..j \/ n = j + 1
      OBVIOUS
    <3> QED
      BY <2>6, <3>2, <3>3
  <2>8. Grows(g, specs, j + 1)
    BY <2>6, <2>7 DEF Grows
  <2> QED
    BY <2>8
<1> HIDE DEF T
<1>3. T = Nat
  BY <1>1, <1>2, Induction DEF T
<1> QED
  BY <1>3 DEF T

\* seq is what may be kept of the first n of specs.
KeptOf(seq, specs, n) ==
    /\ seq \in Seq(McpTools) /\ Len(seq) <= MaxTools
    /\ \A i \in DOMAIN seq : IsReadOnly(seq[i])
    /\ \/ Len(seq) = MaxTools
       \/ \A m \in 1..n : IsReadOnly(specs[m]) => \E i \in DOMAIN seq : seq[i] = specs[m]

LEMMA GrowsKept ==
    ASSUME NEW specs \in Seq(McpTools), NEW f, Grows(f, specs, Len(specs))
    PROVE  KeptOf(f[Len(specs)], specs, Len(specs))
<1> DEFINE k == Len(specs)
           T == {n \in Nat : n <= k => KeptOf(f[n], specs, n)}
<1>0. k \in Nat /\ MaxTools \in Nat \ {0} /\ \A n \in 1..k : specs[n] \in McpTools
  BY LenProperties, McpAssumption
<1>1. \A n \in 0..k : f[n] = Grown(f, specs, n)
  BY <1>0 DEF Grows
<1>2. 0 \in T
  <2>1. f[0] = <<>>
    BY <1>0, <1>1 DEF Grown
  <2>2. <<>> \in Seq(McpTools) /\ Len(<<>>) = 0 /\ DOMAIN <<>> = {}
    BY EmptySeq
  <2>3. KeptOf(<<>>, specs, 0)
    BY <1>0, <2>2 DEF KeptOf
  <2> QED
    BY <2>1, <2>3
<1>3. ASSUME NEW n \in T PROVE n + 1 \in T
  <2> SUFFICES ASSUME n + 1 <= k PROVE KeptOf(f[n + 1], specs, n + 1)
    OBVIOUS
  <2>1. KeptOf(f[n], specs, n) /\ n + 1 \in 1..k /\ specs[n + 1] \in McpTools
    BY <1>0
  <2>2. /\ f[n] \in Seq(McpTools) /\ Len(f[n]) \in Nat /\ DOMAIN f[n] = 1..Len(f[n])
        /\ Len(f[n]) <= MaxTools
    BY <2>1, LenProperties DEF KeptOf
  <2>3. \A m \in 1..(n + 1) : m \in 1..n \/ m = n + 1
    OBVIOUS
  <2>4. f[n + 1] = IF IsReadOnly(specs[n + 1]) /\ Len(f[n]) < MaxTools
                   THEN Append(f[n], specs[n + 1]) ELSE f[n]
    <3>1. n + 1 \in 0..k /\ n + 1 # 0 /\ (n + 1) - 1 = n
      BY <2>1
    <3>2. f[n + 1] = Grown(f, specs, n + 1)
      BY <1>1, <3>1
    <3> HIDE DEF k
    <3> QED
      BY <3>1, <3>2 DEF Grown
  <2>5. CASE IsReadOnly(specs[n + 1]) /\ Len(f[n]) < MaxTools
    <3> DEFINE s == Append(f[n], specs[n + 1])
    <3>1. f[n + 1] = s
      BY <2>4, <2>5
    <3>2. /\ s \in Seq(McpTools) /\ Len(s) = Len(f[n]) + 1
          /\ \A i \in 1..Len(f[n]) : s[i] = f[n][i]
          /\ s[Len(f[n]) + 1] = specs[n + 1] /\ DOMAIN s = 1..(Len(f[n]) + 1)
      BY <2>1, <2>2, AppendProperties, LenProperties
    <3> HIDE DEF s
    <3>3. \A i \in DOMAIN s : IsReadOnly(s[i])
      <4>1. \A i \in 1..(Len(f[n]) + 1) : i \in 1..Len(f[n]) \/ i = Len(f[n]) + 1
        BY <2>2
      <4> QED
        BY <2>1, <2>2, <2>5, <3>2, <4>1 DEF KeptOf
    <3>4. Len(f[n]) # MaxTools /\ Len(s) <= MaxTools
      BY <1>0, <2>2, <2>5, <3>2
    <3>5. \A m \in 1..(n + 1) : IsReadOnly(specs[m]) => \E i \in DOMAIN s : s[i] = specs[m]
      <4>1. Len(f[n]) + 1 \in DOMAIN s /\ \A i \in DOMAIN f[n] : i \in DOMAIN s /\ s[i] = f[n][i]
        BY <2>2, <3>2
      <4>2. \A m \in 1..n : IsReadOnly(specs[m]) => \E i \in DOMAIN s : s[i] = specs[m]
        BY <2>1, <3>4, <4>1 DEF KeptOf
      <4> QED
        BY <2>3, <3>2, <4>1, <4>2
    <3> QED
      BY <3>1, <3>2, <3>3, <3>4, <3>5 DEF KeptOf
  <2>6. CASE ~(IsReadOnly(specs[n + 1]) /\ Len(f[n]) < MaxTools)
    <3>1. f[n + 1] = f[n]
      BY <2>4, <2>6
    <3>2. Len(f[n]) = MaxTools \/ ~IsReadOnly(specs[n + 1])
      BY <1>0, <2>2, <2>6
    <3> QED
      BY <2>1, <2>3, <3>1, <3>2 DEF KeptOf
  <2> QED
    BY <2>5, <2>6
<1> HIDE DEF T
<1>4. T = Nat
  BY <1>2, <1>3, Induction DEF T
<1> QED
  BY <1>0, <1>4 DEF T

\* What is kept only reads, is no more than the limit, and leaves nothing out
\* that only reads unless it is as much.
LEMMA KeptTools ==
    ASSUME NEW specs \in Seq(McpTools)
    PROVE  KeptOf(Kept(specs), specs, Len(specs))
<1>1. Len(specs) \in Nat
  BY LenProperties
<1>2. \E f : Grows(f, specs, Len(specs))
  BY <1>1, GrowsExists
<1>3. Kept(specs) = (CHOOSE f : Grows(f, specs, Len(specs)))[Len(specs)]
  BY DEF Kept, Grows, Grown
<1> DEFINE f == CHOOSE g : Grows(g, specs, Len(specs))
<1>4. Grows(f, specs, Len(specs))
  BY <1>2
<1> HIDE DEF f
<1>5. KeptOf(f[Len(specs)], specs, Len(specs))
  BY <1>4, GrowsKept
<1> QED
  BY <1>3, <1>5 DEF f

\* The servers before the n-th that are of stdio have a session.
OpenedBefore(n) ==
    \A m \in DOMAIN config.servers : m < n /\ config.servers[m] \in Stdio =>
        \E i \in DOMAIN sessions : sessions[i] = config.servers[m]

\* The thread opens the servers in their order, and is ready when it has come
\* to their end.  Tools are listed once it is, and what is handed out was listed.
McpInv ==
    /\ McpTypeOK
    /\ opener.next \in Nat \ {0} /\ OpenedBefore(opener.next)
    /\ opener.at = "opening" => opener.next <= Len(config.servers)
    /\ opener.at = "ready" => opener.next > Len(config.servers)
    /\ load.at = "never" => opener.at = "none"
    /\ load.at # "loaded" => load.kept = <<>>
    /\ load.at \in {"never", "starting"} => load.specs = <<>>
    /\ load.at = "listing" => opener.at = "ready"
    /\ load.at = "loaded" =>
          \/ load.kept = <<>> /\ load.specs = <<>>
          \/ opener.at = "ready" /\ load.kept = <<>> /\ ~Wraps(load.specs)
          \/ opener.at = "ready" /\ load.kept = Kept(load.specs) /\ Wraps(load.specs)

Loads == [at: {"never", "starting", "listing", "loaded"}, left: Seq(Servers),
          specs: Seq(McpTools), kept: Seq(McpTools)]

LEMMA OpenerKeeps ==
    ASSUME McpInv, OpenServer
    PROVE  McpInv'
<1> DEFINE n == opener.next
           s == config.servers[n]
<1>1. /\ config.servers \in Seq(Servers) /\ sessions \in Seq(Servers)
      /\ n \in Nat \ {0} /\ Len(config.servers) \in Nat
      /\ DOMAIN config.servers = 1..Len(config.servers)
      /\ opener.at = "opening" /\ n <= Len(config.servers) /\ s \in Servers
      /\ UNCHANGED <<config, server, load>>
  BY LenProperties DEF OpenServer, McpInv, McpTypeOK
<1>2. \A m \in DOMAIN config.servers : m < n + 1 => m < n \/ m = n
  BY <1>1
<1>3. /\ OpenerAt(n + 1).next = n + 1 /\ n + 1 \in Nat \ {0}
      /\ OpenerAt(n + 1) \in [at: {"none", "opening", "ready", "error"}, next: Nat]
      /\ OpenerAt(n + 1).at = "opening" => n + 1 <= Len(config.servers)
      /\ OpenerAt(n + 1).at = "ready" => n + 1 > Len(config.servers)
      /\ OpenerAt(n + 1).at \in {"opening", "ready"}
  BY <1>1 DEF OpenerAt
<1>4. load.at \in {"starting", "loaded"} /\ (load.at = "loaded" => load.kept = <<>> /\ load.specs = <<>>)
  BY <1>1 DEF McpInv, McpTypeOK
<1>5. CASE s \notin Stdio /\ opener' = OpenerAt(n + 1) /\ UNCHANGED sessions
  <2>1. OpenedBefore(n + 1)
    BY <1>2, <1>5 DEF OpenedBefore, McpInv
  <2>2. OpenedBefore(opener.next)'
    BY <1>1, <1>3, <1>5, <2>1 DEF OpenedBefore
  <2> QED
    BY <1>1, <1>3, <1>4, <1>5, <2>2 DEF McpInv, McpTypeOK
<1>6. CASE s \in Stdio /\ sessions' = Append(sessions, s) /\ opener' = OpenerAt(n + 1)
  <2>1. /\ sessions' \in Seq(Servers) /\ Len(sessions) + 1 \in DOMAIN sessions'
        /\ sessions'[Len(sessions) + 1] = s
        /\ \A i \in DOMAIN sessions : i \in DOMAIN sessions' /\ sessions'[i] = sessions[i]
    BY <1>1, <1>6, AppendProperties, LenProperties
  <2>2. \A m \in DOMAIN config.servers : m < n + 1 /\ config.servers[m] \in Stdio =>
           \E i \in DOMAIN sessions' : sessions'[i] = config.servers[m]
    <3>1. \A m \in DOMAIN config.servers : m < n /\ config.servers[m] \in Stdio =>
             \E i \in DOMAIN sessions' : sessions'[i] = config.servers[m]
      BY <2>1 DEF OpenedBefore, McpInv
    <3> QED
      BY <1>2, <2>1, <3>1
  <2>3. OpenedBefore(opener.next)'
    BY <1>1, <1>3, <1>6, <2>2 DEF OpenedBefore
  <2> QED
    BY <1>1, <1>3, <1>4, <1>6, <2>1, <2>3 DEF McpInv, McpTypeOK
<1>7. CASE opener' = [opener EXCEPT !.at = "error"] /\ UNCHANGED sessions
  <2>1. opener' \in [at: {"none", "opening", "ready", "error"}, next: Nat]
        /\ opener'.at = "error" /\ opener'.next = n
    BY <1>7 DEF McpInv, McpTypeOK
  <2>2. OpenedBefore(opener.next)'
    BY <1>1, <1>7, <2>1 DEF OpenedBefore, McpInv
  <2> QED
    BY <1>1, <1>4, <1>7, <2>1, <2>2 DEF McpInv, McpTypeOK
<1> QED
  BY <1>5, <1>6, <1>7 DEF OpenServer

\* The loading thread moves, and the opener is left alone.
LEMMA LoadMoves ==
    ASSUME McpInv, UNCHANGED <<config, server, opener, sessions>>, load' \in Loads,
           load'.at # "never", load'.at # "loaded" => load'.kept = <<>>,
           load'.at = "starting" => load'.specs = <<>>,
           load'.at = "listing" => opener.at = "ready",
           load'.at = "loaded" =>
              \/ load'.kept = <<>> /\ load'.specs = <<>>
              \/ opener.at = "ready" /\ load'.kept = <<>> /\ ~Wraps(load'.specs)
              \/ opener.at = "ready" /\ load'.kept = Kept(load'.specs) /\ Wraps(load'.specs)
    PROVE  McpInv'
<1>1. OpenedBefore(opener.next)'
  BY DEF McpInv, OpenedBefore
<1>2. McpTypeOK'
  BY DEF McpInv, McpTypeOK, Loads
<1>3. load'.at = "loaded" =>
          \/ load'.kept = <<>> /\ load'.specs = <<>>
          \/ opener'.at = "ready" /\ load'.kept = <<>> /\ (~Wraps(load.specs))'
          \/ opener'.at = "ready" /\ (load.kept = Kept(load.specs))' /\ Wraps(load.specs)'
  BY DEF Kept, IsReadOnly, Wraps
<1> QED
  BY <1>1, <1>2, <1>3 DEF McpInv

LEMMA LoadKeeps ==
    ASSUME McpInv, LoadStep
    PROVE  McpInv'
<1>1. /\ load \in Loads /\ config.servers \in Seq(Servers) /\ sessions \in Seq(Servers)
      /\ <<>> \in Seq(Servers) /\ <<>> \in Seq(McpTools)
  BY EmptySeq DEF McpInv, McpTypeOK, Loads
<1>2. ASSUME Loaded(<<>>), UNCHANGED <<config, server, opener, sessions>> PROVE McpInv'
  <2>1. /\ load' \in Loads /\ load'.at = "loaded" /\ load'.kept = <<>> /\ load'.specs = <<>>
    BY <1>1, <1>2 DEF Loaded, Loads
  <2> QED
    BY <1>2, <2>1, LoadMoves
<1>3. CASE StartLoad
  <2>1. CASE config.servers = <<>>
    BY <1>2, <1>3, <2>1 DEF StartLoad
  <2>2. CASE config.servers # <<>>
    <3>1. /\ opener' = OpenerAt(1) /\ load' = [load EXCEPT !.at = "starting"]
          /\ load.at = "never" /\ UNCHANGED <<config, server, sessions>>
      BY <1>3, <2>2 DEF StartLoad
    <3>2. /\ load' \in Loads /\ load'.at = "starting" /\ load'.kept = load.kept
          /\ load'.specs = load.specs
      BY <1>1, <3>1 DEF Loads
    <3>3. Len(config.servers) \in Nat /\ Len(config.servers) >= 1
      BY <1>1, <2>2, LenProperties, EmptySeq
    <3>4. opener'.at = "opening" /\ opener'.next = 1
          /\ opener' \in [at: {"none", "opening", "ready", "error"}, next: Nat]
      BY <3>1, <3>3 DEF OpenerAt
    <3>5. OpenedBefore(opener.next)'
      <4>1. DOMAIN config.servers = 1..Len(config.servers)
        BY <1>1, LenProperties
      <4>2. \A m \in DOMAIN config.servers : ~(m < 1)
        BY <3>3, <4>1
      <4> QED
        BY <3>1, <3>4, <4>2 DEF OpenedBefore
    <3> QED
      BY <3>1, <3>2, <3>3, <3>4, <3>5 DEF McpInv, McpTypeOK, Loads
  <2> QED
    BY <2>1, <2>2
<1>4. CASE StartRaises /\ UNCHANGED <<config, server, opener, sessions>>
  BY <1>2, <1>4 DEF StartRaises
<1>5. CASE Started /\ UNCHANGED <<config, server, opener, sessions>>
  <2>1. /\ load' = [load EXCEPT !.at = "listing", !.left = sessions]
        /\ load.at = "starting" /\ opener.at = "ready"
    BY <1>5 DEF Started
  <2>2. /\ load' \in Loads /\ load'.at = "listing" /\ load'.kept = load.kept
    BY <1>1, <2>1 DEF Loads
  <2> QED
    BY <1>5, <2>1, <2>2, LoadMoves DEF McpInv
<1>6. CASE ListServer /\ UNCHANGED <<config, server, opener, sessions>>
  <2> DEFINE s == Head(load.left)
             listed == IF server[s] = "up"
                       THEN [n \in DOMAIN offers[s] |-> [server |-> s, name |-> offers[s][n]]]
                       ELSE <<>>
             more == load.specs \o listed
             rest == Tail(load.left)
  <2>1. /\ load.at = "listing" /\ load.left # <<>>
        /\ load' = [load EXCEPT !.left = Tail(@), !.specs = @ \o listed]
    BY <1>6 DEF ListServer
  <2>2. /\ load.left \in Seq(Servers) /\ load.specs \in Seq(McpTools)
    BY <1>1 DEF Loads
  <2>3. s \in Servers /\ rest \in Seq(Servers)
    BY <2>1, <2>2, HeadTailProperties
  <2>4. listed \in Seq(McpTools)
    <3>1. offers[s] \in Seq(Names)
      BY <2>3, McpAssumption
    <3>2. /\ Len(offers[s]) \in Nat /\ DOMAIN offers[s] = 1..Len(offers[s])
          /\ \A n \in 1..Len(offers[s]) : offers[s][n] \in Names
      BY <3>1, LenProperties
    <3> HIDE DEF s
    <3>3. \A n \in 1..Len(offers[s]) : [server |-> s, name |-> offers[s][n]] \in McpTools
      BY <2>3, <3>2 DEF McpTools
    <3>4. [n \in 1..Len(offers[s]) |-> [server |-> s, name |-> offers[s][n]]] \in Seq(McpTools)
      <4> DEFINE tool(n) == [server |-> s, name |-> offers[s][n]]
      <4>1. \A n \in 1..Len(offers[s]) : tool(n) \in McpTools
        BY <3>3
      <4> HIDE DEF tool
      <4>2. [n \in 1..Len(offers[s]) |-> tool(n)] \in Seq(McpTools)
        BY <3>2, <4>1, IsASeq
      <4> QED
        BY <4>2 DEF tool
    <3> QED
      BY <1>1, <3>2, <3>4
  <2> HIDE DEF listed
  <2>5. more \in Seq(McpTools)
    BY <2>2, <2>4, ConcatProperties
  <2>6. load' = [load EXCEPT !.left = rest, !.specs = more]
    <3>1. [load EXCEPT !.left = rest].specs = load.specs
      BY <1>1 DEF Loads
    <3> QED
      BY <2>1, <3>1
  <2> HIDE DEF more, rest
  <2>7. load' \in Loads /\ load'.at = "listing" /\ load'.kept = load.kept
    BY <1>1, <2>1, <2>3, <2>5, <2>6 DEF Loads
  <2>8. opener.at = "ready" /\ load.kept = <<>>
    BY <2>1 DEF McpInv
  <2> QED
    BY <1>6, <2>7, <2>8, LoadMoves
<1>7. CASE KeepTools /\ UNCHANGED <<config, server, opener, sessions>>
  <2>1. /\ load' = [load EXCEPT !.at = "loaded", !.kept = Kept(load.specs)]
        /\ load.at = "listing" /\ opener.at = "ready" /\ Wraps(load.specs)
    BY <1>7 DEF KeepTools, McpInv
  <2>2. Kept(load.specs) \in Seq(McpTools)
    BY <1>1, KeptTools DEF Loads, KeptOf
  <2>3. /\ load' \in Loads /\ load'.at = "loaded" /\ load'.specs = load.specs
        /\ load'.kept = Kept(load.specs)
    BY <1>1, <2>1, <2>2 DEF Loads
  <2> QED
    BY <1>7, <2>1, <2>3, LoadMoves
<1>8. CASE CannotWrap /\ UNCHANGED <<config, server, opener, sessions>>
  <2>1. /\ load' = [load EXCEPT !.at = "loaded"] /\ load.kept = <<>>
        /\ opener.at = "ready" /\ ~Wraps(load.specs)
    BY <1>8 DEF CannotWrap, McpInv
  <2>2. /\ load' \in Loads /\ load'.at = "loaded" /\ load'.specs = load.specs
        /\ load'.kept = <<>>
    BY <1>1, <2>1 DEF Loads
  <2> QED
    BY <1>8, <2>1, <2>2, LoadMoves
<1> QED
  BY <1>3, <1>4, <1>5, <1>6, <1>7, <1>8 DEF LoadStep

\* Who moves the client of the MCP servers.
LEMMA McpSteps ==
    ASSUME [Next]_vars
    PROVE  LoadStep \/ OpenServer \/ (\E s \in Servers : Degrade(s)) \/ UNCHANGED mcpVars
<1>1. CASE HunterMoves /\ HuntStep
  BY <1>1
  DEF HuntStep, LookUp, LoadTools, ToolsAtHand, ToolsRaise, AskModel, OutOfBudget,
      CallLogTool, CallMcpTool, CallReturnsText, CallAssetTool, AssetToolAnswers, CallRefused,
      Report, ReportIsNone, HuntFails, SkipFinding, ClaimFinding, ClaimRaises, PutFinding,
      NextHunt, Exits, huntDeps
<1>2. CASE HunterMoves /\ ~HuntStep
  BY <1>2 DEF HunterMoves, HunterNext
<1>3. CASE ~HunterMoves
  BY <1>3 DEF Next, PollersMove, ReadersMove, FileChanges, WorkersMove, vars
<1> QED
  BY <1>1, <1>2, <1>3

LEMMA NextLoads == McpInv /\ [Next]_vars => McpInv'
<1> SUFFICES ASSUME McpInv, [Next]_vars PROVE McpInv'
  OBVIOUS
<1>1. ASSUME UNCHANGED <<config, opener, sessions, load>>,
             server' \in [Servers -> {"up", "hung", "broken"}]
      PROVE  McpInv'
  BY <1>1 DEF McpInv, McpTypeOK, OpenedBefore, Kept, IsReadOnly, Wraps
<1>2. ASSUME NEW s \in Servers, Degrade(s) PROVE McpInv'
  <2>1. server' \in [Servers -> {"up", "hung", "broken"}]
    BY <1>2 DEF Degrade, McpInv, McpTypeOK
  <2> QED
    BY <1>1, <1>2, <2>1 DEF Degrade
<1>3. CASE UNCHANGED mcpVars
  BY <1>1, <1>3 DEF mcpVars, McpInv, McpTypeOK, Wraps
<1> QED
  BY <1>2, <1>3, McpSteps, LoadKeeps, OpenerKeeps

LEMMA InitLoads == Init => McpInv
<1> SUFFICES ASSUME Init PROVE McpInv
  OBVIOUS
<1>1. PICK scene \in Scenes : McpInit(scene.config)
  BY DEF Init
<1>2. scene.config \in [readable: BOOLEAN, servers: Seq(Servers)]
  BY FeedsAssumption
<1>3. /\ config \in [readable: BOOLEAN, servers: Seq(Servers)]
      /\ server \in [Servers -> {"up", "hung", "broken"}]
      /\ opener = [at |-> "none", next |-> 1] /\ sessions = <<>>
      /\ load = [at |-> "never", left |-> <<>>, specs |-> <<>>, kept |-> <<>>]
  BY <1>1, <1>2 DEF McpInit
<1>4. <<>> \in Seq(Servers) /\ <<>> \in Seq(McpTools)
  BY EmptySeq
<1>5. OpenedBefore(1)
  <2>1. /\ config.servers \in Seq(Servers) /\ Len(config.servers) \in Nat
        /\ DOMAIN config.servers = 1..Len(config.servers)
    BY <1>3, LenProperties
  <2> QED
    BY <2>1 DEF OpenedBefore
<1> QED
  BY <1>3, <1>4, <1>5 DEF McpInv, McpTypeOK

\* What is handed to a model is all or nothing: with any tool, every server of
\* stdio in the configuration has its session and every tool that was listed was
\* wrapped; nothing that writes is among it; and nothing that reads is left out
\* below the limit unless some tool cannot be wrapped (MCPClient.start, _open,
\* _as_langchain_tool, load_mcp_tools), for any number of servers, whatever they
\* list and in whatever order they hang or break.
THEOREM ToolsAllOrNothing == Spec => []LoadedTools
<1>1. McpInv => LoadedTools
  <2> SUFFICES ASSUME McpInv, load.at = "loaded"
               PROVE  /\ load.kept # <<>> =>
                            /\ Wraps(load.specs)
                            /\ \A s \in Servers :
                                  Configured(s) => \E n \in DOMAIN sessions : sessions[n] = s
                      /\ \A t \in ToolsOf(load.kept) : t.name \in reading \ mutating
                      /\ Len(load.kept) <= MaxTools
                      /\ \/ Len(load.kept) = MaxTools
                         \/ ~Wraps(load.specs)
                         \/ \A t \in ToolsOf(load.specs) :
                               IsReadOnly(t) => t \in ToolsOf(load.kept)
    BY DEF LoadedTools, HaveTools
  <2>1. MaxTools \in Nat \ {0} /\ Len(<<>>) = 0 /\ DOMAIN <<>> = {}
    BY McpAssumption, EmptySeq
  <2>2. CASE load.kept = <<>> /\ load.specs = <<>>
    BY <2>1, <2>2 DEF ToolsOf
  <2>3. CASE load.kept = <<>> /\ ~Wraps(load.specs)
    BY <2>1, <2>3 DEF ToolsOf
  <2>4. CASE opener.at = "ready" /\ load.kept = Kept(load.specs) /\ Wraps(load.specs)
    <3>1. /\ load.specs \in Seq(McpTools) /\ config.servers \in Seq(Servers)
          /\ opener.next \in Nat /\ OpenedBefore(opener.next)
          /\ opener.next > Len(config.servers)
      BY <2>4 DEF McpInv, McpTypeOK
    <3>2. \A n \in DOMAIN config.servers : n < opener.next
      BY <3>1, LenProperties
    <3>3. KeptOf(load.kept, load.specs, Len(load.specs))
      BY <2>4, <3>1, KeptTools
    <3>4. DOMAIN load.specs = 1..Len(load.specs)
      BY <3>1, LenProperties
    <3>5. \A s \in Servers : Configured(s) => \E n \in DOMAIN sessions : sessions[n] = s
      BY <3>1, <3>2 DEF Configured, OpenedBefore
    <3>6. \A t \in ToolsOf(load.kept) : t.name \in reading \ mutating
      BY <3>3 DEF KeptOf, ToolsOf, IsReadOnly
    <3>7. \/ Len(load.kept) = MaxTools
          \/ \A t \in ToolsOf(load.specs) : IsReadOnly(t) => t \in ToolsOf(load.kept)
      BY <3>3, <3>4 DEF KeptOf, ToolsOf
    <3> QED
      BY <2>4, <3>3, <3>5, <3>6, <3>7 DEF KeptOf
  <2> QED
    BY <2>2, <2>3, <2>4 DEF McpInv
<1> QED
  BY <1>1, InitLoads, NextLoads, PTL DEF Spec


-----------------------------------------------------------------------------
(* Types.                                                                  *)

RoomKept == \A p \in Processes : Len(queue[p]) <= QueueSize[p]

\* What a step does to a queue: nothing, all is lost, a worker takes the head,
\* or a feed puts where there is room.
QueueMoves(p) ==
    \/ queue'[p] \in {queue[p], <<>>}
    \/ queue[p] # <<>> /\ queue'[p] = Tail(queue[p])
    \/ Len(queue[p]) < QueueSize[p] /\ \E i \in AlertIds : queue'[p] = Append(queue[p], i)

LEMMA PutMovesQueue ==
    ASSUME ClaimInv, NEW q \in Processes, NEW i \in AlertIds, QueuePut(q, i), NEW p \in Processes
    PROVE  QueueMoves(p)
<1>1. /\ queue \in [Processes -> Seq(AlertIds)]
      /\ queue' = [queue EXCEPT ![q] = Append(queue[q], i)] /\ Len(queue[q]) < QueueSize[q]
  BY DEF ClaimInv, FeedTypes, QueuePut
<1> QED
  BY <1>1 DEF QueueMoves

LEMMA EveryQueueMoves ==
    ASSUME ClaimInv, [Next]_vars, NEW p \in Processes
    PROVE  QueueMoves(p)
<1>0. queue \in [Processes -> Seq(AlertIds)] /\ hunter \in Processes /\ Pollers \subseteq Processes
  BY HunterAssumption, PollerAssumption DEF ClaimInv, FeedTypes
<1>1. UNCHANGED queue => QueueMoves(p)
  BY DEF QueueMoves
<1>2. ASSUME NEW q \in Processes, queue' = [queue EXCEPT ![q] = <<>>] PROVE QueueMoves(p)
  BY <1>0, <1>2 DEF QueueMoves
<1>3. CASE PollersMove
  <2>1. ASSUME NEW q \in Pollers, PollStep(q) PROVE QueueMoves(p)
    <3>1. CASE Put(q)
      <4>1. Holds(q)
        BY <3>1 DEF Put, Holds
      <4>2. alertId[poll[q].hand] \in AlertIds /\ QueuePut(q, alertId[poll[q].hand])
        BY <3>1, <4>1 DEF Put, ClaimInv, FeedTypes, HeldBy
      <4> QED
        BY <1>0, <4>2, PutMovesQueue
    <3>2. CASE ~Put(q)
      BY <1>1, <2>1, <3>2
      DEF PollStep, Search, SearchAnswers, Claim, Finish, PollFails, Wake, Restart, Claimed, storeVars
    <3> QED
      BY <3>1, <3>2
  <2>2. ASSUME NEW q \in Pollers, Crash(q) PROVE QueueMoves(p)
    BY <1>0, <1>2, <2>2 DEF Crash
  <2>3. ASSUME NEW q \in Pollers, Work(q) PROVE QueueMoves(p)
    BY <1>0, <2>3 DEF Work, QueueMoves
  <2>4. CASE (\E e \in Events : Happens(e) \/ Index(e)) \/ Tick
    BY <1>1, <2>4 DEF Happens, Index, Tick, storeVars
  <2> QED
    BY <1>3, <2>1, <2>2, <2>3, <2>4 DEF PollersMove, PollerNext
<1>4. CASE HunterMoves
  <2>1. CASE PutFinding
    <3>1. HuntHolds /\ QueuePut(hunter, hunt.id)
      BY <2>1 DEF PutFinding, At, HuntHolds
    <3>2. hunt.id \in AlertIds
      BY <3>1 DEF ClaimInv, FeedTypes
    <3> QED
      BY <1>0, <3>1, <3>2, PutMovesQueue
  <2>2. CASE NextHunt \/ ToolsRaise \/ ReportIsNone \/ ClaimRaises
    <3>1. Exits \/ UNCHANGED queue
      BY <2>2 DEF NextHunt, ToolsRaise, ReportIsNone, ClaimRaises, huntDeps, storeVars
    <3> QED
      BY <1>0, <1>1, <1>2, <3>1 DEF Exits
  <2>3. CASE LookUp \/ LoadTools \/ ClaimFinding
    BY <1>1, <2>3 DEF LookUp, LoadTools, ClaimFinding, Claimed, storeVars
  <2>4. CASE \/ ToolsAtHand \/ AskModel \/ OutOfBudget
             \/ CallLogTool \/ CallMcpTool \/ CallAssetTool \/ AssetToolAnswers
             \/ CallRefused \/ Report \/ HuntFails \/ SkipFinding
    <3>1. UNCHANGED storeVars
      BY <2>4, QuietHuntSteps DEF ClaimInv, FeedTypes
    <3> QED
      BY <1>1, <3>1 DEF storeVars
  <2>5. CASE UNCHANGED <<storeVars, assetVars, huntVars>>
    BY <1>1, <2>5 DEF storeVars
  <2> QED
    BY <1>4, <2>1, <2>2, <2>3, <2>4, <2>5 DEF HunterMoves, HunterNext, HuntStep
<1>5. CASE ReadersMove \/ FileChanges \/ WorkersMove \/ UNCHANGED vars
  BY <1>1, <1>5 DEF ReadersMove, FileChanges, WorkersMove, vars, storeVars
<1> QED
  BY <1>3, <1>4, <1>5 DEF Next

LEMMA NextKeepsRoom ==
    ASSUME ClaimInv, RoomKept, [Next]_vars
    PROVE  RoomKept'
<1> SUFFICES ASSUME NEW p \in Processes PROVE Len(queue'[p]) <= QueueSize[p]
  BY DEF RoomKept
<1>1. /\ queue[p] \in Seq(AlertIds) /\ Len(queue[p]) \in Nat /\ Len(queue[p]) <= QueueSize[p]
      /\ QueueSize[p] \in Nat \ {0}
  BY AlertStoreAssumption, LenProperties DEF ClaimInv, FeedTypes, RoomKept
<1>2. CASE queue'[p] \in {queue[p], <<>>}
  BY <1>1, <1>2, EmptySeq
<1>3. CASE queue[p] # <<>> /\ queue'[p] = Tail(queue[p])
  <2>1. Len(Tail(queue[p])) = Len(queue[p]) - 1
    BY <1>1, <1>3, HeadTailProperties
  <2> QED
    BY <1>1, <1>3, <2>1
<1>4. ASSUME NEW i \in AlertIds, Len(queue[p]) < QueueSize[p], queue'[p] = Append(queue[p], i)
      PROVE  Len(queue'[p]) <= QueueSize[p]
  BY <1>1, <1>4, AppendProperties
<1> QED
  BY <1>2, <1>3, <1>4, EveryQueueMoves DEF QueueMoves

\* The numbers of a hunt that its bounds leave open.
HuntTypeInv == HunterTypeOK /\ HuntInv

LEMMA HuntKeepsType ==
    ASSUME HuntTypeInv, hunt' \in Hunts, HuntInv', HuntStep
    PROVE  HunterTypeOK'
<1>0. /\ hunt.number \in 1..Hypotheses /\ hunt.used \in Nat /\ hunt.made \in Nat
      /\ hunt.calls \in 0..MaxBatch /\ hunt.findings \in Nat /\ hunt.filed \in Nat
      /\ hunt.id \in HuntIds \cup {NoId} /\ hunt \in Hunts
      /\ Hypotheses \in Nat \ {0} /\ MaxBatch \in Nat \ {0} /\ Cap \in Nat \ {0}
  BY HunterAssumption DEF HuntTypeInv, HunterTypeOK, Hunts, HuntPlaces
<1> SUFFICES /\ hunt'.number \in 1..Hypotheses
             /\ hunt'.made >= 0 /\ hunt'.filed >= 0 /\ hunt'.calls <= MaxBatch
  <2>1. /\ hunt'.used = hunt'.made /\ hunt'.calls >= 0 /\ hunt'.findings >= 0
        /\ hunt'.at \in HuntPlaces /\ hunt'.id \in HuntIds \cup {NoId}
        /\ hunt'.made \in Int /\ hunt'.filed \in Int /\ hunt'.calls \in Int
        /\ hunt'.findings \in Int
        /\ hunt' = [at |-> hunt'.at, number |-> hunt'.number, used |-> hunt'.used,
                    made |-> hunt'.made, calls |-> hunt'.calls, findings |-> hunt'.findings,
                    filed |-> hunt'.filed, id |-> hunt'.id]
    BY DEF HuntInv, Hunts
  <2>2. hunt'.calls \in 0..MaxBatch /\ hunt'.made \in Nat /\ hunt'.filed \in Nat
        /\ hunt'.findings \in Nat /\ hunt'.used \in Nat
    BY <1>0, <2>1
  <2> QED
    BY <2>1, <2>2 DEF HunterTypeOK, HuntPlaces
<1>1. CASE LookUp \/ LoadTools
  BY <1>0, <1>1 DEF LookUp, LoadTools, huntVars
<1>2. CASE \/ ToolsAtHand \/ OutOfBudget \/ AssetToolAnswers \/ Report
           \/ SkipFinding \/ ClaimFinding \/ PutFinding \/ Exits
  <2>1. /\ hunt'.number = hunt.number /\ hunt'.made = hunt.made /\ hunt'.calls = hunt.calls
        /\ hunt'.filed \in {hunt.filed, hunt.filed + 1}
    BY <1>0, <1>2
    DEF ToolsAtHand, OutOfBudget, AssetToolAnswers, Report, SkipFinding, ClaimFinding,
        PutFinding, Exits, Goes, NextCall, Hunts
  <2> QED
    BY <1>0, <2>1
<1>3. CASE AskModel
  <2>1. PICK n \in 0..MaxBatch :
           hunt' = [hunt EXCEPT !.calls = n, !.at = IF n = 0 THEN "reporting" ELSE "calling"]
    BY <1>3 DEF AskModel
  <2>2. /\ hunt'.number = hunt.number /\ hunt'.made = hunt.made /\ hunt'.calls = n
        /\ hunt'.filed = hunt.filed
    BY <1>0, <2>1 DEF Hunts
  <2> QED
    BY <1>0, <2>2
<1>4. CASE CallLogTool \/ CallMcpTool \/ CallAssetTool \/ CallRefused
  <2>1. /\ hunt'.number = hunt.number /\ hunt'.made = hunt.made + 1
        /\ hunt'.calls \in {hunt.calls - 1, 0} /\ hunt'.filed = hunt.filed
    BY <1>0, <1>4
    DEF CallLogTool, CallMcpTool, CallReturnsText, CallAssetTool, CallRefused, NextCall,
        Counted, Hunts
  <2> QED
    BY <1>0, <2>1
<1>5. CASE HuntFails
  <2>1. /\ hunt'.number = hunt.number /\ hunt'.made = hunt.made /\ hunt'.calls = 0
        /\ hunt'.filed = hunt.filed
    BY <1>0, <1>5 DEF HuntFails, Hunts
  <2> QED
    BY <1>0, <2>1
<1>6. CASE NextHunt /\ ~Exits
  <2>1. /\ hunt.number < Hypotheses /\ hunt'.number = hunt.number + 1
        /\ hunt'.made = 0 /\ hunt'.calls = 0 /\ hunt'.filed = 0
    BY <1>6 DEF NextHunt, NewHunt
  <2> QED
    BY <1>0, <2>1
<1>7. CASE ToolsRaise \/ ReportIsNone \/ ClaimRaises
  BY <1>2, <1>7 DEF ToolsRaise, ReportIsNone, ClaimRaises
<1> QED
  BY <1>1, <1>2, <1>3, <1>4, <1>5, <1>6, <1>7 DEF HuntStep

\* Every variable of the feeds keeps its type, no queue grows past its maxsize,
\* and the indexes, polls, tools, lookups and hunt stay within their ranges.
THEOREM FeedsTypeCorrect == Spec => []TypeOK
<1>1. Init => RoomKept /\ HuntTypeInv /\ DedupeTypeOK
  <2> SUFFICES ASSUME Init PROVE RoomKept /\ HuntTypeInv /\ DedupeTypeOK
    OBVIOUS
  <2>1. PICK scene \in Scenes : /\ StoreInit({alertId[e] : e \in scene.old})
                                /\ HuntInit(scene.hunting) /\ DedupeInit(scene.index)
    BY DEF Init
  <2>2. scene.index \in {"none", "memory", "postgres"}
    BY FeedsAssumption
  <2>3. RoomKept
    <3> SUFFICES ASSUME NEW p \in Processes PROVE Len(queue[p]) <= QueueSize[p]
      BY DEF RoomKept
    <3>1. queue[p] = <<>> /\ QueueSize[p] \in Nat
      BY <2>1, AlertStoreAssumption DEF StoreInit
    <3> QED
      BY <3>1
  <2>4. HunterTypeOK
    BY <2>1, HunterAssumption DEF HuntInit, NewHunt, HunterTypeOK
  <2>5. HuntInv
    BY <2>1, HunterAssumption DEF HuntInit, NewHunt, HuntInv
  <2>6. DedupeTypeOK
    BY <2>1, <2>2, DedupeAssumption DEF DedupeInit, DedupeTypeOK, NothingTold
  <2> QED
    BY <2>3, <2>4, <2>5, <2>6 DEF HuntTypeInv
<1>2. ClaimInv /\ RoomKept /\ [Next]_vars => RoomKept'
  BY NextKeepsRoom
<1>3. ClaimInv /\ HuntTypeInv /\ [Next]_vars => HuntTypeInv'
  <2> SUFFICES ASSUME ClaimInv, HuntTypeInv, [Next]_vars PROVE HuntTypeInv'
    OBVIOUS
  <2>1. hunt \in Hunts /\ hunt' \in Hunts
    BY NextKeepsClaims DEF ClaimInv, FeedTypes
  <2>2. HuntStep \/ UNCHANGED hunt
    <3>1. CASE HunterMoves
      BY <3>1 DEF HunterMoves, HunterNext, huntVars
    <3>2. CASE ~HunterMoves
      BY <3>2 DEF Next, PollersMove, ReadersMove, FileChanges, WorkersMove, vars, huntVars
    <3> QED
      BY <3>1, <3>2
  <2>3. CASE UNCHANGED hunt
    BY <2>3 DEF HuntTypeInv, HunterTypeOK, HuntInv
  <2>4. CASE HuntStep
    BY <2>1, <2>4, HuntKeepsBounds, HuntKeepsType DEF HuntTypeInv
  <2> QED
    BY <2>2, <2>3, <2>4
<1>4. DedupeTypeOK /\ [Next]_vars => DedupeTypeOK'
  <2>1. [Next]_vars => DedupeNext \/ UNCHANGED dedupeVars
    BY DEF Next, vars, PollersMove, HunterMoves, ReadersMove, FileChanges, WorkersMove
  <2> QED
    BY <2>1, DedupeStepTyped
<1>5. ClaimInv /\ RoomKept /\ PollerInv /\ McpInv /\ FileInv /\ HuntTypeInv /\ DedupeTypeOK
         => TypeOK
  BY DEF ClaimInv, FeedTypes, RoomKept, StoreTypeOK, PollerInv, McpInv, FileInv, Files,
         Lookups, LookupPlaces, LoadedFiles, AssetTypeOK, HuntTypeInv, TypeOK
<1> QED
  BY <1>1, <1>2, <1>3, <1>4, <1>5, InitClaims, NextKeepsClaims, InitCovers, NextCovers,
     InitLoads, NextLoads, InventoryKept, PTL DEF Spec

=============================================================================
