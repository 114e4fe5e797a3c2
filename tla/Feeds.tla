------------------------------- MODULE Feeds -------------------------------
(***************************************************************************)
(* The feeds of the alert store together: polling processes and a hunt     *)
(* that share one registry and keep a queue each, with the inventory file, *)
(* the MCP servers and the dedupe index that processes depend on.  A       *)
(* behaviour starts in one of the Scenes, which say what runs.             *)
(***************************************************************************)
EXTENDS Poller, Hunter, Dedupe

CONSTANTS Scenes   \* what may run, and how often a polling process may stop

ASSUME FeedsAssumption ==
    Scenes \subseteq [pollers: SUBSET Pollers, old: SUBSET Events, stops: Nat, hunting: BOOLEAN,
                      config: [readable: BOOLEAN, servers: Seq(Servers)],
                      readers: SUBSET Readers, index: {"none", "memory", "postgres"}]

vars == <<storeVars, pollerVars, mcpVars, assetVars, huntVars, dedupeVars>>

Init ==
    \E scene \in Scenes :
        /\ StoreInit({alertId[e] : e \in scene.old})
        /\ PollerInit(scene.pollers, scene.old, scene.stops)
        /\ HuntInit(scene.hunting)
        /\ McpInit(scene.config)
        /\ AssetInit(scene.readers)
        /\ DedupeInit(scene.index)

PollersMove == PollerNext /\ UNCHANGED <<mcpVars, assetVars, huntVars, dedupeVars>>
HunterMoves == HunterNext /\ UNCHANGED <<pollerVars, dedupeVars>>

ReadersMove ==
    /\ \E r \in Readers \ {reader} : StartLookup(r) \/ LookupStep(r)
    /\ UNCHANGED <<storeVars, pollerVars, mcpVars, huntVars, dedupeVars>>

FileChanges ==
    /\ \E f \in Versions \cup {NoFile} : Edit(f)
    /\ UNCHANGED <<storeVars, pollerVars, mcpVars, huntVars, dedupeVars>>

WorkersMove ==
    DedupeNext /\ UNCHANGED <<storeVars, pollerVars, mcpVars, assetVars, huntVars>>

Next == PollersMove \/ HunterMoves \/ ReadersMove \/ FileChanges \/ WorkersMove

\* Nobody has to touch the file, nor a server to fail or to come up.
Fairness == PollerFairness /\ HunterFairness

Spec == Init /\ [][Next]_vars
FairSpec == Spec /\ Fairness
WorkedSpec == FairSpec /\ WorkerFairness

\* Every variable has its type, and no queue is longer than its maxsize.
TypeOK == StoreTypeOK /\ PollerTypeOK /\ McpTypeOK /\ AssetTypeOK /\ HunterTypeOK
          /\ DedupeTypeOK
=============================================================================
