--------------------------- MODULE ControlLedger ---------------------------
(***************************************************************************)
(* The run-control ledger of scripts/multi-node-state.mjs.                 *)
(*                                                                         *)
(* The root scheduler appends control events to one hash-chained ledger;   *)
(* replayControlLedger folds them into the run-control projection and      *)
(* rejects the whole ledger as soon as one event does not fit.  An append  *)
(* is durable only after the extended ledger replays, so the state below   *)
(* is the projection and there is one action per event type: its guard is  *)
(* what the replay demands of the event, its effect what the replay does   *)
(* to the projection.  The hash chain, the digests and the authority       *)
(* signature on each event are abstracted: an event that breaks them is    *)
(* never appended and changes nothing.                                     *)
(*                                                                         *)
(* Spec is every ledger the replay accepts.  What the recorders append is  *)
(* less: Dispatcher.tla and DeliveryClosure.tla model them.                *)
(***************************************************************************)
EXTENDS Integers, Sequences, FiniteSets

CONSTANTS
    Nodes,          \* node ids, one per selected issue
    Repositories,   \* repository keys
    Keys,           \* dependency keys of the issues
    Bases,          \* base commits a repository can be at
    Groups,         \* acceptance group ids
    Authorities,    \* runtime authority bindings: [invocation, rootEpoch]
    Selectors,      \* selector receipt digests
    Snapshots,      \* remote snapshot digests
    DispatchIds,    \* dispatch ids of actor actions
    Actions,        \* action digests
    SlotIds,        \* slot ids
    EffectIds,      \* ids of remote effects
    Receipts,       \* cleanup receipt digests
    NoValue,        \* null: not registered, not recorded
    MaxEpoch,       \* bound: largest node epoch
    MaxCapacity,    \* bound: largest slot capacity
    MaxHistory      \* bound: settlements in the dispatch history

ASSUME NoValueAssumption ==
    /\ NoValue \notin Bases
    /\ NoValue \notin Groups
    /\ NoValue \notin Authorities
    /\ NoValue \notin Receipts
    /\ NoValue \notin EffectIds
ASSUME BoundAssumption ==
    MaxEpoch \in Nat /\ MaxCapacity \in Nat /\ MaxHistory \in Nat
ASSUME NodesAssumption == IsFiniteSet(Nodes)

VARIABLES
    authority,           \* lifecycleAuthorityBinding
    selector,            \* selectorReceiptDigest
    snapshot,            \* remoteSnapshotDigest
    nodes,               \* node id -> registration, NoValue before it
    dependencies,        \* node id -> dependency keys
    acceptanceGroups,    \* group id -> member node ids
    repositoryBases,     \* repository -> base commit
    slots,               \* [capacity, active]
    activeDispatches,    \* dispatches started and not settled
    dispatchHistory,     \* settled dispatches in order of settlement
    deliveryFreezes,     \* freeze id (a group id) -> [active, effectId]
    pendingDelivery,     \* group id -> effect applied remotely, unfinished
    deliveryEffects,     \* group id -> completed delivery effect
    cleanupFinalizations,\* node id -> cleanup receipt
    pendingAuthorizations, \* node id -> authorised closure effect
    pendingClosures,     \* node id -> closure effect applied remotely
    closureEffects,      \* node id -> completed closure effect
    terminal             \* run.terminalized was recorded

scopeVars == <<authority, selector, snapshot, nodes, dependencies,
               acceptanceGroups, repositoryBases>>
slotVars == <<slots, activeDispatches, dispatchHistory>>
deliveryVars == <<deliveryFreezes, pendingDelivery, deliveryEffects>>
closureVars == <<cleanupFinalizations, pendingAuthorizations,
                 pendingClosures, closureEffects>>
vars == <<scopeVars, slotVars, deliveryVars, closureVars, terminal>>

-----------------------------------------------------------------------------
(* The values the projection holds. *)

Epochs == 1 .. MaxEpoch

Registration ==
    [repository : Repositories, nodeEpoch : Epochs, base : Bases,
     dependencyKeys : SUBSET Keys, acceptanceGroup : Groups \cup {NoValue},
     authority : Authorities \cup {NoValue},
     status : {"active", "removed", "tombstoned"}]

ActiveRegistration == {r \in Registration : r.status = "active"}

Dispatch == [dispatchId : DispatchIds, nodeId : Nodes,
             actionDigest : Actions, slotId : SlotIds]

Outcomes == {"completed", "failed", "excluded"}

Freeze == [active : BOOLEAN, effectId : EffectIds]
ClosureEffect == [effectId : EffectIds, receipt : Receipts]

ASSUME NoRecordAssumption ==
    /\ NoValue \notin Registration
    /\ NoValue \notin Freeze
    /\ NoValue \notin ClosureEffect

IsRegistered(n) == nodes[n] # NoValue
IsActive(n) == IsRegistered(n) /\ nodes[n].status = "active"

-----------------------------------------------------------------------------
(* The empty projection of a new ledger. *)

Init ==
    /\ authority \in Authorities \cup {NoValue}
    /\ selector = NoValue
    /\ snapshot = NoValue
    /\ nodes = [n \in Nodes |-> NoValue]
    /\ dependencies = [n \in Nodes |-> {}]
    /\ acceptanceGroups = [g \in Groups |-> {}]
    /\ repositoryBases = [r \in Repositories |-> NoValue]
    /\ slots = [capacity |-> 0, active |-> {}]
    /\ activeDispatches = {}
    /\ dispatchHistory = <<>>
    /\ deliveryFreezes = [g \in Groups |-> NoValue]
    /\ pendingDelivery = [g \in Groups |-> NoValue]
    /\ deliveryEffects = [g \in Groups |-> NoValue]
    /\ cleanupFinalizations = [n \in Nodes |-> NoValue]
    /\ pendingAuthorizations = [n \in Nodes |-> NoValue]
    /\ pendingClosures = [n \in Nodes |-> NoValue]
    /\ closureEffects = [n \in Nodes |-> NoValue]
    /\ terminal = FALSE

-----------------------------------------------------------------------------
(* Authority and scope. *)

(* A takeover replaces the binding by one of a new invocation and epoch.   *)
(* Only the binding it replaces is compared, not the ones before it.       *)
AuthorityRebound(next) ==
    /\ authority # NoValue
    /\ next.invocation # authority.invocation
    /\ next.rootEpoch # authority.rootEpoch
    /\ authority' = next
    /\ UNCHANGED <<selector, snapshot, nodes, dependencies, acceptanceGroups,
                   repositoryBases, slotVars, deliveryVars, closureVars,
                   terminal>>

ScopeRefreshed(s) ==
    /\ selector' = s
    /\ UNCHANGED <<authority, snapshot, nodes, dependencies,
                   acceptanceGroups, repositoryBases, slotVars, deliveryVars,
                   closureVars, terminal>>

RemoteSnapshotRefreshed(s) ==
    /\ snapshot' = s
    /\ UNCHANGED <<authority, selector, nodes, dependencies,
                   acceptanceGroups, repositoryBases, slotVars, deliveryVars,
                   closureVars, terminal>>

(* A registration carries the authority in force, if there is one. *)
FitsAuthority(registration) ==
    authority # NoValue => registration.authority = authority

(* The member joins the group it names and leaves every other one. *)
MovedToGroup(n, group) ==
    [g \in Groups |-> IF g = group THEN acceptanceGroups[g] \cup {n}
                                   ELSE acceptanceGroups[g] \ {n}]

(* Mutant: a registration does not give its repository a base. *)
NodeRegisteredWithoutBase(n, registration) ==
    /\ FitsAuthority(registration)
    /\ ~IsRegistered(n)
    /\ nodes' = [nodes EXCEPT ![n] = registration]
    /\ dependencies' = [dependencies EXCEPT ![n] = registration.dependencyKeys]
    /\ acceptanceGroups' = MovedToGroup(n, registration.acceptanceGroup)
    /\ UNCHANGED <<authority, selector, snapshot, repositoryBases, slotVars,
                   deliveryVars, closureVars, terminal>>

NodeRegistered(n, registration) ==
    /\ FitsAuthority(registration)
    /\ ~IsRegistered(n)
    /\ nodes' = [nodes EXCEPT ![n] = registration]
    /\ dependencies' = [dependencies EXCEPT ![n] = registration.dependencyKeys]
    /\ repositoryBases' =
         IF repositoryBases[registration.repository] = NoValue
         THEN [repositoryBases EXCEPT ![registration.repository] =
                   registration.base]
         ELSE repositoryBases
    /\ acceptanceGroups' =
         [g \in Groups |-> IF g = registration.acceptanceGroup
                           THEN acceptanceGroups[g] \cup {n}
                           ELSE acceptanceGroups[g]]
    /\ UNCHANGED <<authority, selector, snapshot, slotVars, deliveryVars,
                   closureVars, terminal>>

(* Mutant: the epoch of a new incarnation is not compared. *)
ReincarnatedAtAnyEpoch(n, registration) ==
    /\ FitsAuthority(registration)
    /\ registration.repository = nodes[n].repository
    /\ nodes' = [nodes EXCEPT ![n] = registration]
    /\ dependencies' = [dependencies EXCEPT ![n] = registration.dependencyKeys]
    /\ acceptanceGroups' = MovedToGroup(n, registration.acceptanceGroup)
    /\ repositoryBases' = [repositoryBases EXCEPT
           ![registration.repository] = registration.base]
    /\ UNCHANGED <<authority, selector, snapshot, slotVars, deliveryVars,
                   closureVars, terminal>>

(* What node.rebound and node.reopened share: a new incarnation of a known *)
(* node, one epoch later, for the same issue.                              *)
Reincarnated(n, registration) ==
    /\ FitsAuthority(registration)
    /\ registration.nodeEpoch = nodes[n].nodeEpoch + 1
    /\ registration.repository = nodes[n].repository
    /\ nodes' = [nodes EXCEPT ![n] = registration]
    /\ dependencies' = [dependencies EXCEPT ![n] = registration.dependencyKeys]
    /\ acceptanceGroups' = MovedToGroup(n, registration.acceptanceGroup)
    /\ repositoryBases' = [repositoryBases EXCEPT
           ![registration.repository] = registration.base]
    /\ UNCHANGED <<authority, selector, snapshot, slotVars, deliveryVars,
                   closureVars, terminal>>

NodeRebound(n, registration) ==
    IsActive(n) /\ Reincarnated(n, registration)

NodeReopened(n, registration) ==
    IsRegistered(n) /\ ~IsActive(n) /\ Reincarnated(n, registration)

(* Mutant: a removed node gets the status of a node that finished. *)
NodeRetiredAsClosed(n, status) ==
    /\ IsActive(n)
    /\ nodes' = [nodes EXCEPT ![n].status = "closed"]
    /\ UNCHANGED <<authority, selector, snapshot, dependencies,
                   acceptanceGroups, repositoryBases, slotVars, deliveryVars,
                   closureVars, terminal>>

(* Removal keeps the registration: only its status changes. *)
NodeRetired(n, status) ==
    /\ IsActive(n)
    /\ nodes' = [nodes EXCEPT ![n].status = status]
    /\ UNCHANGED <<authority, selector, snapshot, dependencies,
                   acceptanceGroups, repositoryBases, slotVars, deliveryVars,
                   closureVars, terminal>>

RepositoryBaseChanged(r, base) ==
    /\ repositoryBases' = [repositoryBases EXCEPT ![r] = base]
    /\ UNCHANGED <<authority, selector, snapshot, nodes, dependencies,
                   acceptanceGroups, slotVars, deliveryVars, closureVars,
                   terminal>>

DependencyUpdated(n, keys) ==
    /\ IsActive(n)
    /\ nodes' = [nodes EXCEPT ![n].dependencyKeys = keys]
    /\ dependencies' = [dependencies EXCEPT ![n] = keys]
    /\ UNCHANGED <<authority, selector, snapshot, acceptanceGroups,
                   repositoryBases, slotVars, deliveryVars, closureVars,
                   terminal>>

AcceptanceGroupUpdated(g, members) ==
    /\ \A n \in members : IsActive(n)
    /\ acceptanceGroups' = [acceptanceGroups EXCEPT ![g] = members]
    /\ UNCHANGED <<authority, selector, snapshot, nodes, dependencies,
                   repositoryBases, slotVars, deliveryVars, closureVars,
                   terminal>>

-----------------------------------------------------------------------------
(* Slots and dispatches. *)

(* Mutant: the slots of unsettled dispatches may be dropped. *)
SlotsUpdatedFreely(capacity, active) ==
    /\ Cardinality(active) <= capacity
    /\ \A n \in active : IsActive(n)
    /\ slots' = [capacity |-> capacity, active |-> active]
    /\ UNCHANGED <<scopeVars, activeDispatches, dispatchHistory,
                   deliveryVars, closureVars, terminal>>

SlotsUpdated(capacity, active) ==
    /\ Cardinality(active) <= capacity
    /\ \A n \in active : IsActive(n)
    /\ activeDispatches # {} =>
         active = {d.nodeId : d \in activeDispatches}
    /\ slots' = [capacity |-> capacity, active |-> active]
    /\ UNCHANGED <<scopeVars, activeDispatches, dispatchHistory,
                   deliveryVars, closureVars, terminal>>

(* Mutant: only the dispatch id is compared with the active dispatches. *)
ActionStartedUnderNewId(dispatch) ==
    /\ IsActive(dispatch.nodeId)
    /\ \A d \in activeDispatches : d.dispatchId # dispatch.dispatchId
    /\ dispatch.nodeId \notin slots.active
    /\ Cardinality(slots.active) < slots.capacity
    /\ activeDispatches' = activeDispatches \cup {dispatch}
    /\ slots' = [slots EXCEPT !.active = @ \cup {dispatch.nodeId}]
    /\ UNCHANGED <<scopeVars, dispatchHistory, deliveryVars, closureVars,
                   terminal>>

ActionStarted(dispatch) ==
    /\ IsActive(dispatch.nodeId)
    /\ \A d \in activeDispatches :
         /\ d.dispatchId # dispatch.dispatchId
         /\ d.actionDigest # dispatch.actionDigest
         /\ d.nodeId # dispatch.nodeId
         /\ d.slotId # dispatch.slotId
    /\ dispatch.nodeId \notin slots.active
    /\ Cardinality(slots.active) < slots.capacity
    /\ activeDispatches' = activeDispatches \cup {dispatch}
    /\ slots' = [slots EXCEPT !.active = @ \cup {dispatch.nodeId}]
    /\ UNCHANGED <<scopeVars, dispatchHistory, deliveryVars, closureVars,
                   terminal>>

ActionSettled(dispatch, outcome) ==
    /\ Len(dispatchHistory) < MaxHistory
    /\ dispatch \in activeDispatches
    /\ activeDispatches' = activeDispatches \ {dispatch}
    /\ slots' = [slots EXCEPT !.active = @ \ {dispatch.nodeId}]
    /\ dispatchHistory' = Append(dispatchHistory,
           [dispatch |-> dispatch, outcome |-> outcome])
    /\ UNCHANGED <<scopeVars, deliveryVars, closureVars, terminal>>

-----------------------------------------------------------------------------
(* Delivery of an acceptance group. *)

FreezeAcquired(g, effectId) ==
    /\ deliveryFreezes[g] # NoValue => ~deliveryFreezes[g].active
    /\ deliveryFreezes' = [deliveryFreezes EXCEPT
           ![g] = [active |-> TRUE, effectId |-> effectId]]
    /\ UNCHANGED <<scopeVars, slotVars, pendingDelivery, deliveryEffects,
                   closureVars, terminal>>

FreezeReleased(g, effectId) ==
    /\ deliveryFreezes[g] # NoValue
    /\ deliveryFreezes[g].active
    /\ deliveryFreezes[g].effectId = effectId
    /\ deliveryFreezes' = [deliveryFreezes EXCEPT ![g].active = FALSE]
    /\ UNCHANGED <<scopeVars, slotVars, pendingDelivery, deliveryEffects,
                   closureVars, terminal>>

(* Mutant: only the pending effects are compared. *)
NotPending(effectId) == \A g \in Groups : pendingDelivery[g] # effectId

(* The id must be new in the whole run, pending and completed effects of   *)
(* every group alike; the group may have an effect already.                *)
FreshEffect(effectId) ==
    \A g \in Groups : pendingDelivery[g] # effectId
                      /\ deliveryEffects[g] # effectId

DeliveryEffectApplied(g, effectId) ==
    /\ FreshEffect(effectId)
    /\ pendingDelivery' = [pendingDelivery EXCEPT ![g] = effectId]
    /\ UNCHANGED <<scopeVars, slotVars, deliveryFreezes, deliveryEffects,
                   closureVars, terminal>>

(* An effect recorded with any other status counts as delivered at once. *)
DeliveryEffectRecorded(g, effectId) ==
    /\ FreshEffect(effectId)
    /\ deliveryEffects' = [deliveryEffects EXCEPT ![g] = effectId]
    /\ UNCHANGED <<scopeVars, slotVars, deliveryFreezes, pendingDelivery,
                   closureVars, terminal>>

DeliveryEffectCompleted(g, effectId) ==
    /\ pendingDelivery[g] = effectId
    /\ deliveryEffects[g] = NoValue
    /\ deliveryEffects' = [deliveryEffects EXCEPT ![g] = effectId]
    /\ pendingDelivery' = [pendingDelivery EXCEPT ![g] = NoValue]
    /\ UNCHANGED <<scopeVars, slotVars, deliveryFreezes, closureVars,
                   terminal>>

-----------------------------------------------------------------------------
(* Cleanup and closure of a node, and the end of the run. *)

(* Mutant: a finalised cleanup is replaced by a later one. *)
CleanupFinalizedAgain(n, receipt) ==
    /\ cleanupFinalizations' = [cleanupFinalizations EXCEPT ![n] = receipt]
    /\ UNCHANGED <<scopeVars, slotVars, deliveryVars, pendingAuthorizations,
                   pendingClosures, closureEffects, terminal>>

CleanupFinalized(n, receipt) ==
    /\ cleanupFinalizations[n] = NoValue
    /\ cleanupFinalizations' = [cleanupFinalizations EXCEPT ![n] = receipt]
    /\ UNCHANGED <<scopeVars, slotVars, deliveryVars, pendingAuthorizations,
                   pendingClosures, closureEffects, terminal>>

(* Mutant: the receipt is not compared with the finalised cleanup. *)
ClosureAuthorizedForAnyReceipt(n, effect) ==
    /\ pendingAuthorizations[n] = NoValue
    /\ pendingClosures[n] = NoValue
    /\ closureEffects[n] = NoValue
    /\ pendingAuthorizations' = [pendingAuthorizations EXCEPT ![n] = effect]
    /\ UNCHANGED <<scopeVars, slotVars, deliveryVars, cleanupFinalizations,
                   pendingClosures, closureEffects, terminal>>

ClosureAuthorized(n, effect) ==
    /\ cleanupFinalizations[n] = effect.receipt
    /\ pendingAuthorizations[n] = NoValue
    /\ pendingClosures[n] = NoValue
    /\ closureEffects[n] = NoValue
    /\ pendingAuthorizations' = [pendingAuthorizations EXCEPT ![n] = effect]
    /\ UNCHANGED <<scopeVars, slotVars, deliveryVars, cleanupFinalizations,
                   pendingClosures, closureEffects, terminal>>

ClosureEffectRecorded(n, effect) ==
    /\ pendingAuthorizations[n] = effect
    /\ pendingClosures[n] = NoValue
    /\ closureEffects[n] = NoValue
    /\ pendingClosures' = [pendingClosures EXCEPT ![n] = effect]
    /\ pendingAuthorizations' = [pendingAuthorizations EXCEPT ![n] = NoValue]
    /\ UNCHANGED <<scopeVars, slotVars, deliveryVars, cleanupFinalizations,
                   closureEffects, terminal>>

(* The event names the effect id only; the pending record is kept. *)
ClosureEffectCompleted(n, effectId) ==
    /\ pendingClosures[n] # NoValue
    /\ pendingClosures[n].effectId = effectId
    /\ closureEffects[n] = NoValue
    /\ closureEffects' = [closureEffects EXCEPT ![n] = pendingClosures[n]]
    /\ pendingClosures' = [pendingClosures EXCEPT ![n] = NoValue]
    /\ UNCHANGED <<scopeVars, slotVars, deliveryVars, cleanupFinalizations,
                   pendingAuthorizations, terminal>>

(* Nothing but an earlier terminalization is checked, and events recorded  *)
(* after it still replay.                                                  *)
RunTerminalized ==
    /\ ~terminal
    /\ terminal' = TRUE
    /\ UNCHANGED <<scopeVars, slotVars, deliveryVars, closureVars>>

-----------------------------------------------------------------------------

ScopeNext ==
    \/ \E next \in Authorities : AuthorityRebound(next)
    \/ \E s \in Selectors : ScopeRefreshed(s)
    \/ \E s \in Snapshots : RemoteSnapshotRefreshed(s)
    \/ \E n \in Nodes, registration \in ActiveRegistration :
         \/ NodeRegistered(n, registration)
         \/ NodeRebound(n, registration)
         \/ NodeReopened(n, registration)
    \/ \E n \in Nodes : NodeRetired(n, "removed")
    \/ \E r \in Repositories, base \in Bases : RepositoryBaseChanged(r, base)

DispatchNext ==
    \/ \E d \in Dispatch : ActionStarted(d)
    \/ \E d \in Dispatch, outcome \in Outcomes : ActionSettled(d, outcome)

ClosureNext ==
    \/ \E n \in Nodes, receipt \in Receipts : CleanupFinalized(n, receipt)
    \/ \E n \in Nodes, effect \in ClosureEffect :
         ClosureAuthorized(n, effect) \/ ClosureEffectRecorded(n, effect)
    \/ \E n \in Nodes, effectId \in EffectIds :
         ClosureEffectCompleted(n, effectId)

(* Events the replay accepts and no recorder of src writes. *)
ReservedNext ==
    \/ \E n \in Nodes : NodeRetired(n, "tombstoned")
    \/ \E n \in Nodes, keys \in SUBSET Keys : DependencyUpdated(n, keys)
    \/ \E g \in Groups, members \in SUBSET Nodes :
         AcceptanceGroupUpdated(g, members)
    \/ \E g \in Groups, effectId \in EffectIds :
         DeliveryEffectRecorded(g, effectId)

Next ==
    \/ ScopeNext
    \/ DispatchNext
    \/ ClosureNext
    \/ ReservedNext
    \/ \E capacity \in 0 .. MaxCapacity, active \in SUBSET Nodes :
         SlotsUpdated(capacity, active)
    \/ \E g \in Groups, effectId \in EffectIds :
         \/ FreezeAcquired(g, effectId)
         \/ FreezeReleased(g, effectId)
         \/ DeliveryEffectApplied(g, effectId)
         \/ DeliveryEffectCompleted(g, effectId)
    \/ RunTerminalized

Spec == Init /\ [][Next]_vars

-----------------------------------------------------------------------------
(* Correctness. *)

TypeOK ==
    /\ authority \in Authorities \cup {NoValue}
    /\ selector \in Selectors \cup {NoValue}
    /\ snapshot \in Snapshots \cup {NoValue}
    /\ nodes \in [Nodes -> Registration \cup {NoValue}]
    /\ dependencies \in [Nodes -> SUBSET Keys]
    /\ acceptanceGroups \in [Groups -> SUBSET Nodes]
    /\ repositoryBases \in [Repositories -> Bases \cup {NoValue}]
    /\ slots \in [capacity : Nat, active : SUBSET Nodes]
    /\ activeDispatches \subseteq Dispatch
    /\ dispatchHistory \in Seq([dispatch : Dispatch, outcome : Outcomes])
    /\ deliveryFreezes \in [Groups -> Freeze \cup {NoValue}]
    /\ pendingDelivery \in [Groups -> EffectIds \cup {NoValue}]
    /\ deliveryEffects \in [Groups -> EffectIds \cup {NoValue}]
    /\ cleanupFinalizations \in [Nodes -> Receipts \cup {NoValue}]
    /\ pendingAuthorizations \in [Nodes -> ClosureEffect \cup {NoValue}]
    /\ pendingClosures \in [Nodes -> ClosureEffect \cup {NoValue}]
    /\ closureEffects \in [Nodes -> ClosureEffect \cup {NoValue}]
    /\ terminal \in BOOLEAN

(* Two unsettled dispatches never share their id, action, node or slot: no *)
(* order of starts, settlements and slot updates lets two actors work on   *)
(* one node (control-dispatch-active-duplicate).                           *)
DispatchesExclusive ==
    \A d, e \in activeDispatches : d # e =>
        /\ d.dispatchId # e.dispatchId
        /\ d.actionDigest # e.actionDigest
        /\ d.nodeId # e.nodeId
        /\ d.slotId # e.slotId

(* Every unsettled dispatch holds a slot, also after its node was removed, *)
(* rebound or reopened and after the capacity was changed, and the slots   *)
(* held never exceed the capacity (control-slot-capacity-exceeded).        *)
SlotsHeld ==
    /\ \A d \in activeDispatches : d.nodeId \in slots.active
    /\ Cardinality(slots.active) <= slots.capacity

(* A node is at one stage of its closure at a time: authorised, applied or *)
(* completed, each only for the receipt of its own finalised cleanup, which*)
(* later events never replace.                                             *)
ClosureChain ==
    \A n \in Nodes :
        /\ pendingAuthorizations[n] # NoValue =>
             /\ pendingClosures[n] = NoValue
             /\ closureEffects[n] = NoValue
             /\ pendingAuthorizations[n].receipt = cleanupFinalizations[n]
        /\ pendingClosures[n] # NoValue =>
             /\ closureEffects[n] = NoValue
             /\ pendingClosures[n].receipt = cleanupFinalizations[n]
        /\ closureEffects[n] # NoValue =>
             closureEffects[n].receipt = cleanupFinalizations[n]

(* A delivery effect id stands for one remote mutation: two groups never   *)
(* hold the same one, pending or completed (control-run-effect-duplicate). *)
EffectIdsDistinct ==
    \A g, h \in Groups :
        /\ pendingDelivery[g] # NoValue =>
             /\ pendingDelivery[g] = pendingDelivery[h] => g = h
             /\ pendingDelivery[g] # deliveryEffects[h]
        /\ deliveryEffects[g] # NoValue /\ deliveryEffects[g] = deliveryEffects[h]
             => g = h

(* Group members are registered nodes, and a registered node has a base to *)
(* build on, whatever is removed, reopened or regrouped.                   *)
ScopeReferences ==
    /\ \A g \in Groups : \A n \in acceptanceGroups[g] : IsRegistered(n)
    /\ \A n \in Nodes : IsRegistered(n) =>
         repositoryBases[nodes[n].repository] # NoValue

(* A node's incarnations are totally ordered: a registration is never      *)
(* forgotten, its epoch never goes back, the base, group and authority it  *)
(* was given change only with the epoch, and a removed node becomes active *)
(* again only as a later incarnation of the same issue.                    *)
IncarnationsOrdered ==
    [][\A n \in Nodes : IsRegistered(n) =>
          /\ nodes'[n] # NoValue
          /\ nodes'[n].repository = nodes[n].repository
          /\ \/ nodes'[n].nodeEpoch = nodes[n].nodeEpoch + 1
             \/ /\ nodes'[n].nodeEpoch = nodes[n].nodeEpoch
                /\ nodes'[n].base = nodes[n].base
                /\ nodes'[n].acceptanceGroup = nodes[n].acceptanceGroup
                /\ nodes'[n].authority = nodes[n].authority
                /\ nodes'[n].status = "active" => IsActive(n)]_vars

(* What was finished stays as it was: no later event replaces a finalised  *)
(* cleanup or a completed closure, so what the finalizer read is final.    *)
SettledForever ==
    [][\A n \in Nodes :
          /\ closureEffects[n] # NoValue =>
               closureEffects'[n] = closureEffects[n]
          /\ cleanupFinalizations[n] # NoValue =>
               cleanupFinalizations'[n] = cleanupFinalizations[n]]_vars

=============================================================================
