------------------------ MODULE ControlLedger_proofs ------------------------
(***************************************************************************)
(* Theorems about every ledger the control replay accepts.                 *)
(***************************************************************************)
EXTENDS ControlLedger, FiniteSetTheorems, TLAPS

(* Retiring a node, or replacing its dependencies, leaves a registration. *)
LEMMA RegistrationUpdate ==
    ASSUME NEW r \in Registration,
           NEW status \in {"removed", "tombstoned"}, NEW keys \in SUBSET Keys
    PROVE  /\ [r EXCEPT !.status = status] \in Registration
           /\ [r EXCEPT !.dependencyKeys = keys] \in Registration
BY DEF Registration

(* Every value of the projection keeps its type, whatever is recorded. *)
THEOREM TypeCorrect == Spec => []TypeOK
<1>1. Init => TypeOK
  <2>1. Init => dispatchHistory \in Seq([dispatch : Dispatch, outcome : Outcomes])
    BY DEF Init
  <2>2. Init => slots \in [capacity : Nat, active : SUBSET Nodes]
    BY DEF Init
  <2>3. Init => activeDispatches \subseteq Dispatch
    BY DEF Init
  <2>4. QED
    BY <2>1, <2>2, <2>3 DEF Init, TypeOK
<1>2. TypeOK /\ [Next]_vars => TypeOK'
  <2> SUFFICES ASSUME TypeOK, [Next]_vars PROVE TypeOK'
    OBVIOUS
  <2> USE DEF TypeOK, scopeVars, slotVars, deliveryVars, closureVars
  <2>1. ASSUME NEW a \in Authorities, AuthorityRebound(a) PROVE TypeOK'
    BY <2>1 DEF AuthorityRebound
  <2>2. ASSUME NEW s \in Selectors, ScopeRefreshed(s) PROVE TypeOK'
    BY <2>2 DEF ScopeRefreshed
  <2>3. ASSUME NEW s \in Snapshots, RemoteSnapshotRefreshed(s) PROVE TypeOK'
    BY <2>3 DEF RemoteSnapshotRefreshed
  <2>4. ASSUME NEW n \in Nodes, NEW registration \in ActiveRegistration,
               NodeRegistered(n, registration)
        PROVE  TypeOK'
    <3>1. /\ registration \in Registration
          /\ registration.dependencyKeys \in SUBSET Keys
          /\ registration.repository \in Repositories
          /\ registration.base \in Bases
      BY DEF ActiveRegistration, Registration
    <3>2. QED
      BY <2>4, <3>1 DEF NodeRegistered
  <2>5. ASSUME NEW n \in Nodes, NEW registration \in ActiveRegistration,
               Reincarnated(n, registration)
        PROVE  TypeOK'
    <3>1. /\ registration \in Registration
          /\ registration.dependencyKeys \in SUBSET Keys
          /\ registration.repository \in Repositories
          /\ registration.base \in Bases
      BY DEF ActiveRegistration, Registration
    <3>2. acceptanceGroups' \in [Groups -> SUBSET Nodes]
      BY <2>5 DEF Reincarnated, MovedToGroup
    <3>3. QED
      BY <2>5, <3>1, <3>2 DEF Reincarnated
  <2>6. ASSUME NEW n \in Nodes, NEW status \in {"removed", "tombstoned"},
               NodeRetired(n, status)
        PROVE  TypeOK'
    <3>1. nodes' \in [Nodes -> Registration \cup {NoValue}]
      <4>1. [nodes[n] EXCEPT !.status = status] \in Registration
        <5>1. nodes[n] \in Registration
          BY <2>6 DEF NodeRetired, IsActive, IsRegistered
        <5>2. QED
          BY <5>1, RegistrationUpdate
      <4>2. QED
        BY <2>6, <4>1 DEF NodeRetired
    <3>2. QED
      BY <2>6, <3>1 DEF NodeRetired
  <2>7. ASSUME NEW r \in Repositories, NEW base \in Bases,
               RepositoryBaseChanged(r, base)
        PROVE  TypeOK'
    BY <2>7 DEF RepositoryBaseChanged
  <2>8. ASSUME NEW n \in Nodes, NEW keys \in SUBSET Keys,
               DependencyUpdated(n, keys)
        PROVE  TypeOK'
    <3>1. nodes' \in [Nodes -> Registration \cup {NoValue}]
      <4>1. [nodes[n] EXCEPT !.dependencyKeys = keys] \in Registration
        <5>1. nodes[n] \in Registration
          BY <2>8 DEF DependencyUpdated, IsActive, IsRegistered
        <5>2. QED
          BY <5>1, RegistrationUpdate
      <4>2. QED
        BY <2>8, <4>1 DEF DependencyUpdated
    <3>2. QED
      BY <2>8, <3>1 DEF DependencyUpdated
  <2>9. ASSUME NEW g \in Groups, NEW members \in SUBSET Nodes,
               AcceptanceGroupUpdated(g, members)
        PROVE  TypeOK'
    BY <2>9 DEF AcceptanceGroupUpdated
  <2>10. ASSUME NEW capacity \in 0 .. MaxCapacity, NEW active \in SUBSET Nodes,
                SlotsUpdated(capacity, active)
         PROVE  TypeOK'
    <3>1. capacity \in Nat
      BY BoundAssumption
    <3>2. QED
      BY <2>10, <3>1 DEF SlotsUpdated
  <2>11. ASSUME NEW d \in Dispatch, ActionStarted(d) PROVE TypeOK'
    <3>1. d.nodeId \in Nodes
      BY DEF Dispatch
    <3>2. QED
      BY <2>11, <3>1 DEF ActionStarted
  <2>12. ASSUME NEW d \in Dispatch, NEW outcome \in Outcomes,
                ActionSettled(d, outcome)
         PROVE  TypeOK'
    <3>1. dispatchHistory' \in Seq([dispatch : Dispatch, outcome : Outcomes])
      BY <2>12 DEF ActionSettled
    <3>2. slots' \in [capacity : Nat, active : SUBSET Nodes]
      BY <2>12 DEF ActionSettled
    <3>3. QED
      BY <2>12, <3>1, <3>2 DEF ActionSettled
  <2>13. ASSUME NEW g \in Groups, NEW e \in EffectIds,
                FreezeAcquired(g, e) \/ FreezeReleased(g, e)
         PROVE  TypeOK'
    <3>1. deliveryFreezes' \in [Groups -> Freeze \cup {NoValue}]
      <4>1. CASE FreezeAcquired(g, e)
        BY <4>1 DEF FreezeAcquired, Freeze
      <4>2. CASE FreezeReleased(g, e)
        <5>1. [deliveryFreezes[g] EXCEPT !.active = FALSE] \in Freeze
          BY <4>2 DEF FreezeReleased, Freeze
        <5>2. QED
          BY <4>2, <5>1 DEF FreezeReleased
      <4>3. QED
        BY <2>13, <4>1, <4>2
    <3>2. QED
      BY <2>13, <3>1 DEF FreezeAcquired, FreezeReleased
  <2>14. ASSUME NEW g \in Groups, NEW e \in EffectIds,
                \/ DeliveryEffectApplied(g, e)
                \/ DeliveryEffectRecorded(g, e)
                \/ DeliveryEffectCompleted(g, e)
         PROVE  TypeOK'
    BY <2>14 DEF DeliveryEffectApplied, DeliveryEffectRecorded,
                 DeliveryEffectCompleted
  <2>15. ASSUME NEW n \in Nodes, NEW receipt \in Receipts,
                CleanupFinalized(n, receipt)
         PROVE  TypeOK'
    BY <2>15 DEF CleanupFinalized
  <2>16. ASSUME NEW n \in Nodes, NEW effect \in ClosureEffect,
                ClosureAuthorized(n, effect) \/ ClosureEffectRecorded(n, effect)
         PROVE  TypeOK'
    BY <2>16 DEF ClosureAuthorized, ClosureEffectRecorded
  <2>17. ASSUME NEW n \in Nodes, NEW e \in EffectIds,
                ClosureEffectCompleted(n, e)
         PROVE  TypeOK'
    BY <2>17 DEF ClosureEffectCompleted
  <2>18. CASE RunTerminalized
    BY <2>18 DEF RunTerminalized
  <2>19. CASE UNCHANGED vars
    BY <2>19 DEF vars
  <2>20. QED
    BY <2>1, <2>2, <2>3, <2>4, <2>5, <2>6, <2>7, <2>8, <2>9, <2>10, <2>11,
       <2>12, <2>13, <2>14, <2>15, <2>16, <2>17, <2>18, <2>19
    DEF Next, ScopeNext, DispatchNext, ClosureNext, ReservedNext,
        NodeRebound, NodeReopened
<1>3. QED
  BY <1>1, <1>2, PTL DEF Spec

-----------------------------------------------------------------------------
(* Which events touch the slots. *)

SlotStep ==
    \/ \E d \in Dispatch : ActionStarted(d)
    \/ \E d \in Dispatch, outcome \in Outcomes : ActionSettled(d, outcome)
    \/ \E capacity \in 0 .. MaxCapacity, active \in SUBSET Nodes :
         SlotsUpdated(capacity, active)

LEMMA SlotFrame == [Next]_vars => SlotStep \/ UNCHANGED slotVars
BY DEF SlotStep, Next, vars, ScopeNext, DispatchNext, ClosureNext,
       ReservedNext, AuthorityRebound, ScopeRefreshed,
       RemoteSnapshotRefreshed, NodeRegistered, NodeRebound, NodeReopened,
       Reincarnated, NodeRetired, RepositoryBaseChanged, DependencyUpdated,
       AcceptanceGroupUpdated, FreezeAcquired, FreezeReleased,
       DeliveryEffectApplied, DeliveryEffectRecorded,
       DeliveryEffectCompleted, CleanupFinalized, ClosureAuthorized,
       ClosureEffectRecorded, ClosureEffectCompleted, RunTerminalized

(* No two unsettled dispatches share an id, an action, a node or a slot.  *)
THEOREM ExclusiveDispatch == Spec => []DispatchesExclusive
<1>1. Init => DispatchesExclusive
  BY DEF Init, DispatchesExclusive
<1>2. DispatchesExclusive /\ [Next]_vars => DispatchesExclusive'
  <2> SUFFICES ASSUME DispatchesExclusive, [Next]_vars
               PROVE  DispatchesExclusive'
    OBVIOUS
  <2> USE DEF DispatchesExclusive
  <2>1. ASSUME NEW d \in Dispatch, ActionStarted(d)
        PROVE  DispatchesExclusive'
    BY <2>1 DEF ActionStarted
  <2>2. ASSUME NEW d \in Dispatch, NEW outcome \in Outcomes,
               ActionSettled(d, outcome)
        PROVE  DispatchesExclusive'
    BY <2>2 DEF ActionSettled
  <2>3. ASSUME NEW capacity \in 0 .. MaxCapacity, NEW active \in SUBSET Nodes,
               SlotsUpdated(capacity, active)
        PROVE  DispatchesExclusive'
    BY <2>3 DEF SlotsUpdated
  <2>4. CASE UNCHANGED slotVars
    BY <2>4 DEF slotVars
  <2>5. QED
    BY <2>1, <2>2, <2>3, <2>4, SlotFrame DEF SlotStep
<1>3. QED
  BY <1>1, <1>2, PTL DEF Spec

(* Every unsettled dispatch holds a slot and the capacity is never         *)
(* exceeded.  Settling one dispatch frees one node, so that no other       *)
(* dispatch loses its slot needs the dispatches to be exclusive.           *)
THEOREM SlotSafety == Spec => []SlotsHeld
<1>1. Init => SlotsHeld
  BY FS_EmptySet DEF Init, SlotsHeld
<1>2. /\ TypeOK /\ TypeOK' /\ DispatchesExclusive /\ SlotsHeld /\ [Next]_vars
      => SlotsHeld'
  <2> SUFFICES ASSUME TypeOK, TypeOK', DispatchesExclusive, SlotsHeld,
                      [Next]_vars
               PROVE  SlotsHeld'
    OBVIOUS
  <2>1. /\ IsFiniteSet(slots.active)
        /\ slots.active \subseteq Nodes
        /\ slots.capacity \in Nat
        /\ Cardinality(slots.active) \in Nat
    <3>1. slots.active \subseteq Nodes /\ slots.capacity \in Nat
      BY DEF TypeOK
    <3>2. IsFiniteSet(slots.active)
      BY <3>1, NodesAssumption, FS_Subset
    <3>3. QED
      BY <3>1, <3>2, FS_CardinalityType
  <2>2. ASSUME NEW d \in Dispatch, ActionStarted(d) PROVE SlotsHeld'
    <3>1. /\ slots'.active = slots.active \cup {d.nodeId}
          /\ slots'.capacity = slots.capacity
          /\ activeDispatches' = activeDispatches \cup {d}
          /\ d.nodeId \notin slots.active
          /\ Cardinality(slots.active) < slots.capacity
      BY <2>2 DEF ActionStarted, TypeOK
    <3>2. Cardinality(slots'.active) = Cardinality(slots.active) + 1
      BY <2>1, <3>1, FS_AddElement
    <3>3. QED
      BY <2>1, <3>1, <3>2 DEF SlotsHeld
  <2>3. ASSUME NEW d \in Dispatch, NEW outcome \in Outcomes,
               ActionSettled(d, outcome)
        PROVE  SlotsHeld'
    <3>1. /\ slots'.active = slots.active \ {d.nodeId}
          /\ slots'.capacity = slots.capacity
          /\ activeDispatches' = activeDispatches \ {d}
          /\ d \in activeDispatches
      BY <2>3 DEF ActionSettled, TypeOK
    <3>2. Cardinality(slots.active \ {d.nodeId}) <= Cardinality(slots.active)
      BY <2>1, FS_Subset
    <3>3. Cardinality(slots.active \ {d.nodeId}) \in Nat
      BY <2>1, FS_RemoveElement, FS_CardinalityType
    <3>4. \A e \in activeDispatches' : e.nodeId \in slots'.active
      BY <3>1 DEF SlotsHeld, DispatchesExclusive
    <3>5. QED
      BY <2>1, <3>1, <3>2, <3>3, <3>4 DEF SlotsHeld
  <2>4. ASSUME NEW capacity \in 0 .. MaxCapacity, NEW active \in SUBSET Nodes,
               SlotsUpdated(capacity, active)
        PROVE  SlotsHeld'
    <3>1. /\ slots'.active = active
          /\ slots'.capacity = capacity
          /\ Cardinality(active) <= capacity
          /\ activeDispatches' = activeDispatches
      BY <2>4 DEF SlotsUpdated
    <3>2. \A e \in activeDispatches : e.nodeId \in active
      BY <2>4 DEF SlotsUpdated
    <3>3. QED
      BY <3>1, <3>2 DEF SlotsHeld
  <2>5. CASE UNCHANGED slotVars
    BY <2>5 DEF slotVars, SlotsHeld
  <2>6. QED
    BY <2>2, <2>3, <2>4, <2>5, SlotFrame DEF SlotStep
<1>3. QED
  BY <1>1, <1>2, TypeCorrect, ExclusiveDispatch, PTL DEF Spec

-----------------------------------------------------------------------------
(* Which events touch the closure of a node. *)

LEMMA ClosureFrame == [Next]_vars => ClosureNext \/ UNCHANGED closureVars
BY DEF Next, vars, ScopeNext, DispatchNext,
       ReservedNext, AuthorityRebound, ScopeRefreshed,
       RemoteSnapshotRefreshed, NodeRegistered, NodeRebound, NodeReopened,
       Reincarnated, NodeRetired, RepositoryBaseChanged, DependencyUpdated,
       AcceptanceGroupUpdated, SlotsUpdated, ActionStarted, ActionSettled,
       FreezeAcquired, FreezeReleased, DeliveryEffectApplied,
       DeliveryEffectRecorded, DeliveryEffectCompleted, RunTerminalized

(* A node is at one stage of its closure, for its own cleanup receipt. *)
THEOREM ClosureSafety == Spec => []ClosureChain
<1>1. Init => ClosureChain
  BY DEF Init, ClosureChain
<1>2. TypeOK /\ ClosureChain /\ [Next]_vars => ClosureChain'
  <2> SUFFICES ASSUME TypeOK, ClosureChain, [Next]_vars
               PROVE  ClosureChain'
    OBVIOUS
  <2> USE DEF ClosureChain
  <2>1. ASSUME NEW n \in Nodes, NEW receipt \in Receipts,
               CleanupFinalized(n, receipt)
        PROVE  ClosureChain'
    <3>1. \A m \in Nodes \ {n} :
             cleanupFinalizations'[m] = cleanupFinalizations[m]
      BY <2>1 DEF CleanupFinalized, TypeOK
    <3>2. /\ pendingAuthorizations[n] = NoValue
          /\ pendingClosures[n] = NoValue
          /\ closureEffects[n] = NoValue
      <4>1. cleanupFinalizations[n] = NoValue
        BY <2>1 DEF CleanupFinalized
      <4>2. \A e \in ClosureEffect : e.receipt # NoValue
        BY NoValueAssumption DEF ClosureEffect
      <4>3. QED
        BY <4>1, <4>2 DEF TypeOK
    <3>3. QED
      BY <2>1, <3>1, <3>2 DEF CleanupFinalized
  <2>2. ASSUME NEW n \in Nodes, NEW effect \in ClosureEffect,
               ClosureAuthorized(n, effect)
        PROVE  ClosureChain'
    BY <2>2 DEF ClosureAuthorized, TypeOK
  <2>3. ASSUME NEW n \in Nodes, NEW effect \in ClosureEffect,
               ClosureEffectRecorded(n, effect)
        PROVE  ClosureChain'
    BY <2>3, NoRecordAssumption DEF ClosureEffectRecorded, TypeOK
  <2>4. ASSUME NEW n \in Nodes, NEW e \in EffectIds,
               ClosureEffectCompleted(n, e)
        PROVE  ClosureChain'
    BY <2>4 DEF ClosureEffectCompleted, TypeOK
  <2>5. CASE UNCHANGED closureVars
    BY <2>5 DEF closureVars
  <2>6. QED
    BY <2>1, <2>2, <2>3, <2>4, <2>5, ClosureFrame DEF ClosureNext
<1>3. QED
  BY <1>1, <1>2, TypeCorrect, PTL DEF Spec

(* A finalised cleanup and a completed closure are never replaced. *)
THEOREM SettledNeverUndone == Spec => SettledForever
<1> DEFINE Kept(n) ==
      /\ closureEffects[n] # NoValue =>
           closureEffects'[n] = closureEffects[n]
      /\ cleanupFinalizations[n] # NoValue =>
           cleanupFinalizations'[n] = cleanupFinalizations[n]
<1>1. TypeOK /\ [Next]_vars => \A n \in Nodes : Kept(n)
  <2> SUFFICES ASSUME TypeOK, [Next]_vars, NEW m \in Nodes PROVE Kept(m)
    OBVIOUS
  <2>1. CASE ClosureNext
    BY <2>1 DEF ClosureNext, CleanupFinalized, ClosureAuthorized,
                ClosureEffectRecorded, ClosureEffectCompleted, TypeOK
  <2>2. CASE UNCHANGED closureVars
    BY <2>2 DEF closureVars
  <2>3. QED
    BY <2>1, <2>2, ClosureFrame
<1>2. QED
  BY <1>1, TypeCorrect, PTL DEF Spec, SettledForever

-----------------------------------------------------------------------------
(* Which events touch the delivery effects. *)

EffectStep ==
    \E g \in Groups, e \in EffectIds :
        \/ DeliveryEffectApplied(g, e)
        \/ DeliveryEffectRecorded(g, e)
        \/ DeliveryEffectCompleted(g, e)

LEMMA EffectFrame ==
    [Next]_vars => EffectStep \/ UNCHANGED <<pendingDelivery, deliveryEffects>>
BY DEF EffectStep, Next, vars, deliveryVars, ScopeNext, DispatchNext,
       ClosureNext, ReservedNext, AuthorityRebound, ScopeRefreshed,
       RemoteSnapshotRefreshed, NodeRegistered, NodeRebound, NodeReopened,
       Reincarnated, NodeRetired, RepositoryBaseChanged, DependencyUpdated,
       AcceptanceGroupUpdated, SlotsUpdated, ActionStarted, ActionSettled,
       FreezeAcquired, FreezeReleased, CleanupFinalized, ClosureAuthorized,
       ClosureEffectRecorded, ClosureEffectCompleted, RunTerminalized

(* No two groups hold one delivery effect, pending or completed. *)
THEOREM EffectUniqueness == Spec => []EffectIdsDistinct
<1>1. Init => EffectIdsDistinct
  BY DEF Init, EffectIdsDistinct
<1>2. TypeOK /\ EffectIdsDistinct /\ [Next]_vars => EffectIdsDistinct'
  <2> SUFFICES ASSUME TypeOK, EffectIdsDistinct, [Next]_vars
               PROVE  EffectIdsDistinct'
    OBVIOUS
  <2> USE DEF EffectIdsDistinct
  <2>1. ASSUME NEW g \in Groups, NEW e \in EffectIds,
               DeliveryEffectApplied(g, e)
        PROVE  EffectIdsDistinct'
    BY <2>1 DEF DeliveryEffectApplied, FreshEffect, TypeOK
  <2>2. ASSUME NEW g \in Groups, NEW e \in EffectIds,
               DeliveryEffectRecorded(g, e)
        PROVE  EffectIdsDistinct'
    BY <2>2 DEF DeliveryEffectRecorded, FreshEffect, TypeOK
  <2>3. ASSUME NEW g \in Groups, NEW e \in EffectIds,
               DeliveryEffectCompleted(g, e)
        PROVE  EffectIdsDistinct'
    BY <2>3, NoValueAssumption DEF DeliveryEffectCompleted, TypeOK
  <2>4. CASE UNCHANGED <<pendingDelivery, deliveryEffects>>
    BY <2>4
  <2>5. QED
    BY <2>1, <2>2, <2>3, <2>4, EffectFrame DEF EffectStep
<1>3. QED
  BY <1>1, <1>2, TypeCorrect, PTL DEF Spec

-----------------------------------------------------------------------------
(* Which events touch the registrations. *)

RegistrationStep ==
    \/ \E n \in Nodes, registration \in ActiveRegistration :
         NodeRegistered(n, registration) \/ NodeRebound(n, registration)
           \/ NodeReopened(n, registration)
    \/ \E n \in Nodes, status \in {"removed", "tombstoned"} :
         NodeRetired(n, status)
    \/ \E n \in Nodes, keys \in SUBSET Keys : DependencyUpdated(n, keys)

LEMMA RegistrationFrame == [Next]_vars => RegistrationStep \/ UNCHANGED nodes
BY DEF RegistrationStep, Next, vars, scopeVars, ScopeNext, DispatchNext,
       ClosureNext, ReservedNext, AuthorityRebound, ScopeRefreshed,
       RemoteSnapshotRefreshed, RepositoryBaseChanged,
       AcceptanceGroupUpdated, SlotsUpdated, ActionStarted, ActionSettled,
       FreezeAcquired, FreezeReleased, DeliveryEffectApplied,
       DeliveryEffectRecorded, DeliveryEffectCompleted, CleanupFinalized,
       ClosureAuthorized, ClosureEffectRecorded, ClosureEffectCompleted,
       RunTerminalized

(* A registration only moves forward, one incarnation at a time. *)
Forward(n) ==
    IsRegistered(n) =>
        /\ nodes'[n] # NoValue
        /\ nodes'[n].repository = nodes[n].repository
        /\ \/ nodes'[n].nodeEpoch = nodes[n].nodeEpoch + 1
           \/ /\ nodes'[n].nodeEpoch = nodes[n].nodeEpoch
              /\ nodes'[n].base = nodes[n].base
              /\ nodes'[n].acceptanceGroup = nodes[n].acceptanceGroup
              /\ nodes'[n].authority = nodes[n].authority
              /\ nodes'[n].status = "active" => IsActive(n)

LEMMA ForwardStep == TypeOK /\ [Next]_vars => \A n \in Nodes : Forward(n)
<1> SUFFICES ASSUME TypeOK, [Next]_vars, NEW m \in Nodes PROVE Forward(m)
  OBVIOUS
<1> USE DEF Forward
<1>1. nodes \in [Nodes -> Registration \cup {NoValue}]
  BY DEF TypeOK
<1>2. ASSUME NEW n \in Nodes, NEW registration \in ActiveRegistration,
             \/ NodeRegistered(n, registration)
             \/ NodeRebound(n, registration)
             \/ NodeReopened(n, registration)
      PROVE  Forward(m)
  <2>1. registration # NoValue
    BY NoRecordAssumption DEF ActiveRegistration
  <2>2. QED
    BY <1>1, <1>2, <2>1
    DEF NodeRegistered, NodeRebound, NodeReopened, Reincarnated,
        IsActive, IsRegistered
<1>3. ASSUME NEW n \in Nodes, NEW status \in {"removed", "tombstoned"},
             NodeRetired(n, status)
      PROVE  Forward(m)
  <2>1. nodes[n] \in Registration
    BY <1>1, <1>3 DEF NodeRetired, IsActive, IsRegistered
  <2>2. LET r == [nodes[n] EXCEPT !.status = status]
        IN  /\ nodes'[n] = r
            /\ r # NoValue
            /\ r.repository = nodes[n].repository
            /\ r.nodeEpoch = nodes[n].nodeEpoch
            /\ r.base = nodes[n].base
            /\ r.acceptanceGroup = nodes[n].acceptanceGroup
            /\ r.authority = nodes[n].authority
            /\ r.status # "active"
    <3>1. [nodes[n] EXCEPT !.status = status] # NoValue
      BY <2>1, RegistrationUpdate, NoRecordAssumption
    <3>2. nodes'[n] = [nodes[n] EXCEPT !.status = status]
      BY <1>1, <1>3 DEF NodeRetired
    <3>3. QED
      BY <2>1, <3>1, <3>2 DEF Registration
  <2>3. m # n => nodes'[m] = nodes[m]
    BY <1>1, <1>3 DEF NodeRetired
  <2>4. QED
    BY <2>2, <2>3 DEF IsActive, IsRegistered
<1>4. ASSUME NEW n \in Nodes, NEW keys \in SUBSET Keys,
             DependencyUpdated(n, keys)
      PROVE  Forward(m)
  <2>1. nodes[n] \in Registration /\ IsActive(n)
    BY <1>1, <1>4 DEF DependencyUpdated, IsActive, IsRegistered
  <2>2. LET r == [nodes[n] EXCEPT !.dependencyKeys = keys]
        IN  /\ nodes'[n] = r
            /\ r # NoValue
            /\ r.repository = nodes[n].repository
            /\ r.nodeEpoch = nodes[n].nodeEpoch
            /\ r.base = nodes[n].base
            /\ r.acceptanceGroup = nodes[n].acceptanceGroup
            /\ r.authority = nodes[n].authority
    <3>1. [nodes[n] EXCEPT !.dependencyKeys = keys] # NoValue
      BY <2>1, RegistrationUpdate, NoRecordAssumption
    <3>2. nodes'[n] = [nodes[n] EXCEPT !.dependencyKeys = keys]
      BY <1>1, <1>4 DEF DependencyUpdated
    <3>3. QED
      BY <2>1, <3>1, <3>2 DEF Registration
  <2>3. m # n => nodes'[m] = nodes[m]
    BY <1>1, <1>4 DEF DependencyUpdated
  <2>4. QED
    BY <2>1, <2>2, <2>3 DEF IsActive, IsRegistered
<1>5. CASE UNCHANGED nodes
  BY <1>5 DEF IsActive, IsRegistered
<1>6. QED
  BY <1>2, <1>3, <1>4, <1>5, RegistrationFrame DEF RegistrationStep

(* The incarnations of a node are totally ordered, and a registration is never *)
(* forgotten, in every ledger the replay accepts.                              *)
THEOREM IncarnationOrder == Spec => IncarnationsOrdered
<1>1. TypeOK /\ [Next]_vars => \A n \in Nodes : Forward(n)
  BY ForwardStep
<1>2. QED
  BY <1>1, TypeCorrect, PTL DEF Spec, IncarnationsOrdered, Forward

-----------------------------------------------------------------------------
(* Which events touch groups and bases. *)

ScopeStep ==
    \/ RegistrationStep
    \/ \E r \in Repositories, base \in Bases : RepositoryBaseChanged(r, base)
    \/ \E g \in Groups, members \in SUBSET Nodes : AcceptanceGroupUpdated(g, members)

LEMMA ScopeFrame ==
    [Next]_vars => ScopeStep \/ UNCHANGED <<nodes, acceptanceGroups, repositoryBases>>
BY DEF ScopeStep, RegistrationStep, Next, vars, scopeVars, ScopeNext, DispatchNext,
       ClosureNext, ReservedNext, AuthorityRebound, ScopeRefreshed,
       RemoteSnapshotRefreshed, SlotsUpdated, ActionStarted, ActionSettled,
       FreezeAcquired, FreezeReleased, DeliveryEffectApplied,
       DeliveryEffectRecorded, DeliveryEffectCompleted, CleanupFinalized,
       ClosureAuthorized, ClosureEffectRecorded, ClosureEffectCompleted,
       RunTerminalized

(* A step names no node that is not registered and takes no base away; the *)
(* repository of a node that it registers has one.                         *)
NamesRegistered ==
    /\ \A n \in Nodes : nodes'[n] # NoValue =>
         IsRegistered(n) \/ repositoryBases'[nodes'[n].repository] # NoValue
    /\ \A r \in Repositories :
         repositoryBases[r] # NoValue => repositoryBases'[r] # NoValue
    /\ \A g \in Groups : \A n \in acceptanceGroups'[g] :
         n \in acceptanceGroups[g] \/ nodes'[n] # NoValue

LEMMA NamesRegisteredStep == TypeOK /\ [Next]_vars => NamesRegistered
<1> SUFFICES ASSUME TypeOK, [Next]_vars PROVE NamesRegistered
  OBVIOUS
<1>1. /\ nodes \in [Nodes -> Registration \cup {NoValue}]
      /\ acceptanceGroups \in [Groups -> SUBSET Nodes]
      /\ repositoryBases \in [Repositories -> Bases \cup {NoValue}]
  BY DEF TypeOK
<1>2. ASSUME NEW n \in Nodes, NEW registration \in ActiveRegistration,
             NodeRegistered(n, registration) \/ Reincarnated(n, registration)
      PROVE  NamesRegistered
  <2>1. /\ registration # NoValue /\ registration.base # NoValue
        /\ registration.repository \in Repositories
    BY NoRecordAssumption, NoValueAssumption DEF ActiveRegistration, Registration
  <2>2. nodes' = [nodes EXCEPT ![n] = registration]
    BY <1>2 DEF NodeRegistered, Reincarnated
  <2>3. \/ repositoryBases' = [repositoryBases EXCEPT
                               ![registration.repository] = registration.base]
        \/ /\ repositoryBases' = repositoryBases
           /\ repositoryBases[registration.repository] # NoValue
    BY <1>2 DEF NodeRegistered, Reincarnated
  <2>4. \A g \in Groups : acceptanceGroups'[g] \subseteq acceptanceGroups[g] \cup {n}
    BY <1>1, <1>2 DEF NodeRegistered, Reincarnated, MovedToGroup
  <2>5. \A m \in Nodes : nodes'[m] = IF m = n THEN registration ELSE nodes[m]
    BY <1>1, <2>2
  <2>6. repositoryBases'[registration.repository] # NoValue
    BY <1>1, <2>1, <2>3
  <2>7. \A r \in Repositories :
          repositoryBases[r] # NoValue => repositoryBases'[r] # NoValue
    BY <1>1, <2>1, <2>3
  <2>8. QED
    BY <2>1, <2>4, <2>5, <2>6, <2>7 DEF NamesRegistered, IsRegistered
<1>3. ASSUME NEW n \in Nodes, IsRegistered(n),
             NEW r, nodes' = [nodes EXCEPT ![n] = r],
             UNCHANGED <<acceptanceGroups, repositoryBases>>
      PROVE  NamesRegistered
  BY <1>1, <1>3 DEF NamesRegistered, IsRegistered
<1>4. ASSUME NEW n \in Nodes, NEW status \in {"removed", "tombstoned"},
             NodeRetired(n, status)
      PROVE  NamesRegistered
  <2>1. nodes' = [nodes EXCEPT ![n] = [nodes[n] EXCEPT !.status = status]]
    BY <1>4 DEF NodeRetired
  <2>2. QED
    BY <1>3, <1>4, <2>1 DEF NodeRetired, IsActive
<1>5. ASSUME NEW n \in Nodes, NEW keys \in SUBSET Keys, DependencyUpdated(n, keys)
      PROVE  NamesRegistered
  <2>1. nodes' = [nodes EXCEPT ![n] = [nodes[n] EXCEPT !.dependencyKeys = keys]]
    BY <1>5 DEF DependencyUpdated
  <2>2. QED
    BY <1>3, <1>5, <2>1 DEF DependencyUpdated, IsActive
<1>6. ASSUME NEW r \in Repositories, NEW base \in Bases, RepositoryBaseChanged(r, base)
      PROVE  NamesRegistered
  BY <1>1, <1>6, NoValueAssumption
  DEF RepositoryBaseChanged, NamesRegistered, IsRegistered
<1>7. ASSUME NEW g \in Groups, NEW members \in SUBSET Nodes,
             AcceptanceGroupUpdated(g, members)
      PROVE  NamesRegistered
  BY <1>1, <1>7 DEF AcceptanceGroupUpdated, NamesRegistered, IsActive, IsRegistered
<1>8. CASE UNCHANGED <<nodes, acceptanceGroups, repositoryBases>>
  BY <1>8 DEF NamesRegistered, IsRegistered
<1>9. QED
  BY <1>2, <1>4, <1>5, <1>6, <1>7, <1>8, ScopeFrame
  DEF ScopeStep, RegistrationStep, NodeRebound, NodeReopened

(* Group members are registered nodes and a registered node has a base to build *)
(* on, whatever is registered, removed, reopened or regrouped.                  *)
THEOREM ScopeSafety == Spec => []ScopeReferences
<1>1. Init => ScopeReferences
  BY DEF Init, ScopeReferences, IsRegistered
<1>2. TypeOK /\ TypeOK' /\ ScopeReferences /\ [Next]_vars => ScopeReferences'
  <2> SUFFICES ASSUME TypeOK, TypeOK', ScopeReferences, [Next]_vars
               PROVE  ScopeReferences'
    OBVIOUS
  <2>1. NamesRegistered /\ \A n \in Nodes : Forward(n)
    BY ForwardStep, NamesRegisteredStep
  <2>2. \A g \in Groups : \A n \in acceptanceGroups'[g] : nodes'[n] # NoValue
    <3>1. \A g \in Groups :
            acceptanceGroups[g] \subseteq Nodes /\ acceptanceGroups'[g] \subseteq Nodes
      BY DEF TypeOK
    <3>2. QED
      BY <2>1, <3>1 DEF ScopeReferences, NamesRegistered, Forward, IsRegistered
  <2>3. ASSUME NEW n \in Nodes, nodes'[n] # NoValue
        PROVE  repositoryBases'[nodes'[n].repository] # NoValue
    <3>1. CASE IsRegistered(n)
      <4>1. nodes[n].repository \in Repositories
        BY <3>1 DEF TypeOK, IsRegistered, Registration
      <4>2. QED
        BY <2>1, <3>1, <4>1 DEF ScopeReferences, NamesRegistered, Forward
    <3>2. CASE ~IsRegistered(n)
      BY <2>1, <2>3, <3>2 DEF NamesRegistered
    <3>3. QED
      BY <3>1, <3>2
  <2>4. QED
    BY <2>2, <2>3 DEF ScopeReferences, IsRegistered
<1>3. QED
  BY <1>1, <1>2, TypeCorrect, PTL DEF Spec

=============================================================================
