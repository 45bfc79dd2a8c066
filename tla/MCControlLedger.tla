-------------------------- MODULE MCControlLedger --------------------------
(***************************************************************************)
(* One instance of ControlLedger for TLC.  The event families touch        *)
(* different parts of the projection; WithinFamily keeps a behaviour to    *)
(* the events of one of them, so that each family is explored to its end   *)
(* and their product is not.                                               *)
(***************************************************************************)
EXTENDS ControlLedger, TLC

CONSTANTS n1, n2, r1, b1, g1, g2, k1, x1, d1, d2, c1, c2, s1, s2

(* Two roots that alternate, each with an invocation and an epoch. *)
TwoAuthorities == {[invocation |-> i, rootEpoch |-> i] : i \in 1 .. 2}

(* The identities that no family tells apart. *)
FamilySymmetry ==
    Permutations({n1, n2}) \cup Permutations({d1, d2})
        \cup Permutations({c1, c2}) \cup Permutations({s1, s2})

NoDispatches ==
    slots = [capacity |-> 0, active |-> {}] /\ dispatchHistory = <<>>

NoEffects ==
    /\ \A g \in Groups : /\ deliveryFreezes[g] = NoValue
                         /\ pendingDelivery[g] = NoValue
                         /\ deliveryEffects[g] = NoValue
    /\ \A n \in Nodes : /\ cleanupFinalizations[n] = NoValue
                        /\ pendingAuthorizations[n] = NoValue
                        /\ pendingClosures[n] = NoValue
                        /\ closureEffects[n] = NoValue
    /\ ~terminal

Ungrouped ==
    /\ \A n \in Nodes : IsRegistered(n) =>
           nodes[n].dependencyKeys = {} /\ nodes[n].acceptanceGroup = NoValue
    /\ \A g \in Groups : acceptanceGroups[g] = {}

(* Nodes registered, rebound, removed, reopened and grouped. *)
ScopeFamily ==
    /\ NoDispatches /\ NoEffects
    /\ snapshot = NoValue
    /\ acceptanceGroups[g2] = {}
    /\ \A n \in Nodes : IsRegistered(n) => nodes[n].acceptanceGroup # g2

(* Slots and dispatches of two nodes, with removal and reopening. *)
DispatchFamily ==
    /\ authority = NoValue /\ selector = NoValue /\ snapshot = NoValue
    /\ Ungrouped /\ NoEffects

(* Freezes and effects of two groups, closure of one node, end of the run. *)
EffectFamily ==
    /\ authority = NoValue /\ selector = NoValue
    /\ \A n \in Nodes : nodes[n] = NoValue
    /\ \A r \in Repositories : repositoryBases[r] = NoValue
    /\ NoDispatches
    /\ \E n \in Nodes : \A m \in Nodes \ {n} : cleanupFinalizations[m] = NoValue

WithinFamily == ScopeFamily \/ DispatchFamily \/ EffectFamily
=============================================================================
