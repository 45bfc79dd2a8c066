-------------------------- MODULE MCDeliveryClosure --------------------------
(***************************************************************************)
(* An instance of DeliveryClosure for TLC: group 1 has one node in each of *)
(* two repositories, group 2 one node in a third.  Nodes, groups and       *)
(* repositories have numbers so that the order of the code is theirs.      *)
(***************************************************************************)
EXTENDS DeliveryClosure, TLC

TwoGroups == 1 :> 1 @@ 2 :> 1 @@ 3 :> 2
ThreeRepositories == 1 :> 1 @@ 2 :> 2 @@ 3 :> 3

=============================================================================
