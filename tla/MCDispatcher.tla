---------------------------- MODULE MCDispatcher ----------------------------
(***************************************************************************)
(* Instances of Dispatcher for TLC.  A layout gives the owner of each      *)
(* stage.  Stage 1 stands for acceptance-frozen and the test contract, the *)
(* states a base change can be absorbed in.                                *)
(***************************************************************************)
EXTENDS Dispatcher, TLC

CONSTANTS n1, n2, r1

OneRepository == [n \in Nodes |-> r1]

(* Two actor stages, then terminalize-node: the short way to the end. *)
TerminalizeLayout == 0 :> "actor" @@ 1 :> "actor" @@ 2 :> "root"
(* The contract is compiled by a machine action; one actor stage; delivery *)
(* and cleanup.                                                            *)
DeliverLayout == 0 :> "machine" @@ 1 :> "actor" @@ 2 :> "root" @@ 3 :> "root"

NodeSymmetry == Permutations(Nodes)

=============================================================================
