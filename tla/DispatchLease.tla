--------------------------- MODULE DispatchLease ---------------------------
(***************************************************************************)
(* What the dispatcher promises about an actor dispatch, apart from how it *)
(* schedules: a dispatch is a lease of its node.  A lease is granted while *)
(* its node has none and a slot is free, its result is admitted to the     *)
(* node ledger at most once, and it is released once; a lease released as  *)
(* completed or failed has had its result admitted.                        *)
(***************************************************************************)
EXTENDS Integers, Sequences, FiniteSets

CONSTANTS
    Nodes,      \* node ids
    Capacity    \* slots

VARIABLE leases \* all leases ever granted, in order

Released == {"completed", "failed", "excluded"}

Lease == [node : Nodes, admitted : BOOLEAN,
          state : Released \cup {"active"}]

Active == {i \in DOMAIN leases : leases[i].state = "active"}

TypeOK == leases \in Seq(Lease)

Init == leases = <<>>

Grant(n) ==
    /\ \A i \in Active : leases[i].node # n
    /\ Cardinality(Active) < Capacity
    /\ leases' = Append(leases,
           [node |-> n, admitted |-> FALSE, state |-> "active"])

Admit(i) ==
    /\ i \in Active
    /\ ~leases[i].admitted
    /\ leases' = [leases EXCEPT ![i].admitted = TRUE]

Release(i, outcome) ==
    /\ i \in Active
    /\ outcome # "excluded" => leases[i].admitted
    /\ leases' = [leases EXCEPT ![i].state = outcome]

Next ==
    \/ \E n \in Nodes : Grant(n)
    \/ \E i \in DOMAIN leases :
         Admit(i) \/ \E outcome \in Released : Release(i, outcome)

Spec == Init /\ [][Next]_leases

=============================================================================
