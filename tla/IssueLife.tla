----------------------------- MODULE IssueLife -----------------------------
(***************************************************************************)
(* What the lifecycle of one issue promises, whatever actors return and    *)
(* however the base moves: a candidate is delivered only while a           *)
(* verification of that very candidate stands, a rejection sends it back   *)
(* to its writer, and a move of the base starts the work over without      *)
(* keeping a candidate.  NodeLifecycle implements it.                      *)
(***************************************************************************)
EXTENDS Naturals

VARIABLES
    phase,      \* planning, building, submitted, verified, delivered, ...
    candidate,  \* the candidate under consideration, 0 for none
    verified,   \* the candidate the standing verification is about, or 0
    landed      \* the candidate that was delivered, or 0

vars == <<phase, candidate, verified, landed>>

Init ==
    /\ phase = "planning"
    /\ candidate = 0
    /\ verified = 0
    /\ landed = 0

Plan ==
    /\ phase = "planning"
    /\ phase' = "building"
    /\ UNCHANGED <<candidate, verified, landed>>

(* Every submission is a new candidate, and nobody has verified it. *)
Submit ==
    /\ phase = "building"
    /\ phase' = "submitted"
    /\ candidate' \in Nat \ {0, candidate}
    /\ UNCHANGED <<verified, landed>>

Reject ==
    /\ phase = "submitted"
    /\ phase' = "building"
    /\ UNCHANGED <<candidate, verified, landed>>

Verify ==
    /\ phase = "submitted"
    /\ phase' = "verified"
    /\ verified' = candidate
    /\ UNCHANGED <<candidate, landed>>

(* More evidence about the same candidate. *)
Attest ==
    /\ phase = "verified"
    /\ UNCHANGED vars

Deliver ==
    /\ phase = "verified"
    /\ verified = candidate
    /\ phase' = "delivered"
    /\ landed' = candidate
    /\ UNCHANGED <<candidate, verified>>

Close ==
    /\ phase = "delivered"
    /\ phase' = "closed"
    /\ UNCHANGED <<candidate, verified, landed>>

Fail ==
    /\ phase \in {"planning", "building", "verified"}
    /\ phase' = "terminal"
    /\ UNCHANGED <<candidate, verified, landed>>

(* The base moved: the evidence about the old one is gone. *)
Restart ==
    /\ phase \notin {"closed", "terminal"}
    /\ phase' = "planning"
    /\ candidate' = 0
    /\ verified' = 0
    /\ landed' = 0

Next == Plan \/ Submit \/ Reject \/ Verify \/ Attest \/ Deliver \/ Close
        \/ Fail \/ Restart

Spec == Init /\ [][Next]_vars
=============================================================================
