---------------------------- MODULE GroupDelivery ----------------------------
(***************************************************************************)
(* What delivery and closure promise, apart from executions and what stops *)
(* them: the group that is first among those that wait puts one commit on  *)
(* the untouched default branch of each of its repositories, then its      *)
(* effect is recorded, its members are, and it is delivered.  When no group*)
(* waits any more each issue is cleaned up, closed and settled, once and in*)
(* this order.  Nothing is done twice and nothing after the end.           *)
(*                                                                         *)
(* There are no executions, freezes, snapshots, authorizations, failures   *)
(* or takeovers here.  All groups wait in the beginning.  DeliveryClosure  *)
(* implements it.                                                          *)
(***************************************************************************)
EXTENDS Naturals, Sequences

CONSTANTS
    Groups, Nodes, Repositories,
    GroupOf,        \* [Nodes -> Groups]
    RepositoryOf    \* [Nodes -> Repositories]

VARIABLES
    branch,     \* repository -> whose commits are on its default branch
    effect,     \* group -> "none", "recorded" or "delivered"
    life,       \* node -> how far its issue is
    issue,      \* node -> state of its issue on the tracker
    ended

vars == <<branch, effect, life, issue, ended>>

Members(g) == {n \in Nodes : GroupOf[n] = g}
Legs(g) == {RepositoryOf[n] : n \in Members(g)}
Waits(g) == \E n \in Members(g) : life[n] = "ready"
Stranger == 0

Init ==
    /\ branch = [r \in Repositories |-> <<>>]
    /\ effect = [g \in Groups |-> "none"]
    /\ life = [n \in Nodes |-> "ready"]
    /\ issue = [n \in Nodes |-> "open"]
    /\ ended = FALSE

(* Effects and lives move on by one. *)
Turns(g, from, to) == effect[g] = from /\ effect' = [effect EXCEPT ![g] = to]
Goes(n, from, to) == life[n] = from /\ life' = [life EXCEPT ![n] = to]

(* A group puts its commit on a branch that nobody has touched. *)
Land(g, r) ==
    /\ Waits(g) /\ effect[g] = "none"
    /\ \A h \in Groups : h < g => ~Waits(h)
    /\ r \in Legs(g) /\ branch[r] = <<>>
    /\ branch' = [branch EXCEPT ![r] = <<g>>]
    /\ UNCHANGED <<effect, life, issue, ended>>

(* The effect is recorded when every repository has the commit. *)
Record(g) ==
    /\ \A r \in Legs(g) : branch[r] # <<>> /\ branch[r][1] = g
    /\ Turns(g, "none", "recorded")
    /\ UNCHANGED <<branch, life, issue, ended>>

(* A member follows the recorded effect. *)
Follow(n) ==
    /\ effect[GroupOf[n]] = "recorded"
    /\ Goes(n, "ready", "landed")
    /\ UNCHANGED <<branch, effect, issue, ended>>

Deliver(g) ==
    /\ ~Waits(g)
    /\ Turns(g, "recorded", "delivered")
    /\ UNCHANGED <<branch, life, issue, ended>>

(* The resources of an issue are cleaned up when no group waits. *)
Retire(n) ==
    /\ \A g \in Groups : ~Waits(g)
    /\ Goes(n, "landed", "retired")
    /\ UNCHANGED <<branch, effect, issue, ended>>

(* The run closes an issue that is open and cleaned up. *)
Close(n) ==
    /\ life[n] = "retired"
    /\ issue[n] = "open"
    /\ issue' = [issue EXCEPT ![n] = "closed"]
    /\ UNCHANGED <<branch, effect, life, ended>>

(* The close was observed, whoever made it; then its effect is complete. *)
Finish(n) ==
    /\ issue[n] # "open"
    /\ Goes(n, "retired", "closed")
    /\ UNCHANGED <<branch, effect, issue, ended>>

Settle(n) ==
    /\ Goes(n, "closed", "settled")
    /\ UNCHANGED <<branch, effect, issue, ended>>

End ==
    /\ \A g \in Groups : effect[g] = "delivered"
    /\ \A n \in Nodes : life[n] = "settled"
    /\ ended' = TRUE
    /\ UNCHANGED <<branch, effect, life, issue>>

Run ==
    \/ \E g \in Groups : Record(g) \/ Deliver(g) \/ \E r \in Repositories : Land(g, r)
    \/ \E n \in Nodes : Follow(n) \/ Retire(n) \/ Close(n) \/ Finish(n) \/ Settle(n)
    \/ End

(* Other people push and close issues whenever they like. *)
StrangerPushes(r) ==
    /\ branch' = [branch EXCEPT ![r] = Append(@, Stranger)]
    /\ UNCHANGED <<effect, life, issue, ended>>

StrangerCloses(n) ==
    /\ issue[n] = "open"
    /\ issue' = [issue EXCEPT ![n] = "closed by others"]
    /\ UNCHANGED <<branch, effect, life, ended>>

Next ==
    \/ ~ended /\ Run
    \/ \E r \in Repositories : StrangerPushes(r)
    \/ \E n \in Nodes : StrangerCloses(n)

Spec == Init /\ [][Next]_vars

=============================================================================
