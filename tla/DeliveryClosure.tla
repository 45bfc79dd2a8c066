--------------------------- MODULE DeliveryClosure ---------------------------
(***************************************************************************)
(* Delivery of acceptance groups and closure of their issues               *)
(* (scripts/lifecycle-delivery-executor.mjs,                               *)
(* scripts/lifecycle-cleanup-closure-executor.mjs, the recorders of        *)
(* scripts/lifecycle-run-loop.mjs, and what                                *)
(* scripts/lifecycle-transition-compiler.mjs offers them).                 *)
(*                                                                         *)
(* One execution at a time.  Each push, issue close and ledger append is a *)
(* step; an execution may be interrupted before any of them, and a later   *)
(* one starts from what the ledgers hold.  Other people push to the default*)
(* branches and close issues meanwhile.                                    *)
(*                                                                         *)
(* The executors are called directly, as their tests call them: the base   *)
(* observation that the dispatcher makes before every action belongs to    *)
(* Dispatcher.tla, so the base of a node is the empty log throughout.  The *)
(* landing of a candidate on the observed head is one value, the head with *)
(* the group appended.  The push is a fast-forward: the host refuses it    *)
(* when the branch is not at the head the candidate was landed on.  A      *)
(* snapshot names the state of the remote; two snapshots of the same state *)
(* are equal, which needs an adapter that repeats observedAt.              *)
(***************************************************************************)
EXTENDS Integers, Sequences, FiniteSets, Functions

CONSTANTS
    Groups,         \* acceptance groups, numbered in the order of their names
    Repositories,   \* repositories, numbered in the order of their names
    Nodes,          \* nodes, numbered in the order of the acceptance group
    GroupOf,        \* [Nodes -> Groups]
    RepositoryOf,   \* [Nodes -> Repositories]
    MaxFaults,      \* bound: interruptions and expired authorizations
    MaxTakeovers,   \* bound: new runtime invocations
    MaxForeign      \* bound: pushes and closes by other people

ASSUME GroupAssumption ==
    /\ Groups \subseteq Nat \ {0} /\ IsFiniteSet(Groups)
    /\ Nodes \subseteq Nat \ {0} /\ IsFiniteSet(Nodes)
    /\ Repositories \subseteq Nat /\ IsFiniteSet(Repositories)
    /\ GroupOf \in [Nodes -> Groups]
    /\ RepositoryOf \in [Nodes -> Repositories]
    /\ \A g \in Groups : \E n \in Nodes : GroupOf[n] = g
ASSUME FaultAssumption == {MaxFaults, MaxTakeovers, MaxForeign} \subseteq Nat

VARIABLES
    \* durable: the node ledgers and the control ledger
    stage,          \* node -> "ready" (to deliver), "cleaning" or "closed"
    freezes,        \* groups with an active delivery freeze
    pending,        \* pendingDeliveryEffects: group -> repository -> snapshot
    delivered,      \* groups with a completed delivery effect
    finalized,      \* nodes with a cleanup finalization
    authorized,     \* pendingClosureAuthorizations: node -> authorization
    observed,       \* pendingClosureEffects: node -> snapshot after the close
    closures,       \* nodes with a completed closure effect
    terminal,       \* run.terminalized was recorded
    \* the remote
    log,            \* repository -> who pushed to its default branch
    issue,          \* node -> state of its issue
    foreign,        \* number of things other people did
    \* the execution
    pc,
    task,           \* the group delivered or the node cleaned up, 0 for none
    acquired,       \* acquiredHere
    attempted,      \* remoteMutationAttempted
    seen,           \* preSnapshots: repository -> snapshot
    pushed,         \* repositories whose push was confirmed
    invocation,     \* runtime invocation of the root
    faults,
    strayed         \* history: something the recovery is not written for

groupVars == <<freezes, pending, delivered>>
closureVars == <<finalized, authorized, observed, closures>>
ledgerVars == <<stage, groupVars, closureVars, terminal>>
remoteVars == <<log, issue, foreign>>
memoryVars == <<task, acquired, attempted, seen, pushed>>
worldVars == <<invocation, faults, strayed>>
vars == <<ledgerVars, remoteVars, pc, memoryVars, worldVars>>

-----------------------------------------------------------------------------

Least(S) == CHOOSE x \in S : \A y \in S : x <= y
Without(f, x) == Restrict(f, DOMAIN f \ {x})
With(f, x, v) == [y \in DOMAIN f \cup {x} |-> IF y = x THEN v ELSE f[y]]

Members(g) == {n \in Nodes : GroupOf[n] = g}
Legs(g) == {RepositoryOf[n] : n \in Members(g)}

(* The issue whose state stands for a repository in the snapshots of a     *)
(* delivery: that of its first member.                                     *)
Representative(g, r) == Least({n \in Members(g) : RepositoryOf[n] = r})

Snapshot(n) == [head |-> log[RepositoryOf[n]], issue |-> issue[n]]
LegSnapshot(g, r) == Snapshot(Representative(g, r))

BaseSha == <<>>
Stranger == 0    \* who pushed, when it was not the run

Init ==
    /\ stage = [n \in Nodes |-> "ready"]
    /\ freezes = {} /\ pending = <<>> /\ delivered = {}
    /\ finalized = {} /\ authorized = <<>> /\ observed = <<>>
    /\ closures = {}
    /\ terminal = FALSE
    /\ log = [r \in Repositories |-> BaseSha]
    /\ issue = [n \in Nodes |-> "open"]
    /\ foreign = 0
    /\ pc = "idle" /\ task = 0
    /\ acquired = FALSE /\ attempted = FALSE
    /\ seen = <<>> /\ pushed = {}
    /\ invocation = 1
    /\ faults = 0
    /\ strayed = FALSE

-----------------------------------------------------------------------------
(* Other people. *)

ForeignPush(r) ==
    /\ foreign < MaxForeign
    /\ log' = [log EXCEPT ![r] = Append(@, Stranger)]
    /\ foreign' = foreign + 1
    /\ strayed' = TRUE
    /\ UNCHANGED <<ledgerVars, issue, pc, memoryVars, invocation, faults>>

ForeignClose(n) ==
    /\ foreign < MaxForeign
    /\ issue[n] = "open"
    /\ issue' = [issue EXCEPT ![n] = "closed by others"]
    /\ foreign' = foreign + 1
    /\ strayed' = TRUE
    /\ UNCHANGED <<ledgerVars, log, pc, memoryVars, invocation, faults>>

IsOpen(n) == issue[n] = "open"

-----------------------------------------------------------------------------
(* What the transition compiler offers.  A group is offered when one of its*)
(* nodes is at a deliver state and the others are as well, are closed, or  *)
(* were already recorded for the pending effect.                           *)

Offered(g) ==
    /\ g \notin delivered
    /\ \E n \in Members(g) : stage[n] = "ready"
    /\ \A n \in Members(g) :
        stage[n] = "cleaning" => g \in DOMAIN pending

OfferedGroups == {g \in Groups : Offered(g)}

(* The end of an execution: everything in memory is gone. *)
Forget ==
    /\ pc' = "idle" /\ task' = 0
    /\ acquired' = FALSE /\ attempted' = FALSE
    /\ seen' = <<>> /\ pushed' = {}

(* Mutant: a failed delivery releases the freeze it acquired. *)
ThrowAndRelease ==
    /\ Forget
    /\ freezes' = IF acquired THEN freezes \ {task} ELSE freezes
    /\ UNCHANGED <<stage, pending, delivered, closureVars, terminal>>

(* The catch block of the delivery: the freeze is released only when this  *)
(* execution acquired it and did not try to push.  A cleanup holds none.   *)
Throw ==
    /\ Forget
    /\ freezes' = IF acquired /\ ~attempted THEN freezes \ {task} ELSE freezes
    /\ UNCHANGED <<stage, pending, delivered, closureVars, terminal>>

(* A check of the code failed. *)
Rejects ==
    /\ Throw
    /\ UNCHANGED <<remoteVars, worldVars>>

Continue == UNCHANGED <<task, acquired, attempted, worldVars>>

-----------------------------------------------------------------------------
(* executeLifecycleDeliveryAction.  The first group offered is the only    *)
(* action of the action set.                                               *)

StartDelivery ==
    /\ pc = "idle" /\ ~terminal
    /\ OfferedGroups # {}
    /\ LET g == Least(OfferedGroups) IN
        /\ \A n \in Members(g) : stage[n] # "closed"
        /\ task' = g
        /\ acquired' = (g \notin freezes)
        /\ freezes' = freezes \cup {g}
        /\ pc' = IF g \in DOMAIN pending THEN "reobserve" ELSE "observe"
    /\ UNCHANGED <<stage, pending, delivered, closureVars, terminal,
                   remoteVars, attempted, seen, pushed, worldVars>>

(* Mutant: the head is not compared with the base of the nodes. *)
ObserveAnyHead ==
    /\ pc = "observe"
    /\ LET r == Least(Legs(task) \ DOMAIN seen) IN
        /\ seen' = With(seen, r, LegSnapshot(task, r))
        /\ pc' = IF DOMAIN seen' = Legs(task) THEN "push" ELSE pc
    /\ Continue
    /\ UNCHANGED <<ledgerVars, remoteVars, pushed>>

(* The snapshots before the mutation, one repository after the other; the  *)
(* head has to be the base of the nodes.  The candidates are landed after  *)
(* the last one.                                                           *)
ObserveBase ==
    /\ pc = "observe"
    /\ LET r == Least(Legs(task) \ DOMAIN seen) IN
        IF log[r] = BaseSha
        THEN /\ seen' = With(seen, r, LegSnapshot(task, r))
             /\ pc' = IF DOMAIN seen' = Legs(task) THEN "push" ELSE pc
             /\ Continue
             /\ UNCHANGED <<ledgerVars, remoteVars, pushed>>
        ELSE Rejects

(* The push of one repository.  The permission is checked against the      *)
(* snapshot taken before, not against a new one.                           *)
Push ==
    /\ pc = "push"
    /\ LET r == Least(Legs(task) \ pushed) IN
        /\ log' = IF log[r] = seen[r].head
                  THEN [log EXCEPT ![r] = Append(@, task)] ELSE log
        /\ pc' = IF log[r] = seen[r].head THEN "confirm" ELSE "refused"
    /\ attempted' = TRUE
    /\ UNCHANGED <<ledgerVars, issue, foreign, task, acquired, seen, pushed,
                   worldVars>>

PushRefused == pc = "refused" /\ Rejects

(* The snapshot after the push has to show its result and no other change. *)
Expected(r) == [seen[r] EXCEPT !.head = Append(@, task)]

(* Mutant: one repository is enough. *)
ConfirmFirstPush ==
    /\ pc = "confirm"
    /\ pushed' = {Least(Legs(task))}
    /\ pc' = "members"
    /\ Continue
    /\ UNCHANGED <<ledgerVars, remoteVars, seen>>

ConfirmPush ==
    /\ pc = "confirm"
    /\ LET r == Least(Legs(task) \ pushed) IN
        IF LegSnapshot(task, r) = Expected(r)
        THEN /\ pushed' = pushed \cup {r}
             /\ pc' = IF pushed' = Legs(task) THEN "record" ELSE "push"
             /\ Continue
             /\ UNCHANGED <<ledgerVars, remoteVars, seen>>
        ELSE Rejects

(* delivery.effect-recorded. *)
RecordEffect ==
    /\ pc = "record"
    /\ pending' = With(pending, task, [r \in Legs(task) |-> Expected(r)])
    /\ pc' = "reobserve"
    /\ Continue
    /\ UNCHANGED <<stage, freezes, delivered, closureVars, terminal,
                   remoteVars, seen, pushed>>

(* completePendingEffect: the remote still is what was recorded.  Nothing  *)
(* returns to an earlier state, so that one look stands for one after the  *)
(* other.                                                                  *)
Reobserve ==
    /\ pc = "reobserve"
    /\ IF \A r \in Legs(task) : LegSnapshot(task, r) = pending[task][r]
       THEN /\ pc' = "members"
            /\ Continue
            /\ UNCHANGED <<ledgerVars, remoteVars, seen, pushed>>
       ELSE Rejects

(* The result of each member in turn; the ones recorded by an earlier      *)
(* execution are skipped.                                                  *)
Unrecorded(g) == {n \in Members(g) : stage[n] # "cleaning"}

RecordMember ==
    /\ pc = "members"
    /\ stage' = [stage EXCEPT ![Least(Unrecorded(task))] = "cleaning"]
    /\ pc' = IF Cardinality(Unrecorded(task)) = 1 THEN "complete" ELSE pc
    /\ Continue
    /\ UNCHANGED <<groupVars, closureVars, terminal, remoteVars, seen, pushed>>

(* delivery.effect-completed, then delivery.freeze-released. *)
CompleteEffect ==
    /\ pc = "complete"
    /\ delivered' = delivered \cup {task}
    /\ pending' = Without(pending, task)
    /\ pc' = "release"
    /\ Continue
    /\ UNCHANGED <<stage, freezes, closureVars, terminal, remoteVars, seen,
                   pushed>>

ReleaseFreeze ==
    /\ pc = "release"
    /\ freezes' = freezes \ {task}
    /\ Forget
    /\ UNCHANGED <<stage, pending, delivered, closureVars, terminal,
                   remoteVars, worldVars>>

-----------------------------------------------------------------------------
(* executeLifecycleCleanupClosureAction, offered for every node in cleaning*)
(* when no group is.  It goes on from what the control ledger holds.       *)

(* Mutant: a recorded authorization is not looked for. *)
StartCleanupAuthorizing(n) ==
    /\ pc = "idle" /\ ~terminal
    /\ OfferedGroups = {}
    /\ stage[n] = "cleaning"
    /\ n \notin closures
    /\ task' = n
    /\ pc' = IF n \in DOMAIN observed THEN "reobserve issue"
             ELSE IF n \notin finalized THEN "clean"
             ELSE "authorize"
    /\ UNCHANGED <<ledgerVars, remoteVars, acquired, attempted, seen, pushed,
                   worldVars>>

(* Mutant: the cleanup does not wait for the groups. *)
StartCleanupAtOnce(n) ==
    /\ pc = "idle" /\ ~terminal
    /\ stage[n] = "cleaning"
    /\ n \notin closures
    /\ task' = n
    /\ pc' = IF n \in DOMAIN observed THEN "reobserve issue"
             ELSE IF n \notin finalized THEN "clean"
             ELSE IF n \notin DOMAIN authorized THEN "authorize"
             ELSE "close"
    /\ UNCHANGED <<ledgerVars, remoteVars, acquired, attempted, seen, pushed,
                   worldVars>>

StartCleanup(n) ==
    /\ pc = "idle" /\ ~terminal
    /\ OfferedGroups = {}
    /\ stage[n] = "cleaning"
    /\ n \notin closures
    /\ task' = n
    /\ pc' = IF n \in DOMAIN observed THEN "reobserve issue"
             ELSE IF n \notin finalized THEN "clean"
             ELSE IF n \notin DOMAIN authorized THEN "authorize"
             ELSE "close"
    /\ UNCHANGED <<ledgerVars, remoteVars, acquired, attempted, seen, pushed,
                   worldVars>>

(* performCleanup and cleanup.finalized. *)
CleanResources ==
    /\ pc = "clean"
    /\ finalized' = finalized \cup {task}
    /\ pc' = "authorize"
    /\ Continue
    /\ UNCHANGED <<stage, groupVars, authorized, observed, closures, terminal,
                   remoteVars, seen, pushed>>

(* closure.authorization-recorded.  An issue that is closed already is not *)
(* the run's to close.                                                     *)
AuthorizeClosure ==
    /\ pc = "authorize"
    /\ IF IsOpen(task)
       THEN /\ authorized' = With(authorized, task,
                   [by |-> invocation, live |-> TRUE,
                    snapshot |-> Snapshot(task)])
            /\ pc' = "close"
            /\ Continue
            /\ UNCHANGED <<stage, groupVars, finalized, observed, closures,
                           terminal, remoteVars, seen, pushed>>
       ELSE Rejects

(* The mutation, unless an earlier execution made it.  The authorization   *)
(* is bound to the snapshot, to the invocation and to a lifetime.          *)
CloseIssue ==
    /\ pc = "close"
    /\ IF IsOpen(task) /\ ~(/\ authorized[task].snapshot = Snapshot(task)
                            /\ authorized[task].by = invocation
                            /\ authorized[task].live)
       THEN Rejects
       ELSE /\ issue' = IF IsOpen(task)
                        THEN [issue EXCEPT ![task] = "closed"] ELSE issue
            /\ pc' = "record closure"
            /\ Continue
            /\ UNCHANGED <<ledgerVars, log, foreign, seen, pushed>>

(* closure.effect-recorded, after the receipts were evaluated: the same    *)
(* invocation authorized it and the default branch did not move.           *)
RecordClosure ==
    /\ pc = "record closure"
    /\ IF /\ ~IsOpen(task)
          /\ authorized[task].by = invocation
          /\ authorized[task].snapshot.head = Snapshot(task).head
       THEN /\ observed' = With(observed, task, Snapshot(task))
            /\ authorized' = Without(authorized, task)
            /\ pc' = "reobserve issue"
            /\ Continue
            /\ UNCHANGED <<stage, groupVars, finalized, closures, terminal,
                           remoteVars, seen, pushed>>
       ELSE Rejects

(* completePendingEffect of the cleanup, then the two appends of           *)
(* appendCleanupClosureResult.                                             *)
ConfirmClosure ==
    /\ pc = "reobserve issue"
    /\ IF Snapshot(task) = observed[task]
       THEN /\ stage' = [stage EXCEPT ![task] = "closed"]
            /\ pc' = "complete closure"
            /\ Continue
            /\ UNCHANGED <<groupVars, closureVars, terminal, remoteVars, seen,
                           pushed>>
       ELSE Rejects

CompleteClosure ==
    /\ pc = "complete closure"
    /\ closures' = closures \cup {task}
    /\ observed' = Without(observed, task)
    /\ Forget
    /\ UNCHANGED <<stage, groupVars, finalized, authorized, terminal,
                   remoteVars, worldVars>>

(* The finalizer, for a run in which nothing is left to do.  It rejects a  *)
(* closed node without its chain of control events.                        *)
HasControlChain(n) ==
    GroupOf[n] \in delivered /\ n \in finalized /\ n \in closures

Terminalize ==
    /\ pc = "idle" /\ ~terminal
    /\ \A n \in Nodes : stage[n] = "closed" /\ HasControlChain(n)
    /\ terminal' = TRUE
    /\ UNCHANGED <<stage, groupVars, closureVars, remoteVars, pc, memoryVars,
                   worldVars>>

-----------------------------------------------------------------------------
(* Interruptions.  An adapter fails, or the process is killed, before the  *)
(* step pc is at.  A killed process releases nothing; its successor may be *)
(* a new runtime invocation.                                               *)

(* Where an execution can be resumed by another of the same invocation.    *)
Resumable ==
    \/ pc \in {"observe", "reobserve", "members", "release", "clean",
               "authorize", "close", "record closure", "reobserve issue"}
    \/ pc = "push" /\ pushed = {}

Interrupt ==
    /\ pc # "idle"
    /\ faults < MaxFaults
    /\ faults' = faults + 1
    /\ strayed' = (strayed \/ ~Resumable)
    /\ UNCHANGED <<remoteVars, invocation>>

AdapterFails == Interrupt /\ Throw

Killed == Interrupt /\ Forget /\ UNCHANGED ledgerVars

Takeover ==
    /\ pc = "idle" /\ ~terminal
    /\ invocation <= MaxTakeovers
    /\ invocation' = invocation + 1
    /\ strayed' = TRUE
    /\ UNCHANGED <<ledgerVars, remoteVars, pc, memoryVars, faults>>

(* An authorization lives for 240 seconds. *)
AuthorizationExpires(n) ==
    /\ pc = "idle"
    /\ n \in DOMAIN authorized /\ authorized[n].live
    /\ faults < MaxFaults
    /\ authorized' = [authorized EXCEPT ![n].live = FALSE]
    /\ faults' = faults + 1
    /\ strayed' = TRUE
    /\ UNCHANGED <<stage, groupVars, finalized, observed, closures, terminal,
                   remoteVars, pc, memoryVars, invocation>>

-----------------------------------------------------------------------------

Execution ==
    \/ StartDelivery \/ ObserveBase \/ Push \/ PushRefused \/ ConfirmPush
    \/ RecordEffect \/ Reobserve \/ RecordMember \/ CompleteEffect
    \/ ReleaseFreeze
    \/ \E n \in Nodes : StartCleanup(n)
    \/ CleanResources \/ AuthorizeClosure \/ CloseIssue \/ RecordClosure
    \/ ConfirmClosure \/ CompleteClosure
    \/ Terminalize

Environment ==
    \/ \E r \in Repositories : ForeignPush(r)
    \/ \E n \in Nodes : ForeignClose(n) \/ AuthorizationExpires(n)
    \/ AdapterFails \/ Killed \/ Takeover

Next == Execution \/ Environment

Spec == Init /\ [][Next]_vars

(* The root executes an action as long as one is offered. *)
FairSpec == Spec /\ WF_vars(Execution)

-----------------------------------------------------------------------------
(* Properties. *)

Branch == Seq(Groups \cup {Stranger})
Snapshots == [head : Branch, issue : {"open", "closed", "closed by others"}]

(* Every variable keeps its type, and a delivery effect has a snapshot of  *)
(* each repository of its group.                                           *)
TypeOK ==
    /\ stage \in [Nodes -> {"ready", "cleaning", "closed"}]
    /\ freezes \subseteq Groups /\ delivered \subseteq Groups
    /\ DOMAIN pending \subseteq Groups
    /\ \A g \in DOMAIN pending : pending[g] \in [Legs(g) -> Snapshots]
    /\ finalized \subseteq Nodes /\ closures \subseteq Nodes
    /\ DOMAIN authorized \subseteq Nodes
    /\ \A n \in DOMAIN authorized :
        authorized[n] \in [by : 1 .. MaxTakeovers + 1, live : BOOLEAN,
                           snapshot : Snapshots]
    /\ DOMAIN observed \subseteq Nodes
    /\ \A n \in DOMAIN observed : observed[n] \in Snapshots
    /\ log \in [Repositories -> Branch]
    /\ issue \in [Nodes -> {"open", "closed", "closed by others"}]
    /\ task \in Groups \cup Nodes \cup {0}
    /\ DOMAIN seen \subseteq Repositories /\ pushed \subseteq DOMAIN seen
    /\ {terminal, acquired, attempted, strayed} \subseteq BOOLEAN
    /\ invocation \in 1 .. MaxTakeovers + 1
    /\ foreign \in 0 .. MaxForeign /\ faults \in 0 .. MaxFaults

Pushed(g, r) == \E i \in DOMAIN log[r] : log[r][i] = g

(* A push is made exactly once whatever is interrupted and retried, and    *)
(* lands directly on the base its evidence is for: nobody's commit lies    *)
(* below it.                                                               *)
PushedOnceOnBase ==
    \A r \in Repositories : \A i \in DOMAIN log[r] :
        log[r][i] \in Groups => i = 1

(* A group that has changed a remote and is not delivered stays frozen: no *)
(* failure lets another effect of the group start from a half pushed state.*)
PushesStayFrozen ==
    \A g \in Groups :
        (\E r \in Legs(g) : Pushed(g, r)) /\ g \notin delivered
            => g \in freezes

(* An issue is closed by the run only after every repository of its group  *)
(* has the commit and the resources of the node are gone, and a closed     *)
(* node can be traced to an observed close.                                *)
ClosedWithEvidence ==
    \A n \in Nodes :
        /\ issue[n] = "closed" =>
            /\ n \in finalized
            /\ n \in DOMAIN authorized \cup DOMAIN observed \cup closures
            /\ \A r \in Legs(GroupOf[n]) : Pushed(GroupOf[n], r)
        /\ stage[n] = "closed" =>
            /\ ~IsOpen(n)
            /\ n \in DOMAIN observed \cup closures

(* A run that ended left no effect half done: every group is delivered     *)
(* and every issue closed.                                                 *)
TerminalIsComplete ==
    terminal =>
        /\ \A n \in Nodes : ~IsOpen(n)
        /\ \A g \in Groups : \A r \in Legs(g) : Pushed(g, r)
        /\ DOMAIN pending = {} /\ DOMAIN authorized = {}
        /\ DOMAIN observed = {}

(* Whatever is interrupted, retried, taken over or done by others, what is *)
(* recorded and what the remote shows follow GroupDelivery.tla.            *)
Effects == [g \in Groups |->
    IF g \in delivered THEN "delivered"
    ELSE IF g \in DOMAIN pending THEN "recorded" ELSE "none"]
LifeOf(n) ==
    IF n \in closures THEN "settled"
    ELSE IF stage[n] # "cleaning" THEN stage[n]
    ELSE IF n \in finalized THEN "retired" ELSE "landed"
Lives == [n \in Nodes |-> LifeOf(n)]

Delivery == INSTANCE GroupDelivery WITH
    branch <- log, effect <- Effects, life <- Lives, issue <- issue, ended <- terminal
DeliverySpec == Delivery!Spec

(* An execution interrupted where it can be resumed is: the run ends unless*)
(* an interruption came elsewhere, another invocation took over or somebody*)
(* else changed the remote.                                                *)
DeliveryCompletes == <>(terminal \/ strayed)

(* What the documentation says of an interrupted delivery: the recovery    *)
(* records the side effects that were made.                                *)
PushesAreRecorded ==
    \A g \in Groups :
        (\E r \in Legs(g) : Pushed(g, r)) ~> g \in DOMAIN pending \cup delivered

=============================================================================
