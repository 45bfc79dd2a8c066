----------------------------- MODULE Dispatcher -----------------------------
(***************************************************************************)
(* The production dispatcher (scripts/lifecycle-production-dispatcher.mjs) *)
(* with the recorders it calls (scripts/lifecycle-run-loop.mjs), the base  *)
(* observation and scope refresh (scripts/lifecycle-live-refresh.mjs) and  *)
(* the part of the transition compiler that decides what it starts         *)
(* (scripts/lifecycle-transition-compiler.mjs).                            *)
(*                                                                         *)
(* One process loops: refresh the scope, compile the action set, start a   *)
(* wave of actors or run one root action, wait for a completion, record    *)
(* every completion that is ready.  Actors run by themselves.  The ledgers *)
(* survive a crash; running, the wave and the drained results do not.      *)
(* Each append to a ledger is a step of its own, so that a crash can come  *)
(* between any two.                                                        *)
(*                                                                         *)
(* A node's lifecycle is abstracted to a stage number: StageOwner says who *)
(* executes the action of a stage, Final is the state closed.  Every node  *)
(* delivers by itself; delivery and cleanup are single root steps here and *)
(* taken apart in DeliveryClosure.tla.  Slots are the nodes with an        *)
(* unsettled dispatch: slots.updated only sets the capacity of a new run.  *)
(***************************************************************************)
EXTENDS Integers, Sequences, FiniteSets

CONSTANTS
    Nodes,          \* selected issues
    Repositories,   \* their repositories
    RepositoryOf,   \* [Nodes -> Repositories]
    Capacity,       \* actor slots
    Final,          \* the stage of a closed node
    StageOwner,     \* [0 .. Final - 1 -> {"actor", "machine", "root"}]
    DeliverStages,  \* root stages that push to the default branch
    FrozenStage,    \* the stage a base rebind carries a node to
    Rebindable,     \* stages from which a base change can be absorbed
    MaxDispatches,  \* bound: dispatches started
    MaxBase,        \* bound: foreign pushes to a default branch
    ScopeKinds,     \* which changes of the remote issues may happen
    MaxScope,       \* bound: changes of the remote issues
    MaxFaults       \* bound: crashes and failing actors or preparations

ASSUME NodeAssumption ==
    /\ IsFiniteSet(Nodes)
    /\ RepositoryOf \in [Nodes -> Repositories]
ASSUME StageAssumption ==
    /\ Final \in Nat \ {0}
    /\ StageOwner \in [0 .. Final - 1 -> {"actor", "machine", "root"}]
    /\ DeliverStages \subseteq {s \in 0 .. Final - 1 : StageOwner[s] = "root"}
    /\ FrozenStage \in 0 .. Final - 1
    /\ Rebindable \subseteq 0 .. Final - 1
ASSUME ScopeAssumption ==
    ScopeKinds \subseteq {"changes", "leaves", "returns", "outside"}
ASSUME LimitAssumption ==
    {Capacity, MaxDispatches, MaxBase, MaxScope, MaxFaults} \subseteq Nat

VARIABLES
    \* durable: the control ledger and the node ledgers
    nodes,          \* node id -> [status, epoch, base, stage, head]
    repositoryBases,\* repository -> base commit
    selector,       \* number of the selector receipt in force
    delivered,      \* nodes with a completed delivery effect
    dispatches,     \* dispatch records in the order they were started
    terminal,       \* run.terminalized was recorded
    \* the remote
    remoteHead,     \* repository -> head of its default branch
    inScope,        \* issues the selector matches
    changed,        \* issues whose facts changed since the last refresh
    outside,        \* issues outside the scope changed since then
    \* the dispatcher process
    pc,             \* where the process is, "down" between two processes
    running,        \* ids of the dispatches it waits for
    wave,           \* bindings of the actions it is about to start
    drained,        \* ids taken from the settlement queue
    admit,          \* drained ids whose result is to be recorded
    exclude,        \* drained ids to be excluded
    current,        \* id whose result is recorded and not yet settled, or 0
    fatal,          \* a rejected executor was drained
    \* bounds
    scopeMoves, faults

ledgerVars == <<nodes, repositoryBases, selector, delivered, dispatches,
                terminal>>
remoteVars == <<remoteHead, inScope, changed, outside, scopeMoves>>
batchVars == <<drained, admit, exclude, current, fatal>>
vars == <<ledgerVars, remoteVars, pc, running, wave, batchVars, faults>>

-----------------------------------------------------------------------------
(* The ledgers. *)

Ids == DOMAIN dispatches
Unsettled == {i \in Ids : dispatches[i].outcome = "none"}
Busy == {dispatches[i].node : i \in Unsettled}

IsActive(n) == nodes[n].status = "active"

(* What an action is bound to when it is compiled. *)
Binding(n) == [node |-> n, epoch |-> nodes[n].epoch, head |-> nodes[n].head,
               base |-> nodes[n].base, selector |-> selector]

(* The dispatch is still bound to the current node: the bindings that      *)
(* currentNodeForDispatchedResult compares.                                *)
IsFresh(d) ==
    /\ IsActive(d.node)
    /\ [node |-> d.node, epoch |-> d.epoch, head |-> d.head,
        base |-> d.base, selector |-> d.selector] = Binding(d.node)

HeadOf(n) == remoteHead[RepositoryOf[n]]

(* The process is gone: with it the promises and everything in memory. *)
Down ==
    /\ pc' = "down"
    /\ running' = {}
    /\ wave' = {}
    /\ drained' = {}
    /\ admit' = {}
    /\ exclude' = {}
    /\ current' = 0
    /\ fatal' = FALSE

-----------------------------------------------------------------------------

Init ==
    /\ nodes = [n \in Nodes |-> [status |-> "active", epoch |-> 1, base |-> 0,
                                 stage |-> 0, head |-> 0]]
    /\ repositoryBases = [r \in Repositories |-> 0]
    /\ selector = 0
    /\ delivered = {}
    /\ dispatches = <<>>
    /\ terminal = FALSE
    /\ remoteHead = [r \in Repositories |-> 0]
    /\ inScope = Nodes
    /\ changed = {}
    /\ outside = FALSE
    /\ pc = "down"
    /\ running = {}
    /\ wave = {}
    /\ drained = {}
    /\ admit = {}
    /\ exclude = {}
    /\ current = 0
    /\ fatal = FALSE
    /\ scopeMoves = 0
    /\ faults = 0

-----------------------------------------------------------------------------
(* The remote moves by itself. *)

BaseMoves(r) ==
    /\ remoteHead[r] < MaxBase
    /\ remoteHead' = [remoteHead EXCEPT ![r] = @ + 1]
    /\ UNCHANGED <<ledgerVars, inScope, changed, outside, scopeMoves, pc,
                   running, wave, batchVars, faults>>

ScopeMoves(kind) ==
    /\ kind \in ScopeKinds
    /\ scopeMoves < MaxScope
    /\ scopeMoves' = scopeMoves + 1
    /\ UNCHANGED <<ledgerVars, remoteHead, pc, running, wave, batchVars,
                   faults>>

IssueChanges(n) ==
    /\ ScopeMoves("changes")
    /\ changed' = changed \cup {n}
    /\ UNCHANGED <<inScope, outside>>
IssueLeaves(n) ==
    /\ ScopeMoves("leaves")
    /\ n \in inScope
    /\ inScope' = inScope \ {n}
    /\ UNCHANGED <<changed, outside>>
IssueReturns(n) ==
    /\ ScopeMoves("returns")
    /\ n \notin inScope
    /\ inScope' = inScope \cup {n}
    /\ UNCHANGED <<changed, outside>>
OutsideChanges ==
    /\ ScopeMoves("outside")
    /\ outside' = TRUE
    /\ UNCHANGED <<changed, inScope>>

(* The actor of a dispatch ends: with a result, with one its owner cannot  *)
(* normalise, with a typed stage failure, or rejected for no known reason. *)
ActorEnds(i, how) ==
    /\ dispatches[i].actor = "running"
    /\ how # "fulfilled" => faults < MaxFaults
    /\ faults' = IF how = "fulfilled" THEN faults ELSE faults + 1
    /\ dispatches' = [dispatches EXCEPT ![i].actor = how]
    /\ UNCHANGED <<nodes, repositoryBases, selector, delivered, terminal,
                   remoteVars, pc, running, wave, batchVars>>

Crash ==
    /\ pc \notin {"down", "done"}
    /\ faults < MaxFaults
    /\ faults' = faults + 1
    /\ Down
    /\ UNCHANGED <<ledgerVars, remoteVars>>

-----------------------------------------------------------------------------
(* The loop. *)

(* Mutant: a new process does not take over the unsettled dispatches. *)
StartWithoutRecovery ==
    /\ pc = "down"
    /\ pc' = "loop"
    /\ UNCHANGED <<ledgerVars, remoteVars, running, wave, batchVars, faults>>

(* recoverRunning: the provider gives a completion for every unsettled     *)
(* dispatch; one that was never spawned, or rejected, runs (again).        *)
Start ==
    /\ pc = "down"
    /\ pc' = "loop"
    /\ running' = Unsettled
    /\ dispatches' = [i \in Ids |->
           IF i \in Unsettled /\ dispatches[i].actor \in {"unspawned", "fatal"}
           THEN [dispatches[i] EXCEPT !.actor = "running"]
           ELSE dispatches[i]]
    /\ UNCHANGED <<nodes, repositoryBases, selector, delivered, terminal,
                   remoteVars, wave, batchVars, faults>>

ScopeIsCurrent ==
    /\ \A n \in Nodes : IsActive(n) <=> n \in inScope
    /\ changed = {}
    /\ ~outside

(* Mutant: a removed node is marked as tombstoned. *)
RefreshedNodeTombstoned(n) ==
    IF IsActive(n) /\ n \notin inScope
    THEN [nodes[n] EXCEPT !.status = "tombstoned"]
    ELSE nodes[n]

(* Mutant: a changed node starts over within its epoch. *)
RefreshedNodeSameEpoch(n) ==
    IF IsActive(n) /\ n \in changed
    THEN [nodes[n] EXCEPT !.stage = 0, !.head = 0]
    ELSE nodes[n]

(* recordLifecycleScopeRefresh: one atomic save.  A node that left is      *)
(* removed, one that returned is reopened, a changed one rebound, both one *)
(* epoch later with an empty ledger, whatever stage they had reached.  An  *)
(* observation-only refresh replaces the selector receipt and no node.     *)
RefreshedNode(n) ==
    IF IsActive(n) /\ n \notin inScope
    THEN [nodes[n] EXCEPT !.status = "removed"]
    ELSE IF n \in inScope /\ (~IsActive(n) \/ n \in changed)
    THEN [status |-> "active", epoch |-> nodes[n].epoch + 1,
          base |-> repositoryBases[RepositoryOf[n]], stage |-> 0, head |-> 0]
    ELSE nodes[n]

Refresh ==
    /\ pc = "loop"
    /\ ~ScopeIsCurrent
    /\ nodes' = [n \in Nodes |-> RefreshedNode(n)]
    /\ selector' = selector + 1
    /\ repositoryBases' = repositoryBases
    /\ changed' = {}
    /\ outside' = FALSE
    /\ UNCHANGED <<delivered, dispatches, terminal, remoteHead, inScope,
                   scopeMoves, pc, running, wave, batchVars, faults>>

(* The semantic graph has no node for a removed one, and the compiler      *)
(* looks every registered node up in it.                                   *)
Compiles == ScopeIsCurrent /\ \A n \in Nodes : IsActive(n)

CompileFails ==
    /\ pc = "loop"
    /\ ScopeIsCurrent
    /\ ~Compiles
    /\ Down
    /\ UNCHANGED <<ledgerVars, remoteVars, faults>>

Owned(owner) ==
    {n \in Nodes : nodes[n].stage < Final /\ StageOwner[nodes[n].stage] = owner}

(* A group with a completed delivery effect is never delivered again. *)
RootNodes == {n \in Owned("root") :
                 nodes[n].stage \in DeliverStages => n \notin delivered}

(* Mutant: a node with an unsettled dispatch is offered again. *)
CandidatesBusyOrNot == Owned("actor")

Candidates == Owned("actor") \ Busy

FreeSlots == Capacity - Cardinality(Busy)

(* Work conserving: as many candidates as there are free slots. *)
Waves == {W \in SUBSET Candidates :
             /\ W # {}
             /\ Cardinality(W) <= FreeSlots
             /\ Cardinality(W) = FreeSlots \/ W = Candidates}

CompileWave ==
    /\ pc = "loop"
    /\ Compiles
    /\ RootNodes = {}
    /\ running = {} => Owned("machine") = {}
    /\ \E W \in Waves :
         /\ Len(dispatches) + Cardinality(W) <= MaxDispatches
         /\ wave' = {Binding(n) : n \in W}
    /\ pc' = "wave"
    /\ UNCHANGED <<ledgerVars, remoteVars, running, batchVars, faults>>

CompileAwait ==
    /\ pc = "loop"
    /\ Compiles
    /\ running # {}
    /\ RootNodes # {} \/ Waves = {}
    /\ pc' = "await"
    /\ UNCHANGED <<ledgerVars, remoteVars, running, wave, batchVars, faults>>

-----------------------------------------------------------------------------
(* A base that moved before an action. *)

CanRebind(r) ==
    /\ repositoryBases[r] # remoteHead[r]
    /\ \E n \in Nodes : RepositoryOf[n] = r /\ nodes[n].stage \in Rebindable

(* Mutant: only the nodes that absorb the change are moved to the new base.*)
RebindBaseOfSome(r) ==
    /\ repositoryBases' = [repositoryBases EXCEPT ![r] = remoteHead[r]]
    /\ nodes' = [n \in Nodes |->
           IF RepositoryOf[n] = r /\ nodes[n].stage \in Rebindable
           THEN [status |-> "active", epoch |-> nodes[n].epoch + 1,
                 base |-> remoteHead[r], stage |-> FrozenStage, head |-> 1]
           ELSE nodes[n]]
    /\ UNCHANGED <<selector, delivered, dispatches, terminal>>

(* Mutant: the nodes keep their epoch. *)
RebindBaseInPlace(r) ==
    /\ repositoryBases' = [repositoryBases EXCEPT ![r] = remoteHead[r]]
    /\ nodes' = [n \in Nodes |->
           IF RepositoryOf[n] = r /\ nodes[n].stage # Final
           THEN [nodes[n] EXCEPT !.base = remoteHead[r], !.stage = FrozenStage]
           ELSE nodes[n]]
    /\ UNCHANGED <<selector, delivered, dispatches, terminal>>

(* recordLifecycleBaseChange, one atomic save: every node of the repository*)
(* that is not closed is carried to FrozenStage at the new base; its new   *)
(* ledger holds the carry-forward event.                                   *)
RebindBase(r) ==
    /\ repositoryBases' = [repositoryBases EXCEPT ![r] = remoteHead[r]]
    /\ nodes' = [n \in Nodes |->
           IF RepositoryOf[n] = r /\ nodes[n].stage # Final
           THEN [status |-> "active", epoch |-> nodes[n].epoch + 1,
                 base |-> remoteHead[r], stage |-> FrozenStage, head |-> 1]
           ELSE nodes[n]]
    /\ UNCHANGED <<selector, delivered, dispatches, terminal>>

(* The repositories of the nodes about to act whose head is not their base.*)
Drifted(about) == {RepositoryOf[n] : n \in {m \in about :
                                                nodes[m].base # HeadOf(m)}}

(* The action is dropped: the base is rebound and the loop starts over, or *)
(* lifecycle-base-change-not-rebindable ends the process.                  *)
DropForDrift(about) ==
    \E r \in Drifted(about) :
        /\ IF CanRebind(r)
           THEN /\ RebindBase(r)
                /\ pc' = "loop"
                /\ wave' = {}
                /\ UNCHANGED <<running, batchVars>>
           ELSE Down /\ UNCHANGED ledgerVars
        /\ UNCHANGED <<remoteVars, faults>>

-----------------------------------------------------------------------------
(* startActorWave. *)

WaveNodes == {b.node : b \in wave}

WaveDrifts == pc = "wave" /\ DropForDrift(WaveNodes)

(* Preparation may fail for some actions; the others start.  None at all   *)
(* ends the process unless other actors are running.                       *)
PrepareWave(prepared) ==
    /\ pc = "wave"
    /\ Drifted(WaveNodes) = {}
    /\ prepared # wave => faults < MaxFaults
    /\ faults' = IF prepared = wave THEN faults ELSE faults + 1
    /\ IF prepared = {} /\ running = {}
       THEN Down
       ELSE /\ pc' = IF prepared = {} THEN "await" ELSE "recording"
            /\ wave' = prepared
            /\ UNCHANGED <<running, batchVars>>
    /\ UNCHANGED <<ledgerVars, remoteVars>>

(* recordLifecycleDispatchBatchStarted appends one event per action. *)
RecordStarted ==
    /\ pc = "recording"
    /\ \E b \in wave :
         /\ dispatches' = Append(dispatches,
                [node |-> b.node, epoch |-> b.epoch, head |-> b.head,
                 base |-> b.base, selector |-> b.selector,
                 actor |-> "unspawned", event |-> FALSE, outcome |-> "none"])
         /\ wave' = wave \ {b}
    /\ UNCHANGED <<nodes, repositoryBases, selector, delivered, terminal,
                   remoteVars, pc, running, batchVars, faults>>

(* After the last append the actors are spawned.  With other actors already*)
(* running the same turn goes on to wait for one.                          *)
SpawnWave ==
    /\ pc = "recording"
    /\ wave = {}
    /\ dispatches' = [i \in Ids |->
           IF dispatches[i].actor = "unspawned"
           THEN [dispatches[i] EXCEPT !.actor = "running"]
           ELSE dispatches[i]]
    /\ running' = Unsettled
    /\ pc' = IF running = {} THEN "loop" ELSE "await"
    /\ UNCHANGED <<nodes, repositoryBases, selector, delivered, terminal,
                   remoteVars, wave, batchVars, faults>>

-----------------------------------------------------------------------------
(* settleReadyBatch. *)

Ready == {i \in running : dispatches[i].actor \notin {"unspawned", "running"}}

(* Every completion published so far is taken from the queue. *)
Drain ==
    /\ pc = "await"
    /\ Ready # {}
    /\ drained' = Ready
    /\ pc' = "observing"
    /\ UNCHANGED <<ledgerVars, remoteVars, running, wave, admit, exclude,
                   current, fatal, faults>>

(* One observation of the bases the drained results were produced on; the  *)
(* queue fills on while it is awaited.  Results of one repository that were*)
(* produced on different bases have no common observation:                 *)
(* lifecycle-base-epoch-conflicting-base ends the process.                 *)
DrainedAs(how) == {i \in drained : dispatches[i].actor \in how}
Observed == DrainedAs({"fulfilled", "failed"})
BasesConflict ==
    \E i, j \in Observed :
        /\ RepositoryOf[dispatches[i].node] = RepositoryOf[dispatches[j].node]
        /\ dispatches[i].base # dispatches[j].base

(* Mutant: one malformed result drops the batch. *)
ObserveDrainedTogether ==
    /\ pc = "observing"
    /\ IF DrainedAs({"malformed"}) # {}
       THEN exclude' = drained /\ admit' = {}
       ELSE exclude' = {} /\ admit' = Observed
    /\ fatal' = (DrainedAs({"fatal"}) # {})
    /\ drained' = {}
    /\ pc' = "settling"
    /\ UNCHANGED <<running, wave, current, ledgerVars, remoteVars, faults>>

ObserveDrained ==
    LET Stale == {i \in Observed :
                     dispatches[i].base # HeadOf(dispatches[i].node)}
    IN  /\ pc = "observing"
        /\ IF BasesConflict
           THEN Down
           ELSE /\ exclude' = DrainedAs({"malformed"}) \cup Stale
                /\ admit' = Observed \ Stale
                /\ fatal' = (DrainedAs({"fatal"}) # {})
                /\ drained' = {}
                /\ pc' = "settling"
                /\ UNCHANGED <<running, wave, current>>
        /\ UNCHANGED <<ledgerVars, remoteVars, faults>>

(* The node event of a result.  A failure keeps the node at its stage. *)
AdmitResult(i) ==
    LET d == dispatches[i]
    IN  /\ pc = "settling"
        /\ current = 0
        /\ i \in admit
        /\ ~d.event
        /\ IsFresh(d)
        /\ current' = i
        /\ dispatches' = [dispatches EXCEPT ![i].event = TRUE]
        /\ nodes' = [nodes EXCEPT
               ![d.node].head = @ + 1,
               ![d.node].stage = IF d.actor = "fulfilled" THEN @ + 1 ELSE @]
        /\ UNCHANGED <<repositoryBases, selector, delivered, terminal,
                       remoteVars, pc, running, wave, drained, admit, exclude,
                       fatal, faults>>

(* The settlement.  A result whose event an earlier process appended is    *)
(* settled without looking at its bindings; a stale one is excluded.       *)
SettleResult(i) ==
    LET d == dispatches[i]
    IN  /\ pc = "settling"
        /\ current \in {0, i}
        /\ i \in admit
        /\ d.event \/ ~IsFresh(d)
        /\ dispatches' = [dispatches EXCEPT ![i].outcome =
               CASE ~d.event -> "excluded"
                 [] d.event /\ d.actor = "fulfilled" -> "completed"
                 [] OTHER -> "failed"]
        /\ admit' = admit \ {i}
        /\ current' = 0
        /\ UNCHANGED <<nodes, repositoryBases, selector, delivered, terminal,
                       remoteVars, pc, running, wave, drained, exclude, fatal,
                       faults>>

SettleExcluded(i) ==
    /\ pc = "settling"
    /\ current = 0
    /\ i \in exclude
    /\ dispatches' = [dispatches EXCEPT ![i].outcome = "excluded"]
    /\ exclude' = exclude \ {i}
    /\ UNCHANGED <<nodes, repositoryBases, selector, delivered, terminal,
                   remoteVars, pc, running, wave, drained, admit, current,
                   fatal, faults>>

(* Mutant: the settled dispatches stay in the set of running ones. *)
FinishSettlingKeepsAll ==
    /\ pc = "settling"
    /\ admit = {} /\ exclude = {}
    /\ IF fatal
       THEN Down
       ELSE /\ pc' = "loop"
            /\ UNCHANGED <<running, wave, batchVars>>
    /\ UNCHANGED <<ledgerVars, remoteVars, faults>>

(* A rejected executor ends the process after its peers were recorded. *)
FinishSettling ==
    /\ pc = "settling"
    /\ admit = {} /\ exclude = {}
    /\ IF fatal
       THEN Down
       ELSE /\ pc' = "loop"
            /\ running' = running \cap Unsettled
            /\ UNCHANGED <<wave, batchVars>>
    /\ UNCHANGED <<ledgerVars, remoteVars, faults>>

-----------------------------------------------------------------------------
(* Root and machine actions run while no actor does. *)

(* Mutant: root actions do not wait for the running dispatches. *)
QuietOrNot == pc = "loop" /\ Compiles

Quiet == pc = "loop" /\ Compiles /\ running = {}

Advance(S) ==
    nodes' = [n \in Nodes |->
        IF n \in S THEN [nodes[n] EXCEPT !.stage = @ + 1, !.head = @ + 1]
                   ELSE nodes[n]]

(* executeImmediate: the base is observed first, for delivery and cleanup  *)
(* as for any other action.  A delivery pushes to the default branch.      *)
RootAction(n) ==
    /\ Quiet
    /\ n \in RootNodes
    /\ \/ DropForDrift({n})
       \/ /\ Drifted({n}) = {}
          /\ Advance({n})
          /\ IF nodes[n].stage \in DeliverStages
             THEN /\ delivered' = delivered \cup {n}
                  /\ remoteHead' = [remoteHead EXCEPT ![RepositoryOf[n]] = @ + 1]
             ELSE UNCHANGED <<delivered, remoteHead>>
          /\ UNCHANGED <<repositoryBases, selector, dispatches, terminal,
                         inScope, changed, outside, scopeMoves, pc, running,
                         wave, batchVars, faults>>

(* executeMachineBatch: the valid results are recorded; an invalid one     *)
(* leaves its node alone and ends the process.                             *)
MachineBatch(S) ==
    /\ Quiet
    /\ RootNodes = {}
    /\ Owned("machine") # {}
    /\ \/ S = {} /\ DropForDrift(Owned("machine"))
       \/ /\ Drifted(Owned("machine")) = {}
          /\ S \subseteq Owned("machine")
          /\ Advance(S)
          /\ IF S = Owned("machine")
             THEN UNCHANGED <<pc, running, wave, batchVars, faults>>
             ELSE faults < MaxFaults /\ faults' = faults + 1 /\ Down
          /\ UNCHANGED <<repositoryBases, selector, delivered, dispatches,
                         terminal, remoteVars>>

(* Nothing to do: the finalizer ends the run when every node is closed.  It*)
(* rejects it otherwise, or when the inventory it takes shows a residue.   *)
AllClosed == \A n \in Nodes : nodes[n].stage = Final

Idle ==
    /\ Quiet
    /\ RootNodes = {} /\ Owned("machine") = {} /\ Owned("actor") = {}
    /\ \/ /\ AllClosed
          /\ terminal' = TRUE
          /\ pc' = "done"
          /\ UNCHANGED <<running, wave, batchVars, faults>>
       \/ /\ AllClosed => faults < MaxFaults
          /\ faults' = IF AllClosed THEN faults + 1 ELSE faults
          /\ Down
          /\ UNCHANGED terminal
    /\ UNCHANGED <<nodes, repositoryBases, selector, delivered, dispatches,
                   remoteVars>>

-----------------------------------------------------------------------------

Remote ==
    \/ \E r \in Repositories : BaseMoves(r)
    \/ \E n \in Nodes : IssueChanges(n) \/ IssueLeaves(n) \/ IssueReturns(n)
    \/ OutsideChanges

Process ==
    \/ Start \/ Refresh \/ CompileFails \/ CompileWave \/ CompileAwait
    \/ WaveDrifts \/ (\E prepared \in SUBSET wave : PrepareWave(prepared))
    \/ RecordStarted \/ SpawnWave
    \/ Drain \/ ObserveDrained \/ FinishSettling
    \/ \E i \in Ids : AdmitResult(i) \/ SettleResult(i) \/ SettleExcluded(i)
    \/ \E n \in Nodes : RootAction(n)
    \/ \E S \in SUBSET Nodes : MachineBatch(S)
    \/ Idle

Ends == {"fulfilled", "malformed", "failed", "fatal"}

Next ==
    \/ Remote
    \/ Process
    \/ Crash
    \/ \E i \in Ids, how \in Ends : ActorEnds(i, how)

Spec == Init /\ [][Next]_vars

(* A process that is down is started again, one that can go on does, and an*)
(* actor ends some day.  Nothing is assumed of the remote or of crashes.   *)
Fairness ==
    /\ WF_vars(Process)
    /\ \A i \in 1 .. MaxDispatches :
         WF_vars(i \in Ids /\ \E how \in Ends : ActorEnds(i, how))

FairSpec == Spec /\ Fairness

-----------------------------------------------------------------------------
(* Properties. *)

Node == [status : {"active", "removed"}, epoch : Nat, base : Nat,
         stage : 0 .. Final, head : Nat]
Dispatch == [node : Nodes, epoch : Nat, head : Nat, base : Nat,
             selector : Nat, event : BOOLEAN,
             actor : Ends \cup {"unspawned", "running"},
             outcome : {"none", "completed", "failed", "excluded"}]

(* Every variable keeps its type; the sets of the process hold recorded    *)
(* dispatches only.                                                        *)
TypeOK ==
    /\ nodes \in [Nodes -> Node]
    /\ repositoryBases \in [Repositories -> Nat]
    /\ selector \in Nat
    /\ delivered \subseteq Nodes
    /\ \A i \in Ids : dispatches[i] \in Dispatch
    /\ terminal \in BOOLEAN
    /\ remoteHead \in [Repositories -> Nat]
    /\ inScope \subseteq Nodes
    /\ changed \subseteq Nodes
    /\ outside \in BOOLEAN
    /\ pc \in {"down", "loop", "wave", "recording", "await", "observing",
               "settling", "done"}
    /\ UNION {running, drained, admit, exclude} \subseteq Ids
    /\ {b.node : b \in wave} \subseteq Nodes
    /\ current \in Ids \cup {0}
    /\ fatal \in BOOLEAN
    /\ scopeMoves \in 0 .. MaxScope
    /\ faults \in 0 .. MaxFaults

(* What the process remembers agrees with what the ledgers record: it waits*)
(* for every unsettled dispatch, so that none is forgotten with its slot   *)
(* taken, and what it is about to settle is unsettled, so that none is     *)
(* settled twice.  Across crashes this is what recoverRunning is for.      *)
MemoryAgrees ==
    /\ pc \notin {"down", "recording", "done"} => Unsettled \subseteq running
    /\ pc \in {"loop", "wave", "await", "observing"} =>
           running \subseteq Unsettled
    /\ drained \cup admit \cup exclude \subseteq Unsettled

(* The node ledger is a chain: no two results were admitted on the same    *)
(* head of the same incarnation of a node, whatever crashed in between, and*)
(* an admitted result lies below the present head of its incarnation.      *)
LinearHistory ==
    \A i \in Ids : dispatches[i].event =>
        /\ dispatches[i].epoch = nodes[dispatches[i].node].epoch =>
               dispatches[i].head < nodes[dispatches[i].node].head
        /\ \A j \in Ids :
               /\ dispatches[j].event
               /\ dispatches[j].node = dispatches[i].node
               /\ dispatches[j].epoch = dispatches[i].epoch
               /\ dispatches[j].head = dispatches[i].head
               => i = j

(* The nodes that still have work agree on the base of their repository,   *)
(* which is what lets one observation serve a whole wave.                  *)
BaseAgreement ==
    \A n \in Nodes : IsActive(n) /\ nodes[n].stage # Final =>
        nodes[n].base = repositoryBases[RepositoryOf[n]]

(* A result is dropped only for a reason of its own: it is malformed, its  *)
(* repository moved, the scope was read again, or its node was given a new *)
(* incarnation.  The progress of its peers never invalidates it.           *)
ExcludedForCause ==
    \A i \in Ids : dispatches[i].outcome = "excluded" =>
        \/ dispatches[i].actor = "malformed"
        \/ dispatches[i].base # HeadOf(dispatches[i].node)
        \/ dispatches[i].selector # selector
        \/ dispatches[i].epoch # nodes[dispatches[i].node].epoch

(* A run ends with nothing in flight: the process would otherwise fail with*)
(* dispatcher-terminal-with-active-dispatch.                               *)
EndsQuiescent ==
    terminal => Unsettled = {} /\ AllClosed

(* A dispatch is a lease of its node (DispatchLease.tla).                  *)
LeaseOf(d) == [node |-> d.node, admitted |-> d.event,
               state |-> IF d.outcome = "none" THEN "active" ELSE d.outcome]
Leases == [i \in Ids |-> LeaseOf(dispatches[i])]

Lease == INSTANCE DispatchLease WITH leases <- Leases
LeaseSpec == Lease!Spec

(* Within an incarnation a node only goes forward, and incarnations follow *)
(* one another: an event of an old one never touches the new.              *)
ForwardOnly ==
    [][\A n \in Nodes :
        \/ nodes'[n].epoch = nodes[n].epoch
           /\ nodes'[n].stage >= nodes[n].stage
           /\ nodes'[n].head >= nodes[n].head
        \/ nodes'[n].epoch = nodes[n].epoch + 1]_vars

(* The run ends. *)
RunEnds == <>terminal

(* What the documentation says of an excluded result: it did not change    *)
(* its node.                                                               *)
ExcludedChangesNothing ==
    \A i \in Ids : dispatches[i].outcome = "excluded" => ~dispatches[i].event

(* What the documentation says of a stale result: it does not keep a valid  *)
(* one from being recorded.  A process that is not killed leaves the        *)
(* observation of drained results alive when one of them is valid.          *)
StaleNeverBlocks ==
    [][pc = "observing" /\ pc' = "down" /\ faults' = faults
           => \A i \in Observed : ~IsFresh(dispatches[i])]_vars

(* What the documentation says of a delivered group: its issues are closed.*)
DeliveredCloses ==
    \A n \in Nodes : n \in delivered ~> nodes[n].stage = Final

=============================================================================
