------------------------------- MODULE Frontier -------------------------------
(***************************************************************************)
(* The ready frontier (frontier-compiler.mjs), the batch chosen from it    *)
(* and the leases of its dispatches (dispatch-batch-selector.mjs).         *)
(*                                                                         *)
(* The scheduler compiles a frontier, selects a batch, has both computed   *)
(* again, takes the lease of every task and starts its attempt.  Nodes,    *)
(* candidates and remote facts change meanwhile; an attempt may be lost,   *)
(* or be declared terminal while its process still runs.  Who calls these  *)
(* functions is outside the sources: the scheduler follows                 *)
(* docs/development/issue-orchestration-scope.md, lines 186 to 196.        *)
(***************************************************************************)
EXTENDS Naturals, Sequences, FiniteSets, SequencesExt

CONSTANTS
    FrontierWork,       \* the graphs considered: node number -> its facts
    FirstPassed,        \* how many stages a node may have passed at first
    PlanSlices,         \* slices of an implementation plan
    DispatchIds,        \* bound: dispatches at a time, numbered
    MaxDrifts           \* bound: moves of the base and of the selector

\* A graph has finitely many nodes, and its ranks are compared as numbers.
ASSUME GraphAssumption ==
    \A w \in FrontierWork :
        /\ DOMAIN w \subseteq Nat /\ IsFiniteSet(DOMAIN w)
        /\ \A n \in DOMAIN w :
              w[n].priority \in Nat /\ w[n].unlocks \in Nat /\ w[n].age \in Nat

ASSUME DispatchIdsAssumption == IsFiniteSet(DispatchIds)

VARIABLES
    work,               \* the graph: what the DAG says of its nodes
    members,            \* node -> its state in the runtime
    facts,              \* base, selector receipt and freshness of the remote
    round,              \* the frontier and batch of the scheduler
    dispatches          \* the dispatches with a process, a record or a lease

frontierVars == <<work, members, facts, round, dispatches>>

-----------------------------------------------------------------------------
(* Stages. *)

StageOrder ==
    <<"test-contract", "implementation", "behavior-verification",
      "ux-acceptance", "documentation", "delivery", "cleanup">>

ChainOf(n) ==
    IF work[n].ui THEN StageOrder
    ELSE SelectSeq(StageOrder, LAMBDA s : s # "ux-acceptance")

\* landingConflictFor, stageFor: "none" when every receipt is there.
StageFor(n) ==
    IF members[n].conflict THEN "landing-conflict-resolution"
    ELSE IF members[n].passed < Len(ChainOf(n))
         THEN ChainOf(n)[members[n].passed + 1] ELSE "none"

ClassOf(stage) ==
    CASE stage \in {"behavior-verification", "ux-acceptance"} -> "observe-only"
      [] stage \in {"delivery", "cleanup"} -> "root-control"
      [] OTHER -> "leased-writer"

PlanOf(n, stage) == [stage |-> stage, base |-> members[n].base]
SliceCount(stage) == IF stage = "implementation" THEN PlanSlices ELSE 1

NoPlan == [stage |-> "none", base |-> 0]
NoProgress == [plan |-> NoPlan, status |-> "none", done |-> 0]
NoCandidate == [plan |-> NoPlan, slice |-> 0, capable |-> FALSE]
NoDispatch ==
    [node |-> 0, plan |-> NoPlan, recorded |-> FALSE, process |-> FALSE,
     expired |-> FALSE, lease |-> "none"]
NoRound == [step |-> "none", tasks |-> {}, seen |-> <<>>, selected |-> <<>>]

FrontierInit ==
    /\ work \in FrontierWork
    /\ \E passed \in [DOMAIN work -> FirstPassed] :
         members = [n \in DOMAIN work |->
            [passed |-> passed[n], base |-> 1, receipt |-> 1,
             phase |-> IF passed[n] > 0 THEN "dispatch-investigated"
                       ELSE "candidate-ready",
             closed |-> FALSE, conflict |-> FALSE, frozen |-> FALSE,
             terminal |-> FALSE, candidate |-> NoCandidate,
             progress |-> NoProgress]]
    /\ facts = [base |-> 1, receipt |-> 1, fresh |-> TRUE]
    /\ round = NoRound
    /\ dispatches = [i \in DispatchIds |-> NoDispatch]

-----------------------------------------------------------------------------
(* Eligibility. *)

\* writerSequenceBinding: the slice that the plan of a candidate continues with,
\* as <<source, status, slice>>, or the empty sequence.
SequenceBinding(n) ==
    LET c == members[n].candidate
        p == members[n].progress
        earlierStageDone == p.status = "completed" /\ p.plan.stage # c.plan.stage
    IN  IF p.plan # c.plan
        THEN IF (p = NoProgress \/ earlierStageDone) /\ c.slice = 0
             THEN <<"initial-stage-plan", "none", 0>> ELSE <<>>
        ELSE IF p.status \in {"next-slice", "retry-authorized"} /\ p.done = c.slice
             THEN <<"semantic-runtime-projection", p.status, c.slice>> ELSE <<>>

\* writerSliceBindingValid, landingConflictBindingValid: the candidate was compiled
\* for this stage and base; the resolution of a conflict names both.
SliceBindingValid(n) ==
    ClassOf(StageFor(n)) = "leased-writer" =>
        /\ members[n].candidate.plan = PlanOf(n, StageFor(n))
        /\ SequenceBinding(n) # <<>>

CandidateValid(n) ==
    /\ members[n].candidate.plan.stage = StageFor(n)
    /\ members[n].candidate.capable

DependencySatisfied(m) == members[m].closed

ActiveLeases == {i \in DispatchIds : dispatches[i].lease = "active"}

\* computeNodeEligibility: there is no reason against the node.
Eligible(n) ==
    LET m == members[n] stage == StageFor(n) IN
    /\ stage # "none"
    /\ \A d \in work[n].after : DependencySatisfied(d)
    /\ \/ m.phase = "dispatch-investigated"
       \/ stage = "test-contract" /\ m.phase = "candidate-ready"
    /\ m.base = facts.base
    /\ m.receipt = facts.receipt
    /\ ~ \E i \in DispatchIds :
           /\ dispatches[i].node = n /\ dispatches[i].recorded
           /\ dispatches[i].plan.stage = stage
    /\ ~m.terminal
    /\ SliceBindingValid(n)
    /\ CandidateValid(n)
    /\ ~m.frozen
    /\ ~ \E i \in ActiveLeases : dispatches[i].node = n
    /\ facts.fresh

\* validateInvestigationProjection: every layer of every node is bound to the
\* selector receipt, or nothing is compiled.
InvestigationCurrent == \A n \in DOMAIN members : members[n].receipt = facts.receipt

\* compileReadyFrontier: the ready nodes with stage, plan and slice.
ReadyFrontier ==
    {[node |-> n, plan |-> PlanOf(n, StageFor(n)),
      slice |-> IF ClassOf(StageFor(n)) = "leased-writer"
                THEN SequenceBinding(n) ELSE <<>>] :
       n \in {k \in DOMAIN members : Eligible(k)}}

RuntimeInputs == <<members, facts, dispatches>>

-----------------------------------------------------------------------------
(* The batch. *)

Class(t) == ClassOf(t.plan.stage)
Writes(t) == Class(t) # "observe-only"

\* validateTask: an observe-only task asks for no write.
ConflictKeys(t) == IF Writes(t) THEN work[t.node].conflicts ELSE {}
ResourceKeys(t) == work[t.node].resources
WorktreeKeys(t) == IF Writes(t) THEN {work[t.node].worktree} ELSE {}
LeaseKeys(t) == ConflictKeys(t) \cup ResourceKeys(t) \cup WorktreeKeys(t)

\* The lease keys that a selection takes for the worktree of the task: the one it
\* derives from the issue, and every worktree key with the name of the worktree in
\* it, letters and digits only.  'issue-26' is also found in the key of 'issue-267',
\* and a key made from another name than the two is not found.
AlikeKeys(t) == IF Writes(t) THEN work[t.node].alike ELSE {}

\* compareTasks
StarvedAge == 2
RanksBefore(t, u) ==
    LET a == work[t.node] b == work[u.node]
        starved == a.age # b.age /\ (a.age >= StarvedAge \/ b.age >= StarvedAge)
    IN  \/ a.priority < b.priority
        \/ /\ a.priority = b.priority
           /\ IF starved THEN a.age > b.age
              ELSE IF a.unlocks # b.unlocks THEN a.unlocks > b.unlocks
              ELSE IF a.age # b.age THEN a.age > b.age
              ELSE t.node < u.node

ConflictWithSelected(t, selected) ==
    \E u \in ToSet(selected) :
        \/ ConflictKeys(t) \cap ConflictKeys(u) # {}
        \/ WorktreeKeys(t) \cap WorktreeKeys(u) # {}
        \/ ResourceKeys(t) \cap ResourceKeys(u) # {}

LeaseConflict(t) ==
    \E i \in ActiveLeases :
        (ConflictKeys(t) \cup ResourceKeys(t) \cup AlikeKeys(t))
            \cap LeaseKeys(dispatches[i]) # {}

\* The tasks in the order of compareTasks.
TaskOrder(tasks) ==
    CHOOSE order \in [1..Cardinality(tasks) -> tasks] :
        /\ ToSet(order) = tasks
        /\ \A i, j \in 1..Cardinality(tasks) :
              i < j => RanksBefore(order[i], order[j])

\* What the next task makes of the batch.
WithNext(selected, t, slots) ==
    IF ~LeaseConflict(t) /\ ~ConflictWithSelected(t, selected) /\
       Len(selected) < slots
    THEN Append(selected, t) ELSE selected

\* createBatch, over the tasks in their order.
CreateBatch(tasks, slots) ==
    LET order == TaskOrder(tasks)
        chosen[k \in 0..Cardinality(tasks)] ==
            IF k = 0 THEN <<>> ELSE WithNext(chosen[k - 1], order[k], slots)
    IN  chosen[Cardinality(tasks)]

AvailableSlots ==
    Cardinality(DispatchIds) - Cardinality({i \in DispatchIds : dispatches[i].recorded})

CompileFrontier ==
    /\ round.step = "none"
    /\ InvestigationCurrent
    /\ round' = [NoRound EXCEPT !.step = "compiled", !.tasks = ReadyFrontier,
                                !.seen = RuntimeInputs]
    /\ UNCHANGED <<work, members, facts, dispatches>>

\* A task as the checks tell it apart, beside what the frontier says of it: names,
\* role and class that fit its stage, a plan, slice and prompt that were verified
\* and belong together, the sequence they continue, the resolution of a conflict,
\* and the evidence for its keys.
TaskForms ==
    [identity : BOOLEAN, compiled : BOOLEAN, sequence : BOOLEAN,
     resolution : BOOLEAN, ready : BOOLEAN, evidence : BOOLEAN]

IdentityValid(f) == f.identity
SliceValid(t, f) ==
    Class(t) = "leased-writer" => f.compiled /\ f.sequence /\ t.slice # <<>>
SequenceValid(t) ==
    Class(t) = "leased-writer" =>
        \/ t.slice[1] = "initial-stage-plan" /\ t.slice[3] = 0
        \/ /\ t.slice[1] = "semantic-runtime-projection"
           /\ t.slice[2] \in {"next-slice", "retry-authorized"}
ResolutionValid(t, f) ==
    t.plan.stage = "landing-conflict-resolution" => f.resolution
Dispatchable(f) == f.ready /\ f.evidence

TaskValid(t, f) ==
    /\ IdentityValid(f) /\ SliceValid(t, f) /\ SequenceValid(t)
    /\ ResolutionValid(t, f) /\ Dispatchable(f)

\* validateAcceptanceGroupProposal: a group is proposed of tasks of the frontier.
ProposalForms ==
    [members : SUBSET DOMAIN work, active : BOOLEAN, surface : BOOLEAN,
     hidden : BOOLEAN, commits : BOOLEAN, epochs : 1..2, estimates : BOOLEAN,
     ordered : BOOLEAN]

ProposalValid(p) ==
    /\ p.active /\ p.surface /\ ~p.hidden
    /\ Cardinality(p.members) >= 2 /\ p.members \subseteq {t.node : t \in round.tasks}
    /\ p.commits /\ p.epochs = 1 /\ p.estimates /\ p.ordered

\* validateDispatchInput: no two active leases have a key in common.
LeasesDistinct ==
    \A i, j \in ActiveLeases :
        i # j => LeaseKeys(dispatches[i]) \cap LeaseKeys(dispatches[j]) = {}

\* validateDispatchFrontierBinding: the tasks are those of the frontier, each of
\* them once and with the plan and slice it has there.
Proposed ==
    {round.tasks} \cup {round.tasks \ {t} : t \in round.tasks}
      \cup {(round.tasks \ {t}) \cup {[t EXCEPT !.plan.base = @ + 1]} : t \in round.tasks}

TasksBound(tasks) == tasks = round.tasks

SelectBatch ==
    /\ round.step = "compiled"
    /\ \E tasks \in Proposed :
       \E tasksValid \in {\A t \in tasks : TaskValid(t, f) : f \in TaskForms},
          groupsValid \in {TRUE} \cup {ProposalValid(p) : p \in ProposalForms} :
         round' = IF tasksValid /\ groupsValid /\ LeasesDistinct /\ TasksBound(tasks)
                  THEN [round EXCEPT !.step = "selected",
                                     !.selected = CreateBatch(tasks, AvailableSlots)]
                  ELSE NoRound
    /\ UNCHANGED <<work, members, facts, dispatches>>

\* validateReadyFrontier and validateDispatchBatch compute both again, from the
\* runtime as it is now; the frontier is that of the same inputs, or refused.
FrontierCurrent == round.seen = RuntimeInputs /\ round.tasks = ReadyFrontier

BatchCurrent ==
    /\ Len(round.selected) <= AvailableSlots
    /\ round.selected = CreateBatch(round.tasks, AvailableSlots)

AdmitBatch ==
    /\ round.step = "selected"
    /\ round' = IF FrontierCurrent /\ BatchCurrent /\ round.selected # <<>>
                THEN [round EXCEPT !.step = "admitted", !.tasks = {}, !.seen = <<>>]
                ELSE NoRound
    /\ UNCHANGED <<work, members, facts, dispatches>>

-----------------------------------------------------------------------------
(* Leases and attempts. *)

\* acquireDispatchLease: an active lease on one of the keys is in the way, whatever
\* its kind and also an expired one.  A task without keys has no lease: validateLease
\* refuses it.
LeaseHeld(t) == \E i \in ActiveLeases : LeaseKeys(t) \cap LeaseKeys(dispatches[i]) # {}
MayAcquire(t) == LeaseKeys(t) = {} \/ ~LeaseHeld(t)

FreeIds == {i \in DispatchIds : dispatches[i] = NoDispatch}
NextId == CHOOSE i \in FreeIds : \A j \in FreeIds : i <= j

StartDispatch ==
    /\ round.step = "admitted" /\ FreeIds # {}
    /\ LET t == Head(round.selected) IN
         /\ MayAcquire(t)
         /\ dispatches' = [dispatches EXCEPT ![NextId] =
              [node |-> t.node, plan |-> t.plan, recorded |-> TRUE,
               process |-> TRUE, expired |-> FALSE,
               lease |-> IF LeaseKeys(t) = {} THEN "none" ELSE "active"]]
         /\ members' = IF Class(t) # "leased-writer" THEN members
                       ELSE [members EXCEPT ![t.node].progress =
                         [plan |-> t.plan, status |-> "active", done |-> t.slice[3]]]
    /\ round' = IF Len(round.selected) = 1 THEN NoRound
                ELSE [round EXCEPT !.selected = Tail(@)]
    /\ UNCHANGED <<work, facts>>

\* A refused lease ends the round.
LeaseRefused ==
    /\ round.step = "admitted" /\ FreeIds # {}
    /\ ~MayAcquire(Head(round.selected))
    /\ round' = NoRound
    /\ UNCHANGED <<work, members, facts, dispatches>>

\* What the result of an attempt makes of its node.
NodePassed(m, plan) ==
    LET last == m.progress.done + 1 = SliceCount(plan.stage) IN
    CASE plan.stage = "landing-conflict-resolution" ->
           [m EXCEPT !.conflict = FALSE, !.progress.status = "completed"]
      [] ClassOf(plan.stage) # "leased-writer" -> [m EXCEPT !.passed = @ + 1]
      [] OTHER ->
           [m EXCEPT !.passed = IF last THEN @ + 1 ELSE @,
                     !.progress.done = @ + 1,
                     !.progress.status = IF last THEN "completed" ELSE "next-slice"]

NodeFailed(m, plan) ==
    IF ClassOf(plan.stage) = "leased-writer"
    THEN [m EXCEPT !.progress.status = "terminal-failure"]
    ELSE [m EXCEPT !.terminal = TRUE]

\* A delivery that meets a conflict leaves its resolution to a writer.
NodeConflicted(m, plan) ==
    IF plan.stage = "delivery" THEN [m EXCEPT !.conflict = TRUE] ELSE NodeFailed(m, plan)

\* The result of an attempt counts while it is recorded as active and its node is
\* at its plan.
ResultCounts(i) ==
    LET d == dispatches[i] IN
    d.recorded /\ PlanOf(d.node, StageFor(d.node)) = d.plan

\* A dispatch with nothing left is no longer looked at.
Present(d) == IF d.process \/ d.recorded \/ d.lease = "active" THEN d ELSE NoDispatch

\* releaseDispatchLease: only the attempt that holds it releases a lease; whether
\* it is still active is not looked at.
Released(d) == IF d.lease = "none" THEN "none" ELSE "released"

\* An attempt ends and releases its lease, unless it crashes before that.
AttemptEnded(d, releases) ==
    [node |-> d.node, plan |-> d.plan, recorded |-> FALSE, process |-> FALSE,
     expired |-> d.expired, lease |-> IF releases THEN Released(d) ELSE d.lease]

DispatchEnds(i) ==
    /\ dispatches[i].process
    /\ \E releases \in BOOLEAN, outcome \in {"passed", "failed", "conflict"} :
         /\ dispatches' = [dispatches EXCEPT ![i] = Present(AttemptEnded(@, releases))]
         /\ members' = IF ~ResultCounts(i) THEN members
                       ELSE [members EXCEPT ![dispatches[i].node] =
                               CASE outcome = "passed" -> NodePassed(@, dispatches[i].plan)
                                 [] outcome = "failed" -> NodeFailed(@, dispatches[i].plan)
                                 [] OTHER -> NodeConflicted(@, dispatches[i].plan)]
    /\ UNCHANGED <<work, facts, round>>

\* The process of an attempt is gone, and nobody has noticed.
DispatchLost(i) ==
    /\ dispatches[i].process
    /\ dispatches' = [dispatches EXCEPT ![i] = Present([@ EXCEPT !.process = FALSE])]
    /\ UNCHANGED <<work, members, facts, round>>

\* An attempt is declared terminal; its process may still run.
DispatchDeclared(i) ==
    /\ dispatches[i].recorded
    /\ dispatches' = [dispatches EXCEPT ![i] = Present([@ EXCEPT !.recorded = FALSE])]
    /\ members' = IF ~ResultCounts(i) THEN members
                  ELSE [members EXCEPT ![dispatches[i].node] =
                          NodeFailed(@, dispatches[i].plan)]
    /\ UNCHANGED <<work, facts, round>>

LeaseExpires(i) ==
    /\ dispatches[i].lease = "active" /\ ~dispatches[i].expired
    /\ dispatches' = [dispatches EXCEPT ![i].expired = TRUE]
    /\ UNCHANGED <<work, members, facts, round>>

\* recoverExpiredDispatchLease: on evidence that the attempt is terminal and its
\* process absent.
RecoverableByRecord(d) == d.expired /\ ~d.recorded
Recoverable(d) == d.expired /\ ~d.recorded /\ ~d.process

RecoverLease(i) ==
    /\ dispatches[i].lease = "active"
    /\ Recoverable(dispatches[i])
    /\ dispatches' = [dispatches EXCEPT ![i] = Present([@ EXCEPT !.lease = "recovered"])]
    /\ UNCHANGED <<work, members, facts, round>>

-----------------------------------------------------------------------------
(* What happens beside the scheduler. *)

\* A candidate is compiled for the stage and the slice its node is at.
PrepareCandidate(n) ==
    LET stage == StageFor(n) plan == PlanOf(n, stage) p == members[n].progress IN
    /\ stage # "none"
    /\ members' = [members EXCEPT ![n].candidate =
         [plan |-> plan, slice |-> IF p.plan = plan THEN p.done ELSE 0,
          capable |-> TRUE]]
    /\ UNCHANGED <<work, facts, round, dispatches>>

\* The base or the selected issues change; later the graph follows.
FactsDrift ==
    /\ facts.base + facts.receipt < 2 + MaxDrifts
    /\ \/ facts' = [facts EXCEPT !.base = @ + 1]
       \/ facts' = [facts EXCEPT !.receipt = @ + 1]
    /\ UNCHANGED <<work, members, round, dispatches>>

RemoteFactsAge ==
    /\ facts' = [facts EXCEPT !.fresh = ~@]
    /\ UNCHANGED <<work, members, round, dispatches>>

\* The graph is bound to the base and the receipt of now, in a new epoch when the
\* base has moved.
GraphRebound(n) ==
    /\ members[n].base # facts.base \/ members[n].receipt # facts.receipt
    /\ members' = [members EXCEPT
         ![n].progress = IF members[n].base = facts.base THEN @ ELSE NoProgress,
         ![n].base = facts.base, ![n].receipt = facts.receipt]
    /\ UNCHANGED <<work, facts, round, dispatches>>

NodeChanges(n) ==
    /\ \/ /\ members[n].passed > 0 /\ members[n].phase = "candidate-ready"
          /\ members' = [members EXCEPT ![n].phase = "dispatch-investigated"]
       \/ members' = [members EXCEPT ![n].frozen = ~@]
       \/ /\ members[n].terminal
          /\ members' = [members EXCEPT ![n].terminal = FALSE]
       \/ /\ members[n].progress.status = "terminal-failure"
          /\ members' = [members EXCEPT ![n].progress.status = "retry-authorized"]
       \/ /\ members[n].passed = Len(ChainOf(n))
          /\ members' = [members EXCEPT ![n].closed = ~@]
    /\ UNCHANGED <<work, facts, round, dispatches>>

FrontierNext ==
    \/ CompileFrontier \/ SelectBatch \/ AdmitBatch \/ StartDispatch \/ LeaseRefused
    \/ FactsDrift \/ RemoteFactsAge
    \/ \E i \in DispatchIds :
         \/ DispatchEnds(i) \/ DispatchLost(i) \/ DispatchDeclared(i)
         \/ LeaseExpires(i) \/ RecoverLease(i)
    \/ \E n \in DOMAIN members :
         PrepareCandidate(n) \/ GraphRebound(n) \/ NodeChanges(n)

FrontierSpec == FrontierInit /\ [][FrontierNext]_frontierVars

-----------------------------------------------------------------------------
(* Properties. *)

\* Two attempts that run share no conflict key, worktree or resource: over rounds
\* on frontiers that were stale, leases that expired and attempts that were
\* declared terminal while they still ran.
RunningApart ==
    \A i, j \in DispatchIds :
        i # j /\ dispatches[i].process /\ dispatches[j].process =>
            LeaseKeys(dispatches[i]) \cap LeaseKeys(dispatches[j]) = {}

\* The keys that two tasks share as keys of one kind; a worktree the selection has to
\* find in the lease.
SharedByKind(t, u) ==
    (ConflictKeys(t) \cap ConflictKeys(u)) \cup (ResourceKeys(t) \cap ResourceKeys(u))
      \cup (WorktreeKeys(t) \cap WorktreeKeys(u) \cap AlikeKeys(t))

KeysUnheld(t) == \A i \in ActiveLeases : SharedByKind(t, dispatches[i]) = {}

\* What was admitted together stays free of the active leases until it is started:
\* a lease is refused only for a key that one task has as a key of another kind,
\* or for a worktree whose lease the selection did not find.
AdmittedApart ==
    round.step = "admitted" => \A t \in ToSet(round.selected) : KeysUnheld(t)

\* A task of a current frontier is left out for a lease that the selection takes for
\* one of its own, for a selected task, or for want of a slot, and then no selected
\* task is of a lower priority.
BatchMaximal ==
    round.step = "selected" /\ FrontierCurrent =>
        \A t \in round.tasks \ ToSet(round.selected) :
            \/ LeaseConflict(t)
            \/ ConflictWithSelected(t, round.selected)
            \/ /\ Len(round.selected) >= AvailableSlots
               /\ \A u \in ToSet(round.selected) :
                    work[u.node].priority <= work[t.node].priority

DispatchedApart == RunningApart /\ AdmittedApart /\ BatchMaximal
=============================================================================
