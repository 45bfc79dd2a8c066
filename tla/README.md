# Verification of issue-orchestration

TLA+ models of the orchestration runtime in `skills/issue-orchestration/scripts`,
the TLC runs that check them and the theorems TLAPS proves about them. Paths
below are relative to that directory unless they start with `docs/` or
`references/` (of the skill).

## The system

A run works through the issues a selector resolves (one *node* each). A root
process, the scheduler, takes every decision from two kinds of append-only,
hash-chained ledgers: one *control ledger* per run and one *node ledger* per
incarnation (epoch) of a node. Everything else is a projection of them.

| part | state it keeps | operations | talks to | modelled in |
|---|---|---|---|---|
| control ledger replay (`multi-node-state.mjs`) | registrations, bases, groups, slots, dispatches, freezes, effects | 24 event types; an append is durable only if the extended ledger replays | every recorder | `ControlLedger` |
| aggregate state and replay cache (same file) | files, index, in-memory cache | append, persist, save, recover, quarantine | recorders | `ReplayCache` |
| node ledger (`event-ledger.mjs`, `lifecycle-state-machine.mjs`, `lifecycle-stage-admission.mjs`) | lifecycle state, candidates, receipts, counters | about 75 event types | recorders | `NodeLifecycle`, `IssueLife` |
| recorders (`lifecycle-run-loop.mjs`) | none | dispatch, settlement, scope refresh, base change, delivery, cleanup, closure, takeover, terminalization | ledgers | `Dispatcher` and the modules of what they record |
| transition compiler (`lifecycle-transition-compiler.mjs`) | none | projection to action set | dispatcher | `Dispatcher`, `NodeLifecycle` |
| production dispatcher (`lifecycle-production-dispatcher.mjs`) | `running`, settlement queue | loop, wave, settle, machine batch, root action, recovery | all of the above, actors | `Dispatcher` |
| live refresh (`lifecycle-live-refresh.mjs`, `scope-selector.mjs`) | none | scope refresh, base observation epochs | remote host | `Dispatcher` |
| delivery executor (`lifecycle-delivery-executor.mjs`) | `acquiredHere`, `remoteMutationAttempted` | freeze, push per repository, record, resume | remote host | `DeliveryClosure` |
| cleanup and closure executor (`lifecycle-cleanup-closure-executor.mjs`, `remote-mutation-authority.mjs`) | none | clean, authorize, close, record, confirm | remote host | `DeliveryClosure` |
| quiescence finalizer (`lifecycle-quiescence-finalizer.mjs`, `quiescence*.mjs`) | none | observe, collect, judge, terminalize | recorders, machine | `Quiescence` |
| writer stage (`writer-stage-progress.mjs`, `event-ledger.mjs`) | attempt, slices, completed prefix, breaker | checkpoint, continuation, retry, candidate-green | writers | `WriterStage` |
| writer executor (`lifecycle-writer-executor.mjs`, `writer-runtime-watchdog.mjs`, `stage-runtime-guard.mjs`, `dispatch-receipt.mjs`) | watchdog, snapshots | bind, launch, observe, judge | actors, Git | `WriterExecution` |
| Git cleanup (`git-resource-cleanup.mjs`) | one cleanup state per worktree and branch | preserve, remove, verify, recover | Git | `GitResourceCleanup` |
| attempt resources (`resource-lifecycle.mjs`) | registry | observe, clean, self-test, events | machine | `AttemptResources` |
| landing lane (`repository-landing-lane.mjs`) | one lease per repository, attempts | transplant, conflict, drift, verify, push | delivery | `LandingLane` |
| root takeover (`root-takeover-supervisor.mjs`, `runtime-startup-attestation.mjs`, `lifecycle-genesis-authority.mjs`) | authorizations, handoffs | authorize, fence, hand over, attest, record | control ledger | `RootTakeover` |
| frontier and batch (`frontier-compiler.mjs`, `dispatch-batch-selector.mjs`) | dispatch leases | compile, select, validate again, lease, release, recover | scheduler | `Frontier` |
| group sessions (`acceptance-group-session.mjs`) | session of a group | activate, write, bind receipts, commit, freeze | landing lane | `GroupSession` |
| slices, routes, prompts, receipts | none | pure compilers and validators | dispatcher | - |
| package build and install (`scripts/`) | installed files | copy, verify | - | - |

What is hard here: a crash between two appends; results that come back after
the base, the scope or the incarnation they were produced on has changed; the
await between draining results and recording them; pushes and closes that a
ledger learns of only after they were made; several repositories in one
delivery; writers that outlive their attempt, their lease or their root; a cache
or an inventory that is older than what it is used for. `PROJECT.json` lists each
such hazard at its line, with the properties that cover it or the reason why none
does.

What makes each part correct:

- control ledger: exclusive dispatches and slots, distinct effects, ordered incarnations;
- dispatcher: no result lost or applied twice, and none dropped without a cause of its own;
- delivery and closure: no push twice, no freeze released over a half pushed
  group, no issue closed early, and recovery from every resume point;
- node ledger and writer stage: what is delivered was verified as it is, accepted
  work is neither lost nor done twice, a failed stage stays stopped;
- writer execution: no result is accepted over what others recorded meanwhile;
- cleanup: nothing that was not merged is lost, nothing is given up while it exists;
- landing lane and group session: the whole group, in its order, and each member once
  if callers tell what the branch has;
- takeover: one root records at a time; replay cache: answers are replays;
- frontier: attempts that run share nothing; quiescence: a run ends when it is over.

## Modules

| module | models |
|---|---|
| `ControlLedger` | `replayControlLedger`: one action per event type, guard and effect as in its case |
| `DispatchLease` | abstract: a node is leased to one dispatch at a time, a lease is admitted at most once and released once |
| `Dispatcher` | the dispatcher's loop with its recorders, refresh, base observation, actors and crashes; implements `DispatchLease` |
| `GroupDelivery` | abstract: groups land once, in their order; then each issue is cleaned up, closed and settled once |
| `DeliveryClosure` | delivery of acceptance groups and closure of issues, step by step, with interruptions; implements `GroupDelivery` |
| `IssueLife` | abstract: a candidate is delivered only under a standing verification of it, a rejection sends it back, a base move starts over |
| `NodeLifecycle` | the life of one issue through compiler, actors, admission and ledger; implements `IssueLife` |
| `WriterStage` | attempts, slices, checkpoints, failures and retries of the writer stages of a node |
| `WriterExecution` | writers that run beside each other, with watchdog, guard, lease and settlement |
| `GitResourceCleanup`, `AttemptResources` | cleanup of worktrees and branches; of processes, port, lock, lease, directory |
| `LandingQueue` | abstract: one push brings what is missing of a group to the default branch, in its order, or none of it |
| `LandingLane`, `GroupSession` | moving the commits of a group to the default branch (implements `LandingQueue`); making them |
| `ReplayCache` | files, derived artifacts and cached replays of a run |
| `RootTakeover` | how a run gets a new root |
| `Frontier` | frontier, batch, leases and attempts of a graph |
| `Quiescence` | the end of a run |
| `ControlLedger_proofs`, `Dispatcher_proofs`, `DeliveryClosure_proofs`, `NodeLifecycle_proofs` | theorems about one module each |
| `Landing_proofs` | theorems about `LandingLane` and `GroupSession` |
| `RunLedger_proofs` | theorems about `RootTakeover` and `ReplayCache` |
| `Writers_proofs` | theorems about `Frontier`, `WriterExecution` and `WriterStage` |
| `Cleanup_proofs` | theorems about `GitResourceCleanup`, `AttemptResources` and `Quiescence` |
| `MCControlLedger`, `MCDispatcher`, `MCDeliveryClosure`, `MCNodeLifecycle`, `MCComponents` | the instances TLC checks |

Digests, signatures and sealed envelopes are abstracted everywhere to the values
they cover; a guard that compares digests compares those values.

### ControlLedger

The state is the run-control projection, field by field (`nodes`, `slots`,
`activeDispatches`, ...); maps are functions with `NoValue` where the code has no
key. An event that does not replay is never appended, so its action is disabled.
A registration carries the authority binding by value. `Spec` is every ledger
that replays, which is more than the recorders write: they never append
`dependency.updated`, `acceptance-group.updated`, `node.tombstoned` or a delivery
effect with another status (`ReservedNext`), and append `slots.updated` only for
a new run. Events after `run.terminalized` are accepted, by the code and here.

### Dispatcher

Durable state: `nodes` with epoch, base, stage and length of the node ledger
(`head`), repository bases, number of the selector receipt, dispatch records.
Volatile state: `pc`, `running`, `wave` and the batch being settled. The remote
moves by itself. A step is one append or one await-free stretch of code, so that
a crash can come between the node event of a result (`AdmitResult`) and its
settlement (`SettleResult`), between two records of a wave (`RecordStarted`), and
between draining results (`Drain`) and observing their bases (`ObserveDrained`).

Abstracted: a lifecycle is a sequence of stages, each owned by actors, by a
machine action or by the root; every node delivers by itself and nothing depends
on anything (`blockedBy`, `dispatchable` and multi-member groups); a delivery or
cleanup is one step; telemetry and the limit of 10 000 transitions are left out.
When several root actions are offered the model takes any of them, the code the
first. `compile-acceptance-contract` is the only machine action, so the machine
batch is the only machine branch. A recovered dispatch whose actor never started,
or had been rejected, is run again by the provider.

`Dispatcher` implements `DispatchLease` (property `LeaseSpec`, with the
refinement mapping in `Lease`): three actions say what crashes, recovery and
settlement together promise.

### DeliveryClosure

Each push, close and append is a step; `pc` names the next one. `log` is a default
branch as the sequence of who pushed to it, `freezes`, `pending`, `authorized`,
`observed` and `closures` are the maps of the control projection. An execution
ends in `Throw` (an adapter failed or a check rejected: the catch block may
release the freeze) or is killed (`Forget`: nothing is released). `strayed` is a
history variable: it becomes true when something happened that the recovery is
not written for, namely an interruption outside the resume points, a takeover,
an expired authorization or a change made by somebody else.

The executors are driven directly, as in their tests; the base observation the
dispatcher makes in front of them is in `Dispatcher`. A landed candidate is one
value. Assumed of the outside: the host accepts fast-forward pushes only, issues
do not reopen by themselves, and an adapter repeats `observedAt` for an unchanged
remote (a snapshot digest covers it).

`GroupDelivery` is what is left when executions, freezes, snapshots, authorizations
and faults are taken away: the branches, an effect per group (`Effects`: none,
recorded, delivered) and how far an issue is (`Lives`: ready, landed, retired,
closed, settled, read off `stage`, `finalized` and `closures`). The mapping is
`Delivery`. An execution that starts, throws, is killed or resumed is a stutter, so
the refinement says that no interruption repeats or reorders what counts. What other
people do to the remote are steps of it, too.

### NodeLifecycle and IssueLife

`ledger` is the node ledger of the current incarnation, as the stage contracts of
its events; `receipts` keeps each receipt by its provenance (the candidate an
evidence is about, the adjudication an acceptance is about), `dispatch` the action
that is out with its result. An action is offered from the state
(`StateAction`), executed by an actor or the root, judged by the admission
(`Admits`), and settled as an event that must replay. A base move carries the
node forward (`Carried`) and starts a new ledger. Results are whatever actors may
return, also about candidates that are not the current one. The abstract
`IssueLife` keeps four variables: `phase`, `candidate`,
`verified`, `landed`; the refinement mapping is `Life`.

### WriterStage and WriterExecution

`WriterStage` is what the ledger and the gates of `writer-stage-progress.mjs` make
of a writer's reports: an attempt works through the slices of its plan, each
completed slice extends the completed prefix, a failure opens the breaker, a retry
is authorized for a fresh attempt whose plan carries the prefix. Writers outlive
their attempts and report late.

`WriterExecution` is what happens around one dispatch: authority and runtime
binding, the dispatch receipt, the snapshot of the stage guard, a trace of runtime
events under the watchdog, the return of the actor, the second snapshot, the
verdict and the settlement. Writers of a wave share refs and state root, so that
what another writer or the dispatcher leaves there between the two snapshots counts
against a writer. A snapshot is a copy of the contents (`repositoryRefs`: the commit
of the branch of each worktree and of one ref of none; `controlState`), as the code
digests them: what is moved and put back is not seen. Moved refs are excused for
every leased writer whose HEAD is `candidateIdentity`, the candidate its node has on
record, whatever the stage; that receipt outlives a rejection, so an implementation
may have one, too (`CandidateIdentities`), and may start anywhere above or on the base
(`Heads`). Two things are assumed of the outside: a writer moves the branch of its own
worktree only (Git refuses to move one that is checked out in another), and nobody
takes events back from a ledger. `terminalArtifacts` calls `evaluateSliceTerminalGate` without
`nextSlice`: the executor rejects every plan of more than one slice, which is why
slices are in `WriterStage` and an execution has one.

### GitResourceCleanup, AttemptResources

Each Git function has an effect on the repository and a state it returns, which the
caller saves; an interruption loses the second, and so does a check that fails
after the effect. Cleanups of several resources share the repository with writers
and landings. `AttemptResources` separates what exists (`real`, `holder`) from the
registry; the events of `applyResourceEvent` change only the registry.

### LandingLane, GroupSession

An attempt of the lane is a value its caller may lose and create again while it
holds the lease; the remote branch is the sequence of who pushed what; other people
push, and land members by hand. The lane never reads the branch: what a caller reports
of a member is believed, `already-applied-equivalent` on a hash, and
`recordCommitTransplant` does not look whether the base has the commit. The model has
no guard on it either (`TransplantCommit`, `RecordAlreadyApplied`); `Misreported` are
the members of an attempt whose report its base contradicts. `LandingQueue` is what
remains of the lane without attempts, leases, slices and evidence: the branch, whether
an attempt knows that it landed, and what was misreported to each (`Queue`). The push
itself is made by the caller, as the fast-forward `finalizeLanding` then asks evidence
of. A session activates one member after the other
under one write lease; receipts are kept by the candidate they were given for.

### ReplayCache, RootTakeover

A ledger is its number of events and an artifact the heads it was derived from,
because a head digest identifies the events before it. Files may be torn, edited,
extended by another writer, or lose the newline of their last line; edits in the middle
of a ledger are not modelled. A root is its
invocation, session and epoch; the supervisor's functions are pure, so that it may
lose what they return and authorize again, and a takeover reads the ledger and
writes it anew with other processes between. That a fenced root writes nothing is what
the supervisor asserts of it, and the recorders do not check it; the model follows the
supervisor.

### Frontier

`work` is the DAG (keys, worktrees, resources, priorities, dependencies), `members`
the state of its nodes, `facts` the base, the selector receipt and the freshness of
remote facts, `round` what the scheduler holds between two calls, `dispatches` the
attempts with their process, their record and their lease. Nobody in the sources
calls the compiler, the selector and the leases together:
`check-dag-gate.mjs` only validates a recorded frontier, and the tests are the
callers of the rest. The scheduler's order (compile, select, compute both again,
lease, start) is that of `docs/development/issue-orchestration-scope.md`, lines 186
to 196, and its actions are marked external. `validateDispatchInput` also refuses
two active leases of one `ownerId`; owners are not modelled.

Keys are compared in two ways, and the model has both. `acquireDispatchLease` compares
all the keys of a lease with each other (`LeaseHeld`). The selector compares keys of one
kind within a batch (`ConflictWithSelected`); in an active lease it looks for the keys
of the task and, for its worktree, for a key derived from the issue or one that contains
the name of the worktree, letters and digits only (`LeaseConflict`). `alike` is the set
of keys so found: it may be too large (`issue-26` is found in `issue-267`, and the task
waits) or lack the key the worktree really has (the lease is then refused when it is
acquired, `LeaseRefused`, like that of a task with a key another has as a key of another
kind). `validateTask` asks for evidence of keys and not for their form, so the model
assumes nothing of them.

### Quiescence

The finalizer projects the run, waits for an observer and the machine, judges the
inventory and ends the run with what it projected before; only
`recordLifecycleRunTerminalization` compiles again. Meanwhile a root that took over
works on the nodes, people reopen issues, the checkout and processes change. The
collector never judges ports, containers or locks. The digest of the control event
in front of the terminalization is compared with itself, so that only the second
compilation detects a change. Two places end a run late rather than wrongly: a
terminal node with retained resources, and a closed node whose
`closure.effect-completed` was lost, are never quiescent.

### MCComponents

The parts beside the run loop share no state, so that one instance holds them all:
`part` names the one a behaviour is about, the variables of the others stay as they
are at first, and the state space is the sum of theirs. `Parts` selects parts.

## Runs

| run | asks | instance | distinct states |
|---|---|---|---|
| `control_ledger` | types, references, exclusive dispatches, slots, effects, closures, incarnations | 2 nodes, 2 of everything an event family needs, one family at a time | 114 349 |
| `dispatch_safety` | agreement, linear history, lease refinement | 2 nodes, 2 slots, 3 dispatches, 2 base moves, 2 scope changes, 1 fault | 1 258 128 (symmetry) |
| `dispatch_progress` | the run ends, with nothing in flight | 2 nodes, 1 slot, 8 dispatches, 1 scope change, 1 fault | 233 751 |
| `delivery_recovery` | pushes and closes under interruption; implements `GroupDelivery`; recovers | groups of 2 and 1 nodes in 3 repositories, 2 faults, 1 takeover, 1 foreign change | 138 427 |
| `node_lifecycle` | evidence, counters, the life of an issue, that it ends | 1 node, 2 failures, 3 classes, 3 faults, 1 base move | 89 429 |
| `components` | the parts beside the run loop, one property or more each | below | 1 523 745 |
| `dispatch_excluded`, `dispatch_conflict`, `dispatch_delivers`, `delivery_interrupted`, `node_rejection`, `group_evidence` | sentences of the documentation the code contradicts | the smallest instance with the case | violations |

Why the bounds are enough. The event families of the control ledger touch
disjoint parts of the projection, so the run takes one family at a time and two
of each thing suffice for every conflict between two of a kind, two epochs for a
node removed and reopened. In `dispatch_safety` two base moves and three
dispatches let results of two bases meet in one batch, and one fault is a crash or
a failed actor at any step. In `delivery_recovery` a group with two repositories
has a point between two pushes, the second group shows the order of groups, and two
faults interrupt the recovery of an interruption. In `node_lifecycle` three faults
give a rejection, a retry and a crash in one life, before or after a base move.

The parts of `components`, with the properties that belong to them:

| part | properties | instance and bound |
|---|---|---|
| writer | `PrefixIsOrdered`, `CandidateIsComplete`, `WorkIsKept`, `BreakerHolds` | 3 attempts, 2 versions, 2 slices, 1 checkpoint; `WriterBound`: attempts are interchangeable and come in one order |
| execution | `ResultsStand` | 2 writers, all three kinds of stage, with and without a candidate on record, 2 runtime events; `ExecutionBound`: the first may do all a writer can, one thing out of order at a time and none while the second one is going, which keeps to its plan |
| frontier | `DispatchedApart` | 7 graphs of 2 nodes, three of them with worktrees that are mistaken for one another or not found and with keys of two kinds, 2 dispatches, 2 slices, 1 drift; `FrontierBound`: one thing out of order at a time, the second node within its first stage |
| git | `CandidateNotLost`, `LeaseOutlivesResource` | 2 resources, one above the other, 1 edit, 1 landing, 1 takeover; `GitBound`: two cleanups at once only before push and takeover |
| resources | `SlotFreedWhenGone` | 1 attempt, 1 self-test failure |
| lane | `QueueSpec` | 2 members, 2 attempts, 1 foreign push; `LaneBound`: an attempt without the lease is between members or finished, the first member may be misreported to a first attempt, and only that one is interrupted |
| replay | `AnswersAreReplays` | 2 nodes, 3 events, 2 epochs, 2 startups, 1 mishap |
| takeover | `RecordsUnderAuthority` | 3 roots, 2 authorizations, 4 events; `TakeoverBound`: another package beside one authorization only |
| group | `GreenInOrder` | 2 members, 2 candidates each, 3 commits |
| quiescence | `TerminalizesQuiescent` | 2 issues, 2 epochs; `FinalBound`: people and processes disturb a finalization that waits, one at a time |

The bounds are state constraints of `MCComponents`, each named and commented there;
they cut combinations of unrelated disturbances, never a disturbance itself.

`CHECK_DEADLOCK FALSE` is set throughout: a ledger may be complete, a run ends,
and a killed process or a rejected delivery may leave nothing to do within the
bounds.

### Fairness

`Dispatcher!Fairness` and `NodeLifecycle!Fairness` are weak fairness of the process
as a whole (its promises are driven by the event loop and an operator starts it
again) and of the end of each running actor (actors have deadlines).
`DeliveryClosure!FairSpec` is weak fairness of `Execution`: the root executes an
action as long as one is offered. Nothing is assumed of crashes, of the remote or
of other people, and the number of faults is bounded, so progress is claimed once
they stop. `dispatch_progress` has no base moves and no issue that leaves: after
those the code stops by design (see below), and `RunEnds` would be false. `NodeEnds`
names the three ways in which a node gets stuck instead of claiming that none does.
The parts of `components` have no fairness and only safety properties.

## What the runs found

* `dispatch_excluded`: a crash between the node event of a result and its
  settlement, then a base move: the result is excluded although it changed its
  node. `docs/development/ready-result-batch-admission.md:7` says it cannot.
* `dispatch_conflict`: a stale and a valid result of one repository drained
  together end the process (`lifecycle-base-epoch-conflicting-base`) before either
  is recorded; `references/dag-and-scheduling.md:128` says a stale item must not
  block valid ones.
* `dispatch_delivers`: the dispatcher observes the base before the cleanup of a
  node, and the delivery has just moved it; unless another node can absorb the
  change the issue is never closed (`references/group-delivery.md:21`).
* `delivery_interrupted`: a delivery interrupted between a push and
  `delivery.effect-recorded` is rejected for ever and its push never recorded
  (`docs/development/issue-orchestration-scope.md:250`).
* `node_rejection`: a rejection whose failure is not the one recorded first is
  refused by the node ledger and never counted
  (`references/review-failure-and-verification.md:33`).
* `group_evidence`: a member of a group commits another candidate than the one its
  behavior receipt was given for (`references/review-failure-and-verification.md:26`).

Other places where the code stops by design and no sentence contradicts it are
listed as hazards with a note, among them: a removed node makes the compiler fail
until its issue returns; a closure authorization outlives its 240 seconds or its
invocation; a crash between the last two appends of a delivery or closure; a node
delivered in an earlier epoch is never offered for delivery again, because delivery
effects are kept by group without an epoch.

## Proofs

Every theorem holds for every value of the constants, from the named assumptions of
the module it is about. Every safety invariant and every action property that a
passing run checks is stated by one of them, and so are the four refinements.
Two invariants are proved and not run: `TerminalIsComplete` and `LandedOnceInOrder`,
because the refinements checked in their place, `DeliverySpec` and `QueueSpec`, ask
for more. `LandedOnceInOrder` is proved under `[]CallersTruthful`: what callers report
of their base is true.

| theorem | says |
|---|---|
| `TypeCorrect` | `Spec => []TypeOK` of the control ledger |
| `ScopeSafety` | group members are registered and registered nodes have a base |
| `ExclusiveDispatch` | no two unsettled dispatches share an id, action, node or slot |
| `SlotSafety` | every unsettled dispatch holds a slot; slots never exceed the capacity |
| `ClosureSafety` | a closure is at one stage, for its own receipt |
| `SettledNeverUndone` | completed closures and cleanups are never replaced |
| `EffectUniqueness` | a delivery effect id belongs to one group |
| `IncarnationOrder` | incarnations of a node are totally ordered |
| `RunningNeverOverlap` | two running attempts share no key, worktree or resource (`Frontier`) |
| `Dispatcher_proofs`: `TypeCorrect` | `Spec => []TypeOK` of the dispatcher |
| `MemoryAgreesAlways` | what the process remembers is what the ledgers say |
| `HistoryIsLinear` | no two results are admitted on one head of a node ledger |
| `BasesAgree` | the nodes with work left agree on the base of their repository |
| `DroppedForCause` | a dropped result lost its own base, scope or incarnation, or is malformed |
| `EndIsQuiescent` | a run that is terminal has all nodes closed and nothing in flight |
| `NodesGoForward` | within an incarnation a node only goes forward |
| `DispatchesAreLeases` | the dispatcher implements `DispatchLease` |
| `DeliveryClosure_proofs`: `TypeCorrect` | `Spec => []TypeOK` of delivery and closure |
| `PushedOnce` | a push is made once, on the base its evidence is for |
| `FrozenUntilDelivered` | a group that changed a remote stays frozen until it is delivered |
| `ClosesWithEvidence` | an issue is closed after every push of its group and its cleanup |
| `EndIsComplete` | a terminal run has pushed and closed everything |
| `DeliversOnce` | delivery and closure implement `GroupDelivery` |
| `CountersTellTheLedger` | a rejection, a writer result, a failure is counted once (`NodeLifecycle`) |
| `EvidenceIsCurrentlyBased` | the candidate of a node is on its base, and its UI was accepted for what landed |
| `NodesEndOnce` | a closed or terminal node is not touched again |
| `NodeLivesAsIssue` | the node lifecycle implements `IssueLife` |
| `GroupGreenInOrder` | members of a group become green in their order (`GroupSession`) |
| `MembersLand` | if callers report truthfully, a member reaches the default branch once, after those before it (`LandingLane`) |
| `LandsAsOne` | the landing lane implements `LandingQueue`: a group lands as a whole, but for what callers misreport |
| `TakeoversHandOver` | events are recorded by the bound root, roots follow one another, and a takeover erases nothing (`RootTakeover`) |
| `LedgerOnlyGrows` | as long as no root is taken over twice, the ledger only grows |
| `CacheAnswersReplays` | recovery and the appends of the one writer answer what a replay of the files answers (`ReplayCache`) |
| `DispatchesStayApart` | a task is left out of a batch for a reason of the selector only, what is admitted meets no active lease on a key of the same kind, what runs stays apart (`Frontier`) |
| `AcceptedResultsStand` | a result is accepted only if nothing was recorded meanwhile and no candidate frozen, unless its HEAD is the candidate on record (`WriterExecution`) |
| `PrefixOrdered` | the completed work of a stage is the beginning of its plan (`WriterStage`) |
| `CandidatesComplete` | a candidate is the work of a whole plan (`WriterStage`) |
| `WorkKept` | completed slices are kept until the stage is complete (`WriterStage`) |
| `BreakerStays` | after a failure the next attempt is the authorized retry (`WriterStage`) |
| `CandidatesKept` | no cleanup loses a commit or an edit (`GitResourceCleanup`) |
| `LeaseReleasedLast` | the lease of a resource outlives all it stands for (`GitResourceCleanup`) |
| `SlotFreedAfterAttempt` | a slot that was given up has nothing left behind it (`AttemptResources`) |
| `OnlyQuiescentRunsEnd` | a run is ended only when its issues are over and nothing of it was seen (`Quiescence`) |

In `ControlLedger_proofs` `TypeOK` is inductive, with one step per action. The other
invariants are inductive relative to it; each comes with a frame lemma: a step that
leaves the variables of the invariant alone preserves it, so the proof of the step
names only the actions that can disturb it. `SlotSafety` additionally needs
`DispatchesExclusive` (settling a dispatch must not take the slot of another of
the same node) and the finiteness of `Nodes` for the cardinalities. `ScopeSafety`
needs that registrations are never forgotten and keep their repository
(`ForwardStep`, which also gives `IncarnationOrder`) and that a step takes no base
away (`NamesRegisteredStep`). The action properties need only the type invariant.

`RunningApart` of `Frontier` speaks of processes, the guards of leases. Its inductive
strengthening `LeaseInv` says that a process holds an active lease of its keys as
long as it runs, and that active leases are disjoint; it rests on
`acquireDispatchLease` comparing against every active lease, expired ones included,
and on `recoverExpiredDispatchLease` asking for the absence of the process. Nothing
in it depends on the frontier or the batch: a stale frontier cannot break it.

The rest of `DispatchedApart` is about the batch. `createBatch` folds the ranked
tasks; `compareTasks` is a strict order of the tasks of a frontier (`RanksOrder`:
also with its rule for a pair in which one task starves, where age comes before
everything but the priority), so a sorted sequence exists, and `BatchFound` follows the fold task by
task: what is chosen is free of conflicts, and whatever is left out keeps its reason,
a missing slot included, since a batch only grows (`BatchStep`). The induction over
the number of tasks takes the least counterexample (`LeastNumber`). `RoundInv`
carries this through time: until a batch is admitted dispatches only fade (`Fades`:
they end, are declared terminal, lose leases), so when the inputs of a selection are
those of now, leases and slots are those it was made with; and once it is admitted,
each start leases keys that no waiting task has as keys of the same kind (`Unheld`).
That every admitted task gets its lease is not claimed: it would need keys that are
told apart by their names and worktrees the selector finds, and nothing validates
either. `RunningNeverOverlap` needs neither.

In `Dispatcher_proofs` steps are first classified by what they do to the ledgers
(`Kinds`: nothing, an actor changed, one dispatch recorded, one result admitted or
settled, a refresh, a rebinding, nodes advanced), so that a later proof looks at
those and not at the actions. The inductive invariant `Inv` holds, besides the
properties:

- `Memory`: `MemoryAgrees`, and what the sets of the settlement batch have to do
  with each other at each `pc`. Everything that settles a dispatch needs it;
- `Waved`: what a wave still has to record is startable as it was compiled (current
  binding, active, no dispatch in flight) and fits the slots that are left, because
  nothing else happens between compiling a wave and recording it. With it two
  unsettled dispatches never share a node (`Exclusive`), and every step grants,
  settles or fails leases of `DispatchLease`, or changes none;
- `Bounds` and `Chain`: a dispatch is not ahead of the epoch, the head or the
  selector receipt, and an admitted one is below the head, hence `LinearHistory`;
- `Kin`: an unsettled dispatch of the current epoch and selector receipt whose result
  is not admitted is still fresh, so that only the base, the scope or the incarnation
  can exclude it; with `Behind` (no base is ahead of the remote) and `Caused` hence
  `ExcludedForCause`.

`DeliveryClosure_proofs` has one inductive invariant too: the four properties, and
`Remembers` (what the execution of a delivery has in memory is true of the remote and
of the ledger, at each `pc`), `Cleaning` (what the execution of a cleanup has
recorded, in its order), `Apart` (an effect is in one place of the ledger at a time)
and `Made` (a recorded effect was made). `PushedOnce` needs that the snapshot a push
compares with is one of an untouched branch, and `FrozenUntilDelivered` that a freeze
is released after a failure only if `acquired` holds and nothing was attempted, which
says of the ledger what the process remembers (the last conjunct of `Remembers`).

`DeliversOnce` needs the order of groups and of cleanups besides. The compiler offers
the first group that is ready, and only that guard holds a later group back: `Line`
says that as long as a delivery is executed every group before it has been followed
by all its members, and that a delivered group stays so. `Turn` says the same of
cleanups: once one has begun no node is ready, a close is observed after the cleanup,
and a closure is completed on a closed node. Both hold across interruptions because
nothing makes a node ready again. `FullInv` is `Inv` with the two; the refinement is
then one step per action, most of them stutters.

`GreenInOrder` is not inductive: that a member is committed after those before it
follows from where it was started. `OrderInv` adds that whoever is active is not
green (`ActiveIsOpen`), that a member which ever had a candidate follows green ones,
also when it was left to a human since (`Follows`), and that a green member has a
commit (`Committed`).

`NodeLifecycle_proofs` rests on `LifeInv` and `EvidenceInv`. The first says what
makes a late result harmless: a dispatch is not ahead of its ledger, and as long as
it is fresh, the action it was made for is still the one due (`Due`); every append
and every base move makes it stale. So a result is recorded once, and only in the
state its contract starts from, which gives the counters and the end. `EvidenceInv`
follows the evidence: a result answers its dispatch, and its candidate is a new
commit on the base dispatched (`Answers`); the candidate of a node is on its base
(`OnBase`); nothing is adjudicated before the behavior is green, and an acceptance is
about the adjudication and the candidate the node has (`UiEvidence`). `RecordedStep`
puts this together: a recorded result executes the action its node is due. The
refinement maps each contract to a step of `IssueLife` or to a stutter; a new
candidate differs from the one before it because of `Answers`. The table of
contracts enters through lemmas about all of its rows (`ContractCounts`,
`ContractFailures`, `CandidateJudged`, `ContractSteps`).

`LaneInv` of `Landing_proofs` says what an attempt has moved: the transplanted members are
the first ones of the group, its tip has some of them in their order, and its base is a
prefix of the branch (`Moved`). It says nothing of what callers report, because the lane
checks nothing of it. At `finalizeLanding` the base is the whole branch and every member
is transplanted (`Finished`), so with a truthful caller the tip has exactly the members
that the branch does not have, and may be pushed without landing one twice or out of
order (`Pushable`), whoever pushed before and whatever result was lost. The refinement
follows from the same invariant: on an untouched branch the tip of a finished attempt is
what is missing of the group, in its order, up to the misreported members (`TipIsRest`),
and only `finalizeLanding` tells anybody that it landed (`Untold`). `MembersLand` adds
the assumption that nothing is misreported; without it a caller with an old view of the
branch can land a member twice or leave it out, and nothing in the lane would notice.

`RecordsUnderAuthority` of `RootTakeover` is about one ledger, but a takeover reads a
ledger, fences the root and writes the ledger anew later. `TakeoverInv` says of
every ledger, also of one that was read, that its events are of the authority before
them and its authorities of a fenced authorization that names the one before
(`Sound`); that what a root has read names it or the root it takes over from
(`Reads`); and that a fenced root has ended (`Fencing`), so that it writes nothing
in between.

That a takeover erases nothing when it writes the ledger anew needs one more invariant
(`Whole`): what it has read is what is there. Nobody records in between, since the
root that could is the one it takes over from, and has ended; another takeover could
only be one of the same root. When the supervisor carries out two of those
(`TakenOverTwice`) the ledger of the first is lost; TLC finds that behaviour, and no
sentence of the repository excludes it.

`AnswersAreReplays` of `ReplayCache` is about what is returned; `CacheInv` is about
the entries that are kept. Every entry has the components of the nodes its control
projection has (`Formed`) and was read from a prefix of the control ledger (`Past`);
an incarnation that has not begun has no file (`Unborn`); and as long as no other
process wrote to the run, its entries are those of the files, but for the one of the
startup while the facts of the run wait to be recovered (`Alone`). That is why an
append of the one writer may derive its answer from an entry, and why a recovery
compares the ledgers first: after a crash, an edit or a foreign append nothing but
`Formed` and `Past` is left. `EpochsAssumption` says that a node has a first
incarnation.

`ExecutionInv` of `WriterExecution` says what makes the guard sufficient for what lasts:
events are never taken back from a ledger, and the branch of a frozen candidate stays
where it is, because only its own writer moves it and that one is over (`Kept`). So
whatever was recorded or frozen since the first snapshot of a running writer differs
from that snapshot at any later time (`Shows`), and a watchdog that has ended wrote the
last record of its trace (`DogSound`); a candidate on record is none that is frozen
meanwhile. What is accepted is no longer compared with anything (`StandsOn`).

`WriterInv` of `WriterStage` follows the completed prefix through the life of a
stage: it is the beginning of the plan of the active attempt (`AtWork`), of the
failed one, and of the one a retry was authorized for, whose attempt is a new one and
which carries just that prefix (`Failing`), and all of the plan when the stage is
complete (`Whole`); a slice is awaited only from an active or a failed attempt
(`Awaited`). The three action properties follow from it step by step.
`NoValueAssumption` says that the value for "none" is none of the others.

`GitInv` of `GitResourceCleanup` states what the disposition of each cleanup rests on
(`Sound`): a landed or superseded candidate is in the default branch or below another
resource, a quarantined one has its directory and ref, and the inventory of its
edits is still true; these facts outlive a push, a takeover and an interrupted
removal. Nothing else may remove a worktree or a branch, so each commit stays
reachable from a ref, the default branch or the quarantine (`Found`) and each edit
has a copy (`Copied`). The argument follows ancestry through several resources:
`DescendsAssumption` says that it is a strict order, as that of commits is.
`ResourceInv` of `AttemptResources` adds to the property that a sealed receipt, too,
means that the resources are gone.

The finalizer of `Quiescence` reads the ledger, waits for an observer and for the
machine, and then judges what it read. `FinalInv` says that what it read is still the
ledger as long as its action set is current (`Faithful`), that an observer is asked on
only when every issue has a disposition, and that the effects of a node on its way
through cleanup and closure are of its own epoch (`EffectsOf`).

Only model-checked: `RunEnds`, `DeliveryCompletes` and `NodeEnds`, the liveness
properties (fairness and ENABLED are beyond the prover), and the sentences of the
documentation that the runs refute.

## Plan

Done: every module above, in the order `ControlLedger`, `Dispatcher`,
`DeliveryClosure`, `NodeLifecycle`, `WriterStage`, `GitResourceCleanup`,
`LandingLane`, `ReplayCache`, `RootTakeover`, `GroupSession`, `WriterExecution`,
`Quiescence`, `Frontier`.

Left, in this order:

1. A composition of `Dispatcher` and `DeliveryClosure` in which a close feeds back
   into the scope, and of `GroupSession` and `LandingLane` over one group.
2. Dependencies between nodes and the aging of the slot selection in `Dispatcher`.
3. An abstract specification of the replay cache (a ledger and its replay), with its
   refinement proved.

## Not modelled

`PROJECT.json` has one entry per component with the reason. In short: pure
compilers and validators of sealed receipts (slices, routes, prompts, startup and
trust receipts), human decisions and advice (inputs of what receives them),
diagnostics, JSON contracts, and package installation. Of modelled components: the
recovery of a resource registry from its inventory and Docker containers;
`delivery-epoch.mjs` and `createLandingHandoff`, which nothing but tests calls; the
budget of the takeover supervisor and its choice of a route; the V1 events of the
node ledger and the recovery of terminal nodes; locks of the state directory.

## Running

    tlc -workers 2 -config DispatchSafety.cfg MCDispatcher
    tlc -workers 2 -config Components.cfg MCComponents
    tlapm ControlLedger_proofs.tla
    tlapm Dispatcher_proofs.tla
    tlapm DeliveryClosure_proofs.tla
    tlapm NodeLifecycle_proofs.tla
    tlapm Landing_proofs.tla
    tlapm RunLedger_proofs.tla
    tlapm Writers_proofs.tla
    tlapm Cleanup_proofs.tla
