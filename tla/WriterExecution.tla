--------------------------- MODULE WriterExecution ---------------------------
(***************************************************************************)
(* The execution of writers (lifecycle-writer-executor.mjs) under their    *)
(* watchdog (writer-runtime-watchdog.mjs) and between the two snapshots of *)
(* the stage guard (stage-runtime-guard.mjs).                              *)
(*                                                                         *)
(* The writers of a wave run beside each other and beside the dispatcher.  *)
(* Each has a worktree of its own, but they share the refs of the          *)
(* repository and the state root: the guard compares the contents of both, *)
(* so what another writer or the dispatcher does meanwhile and leaves      *)
(* there counts against a writer.  A moved ref is excused as long as HEAD  *)
(* is the candidate that the node has on record.                           *)
(***************************************************************************)
EXTENDS Naturals

CONSTANTS
    Executions,         \* writers of one repository
    Stages,             \* the stages they are dispatched for
    OtherCommits,       \* commits beside the base and the candidates
    MaxReads,           \* maxReadOnlyOperationsBeforeCheckpoint
    MaxCalls,           \* maxNoArtifactToolCalls
    MaxTrace            \* bound: runtime events of a writer

VARIABLES
    executions,         \* writer -> its execution
    repositoryRefs,     \* the branch of each worktree, and a ref of no worktree
    controlState        \* the state root: its ledgers, and a file beside them

executionVars == <<executions, repositoryRefs, controlState>>

ASSUME RefAssumption == "shared" \notin Executions
ASSUME CommitAssumption == "frozen" \notin OtherCommits

-----------------------------------------------------------------------------
(* The watchdog.  The first write verifies the first action and the first  *)
(* artifact together, so that one flag stands for both.                    *)

NewWatchdog ==
    [state |-> "watching-first-action", artifact |-> FALSE, command |-> FALSE,
     reads |-> 0, calls |-> 0, length |-> 0, persisted |-> 0]

\* TERMINAL_STATES
Ended == {"completed", "checkpoint-received", "terminal-failure-observed"}

\* What the runtime reports: `ok' when a write is the required first action, a
\* command a required one, a process alive, a receipt valid; `late' when the
\* time without an artifact is over.
RuntimeEvents ==
    [type : {"tool-call", "read", "filesystem-write", "command-start",
             "command-heartbeat", "checkpoint-receipt", "terminal-receipt"},
     ok : BOOLEAN, late : BOOLEAN, trusted : BOOLEAN]

\* record, and the counters of enforceOnlineBudgets
Counted(d, v) ==
    LET call == ~d.artifact /\ v.type \in {"tool-call", "read"}
    IN [d EXCEPT !.length = @ + 1,
                 !.calls = IF call THEN @ + 1 ELSE @,
                 !.reads = IF call /\ v.type = "read" THEN @ + 1 ELSE @]

OverBudget(d, v) ==
    /\ ~d.artifact
    /\ d.reads > MaxReads \/ d.calls >= MaxCalls \/ v.late

\* An event the plan does not allow here.
Unexpected(d, v) ==
    CASE v.type = "filesystem-write"   -> ~d.artifact /\ ~v.ok
      [] v.type = "command-start"      -> ~v.ok
      [] v.type = "command-heartbeat"  -> ~(d.command /\ v.ok)
      [] v.type \in {"checkpoint-receipt", "terminal-receipt"}
                                       -> ~(d.artifact /\ v.ok)
      [] OTHER                         -> FALSE

\* The receipt is persisted once, when the watchdog ends.
Finished(d, state) == [d EXCEPT !.state = state, !.persisted = d.length + 1]

Cancelled(d) ==
    IF d.state \in Ended THEN d ELSE Finished(d, "terminal-failure-observed")

Advanced(d, v) ==
    CASE v.type = "filesystem-write"   -> [d EXCEPT !.artifact = TRUE,
                                                    !.state = "productive"]
      [] v.type = "command-start"      -> [d EXCEPT !.command = TRUE]
      [] v.type = "checkpoint-receipt" -> Finished(d, "checkpoint-received")
      [] v.type = "terminal-receipt"   -> Finished(d, "completed")
      [] OTHER                         -> d

Observed(d, v) ==
    LET counted == Counted(d, v)
    IN IF ~v.trusted THEN Cancelled(d)
       ELSE IF OverBudget(counted, v) \/ Unexpected(counted, v)
            THEN Cancelled(counted)
            ELSE Advanced(counted, v)

\* observe throws for an untrusted event and after the end.
Throws(d, v) == d.state \in Ended \/ ~v.trusted

-----------------------------------------------------------------------------
(* The executions. *)

NoSnapshot == [candidate |-> "none"]

NewExecution ==
    [step |-> "idle", stage |-> "none", head |-> "base", dog |-> NewWatchdog,
     lease |-> FALSE, edited |-> FALSE, strayed |-> FALSE, before |-> NoSnapshot,
     outcome |-> "none", disturbed |-> {}, judgedOn |-> "none"]

ExecutionInit ==
    /\ executions = [e \in Executions |-> NewExecution]
    /\ repositoryRefs = [r \in Executions \cup {"shared"} |-> "base"]
    /\ controlState = [events |-> 0, stray |-> FALSE]

\* stageIdentity and the routes of the stages: a documentation stage without a
\* change is inspected, not written.
ExecutionClass(s) ==
    IF s = "documentation-no-change" THEN "observe-only" ELSE "leased-writer"

\* The stage result an outcome is sealed as; only an implementation has a
\* failure contract.
StageContract(s, outcome) ==
    IF outcome = "recoverable-failure"
    THEN IF s = "implementation" THEN "implementation-retry" ELSE "none"
    ELSE CASE s = "test-contract"           -> "test-contract-writer"
           [] s = "implementation"          -> "implementation-candidate"
           [] s = "documentation"           -> "documentation-change"
           [] s = "documentation-no-change" -> "documentation-no-change"

InStep(steps) == {e \in Executions : executions[e].step \in steps}
Running == {"running", "returned"}

\* Something all executions can see is written for good: those that run are
\* between their two snapshots.
Disturbing(what, after) ==
    [e \in Executions |-> IF after[e].step \in Running
                          THEN [after[e] EXCEPT !.disturbed = @ \cup {what}]
                          ELSE after[e]]

Put(e, x) == executions' = [executions EXCEPT ![e] = x]

\* Of an execution that is over only the outcome is kept.
Over(step) == [NewExecution EXCEPT !.step = step]
Same == UNCHANGED <<repositoryRefs, controlState>>

\* startActorWave: the batch of dispatches is recorded before any of them runs.
StartWave ==
    \E wave \in SUBSET InStep({"idle"}) \ {{}} : \E stage \in [wave -> Stages] :
      /\ executions' = Disturbing("event",
           [e \in Executions |->
              IF e \in wave THEN [executions[e] EXCEPT !.step = "dispatched",
                                                       !.stage = stage[e]]
              ELSE executions[e]])
      /\ controlState' = [controlState EXCEPT !.events = @ + 1]
      /\ UNCHANGED repositoryRefs

\* acquireAndFreeze, checked by validateWriterAuthority: a lease of its own
\* before the actor is spawned, for the first slice of its plan.
Authorise(e) ==
    /\ executions[e].step = "dispatched"
    /\ ExecutionClass(executions[e].stage) = "leased-writer"
    /\ Put(e, [executions[e] EXCEPT !.step = "authorised", !.lease = TRUE])
    /\ Same

\* candidateIdentity: the candidate on record.  It outlives a rejection, so that
\* a rework has one; an inspection puts the base in its place.
CandidateIdentities(s) ==
    CASE s = "implementation"          -> {"none", "candidate"}
      [] s = "documentation"           -> {"candidate"}
      [] s = "documentation-no-change" -> {"base"}
      [] OTHER                         -> {"none"}

\* Where HEAD of a worktree can be before its candidate is frozen.
Heads(candidate) ==
    {"base"} \cup OtherCommits \cup ({candidate} \ {"none"})

\* The runtime the adapter prepared, as the machine observed it.
RuntimeObservations ==
    [invocation : {"root", "actor"}, session : {"root", "actor"},
     role : {"own", "other"}, permissions : {"inherited", "other"}]

\* compileRuntimeExecutionBinding: a child of the root, for this role, with the
\* permissions of the trust binding.
RuntimeBound(r) ==
    /\ r.invocation # "root"
    /\ r.role = "own"
    /\ r.permissions = "inherited"

\* compileRuntimeInspectionBinding: nothing is asked of the role.
InspectionBound(r) ==
    /\ r.invocation # "root"
    /\ r.permissions = "inherited"

\* compileWriterRoute: the session must be new as well.
RouteCompiled(r) == RuntimeBound(r) /\ r.session # "root"

\* The request of a dispatch: whether its route is the one of the stage, where
\* the slice comes from and how many slices are completed before it.
Requests ==
    [route : {"own", "other"},
     source : {"initial-stage-plan", "semantic-runtime-projection"},
     status : {"none", "next-slice", "completed"},
     completed : 0..1]

\* assertV2WriterStageBinding, for the first slice of the plan
SequenceBound(q) ==
    /\ q.completed = 0
    /\ \/ q.source = "initial-stage-plan" /\ q.status = "none"
       \/ /\ q.source = "semantic-runtime-projection"
          /\ q.status = "next-slice"        \* or retry-authorized

\* validateV2DispatchRequest, compileDispatch
RequestValid(q) == SequenceBound(q) /\ q.route = "own"

\* The worktree the adapter prepared, on its branch.
WorktreeOn(e, head) == repositoryRefs' = [repositoryRefs EXCEPT ![e] = head]

\* captureStageMutationSnapshot, captureRuntimeInspectionSnapshot: what the
\* repository and the state root contain, not how they came to it.
Snapshot(x, candidate, head) ==
    [x EXCEPT !.head = head,
              !.before = [candidate |-> candidate, head |-> head,
                          refs |-> repositoryRefs', control |-> controlState]]

\* Route, request and watchdog are made and the first snapshot is taken right
\* before the actor is invoked.  Whatever fails before ends the execution.
Launch(e) ==
    LET x == executions[e]
    IN /\ x.step = "authorised"
       /\ \E candidate \in CandidateIdentities(x.stage) : \E head \in Heads(candidate),
             compiled \in {RouteCompiled(r) : r \in RuntimeObservations},
             valid \in {RequestValid(q) : q \in Requests} :
            /\ WorktreeOn(e, head)
            /\ Put(e, IF compiled /\ valid
                      THEN [Snapshot(x, candidate, head) EXCEPT !.step = "running"]
                      ELSE Over("rejected"))
       /\ UNCHANGED controlState

\* executeDocumentationNoChange, up to the inspection.
LaunchInspection(e) ==
    LET x == executions[e]
    IN /\ x.step = "dispatched"
       /\ ExecutionClass(x.stage) = "observe-only"
       /\ \E candidate \in CandidateIdentities(x.stage) : \E head \in Heads(candidate),
             ready \in {InspectionBound(r) : r \in RuntimeObservations} :
            /\ WorktreeOn(e, head)
            /\ Put(e, IF ready
                      THEN [Snapshot(x, candidate, head) EXCEPT !.step = "running"]
                      ELSE Over("rejected"))
       /\ UNCHANGED controlState

\* exactAction, validateContextAuthority: the action, or the authority it is
\* bound to, is not the current one.
RefuseStale(e) ==
    /\ executions[e].step = "dispatched"
    /\ Put(e, Over("rejected"))
    /\ Same

-----------------------------------------------------------------------------
(* The actor. *)

\* It edits its slice, or other files in the worktree, and may put those back.
ActorEdits(e) ==
    LET x == executions[e]
    IN /\ x.step \in Running
       /\ \/ Put(e, [x EXCEPT !.edited = TRUE])
          \/ Put(e, [x EXCEPT !.strayed = ~@])
       /\ Same

\* It commits, resets or checks out something, its branch with it or not.
ActorMovesHead(e) ==
    LET x == executions[e]
    IN /\ x.step = "running"
       /\ \E head \in Heads(x.before.candidate) :
            /\ Put(e, [x EXCEPT !.head = head])
            /\ \/ WorktreeOn(e, head)
               \/ UNCHANGED repositoryRefs
       /\ UNCHANGED controlState

\* It tags or fetches, or takes that back.
ActorMovesRef(e) ==
    /\ executions[e].step = "running"
    /\ \E commit \in {"base"} \cup OtherCommits :
         repositoryRefs' = [repositoryRefs EXCEPT !["shared"] = commit]
    /\ UNCHANGED <<executions, controlState>>

\* It leaves a file below the state root, or removes it again.
ActorWritesState(e) ==
    /\ executions[e].step = "running"
    /\ controlState' = [controlState EXCEPT !.stray = ~@]
    /\ UNCHANGED <<executions, repositoryRefs>>

\* The adapter passes the events on as they come.  What observe throws ends
\* the invocation.
RuntimeReports(e) ==
    LET x == executions[e]
    IN /\ x.step = "running"
       /\ ExecutionClass(x.stage) = "leased-writer"
       /\ x.dog.length < MaxTrace
       /\ LET events == {v \in RuntimeEvents :
                            v.type = "filesystem-write" => x.edited}
          IN \/ \E d \in {Observed(x.dog, v) :
                             v \in {u \in events : ~Throws(x.dog, u)}} :
                  Put(e, [x EXCEPT !.dog = d])
             \/ /\ \E v \in events : Throws(x.dog, v)
                /\ Put(e, Over("rejected"))
       /\ Same

\* failClosed
WatchdogFails(e) ==
    LET x == executions[e]
    IN /\ x.step = "running"
       /\ x.dog.state \notin Ended
       /\ Put(e, [x EXCEPT !.dog = Cancelled([x.dog EXCEPT !.length = @ + 1])])
       /\ Same

\* A takeover or an expiry recovers the lease of a writer that still runs.
LeaseLost(e) ==
    /\ executions[e].step \in Running
    /\ executions[e].lease
    /\ Put(e, [executions[e] EXCEPT !.lease = FALSE])
    /\ Same

ActorReturns(e) ==
    LET x == executions[e]
    IN /\ x.step = "running"
       /\ \E outcome \in {"completed", "recoverable-failure"} :
            Put(e, [x EXCEPT !.step = "returned", !.outcome = outcome])
       /\ Same

\* ALLOWED_CONTRACTS of lifecycle-executor-failure-admission.mjs
StageFailures(s) ==
    {"terminal-failure"}
      \cup IF s = "implementation" THEN {"implementation-retry"} ELSE {}

\* classifyRejectedExecutorFailure: a thrown stage failure counts only for the
\* dispatch it is bound to, and an inspection has none.
ActorThrows(e) ==
    LET x == executions[e]
    IN /\ x.step = "running"
       /\ \E failure \in {"error", "terminal-failure", "implementation-retry"},
             owner \in Executions :
            Put(e, IF /\ owner = e
                      /\ ExecutionClass(x.stage) = "leased-writer"
                      /\ failure \in StageFailures(x.stage)
                   THEN Over("failed") ELSE Over("rejected"))
       /\ Same

-----------------------------------------------------------------------------
(* The judgement: from the return of the actor to the stage result. *)

\* What the judgement is given beside the worktree: how the runtime was observed
\* to be, whether the checkpoint holds against the live evidence, how many
\* slices the plan has, whether the retry of a failure is authorized.
Evidence ==
    [context : {"as-requested", "different", "missing"},
     bindings : {"as-requested", "different"},
     checkpoint : BOOLEAN, slices : 1..2, retry : BOOLEAN]

\* compareRuntimeV2.  The lease must be held by this attempt alone.
RuntimeMismatches(x, v) ==
    {m \in {"different", "missing"} : v.context = m}
      \cup {m \in {"different"} : v.bindings = m}
      \cup {m \in {"write-lease-conflict"} : ~x.lease}

\* sealDispatchReceiptV2
ReceiptStatus(reasons) ==
    CASE reasons = {}           -> "verified"
      [] reasons = {"missing"}  -> "capability-unverified"
      [] OTHER                  -> "rejected"

\* verifyRuntimeDispatchV2
DispatchVerified(x, v) == ReceiptStatus(RuntimeMismatches(x, v)) = "verified"

ViolationsOfItsOwn(x) ==
    {v \in {"writer-out-of-scope-mutation"} : x.strayed}

\* evaluateStageMutationPostcondition on a second snapshot.  The digest of the
\* remote is the one of the action in both snapshots and never differs.
Violations(x) ==
    IF ExecutionClass(x.stage) = "observe-only"
    THEN {v \in {"observe-only-repository-mutation"} :
             \/ x.edited \/ x.strayed
             \/ x.before.head # x.head \/ x.before.refs # repositoryRefs}
         \cup {v \in {"observe-only-state-root-mutation"} :
                 x.before.control # controlState}
    ELSE {v \in {"writer-out-of-scope-mutation"} : x.strayed}
         \cup {v \in {"writer-control-state-mutation"} :
                 x.before.control # controlState}
         \cup {v \in {"writer-ref-mutation-unbound"} :
                 /\ x.before.refs # repositoryRefs
                 /\ x.head # x.before.candidate}

\* watchdogArtifact
WatchdogGreen(x) ==
    /\ x.dog.state \in {"completed", "checkpoint-received"}
    /\ x.dog.artifact

\* terminalArtifacts calls the gate of the slice without a next slice, so that it
\* throws for every slice that is not the last.
SliceTerminal(v) == v.slices = 1

\* executeLeasedWriter: after the checkpoint a failure needs the authorization of
\* its retry, everything else the end of its slice.
WriterEvidence(x, v) ==
    /\ v.checkpoint
    /\ IF x.outcome = "recoverable-failure" THEN v.retry ELSE SliceTerminal(v)

WriterAcceptable(x, v) ==
    /\ DispatchVerified(x, v)
    /\ Violations(x) = {}
    /\ StageContract(x.stage, x.outcome) # "none"
    /\ WatchdogGreen(x)
    /\ WriterEvidence(x, v)

\* executeDocumentationNoChange, after the inspection: the repository stands on
\* the base with a clean worktree, before the second snapshot too.
InspectionAcceptable(x) ==
    /\ x.outcome = "completed"
    /\ x.head = "base" /\ ~x.edited /\ ~x.strayed
    /\ Violations(x) = {}

Acceptable(x, v) ==
    IF ExecutionClass(x.stage) = "leased-writer"
    THEN WriterAcceptable(x, v) ELSE InspectionAcceptable(x)

\* Only a candidate is frozen first; everything else is sealed at once.
Judge(e) ==
    LET x == executions[e]
    IN /\ x.step = "returned"
       /\ \E accepted \in {Acceptable(x, v) : v \in Evidence} :
            IF accepted
            THEN Put(e, [x EXCEPT
                   !.judgedOn = x.head,
                   !.step =
                     IF StageContract(x.stage, x.outcome) = "implementation-candidate"
                     THEN "freezing" ELSE "sealed"])
            ELSE Put(e, Over("rejected"))
       /\ Same

\* freezeAndObserveCandidate: the adapter commits the slice, or has nothing to
\* commit; observeCandidate asks for a commit above the base, with the staged tree
\* and a difference.
Freeze(e) ==
    LET x == executions[e]
    IN /\ x.step = "freezing"
       /\ \/ /\ x.edited
             /\ executions' = Disturbing("candidate",
                  [executions EXCEPT ![e].step = "sealed", ![e].head = "frozen"])
             /\ WorktreeOn(e, "frozen")
          \/ /\ x.head # "base"
             /\ Put(e, [x EXCEPT !.step = "sealed"])
             /\ UNCHANGED repositoryRefs
          \/ /\ Put(e, Over("rejected"))
             /\ UNCHANGED repositoryRefs
       /\ UNCHANGED controlState

\* settleReadyBatch: results that are ready and admitted failures.
Settle(e) ==
    /\ executions[e].step \in {"sealed", "failed"}
    /\ executions' = Disturbing("event",
         [executions EXCEPT ![e] = Over("settled")])
    /\ controlState' = [controlState EXCEPT !.events = @ + 1]
    /\ UNCHANGED repositoryRefs

ExecutionNext ==
    \/ StartWave
    \/ \E e \in Executions :
         \/ Authorise(e) \/ Launch(e) \/ LaunchInspection(e)
         \/ RefuseStale(e)
         \/ ActorEdits(e) \/ ActorMovesHead(e) \/ ActorMovesRef(e)
         \/ ActorWritesState(e) \/ RuntimeReports(e)
         \/ WatchdogFails(e) \/ LeaseLost(e)
         \/ ActorReturns(e) \/ ActorThrows(e)
         \/ Judge(e) \/ Freeze(e) \/ Settle(e)

ExecutionSpec == ExecutionInit /\ [][ExecutionNext]_executionVars

-----------------------------------------------------------------------------
Accepted == InStep({"freezing", "sealed"})

\* A result is accepted only if, from the moment its writer was started to the
\* moment it was judged, nothing was recorded below the state root, no candidate
\* of another writer was frozen unless HEAD of a leased writer was the candidate
\* its node has on record, and the receipt its watchdog persisted is still the
\* last word on its trace (stage-runtime-guard.mjs, writer-runtime-watchdog.mjs).
\* So of two writers that overlap, the one judged after the other is settled is
\* lost; only what was put back before the judgement does not count.
ResultsStand ==
    \A e \in Accepted :
      LET x == executions[e]
      IN /\ "event" \notin x.disturbed
         /\ "candidate" \in x.disturbed =>
              /\ ExecutionClass(x.stage) = "leased-writer"
              /\ x.judgedOn = x.before.candidate
         /\ ExecutionClass(x.stage) = "leased-writer" =>
              x.dog.persisted = x.dog.length + 1
=============================================================================
