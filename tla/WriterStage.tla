---------------------------- MODULE WriterStage ----------------------------
(***************************************************************************)
(* The writer stages of one node as its event ledger replays them          *)
(* (event-ledger.mjs, node.discovered to issue.reopened) with the gates of *)
(* writer-stage-progress.mjs: an attempt works through the slices of its   *)
(* plan, one after the other, and each completed slice becomes an entry of *)
(* the completed prefix.  A failed attempt opens the breaker; a retry is   *)
(* authorised for a fresh attempt with a revised plan that carries the     *)
(* prefix forward.                                                         *)
(*                                                                         *)
(* A plan is its attempt, its phase and, for each of its slices, a version *)
(* of the material that is asked for.  Slice ids are the positions in the  *)
(* plan.  Digests, prompts, routes and leases are those of their plan and  *)
(* slice.  Writers outlive their attempts: any of them may report late.    *)
(*                                                                         *)
(* The lifecycle.* events of the same ledger are in NodeLifecycle; the     *)
(* recovery of a terminal node needs their receipts and is left out.       *)
(***************************************************************************)
EXTENDS Integers, Sequences, FiniteSets

CONSTANTS
    NoValue,            \* null
    Attempts,           \* attempt ids
    Versions,           \* versions of the material of a slice
    MaxSlices,          \* bound: slices of a plan
    MaxCheckpoints      \* bound: checkpoints of a slice

ASSUME BoundAssumption == {MaxSlices, MaxCheckpoints} \subseteq Nat \ {0}

VARIABLES
    uiUx,           \* issueKind is ui-ux
    status,
    active,         \* activeAttemptId
    stage,          \* active plan and slice; kept when the attempt ends
    attemptIds,     \* every attempt that was started
    checkpoint,     \* latest checkpoint of the slice: [ordinal, complete]
    continuation,   \* ordinal of the checkpoint continued from
    prefix,         \* completedSlicePrefix
    completed,      \* completedWriterStageAttemptId
    failure,        \* failed plan and slice (writerStageFailureReceiptDigest)
    firstFailure,   \* attempt of the first failure
    carry,          \* writerStageCarryForwardPrefix: [plan, entries]
    expected,       \* plan and slice that have to start next
    evidence,       \* receipts of verifiers: "behavior", "ux"
    candidate       \* attempt of the candidate

ledgerVars == <<attemptIds, failure, firstFailure, carry, expected>>
sliceVars == <<stage, checkpoint, continuation, prefix, completed>>
writerVars == <<uiUx, status, active, ledgerVars, sliceVars, evidence, candidate>>

-----------------------------------------------------------------------------

Phases == {"test-contract", "implementation", "documentation",
           "landing-conflict-resolution"}

Plans == [attempt : Attempts, phase : Phases,
          material : UNION {[1 .. n -> Versions] : n \in 1 .. MaxSlices}]

Slices(plan) == DOMAIN plan.material
Dispatches == {d \in [plan : Plans, slice : 1 .. MaxSlices] :
                   d.slice \in Slices(d.plan)}

ASSUME NoValueAssumption == NoValue \notin Attempts \cup Nat \cup Dispatches

(* writerStageSliceMaterialDigest covers the order of the slice as well. *)
Material(plan, i) == <<i, plan.material[i]>>

NoCheckpoint == [ordinal |-> 0, complete |-> FALSE]

WriterInit ==
    /\ uiUx \in BOOLEAN
    /\ status = "none"
    /\ active = NoValue
    /\ stage = NoValue
    /\ attemptIds = {}
    /\ checkpoint = NoCheckpoint
    /\ continuation = NoValue
    /\ prefix = <<>>
    /\ completed = NoValue
    /\ failure = NoValue
    /\ firstFailure = NoValue
    /\ carry = NoValue
    /\ expected = NoValue
    /\ evidence = {}
    /\ candidate = NoValue

-----------------------------------------------------------------------------
(* Events that only move the status: rules without the writer-stage ones.  *)

Rule(event, From, To) == {event} \X From \X To

Contesting ==
    UNION {
        Rule("stage.contract-frozen", {"discovered"}, {"discovered"}),
        Rule("test-contract.disputed", {"test-contracting"}, {"discovered"}),
        Rule("implementation.contract-disputed",
             {"implementing-self-testing"}, {"test-contract-frozen"}),
        Rule("implementation.external-blocked",
             {"implementing-self-testing"}, {"terminal"}),
        Rule("implementation.resource-failed",
             {"implementing-self-testing"}, {"test-contract-frozen"}),
        Rule("attempt.cancelled",
             {"implementing-self-testing"}, {"test-contract-frozen"}),
        Rule("attempt.expired",
             {"implementing-self-testing"}, {"test-contract-frozen"}),
        Rule("attempt.invocation-failed",
             {"implementing-self-testing"}, {"test-contract-frozen"}),
        Rule("attempt.environment-failed",
             {"implementing-self-testing"}, {"test-contract-frozen"}),
        Rule("documentation.failed", {"documenting"}, {"behavior-green"}),
        Rule("node.terminal-entered", {status}, {"terminal"})}

Deciding ==
    UNION {
        Rule("decision-analysis.started",
             {"test-contract-frozen", "implementing-self-testing"},
             {"decision-analyzing"}),
        Rule("decision-analysis.completed",
             {"decision-analyzing"}, {"decision-analysis-completed"}),
        Rule("human-decision.required",
             {"decision-analysis-completed"}, {"human-decision-required"}),
        Rule("human-decision.recorded",
             {"human-decision-required"}, {"human-decision-recorded"}),
        Rule("human-decision.invalidated",
             {"human-decision-required", "human-decision-recorded"},
             {"decision-analysis-completed"}),
        Rule("contract.rebased",
             {"human-decision-recorded"}, {"test-contract-frozen"}),
        Rule("node.resumed", {"human-decision-recorded"}, {"discovered"})}

Closing ==
    UNION {
        Rule("node.discovered", {"none"}, {"discovered"}),
        Rule("independent-verification.started",
             {"candidate-green"}, {"independent-verifying"}),
        Rule("independent-verification.rejected",
             {"independent-verifying"}, {"implementing-self-testing"}),
        Rule("ux-acceptance.started", {"behavior-green"}, {"ux-acceptance"}),
        Rule("ux-acceptance.rejected",
             {"ux-acceptance"}, {"implementing-self-testing"}),
        Rule("delivery.ready-computed",
             {"documentation-green"}, {"delivery-ready"}),
        Rule("delivery.started",
             {"delivery-ready", "behavior-green"}, {"delivering"}),
        Rule("delivery.failed", {"delivering"}, {"delivery-ready"}),
        Rule("cleanup.started", {"delivering"}, {"cleaning"}),
        Rule("issue.closed", {"cleaning"}, {"closed"}),
        Rule("issue.reopened", {"closed"}, {"discovered"})}

(* None of them ends the attempt of a writer, also not attempt.cancelled. *)
StatusEvent ==
    /\ \E rule \in Contesting \cup Deciding \cup Closing :
           rule[2] = status /\ status' = rule[3]
    /\ UNCHANGED <<uiUx, active, ledgerVars, sliceVars, evidence, candidate>>

(* A behavior receipt is about the candidate; the row of the table that    *)
(* starts from candidate-green is refused.                                 *)
VerificationPassed ==
    /\ status = "independent-verifying"
    /\ candidate # NoValue
    /\ status' = "behavior-green"
    /\ evidence' = evidence \cup {"behavior"}
    /\ UNCHANGED <<uiUx, active, ledgerVars, sliceVars, candidate>>

UxAccepted ==
    /\ status = "ux-acceptance"
    /\ status' = "ux-accepted"
    /\ evidence' = evidence \cup {"ux"}
    /\ UNCHANGED <<uiUx, active, ledgerVars, sliceVars, candidate>>

-----------------------------------------------------------------------------
(* An attempt starts. *)

(* The states a stage of this phase can be started from, and what for. *)
Starts(phase) ==
    CASE phase = "test-contract" ->
             {"discovered"} \X {"test-contracting"}
      [] phase = "implementation" ->
             {"test-contract-frozen"} \X {"implementing-self-testing"}
      [] phase = "landing-conflict-resolution" ->
             {"delivery-ready"} \X {"delivering"}
      [] phase = "documentation" ->
             ({"behavior-green", "ux-accepted", "candidate-green"}
                  \X {"documenting"})
             \cup {<<"implementing-self-testing",
                     "implementing-self-testing">>}

(* Mutant: any first slice may start. *)
FirstSlice(d) == d.slice = 1 \/ d = expected

(* firstOrAuthorizedRetrySlice *)
FirstOrAuthorizedRetrySlice(d) ==
    IF expected # NoValue
    THEN d = expected /\ d.slice = Len(prefix) + 1
    ELSE d.slice = 1

(* Mutant: the work of the failed attempt is forgotten. *)
NothingResumed == FALSE

(* The start of an authorised retry keeps the prefix and its lineage. *)
RetryResume == expected # NoValue

Started(d) ==
    /\ \E step \in Starts(d.plan.phase) :
           status = step[1] /\ status' = step[2]
    /\ d.plan.phase = "documentation" =>
           "behavior" \in evidence /\ (uiUx => "ux" \in evidence)
    /\ active = NoValue
    /\ d.plan.attempt \notin attemptIds
    /\ FirstOrAuthorizedRetrySlice(d)
    /\ active' = d.plan.attempt
    /\ stage' = d
    /\ attemptIds' = attemptIds \cup {d.plan.attempt}
    /\ checkpoint' = NoCheckpoint
    /\ continuation' = NoValue
    /\ completed' = NoValue
    /\ failure' = NoValue
    /\ expected' = NoValue
    /\ carry' = IF RetryResume THEN carry ELSE NoValue
    /\ prefix' = IF RetryResume THEN prefix ELSE <<>>
    /\ UNCHANGED <<uiUx, firstFailure, evidence, candidate>>

-----------------------------------------------------------------------------
(* A writer reports. *)

(* validateWriterArtifactBinding: the report is about the active slice of  *)
(* the active attempt.                                                     *)
IsBound(a) == active = a

CheckpointRecorded(a, complete) ==
    /\ IsBound(a)
    /\ checkpoint.ordinal < MaxCheckpoints
    /\ checkpoint' = [ordinal |-> checkpoint.ordinal + 1,
                      complete |-> complete]
    /\ UNCHANGED <<uiUx, status, active, ledgerVars, stage, continuation,
                   prefix, completed, evidence, candidate>>

ContinuationRecorded(a) ==
    /\ IsBound(a)
    /\ checkpoint # NoCheckpoint
    /\ ~checkpoint.complete
    /\ continuation' = checkpoint.ordinal
    /\ UNCHANGED <<uiUx, status, active, ledgerVars, stage, checkpoint,
                   prefix, completed, evidence, candidate>>

(* completedPrefixEntryMatchesActivePlan, carriedTerminalReceiptForSlice:  *)
(* a carried entry is the one the retry carried for this plan, any other   *)
(* is of this plan itself.                                                 *)
EntryMatches(i, plan) ==
    IF carry # NoValue /\ i \in DOMAIN carry.entries
    THEN carry.plan = plan /\ carry.entries[i] = prefix[i]
    ELSE prefix[i].plan = plan /\ prefix[i].slice = i

PrefixMatches(plan) == \A i \in DOMAIN prefix : EntryMatches(i, plan)

(* evaluateSliceTerminalGate, validateLedgerOwnedSlicePrefix: the receipt  *)
(* of the current slice rests on its latest, complete checkpoint and on    *)
(* the receipts of all slices before it.                                   *)
TerminalGate(a) ==
    /\ IsBound(a)
    /\ checkpoint.complete
    /\ stage.slice = Len(prefix) + 1
    /\ PrefixMatches(stage.plan)

(* slicePrefixEntry *)
Completing ==
    Append(prefix, [plan |-> stage.plan, slice |-> stage.slice,
                    material |-> Material(stage.plan, stage.slice)])

Writing == {"test-contracting", "implementing-self-testing", "documenting",
            "delivering"}

(* writer-stage.slice-completed dispatches the next slice. *)
SliceCompleted(a) ==
    LET next == [stage EXCEPT !.slice = @ + 1] IN
    /\ status \in Writing
    /\ TerminalGate(a)
    /\ next.slice \in Slices(stage.plan)
    /\ prefix' = Completing
    /\ stage' = next
    /\ checkpoint' = NoCheckpoint
    /\ continuation' = NoValue
    /\ expected' = next
    /\ UNCHANGED <<uiUx, status, active, attemptIds, failure, firstFailure,
                   carry, completed, evidence, candidate>>

(* Mutant: the attempt stays active when its last slice is completed. *)
StageCompletedStillActive(a) ==
    /\ status \in Writing
    /\ TerminalGate(a)
    /\ stage.slice = Len(stage.plan.material)
    /\ prefix' = Completing
    /\ completed' = a
    /\ expected' = NoValue
    /\ UNCHANGED <<uiUx, status, active, attemptIds, failure, firstFailure,
                   carry, stage, checkpoint, continuation, evidence, candidate>>

(* writer-stage.completed: the last slice of the plan. *)
StageCompleted(a) ==
    /\ status \in Writing
    /\ TerminalGate(a)
    /\ stage.slice = Len(stage.plan.material)
    /\ prefix' = Completing
    /\ completed' = a
    /\ active' = NoValue
    /\ expected' = NoValue
    /\ UNCHANGED <<uiUx, status, attemptIds, failure, firstFailure, carry,
                   stage, checkpoint, continuation, evidence, candidate>>

(* The seven writer-stage failures, from wherever the node is. *)
StageFailed(a) ==
    /\ IsBound(a)
    /\ status' = "terminal"
    /\ active' = NoValue
    /\ failure' = stage
    /\ firstFailure' = IF firstFailure = NoValue THEN a ELSE firstFailure
    /\ UNCHANGED <<uiUx, attemptIds, carry, expected, sliceVars, evidence,
                   candidate>>

-----------------------------------------------------------------------------
(* A retry is authorised (authorizeWriterStageRetry). *)

RevisionKinds == {"slice-revision", "compiled-prompt-revision",
                  "runtime-revision", "capability-revision"}

(* sealWriterStageRetryRevisionEvidence: the contract of the stage stays;  *)
(* a revision of a slice or a prompt compares the material of the failed   *)
(* slice with that of the proposed one, whichever slice that is.           *)
IsSubstantive(d, kind) ==
    /\ d.plan.phase = failure.plan.phase
    /\ kind \in {"slice-revision", "compiled-prompt-revision"} =>
           Material(d.plan, d.slice) # Material(failure.plan, failure.slice)

(* Mutant: the material of the completed slices is not compared. *)
CarryingAny(plan) ==
    /\ Len(prefix) = failure.slice - 1
    /\ failure.slice \in Slices(plan)
    /\ plan.attempt # failure.plan.attempt

(* sealCompletedSliceCarryForward: the prefix ends before the failed slice,*)
(* and the new plan asks for the same material in all of it.               *)
Carrying(plan) ==
    /\ Len(prefix) = failure.slice - 1
    /\ failure.slice \in Slices(plan)
    /\ plan.attempt # failure.plan.attempt
    /\ \A i \in DOMAIN prefix :
           /\ prefix[i].material = Material(failure.plan, i)
           /\ prefix[i].material = Material(plan, i)

ResumeState(phase) ==
    CASE phase = "test-contract" -> "discovered"
      [] phase = "documentation" ->
             IF uiUx THEN "ux-accepted" ELSE "behavior-green"
      [] phase = "landing-conflict-resolution" -> "delivery-ready"
      [] OTHER -> "test-contract-frozen"

RetryAuthorized(d, kind) ==
    /\ status = "terminal"
    /\ failure # NoValue
    /\ failure = stage
    /\ IsSubstantive(d, kind)
    /\ Carrying(d.plan)
    /\ status' = ResumeState(failure.plan.phase)
    /\ active' = NoValue
    /\ carry' = [plan |-> d.plan, entries |-> prefix]
    /\ expected' = d
    /\ UNCHANGED <<uiUx, attemptIds, failure, firstFailure, sliceVars,
                   evidence, candidate>>

-----------------------------------------------------------------------------
(* A stage ends. *)

(* Mutant: the last receipt is enough. *)
LastReceipt == stage # NoValue /\ checkpoint.complete /\ prefix # <<>>

(* The gate of the last slice and validateCompletedSlicePrefix: the node   *)
(* has a receipt for every slice of its plan.                              *)
StageIsComplete ==
    /\ stage # NoValue
    /\ checkpoint.complete
    /\ stage.plan.attempt = completed
    /\ Len(prefix) = Len(stage.plan.material)
    /\ PrefixMatches(stage.plan)

CandidateGreen ==
    /\ status \in {"implementing-self-testing", "test-contract-frozen"}
    /\ StageIsComplete
    /\ stage.plan.phase = "implementation"
    /\ active = NoValue
    /\ status' = "candidate-green"
    /\ candidate' = completed
    /\ UNCHANGED <<uiUx, active, ledgerVars, sliceVars, evidence>>

TestContractFrozen ==
    /\ status = "test-contracting"
    /\ StageIsComplete
    /\ status' = "test-contract-frozen"
    /\ active' = NoValue
    /\ UNCHANGED <<uiUx, ledgerVars, sliceVars, evidence, candidate>>

DocumentationPassed ==
    /\ \/ status = "documenting" /\ status' = "documentation-green"
       \/ status = "implementing-self-testing" /\ UNCHANGED status
    /\ StageIsComplete
    /\ active' = NoValue
    /\ UNCHANGED <<uiUx, ledgerVars, sliceVars, evidence, candidate>>

-----------------------------------------------------------------------------

Report ==
    \E a \in attemptIds :
        \/ \E complete \in BOOLEAN : CheckpointRecorded(a, complete)
        \/ ContinuationRecorded(a)
        \/ SliceCompleted(a)
        \/ StageCompleted(a)
        \/ StageFailed(a)

WriterNext ==
    \/ StatusEvent
    \/ VerificationPassed
    \/ UxAccepted
    \/ \E d \in Dispatches : Started(d)
    \/ Report
    \/ \E d \in Dispatches, kind \in RevisionKinds : RetryAuthorized(d, kind)
    \/ CandidateGreen
    \/ TestContractFrozen
    \/ DocumentationPassed

WriterSpec == WriterInit /\ [][WriterNext]_writerVars

-----------------------------------------------------------------------------

TypeOK ==
    /\ uiUx \in BOOLEAN
    /\ attemptIds \subseteq Attempts
    /\ stage \in Dispatches \cup {NoValue}
    /\ active # NoValue => stage # NoValue /\ active = stage.plan.attempt
    /\ completed # NoValue => active = NoValue /\ completed \in attemptIds
    /\ checkpoint \in [ordinal : 0 .. MaxCheckpoints, complete : BOOLEAN]
    /\ continuation \in 1 .. MaxCheckpoints \cup {NoValue}
    /\ \A i \in DOMAIN prefix :
           [plan |-> prefix[i].plan, slice |-> prefix[i].slice] \in Dispatches
    /\ failure \in {stage, NoValue}
    /\ firstFailure \in attemptIds \cup {NoValue}
    /\ carry # NoValue => carry.plan \in Plans
    /\ expected \in Dispatches \cup {NoValue}
    /\ evidence \subseteq {"behavior", "ux"}
    /\ candidate \in attemptIds \cup {NoValue}

(* The completed work of a stage is the beginning of its current plan, in  *)
(* plan order and without a gap, however many attempts it took: every      *)
(* entry was completed in this phase under exactly the material the plan   *)
(* asks for now, and the active slice is the one after it                  *)
(* (validateLedgerOwnedSlicePrefix, sealCompletedSliceCarryForward).       *)
PrefixIsOrdered ==
    active # NoValue =>
        /\ stage.slice = Len(prefix) + 1
        /\ \A i \in DOMAIN prefix :
               /\ prefix[i].plan.phase = stage.plan.phase
               /\ prefix[i].material = Material(stage.plan, i)

(* A candidate is the work of a whole plan: every one of its slices has a  *)
(* completed entry of its material, and no writer of it is active          *)
(* (implementation.candidate-green, validateCompletedSlicePrefix).         *)
CandidateIsComplete ==
    [][status' = "candidate-green" /\ status # "candidate-green" =>
          /\ active = NoValue
          /\ candidate' = stage.plan.attempt
          /\ stage.plan.phase = "implementation"
          /\ Len(prefix) = Len(stage.plan.material)
          /\ \A i \in DOMAIN prefix :
                 prefix[i].material = Material(stage.plan, i)]_writerVars

(* Accepted work is not done again: from the first completed slice until   *)
(* the stage is complete, through any number of failures and retries, the  *)
(* completed prefix only grows (resetWriterAttemptProjection).             *)
WorkIsKept ==
    [][expected # NoValue =>
          /\ Len(prefix) <= Len(prefix')
          /\ SubSeq(prefix', 1, Len(prefix)) = prefix]_writerVars

(* A failed stage stays stopped until a retry is authorised: the next      *)
(* attempt of the node is the one the authorisation names, for a plan of   *)
(* the same phase that carries all completed work, whatever happens to the *)
(* node in between (firstOrAuthorizedRetrySlice; the breaker of            *)
(* references/review-failure-and-verification.md).                         *)
BreakerHolds ==
    [][failure # NoValue /\ active = NoValue /\ active' # NoValue =>
          /\ expected # NoValue
          /\ stage' = expected
          /\ stage'.plan.attempt # failure.plan.attempt
          /\ stage'.plan.phase = failure.plan.phase
          /\ carry.plan = stage'.plan
          /\ carry.entries = prefix]_writerVars
=============================================================================
