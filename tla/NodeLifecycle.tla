--------------------------- MODULE NodeLifecycle ---------------------------
(***************************************************************************)
(* The lifecycle of one issue, from its first action to closed or          *)
(* terminal: the transition compiler offers the action of the node's state *)
(* (lifecycle-transition-compiler.mjs, lifecycle-state-machine.mjs), an    *)
(* actor or the root executes it, the stage admission judges the result    *)
(* (lifecycle-stage-admission.mjs), and the recorder appends an event that *)
(* the node ledger must replay (lifecycle-run-loop.mjs, event-ledger.mjs). *)
(*                                                                         *)
(* ledger is the node ledger of the current incarnation, as the contracts  *)
(* of its events; a base change starts a new one with a carry-forward      *)
(* event.  Receipts accumulate and are kept by their provenance: the       *)
(* candidate an evidence is about, the adjudication an acceptance is       *)
(* about.  Results are what actors may return, also about candidates that  *)
(* are not the current one; the admission has to find out.                 *)
(*                                                                         *)
(* Digests and sealed envelopes are abstracted to the values they cover.   *)
(***************************************************************************)
EXTENDS Integers, Sequences, FiniteSets

CONSTANTS
    NoValue,        \* an absent receipt, failure or commit
    Failures,       \* identities of failures (classification and signature)
    UiClasses,      \* classes a node may have: non-ui, ui, unclassified
    MaxFaults,      \* bound: failures, invalid results and crashes
    MaxBase         \* bound: moves of the base

ASSUME ClassAssumption == UiClasses \subseteq {"non-ui", "ui", "unclassified"}
ASSUME BoundAssumption == {MaxFaults, MaxBase} \subseteq Nat
ASSUME NoValueAssumption == NoValue \notin Failures \cup Nat

VARIABLES
    uiClass,        \* class of the node in the semantic graph
    \* the projection of the node ledger of the current incarnation
    ledger,         \* the contracts of its events
    state,          \* lifecycleState
    receipts,       \* artifact -> provenance, NoValue if there is none
    attempts,       \* implementationAttempts
    rework,         \* reworkCount
    firstFailure,   \* the first recorded failure
    deliveryCommit, \* the candidate that landed
    closedAt,       \* sequence of the closing event
    \* the control ledger
    epoch,          \* incarnation
    base,           \* base commit of the incarnation
    delivered,      \* the group of the node has a delivery effect
    dispatch,       \* the unsettled dispatch
    \* environment
    candidates,     \* base of every candidate ever written
    up,             \* a dispatcher process is running
    faults

projection == <<ledger, state, receipts, attempts, rework, firstFailure,
                deliveryCommit, closedAt>>
vars == <<uiClass, projection, epoch, base, delivered, dispatch, candidates,
          up, faults>>

-----------------------------------------------------------------------------
(* The state machine. *)

(* The transitions the node ledger permits each of its events. *)
Transitions ==
    LET Event(e, From, To) == {e} \X From \X To
        Building == {"test-contract-frozen", "implementing-self-testing"}
    IN  UNION {
        Event("semantic-proposal", {"none"}, {"discovered"}),
        Event("acceptance-contract", {"discovered"}, {"acceptance-frozen"}),
        Event("planning", {"acceptance-frozen"}, {"test-contracting"}),
        Event("test-contract-writer", {"test-contracting"},
              {"test-contract-frozen"}),
        Event("implementation-retry", Building, {"implementing-self-testing"}),
        Event("implementation-candidate", Building, {"candidate-green"}),
        Event("writer-stage-failure",
              Building \cup {"test-contracting", "behavior-green",
                             "ux-accepted"}, {"terminal"}),
        Event("behavior-rejection", {"candidate-green"},
              {"implementing-self-testing"}),
        Event("behavior", {"candidate-green"}, {"behavior-green"}),
        Event("ui-adjudication", {"behavior-green"}, {"behavior-green"}),
        Event("ux-acceptance", {"behavior-green"}, {"ux-accepted"}),
        Event("documentation", {"behavior-green", "ux-accepted"},
              {"documentation-green"}),
        Event("delivery", {"documentation-green", "delivery-ready",
                           "delivering"}, {"cleaning"}),
        Event("cleanup", {"cleaning"}, {"closed"}),
        Event("terminal", {state}, {"terminal"})}

(* LIFECYCLE_ACTION_RULES, for the states an event can lead to. *)
ActionRule(s) ==
    CASE s = "none"                -> "request-semantic-proposal"
      [] s = "discovered"          -> "compile-acceptance-contract"
      [] s = "acceptance-frozen"   -> "request-test-contract-planning"
      [] s = "test-contracting"    -> "dispatch-test-contract-writer"
      [] s \in {"test-contract-frozen", "implementing-self-testing"}
                                   -> "dispatch-implementation-writer"
      [] s = "candidate-green"     -> "dispatch-behavior-verifier"
      [] s = "documentation-green" -> "deliver-acceptance-group"
      [] s = "cleaning"            -> "cleanup-node-resources"
      [] s = "terminal"            -> "terminalize-node"
      [] OTHER                     -> "none"

Has(key) == receipts[key] # NoValue

(* Mutant: a terminal node is due to be terminalized, again and again. *)
StateActionRepeated ==
    IF state \in {"behavior-green", "ux-accepted"}
    THEN "deliver-acceptance-group" ELSE ActionRule(state)

(* stateAction: the action the node is due. *)
StateAction ==
    CASE Has("terminal") -> "none"
      [] ~Has("terminal") /\ state \in {"behavior-green", "ux-accepted"} ->
             IF state = "behavior-green" /\ uiClass # "non-ui"
                /\ ~(Has("uiAdjudication") /\ Has("uxAcceptance"))
             THEN IF Has("uiAdjudication")
                  THEN "dispatch-ux-acceptance-verifier"
                  ELSE "request-ui-adjudication"
             ELSE IF receipts.documentationRequired = TRUE
                     /\ ~Has("documentation")
             THEN "dispatch-documentation-writer"
             ELSE "deliver-acceptance-group"
      [] OTHER -> ActionRule(state)

(* The actions that take a slot: an actor executes them. *)
SlotActions ==
    {"request-semantic-proposal", "request-test-contract-planning",
     "dispatch-test-contract-writer", "dispatch-implementation-writer",
     "dispatch-behavior-verifier", "request-ui-adjudication",
     "dispatch-ux-acceptance-verifier", "dispatch-documentation-writer"}

-----------------------------------------------------------------------------
(* The stage contracts: which artifacts a result has to consist of. *)

ObserveOnly == {"runtimeBinding", "mutationPostcondition"}
Writing == ObserveOnly \cup
    {"dispatchReceipt", "watchdog", "checkpointVerification"}

SemanticArtifacts == ObserveOnly \cup
    {"semanticProposal", "semanticProposalValidation"}
AcceptanceArtifacts ==
    {"requirementInventory", "acceptanceContract", "nodeDiscovered",
     "documentationRequirement"}
PlanningArtifacts == ObserveOnly \cup
    {"planningAttempt", "dispatchInvestigation", "slicePlan",
     "slicePlanValidation", "workPlan", "executableSlice", "routeBinding",
     "compiledPrompt", "resourceAcquisition"}
TestWriterArtifacts == Writing \cup {"sliceTerminal", "testContractWriter"}
ImplementationSuccessArtifacts == Writing \cup
    {"sliceTerminal", "implementationTerminal", "candidate"}
ImplementationFailureArtifacts == Writing \cup
    {"writerFailure", "retryAuthorization"}
WriterTerminalFailureArtifacts == {"executorFailure", "mutationPostcondition"}
BehaviorRejectionArtifacts == ObserveOnly \cup {"verificationRejection"}
BehaviorArtifacts == ObserveOnly \cup {"behavior", "behaviorVerification"}
UiAdjudicationArtifacts == ObserveOnly \cup {"uiAdjudication"}
UxArtifacts == ObserveOnly \cup
    {"uxAcceptance", "renderEvidence", "interactionEvidence",
     "accessibilityEvidence"}
DocumentationChangeArtifacts == Writing \cup {"sliceTerminal", "documentation"}
DocumentationNoChangeArtifacts == ObserveOnly \cup
    {"documentation", "documentationNoChange"}
DeliveryObservedArtifacts ==
    {"deliveryControl", "remoteMutationAuthority", "remotePreSnapshot",
     "remotePostSnapshot", "remoteEffect"}
DeliveryCompletedArtifacts ==
    DeliveryObservedArtifacts \cup {"deliveryAttempt", "delivery"}
CleanupArtifacts ==
    {"cleanupAuthorization", "gitCleanupVerification", "resourceCleanup",
     "remoteCloseAuthority", "cleanup", "closure", "remotePreSnapshot",
     "remotePostSnapshot"}
TerminalArtifacts == {"terminal", "recoveryFingerprint", "retentionState"}

Implementers == {"code-implementer", "ui-ux-implementer"}

(* CONTRACTS: what a result of these artifacts does to the node. *)
Contracts ==
    LET Contract(id, action, roles, event, to, artifacts, delta) ==
            [id |-> id, action |-> action, roles |-> roles, event |-> event,
             to |-> to, artifacts |-> artifacts, delta |-> delta]
    IN {Contract("semantic-proposal", "request-semantic-proposal",
            {"dag-creator-updater"}, "semantic-proposal", "discovered",
            SemanticArtifacts, 0),
        Contract("acceptance-contract", "compile-acceptance-contract",
            {"acceptance-contract-compiler"}, "acceptance-contract",
            "acceptance-frozen", AcceptanceArtifacts, 0),
        Contract("test-contract-planning", "request-test-contract-planning",
            {"test-owner"}, "planning", "test-contracting",
            PlanningArtifacts, 0),
        Contract("test-contract-writer", "dispatch-test-contract-writer",
            {"test-owner"}, "test-contract-writer", "test-contract-frozen",
            TestWriterArtifacts, 0),
        Contract("implementation-candidate", "dispatch-implementation-writer",
            Implementers, "implementation-candidate", "candidate-green",
            ImplementationSuccessArtifacts, 1),
        Contract("implementation-retry", "dispatch-implementation-writer",
            Implementers, "implementation-retry", "implementing-self-testing",
            ImplementationFailureArtifacts, 1),
        Contract("test-contract-terminal-failure",
            "dispatch-test-contract-writer", {"test-owner"},
            "writer-stage-failure", "terminal",
            WriterTerminalFailureArtifacts, 0),
        Contract("implementation-terminal-failure",
            "dispatch-implementation-writer", Implementers,
            "writer-stage-failure", "terminal",
            WriterTerminalFailureArtifacts, 1),
        Contract("documentation-terminal-failure",
            "dispatch-documentation-writer", {"documentation-writer"},
            "writer-stage-failure", "terminal",
            WriterTerminalFailureArtifacts, 0),
        Contract("behavior-rejection", "dispatch-behavior-verifier",
            {"test-owner"}, "behavior-rejection", "implementing-self-testing",
            BehaviorRejectionArtifacts, 0),
        Contract("behavior-verification", "dispatch-behavior-verifier",
            {"test-owner"}, "behavior", "behavior-green",
            BehaviorArtifacts, 0),
        Contract("ui-adjudication", "request-ui-adjudication",
            {"ui-system-adjudicator"}, "ui-adjudication", "behavior-green",
            UiAdjudicationArtifacts, 0),
        Contract("ux-acceptance", "dispatch-ux-acceptance-verifier",
            {"ux-acceptance-verifier"}, "ux-acceptance", "ux-accepted",
            UxArtifacts, 0),
        Contract("documentation-change", "dispatch-documentation-writer",
            {"documentation-writer"}, "documentation", "documentation-green",
            DocumentationChangeArtifacts, 0),
        Contract("documentation-no-change", "dispatch-documentation-writer",
            {"documentation-writer"}, "documentation", "documentation-green",
            DocumentationNoChangeArtifacts, 0),
        Contract("delivery-remote-effect", "deliver-acceptance-group",
            {"root-delivery-adapter"}, "none", "none",
            DeliveryObservedArtifacts, 0),
        Contract("delivery-completed", "deliver-acceptance-group",
            {"root-delivery-adapter"}, "delivery", "cleaning",
            DeliveryCompletedArtifacts, 0),
        Contract("cleanup-and-closure", "cleanup-node-resources",
            {"root-cleanup-adapter"}, "cleanup", "closed",
            CleanupArtifacts, 0),
        Contract("terminalization", "terminalize-node",
            {"root-scheduler"}, "terminal", "terminal",
            TerminalArtifacts, 0)}

ContractIds == {c.id : c \in Contracts}
ContractOf(id) == CHOOSE c \in Contracts : c.id = id

(* The contracts a result can be judged by: there must be exactly one. *)
ContractsFor(r) ==
    {c \in Contracts : /\ c.action = r.action
                       /\ r.role \in c.roles
                       /\ c.artifacts = ContractOf(r.kind).artifacts}

(* The implementer of a node is the one its class asks for. *)
ExpectedRole == IF uiClass = "ui" THEN "ui-ux-implementer"
                ELSE "code-implementer"
RoleAllowed(c, r) ==
    c.action = "dispatch-implementation-writer" => r.role = ExpectedRole

(* validateCrossArtifactBindings: the evidence of a result is about what   *)
(* the node has now.                                                       *)
RejectionIsCurrent(r) ==
    /\ Has("candidate")
    /\ r.candidate = receipts.candidate
    /\ r.verifier = "fresh"
    /\ r.rework = rework + 1

(* Mutant: a verification of any candidate is taken. *)
VerificationOfAny(r) == Has("candidate") /\ r.verifier = "fresh"

VerificationIsCurrent(r) ==
    /\ Has("candidate")
    /\ r.candidate = receipts.candidate
    /\ r.verifier = "fresh"

AdjudicationIsCurrent(r) ==
    /\ r.candidate = receipts.candidate
    /\ Has("acceptanceContract")
    /\ r.contract = receipts.acceptanceContract

AcceptanceIsCurrent(r) ==
    /\ r.candidate = receipts.candidate
    /\ r.adjudication = receipts.uiAdjudication

EvidenceIsCurrent(c, r) ==
    CASE c.id = "behavior-rejection"    -> RejectionIsCurrent(r)
      [] c.id = "behavior-verification" -> VerificationIsCurrent(r)
      [] c.id = "ui-adjudication"       -> AdjudicationIsCurrent(r)
      [] c.id = "ux-acceptance"         -> AcceptanceIsCurrent(r)
      [] OTHER                          -> TRUE

(* validateLifecycleStageResult admits the result under contract c. *)
Admits(c, r) ==
    /\ ContractsFor(r) = {c}
    /\ RoleAllowed(c, r)
    /\ EvidenceIsCurrent(c, r)

-----------------------------------------------------------------------------
(* The node ledger. *)

ReceiptKeys ==
    {"acceptanceContract", "documentationRequired", "testContract",
     "candidate", "behavior", "uiAdjudication", "uxAcceptance",
     "documentation", "retryAuthorization", "terminal"}
NoReceipts == [k \in ReceiptKeys |-> NoValue]

(* Mutant: the fields that are not carried are dropped from the object. *)
CarriedOnly ==
    [k \in {"acceptanceContract", "documentationRequired"} |-> receipts[k]]

(* Mutant: a base change keeps every receipt. *)
CarriedAll == receipts

(* The receipts a base change carries to the next incarnation. *)
Carried == [k \in ReceiptKeys |->
    IF k \in {"acceptanceContract", "documentationRequired"}
    THEN receipts[k] ELSE NoValue]

(* The artifacts of a result, by what they are about. *)
NewReceipts(c, r) ==
    CASE c.id = "test-contract-writer" ->
             [receipts EXCEPT !.testContract = TRUE]
      [] c.id = "implementation-candidate" ->
             [receipts EXCEPT !.candidate = r.candidate]
      [] c.id = "implementation-retry" ->
             [receipts EXCEPT !.retryAuthorization = TRUE]
      [] c.id = "behavior-verification" ->
             [receipts EXCEPT !.behavior = r.candidate]
      [] c.id = "ui-adjudication" ->
             [receipts EXCEPT !.uiAdjudication =
                 [candidate |-> r.candidate, contract |-> r.contract]]
      [] c.id = "ux-acceptance" ->
             [receipts EXCEPT !.uxAcceptance =
                 [candidate |-> r.candidate, adjudication |-> r.adjudication]]
      [] c.id \in {"documentation-change", "documentation-no-change"} ->
             [receipts EXCEPT !.documentation = TRUE]
      [] OTHER -> receipts

(* Only a rejection and a terminal writer failure name a failure. *)
Failing == {"behavior-rejection", "test-contract-terminal-failure",
            "implementation-terminal-failure",
            "documentation-terminal-failure"}

(* The ledger keeps the first failure and refuses any event that names     *)
(* another one; it refuses the event, not the result.                      *)
FailureAgrees(c, r) ==
    c.id \in Failing => firstFailure \in {NoValue, r.failure}

Permitted(c) == <<c.event, state, c.to>> \in Transitions

(* Mutant: a rejection does not count. *)
AppendNodeEventUncounted(c, r) ==
    /\ Permitted(c)
    /\ FailureAgrees(c, r)
    /\ ledger' = Append(ledger, c.id)
    /\ state' = c.to
    /\ receipts' = NewReceipts(c, r)
    /\ attempts' = attempts + c.delta
    /\ firstFailure' = IF c.id \in Failing THEN r.failure ELSE firstFailure
    /\ UNCHANGED <<deliveryCommit, closedAt, rework>>

(* The event of an admitted result, and what replaying it changes. *)
AppendNodeEvent(c, r) ==
    /\ Permitted(c)
    /\ FailureAgrees(c, r)
    /\ ledger' = Append(ledger, c.id)
    /\ state' = c.to
    /\ receipts' = NewReceipts(c, r)
    /\ attempts' = attempts + c.delta
    /\ rework' = IF c.id = "behavior-rejection" THEN r.rework ELSE rework
    /\ firstFailure' = IF c.id \in Failing THEN r.failure ELSE firstFailure
    /\ UNCHANGED <<deliveryCommit, closedAt>>

-----------------------------------------------------------------------------

Init ==
    /\ uiClass \in UiClasses
    /\ ledger = <<>>
    /\ state = "none"
    /\ receipts = NoReceipts
    /\ attempts = 0
    /\ rework = 0
    /\ firstFailure = NoValue
    /\ deliveryCommit = NoValue
    /\ closedAt = NoValue
    /\ epoch = 1
    /\ base = 0
    /\ delivered = FALSE
    /\ dispatch = NoValue
    /\ candidates = <<>>
    /\ up = TRUE
    /\ faults = 0

-----------------------------------------------------------------------------
(* Dispatched actions. *)

(* The compiler offers an action that needs an actor, and a dispatch       *)
(* record binds it to the incarnation and to the head of its ledger.       *)
Dispatch ==
    /\ up
    /\ dispatch = NoValue
    /\ StateAction \in SlotActions
    /\ dispatch' = [action |-> StateAction, epoch |-> epoch,
                    head |-> Len(ledger), base |-> base,
                    contract |-> receipts.acceptanceContract,
                    result |-> NoValue, recorded |-> FALSE]
    /\ UNCHANGED <<uiClass, projection, epoch, base, delivered, candidates,
                   up, faults>>

Written == Len(candidates) + 1

(* What a result says, by default nothing. *)
Result(kind, role) ==
    [kind |-> kind, action |-> dispatch.action, role |-> role,
     candidate |-> NoValue, failure |-> NoValue, rework |-> 0,
     verifier |-> "fresh", contract |-> NoValue, adjudication |-> NoValue]

(* The results an actor can come back with.  The planning executor rejects *)
(* a node without an acceptance contract, so nothing comes back then.      *)
WriterResults ==
    CASE dispatch.action = "dispatch-test-contract-writer" ->
             {Result("test-contract-writer", "test-owner")} \cup
             {[Result("test-contract-terminal-failure", "test-owner")
                 EXCEPT !.failure = f] : f \in Failures}
      [] dispatch.action = "dispatch-implementation-writer" ->
             {[Result("implementation-candidate", role)
                 EXCEPT !.candidate = Written] : role \in Implementers} \cup
             {Result("implementation-retry", ExpectedRole)} \cup
             {[Result("implementation-terminal-failure", ExpectedRole)
                 EXCEPT !.failure = f] : f \in Failures}
      [] dispatch.action = "dispatch-documentation-writer" ->
             {Result("documentation-change", "documentation-writer"),
              Result("documentation-no-change", "documentation-writer")} \cup
             {[Result("documentation-terminal-failure",
                      "documentation-writer")
                 EXCEPT !.failure = f] : f \in Failures}
      [] OTHER -> {}

Verification(c, v) ==
    [Result("behavior-verification", "test-owner") EXCEPT
        !.candidate = c, !.verifier = v]
Rejection(c, f, n) ==
    [Result("behavior-rejection", "test-owner") EXCEPT
        !.candidate = c, !.failure = f, !.rework = n]
Adjudication(c) ==
    [Result("ui-adjudication", "ui-system-adjudicator") EXCEPT
        !.candidate = c, !.contract = receipts.acceptanceContract]
Acceptance(c) ==
    [Result("ux-acceptance", "ux-acceptance-verifier") EXCEPT
        !.candidate = c, !.adjudication = receipts.uiAdjudication]

VerifierResults ==
    CASE dispatch.action = "dispatch-behavior-verifier" ->
             {Verification(c, v) :
                 c \in DOMAIN candidates, v \in {"fresh", "writer"}} \cup
             {Rejection(c, f, n) : c \in DOMAIN candidates, f \in Failures,
                                   n \in {rework, rework + 1}}
      [] dispatch.action = "request-ui-adjudication" ->
             {Adjudication(c) : c \in DOMAIN candidates}
      [] dispatch.action = "dispatch-ux-acceptance-verifier" ->
             {Acceptance(c) : c \in DOMAIN candidates}
      [] OTHER -> {}

PlanningResults ==
    CASE dispatch.action = "request-semantic-proposal" ->
             {Result("semantic-proposal", "dag-creator-updater")}
      [] dispatch.action = "request-test-contract-planning"
         /\ dispatch.contract # NoValue ->
             {Result("test-contract-planning", "test-owner")}
      [] OTHER -> {}

Results == WriterResults \cup VerifierResults \cup PlanningResults

(* A result that moves the node forward.  Every other one is a fault. *)
IsGood(r) ==
    /\ r.kind \notin Failing \cup {"implementation-retry"}
    /\ \A c \in Contracts : c.id = r.kind => Admits(c, r)

Fresh == /\ dispatch.epoch = epoch
         /\ dispatch.head = Len(ledger)
         /\ dispatch.base = base

ActorEnds(r) ==
    /\ dispatch # NoValue
    /\ dispatch.result = NoValue
    /\ r \in Results
    /\ IF IsGood(r) \/ ~Fresh
       THEN UNCHANGED faults
       ELSE faults < MaxFaults /\ faults' = faults + 1
    /\ dispatch' = [dispatch EXCEPT !.result = r]
    /\ candidates' = IF r.kind = "implementation-candidate"
                     THEN Append(candidates, dispatch.base)
                     ELSE candidates
    /\ UNCHANGED <<uiClass, projection, epoch, base, delivered, up>>

HasResult == dispatch # NoValue /\ dispatch.result # NoValue

(* The bindings still hold and the admission takes the result. *)
Admissible == Fresh /\ \E c \in Contracts : Admits(c, dispatch.result)

(* The node event of a result.  It survives when the process dies before   *)
(* the dispatch is settled.                                                *)
RecordResult ==
    /\ up
    /\ HasResult
    /\ ~dispatch.recorded
    /\ Fresh
    /\ \E c \in Contracts : /\ Admits(c, dispatch.result)
                            /\ AppendNodeEvent(c, dispatch.result)
    /\ dispatch' = [dispatch EXCEPT !.recorded = TRUE]
    /\ UNCHANGED <<uiClass, epoch, base, delivered, candidates, up, faults>>

(* The ledger refuses the event of an admitted result: this error is none  *)
(* of those that only exclude the result, so it ends the process.          *)
RecordFails ==
    /\ up
    /\ HasResult
    /\ ~dispatch.recorded
    /\ Admissible
    /\ \E c \in Contracts : /\ Admits(c, dispatch.result)
                            /\ ~(Permitted(c)
                                 /\ FailureAgrees(c, dispatch.result))
    /\ up' = FALSE
    /\ UNCHANGED <<uiClass, projection, epoch, base, delivered, dispatch,
                   candidates, faults>>

(* Mutant: a result that cannot be recorded stays where it is. *)
SettleRecorded ==
    /\ up
    /\ HasResult
    /\ dispatch.recorded
    /\ dispatch' = NoValue
    /\ UNCHANGED <<uiClass, projection, epoch, base, delivered, candidates,
                   up, faults>>

(* A recorded result is settled; a stale or invalid one is excluded. *)
Settle ==
    /\ up
    /\ HasResult
    /\ dispatch.recorded \/ ~Admissible
    /\ dispatch' = NoValue
    /\ UNCHANGED <<uiClass, projection, epoch, base, delivered, candidates,
                   up, faults>>

-----------------------------------------------------------------------------
(* Actions of the machine and of the root. *)

(* compile-acceptance-contract; the contract decides about documentation. *)
CompileAcceptanceContract(required) ==
    /\ up
    /\ StateAction = "compile-acceptance-contract"
    /\ ledger' = Append(ledger, "acceptance-contract")
    /\ state' = "acceptance-frozen"
    /\ receipts' = [receipts EXCEPT !.acceptanceContract = epoch,
                                    !.documentationRequired = required]
    /\ UNCHANGED <<uiClass, attempts, rework, firstFailure, deliveryCommit,
                   closedAt, epoch, base, delivered, dispatch, candidates,
                   up, faults>>

(* validateMemberEvidenceChain: what the delivery executor requires. *)
MemberEvidenceChain ==
    /\ Has("candidate") /\ Has("acceptanceContract") /\ Has("testContract")
    /\ receipts.behavior = receipts.candidate
    /\ uiClass = "ui" =>
           /\ Has("uiAdjudication") /\ Has("uxAcceptance")
           /\ receipts.uiAdjudication.candidate = receipts.candidate
           /\ receipts.uiAdjudication.contract = receipts.acceptanceContract
           /\ receipts.uxAcceptance.candidate = receipts.candidate
           /\ receipts.uxAcceptance.adjudication = receipts.uiAdjudication
    /\ receipts.documentationRequired = TRUE => Has("documentation")

(* A group is delivered once (groupReady looks at deliveryEffects). *)
Deliver ==
    /\ up
    /\ dispatch = NoValue
    /\ StateAction = "deliver-acceptance-group"
    /\ ~delivered
    /\ MemberEvidenceChain
    /\ ledger' = Append(ledger, "delivery-completed")
    /\ state' = "cleaning"
    /\ deliveryCommit' = receipts.candidate
    /\ delivered' = TRUE
    /\ UNCHANGED <<uiClass, receipts, attempts, rework, firstFailure,
                   closedAt, epoch, base, dispatch, candidates, up, faults>>

CleanupAndClose ==
    /\ up
    /\ dispatch = NoValue
    /\ StateAction = "cleanup-node-resources"
    /\ ledger' = Append(ledger, "cleanup-and-closure")
    /\ state' = "closed"
    /\ closedAt' = Len(ledger) + 1
    /\ UNCHANGED <<uiClass, receipts, attempts, rework, firstFailure,
                   deliveryCommit, epoch, base, delivered, dispatch,
                   candidates, up, faults>>

(* The terminal receipt names the first failure and the ledger head it was *)
(* compiled from; without a failure there is nothing to terminalize.       *)
Terminalize ==
    /\ up
    /\ dispatch = NoValue
    /\ StateAction = "terminalize-node"
    /\ firstFailure # NoValue
    /\ ledger' = Append(ledger, "terminalization")
    /\ receipts' = [receipts EXCEPT !.terminal =
                       [failure |-> firstFailure, head |-> Len(ledger)]]
    /\ UNCHANGED <<uiClass, state, attempts, rework, firstFailure,
                   deliveryCommit, closedAt, epoch, base, delivered,
                   dispatch, candidates, up, faults>>

-----------------------------------------------------------------------------
(* Base changes and crashes. *)

(* recordLifecycleBaseChange: as soon as some node of the repository is    *)
(* being planned, every open node of it starts a new incarnation.          *)
Rebind ==
    /\ up
    /\ base < MaxBase
    /\ state \notin {"closed", "terminal"}
    /\ base' = base + 1
    /\ epoch' = epoch + 1
    /\ ledger' = <<"base-rebound">>
    /\ state' = "acceptance-frozen"
    /\ receipts' = Carried
    /\ attempts' = 0
    /\ rework' = 0
    /\ firstFailure' = NoValue
    /\ deliveryCommit' = NoValue
    /\ closedAt' = NoValue
    /\ UNCHANGED <<uiClass, delivered, dispatch, candidates, up, faults>>

Crash ==
    /\ up
    /\ faults < MaxFaults
    /\ faults' = faults + 1
    /\ up' = FALSE
    /\ UNCHANGED <<uiClass, projection, epoch, base, delivered, dispatch,
                   candidates>>

(* A new process takes the unsettled dispatch over, with its result. *)
Restart ==
    /\ ~up
    /\ up' = TRUE
    /\ UNCHANGED <<uiClass, projection, epoch, base, delivered, dispatch,
                   candidates, faults>>

-----------------------------------------------------------------------------

Process ==
    \/ Dispatch
    \/ RecordResult
    \/ RecordFails
    \/ Settle
    \/ \E required \in BOOLEAN : CompileAcceptanceContract(required)
    \/ Deliver
    \/ CleanupAndClose
    \/ Terminalize
    \/ Restart

Actor == dispatch # NoValue /\ \E r \in Results : ActorEnds(r)

Next == Process \/ Actor \/ Rebind \/ Crash

Spec == Init /\ [][Next]_vars

(* The event loop goes on and is started again; actors have deadlines. *)
Fairness == WF_vars(Process) /\ WF_vars(Actor)

FairSpec == Spec /\ Fairness

-----------------------------------------------------------------------------

Provenance(S) == S \cup {NoValue}

TypeOK ==
    /\ uiClass \in UiClasses
    /\ ledger \in Seq(ContractIds \cup {"base-rebound"})
    /\ state \in {t[2] : t \in Transitions} \cup {t[3] : t \in Transitions}
    /\ DOMAIN receipts = ReceiptKeys
    /\ receipts.candidate \in Provenance(DOMAIN candidates)
    /\ receipts.behavior \in Provenance(DOMAIN candidates)
    /\ receipts.acceptanceContract \in Provenance(1 .. epoch)
    /\ receipts.documentationRequired \in Provenance(BOOLEAN)
    /\ attempts \in Nat /\ rework \in Nat
    /\ firstFailure \in Provenance(Failures)
    /\ deliveryCommit \in Provenance(DOMAIN candidates)
    /\ closedAt \in Provenance(Nat)
    /\ epoch \in Nat /\ base \in 0 .. MaxBase
    /\ delivered \in BOOLEAN /\ up \in BOOLEAN
    /\ faults \in 0 .. MaxFaults
    /\ candidates \in Seq(0 .. MaxBase)

(* The lifecycle of a node implements IssueLife: whatever is returned, and *)
(* whenever the base moves, a candidate that lands is the one a standing   *)
(* verification is about, and a base change leaves no candidate behind     *)
(* (stateAction, validateCrossArtifactBindings, baseCarryForwardEvent).    *)
Number(v) == IF v = NoValue THEN 0 ELSE v

Life == INSTANCE IssueLife WITH
    phase <- CASE state \in {"none", "discovered", "acceptance-frozen",
                             "test-contracting"} -> "planning"
               [] state \in {"test-contract-frozen",
                             "implementing-self-testing"} -> "building"
               [] state = "candidate-green" -> "submitted"
               [] state \in {"behavior-green", "ux-accepted",
                             "documentation-green"} -> "verified"
               [] state = "cleaning" -> "delivered"
               [] OTHER -> state,
    candidate <- Number(receipts.candidate),
    verified <- Number(receipts.behavior),
    landed <- Number(deliveryCommit)

LifeSpec == Life!Spec

(* Evidence outlives the incarnation it was collected in only where the    *)
(* base does not matter: a candidate under consideration was written on    *)
(* the base of the node, and every attestation of a delivered node is      *)
(* about that candidate, also those of the UI, which are collected apart.  *)
EvidenceOfCurrentBase ==
    /\ Has("candidate") => candidates[receipts.candidate] = base
    /\ state \in {"cleaning", "closed"} /\ uiClass # "non-ui" =>
           /\ receipts.uxAcceptance.candidate = deliveryCommit
           /\ receipts.uxAcceptance.adjudication.candidate = deliveryCommit
           /\ receipts.uxAcceptance.adjudication.contract
                  = receipts.acceptanceContract

(* The counters of a node tell what its ledger tells, crash or not, so     *)
(* that no result is counted twice: reworkCount is the number of verifier  *)
(* rejections and of nothing else, implementationAttempts the number of    *)
(* writer results (compileNodeEffect, validateLifecycleIntegrationEvent).  *)
Count(ids) == Cardinality({i \in DOMAIN ledger : ledger[i] \in ids})

CountersAgree ==
    /\ rework = Count({"behavior-rejection"})
    /\ attempts = Count({"implementation-candidate", "implementation-retry",
                         "implementation-terminal-failure"})
    /\ firstFailure # NoValue <=> Count(Failing) > 0
    /\ closedAt # NoValue => closedAt = Len(ledger)

(* A node that ended stays as it ended: no late result, repeated action,   *)
(* restart or move of the base touches its projection (stateAction,        *)
(* recordLifecycleBaseChange, currentNodeForDispatchedResult).             *)
Ended == state = "closed" \/ Has("terminal")

EndedForever == [][Ended => UNCHANGED projection]_vars

(* The three ways a node gets stuck: its actor names another failure than  *)
(* the recorded one, a base change carried it past a contract it never     *)
(* had, or it has to be delivered again.                                   *)
FailureConflict ==
    /\ HasResult
    /\ ~dispatch.recorded
    /\ dispatch.result.failure # NoValue
    /\ firstFailure \notin {NoValue, dispatch.result.failure}
LostContract == state = "acceptance-frozen" /\ ~Has("acceptanceContract")
DeliveredBefore == StateAction = "deliver-acceptance-group" /\ delivered

(* Once faults and base changes stop, a node is closed or terminal, unless *)
(* it is stuck in one of these ways.                                       *)
NodeEnds == <>[](Ended \/ FailureConflict \/ LostContract \/ DeliveredBefore)

(* references/review-failure-and-verification.md says that the root counts *)
(* every confirmed rejection: one that is pending does not stay pending.   *)
RejectionPending ==
    /\ HasResult
    /\ Fresh
    /\ dispatch.result.kind = "behavior-rejection"
    /\ dispatch.result.candidate = receipts.candidate
    /\ dispatch.result.rework = rework + 1

RejectionCounted == RejectionPending ~> ~RejectionPending
=============================================================================
