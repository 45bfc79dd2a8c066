------------------------ MODULE NodeLifecycle_proofs ------------------------
(***************************************************************************)
(* What the node ledger of an issue counts, and that an ended node stays   *)
(* as it is, for any number of faults and moves of the base.               *)
(***************************************************************************)
EXTENDS NodeLifecycle, FiniteSetTheorems, TLAPS

RootEntries ==
    {"acceptance-contract", "delivery-completed", "cleanup-and-closure", "terminalization",
     "base-rebound"}
Entries == ContractIds \cup RootEntries

WriterIds ==
    {"implementation-candidate", "implementation-retry", "implementation-terminal-failure"}

CountIn(l, ids) == Cardinality({i \in DOMAIN l : l[i] \in ids})

-----------------------------------------------------------------------------
(* The table of contracts. *)

LEMMA ContractCounts ==
    ASSUME NEW c \in Contracts
    PROVE  c.delta = IF c.id \in WriterIds THEN 1 ELSE 0
BY DEF Contracts, WriterIds

LEMMA ContractFailures ==
    ASSUME NEW c \in Contracts
    PROVE  c.id \in Failing <=> "executorFailure" \in c.artifacts
                                \/ "verificationRejection" \in c.artifacts
<1>1. "executorFailure" \in WriterTerminalFailureArtifacts
      /\ "verificationRejection" \in BehaviorRejectionArtifacts
  BY DEF WriterTerminalFailureArtifacts, BehaviorRejectionArtifacts
<1>2. ASSUME NEW s \in {"executorFailure", "verificationRejection"}
      PROVE  /\ s \notin SemanticArtifacts /\ s \notin AcceptanceArtifacts
             /\ s \notin PlanningArtifacts /\ s \notin TestWriterArtifacts
             /\ s \notin ImplementationSuccessArtifacts /\ s \notin ImplementationFailureArtifacts
             /\ s \notin BehaviorArtifacts /\ s \notin UiAdjudicationArtifacts
             /\ s \notin UxArtifacts /\ s \notin DocumentationChangeArtifacts
             /\ s \notin DocumentationNoChangeArtifacts /\ s \notin DeliveryObservedArtifacts
             /\ s \notin DeliveryCompletedArtifacts /\ s \notin CleanupArtifacts
             /\ s \notin TerminalArtifacts
  BY DEF ObserveOnly, Writing, SemanticArtifacts, AcceptanceArtifacts, PlanningArtifacts,
         TestWriterArtifacts, ImplementationSuccessArtifacts, ImplementationFailureArtifacts,
         BehaviorArtifacts, UiAdjudicationArtifacts, UxArtifacts, DocumentationChangeArtifacts,
         DocumentationNoChangeArtifacts, DeliveryObservedArtifacts, DeliveryCompletedArtifacts,
         CleanupArtifacts, TerminalArtifacts
<1>3. QED
  BY <1>1, <1>2 DEF Contracts, Failing

LEMMA StateActionEnds ==
    /\ Ended => StateAction = "none"
    /\ StateAction # "none" => ~Has("terminal") /\ state # "closed"
    /\ StateAction = "terminalize-node" => state = "terminal"
    /\ StateAction \in SlotActions => state # "terminal"
BY DEF StateAction, ActionRule, Ended, SlotActions

LEMMA EntriesCount ==
    ASSUME NEW l \in Seq(Entries), NEW x \in Entries, NEW ids
    PROVE  /\ CountIn(l, ids) \in Nat
           /\ CountIn(Append(l, x), ids) = IF x \in ids THEN CountIn(l, ids) + 1
                                          ELSE CountIn(l, ids)
<1> DEFINE n == Len(l)
           m == Append(l, x)
           S == {i \in DOMAIN l : l[i] \in ids}
           T == {i \in DOMAIN m : m[i] \in ids}
<1>1. /\ n \in Nat /\ DOMAIN l = 1 .. n /\ DOMAIN m = 1 .. n + 1 /\ m[n + 1] = x
      /\ \A i \in 1 .. n : m[i] = l[i]
  OBVIOUS
<1>2. IsFiniteSet(S) /\ Cardinality(S) \in Nat
  <2>1. IsFiniteSet(1 .. n)
    BY <1>1, FS_Interval
  <2>2. S \subseteq 1 .. n
    BY <1>1
  <2> HIDE DEF S, n
  <2>3. QED
    BY <2>1, <2>2, FS_Subset, FS_CardinalityType
<1>3. n + 1 \notin S
  BY <1>1
<1>4. T = IF x \in ids THEN S \cup {n + 1} ELSE S
  <2> HIDE DEF m, n
  <2>1. \A i : i \in T <=> i \in S \/ (i = n + 1 /\ x \in ids)
    BY <1>1
  <2> HIDE DEF S, T
  <2>2. QED
    BY <2>1
<1> HIDE DEF S, T, n
<1>5. Cardinality(T) = IF x \in ids THEN Cardinality(S) + 1 ELSE Cardinality(S)
  BY <1>2, <1>3, <1>4, FS_AddElement
<1>6. QED
  BY <1>2, <1>5 DEF CountIn, S, T, m

-----------------------------------------------------------------------------
(* The invariant. *)

LifeTyped ==
    /\ ledger \in Seq(Entries)
    /\ DOMAIN receipts = ReceiptKeys
    /\ epoch \in Nat /\ attempts \in Nat /\ rework \in Nat

TerminalState == Has("terminal") => state = "terminal"

(* A dispatch is of the past, and one that is fresh is of the due action. *)
Due ==
    dispatch # NoValue =>
        /\ DOMAIN dispatch = {"action", "epoch", "head", "base", "contract", "result",
                              "recorded"}
        /\ dispatch.action \in SlotActions
        /\ dispatch.epoch \in Nat /\ dispatch.epoch <= epoch
        /\ dispatch.epoch = epoch => dispatch.head \in Nat /\ dispatch.head <= Len(ledger)
        /\ Fresh => StateAction = dispatch.action

(* A result that failed names its failure. *)
Named ==
    dispatch # NoValue /\ dispatch.result # NoValue =>
        /\ dispatch.result.kind \in ContractIds
        /\ dispatch.result.kind \in Failing => dispatch.result.failure \in Failures

Closing == closedAt # NoValue => state = "closed" /\ closedAt = Len(ledger)

Counting ==
    /\ rework = CountIn(ledger, {"behavior-rejection"})
    /\ attempts = CountIn(ledger, WriterIds)
    /\ firstFailure # NoValue <=> CountIn(ledger, Failing) > 0

LifeInv == LifeTyped /\ TerminalState /\ Due /\ Named /\ Closing /\ Counting

LEMMA CountingIsAgreement == Counting /\ Closing => CountersAgree
BY DEF Counting, Closing, CountersAgree, Count, CountIn, WriterIds

LEMMA LifeStarts == Init => LifeInv
<1> SUFFICES ASSUME Init PROVE LifeInv
  OBVIOUS
<1>1. /\ ledger = <<>> /\ receipts = [k \in ReceiptKeys |-> NoValue] /\ dispatch = NoValue
      /\ rework = 0 /\ attempts = 0 /\ firstFailure = NoValue /\ closedAt = NoValue
      /\ epoch = 1
  BY DEF Init, NoReceipts
<1>2. LifeTyped
  BY <1>1 DEF LifeTyped
<1>3. ~Has("terminal")
  BY <1>1 DEF Has, ReceiptKeys
<1>4. ASSUME NEW ids PROVE CountIn(ledger, ids) = 0
  <2>1. {i \in DOMAIN ledger : ledger[i] \in ids} = {}
    BY <1>1
  <2>2. QED
    BY <2>1, FS_EmptySet DEF CountIn
<1>5. Counting
  BY <1>1, <1>4 DEF Counting
<1>6. QED
  BY <1>1, <1>2, <1>3, <1>5 DEF LifeInv, TerminalState, Due, Named, Closing

-----------------------------------------------------------------------------
(* Steps that leave the ledger alone. *)

LEMMA DueStays ==
    ASSUME LifeInv, UNCHANGED <<uiClass, projection, epoch, base>>,
           \/ dispatch' = NoValue
           \/ dispatch' = dispatch
           \/ dispatch # NoValue /\ \E r : dispatch' = [dispatch EXCEPT !.result = r]
    PROVE  Due'
<1> SUFFICES ASSUME dispatch' # NoValue
             PROVE  Due'
  BY DEF Due
<1>1. UNCHANGED <<uiClass, ledger, state, receipts, epoch, base>>
  BY DEF projection
<1>2. StateAction' = StateAction
  BY <1>1 DEF StateAction, Has
<1>3. /\ dispatch # NoValue
      /\ dispatch'.action = dispatch.action /\ dispatch'.epoch = dispatch.epoch
      /\ dispatch'.head = dispatch.head /\ dispatch'.base = dispatch.base
      /\ DOMAIN dispatch' = DOMAIN dispatch
  <2>1. CASE dispatch' = dispatch
    BY <2>1
  <2>2. CASE dispatch # NoValue /\ \E r : dispatch' = [dispatch EXCEPT !.result = r]
    BY <2>2 DEF LifeInv, Due
  <2>3. QED
    BY <2>1, <2>2
<1>4. Fresh' <=> Fresh
  BY <1>1, <1>3 DEF Fresh
<1>5. QED
  BY <1>1, <1>2, <1>3, <1>4 DEF LifeInv, Due

LEMMA QuietKeeps ==
    ASSUME LifeInv, UNCHANGED <<uiClass, projection, epoch, base>>, Due', Named'
    PROVE  LifeInv'
<1>1. UNCHANGED <<ledger, state, receipts, attempts, rework, firstFailure, closedAt, epoch>>
  BY DEF projection
<1>2. QED
  BY <1>1 DEF LifeInv, LifeTyped, TerminalState, Has, Closing, Counting

LEMMA DispatchKeeps ==
    ASSUME LifeInv, Dispatch
    PROVE  LifeInv'
<1>1. /\ UNCHANGED <<uiClass, projection, epoch, base>>
      /\ StateAction \in SlotActions
      /\ dispatch' = [action |-> StateAction, epoch |-> epoch,
                      head |-> Len(ledger), base |-> base,
                      contract |-> receipts.acceptanceContract,
                      result |-> NoValue, recorded |-> FALSE]
  BY DEF Dispatch
<1>2. UNCHANGED <<uiClass, ledger, state, receipts, epoch, base>>
  BY <1>1 DEF projection
<1>3. StateAction' = StateAction
  BY <1>2 DEF StateAction, Has
<1>4. epoch \in Nat /\ Len(ledger) \in Nat
  BY DEF LifeInv, LifeTyped
<1>5. /\ DOMAIN dispatch' = {"action", "epoch", "head", "base", "contract", "result", "recorded"}
      /\ dispatch'.action = StateAction /\ dispatch'.epoch = epoch
      /\ dispatch'.head = Len(ledger) /\ dispatch'.result = NoValue
  BY <1>1
<1>6. Due'
  BY <1>1, <1>2, <1>3, <1>4, <1>5 DEF Due
<1>7. Named'
  BY <1>5 DEF Named
<1>8. QED
  BY <1>1, <1>6, <1>7, QuietKeeps

(* A result answers its dispatch, is of one kind, and names its failure if *)
(* it failed; one with a candidate names the commit just written.          *)
Names(r) ==
    /\ r.action = dispatch.action
    /\ r.kind \in ContractIds
    /\ r.kind \in Failing => r.failure \in Failures
    /\ r.kind = "implementation-candidate" => r.candidate = Written

LEMMA KindsNamed ==
    ASSUME NEW r, r.action = dispatch.action
    PROVE  /\ r.kind \in {"test-contract-writer", "implementation-retry",
                          "documentation-change", "documentation-no-change",
                          "behavior-verification", "ui-adjudication", "ux-acceptance",
                          "semantic-proposal", "test-contract-planning"} => Names(r)
           /\ r.kind = "implementation-candidate" /\ r.candidate = Written => Names(r)
           /\ r.kind \in Failing /\ r.failure \in Failures => Names(r)
<1>1. {"test-contract-writer", "test-contract-terminal-failure", "implementation-candidate",
       "implementation-retry", "implementation-terminal-failure", "documentation-change",
       "documentation-no-change", "documentation-terminal-failure", "behavior-verification",
       "behavior-rejection", "ui-adjudication", "ux-acceptance", "semantic-proposal",
       "test-contract-planning"} \subseteq ContractIds
  BY DEF ContractIds, Contracts
<1>2. QED
  BY <1>1 DEF Names, Failing

LEMMA WritersNamed ==
    ASSUME NEW r \in WriterResults
    PROVE  Names(r)
<1>1. ASSUME NEW kind, NEW role, NEW f
      PROVE  /\ Result(kind, role).kind = kind
             /\ Result(kind, role).action = dispatch.action
             /\ [Result(kind, role) EXCEPT !.failure = f].kind = kind
             /\ [Result(kind, role) EXCEPT !.failure = f].action = dispatch.action
             /\ [Result(kind, role) EXCEPT !.failure = f].failure = f
             /\ [Result(kind, role) EXCEPT !.candidate = f].kind = kind
             /\ [Result(kind, role) EXCEPT !.candidate = f].action = dispatch.action
             /\ [Result(kind, role) EXCEPT !.candidate = f].candidate = f
  BY DEF Result
<1>2. CASE dispatch.action = "dispatch-test-contract-writer"
  <2>1. CASE r = Result("test-contract-writer", "test-owner")
    BY <1>1, <2>1, KindsNamed
  <2>2. ASSUME NEW f \in Failures,
               r = [Result("test-contract-terminal-failure", "test-owner")
                      EXCEPT !.failure = f]
        PROVE  Names(r)
    <3>1. /\ r.kind = "test-contract-terminal-failure" /\ r.failure = f
          /\ r.action = dispatch.action
      BY <1>1, <2>2
    <3>2. QED
      BY <3>1, KindsNamed DEF Failing
  <2>3. QED
    BY <1>2, <2>1, <2>2 DEF WriterResults
<1>3. CASE dispatch.action = "dispatch-implementation-writer"
  <2>1. ASSUME NEW role, r = [Result("implementation-candidate", role)
                                EXCEPT !.candidate = Written]
        PROVE  Names(r)
    <3>1. /\ r.kind = "implementation-candidate" /\ r.candidate = Written
          /\ r.action = dispatch.action
      BY <1>1, <2>1
    <3>2. QED
      BY <3>1, KindsNamed
  <2>2. CASE r = Result("implementation-retry", ExpectedRole)
    BY <1>1, <2>2, KindsNamed
  <2>3. ASSUME NEW f \in Failures,
               r = [Result("implementation-terminal-failure", ExpectedRole)
                      EXCEPT !.failure = f]
        PROVE  Names(r)
    <3>1. /\ r.kind = "implementation-terminal-failure" /\ r.failure = f
          /\ r.action = dispatch.action
      BY <1>1, <2>3
    <3>2. QED
      BY <3>1, KindsNamed DEF Failing
  <2>4. QED
    BY <1>3, <2>1, <2>2, <2>3 DEF WriterResults
<1>4. CASE dispatch.action = "dispatch-documentation-writer"
  <2>1. CASE r \in {Result("documentation-change", "documentation-writer"),
                    Result("documentation-no-change", "documentation-writer")}
    BY <1>1, <2>1, KindsNamed
  <2>2. ASSUME NEW f \in Failures,
               r = [Result("documentation-terminal-failure", "documentation-writer")
                      EXCEPT !.failure = f]
        PROVE  Names(r)
    <3>1. /\ r.kind = "documentation-terminal-failure" /\ r.failure = f
          /\ r.action = dispatch.action
      BY <1>1, <2>2
    <3>2. QED
      BY <3>1, KindsNamed DEF Failing
  <2>3. QED
    BY <1>4, <2>1, <2>2 DEF WriterResults
<1>5. QED
  BY <1>2, <1>3, <1>4 DEF WriterResults

LEMMA VerifiersNamed ==
    ASSUME NEW r \in VerifierResults
    PROVE  Names(r)
<1>1. ASSUME NEW c, NEW v, NEW f
      PROVE  /\ Verification(c, v).kind = "behavior-verification"
             /\ Rejection(c, f, v).kind = "behavior-rejection"
             /\ Rejection(c, f, v).failure = f
             /\ Adjudication(c).kind = "ui-adjudication"
             /\ Acceptance(c).kind = "ux-acceptance"
  BY DEF Verification, Rejection, Adjudication, Acceptance, Result
<1>2. ASSUME NEW c, NEW v, NEW f
      PROVE  /\ Verification(c, v).action = dispatch.action
             /\ Rejection(c, f, v).action = dispatch.action
             /\ Adjudication(c).action = dispatch.action
             /\ Acceptance(c).action = dispatch.action
  BY DEF Verification, Rejection, Adjudication, Acceptance, Result
<1>3. \/ \E c, v : r = Verification(c, v)
      \/ \E c, n : \E f \in Failures : r = Rejection(c, f, n)
      \/ \E c : r \in {Adjudication(c), Acceptance(c)}
  BY DEF VerifierResults
<1>4. \/ r.kind \in {"behavior-verification", "ui-adjudication", "ux-acceptance"}
      \/ r.kind = "behavior-rejection" /\ r.failure \in Failures
  BY <1>1, <1>3
<1>5. r.action = dispatch.action
  BY <1>2, <1>3
<1>6. QED
  BY <1>4, <1>5, KindsNamed DEF Failing

LEMMA ResultsNamed ==
    ASSUME NEW r \in Results
    PROVE  Names(r)
<1>1. CASE r \in PlanningResults
  <2>1. /\ r.kind \in {"semantic-proposal", "test-contract-planning"}
        /\ r.action = dispatch.action
    BY <1>1 DEF PlanningResults, Result
  <2>2. QED
    BY <2>1, KindsNamed
<1>2. QED
  BY <1>1, WritersNamed, VerifiersNamed DEF Results

LEMMA ActorKeeps ==
    ASSUME LifeInv, NEW r, ActorEnds(r)
    PROVE  LifeInv'
<1>1. /\ UNCHANGED <<uiClass, projection, epoch, base>> /\ r \in Results
      /\ dispatch # NoValue /\ dispatch' = [dispatch EXCEPT !.result = r]
  BY DEF ActorEnds
<1>2. dispatch'.result = r
  BY <1>1 DEF LifeInv, Due
<1>3. Named'
  BY <1>1, <1>2, ResultsNamed DEF Named, Names
<1>4. QED
  BY <1>1, <1>3, DueStays, QuietKeeps

LEMMA SettleKeeps ==
    ASSUME LifeInv, RecordFails \/ Settle \/ Crash \/ Restart
    PROVE  LifeInv'
<1>1. /\ UNCHANGED <<uiClass, projection, epoch, base>>
      /\ dispatch' = NoValue \/ dispatch' = dispatch
  BY DEF RecordFails, Settle, Crash, Restart
<1>2. Named'
  BY <1>1 DEF LifeInv, Named
<1>3. QED
  BY <1>1, <1>2, DueStays, QuietKeeps

-----------------------------------------------------------------------------
(* Steps that append to the ledger. *)

(* A dispatch that was fresh is stale after an append. *)
LEMMA DueAfterAppend ==
    ASSUME LifeInv, NEW x \in Entries, ledger' = Append(ledger, x), epoch' = epoch,
           \/ dispatch' = dispatch
           \/ dispatch # NoValue /\ dispatch' = [dispatch EXCEPT !.recorded = TRUE]
    PROVE  ledger' \in Seq(Entries) /\ Due' /\ Named'
<1>1. /\ ledger' \in Seq(Entries) /\ Len(ledger') = Len(ledger) + 1 /\ Len(ledger) \in Nat
      /\ epoch \in Nat
  BY DEF LifeInv, LifeTyped
<1>2. SUFFICES ASSUME dispatch # NoValue \/ dispatch' = dispatch
               PROVE  Due' /\ Named'
  BY <1>1
<1>3. dispatch' # NoValue => /\ dispatch # NoValue
      /\ dispatch'.action = dispatch.action /\ dispatch'.epoch = dispatch.epoch
      /\ dispatch'.head = dispatch.head /\ dispatch'.result = dispatch.result
      /\ DOMAIN dispatch' = DOMAIN dispatch
  <2>1. CASE dispatch' = dispatch
    BY <2>1
  <2>2. CASE dispatch # NoValue /\ dispatch' = [dispatch EXCEPT !.recorded = TRUE]
    BY <2>2 DEF LifeInv, Due
  <2>3. QED
    BY <2>1, <2>2
<1>4. dispatch' # NoValue => ~Fresh'
  BY <1>1, <1>3 DEF LifeInv, Due, Fresh
<1>5. Due'
  BY <1>1, <1>3, <1>4 DEF LifeInv, Due
<1>6. Named'
  BY <1>3 DEF LifeInv, Named
<1>7. QED
  BY <1>5, <1>6

(* The entries of the root and the machine count for nothing. *)
LEMMA RootEntryCounts ==
    ASSUME LifeInv, NEW x \in RootEntries, ledger' = Append(ledger, x),
           UNCHANGED <<attempts, rework, firstFailure>>
    PROVE  Counting'
<1>1. x \notin {"behavior-rejection"} /\ x \notin WriterIds /\ x \notin Failing /\ x \in Entries
  BY DEF RootEntries, WriterIds, Failing, Entries
<1>2. ledger \in Seq(Entries)
  BY DEF LifeInv, LifeTyped
<1>3. \A ids : x \notin ids => CountIn(ledger', ids) = CountIn(ledger, ids)
  BY <1>1, <1>2, EntriesCount
<1>4. QED
  BY <1>1, <1>3 DEF LifeInv, Counting

LEMMA CompileKeeps ==
    ASSUME LifeInv, NEW required, CompileAcceptanceContract(required)
    PROVE  LifeInv'
<1> DEFINE x == "acceptance-contract"
<1>1. x \in RootEntries /\ x \in Entries
  BY DEF RootEntries, Entries
<1>2. /\ ledger' = Append(ledger, x) /\ StateAction = "compile-acceptance-contract"
      /\ UNCHANGED <<attempts, rework, firstFailure, closedAt, epoch, dispatch>>
      /\ receipts' = [receipts EXCEPT !.acceptanceContract = epoch,
                                      !.documentationRequired = required]
  BY DEF CompileAcceptanceContract
<1>3. ~Has("terminal") /\ state # "closed"
  BY <1>2, StateActionEnds
<1>4. DOMAIN receipts' = ReceiptKeys /\ receipts'.terminal = receipts.terminal
  BY <1>2 DEF LifeInv, LifeTyped, ReceiptKeys
<1> HIDE DEF x
<1>5. ledger' \in Seq(Entries) /\ Due' /\ Named' /\ Counting'
  BY <1>1, <1>2, DueAfterAppend, RootEntryCounts
<1>6. TerminalState' /\ Closing'
  BY <1>2, <1>3, <1>4 DEF LifeInv, TerminalState, Has, Closing
<1>7. QED
  BY <1>2, <1>4, <1>5, <1>6 DEF LifeInv, LifeTyped

LEMMA DeliverKeeps ==
    ASSUME LifeInv, Deliver
    PROVE  LifeInv'
<1> DEFINE x == "delivery-completed"
<1>1. x \in RootEntries /\ x \in Entries
  BY DEF RootEntries, Entries
<1>2. /\ ledger' = Append(ledger, x) /\ StateAction = "deliver-acceptance-group"
      /\ UNCHANGED <<receipts, attempts, rework, firstFailure, closedAt, epoch, dispatch>>
  BY DEF Deliver
<1>3. ~Has("terminal") /\ state # "closed"
  BY <1>2, StateActionEnds
<1> HIDE DEF x
<1>4. ledger' \in Seq(Entries) /\ Due' /\ Named' /\ Counting'
  BY <1>1, <1>2, DueAfterAppend, RootEntryCounts
<1>5. TerminalState' /\ Closing'
  BY <1>2, <1>3 DEF LifeInv, TerminalState, Has, Closing
<1>6. QED
  BY <1>2, <1>4, <1>5 DEF LifeInv, LifeTyped

LEMMA CleanupKeeps ==
    ASSUME LifeInv, CleanupAndClose
    PROVE  LifeInv'
<1> DEFINE x == "cleanup-and-closure"
<1>1. x \in RootEntries /\ x \in Entries
  BY DEF RootEntries, Entries
<1>2. /\ ledger' = Append(ledger, x) /\ StateAction = "cleanup-node-resources"
      /\ state' = "closed" /\ closedAt' = Len(ledger) + 1
      /\ UNCHANGED <<receipts, attempts, rework, firstFailure, epoch, dispatch>>
  BY DEF CleanupAndClose
<1>3. ~Has("terminal")
  BY <1>2, StateActionEnds
<1> HIDE DEF x
<1>4. ledger' \in Seq(Entries) /\ Due' /\ Named' /\ Counting'
  BY <1>1, <1>2, DueAfterAppend, RootEntryCounts
<1>5. Len(ledger') = Len(ledger) + 1
  BY <1>1, <1>2 DEF LifeInv, LifeTyped
<1>6. TerminalState' /\ Closing'
  BY <1>2, <1>3, <1>5 DEF LifeInv, TerminalState, Has, Closing
<1>7. QED
  BY <1>2, <1>4, <1>6 DEF LifeInv, LifeTyped

LEMMA TerminalizeKeeps ==
    ASSUME LifeInv, Terminalize
    PROVE  LifeInv'
<1> DEFINE x == "terminalization"
<1>1. x \in RootEntries /\ x \in Entries
  BY DEF RootEntries, Entries
<1>2. /\ ledger' = Append(ledger, x) /\ StateAction = "terminalize-node"
      /\ UNCHANGED <<state, attempts, rework, firstFailure, closedAt, epoch, dispatch>>
      /\ \E v : receipts' = [receipts EXCEPT !.terminal = v]
  BY DEF Terminalize
<1>3. state = "terminal"
  BY <1>2, StateActionEnds
<1>4. DOMAIN receipts' = ReceiptKeys
  BY <1>2 DEF LifeInv, LifeTyped
<1> HIDE DEF x
<1>5. ledger' \in Seq(Entries) /\ Due' /\ Named' /\ Counting'
  BY <1>1, <1>2, DueAfterAppend, RootEntryCounts
<1>6. TerminalState' /\ Closing'
  BY <1>2, <1>3 DEF LifeInv, TerminalState, Closing
<1>7. QED
  BY <1>2, <1>4, <1>5, <1>6 DEF LifeInv, LifeTyped

-----------------------------------------------------------------------------
(* The event of a result. *)

LEMMA ReceiptsKept ==
    ASSUME LifeTyped, NEW c, NEW r
    PROVE  /\ DOMAIN NewReceipts(c, r) = ReceiptKeys
           /\ NewReceipts(c, r).terminal = receipts.terminal
<1>1. ASSUME NEW v
      PROVE  /\ DOMAIN [receipts EXCEPT !.testContract = v] = ReceiptKeys
             /\ [receipts EXCEPT !.testContract = v].terminal = receipts.terminal
             /\ DOMAIN [receipts EXCEPT !.candidate = v] = ReceiptKeys
             /\ [receipts EXCEPT !.candidate = v].terminal = receipts.terminal
             /\ DOMAIN [receipts EXCEPT !.retryAuthorization = v] = ReceiptKeys
             /\ [receipts EXCEPT !.retryAuthorization = v].terminal = receipts.terminal
             /\ DOMAIN [receipts EXCEPT !.behavior = v] = ReceiptKeys
             /\ [receipts EXCEPT !.behavior = v].terminal = receipts.terminal
             /\ DOMAIN [receipts EXCEPT !.uiAdjudication = v] = ReceiptKeys
             /\ [receipts EXCEPT !.uiAdjudication = v].terminal = receipts.terminal
             /\ DOMAIN [receipts EXCEPT !.uxAcceptance = v] = ReceiptKeys
             /\ [receipts EXCEPT !.uxAcceptance = v].terminal = receipts.terminal
             /\ DOMAIN [receipts EXCEPT !.documentation = v] = ReceiptKeys
             /\ [receipts EXCEPT !.documentation = v].terminal = receipts.terminal
  BY DEF LifeTyped, ReceiptKeys
<1>2. \/ \E v : \/ NewReceipts(c, r) = [receipts EXCEPT !.testContract = v]
                \/ NewReceipts(c, r) = [receipts EXCEPT !.candidate = v]
                \/ NewReceipts(c, r) = [receipts EXCEPT !.retryAuthorization = v]
                \/ NewReceipts(c, r) = [receipts EXCEPT !.behavior = v]
                \/ NewReceipts(c, r) = [receipts EXCEPT !.uiAdjudication = v]
                \/ NewReceipts(c, r) = [receipts EXCEPT !.uxAcceptance = v]
                \/ NewReceipts(c, r) = [receipts EXCEPT !.documentation = v]
      \/ NewReceipts(c, r) = receipts
  BY DEF NewReceipts
<1>3. QED
  BY <1>1, <1>2 DEF LifeTyped

(* A contract that judges a failed result, and only such a one, fails. *)
LEMMA FailureJudged ==
    ASSUME NEW c \in Contracts, NEW r, Admits(c, r), r.kind \in ContractIds
    PROVE  c.id \in Failing <=> r.kind \in Failing
<1>1. c.artifacts = ContractOf(r.kind).artifacts
  BY DEF Admits, ContractsFor
<1>2. ContractOf(r.kind) \in Contracts /\ ContractOf(r.kind).id = r.kind
  BY DEF ContractOf, ContractIds
<1>3. QED
  BY <1>1, <1>2, ContractFailures

(* Each event counts for what its contract says. *)
LEMMA EventCounts ==
    ASSUME LifeInv, NEW c \in Contracts, NEW r, Admits(c, r), AppendNodeEvent(c, r),
           r.kind \in ContractIds, r.kind \in Failing => r.failure \in Failures
    PROVE  Counting'
<1>1. /\ ledger' = Append(ledger, c.id) /\ attempts' = attempts + c.delta
      /\ rework' = IF c.id = "behavior-rejection" THEN r.rework ELSE rework
      /\ firstFailure' = IF c.id \in Failing THEN r.failure ELSE firstFailure
  BY DEF AppendNodeEvent
<1>2. c.id \in Entries /\ ledger \in Seq(Entries) /\ attempts \in Nat /\ rework \in Nat
  BY DEF Entries, ContractIds, LifeInv, LifeTyped
<1>3. \A ids : /\ CountIn(ledger, ids) \in Nat
               /\ CountIn(ledger', ids) = IF c.id \in ids THEN CountIn(ledger, ids) + 1
                                          ELSE CountIn(ledger, ids)
  BY <1>1, <1>2, EntriesCount
<1>4. c.id = "behavior-rejection" => r.rework = rework + 1
  BY DEF Admits, EvidenceIsCurrent, RejectionIsCurrent
<1>5. rework' = CountIn(ledger', {"behavior-rejection"})
  BY <1>1, <1>3, <1>4 DEF LifeInv, Counting
<1>6. attempts' = CountIn(ledger', WriterIds)
  BY <1>1, <1>2, <1>3, ContractCounts DEF LifeInv, Counting
<1>7. firstFailure' # NoValue <=> CountIn(ledger', Failing) > 0
  <2>1. CASE c.id \in Failing
    <3>1. r.failure # NoValue
      BY <2>1, FailureJudged, NoValueAssumption
    <3>2. QED
      BY <1>1, <1>3, <2>1, <3>1
  <2>2. CASE c.id \notin Failing
    BY <1>1, <1>3, <2>2 DEF LifeInv, Counting
  <2>3. QED
    BY <2>1, <2>2
<1>8. QED
  BY <1>5, <1>6, <1>7 DEF Counting

LEMMA RecordKeeps ==
    ASSUME LifeInv, RecordResult
    PROVE  LifeInv'
<1> DEFINE r == dispatch.result
<1>1. PICK c \in Contracts : Admits(c, r) /\ AppendNodeEvent(c, r)
  BY DEF RecordResult
<1>2. /\ dispatch # NoValue /\ r # NoValue /\ Fresh /\ epoch' = epoch
      /\ dispatch' = [dispatch EXCEPT !.recorded = TRUE]
  BY DEF RecordResult, HasResult
<1>3. ~Has("terminal") /\ state \notin {"closed", "terminal"}
  <2>1. StateAction \in SlotActions
    BY <1>2 DEF LifeInv, Due
  <2>2. "none" \notin SlotActions
    BY DEF SlotActions
  <2>3. QED
    BY <2>1, <2>2, StateActionEnds
<1>4. r.kind \in ContractIds /\ (r.kind \in Failing => r.failure \in Failures)
  BY <1>2 DEF LifeInv, Named
<1> HIDE DEF r
<1>5. Counting'
  BY <1>1, <1>4, EventCounts
<1>6. c.id \in Entries /\ ledger' = Append(ledger, c.id)
  BY <1>1 DEF Entries, ContractIds, AppendNodeEvent
<1>7. ledger' \in Seq(Entries) /\ Due' /\ Named'
  BY <1>2, <1>6, DueAfterAppend
<1>8. /\ DOMAIN receipts' = ReceiptKeys
      /\ receipts'.terminal = receipts.terminal /\ closedAt' = closedAt
  BY <1>1, ReceiptsKept DEF AppendNodeEvent, LifeInv
<1>9. TerminalState' /\ Closing'
  BY <1>3, <1>8 DEF LifeInv, TerminalState, Has, Closing
<1>10. attempts' \in Nat /\ rework' \in Nat
  <2>1. \A ids : CountIn(ledger', ids) \in Nat
    BY <1>7, EntriesCount, "base-rebound" \in Entries DEF Entries, RootEntries
  <2>2. QED
    BY <1>5, <2>1 DEF Counting
<1>11. QED
  BY <1>2, <1>5, <1>7, <1>8, <1>9, <1>10 DEF LifeInv, LifeTyped

LEMMA RebindKeeps ==
    ASSUME LifeInv, Rebind
    PROVE  LifeInv'
<1>1. /\ ledger' = <<"base-rebound">> /\ epoch' = epoch + 1 /\ dispatch' = dispatch
      /\ receipts' = Carried /\ attempts' = 0 /\ rework' = 0
      /\ firstFailure' = NoValue /\ closedAt' = NoValue
  BY DEF Rebind
<1>2. epoch \in Nat
  BY DEF LifeInv, LifeTyped
<1>3. DOMAIN receipts' = ReceiptKeys /\ receipts'.terminal = NoValue
  BY <1>1 DEF Carried, ReceiptKeys
<1>4. "base-rebound" \in Entries
  BY DEF Entries, RootEntries
<1>5. LifeTyped'
  BY <1>1, <1>2, <1>3, <1>4 DEF LifeTyped
<1>6. TerminalState' /\ Closing'
  BY <1>1, <1>3 DEF TerminalState, Has, Closing
<1>7. dispatch # NoValue => dispatch.epoch # epoch' /\ dispatch.epoch <= epoch'
  BY <1>1, <1>2 DEF LifeInv, Due
<1>8. Due'
  BY <1>1, <1>7 DEF LifeInv, Due, Fresh
<1>9. Named'
  BY <1>1 DEF LifeInv, Named
<1>10. Counting'
  <2>1. ASSUME NEW ids, "base-rebound" \notin ids
        PROVE  CountIn(ledger', ids) = 0
    <3>1. {i \in DOMAIN ledger' : ledger'[i] \in ids} = {}
      BY <1>1, <2>1
    <3>2. QED
      BY <3>1, FS_EmptySet DEF CountIn
  <2>2. QED
    BY <1>1, <2>1 DEF Counting, WriterIds, Failing
<1>11. QED
  BY <1>5, <1>6, <1>8, <1>9, <1>10 DEF LifeInv

LEMMA NextKeeps ==
    ASSUME LifeInv, [Next]_vars
    PROVE  LifeInv'
<1>1. CASE UNCHANGED vars
  <2>1. UNCHANGED <<uiClass, projection, epoch, base, dispatch>>
    BY <1>1 DEF vars
  <2>2. Named'
    BY <2>1 DEF LifeInv, Named
  <2>3. QED
    BY <2>1, <2>2, DueStays, QuietKeeps
<1>2. CASE Process
  BY <1>2, DispatchKeeps, RecordKeeps, SettleKeeps, CompileKeeps, DeliverKeeps,
     CleanupKeeps, TerminalizeKeeps DEF Process
<1>3. CASE Actor
  BY <1>3, ActorKeeps DEF Actor
<1>4. CASE Rebind
  BY <1>4, RebindKeeps
<1>5. CASE Crash
  BY <1>5, SettleKeeps
<1>6. QED
  BY <1>1, <1>2, <1>3, <1>4, <1>5 DEF Next

LEMMA LifeHolds == Spec => []LifeInv
<1>1. QED
  BY LifeStarts, NextKeeps, PTL DEF Spec

-----------------------------------------------------------------------------
(* What the evidence of a node is about. *)

Adjudicated ==
    /\ receipts.uiAdjudication.candidate = receipts.candidate
    /\ receipts.uiAdjudication.contract = receipts.acceptanceContract
Accepted ==
    /\ Adjudicated
    /\ receipts.uxAcceptance.candidate = receipts.candidate
    /\ receipts.uxAcceptance.adjudication = receipts.uiAdjudication

BaseTyped ==
    /\ candidates \in Seq(Nat) /\ base \in Nat
    /\ dispatch # NoValue => dispatch.base \in Nat

(* A result answers its dispatch; its candidate is on the base dispatched. *)
Answers ==
    dispatch # NoValue /\ dispatch.result # NoValue =>
        /\ dispatch.result.action = dispatch.action
        /\ dispatch.result.kind = "implementation-candidate" =>
               /\ dispatch.result.candidate \in DOMAIN candidates
               /\ candidates[dispatch.result.candidate] = dispatch.base
               /\ ~dispatch.recorded => dispatch.result.candidate # receipts.candidate

OnBase ==
    Has("candidate") => /\ receipts.candidate \in DOMAIN candidates
                        /\ candidates[receipts.candidate] = base

(* A UI is adjudicated once the behavior is green, and accepted after. *)
UiEvidence ==
    /\ state \in {"none", "discovered", "acceptance-frozen", "test-contracting",
                  "test-contract-frozen", "implementing-self-testing", "candidate-green"}
           => ~Has("uiAdjudication")
    /\ state = "behavior-green" => (Has("uiAdjudication") => Adjudicated)
    /\ Has("uxAcceptance") =>
           state \in {"ux-accepted", "documentation-green", "cleaning", "closed", "terminal"}
    /\ state = "ux-accepted" => Accepted
    /\ state \in {"documentation-green", "cleaning", "closed"} =>
           (uiClass # "non-ui" => Accepted)

Landed == state \in {"cleaning", "closed"} => deliveryCommit = receipts.candidate

EvidenceInv == BaseTyped /\ Answers /\ OnBase /\ UiEvidence /\ Landed

LEMMA EvidenceIsOfBase == EvidenceInv => EvidenceOfCurrentBase
BY DEF EvidenceInv, OnBase, UiEvidence, Landed, Accepted, Adjudicated, EvidenceOfCurrentBase

LEMMA EvidenceStarts == Init => EvidenceInv
<1> SUFFICES ASSUME Init PROVE EvidenceInv
  OBVIOUS
<1>1. /\ receipts = [k \in ReceiptKeys |-> NoValue] /\ dispatch = NoValue
      /\ candidates = <<>> /\ base = 0 /\ state = "none"
  BY DEF Init, NoReceipts
<1>2. ~Has("candidate") /\ ~Has("uiAdjudication") /\ ~Has("uxAcceptance")
  BY <1>1 DEF Has, ReceiptKeys
<1>3. QED
  BY <1>1, <1>2 DEF EvidenceInv, BaseTyped, Answers, OnBase, UiEvidence, Landed

(* Steps that change neither the node nor the candidates. *)
LEMMA EvidenceStays ==
    ASSUME EvidenceInv, UNCHANGED <<uiClass, projection, base, candidates>>,
           BaseTyped', Answers'
    PROVE  EvidenceInv'
<1>1. UNCHANGED <<uiClass, state, receipts, deliveryCommit, base, candidates>>
  BY DEF projection
<1>2. QED
  BY <1>1 DEF EvidenceInv, OnBase, UiEvidence, Landed, Has, Accepted, Adjudicated

LEMMA AnswersStay ==
    ASSUME EvidenceInv, UNCHANGED <<candidates, base>>,
           dispatch' = NoValue \/ dispatch' = dispatch,
           receipts'.candidate = receipts.candidate
    PROVE  BaseTyped' /\ Answers'
BY DEF EvidenceInv, BaseTyped, Answers

LEMMA QuietEvidence ==
    ASSUME LifeInv, EvidenceInv,
           Dispatch \/ RecordFails \/ Settle \/ Crash \/ Restart
    PROVE  EvidenceInv'
<1>1. UNCHANGED <<uiClass, projection, base, candidates>>
  BY DEF Dispatch, RecordFails, Settle, Crash, Restart
<1>2. receipts'.candidate = receipts.candidate
  BY <1>1 DEF projection
<1>3. CASE Dispatch
  <2>1. dispatch' = [action |-> StateAction, epoch |-> epoch,
                     head |-> Len(ledger), base |-> base,
                     contract |-> receipts.acceptanceContract,
                     result |-> NoValue, recorded |-> FALSE]
    BY <1>3 DEF Dispatch
  <2>2. dispatch'.base = base /\ dispatch'.result = NoValue
    BY <2>1
  <2>3. BaseTyped' /\ Answers'
    BY <1>1, <2>2 DEF EvidenceInv, BaseTyped, Answers
  <2>4. QED
    BY <1>1, <2>3, EvidenceStays
<1>4. CASE RecordFails \/ Settle \/ Crash \/ Restart
  <2>1. dispatch' = NoValue \/ dispatch' = dispatch
    BY <1>4 DEF RecordFails, Settle, Crash, Restart
  <2>2. QED
    BY <1>1, <1>2, <2>1, AnswersStay, EvidenceStays
<1>5. QED
  BY <1>3, <1>4

LEMMA ActorEvidence ==
    ASSUME LifeInv, EvidenceInv, NEW r, ActorEnds(r)
    PROVE  EvidenceInv'
<1>1. /\ UNCHANGED <<uiClass, projection, base>> /\ dispatch # NoValue
      /\ dispatch' = [dispatch EXCEPT !.result = r]
      /\ candidates' = IF r.kind = "implementation-candidate"
                       THEN Append(candidates, dispatch.base) ELSE candidates
      /\ Names(r)
  BY ResultsNamed DEF ActorEnds
<1>2. /\ dispatch'.result = r /\ dispatch'.action = dispatch.action
      /\ dispatch'.base = dispatch.base /\ dispatch'.recorded = dispatch.recorded
  BY <1>1 DEF LifeInv, Due
<1>3. candidates \in Seq(Nat) /\ dispatch.base \in Nat
  BY <1>1 DEF EvidenceInv, BaseTyped
<1>4. UNCHANGED <<uiClass, state, receipts, deliveryCommit, base>>
  BY <1>1 DEF projection
<1>5. /\ candidates' \in Seq(Nat)
      /\ \A i \in DOMAIN candidates : i \in DOMAIN candidates' /\ candidates'[i] = candidates[i]
      /\ r.kind = "implementation-candidate" =>
             /\ Written \in DOMAIN candidates' /\ candidates'[Written] = dispatch.base
             /\ Written \notin DOMAIN candidates /\ Written \in Nat
  BY <1>1, <1>3 DEF Written
<1>6. BaseTyped'
  BY <1>1, <1>2, <1>5 DEF EvidenceInv, BaseTyped
<1>7. OnBase'
  BY <1>4, <1>5 DEF EvidenceInv, OnBase, Has
<1>8. r.kind = "implementation-candidate" => Written # receipts.candidate
  BY <1>5, NoValueAssumption DEF EvidenceInv, OnBase, Has
<1>9. Answers'
  BY <1>1, <1>2, <1>4, <1>5, <1>8 DEF Answers, Names
<1>10. UiEvidence' /\ Landed'
  BY <1>4 DEF EvidenceInv, UiEvidence, Landed, Has, Accepted, Adjudicated
<1>11. QED
  BY <1>6, <1>7, <1>9, <1>10 DEF EvidenceInv

LEMMA CompileEvidence ==
    ASSUME LifeInv, EvidenceInv, NEW required, CompileAcceptanceContract(required)
    PROVE  EvidenceInv'
<1>1. /\ StateAction = "compile-acceptance-contract" /\ state' = "acceptance-frozen"
      /\ UNCHANGED <<uiClass, base, dispatch, candidates>>
      /\ receipts' = [receipts EXCEPT !.acceptanceContract = epoch,
                                      !.documentationRequired = required]
  BY DEF CompileAcceptanceContract
<1>2. /\ receipts'.candidate = receipts.candidate
      /\ receipts'.uiAdjudication = receipts.uiAdjudication
      /\ receipts'.uxAcceptance = receipts.uxAcceptance
  BY <1>1 DEF LifeInv, LifeTyped, ReceiptKeys
<1>3. state = "discovered"
  BY <1>1 DEF StateAction, ActionRule
<1>4. BaseTyped' /\ Answers'
  BY <1>1, <1>2, AnswersStay
<1>5. OnBase'
  BY <1>1, <1>2 DEF EvidenceInv, OnBase, Has
<1>6. UiEvidence' /\ Landed'
  BY <1>1, <1>2, <1>3 DEF EvidenceInv, UiEvidence, Landed, Has
<1>7. QED
  BY <1>4, <1>5, <1>6 DEF EvidenceInv

LEMMA DeliveryDue ==
    ASSUME StateAction = "deliver-acceptance-group"
    PROVE  \/ state = "behavior-green"
              /\ (uiClass # "non-ui" => Has("uiAdjudication") /\ Has("uxAcceptance"))
           \/ state \in {"ux-accepted", "documentation-green"}
<1>1. ~Has("terminal")
  BY DEF StateAction
<1>2. CASE state = "behavior-green"
  <2>1. ~(uiClass # "non-ui" /\ ~(Has("uiAdjudication") /\ Has("uxAcceptance")))
    BY <1>1, <1>2 DEF StateAction
  <2>2. QED
    BY <1>2, <2>1
<1>3. CASE state \notin {"behavior-green", "ux-accepted"}
  <2>1. ActionRule(state) = "deliver-acceptance-group"
    BY <1>1, <1>3 DEF StateAction
  <2>2. QED
    BY <2>1 DEF ActionRule
<1>4. QED
  BY <1>2, <1>3

LEMMA DeliverEvidence ==
    ASSUME LifeInv, EvidenceInv, Deliver \/ CleanupAndClose
    PROVE  EvidenceInv'
<1>1. UNCHANGED <<uiClass, receipts, base, dispatch, candidates>>
  BY DEF Deliver, CleanupAndClose
<1>2. BaseTyped' /\ Answers' /\ OnBase'
  BY <1>1, AnswersStay DEF EvidenceInv, OnBase, Has
<1>3. CASE Deliver
  <2>1. /\ StateAction = "deliver-acceptance-group" /\ state' = "cleaning"
        /\ deliveryCommit' = receipts.candidate
    BY <1>3 DEF Deliver
  <2>2. \/ state = "behavior-green"
           /\ (uiClass # "non-ui" => Has("uiAdjudication") /\ Has("uxAcceptance"))
        \/ state \in {"ux-accepted", "documentation-green"}
    BY <2>1, DeliveryDue
  <2>3. uiClass # "non-ui" => Accepted
    BY <2>2 DEF EvidenceInv, UiEvidence
  <2>4. uiClass' # "non-ui" => Accepted'
    BY <1>1, <2>3 DEF Accepted, Adjudicated
  <2>5. QED
    BY <1>1, <1>2, <2>1, <2>4 DEF EvidenceInv, UiEvidence, Landed
<1>4. CASE CleanupAndClose
  <2>1. /\ StateAction = "cleanup-node-resources" /\ state' = "closed"
        /\ deliveryCommit' = deliveryCommit
    BY <1>4 DEF CleanupAndClose
  <2>2. state = "cleaning"
    BY <2>1 DEF StateAction, ActionRule
  <2>3. uiClass' # "non-ui" => Accepted'
    BY <1>1, <2>2 DEF EvidenceInv, UiEvidence, Accepted, Adjudicated
  <2>4. QED
    BY <1>1, <1>2, <2>1, <2>2, <2>3 DEF EvidenceInv, UiEvidence, Landed
<1>5. QED
  BY <1>3, <1>4

LEMMA TerminalizeEvidence ==
    ASSUME LifeInv, EvidenceInv, Terminalize
    PROVE  EvidenceInv'
<1>1. /\ StateAction = "terminalize-node" /\ state' = state
      /\ UNCHANGED <<uiClass, base, dispatch, candidates>>
      /\ \E v : receipts' = [receipts EXCEPT !.terminal = v]
  BY DEF Terminalize
<1>2. /\ receipts'.candidate = receipts.candidate
      /\ receipts'.uiAdjudication = receipts.uiAdjudication
      /\ receipts'.uxAcceptance = receipts.uxAcceptance
  BY <1>1 DEF LifeInv, LifeTyped, ReceiptKeys
<1>3. state = "terminal"
  BY <1>1, StateActionEnds
<1>4. BaseTyped' /\ Answers'
  BY <1>1, <1>2, AnswersStay
<1>5. OnBase'
  BY <1>1, <1>2 DEF EvidenceInv, OnBase, Has
<1>6. UiEvidence' /\ Landed'
  BY <1>1, <1>2, <1>3 DEF EvidenceInv, UiEvidence, Landed, Has
<1>7. QED
  BY <1>4, <1>5, <1>6 DEF EvidenceInv

LEMMA RebindEvidence ==
    ASSUME LifeInv, EvidenceInv, Rebind
    PROVE  EvidenceInv'
<1>1. /\ receipts' = Carried /\ state' = "acceptance-frozen" /\ base' = base + 1
      /\ UNCHANGED <<dispatch, candidates>>
  BY DEF Rebind
<1>2. ~Has("candidate")' /\ ~Has("uiAdjudication")' /\ ~Has("uxAcceptance")'
  BY <1>1 DEF Has, Carried, ReceiptKeys
<1>3. BaseTyped'
  BY <1>1 DEF EvidenceInv, BaseTyped
<1>4. dispatch # NoValue /\ dispatch.result # NoValue
      /\ dispatch.result.kind = "implementation-candidate"
      => dispatch.result.candidate \in Nat
  BY DEF EvidenceInv, BaseTyped, Answers
<1>5. Answers'
  BY <1>1, <1>2, <1>4, NoValueAssumption DEF EvidenceInv, Answers, Has
<1>6. QED
  BY <1>1, <1>2, <1>3, <1>5 DEF EvidenceInv, OnBase, UiEvidence, Landed

-----------------------------------------------------------------------------
(* The evidence of a recorded result. *)

(* The contracts of the actions that take a slot: what judges an action    *)
(* leads to, and from which state the action was offered.                  *)
LEMMA ContractSteps ==
    ASSUME NEW c \in Contracts, c.action \in SlotActions
    PROVE  \/ /\ c.id = "semantic-proposal" /\ c.to = "discovered"
              /\ c.action = "request-semantic-proposal"
           \/ /\ c.id = "test-contract-planning" /\ c.to = "test-contracting"
              /\ c.action = "request-test-contract-planning"
           \/ /\ c.id = "test-contract-writer" /\ c.to = "test-contract-frozen"
              /\ c.action = "dispatch-test-contract-writer"
           \/ /\ c.id = "test-contract-terminal-failure" /\ c.to = "terminal"
              /\ c.action = "dispatch-test-contract-writer"
           \/ /\ c.id = "implementation-candidate" /\ c.to = "candidate-green"
              /\ c.action = "dispatch-implementation-writer"
           \/ /\ c.id = "implementation-retry" /\ c.to = "implementing-self-testing"
              /\ c.action = "dispatch-implementation-writer"
           \/ /\ c.id = "implementation-terminal-failure" /\ c.to = "terminal"
              /\ c.action = "dispatch-implementation-writer"
           \/ /\ c.id = "behavior-rejection" /\ c.to = "implementing-self-testing"
              /\ c.action = "dispatch-behavior-verifier"
           \/ /\ c.id = "behavior-verification" /\ c.to = "behavior-green"
              /\ c.action = "dispatch-behavior-verifier"
           \/ /\ c.id = "ui-adjudication" /\ c.to = "behavior-green"
              /\ c.action = "request-ui-adjudication"
           \/ /\ c.id = "ux-acceptance" /\ c.to = "ux-accepted"
              /\ c.action = "dispatch-ux-acceptance-verifier"
           \/ /\ c.id \in {"documentation-change", "documentation-no-change"}
              /\ c.to = "documentation-green"
              /\ c.action = "dispatch-documentation-writer"
           \/ /\ c.id = "documentation-terminal-failure" /\ c.to = "terminal"
              /\ c.action = "dispatch-documentation-writer"
BY DEF Contracts, SlotActions

LEMMA DueStates ==
    /\ StateAction = "request-semantic-proposal" => state = "none"
    /\ StateAction = "request-test-contract-planning" => state = "acceptance-frozen"
    /\ StateAction = "dispatch-test-contract-writer" => state = "test-contracting"
    /\ StateAction = "dispatch-implementation-writer" =>
           state \in {"test-contract-frozen", "implementing-self-testing"}
    /\ StateAction = "dispatch-behavior-verifier" => state = "candidate-green"
    /\ StateAction = "request-ui-adjudication" => state = "behavior-green"
    /\ StateAction = "dispatch-ux-acceptance-verifier" =>
           state = "behavior-green" /\ Has("uiAdjudication")
    /\ StateAction = "dispatch-documentation-writer" =>
           \/ state = "ux-accepted"
           \/ state = "behavior-green"
              /\ (uiClass # "non-ui" => Has("uiAdjudication") /\ Has("uxAcceptance"))
<1>1. CASE Has("terminal")
  <2>1. StateAction = "none"
    BY <1>1 DEF StateAction
  <2>2. QED
    BY <2>1
<1>2. CASE ~Has("terminal") /\ state \notin {"behavior-green", "ux-accepted"}
  <2>1. StateAction = ActionRule(state)
    BY <1>2 DEF StateAction
  <2>2. QED
    BY <1>2, <2>1 DEF ActionRule
<1>3. CASE ~Has("terminal") /\ state = "ux-accepted"
  <2>1. StateAction \in {"dispatch-documentation-writer", "deliver-acceptance-group"}
    BY <1>3 DEF StateAction
  <2>2. QED
    BY <1>3, <2>1
<1>4. CASE ~Has("terminal") /\ state = "behavior-green"
  <2>1. StateAction \in {"dispatch-ux-acceptance-verifier", "request-ui-adjudication",
                         "dispatch-documentation-writer", "deliver-acceptance-group"}
    BY <1>4 DEF StateAction
  <2>2. StateAction = "dispatch-ux-acceptance-verifier" => Has("uiAdjudication")
    BY <1>4 DEF StateAction
  <2>3. StateAction = "dispatch-documentation-writer" =>
            (uiClass # "non-ui" => Has("uiAdjudication") /\ Has("uxAcceptance"))
    BY <1>4 DEF StateAction
  <2>4. QED
    BY <1>4, <2>1, <2>2, <2>3
<1>5. QED
  BY <1>1, <1>2, <1>3, <1>4

(* What an event changes of the evidence. *)
Unchanged(n, keys) == \A k \in ReceiptKeys \ keys : n[k] = receipts[k]

LEMMA NewEvidence ==
    ASSUME LifeTyped, NEW c, NEW r
    PROVE  LET n == NewReceipts(c, r) IN
           CASE c.id = "implementation-candidate" ->
                    n.candidate = r.candidate /\ Unchanged(n, {"candidate"})
             [] c.id = "behavior-verification" ->
                    n.behavior = r.candidate /\ Unchanged(n, {"behavior"})
             [] c.id = "ui-adjudication" ->
                    /\ n.uiAdjudication = [candidate |-> r.candidate, contract |-> r.contract]
                    /\ Unchanged(n, {"uiAdjudication"})
             [] c.id = "ux-acceptance" ->
                    /\ n.uxAcceptance = [candidate |-> r.candidate,
                                         adjudication |-> r.adjudication]
                    /\ Unchanged(n, {"uxAcceptance"})
             [] OTHER ->
                    Unchanged(n, {"testContract", "retryAuthorization", "documentation"})
<1> DEFINE n == NewReceipts(c, r)
<1>1. ASSUME NEW k \in ReceiptKeys, NEW v
      PROVE  [receipts EXCEPT ![k] = v][k] = v
             /\ \A j \in ReceiptKeys \ {k} : [receipts EXCEPT ![k] = v][j] = receipts[j]
  BY DEF LifeTyped
<1>2. {"candidate", "behavior", "uiAdjudication", "uxAcceptance", "testContract",
       "retryAuthorization", "documentation"} \subseteq ReceiptKeys
  BY DEF ReceiptKeys
<1>3. CASE c.id = "implementation-candidate"
  <2>1. n = [receipts EXCEPT !["candidate"] = r.candidate]
    BY <1>3 DEF NewReceipts
  <2>2. n.candidate = r.candidate /\ Unchanged(n, {"candidate"})
    BY <1>1, <1>2, <2>1 DEF Unchanged
  <2>3. QED
    BY <1>3, <2>2
<1>4. CASE c.id = "behavior-verification"
  <2>1. n = [receipts EXCEPT !["behavior"] = r.candidate]
    BY <1>4 DEF NewReceipts
  <2>2. n.behavior = r.candidate /\ Unchanged(n, {"behavior"})
    BY <1>1, <1>2, <2>1 DEF Unchanged
  <2>3. QED
    BY <1>4, <2>2
<1>5. CASE c.id = "ui-adjudication"
  <2> DEFINE v == [candidate |-> r.candidate, contract |-> r.contract]
  <2>1. n = [receipts EXCEPT !["uiAdjudication"] = v]
    BY <1>5 DEF NewReceipts
  <2> HIDE DEF v
  <2>2. n.uiAdjudication = v /\ Unchanged(n, {"uiAdjudication"})
    BY <1>1, <1>2, <2>1 DEF Unchanged
  <2>3. QED
    BY <1>5, <2>2 DEF v
<1>6. CASE c.id = "ux-acceptance"
  <2> DEFINE v == [candidate |-> r.candidate, adjudication |-> r.adjudication]
  <2>1. n = [receipts EXCEPT !["uxAcceptance"] = v]
    BY <1>6 DEF NewReceipts
  <2> HIDE DEF v
  <2>2. n.uxAcceptance = v /\ Unchanged(n, {"uxAcceptance"})
    BY <1>1, <1>2, <2>1 DEF Unchanged
  <2>3. QED
    BY <1>6, <2>2 DEF v
<1>7. CASE c.id \notin {"implementation-candidate", "behavior-verification",
                        "ui-adjudication", "ux-acceptance"}
  <2>1. \/ n = receipts
        \/ n = [receipts EXCEPT !["testContract"] = TRUE]
        \/ n = [receipts EXCEPT !["retryAuthorization"] = TRUE]
        \/ n = [receipts EXCEPT !["documentation"] = TRUE]
    BY <1>7 DEF NewReceipts
  <2>2. Unchanged(n, {"testContract", "retryAuthorization", "documentation"})
    BY <1>1, <1>2, <2>1 DEF Unchanged
  <2>3. QED
    BY <1>7, <2>2
<1>8. QED
  BY <1>3, <1>4, <1>5, <1>6, <1>7

(* A contract that judges a candidate judges a result that has one. *)
LEMMA CandidateJudged ==
    ASSUME NEW c \in Contracts, NEW r, Admits(c, r), r.kind \in ContractIds,
           c.id = "implementation-candidate"
    PROVE  r.kind = "implementation-candidate"
<1>1. "candidate" \in ImplementationSuccessArtifacts
  BY DEF ImplementationSuccessArtifacts
<1>2. /\ "candidate" \notin SemanticArtifacts /\ "candidate" \notin AcceptanceArtifacts
      /\ "candidate" \notin PlanningArtifacts /\ "candidate" \notin TestWriterArtifacts
      /\ "candidate" \notin ImplementationFailureArtifacts
      /\ "candidate" \notin WriterTerminalFailureArtifacts
      /\ "candidate" \notin BehaviorRejectionArtifacts
      /\ "candidate" \notin BehaviorArtifacts /\ "candidate" \notin UiAdjudicationArtifacts
      /\ "candidate" \notin UxArtifacts /\ "candidate" \notin DocumentationChangeArtifacts
      /\ "candidate" \notin DocumentationNoChangeArtifacts
      /\ "candidate" \notin DeliveryObservedArtifacts
      /\ "candidate" \notin DeliveryCompletedArtifacts /\ "candidate" \notin CleanupArtifacts
      /\ "candidate" \notin TerminalArtifacts
  BY DEF ObserveOnly, Writing, SemanticArtifacts, AcceptanceArtifacts, PlanningArtifacts,
         TestWriterArtifacts, ImplementationFailureArtifacts, WriterTerminalFailureArtifacts,
         BehaviorRejectionArtifacts, BehaviorArtifacts, UiAdjudicationArtifacts, UxArtifacts,
         DocumentationChangeArtifacts, DocumentationNoChangeArtifacts,
         DeliveryObservedArtifacts, DeliveryCompletedArtifacts, CleanupArtifacts,
         TerminalArtifacts
<1>3. \A d \in Contracts : "candidate" \in d.artifacts <=> d.id = "implementation-candidate"
  BY <1>1, <1>2 DEF Contracts
<1>4. c.artifacts = ContractOf(r.kind).artifacts
  BY DEF Admits, ContractsFor
<1>5. ContractOf(r.kind) \in Contracts /\ ContractOf(r.kind).id = r.kind
  BY DEF ContractOf, ContractIds
<1>6. QED
  BY <1>3, <1>4, <1>5

(* A recorded result executes the action its node is due, and its          *)
(* candidate is a new commit on the base of the node.                      *)
Executes(c, r) ==
    /\ Admits(c, r) /\ AppendNodeEvent(c, r)
    /\ c.action = StateAction /\ c.action \in SlotActions
    /\ c.id = "implementation-candidate" => /\ r.candidate \in DOMAIN candidates
                                            /\ candidates[r.candidate] = base
                                            /\ r.candidate # receipts.candidate

LEMMA RecordedStep ==
    ASSUME LifeInv, EvidenceInv, RecordResult
    PROVE  \E c \in Contracts : Executes(c, dispatch.result)
<1> DEFINE r == dispatch.result
<1>1. PICK c \in Contracts : Admits(c, r) /\ AppendNodeEvent(c, r)
  BY DEF RecordResult
<1>2. dispatch # NoValue /\ r # NoValue /\ Fresh /\ ~dispatch.recorded
  BY DEF RecordResult, HasResult
<1>3. c.action = r.action
  BY <1>1 DEF Admits, ContractsFor
<1>4. r.action = dispatch.action /\ dispatch.action = StateAction /\ StateAction \in SlotActions
  BY <1>2 DEF LifeInv, Due, EvidenceInv, Answers
<1>5. r.kind \in ContractIds
  BY <1>2 DEF LifeInv, Named
<1>6. dispatch.base = base
  BY <1>2 DEF Fresh
<1>7. c.id = "implementation-candidate" => r.kind = "implementation-candidate"
  BY <1>1, <1>5, CandidateJudged
<1>8. r.kind = "implementation-candidate" => /\ r.candidate \in DOMAIN candidates
                                             /\ candidates[r.candidate] = base
                                             /\ r.candidate # receipts.candidate
  BY <1>2, <1>6 DEF EvidenceInv, Answers
<1> HIDE DEF r
<1>9. Executes(c, r)
  BY <1>1, <1>3, <1>4, <1>7, <1>8 DEF Executes
<1>10. QED
  BY <1>9 DEF r

LEMMA RecordEvidence ==
    ASSUME LifeInv, EvidenceInv, RecordResult
    PROVE  EvidenceInv'
<1> DEFINE r == dispatch.result
<1>1. PICK c \in Contracts : Executes(c, r)
  BY RecordedStep
<1>2. /\ state' = c.to /\ receipts' = NewReceipts(c, r) /\ deliveryCommit' = deliveryCommit
      /\ UNCHANGED <<uiClass, base, candidates>>
      /\ dispatch' = [dispatch EXCEPT !.recorded = TRUE] /\ dispatch # NoValue
  BY <1>1 DEF Executes, AppendNodeEvent, RecordResult, HasResult
<1>3. /\ dispatch'.action = dispatch.action /\ dispatch'.base = dispatch.base
      /\ dispatch'.result = dispatch.result /\ dispatch'.recorded = TRUE
  BY <1>2 DEF LifeInv, Due
<1>4. BaseTyped'
  BY <1>2, <1>3 DEF EvidenceInv, BaseTyped
<1>5. Answers'
  BY <1>2, <1>3 DEF EvidenceInv, Answers
<1> HIDE DEF r
<1>6. CASE c.id = "implementation-candidate"
  <2>1. /\ receipts'.candidate = r.candidate /\ Unchanged(receipts', {"candidate"})
    BY <1>2, <1>6, NewEvidence DEF LifeInv
  <2>2. /\ receipts'.uiAdjudication = receipts.uiAdjudication
        /\ receipts'.uxAcceptance = receipts.uxAcceptance
    BY <2>1 DEF Unchanged, ReceiptKeys
  <2>3. /\ state' = "candidate-green"
        /\ state \in {"test-contract-frozen", "implementing-self-testing"}
    BY <1>1, <1>2, <1>6, ContractSteps, DueStates DEF Executes
  <2>4. OnBase'
    BY <1>1, <1>2, <1>6, <2>1 DEF Executes, OnBase
  <2>5. UiEvidence' /\ Landed'
    BY <2>2, <2>3 DEF EvidenceInv, UiEvidence, Landed, Has
  <2>6. QED
    BY <1>4, <1>5, <2>4, <2>5 DEF EvidenceInv
<1>7. CASE c.id # "implementation-candidate"
  <2>1. receipts'.candidate = receipts.candidate
        /\ receipts'.acceptanceContract = receipts.acceptanceContract
    <3>1. \/ Unchanged(receipts', {"behavior"})
          \/ Unchanged(receipts', {"uiAdjudication"})
          \/ Unchanged(receipts', {"uxAcceptance"})
          \/ Unchanged(receipts', {"testContract", "retryAuthorization", "documentation"})
      BY <1>2, <1>7, NewEvidence DEF LifeInv
    <3>2. QED
      BY <3>1 DEF Unchanged, ReceiptKeys
  <2>2. OnBase'
    BY <1>2, <2>1 DEF EvidenceInv, OnBase, Has
  <2>3. CASE c.id = "ui-adjudication"
    <3>1. /\ receipts'.uiAdjudication = [candidate |-> r.candidate, contract |-> r.contract]
          /\ receipts'.uxAcceptance = receipts.uxAcceptance
      <4>1. LifeTyped
        BY DEF LifeInv
      <4>2. /\ NewReceipts(c, r).uiAdjudication
                = [candidate |-> r.candidate, contract |-> r.contract]
            /\ Unchanged(NewReceipts(c, r), {"uiAdjudication"})
        BY ONLY <2>3, <4>1, NewEvidence
      <4>3. QED
        BY <1>2, <4>2 DEF Unchanged, ReceiptKeys
    <3>2. state' = "behavior-green" /\ state = "behavior-green"
      BY <1>1, <1>2, <2>3, ContractSteps, DueStates DEF Executes
    <3>3. r.candidate = receipts.candidate /\ r.contract = receipts.acceptanceContract
      BY <1>1, <2>3 DEF Executes, Admits, EvidenceIsCurrent, AdjudicationIsCurrent
    <3>4. Adjudicated'
      BY <2>1, <3>1, <3>3 DEF Adjudicated
    <3>5. UiEvidence' /\ Landed'
      BY <3>1, <3>2, <3>4 DEF EvidenceInv, UiEvidence, Landed, Has
    <3>6. QED
      BY <1>4, <1>5, <2>2, <3>5 DEF EvidenceInv
  <2>4. CASE c.id = "ux-acceptance"
    <3>1. /\ receipts'.uxAcceptance = [candidate |-> r.candidate,
                                       adjudication |-> r.adjudication]
          /\ receipts'.uiAdjudication = receipts.uiAdjudication
      <4>1. LifeTyped
        BY DEF LifeInv
      <4>2. /\ NewReceipts(c, r).uxAcceptance
                = [candidate |-> r.candidate, adjudication |-> r.adjudication]
            /\ Unchanged(NewReceipts(c, r), {"uxAcceptance"})
        BY ONLY <2>4, <4>1, NewEvidence
      <4>3. QED
        BY <1>2, <4>2 DEF Unchanged, ReceiptKeys
    <3>2. state' = "ux-accepted" /\ state = "behavior-green" /\ Has("uiAdjudication")
      BY <1>1, <1>2, <2>4, ContractSteps, DueStates DEF Executes
    <3>3. r.candidate = receipts.candidate /\ r.adjudication = receipts.uiAdjudication
      BY <1>1, <2>4 DEF Executes, Admits, EvidenceIsCurrent, AcceptanceIsCurrent
    <3>4. Adjudicated
      BY <3>2 DEF EvidenceInv, UiEvidence
    <3>5. Accepted'
      BY <2>1, <3>1, <3>3, <3>4 DEF Accepted, Adjudicated
    <3>6. UiEvidence' /\ Landed'
      BY <3>2, <3>5 DEF UiEvidence, Landed
    <3>7. QED
      BY <1>4, <1>5, <2>2, <3>6 DEF EvidenceInv
  <2>5. CASE c.id \notin {"ui-adjudication", "ux-acceptance"}
    <3>1. /\ receipts'.uiAdjudication = receipts.uiAdjudication
          /\ receipts'.uxAcceptance = receipts.uxAcceptance
      <4>1. \/ Unchanged(receipts', {"behavior"})
            \/ Unchanged(receipts', {"testContract", "retryAuthorization", "documentation"})
        BY <1>2, <1>7, <2>5, NewEvidence DEF LifeInv
      <4>2. QED
        BY <4>1 DEF Unchanged, ReceiptKeys
    <3>2. \/ state' \in {"discovered", "test-contracting", "test-contract-frozen",
                         "implementing-self-testing", "behavior-green"}
             /\ state \in {"none", "acceptance-frozen", "test-contracting",
                           "test-contract-frozen", "implementing-self-testing",
                           "candidate-green"}
          \/ state' = "terminal"
          \/ state' = "documentation-green"
             /\ \/ state = "ux-accepted"
                \/ state = "behavior-green"
                   /\ (uiClass # "non-ui" => Has("uiAdjudication") /\ Has("uxAcceptance"))
      BY <1>1, <1>2, <1>7, <2>5, ContractSteps, DueStates DEF Executes
    <3>3. state' = "documentation-green" => (uiClass # "non-ui" => Accepted)
      BY <3>2 DEF EvidenceInv, UiEvidence
    <3>4. state' = "documentation-green" => (uiClass' # "non-ui" => Accepted')
      BY <1>2, <2>1, <3>1, <3>3 DEF Accepted, Adjudicated
    <3>5. UiEvidence' /\ Landed'
      BY <3>1, <3>2, <3>4 DEF EvidenceInv, UiEvidence, Landed, Has
    <3>6. QED
      BY <1>4, <1>5, <2>2, <3>5 DEF EvidenceInv
  <2>6. QED
    BY <2>3, <2>4, <2>5
<1>8. QED
  BY <1>6, <1>7

LEMMA NextEvidence ==
    ASSUME LifeInv, EvidenceInv, [Next]_vars
    PROVE  EvidenceInv'
<1>1. CASE UNCHANGED vars
  <2>1. UNCHANGED <<uiClass, projection, base, candidates, dispatch>>
    BY <1>1 DEF vars
  <2>2. receipts'.candidate = receipts.candidate
    BY <2>1 DEF projection
  <2>3. QED
    BY <2>1, <2>2, AnswersStay, EvidenceStays
<1>2. CASE Process
  BY <1>2, QuietEvidence, RecordEvidence, CompileEvidence, DeliverEvidence,
     TerminalizeEvidence DEF Process
<1>3. CASE Actor
  BY <1>3, ActorEvidence DEF Actor
<1>4. CASE Rebind
  BY <1>4, RebindEvidence
<1>5. CASE Crash
  BY <1>5, QuietEvidence
<1>6. QED
  BY <1>1, <1>2, <1>3, <1>4, <1>5 DEF Next

LEMMA EvidenceHolds == Spec => []EvidenceInv
BY LifeHolds, EvidenceStarts, NextEvidence, PTL DEF Spec

-----------------------------------------------------------------------------
(* A node has the life of an issue. *)

Phase ==
    CASE state \in {"none", "discovered", "acceptance-frozen", "test-contracting"} ->
             "planning"
      [] state \in {"test-contract-frozen", "implementing-self-testing"} -> "building"
      [] state = "candidate-green" -> "submitted"
      [] state \in {"behavior-green", "ux-accepted", "documentation-green"} -> "verified"
      [] state = "cleaning" -> "delivered"
      [] OTHER -> state

LEMMA LifeUntouched ==
    ASSUME Phase' = Phase, receipts'.candidate = receipts.candidate,
           receipts'.behavior = receipts.behavior, deliveryCommit' = deliveryCommit
    PROVE  [Life!Next]_(Life!vars)
<1>1. UNCHANGED <<Number(receipts.candidate), Number(receipts.behavior), Number(deliveryCommit)>>
  BY DEF Number
<1>2. UNCHANGED Life!vars
  BY <1>1 DEF Life!vars, Phase
<1>3. QED
  BY <1>2

LEMMA LifeInitially == Init => Life!Init
<1> SUFFICES ASSUME Init PROVE Life!Init
  OBVIOUS
<1>1. /\ receipts = [k \in ReceiptKeys |-> NoValue] /\ state = "none"
      /\ deliveryCommit = NoValue
  BY DEF Init, NoReceipts
<1>2. receipts.candidate = NoValue /\ receipts.behavior = NoValue
  BY <1>1 DEF ReceiptKeys
<1>3. QED
  BY <1>1, <1>2 DEF Life!Init, Number

LEMMA RecordLives ==
    ASSUME LifeInv, EvidenceInv, RecordResult
    PROVE  [Life!Next]_(Life!vars)
<1> DEFINE r == dispatch.result
<1>1. PICK c \in Contracts : Executes(c, r)
  BY RecordedStep
<1>2. /\ state' = c.to /\ receipts' = NewReceipts(c, r) /\ deliveryCommit' = deliveryCommit
  BY <1>1 DEF Executes, AppendNodeEvent
<1>3. c.action = StateAction /\ c.action \in SlotActions
  BY <1>1 DEF Executes
<1>4. LifeTyped
  BY DEF LifeInv
<1> HIDE DEF r
<1>5. CASE c.id = "implementation-candidate"
  <2>1. NewReceipts(c, r).candidate = r.candidate
        /\ Unchanged(NewReceipts(c, r), {"candidate"})
    BY ONLY <1>4, <1>5, NewEvidence
  <2>2. receipts'.candidate = r.candidate /\ receipts'.behavior = receipts.behavior
    BY <1>2, <2>1 DEF Unchanged, ReceiptKeys
  <2>3. /\ state' = "candidate-green"
        /\ state \in {"test-contract-frozen", "implementing-self-testing"}
    BY <1>2, <1>3, <1>5, ContractSteps, DueStates
  <2>4. r.candidate \in DOMAIN candidates /\ r.candidate # receipts.candidate
    BY <1>1, <1>5 DEF Executes
  <2>5. r.candidate \in Nat \ {0}
    BY <2>4 DEF EvidenceInv, BaseTyped
  <2>6. Number(receipts.candidate)' \in Nat \ {0, Number(receipts.candidate)}
    BY <2>2, <2>4, <2>5, NoValueAssumption DEF Number
  <2>7. Phase = "building" /\ Phase' = "submitted"
    BY <2>3 DEF Phase
  <2>8. Number(receipts.behavior)' = Number(receipts.behavior)
        /\ Number(deliveryCommit)' = Number(deliveryCommit)
    BY <1>2, <2>2 DEF Number
  <2>9. Life!Submit
    BY <2>6, <2>7, <2>8 DEF Life!Submit, Phase
  <2>10. QED
    BY <2>9 DEF Life!Next
<1>6. CASE c.id = "behavior-verification"
  <2>1. NewReceipts(c, r).behavior = r.candidate
        /\ Unchanged(NewReceipts(c, r), {"behavior"})
    BY ONLY <1>4, <1>6, NewEvidence
  <2>2. r.candidate = receipts.candidate
    BY <1>1, <1>6 DEF Executes, Admits, EvidenceIsCurrent, VerificationIsCurrent
  <2>3. receipts'.behavior = receipts.candidate /\ receipts'.candidate = receipts.candidate
    BY <1>2, <2>1, <2>2 DEF Unchanged, ReceiptKeys
  <2>4. state' = "behavior-green" /\ state = "candidate-green"
    BY <1>2, <1>3, <1>6, ContractSteps, DueStates
  <2>5. Phase = "submitted" /\ Phase' = "verified"
    BY <2>4 DEF Phase
  <2>6. /\ Number(receipts.behavior)' = Number(receipts.candidate)
        /\ Number(receipts.candidate)' = Number(receipts.candidate)
        /\ Number(deliveryCommit)' = Number(deliveryCommit)
    BY <1>2, <2>3 DEF Number
  <2>7. Life!Verify
    BY <2>5, <2>6 DEF Life!Verify, Phase
  <2>8. QED
    BY <2>7 DEF Life!Next
<1>7. CASE c.id \notin {"implementation-candidate", "behavior-verification"}
  <2>1. \/ Unchanged(receipts', {"uiAdjudication"})
        \/ Unchanged(receipts', {"uxAcceptance"})
        \/ Unchanged(receipts', {"testContract", "retryAuthorization", "documentation"})
    BY <1>2, <1>4, <1>7, NewEvidence
  <2>2. receipts'.candidate = receipts.candidate /\ receipts'.behavior = receipts.behavior
    BY <2>1 DEF Unchanged, ReceiptKeys
  <2>3. /\ Number(receipts.candidate)' = Number(receipts.candidate)
        /\ Number(receipts.behavior)' = Number(receipts.behavior)
        /\ Number(deliveryCommit)' = Number(deliveryCommit)
    BY <1>2, <2>2 DEF Number
  <2>4. \/ Phase' = Phase
        \/ Phase = "planning" /\ Phase' = "building"
        \/ Phase = "submitted" /\ Phase' = "building"
        \/ Phase \in {"planning", "building", "verified"} /\ Phase' = "terminal"
    <3>1. \/ /\ state \in {"none", "acceptance-frozen"}
             /\ state' \in {"discovered", "test-contracting"}
          \/ state = "test-contracting" /\ state' = "test-contract-frozen"
          \/ /\ state \in {"test-contract-frozen", "implementing-self-testing"}
             /\ state' = "implementing-self-testing"
          \/ state = "candidate-green" /\ state' = "implementing-self-testing"
          \/ /\ state \in {"behavior-green", "ux-accepted"}
             /\ state' \in {"behavior-green", "ux-accepted", "documentation-green"}
          \/ /\ state \in {"test-contracting", "test-contract-frozen",
                           "implementing-self-testing", "behavior-green", "ux-accepted"}
             /\ state' = "terminal"
      BY <1>2, <1>3, <1>7, ContractSteps, DueStates
    <3>2. QED
      BY <3>1 DEF Phase
  <2>5. CASE Phase' = Phase
    BY <1>2, <2>2, <2>5, LifeUntouched
  <2>6. CASE Phase' # Phase
    <3>1. Life!Plan \/ Life!Reject \/ Life!Fail
      BY <2>3, <2>4, <2>6 DEF Life!Plan, Life!Reject, Life!Fail, Phase
    <3>2. QED
      BY <3>1 DEF Life!Next
  <2>7. QED
    BY <2>5, <2>6
<1>8. QED
  BY <1>5, <1>6, <1>7

LEMMA RootLives ==
    ASSUME LifeInv, EvidenceInv,
           \/ \E required : CompileAcceptanceContract(required)
           \/ Deliver \/ CleanupAndClose \/ Terminalize \/ Rebind
    PROVE  [Life!Next]_(Life!vars)
<1>1. ASSUME NEW required, CompileAcceptanceContract(required)
      PROVE  [Life!Next]_(Life!vars)
  <2>1. /\ StateAction = "compile-acceptance-contract" /\ state' = "acceptance-frozen"
        /\ receipts' = [receipts EXCEPT !.acceptanceContract = epoch,
                                        !.documentationRequired = required]
        /\ deliveryCommit' = deliveryCommit
    BY <1>1 DEF CompileAcceptanceContract
  <2>2. receipts'.candidate = receipts.candidate /\ receipts'.behavior = receipts.behavior
    BY <2>1 DEF LifeInv, LifeTyped, ReceiptKeys
  <2>3. state = "discovered"
    BY <2>1 DEF StateAction, ActionRule
  <2>4. Phase' = Phase
    BY <2>1, <2>3 DEF Phase
  <2>5. QED
    BY <2>1, <2>2, <2>4, LifeUntouched
<1>2. CASE Deliver
  <2>1. /\ StateAction = "deliver-acceptance-group" /\ state' = "cleaning"
        /\ deliveryCommit' = receipts.candidate /\ receipts' = receipts
        /\ receipts.behavior = receipts.candidate
    BY <1>2 DEF Deliver, MemberEvidenceChain
  <2>2. Phase = "verified" /\ Phase' = "delivered"
    BY <2>1, DeliveryDue DEF Phase
  <2>3. /\ Number(receipts.behavior) = Number(receipts.candidate)
        /\ Number(deliveryCommit)' = Number(receipts.candidate)
        /\ Number(receipts.candidate)' = Number(receipts.candidate)
        /\ Number(receipts.behavior)' = Number(receipts.behavior)
    BY <2>1 DEF Number
  <2>4. Life!Deliver
    BY <2>2, <2>3 DEF Life!Deliver, Phase
  <2>5. QED
    BY <2>4 DEF Life!Next
<1>3. CASE CleanupAndClose
  <2>1. /\ StateAction = "cleanup-node-resources" /\ state' = "closed"
        /\ receipts' = receipts /\ deliveryCommit' = deliveryCommit
    BY <1>3 DEF CleanupAndClose
  <2>2. state = "cleaning"
    BY <2>1 DEF StateAction, ActionRule
  <2>3. Phase = "delivered" /\ Phase' = "closed"
    BY <2>1, <2>2 DEF Phase
  <2>4. /\ Number(receipts.candidate)' = Number(receipts.candidate)
        /\ Number(receipts.behavior)' = Number(receipts.behavior)
        /\ Number(deliveryCommit)' = Number(deliveryCommit)
    BY <2>1 DEF Number
  <2>5. Life!Close
    BY <2>3, <2>4 DEF Life!Close, Phase
  <2>6. QED
    BY <2>5 DEF Life!Next
<1>4. CASE Terminalize
  <2>1. /\ \E v : receipts' = [receipts EXCEPT !.terminal = v]
        /\ state' = state /\ deliveryCommit' = deliveryCommit
    BY <1>4 DEF Terminalize
  <2>2. receipts'.candidate = receipts.candidate /\ receipts'.behavior = receipts.behavior
    BY <2>1 DEF LifeInv, LifeTyped, ReceiptKeys
  <2>3. Phase' = Phase
    BY <2>1 DEF Phase
  <2>4. QED
    BY <2>1, <2>2, <2>3, LifeUntouched
<1>5. CASE Rebind
  <2>1. /\ state \notin {"closed", "terminal"} /\ state' = "acceptance-frozen"
        /\ receipts' = Carried /\ deliveryCommit' = NoValue
    BY <1>5 DEF Rebind
  <2>2. receipts'.candidate = NoValue /\ receipts'.behavior = NoValue
    BY <2>1 DEF Carried, ReceiptKeys
  <2>3. Phase \notin {"closed", "terminal"} /\ Phase' = "planning"
    BY <2>1 DEF Phase
  <2>4. /\ Number(receipts.candidate)' = 0 /\ Number(receipts.behavior)' = 0
        /\ Number(deliveryCommit)' = 0
    BY <2>1, <2>2 DEF Number
  <2>5. Life!Restart
    BY <2>3, <2>4 DEF Life!Restart, Phase
  <2>6. QED
    BY <2>5 DEF Life!Next
<1>6. QED
  BY <1>1, <1>2, <1>3, <1>4, <1>5

LEMMA NextLives ==
    ASSUME LifeInv, EvidenceInv, [Next]_vars
    PROVE  [Life!Next]_(Life!vars)
<1>1. CASE UNCHANGED projection
  <2>1. UNCHANGED <<state, receipts, deliveryCommit>>
    BY <1>1 DEF projection
  <2>2. Phase' = Phase
    BY <2>1 DEF Phase
  <2>3. QED
    BY <2>1, <2>2, LifeUntouched
<1>2. \/ UNCHANGED projection \/ RecordResult \/ Rebind
      \/ \E required : CompileAcceptanceContract(required)
      \/ Deliver \/ CleanupAndClose \/ Terminalize
  <2>1. Process => \/ UNCHANGED projection \/ RecordResult
                   \/ \E required : CompileAcceptanceContract(required)
                   \/ Deliver \/ CleanupAndClose \/ Terminalize
    BY DEF Process, Dispatch, RecordFails, Settle, Restart
  <2>2. Actor => UNCHANGED projection
    BY DEF Actor, ActorEnds
  <2>3. QED
    BY <2>1, <2>2 DEF Next, Crash, vars
<1>3. QED
  BY <1>1, <1>2, RecordLives, RootLives

-----------------------------------------------------------------------------
(* The theorems. *)

(* The counters of a node say what its ledger says: every rejection, every *)
(* writer result and every failure is counted once (compileNodeEffect,     *)
(* validateLifecycleIntegrationEvent).                                     *)
THEOREM CountersTellTheLedger == Spec => []CountersAgree
<1>1. LifeInv => CountersAgree
  BY CountingIsAgreement DEF LifeInv
<1>2. QED
  BY <1>1, LifeHolds, PTL

(* A node that is closed or terminal is not touched again, by any result,  *)
(* restart or base change (stateAction, currentNodeForDispatchedResult).   *)
THEOREM NodesEndOnce == Spec => EndedForever
<1>1. ASSUME LifeInv, [Next]_vars, Ended
      PROVE  UNCHANGED projection
  <2>1. StateAction = "none"
    BY <1>1, StateActionEnds
  <2>2. "none" \notin SlotActions
    BY DEF SlotActions
  <2>3. state \in {"closed", "terminal"}
    BY <1>1 DEF Ended, LifeInv, TerminalState
  <2>4. ~RecordResult
    <3>1. Fresh /\ dispatch # NoValue => StateAction \in SlotActions
      BY <1>1 DEF LifeInv, Due
    <3>2. QED
      BY <2>1, <2>2, <3>1 DEF RecordResult, HasResult
  <2>5. /\ ~Deliver /\ ~CleanupAndClose /\ ~Terminalize
        /\ \A required : ~CompileAcceptanceContract(required)
    BY <2>1 DEF Deliver, CleanupAndClose, Terminalize, CompileAcceptanceContract
  <2>6. ~Rebind
    BY <2>3 DEF Rebind
  <2>7. Process => UNCHANGED projection
    BY <2>4, <2>5 DEF Process, Dispatch, RecordFails, Settle, Restart
  <2>8. Actor => UNCHANGED projection
    BY DEF Actor, ActorEnds
  <2>9. QED
    BY <1>1, <2>6, <2>7, <2>8 DEF Next, Crash, vars
<1>2. QED
  BY <1>1, LifeHolds, PTL DEF Spec, EndedForever

(* Evidence does not outlive its base: what a node considers was written   *)
(* on the base it has, and what it delivered is what its UI was accepted   *)
(* for (validateCrossArtifactBindings, baseCarryForwardEvent).             *)
THEOREM EvidenceIsCurrentlyBased == Spec => []EvidenceOfCurrentBase
BY EvidenceHolds, EvidenceIsOfBase, PTL

(* Whatever actors return, and however the base moves, a node implements   *)
(* the life of an issue: it delivers a candidate only while a verification *)
(* of that candidate stands.                                               *)
THEOREM NodeLivesAsIssue == Spec => LifeSpec
<1>1. QED
  BY LifeInitially, LifeHolds, EvidenceHolds, NextLives, PTL DEF Spec, LifeSpec, Life!Spec

=============================================================================
