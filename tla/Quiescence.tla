------------------------------ MODULE Quiescence ------------------------------
(***************************************************************************)
(* The end of a run: lifecycle-quiescence-finalizer.mjs, the inventory it  *)
(* has collected (quiescence-observation-collector.mjs) and judges         *)
(* (quiescence.mjs), and recordLifecycleRunTerminalization.                *)
(*                                                                         *)
(* The finalizer projects the run, then waits for an observer and for the  *)
(* machine, and ends the run with what it projected before.  Meanwhile a   *)
(* root that took over may work on the nodes, people reopen issues and     *)
(* change the checkout, and processes come and go.  Effects recorded in    *)
(* the control ledger are keyed by the issue without its epoch, so that    *)
(* those of an earlier epoch stay when an issue is rebound.                *)
(***************************************************************************)
EXTENDS Naturals

CONSTANTS
    TargetIssues,       \* the selected issues, all of one repository
    MaxNodeEpochs       \* bound: epochs of a node

VARIABLES
    issueNodes,         \* issue -> its node in the ledger
    chain,              \* issue -> the epoch each control effect was recorded in
    remoteIssues,       \* issue -> its state on the remote
    worktrees,          \* issues that have a worktree and a branch
    checkout,           \* the default checkout: HEAD, and whether it is dirty
    ownProcesses,       \* a process names the state root or the repository
    finalization,       \* the finalizer
    terminal            \* run.terminalized was recorded

finalVars == <<issueNodes, chain, remoteIssues, worktrees, checkout,
               ownProcesses, finalization, terminal>>

-----------------------------------------------------------------------------
(* The judgement of the records of an inventory. *)

\* A record as an inspector tells it apart: `flagged' when it is active,
\* pending, retained, unknown or stale, `evidence' when the digests its category
\* asks for are there, `verified' when its claims are, `receipt' what the receipt
\* it carries is bound to, `left' when something hangs on it: a lease, a lock, a
\* live process, a retained resource, an uncommitted change; `observer' when it
\* names the actor that observes.
InventoryRecords ==
    [identified : BOOLEAN, flagged : BOOLEAN, ended : BOOLEAN,
     evidence : BOOLEAN, verified : BOOLEAN, receipt : {"none", "own", "other"},
     left : BOOLEAN, observer : BOOLEAN]

CommonClean(r)     == r.identified /\ ~r.flagged /\ r.ended
EvidenceClean(r)   == CommonClean(r) /\ r.evidence
AttemptClean(r)    == EvidenceClean(r) /\ r.receipt = "own" /\ ~r.left
GroupClean(r)      == EvidenceClean(r) /\ r.receipt = "own" /\ ~r.left
ActorClean(r)      == CommonClean(r) /\ ~r.left
SliceClean(r)      == EvidenceClean(r) /\ ~r.left
CheckpointClean(r) == EvidenceClean(r) /\ r.verified /\ ~r.left
BreakerClean(r)    == EvidenceClean(r) /\ ~r.left
RouteClean(r)      == EvidenceClean(r) /\ r.verified /\ ~r.left
CapabilityClean(r) == EvidenceClean(r) /\ r.verified
GitClean(r)        == EvidenceClean(r) /\ r.verified /\ ~r.left
ResourceClean(r)   == EvidenceClean(r) /\ r.verified
RuntimeClean(r)    == EvidenceClean(r) /\ ~r.left
FilesystemClean(r) == EvidenceClean(r) /\ r.verified
CandidateClean(r)  == EvidenceClean(r)

\* The inspector of each category; the records of all others need evidence only.
RecordClean(category, r) ==
    CASE category = "attempts"               -> AttemptClean(r)
      [] category = "groups"                 -> GroupClean(r)
      [] category = "actors"                 -> ActorClean(r)
      [] category = "slices"                 -> SliceClean(r)
      [] category = "checkpoints"            -> CheckpointClean(r)
      [] category = "outputMissingBreakers"  -> BreakerClean(r)
      [] category = "routes"                 -> RouteClean(r)
      [] category = "profileCapabilities"    -> CapabilityClean(r)
      [] category = "git"                    -> GitClean(r)
      [] category = "resources"              -> ResourceClean(r)
      [] category \in {"processes", "ports", "docker", "locks", "leases",
                       "slots"}              -> RuntimeClean(r)
      [] category = "filesystem"             -> FilesystemClean(r)
      [] category = "sourceCandidates"       -> CandidateClean(r)
      [] OTHER                               -> EvidenceClean(r)

\* The domains the observer may report; issues and stages are refused.
Reported ==
    {"attempts", "groups", "actors", "slices", "checkpoints", "continuations",
     "outputMissingBreakers", "routes", "profileCapabilities", "git",
     "resources", "processes", "leases", "filesystem", "sourceCandidates",
     "humanDecisions"}

\* An answer of the observer: bound to the action, of the projected issues, with
\* every domain, and one record in one of them or none.
Answers ==
    [bound : BOOLEAN, scoped : BOOLEAN, domains : BOOLEAN, overrides : BOOLEAN]

AnswerValid(a) == a.bound /\ a.scoped /\ a.domains /\ ~a.overrides

\* inspectVerifier: the observer is no actor of the run.
Independent(category, r) == category = "actors" => ~r.observer

InventoryOutcomes ==
    {RecordClean(c, r) /\ Independent(c, r) : c \in Reported, r \in InventoryRecords}

-----------------------------------------------------------------------------
(* The ledger and the world beside it. *)

NewIssueNode(epoch) == [epoch |-> epoch, state |-> "open", retained |-> FALSE]
NoChain == [delivery |-> 0, cleanup |-> 0, closure |-> 0]

NoFinalization ==
    [step |-> "none", current |-> TRUE, nodes |-> <<>>, chain |-> <<>>,
     remote |-> <<>>, inventory |-> FALSE, git |-> <<>>, processes |-> FALSE]

FinalInit ==
    /\ issueNodes = [i \in TargetIssues |-> NewIssueNode(1)]
    /\ chain = [i \in TargetIssues |-> NoChain]
    /\ remoteIssues = [i \in TargetIssues |-> "open"]
    /\ worktrees = {}
    /\ checkout = [head |-> "expected", dirty |-> FALSE]
    /\ ownProcesses = FALSE
    /\ finalization = NoFinalization
    /\ terminal = FALSE

\* An event is recorded: the action set the finalizer has is no longer the one
\* the ledger compiles to.
Recorded ==
    IF finalization.step = "none" THEN UNCHANGED finalization
    ELSE finalization' = [finalization EXCEPT !.current = FALSE]

Step(i, from, to) ==
    /\ issueNodes[i].state = from
    /\ issueNodes' = [issueNodes EXCEPT ![i].state = to]
    /\ Recorded /\ UNCHANGED terminal

\* An attempt starts in a worktree of its own, and ends with a green candidate.
WorkOn(i) ==
    /\ Step(i, "open", "active")
    /\ worktrees' = worktrees \cup {i}
    /\ UNCHANGED <<chain, remoteIssues, checkout, ownProcesses>>

TurnGreen(i) ==
    /\ Step(i, "active", "green")
    /\ UNCHANGED <<chain, remoteIssues, worktrees, checkout, ownProcesses>>

\* groupReady: a group is delivered once.  The checkout may follow or not.
DeliverIssue(i) ==
    /\ chain[i].delivery = 0
    /\ Step(i, "green", "cleaning")
    /\ chain' = [chain EXCEPT ![i].delivery = issueNodes[i].epoch]
    /\ \E h \in {"expected", "other"} : checkout' = [checkout EXCEPT !.head = h]
    /\ UNCHANGED <<remoteIssues, worktrees, ownProcesses>>

\* cleanup.finalized
FinalizeCleanup(i) ==
    /\ Step(i, "cleaning", "closing")
    /\ chain' = [chain EXCEPT ![i].cleanup = issueNodes[i].epoch]
    /\ worktrees' = worktrees \ {i}
    /\ UNCHANGED <<remoteIssues, checkout, ownProcesses>>

\* The issue is closed and the closed node recorded, then, in an event of its
\* own, the effect completed.
CloseIssue(i) ==
    /\ Step(i, "closing", "closed")
    /\ remoteIssues' = [remoteIssues EXCEPT ![i] = "completed"]
    /\ UNCHANGED <<chain, worktrees, checkout, ownProcesses>>

CompleteClosure(i) ==
    /\ chain[i].closure = 0
    /\ Step(i, "closed", "closed")
    /\ chain' = [chain EXCEPT ![i].closure = issueNodes[i].epoch]
    /\ UNCHANGED <<remoteIssues, worktrees, checkout, ownProcesses>>

\* terminalize-node: the resources it owned are released or retained.
TerminalizeIssue(i) ==
    /\ Step(i, "active", "terminal")
    /\ UNCHANGED <<chain, remoteIssues, checkout, ownProcesses>>
    /\ worktrees' = worktrees \ {i}

TerminalizeRetaining(i) ==
    /\ issueNodes[i].state = "active"
    /\ issueNodes' = [issueNodes EXCEPT ![i].state = "terminal",
                                        ![i].retained = TRUE]
    /\ Recorded
    /\ UNCHANGED <<chain, remoteIssues, worktrees, checkout, ownProcesses, terminal>>

\* node.rebound: the facts of the issue changed, and a node of the next epoch
\* takes its place; the control effects stay, and so does the worktree.
RebindIssue(i) ==
    /\ issueNodes[i].epoch < MaxNodeEpochs
    /\ issueNodes' = [issueNodes EXCEPT ![i] = NewIssueNode(@.epoch + 1)]
    /\ Recorded
    /\ UNCHANGED <<chain, remoteIssues, worktrees, checkout, ownProcesses, terminal>>

\* runtime-authority.rebound: another root takes the run over.
ChangeRoot ==
    /\ finalization.step # "none" /\ finalization.current
    /\ Recorded
    /\ UNCHANGED <<issueNodes, chain, remoteIssues, worktrees, checkout,
                   ownProcesses, terminal>>

\* People and processes.
RemoteChanges(i) ==
    /\ \E r \in {"open", "completed", "not-planned"} \ {remoteIssues[i]} :
         remoteIssues' = [remoteIssues EXCEPT ![i] = r]
    /\ UNCHANGED <<issueNodes, chain, worktrees, checkout, ownProcesses,
                   finalization, terminal>>

MachineChanges ==
    /\ \/ /\ \E h \in {"expected", "other"}, d \in BOOLEAN :
               /\ checkout' = [head |-> h, dirty |-> d]
               /\ checkout' # checkout
          /\ UNCHANGED <<worktrees, ownProcesses>>
       \/ /\ ownProcesses' = ~ownProcesses
          /\ UNCHANGED <<worktrees, checkout>>
       \/ \E i \in worktrees :
            /\ issueNodes[i].state \in {"open", "closed", "terminal"}
            /\ worktrees' = worktrees \ {i}
            /\ UNCHANGED <<checkout, ownProcesses>>
    /\ UNCHANGED <<issueNodes, chain, remoteIssues, finalization, terminal>>

-----------------------------------------------------------------------------
(* The finalizer. *)

\* The compiler has nothing to do: every node is over, has an attempt, or is
\* green in a group that was delivered before.
IdleCompiled ==
    \A i \in TargetIssues :
       \/ issueNodes[i].state \in {"active", "closed", "terminal"}
       \/ issueNodes[i].state = "green" /\ chain[i].delivery # 0

\* Mutant: what was planned is taken as current.
ActionSetUnchecked(f) == TRUE

\* exactCurrentActionSet, validateContextAuthority: the compiler still gives the
\* action set the finalizer was started with, for the same root.
ActionSetCurrent(f) == f.current

PutFinal(f) ==
    /\ finalization' = f
    /\ UNCHANGED <<issueNodes, chain, remoteIssues, worktrees, checkout,
                   ownProcesses>>

Await(f) == PutFinal(f) /\ UNCHANGED terminal

\* The dispatcher compiles `idle'.
PlanFinalization ==
    /\ finalization.step = "none" /\ ~terminal
    /\ IdleCompiled
    /\ Await([finalization EXCEPT !.step = "planned"])

\* executeLifecycleQuiescenceFinalization, up to the observer
StartFinalization ==
    /\ finalization.step = "planned"
    /\ IF ActionSetCurrent(finalization) /\ ~terminal
       THEN Await([finalization EXCEPT !.step = "observing",
                                       !.nodes = issueNodes, !.chain = chain])
       ELSE Await(NoFinalization)

\* validateNodeDisposition, of the node as projected
Disposition(f, i) ==
    LET n == f.nodes[i]  c == f.chain[i]
    IN CASE n.state = "closed" /\ c.delivery # 0 /\ c.cleanup # 0 /\ c.closure # 0
                                   -> "closed"
         [] n.state = "terminal"   -> "terminal"
         [] OTHER                  -> "refused"

\* The observer answers with the issues on the remote and its own inventory.
ObserveFacts ==
    /\ finalization.step = "observing"
    /\ \E valid \in {AnswerValid(a) : a \in Answers}, clean \in InventoryOutcomes :
         IF valid /\ \A i \in TargetIssues : Disposition(finalization, i) # "refused"
         THEN Await([finalization EXCEPT !.step = "observed",
                       !.remote = remoteIssues, !.inventory = clean])
         ELSE Await(NoFinalization)

\* What the collector saw.  A domain it cannot observe ends the finalization;
\* the baseline is frozen just before and only its run is compared.
CollectInventory ==
    /\ finalization.step = "observed"
    /\ \E observable \in BOOLEAN :
         IF observable
         THEN Await([finalization EXCEPT !.step = "collected",
                       !.git = [head |-> checkout.head, dirty |-> checkout.dirty,
                                worktrees |-> worktrees],
                       !.processes = ownProcesses])
         ELSE Await(NoFinalization)

\* stageRecords: a closed node whose issue is open, or closed as something else
\* than completed, is refused.
RemoteAgrees(f) ==
    \A i \in TargetIssues :
       Disposition(f, i) = "closed" => f.remote[i] = "completed"

CleanRecord ==
    [identified |-> TRUE, flagged |-> FALSE, ended |-> TRUE, evidence |-> TRUE,
     verified |-> TRUE, receipt |-> "own", left |-> FALSE, observer |-> FALSE]

\* collectorRecords: the repository, and the processes that are ours
GitRecord(f) ==
    [CleanRecord EXCEPT !.flagged = f.git.worktrees # {} \/ f.git.dirty,
                        !.verified = f.git.head = "expected",
                        !.left = f.git.dirty]

ProcessRecord(f) == [CleanRecord EXCEPT !.flagged = f.processes, !.left = f.processes]

\* retainedResourceRecords
RetainedRecord(f, i) == [CleanRecord EXCEPT !.flagged = f.nodes[i].retained]

\* inspectIssueAndStageEvidence: a terminal node may be open on the remote.
IssueEvidenced(f, i) ==
    Disposition(f, i) = "closed" =>
       /\ f.remote[i] # "open"
       /\ \A effect \in {"delivery", "cleanup", "closure"} : f.chain[i][effect] # 0

\* buildEvaluationObservation and evaluateQuiescence: no record of any domain
\* violates, whether the collector, the ledger or the observer gave it.
NoViolations(f) ==
    /\ RecordClean("git", GitRecord(f))
    /\ RecordClean("processes", ProcessRecord(f))
    /\ \A i \in TargetIssues :
         /\ RecordClean("resources", RetainedRecord(f, i))
         /\ IssueEvidenced(f, i)
    /\ f.inventory

\* recordLifecycleRunTerminalization compiles the action set again before it
\* appends, from the ledger on the disk.
Terminalizable(f) ==
    /\ RemoteAgrees(f)
    /\ NoViolations(f)
    /\ ActionSetCurrent(f) /\ ~terminal

Finalize ==
    /\ finalization.step = "collected"
    /\ terminal' = (terminal \/ Terminalizable(finalization))
    /\ PutFinal(NoFinalization)

FinalNext ==
    \/ \E i \in TargetIssues :
         \/ WorkOn(i) \/ TurnGreen(i) \/ DeliverIssue(i) \/ FinalizeCleanup(i)
         \/ CloseIssue(i) \/ CompleteClosure(i)
         \/ TerminalizeIssue(i) \/ TerminalizeRetaining(i)
         \/ RebindIssue(i) \/ RemoteChanges(i)
    \/ ChangeRoot \/ MachineChanges
    \/ PlanFinalization \/ StartFinalization
    \/ ObserveFacts \/ CollectInventory \/ Finalize

\* The run ends only when each issue is over in the ledger as it is then: closed
\* on the remote and in the ledger, with every effect recorded for the very epoch
\* of its node, or terminal with nothing retained; and only when the repository
\* was seen on the delivered commit, clean and without a worktree of the run, and
\* no process of the run was seen.
TerminalizesQuiescent ==
    [][terminal' # terminal =>
         /\ \A i \in TargetIssues :
              \/ /\ issueNodes[i].state = "closed"
                 /\ \A effect \in {"delivery", "cleanup", "closure"} :
                      chain[i][effect] = issueNodes[i].epoch
                 /\ finalization.remote[i] = "completed"
              \/ issueNodes[i].state = "terminal" /\ ~issueNodes[i].retained
         /\ finalization.git = [head |-> "expected", dirty |-> FALSE, worktrees |-> {}]
         /\ ~finalization.processes]_finalVars

FinalSpec == FinalInit /\ [][FinalNext]_finalVars
=============================================================================
