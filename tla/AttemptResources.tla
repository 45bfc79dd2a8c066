-------------------------- MODULE AttemptResources --------------------------
(***************************************************************************)
(* The registry of the resources an attempt owns, and their cleanup        *)
(* (resource-lifecycle.mjs): processes, a port, a lock, a lease and a      *)
(* temporary directory, the Git resources that have their own state        *)
(* machine, and a service the attempt shares with its acceptance group.    *)
(*                                                                         *)
(* `real' is what exists on the machine, the registry what is written      *)
(* down.  A cleanup observes, removes what it may and seals a receipt; the *)
(* events of applyResourceEvent only change the registry.                  *)
(***************************************************************************)
EXTENDS Naturals

CONSTANTS MaxSelfTests      \* bound: recorded self-test failures

VARIABLES
    real,           \* resources that exist, the port apart
    holder,         \* who has the port: "attempt", "foreign" or "nobody"
    verification,   \* the receipt of the Git cleanup, if there is one
    verified,       \* that receipt is true when it is observed again
    registry,       \* the resource registry
    receipts        \* receipts with status resources-clean: "clean",
                    \* "quarantined"

resourceVars == <<real, holder, verification, verified, registry, receipts>>

-----------------------------------------------------------------------------

Processes == {"process-group", "service"}

\* The service is group-owned, the others are attempt-owned.
OwnResources ==
    {"git", "process-group", "port", "lock", "lease", "temporary-directory"}

\* isCleanupTarget
Targets(groupCleanup) ==
    OwnResources \cup IF groupCleanup THEN {"service"} ELSE {}

ResourceInit ==
    /\ real = (OwnResources \ {"port"}) \cup {"service"}
    /\ holder = "attempt"
    /\ verification = "none"
    /\ verified = FALSE
    /\ registry = [phase |-> "implementing-self-testing", writeLease |-> "active",
                   readLease |-> FALSE, slotHeld |-> TRUE, authorized |-> TRUE,
                   state |-> [r \in OwnResources \cup {"service"} |-> "active"],
                   selfTests |-> 0, retry |-> FALSE]
    /\ receipts = {}

-----------------------------------------------------------------------------
(* cleanupAttemptResources *)

\* Without a Git receipt that is still true nothing is touched.
CleanupRefused ==
    /\ ~verified
    /\ registry' = [registry EXCEPT !.authorized = FALSE]
    /\ UNCHANGED <<real, holder, verification, verified, receipts>>

\* What is left running by TERM and KILL.
Survivors(targets) == SUBSET (targets \cap real \cap Processes)

PortAndLockFailures(targets, survivors) ==
    {r \in {"port"} : holder = "foreign"}

\* cleanProcessGroup, cleanPort, cleanLock.  A lock is acquired to see that
\* nobody holds it, so one that an earlier cleanup removed cannot be cleaned.
CleanupFailures(targets, survivors) ==
    survivors
      \cup {r \in {"port"} : \/ holder = "foreign"
                             \/ holder = "attempt" /\ "process-group" \in survivors}
      \cup {r \in {"lock"} : "lock" \notin real \/ "process-group" \in survivors}

RecordCleanup(targets, failed) ==
    LET marked == [r \in DOMAIN registry.state |->
                     CASE r \in failed           -> "cleanup-failed"
                       [] r \in targets \ failed -> "removed-clean"
                       [] OTHER                  -> registry.state[r]]
    IN IF failed = {}
       THEN /\ registry' = [registry EXCEPT
                 !.state = marked,
                 !.writeLease = "released",
                 !.slotHeld = FALSE,
                 !.phase = IF verification = "quarantined"
                           THEN "cleaned-with-quarantine" ELSE "cleaned",
                 !.authorized = @ /\ verification # "quarantined"]
            /\ receipts' = receipts \cup {verification}
       ELSE /\ registry' = [registry EXCEPT !.state = marked,
                                            !.authorized = FALSE]
            /\ UNCHANGED receipts

CleanupAttempt(groupCleanup) ==
    /\ verified
    /\ LET targets == Targets(groupCleanup)
       IN \E survivors \in Survivors(targets) :
            LET failed == CleanupFailures(targets, survivors)
            IN /\ real' = real \ (targets \ failed)
               /\ holder' = IF holder = "attempt" /\ "process-group" \notin survivors
                            THEN "nobody" ELSE holder
               /\ RecordCleanup(targets, failed)
    /\ UNCHANGED <<verification, verified>>

-----------------------------------------------------------------------------
(* applyResourceEvent *)

Changed(next) ==
    /\ registry' = next
    /\ UNCHANGED <<real, holder, verification, verified, receipts>>

\* A red self-test stays in its attempt and worktree.
SelfTestFailed ==
    /\ registry.selfTests < MaxSelfTests
    /\ Changed([registry EXCEPT !.selfTests = @ + 1])

CleanupStarted ==
    /\ registry.phase # "implementing-self-testing"
    /\ Changed([registry EXCEPT !.phase = "cleaning"])

\* The writer's lease is revoked while an independent verifier reads.
SelfTestGreen ==
    /\ registry.writeLease = "active"
    /\ Changed([registry EXCEPT !.writeLease = "revoked", !.readLease = TRUE,
                                !.phase = "independent-verifying"])

VerificationRejected ==
    /\ registry.phase = "independent-verifying"
    /\ registry.readLease
    /\ Changed([registry EXCEPT !.writeLease = "active", !.readLease = FALSE,
                                !.phase = "implementing-self-testing"])

ServiceReplaced(r) ==
    Changed([registry EXCEPT !.state[r] = "active"])

LeaderExited(r) ==
    Changed([registry EXCEPT !.state[r] = "leader-exited-unverified"])

\* applyVerifiedCleanup with a receipt of this attempt; attempt.terminal-requested
\* differs in the phase only.
SlotReleaseRequested ==
    /\ receipts # {}
    /\ \E phase \in {"cleaned", "terminal"} :
         Changed([registry EXCEPT !.slotHeld = FALSE, !.writeLease = "released",
                                  !.phase = phase])

RetryStarted ==
    /\ ~registry.retry
    /\ Changed([registry EXCEPT !.retry = TRUE])

\* worktree.cleanup-requested of a dirty worktree
DirtyWorktree ==
    Changed([registry EXCEPT !.phase = "quarantined-dirty", !.slotHeld = TRUE,
                             !.authorized = FALSE])

MemberCleanup ==
    Changed([registry EXCEPT
      !.state = [r \in DOMAIN registry.state |->
                   IF r = "service" THEN "retained" ELSE "removed-clean"]])

\* group-cleanup.completed with what its observer still found
GroupCleanup ==
    Changed([registry EXCEPT
      !.state = [r \in DOMAIN registry.state |->
                   IF r \in real \/ (r = "port" /\ holder = "attempt")
                   THEN "cleanup-failed" ELSE "removed-clean"]])

-----------------------------------------------------------------------------
(* The machine. *)

\* GitResourceCleanup ends in post-cleanup-verified; a push to the default
\* branch makes its receipt unverifiable.
GitCleanupVerified ==
    /\ verification = "none"
    /\ verification' \in {"clean", "quarantined"}
    /\ verified' = TRUE
    /\ real' = real \ {"git"}
    /\ UNCHANGED <<holder, registry, receipts>>

DefaultBranchMoves ==
    /\ verified
    /\ verified' = FALSE
    /\ UNCHANGED <<real, holder, verification, registry, receipts>>

\* The processes of the attempt end, and free its port.
ProcessesExit ==
    /\ "process-group" \in real
    /\ real' = real \ {"process-group"}
    /\ holder' = IF holder = "attempt" THEN "nobody" ELSE holder
    /\ UNCHANGED <<verification, verified, registry, receipts>>

ForeignTakesPort ==
    /\ holder = "nobody"
    /\ holder' = "foreign"
    /\ UNCHANGED <<real, verification, verified, registry, receipts>>

ForeignLeavesPort ==
    /\ holder = "foreign"
    /\ holder' = "nobody"
    /\ UNCHANGED <<real, verification, verified, registry, receipts>>

ResourceNext ==
    \/ CleanupRefused
    \/ \E groupCleanup \in BOOLEAN : CleanupAttempt(groupCleanup)
    \/ SelfTestFailed \/ CleanupStarted \/ SelfTestGreen \/ VerificationRejected
    \/ \E r \in Processes : ServiceReplaced(r) \/ LeaderExited(r)
    \/ SlotReleaseRequested \/ RetryStarted \/ DirtyWorktree
    \/ MemberCleanup \/ GroupCleanup
    \/ GitCleanupVerified \/ DefaultBranchMoves
    \/ ProcessesExit \/ ForeignTakesPort \/ ForeignLeavesPort

ResourceSpec == ResourceInit /\ [][ResourceNext]_resourceVars

-----------------------------------------------------------------------------

\* A slot that was given up has nothing left behind it: whatever cleanups
\* failed half way, were repeated or raced with other processes, and whatever
\* the registry was told meanwhile, the Git resources were verified and the
\* processes, the lock, the lease and the directory of the attempt are gone.
SlotFreedWhenGone ==
    ~registry.slotHeld => real \cap OwnResources = {} /\ holder # "attempt"
=============================================================================
