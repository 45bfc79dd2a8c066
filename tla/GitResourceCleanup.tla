------------------------- MODULE GitResourceCleanup -------------------------
(***************************************************************************)
(* Cleanup of the worktree and branch of finished attempts                 *)
(* (git-resource-cleanup.mjs): one state machine per pair of resources,    *)
(* driven by the root, in a Git repository that writers and other          *)
(* cleanups share.                                                         *)
(*                                                                         *)
(* The functions of the module have two outcomes of their own: the effect  *)
(* on the repository and the state they return, which the caller saves.    *)
(* An interruption loses the second, and so does a check that fails after  *)
(* the effect; `saved' says whether the caller got it.                     *)
(*                                                                         *)
(* A commit is its resource: the candidate of r, or the base.  Edits that  *)
(* are not committed are counted: git status tells none from some, but not *)
(* one edit of a changed file from two.                                    *)
(***************************************************************************)
EXTENDS Naturals

CONSTANTS
    Resources,          \* pairs of a worktree and a branch of one repository
    Descends,           \* <<r, s>>: the candidate of s contains that of r
    Unchanged,          \* resources whose candidate is their base
    Writers,            \* resources with a process in the worktree at first
    Staged,             \* resources with a remote staging ref
    MaxGitEdits,        \* bound: edits of a worktree
    MaxLandings,        \* bound: pushes to the default branch
    MaxGitTakeovers     \* bound: changes of the root authority

\* Descent of candidates is that of their commits, and no candidate replaces
\* itself (compileCandidateSupersessionMapping).
ASSUME DescendsAssumption ==
    /\ \A r \in Resources : <<r, r>> \notin Descends
    /\ \A r, s, t \in Resources :
         <<r, s>> \in Descends /\ <<s, t>> \in Descends => <<r, t>> \in Descends

VARIABLES
    rootEpoch,          \* rootAuthorityEpoch and actorInvocationId
    default,            \* default branch: number of its head, what it contains
    tree,               \* per resource, its worktree
    branch,             \* per resource, its local branch
    staging,            \* per resource, its remote staging ref
    kept,               \* per resource, its quarantine: directory, ref, edits
    lease,              \* per resource, the lease file exists
    cleanup             \* per resource, the state the root has saved

gitVars ==
    <<rootEpoch, default, tree, branch, staging, kept, lease, cleanup>>

-----------------------------------------------------------------------------

\* listRefs without the refs of r itself: expectedUnchangedRefs compares them.
OtherRefs(r) ==
    [head |-> default.head,
     branches |-> [s \in Resources \ {r} |-> branch[s]],
     quarantine |-> {s \in Resources \ {r} : kept[s].ref}]

NoInventory == [head |-> 0, dirty |-> FALSE, refs |-> <<>>]

Unstarted ==
    [state |-> "none", epoch |-> 0, inventory |-> NoInventory,
     disposition |-> "none", mapping |-> "none", remoteCleaned |-> FALSE]

GitInit ==
    /\ rootEpoch = 1
    /\ default = [head |-> 1, contains |-> Unchanged, patches |-> {}, last |-> {}]
    /\ tree = [r \in Resources |-> [present |-> TRUE, edits |-> 0,
                                    process |-> r \in Writers]]
    /\ branch = [r \in Resources |-> "candidate"]
    /\ staging = [r \in Resources |-> IF r \in Staged THEN "expected" ELSE "gone"]
    /\ kept = [r \in Resources |-> [directory |-> FALSE, ref |-> FALSE, edits |-> 0]]
    /\ lease = [r \in Resources |-> TRUE]
    /\ cleanup = [r \in Resources |-> Unstarted]

\* validateAuthority and validateState: the root that created the cleanup
\* continues it from the state it expects.
At(r, state) == cleanup[r].state = state /\ cleanup[r].epoch = rootEpoch

\* advance, when the caller gets the new state.
Advance(r, state, saved) ==
    cleanup' = IF saved THEN [cleanup EXCEPT ![r].state = state] ELSE cleanup

-----------------------------------------------------------------------------
(* The root. *)

\* A new root knows nothing of a state that was not handed over.
CreateCleanup(r) ==
    /\ cleanup[r].epoch # rootEpoch
    /\ tree[r].present
    /\ cleanup' = [cleanup EXCEPT ![r] =
                     [Unstarted EXCEPT !.state = "active", !.epoch = rootEpoch]]
    /\ UNCHANGED <<rootEpoch, default, tree, branch, staging, kept, lease>>

FreezeResource(r) ==
    /\ At(r, "active")
    /\ Advance(r, "frozen", TRUE)
    /\ UNCHANGED <<rootEpoch, default, tree, branch, staging, kept, lease>>

\* inventorySnapshot: the worktree is registered and on the candidate.
InventoryResource(r) ==
    /\ At(r, "frozen")
    /\ tree[r].present
    /\ branch[r] = "candidate"
    /\ cleanup' = [cleanup EXCEPT
         ![r].state = "inventoried",
         ![r].inventory = [head |-> default.head, dirty |-> tree[r].edits > 0,
                           refs |-> OtherRefs(r)]]
    /\ UNCHANGED <<rootEpoch, default, tree, branch, staging, kept, lease>>

CriticalInventoryCurrent(r) ==
    /\ tree[r].present
    /\ (tree[r].edits > 0) = cleanup[r].inventory.dirty
    /\ branch[r] = "candidate"
    /\ default.head = cleanup[r].inventory.head

\* compileCandidateLandingMapping: the landing commit is the head of the
\* default branch, and contains the candidate or is the same patch.
LandingMapping(r) ==
    CASE r \in default.contains -> "merge-ancestry"
      [] r \notin default.contains /\ r \in default.last -> "exact-patch"
      [] OTHER -> "none"

Prove(r, disposition, mapping, saved) ==
    cleanup' = IF saved
               THEN [cleanup EXCEPT ![r].state = "candidate-disposition-proven",
                                    ![r].disposition = disposition,
                                    ![r].mapping = mapping]
               ELSE cleanup

ProveLanded(r) ==
    /\ At(r, "inventoried")
    /\ CriticalInventoryCurrent(r)
    /\ LandingMapping(r) # "none"
    /\ Prove(r, "landed", LandingMapping(r), TRUE)
    /\ UNCHANGED <<rootEpoch, default, tree, branch, staging, kept, lease>>

ProveSuperseded(r) ==
    /\ At(r, "inventoried")
    /\ CriticalInventoryCurrent(r)
    /\ \E s \in Resources : <<r, s>> \in Descends
    /\ Prove(r, "superseded", "none", TRUE)
    /\ UNCHANGED <<rootEpoch, default, tree, branch, staging, kept, lease>>

ProveDiscard(r) ==
    /\ At(r, "inventoried")
    /\ CriticalInventoryCurrent(r)
    /\ ~cleanup[r].inventory.dirty
    /\ r \in Unchanged
    /\ Prove(r, "discard-authorized", "none", TRUE)
    /\ UNCHANGED <<rootEpoch, default, tree, branch, staging, kept, lease>>

\* preserveQuarantine makes the directory first and refuses to make it twice;
\* an interruption may come before or after the ref.
QuarantineCandidate(r) ==
    /\ At(r, "inventoried")
    /\ CriticalInventoryCurrent(r)
    /\ ~kept[r].directory
    /\ \E saved, ref \in BOOLEAN :
         /\ saved => ref
         /\ kept' = [kept EXCEPT ![r] = [directory |-> TRUE, ref |-> ref,
                                         edits |-> tree[r].edits]]
         /\ Prove(r, "quarantined", "none", saved)
    /\ UNCHANGED <<rootEpoch, default, tree, branch, staging, lease>>

\* verifyQuarantineReceipt
QuarantineVerified(r) ==
    cleanup[r].disposition = "quarantined" /\ kept[r].directory /\ kept[r].ref

ConfirmStopped(r) ==
    /\ At(r, "candidate-disposition-proven")
    /\ ~tree[r].process
    /\ Advance(r, "actors-and-processes-stopped", TRUE)
    /\ UNCHANGED <<rootEpoch, default, tree, branch, staging, kept, lease>>

RemovalForced(r) == TRUE

\* git refuses to remove a worktree with edits; force needs the quarantine.
RemovalAllowed(r) == tree[r].edits = 0 \/ QuarantineVerified(r)

RemoveWorktree(r) ==
    /\ At(r, "actors-and-processes-stopped")
    /\ CriticalInventoryCurrent(r)
    /\ ~tree[r].process
    /\ RemovalAllowed(r)
    /\ tree' = [tree EXCEPT ![r].present = FALSE]
    /\ \E saved \in BOOLEAN : Advance(r, "worktree-removed", saved)
    /\ UNCHANGED <<rootEpoch, default, branch, staging, kept, lease>>

\* What retireGitLocalRef checks of the disposition; git branch -d makes the
\* check of merge-ancestry once more.
RetirementProven(r) ==
    CASE cleanup[r].disposition = "landed" ->
           /\ default.head = cleanup[r].inventory.head
           /\ cleanup[r].mapping = "merge-ancestry" => r \in default.contains
      [] cleanup[r].disposition = "quarantined" -> QuarantineVerified(r)
      [] OTHER -> TRUE

\* The other refs are compared after the branch is gone: when one changed since
\* the inventory, the function fails and the state stays behind the effect.
RetireLocalRef(r) ==
    /\ At(r, "worktree-removed")
    /\ branch[r] = "candidate"
    /\ RetirementProven(r)
    /\ branch' = [branch EXCEPT ![r] = "gone"]
    /\ \E saved \in BOOLEAN :
         /\ saved => OtherRefs(r) = cleanup[r].inventory.refs
         /\ Advance(r, IF cleanup[r].disposition = "quarantined"
                       THEN "quarantined" ELSE "local-ref-retired", saved)
    /\ UNCHANGED <<rootEpoch, default, tree, staging, kept, lease>>

LocalRefRetired(r) == \/ At(r, "local-ref-retired")
                      \/ At(r, "quarantined")

\* authorizeRemoteStagingRefCleanup and cleanupRemoteStagingRef: delete with a
\* lease on the expected commit.
CleanupRemoteRef(r) ==
    /\ LocalRefRetired(r)
    /\ r \in Staged
    /\ staging[r] = "expected"
    /\ staging' = [staging EXCEPT ![r] = "gone"]
    /\ \E saved \in BOOLEAN :
         cleanup' = [cleanup EXCEPT ![r].remoteCleaned = saved]
    /\ UNCHANGED <<rootEpoch, default, tree, branch, kept, lease>>

PhysicallyRetiredHere(r) ==
    /\ ~tree[r].present /\ ~tree[r].process
    /\ branch[r] = "gone"

\* verifyPhysicalRetirement
PhysicallyRetired(r) ==
    /\ ~tree[r].present
    /\ branch[r] = "gone"
    /\ default.head = cleanup[r].inventory.head
    /\ ~tree[r].process
    /\ cleanup[r].disposition = "quarantined" => QuarantineVerified(r)
    /\ r \in Staged => cleanup[r].remoteCleaned /\ staging[r] = "gone"

ReleaseLeaseAndSlot(r) ==
    /\ LocalRefRetired(r)
    /\ PhysicallyRetired(r)
    /\ lease[r]
    /\ lease' = [lease EXCEPT ![r] = FALSE]
    /\ \E saved \in BOOLEAN : Advance(r, "lease-and-slot-released", saved)
    /\ UNCHANGED <<rootEpoch, default, tree, branch, staging, kept>>

VerifyCleanup(r) ==
    /\ cleanup[r].state = "lease-and-slot-released"
    /\ ~lease[r]
    /\ PhysicallyRetired(r)
    /\ OtherRefs(r) = cleanup[r].inventory.refs
    /\ Advance(r, "post-cleanup-verified", TRUE)
    /\ UNCHANGED <<rootEpoch, default, tree, branch, staging, kept, lease>>

\* reobserveGitResourceCleanupVerification: the receipt is believed as long as
\* it is still true, and nothing was pushed to the default branch since.
Reobserved(r) ==
    /\ cleanup[r].state = "post-cleanup-verified"
    /\ ~tree[r].present /\ ~tree[r].process
    /\ branch[r] = "gone"
    /\ default.head = cleanup[r].inventory.head
    /\ ~lease[r]
    /\ cleanup[r].disposition = "quarantined" => kept[r].ref

-----------------------------------------------------------------------------
(* The others: writers, other pushes, people. *)

WriterEdits(r) ==
    /\ tree[r].present /\ tree[r].process
    /\ tree[r].edits < MaxGitEdits
    /\ tree' = [tree EXCEPT ![r].edits = @ + 1]
    /\ UNCHANGED <<rootEpoch, default, branch, staging, kept, lease, cleanup>>

WriterCommits(r) ==
    /\ tree[r].present /\ tree[r].process
    /\ tree[r].edits > 0
    /\ tree' = [tree EXCEPT ![r].edits = 0]
    /\ branch' = [branch EXCEPT ![r] = "moved"]
    /\ UNCHANGED <<rootEpoch, default, staging, kept, lease, cleanup>>

ProcessExits(r) ==
    /\ tree[r].process
    /\ tree' = [tree EXCEPT ![r].process = FALSE]
    /\ UNCHANGED <<rootEpoch, default, branch, staging, kept, lease, cleanup>>

StagingMoves(r) ==
    /\ staging[r] = "expected"
    /\ staging' = [staging EXCEPT ![r] = "moved"]
    /\ UNCHANGED <<rootEpoch, default, tree, branch, kept, lease, cleanup>>

\* The ancestors of the candidate of r, itself included.
Ancestry(r) == {r} \cup {s \in Resources : <<s, r>> \in Descends}

LandByMerge(r) ==
    /\ default.head <= MaxLandings
    /\ r \notin default.contains
    /\ default' = [head |-> default.head + 1, last |-> {},
                   contains |-> default.contains \cup Ancestry(r),
                   patches |-> default.patches]
    /\ UNCHANGED <<rootEpoch, tree, branch, staging, kept, lease, cleanup>>

LandAsPatch(r) ==
    /\ default.head <= MaxLandings
    /\ r \notin default.contains
    /\ default' = [default EXCEPT !.head = @ + 1, !.last = {r},
                                  !.patches = @ \cup {r}]
    /\ UNCHANGED <<rootEpoch, tree, branch, staging, kept, lease, cleanup>>

GitTakeover ==
    /\ rootEpoch <= MaxGitTakeovers
    /\ rootEpoch' = rootEpoch + 1
    /\ UNCHANGED <<default, tree, branch, staging, kept, lease, cleanup>>

GitNext ==
    \/ GitTakeover
    \/ \E r \in Resources :
         \/ CreateCleanup(r) \/ FreezeResource(r) \/ InventoryResource(r)
         \/ ProveLanded(r) \/ ProveSuperseded(r) \/ ProveDiscard(r)
         \/ QuarantineCandidate(r)
         \/ ConfirmStopped(r) \/ RemoveWorktree(r) \/ RetireLocalRef(r)
         \/ CleanupRemoteRef(r) \/ ReleaseLeaseAndSlot(r) \/ VerifyCleanup(r)
         \/ WriterEdits(r) \/ WriterCommits(r) \/ ProcessExits(r)
         \/ StagingMoves(r) \/ LandByMerge(r) \/ LandAsPatch(r)

GitSpec == GitInit /\ [][GitNext]_gitVars

-----------------------------------------------------------------------------

\* What can still be found of the candidate of r without its branch: in the
\* default branch, under a quarantine ref, or as part of a candidate that can.
Found(r) ==
    LET here(s) == \/ branch[s] # "gone"
                   \/ s \in default.contains \cup default.patches
                   \/ kept[s].ref
    IN \E s \in Resources : r \in Ancestry(s) /\ here(s)

\* No cleanup, however interrupted, repeated or interleaved with another one,
\* loses the commits of a candidate or the uncommitted changes of a worktree:
\* the refs and the quarantine hold them when the worktree and branch do not
\* (of a file that was edited after it was copied, the copy).
CandidateNotLost ==
    \A r \in Resources :
        /\ Found(r)
        /\ ~tree[r].present => tree[r].edits = 0 \/ kept[r].edits > 0

\* The lease of a resource (and with it the slot) outlives everything it stands
\* for: the worktree, its processes, the branch and the remote staging ref.
LeaseOutlivesResource ==
    \A r \in Resources :
        lease[r] \/ /\ ~tree[r].present /\ ~tree[r].process
                    /\ branch[r] = "gone" /\ staging[r] = "gone"
=============================================================================
