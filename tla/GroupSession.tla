---------------------------- MODULE GroupSession ----------------------------
(***************************************************************************)
(* An acceptance group session (acceptance-group-session.mjs): the issues  *)
(* of a group are worked on one after the other in one worktree.  A member *)
(* is activated, written under the one write lease, verified, and          *)
(* committed on top of the member before it; the commits are frozen as the *)
(* source of the landing lane.                                             *)
(*                                                                         *)
(* A candidate is its number within its member, a receipt the candidate it *)
(* was given for (0: none), a commit its place in `commits'.               *)
(***************************************************************************)
EXTENDS Naturals, Sequences

CONSTANTS
    GroupMembers,       \* memberOrder
    MaxCandidates,      \* bound: candidates of a member
    MaxCommits          \* bound: commits of the group

ASSUME GroupMembersAssumption ==
    /\ Len(GroupMembers) \in Nat /\ Len(GroupMembers) > 1
    /\ DOMAIN GroupMembers = 1 .. Len(GroupMembers)

VARIABLES
    activeMember,       \* activeMemberIssue: its place in the order, or 0
    writeLease,         \* activeWriteLeaseId: 0 when there is none
    leases,             \* leases handed out so far
    member,             \* per place in the order, the member
    commits,            \* commits: of which candidate, on which parent
    sourceTip,          \* immutableSourceTip, or 0
    commitPrefix        \* orderedGreenCommitPrefix

groupVars ==
    <<activeMember, writeLease, leases, member, commits, sourceTip, commitPrefix>>

-----------------------------------------------------------------------------

Places == DOMAIN GroupMembers
ReceiptClasses == {"selfTest", "behavior", "documentation"}

GroupInit ==
    /\ activeMember = 0
    /\ writeLease = 0
    /\ leases = 0
    /\ member = [i \in Places |->
         [status |-> "member-pending", candidate |-> 0, commit |-> 0, lease |-> 0,
          receipts |-> [c \in ReceiptClasses |-> 0]]]
    /\ commits = <<>>
    /\ sourceTip = 0
    /\ commitPrefix = <<>>

PreviousIsAny(i) == TRUE
PreviousMemberIsGreen(i) ==
    i > 1 => member[i - 1].status = "green-committed"

\* A member that waits for a human is never activated again.
ActivateGroupMember(i) ==
    /\ writeLease = 0
    /\ activeMember \in {0, i}
    /\ PreviousMemberIsGreen(i)
    /\ member[i].status \notin {"member-human-decision-pending", "green-committed"}
    /\ activeMember' = i
    /\ member' = [member EXCEPT ![i].status = "member-active"]
    /\ UNCHANGED <<writeLease, leases, commits, sourceTip, commitPrefix>>

AcquireMemberWriteLease(i) ==
    /\ writeLease = 0
    /\ activeMember = i
    /\ member[i].status = "member-active"
    /\ leases < MaxCandidates * Len(GroupMembers)
    /\ leases' = leases + 1
    /\ writeLease' = leases + 1
    /\ member' = [member EXCEPT ![i].lease = leases + 1,
                                ![i].status = "member-writing"]
    /\ UNCHANGED <<activeMember, commits, sourceTip, commitPrefix>>

HoldsWriteLease(i) ==
    activeMember = i /\ writeLease # 0 /\ writeLease = member[i].lease

\* The receipts of the verifiers stay as they are.
RecordMemberCandidate(i) ==
    /\ HoldsWriteLease(i)
    /\ member[i].candidate < MaxCandidates
    /\ LET candidate == member[i].candidate + 1
       IN member' = [member EXCEPT ![i].candidate = candidate,
                                   ![i].receipts["selfTest"] = candidate,
                                   ![i].status = "member-candidate-verified"]
    /\ UNCHANGED <<activeMember, writeLease, leases, commits, sourceTip, commitPrefix>>

\* The session stays with a red member: it is activated and written again, as is
\* one that waits for its receipts.
ReleaseMemberWriteLease(i) ==
    /\ HoldsWriteLease(i)
    /\ writeLease' = 0
    /\ \E complete \in BOOLEAN :
         member' = [member EXCEPT
           ![i].lease = 0,
           ![i].status = IF complete /\ member[i].receipts["selfTest"] # 0
                         THEN "member-awaiting-receipts" ELSE "member-red"]
    /\ UNCHANGED <<activeMember, leases, commits, sourceTip, commitPrefix>>

\* A class is bound once for a member, not once for a candidate.
BindMemberReceipt(i, class) ==
    /\ member[i].candidate # 0
    /\ member[i].receipts[class] = 0
    /\ member' = [member EXCEPT ![i].receipts[class] = member[i].candidate]
    /\ UNCHANGED <<activeMember, writeLease, leases, commits, sourceTip, commitPrefix>>

ReceiptsAreGreen(i) == \A c \in ReceiptClasses : member[i].receipts[c] # 0

ExpectedParent(i) == IF i = 1 THEN 0 ELSE member[i - 1].commit

\* Neither the active member nor an earlier commit of this one is looked at.
RecordMemberCommit(i) ==
    /\ ReceiptsAreGreen(i)
    /\ Len(commits) < MaxCommits
    /\ commits' = Append(commits, [candidate |-> member[i].candidate,
                                   parent |-> ExpectedParent(i)])
    /\ member' = [member EXCEPT ![i].commit = Len(commits) + 1,
                                ![i].status = "green-committed"]
    /\ activeMember' = 0
    /\ writeLease' = 0
    /\ UNCHANGED <<leases, sourceTip, commitPrefix>>

AllGreen == \A i \in Places : member[i].status = "green-committed"

FreezeGroupSource ==
    /\ sourceTip = 0
    /\ AllGreen
    /\ sourceTip' = member[Len(GroupMembers)].commit
    /\ commitPrefix' = [i \in Places |-> member[i].commit]
    /\ UNCHANGED <<activeMember, writeLease, leases, member, commits>>

MarkMemberHumanDecisionPending(i) ==
    /\ member[i].status # "green-committed"
    /\ activeMember' = IF activeMember = i THEN 0 ELSE activeMember
    /\ writeLease' = IF activeMember = i THEN 0 ELSE writeLease
    /\ member' = [member EXCEPT
         ![i].status = "member-human-decision-pending",
         ![i].lease = IF activeMember = i THEN 0 ELSE @]
    /\ UNCHANGED <<leases, commits, sourceTip, commitPrefix>>

GroupNext ==
    \/ FreezeGroupSource
    \/ \E i \in Places :
         \/ ActivateGroupMember(i) \/ AcquireMemberWriteLease(i)
         \/ RecordMemberCandidate(i) \/ ReleaseMemberWriteLease(i)
         \/ \E class \in {"behavior", "documentation"} : BindMemberReceipt(i, class)
         \/ RecordMemberCommit(i) \/ MarkMemberHumanDecisionPending(i)

GroupSpec == GroupInit /\ [][GroupNext]_groupVars

-----------------------------------------------------------------------------

\* Members become green in their order, whatever is written, repeated or left
\* to a human on the way: a member is started when all before it are committed
\* and they stay so, every commit has a parent that a member before it made,
\* and a frozen source has a commit of every member.
GreenInOrder ==
    /\ \A i \in Places : member[i].status \in
         {"member-active", "member-writing", "member-candidate-verified",
          "member-awaiting-receipts", "member-red", "green-committed"} =>
             \A j \in 1 .. i - 1 : member[j].status = "green-committed"
    /\ \A i \in Places \ {1} : member[i].commit # 0 =>
             commits[member[i].commit].parent # 0
    /\ sourceTip # 0 => \A i \in Places : commitPrefix[i] # 0

\* review-failure-and-verification.md:26 of the references: a behavior receipt
\* is void as soon as the identity of the candidate changes, so the candidate a
\* member commits is the one its behavior was verified for.
CommitsAreVerified ==
    \A i \in Places : member[i].commit # 0 =>
        member[i].receipts["behavior"] = commits[member[i].commit].candidate
=============================================================================
