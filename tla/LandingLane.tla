---------------------------- MODULE LandingLane ----------------------------
(***************************************************************************)
(* The landing lane of a repository (repository-landing-lane.mjs): one     *)
(* attempt at a time holds the lease of the lane and moves the commits of  *)
(* the members of a group, in their order, onto the latest remote head; it *)
(* verifies them there and pushes the result as a fast-forward.            *)
(*                                                                         *)
(* An attempt is a value: its caller may lose it and create it again while *)
(* it has the lease, and lease and attempt are not compared after that.    *)
(* What a caller reports of Git (that a commit was picked, that the base   *)
(* has it already) is believed; the lane never reads the repository.       *)
(* Other people push to the default branch, and land members by hand.      *)
(* `remote' is that branch as a sequence: who pushed what.                 *)
(***************************************************************************)
EXTENDS Naturals, Sequences, FiniteSets, SequencesExt

CONSTANTS
    Members,            \* sourceMemberOrder
    LandingAttempts,    \* attempt ids
    EvidenceClasses,    \* requiredReverificationClasses
    MaxLandingEvents,   \* bound: length of the event log of an attempt
    MaxRemote           \* bound: pushes of other people

ASSUME MemberAssumption ==
    /\ Members \in Seq(ToSet(Members))
    /\ IsInjective(Members)
    /\ "foreign" \notin ToSet(Members)

VARIABLES
    remote,             \* the default branch
    laneLease,          \* the attempt that holds the lease, or "idle"
    landing             \* per attempt, its projection

laneVars == <<remote, laneLease, landing>>

-----------------------------------------------------------------------------

Issues == ToSet(Members)

NoSlice == [member |-> "none", kind |-> "none", checkpoint |-> FALSE]

NoLanding == [state |-> "none"]

\* createLandingAttempt: the projection of the first event, on a given head.
Created(head) ==
    [state |-> "landing-transplanting",
     base |-> Len(head), onto |-> ToSet(head), tip |-> <<>>, transplanted |-> {},
     disposition |-> [m \in Issues |-> "clean-transplant-required"],
     evidence |-> [m \in Issues |-> [c \in EvidenceClasses |-> "none"]],
     verified |-> [m \in Issues |-> {}],
     slice |-> NoSlice, events |-> 1]

LaneInit ==
    /\ remote = <<>>
    /\ laneLease = "idle"
    /\ landing = [a \in LandingAttempts |-> NoLanding]

Exists(a) == landing[a].state # "none"

Index(m) == CHOOSE i \in DOMAIN Members : Members[i] = m

AppendAttemptEvent(a, next) ==
    /\ landing[a].events < MaxLandingEvents
    /\ landing' = [landing EXCEPT ![a] = [next EXCEPT !.events = @ + 1]]
    /\ UNCHANGED <<remote, laneLease>>

-----------------------------------------------------------------------------
(* The lease. *)

AcquireLandingLease(a) ==
    /\ laneLease = "idle"
    /\ laneLease' = a
    /\ UNCHANGED <<remote, landing>>

\* Any landing receipt will do, whether the attempt is finished or not.
ReleaseLandingLease(a) ==
    /\ laneLease = a
    /\ Exists(a)
    /\ laneLease' = "idle"
    /\ UNCHANGED <<remote, landing>>

CreateLandingAttempt(a) ==
    /\ laneLease = a
    /\ landing' = [landing EXCEPT ![a] = Created(remote)]
    /\ UNCHANGED <<remote, laneLease>>

-----------------------------------------------------------------------------
(* The events of an attempt. *)

PreviousIsReady(a, m) ==
    Index(m) > 1 => landing[a].disposition[Members[Index(m) - 1]] = "landing-ready"

BindLandingSlice(a, m, kind) ==
    /\ Exists(a)
    /\ landing[a].slice = NoSlice
    /\ PreviousIsReady(a, m)
    /\ landing[a].disposition[m] # "human-decision-pending"
    /\ AppendAttemptEvent(a, [landing[a] EXCEPT
         !.slice = [member |-> m, kind |-> kind, checkpoint |-> FALSE],
         !.state = "landing-transplanting"])

RecordLandingCheckpoint(a) ==
    /\ Exists(a)
    /\ landing[a].slice # NoSlice
    /\ AppendAttemptEvent(a, [landing[a] EXCEPT
         !.slice.checkpoint = TRUE,
         !.state = "landing-slice-continuation-pending"])

ResumeLandingSlice(a) ==
    /\ Exists(a)
    /\ landing[a].state = "landing-slice-continuation-pending"
    /\ landing[a].slice.checkpoint
    /\ AppendAttemptEvent(a, [landing[a] EXCEPT !.state = "landing-transplanting"])

\* Once per source commit, in the order of the members.
InMemberOrder(a, m) ==
    /\ m \notin landing[a].transplanted
    /\ Index(m) = Cardinality(landing[a].transplanted) + 1

Transplanted(a, m, tip) ==
    AppendAttemptEvent(a, [landing[a] EXCEPT
      !.transplanted = @ \cup {m},
      !.tip = tip,
      !.disposition[m] = "transplanted-reverify-required",
      !.slice = NoSlice,
      !.state = "landing-reverifying"])

\* The caller reports a cherry-pick onto the tip, in a slice of the one kind or, with
\* a conflict, of the other; whether the base has the commit is not looked at.
TransplantCommit(a, m) ==
    /\ Exists(a)
    /\ landing[a].slice.member = m
    /\ InMemberOrder(a, m)
    /\ Transplanted(a, m, Append(landing[a].tip, m))

\* The caller reports already-applied-equivalent: the tip stays where it is.  A
\* hash of evidence stands for it, in a conflict slice not even that.
RecordAlreadyApplied(a, m) ==
    /\ Exists(a)
    /\ landing[a].slice.member = m
    /\ InMemberOrder(a, m)
    /\ Transplanted(a, m, landing[a].tip)

RecordEvidenceRebinding(a, m, c, disposition) ==
    /\ Exists(a)
    /\ m \in landing[a].transplanted
    /\ AppendAttemptEvent(a, [landing[a] EXCEPT !.evidence[m][c] = disposition])

\* memberRequiredEvidenceComplete
EvidenceComplete(verified) == verified = EvidenceClasses

\* A receipt for the new commit on the base of the attempt; evidence that was
\* rebound as source-independent has none, and never becomes complete.
RecordReverificationReceipt(a, m, c) ==
    /\ Exists(a)
    /\ landing[a].evidence[m][c] = "reverify-required"
    /\ LET verified == landing[a].verified[m] \cup {c}
           ready == EvidenceComplete(verified)
       IN AppendAttemptEvent(a, [landing[a] EXCEPT
            !.verified[m] = verified,
            !.disposition[m] = IF ready THEN "landing-ready"
                               ELSE "transplanted-reverify-required",
            !.state = IF ready THEN "landing-transplanting"
                      ELSE "landing-reverifying"])

\* Only a conflict slice may ask; no event takes the member out of this.
HumanDecisionPending(a, m) ==
    /\ Exists(a)
    /\ landing[a].slice.member = m
    /\ landing[a].slice.kind = "resolve-one-member-one-conflict-cluster"
    /\ AppendAttemptEvent(a, [landing[a] EXCEPT
         !.disposition[m] = "human-decision-pending",
         !.slice = NoSlice,
         !.state = "human-decision-pending"])

ObserveRemoteDrift(a) ==
    /\ Exists(a)
    /\ Len(remote) # landing[a].base
    /\ AppendAttemptEvent(a, [landing[a] EXCEPT !.slice = NoSlice,
                                                !.state = "remote-drifted"])

\* Mutant: what is transplanted is ready, and the rest comes later.
TransplantedLandingReady(a) ==
    \A m \in landing[a].transplanted : /\ landing[a].disposition[m] = "landing-ready"
                                       /\ EvidenceComplete(landing[a].verified[m])

AllMembersLandingReady(a) ==
    \A m \in Issues : /\ m \in landing[a].transplanted
                      /\ landing[a].disposition[m] = "landing-ready"
                      /\ EvidenceComplete(landing[a].verified[m])

\* remoteHeadObservedBeforePush is the head the attempt was made on, which is
\* also what lets the host take the push as a fast-forward.
FastForward(a) == Len(remote) = landing[a].base

\* The push, and finalizeLanding with its result unless the caller dies first.
FinalizeLanding(a) ==
    /\ Exists(a)
    /\ landing[a].slice = NoSlice
    /\ landing[a].state \notin {"human-decision-pending", "remote-drifted"}
    /\ AllMembersLandingReady(a)
    /\ FastForward(a)
    /\ remote' = remote \o landing[a].tip
    /\ \E recorded \in BOOLEAN :
         landing' = IF recorded
                    THEN [landing EXCEPT
                            ![a].disposition = [m \in Issues |-> "landed"],
                            ![a].events = @ + 1,
                            ![a].state = "landed"]
                    ELSE landing
    /\ UNCHANGED laneLease

\* Somebody else pushes, perhaps a member that is not there yet.
ForeignRemotePush ==
    /\ Len(SelectSeq(remote, LAMBDA c : c = "foreign")) < MaxRemote
    /\ \E m \in Issues \ ToSet(remote) :
         \/ remote' = remote \o <<"foreign">>
         \/ remote' = remote \o <<"foreign", m>>
    /\ UNCHANGED <<laneLease, landing>>

LaneNext ==
    \/ ForeignRemotePush
    \/ \E a \in LandingAttempts :
         \/ AcquireLandingLease(a) \/ ReleaseLandingLease(a)
         \/ CreateLandingAttempt(a)
         \/ RecordLandingCheckpoint(a) \/ ResumeLandingSlice(a)
         \/ ObserveRemoteDrift(a) \/ FinalizeLanding(a)
         \/ \E m \in Issues :
              \/ \E kind \in {"transplant-one-member-commit",
                              "resolve-one-member-one-conflict-cluster"} :
                   BindLandingSlice(a, m, kind)
              \/ TransplantCommit(a, m) \/ RecordAlreadyApplied(a, m)
              \/ HumanDecisionPending(a, m)
              \/ \E c \in EvidenceClasses :
                   \/ \E d \in {"reverify-required", "source-independent-rebound"} :
                        RecordEvidenceRebinding(a, m, c, d)
                   \/ RecordReverificationReceipt(a, m, c)

LaneSpec == LaneInit /\ [][LaneNext]_laneVars

-----------------------------------------------------------------------------

\* What an attempt was told that its base contradicts: that a commit was picked
\* which the base has, or that the base has a commit which it does not have.
Misreported(a) ==
    {m \in landing[a].transplanted :
        m \in landing[a].onto <=> m \in ToSet(landing[a].tip)}

Existing == {a \in LandingAttempts : Exists(a)}

\* The assumption on callers that the lane leaves to them.
CallersTruthful == \A a \in Existing : Misreported(a) = {}

\* The default branch has each member once, however many attempts were made for
\* it, by hand too, and whether the process that pushed lived to record it; and
\* a member that an attempt landed has all the members before it below it.
\* Only as long as callers are truthful.
LandedOnceInOrder ==
    /\ \A i, j \in DOMAIN remote :
         remote[i] \in Issues /\ remote[i] = remote[j] => i = j
    /\ \A a \in LandingAttempts :
         landing[a].state = "landed" => Issues \subseteq ToSet(remote)
    /\ \A i \in DOMAIN remote :
         remote[i] \in Issues /\ (i > 1 => remote[i - 1] # "foreign") =>
             \A k \in 1 .. Index(remote[i]) - 1 :
                 \E j \in 1 .. i - 1 : remote[j] = Members[k]

\* Whatever becomes of attempts, leases and results, and whoever else pushes, an
\* attempt pushes in one step, in the order of the group and each once, what is
\* missing of it, and is wrong only about the members whose transplant its caller
\* misreported (LandingQueue.tla): finalizeLanding never lands a part.
Queue == INSTANCE LandingQueue WITH
    branch <- remote,
    told <- \E a \in LandingAttempts : landing[a].state = "landed",
    misreports <- {Misreported(a) : a \in Existing}
QueueSpec == Queue!Spec
=============================================================================
