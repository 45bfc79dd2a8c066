---------------------------- MODULE MCComponents ----------------------------
(* The parts that keep state of their own beside the run loop.  They share  *)
(* no variable, so each behaviour is one of one part, which `part' names;   *)
(* the variables of the others stay as they are at first.                   *)
EXTENDS WriterStage, GitResourceCleanup, AttemptResources, LandingLane,
        ReplayCache, RootTakeover, GroupSession, WriterExecution, Quiescence,
        Frontier

CONSTANTS Parts

VARIABLE part

Pairs == {<<"r1", "r2">>}
MemberOrder == <<"m1", "m2">>
GroupOrder == <<"i1", "i2">>

\* Two nodes that share a conflict key, a worktree or a resource, one of them with
\* an interface; or the second one depends on the first.  A selection finds the
\* worktrees in `alike' for the second one.
Shared(c1, c2, w2, alike, r, after, ui) ==
    <<[conflicts |-> c1, worktree |-> "w1", alike |-> {"w1"}, resources |-> r,
       priority |-> 1, unlocks |-> 0, age |-> 0, after |-> {}, ui |-> ui],
      [conflicts |-> c2, worktree |-> w2, alike |-> alike, resources |-> r,
       priority |-> 1, unlocks |-> 1, age |-> 0, after |-> after, ui |-> FALSE]>>

\* The last three: the second worktree is found in the lease of the first, like
\* 'issue-26' in that of 'issue-267'; the second one is not found in its own lease;
\* the second one has the first worktree among its conflict keys.
Graphs ==
    {Shared({"k"}, {"k"}, "w2", {"w2"}, {}, {}, FALSE),
     Shared({}, {}, "w1", {"w1"}, {}, {}, FALSE),
     Shared({}, {}, "w2", {"w2"}, {"port"}, {}, TRUE),
     Shared({}, {}, "w2", {"w2"}, {}, {1}, FALSE),
     Shared({}, {}, "w2", {"w1", "w2"}, {}, {}, FALSE),
     Shared({}, {}, "w1", {}, {}, {}, FALSE),
     Shared({}, {"w1"}, "w2", {"w2"}, {}, {}, FALSE)}

vars == <<part, writerVars, gitVars, resourceVars, laneVars, replayVars,
          takeoverVars, groupVars, executionVars, finalVars, frontierVars>>

Init ==
    /\ part \in Parts
    /\ WriterInit /\ (uiUx => part = "writer")
    /\ GitInit /\ ResourceInit /\ LaneInit /\ ReplayInit
    /\ TakeoverInit /\ GroupInit /\ ExecutionInit /\ FinalInit
    /\ FrontierInit /\ (part # "frontier" => work = CHOOSE w \in FrontierWork : TRUE)
    /\ (part # "frontier" => \A n \in DOMAIN work : members[n].passed = 0)

\* A step of part p, the others unchanged.
Only(p) ==
    /\ part = p
    /\ UNCHANGED part
    /\ IF p = "writer" THEN TRUE ELSE UNCHANGED writerVars
    /\ IF p = "git" THEN TRUE ELSE UNCHANGED gitVars
    /\ IF p = "resources" THEN TRUE ELSE UNCHANGED resourceVars
    /\ IF p = "lane" THEN TRUE ELSE UNCHANGED laneVars
    /\ IF p = "replay" THEN TRUE ELSE UNCHANGED replayVars
    /\ IF p = "takeover" THEN TRUE ELSE UNCHANGED takeoverVars
    /\ IF p = "group" THEN TRUE ELSE UNCHANGED groupVars
    /\ IF p = "execution" THEN TRUE ELSE UNCHANGED executionVars
    /\ IF p = "quiescence" THEN TRUE ELSE UNCHANGED finalVars
    /\ IF p = "frontier" THEN TRUE ELSE UNCHANGED frontierVars

Next ==
    \/ Only("writer") /\ WriterNext
    \/ Only("git") /\ GitNext
    \/ Only("resources") /\ ResourceNext
    \/ Only("lane") /\ LaneNext
    \/ Only("replay") /\ ReplayNext
    \/ Only("takeover") /\ TakeoverNext
    \/ Only("group") /\ GroupNext
    \/ Only("execution") /\ ExecutionNext
    \/ Only("quiescence") /\ FinalNext
    \/ Only("frontier") /\ FrontierNext

Spec == Init /\ [][Next]_vars

(* Bounds.  Attempts and roots are interchangeable, and come in one order.    *)
WriterBound ==
    /\ "a2" \in attemptIds => "a1" \in attemptIds
    /\ "a3" \in attemptIds => "a2" \in attemptIds

Misreports == UNION {Misreported(a) : a \in Existing}

\* An attempt without the lease of the lane is between two members, or finished;
\* only slices of the first member are interrupted, in the first attempt, and its
\* evidence is always gathered again.  The first attempt is misreported the first
\* member, as long as it is the only one, so that this member is on the branch twice
\* at most.
LaneBound ==
    /\ Exists("t2") => Exists("t1")
    /\ Misreports # {} => ~Exists("t2") /\ Misreports = {"m1"}
    /\ Len(SelectSeq(remote, LAMBDA c : c = "m1")) <= 2
    /\ \A a \in LandingAttempts : Exists(a) =>
         /\ landing[a].slice.checkpoint => a = "t1" /\ landing[a].slice.member = "m1"
         /\ landing[a].evidence["m1"]["c1"] # "source-independent-rebound"
         /\ a # laneLease =>
              /\ landing[a].slice = NoSlice
              /\ landing[a].state # "human-decision-pending"
              /\ landing[a].events \in {1, MaxLandingEvents, MaxLandingEvents + 1}

Idle(r) ==
    \/ cleanup[r].epoch < rootEpoch
    \/ cleanup[r].state \in {"none", "post-cleanup-verified"}

\* Two Git cleanups run together only before a push and a takeover.
GitBound ==
    \/ rootEpoch = 1 /\ default.head = 1
    \/ \E r \in Resources : Idle(r)

\* Another package is installed beside one authorization only.
TakeoverBound ==
    /\ package = 1 \/ Len(orders) <= 1
    /\ process["root-3"] # "none" => process["root-2"] # "none"

\* The first writer may do all a writer can, one thing out of order at a time and
\* none while the second one is going, which keeps to its plan and starts on the
\* candidate it has on record.
WatchdogOdd(x) ==
    \/ x.dog.calls # 0 \/ x.dog.command
    \/ x.dog.state = "terminal-failure-observed"

Oddities(e) ==
    LET x == executions[e]
        runs == x.step \in Running
    IN {o \in {"watchdog"} : WatchdogOdd(x)}
         \cup {o \in {"strayed"} : x.strayed}
         \cup {o \in {"lease"} :
                 runs /\ (x.lease <=> ExecutionClass(x.stage) # "leased-writer")}
         \cup {o \in {"head"} : runs /\ x.head # x.before.head}
         \cup {o \in {"branch"} : runs /\ x.head # repositoryRefs[e]}
         \cup {o \in {"start"} : runs /\ x.before.head \notin {"base", x.before.candidate}}

SharedOddities ==
    {o \in {"ref"} : repositoryRefs["shared"] # "base"}
      \cup {o \in {"file"} : controlState.stray}

Going(e) == executions[e].step \notin {"idle", "rejected", "failed", "settled"}

ExecutionBound ==
    LET odd == Oddities("e1") \cup SharedOddities
        second == executions["e2"]
    IN /\ Cardinality(odd) <= IF Going("e2") THEN 0 ELSE 1
       /\ Oddities("e2") = {}
       /\ executions["e1"].step = "idle" => second.step = "idle"
       /\ second.stage \in {"none", "implementation"}
       /\ second.dog.length <= 2
       /\ second.before.candidate = "candidate" => second.head # "base"

\* One issue is rebound; people and processes disturb a finalization that waits,
\* and at most one of them.
Undisturbed(i) ==
    remoteIssues[i] = IF issueNodes[i].state = "closed" THEN "completed" ELSE "open"

FinalBound ==
    LET disturbed == (IF ownProcesses THEN 1 ELSE 0) + (IF checkout.dirty THEN 1 ELSE 0)
                       + Cardinality({i \in TargetIssues : ~Undisturbed(i)})
    IN /\ issueNodes["i2"].epoch = 1
       /\ disturbed <= IF finalization.step \in {"none", "planned"} \/ ~finalization.current
                       THEN 0 ELSE 1

\* The second node stays within its first stage.  One thing at a time is out of
\* order, and nothing while two dispatches are there or a batch is chosen.  The
\* base and the selector move early, for one node of two that share a key.
FrontierBound ==
    LET drifted == facts.base + facts.receipt > 2
        early == members[1].passed < 2
        plain == /\ work[2].alike = {work[2].worktree}
                 /\ work[1].worktree \notin work[2].conflicts
        odd == Cardinality({n \in DOMAIN members : members[n].terminal}) +
               (IF members[1].frozen THEN 1 ELSE 0) + (IF facts.fresh THEN 0 ELSE 1)
    IN /\ members[2].passed = 0 /\ ~members[2].frozen
       /\ plain \/ (early /\ odd = 0 /\ ~drifted)
       /\ odd <= IF round.step = "none" /\ FreeIds # {} THEN 1 ELSE 0
       /\ round.seen # <<>> => FreeIds # {}
       /\ members[1].frozen \/ ~facts.fresh => early /\ ~drifted
       /\ drifted => /\ early /\ FreeIds # {} /\ work[1].conflicts # {}
                     /\ members[2].candidate = NoCandidate

Bounds ==
    /\ FinalBound /\ FrontierBound
    /\ WriterBound /\ LaneBound /\ GitBound /\ TakeoverBound
    /\ ExecutionBound
=============================================================================
