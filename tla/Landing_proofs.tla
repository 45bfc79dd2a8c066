--------------------------- MODULE Landing_proofs ---------------------------
(***************************************************************************)
(* The members of a group become green in their order and are landed in it, *)
(* once, for groups of any size.                                           *)
(***************************************************************************)
EXTENDS LandingLane, GroupSession,
        FiniteSetTheorems, TLAPS

-----------------------------------------------------------------------------
(***************************************************************************)
(* The members of a group reach the default branch together and in their   *)
(* order, for any number of members, attempts and foreign pushes; and each *)
(* of them once, as long as callers are truthful.                          *)
(***************************************************************************)

Fields == {"state", "base", "onto", "tip", "transplanted", "disposition", "evidence",
           "verified", "slice", "events"}

Commits == Issues \cup {"foreign"}

(* What is transplanted are the first members of the group, and the tip has *)
(* some of them, in their order.                                            *)
Moved(base, onto, tip, transplanted, head) ==
    /\ base \in 0 .. Len(head)
    /\ onto = {head[i] : i \in 1 .. base}
    /\ tip \in Seq(Issues)
    /\ \A i \in DOMAIN tip : tip[i] \in transplanted
    /\ \A i, j \in DOMAIN tip : i < j => Index(tip[i]) < Index(tip[j])
    /\ IsFiniteSet(transplanted)
    /\ transplanted = {m \in Issues : Index(m) <= Cardinality(transplanted)}

Attempt(r, head) ==
    /\ DOMAIN r = Fields
    /\ Moved(r.base, r.onto, r.tip, r.transplanted, head)

LaneInv ==
    /\ remote \in Seq(Commits)
    /\ landing = [a \in LandingAttempts |-> landing[a]]
    /\ \A a \in LandingAttempts : landing[a] = NoLanding \/ Attempt(landing[a], remote)

(* What most events leave alone. *)
Same(r, q) ==
    /\ DOMAIN q = Fields
    /\ q.base = r.base /\ q.onto = r.onto /\ q.tip = r.tip /\ q.transplanted = r.transplanted
    /\ q.state = "landed" => r.state = "landed"

-----------------------------------------------------------------------------
(* Members. *)

LEMMA Indices ==
    /\ Len(Members) \in Nat /\ DOMAIN Members = 1 .. Len(Members)
    /\ \A m \in Issues : Index(m) \in DOMAIN Members /\ Members[Index(m)] = m
    /\ \A k \in DOMAIN Members : Members[k] \in Issues /\ Index(Members[k]) = k
<1>1. Len(Members) \in Nat /\ DOMAIN Members = 1 .. Len(Members)
  BY MemberAssumption
<1>2. \A m \in Issues : Index(m) \in DOMAIN Members /\ Members[Index(m)] = m
  BY DEF Issues, ToSet, Index
<1>3. \A k \in DOMAIN Members : Members[k] \in Issues
  BY DEF Issues, ToSet
<1>4. \A i, j \in DOMAIN Members : Members[i] = Members[j] => i = j
  BY MemberAssumption DEF IsInjective
<1>5. QED
  BY <1>1, <1>2, <1>3, <1>4

LEMMA SameAttempt ==
    ASSUME NEW r, NEW q, NEW head, Attempt(r, head), Same(r, q)
    PROVE  Attempt(q, head)
BY DEF Attempt, Same

(* The branch grows, and what lies below it stays. *)
LEMMA AttemptOnLonger ==
    ASSUME NEW r, NEW head \in Seq(Commits), NEW more \in Seq(Commits), Attempt(r, head)
    PROVE  Attempt(r, head \o more)
<1> DEFINE longer == head \o more
<1>1. /\ Len(head) \in Nat /\ Len(longer) \in Nat /\ Len(head) <= Len(longer)
      /\ \A i \in 1 .. Len(head) : longer[i] = head[i]
  OBVIOUS
<1> HIDE DEF longer
<1>2. r.base \in 0 .. Len(longer) /\ r.base \in 0 .. Len(head)
  BY <1>1 DEF Attempt, Moved
<1>3. {longer[i] : i \in 1 .. r.base} = {head[i] : i \in 1 .. r.base}
  BY <1>1, <1>2
<1>4. Attempt(r, longer)
  BY <1>2, <1>3 DEF Attempt, Moved
<1>5. QED
  BY <1>4 DEF longer

(* An attempt that is created has transplanted nothing. *)
LEMMA CreatedAttempt ==
    ASSUME NEW head \in Seq(Commits)
    PROVE  Attempt(Created(head), head) /\ Created(head).state # "landed"
<1> DEFINE r == Created(head)
<1>1. /\ DOMAIN r = Fields /\ r.base = Len(head) /\ r.onto = ToSet(head)
      /\ r.tip = <<>> /\ r.transplanted = {} /\ r.state = "landing-transplanting"
  BY DEF Created, Fields
<1> HIDE DEF r
<1>2. r.onto = {head[i] : i \in 1 .. r.base} /\ r.base \in 0 .. Len(head)
  BY <1>1 DEF ToSet
<1>3. r.tip \in Seq(Issues) /\ DOMAIN r.tip = {}
  BY <1>1
<1>4. Cardinality(r.transplanted) = 0 /\ IsFiniteSet(r.transplanted)
  BY <1>1, FS_EmptySet
<1>5. r.transplanted = {m \in Issues : Index(m) <= Cardinality(r.transplanted)}
  BY <1>1, <1>4, Indices
<1>6. Attempt(r, head) /\ r.state # "landed"
  BY <1>1, <1>2, <1>3, <1>4, <1>5 DEF Attempt, Moved
<1>7. QED
  BY <1>6 DEF r

(* The member after those that are transplanted. *)
LEMMA NextMember ==
    ASSUME NEW S, IsFiniteSet(S), S = {x \in Issues : Index(x) <= Cardinality(S)},
           NEW m \in Issues, m \notin S, Index(m) = Cardinality(S) + 1,
           NEW more, more = S \cup {m}
    PROVE  /\ IsFiniteSet(more) /\ more = {x \in Issues : Index(x) <= Cardinality(more)}
           /\ \A k \in 1 .. Index(m) - 1 : Members[k] \in S
<1>1. Cardinality(S) \in Nat
  BY FS_CardinalityType
<1>2. IsFiniteSet(more) /\ Cardinality(more) = Cardinality(S) + 1
  BY <1>1, FS_AddElement
<1>3. ASSUME NEW x \in Issues
      PROVE  x \in more <=> Index(x) <= Cardinality(more)
  <2>1. Index(x) \in Nat /\ (Index(x) = Index(m) => x = m)
    BY Indices
  <2>2. x \in S <=> Index(x) <= Cardinality(S)
    OBVIOUS
  <2>3. CASE x = m
    BY <1>1, <1>2, <2>3
  <2>4. CASE x # m
    <3>1. x \in more <=> x \in S
      BY <2>4
    <3>2. Index(x) <= Cardinality(S) + 1 <=> Index(x) <= Cardinality(S)
      BY <1>1, <2>1, <2>4
    <3>3. QED
      BY <1>2, <2>2, <3>1, <3>2
  <2>5. QED
    BY <2>3, <2>4
<1>4. more \subseteq Issues
  OBVIOUS
<1>5. ASSUME NEW k \in 1 .. Index(m) - 1 PROVE Members[k] \in S
  <2>1. k \in DOMAIN Members /\ k <= Cardinality(S)
    BY <1>1, Indices
  <2>2. Members[k] \in Issues /\ Index(Members[k]) = k
    BY <2>1, Indices
  <2>3. QED
    BY <2>1, <2>2
<1>6. QED
  BY <1>2, <1>3, <1>4, <1>5

(* One more member, on the tip or reported as being there. *)
LEMMA MovedOn ==
    ASSUME NEW base, NEW onto, NEW tip, NEW S, NEW head, Moved(base, onto, tip, S, head),
           NEW m \in Issues, m \notin S, Index(m) = Cardinality(S) + 1,
           NEW new, new = tip \/ new = Append(tip, m)
    PROVE  Moved(base, onto, new, S \cup {m}, head)
<1> DEFINE more == S \cup {m}
<1>1. IsFiniteSet(more) /\ more = {x \in Issues : Index(x) <= Cardinality(more)}
  <2>1. IsFiniteSet(S) /\ S = {x \in Issues : Index(x) <= Cardinality(S)}
    BY DEF Moved
  <2>2. QED
    BY ONLY <2>1, m \in Issues, m \notin S, Index(m) = Cardinality(S) + 1, NextMember
<1>2. /\ tip \in Seq(Issues) /\ Len(tip) \in Nat /\ DOMAIN tip = 1 .. Len(tip)
      /\ \A i \in DOMAIN tip : tip[i] \in S
  BY DEF Moved
<1>3. m \in more /\ S \subseteq more
  OBVIOUS
<1> HIDE DEF more
<1>4. /\ base \in 0 .. Len(head) /\ onto = {head[i] : i \in 1 .. base}
      /\ \A i, j \in DOMAIN tip : i < j => Index(tip[i]) < Index(tip[j])
  BY DEF Moved
<1>5. CASE new = tip
  <2>1. \A i \in DOMAIN new : new[i] \in more
    BY <1>2, <1>3, <1>5
  <2>2. Moved(base, onto, new, more, head)
    BY <1>1, <1>2, <1>4, <1>5, <2>1 DEF Moved
  <2>3. QED
    BY <2>2 DEF more
<1>6. CASE new = Append(tip, m)
  <2> DEFINE n == Len(tip) + 1
  <2>1. /\ new \in Seq(Issues) /\ DOMAIN new = 1 .. n /\ n \in Nat /\ new[n] = m
        /\ DOMAIN tip = 1 .. n - 1 /\ \A i \in 1 .. n - 1 : new[i] = tip[i]
    BY <1>2, <1>6
  <2> HIDE DEF n
  <2>2. ASSUME NEW i \in 1 .. n - 1 PROVE Index(new[i]) < Index(m)
    <3>1. tip[i] \in S /\ new[i] = tip[i]
      BY <1>2, <2>1
    <3>2. Cardinality(S) \in Nat /\ S = {x \in Issues : Index(x) <= Cardinality(S)}
      BY FS_CardinalityType DEF Moved
    <3>3. tip[i] \in Issues /\ Index(tip[i]) <= Cardinality(S)
      BY ONLY <3>1, <3>2
    <3>4. Index(tip[i]) \in Nat
      BY ONLY <3>3, Indices
    <3>5. QED
      BY <3>1, <3>2, <3>3, <3>4
  <2>3. \A i \in 1 .. n : new[i] \in more
    BY <1>2, <1>3, <2>1
  <2>4. \A i, j \in 1 .. n : i < j => Index(new[i]) < Index(new[j])
    <3>1. \A i, j \in 1 .. n - 1 : i < j => Index(new[i]) < Index(new[j])
      BY <1>4, <2>1
    <3>2. QED
      BY <2>1, <2>2, <3>1
  <2>5. Moved(base, onto, new, more, head)
    BY <1>1, <1>4, <2>1, <2>3, <2>4 DEF Moved
  <2>6. QED
    BY <2>5 DEF more
<1>7. QED
  BY <1>5, <1>6

-----------------------------------------------------------------------------
(* What a step writes into an attempt. *)

(* Nothing is pushed, and no attempt comes to know that it landed. *)
Untold ==
    /\ UNCHANGED remote
    /\ \A b \in LandingAttempts : landing'[b].state = "landed" => landing[b].state = "landed"

LEMMA Appended ==
    ASSUME LaneInv, NEW a \in LandingAttempts, NEW next, AppendAttemptEvent(a, next),
           DOMAIN next = Fields
    PROVE  \E q : /\ landing' = [landing EXCEPT ![a] = q]
                  /\ DOMAIN q = Fields /\ q.state = next.state
                  /\ q.base = next.base /\ q.onto = next.onto /\ q.tip = next.tip
                  /\ q.transplanted = next.transplanted
<1> DEFINE q == [next EXCEPT !.events = @ + 1]
<1>1. landing' = [landing EXCEPT ![a] = q]
  BY DEF AppendAttemptEvent
<1>2. /\ DOMAIN q = Fields /\ q.state = next.state
      /\ q.base = next.base /\ q.onto = next.onto /\ q.tip = next.tip
      /\ q.transplanted = next.transplanted
  BY DEF Fields
<1> HIDE DEF q
<1>3. QED
  BY <1>1, <1>2

(* The invariant when one attempt is replaced on the same branch. *)
LEMMA Replaced ==
    ASSUME LaneInv, UNCHANGED remote, NEW a \in LandingAttempts, NEW q,
           landing' = [landing EXCEPT ![a] = q], Attempt(q, remote),
           q.state = "landed" => landing[a].state = "landed"
    PROVE  LaneInv' /\ Untold
<1>1. /\ landing' = [b \in LandingAttempts |-> landing'[b]] /\ landing'[a] = q
      /\ \A b \in LandingAttempts : b # a => landing'[b] = landing[b]
  BY DEF LaneInv
<1>2. \A b \in LandingAttempts : landing'[b] = NoLanding \/ Attempt(landing'[b], remote')
  BY <1>1 DEF LaneInv
<1>3. \A b \in LandingAttempts : landing'[b].state = "landed" => landing[b].state = "landed"
  BY <1>1
<1>4. QED
  BY <1>1, <1>2, <1>3 DEF LaneInv, Untold

LEMMA ExistingAttempt ==
    ASSUME LaneInv, NEW a \in LandingAttempts, Exists(a)
    PROVE  Attempt(landing[a], remote) /\ DOMAIN landing[a] = Fields
BY DEF LaneInv, Exists, NoLanding, Attempt

LEMMA QuietEvent ==
    ASSUME LaneInv, NEW a \in LandingAttempts, Exists(a), NEW next,
           AppendAttemptEvent(a, next), Same(landing[a], next)
    PROVE  LaneInv' /\ Untold
<1>1. PICK q : /\ landing' = [landing EXCEPT ![a] = q]
               /\ DOMAIN q = Fields /\ q.state = next.state
               /\ q.base = next.base /\ q.onto = next.onto /\ q.tip = next.tip
               /\ q.transplanted = next.transplanted
  BY Appended DEF Same
<1>2. Attempt(q, remote) /\ (q.state = "landed" => landing[a].state = "landed")
  BY <1>1, ExistingAttempt DEF Attempt, Same
<1>3. UNCHANGED remote
  BY DEF AppendAttemptEvent
<1>4. QED
  BY <1>1, <1>2, <1>3, Replaced

LEMMA LaneBindKeeps ==
    ASSUME LaneInv, NEW a \in LandingAttempts, NEW m, NEW kind, BindLandingSlice(a, m, kind)
    PROVE  LaneInv' /\ Untold
<1> DEFINE r == landing[a]
           next == [r EXCEPT !.slice = [member |-> m, kind |-> kind, checkpoint |-> FALSE],
                             !.state = "landing-transplanting"]
<1>1. Exists(a) /\ AppendAttemptEvent(a, next)
  BY DEF BindLandingSlice
<1>2. DOMAIN r = Fields
  BY <1>1, ExistingAttempt
<1> HIDE DEF r
<1>3. Same(r, next)
  BY <1>2 DEF Fields, Same
<1> HIDE DEF next
<1>4. QED
  BY <1>1, <1>3, QuietEvent DEF r

LEMMA CheckpointKeeps ==
    ASSUME LaneInv, NEW a \in LandingAttempts, RecordLandingCheckpoint(a)
    PROVE  LaneInv' /\ Untold
<1> DEFINE r == landing[a]
           next == [r EXCEPT !.slice.checkpoint = TRUE,
                             !.state = "landing-slice-continuation-pending"]
<1>1. Exists(a) /\ AppendAttemptEvent(a, next)
  BY DEF RecordLandingCheckpoint
<1>2. DOMAIN r = Fields
  BY <1>1, ExistingAttempt
<1> HIDE DEF r
<1>3. Same(r, next)
  BY <1>2 DEF Fields, Same
<1> HIDE DEF next
<1>4. QED
  BY <1>1, <1>3, QuietEvent DEF r

LEMMA ResumeKeeps ==
    ASSUME LaneInv, NEW a \in LandingAttempts, ResumeLandingSlice(a)
    PROVE  LaneInv' /\ Untold
<1> DEFINE r == landing[a]
           next == [r EXCEPT !.state = "landing-transplanting"]
<1>1. Exists(a) /\ AppendAttemptEvent(a, next)
  BY DEF ResumeLandingSlice
<1>2. DOMAIN r = Fields
  BY <1>1, ExistingAttempt
<1> HIDE DEF r
<1>3. Same(r, next)
  BY <1>2 DEF Fields, Same
<1> HIDE DEF next
<1>4. QED
  BY <1>1, <1>3, QuietEvent DEF r

LEMMA DriftKeeps ==
    ASSUME LaneInv, NEW a \in LandingAttempts, ObserveRemoteDrift(a)
    PROVE  LaneInv' /\ Untold
<1> DEFINE r == landing[a]
           next == [r EXCEPT !.slice = NoSlice, !.state = "remote-drifted"]
<1>1. Exists(a) /\ AppendAttemptEvent(a, next)
  BY DEF ObserveRemoteDrift
<1>2. DOMAIN r = Fields
  BY <1>1, ExistingAttempt
<1> HIDE DEF r
<1>3. Same(r, next)
  BY <1>2 DEF Fields, Same
<1> HIDE DEF next
<1>4. QED
  BY <1>1, <1>3, QuietEvent DEF r

LEMMA EvidenceKeeps ==
    ASSUME LaneInv, NEW a \in LandingAttempts, NEW m, NEW c, NEW d,
           RecordEvidenceRebinding(a, m, c, d)
    PROVE  LaneInv' /\ Untold
<1> DEFINE r == landing[a]
           next == [r EXCEPT !.evidence[m][c] = d]
<1>1. Exists(a) /\ AppendAttemptEvent(a, next)
  BY DEF RecordEvidenceRebinding
<1>2. DOMAIN r = Fields
  BY <1>1, ExistingAttempt
<1> HIDE DEF r
<1>3. Same(r, next)
  BY <1>2 DEF Fields, Same
<1> HIDE DEF next
<1>4. QED
  BY <1>1, <1>3, QuietEvent DEF r

LEMMA ReverificationKeeps ==
    ASSUME LaneInv, NEW a \in LandingAttempts, NEW m, NEW c,
           RecordReverificationReceipt(a, m, c)
    PROVE  LaneInv' /\ Untold
<1> DEFINE r == landing[a]
           verified == r.verified[m] \cup {c}
           disposition == IF EvidenceComplete(verified) THEN "landing-ready"
                          ELSE "transplanted-reverify-required"
           state == IF EvidenceComplete(verified) THEN "landing-transplanting"
                    ELSE "landing-reverifying"
           next == [r EXCEPT !.verified[m] = verified, !.disposition[m] = disposition,
                             !.state = state]
<1>1. Exists(a) /\ AppendAttemptEvent(a, next)
  BY DEF RecordReverificationReceipt
<1>2. DOMAIN r = Fields /\ state # "landed"
  BY <1>1, ExistingAttempt
<1> HIDE DEF r, verified, disposition, state
<1>3. Same(r, next)
  BY <1>2 DEF Fields, Same
<1> HIDE DEF next
<1>4. QED
  BY <1>1, <1>3, QuietEvent DEF r

LEMMA LaneHumanKeeps ==
    ASSUME LaneInv, NEW a \in LandingAttempts, NEW m, HumanDecisionPending(a, m)
    PROVE  LaneInv' /\ Untold
<1> DEFINE r == landing[a]
           next == [r EXCEPT !.disposition[m] = "human-decision-pending", !.slice = NoSlice,
                             !.state = "human-decision-pending"]
<1>1. Exists(a) /\ AppendAttemptEvent(a, next)
  BY DEF HumanDecisionPending
<1>2. DOMAIN r = Fields
  BY <1>1, ExistingAttempt
<1> HIDE DEF r
<1>3. Same(r, next)
  BY <1>2 DEF Fields, Same
<1> HIDE DEF next
<1>4. QED
  BY <1>1, <1>3, QuietEvent DEF r

LEMMA CreateKeeps ==
    ASSUME LaneInv, NEW a \in LandingAttempts, CreateLandingAttempt(a)
    PROVE  LaneInv' /\ Untold
<1> DEFINE q == Created(remote)
<1>1. landing' = [landing EXCEPT ![a] = q] /\ UNCHANGED remote
  BY DEF CreateLandingAttempt
<1>2. Attempt(q, remote) /\ q.state # "landed"
  BY CreatedAttempt DEF LaneInv
<1> HIDE DEF q
<1>3. QED
  BY <1>1, <1>2, Replaced

(* A member is transplanted, or found to be there already. *)
LEMMA TransplantKeeps ==
    ASSUME LaneInv, NEW a \in LandingAttempts, NEW m \in Issues,
           TransplantCommit(a, m) \/ RecordAlreadyApplied(a, m)
    PROVE  LaneInv' /\ Untold
<1> DEFINE r == landing[a]
           tip == IF TransplantCommit(a, m) THEN Append(r.tip, m) ELSE r.tip
           next == [r EXCEPT !.transplanted = @ \cup {m}, !.tip = tip,
                             !.disposition[m] = "transplanted-reverify-required",
                             !.slice = NoSlice, !.state = "landing-reverifying"]
<1>1. /\ Exists(a) /\ AppendAttemptEvent(a, next)
      /\ m \notin r.transplanted /\ Index(m) = Cardinality(r.transplanted) + 1
  <2>1. CASE TransplantCommit(a, m)
    <3>1. tip = Append(r.tip, m)
      BY <2>1
    <3> HIDE DEF tip
    <3>2. QED
      BY <2>1, <3>1 DEF TransplantCommit, Transplanted, InMemberOrder
  <2>2. CASE RecordAlreadyApplied(a, m)
    <3>1. CASE TransplantCommit(a, m)
      BY <2>1, <3>1
    <3>2. CASE ~TransplantCommit(a, m)
      BY <2>2, <3>2 DEF RecordAlreadyApplied, Transplanted, InMemberOrder
    <3>3. QED
      BY <3>1, <3>2
  <2>3. QED
    BY <2>1, <2>2
<1>2. DOMAIN r = Fields /\ Moved(r.base, r.onto, r.tip, r.transplanted, remote)
  BY <1>1, ExistingAttempt DEF Attempt
<1>3. Moved(r.base, r.onto, tip, r.transplanted \cup {m}, remote)
  BY <1>1, <1>2, MovedOn
<1> HIDE DEF r, tip
<1>4. /\ DOMAIN next = Fields /\ next.base = r.base /\ next.onto = r.onto /\ next.tip = tip
      /\ next.transplanted = r.transplanted \cup {m} /\ next.state = "landing-reverifying"
  BY <1>2 DEF Fields
<1> HIDE DEF next
<1>5. PICK q : /\ landing' = [landing EXCEPT ![a] = q]
               /\ DOMAIN q = Fields /\ q.state = next.state
               /\ q.base = next.base /\ q.onto = next.onto /\ q.tip = next.tip
               /\ q.transplanted = next.transplanted
  BY <1>1, <1>4, Appended
<1>6. Attempt(q, remote) /\ q.state # "landed"
  BY <1>3, <1>4, <1>5 DEF Attempt
<1>7. UNCHANGED remote
  BY <1>1 DEF AppendAttemptEvent
<1>8. QED
  BY <1>5, <1>6, <1>7, Replaced

-----------------------------------------------------------------------------
(* Pushes. *)

LEMMA ForeignKeeps ==
    ASSUME LaneInv, ForeignRemotePush
    PROVE  /\ LaneInv'
           /\ \E more \in Seq(Commits) : remote' = remote \o more
<1>1. PICK m \in Issues \ ToSet(remote) :
        remote' = remote \o <<"foreign">> \/ remote' = remote \o <<"foreign", m>>
  BY DEF ForeignRemotePush
<1>2. <<"foreign">> \in Seq(Commits) /\ <<"foreign", m>> \in Seq(Commits)
  BY DEF Commits
<1>3. PICK more \in Seq(Commits) : remote' = remote \o more
  BY <1>1, <1>2
<1>4. remote \in Seq(Commits) /\ UNCHANGED landing
  BY DEF LaneInv, ForeignRemotePush
<1>5. remote' \in Seq(Commits)
  BY <1>3, <1>4
<1>6. \A b \in LandingAttempts : landing'[b] = NoLanding \/ Attempt(landing'[b], remote')
  BY <1>3, <1>4, AttemptOnLonger DEF LaneInv
<1>7. QED
  BY <1>3, <1>4, <1>5, <1>6 DEF LaneInv

(* What a finished attempt pushes, and on what. *)
LEMMA Finished ==
    ASSUME LaneInv, NEW a \in LandingAttempts, FinalizeLanding(a)
    PROVE  /\ Exists(a) /\ remote' = remote \o landing[a].tip
           /\ Moved(landing[a].base, landing[a].onto, landing[a].tip,
                    landing[a].transplanted, remote)
           /\ landing[a].onto = ToSet(remote) /\ remote \in Seq(Commits)
           /\ landing[a].tip \in Seq(Issues) /\ landing[a].tip \in Seq(Commits)
           /\ landing[a].transplanted = Issues
<1> DEFINE r == landing[a]
<1>1. /\ Exists(a) /\ Len(remote) = r.base /\ remote' = remote \o r.tip
      /\ \A m \in Issues : m \in r.transplanted
  BY DEF FinalizeLanding, FastForward, AllMembersLandingReady
<1>2. Moved(r.base, r.onto, r.tip, r.transplanted, remote)
  BY <1>1, ExistingAttempt DEF Attempt
<1>3. r.onto = ToSet(remote) /\ remote \in Seq(Commits)
  <2>1. remote \in Seq(Commits) /\ DOMAIN remote = 1 .. Len(remote)
    BY DEF LaneInv
  <2>2. r.onto = {remote[i] : i \in 1 .. r.base}
    BY <1>2 DEF Moved
  <2>3. r.onto = {remote[i] : i \in DOMAIN remote}
    BY <1>1, <2>1, <2>2
  <2>4. QED
    BY <2>1, <2>3 DEF ToSet
<1>4. r.tip \in Seq(Issues) /\ r.tip \in Seq(Commits) /\ r.transplanted = Issues
  BY <1>1, <1>2 DEF Moved, Commits
<1>5. QED
  BY <1>1, <1>2, <1>3, <1>4

LEMMA FinalizeKeeps ==
    ASSUME LaneInv, NEW a \in LandingAttempts, FinalizeLanding(a)
    PROVE  /\ LaneInv'
           /\ \A b \in LandingAttempts :
                /\ landing'[b].state = "none" <=> landing[b].state = "none"
                /\ b # a => landing'[b] = landing[b]
                /\ landing[b].state # "none" =>
                     /\ landing'[b].onto = landing[b].onto /\ landing'[b].tip = landing[b].tip
                     /\ landing'[b].transplanted = landing[b].transplanted
           /\ landing' = landing \/ landing'[a].state = "landed"
<1> DEFINE r == landing[a]
<1>1. DOMAIN r = Fields /\ Exists(a) /\ Attempt(r, remote)
  BY Finished, ExistingAttempt
<1>2. PICK q : /\ landing' = [landing EXCEPT ![a] = q]
               /\ q = r \/ q = [r EXCEPT !.disposition = [m \in Issues |-> "landed"],
                                         !.events = @ + 1, !.state = "landed"]
  <2>1. CASE landing' = landing
    <3>1. landing' = [landing EXCEPT ![a] = r]
      BY <2>1 DEF LaneInv
    <3>2. QED
      BY <3>1
  <2>2. CASE landing' = [landing EXCEPT ![a].disposition = [m \in Issues |-> "landed"],
                                        ![a].events = @ + 1, ![a].state = "landed"]
    <3>1. landing' = [landing EXCEPT ![a] = [r EXCEPT !.disposition = [m \in Issues |-> "landed"],
                                         !.events = @ + 1, !.state = "landed"]]
      BY <2>2 DEF LaneInv
    <3>2. QED
      BY <3>1
  <2>3. QED
    BY <2>1, <2>2 DEF FinalizeLanding
<1> HIDE DEF r
<1>3. /\ DOMAIN q = Fields /\ q.base = r.base /\ q.onto = r.onto /\ q.tip = r.tip
      /\ q.transplanted = r.transplanted /\ (q = r \/ q.state = "landed")
  BY <1>1, <1>2 DEF Fields
<1>4. Attempt(q, remote)
  BY <1>1, <1>3 DEF Attempt
<1>5. /\ landing' = [b \in LandingAttempts |-> landing'[b]] /\ landing'[a] = q
      /\ \A b \in LandingAttempts : b # a => landing'[b] = landing[b]
      /\ q = r => landing' = landing
  BY <1>2 DEF LaneInv, r
<1>6. remote' = remote \o r.tip /\ r.tip \in Seq(Commits) /\ remote \in Seq(Commits)
  BY Finished DEF r
<1>7. \A b \in LandingAttempts : landing'[b] = NoLanding \/ Attempt(landing'[b], remote')
  BY <1>4, <1>5, <1>6, AttemptOnLonger DEF LaneInv
<1>8. remote' \in Seq(Commits)
  BY <1>6
<1>9. LaneInv'
  BY <1>5, <1>7, <1>8 DEF LaneInv
<1>10. r.state # "none" /\ (landing'[a].state = "none" <=> r.state = "none")
  BY <1>1, <1>3, <1>5 DEF r, Exists
<1>11. QED
  BY <1>3, <1>5, <1>9, <1>10 DEF r

-----------------------------------------------------------------------------

LEMMA LaneStarts == LaneInit => LaneInv
<1> SUFFICES ASSUME LaneInit PROVE LaneInv
  OBVIOUS
<1>1. /\ remote \in Seq(Commits) /\ DOMAIN remote = {}
      /\ landing = [a \in LandingAttempts |-> NoLanding]
  BY DEF LaneInit
<1>2. QED
  BY <1>1 DEF LaneInv

LEMMA LaneInvAlways == LaneSpec => []LaneInv
<1>1. LaneInv /\ [LaneNext]_laneVars => LaneInv'
  <2> SUFFICES ASSUME LaneInv, [LaneNext]_laneVars PROVE LaneInv'
    OBVIOUS
  <2>1. CASE UNCHANGED <<remote, landing>>
    BY <2>1 DEF LaneInv
  <2>2. CASE ForeignRemotePush
    BY <2>2, ForeignKeeps
  <2>3. ASSUME NEW a \in LandingAttempts,
               CreateLandingAttempt(a) \/ RecordLandingCheckpoint(a) \/ ResumeLandingSlice(a)
                 \/ ObserveRemoteDrift(a) \/ FinalizeLanding(a)
        PROVE  LaneInv'
    BY <2>3, CreateKeeps, CheckpointKeeps, ResumeKeeps, DriftKeeps, FinalizeKeeps
  <2>4. ASSUME NEW a \in LandingAttempts, NEW m \in Issues,
               \/ \E kind : BindLandingSlice(a, m, kind)
               \/ TransplantCommit(a, m) \/ RecordAlreadyApplied(a, m)
               \/ HumanDecisionPending(a, m)
               \/ \E c : \/ \E d : RecordEvidenceRebinding(a, m, c, d)
                         \/ RecordReverificationReceipt(a, m, c)
        PROVE  LaneInv'
    BY <2>4, LaneBindKeeps, TransplantKeeps, LaneHumanKeeps, EvidenceKeeps, ReverificationKeeps
  <2>5. QED
    BY <2>1, <2>2, <2>3, <2>4 DEF LaneNext, laneVars, AcquireLandingLease, ReleaseLandingLease
<1>2. QED
  BY <1>1, LaneStarts, PTL DEF LaneSpec

(* What a step does to the branch and to what is known of it. *)
LEMMA LaneKinds ==
    ASSUME LaneInv, [LaneNext]_laneVars
    PROVE  Untold \/ ForeignRemotePush \/ \E a \in LandingAttempts : FinalizeLanding(a)
<1>1. CASE UNCHANGED laneVars
  BY <1>1 DEF laneVars, Untold
<1>2. ASSUME NEW a \in LandingAttempts,
             CreateLandingAttempt(a) \/ RecordLandingCheckpoint(a) \/ ResumeLandingSlice(a)
               \/ ObserveRemoteDrift(a)
      PROVE  Untold
  BY <1>2, CreateKeeps, CheckpointKeeps, ResumeKeeps, DriftKeeps
<1>3. ASSUME NEW a \in LandingAttempts, NEW m \in Issues,
             \/ \E kind : BindLandingSlice(a, m, kind)
             \/ TransplantCommit(a, m) \/ RecordAlreadyApplied(a, m)
             \/ HumanDecisionPending(a, m)
             \/ \E c : \/ \E d : RecordEvidenceRebinding(a, m, c, d)
                       \/ RecordReverificationReceipt(a, m, c)
      PROVE  Untold
  BY <1>3, LaneBindKeeps, TransplantKeeps, LaneHumanKeeps, EvidenceKeeps, ReverificationKeeps
<1>4. ASSUME NEW a \in LandingAttempts, AcquireLandingLease(a) \/ ReleaseLandingLease(a)
      PROVE  Untold
  BY <1>4 DEF AcquireLandingLease, ReleaseLandingLease, Untold
<1>5. QED
  BY <1>1, <1>2, <1>3, <1>4 DEF LaneNext

-----------------------------------------------------------------------------
(* Each member once, as long as callers are truthful. *)

(* What may be pushed: members that are not there yet, each after the members *)
(* before it unless it comes with a foreign commit.                           *)
Pushable(more) ==
    /\ more \in Seq(Commits)
    /\ \A i, j \in DOMAIN more : more[i] \in Issues /\ more[i] = more[j] => i = j
    /\ \A i \in DOMAIN more : more[i] \in Issues => more[i] \notin ToSet(remote)
    /\ \A i \in DOMAIN more : more[i] \in Issues /\ (i > 1 => more[i - 1] # "foreign") =>
         \A k \in 1 .. Index(more[i]) - 1 :
             Members[k] \in ToSet(remote) \/ \E j \in 1 .. i - 1 : more[j] = Members[k]

LEMMA PushKeeps ==
    ASSUME LaneInv, LandedOnceInOrder, NEW more, Pushable(more), remote' = remote \o more,
           \A b \in LandingAttempts : landing'[b].state = "landed" =>
               landing[b].state = "landed" \/ Issues \subseteq ToSet(remote')
    PROVE  LandedOnceInOrder'
<1> DEFINE n == Len(remote)
<1>1. /\ remote \in Seq(Commits) /\ more \in Seq(Commits) /\ n \in Nat /\ Len(more) \in Nat
      /\ DOMAIN remote = 1 .. n /\ DOMAIN more = 1 .. Len(more)
  BY DEF LaneInv, Pushable
<1>2. /\ remote' \in Seq(Commits) /\ DOMAIN remote' = 1 .. n + Len(more)
      /\ \A i \in 1 .. n : remote'[i] = remote[i]
      /\ \A i \in 1 .. Len(more) : remote'[n + i] = more[i]
  BY <1>1
<1> HIDE DEF n
<1>3. \A i \in DOMAIN remote' : i \in 1 .. n \/ (i - n \in 1 .. Len(more) /\ i = n + (i - n))
  BY <1>1, <1>2
<1>4. ToSet(remote) = {remote[i] : i \in 1 .. n}
  BY <1>1 DEF ToSet
<1>5. \A x : x \in ToSet(remote) => \E i \in 1 .. n : remote[i] = x /\ remote'[i] = x
  BY <1>2, <1>4
<1>6. ASSUME NEW i \in DOMAIN remote', NEW j \in DOMAIN remote',
             remote'[i] \in Issues, remote'[i] = remote'[j]
      PROVE  i = j
  <2>1. CASE i \in 1 .. n /\ j \in 1 .. n
    BY <1>1, <1>2, <1>6, <2>1 DEF LandedOnceInOrder
  <2>2. CASE i \in 1 .. n /\ j \notin 1 .. n
    <3>1. j - n \in 1 .. Len(more) /\ remote'[j] = more[j - n]
      BY <1>2, <1>3, <2>2
    <3>2. remote'[i] \in ToSet(remote)
      BY <1>2, <1>4, <2>2
    <3>3. QED
      BY <1>1, <1>6, <3>1, <3>2 DEF Pushable
  <2>3. CASE i \notin 1 .. n /\ j \in 1 .. n
    <3>1. i - n \in 1 .. Len(more) /\ remote'[i] = more[i - n]
      BY <1>2, <1>3, <2>3
    <3>2. remote'[j] \in ToSet(remote)
      BY <1>2, <1>4, <2>3
    <3>3. QED
      BY <1>1, <1>6, <3>1, <3>2 DEF Pushable
  <2>4. CASE i \notin 1 .. n /\ j \notin 1 .. n
    <3>1. /\ i - n \in 1 .. Len(more) /\ remote'[i] = more[i - n]
          /\ j - n \in 1 .. Len(more) /\ remote'[j] = more[j - n]
      BY <1>2, <1>3, <2>4
    <3>2. i - n = j - n
      BY <1>1, <1>6, <3>1 DEF Pushable
    <3>3. QED
      BY <1>1, <1>2, <3>2
  <2>5. QED
    BY <2>1, <2>2, <2>3, <2>4
<1>7. \A b \in LandingAttempts : landing'[b].state = "landed" => Issues \subseteq ToSet(remote')
  <2>1. ToSet(remote) \subseteq ToSet(remote')
    BY <1>1, <1>2, <1>5 DEF ToSet
  <2>2. QED
    BY <2>1 DEF LandedOnceInOrder
<1>8. ASSUME NEW i \in DOMAIN remote', remote'[i] \in Issues,
             i > 1 => remote'[i - 1] # "foreign", NEW k \in 1 .. Index(remote'[i]) - 1
      PROVE  \E j \in 1 .. i - 1 : remote'[j] = Members[k]
  <2>1. CASE i \in 1 .. n
    <3>1. /\ remote'[i] = remote[i] /\ (i > 1 => remote'[i - 1] = remote[i - 1])
          /\ \A j \in 1 .. i - 1 : remote'[j] = remote[j]
      BY <1>1, <1>2, <2>1
    <3>2. \E j \in 1 .. i - 1 : remote[j] = Members[k]
      BY <1>1, <1>8, <2>1, <3>1 DEF LandedOnceInOrder
    <3>3. QED
      BY <3>1, <3>2
  <2>2. CASE i \notin 1 .. n
    <3> DEFINE p == i - n
    <3>1. p \in 1 .. Len(more) /\ remote'[i] = more[p] /\ i = n + p
      BY <1>2, <1>3, <2>2
    <3> HIDE DEF p
    <3>2. \A j \in 1 .. p - 1 : remote'[n + j] = more[j] /\ n + j \in 1 .. i - 1
      BY <1>1, <1>2, <3>1
    <3>3. p > 1 => more[p - 1] # "foreign"
      <4>1. p > 1 => p - 1 \in 1 .. p - 1 /\ n + (p - 1) = i - 1 /\ i > 1
        BY <1>1, <3>1
      <4>2. QED
        BY <1>8, <3>2, <4>1
    <3>4. Members[k] \in ToSet(remote) \/ \E j \in 1 .. p - 1 : more[j] = Members[k]
      BY <1>1, <1>8, <3>1, <3>3 DEF Pushable
    <3>5. 1 .. n \subseteq 1 .. i - 1
      BY <1>1, <3>1
    <3>6. QED
      BY <1>5, <3>2, <3>4, <3>5
  <2>3. QED
    BY <2>1, <2>2
<1>9. QED
  BY <1>6, <1>7, <1>8 DEF LandedOnceInOrder

LEMMA AppendedSet ==
    ASSUME NEW head \in Seq(Commits), NEW more \in Seq(Commits)
    PROVE  ToSet(head \o more) = ToSet(head) \cup ToSet(more)
<1> DEFINE longer == head \o more
<1>1. /\ Len(head) \in Nat /\ DOMAIN head = 1 .. Len(head)
      /\ Len(more) \in Nat /\ DOMAIN more = 1 .. Len(more)
      /\ DOMAIN longer = 1 .. Len(head) + Len(more)
      /\ \A i \in 1 .. Len(head) : longer[i] = head[i]
      /\ \A i \in 1 .. Len(more) : longer[Len(head) + i] = more[i]
  OBVIOUS
<1> HIDE DEF longer
<1>2. ASSUME NEW i \in DOMAIN longer PROVE longer[i] \in ToSet(head) \cup ToSet(more)
  <2>1. i \in 1 .. Len(head) \/ (i - Len(head) \in 1 .. Len(more)
                                 /\ i = Len(head) + (i - Len(head)))
    BY <1>1
  <2>2. QED
    BY <1>1, <2>1 DEF ToSet
<1>3. \A i \in DOMAIN head : i \in DOMAIN longer /\ longer[i] = head[i]
  BY <1>1
<1>4. \A i \in DOMAIN more : Len(head) + i \in DOMAIN longer /\ longer[Len(head) + i] = more[i]
  BY <1>1
<1>5. ToSet(longer) = ToSet(head) \cup ToSet(more)
  BY <1>2, <1>3, <1>4 DEF ToSet
<1>6. QED
  BY <1>5 DEF longer

LEMMA ForeignOnce ==
    ASSUME LaneInv, LandedOnceInOrder, ForeignRemotePush
    PROVE  LandedOnceInOrder'
<1>1. PICK m \in Issues \ ToSet(remote) :
        remote' = remote \o <<"foreign">> \/ remote' = remote \o <<"foreign", m>>
  BY DEF ForeignRemotePush
<1> DEFINE more == IF remote' = remote \o <<"foreign">> THEN <<"foreign">> ELSE <<"foreign", m>>
<1>2. remote' = remote \o more /\ (more = <<"foreign">> \/ more = <<"foreign", m>>)
  BY <1>1
<1> HIDE DEF more
<1>3. "foreign" \notin Issues
  BY MemberAssumption DEF Issues
<1>4. Pushable(more)
  <2>1. CASE more = <<"foreign">>
    BY <1>3, <2>1 DEF Pushable, Commits
  <2>2. CASE more = <<"foreign", m>>
    <3>1. more \in Seq(Commits) /\ DOMAIN more = 1 .. 2 /\ more[1] = "foreign" /\ more[2] = m
      BY <2>2 DEF Commits
    <3>2. QED
      BY <1>3, <3>1 DEF Pushable
  <2>3. QED
    BY <1>2, <2>1, <2>2
<1>5. UNCHANGED landing
  BY DEF ForeignRemotePush
<1>6. QED
  BY <1>2, <1>4, <1>5, PushKeeps

(* A truthful caller picks what is not on the base, and nothing else. *)
LEMMA FinalizeOnce ==
    ASSUME LaneInv, LandedOnceInOrder, CallersTruthful,
           NEW a \in LandingAttempts, FinalizeLanding(a)
    PROVE  LandedOnceInOrder'
<1> DEFINE tip == landing[a].tip
<1>1. /\ Exists(a) /\ remote' = remote \o tip
      /\ landing[a].onto = ToSet(remote) /\ remote \in Seq(Commits)
      /\ tip \in Seq(Issues) /\ tip \in Seq(Commits) /\ landing[a].transplanted = Issues
      /\ \A i, j \in DOMAIN tip : i < j => Index(tip[i]) < Index(tip[j])
  BY Finished DEF Moved
<1>2. \A m \in Issues : m \in ToSet(remote) <=> m \notin ToSet(tip)
  BY <1>1 DEF CallersTruthful, Misreported, Existing
<1> HIDE DEF tip
<1>3. /\ Len(tip) \in Nat /\ DOMAIN tip = 1 .. Len(tip)
      /\ \A i \in DOMAIN tip : tip[i] \in Issues /\ tip[i] \in ToSet(tip) /\ Index(tip[i]) \in Nat
  BY <1>1, Indices DEF ToSet
<1>4. Pushable(tip)
  <2>1. ASSUME NEW i \in DOMAIN tip, NEW j \in DOMAIN tip, tip[i] = tip[j] PROVE i = j
    <3>1. ~ i < j /\ ~ j < i
      BY <1>1, <1>3, <2>1
    <3>2. QED
      BY <1>3, <3>1
  <2>2. \A i \in DOMAIN tip : tip[i] \notin ToSet(remote)
    BY <1>2, <1>3
  <2>3. ASSUME NEW i \in DOMAIN tip, NEW k \in 1 .. Index(tip[i]) - 1,
               Members[k] \notin ToSet(remote)
        PROVE  \E j \in 1 .. i - 1 : tip[j] = Members[k]
    <3>1. /\ Index(tip[i]) \in 1 .. Len(Members) /\ Len(Members) \in Nat
          /\ DOMAIN Members = 1 .. Len(Members)
      BY <1>3, Indices
    <3>2. k \in DOMAIN Members /\ k \in Nat /\ k < Index(tip[i])
      BY <3>1
    <3>3. Members[k] \in Issues /\ Index(Members[k]) = k
      BY <3>2, Indices
    <3>4. PICK j \in DOMAIN tip : tip[j] = Members[k]
      BY <1>2, <2>3, <3>3 DEF ToSet
    <3>5. ~ i < j /\ i # j
      BY <1>1, <1>3, <3>2, <3>3, <3>4
    <3>6. j \in 1 .. i - 1
      BY <1>3, <3>5
    <3>7. QED
      BY <3>4, <3>6
  <2>4. QED
    BY <1>1, <2>1, <2>2, <2>3 DEF Pushable
<1>5. Issues \subseteq ToSet(remote')
  <2>1. ToSet(remote') = ToSet(remote) \cup ToSet(tip)
    BY <1>1, AppendedSet
  <2>2. QED
    BY <1>2, <2>1
<1>6. \A b \in LandingAttempts : b # a => landing'[b] = landing[b]
  BY FinalizeKeeps
<1>7. QED
  BY <1>1, <1>4, <1>5, <1>6, PushKeeps

(* As long as callers report what their base has, whoever pushes, by hand or   *)
(* for an attempt, and wherever the process dies, each member reaches the      *)
(* default branch once, and an attempt puts it after the members before it.    *)
THEOREM MembersLand == LaneSpec /\ []CallersTruthful => []LandedOnceInOrder
<1>1. LaneInit => LandedOnceInOrder
  BY DEF LaneInit, LandedOnceInOrder, NoLanding
<1>2. LaneInv /\ CallersTruthful /\ LandedOnceInOrder /\ [LaneNext]_laneVars
        => LandedOnceInOrder'
  <2> SUFFICES ASSUME LaneInv, CallersTruthful, LandedOnceInOrder, [LaneNext]_laneVars
               PROVE  LandedOnceInOrder'
    OBVIOUS
  <2>1. CASE Untold
    BY <2>1 DEF Untold, LandedOnceInOrder
  <2>2. CASE ForeignRemotePush
    BY <2>2, ForeignOnce
  <2>3. ASSUME NEW a \in LandingAttempts, FinalizeLanding(a) PROVE LandedOnceInOrder'
    BY <2>3, FinalizeOnce
  <2>4. QED
    BY <2>1, <2>2, <2>3, LaneKinds
<1>3. QED
  BY <1>1, <1>2, LaneInvAlways, PTL DEF LaneSpec

-----------------------------------------------------------------------------
(***************************************************************************)
(* The lane implements LandingQueue: an attempt pushes what is missing of  *)
(* the group on the branch as it is, and nothing else tells that it landed.*)
(***************************************************************************)

(* The abstract operators, in terms of the lane. *)
LEMMA QueueView ==
    /\ Queue!Group = Issues
    /\ Queue!Missing = Issues \ ToSet(remote)
    /\ \A m : Queue!Place(m) = Index(m)
    /\ \A s : Queue!On(s) = ToSet(s)
BY DEF Queue!On, Queue!Group, Queue!Missing, Queue!Place, Index, Issues, ToSet

(* What a finished attempt adds is what is missing, in order, but for what was *)
(* misreported to it.                                                          *)
LEMMA TipIsRest ==
    ASSUME LaneInv, NEW a \in LandingAttempts, FinalizeLanding(a)
    PROVE  landing[a].tip \in Queue!Rest(Misreported(a))
<1> DEFINE tip == landing[a].tip
           n == Len(tip)
<1>1. /\ landing[a].onto = ToSet(remote) /\ tip \in Seq(Issues)
      /\ landing[a].transplanted = Issues
      /\ \A i, j \in DOMAIN tip : i < j => Index(tip[i]) < Index(tip[j])
  BY Finished DEF Moved
<1>2. \A m \in Issues \ Misreported(a) : m \in Queue!On(tip) <=> m \in Queue!Missing
  BY <1>1, QueueView DEF Misreported
<1> HIDE DEF tip
<1>3. n \in Nat /\ DOMAIN tip = 1 .. n /\ tip \in [1 .. n -> Issues]
  BY <1>1
<1>4. n <= Len(Members)
  <2> DEFINE f == [i \in 1 .. n |-> Index(tip[i])]
             L == Len(Members)
  <2>1. f \in [1 .. n -> 1 .. L] /\ L \in Nat
    BY <1>3, Indices
  <2>2. ASSUME NEW i \in 1 .. n, NEW j \in 1 .. n, f[i] = f[j] PROVE i = j
    <3>1. Index(tip[i]) = Index(tip[j]) /\ Index(tip[i]) \in Nat
      BY <1>3, <2>2, Indices
    <3>2. QED
      BY <1>1, <1>3, <3>1
  <2>3. f \in Injection(1 .. n, 1 .. L)
    <3> HIDE DEF f
    <3>1. IsInjective(f)
      BY <2>1, <2>2 DEF IsInjective
    <3>2. QED
      BY <2>1, <3>1 DEF Injection
  <2>4. /\ IsFiniteSet(1 .. n) /\ IsFiniteSet(1 .. L)
        /\ Cardinality(1 .. n) = n /\ Cardinality(1 .. L) = L
    <3>1. ASSUME NEW k \in Nat PROVE IsFiniteSet(1 .. k) /\ Cardinality(1 .. k) = k
      <4>1. IsFiniteSet(1 .. k) /\ Cardinality(1 .. k) = IF 1 > k THEN 0 ELSE k - 1 + 1
        BY FS_Interval
      <4>2. QED
        BY <4>1
    <3>2. QED
      BY <1>3, <2>1, <3>1
  <2>5. Cardinality(1 .. n) <= Cardinality(1 .. L)
    <3> HIDE DEF f, n, L
    <3>1. QED
      BY <2>3, <2>4, FS_Injection
  <2>6. QED
    BY <2>4, <2>5
<1>5. tip \in UNION {[1 .. k -> Queue!Group] : k \in 0 .. Len(Members)}
  <2>1. n \in 0 .. Len(Members) /\ tip \in [1 .. n -> Queue!Group]
    BY <1>3, <1>4, QueueView, Indices
  <2> HIDE DEF n
  <2>2. QED
    BY <2>1
<1>6. \A i, j \in DOMAIN tip : i < j => Queue!Place(tip[i]) < Queue!Place(tip[j])
  BY <1>1, QueueView
<1>7. tip \in Queue!Rest(Misreported(a))
  BY <1>2, <1>5, <1>6, QueueView DEF Queue!Rest
<1>8. QED
  BY <1>7 DEF tip

LEMMA LaneQueues ==
    ASSUME LaneInv, LaneInv', [LaneNext]_laneVars
    PROVE  [Queue!Next]_(Queue!vars)
<1> DEFINE told == \E b \in LandingAttempts : landing[b].state = "landed"
           misreports == {Misreported(b) : b \in Existing}
<1>1. CASE ForeignRemotePush
  <2>1. /\ UNCHANGED landing
        /\ \E m \in Queue!Missing : remote' = remote \o <<"foreign">>
                                   \/ remote' = remote \o <<"foreign", m>>
    BY <1>1, QueueView DEF ForeignRemotePush
  <2>2. UNCHANGED <<told, misreports>>
    BY <2>1 DEF Existing, Exists, Misreported
  <2>3. Queue!PushByHand
    BY <2>1, <2>2 DEF Queue!PushByHand, Queue!Others
  <2>4. QED
    BY <2>3 DEF Queue!Next
<1>2. CASE Untold
  <2>1. UNCHANGED remote /\ (told' => told)
    BY <1>2 DEF Untold
  <2>2. told' \in {told, FALSE}
    BY <2>1
  <2>3. misreports' \in SUBSET SUBSET Queue!Group
    <3>1. ASSUME NEW b \in Existing' PROVE Misreported(b)' \subseteq Issues
      <4>1. b \in LandingAttempts /\ landing'[b].state # "none"
        BY <3>1 DEF Existing, Exists
      <4>2. Attempt(landing'[b], remote')
        BY <4>1 DEF LaneInv, NoLanding
      <4>3. landing'[b].transplanted \subseteq Issues
        BY <4>2 DEF Attempt, Moved
      <4>4. QED
        BY <4>3 DEF Misreported
    <3>2. QED
      BY <3>1, QueueView
  <2>4. Queue!Report
    BY <2>1, <2>2, <2>3 DEF Queue!Report
  <2>5. QED
    BY <2>4 DEF Queue!Next
<1>3. ASSUME NEW a \in LandingAttempts, FinalizeLanding(a) PROVE Queue!Next
  <2>1. Misreported(a) \in misreports /\ remote' = remote \o landing[a].tip
    BY <1>3, Finished DEF Existing
  <2>2. landing[a].tip \in Queue!Rest(Misreported(a))
    BY <1>3, TipIsRest
  <2>3. told' \in {told, TRUE}
    BY <1>3, FinalizeKeeps
  <2>4. misreports' = misreports
    <3>1. Existing' = Existing
      BY <1>3, FinalizeKeeps DEF Existing, Exists
    <3>2. \A b \in Existing : Misreported(b)' = Misreported(b)
      BY <1>3, FinalizeKeeps DEF Existing, Exists, Misreported
    <3>3. QED
      BY <3>1, <3>2
  <2>5. Queue!Land
    BY <2>1, <2>2, <2>3, <2>4 DEF Queue!Land
  <2>6. QED
    BY <2>5 DEF Queue!Next
<1>4. QED
  BY <1>1, <1>2, <1>3, LaneKinds

(* Whoever pushes and whatever is lost, the group comes to the default branch *)
(* as a whole, but for what callers misreport: the lane implements            *)
(* LandingQueue.                                                              *)
THEOREM LandsAsOne == LaneSpec => QueueSpec
<1>1. LaneInit => Queue!Init
  <2> SUFFICES ASSUME LaneInit PROVE Queue!Init
    OBVIOUS
  <2>1. \A b \in LandingAttempts : landing[b].state = "none"
    BY DEF LaneInit, NoLanding
  <2>2. Existing = {}
    BY <2>1 DEF Existing, Exists
  <2>3. QED
    BY <2>1, <2>2 DEF LaneInit, Queue!Init
<1>2. LaneInv /\ LaneInv' /\ [LaneNext]_laneVars => [Queue!Next]_(Queue!vars)
  BY LaneQueues
<1>3. QED
  BY <1>1, <1>2, LaneInvAlways, PTL DEF LaneSpec, QueueSpec, Queue!Spec

-----------------------------------------------------------------------------
(***************************************************************************)
(* The order in which the members of an acceptance group become green, for *)
(* groups of any size and any number of candidates and commits.            *)
(***************************************************************************)

Statuses == {"member-pending", "member-active", "member-writing", "member-candidate-verified",
             "member-awaiting-receipts", "member-red", "green-committed",
             "member-human-decision-pending"}
Started == Statuses \ {"member-pending", "member-human-decision-pending"}

MemberType == [status : Statuses, candidate : Nat, commit : Nat, lease : Nat,
               receipts : [ReceiptClasses -> Nat]]

Typed ==
    /\ member \in [Places -> MemberType]
    /\ activeMember \in Places \cup {0}
    /\ commits \in Seq([candidate : Nat, parent : Nat])
    /\ leases \in Nat

Green(i) == member[i].status = "green-committed"

(* The one that is written is started, and not green. *)
ActiveIsOpen ==
    activeMember # 0 => ~Green(activeMember) /\ member[activeMember].status \in Started

(* A member that was ever written follows members that are all green. *)
Follows ==
    \A i \in Places : member[i].status \in Started \/ member[i].candidate # 0 =>
        \A j \in 1 .. i - 1 : Green(j)

(* What is committed was written, and its commit is there. *)
Committed ==
    \A i \in Places :
        /\ Green(i) => member[i].commit # 0
        /\ member[i].commit \in 0 .. Len(commits)
        /\ member[i].receipts["selfTest"] # 0 => member[i].candidate # 0
        /\ i # 1 /\ member[i].commit # 0 => commits[member[i].commit].parent # 0

Frozen == sourceTip # 0 => \A i \in Places : commitPrefix[i] # 0

OrderInv == Typed /\ ActiveIsOpen /\ Follows /\ Committed /\ Frozen

(* A step that changes one member keeps the green ones green. *)
GreenStays == \A i \in Places : Green(i) => Green(i)'

LEMMA PlacesFacts ==
    /\ Places \subseteq Nat
    /\ \A i \in Places : i >= 1 /\ \A j \in 1 .. i - 1 : j \in Places
BY GroupMembersAssumption DEF Places

LEMMA InitOrder == GroupInit => OrderInv
<1> SUFFICES ASSUME GroupInit PROVE OrderInv
  OBVIOUS
<1>1. \A i \in Places : /\ member[i].status = "member-pending" /\ member[i].candidate = 0
                        /\ member[i].commit = 0
                        /\ member[i].receipts["selfTest"] = 0
  BY DEF GroupInit, ReceiptClasses
<1>2. Typed
  BY DEF GroupInit, Typed, MemberType, Statuses
<1>3. ActiveIsOpen /\ Frozen
  BY DEF GroupInit, ActiveIsOpen, Frozen
<1>4. Follows
  BY <1>1 DEF Follows, Started
<1>5. Committed
  <2>1. Len(commits) = 0
    BY DEF GroupInit
  <2>2. QED
    BY <1>1, <2>1 DEF Committed, Green
<1>6. QED
  BY <1>2, <1>3, <1>4, <1>5 DEF OrderInv

(* A step that writes member i without making it green.  The others keep their state. *)
LEMMA WriteKeeps ==
    ASSUME OrderInv, NEW i \in Places, ~Green(i), NEW m \in MemberType,
           member' = [member EXCEPT ![i] = m],
           m.status # "green-committed", m.commit = member[i].commit,
           m.receipts["selfTest"] # 0 => m.candidate # 0,
           m.status \in Started \/ m.candidate # 0 => \A j \in 1 .. i - 1 : Green(j),
           activeMember' \in {0, activeMember, i},
           activeMember' = i => m.status \in Started,
           leases' \in Nat,
           UNCHANGED <<commits, sourceTip, commitPrefix>>
    PROVE  OrderInv'
<1>1. /\ member'[i] = m
      /\ \A j \in Places : j # i => member'[j] = member[j]
  BY DEF OrderInv, Typed
<1>2. Typed'
  BY DEF OrderInv, Typed
<1>3. \A j \in Places : Green(j)' <=> Green(j)
  BY <1>1 DEF Green
<1>4. ActiveIsOpen'
  BY <1>1 DEF OrderInv, Typed, ActiveIsOpen, Green
<1>5. Follows'
  BY <1>1, <1>3, PlacesFacts DEF OrderInv, Follows
<1>6. Committed'
  BY <1>1, <1>3 DEF OrderInv, Committed
<1>7. Frozen'
  BY DEF OrderInv, Frozen
<1>8. QED
  BY <1>2, <1>4, <1>5, <1>6, <1>7 DEF OrderInv

(* What the steps write into a member. *)
WithLease(x, k, s) == [x EXCEPT !.lease = k, !.status = s]
WithCommit(x, k, s) == [x EXCEPT !.commit = k, !.status = s]
WithCandidate(x, k, s) ==
    [x EXCEPT !.candidate = k, !.receipts["selfTest"] = k, !.status = s]

LEMMA LeaseWritten ==
    ASSUME NEW x \in MemberType, NEW s \in Statuses, NEW k \in Nat, NEW y,
           y = WithLease(x, k, s)
    PROVE  /\ y \in MemberType /\ y.status = s
           /\ y.commit = x.commit /\ y.candidate = x.candidate /\ y.receipts = x.receipts
BY DEF MemberType, WithLease

LEMMA CommitWritten ==
    ASSUME NEW x \in MemberType, NEW s \in Statuses, NEW k \in Nat, NEW y,
           y = WithCommit(x, k, s)
    PROVE  /\ y \in MemberType /\ y.status = s /\ y.commit = k
           /\ y.candidate = x.candidate /\ y.receipts = x.receipts
BY DEF MemberType, WithCommit

LEMMA CandidateWritten ==
    ASSUME NEW x \in MemberType, NEW s \in Statuses, NEW k \in Nat, NEW y,
           y = WithCandidate(x, k, s)
    PROVE  /\ y \in MemberType /\ y.status = s /\ y.candidate = k /\ y.commit = x.commit
<1>1. x.receipts \in [ReceiptClasses -> Nat]
  BY DEF MemberType
<1>2. [x.receipts EXCEPT !["selfTest"] = k] \in [ReceiptClasses -> Nat]
  BY <1>1
<1>3. y = [x EXCEPT !.candidate = k,
                    !.receipts = [x.receipts EXCEPT !["selfTest"] = k], !.status = s]
  BY DEF MemberType, WithCandidate
<1>4. QED
  BY <1>2, <1>3 DEF MemberType

LEMMA ActivateKeeps ==
    ASSUME OrderInv, NEW i \in Places, ActivateGroupMember(i)
    PROVE  OrderInv'
<1> DEFINE m == [member[i] EXCEPT !.status = "member-active"]
<1>1. member[i] \in MemberType
  BY DEF OrderInv, Typed
<1>2. /\ m \in MemberType /\ m.status = "member-active" /\ m.commit = member[i].commit
      /\ m.candidate = member[i].candidate /\ m.receipts = member[i].receipts
  BY <1>1 DEF MemberType, Statuses
<1>3. \A j \in 1 .. i - 1 : Green(j)
  <2>1. CASE i = 1
    BY <2>1
  <2>2. CASE i # 1
    <3>1. i - 1 \in Places /\ Green(i - 1)
      BY <2>2, PlacesFacts DEF ActivateGroupMember, PreviousMemberIsGreen, Green
    <3>2. \A j \in 1 .. (i - 1) - 1 : Green(j)
      BY <3>1 DEF OrderInv, Follows, Green, Started, Statuses
    <3>3. QED
      BY <3>1, <3>2, PlacesFacts
  <2>3. QED
    BY <2>1, <2>2
<1>4. ~Green(i)
  BY DEF ActivateGroupMember, Green
<1>5. member' = [member EXCEPT ![i] = m]
  BY DEF ActivateGroupMember
<1>6. member[i].receipts["selfTest"] # 0 => member[i].candidate # 0
  BY DEF OrderInv, Committed
<1>7. /\ activeMember' = i /\ leases' \in Nat
      /\ UNCHANGED <<commits, sourceTip, commitPrefix>>
  BY DEF ActivateGroupMember, OrderInv, Typed
<1>8. "member-active" \in Started /\ "member-active" # "green-committed"
  BY DEF Started, Statuses
<1> HIDE DEF m
<1>9. QED
  BY <1>2, <1>3, <1>4, <1>5, <1>6, <1>7, <1>8, WriteKeeps

LEMMA AcquireKeeps ==
    ASSUME OrderInv, NEW i \in Places, AcquireMemberWriteLease(i)
    PROVE  OrderInv'
<1> DEFINE m == [member[i] EXCEPT !.lease = leases + 1, !.status = "member-writing"]
<1>1. member[i] \in MemberType /\ leases \in Nat
  BY DEF OrderInv, Typed
<1>2. /\ m \in MemberType /\ m.status = "member-writing" /\ m.commit = member[i].commit
      /\ m.candidate = member[i].candidate /\ m.receipts = member[i].receipts
  <2>1. "member-writing" \in Statuses /\ leases + 1 \in Nat
    BY <1>1 DEF Statuses
  <2>2. m = WithLease(member[i], leases + 1, "member-writing")
    BY DEF WithLease
  <2> HIDE DEF m
  <2>3. QED
    BY <1>1, <2>1, <2>2, LeaseWritten
<1>3. ~Green(i) /\ member[i].status \in Started
  BY DEF AcquireMemberWriteLease, Green, Started, Statuses
<1>4. \A j \in 1 .. i - 1 : Green(j)
  BY <1>3 DEF OrderInv, Follows
<1>5. member' = [member EXCEPT ![i] = m]
  BY <1>1 DEF AcquireMemberWriteLease, MemberType, OrderInv, Typed
<1>6. member[i].receipts["selfTest"] # 0 => member[i].candidate # 0
  BY DEF OrderInv, Committed
<1>7. /\ activeMember' = activeMember /\ leases' \in Nat
      /\ UNCHANGED <<commits, sourceTip, commitPrefix>>
  BY <1>1 DEF AcquireMemberWriteLease
<1>8. "member-writing" \in Started /\ "member-writing" # "green-committed"
  BY DEF Started, Statuses
<1> HIDE DEF m
<1>9. QED
  BY <1>2, <1>3, <1>4, <1>5, <1>6, <1>7, <1>8, WriteKeeps

(* Who holds the write lease is started, and not green. *)
LEMMA Holder ==
    ASSUME OrderInv, NEW i \in Places, HoldsWriteLease(i)
    PROVE  ~Green(i) /\ member[i].status \in Started /\ \A j \in 1 .. i - 1 : Green(j)
<1>1. activeMember = i /\ i # 0
  BY PlacesFacts DEF HoldsWriteLease
<1>2. ~Green(i) /\ member[i].status \in Started
  BY <1>1 DEF OrderInv, ActiveIsOpen
<1>3. QED
  BY <1>2 DEF OrderInv, Follows

LEMMA CandidateKeeps ==
    ASSUME OrderInv, NEW i \in Places, RecordMemberCandidate(i)
    PROVE  OrderInv'
<1> DEFINE c == member[i].candidate + 1
<1> DEFINE m == [member[i] EXCEPT !.candidate = c, !.receipts["selfTest"] = c,
                                  !.status = "member-candidate-verified"]
<1>1. member[i] \in MemberType
  BY DEF OrderInv, Typed
<1>2. c \in Nat /\ c # 0
  BY <1>1 DEF MemberType
<1>3. /\ m \in MemberType /\ m.status = "member-candidate-verified"
      /\ m.commit = member[i].commit /\ m.candidate # 0
  <2>1. "member-candidate-verified" \in Statuses
    BY DEF Statuses
  <2>2. m = WithCandidate(member[i], c, "member-candidate-verified")
    BY DEF WithCandidate
  <2> HIDE DEF m, c
  <2>3. QED
    BY <1>1, <1>2, <2>1, <2>2, CandidateWritten
<1>4. ~Green(i) /\ \A j \in 1 .. i - 1 : Green(j)
  BY Holder DEF RecordMemberCandidate
<1>5. member' = [member EXCEPT ![i] = m]
  BY <1>1 DEF RecordMemberCandidate, MemberType, OrderInv, Typed
<1>6. /\ activeMember' = activeMember /\ leases' \in Nat
      /\ UNCHANGED <<commits, sourceTip, commitPrefix>>
  BY DEF RecordMemberCandidate, OrderInv, Typed
<1>7. "member-candidate-verified" \in Started /\ "member-candidate-verified" # "green-committed"
  BY DEF Started, Statuses
<1> HIDE DEF m, c
<1>8. QED
  BY <1>3, <1>4, <1>5, <1>6, <1>7, WriteKeeps

LEMMA ReleaseKeeps ==
    ASSUME OrderInv, NEW i \in Places, ReleaseMemberWriteLease(i)
    PROVE  OrderInv'
<1>1. PICK s \in {"member-awaiting-receipts", "member-red"} :
        member' = [member EXCEPT ![i].lease = 0, ![i].status = s]
  <2>1. PICK complete \in BOOLEAN :
          member' = [member EXCEPT ![i].lease = 0,
                                   ![i].status = IF complete /\ member[i].receipts["selfTest"] # 0
                                                 THEN "member-awaiting-receipts" ELSE "member-red"]
    BY DEF ReleaseMemberWriteLease
  <2>2. CASE complete /\ member[i].receipts["selfTest"] # 0
    BY <2>1, <2>2
  <2>3. CASE ~(complete /\ member[i].receipts["selfTest"] # 0)
    BY <2>1, <2>3
  <2>4. QED
    BY <2>2, <2>3
<1> DEFINE m == [member[i] EXCEPT !.lease = 0, !.status = s]
<1>2. member[i] \in MemberType
  BY DEF OrderInv, Typed
<1>3. s \in Statuses /\ s \in Started /\ s # "green-committed"
  BY DEF Statuses, Started
<1>4. /\ m \in MemberType /\ m.status = s /\ m.commit = member[i].commit
      /\ m.candidate = member[i].candidate /\ m.receipts = member[i].receipts
  BY <1>2, <1>3 DEF MemberType
<1>5. ~Green(i) /\ \A j \in 1 .. i - 1 : Green(j)
  BY Holder DEF ReleaseMemberWriteLease
<1>6. member' = [member EXCEPT ![i] = m]
  BY <1>1, <1>2 DEF MemberType, OrderInv, Typed
<1>7. member[i].receipts["selfTest"] # 0 => member[i].candidate # 0
  BY DEF OrderInv, Committed
<1>8. /\ activeMember' = activeMember /\ leases' \in Nat
      /\ UNCHANGED <<commits, sourceTip, commitPrefix>>
  BY DEF ReleaseMemberWriteLease, OrderInv, Typed
<1> HIDE DEF m
<1>9. QED
  BY <1>3, <1>4, <1>5, <1>6, <1>7, <1>8, WriteKeeps

(* A member that is left to a human is not green, and keeps its candidate. *)
LEMMA HumanKeeps ==
    ASSUME OrderInv, NEW i \in Places, MarkMemberHumanDecisionPending(i)
    PROVE  OrderInv'
<1>1. PICK l \in Nat :
        member' = [member EXCEPT ![i].status = "member-human-decision-pending", ![i].lease = l]
  BY DEF MarkMemberHumanDecisionPending, OrderInv, Typed, MemberType
<1> DEFINE m == [member[i] EXCEPT !.status = "member-human-decision-pending", !.lease = l]
<1>2. member[i] \in MemberType
  BY DEF OrderInv, Typed
<1>3. /\ m \in MemberType /\ m.status = "member-human-decision-pending"
      /\ m.commit = member[i].commit
      /\ m.candidate = member[i].candidate /\ m.receipts = member[i].receipts
  BY <1>2 DEF MemberType, Statuses
<1>4. member[i].candidate # 0 => \A j \in 1 .. i - 1 : Green(j)
  BY DEF OrderInv, Follows
<1>5. ~Green(i)
  BY DEF MarkMemberHumanDecisionPending, Green
<1>6. member' = [member EXCEPT ![i] = m]
  BY <1>1, <1>2 DEF MemberType, OrderInv, Typed
<1>7. member[i].receipts["selfTest"] # 0 => member[i].candidate # 0
  BY DEF OrderInv, Committed
<1>8. /\ activeMember' \in {0, activeMember} /\ activeMember' # i /\ leases' \in Nat
      /\ UNCHANGED <<commits, sourceTip, commitPrefix>>
  BY PlacesFacts DEF MarkMemberHumanDecisionPending, OrderInv, Typed
<1>9. /\ "member-human-decision-pending" \notin Started
      /\ "member-human-decision-pending" # "green-committed"
  BY DEF Started
<1> HIDE DEF m
<1>10. QED
  BY <1>3, <1>4, <1>5, <1>6, <1>7, <1>8, <1>9, WriteKeeps

(* Binding a receipt changes neither the status nor the commit of a member, *)
(* which may be green.                                                      *)
LEMMA BindKeeps ==
    ASSUME OrderInv, NEW i \in Places, NEW class \in {"behavior", "documentation"},
           BindMemberReceipt(i, class)
    PROVE  OrderInv'
<1>1. member[i] \in MemberType
  BY DEF OrderInv, Typed
<1>2. /\ member'[i] = [member[i] EXCEPT !.receipts[class] = member[i].candidate]
      /\ \A j \in Places : j # i => member'[j] = member[j]
  BY DEF BindMemberReceipt, OrderInv, Typed
<1>3. [member[i].receipts EXCEPT ![class] = member[i].candidate] \in [ReceiptClasses -> Nat]
  BY <1>1 DEF MemberType
<1>4. member'[i] = [status |-> member[i].status, candidate |-> member[i].candidate,
                    commit |-> member[i].commit, lease |-> member[i].lease,
                    receipts |-> [member[i].receipts EXCEPT ![class] = member[i].candidate]]
  BY <1>1, <1>2 DEF MemberType
<1>5. /\ member'[i] \in MemberType
      /\ member'[i].status = member[i].status /\ member'[i].candidate = member[i].candidate
      /\ member'[i].commit = member[i].commit
  BY <1>1, <1>3, <1>4 DEF MemberType
<1>6. member'[i].receipts["selfTest"] = member[i].receipts["selfTest"]
  BY <1>1, <1>4 DEF MemberType, ReceiptClasses
<1>7. \A j \in Places : /\ member'[j] \in MemberType
                        /\ member'[j].status = member[j].status
                        /\ member'[j].candidate = member[j].candidate
                        /\ member'[j].commit = member[j].commit
                        /\ member'[j].receipts["selfTest"] = member[j].receipts["selfTest"]
  BY <1>2, <1>5, <1>6 DEF OrderInv, Typed
<1>8. UNCHANGED <<activeMember, writeLease, leases, commits, sourceTip, commitPrefix>>
  BY DEF BindMemberReceipt
<1>9. member' \in [Places -> MemberType]
  BY <1>7 DEF BindMemberReceipt, OrderInv, Typed
<1>10. \A j \in Places : Green(j)' <=> Green(j)
  BY <1>7 DEF Green
<1>11. Typed' /\ Frozen'
  BY <1>8, <1>9 DEF OrderInv, Typed, Frozen
<1>12. ActiveIsOpen'
  BY <1>7, <1>8 DEF OrderInv, Typed, ActiveIsOpen, Green
<1>13. Follows'
  BY <1>7, <1>10, PlacesFacts DEF OrderInv, Follows
<1>14. Committed'
  BY <1>7, <1>8, <1>10 DEF OrderInv, Committed
<1>15. QED
  BY <1>11, <1>12, <1>13, <1>14 DEF OrderInv

(* A commit: its parent is that of the member before, which is green. *)
LEMMA CommitKeeps ==
    ASSUME OrderInv, NEW i \in Places, RecordMemberCommit(i)
    PROVE  OrderInv'
<1> DEFINE n == Len(commits) + 1
<1> DEFINE new == [candidate |-> member[i].candidate, parent |-> ExpectedParent(i)]
<1>1. member[i] \in MemberType /\ commits \in Seq([candidate : Nat, parent : Nat])
  BY DEF OrderInv, Typed
<1>2. Len(commits) \in Nat /\ n \in Nat /\ n # 0
  BY <1>1
<1>3. \A j \in 1 .. i - 1 : Green(j)
  <2>1. member[i].candidate # 0
    BY DEF RecordMemberCommit, ReceiptsAreGreen, ReceiptClasses, OrderInv, Committed
  <2>2. QED
    BY <2>1 DEF OrderInv, Follows
<1>4. ExpectedParent(i) \in Nat /\ (i # 1 => ExpectedParent(i) # 0)
  <2>1. CASE i = 1
    BY <2>1 DEF ExpectedParent
  <2>2. CASE i # 1
    <3>1. i - 1 \in 1 .. i - 1 /\ i - 1 \in Places
      BY <2>2, PlacesFacts
    <3>2. member[i - 1].commit \in Nat /\ member[i - 1].commit # 0
      BY <1>3, <3>1 DEF OrderInv, Typed, MemberType, Committed
    <3>3. QED
      BY <2>2, <3>2 DEF ExpectedParent
  <2>3. QED
    BY <2>1, <2>2
<1>5. new \in [candidate : Nat, parent : Nat] /\ new.parent = ExpectedParent(i)
  BY <1>1, <1>4 DEF MemberType
<1>6. commits' = Append(commits, new)
  BY DEF RecordMemberCommit
<1> HIDE DEF new
<1>7. /\ commits' \in Seq([candidate : Nat, parent : Nat]) /\ Len(commits') = n
      /\ commits'[n] = new /\ \A k \in 1 .. Len(commits) : commits'[k] = commits[k]
  BY <1>1, <1>5, <1>6
<1>8. /\ member'[i] = [member[i] EXCEPT !.commit = n, !.status = "green-committed"]
      /\ member' = [member EXCEPT ![i] = [member[i] EXCEPT !.commit = n,
                                                           !.status = "green-committed"]]
      /\ \A j \in Places : j # i => member'[j] = member[j]
  BY DEF RecordMemberCommit, OrderInv, Typed
<1> HIDE DEF n
<1>9. /\ member'[i] \in MemberType /\ member'[i].commit = n
      /\ member'[i].status = "green-committed" /\ member'[i].candidate = member[i].candidate
      /\ member'[i].receipts = member[i].receipts
  <2>1. "green-committed" \in Statuses
    BY DEF Statuses
  <2>2. member'[i] = WithCommit(member[i], n, "green-committed")
    BY <1>8 DEF WithCommit
  <2>3. QED
    BY <1>1, <1>2, <2>1, <2>2, CommitWritten
<1>10. \A j \in Places : Green(j)' <=> (Green(j) \/ j = i)
  BY <1>8, <1>9 DEF Green
<1>11. Typed'
  BY <1>7, <1>8, <1>9 DEF RecordMemberCommit, OrderInv, Typed
<1>12. ActiveIsOpen' /\ Frozen'
  BY DEF RecordMemberCommit, OrderInv, ActiveIsOpen, Frozen
<1>13. Follows'
  <2>1. ASSUME NEW j \in Places, member'[j].status \in Started \/ member'[j].candidate # 0
        PROVE  \A k \in 1 .. j - 1 : Green(k)
    BY <1>3, <1>8, <2>1 DEF OrderInv, Follows
  <2>2. QED
    BY <1>10, <2>1, PlacesFacts DEF Follows
<1>14. Committed'
  <2>1. Len(commits') = Len(commits) + 1
    BY <1>7 DEF n
  <2>2. ASSUME NEW j \in Places
        PROVE  /\ Green(j)' => member'[j].commit # 0
               /\ member'[j].commit \in 0 .. Len(commits')
               /\ member'[j].receipts["selfTest"] # 0 => member'[j].candidate # 0
               /\ j # 1 /\ member'[j].commit # 0 => commits'[member'[j].commit].parent # 0
    <3>1. CASE j = i
      BY <1>2, <1>4, <1>5, <1>7, <1>9, <3>1 DEF OrderInv, Committed
    <3>2. CASE j # i
      <4>1. member'[j] = member[j] /\ (Green(j)' <=> Green(j))
        BY <1>8, <1>10, <3>2
      <4>2. member[j].commit \in 0 .. Len(commits)
        BY DEF OrderInv, Committed
      <4>3. member[j].commit # 0 => commits'[member[j].commit] = commits[member[j].commit]
        BY <1>2, <1>7, <4>2
      <4>4. QED
        BY <1>2, <2>1, <4>1, <4>2, <4>3 DEF OrderInv, Committed
    <3>3. QED
      BY <3>1, <3>2
  <2>3. QED
    BY <2>2 DEF Committed
<1>15. QED
  BY <1>11, <1>12, <1>13, <1>14 DEF OrderInv

LEMMA FreezeKeeps ==
    ASSUME OrderInv, FreezeGroupSource
    PROVE  OrderInv'
<1>1. \A i \in Places : member[i].commit # 0
  BY DEF FreezeGroupSource, AllGreen, OrderInv, Committed, Green
<1>2. commitPrefix' = [i \in Places |-> member[i].commit]
  BY DEF FreezeGroupSource
<1>3. Frozen'
  BY <1>1, <1>2 DEF Frozen
<1>4. UNCHANGED <<activeMember, writeLease, leases, member, commits>>
  BY DEF FreezeGroupSource
<1>5. Typed' /\ ActiveIsOpen' /\ Committed' /\ Follows'
  BY <1>4 DEF OrderInv, Typed, ActiveIsOpen, Committed, Follows, Green
<1>6. QED
  BY <1>3, <1>5 DEF OrderInv

LEMMA OrderAlways == GroupSpec => []OrderInv
<1>1. OrderInv /\ [GroupNext]_groupVars => OrderInv'
  <2> SUFFICES ASSUME OrderInv, [GroupNext]_groupVars PROVE OrderInv'
    OBVIOUS
  <2>1. CASE GroupNext
    BY <2>1, FreezeKeeps, ActivateKeeps, AcquireKeeps, CandidateKeeps, ReleaseKeeps, BindKeeps,
       CommitKeeps, HumanKeeps DEF GroupNext
  <2>2. CASE UNCHANGED groupVars
    BY <2>2 DEF groupVars, OrderInv, Typed, ActiveIsOpen, Committed, Follows, Frozen, Green
  <2>3. QED
    BY <2>1, <2>2
<1>2. QED
  BY <1>1, InitOrder, PTL DEF GroupSpec

(* Whatever is written, repeated or left to a human, a member is started   *)
(* after all before it were committed, and has a parent they made.         *)
THEOREM GroupGreenInOrder == GroupSpec => []GreenInOrder
<1>1. OrderInv => GreenInOrder
  BY DEF OrderInv, Follows, Committed, Frozen, Green, GreenInOrder, Started, Statuses
<1>2. QED
  BY <1>1, OrderAlways, PTL

=============================================================================
