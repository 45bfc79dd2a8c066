---------------------------- MODULE LandingQueue ----------------------------
(***************************************************************************)
(* What the landing lane promises to a group, apart from attempts, leases, *)
(* slices and evidence: whoever pushes and whatever is lost or made again, *)
(* the group comes to the default branch as a whole.  One push brings what *)
(* is missing of it, in its order, or none of it; nobody is told before    *)
(* that the group landed.  Callers tell the lane what their base has: a    *)
(* push may be wrong about a member one of them misreported, and about no  *)
(* other.  LandingLane implements it.                                      *)
(***************************************************************************)
EXTENDS Naturals, Sequences

CONSTANT Members    \* the group, in its order

VARIABLES
    branch,     \* the default branch
    told,       \* whether somebody knows that the group landed
    misreports  \* for each attempt, the members reported contrary to its base

vars == <<branch, told, misreports>>

Others == "foreign"
On(commits) == {commits[i] : i \in DOMAIN commits}
Group == On(Members)
Missing == Group \ On(branch)
Place(m) == CHOOSE i \in DOMAIN Members : Members[i] = m

(* Members one after the other: those that are missing, and no others; only  *)
(* of the ones in `wrong' it may be the other way round.                     *)
Rest(wrong) ==
    {rest \in UNION {[1 .. n -> Group] : n \in 0 .. Len(Members)} :
        /\ \A m \in Group \ wrong : m \in On(rest) <=> m \in Missing
        /\ \A i, j \in DOMAIN rest : i < j => Place(rest[i]) < Place(rest[j])}

Init == branch = <<>> /\ told = FALSE /\ misreports = {}

(* The push of an attempt; whoever pushed may not live to tell. *)
Land ==
    /\ \E wrong \in misreports : \E rest \in Rest(wrong) : branch' = branch \o rest
    /\ told' \in {told, TRUE}
    /\ UNCHANGED misreports

(* A caller reports; or an attempt is made, perhaps again the one that knew. *)
Report ==
    /\ misreports' \in SUBSET SUBSET Group
    /\ told' \in {told, FALSE}
    /\ UNCHANGED branch

(* Somebody else pushes, perhaps a member that was missing. *)
PushByHand ==
    /\ \E more \in {<<Others>>} \cup {<<Others, m>> : m \in Missing} :
         branch' = branch \o more
    /\ UNCHANGED <<told, misreports>>

Next == Report \/ PushByHand \/ Land

Spec == Init /\ [][Next]_vars

=============================================================================
