------------------------ MODULE DeliveryClosure_proofs ------------------------
(***************************************************************************)
(* Theorems about delivery and closure, for any groups, nodes and          *)
(* repositories and any number of interruptions, takeovers and changes by  *)
(* other people.                                                           *)
(***************************************************************************)
EXTENDS DeliveryClosure, FiniteSetTheorems, WellFoundedInduction, TLAPS

-----------------------------------------------------------------------------
(* The operators the model is built from. *)

LEMMA WithOne ==
    ASSUME NEW f, NEW x, NEW v
    PROVE  /\ DOMAIN With(f, x, v) = DOMAIN f \cup {x}
           /\ With(f, x, v)[x] = v
           /\ \A y \in DOMAIN f : y # x => With(f, x, v)[y] = f[y]
BY DEF With

LEMMA WithoutOne ==
    ASSUME NEW f, NEW x
    PROVE  /\ DOMAIN Without(f, x) = DOMAIN f \ {x}
           /\ \A y \in DOMAIN f : y # x => Without(f, x)[y] = f[y]
BY DEF Without, Restrict

LEMMA LeastIn ==
    ASSUME NEW S \in SUBSET Nat, S # {}
    PROVE  Least(S) \in S /\ \A x \in S : Least(S) <= x
<1>1. \E x \in S : \A y \in S : ~(<<y, x>> \in OpToRel(<, Nat))
  BY NatLessThanWellFounded, WFMin
<1>2. \E x \in S : \A y \in S : x <= y
  <2>1. ASSUME NEW x \in S, NEW y \in S, ~(<<y, x>> \in OpToRel(<, Nat))
        PROVE  x <= y
    BY <2>1 DEF OpToRel
  <2>2. QED
    BY <1>1, <2>1
<1>3. QED
  BY <1>2 DEF Least

(* The issue that stands for a repository belongs to it. *)
LEMMA LegFacts ==
    ASSUME NEW g \in Groups
    PROVE  /\ Legs(g) \subseteq Repositories
           /\ Legs(g) \subseteq Nat
           /\ Legs(g) # {}
           /\ \A r \in Legs(g) : /\ Representative(g, r) \in Members(g)
                                 /\ RepositoryOf[Representative(g, r)] = r
                                 /\ LegSnapshot(g, r).head = log[r]
<1>1. Members(g) \subseteq Nat /\ Members(g) \subseteq Nodes
  BY GroupAssumption DEF Members
<1>2. ASSUME NEW r \in Legs(g)
      PROVE  /\ Representative(g, r) \in Members(g)
             /\ RepositoryOf[Representative(g, r)] = r
  <2>1. {n \in Members(g) : RepositoryOf[n] = r} # {}
    BY DEF Legs
  <2>2. Least({n \in Members(g) : RepositoryOf[n] = r}) \in {n \in Members(g) : RepositoryOf[n] = r}
    BY <1>1, <2>1, LeastIn
  <2>3. QED
    BY <2>2 DEF Representative
<1>3. Legs(g) \subseteq Repositories /\ Legs(g) # {}
  BY <1>1, GroupAssumption DEF Legs, Members
<1>4. \A r \in Legs(g) : LegSnapshot(g, r).head = log[r]
  BY <1>2 DEF LegSnapshot, Snapshot
<1>5. QED
  BY <1>2, <1>3, <1>4, GroupAssumption

-----------------------------------------------------------------------------
(* The steps, with the branches of their checks taken apart. *)

DeliverPcs == {"observe", "push", "confirm", "refused", "record", "reobserve", "members",
               "complete", "release"}
CleanPcs == {"clean", "authorize", "close", "record closure", "reobserve issue",
             "complete closure"}

Stops ==
    /\ Forget
    /\ \/ freezes' = freezes
       \/ acquired /\ ~attempted /\ freezes' = freezes \ {task}
    /\ UNCHANGED <<stage, pending, delivered, closureVars, terminal, log, issue>>

Observes(r) ==
    /\ pc = "observe"
    /\ r = Least(Legs(task) \ DOMAIN seen)
    /\ log[r] = BaseSha
    /\ seen' = With(seen, r, LegSnapshot(task, r))
    /\ pc' = IF DOMAIN seen' = Legs(task) THEN "push" ELSE pc
    /\ UNCHANGED <<ledgerVars, log, issue, task, acquired, attempted, pushed>>

Pushes(r) ==
    /\ pc = "push"
    /\ r = Least(Legs(task) \ pushed)
    /\ log' = IF log[r] = seen[r].head THEN [log EXCEPT ![r] = Append(@, task)] ELSE log
    /\ pc' \in {"confirm", "refused"}
    /\ attempted' = TRUE
    /\ UNCHANGED <<ledgerVars, issue, task, acquired, seen, pushed>>

Confirms(r) ==
    /\ pc = "confirm"
    /\ r = Least(Legs(task) \ pushed)
    /\ LegSnapshot(task, r) = Expected(r)
    /\ pushed' = pushed \cup {r}
    /\ pc' = IF pushed' = Legs(task) THEN "record" ELSE "push"
    /\ UNCHANGED <<ledgerVars, log, issue, task, acquired, attempted, seen>>

Reobserves ==
    /\ pc = "reobserve" /\ pc' = "members"
    /\ UNCHANGED <<ledgerVars, log, issue, task, acquired, attempted, seen, pushed>>

Authorizes ==
    /\ pc = "authorize" /\ pc' = "close"
    /\ \E v : authorized' = With(authorized, task, v)
    /\ UNCHANGED <<stage, groupVars, finalized, observed, closures, terminal, log, issue, task,
                   acquired, attempted, seen, pushed>>

Closes ==
    /\ pc = "close" /\ pc' = "record closure"
    /\ issue' = IF IsOpen(task) THEN [issue EXCEPT ![task] = "closed"] ELSE issue
    /\ UNCHANGED <<ledgerVars, log, task, acquired, attempted, seen, pushed>>

RecordsClosure ==
    /\ pc = "record closure" /\ pc' = "reobserve issue"
    /\ ~IsOpen(task)
    /\ observed' = With(observed, task, Snapshot(task))
    /\ authorized' = Without(authorized, task)
    /\ UNCHANGED <<stage, groupVars, finalized, closures, terminal, log, issue, task, acquired,
                   attempted, seen, pushed>>

ConfirmsClosure ==
    /\ pc = "reobserve issue" /\ pc' = "complete closure"
    /\ Snapshot(task) = observed[task]
    /\ stage' = [stage EXCEPT ![task] = "closed"]
    /\ UNCHANGED <<groupVars, closureVars, terminal, log, issue, task, acquired, attempted, seen,
                   pushed>>

(* The ledgers, the branches, the issues and the execution stay. *)
Stays ==
    /\ UNCHANGED <<stage, groupVars, finalized, observed, closures, terminal, log, issue, pc,
                   memoryVars>>
    /\ DOMAIN authorized' = DOMAIN authorized

DeliverySteps ==
    \/ StartDelivery
    \/ \E r : Observes(r) \/ Pushes(r) \/ Confirms(r)
    \/ RecordEffect \/ Reobserves \/ RecordMember \/ CompleteEffect \/ ReleaseFreeze

CleanupSteps ==
    \/ \E n \in Nodes : StartCleanup(n)
    \/ CleanResources \/ Authorizes \/ Closes \/ RecordsClosure \/ ConfirmsClosure
    \/ CompleteClosure

Kinds ==
    \/ Stays
    \/ Stops
    \/ \E r \in Repositories : ForeignPush(r)
    \/ \E n \in Nodes : ForeignClose(n)
    \/ DeliverySteps
    \/ CleanupSteps
    \/ Terminalize

LEMMA RejectStops == Rejects => Stops
BY DEF Rejects, Throw, Stops, remoteVars

LEMMA DeliveryKinds ==
    ASSUME \/ StartDelivery \/ ObserveBase \/ Push \/ PushRefused \/ ConfirmPush
           \/ RecordEffect \/ Reobserve \/ RecordMember \/ CompleteEffect
           \/ ReleaseFreeze
    PROVE  Stops \/ DeliverySteps
<1>1. CASE ObserveBase
  <2>1. CASE log[Least(Legs(task) \ DOMAIN seen)] = BaseSha
    <3>1. Observes(Least(Legs(task) \ DOMAIN seen))
      BY <1>1, <2>1 DEF ObserveBase, Observes, Continue, remoteVars
    <3>2. QED
      BY <3>1 DEF DeliverySteps
  <2>2. CASE log[Least(Legs(task) \ DOMAIN seen)] # BaseSha
    BY <1>1, <2>2, RejectStops DEF ObserveBase
  <2>3. QED
    BY <2>1, <2>2
<1>2. CASE Push
  <2>1. Pushes(Least(Legs(task) \ pushed))
    BY <1>2 DEF Push, Pushes
  <2>2. QED
    BY <2>1 DEF DeliverySteps
<1>3. CASE PushRefused
  BY <1>3, RejectStops DEF PushRefused
<1>4. CASE ConfirmPush
  <2> DEFINE r == Least(Legs(task) \ pushed)
  <2>1. CASE LegSnapshot(task, r) = Expected(r)
    <3>1. Confirms(r)
      BY <1>4, <2>1 DEF ConfirmPush, Confirms, Continue, remoteVars
    <3>2. QED
      BY <3>1 DEF DeliverySteps
  <2>2. CASE LegSnapshot(task, r) # Expected(r)
    BY <1>4, <2>2, RejectStops DEF ConfirmPush
  <2>3. QED
    BY <2>1, <2>2
<1>5. CASE Reobserve
  <2>1. CASE Rejects
    BY <2>1, RejectStops
  <2>2. CASE ~Rejects
    <3>1. Reobserves
      BY <1>5, <2>2 DEF Reobserve, Reobserves, Continue, remoteVars
    <3>2. QED
      BY <3>1 DEF DeliverySteps
  <2>3. QED
    BY <2>1, <2>2
<1>6. QED
  BY <1>1, <1>2, <1>3, <1>4, <1>5 DEF DeliverySteps

LEMMA CleanupKinds ==
    ASSUME \/ \E n \in Nodes : StartCleanup(n)
           \/ CleanResources \/ AuthorizeClosure \/ CloseIssue \/ RecordClosure
           \/ ConfirmClosure \/ CompleteClosure
    PROVE  Stops \/ CleanupSteps
<1>1. CASE Rejects
  BY <1>1, RejectStops
<1>2. CASE ~Rejects /\ AuthorizeClosure
  <2>1. Authorizes
    BY <1>2 DEF AuthorizeClosure, Authorizes, Continue, remoteVars
  <2>2. QED
    BY <2>1 DEF CleanupSteps
<1>3. CASE ~Rejects /\ CloseIssue
  <2>1. Closes
    BY <1>3 DEF CloseIssue, Closes, Continue
  <2>2. QED
    BY <2>1 DEF CleanupSteps
<1>4. CASE ~Rejects /\ RecordClosure
  <2>1. RecordsClosure
    BY <1>4 DEF RecordClosure, RecordsClosure, Continue, remoteVars
  <2>2. QED
    BY <2>1 DEF CleanupSteps
<1>5. CASE ~Rejects /\ ConfirmClosure
  <2>1. ConfirmsClosure
    BY <1>5 DEF ConfirmClosure, ConfirmsClosure, Continue, remoteVars
  <2>2. QED
    BY <2>1 DEF CleanupSteps
<1>6. QED
  BY <1>1, <1>2, <1>3, <1>4, <1>5 DEF CleanupSteps

LEMMA StepKinds == [Next]_vars => Kinds
<1>1. UNCHANGED vars => Stays
  BY DEF vars, ledgerVars, closureVars, remoteVars, Stays
<1>2. Takeover => Stays
  BY DEF Takeover, ledgerVars, closureVars, remoteVars, Stays
<1>3. ASSUME NEW n \in Nodes, AuthorizationExpires(n) PROVE Stays
  <2>1. DOMAIN authorized' = DOMAIN authorized
    BY <1>3 DEF AuthorizationExpires
  <2>2. QED
    BY <1>3, <2>1 DEF AuthorizationExpires, remoteVars, Stays
<1>4. AdapterFails \/ Killed => Stops
  BY DEF AdapterFails, Killed, Interrupt, Throw, Stops, ledgerVars, groupVars, remoteVars
<1>5. Environment => Kinds
  BY <1>2, <1>3, <1>4 DEF Environment, Kinds
<1>6. Execution => Kinds
  BY DeliveryKinds, CleanupKinds DEF Execution, Kinds
<1>7. QED
  BY <1>1, <1>5, <1>6 DEF Next, Kinds

-----------------------------------------------------------------------------
(* The inductive invariant. *)

Shapes ==
    /\ stage \in [Nodes -> {"ready", "cleaning", "closed"}]
    /\ issue \in [Nodes -> {"open", "closed", "closed by others"}]
    /\ log \in [Repositories -> Branch]
    /\ DOMAIN pending \subseteq Groups
    /\ DOMAIN authorized \subseteq Nodes /\ DOMAIN observed \subseteq Nodes
    /\ pc \in {"idle"} \cup DeliverPcs \cup CleanPcs

(* An execution starts from nothing, and a cleanup acquires no freeze. *)
Fresh ==
    /\ pc \notin DeliverPcs => ~acquired
    /\ pc = "idle" => ~attempted /\ seen = <<>> /\ pushed = {}

(* What the execution of a delivery remembers of its group is true. *)
Remembers(g) ==
    /\ g \in freezes
    /\ g \in delivered <=> pc = "release"
    /\ pc \in {"reobserve", "members", "complete"} => g \in DOMAIN pending
    /\ pc \notin {"complete", "release"} => Unrecorded(g) # {}
    /\ DOMAIN seen \subseteq Legs(g)
    /\ \A r \in DOMAIN seen : seen[r] \in Snapshots /\ seen[r].head = BaseSha
    /\ pushed \subseteq Legs(g)
    /\ \A r \in pushed : Pushed(g, r)
    /\ pc = "observe" => DOMAIN seen # Legs(g) /\ pushed = {}
    /\ pc \in {"push", "confirm", "refused", "record"} => DOMAIN seen = Legs(g)
    /\ pc \in {"push", "confirm"} => pushed # Legs(g)
    /\ pc = "record" => pushed = Legs(g)
    /\ acquired /\ ~attempted => \A r \in Legs(g) : ~Pushed(g, r)

Delivering == pc \in DeliverPcs => \E g \in Groups : task = g /\ Remembers(g)

(* What the execution of a cleanup has recorded, in the order it records. *)
Cleaning ==
    pc \in CleanPcs =>
        /\ task \in Nodes /\ stage[task] # "ready"
        /\ pc \in {"authorize", "close", "record closure"} => task \in finalized
        /\ pc = "close" => task \in DOMAIN authorized
        /\ IF pc \in {"reobserve issue", "complete closure"}
           THEN task \in DOMAIN observed
           ELSE task \notin DOMAIN observed \cup closures

(* An effect is in one place of the control ledger at a time. *)
Apart ==
    /\ DOMAIN pending \cap delivered = {}
    /\ DOMAIN authorized \cap DOMAIN observed = {}
    /\ DOMAIN authorized \cap closures = {}
    /\ DOMAIN observed \cap closures = {}

(* A recorded effect was made. *)
Made ==
    /\ \A g \in DOMAIN pending \cup delivered : \A r \in Legs(g) : Pushed(g, r)
    /\ \A n \in Nodes : stage[n] # "ready" => GroupOf[n] \in DOMAIN pending \cup delivered
    /\ \A n \in DOMAIN observed : observed[n].issue # "open"
    /\ delivered \subseteq Groups

Ended == terminal => pc = "idle"

Inv ==
    /\ Shapes /\ Fresh /\ Delivering /\ Cleaning /\ Apart /\ Made /\ Ended
    /\ PushedOnceOnBase /\ PushesStayFrozen /\ ClosedWithEvidence /\ TerminalIsComplete

LEMMA LogStays ==
    ASSUME log' = log
    PROVE  \A g, r : Pushed(g, r)' <=> Pushed(g, r)
BY DEF Pushed

(* A commit more on one branch. *)
LEMMA LogGrows ==
    ASSUME log \in [Repositories -> Branch],
           NEW r \in Repositories, NEW who \in Groups \cup {Stranger},
           log' = [log EXCEPT ![r] = Append(@, who)]
    PROVE  /\ log' \in [Repositories -> Branch]
           /\ \A g, q : q \in Repositories /\ Pushed(g, q) => Pushed(g, q)'
           /\ \A g, q : q \in Repositories /\ Pushed(g, q)' =>
                 Pushed(g, q) \/ (g = who /\ q = r)
           /\ Pushed(who, r)'
           /\ \A q \in Repositories : q # r => log'[q] = log[q]
           /\ \A i \in DOMAIN log'[r] :
                 \/ i = Len(log[r]) + 1 /\ log'[r][i] = who
                 \/ i \in DOMAIN log[r] /\ log'[r][i] = log[r][i]
<1>1. log[r] \in Seq(Groups \cup {Stranger})
  BY DEF Branch
<1>2. /\ Append(log[r], who) \in Seq(Groups \cup {Stranger})
      /\ DOMAIN log[r] = 1 .. Len(log[r])
      /\ DOMAIN Append(log[r], who) = 1 .. Len(log[r]) + 1
      /\ \A i \in 1 .. Len(log[r]) : Append(log[r], who)[i] = log[r][i]
      /\ Append(log[r], who)[Len(log[r]) + 1] = who
      /\ Len(log[r]) \in Nat
  BY <1>1
<1>3. log'[r] = Append(log[r], who) /\ \A q \in Repositories : q # r => log'[q] = log[q]
  OBVIOUS
<1>4. log' \in [Repositories -> Branch]
  BY <1>2 DEF Branch
<1>5. ASSUME NEW g, NEW q \in Repositories, Pushed(g, q)
      PROVE  Pushed(g, q)'
  BY <1>2, <1>3, <1>5 DEF Pushed
<1>6. ASSUME NEW g, NEW q \in Repositories, Pushed(g, q)'
      PROVE  Pushed(g, q) \/ (g = who /\ q = r)
  BY <1>2, <1>3, <1>6 DEF Pushed
<1>7. Pushed(who, r)'
  BY <1>2, <1>3 DEF Pushed
<1>8. \A i \in DOMAIN log'[r] :
        \/ i = Len(log[r]) + 1 /\ log'[r][i] = who
        \/ i \in DOMAIN log[r] /\ log'[r][i] = log[r][i]
  BY <1>2, <1>3
<1>9. QED
  BY <1>3, <1>4, <1>5, <1>6, <1>7, <1>8

LEMMA StayKeeps ==
    ASSUME Inv, Stays
    PROVE  Inv'
<1>1. \A g, r : Pushed(g, r)' <=> Pushed(g, r)
  BY LogStays DEF Stays
<1> USE DEF Inv, Stays, groupVars, memoryVars
<1>2. Shapes' /\ Fresh' /\ Apart' /\ Ended'
  BY DEF Shapes, Fresh, Apart, Ended
<1>3. Delivering'
  BY <1>1 DEF Delivering, Remembers, Unrecorded
<1>4. Cleaning'
  BY DEF Cleaning
<1>5. Made'
  BY <1>1 DEF Made
<1>6. PushedOnceOnBase' /\ PushesStayFrozen'
  BY <1>1 DEF PushedOnceOnBase, PushesStayFrozen
<1>7. ClosedWithEvidence'
  BY <1>1 DEF ClosedWithEvidence, IsOpen
<1>8. TerminalIsComplete'
  BY <1>1 DEF TerminalIsComplete, IsOpen
<1>9. QED
  BY <1>2, <1>3, <1>4, <1>5, <1>6, <1>7, <1>8

LEMMA StopKeeps ==
    ASSUME Inv, Stops
    PROVE  Inv'
<1>1. \A g, r : Pushed(g, r)' <=> Pushed(g, r)
  BY LogStays DEF Stops
<1> USE DEF Inv, Stops, Forget, closureVars
<1>2. Shapes' /\ Fresh' /\ Apart' /\ Ended' /\ Delivering' /\ Cleaning'
  BY DEF Shapes, Fresh, Apart, Ended, Delivering, Cleaning, DeliverPcs, CleanPcs
<1>3. Made'
  BY <1>1 DEF Made
<1>4. PushedOnceOnBase'
  BY DEF PushedOnceOnBase
<1>5. PushesStayFrozen'
  <2>1. CASE freezes' = freezes
    BY <1>1, <2>1 DEF PushesStayFrozen
  <2>2. CASE acquired /\ ~attempted /\ freezes' = freezes \ {task}
    <3>1. PICK g \in Groups : task = g /\ Remembers(g)
      BY <2>2 DEF Fresh, Delivering
    <3>2. \A r \in Legs(g) : ~Pushed(g, r)
      BY <2>2, <3>1 DEF Remembers
    <3>3. QED
      BY <1>1, <2>2, <3>1, <3>2 DEF PushesStayFrozen
  <2>3. QED
    BY <2>1, <2>2
<1>6. ClosedWithEvidence'
  BY <1>1 DEF ClosedWithEvidence, IsOpen
<1>7. TerminalIsComplete'
  BY <1>1 DEF TerminalIsComplete, IsOpen
<1>8. QED
  BY <1>2, <1>3, <1>4, <1>5, <1>6, <1>7

(* Other people push: the log has a stranger's commit, and no group's. *)
LEMMA ForeignPushKeeps ==
    ASSUME Inv, NEW q \in Repositories, ForeignPush(q)
    PROVE  Inv'
<1> USE DEF ForeignPush, ledgerVars, groupVars, closureVars, memoryVars
<1>1. Shapes /\ log' = [log EXCEPT ![q] = Append(@, Stranger)]
  BY DEF Inv
<1>2. /\ log' \in [Repositories -> Branch]
      /\ \A g, r : r \in Repositories /\ Pushed(g, r) => Pushed(g, r)'
      /\ \A g, r : r \in Repositories /\ Pushed(g, r)' =>
            Pushed(g, r) \/ (g = Stranger /\ r = q)
  BY <1>1, LogGrows DEF Shapes
<1>3. \A g \in Groups : \A r \in Repositories : Pushed(g, r)' <=> Pushed(g, r)
  BY <1>2, GroupAssumption DEF Stranger
<1>4. \A g \in Groups : Legs(g) \subseteq Repositories
  BY LegFacts
<1>5. Shapes' /\ Fresh' /\ Apart' /\ Ended' /\ Cleaning'
  BY <1>2 DEF Inv, Shapes, Fresh, Apart, Ended, Cleaning
<1>6. Delivering'
  BY <1>3, <1>4 DEF Inv, Delivering, Remembers, Unrecorded
<1>7. Made'
  BY <1>3, <1>4 DEF Inv, Made, Shapes
<1>8. PushedOnceOnBase'
  <2>1. /\ \A r \in Repositories : r # q => log'[r] = log[r]
        /\ \A i \in DOMAIN log'[q] :
              \/ log'[q][i] = Stranger
              \/ i \in DOMAIN log[q] /\ log'[q][i] = log[q][i]
    BY <1>1, LogGrows DEF Shapes
  <2>2. QED
    BY <2>1, GroupAssumption DEF Inv, PushedOnceOnBase, Stranger
<1>9. PushesStayFrozen'
  BY <1>3, <1>4 DEF Inv, PushesStayFrozen
<1>10. ClosedWithEvidence' /\ TerminalIsComplete'
  BY <1>3, <1>4, GroupAssumption DEF Inv, ClosedWithEvidence, TerminalIsComplete, IsOpen
<1>11. QED
  BY <1>5, <1>6, <1>7, <1>8, <1>9, <1>10 DEF Inv

LEMMA ForeignCloseKeeps ==
    ASSUME Inv, NEW n \in Nodes, ForeignClose(n)
    PROVE  Inv'
<1>1. \A g, r : Pushed(g, r)' <=> Pushed(g, r)
  BY LogStays DEF ForeignClose
<1> USE DEF Inv, ForeignClose, ledgerVars, groupVars, closureVars, memoryVars
<1>2. Shapes' /\ Fresh' /\ Apart' /\ Ended' /\ Cleaning'
  BY DEF Shapes, Fresh, Apart, Ended, Cleaning
<1>3. Delivering'
  BY <1>1 DEF Delivering, Remembers, Unrecorded
<1>4. Made'
  BY <1>1 DEF Made
<1>5. PushedOnceOnBase' /\ PushesStayFrozen'
  BY <1>1 DEF PushedOnceOnBase, PushesStayFrozen
<1>6. \A m \in Nodes : /\ issue'[m] = "closed" => issue[m] = "closed"
                       /\ ~IsOpen(m) => issue'[m] # "open"
  BY DEF Shapes, IsOpen
<1>7. ClosedWithEvidence'
  BY <1>1, <1>6 DEF ClosedWithEvidence, IsOpen
<1>8. TerminalIsComplete'
  BY <1>1, <1>6 DEF TerminalIsComplete, IsOpen
<1>9. QED
  BY <1>2, <1>3, <1>4, <1>5, <1>7, <1>8

(* The steps of a delivery. *)
LEMMA StartDeliveryKeeps ==
    ASSUME Inv, StartDelivery
    PROVE  Inv'
<1>1. \A h, r : Pushed(h, r)' <=> Pushed(h, r)
  BY LogStays DEF StartDelivery, remoteVars
<1>2. OfferedGroups \in SUBSET Nat /\ OfferedGroups # {}
  BY GroupAssumption DEF StartDelivery, OfferedGroups
<1>3. PICK g \in OfferedGroups : g = Least(OfferedGroups)
  BY <1>2, LeastIn
<1>4. /\ g \in Groups /\ g \notin delivered
      /\ task' = g /\ acquired' = (g \notin freezes) /\ freezes' = freezes \cup {g}
      /\ pc' = IF g \in DOMAIN pending THEN "reobserve" ELSE "observe"
      /\ pc = "idle" /\ ~terminal
      /\ UNCHANGED <<stage, pending, delivered, finalized, authorized, observed, closures,
                     terminal, log, issue, attempted, seen, pushed>>
  BY <1>3 DEF StartDelivery, OfferedGroups, Offered, closureVars, remoteVars
<1>5. Unrecorded(g) # {}
  BY <1>3 DEF OfferedGroups, Offered, Unrecorded
<1>6. Legs(g) # {} /\ Legs(g) \subseteq Repositories
  BY <1>4, LegFacts
<1> USE DEF Inv
<1>7. Shapes' /\ Fresh' /\ Apart' /\ Ended' /\ Cleaning'
  BY <1>4 DEF Shapes, Fresh, Apart, Ended, Cleaning, DeliverPcs, CleanPcs
<1>8. Remembers(g)'
  <2>1. acquired' => \A r \in Legs(g) : ~Pushed(g, r)
    BY <1>4, <1>6 DEF PushesStayFrozen
  <2>2. ~attempted /\ seen = <<>> /\ pushed = {} /\ DOMAIN seen = {}
    BY <1>4 DEF Fresh
  <2>3. QED
    BY <1>1, <1>4, <1>5, <1>6, <2>1, <2>2 DEF Remembers, Unrecorded
<1>9. Delivering'
  BY <1>4, <1>8 DEF Delivering
<1>10. Made'
  BY <1>1, <1>4 DEF Made
<1>11. PushedOnceOnBase' /\ PushesStayFrozen'
  BY <1>1, <1>4 DEF PushedOnceOnBase, PushesStayFrozen
<1>12. ClosedWithEvidence' /\ TerminalIsComplete'
  BY <1>1, <1>4 DEF ClosedWithEvidence, TerminalIsComplete, IsOpen
<1>13. QED
  BY <1>7, <1>9, <1>10, <1>11, <1>12

(* A step of a delivery that changes what it remembers, and nothing else. *)
LEMMA MemoryKeeps ==
    ASSUME Inv, NEW g \in Groups, task' = g,
           pc' \in DeliverPcs, Remembers(g)', ~terminal,
           UNCHANGED <<ledgerVars, log, issue>>
    PROVE  Inv'
<1>1. \A h, r : Pushed(h, r)' <=> Pushed(h, r)
  BY LogStays
<1> USE DEF Inv, ledgerVars, groupVars, closureVars
<1>2. Shapes' /\ Fresh' /\ Apart' /\ Ended' /\ Cleaning' /\ Delivering'
  BY DEF Shapes, Fresh, Apart, Ended, Cleaning, DeliverPcs, CleanPcs, Delivering
<1>3. Made'
  BY <1>1 DEF Made
<1>4. PushedOnceOnBase' /\ PushesStayFrozen'
  BY <1>1 DEF PushedOnceOnBase, PushesStayFrozen
<1>5. ClosedWithEvidence' /\ TerminalIsComplete'
  BY <1>1 DEF ClosedWithEvidence, TerminalIsComplete, IsOpen
<1>6. QED
  BY <1>2, <1>3, <1>4, <1>5

LEMMA ObserveKeeps ==
    ASSUME Inv, NEW r, Observes(r)
    PROVE  Inv'
<1>1. PICK g \in Groups : task = g /\ Remembers(g)
  BY DEF Inv, Delivering, Observes, DeliverPcs
<1>2. \A h, q : Pushed(h, q)' <=> Pushed(h, q)
  BY LogStays DEF Observes
<1>3. r \in Legs(g) \ DOMAIN seen
  <2>1. Legs(g) \ DOMAIN seen \in SUBSET Nat /\ Legs(g) \ DOMAIN seen # {}
    BY <1>1, LegFacts DEF Remembers, Observes
  <2>2. QED
    BY <1>1, <2>1, LeastIn DEF Observes
<1>4. LegSnapshot(g, r) \in Snapshots /\ LegSnapshot(g, r).head = BaseSha
  <2>1. Representative(g, r) \in Nodes /\ RepositoryOf[Representative(g, r)] = r
    BY <1>3, LegFacts DEF Members
  <2>2. r \in Repositories
    BY <1>3, LegFacts
  <2>3. LegSnapshot(g, r) = [head |-> log[r], issue |-> issue[Representative(g, r)]]
    BY <2>1 DEF LegSnapshot, Snapshot
  <2>4. log[r] \in Branch /\ log[r] = BaseSha
    BY <2>2 DEF Inv, Shapes, Observes
  <2>5. issue[Representative(g, r)] \in {"open", "closed", "closed by others"}
    BY <2>1 DEF Inv, Shapes
  <2>6. [head |-> log[r], issue |-> issue[Representative(g, r)]] \in Snapshots
    BY <2>4, <2>5 DEF Snapshots
  <2>7. [head |-> log[r], issue |-> issue[Representative(g, r)]].head = BaseSha
    BY <2>4
  <2>8. QED
    BY <2>3, <2>6, <2>7
<1>5. seen' = With(seen, r, LegSnapshot(g, r))
  BY <1>1 DEF Observes
<1>6. /\ DOMAIN seen' = DOMAIN seen \cup {r}
      /\ seen'[r] = LegSnapshot(g, r)
      /\ \A q \in DOMAIN seen : q # r => seen'[q] = seen[q]
  BY <1>5 DEF With
<1>7. Remembers(g)'
  <2>1. \A q \in DOMAIN seen' : seen'[q] \in Snapshots /\ seen'[q].head = BaseSha
    BY <1>1, <1>4, <1>6 DEF Remembers
  <2>2. /\ DOMAIN seen' \subseteq Legs(g)
        /\ pc' = IF DOMAIN seen' = Legs(g) THEN "push" ELSE "observe"
        /\ pushed' = {} /\ Legs(g) # {}
    BY <1>1, <1>3, <1>6, LegFacts DEF Remembers, Observes
  <2>3. QED
    BY <1>1, <1>2, <2>1, <2>2 DEF Observes, Remembers, Unrecorded, ledgerVars, groupVars
<1>8. QED
  BY <1>1, <1>7, MemoryKeeps DEF Inv, Observes, Ended, DeliverPcs

LEMMA ConfirmKeeps ==
    ASSUME Inv, NEW r, Confirms(r)
    PROVE  Inv'
<1>1. PICK g \in Groups : task = g /\ Remembers(g)
  BY DEF Inv, Delivering, Confirms, DeliverPcs
<1>2. \A h, q : Pushed(h, q)' <=> Pushed(h, q)
  BY LogStays DEF Confirms
<1>3. r \in Legs(g) \ pushed
  <2>1. Legs(g) \ pushed \in SUBSET Nat /\ Legs(g) \ pushed # {}
    BY <1>1, LegFacts DEF Remembers, Confirms
  <2>2. QED
    BY <1>1, <2>1, LeastIn DEF Confirms
<1>4. Pushed(g, r)
  <2>1. log[r] = Expected(r).head
    BY <1>1, <1>3, LegFacts DEF Confirms
  <2>2. Expected(r).head = Append(<<>>, g)
    <3>1. pc = "confirm" /\ r \in DOMAIN seen
      BY <1>1, <1>3 DEF Confirms, Remembers
    <3>2. seen[r] \in Snapshots /\ seen[r].head = BaseSha
      BY <1>1, <3>1 DEF Remembers
    <3>3. QED
      BY <1>1, <3>2 DEF Expected, BaseSha, Snapshots
  <2>3. QED
    BY <2>1, <2>2 DEF Pushed
<1>5. Remembers(g)'
  BY <1>1, <1>2, <1>3, <1>4
     DEF Confirms, Remembers, Unrecorded, ledgerVars, groupVars
<1>6. QED
  BY <1>1, <1>5, MemoryKeeps DEF Inv, Confirms, Ended, DeliverPcs

LEMMA ReobserveKeeps ==
    ASSUME Inv, Reobserves
    PROVE  Inv'
<1>1. PICK g \in Groups : task = g /\ Remembers(g)
  BY DEF Inv, Delivering, Reobserves, DeliverPcs
<1>2. \A h, q : Pushed(h, q)' <=> Pushed(h, q)
  BY LogStays DEF Reobserves
<1>3. Remembers(g)'
  BY <1>1, <1>2 DEF Reobserves, Remembers, Unrecorded, ledgerVars, groupVars
<1>4. QED
  BY <1>1, <1>3, MemoryKeeps DEF Inv, Reobserves, Ended, DeliverPcs

LEMMA PushKeeps ==
    ASSUME Inv, NEW r, Pushes(r)
    PROVE  Inv'
<1>1. PICK g \in Groups : task = g /\ Remembers(g)
  BY DEF Inv, Delivering, Pushes, DeliverPcs
<1>2. r \in Legs(g) \ pushed
  <2>1. Legs(g) \ pushed \in SUBSET Nat /\ Legs(g) \ pushed # {}
    BY <1>1, LegFacts DEF Remembers, Pushes
  <2>2. QED
    BY <1>1, <2>1, LeastIn DEF Pushes
<1>3. r \in Repositories /\ seen[r].head = <<>>
  BY <1>1, <1>2, LegFacts DEF Pushes, Remembers, BaseSha
<1>4. ~terminal
  BY DEF Inv, Ended, Pushes
<1>5. ASSUME \A q \in Legs(g) : Pushed(g, q) => Pushed(g, q)'
      PROVE  Remembers(g)'
  BY <1>1, <1>5 DEF Pushes, Remembers, Unrecorded, ledgerVars, groupVars
<1>6. CASE log[r] = <<>>
  <2> USE DEF ledgerVars, groupVars, closureVars
  <2>1. log' = [log EXCEPT ![r] = Append(@, g)]
    BY <1>1, <1>3, <1>6 DEF Pushes
  <2>2. log \in [Repositories -> Branch]
    BY DEF Inv, Shapes
  <2>3. /\ log' \in [Repositories -> Branch]
        /\ \A h, q : q \in Repositories /\ Pushed(h, q) => Pushed(h, q)'
        /\ \A h, q : q \in Repositories /\ Pushed(h, q)' =>
              Pushed(h, q) \/ (h = g /\ q = r)
        /\ \A q \in Repositories : q # r => log'[q] = log[q]
        /\ \A i \in DOMAIN log'[r] : i = 1
    <3>1. /\ log' \in [Repositories -> Branch]
          /\ \A h, q : q \in Repositories /\ Pushed(h, q) => Pushed(h, q)'
          /\ \A h, q : q \in Repositories /\ Pushed(h, q)' =>
                Pushed(h, q) \/ (h = g /\ q = r)
          /\ \A q \in Repositories : q # r => log'[q] = log[q]
      BY <1>3, <2>1, <2>2, LogGrows
    <3>2. \A i \in DOMAIN log'[r] :
            \/ i = Len(log[r]) + 1 /\ log'[r][i] = g
            \/ i \in DOMAIN log[r] /\ log'[r][i] = log[r][i]
      BY <1>3, <2>1, <2>2, LogGrows
    <3>3. Len(<<>>) + 1 = 1 /\ DOMAIN <<>> = {}
      OBVIOUS
    <3>4. QED
      BY <1>6, <3>1, <3>2, <3>3
  <2>4. \A h \in Groups : Legs(h) \subseteq Repositories
    BY LegFacts
  <2>5. Remembers(g)'
    BY <1>5, <2>3, <2>4
  <2>6. Shapes' /\ Fresh' /\ Apart' /\ Ended' /\ Cleaning' /\ Delivering'
    BY <1>1, <1>4, <2>3, <2>5
       DEF Inv, Pushes, Shapes, Fresh, Apart, Ended, Cleaning, Delivering, DeliverPcs, CleanPcs
  <2>7. Made'
    BY <2>3, <2>4 DEF Inv, Pushes, Made, Shapes
  <2>8. PushedOnceOnBase'
    BY <2>3 DEF Inv, PushedOnceOnBase
  <2>9. PushesStayFrozen'
    <3>1. g \in freezes
      BY <1>1 DEF Remembers
    <3>2. QED
      BY <2>3, <2>4, <3>1 DEF Inv, Pushes, PushesStayFrozen
  <2>10. ClosedWithEvidence'
    BY <2>3, <2>4, GroupAssumption DEF Inv, Pushes, ClosedWithEvidence, IsOpen
  <2>11. TerminalIsComplete'
    BY <1>4 DEF Pushes, TerminalIsComplete
  <2>12. QED
    BY <2>6, <2>7, <2>8, <2>9, <2>10, <2>11 DEF Inv
<1>7. CASE log[r] # <<>>
  <2>1. log' = log
    BY <1>3, <1>7 DEF Pushes
  <2>2. Remembers(g)'
    BY <1>5, <2>1, LogStays
  <2>3. QED
    BY <1>1, <1>4, <2>1, <2>2, MemoryKeeps DEF Pushes, DeliverPcs
<1>8. QED
  BY <1>6, <1>7

(* The effect is recorded when every repository has the commit. *)
LEMMA RecordEffectKeeps ==
    ASSUME Inv, RecordEffect
    PROVE  Inv'
<1>1. PICK g \in Groups : task = g /\ Remembers(g)
  BY DEF Inv, Delivering, RecordEffect, DeliverPcs
<1>2. \A h, q : Pushed(h, q)' <=> Pushed(h, q)
  BY LogStays DEF RecordEffect, remoteVars
<1>3. DOMAIN pending' = DOMAIN pending \cup {g}
  BY <1>1 DEF RecordEffect, With
<1>4. /\ \A q \in Legs(g) : Pushed(g, q)
      /\ g \notin delivered /\ ~terminal
  BY <1>1 DEF Remembers, RecordEffect, Inv, Ended
<1>5. /\ pc' = "reobserve" /\ task' = task
      /\ UNCHANGED <<stage, freezes, delivered, finalized, authorized, observed, closures,
                     terminal, log, issue, acquired, attempted, seen, pushed>>
  BY DEF RecordEffect, Continue, closureVars, remoteVars
<1>6. Remembers(g)'
  BY <1>1, <1>2, <1>3, <1>4, <1>5 DEF RecordEffect, Remembers, Unrecorded
<1> USE DEF Inv
<1>7. Shapes' /\ Fresh' /\ Apart' /\ Ended' /\ Cleaning' /\ Delivering'
  <2>1. Shapes' /\ Fresh' /\ Ended' /\ Cleaning'
    BY <1>3, <1>4, <1>5 DEF Shapes, Fresh, Ended, Cleaning, DeliverPcs, CleanPcs
  <2>2. Apart'
    BY <1>3, <1>4, <1>5 DEF Apart
  <2>3. Delivering'
    BY <1>1, <1>5, <1>6 DEF Delivering
  <2>4. QED
    BY <2>1, <2>2, <2>3
<1>8. Made'
  BY <1>2, <1>3, <1>4, <1>5 DEF Made
<1>9. PushedOnceOnBase' /\ PushesStayFrozen'
  BY <1>2, <1>5 DEF PushedOnceOnBase, PushesStayFrozen
<1>10. ClosedWithEvidence' /\ TerminalIsComplete'
  BY <1>2, <1>4, <1>5 DEF ClosedWithEvidence, TerminalIsComplete, IsOpen
<1>11. QED
  BY <1>7, <1>8, <1>9, <1>10

(* The results of the members are recorded one after the other. *)
LEMMA RecordMemberKeeps ==
    ASSUME Inv, RecordMember
    PROVE  Inv'
<1>1. PICK g \in Groups : task = g /\ Remembers(g)
  BY DEF Inv, Delivering, RecordMember, DeliverPcs
<1>2. \A h, q : Pushed(h, q)' <=> Pushed(h, q)
  BY LogStays DEF RecordMember, remoteVars
<1>3. /\ pc = "members" /\ task' = task /\ ~terminal
      /\ UNCHANGED <<freezes, pending, delivered, finalized, authorized, observed, closures,
                     terminal, log, issue, acquired, attempted, seen, pushed>>
  BY DEF RecordMember, Continue, groupVars, closureVars, remoteVars, Inv, Ended
<1>4. PICK n \in Unrecorded(g) : n = Least(Unrecorded(g))
  <2>1. Unrecorded(g) # {} /\ Unrecorded(g) \in SUBSET Nat
    BY <1>1, <1>3, GroupAssumption DEF Remembers, Unrecorded, Members
  <2>2. QED
    BY <2>1, LeastIn
<1>5. n \in Nodes /\ GroupOf[n] = g /\ stage[n] # "cleaning"
  BY <1>4 DEF Unrecorded, Members
<1>6. /\ stage' = [stage EXCEPT ![n] = "cleaning"]
      /\ pc' = IF Cardinality(Unrecorded(g)) = 1 THEN "complete" ELSE "members"
  BY <1>1, <1>3, <1>4 DEF RecordMember
<1>7. g \in DOMAIN pending
  BY <1>1, <1>3 DEF Remembers
<1>8. pc' # "complete" => Unrecorded(g)' # {}
  <2>1. Unrecorded(g)' = Unrecorded(g) \ {n}
    BY <1>5, <1>6 DEF Unrecorded, Members, Inv, Shapes
  <2>2. Cardinality(Unrecorded(g)) # 1 => Unrecorded(g) # {n}
    BY FS_Singleton
  <2>3. QED
    BY <1>4, <1>6, <2>1, <2>2
<1>9. Remembers(g)'
  <2>1. pc' \in {"members", "complete"}
    BY <1>6
  <2>2. QED
    BY <1>1, <1>2, <1>3, <1>7, <1>8, <2>1 DEF Remembers
<1> USE DEF Inv
<1>10. Shapes' /\ Fresh' /\ Apart' /\ Ended' /\ Cleaning' /\ Delivering'
  BY <1>1, <1>3, <1>5, <1>6, <1>9
     DEF Shapes, Fresh, Apart, Ended, Cleaning, Delivering, DeliverPcs, CleanPcs
<1>11. Made'
  BY <1>2, <1>3, <1>5, <1>6, <1>7 DEF Made, Shapes
<1>12. PushedOnceOnBase' /\ PushesStayFrozen'
  BY <1>2, <1>3 DEF PushedOnceOnBase, PushesStayFrozen
<1>13. ClosedWithEvidence' /\ TerminalIsComplete'
  BY <1>2, <1>3, <1>5, <1>6 DEF ClosedWithEvidence, TerminalIsComplete, IsOpen, Shapes
<1>14. QED
  BY <1>10, <1>11, <1>12, <1>13

LEMMA CompleteEffectKeeps ==
    ASSUME Inv, CompleteEffect
    PROVE  Inv'
<1>1. PICK g \in Groups : task = g /\ Remembers(g)
  BY DEF Inv, Delivering, CompleteEffect, DeliverPcs
<1>2. \A h, q : Pushed(h, q)' <=> Pushed(h, q)
  BY LogStays DEF CompleteEffect, remoteVars
<1>3. DOMAIN pending' = DOMAIN pending \ {g} /\ delivered' = delivered \cup {g}
  BY <1>1, WithoutOne DEF CompleteEffect
<1>4. /\ pc = "complete" /\ pc' = "release" /\ task' = task /\ ~terminal
      /\ UNCHANGED <<stage, freezes, finalized, authorized, observed, closures, terminal, log,
                     issue, acquired, attempted, seen, pushed>>
  BY DEF CompleteEffect, Continue, closureVars, remoteVars, Inv, Ended
<1>5. g \in DOMAIN pending
  BY <1>1, <1>4 DEF Remembers
<1>6. Remembers(g)'
  BY <1>1, <1>2, <1>3, <1>4 DEF Remembers
<1> USE DEF Inv
<1>7. Shapes' /\ Fresh' /\ Apart' /\ Ended' /\ Cleaning' /\ Delivering'
  BY <1>1, <1>3, <1>4, <1>6
     DEF Shapes, Fresh, Apart, Ended, Cleaning, Delivering, DeliverPcs, CleanPcs
<1>8. Made'
  BY <1>2, <1>3, <1>4, <1>5 DEF Made
<1>9. PushedOnceOnBase' /\ PushesStayFrozen'
  BY <1>2, <1>3, <1>4 DEF PushedOnceOnBase, PushesStayFrozen
<1>10. ClosedWithEvidence' /\ TerminalIsComplete'
  BY <1>2, <1>4 DEF ClosedWithEvidence, TerminalIsComplete, IsOpen
<1>11. QED
  BY <1>7, <1>8, <1>9, <1>10

LEMMA ReleaseFreezeKeeps ==
    ASSUME Inv, ReleaseFreeze
    PROVE  Inv'
<1>1. PICK g \in Groups : task = g /\ Remembers(g)
  BY DEF Inv, Delivering, ReleaseFreeze, DeliverPcs
<1>2. \A h, q : Pushed(h, q)' <=> Pushed(h, q)
  BY LogStays DEF ReleaseFreeze, remoteVars
<1>3. /\ freezes' = freezes \ {g} /\ g \in delivered /\ ~terminal
      /\ UNCHANGED <<stage, pending, delivered, finalized, authorized, observed, closures,
                     terminal, log, issue>>
  BY <1>1 DEF Remembers, ReleaseFreeze, closureVars, remoteVars, Inv, Ended
<1> USE DEF Inv
<1>4. Shapes' /\ Fresh' /\ Apart' /\ Ended' /\ Cleaning' /\ Delivering'
  BY <1>3 DEF Shapes, Fresh, Apart, Ended, Cleaning, Delivering, DeliverPcs, CleanPcs,
              ReleaseFreeze, Forget
<1>5. Made'
  BY <1>2, <1>3 DEF Made
<1>6. PushedOnceOnBase' /\ PushesStayFrozen'
  BY <1>2, <1>3 DEF PushedOnceOnBase, PushesStayFrozen
<1>7. ClosedWithEvidence' /\ TerminalIsComplete'
  BY <1>2, <1>3 DEF ClosedWithEvidence, TerminalIsComplete, IsOpen
<1>8. QED
  BY <1>4, <1>5, <1>6, <1>7

(* The steps of a cleanup and closure. *)
LEMMA StartCleanupKeeps ==
    ASSUME Inv, NEW n \in Nodes, StartCleanup(n)
    PROVE  Inv'
<1>1. \A h, r : Pushed(h, r)' <=> Pushed(h, r)
  BY LogStays DEF StartCleanup, remoteVars
<1>2. /\ pc = "idle" /\ ~terminal /\ task' = n /\ stage[n] = "cleaning" /\ n \notin closures
      /\ pc' = IF n \in DOMAIN observed THEN "reobserve issue"
               ELSE IF n \notin finalized THEN "clean"
               ELSE IF n \notin DOMAIN authorized THEN "authorize"
               ELSE "close"
      /\ UNCHANGED <<stage, freezes, pending, delivered, finalized, authorized, observed,
                     closures, terminal, log, issue, acquired, attempted, seen, pushed>>
  BY DEF StartCleanup, ledgerVars, groupVars, closureVars, remoteVars
<1> USE DEF Inv
<1>3. Shapes' /\ Fresh' /\ Apart' /\ Ended' /\ Delivering'
  BY <1>2 DEF Shapes, Fresh, Apart, Ended, Delivering, DeliverPcs, CleanPcs
<1>4. Cleaning'
  BY <1>2 DEF Cleaning
<1>5. Made'
  BY <1>1, <1>2 DEF Made
<1>6. PushedOnceOnBase' /\ PushesStayFrozen'
  BY <1>1, <1>2 DEF PushedOnceOnBase, PushesStayFrozen
<1>7. ClosedWithEvidence' /\ TerminalIsComplete'
  BY <1>1, <1>2 DEF ClosedWithEvidence, TerminalIsComplete, IsOpen
<1>8. QED
  BY <1>3, <1>4, <1>5, <1>6, <1>7

LEMMA CleanResourcesKeeps ==
    ASSUME Inv, CleanResources
    PROVE  Inv'
<1>1. \A h, r : Pushed(h, r)' <=> Pushed(h, r)
  BY LogStays DEF CleanResources, remoteVars
<1>2. /\ pc = "clean" /\ pc' = "authorize" /\ task' = task /\ ~terminal
      /\ finalized' = finalized \cup {task}
      /\ UNCHANGED <<stage, freezes, pending, delivered, authorized, observed,
                     closures, terminal, log, issue, acquired, attempted, seen, pushed>>
  BY DEF CleanResources, Continue, groupVars, remoteVars, Inv, Ended
<1> USE DEF Inv
<1>3. Shapes' /\ Fresh' /\ Apart' /\ Ended' /\ Delivering'
  BY <1>2 DEF Shapes, Fresh, Apart, Ended, Delivering, DeliverPcs, CleanPcs
<1>4. Cleaning'
  BY <1>2 DEF Cleaning, CleanPcs
<1>5. Made'
  BY <1>1, <1>2 DEF Made
<1>6. PushedOnceOnBase' /\ PushesStayFrozen'
  BY <1>1, <1>2 DEF PushedOnceOnBase, PushesStayFrozen
<1>7. ClosedWithEvidence' /\ TerminalIsComplete'
  BY <1>1, <1>2 DEF ClosedWithEvidence, TerminalIsComplete, IsOpen
<1>8. QED
  BY <1>3, <1>4, <1>5, <1>6, <1>7

LEMMA AuthorizeKeeps ==
    ASSUME Inv, Authorizes
    PROVE  Inv'
<1>1. \A h, r : Pushed(h, r)' <=> Pushed(h, r)
  BY LogStays DEF Authorizes
<1>2. /\ pc = "authorize" /\ pc' = "close" /\ task' = task /\ ~terminal
      /\ UNCHANGED <<stage, freezes, pending, delivered, finalized, observed,
                     closures, terminal, log, issue, acquired, attempted, seen, pushed>>
  BY DEF Authorizes, groupVars, Inv, Ended
<1>3. DOMAIN authorized' = DOMAIN authorized \cup {task}
  BY DEF Authorizes, With
<1>4. task \in Nodes /\ task \in finalized /\ task \notin DOMAIN observed \cup closures
  BY <1>2 DEF Inv, Cleaning, CleanPcs
<1> USE DEF Inv
<1>5. Shapes' /\ Fresh' /\ Apart' /\ Ended' /\ Delivering'
  BY <1>2, <1>3, <1>4 DEF Shapes, Fresh, Apart, Ended, Delivering, DeliverPcs, CleanPcs
<1>6. Cleaning'
  BY <1>2, <1>3 DEF Cleaning, CleanPcs
<1>7. Made'
  BY <1>1, <1>2 DEF Made
<1>8. PushedOnceOnBase' /\ PushesStayFrozen'
  BY <1>1, <1>2 DEF PushedOnceOnBase, PushesStayFrozen
<1>9. ClosedWithEvidence' /\ TerminalIsComplete'
  BY <1>1, <1>2, <1>3 DEF ClosedWithEvidence, TerminalIsComplete, IsOpen
<1>10. QED
  BY <1>5, <1>6, <1>7, <1>8, <1>9

LEMMA CloseKeeps ==
    ASSUME Inv, Closes
    PROVE  Inv'
<1>1. \A h, r : Pushed(h, r)' <=> Pushed(h, r)
  BY LogStays DEF Closes
<1>2. /\ pc = "close" /\ pc' = "record closure" /\ task' = task /\ ~terminal
      /\ issue' = IF IsOpen(task) THEN [issue EXCEPT ![task] = "closed"] ELSE issue
      /\ UNCHANGED <<stage, freezes, pending, delivered, finalized, authorized, observed,
                     closures, terminal, log, acquired, attempted, seen, pushed>>
  BY DEF Closes, ledgerVars, groupVars, closureVars, Inv, Ended
<1>3. /\ task \in Nodes /\ task \in finalized /\ task \in DOMAIN authorized
      /\ stage[task] # "ready"
  BY <1>2 DEF Inv, Cleaning, CleanPcs
<1>4. \A r \in Legs(GroupOf[task]) : Pushed(GroupOf[task], r)
  BY <1>3 DEF Inv, Made
<1>5. /\ issue' \in [Nodes -> {"open", "closed", "closed by others"}]
      /\ \A n \in Nodes : n # task => issue'[n] = issue[n]
      /\ \A n \in Nodes : issue[n] # "open" => issue'[n] # "open"
  BY <1>2, <1>3 DEF Inv, Shapes, IsOpen
<1> USE DEF Inv
<1>6. Shapes' /\ Fresh' /\ Apart' /\ Ended' /\ Delivering'
  BY <1>2, <1>5 DEF Shapes, Fresh, Apart, Ended, Delivering, DeliverPcs, CleanPcs
<1>7. Cleaning'
  BY <1>2 DEF Cleaning, CleanPcs
<1>8. Made'
  BY <1>1, <1>2 DEF Made
<1>9. PushedOnceOnBase' /\ PushesStayFrozen'
  BY <1>1, <1>2 DEF PushedOnceOnBase, PushesStayFrozen
<1>10. ClosedWithEvidence' /\ TerminalIsComplete'
  BY <1>1, <1>2, <1>3, <1>4, <1>5 DEF ClosedWithEvidence, TerminalIsComplete, IsOpen
<1>11. QED
  BY <1>6, <1>7, <1>8, <1>9, <1>10

LEMMA RecordClosureKeeps ==
    ASSUME Inv, RecordsClosure
    PROVE  Inv'
<1>1. \A h, r : Pushed(h, r)' <=> Pushed(h, r)
  BY LogStays DEF RecordsClosure
<1>2. /\ pc = "record closure" /\ pc' = "reobserve issue" /\ task' = task /\ ~terminal
      /\ ~IsOpen(task)
      /\ UNCHANGED <<stage, freezes, pending, delivered, finalized, closures, terminal, log,
                     issue, acquired, attempted, seen, pushed>>
  BY DEF RecordsClosure, groupVars, Inv, Ended
<1>3. DOMAIN authorized' = DOMAIN authorized \ {task}
  BY WithoutOne DEF RecordsClosure
<1>4. /\ DOMAIN observed' = DOMAIN observed \cup {task}
      /\ observed'[task] = Snapshot(task)
      /\ \A n \in DOMAIN observed : n # task => observed'[n] = observed[n]
  BY DEF RecordsClosure, With
<1>5. Snapshot(task).issue # "open"
  BY <1>2 DEF Snapshot, IsOpen
<1>6. task \in Nodes /\ task \notin DOMAIN observed \cup closures
  BY <1>2 DEF Inv, Cleaning, CleanPcs
<1> USE DEF Inv
<1>7. Shapes' /\ Fresh' /\ Ended' /\ Delivering'
  BY <1>2, <1>3, <1>4, <1>6 DEF Shapes, Fresh, Ended, Delivering, DeliverPcs, CleanPcs
<1>8. Apart'
  BY <1>2, <1>3, <1>4, <1>6 DEF Apart
<1>9. Cleaning'
  BY <1>2, <1>4 DEF Cleaning, CleanPcs
<1>10. Made'
  BY <1>1, <1>2, <1>4, <1>5 DEF Made
<1>11. PushedOnceOnBase' /\ PushesStayFrozen'
  BY <1>1, <1>2 DEF PushedOnceOnBase, PushesStayFrozen
<1>12. ClosedWithEvidence' /\ TerminalIsComplete'
  BY <1>1, <1>2, <1>3, <1>4 DEF ClosedWithEvidence, TerminalIsComplete, IsOpen
<1>13. QED
  BY <1>7, <1>8, <1>9, <1>10, <1>11, <1>12

LEMMA ConfirmClosureKeeps ==
    ASSUME Inv, ConfirmsClosure
    PROVE  Inv'
<1>1. \A h, r : Pushed(h, r)' <=> Pushed(h, r)
  BY LogStays DEF ConfirmsClosure
<1>2. /\ pc = "reobserve issue" /\ pc' = "complete closure" /\ task' = task /\ ~terminal
      /\ stage' = [stage EXCEPT ![task] = "closed"]
      /\ UNCHANGED <<freezes, pending, delivered, finalized, authorized, observed, closures,
                     terminal, log, issue, acquired, attempted, seen, pushed>>
  BY DEF ConfirmsClosure, groupVars, closureVars, Inv, Ended
<1>3. task \in Nodes /\ task \in DOMAIN observed /\ stage[task] # "ready"
  BY <1>2 DEF Inv, Cleaning, CleanPcs
<1>4. ~IsOpen(task)
  <2>1. observed[task].issue # "open"
    BY <1>3 DEF Inv, Made
  <2>2. observed[task] = Snapshot(task)
    BY DEF ConfirmsClosure
  <2>3. Snapshot(task).issue = issue[task]
    BY DEF Snapshot
  <2>4. QED
    BY <2>1, <2>2, <2>3 DEF IsOpen
<1> USE DEF Inv
<1>5. /\ stage' \in [Nodes -> {"ready", "cleaning", "closed"}]
      /\ stage'[task] = "closed"
      /\ \A n \in Nodes : n # task => stage'[n] = stage[n]
  BY <1>2, <1>3 DEF Shapes
<1>6. Shapes' /\ Fresh' /\ Apart' /\ Ended' /\ Delivering' /\ Cleaning'
  BY <1>2, <1>3, <1>5
     DEF Shapes, Fresh, Apart, Ended, Delivering, Cleaning, DeliverPcs, CleanPcs
<1>7. Made'
  BY <1>1, <1>2, <1>3, <1>5 DEF Made
<1>8. PushedOnceOnBase' /\ PushesStayFrozen'
  BY <1>1, <1>2 DEF PushedOnceOnBase, PushesStayFrozen
<1>9. ClosedWithEvidence' /\ TerminalIsComplete'
  BY <1>1, <1>2, <1>3, <1>4, <1>5 DEF ClosedWithEvidence, TerminalIsComplete, IsOpen
<1>10. QED
  BY <1>6, <1>7, <1>8, <1>9

LEMMA CompleteClosureKeeps ==
    ASSUME Inv, CompleteClosure
    PROVE  Inv'
<1>1. \A h, r : Pushed(h, r)' <=> Pushed(h, r)
  BY LogStays DEF CompleteClosure, remoteVars
<1>2. /\ pc = "complete closure" /\ Forget /\ ~terminal
      /\ closures' = closures \cup {task}
      /\ UNCHANGED <<stage, freezes, pending, delivered, finalized, authorized, terminal, log,
                     issue>>
  BY DEF CompleteClosure, groupVars, remoteVars, Inv, Ended
<1>3. /\ DOMAIN observed' = DOMAIN observed \ {task}
      /\ \A n \in DOMAIN observed : n # task => observed'[n] = observed[n]
  BY WithoutOne DEF CompleteClosure
<1>4. task \in DOMAIN observed
  BY <1>2 DEF Inv, Cleaning, CleanPcs
<1> USE DEF Inv
<1>5. Shapes' /\ Fresh' /\ Ended' /\ Delivering' /\ Cleaning'
  BY <1>2, <1>3
     DEF Shapes, Fresh, Ended, Delivering, Cleaning, DeliverPcs, CleanPcs, Forget
<1>6. Apart'
  BY <1>2, <1>3, <1>4 DEF Apart
<1>7. Made'
  BY <1>1, <1>2, <1>3 DEF Made
<1>8. PushedOnceOnBase' /\ PushesStayFrozen'
  BY <1>1, <1>2 DEF PushedOnceOnBase, PushesStayFrozen
<1>9. ClosedWithEvidence' /\ TerminalIsComplete'
  BY <1>1, <1>2, <1>3 DEF ClosedWithEvidence, TerminalIsComplete, IsOpen
<1>10. QED
  BY <1>5, <1>6, <1>7, <1>8, <1>9

(* The finalizer ends a run whose control chains are complete. *)
LEMMA TerminalizeKeeps ==
    ASSUME Inv, Terminalize
    PROVE  Inv'
<1>1. \A h, r : Pushed(h, r)' <=> Pushed(h, r)
  BY LogStays DEF Terminalize, remoteVars
<1>2. /\ pc = "idle" /\ terminal'
      /\ \A n \in Nodes : stage[n] = "closed" /\ GroupOf[n] \in delivered /\ n \in closures
      /\ UNCHANGED <<stage, freezes, pending, delivered, finalized, authorized, observed,
                     closures, log, issue, pc, task, acquired, attempted, seen, pushed>>
  BY DEF Terminalize, HasControlChain, groupVars, closureVars, remoteVars, memoryVars
<1> USE DEF Inv
<1>3. Shapes' /\ Fresh' /\ Apart' /\ Ended' /\ Delivering' /\ Cleaning'
  BY <1>2 DEF Shapes, Fresh, Apart, Ended, Delivering, Cleaning, DeliverPcs, CleanPcs
<1>4. Made'
  BY <1>1, <1>2 DEF Made
<1>5. PushedOnceOnBase' /\ PushesStayFrozen'
  BY <1>1, <1>2 DEF PushedOnceOnBase, PushesStayFrozen
<1>6. ClosedWithEvidence'
  BY <1>1, <1>2 DEF ClosedWithEvidence, IsOpen
<1>7. TerminalIsComplete'
  <2>1. \A g \in Groups : g \in delivered
    BY <1>2, GroupAssumption
  <2>2. \A g \in Groups : \A r \in Legs(g) : Pushed(g, r)
    BY <2>1 DEF Made
  <2>3. DOMAIN pending = {} /\ DOMAIN authorized = {} /\ DOMAIN observed = {}
    BY <1>2, <2>1 DEF Shapes, Apart
  <2>4. \A n \in Nodes : ~IsOpen(n)
    BY <1>2 DEF ClosedWithEvidence
  <2>5. QED
    BY <1>1, <1>2, <2>2, <2>3, <2>4 DEF TerminalIsComplete, IsOpen
<1>8. QED
  BY <1>3, <1>4, <1>5, <1>6, <1>7

-----------------------------------------------------------------------------
(* The invariant holds, and with it the properties of the runs. *)

LEMMA InvInit == Init => Inv
<1> SUFFICES ASSUME Init PROVE Inv
  OBVIOUS
<1>1. \A r \in Repositories : log[r] = <<>> /\ DOMAIN log[r] = {}
  BY DEF Init, BaseSha
<1>2. \A g \in Groups : Legs(g) \subseteq Repositories
  BY LegFacts
<1>3. \A g \in Groups : \A r \in Legs(g) : ~Pushed(g, r)
  BY <1>1, <1>2 DEF Pushed
<1>4. /\ DOMAIN pending = {} /\ DOMAIN authorized = {} /\ DOMAIN observed = {}
      /\ pc = "idle"
  BY DEF Init
<1>5. Shapes
  <2>1. log \in [Repositories -> Branch]
    BY DEF Init, BaseSha, Branch
  <2>2. QED
    BY <1>4, <2>1 DEF Init, Shapes
<1>6. Fresh /\ Delivering /\ Cleaning /\ Apart /\ Ended
  BY <1>4 DEF Init, Fresh, Delivering, Cleaning, Apart, Ended, DeliverPcs, CleanPcs
<1>7. Made
  BY <1>4 DEF Init, Made
<1>8. PushedOnceOnBase /\ PushesStayFrozen
  BY <1>1, <1>3 DEF PushedOnceOnBase, PushesStayFrozen
<1>9. ClosedWithEvidence /\ TerminalIsComplete
  BY DEF Init, ClosedWithEvidence, TerminalIsComplete
<1>10. QED
  BY <1>5, <1>6, <1>7, <1>8, <1>9 DEF Inv

LEMMA InvNext == Inv /\ [Next]_vars => Inv'
<1> SUFFICES ASSUME Inv, Kinds PROVE Inv'
  BY StepKinds
<1>1. CASE DeliverySteps
  BY <1>1, StartDeliveryKeeps, ObserveKeeps, PushKeeps, ConfirmKeeps, RecordEffectKeeps,
     ReobserveKeeps, RecordMemberKeeps, CompleteEffectKeeps, ReleaseFreezeKeeps
     DEF DeliverySteps
<1>2. CASE CleanupSteps
  BY <1>2, StartCleanupKeeps, CleanResourcesKeeps, AuthorizeKeeps, CloseKeeps,
     RecordClosureKeeps, ConfirmClosureKeeps, CompleteClosureKeeps DEF CleanupSteps
<1>3. QED
  BY <1>1, <1>2, StayKeeps, StopKeeps, ForeignPushKeeps, ForeignCloseKeeps, TerminalizeKeeps
     DEF Kinds

LEMMA InvAlways == Spec => []Inv
<1>1. QED
  BY InvInit, InvNext, PTL DEF Spec

(* Whatever is interrupted and retried, a push is made once, on the base. *)
THEOREM PushedOnce == Spec => []PushedOnceOnBase
<1>1. Inv => PushedOnceOnBase
  BY DEF Inv
<1>2. QED
  BY <1>1, InvAlways, PTL

(* A group that changed a remote is frozen until its delivery is complete. *)
THEOREM FrozenUntilDelivered == Spec => []PushesStayFrozen
<1>1. Inv => PushesStayFrozen
  BY DEF Inv
<1>2. QED
  BY <1>1, InvAlways, PTL

(* The run closes an issue after all pushes of its group and the cleanup of*)
(* its node, and records every close.                                      *)
THEOREM ClosesWithEvidence == Spec => []ClosedWithEvidence
<1>1. Inv => ClosedWithEvidence
  BY DEF Inv
<1>2. QED
  BY <1>1, InvAlways, PTL

(* A terminal run has delivered every group and left no effect pending. *)
THEOREM EndIsComplete == Spec => []TerminalIsComplete
<1>1. Inv => TerminalIsComplete
  BY DEF Inv
<1>2. QED
  BY <1>1, InvAlways, PTL

-----------------------------------------------------------------------------
(* Type correctness, in the parts a step can disturb. *)

LedgerTypes ==
    /\ freezes \subseteq Groups
    /\ \A g \in DOMAIN pending : pending[g] \in [Legs(g) -> Snapshots]
    /\ finalized \subseteq Nodes /\ closures \subseteq Nodes
    /\ \A n \in DOMAIN observed : observed[n] \in Snapshots

MemoryTypes ==
    /\ task \in Groups \cup Nodes \cup {0}
    /\ DOMAIN seen \subseteq Repositories /\ pushed \subseteq DOMAIN seen

Authorization == [by : 1 .. MaxTakeovers + 1, live : BOOLEAN, snapshot : Snapshots]
AuthorizationTypes == \A n \in DOMAIN authorized : authorized[n] \in Authorization

WorldTypes ==
    /\ {terminal, acquired, attempted, strayed} \subseteq BOOLEAN
    /\ invocation \in 1 .. MaxTakeovers + 1
    /\ foreign \in 0 .. MaxForeign /\ faults \in 0 .. MaxFaults

LEMMA TypeParts ==
    ASSUME Inv
    PROVE  TypeOK <=> LedgerTypes /\ MemoryTypes /\ AuthorizationTypes /\ WorldTypes
BY DEF Inv, Shapes, Made, TypeOK, LedgerTypes, MemoryTypes, AuthorizationTypes, Authorization,
       WorldTypes

LEMMA SnapshotType ==
    ASSUME Shapes, NEW n \in Nodes
    PROVE  Snapshot(n) \in Snapshots
<1>1. RepositoryOf[n] \in Repositories
  BY GroupAssumption
<1>2. log[RepositoryOf[n]] \in Branch /\ issue[n] \in {"open", "closed", "closed by others"}
  BY <1>1 DEF Shapes
<1>3. QED
  BY <1>2 DEF Snapshot, Snapshots

LEMMA LedgerTypesNext ==
    ASSUME Inv, LedgerTypes, Kinds
    PROVE  LedgerTypes'
<1> USE DEF LedgerTypes
<1>1. CASE Stays \/ Stops
  BY <1>1 DEF Stays, Stops, groupVars, closureVars
<1>2. CASE (\E r \in Repositories : ForeignPush(r)) \/ (\E n \in Nodes : ForeignClose(n))
  BY <1>2 DEF ForeignPush, ForeignClose, ledgerVars, groupVars, closureVars
<1>3. CASE Terminalize
  BY <1>3 DEF Terminalize, groupVars, closureVars
<1>4. CASE StartDelivery
  <2>1. OfferedGroups \in SUBSET Nat /\ OfferedGroups # {}
    BY <1>4, GroupAssumption DEF StartDelivery, OfferedGroups
  <2>2. Least(OfferedGroups) \in Groups
    BY <2>1, LeastIn DEF OfferedGroups
  <2>3. QED
    BY <1>4, <2>2 DEF StartDelivery, closureVars
<1>5. CASE \E r : Observes(r) \/ Pushes(r) \/ Confirms(r)
  BY <1>5 DEF Observes, Pushes, Confirms, ledgerVars, groupVars, closureVars
<1>6. CASE RecordEffect
  <2>1. PICK g \in Groups : task = g /\ Remembers(g)
    BY <1>6 DEF Inv, Delivering, RecordEffect, DeliverPcs
  <2>2. \A r \in Legs(g) : seen[r] \in Snapshots /\ seen[r].head = <<>>
    BY <1>6, <2>1 DEF Remembers, RecordEffect, BaseSha
  <2>3. \A r \in Legs(g) : Expected(r) \in Snapshots
    <3>1. Append(<<>>, g) \in Branch
      BY DEF Branch
    <3>2. QED
      BY <2>1, <2>2, <3>1 DEF Expected, Snapshots
  <2>4. pending' = With(pending, g, [r \in Legs(g) |-> Expected(r)])
    BY <1>6, <2>1 DEF RecordEffect
  <2>5. /\ DOMAIN pending' = DOMAIN pending \cup {g}
        /\ pending'[g] = [r \in Legs(g) |-> Expected(r)]
        /\ \A h \in DOMAIN pending : h # g => pending'[h] = pending[h]
    BY <2>4 DEF With
  <2>6. [r \in Legs(g) |-> Expected(r)] \in [Legs(g) -> Snapshots]
    BY <2>3
  <2>7. \A h \in DOMAIN pending' : pending'[h] \in [Legs(h) -> Snapshots]
    BY <2>5, <2>6
  <2>8. QED
    BY <1>6, <2>7 DEF RecordEffect, closureVars
<1>7. CASE Reobserves \/ RecordMember \/ ReleaseFreeze
  BY <1>7 DEF Reobserves, RecordMember, ReleaseFreeze, ledgerVars, groupVars, closureVars
<1>8. CASE CompleteEffect
  <2>1. /\ DOMAIN pending' = DOMAIN pending \ {task}
        /\ \A h \in DOMAIN pending : h # task => pending'[h] = pending[h]
    BY <1>8, WithoutOne DEF CompleteEffect
  <2>2. QED
    BY <1>8, <2>1 DEF CompleteEffect, closureVars
<1>9. CASE (\E n \in Nodes : StartCleanup(n)) \/ Authorizes \/ Closes \/ ConfirmsClosure
  BY <1>9 DEF StartCleanup, Authorizes, Closes, ConfirmsClosure, ledgerVars, groupVars, closureVars
<1>10. CASE CleanResources
  BY <1>10 DEF CleanResources, groupVars, Inv, Cleaning, CleanPcs
<1>11. CASE RecordsClosure
  <2>1. task \in Nodes
    BY <1>11 DEF RecordsClosure, Inv, Cleaning, CleanPcs
  <2>2. Snapshot(task) \in Snapshots
    BY <2>1, SnapshotType DEF Inv
  <2>3. /\ DOMAIN observed' = DOMAIN observed \cup {task}
        /\ observed'[task] = Snapshot(task)
        /\ \A n \in DOMAIN observed : n # task => observed'[n] = observed[n]
    BY <1>11 DEF RecordsClosure, With
  <2>4. QED
    BY <1>11, <2>2, <2>3 DEF RecordsClosure, groupVars
<1>12. CASE CompleteClosure
  <2>1. /\ DOMAIN observed' = DOMAIN observed \ {task}
        /\ \A n \in DOMAIN observed : n # task => observed'[n] = observed[n]
    BY <1>12, WithoutOne DEF CompleteClosure
  <2>2. QED
    BY <1>12, <2>1 DEF CompleteClosure, groupVars, Inv, Cleaning, CleanPcs
<1>13. QED
  BY <1>1, <1>2, <1>3, <1>4, <1>5, <1>6, <1>7, <1>8, <1>9, <1>10, <1>11, <1>12
     DEF Kinds, DeliverySteps, CleanupSteps

LEMMA MemoryTypesNext ==
    ASSUME Inv, MemoryTypes, Kinds
    PROVE  MemoryTypes'
<1> USE DEF MemoryTypes
<1>1. CASE Stays \/ Stops
  BY <1>1 DEF Stays, Stops, Forget, memoryVars
<1>2. CASE (\E r \in Repositories : ForeignPush(r)) \/ (\E n \in Nodes : ForeignClose(n))
  BY <1>2 DEF ForeignPush, ForeignClose, memoryVars
<1>3. CASE Terminalize
  BY <1>3 DEF Terminalize, memoryVars
<1>4. CASE StartDelivery
  <2>1. OfferedGroups \in SUBSET Nat /\ OfferedGroups # {}
    BY <1>4, GroupAssumption DEF StartDelivery, OfferedGroups
  <2>2. Least(OfferedGroups) \in Groups
    BY <2>1, LeastIn DEF OfferedGroups
  <2>3. QED
    BY <1>4, <2>2 DEF StartDelivery
<1>5. ASSUME NEW r, Observes(r) \/ Pushes(r) \/ Confirms(r)
      PROVE  MemoryTypes'
  <2>1. PICK g \in Groups : task = g /\ Remembers(g)
    BY <1>5 DEF Inv, Delivering, Observes, Pushes, Confirms, DeliverPcs
  <2>2. CASE Observes(r)
    <3>1. Legs(g) \ DOMAIN seen \in SUBSET Nat /\ Legs(g) \ DOMAIN seen # {}
      BY <2>1, <2>2, LegFacts DEF Remembers, Observes
    <3>2. r \in Legs(g)
      BY <2>1, <2>2, <3>1, LeastIn DEF Observes
    <3>3. DOMAIN seen' = DOMAIN seen \cup {r}
      BY <2>2 DEF Observes, With
    <3>4. QED
      BY <2>2, <3>2, <3>3, LegFacts DEF Observes
  <2>3. CASE Pushes(r)
    BY <2>3 DEF Pushes
  <2>4. CASE Confirms(r)
    <3>1. Legs(g) \ pushed \in SUBSET Nat /\ Legs(g) \ pushed # {}
      BY <2>1, <2>4, LegFacts DEF Remembers, Confirms
    <3>2. r \in Legs(g)
      BY <2>1, <2>4, <3>1, LeastIn DEF Confirms
    <3>3. DOMAIN seen = Legs(g)
      BY <2>1, <2>4 DEF Confirms, Remembers
    <3>4. QED
      BY <2>4, <3>2, <3>3 DEF Confirms
  <2>5. QED
    BY <1>5, <2>2, <2>3, <2>4
<1>6. CASE RecordEffect \/ Reobserves \/ RecordMember \/ CompleteEffect
  BY <1>6 DEF RecordEffect, Reobserves, RecordMember, CompleteEffect, Continue
<1>7. CASE ReleaseFreeze \/ CompleteClosure
  <2>1. task' = 0 /\ seen' = <<>> /\ pushed' = {}
    BY <1>7 DEF ReleaseFreeze, CompleteClosure, Forget
  <2>2. QED
    BY <2>1
<1>8. CASE (\E n \in Nodes : StartCleanup(n)) \/ CleanResources \/ Authorizes \/ Closes
           \/ RecordsClosure \/ ConfirmsClosure
  BY <1>8 DEF StartCleanup, CleanResources, Authorizes, Closes, RecordsClosure,
              ConfirmsClosure, Continue
<1>9. QED
  BY <1>1, <1>2, <1>3, <1>4, <1>5, <1>6, <1>7, <1>8 DEF Kinds, DeliverySteps, CleanupSteps

LEMMA AuthorizationTypesNext ==
    ASSUME Inv, AuthorizationTypes, WorldTypes, [Next]_vars
    PROVE  AuthorizationTypes'
<1> USE DEF AuthorizationTypes
<1>1. CASE UNCHANGED authorized
  BY <1>1
<1>2. CASE AuthorizeClosure /\ authorized' # authorized
  <2>1. task \in Nodes
    BY <1>2 DEF AuthorizeClosure, Inv, Cleaning, CleanPcs
  <2>2. Snapshot(task) \in Snapshots
    BY <2>1, SnapshotType DEF Inv
  <2>3. [by |-> invocation, live |-> TRUE, snapshot |-> Snapshot(task)] \in Authorization
    BY <2>2 DEF Authorization, WorldTypes
  <2>4. authorized' = With(authorized, task, [by |-> invocation, live |-> TRUE,
                                              snapshot |-> Snapshot(task)])
    BY <1>2 DEF AuthorizeClosure, Rejects, Throw, closureVars
  <2>5. /\ DOMAIN authorized' = DOMAIN authorized \cup {task}
        /\ authorized'[task] \in Authorization
        /\ \A n \in DOMAIN authorized : n # task => authorized'[n] = authorized[n]
    BY <2>3, <2>4 DEF With
  <2>6. QED
    BY <2>5
<1>3. CASE RecordClosure /\ authorized' # authorized
  <2>1. authorized' = Without(authorized, task)
    BY <1>3 DEF RecordClosure, Rejects, Throw, closureVars
  <2>2. /\ DOMAIN authorized' = DOMAIN authorized \ {task}
        /\ \A n \in DOMAIN authorized : n # task => authorized'[n] = authorized[n]
    BY <2>1, WithoutOne
  <2>3. QED
    BY <2>2
<1>4. ASSUME NEW n \in Nodes, AuthorizationExpires(n)
      PROVE  AuthorizationTypes'
  <2>1. /\ DOMAIN authorized' = DOMAIN authorized
        /\ n \in DOMAIN authorized
        /\ authorized'[n] = [authorized[n] EXCEPT !.live = FALSE]
        /\ \A m \in DOMAIN authorized : m # n => authorized'[m] = authorized[m]
    BY <1>4 DEF AuthorizationExpires
  <2>2. ASSUME NEW a \in Authorization
        PROVE  [a EXCEPT !.live = FALSE] \in Authorization
    BY DEF Authorization
  <2>3. QED
    BY <2>1, <2>2
<1>5. AuthorizeClosure \/ RecordClosure \/ (\E n \in Nodes : AuthorizationExpires(n))
        \/ UNCHANGED authorized
  <2>1. StartDelivery \/ ObserveBase \/ Push \/ PushRefused \/ ConfirmPush => UNCHANGED authorized
    BY DEF StartDelivery, ObserveBase, Push, PushRefused, ConfirmPush, Rejects, Throw,
           ledgerVars, closureVars
  <2>2. RecordEffect \/ Reobserve \/ RecordMember \/ CompleteEffect \/ ReleaseFreeze
          => UNCHANGED authorized
    BY DEF RecordEffect, Reobserve, RecordMember, CompleteEffect, ReleaseFreeze, Rejects, Throw,
           ledgerVars, closureVars
  <2>3. (\E n \in Nodes : StartCleanup(n)) \/ CleanResources \/ CloseIssue \/ ConfirmClosure
          \/ CompleteClosure \/ Terminalize => UNCHANGED authorized
    BY DEF StartCleanup, CleanResources, CloseIssue, ConfirmClosure, CompleteClosure, Terminalize,
           Rejects, Throw, ledgerVars, closureVars
  <2>4. (\E r \in Repositories : ForeignPush(r)) \/ (\E n \in Nodes : ForeignClose(n))
          \/ AdapterFails \/ Killed \/ Takeover => UNCHANGED authorized
    BY DEF ForeignPush, ForeignClose, AdapterFails, Killed, Takeover, Throw, ledgerVars, closureVars
  <2>5. UNCHANGED vars => UNCHANGED authorized
    BY DEF vars, ledgerVars, closureVars
  <2>6. QED
    BY <2>1, <2>2, <2>3, <2>4, <2>5 DEF Next, Execution, Environment
<1>6. QED
  BY <1>1, <1>2, <1>3, <1>4, <1>5

LEMMA WorldTypesNext ==
    ASSUME WorldTypes, [Next]_vars
    PROVE  WorldTypes'
<1> USE FaultAssumption DEF WorldTypes, worldVars
<1>1. Rejects => WorldTypes'
  BY DEF Rejects, Throw, Forget, remoteVars
<1>2. StartDelivery => WorldTypes'
  BY DEF StartDelivery, remoteVars
<1>3. ObserveBase \/ ConfirmPush \/ Reobserve => WorldTypes'
  BY <1>1 DEF ObserveBase, ConfirmPush, Reobserve, Continue, ledgerVars, remoteVars
<1>4. Push => WorldTypes'
  BY DEF Push, ledgerVars
<1>5. PushRefused => WorldTypes'
  BY <1>1 DEF PushRefused
<1>6. RecordEffect \/ RecordMember \/ CompleteEffect => WorldTypes'
  BY DEF RecordEffect, RecordMember, CompleteEffect, Continue, remoteVars
<1>7. ReleaseFreeze \/ CompleteClosure => WorldTypes'
  BY DEF ReleaseFreeze, CompleteClosure, Forget, remoteVars
<1>8. (\E n \in Nodes : StartCleanup(n)) => WorldTypes'
  BY DEF StartCleanup, ledgerVars, remoteVars
<1>9. CleanResources => WorldTypes'
  BY DEF CleanResources, Continue, remoteVars
<1>10. AuthorizeClosure \/ RecordClosure \/ ConfirmClosure => WorldTypes'
  BY <1>1 DEF AuthorizeClosure, RecordClosure, ConfirmClosure, Continue, remoteVars
<1>11. CloseIssue => WorldTypes'
  BY <1>1 DEF CloseIssue, Continue, ledgerVars
<1>12. Terminalize => WorldTypes'
  BY DEF Terminalize, remoteVars, memoryVars
<1>13. ASSUME (\E r \in Repositories : ForeignPush(r)) \/ (\E n \in Nodes : ForeignClose(n))
       PROVE  WorldTypes'
  <2>1. foreign < MaxForeign /\ foreign' = foreign + 1 /\ strayed' = TRUE
        /\ UNCHANGED <<terminal, acquired, attempted, invocation, faults>>
    BY <1>13 DEF ForeignPush, ForeignClose, ledgerVars, memoryVars
  <2>2. QED
    BY <2>1
<1>14. ASSUME AdapterFails \/ Killed
       PROVE  WorldTypes'
  <2>1. faults < MaxFaults /\ faults' = faults + 1 /\ acquired' = FALSE /\ attempted' = FALSE
        /\ UNCHANGED <<terminal, invocation, foreign>>
    BY <1>14 DEF AdapterFails, Killed, Interrupt, Throw, Forget, ledgerVars, remoteVars
  <2>2. faults' \in 0 .. MaxFaults
    BY <2>1
  <2>3. strayed' \in BOOLEAN
    BY <1>14 DEF AdapterFails, Killed, Interrupt
  <2>4. {terminal', acquired', attempted', strayed'} \subseteq BOOLEAN
    BY <2>1, <2>3
  <2>5. QED
    BY <2>1, <2>2, <2>4
<1>15. ASSUME Takeover
       PROVE  WorldTypes'
  BY <1>15 DEF Takeover, ledgerVars, remoteVars, memoryVars
<1>16. ASSUME NEW n \in Nodes, AuthorizationExpires(n)
       PROVE  WorldTypes'
  BY <1>16 DEF AuthorizationExpires, remoteVars, memoryVars
<1>17. UNCHANGED vars => WorldTypes'
  BY DEF vars, ledgerVars, remoteVars, memoryVars
<1>18. QED
  BY <1>2, <1>3, <1>4, <1>5, <1>6, <1>7, <1>8, <1>9, <1>10, <1>11, <1>12, <1>13, <1>14, <1>15,
     <1>16, <1>17 DEF Next, Execution, Environment

(* Every variable keeps its type. *)
THEOREM TypeCorrect == Spec => []TypeOK
<1>1. Init => TypeOK
  <2>1. ASSUME Init PROVE TypeOK
    <3>1. DOMAIN pending = {} /\ DOMAIN authorized = {} /\ DOMAIN observed = {} /\ DOMAIN seen = {}
      BY <2>1 DEF Init
    <3>2. LedgerTypes /\ AuthorizationTypes
      BY <2>1, <3>1 DEF Init, LedgerTypes, AuthorizationTypes
    <3>3. MemoryTypes
      BY <2>1, <3>1 DEF Init, MemoryTypes
    <3>4. WorldTypes
      <4>1. {terminal, acquired, attempted, strayed} \subseteq BOOLEAN
        BY <2>1 DEF Init
      <4>2. invocation = 1 /\ foreign = 0 /\ faults = 0
        BY <2>1 DEF Init
      <4>3. QED
        BY <4>1, <4>2, FaultAssumption DEF WorldTypes
    <3>5. QED
      BY <2>1, <3>2, <3>3, <3>4, InvInit, TypeParts
  <2>2. QED
    BY <2>1
<1>2. Inv /\ Inv' /\ TypeOK /\ [Next]_vars => TypeOK'
  <2>1. ASSUME Inv, Inv', TypeOK, [Next]_vars PROVE TypeOK'
    <3>1. LedgerTypes /\ MemoryTypes /\ AuthorizationTypes /\ WorldTypes
      BY <2>1, TypeParts
    <3>2. LedgerTypes' /\ MemoryTypes'
      BY <2>1, <3>1, StepKinds, LedgerTypesNext, MemoryTypesNext
    <3>3. AuthorizationTypes' /\ WorldTypes'
      BY <2>1, <3>1, AuthorizationTypesNext, WorldTypesNext
    <3>4. (TypeOK <=> LedgerTypes /\ MemoryTypes /\ AuthorizationTypes /\ WorldTypes)'
      BY <2>1 DEF Inv, Shapes, Made, TypeOK, LedgerTypes, MemoryTypes, AuthorizationTypes,
                  Authorization, WorldTypes
    <3>5. QED
      BY <3>2, <3>3, <3>4
  <2>2. QED
    BY <2>1
<1>3. QED
  BY <1>1, <1>2, InvAlways, PTL DEF Spec


-----------------------------------------------------------------------------
(* Delivery and closure implement GroupDelivery. *)

Followed(g) == \A n \in Members(g) : stage[n] # "ready"

(* Groups are delivered in their order, and completed after their members. *)
Line ==
    /\ \A g \in delivered : Followed(g)
    /\ pc = "complete" => Followed(task)
    /\ pc \in DeliverPcs =>
        /\ \A n \in Members(task) : stage[n] # "closed"
        /\ \A h \in Groups : h < task => Followed(h)

(* Issues are cleaned up when no group waits, and closed after the cleanup.*)
Turn ==
    /\ pc \in CleanPcs \/ finalized # {} => \A n \in Nodes : stage[n] # "ready"
    /\ pc \in CleanPcs \ {"complete closure"} => stage[task] = "cleaning"
    /\ pc = "complete closure" => stage[task] = "closed"
    /\ DOMAIN observed \subseteq finalized
    /\ \A n \in Nodes : stage[n] = "closed" => n \in finalized
    /\ closures \subseteq Nodes
    /\ \A n \in closures : stage[n] = "closed"

(* A group that is not offered has nothing left that waits. *)
LEMMA NotOffered ==
    ASSUME Inv, Line, NEW g \in Groups, ~Offered(g)
    PROVE  Followed(g)
BY DEF Inv, Made, Line, Followed, Offered, Members, Shapes

LEMMA LineNext ==
    ASSUME Inv, Line, Kinds
    PROVE  Line'
<1> USE DEF Line, Followed, DeliverPcs
<1>1. CASE Stays
  BY <1>1 DEF Stays, groupVars, memoryVars
<1>2. CASE Stops
  BY <1>2 DEF Stops, Forget
<1>3. CASE (\E r \in Repositories : ForeignPush(r)) \/ (\E n \in Nodes : ForeignClose(n))
  BY <1>3 DEF ForeignPush, ForeignClose, ledgerVars, groupVars, memoryVars
<1>4. CASE Terminalize
  BY <1>4 DEF Terminalize, groupVars, memoryVars
<1>5. CASE StartDelivery
  <2>1. OfferedGroups \in SUBSET Nat /\ OfferedGroups # {}
    BY <1>5, GroupAssumption DEF StartDelivery, OfferedGroups
  <2>2. PICK g \in Groups : g = Least(OfferedGroups) /\ \A h \in OfferedGroups : g <= h
    BY <2>1, LeastIn DEF OfferedGroups
  <2>3. \A h \in Groups : h < g => Followed(h)
    BY <2>2, NotOffered, GroupAssumption DEF OfferedGroups
  <2>4. /\ task' = g /\ \A n \in Members(g) : stage[n] # "closed"
        /\ pc' \in {"reobserve", "observe"} /\ UNCHANGED <<stage, delivered>>
    BY <1>5, <2>2 DEF StartDelivery
  <2>5. QED
    BY <2>3, <2>4
<1>6. CASE \E r : Observes(r) \/ Pushes(r) \/ Confirms(r)
  BY <1>6 DEF Observes, Pushes, Confirms, ledgerVars, groupVars
<1>7. CASE RecordEffect \/ Reobserves
  BY <1>7 DEF RecordEffect, Reobserves, Continue, ledgerVars, groupVars
<1>8. CASE RecordMember
  <2>1. PICK g \in Groups : task = g /\ Remembers(g)
    BY <1>8 DEF Inv, Delivering, RecordMember
  <2>2. PICK n \in Unrecorded(g) : n = Least(Unrecorded(g))
    <3>1. Unrecorded(g) # {} /\ Unrecorded(g) \in SUBSET Nat
      BY <1>8, <2>1, GroupAssumption DEF RecordMember, Remembers, Unrecorded, Members
    <3>2. QED
      BY <3>1, LeastIn
  <2>3. n \in Nodes /\ n \in Members(g) /\ stage[n] # "cleaning"
    BY <2>2 DEF Unrecorded, Members
  <2>4. /\ stage' = [stage EXCEPT ![n] = "cleaning"] /\ task' = g
        /\ pc' = IF Cardinality(Unrecorded(g)) = 1 THEN "complete" ELSE pc
        /\ pc = "members" /\ UNCHANGED delivered
    BY <1>8, <2>1, <2>2 DEF RecordMember, Continue, groupVars
  <2>5. \A m \in Nodes : stage'[m] = IF m = n THEN "cleaning" ELSE stage[m]
    BY <2>3, <2>4 DEF Inv, Shapes
  <2>6. \A h : Members(h) \subseteq Nodes
    BY DEF Members
  <2>7. Cardinality(Unrecorded(g)) = 1 => \A m \in Members(g) : m = n \/ stage[m] = "cleaning"
    <3>1. IsFiniteSet(Unrecorded(g))
      BY GroupAssumption, FS_Subset DEF Unrecorded, Members
    <3>2. Cardinality(Unrecorded(g)) = 1 => Unrecorded(g) = {n}
      BY <2>2, <3>1, FS_Singleton
    <3>3. QED
      BY <3>2 DEF Unrecorded
  <2>8. (pc' = "complete") => \A m \in Members(g) : stage'[m] = "cleaning"
    BY <2>4, <2>5, <2>6, <2>7
  <2>9. QED
    BY <2>1, <2>4, <2>5, <2>6, <2>8
<1>9. CASE CompleteEffect
  BY <1>9 DEF CompleteEffect, Continue
<1>10. CASE ReleaseFreeze
  BY <1>10 DEF ReleaseFreeze, Forget
<1>11. CASE ConfirmsClosure
  <2>1. /\ pc' = "complete closure" /\ UNCHANGED delivered
        /\ stage' = [stage EXCEPT ![task] = "closed"]
    BY <1>11 DEF ConfirmsClosure, groupVars
  <2>2. \A n \in Nodes : stage[n] # "ready" => stage'[n] # "ready"
    BY <2>1 DEF Inv, Shapes
  <2>3. QED
    BY <2>1, <2>2 DEF Members
<1>12. CASE CleanupSteps /\ ~ConfirmsClosure
  <2>1. UNCHANGED <<stage, delivered>> /\ pc' \in {"idle"} \cup CleanPcs
    BY <1>12 DEF CleanupSteps, StartCleanup, CleanResources, Authorizes, Closes, RecordsClosure,
       CompleteClosure, Forget, ledgerVars, groupVars, CleanPcs
  <2>2. QED
    BY <2>1 DEF CleanPcs
<1>13. QED
  BY <1>1, <1>2, <1>3, <1>4, <1>5, <1>6, <1>7, <1>8, <1>9, <1>10, <1>11, <1>12
     DEF Kinds, DeliverySteps

LEMMA TurnNext ==
    ASSUME Inv, Line, Turn, Kinds
    PROVE  Turn'
<1> USE DEF Turn, CleanPcs
<1>1. CASE Stays
  BY <1>1 DEF Stays, memoryVars
<1>2. CASE Stops
  BY <1>2 DEF Stops, Forget, closureVars
<1>3. CASE (\E r \in Repositories : ForeignPush(r)) \/ (\E n \in Nodes : ForeignClose(n))
  BY <1>3 DEF ForeignPush, ForeignClose, ledgerVars, closureVars, memoryVars
<1>4. CASE Terminalize
  BY <1>4 DEF Terminalize, closureVars, memoryVars
<1>5. CASE DeliverySteps /\ ~RecordMember
  <2>1. /\ UNCHANGED <<stage, finalized, observed, closures>>
        /\ pc' \in {"idle"} \cup DeliverPcs
    BY <1>5 DEF DeliverySteps, StartDelivery, Observes, Pushes, Confirms, RecordEffect, Reobserves,
       CompleteEffect, ReleaseFreeze, Forget, ledgerVars, closureVars, DeliverPcs
  <2>2. QED
    BY <2>1 DEF DeliverPcs
<1>6. CASE RecordMember
  <2>1. PICK g \in Groups : task = g /\ Remembers(g)
    BY <1>6 DEF Inv, Delivering, RecordMember, DeliverPcs
  <2>2. PICK n \in Unrecorded(g) : n = Least(Unrecorded(g))
    <3>1. Unrecorded(g) # {} /\ Unrecorded(g) \in SUBSET Nat
      BY <1>6, <2>1, GroupAssumption DEF RecordMember, Remembers, Unrecorded, Members
    <3>2. QED
      BY <3>1, LeastIn
  <2>3. n \in Nodes /\ n \in Members(g)
    BY <2>2 DEF Unrecorded, Members
  <2>4. /\ stage' = [stage EXCEPT ![n] = "cleaning"]
        /\ pc' \in {"members", "complete"} /\ UNCHANGED <<finalized, observed, closures>>
    BY <1>6, <2>1, <2>2 DEF RecordMember, closureVars
  <2>5. stage[n] # "closed"
    BY <1>6, <2>1, <2>3 DEF Line, RecordMember, DeliverPcs
  <2>6. \A m \in Nodes : stage'[m] = IF m = n THEN "cleaning" ELSE stage[m]
    BY <2>3, <2>4 DEF Inv, Shapes
  <2>7. n \notin closures
    BY <2>5
  <2>8. \A m \in Nodes : /\ stage'[m] = "closed" => stage[m] = "closed"
                         /\ stage[m] # "ready" => stage'[m] # "ready"
    BY <2>6
  <2>9. \A m \in closures : stage'[m] = "closed"
    BY <2>6, <2>7
  <2>10. QED
    BY <2>4, <2>8, <2>9
<1>7. CASE \E n \in Nodes : StartCleanup(n)
  <2>1. PICK n \in Nodes : StartCleanup(n)
    BY <1>7
  <2>2. \A m \in Nodes : stage[m] # "ready"
    <3>1. \A g \in Groups : Followed(g)
      BY <2>1, NotOffered DEF StartCleanup, OfferedGroups
    <3>2. QED
      BY <3>1, GroupAssumption DEF Followed, Members
  <2>3. /\ task' = n /\ stage[n] = "cleaning"
        /\ pc' \in {"reobserve issue", "clean", "authorize", "close"}
        /\ UNCHANGED <<stage, finalized, observed, closures>>
    BY <2>1 DEF StartCleanup, ledgerVars, closureVars
  <2>4. QED
    BY <2>2, <2>3
<1>8. CASE CleanResources
  BY <1>8 DEF CleanResources, Continue
<1>9. CASE Authorizes
  BY <1>9 DEF Authorizes
<1>10. CASE Closes
  BY <1>10 DEF Closes, ledgerVars, closureVars
<1>11. CASE RecordsClosure
  <2>1. task \in finalized
    BY <1>11 DEF RecordsClosure, Inv, Cleaning
  <2>2. DOMAIN observed' = DOMAIN observed \cup {task}
    BY <1>11 DEF RecordsClosure, With
  <2>3. QED
    BY <1>11, <2>1, <2>2 DEF RecordsClosure
<1>12. CASE ConfirmsClosure
  <2>1. /\ pc = "reobserve issue" /\ pc' = "complete closure" /\ task' = task
        /\ stage' = [stage EXCEPT ![task] = "closed"]
        /\ UNCHANGED <<finalized, observed, closures>>
    BY <1>12 DEF ConfirmsClosure, closureVars
  <2>2. task \in Nodes /\ task \in DOMAIN observed
    BY <2>1 DEF Inv, Cleaning
  <2>3. \A m \in Nodes : stage'[m] = IF m = task THEN "closed" ELSE stage[m]
    BY <2>1, <2>2 DEF Inv, Shapes
  <2>4. /\ \A m \in Nodes : stage'[m] # "ready"
        /\ \A m \in Nodes : stage'[m] = "closed" => m \in finalized
        /\ \A m \in closures : stage'[m] = "closed"
        /\ stage'[task] = "closed"
    <3>1. \A m \in Nodes : stage[m] # "ready"
      BY <2>1
    <3>2. task \in finalized
      BY <2>2
    <3>3. \A m \in closures : m \in Nodes /\ stage[m] = "closed"
      OBVIOUS
    <3>4. \A m \in Nodes : stage[m] = "closed" => m \in finalized
      OBVIOUS
    <3> HIDE DEF Turn
    <3>5. QED
      BY <2>2, <2>3, <3>1, <3>2, <3>3, <3>4
  <2>5. QED
    BY <2>1, <2>4
<1>13. CASE CompleteClosure
  <2>1. task \in Nodes /\ stage[task] = "closed"
    BY <1>13 DEF CompleteClosure, Inv, Cleaning
  <2>2. DOMAIN observed' = DOMAIN observed \ {task}
    BY <1>13, WithoutOne DEF CompleteClosure
  <2>3. /\ pc' = "idle" /\ closures' = closures \cup {task}
        /\ UNCHANGED <<stage, finalized>>
    BY <1>13 DEF CompleteClosure, Forget
  <2>4. QED
    BY <2>1, <2>2, <2>3
<1>14. QED
  BY <1>1, <1>2, <1>3, <1>4, <1>5, <1>6, <1>7, <1>8, <1>9, <1>10, <1>11, <1>12, <1>13
     DEF Kinds, CleanupSteps

FullInv == Inv /\ Line /\ Turn

LEMMA FullInvAlways == Spec => []FullInv
<1>1. Init => Line /\ Turn
  BY DEF Init, Line, Turn, Followed, DeliverPcs, CleanPcs
<1>2. FullInv /\ [Next]_vars => FullInv'
  BY InvNext, StepKinds, LineNext, TurnNext DEF FullInv
<1>3. QED
  BY <1>1, <1>2, InvInit, PTL DEF Spec, FullInv

(* The abstract state, and what it says of a step that leaves its parts. *)
LEMMA DeliveryView ==
    ASSUME FullInv
    PROVE  /\ \A g : Delivery!Members(g) = Members(g) /\ Delivery!Legs(g) = Legs(g)
           /\ \A g : Delivery!Waits(g) <=> ~Followed(g)
           /\ \A n \in Nodes : Lives[n] = LifeOf(n)
           /\ \A g \in Groups : Effects[g] = IF g \in delivered THEN "delivered"
                                ELSE IF g \in DOMAIN pending THEN "recorded" ELSE "none"
<1>1. \A g : Delivery!Members(g) = Members(g)
  BY DEF Delivery!Members, Members
<1>2. \A g : Delivery!Legs(g) = Legs(g)
  BY <1>1 DEF Delivery!Legs, Legs
<1>3. \A n \in Nodes : Lives[n] = LifeOf(n)
  BY DEF Lives
<1>4. \A n \in Nodes : LifeOf(n) = "ready" <=> stage[n] = "ready"
  BY DEF LifeOf, FullInv, Turn
<1>5. \A g : Delivery!Waits(g) <=> ~Followed(g)
  BY <1>1, <1>3, <1>4 DEF Delivery!Waits, Followed, Members
<1>6. QED
  BY <1>1, <1>2, <1>3, <1>5 DEF Effects

LEMMA EffectsKept ==
    ASSUME delivered' = delivered, DOMAIN pending' = DOMAIN pending
    PROVE  Effects' = Effects
BY DEF Effects

LEMMA LivesKept ==
    ASSUME UNCHANGED <<stage, finalized, closures>>
    PROVE  Lives' = Lives
BY DEF Lives, LifeOf

LEMMA EffectTurns ==
    ASSUME NEW g \in Groups, NEW to, Effects'[g] = to,
           \A h \in Groups : h # g => (h \in delivered' <=> h \in delivered)
                                   /\ (h \in DOMAIN pending' <=> h \in DOMAIN pending)
    PROVE  Effects' = [Effects EXCEPT ![g] = to]
<1>1. \A h \in Groups : h # g => Effects'[h] = Effects[h]
  BY DEF Effects
<1>2. /\ Effects = [h \in Groups |-> Effects[h]]
      /\ Effects' = [h \in Groups |-> Effects'[h]]
  BY DEF Effects
<1> HIDE DEF Effects
<1>3. QED
  BY <1>1, <1>2

LEMMA LifeGoes ==
    ASSUME NEW n \in Nodes, NEW to, LifeOf(n)' = to,
           \A m \in Nodes : m # n => LifeOf(m)' = LifeOf(m)
    PROVE  Lives' = [Lives EXCEPT ![n] = to]
<1>1. \A m \in Nodes : Lives'[m] = IF m = n THEN to ELSE Lives[m]
  BY DEF Lives
<1>2. Lives = [m \in Nodes |-> Lives[m]] /\ Lives' = [m \in Nodes |-> Lives'[m]]
  BY DEF Lives
<1>3. QED
  BY <1>1, <1>2

(* The steps that record nothing of what GroupDelivery sees. *)
LEMMA UnseenSteps ==
    ASSUME \/ Stays \/ Stops \/ StartDelivery \/ Reobserves \/ ReleaseFreeze
           \/ \E r : Observes(r) \/ Confirms(r)
           \/ \E n \in Nodes : StartCleanup(n)
           \/ Authorizes \/ RecordsClosure
    PROVE  UNCHANGED Delivery!vars
<1>1. /\ UNCHANGED <<stage, pending, delivered, finalized, closures, log, issue>>
      /\ terminal' = terminal
  BY DEF Stays, Stops, StartDelivery, Reobserves, ReleaseFreeze, Observes, Confirms,
     StartCleanup, Authorizes, RecordsClosure, ledgerVars, groupVars, closureVars, remoteVars
<1>2. QED
  BY <1>1, EffectsKept, LivesKept DEF Delivery!vars

LEMMA StrangerStep ==
    ASSUME \/ \E r \in Repositories : ForeignPush(r)
           \/ \E n \in Nodes : ForeignClose(n)
    PROVE  Delivery!Next
<1>1. Effects' = Effects /\ Lives' = Lives /\ terminal' = terminal
  BY EffectsKept, LivesKept DEF ForeignPush, ForeignClose, ledgerVars, groupVars, closureVars
<1>2. ASSUME NEW r \in Repositories, ForeignPush(r) PROVE Delivery!StrangerPushes(r)
  BY <1>1, <1>2 DEF ForeignPush, Delivery!StrangerPushes, Delivery!Stranger, Stranger
<1>3. ASSUME NEW n \in Nodes, ForeignClose(n) PROVE Delivery!StrangerCloses(n)
  BY <1>1, <1>3 DEF ForeignClose, Delivery!StrangerCloses
<1>4. QED
  BY <1>2, <1>3 DEF Delivery!Next

LEMMA LandStep ==
    ASSUME FullInv, NEW r, Pushes(r)
    PROVE  Delivery!Next \/ UNCHANGED Delivery!vars
<1>1. Effects' = Effects /\ Lives' = Lives /\ issue' = issue /\ terminal' = terminal
  BY EffectsKept, LivesKept DEF Pushes, ledgerVars, groupVars, closureVars
<1>2. CASE log' = log
  BY <1>1, <1>2 DEF Delivery!vars
<1>3. CASE log' # log
  <2>1. PICK g \in Groups : task = g /\ Remembers(g)
    BY DEF FullInv, Inv, Delivering, Pushes, DeliverPcs
  <2>2. r \in Legs(g) \ pushed
    <3>1. Legs(g) \ pushed \in SUBSET Nat /\ Legs(g) \ pushed # {}
      BY <2>1, LegFacts DEF Remembers, Pushes
    <3>2. QED
      BY <2>1, <3>1, LeastIn DEF Pushes
  <2>3. seen[r].head = <<>> /\ r \in Repositories
    BY <2>1, <2>2, LegFacts DEF Remembers, Pushes, BaseSha
  <2>4. log[r] = <<>> /\ log' = [log EXCEPT ![r] = Append(@, g)]
    BY <1>3, <2>1, <2>3 DEF Pushes
  <2>5. log' = [log EXCEPT ![r] = <<g>>]
    BY <2>4
  <2>6. ~Pushed(g, r)
    BY <2>4 DEF Pushed
  <2>7. g \notin DOMAIN pending \cup delivered
    BY <2>2, <2>6 DEF FullInv, Inv, Made
  <2>8. Effects[g] = "none"
    BY <2>7, DeliveryView
  <2>9. ~Followed(g)
    BY <2>7, GroupAssumption DEF FullInv, Inv, Made, Followed, Members
  <2>10. \A h \in Groups : h < g => Followed(h)
    BY <2>1 DEF FullInv, Line, Pushes, DeliverPcs
  <2>11. Delivery!Land(g, r)
    BY <1>1, <2>2, <2>4, <2>5, <2>8, <2>9, <2>10, DeliveryView DEF Delivery!Land
  <2>12. ~terminal
    BY DEF FullInv, Inv, Ended, Pushes
  <2>13. QED
    BY <2>3, <2>11, <2>12 DEF Delivery!Next, Delivery!Run
<1>4. QED
  BY <1>2, <1>3

LEMMA RecordStep ==
    ASSUME FullInv, RecordEffect
    PROVE  Delivery!Next \/ UNCHANGED Delivery!vars
<1>1. PICK g \in Groups : task = g /\ Remembers(g)
  BY DEF FullInv, Inv, Delivering, RecordEffect, DeliverPcs
<1>2. /\ Lives' = Lives /\ log' = log /\ issue' = issue /\ terminal' = terminal /\ ~terminal
      /\ delivered' = delivered
  BY LivesKept DEF RecordEffect, closureVars, remoteVars, FullInv, Inv, Ended
<1>3. DOMAIN pending' = DOMAIN pending \cup {g}
  BY <1>1 DEF RecordEffect, With
<1>4. g \notin delivered
  BY <1>1 DEF Remembers, RecordEffect
<1>5. CASE g \in DOMAIN pending
  <2>1. Effects' = Effects
    BY <1>2, <1>3, <1>5, EffectsKept
  <2>2. QED
    BY <1>2, <2>1 DEF Delivery!vars
<1>6. CASE g \notin DOMAIN pending
  <2>1. Effects[g] = "none"
    BY <1>4, <1>6, DeliveryView
  <2>2. Effects'[g] = "recorded"
    BY <1>2, <1>3, <1>4 DEF Effects
  <2>3. Effects' = [Effects EXCEPT ![g] = "recorded"]
    BY <1>2, <1>3, <2>2, EffectTurns
  <2>4. \A r \in Legs(g) : log[r] # <<>> /\ log[r][1] = g
    <3>1. ASSUME NEW r \in Legs(g) PROVE log[r] # <<>> /\ log[r][1] = g
      <4>1. Pushed(g, r) /\ r \in Repositories
        BY <1>1, LegFacts DEF Remembers, RecordEffect
      <4>2. PICK i \in DOMAIN log[r] : log[r][i] = g
        BY <4>1 DEF Pushed
      <4>3. i = 1
        BY <4>1, <4>2 DEF FullInv, Inv, PushedOnceOnBase
      <4>4. QED
        BY <4>2, <4>3
    <3>2. QED
      BY <3>1
  <2>5. Delivery!Record(g)
    BY <1>2, <2>1, <2>3, <2>4, DeliveryView DEF Delivery!Record, Delivery!Turns
  <2>6. QED
    BY <1>2, <2>5 DEF Delivery!Next, Delivery!Run
<1>7. QED
  BY <1>5, <1>6

LEMMA FollowStep ==
    ASSUME FullInv, RecordMember
    PROVE  Delivery!Next
<1>1. PICK g \in Groups : task = g /\ Remembers(g)
  BY DEF FullInv, Inv, Delivering, RecordMember, DeliverPcs
<1>2. PICK n \in Unrecorded(g) : n = Least(Unrecorded(g))
  <2>1. Unrecorded(g) # {} /\ Unrecorded(g) \in SUBSET Nat
    BY <1>1, GroupAssumption DEF RecordMember, Remembers, Unrecorded, Members
  <2>2. QED
    BY <2>1, LeastIn
<1>3. n \in Nodes /\ n \in Members(g) /\ stage[n] # "cleaning" /\ GroupOf[n] = g
  BY <1>2 DEF Unrecorded, Members
<1>4. /\ stage' = [stage EXCEPT ![n] = "cleaning"] /\ pc = "members"
      /\ UNCHANGED <<delivered, pending, finalized, closures, log, issue>>
      /\ terminal' = terminal /\ ~terminal
  BY <1>1, <1>2 DEF RecordMember, groupVars, closureVars, remoteVars, FullInv, Inv, Ended
<1>5. stage[n] = "ready"
  BY <1>1, <1>3, <1>4 DEF FullInv, Line, DeliverPcs, Inv, Shapes
<1>6. \A m \in Nodes : stage'[m] = IF m = n THEN "cleaning" ELSE stage[m]
  BY <1>3, <1>4 DEF FullInv, Inv, Shapes
<1>7. n \notin finalized /\ n \notin closures
  BY <1>5, <1>3 DEF FullInv, Turn
<1>8. Lives[n] = "ready" /\ LifeOf(n)' = "landed"
  BY <1>3, <1>4, <1>5, <1>6, <1>7 DEF Lives, LifeOf
<1>9. \A m \in Nodes : m # n => LifeOf(m)' = LifeOf(m)
  BY <1>4, <1>6 DEF LifeOf
<1>10. Lives' = [Lives EXCEPT ![n] = "landed"]
  BY <1>3, <1>8, <1>9, LifeGoes
<1>11. Effects' = Effects /\ Effects[g] = "recorded"
  <2>1. g \in DOMAIN pending /\ g \notin delivered
    BY <1>1, <1>4 DEF Remembers
  <2>2. QED
    BY <1>4, <2>1, EffectsKept, DeliveryView
<1>12. Delivery!Follow(n)
  BY <1>3, <1>4, <1>8, <1>10, <1>11 DEF Delivery!Follow, Delivery!Goes
<1>13. QED
  BY <1>3, <1>4, <1>12 DEF Delivery!Next, Delivery!Run

LEMMA DeliverStep ==
    ASSUME FullInv, CompleteEffect
    PROVE  Delivery!Next
<1>1. PICK g \in Groups : task = g /\ Remembers(g)
  BY DEF FullInv, Inv, Delivering, CompleteEffect, DeliverPcs
<1>2. /\ Lives' = Lives /\ log' = log /\ issue' = issue /\ terminal' = terminal /\ ~terminal
      /\ delivered' = delivered \cup {g} /\ DOMAIN pending' = DOMAIN pending \ {g}
  BY <1>1, LivesKept, WithoutOne DEF CompleteEffect, closureVars, remoteVars, FullInv, Inv, Ended
<1>3. g \in DOMAIN pending /\ g \notin delivered
  BY <1>1 DEF Remembers, CompleteEffect
<1>4. Effects[g] = "recorded"
  BY <1>3, DeliveryView
<1>5. Effects'[g] = "delivered"
  BY <1>2 DEF Effects
<1>6. Effects' = [Effects EXCEPT ![g] = "delivered"]
  BY <1>2, <1>5, EffectTurns
<1>7. Followed(g)
  BY <1>1 DEF FullInv, Line, CompleteEffect
<1>8. Delivery!Deliver(g)
  BY <1>2, <1>4, <1>6, <1>7, DeliveryView DEF Delivery!Deliver, Delivery!Turns
<1>9. QED
  BY <1>2, <1>8 DEF Delivery!Next, Delivery!Run

LEMMA RetireStep ==
    ASSUME FullInv, CleanResources
    PROVE  Delivery!Next \/ UNCHANGED Delivery!vars
<1>0. PICK n \in Nodes : n = task
  BY DEF FullInv, Inv, Cleaning, CleanResources, CleanPcs
<1>1. /\ n \in Nodes /\ stage[n] = "cleaning" /\ n \notin closures
      /\ \A m \in Nodes : stage[m] # "ready"
  BY <1>0 DEF FullInv, Inv, Cleaning, Turn, CleanResources, CleanPcs
<1>2. /\ UNCHANGED <<stage, pending, delivered, closures, log, issue>>
      /\ finalized' = finalized \cup {n} /\ terminal' = terminal /\ ~terminal
  BY <1>0 DEF CleanResources, groupVars, remoteVars, FullInv, Inv, Ended
<1>3. Effects' = Effects
  BY <1>2, EffectsKept
<1>4. CASE n \in finalized
  <2>1. Lives' = Lives
    BY <1>2, <1>4, LivesKept
  <2>2. QED
    BY <1>2, <1>3, <2>1 DEF Delivery!vars
<1>5. CASE n \notin finalized
  <2>1. Lives[n] = "landed" /\ LifeOf(n)' = "retired"
    BY <1>1, <1>2, <1>5 DEF Lives, LifeOf
  <2>2. \A m \in Nodes : m # n => LifeOf(m)' = LifeOf(m)
    BY <1>2 DEF LifeOf
  <2>3. Lives' = [Lives EXCEPT ![n] = "retired"]
    BY <1>1, <2>1, <2>2, LifeGoes
  <2>4. \A g \in Groups : ~Delivery!Waits(g)
    BY <1>1, DeliveryView DEF Followed, Members
  <2>5. Delivery!Retire(n)
    BY <1>2, <1>3, <2>1, <2>3, <2>4 DEF Delivery!Retire, Delivery!Goes
  <2>6. QED
    BY <1>1, <1>2, <2>5 DEF Delivery!Next, Delivery!Run
<1>6. QED
  BY <1>4, <1>5

LEMMA CloseStep ==
    ASSUME FullInv, Closes
    PROVE  Delivery!Next \/ UNCHANGED Delivery!vars
<1>1. /\ task \in Nodes /\ stage[task] = "cleaning" /\ task \notin closures
      /\ task \in finalized
  BY DEF FullInv, Inv, Cleaning, Turn, Closes, CleanPcs
<1>2. /\ Effects' = Effects /\ Lives' = Lives /\ log' = log
      /\ terminal' = terminal /\ ~terminal
  BY EffectsKept, LivesKept DEF Closes, ledgerVars, groupVars, closureVars, FullInv, Inv, Ended
<1>3. CASE IsOpen(task)
  <2>1. Lives[task] = "retired"
    BY <1>1 DEF Lives, LifeOf
  <2>2. Delivery!Close(task)
    BY <1>2, <1>3, <2>1 DEF Closes, IsOpen, Delivery!Close
  <2>3. QED
    BY <1>1, <1>2, <2>2 DEF Delivery!Next, Delivery!Run
<1>4. CASE ~IsOpen(task)
  BY <1>2, <1>4 DEF Closes, Delivery!vars
<1>5. QED
  BY <1>3, <1>4

LEMMA FinishStep ==
    ASSUME FullInv, ConfirmsClosure
    PROVE  Delivery!Next
<1>0. PICK n \in Nodes : n = task
  BY DEF FullInv, Inv, Cleaning, ConfirmsClosure, CleanPcs
<1>1. /\ n \in Nodes /\ stage[n] = "cleaning" /\ n \in DOMAIN observed
      /\ n \in finalized /\ n \notin closures
  BY <1>0 DEF FullInv, Inv, Cleaning, Turn, Apart, ConfirmsClosure, CleanPcs
<1>2. /\ stage' = [stage EXCEPT ![n] = "closed"]
      /\ UNCHANGED <<delivered, pending, finalized, closures, log, issue>>
      /\ terminal' = terminal /\ ~terminal
  BY <1>0 DEF ConfirmsClosure, groupVars, closureVars, FullInv, Inv, Ended
<1>3. issue[n] # "open"
  <2>1. observed[n].issue # "open"
    BY <1>1 DEF FullInv, Inv, Made
  <2>2. observed[n] = Snapshot(n)
    BY <1>0 DEF ConfirmsClosure
  <2>3. QED
    BY <2>1, <2>2 DEF Snapshot
<1>4. \A m \in Nodes : stage'[m] = IF m = n THEN "closed" ELSE stage[m]
  BY <1>1, <1>2 DEF FullInv, Inv, Shapes
<1>5. Lives[n] = "retired" /\ LifeOf(n)' = "closed"
  BY <1>1, <1>2, <1>4 DEF Lives, LifeOf
<1>6. \A m \in Nodes : m # n => LifeOf(m)' = LifeOf(m)
  BY <1>2, <1>4 DEF LifeOf
<1>7. Lives' = [Lives EXCEPT ![n] = "closed"]
  BY <1>1, <1>5, <1>6, LifeGoes
<1>8. Delivery!Finish(n)
  BY <1>2, <1>3, <1>5, <1>7, EffectsKept DEF Delivery!Finish, Delivery!Goes
<1>9. QED
  BY <1>1, <1>2, <1>8 DEF Delivery!Next, Delivery!Run

LEMMA SettleStep ==
    ASSUME FullInv, CompleteClosure
    PROVE  Delivery!Next
<1>0. PICK n \in Nodes : n = task
  BY DEF FullInv, Inv, Cleaning, CompleteClosure, CleanPcs
<1>1. /\ n \in Nodes /\ stage[n] = "closed" /\ n \notin closures
  BY <1>0 DEF FullInv, Inv, Cleaning, Turn, Apart, CompleteClosure, CleanPcs
<1>2. /\ closures' = closures \cup {n}
      /\ UNCHANGED <<stage, delivered, pending, finalized, log, issue>>
      /\ terminal' = terminal /\ ~terminal
  BY <1>0 DEF CompleteClosure, groupVars, remoteVars, FullInv, Inv, Ended
<1>3. Lives[n] = "closed" /\ LifeOf(n)' = "settled"
  BY <1>1, <1>2 DEF Lives, LifeOf
<1>4. \A m \in Nodes : m # n => LifeOf(m)' = LifeOf(m)
  BY <1>2 DEF LifeOf
<1>5. Lives' = [Lives EXCEPT ![n] = "settled"]
  BY <1>1, <1>3, <1>4, LifeGoes
<1>6. Delivery!Settle(n)
  BY <1>2, <1>3, <1>5, EffectsKept DEF Delivery!Settle, Delivery!Goes
<1>7. QED
  BY <1>1, <1>2, <1>6 DEF Delivery!Next, Delivery!Run

LEMMA EndStep ==
    ASSUME FullInv, Terminalize
    PROVE  Delivery!Next
<1>1. \A n \in Nodes : GroupOf[n] \in delivered /\ n \in closures
  BY DEF Terminalize, HasControlChain
<1>2. /\ Effects' = Effects /\ Lives' = Lives /\ log' = log /\ issue' = issue
      /\ terminal' = TRUE /\ ~terminal
  BY EffectsKept, LivesKept DEF Terminalize, groupVars, closureVars, remoteVars
<1>3. \A g \in Groups : Effects[g] = "delivered"
  BY <1>1, GroupAssumption DEF Effects
<1>4. \A n \in Nodes : Lives[n] = "settled"
  BY <1>1 DEF Lives, LifeOf
<1>5. Delivery!End
  BY <1>2, <1>3, <1>4 DEF Delivery!End
<1>6. QED
  BY <1>2, <1>5 DEF Delivery!Next, Delivery!Run

LEMMA DeliveryInit == Init => Delivery!Init
BY DEF Init, Delivery!Init, Effects, Lives, LifeOf, BaseSha

LEMMA DeliveryStep == FullInv /\ [Next]_vars => [Delivery!Next]_Delivery!vars
<1> SUFFICES ASSUME FullInv, Kinds PROVE Delivery!Next \/ UNCHANGED Delivery!vars
  BY StepKinds DEF FullInv
<1>1. CASE DeliverySteps
  BY <1>1, UnseenSteps, LandStep, RecordStep, FollowStep, DeliverStep DEF DeliverySteps
<1>2. CASE CleanupSteps
  BY <1>2, UnseenSteps, RetireStep, CloseStep, FinishStep, SettleStep DEF CleanupSteps
<1>3. QED
  BY <1>1, <1>2, UnseenSteps, StrangerStep, EndStep DEF Kinds

(* Whatever is interrupted, retried, taken over or done by others: each    *)
(* group lands once, first come first served, its effect is recorded and it*)
(* is delivered after its members; each issue is cleaned up, closed and    *)
(* settled once, in this order (Spec implements GroupDelivery).            *)
THEOREM DeliversOnce == Spec => DeliverySpec
BY DeliveryInit, DeliveryStep, FullInvAlways, PTL DEF Spec, DeliverySpec, Delivery!Spec

===============================================================================
