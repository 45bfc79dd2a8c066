--------------------------- MODULE Writers_proofs ---------------------------
(***************************************************************************)
(* Attempts are dispatched apart, the result of a writer stands once it is *)
(* accepted, and its work is kept slice by slice.                          *)
(***************************************************************************)
EXTENDS Frontier, WriterExecution, WriterStage,
        SequenceTheorems, FiniteSetTheorems, WellFoundedInduction, TLAPS

-----------------------------------------------------------------------------
(***************************************************************************)
(* Theorems about the leases of dispatches, for every graph.               *)
(***************************************************************************)

(* A dispatch is a record of these fields. *)
Formed(d) ==
    d = [node |-> d.node, plan |-> d.plan, recorded |-> d.recorded,
         process |-> d.process, expired |-> d.expired, lease |-> d.lease]

AllFormed ==
    /\ dispatches = [i \in DispatchIds |-> dispatches[i]]
    /\ \A i \in DispatchIds : Formed(dispatches[i])

(* A process holds the lease of its keys for as long as it runs. *)
Held(d) == d.process => d.lease = "active" \/ LeaseKeys(d) = {}

Overlap(d, e) == d.lease = "active" /\ e.lease = "active" /\ LeaseKeys(d) \cap LeaseKeys(e) # {}

LeaseInv ==
    /\ AllFormed
    /\ \A i \in DispatchIds : Held(dispatches[i])
    /\ \A i, j \in DispatchIds : i # j => ~Overlap(dispatches[i], dispatches[j])

(* The keys of a dispatch are those of its node and its plan. *)
LEMMA SameKeys ==
    ASSUME NEW d, NEW e, d.node = e.node, d.plan = e.plan
    PROVE  LeaseKeys(d) = LeaseKeys(e)
BY DEF LeaseKeys, ConflictKeys, ResourceKeys, WorktreeKeys, Writes, Class

(* What a step writes into a dispatch leaves the other fields as they are. *)
LEMMA Written ==
    ASSUME NEW d, Formed(d), NEW x
    PROVE  /\ [d EXCEPT !.process = x] =
                [node |-> d.node, plan |-> d.plan, recorded |-> d.recorded,
                 process |-> x, expired |-> d.expired, lease |-> d.lease]
           /\ [d EXCEPT !.recorded = x] =
                [node |-> d.node, plan |-> d.plan, recorded |-> x,
                 process |-> d.process, expired |-> d.expired, lease |-> d.lease]
           /\ [d EXCEPT !.expired = x] =
                [node |-> d.node, plan |-> d.plan, recorded |-> d.recorded,
                 process |-> d.process, expired |-> x, lease |-> d.lease]
           /\ [d EXCEPT !.lease = x] =
                [node |-> d.node, plan |-> d.plan, recorded |-> d.recorded,
                 process |-> d.process, expired |-> d.expired, lease |-> x]
<1>1. [d EXCEPT !.process = x] =
        [node |-> d.node, plan |-> d.plan, recorded |-> d.recorded,
         process |-> x, expired |-> d.expired, lease |-> d.lease]
  BY DEF Formed
<1>2. [d EXCEPT !.recorded = x] =
        [node |-> d.node, plan |-> d.plan, recorded |-> x,
         process |-> d.process, expired |-> d.expired, lease |-> d.lease]
  BY DEF Formed
<1>3. [d EXCEPT !.expired = x] =
        [node |-> d.node, plan |-> d.plan, recorded |-> d.recorded,
         process |-> d.process, expired |-> x, lease |-> d.lease]
  BY DEF Formed
<1>4. [d EXCEPT !.lease = x] =
        [node |-> d.node, plan |-> d.plan, recorded |-> d.recorded,
         process |-> d.process, expired |-> d.expired, lease |-> x]
  BY DEF Formed
<1>5. QED
  BY <1>1, <1>2, <1>3, <1>4

(* One dispatch changes: it keeps node and plan, gets no lease, no record, and no *)
(* process without a lease; or it is no longer looked at.                         *)
Weaker(e, d) ==
    /\ Formed(e)
    /\ e.process => d.process /\ e.lease = d.lease
    /\ e.recorded => d.recorded
    /\ e.lease = "active" => d.lease = "active"
    /\ e.process \/ e.lease = "active" => e.node = d.node /\ e.plan = d.plan

Weakened ==
    \E i, e : /\ i \in DispatchIds /\ Weaker(e, dispatches[i])
              /\ dispatches' = [dispatches EXCEPT ![i] = e]

LEMMA WeakerStep ==
    ASSUME LeaseInv, UNCHANGED work, Weakened
    PROVE  LeaseInv'
<1>0. PICK i, e : /\ i \in DispatchIds /\ Weaker(e, dispatches[i])
                 /\ dispatches' = [dispatches EXCEPT ![i] = e]
  BY DEF Weakened
<1>1. dispatches'[i] = e /\ \A j \in DispatchIds \ {i} : dispatches'[j] = dispatches[j]
  BY <1>0 DEF LeaseInv, AllFormed
<1>2. AllFormed'
  BY <1>0, <1>1 DEF LeaseInv, AllFormed, Weaker, Formed
<1>3. /\ \A j \in DispatchIds : Held(dispatches[j])
      /\ \A j, k \in DispatchIds : j # k => ~Overlap(dispatches[j], dispatches[k])
  BY DEF LeaseInv
<1>4. Held(e) /\ \A j \in DispatchIds : j # i =>
        ~Overlap(e, dispatches[j]) /\ ~Overlap(dispatches[j], e)
  <2>1. e.process \/ e.lease = "active" => LeaseKeys(e) = LeaseKeys(dispatches[i])
    BY <1>0, SameKeys DEF Weaker
  <2>2. QED
    BY <1>0, <1>3, <2>1 DEF Weaker, Held, Overlap
<1>5. \A j \in DispatchIds : Held(dispatches'[j])
  BY <1>1, <1>3, <1>4
<1>6. \A j, k \in DispatchIds : j # k => ~Overlap(dispatches'[j], dispatches'[k])
  BY <1>1, <1>3, <1>4
<1>7. \A j \in DispatchIds : Held(dispatches[j])'
  BY <1>5 DEF Held, LeaseKeys, ConflictKeys, ResourceKeys, WorktreeKeys, Writes, Class
<1>8. \A j, k \in DispatchIds : j # k => ~Overlap(dispatches[j], dispatches[k])'
  BY <1>6 DEF Overlap, LeaseKeys, ConflictKeys, ResourceKeys, WorktreeKeys, Writes, Class
<1>9. QED
  BY <1>2, <1>7, <1>8 DEF LeaseInv

(* A dispatch starts under a free number, with the lease of its keys. *)
LEMMA StartStep == LeaseInv /\ StartDispatch => LeaseInv'
<1> SUFFICES ASSUME LeaseInv, StartDispatch PROVE LeaseInv'
  OBVIOUS
<1> DEFINE t == Head(round.selected)
           e == [node |-> t.node, plan |-> t.plan, recorded |-> TRUE,
                 process |-> TRUE, expired |-> FALSE,
                 lease |-> IF LeaseKeys(t) = {} THEN "none" ELSE "active"]
<1>1. /\ dispatches' = [dispatches EXCEPT ![NextId] = e]
      /\ MayAcquire(t) /\ UNCHANGED work
  BY DEF StartDispatch
<1>2. LeaseKeys(e) = LeaseKeys(t)
  BY SameKeys
<1>3. e.lease = "active" =>
        \A j \in DispatchIds : ~Overlap(e, dispatches[j]) /\ ~Overlap(dispatches[j], e)
  BY <1>1, <1>2 DEF MayAcquire, LeaseHeld, ActiveLeases, Overlap
<1>4. Held(e)
  BY <1>2 DEF Held
<1>5. Formed(e)
  BY DEF Formed
<1>6. \A j \in DispatchIds : dispatches'[j] = IF j = NextId THEN e ELSE dispatches[j]
  BY <1>1 DEF LeaseInv, AllFormed
<1> HIDE DEF e, t
<1>7. AllFormed'
  BY <1>1, <1>5, <1>6 DEF LeaseInv, AllFormed, Formed
<1>8. \A j \in DispatchIds : Held(dispatches'[j])
  BY <1>4, <1>6 DEF LeaseInv
<1>9. \A j, k \in DispatchIds : j # k => ~Overlap(dispatches'[j], dispatches'[k])
  BY <1>3, <1>6 DEF LeaseInv, Overlap
<1>10. \A j \in DispatchIds : LeaseKeys(dispatches[j])' = LeaseKeys(dispatches'[j])
  BY <1>1 DEF LeaseKeys, ConflictKeys, ResourceKeys, WorktreeKeys, Writes, Class
<1>11. \A j \in DispatchIds : Held(dispatches[j])'
  BY <1>8, <1>10 DEF Held
<1>12. \A j, k \in DispatchIds : j # k => ~Overlap(dispatches[j], dispatches[k])'
  BY <1>9, <1>10 DEF Overlap
<1>13. QED
  BY <1>7, <1>11, <1>12 DEF LeaseInv

LEMMA LeaseStarts == FrontierInit => LeaseInv
<1> SUFFICES ASSUME dispatches = [i \in DispatchIds |-> NoDispatch] PROVE LeaseInv
  BY DEF FrontierInit
<1>1. \A i \in DispatchIds : dispatches[i] = NoDispatch
  OBVIOUS
<1>2. Formed(NoDispatch) /\ ~NoDispatch.process /\ NoDispatch.lease # "active"
  BY DEF Formed, NoDispatch
<1>3. AllFormed
  BY <1>1, <1>2 DEF AllFormed
<1>4. QED
  BY <1>1, <1>2, <1>3 DEF LeaseInv, Held, Overlap

\* What happens to dispatches beside the scheduler.
DispatchStep(i) ==
    DispatchEnds(i) \/ DispatchLost(i) \/ DispatchDeclared(i) \/ LeaseExpires(i) \/ RecoverLease(i)

LEMMA DispatchWeakens ==
    ASSUME LeaseInv, NEW i \in DispatchIds, DispatchStep(i)
    PROVE  Weakened
<1>1. CASE DispatchEnds(i)
  <2>1. PICK releases \in BOOLEAN :
          dispatches' = [dispatches EXCEPT ![i] = Present(AttemptEnded(@, releases))]
    BY <1>1 DEF DispatchEnds
  <2> DEFINE e == Present(AttemptEnded(dispatches[i], releases))
  <2>2. dispatches' = [dispatches EXCEPT ![i] = e]
    BY <1>1, <2>1 DEF DispatchEnds
  <2>3. Weaker(e, dispatches[i])
    BY DEF AttemptEnded, Formed, Weaker, Present, NoDispatch, Released
  <2> HIDE DEF e
  <2>4. QED
    BY <2>2, <2>3 DEF Weakened
<1>2. CASE DispatchLost(i)
  <2>0. Formed(dispatches[i])
    BY DEF LeaseInv, AllFormed
  <2> DEFINE e == Present([dispatches[i] EXCEPT !.process = FALSE])
  <2>1. dispatches' = [dispatches EXCEPT ![i] = e]
    BY <1>2 DEF DispatchLost
  <2>2. Weaker(e, dispatches[i])
    BY <2>0, Written DEF Formed, Weaker, Present, NoDispatch
  <2> HIDE DEF e
  <2>3. QED
    BY <2>1, <2>2 DEF Weakened
<1>3. CASE DispatchDeclared(i)
  <2>0. Formed(dispatches[i])
    BY DEF LeaseInv, AllFormed
  <2> DEFINE e == Present([dispatches[i] EXCEPT !.recorded = FALSE])
  <2>1. dispatches' = [dispatches EXCEPT ![i] = e]
    BY <1>3 DEF DispatchDeclared
  <2>2. Weaker(e, dispatches[i])
    BY <2>0, Written DEF Formed, Weaker, Present, NoDispatch
  <2> HIDE DEF e
  <2>3. QED
    BY <2>1, <2>2 DEF Weakened
<1>4. CASE LeaseExpires(i)
  <2>0. Formed(dispatches[i])
    BY DEF LeaseInv, AllFormed
  <2> DEFINE e == [dispatches[i] EXCEPT !.expired = TRUE]
  <2>1. dispatches' = [dispatches EXCEPT ![i] = e]
    BY <1>4 DEF LeaseExpires
  <2>2. Weaker(e, dispatches[i])
    BY <2>0, Written DEF Formed, Weaker
  <2> HIDE DEF e
  <2>3. QED
    BY <2>1, <2>2 DEF Weakened
<1>5. CASE RecoverLease(i)
  <2>0. Formed(dispatches[i])
    BY DEF LeaseInv, AllFormed
  <2> DEFINE e == Present([dispatches[i] EXCEPT !.lease = "recovered"])
  <2>1. dispatches' = [dispatches EXCEPT ![i] = e]
    BY <1>5 DEF RecoverLease
  <2>2. ~dispatches[i].process
    BY <1>5 DEF RecoverLease, Recoverable
  <2>3. Weaker(e, dispatches[i])
    BY <2>0, <2>2, Written DEF Formed, Weaker, Present, NoDispatch
  <2> HIDE DEF e
  <2>4. QED
    BY <2>1, <2>3 DEF Weakened
<1>6. QED
  BY <1>1, <1>2, <1>3, <1>4, <1>5 DEF DispatchStep

LEMMA LeaseKept == LeaseInv /\ [FrontierNext]_frontierVars => LeaseInv'
<1> SUFFICES ASSUME LeaseInv, [FrontierNext]_frontierVars PROVE LeaseInv'
  OBVIOUS
<1>1. CASE UNCHANGED <<work, dispatches>>
  BY <1>1 DEF LeaseInv, AllFormed, Formed, Held, Overlap, LeaseKeys, ConflictKeys,
              ResourceKeys, WorktreeKeys, Writes, Class
<1>2. CASE StartDispatch
  BY <1>2, StartStep
<1>3. ASSUME NEW i \in DispatchIds, DispatchStep(i) PROVE LeaseInv'
  <2>1. UNCHANGED work
    BY <1>3 DEF DispatchStep, DispatchEnds, DispatchLost, DispatchDeclared, LeaseExpires,
                RecoverLease
  <2>2. QED
    BY <1>3, <2>1, DispatchWeakens, WeakerStep
<1>4. CASE UNCHANGED frontierVars
  BY <1>1, <1>4 DEF frontierVars
<1>5. CASE \/ CompileFrontier \/ SelectBatch \/ AdmitBatch \/ LeaseRefused
           \/ FactsDrift \/ RemoteFactsAge
           \/ \E n \in DOMAIN members :
                PrepareCandidate(n) \/ GraphRebound(n) \/ NodeChanges(n)
  BY <1>1, <1>5 DEF CompileFrontier, SelectBatch, AdmitBatch, LeaseRefused, FactsDrift,
                    RemoteFactsAge,
                    PrepareCandidate, GraphRebound, NodeChanges
<1>6. QED
  BY <1>2, <1>3, <1>4, <1>5 DEF FrontierNext, DispatchStep

(* Two attempts that run never share a key, a worktree or a resource: whatever *)
(* the graph is, however old the frontier a batch was chosen from, and whoever *)
(* declares an attempt terminal while it runs.                                 *)
THEOREM RunningNeverOverlap == FrontierSpec => []RunningApart
<1>1. LeaseInv => RunningApart
  BY DEF LeaseInv, Held, Overlap, RunningApart
<1>2. QED
  BY <1>1, LeaseStarts, LeaseKept, PTL DEF FrontierSpec

-----------------------------------------------------------------------------
(* The order of the tasks. *)

(* Induction: a set of numbers that is not empty has a least one. *)
LEMMA LeastNumber ==
    ASSUME NEW T, T \subseteq Nat, T # {}
    PROVE  \E x \in T : \A y \in T : x <= y
<1>1. PICK x \in T : \A y \in T : ~ (<<y, x>> \in OpToRel(<, Nat))
  BY WFMin, NatLessThanWellFounded
<1>2. \A y \in T : ~ (y < x)
  BY <1>1 DEF OpToRel
<1>3. QED
  BY <1>2

\* Tasks of one frontier: one of each node of the graph.
TasksFormed(tasks) ==
    /\ work \in FrontierWork
    /\ IsFiniteSet(tasks)
    /\ \A t \in tasks : t.node \in DOMAIN work
    /\ \A t, u \in tasks : t.node = u.node => t = u

(* compareTasks orders them strictly and completely, and first by priority: the *)
(* age of a task that starves comes before what it unlocks, in both tasks.      *)
LEMMA RanksOrder ==
    ASSUME NEW tasks, TasksFormed(tasks), NEW t \in tasks, NEW u \in tasks
    PROVE  /\ t # u => RanksBefore(t, u) \/ RanksBefore(u, t)
           /\ RanksBefore(t, u) => work[t.node].priority <= work[u.node].priority
           /\ \A v \in tasks :
                RanksBefore(t, u) /\ RanksBefore(u, v) => RanksBefore(t, v)
<1>1. \A v \in tasks :
        /\ v.node \in Nat
        /\ work[v.node].priority \in Nat /\ work[v.node].unlocks \in Nat
        /\ work[v.node].age \in Nat
  BY GraphAssumption DEF TasksFormed
<1>2. t # u => t.node # u.node
  BY DEF TasksFormed
<1>3. t # u => RanksBefore(t, u) \/ RanksBefore(u, t)
  BY <1>1, <1>2 DEF RanksBefore, StarvedAge
<1>4. RanksBefore(t, u) => work[t.node].priority <= work[u.node].priority
  BY <1>1 DEF RanksBefore
<1>5. ASSUME NEW v \in tasks, RanksBefore(t, u), RanksBefore(u, v)
      PROVE  RanksBefore(t, v)
  BY <1>1, <1>5 DEF RanksBefore, StarvedAge
<1>6. QED
  BY <1>3, <1>4, <1>5

(* Of some tasks there is one that all others rank before. *)
LEMMA LastTask ==
    ASSUME NEW tasks, TasksFormed(tasks), NEW S \in SUBSET tasks, S # {}
    PROVE  \E t \in S : \A u \in S \ {t} : RanksBefore(u, t)
<1> DEFINE HasLast(X) == \E t \in X : \A u \in X \ {t} : RanksBefore(u, t)
           T == {n \in Nat : \E X \in SUBSET tasks :
                               X # {} /\ Cardinality(X) = n /\ ~HasLast(X)}
<1>1. SUFFICES ASSUME ~HasLast(S) PROVE FALSE
  OBVIOUS
<1>2. \A X \in SUBSET tasks : IsFiniteSet(X) /\ Cardinality(X) \in Nat
  BY FS_Subset, FS_CardinalityType DEF TasksFormed
<1>3. T \subseteq Nat /\ T # {}
  BY <1>1, <1>2
<1>4. PICK n \in T : \A m \in T : n <= m
  BY <1>3, LeastNumber
<1>5. PICK X \in SUBSET tasks : X # {} /\ Cardinality(X) = n /\ ~HasLast(X)
  BY <1>4
<1>6. PICK x \in X : TRUE
  BY <1>5
<1> DEFINE Y == X \ {x}
<1>7. IsFiniteSet(Y) /\ Cardinality(Y) = n - 1 /\ Y \in SUBSET tasks
  BY <1>2, <1>5, <1>6, FS_RemoveElement
<1>8. Cardinality(Y) \in Nat /\ n \in Nat
  BY <1>2, <1>4, <1>7
<1>9. n - 1 \notin T
  BY <1>4, <1>8
<1>10. Y = {} \/ HasLast(Y)
  BY <1>7, <1>8, <1>9
<1>11. CASE Y = {}
  <2>1. X = {x}
    BY <1>6, <1>11
  <2>2. HasLast(X)
    BY <2>1
  <2>3. QED
    BY <1>5, <2>2
<1>12. CASE HasLast(Y)
  <2>1. PICK t \in Y : \A u \in Y \ {t} : RanksBefore(u, t)
    BY <1>12
  <2>2. t \in tasks /\ x \in tasks /\ t # x /\ t \in X
    BY <1>5, <1>6, <2>1
  <2>3. CASE RanksBefore(x, t)
    <3>1. \A u \in X \ {t} : RanksBefore(u, t)
      BY <2>1, <2>3
    <3>2. QED
      BY <1>5, <2>2, <3>1
  <2>4. CASE RanksBefore(t, x)
    <3>1. ASSUME NEW u \in X \ {x} PROVE RanksBefore(u, x)
      <4>1. u = t \/ RanksBefore(u, t)
        BY <2>1, <3>1
      <4>2. u \in tasks
        BY <1>5, <3>1
      <4>3. QED
        BY <2>2, <2>4, <4>1, <4>2, RanksOrder
    <3>2. QED
      BY <1>5, <1>6, <3>1
  <2>5. QED
    BY <2>2, <2>3, <2>4, RanksOrder
<1>13. QED
  BY <1>10, <1>11, <1>12

Sorted(order, tasks) ==
    /\ order \in [1..Cardinality(tasks) -> tasks]
    /\ ToSet(order) = tasks
    /\ \A i, j \in 1..Cardinality(tasks) : i < j => RanksBefore(order[i], order[j])

LEMMA SortedExists ==
    ASSUME NEW tasks, TasksFormed(tasks)
    PROVE  \E order : Sorted(order, tasks)
<1> DEFINE T == {n \in Nat : \E X \in SUBSET tasks :
                               Cardinality(X) = n /\ ~(\E order : Sorted(order, X))}
<1>1. SUFFICES ASSUME ~(\E order : Sorted(order, tasks)) PROVE FALSE
  OBVIOUS
<1>2. \A X \in SUBSET tasks : IsFiniteSet(X) /\ Cardinality(X) \in Nat
  BY FS_Subset, FS_CardinalityType DEF TasksFormed
<1>3. T \subseteq Nat /\ T # {}
  BY <1>1, <1>2
<1>4. PICK n \in T : \A m \in T : n <= m
  BY <1>3, LeastNumber
<1>5. PICK X \in SUBSET tasks : Cardinality(X) = n /\ ~(\E order : Sorted(order, X))
  BY <1>4
<1>6. X # {}
  <2>1. SUFFICES ASSUME X = {} PROVE FALSE
    OBVIOUS
  <2>2. Cardinality(X) = 0
    BY <2>1, FS_EmptySet
  <2>3. PICK order : order = [i \in 1..0 |-> 0]
    OBVIOUS
  <2>4. DOMAIN order = {} /\ order \in [1..0 -> X]
    BY <2>1, <2>3
  <2>5. ToSet(order) = X
    BY <2>1, <2>4 DEF ToSet
  <2>6. Sorted(order, X)
    BY <2>2, <2>4, <2>5 DEF Sorted
  <2>7. QED
    BY <1>5, <2>6
<1>7. PICK t \in X : \A u \in X \ {t} : RanksBefore(u, t)
  BY <1>6, LastTask
<1> DEFINE Y == X \ {t}
<1>8. IsFiniteSet(Y) /\ Cardinality(Y) = n - 1 /\ Y \in SUBSET tasks
  BY <1>2, <1>5, <1>7, FS_RemoveElement
<1>9. n - 1 \in Nat /\ n \in Nat
  BY <1>2, <1>4, <1>8
<1>10. PICK before : Sorted(before, Y)
  <2>1. n - 1 \notin T
    BY <1>4, <1>9
  <2>2. QED
    BY <1>8, <1>9, <2>1
<1> HIDE DEF Y
<1>11. PICK order : order = [i \in 1..n |-> IF i = n THEN t ELSE before[i]]
  OBVIOUS
<1>12. /\ order[n] = t
       /\ \A i \in 1..(n - 1) : order[i] = before[i] /\ before[i] \in Y
  BY <1>8, <1>9, <1>10, <1>11 DEF Sorted
<1>13. \A i \in 1..n : i = n \/ i \in 1..(n - 1)
  BY <1>9
<1>14. order \in [1..n -> X]
  BY <1>11, <1>12, <1>13 DEF Y
<1>15. ToSet(order) = X
  <2>1. ToSet(before) = Y /\ DOMAIN before = 1..(n - 1)
    BY <1>8, <1>10 DEF Sorted
  <2>2. ASSUME NEW u \in X PROVE \E i \in 1..n : order[i] = u
    <3>1. CASE u = t
      BY <1>9, <1>12, <3>1
    <3>2. CASE u # t
      <4>1. PICK i \in 1..(n - 1) : before[i] = u
        BY <2>1, <3>2 DEF ToSet, Y
      <4>2. i \in 1..n
        BY <1>9
      <4>3. QED
        BY <1>12, <4>1, <4>2
    <3>3. QED
      BY <3>1, <3>2
  <2>3. \A u \in X : u \in ToSet(order)
    BY <1>14, <2>2 DEF ToSet
  <2>4. \A u \in ToSet(order) : u \in X
    BY <1>14 DEF ToSet
  <2>5. QED
    BY <2>3, <2>4
<1>16. ASSUME NEW i \in 1..n, NEW j \in 1..n, i < j
       PROVE  RanksBefore(order[i], order[j])
  <2>1. i \in 1..(n - 1)
    BY <1>9, <1>16
  <2>2. CASE j = n
    BY <1>7, <1>12, <2>1, <2>2 DEF Y
  <2>3. CASE j \in 1..(n - 1)
    BY <1>8, <1>10, <1>12, <1>16, <2>1, <2>3 DEF Sorted
  <2>4. QED
    BY <1>13, <2>2, <2>3
<1>17. Sorted(order, X)
  BY <1>5, <1>14, <1>15, <1>16 DEF Sorted
<1>18. QED
  BY <1>5, <1>17

LEMMA TaskOrderSorted ==
    ASSUME NEW tasks, TasksFormed(tasks)
    PROVE  Sorted(TaskOrder(tasks), tasks)
BY SortedExists DEF TaskOrder, Sorted

-----------------------------------------------------------------------------
(* The batch. *)

\* What createBatch makes of the first k tasks of an order.
ChosenAt(f, order, slots, k) ==
    IF k = 0 THEN <<>> ELSE WithNext(f[k - 1], order[k], slots)

Solves(f, order, slots, n) ==
    /\ f = [k \in 0..n |-> f[k]]
    /\ \A k \in 0..n : f[k] = ChosenAt(f, order, slots, k)

(* The recursion has a solution, so that the function is one. *)
LEMMA BatchRecursion ==
    ASSUME NEW order, NEW slots, NEW n \in Nat
    PROVE  \E f : Solves(f, order, slots, n)
<1> DEFINE T == {m \in Nat : ~(\E f : Solves(f, order, slots, m))}
<1>1. SUFFICES ASSUME T # {} PROVE FALSE
  OBVIOUS
<1>2. PICK m \in T : \A l \in T : m <= l
  BY <1>1, LeastNumber
<1>3. m \in Nat
  OBVIOUS
<1>4. CASE m = 0
  <2>1. PICK f : f = [k \in 0..0 |-> <<>>]
    OBVIOUS
  <2>2. \A k \in 0..0 : k = 0
    OBVIOUS
  <2>3. Solves(f, order, slots, 0)
    BY <2>1, <2>2 DEF Solves, ChosenAt
  <2>4. QED
    BY <1>4, <2>3
<1>5. CASE m # 0
  <2>1. m - 1 \in Nat /\ m - 1 \notin T
    BY <1>2, <1>3, <1>5
  <2>2. PICK g : Solves(g, order, slots, m - 1)
    BY <2>1
  <2>3. PICK f : f = [k \in 0..m |-> IF k = m THEN ChosenAt(g, order, slots, m) ELSE g[k]]
    OBVIOUS
  <2>4. ASSUME NEW k \in 0..m PROVE f[k] = ChosenAt(f, order, slots, k)
    <3>1. CASE k = m
      <4>1. f[m - 1] = g[m - 1]
        BY <1>3, <1>5, <2>3
      <4>2. QED
        BY <1>5, <2>3, <3>1, <4>1 DEF ChosenAt
    <3>2. CASE k # m
      <4>1. k \in 0..(m - 1)
        BY <1>3, <3>2
      <4>2. f[k] = g[k] /\ g[k] = ChosenAt(g, order, slots, k)
        BY <2>2, <2>3, <3>2, <4>1 DEF Solves
      <4>3. k # 0 => f[k - 1] = g[k - 1]
        BY <1>3, <2>3, <4>1
      <4>4. QED
        BY <4>2, <4>3 DEF ChosenAt
    <3>3. QED
      BY <3>1, <3>2
  <2>5. Solves(f, order, slots, m)
    BY <2>3, <2>4 DEF Solves
  <2>6. QED
    BY <2>5
<1>6. QED
  BY <1>4, <1>5

LEMMA CreateBatchIs ==
    ASSUME NEW tasks, NEW slots, Cardinality(tasks) \in Nat
    PROVE  \E f : /\ CreateBatch(tasks, slots) = f[Cardinality(tasks)]
                  /\ f[0] = <<>>
                  /\ \A k \in 1..Cardinality(tasks) :
                       f[k] = WithNext(f[k - 1], TaskOrder(tasks)[k], slots)
<1> DEFINE n == Cardinality(tasks)
           order == TaskOrder(tasks)
           f == CHOOSE g : g = [k \in 0..n |-> IF k = 0 THEN <<>>
                                               ELSE WithNext(g[k - 1], order[k], slots)]
<1>0. n \in Nat
  OBVIOUS
<1> HIDE DEF n, order
<1>1. PICK h : Solves(h, order, slots, n)
  BY <1>0, BatchRecursion
<1>2. h = [k \in 0..n |-> IF k = 0 THEN <<>> ELSE WithNext(h[k - 1], order[k], slots)]
  BY <1>1 DEF Solves, ChosenAt
<1>3. f = [k \in 0..n |-> IF k = 0 THEN <<>> ELSE WithNext(f[k - 1], order[k], slots)]
  BY <1>2
<1>4. CreateBatch(tasks, slots) = f[n]
  BY DEF CreateBatch, n, order
<1> HIDE DEF f
<1>5. f[0] = <<>>
  BY <1>0, <1>3
<1>6. \A k \in 1..n : f[k] = WithNext(f[k - 1], order[k], slots)
  BY <1>0, <1>3
<1>7. QED
  BY <1>4, <1>5, <1>6 DEF n, order

\* Two tasks that may be chosen together.
Apart(t, u) ==
    /\ ConflictKeys(t) \cap ConflictKeys(u) = {}
    /\ WorktreeKeys(t) \cap WorktreeKeys(u) = {}
    /\ ResourceKeys(t) \cap ResourceKeys(u) = {}

\* Why a task is not in a batch.
LeftOut(t, selected, slots) ==
    \/ LeaseConflict(t)
    \/ ConflictWithSelected(t, selected)
    \/ /\ Len(selected) >= slots
       /\ \A u \in ToSet(selected) :
            work[u.node].priority <= work[t.node].priority

\* A batch of the first k tasks.
BatchOf(b, tasks, k, slots) ==
    /\ b \in Seq(tasks)
    /\ \A t \in ToSet(b) : ~LeaseConflict(t)
    /\ \A i, j \in 1..Len(b) : i # j => Apart(b[i], b[j])
    /\ \A t \in ToSet(b) : \E j \in 1..k : t = TaskOrder(tasks)[j]
    /\ \A j \in 1..k : \/ TaskOrder(tasks)[j] \in ToSet(b)
                       \/ LeftOut(TaskOrder(tasks)[j], b, slots)

LEMMA AppendedSet ==
    ASSUME NEW S, NEW b \in Seq(S), NEW t \in S
    PROVE  ToSet(Append(b, t)) = ToSet(b) \cup {t}
<1>1. /\ Append(b, t) \in Seq(S) /\ Len(Append(b, t)) = Len(b) + 1
      /\ \A i \in 1..Len(b) : Append(b, t)[i] = b[i]
      /\ Append(b, t)[Len(b) + 1] = t
  BY AppendProperties
<1>2. /\ DOMAIN b = 1..Len(b) /\ DOMAIN Append(b, t) = 1..(Len(b) + 1)
      /\ Len(b) \in Nat
  BY <1>1, LenProperties
<1>3. \A i \in 1..(Len(b) + 1) : i \in 1..Len(b) \/ i = Len(b) + 1
  BY <1>2
<1>4. \A i \in 1..Len(b) : i \in 1..(Len(b) + 1)
  BY <1>2
<1>5. Len(b) + 1 \in 1..(Len(b) + 1)
  BY <1>2
<1>6. \A v \in ToSet(Append(b, t)) : v \in ToSet(b) \cup {t}
  BY <1>1, <1>2, <1>3 DEF ToSet
<1>7. \A v \in ToSet(b) \cup {t} : v \in ToSet(Append(b, t))
  BY <1>1, <1>2, <1>4, <1>5 DEF ToSet
<1>8. QED
  BY <1>6, <1>7

(* One task further: it is taken, or there is a reason to leave it out.  A task  *)
(* that was left out for want of a slot stays the last reason there is.          *)
LEMMA BatchStep ==
    ASSUME NEW tasks, TasksFormed(tasks), NEW slots \in Int,
           NEW k \in 1..Cardinality(tasks), Cardinality(tasks) \in Nat,
           NEW b, BatchOf(b, tasks, k - 1, slots)
    PROVE  BatchOf(WithNext(b, TaskOrder(tasks)[k], slots), tasks, k, slots)
<1> DEFINE order == TaskOrder(tasks)
           t == order[k]
           c == WithNext(b, t, slots)
<1>1. /\ \A j \in 1..Cardinality(tasks) : order[j] \in tasks
      /\ \A i, j \in 1..Cardinality(tasks) : i < j => RanksBefore(order[i], order[j])
  BY TaskOrderSorted DEF Sorted
<1>2. t \in tasks /\ b \in Seq(tasks) /\ Len(b) \in Nat /\ DOMAIN b = 1..Len(b)
  BY <1>1, LenProperties DEF BatchOf
<1>3. \A j \in 1..k : j = k \/ j \in 1..(k - 1)
  OBVIOUS
<1>4. \A j \in 1..(k - 1) : j \in 1..k
  OBVIOUS
<1>5. ConflictWithSelected(t, b) <=> \E u \in ToSet(b) : ~Apart(t, u)
  BY DEF ConflictWithSelected, Apart
<1> HIDE DEF order, t
<1>6. CASE ~LeaseConflict(t) /\ ~ConflictWithSelected(t, b) /\ Len(b) < slots
  <2>1. c = Append(b, t)
    BY <1>6 DEF WithNext
  <2>2. /\ c \in Seq(tasks) /\ Len(c) = Len(b) + 1 /\ c[Len(b) + 1] = t
        /\ \A i \in 1..Len(b) : c[i] = b[i]
    BY <1>2, <2>1, AppendProperties
  <2>3. ToSet(c) = ToSet(b) \cup {t}
    BY <1>2, <2>1, AppendedSet
  <2>4. \A u \in ToSet(c) : ~LeaseConflict(u)
    BY <1>6, <2>3 DEF BatchOf
  <2>5. ASSUME NEW i \in 1..Len(c), NEW j \in 1..Len(c), i # j
        PROVE  Apart(c[i], c[j])
    <3>1. \A l \in 1..Len(c) : l = Len(b) + 1 \/ l \in 1..Len(b)
      BY <1>2, <2>2
    <3>2. \A l \in 1..Len(b) : Apart(t, b[l]) /\ Apart(b[l], t)
      BY <1>2, <1>5, <1>6 DEF ToSet, Apart
    <3>3. QED
      BY <2>2, <2>5, <3>1, <3>2 DEF BatchOf
  <2>6. \A u \in ToSet(c) : \E j \in 1..k : u = order[j]
    BY <1>4, <2>3 DEF BatchOf, order, t
  <2>7. ASSUME NEW j \in 1..k PROVE order[j] \in ToSet(c) \/ LeftOut(order[j], c, slots)
    <3>1. CASE j = k
      BY <2>3, <3>1 DEF t
    <3>2. CASE j \in 1..(k - 1)
      <4>1. order[j] \in ToSet(b) \/ LeftOut(order[j], b, slots)
        BY <3>2 DEF BatchOf, order
      <4>2. ~(Len(b) >= slots)
        BY <1>2, <1>6
      <4>3. QED
        BY <2>3, <4>1, <4>2 DEF LeftOut, ConflictWithSelected
    <3>3. QED
      BY <1>3, <3>1, <3>2
  <2>8. QED
    BY <2>2, <2>4, <2>5, <2>6, <2>7 DEF BatchOf, order, t
<1>7. CASE ~(~LeaseConflict(t) /\ ~ConflictWithSelected(t, b) /\ Len(b) < slots)
  <2>1. c = b
    BY <1>7 DEF WithNext
  <2>2. LeftOut(t, b, slots)
    <3>1. \A u \in ToSet(b) : work[u.node].priority <= work[t.node].priority
      <4>1. ASSUME NEW u \in ToSet(b)
            PROVE  work[u.node].priority <= work[t.node].priority
        <5>1. PICK j \in 1..(k - 1) : u = order[j]
          BY <4>1 DEF BatchOf, order
        <5>2. j \in 1..Cardinality(tasks) /\ j < k
          OBVIOUS
        <5>3. u \in tasks /\ RanksBefore(u, t)
          BY <1>1, <5>1, <5>2 DEF t
        <5>4. QED
          BY <1>2, <5>3, RanksOrder
      <4>2. QED
        BY <4>1
    <3>2. Len(b) < slots \/ Len(b) >= slots
      BY <1>2
    <3>3. QED
      BY <1>7, <3>1, <3>2 DEF LeftOut
  <2>3. \A u \in ToSet(b) : \E j \in 1..k : u = order[j]
    BY <1>4 DEF BatchOf, order
  <2>4. \A j \in 1..k : order[j] \in ToSet(b) \/ LeftOut(order[j], b, slots)
    BY <1>3, <2>2 DEF BatchOf, order, t
  <2>5. QED
    BY <2>1, <2>3, <2>4 DEF BatchOf, order, t
<1>8. QED
  BY <1>6, <1>7 DEF order, t

(* createBatch over all tasks. *)
LEMMA BatchFound ==
    ASSUME NEW tasks, TasksFormed(tasks), NEW slots \in Int
    PROVE  BatchOf(CreateBatch(tasks, slots), tasks, Cardinality(tasks), slots)
<1> DEFINE n == Cardinality(tasks)
<1>1. n \in Nat
  BY FS_CardinalityType DEF TasksFormed
<1>2. PICK f : /\ CreateBatch(tasks, slots) = f[n]
               /\ f[0] = <<>>
               /\ \A k \in 1..n : f[k] = WithNext(f[k - 1], TaskOrder(tasks)[k], slots)
  BY <1>1, CreateBatchIs
<1> DEFINE T == {k \in Nat : k <= n /\ ~BatchOf(f[k], tasks, k, slots)}
<1>3. SUFFICES ASSUME T # {} PROVE FALSE
  BY <1>1, <1>2
<1>4. PICK k \in T : \A l \in T : k <= l
  BY <1>3, LeastNumber
<1>5. k \in Nat /\ k <= n /\ ~BatchOf(f[k], tasks, k, slots)
  OBVIOUS
<1>6. CASE k = 0
  <2>1. <<>> \in Seq(tasks) /\ Len(<<>>) = 0 /\ ToSet(<<>>) = {}
    BY DEF ToSet
  <2>2. 1..0 = {}
    OBVIOUS
  <2>3. BatchOf(<<>>, tasks, 0, slots)
    BY <2>1, <2>2 DEF BatchOf
  <2>4. QED
    BY <1>2, <1>5, <1>6, <2>3
<1>7. CASE k # 0
  <2>1. k - 1 \in Nat /\ k - 1 <= n /\ k - 1 \notin T /\ k \in 1..n
    BY <1>1, <1>4, <1>5, <1>7
  <2>2. BatchOf(f[k - 1], tasks, k - 1, slots)
    BY <2>1
  <2>3. BatchOf(f[k], tasks, k, slots)
    BY <1>1, <1>2, <2>1, <2>2, BatchStep
  <2>4. QED
    BY <1>5, <2>3
<1>8. QED
  BY <1>6, <1>7

LEMMA SlotsCounted == AvailableSlots \in Int
<1>1. IsFiniteSet({i \in DispatchIds : dispatches[i].recorded})
  BY DispatchIdsAssumption, FS_Subset
<1>2. QED
  BY <1>1, DispatchIdsAssumption, FS_CardinalityType DEF AvailableSlots

(* What two tasks share by kind goes by their nodes and plans; tasks that are apart *)
(* share nothing.                                                                  *)
LEMMA SameShared ==
    ASSUME NEW t, NEW d, NEW e, d.node = e.node, d.plan = e.plan
    PROVE  SharedByKind(t, d) = SharedByKind(t, e)
BY DEF SharedByKind, ConflictKeys, ResourceKeys, WorktreeKeys, Writes, Class

LEMMA ApartShares ==
    ASSUME NEW t, NEW u, Apart(t, u)
    PROVE  SharedByKind(t, u) = {}
BY DEF Apart, SharedByKind

(* What is free of every active lease, as a selection sees it, shares nothing with *)
(* one.                                                                            *)
LEMMA ClearUnheld ==
    ASSUME NEW t, ~LeaseConflict(t)
    PROVE  KeysUnheld(t)
BY DEF LeaseConflict, KeysUnheld, SharedByKind, LeaseKeys, ConflictKeys, ResourceKeys,
       WorktreeKeys, AlikeKeys

-----------------------------------------------------------------------------
(* The round. *)

\* The dispatches of a later moment are those of an earlier one: some have ended,
\* some have released their lease.
Fades(before, after) ==
    \A i \in DispatchIds :
        /\ after[i].lease = "active" =>
              /\ before[i].lease = "active"
              /\ after[i].node = before[i].node /\ after[i].plan = before[i].plan
        /\ after[i].recorded => before[i].recorded

\* LeaseConflict and AvailableSlots, of the dispatches of another moment.
ConflictIn(all, t) ==
    \E i \in DispatchIds :
        /\ all[i].lease = "active"
        /\ (ConflictKeys(t) \cup ResourceKeys(t) \cup AlikeKeys(t))
              \cap LeaseKeys(all[i]) # {}

SlotsIn(all) ==
    Cardinality(DispatchIds) - Cardinality({i \in DispatchIds : all[i].recorded})

\* BatchMaximal, of the dispatches of the moment of the selection.
MaximalIn(all, tasks, selected) ==
    \A t \in tasks \ ToSet(selected) :
        \/ ConflictIn(all, t)
        \/ ConflictWithSelected(t, selected)
        \/ /\ Len(selected) >= SlotsIn(all)
           /\ \A u \in ToSet(selected) :
                work[u.node].priority <= work[t.node].priority

Unheld(selected) ==
    /\ \E S : selected \in Seq(S)
    /\ \A i \in 1..Len(selected) : KeysUnheld(selected[i])
    /\ \A i, j \in 1..Len(selected) :
          i # j => SharedByKind(selected[i], selected[j]) = {}

(* Two ways round, nothing has changed that a selection looks at. *)
LEMMA NothingFaded ==
    ASSUME NEW all, NEW now, Fades(all, now), Fades(now, all)
    PROVE  /\ \A t : ConflictIn(all, t) <=> ConflictIn(now, t)
           /\ SlotsIn(all) = SlotsIn(now)
<1>1. \A i \in DispatchIds :
        (all[i].lease = "active" \/ now[i].lease = "active") =>
            LeaseKeys(all[i]) = LeaseKeys(now[i])
  BY SameKeys DEF Fades
<1>2. {i \in DispatchIds : all[i].recorded} = {i \in DispatchIds : now[i].recorded}
  BY DEF Fades
<1>3. QED
  BY <1>1, <1>2 DEF Fades, ConflictIn, SlotsIn

(* What createBatch gives is maximal and meets no active lease. *)
LEMMA BatchGood ==
    ASSUME NEW tasks, TasksFormed(tasks)
    PROVE  /\ MaximalIn(dispatches, tasks, CreateBatch(tasks, AvailableSlots))
           /\ Unheld(CreateBatch(tasks, AvailableSlots))
<1> DEFINE b == CreateBatch(tasks, AvailableSlots)
           n == Cardinality(tasks)
<1>1. BatchOf(b, tasks, n, AvailableSlots)
  BY SlotsCounted, BatchFound
<1> HIDE DEF b
<1>2. \A t \in tasks : \E j \in 1..n : t = TaskOrder(tasks)[j]
  <2>1. /\ TaskOrder(tasks) \in [1..n -> tasks]
        /\ {TaskOrder(tasks)[j] : j \in DOMAIN TaskOrder(tasks)} = tasks
    BY TaskOrderSorted DEF Sorted, ToSet
  <2> HIDE DEF n
  <2>2. DOMAIN TaskOrder(tasks) = 1..n
    BY <2>1
  <2>3. QED
    BY <2>1, <2>2
<1>3. \A t \in tasks : t \in ToSet(b) \/ LeftOut(t, b, AvailableSlots)
  BY <1>1, <1>2 DEF BatchOf
<1>4. \A t : LeaseConflict(t) <=> ConflictIn(dispatches, t)
  BY DEF LeaseConflict, ConflictIn, ActiveLeases
<1>5. AvailableSlots = SlotsIn(dispatches)
  BY DEF AvailableSlots, SlotsIn
<1>6. MaximalIn(dispatches, tasks, b)
  BY <1>3, <1>4, <1>5 DEF MaximalIn, LeftOut
<1>7. /\ b \in Seq(tasks) /\ DOMAIN b = 1..Len(b)
      /\ \A i \in 1..Len(b) : b[i] \in tasks /\ b[i] \in ToSet(b)
  <2>1. b \in Seq(tasks)
    BY <1>1 DEF BatchOf
  <2>2. DOMAIN b = 1..Len(b) /\ \A i \in 1..Len(b) : b[i] \in tasks
    BY <2>1, LenProperties, ElementOfSeq
  <2>3. QED
    BY <2>1, <2>2 DEF ToSet
<1>8. \A i \in 1..Len(b) : KeysUnheld(b[i])
  BY <1>1, <1>7, ClearUnheld DEF BatchOf
<1>9. \A i, j \in 1..Len(b) : i # j => SharedByKind(b[i], b[j]) = {}
  BY <1>1, ApartShares DEF BatchOf
<1>10. QED
  BY <1>6, <1>7, <1>8, <1>9 DEF Unheld, b

RoundFields == {"step", "tasks", "seen", "selected"}

RoundInv ==
    /\ work \in FrontierWork /\ DOMAIN members = DOMAIN work
    /\ DOMAIN round = RoundFields
    /\ round.step \in {"compiled", "selected"} =>
          TasksFormed(round.tasks) /\ Fades(round.seen[3], dispatches)
    /\ round.step = "selected" =>
          \E all : /\ Fades(round.seen[3], all) /\ Fades(all, dispatches)
                   /\ MaximalIn(all, round.tasks, round.selected)
    /\ round.step = "admitted" => Unheld(round.selected) /\ round.selected # <<>>

LEMMA FadesOn ==
    ASSUME NEW a, NEW b, NEW c, Fades(a, b), Fades(b, c)
    PROVE  Fades(a, c)
BY DEF Fades

LEMMA WeakenedFades ==
    ASSUME LeaseInv, Weakened
    PROVE  Fades(dispatches, dispatches')
<1>1. PICK i, e : /\ i \in DispatchIds /\ Weaker(e, dispatches[i])
                 /\ dispatches' = [dispatches EXCEPT ![i] = e]
  BY DEF Weakened
<1>2. dispatches'[i] = e /\ \A j \in DispatchIds \ {i} : dispatches'[j] = dispatches[j]
  BY <1>1 DEF LeaseInv, AllFormed
<1>3. QED
  BY <1>1, <1>2 DEF Weaker, Fades

(* A frontier has one task of each ready node. *)
LEMMA FrontierFormed ==
    ASSUME RoundInv
    PROVE  TasksFormed(ReadyFrontier)
<1>1. /\ IsFiniteSet(DOMAIN work) /\ DOMAIN members = DOMAIN work
  BY GraphAssumption DEF RoundInv
<1>2. \A t \in ReadyFrontier : t.node \in DOMAIN work
  BY <1>1 DEF ReadyFrontier
<1>3. \A t, u \in ReadyFrontier : t.node = u.node => t = u
  BY DEF ReadyFrontier
<1> DEFINE f == [t \in ReadyFrontier |-> t.node]
<1>4. f \in Injection(ReadyFrontier, DOMAIN work)
  BY <1>2, <1>3 DEF Injection, IsInjective
<1> HIDE DEF f
<1>5. IsFiniteSet(ReadyFrontier)
  BY <1>1, <1>4, FS_Injection
<1>6. QED
  BY <1>2, <1>3, <1>5 DEF TasksFormed, RoundInv

(* What tasks share stays with the graph. *)
LEMMA SharedLater ==
    ASSUME UNCHANGED work
    PROVE  /\ \A t, u : SharedByKind(t, u)' = SharedByKind(t, u)
           /\ \A t : \A i \in DispatchIds :
                SharedByKind(t, dispatches[i])' = SharedByKind(t, dispatches'[i])
BY DEF SharedByKind, ConflictKeys, ResourceKeys, WorktreeKeys, AlikeKeys, Writes, Class

(* A step that leaves the round as it is and starts no dispatch. *)
LEMMA RoundStays ==
    ASSUME RoundInv, UNCHANGED <<work, round>>, DOMAIN members' = DOMAIN members,
           Fades(dispatches, dispatches')
    PROVE  RoundInv'
<1>0. \A t : /\ ConflictKeys(t)' = ConflictKeys(t) /\ ResourceKeys(t)' = ResourceKeys(t)
            /\ WorktreeKeys(t)' = WorktreeKeys(t) /\ LeaseKeys(t)' = LeaseKeys(t)
            /\ AlikeKeys(t)' = AlikeKeys(t)
  BY DEF LeaseKeys, ConflictKeys, ResourceKeys, WorktreeKeys, AlikeKeys, Writes, Class
<1>1. ASSUME round.step \in {"compiled", "selected"}
      PROVE  TasksFormed(round.tasks)' /\ Fades(round.seen[3], dispatches')
  <2>1. TasksFormed(round.tasks)'
    BY <1>1 DEF RoundInv, TasksFormed
  <2>2. QED
    BY <1>1, <2>1, FadesOn DEF RoundInv
<1>2. ASSUME round.step = "selected"
      PROVE  \E all : /\ Fades(round.seen[3], all) /\ Fades(all, dispatches')
                      /\ MaximalIn(all, round.tasks, round.selected)'
  <2>1. PICK all : /\ Fades(round.seen[3], all) /\ Fades(all, dispatches)
                   /\ MaximalIn(all, round.tasks, round.selected)
    BY <1>2 DEF RoundInv
  <2>2. MaximalIn(all, round.tasks, round.selected)'
    <3>1. \A t : ConflictIn(all, t)' <=> ConflictIn(all, t)
      BY <1>0 DEF ConflictIn
    <3>2. \A t : ConflictWithSelected(t, round.selected)' <=>
                  ConflictWithSelected(t, round.selected)
      BY <1>0 DEF ConflictWithSelected
    <3>3. SlotsIn(all)' = SlotsIn(all)
      BY DEF SlotsIn
    <3>4. QED
      BY <2>1, <3>1, <3>2, <3>3 DEF MaximalIn
  <2>3. QED
    BY <2>1, <2>2, FadesOn
<1>3. ASSUME round.step = "admitted" PROVE Unheld(round.selected)'
  <2>1. \A t, u : SharedByKind(t, u)' = SharedByKind(t, u)
    BY <1>0 DEF SharedByKind
  <2>2. ASSUME NEW t, KeysUnheld(t) PROVE KeysUnheld(t)'
    <3>1. ASSUME NEW i \in DispatchIds, dispatches'[i].lease = "active"
          PROVE  SharedByKind(t, dispatches'[i]) = {}
      <4>1. /\ dispatches[i].lease = "active" /\ dispatches'[i].node = dispatches[i].node
            /\ dispatches'[i].plan = dispatches[i].plan
        BY <3>1 DEF Fades
      <4>2. SharedByKind(t, dispatches'[i]) = SharedByKind(t, dispatches[i])
        BY <4>1, SameShared
      <4>3. QED
        BY <2>2, <4>1, <4>2 DEF KeysUnheld, ActiveLeases
    <3>2. QED
      BY <3>1, SharedLater DEF KeysUnheld, ActiveLeases
  <2>3. Unheld(round.selected)
    BY <1>3 DEF RoundInv
  <2>4. QED
    BY <2>1, <2>2, <2>3 DEF Unheld
<1>4. QED
  BY <1>1, <1>2, <1>3 DEF RoundInv, RoundFields

\* Back to a round that has not begun.
LEMMA NoRoundFits ==
    ASSUME RoundInv, UNCHANGED work, DOMAIN members' = DOMAIN members, round' = NoRound
    PROVE  RoundInv'
<1>1. DOMAIN NoRound = RoundFields /\ NoRound.step = "none"
  BY DEF NoRound, RoundFields
<1>2. QED
  BY <1>1 DEF RoundInv

LEMMA CompileKeeps ==
    ASSUME RoundInv, CompileFrontier
    PROVE  RoundInv'
<1>1. /\ DOMAIN round' = RoundFields /\ round'.step = "compiled"
      /\ round'.tasks = ReadyFrontier /\ round'.seen[3] = dispatches
  BY DEF CompileFrontier, NoRound, RoundFields, RuntimeInputs
<1>2. UNCHANGED <<work, members, dispatches>>
  BY DEF CompileFrontier
<1>3. TasksFormed(round.tasks)'
  BY <1>1, <1>2, FrontierFormed DEF TasksFormed
<1>4. Fades(dispatches, dispatches)
  BY DEF Fades
<1>5. QED
  BY <1>1, <1>2, <1>3, <1>4 DEF RoundInv

LEMMA SelectKeeps ==
    ASSUME RoundInv, SelectBatch
    PROVE  RoundInv'
<1>1. UNCHANGED <<work, members, dispatches>> /\ round.step = "compiled"
  BY DEF SelectBatch
<1>2. CASE round' = NoRound
  BY <1>1, <1>2, NoRoundFits
<1>3. CASE round' # NoRound
  <2>1. round' = [round EXCEPT !.step = "selected",
                               !.selected = CreateBatch(round.tasks, AvailableSlots)]
    BY <1>3 DEF SelectBatch, TasksBound
  <2>2. /\ DOMAIN round' = RoundFields /\ round'.step = "selected"
        /\ round'.selected = CreateBatch(round.tasks, AvailableSlots)
        /\ round'.tasks = round.tasks /\ round'.seen = round.seen
    <3>1. PICK b : b = CreateBatch(round.tasks, AvailableSlots)
      OBVIOUS
    <3>2. round' = [round EXCEPT !.step = "selected", !.selected = b]
      BY <2>1, <3>1
    <3>3. QED
      BY <3>1, <3>2 DEF RoundInv, RoundFields
  <2>3. TasksFormed(round.tasks) /\ Fades(round.seen[3], dispatches)
    BY <1>1 DEF RoundInv
  <2>4. MaximalIn(dispatches, round.tasks, CreateBatch(round.tasks, AvailableSlots))
    BY <2>3, BatchGood
  <2>5. TasksFormed(round.tasks)'
    BY <1>1, <2>2, <2>3 DEF TasksFormed
  <2>6. \A all, tasks, selected :
          MaximalIn(all, tasks, selected)' <=> MaximalIn(all, tasks, selected)
    <3>1. \A t : /\ ConflictKeys(t)' = ConflictKeys(t) /\ ResourceKeys(t)' = ResourceKeys(t)
                 /\ WorktreeKeys(t)' = WorktreeKeys(t) /\ LeaseKeys(t)' = LeaseKeys(t)
                 /\ AlikeKeys(t)' = AlikeKeys(t)
      BY <1>1 DEF LeaseKeys, ConflictKeys, ResourceKeys, WorktreeKeys, AlikeKeys, Writes,
                  Class
    <3>2. \A all, t : ConflictIn(all, t)' <=> ConflictIn(all, t)
      BY <3>1 DEF ConflictIn
    <3>3. \A t, selected :
            ConflictWithSelected(t, selected)' <=> ConflictWithSelected(t, selected)
      BY <3>1 DEF ConflictWithSelected
    <3>4. QED
      BY <1>1, <3>2, <3>3 DEF MaximalIn, SlotsIn
  <2>7. Fades(dispatches, dispatches)
    BY DEF Fades
  <2>8. \E all : /\ Fades(round'.seen[3], all) /\ Fades(all, dispatches')
                 /\ MaximalIn(all, round.tasks, round.selected)'
    BY <1>1, <2>2, <2>3, <2>4, <2>6, <2>7
  <2>9. QED
    BY <1>1, <2>2, <2>3, <2>5, <2>8 DEF RoundInv
<1>4. QED
  BY <1>2, <1>3

LEMMA AdmitKeeps ==
    ASSUME RoundInv, AdmitBatch
    PROVE  RoundInv'
<1>1. UNCHANGED <<work, members, dispatches>> /\ round.step = "selected"
  BY DEF AdmitBatch
<1>2. CASE round' = NoRound
  BY <1>1, <1>2, NoRoundFits
<1>3. CASE round' # NoRound
  <2>1. /\ round' = [round EXCEPT !.step = "admitted", !.tasks = {}, !.seen = <<>>]
        /\ round.selected = CreateBatch(round.tasks, AvailableSlots)
        /\ round.selected # <<>>
    BY <1>3 DEF AdmitBatch, BatchCurrent
  <2>2. /\ DOMAIN round' = RoundFields /\ round'.step = "admitted"
        /\ round'.selected = round.selected
    BY <2>1 DEF RoundInv, RoundFields
  <2>3. Unheld(round.selected)
    BY <1>1, <2>1, BatchGood DEF RoundInv
  <2>4. Unheld(round.selected)'
    <3>1. ActiveLeases' = ActiveLeases /\ ActiveLeases \subseteq DispatchIds
      BY <1>1 DEF ActiveLeases
    <3>2. PICK b : b = round.selected
      OBVIOUS
    <3>3. Unheld(b)'
      <4>1. Unheld(b)
        BY <2>3, <3>2
      <4>2. ASSUME NEW x, KeysUnheld(x) PROVE KeysUnheld(x)'
        BY <1>1, <3>1, <4>2, SharedLater DEF KeysUnheld
      <4>3. \A i \in 1..Len(b) : KeysUnheld(b[i])'
        BY <4>1, <4>2 DEF Unheld
      <4>4. \A i, j \in 1..Len(b) : i # j => SharedByKind(b[i], b[j])' = {}
        BY <1>1, <4>1, SharedLater DEF Unheld
      <4>5. QED
        BY <4>1, <4>3, <4>4 DEF Unheld
    <3>4. round'.selected = b
      BY <2>2, <3>2
    <3>5. QED
      BY <3>3, <3>4 DEF Unheld, KeysUnheld
  <2>5. QED
    BY <1>1, <2>1, <2>2, <2>4 DEF RoundInv
<1>4. QED
  BY <1>2, <1>3

(* The next task takes its lease: the others keep theirs free. *)
LEMMA StartKeeps ==
    ASSUME LeaseInv, RoundInv, StartDispatch
    PROVE  RoundInv'
<1> DEFINE t == Head(round.selected)
           e == [node |-> t.node, plan |-> t.plan, recorded |-> TRUE,
                 process |-> TRUE, expired |-> FALSE,
                 lease |-> IF LeaseKeys(t) = {} THEN "none" ELSE "active"]
<1>1. /\ UNCHANGED work /\ round.step = "admitted"
      /\ dispatches' = [dispatches EXCEPT ![NextId] = e]
      /\ DOMAIN members' = DOMAIN members
  BY DEF StartDispatch
<1>2. CASE round' = NoRound
  BY <1>1, <1>2, NoRoundFits
<1>3. CASE round' # NoRound
  <2>1. round' = [round EXCEPT !.selected = Tail(@)] /\ Len(round.selected) # 1
    BY <1>3 DEF StartDispatch
  <2>2. /\ DOMAIN round' = RoundFields /\ round'.step = "admitted"
        /\ round'.selected = Tail(round.selected)
    BY <1>1, <2>1 DEF RoundInv, RoundFields
  <2> DEFINE b == round.selected
  <2>0. PICK rest : rest = Tail(b)
    OBVIOUS
  <2>3. Unheld(b) /\ b # <<>>
    BY <1>1 DEF RoundInv
  <2>4. PICK S : b \in Seq(S)
    BY <2>3 DEF Unheld
  <2>5. /\ rest \in Seq(S) /\ Len(rest) = Len(b) - 1
        /\ \A i \in 1..Len(rest) : rest[i] = b[i + 1]
    BY <2>0, <2>3, <2>4, HeadTailProperties
  <2>6. Len(b) \in Nat /\ Len(b) # 0 /\ t = b[1]
    BY <2>3, <2>4, LenProperties, EmptySeq
  <2>7. rest # <<>>
    <3>1. Len(rest) # 0
      BY <2>1, <2>5, <2>6
    <3>2. QED
      BY <3>1
  <2>8. \A x : SharedByKind(x, e) = SharedByKind(x, t)
    BY SameShared
  <2>9. \A j \in DispatchIds : dispatches'[j] = IF j = NextId THEN e ELSE dispatches[j]
    BY <1>1 DEF LeaseInv, AllFormed
  <2> HIDE DEF b, e, t
  <2>10. \A i \in 1..Len(rest) : i + 1 \in 1..Len(b) /\ 1 \in 1..Len(b) /\ i + 1 # 1
    BY <2>5, <2>6
  <2>11. \A i \in 1..Len(rest) :
           KeysUnheld(rest[i]) /\ SharedByKind(rest[i], t) = {}
    BY <2>3, <2>5, <2>6, <2>10 DEF Unheld
  <2>12. ASSUME NEW i \in 1..Len(rest), NEW j \in 1..Len(rest), i # j
         PROVE  SharedByKind(rest[i], rest[j]) = {}
    <3>1. i + 1 # j + 1
      BY <2>12
    <3>2. QED
      BY <2>3, <2>5, <2>10, <3>1 DEF Unheld
  <2>13. ASSUME NEW x, KeysUnheld(x), SharedByKind(x, t) = {}
         PROVE  KeysUnheld(x)'
    <3>1. \A j \in DispatchIds : dispatches'[j].lease = "active" =>
            SharedByKind(x, dispatches'[j]) = {}
      BY <2>8, <2>9, <2>13 DEF KeysUnheld, ActiveLeases
    <3>2. QED
      BY <1>1, <3>1, SharedLater DEF KeysUnheld, ActiveLeases
  <2>14. \A i \in 1..Len(rest) : KeysUnheld(rest[i])'
    BY <2>11, <2>13
  <2>15. \A i, j \in 1..Len(rest) : i # j => SharedByKind(rest[i], rest[j])' = {}
    BY <1>1, <2>12, SharedLater
  <2>16. round'.selected = rest
    BY <2>0, <2>2 DEF b
  <2>17. Unheld(round.selected)'
    BY <2>5, <2>14, <2>15, <2>16 DEF Unheld
  <2>18. QED
    BY <1>1, <2>2, <2>7, <2>16, <2>17 DEF RoundInv
<1>4. QED
  BY <1>2, <1>3

LEMMA RoundStarts == FrontierInit => RoundInv
<1> SUFFICES ASSUME FrontierInit PROVE RoundInv
  OBVIOUS
<1>1. DOMAIN round = RoundFields /\ round.step = "none"
  BY DEF FrontierInit, NoRound, RoundFields
<1>2. work \in FrontierWork /\ DOMAIN members = DOMAIN work
  BY DEF FrontierInit
<1>3. QED
  BY <1>1, <1>2 DEF RoundInv

LEMMA RoundKept == LeaseInv /\ RoundInv /\ [FrontierNext]_frontierVars => RoundInv'
<1> SUFFICES ASSUME LeaseInv, RoundInv, [FrontierNext]_frontierVars PROVE RoundInv'
  OBVIOUS
<1>1. CASE \/ FactsDrift \/ RemoteFactsAge \/ UNCHANGED frontierVars
           \/ \E n \in DOMAIN members :
                PrepareCandidate(n) \/ GraphRebound(n) \/ NodeChanges(n)
  <2>1. /\ UNCHANGED <<work, round, dispatches>> /\ DOMAIN members' = DOMAIN members
    BY <1>1 DEF FactsDrift, RemoteFactsAge, frontierVars, PrepareCandidate, GraphRebound,
                NodeChanges
  <2>2. Fades(dispatches, dispatches')
    BY <2>1 DEF Fades
  <2>3. QED
    BY <2>1, <2>2, RoundStays
<1>2. ASSUME NEW i \in DispatchIds, DispatchStep(i) PROVE RoundInv'
  <2>1. UNCHANGED <<work, round>> /\ DOMAIN members' = DOMAIN members
    BY <1>2 DEF DispatchStep, DispatchEnds, DispatchLost, DispatchDeclared, LeaseExpires,
                RecoverLease
  <2>2. Fades(dispatches, dispatches')
    BY <1>2, DispatchWeakens, WeakenedFades
  <2>3. QED
    BY <2>1, <2>2, RoundStays
<1>3. ASSUME LeaseRefused PROVE RoundInv'
  BY <1>3, NoRoundFits DEF LeaseRefused
<1>4. QED
  BY <1>1, <1>2, <1>3, CompileKeeps, SelectKeeps, AdmitKeeps, StartKeeps
     DEF FrontierNext, DispatchStep

(* A batch leaves a task out only for one of the selector's reasons, and never takes *)
(* one that another excludes; what is admitted meets no active lease on a key of one *)
(* of its kinds for as long as the scheduler needs to start it: nodes end, are       *)
(* declared terminal and lose their leases meanwhile, and every start takes the      *)
(* lease of its keys from under the tasks that wait.                                 *)
THEOREM DispatchesStayApart == FrontierSpec => []DispatchedApart
<1>1. LeaseInv => RunningApart
  BY DEF LeaseInv, Held, Overlap, RunningApart
<1>2. RoundInv => AdmittedApart
  <2> SUFFICES ASSUME RoundInv, round.step = "admitted", NEW t \in ToSet(round.selected)
               PROVE  KeysUnheld(t)
    BY DEF AdmittedApart
  <2>1. Unheld(round.selected)
    BY DEF RoundInv
  <2>2. PICK S : round.selected \in Seq(S)
    BY <2>1 DEF Unheld
  <2>3. DOMAIN round.selected = 1..Len(round.selected)
    BY <2>2, LenProperties
  <2>4. QED
    BY <2>1, <2>3 DEF Unheld, ToSet
<1>3. RoundInv => BatchMaximal
  <2> SUFFICES ASSUME RoundInv, round.step = "selected", FrontierCurrent
               PROVE  MaximalIn(dispatches, round.tasks, round.selected)
    BY DEF BatchMaximal, MaximalIn, ConflictIn, SlotsIn, LeaseConflict, ActiveLeases,
           AvailableSlots
  <2>1. round.seen[3] = dispatches
    BY DEF FrontierCurrent, RuntimeInputs
  <2>2. PICK all : /\ Fades(dispatches, all) /\ Fades(all, dispatches)
                   /\ MaximalIn(all, round.tasks, round.selected)
    BY <2>1 DEF RoundInv
  <2>3. QED
    BY <2>2, NothingFaded DEF MaximalIn
<1>4. QED
  BY <1>1, <1>2, <1>3, LeaseStarts, LeaseKept, RoundStarts, RoundKept, PTL
     DEF FrontierSpec, DispatchedApart

-----------------------------------------------------------------------------
(***************************************************************************)
(* Theorems about the execution of writers, for every set of writers.      *)
(***************************************************************************)

ExecutionFields ==
    {"step", "stage", "head", "dog", "lease", "edited", "strayed", "before",
     "outcome", "disturbed", "judgedOn"}
DogFields ==
    {"state", "artifact", "command", "reads", "calls", "length", "persisted"}

\* A watchdog that has ended was the last to write to its trace.
DogSound(d) ==
    /\ DOMAIN d = DogFields
    /\ d.state \in Ended => d.persisted = d.length + 1

\* What ResultsStand says, on the commit HEAD was on when it was judged.
StandsOn(x, head) ==
    /\ "event" \notin x.disturbed
    /\ "candidate" \in x.disturbed =>
         /\ ExecutionClass(x.stage) = "leased-writer"
         /\ head = x.before.candidate
    /\ ExecutionClass(x.stage) = "leased-writer" =>
         x.dog.persisted = x.dog.length + 1

\* What was disturbed since the first snapshot shows against it, and will: no
\* event is taken back, and a branch that is frozen is not moved.
Shows(x, refs, control) ==
    /\ x.before.candidate # "frozen"
    /\ x.before.control.events \in Nat
    /\ x.before.control.events <= control.events
    /\ "event" \in x.disturbed => x.before.control.events < control.events
    /\ \A f \in Executions : x.before.refs[f] = "frozen" => refs[f] = "frozen"
    /\ "candidate" \in x.disturbed =>
         \E f \in Executions : refs[f] = "frozen" /\ x.before.refs[f] # "frozen"

ExecutionSound(x, refs, control) ==
    /\ DOMAIN x = ExecutionFields
    /\ DogSound(x.dog)
    /\ x.step \in Running => Shows(x, refs, control)
    /\ x.step \in {"freezing", "sealed"} => StandsOn(x, x.judgedOn)
    /\ x.step \notin Running \cup {"freezing", "sealed"} => x.disturbed = {}

AllSound(xs, refs, control) ==
    /\ xs = [e \in Executions |-> xs[e]]
    /\ \A e \in Executions : ExecutionSound(xs[e], refs, control)

\* Refs and control state have a place for everything, and a frozen branch is
\* one of a writer whose candidate is sealed.
Placed(refs, control) ==
    /\ DOMAIN refs = Executions \cup {"shared"}
    /\ DOMAIN control = {"events", "stray"}
    /\ control.events \in Nat

Kept(xs, refs) ==
    \A f \in Executions : refs[f] = "frozen" => xs[f].step \in {"sealed", "settled"}

ExecutionInv ==
    /\ Placed(repositoryRefs, controlState)
    /\ AllSound(executions, repositoryRefs, controlState)
    /\ Kept(executions, repositoryRefs)

-----------------------------------------------------------------------------
(* The watchdog. *)

LEMMA NewWatchdogSound == DogSound(NewWatchdog)
BY DEF DogSound, DogFields, NewWatchdog, Ended

LEMMA CountedSound ==
    ASSUME NEW d, NEW v, DOMAIN d = DogFields
    PROVE  DOMAIN Counted(d, v) = DogFields /\ Counted(d, v).state = d.state
<1>1. PICK length, calls, reads :
        Counted(d, v) = [d EXCEPT !.length = length, !.calls = calls, !.reads = reads]
  BY DEF Counted
<1>2. QED
  BY <1>1 DEF DogFields

LEMMA FinishedSound ==
    ASSUME NEW d, NEW state, DOMAIN d = DogFields
    PROVE  DogSound(Finished(d, state))
<1>1. PICK persisted : persisted = d.length + 1
  OBVIOUS
<1>2. Finished(d, state) = [d EXCEPT !.state = state, !.persisted = persisted]
  BY <1>1 DEF Finished
<1>3. QED
  BY <1>1, <1>2 DEF DogSound, DogFields

LEMMA CancelledSound ==
    ASSUME NEW d, DOMAIN d = DogFields, d.state \notin Ended
    PROVE  DogSound(Cancelled(d))
BY FinishedSound DEF Cancelled

LEMMA AdvancedSound ==
    ASSUME NEW d, NEW v, DOMAIN d = DogFields, d.state \notin Ended
    PROVE  DogSound(Advanced(d, v))
<1>1. CASE v.type = "filesystem-write"
  <2>1. Advanced(d, v) = [d EXCEPT !.artifact = TRUE, !.state = "productive"]
    BY <1>1 DEF Advanced
  <2>2. QED
    BY <2>1 DEF DogSound, DogFields, Ended
<1>2. CASE v.type = "command-start"
  <2>1. Advanced(d, v) = [d EXCEPT !.command = TRUE]
    BY <1>2 DEF Advanced
  <2>2. QED
    BY <2>1 DEF DogSound, DogFields
<1>3. CASE v.type = "checkpoint-receipt"
  <2>1. Advanced(d, v) = Finished(d, "checkpoint-received")
    BY <1>3 DEF Advanced
  <2>2. QED
    BY <2>1, FinishedSound
<1>4. CASE v.type = "terminal-receipt"
  <2>1. Advanced(d, v) = Finished(d, "completed")
    BY <1>4 DEF Advanced
  <2>2. QED
    BY <2>1, FinishedSound
<1>5. CASE v.type \notin {"filesystem-write", "command-start", "checkpoint-receipt",
                          "terminal-receipt"}
  <2>1. Advanced(d, v) = d
    BY <1>5 DEF Advanced
  <2>2. QED
    BY <2>1 DEF DogSound
<1>6. QED
  BY <1>1, <1>2, <1>3, <1>4, <1>5

LEMMA ObservedSound ==
    ASSUME NEW d, NEW v, DogSound(d), ~Throws(d, v)
    PROVE  DogSound(Observed(d, v))
<1> DEFINE c == Counted(d, v)
<1>1. DOMAIN d = DogFields /\ d.state \notin Ended /\ v.trusted
  BY DEF DogSound, Throws
<1>2. DOMAIN c = DogFields /\ c.state \notin Ended
  BY <1>1, CountedSound
<1>3. Observed(d, v) = Cancelled(c) \/ Observed(d, v) = Advanced(c, v)
  BY <1>1 DEF Observed
<1> HIDE DEF c
<1>4. QED
  BY <1>2, <1>3, CancelledSound, AdvancedSound

-----------------------------------------------------------------------------
(* Steps of one execution, and steps that all can see. *)

\* What is frozen and recorded is still there later.
Later(refs, control, refs2, control2) ==
    /\ control.events <= control2.events
    /\ \A f \in Executions : refs[f] = "frozen" => refs2[f] = "frozen"

LEMMA LaterSound ==
    ASSUME NEW x, NEW refs, NEW control, NEW refs2, NEW control2,
           ExecutionSound(x, refs, control), Later(refs, control, refs2, control2),
           control.events \in Nat, control2.events \in Nat
    PROVE  ExecutionSound(x, refs2, control2)
<1>1. ASSUME x.step \in Running PROVE Shows(x, refs2, control2)
  <2>1. Shows(x, refs, control)
    BY <1>1 DEF ExecutionSound
  <2>2. QED
    BY <2>1 DEF Shows, Later
<1>2. QED
  BY <1>1 DEF ExecutionSound

LEMMA PutStep ==
    ASSUME ExecutionInv, NEW e \in Executions, NEW x, Put(e, x),
           Placed(repositoryRefs', controlState'),
           Later(repositoryRefs, controlState, repositoryRefs', controlState'),
           ExecutionSound(x, repositoryRefs', controlState'),
           \A f \in Executions \ {e} : repositoryRefs'[f] = repositoryRefs[f],
           repositoryRefs'[e] = "frozen" => x.step \in {"sealed", "settled"}
    PROVE  ExecutionInv'
<1>1. \A f \in Executions : executions'[f] = IF f = e THEN x ELSE executions[f]
  BY DEF ExecutionInv, AllSound, Put
<1>2. executions' = [f \in Executions |-> executions'[f]]
  BY DEF ExecutionInv, AllSound, Put
<1>3. \A f \in Executions : ExecutionSound(executions[f], repositoryRefs', controlState')
  BY LaterSound DEF ExecutionInv, AllSound, Placed
<1>4. \A f \in Executions : ExecutionSound(executions'[f], repositoryRefs', controlState')
  BY <1>1, <1>3
<1>5. Kept(executions', repositoryRefs')
  BY <1>1 DEF ExecutionInv, Kept
<1>6. QED
  BY <1>2, <1>4, <1>5 DEF ExecutionInv, AllSound

(* Of an execution that is not sealed the branch is not frozen. *)
LEMMA NotFrozen ==
    ASSUME ExecutionInv, NEW e \in Executions,
           executions[e].step \notin {"sealed", "settled"}
    PROVE  repositoryRefs[e] # "frozen"
BY DEF ExecutionInv, Kept

LEMMA SamePutStep ==
    ASSUME ExecutionInv, NEW e \in Executions, NEW x, Put(e, x), Same,
           executions[e].step \notin {"sealed", "settled"},
           ExecutionSound(x, repositoryRefs, controlState)
    PROVE  ExecutionInv'
<1>1. UNCHANGED <<repositoryRefs, controlState>>
  BY DEF Same
<1>2. Placed(repositoryRefs', controlState')
  BY <1>1 DEF ExecutionInv
<1>3. Later(repositoryRefs, controlState, repositoryRefs', controlState')
  BY <1>1 DEF ExecutionInv, Placed, Later
<1>4. QED
  BY <1>1, <1>2, <1>3, NotFrozen, PutStep

(* A worktree is put on a commit that is not frozen yet. *)
LEMMA WorktreeStep ==
    ASSUME ExecutionInv, NEW e \in Executions,
           executions[e].step \notin {"sealed", "settled"},
           NEW head, head # "frozen", WorktreeOn(e, head), UNCHANGED controlState
    PROVE  /\ Placed(repositoryRefs', controlState')
           /\ Later(repositoryRefs, controlState, repositoryRefs', controlState')
           /\ \A f \in Executions \ {e} : repositoryRefs'[f] = repositoryRefs[f]
           /\ repositoryRefs'[e] = head
<1>1. /\ DOMAIN repositoryRefs' = DOMAIN repositoryRefs
      /\ \A f \in Executions \ {e} : repositoryRefs'[f] = repositoryRefs[f]
      /\ repositoryRefs'[e] = head
  BY DEF WorktreeOn, ExecutionInv, Placed
<1>2. repositoryRefs[e] # "frozen"
  BY NotFrozen
<1>3. QED
  BY <1>1, <1>2 DEF ExecutionInv, Placed, Later

(* What is written for good shows in each execution that runs. *)
LEMMA DisturbedSound ==
    ASSUME NEW x, NEW y, NEW refs, NEW control, NEW refs2, NEW control2, NEW what,
           ExecutionSound(x, refs, control), Later(refs, control, refs2, control2),
           control.events \in Nat, control2.events \in Nat,
           what \in {"event", "candidate"},
           what = "event" => control.events < control2.events,
           what = "candidate" =>
             \E f \in Executions : refs2[f] = "frozen" /\ refs[f] # "frozen",
           y = IF x.step \in Running THEN [x EXCEPT !.disturbed = @ \cup {what}]
               ELSE x
    PROVE  ExecutionSound(y, refs2, control2)
<1>0. ExecutionSound(x, refs2, control2)
  BY LaterSound
<1>1. CASE x.step \in Running
  <2>1. PICK seen : seen = x.disturbed \cup {what}
    OBVIOUS
  <2>2. y = [x EXCEPT !.disturbed = seen]
    BY <1>1, <2>1
  <2>3. /\ DOMAIN y = ExecutionFields /\ y.before = x.before /\ y.dog = x.dog
        /\ y.step = x.step /\ y.disturbed = x.disturbed \cup {what}
    BY <2>1, <2>2 DEF ExecutionSound, ExecutionFields
  <2>4. y.step \notin {"freezing", "sealed"}
    BY <1>1, <2>3 DEF Running
  <2>5. Shows(x, refs, control) /\ Shows(x, refs2, control2)
    BY <1>0, <1>1 DEF ExecutionSound
  <2>6. ASSUME what = "event" PROVE Shows(y, refs2, control2)
    <3>1. x.before.control.events < control2.events
      BY <2>5, <2>6 DEF Shows
    <3>2. QED
      BY <2>3, <2>5, <2>6, <3>1 DEF Shows
  <2>7. ASSUME what = "candidate" PROVE Shows(y, refs2, control2)
    <3>1. \E f \in Executions : refs2[f] = "frozen" /\ x.before.refs[f] # "frozen"
      BY <2>5, <2>7 DEF Shows
    <3>2. QED
      BY <2>3, <2>5, <2>7, <3>1 DEF Shows
  <2>8. Shows(y, refs2, control2)
    BY <2>6, <2>7
  <2>9. QED
    BY <1>0, <1>1, <2>3, <2>4, <2>8 DEF ExecutionSound
<1>2. CASE x.step \notin Running
  BY <1>0, <1>2
<1>3. QED
  BY <1>1, <1>2

LEMMA DisturbingStep ==
    ASSUME ExecutionInv, NEW what \in {"event", "candidate"}, NEW after,
           AllSound(after, repositoryRefs, controlState),
           executions' = Disturbing(what, after),
           Placed(repositoryRefs', controlState'),
           Later(repositoryRefs, controlState, repositoryRefs', controlState'),
           what = "event" => controlState.events < controlState'.events,
           what = "candidate" =>
             \E f \in Executions :
               repositoryRefs'[f] = "frozen" /\ repositoryRefs[f] # "frozen",
           Kept(after, repositoryRefs')
    PROVE  ExecutionInv'
<1>1. \A f \in Executions :
        executions'[f] = IF after[f].step \in Running
                         THEN [after[f] EXCEPT !.disturbed = @ \cup {what}]
                         ELSE after[f]
  BY DEF Disturbing
<1>2. ASSUME NEW f \in Executions
      PROVE  ExecutionSound(executions'[f], repositoryRefs', controlState')
  <2>1. ExecutionSound(after[f], repositoryRefs, controlState)
    BY DEF AllSound
  <2>2. controlState.events \in Nat /\ controlState'.events \in Nat
    BY DEF ExecutionInv, Placed
  <2>3. QED
    BY <1>1, <2>1, <2>2, DisturbedSound
<1>3. executions' = [f \in Executions |-> executions'[f]]
  BY DEF Disturbing
<1>4. Kept(executions', repositoryRefs')
  BY <1>1 DEF Kept, Running
<1>5. QED
  BY <1>2, <1>3, <1>4 DEF ExecutionInv, AllSound

(* An event is recorded. *)
LEMMA EventStep ==
    ASSUME ExecutionInv, NEW after, AllSound(after, repositoryRefs, controlState),
           Kept(after, repositoryRefs), executions' = Disturbing("event", after),
           controlState' = [controlState EXCEPT !.events = @ + 1],
           UNCHANGED repositoryRefs
    PROVE  ExecutionInv'
<1>1. PICK n : n = controlState.events + 1
  OBVIOUS
<1>2. controlState' = [controlState EXCEPT !.events = n]
  BY <1>1
<1>3. /\ Placed(repositoryRefs, controlState) /\ controlState.events \in Nat
      /\ DOMAIN controlState' = {"events", "stray"} /\ controlState'.events = n
  BY <1>2 DEF ExecutionInv, Placed
<1>4. Placed(repositoryRefs', controlState')
  BY <1>1, <1>3 DEF Placed
<1>5. Later(repositoryRefs, controlState, repositoryRefs', controlState')
  BY <1>1, <1>3 DEF Later
<1>6. QED
  BY <1>1, <1>3, <1>4, <1>5, DisturbingStep

LEMMA OverSound ==
    ASSUME NEW step \in {"rejected", "failed", "settled"}, NEW refs, NEW control
    PROVE  ExecutionSound(Over(step), refs, control)
<1>1. PICK x : x = Over(step)
  OBVIOUS
<1>2. /\ DOMAIN x = ExecutionFields /\ x.step = step /\ x.disturbed = {}
      /\ x.dog = NewWatchdog
  BY <1>1 DEF Over, NewExecution, ExecutionFields
<1>3. QED
  BY <1>1, <1>2, NewWatchdogSound DEF ExecutionSound, Running

LEMMA ExecutionIs ==
    ASSUME ExecutionInv, NEW e \in Executions
    PROVE  /\ ExecutionSound(executions[e], repositoryRefs, controlState)
           /\ DOMAIN executions[e] = ExecutionFields
BY DEF ExecutionInv, AllSound, ExecutionSound

(* What of an execution its soundness is about is what it was. *)
LEMMA SameSound ==
    ASSUME NEW x, NEW y, NEW refs, NEW control,
           ExecutionSound(x, refs, control), DOMAIN y = ExecutionFields,
           y.step = x.step, y.stage = x.stage, y.before = x.before,
           y.disturbed = x.disturbed, y.judgedOn = x.judgedOn, y.dog = x.dog
    PROVE  ExecutionSound(y, refs, control)
BY DEF ExecutionSound, Shows, StandsOn

-----------------------------------------------------------------------------
(* The steps. *)

LEMMA WaveStep == ExecutionInv /\ StartWave => ExecutionInv'
<1> SUFFICES ASSUME ExecutionInv, StartWave PROVE ExecutionInv'
  OBVIOUS
<1>1. PICK wave, stages :
        /\ wave \in SUBSET InStep({"idle"})
        /\ executions' = Disturbing("event",
             [e \in Executions |->
                IF e \in wave THEN [executions[e] EXCEPT !.step = "dispatched",
                                                         !.stage = stages[e]]
                ELSE executions[e]])
        /\ controlState' = [controlState EXCEPT !.events = @ + 1]
        /\ UNCHANGED repositoryRefs
  BY DEF StartWave
<1>2. PICK after :
        after = [e \in Executions |->
                   IF e \in wave THEN [executions[e] EXCEPT !.step = "dispatched",
                                                            !.stage = stages[e]]
                   ELSE executions[e]]
  OBVIOUS
<1>3. ASSUME NEW e \in Executions
      PROVE  /\ ExecutionSound(after[e], repositoryRefs, controlState)
             /\ executions[e].step \in {"sealed", "settled"} => after[e] = executions[e]
  <2>1. ExecutionSound(executions[e], repositoryRefs, controlState)
    BY ExecutionIs
  <2>2. CASE e \in wave
    <3>1. PICK s : s = stages[e]
      OBVIOUS
    <3>2. after[e] = [executions[e] EXCEPT !.step = "dispatched", !.stage = s]
      BY <1>2, <2>2, <3>1
    <3>3. executions[e].step = "idle"
      BY <1>1, <2>2 DEF InStep
    <3>4. /\ DOMAIN after[e] = ExecutionFields /\ after[e].step = "dispatched"
          /\ after[e].dog = executions[e].dog
          /\ after[e].disturbed = executions[e].disturbed
      BY <2>1, <3>2 DEF ExecutionSound, ExecutionFields
    <3>5. QED
      BY <2>1, <3>3, <3>4 DEF ExecutionSound, Running
  <2>3. CASE e \notin wave
    BY <1>2, <2>1, <2>3
  <2>4. QED
    BY <2>2, <2>3
<1>4. AllSound(after, repositoryRefs, controlState)
  BY <1>2, <1>3 DEF AllSound
<1>5. Kept(after, repositoryRefs)
  BY <1>3 DEF ExecutionInv, Kept
<1>6. executions' = Disturbing("event", after)
  BY <1>1, <1>2
<1>7. QED
  BY <1>1, <1>4, <1>5, <1>6, EventStep

(* HEAD of a worktree is not on a frozen candidate before its own is frozen. *)
LEMMA HeadsFacts ==
    ASSUME NEW recorded, recorded # "frozen", NEW head \in Heads(recorded)
    PROVE  head # "frozen"
BY CommitAssumption DEF Heads

(* Launched: nothing is disturbed yet. *)
LEMMA LaunchedStep ==
    ASSUME ExecutionInv, NEW e \in Executions,
           executions[e].step \in {"authorised", "dispatched"},
           NEW recorded \in {"none", "base", "candidate"}, NEW head \in Heads(recorded),
           WorktreeOn(e, head), UNCHANGED controlState,
           \/ Put(e, Over("rejected"))
           \/ Put(e, [Snapshot(executions[e], recorded, head) EXCEPT !.step = "running"])
    PROVE  ExecutionInv'
<1>1. head # "frozen" /\ recorded # "frozen"
  BY HeadsFacts
<1>2. /\ Placed(repositoryRefs', controlState')
      /\ Later(repositoryRefs, controlState, repositoryRefs', controlState')
      /\ \A f \in Executions \ {e} : repositoryRefs'[f] = repositoryRefs[f]
      /\ repositoryRefs'[e] = head
  BY <1>1, WorktreeStep
<1>3. ExecutionSound(executions[e], repositoryRefs, controlState)
  BY ExecutionIs
<1>4. CASE Put(e, Over("rejected"))
  BY <1>1, <1>2, <1>4, OverSound, PutStep
<1>5. CASE Put(e, [Snapshot(executions[e], recorded, head) EXCEPT !.step = "running"])
  <2>1. PICK b : b = [candidate |-> recorded, head |-> head,
                      refs |-> repositoryRefs', control |-> controlState]
    OBVIOUS
  <2>2. PICK y : y = [[executions[e] EXCEPT !.head = head, !.before = b]
                        EXCEPT !.step = "running"]
    OBVIOUS
  <2>3. Put(e, y)
    BY <1>5, <2>1, <2>2 DEF Snapshot
  <2>4. /\ DOMAIN y = ExecutionFields /\ y.step = "running" /\ y.before = b
        /\ y.dog = executions[e].dog /\ y.disturbed = executions[e].disturbed
    BY <1>3, <2>2 DEF ExecutionSound, ExecutionFields
  <2>5. executions[e].disturbed = {}
    BY <1>3 DEF ExecutionSound, Running
  <2>6. /\ b.candidate = recorded /\ b.refs = repositoryRefs'
        /\ b.control = controlState'
    BY <2>1
  <2>7. controlState'.events \in Nat
    BY <1>2 DEF Placed
  <2>8. Shows(y, repositoryRefs', controlState')
    BY <1>1, <2>4, <2>5, <2>6, <2>7 DEF Shows
  <2>9. ExecutionSound(y, repositoryRefs', controlState')
    BY <1>3, <2>4, <2>8 DEF ExecutionSound, Running
  <2>10. QED
    BY <1>1, <1>2, <2>3, <2>9, PutStep
<1>6. QED
  BY <1>4, <1>5

(* Up to the launch. *)
LEMMA BeforeStep ==
    ASSUME ExecutionInv, NEW e \in Executions,
           Authorise(e) \/ Launch(e) \/ LaunchInspection(e) \/ RefuseStale(e)
    PROVE  ExecutionInv'
<1>0. ExecutionSound(executions[e], repositoryRefs, controlState)
  BY ExecutionIs
<1>1. CASE RefuseStale(e)
  BY <1>1, OverSound, SamePutStep DEF RefuseStale
<1>2. CASE Authorise(e)
  <2>1. PICK x : x = [executions[e] EXCEPT !.step = "authorised", !.lease = TRUE]
    OBVIOUS
  <2>2. Put(e, x) /\ Same /\ executions[e].step = "dispatched"
    BY <1>2, <2>1 DEF Authorise
  <2>3. /\ DOMAIN x = ExecutionFields /\ x.step = "authorised"
        /\ x.dog = executions[e].dog /\ x.disturbed = executions[e].disturbed
    BY <1>0, <2>1 DEF ExecutionSound, ExecutionFields
  <2>4. ExecutionSound(x, repositoryRefs, controlState)
    BY <1>0, <2>2, <2>3 DEF ExecutionSound, Running
  <2>5. QED
    BY <2>2, <2>4, SamePutStep
<1>3. \A s : CandidateIdentities(s) \subseteq {"none", "base", "candidate"}
  BY DEF CandidateIdentities
<1>4. CASE Launch(e)
  <2>1. PICK recorded \in CandidateIdentities(executions[e].stage) :
          \E head \in Heads(recorded) :
            /\ WorktreeOn(e, head)
            /\ \/ Put(e, Over("rejected"))
               \/ Put(e, [Snapshot(executions[e], recorded, head)
                            EXCEPT !.step = "running"])
    BY <1>4 DEF Launch
  <2>2. executions[e].step = "authorised" /\ UNCHANGED controlState
    BY <1>4 DEF Launch
  <2>3. QED
    BY <1>3, <2>1, <2>2, LaunchedStep
<1>5. CASE LaunchInspection(e)
  <2>1. PICK recorded \in CandidateIdentities(executions[e].stage) :
          \E head \in Heads(recorded) :
            /\ WorktreeOn(e, head)
            /\ \/ Put(e, Over("rejected"))
               \/ Put(e, [Snapshot(executions[e], recorded, head)
                            EXCEPT !.step = "running"])
    BY <1>5 DEF LaunchInspection
  <2>2. executions[e].step = "dispatched" /\ UNCHANGED controlState
    BY <1>5 DEF LaunchInspection
  <2>3. QED
    BY <1>3, <2>1, <2>2, LaunchedStep
<1>6. QED
  BY <1>1, <1>2, <1>4, <1>5

(* While the actor runs. *)
LEMMA ActorStep ==
    ASSUME ExecutionInv, NEW e \in Executions,
           ActorEdits(e) \/ ActorReturns(e) \/ ActorThrows(e) \/ LeaseLost(e)
    PROVE  ExecutionInv'
<1> DEFINE x == executions[e]
<1>0. ExecutionSound(x, repositoryRefs, controlState) /\ DOMAIN x = ExecutionFields
  BY ExecutionIs
<1>1. CASE ActorEdits(e)
  <2>1. PICK y : /\ y = [x EXCEPT !.edited = TRUE] \/ y = [x EXCEPT !.strayed = ~@]
                 /\ Put(e, y) /\ Same /\ x.step \in Running
    BY <1>1 DEF ActorEdits
  <2>2. /\ DOMAIN y = ExecutionFields
        /\ y.step = x.step /\ y.stage = x.stage /\ y.before = x.before
        /\ y.disturbed = x.disturbed /\ y.judgedOn = x.judgedOn /\ y.dog = x.dog
    BY <1>0, <2>1 DEF ExecutionFields
  <2>3. ExecutionSound(y, repositoryRefs, controlState)
    BY <1>0, <2>2, SameSound
  <2>4. QED
    BY <2>1, <2>3, SamePutStep DEF Running
<1>2. CASE LeaseLost(e)
  <2>1. PICK y : /\ y = [x EXCEPT !.lease = FALSE]
                 /\ Put(e, y) /\ Same /\ x.step \in Running
    BY <1>2 DEF LeaseLost
  <2>2. /\ DOMAIN y = ExecutionFields
        /\ y.step = x.step /\ y.stage = x.stage /\ y.before = x.before
        /\ y.disturbed = x.disturbed /\ y.judgedOn = x.judgedOn /\ y.dog = x.dog
    BY <1>0, <2>1 DEF ExecutionFields
  <2>3. ExecutionSound(y, repositoryRefs, controlState)
    BY <1>0, <2>2, SameSound
  <2>4. QED
    BY <2>1, <2>3, SamePutStep DEF Running
<1>3. CASE ActorReturns(e)
  <2>1. PICK y, outcome : /\ y = [x EXCEPT !.step = "returned", !.outcome = outcome]
                          /\ Put(e, y) /\ Same /\ x.step = "running"
    BY <1>3 DEF ActorReturns
  <2>2. /\ DOMAIN y = ExecutionFields
        /\ y.step = "returned" /\ y.before = x.before
        /\ y.disturbed = x.disturbed /\ y.dog = x.dog
    BY <1>0, <2>1 DEF ExecutionFields
  <2>3. ExecutionSound(y, repositoryRefs, controlState)
    BY <1>0, <2>1, <2>2 DEF ExecutionSound, Running, Shows
  <2>4. QED
    BY <2>1, <2>3, SamePutStep
<1>4. CASE ActorThrows(e)
  <2>1. PICK step \in {"failed", "rejected"} :
          Put(e, Over(step)) /\ Same /\ x.step = "running"
    BY <1>4 DEF ActorThrows
  <2>2. QED
    BY <2>1, OverSound, SamePutStep
<1>5. QED
  BY <1>1, <1>2, <1>3, <1>4

(* What the actor does to refs and files, and may take back. *)
LEMMA StrayStep ==
    ASSUME ExecutionInv, NEW e \in Executions,
           ActorMovesHead(e) \/ ActorMovesRef(e) \/ ActorWritesState(e)
    PROVE  ExecutionInv'
<1> DEFINE x == executions[e]
<1>0. ExecutionSound(x, repositoryRefs, controlState) /\ DOMAIN x = ExecutionFields
  BY ExecutionIs
<1>1. CASE ActorMovesHead(e)
  <2>1. x.step = "running" /\ UNCHANGED controlState
    BY <1>1 DEF ActorMovesHead
  <2>2. PICK head \in Heads(x.before.candidate) :
          /\ Put(e, [x EXCEPT !.head = head])
          /\ WorktreeOn(e, head) \/ UNCHANGED repositoryRefs
    BY <1>1 DEF ActorMovesHead
  <2>3. x.before.candidate # "frozen"
    BY <1>0, <2>1 DEF ExecutionSound, Running, Shows
  <2>4. head # "frozen"
    BY <2>3, HeadsFacts
  <2>5. PICK y : y = [x EXCEPT !.head = head]
    OBVIOUS
  <2>6. /\ DOMAIN y = ExecutionFields
        /\ y.step = x.step /\ y.stage = x.stage /\ y.before = x.before
        /\ y.disturbed = x.disturbed /\ y.judgedOn = x.judgedOn /\ y.dog = x.dog
    BY <1>0, <2>5 DEF ExecutionFields
  <2>7. ExecutionSound(y, repositoryRefs, controlState)
    BY <1>0, <2>6, SameSound
  <2>8. CASE UNCHANGED repositoryRefs
    BY <2>1, <2>2, <2>5, <2>7, <2>8, SamePutStep DEF Same
  <2>9. CASE WorktreeOn(e, head)
    <3>1. /\ Placed(repositoryRefs', controlState')
          /\ Later(repositoryRefs, controlState, repositoryRefs', controlState')
          /\ \A f \in Executions \ {e} : repositoryRefs'[f] = repositoryRefs[f]
          /\ repositoryRefs'[e] = head
      BY <2>1, <2>4, <2>9, WorktreeStep
    <3>2. ExecutionSound(y, repositoryRefs', controlState')
      BY <2>7, <3>1, LaterSound DEF ExecutionInv, Placed
    <3>3. QED
      BY <2>2, <2>4, <2>5, <3>1, <3>2, PutStep
  <2>10. QED
    BY <2>2, <2>8, <2>9
<1>2. ASSUME UNCHANGED executions, Placed(repositoryRefs', controlState'),
             controlState'.events = controlState.events,
             \A f \in Executions : repositoryRefs'[f] = repositoryRefs[f]
      PROVE  ExecutionInv'
  <2>1. Later(repositoryRefs, controlState, repositoryRefs', controlState')
    BY <1>2 DEF ExecutionInv, Placed, Later
  <2>2. \A f \in Executions :
          ExecutionSound(executions[f], repositoryRefs', controlState')
    BY <1>2, <2>1, LaterSound DEF ExecutionInv, AllSound, Placed
  <2>3. QED
    BY <1>2, <2>2 DEF ExecutionInv, AllSound, Kept
<1>3. CASE ActorMovesRef(e)
  <2>1. PICK commit : /\ repositoryRefs' = [repositoryRefs EXCEPT !["shared"] = commit]
                      /\ UNCHANGED <<executions, controlState>>
    BY <1>3 DEF ActorMovesRef
  <2>2. QED
    BY <1>2, <2>1, RefAssumption DEF ExecutionInv, Placed
<1>4. CASE ActorWritesState(e)
  <2>1. PICK b : b = ~ controlState.stray
    OBVIOUS
  <2>2. /\ controlState' = [controlState EXCEPT !.stray = b]
        /\ UNCHANGED <<executions, repositoryRefs>>
    BY <1>4, <2>1 DEF ActorWritesState
  <2>3. QED
    BY <1>2, <2>2 DEF ExecutionInv, Placed
<1>5. QED
  BY <1>1, <1>3, <1>4

(* What is reported to the watchdog. *)
LEMMA WatchdogStep ==
    ASSUME ExecutionInv, NEW e \in Executions, RuntimeReports(e) \/ WatchdogFails(e)
    PROVE  ExecutionInv'
<1> DEFINE x == executions[e]
<1>0. /\ ExecutionSound(x, repositoryRefs, controlState)
      /\ DOMAIN x = ExecutionFields /\ DogSound(x.dog) /\ DOMAIN x.dog = DogFields
  BY ExecutionIs DEF ExecutionSound, DogSound
<1>1. ASSUME NEW d, DogSound(d), Put(e, [x EXCEPT !.dog = d]), Same,
             x.step = "running"
      PROVE  ExecutionInv'
  <2>1. PICK y : y = [x EXCEPT !.dog = d]
    OBVIOUS
  <2>2. /\ DOMAIN y = ExecutionFields /\ y.dog = d
        /\ y.step = x.step /\ y.before = x.before /\ y.disturbed = x.disturbed
    BY <1>0, <2>1 DEF ExecutionFields
  <2>3. ExecutionSound(y, repositoryRefs, controlState)
    BY <1>0, <1>1, <2>2 DEF ExecutionSound, Shows, Running
  <2>4. QED
    BY <1>1, <2>1, <2>3, SamePutStep
<1>2. CASE RuntimeReports(e)
  <2>1. \/ \E v : ~Throws(x.dog, v) /\ Put(e, [x EXCEPT !.dog = Observed(x.dog, v)])
        \/ Put(e, Over("rejected"))
    BY <1>2 DEF RuntimeReports
  <2>2. Same /\ x.step = "running"
    BY <1>2 DEF RuntimeReports
  <2>3. ASSUME NEW v, ~Throws(x.dog, v), Put(e, [x EXCEPT !.dog = Observed(x.dog, v)])
        PROVE  ExecutionInv'
    <3>1. PICK d : d = Observed(x.dog, v)
      OBVIOUS
    <3>2. DogSound(d)
      BY <1>0, <2>3, <3>1, ObservedSound
    <3>3. QED
      BY <1>1, <2>2, <2>3, <3>1, <3>2
  <2>4. ASSUME Put(e, Over("rejected")) PROVE ExecutionInv'
    BY <2>2, <2>4, OverSound, SamePutStep
  <2>5. QED
    BY <2>1, <2>3, <2>4
<1>3. CASE WatchdogFails(e)
  <2>1. PICK longer : longer = [x.dog EXCEPT !.length = @ + 1]
    OBVIOUS
  <2>2. PICK length : length = x.dog.length + 1
    OBVIOUS
  <2>3. longer = [x.dog EXCEPT !.length = length]
    BY <2>1, <2>2
  <2>4. DOMAIN longer = DogFields /\ longer.state = x.dog.state
    BY <1>0, <2>3 DEF DogFields
  <2>5. PICK d : d = Cancelled(longer)
    OBVIOUS
  <2>6. x.dog.state \notin Ended /\ x.step = "running" /\ Same
    BY <1>3 DEF WatchdogFails
  <2>7. DogSound(d)
    BY <2>4, <2>5, <2>6, CancelledSound
  <2>8. Put(e, [x EXCEPT !.dog = d])
    BY <1>3, <2>1, <2>5 DEF WatchdogFails
  <2>9. QED
    BY <1>1, <2>6, <2>7, <2>8
<1>4. QED
  BY <1>2, <1>3

(* Candidates are frozen, and results settled. *)
LEMMA SettleStep ==
    ASSUME ExecutionInv, NEW e \in Executions, Settle(e)
    PROVE  ExecutionInv'
<1>1. PICK y : y = Over("settled")
  OBVIOUS
<1>2. PICK after : after = [executions EXCEPT ![e] = y]
  OBVIOUS
<1>3. after = [f \in Executions |-> IF f = e THEN y ELSE executions[f]]
  BY <1>2 DEF ExecutionInv, AllSound
<1>4. AllSound(after, repositoryRefs, controlState)
  BY <1>1, <1>3, OverSound DEF AllSound, ExecutionInv
<1>5. y.step = "settled"
  BY <1>1 DEF Over, NewExecution
<1>6. Kept(after, repositoryRefs)
  BY <1>3, <1>5 DEF ExecutionInv, Kept
<1>7. /\ executions' = Disturbing("event", after)
      /\ controlState' = [controlState EXCEPT !.events = @ + 1]
      /\ UNCHANGED repositoryRefs
  BY <1>1, <1>2 DEF Settle
<1>8. QED
  BY <1>4, <1>6, <1>7, EventStep

LEMMA FreezeStep ==
    ASSUME ExecutionInv, NEW e \in Executions, Freeze(e)
    PROVE  ExecutionInv'
<1> DEFINE x == executions[e]
<1>0. ExecutionSound(x, repositoryRefs, controlState) /\ DOMAIN x = ExecutionFields
  BY ExecutionIs
<1>1. x.step = "freezing" /\ UNCHANGED controlState
  BY DEF Freeze
<1>2. StandsOn(x, x.judgedOn) /\ repositoryRefs[e] # "frozen"
  BY <1>0, <1>1, NotFrozen DEF ExecutionSound
<1>3. ASSUME NEW y, y.step = "sealed", DOMAIN y = ExecutionFields,
             y.stage = x.stage, y.before = x.before, y.dog = x.dog,
             y.disturbed = x.disturbed, y.judgedOn = x.judgedOn
      PROVE  ExecutionSound(y, repositoryRefs, controlState)
  BY <1>0, <1>2, <1>3 DEF ExecutionSound, StandsOn, Running
<1>4. CASE Put(e, Over("rejected")) /\ UNCHANGED repositoryRefs
  BY <1>1, <1>4, OverSound, SamePutStep DEF Same
<1>5. CASE Put(e, [x EXCEPT !.step = "sealed"]) /\ UNCHANGED repositoryRefs
  <2>1. PICK y : y = [x EXCEPT !.step = "sealed"]
    OBVIOUS
  <2>2. ExecutionSound(y, repositoryRefs, controlState)
    BY <1>0, <1>3, <2>1 DEF ExecutionFields
  <2>3. QED
    BY <1>1, <1>5, <2>1, <2>2, SamePutStep DEF Same
<1>6. CASE /\ executions' = Disturbing("candidate",
                [executions EXCEPT ![e].step = "sealed", ![e].head = "frozen"])
           /\ WorktreeOn(e, "frozen")
  <2>1. PICK y : y = [x EXCEPT !.step = "sealed", !.head = "frozen"]
    OBVIOUS
  <2>2. PICK after :
          after = [executions EXCEPT ![e].step = "sealed", ![e].head = "frozen"]
    OBVIOUS
  <2>3. after = [f \in Executions |-> IF f = e THEN y ELSE executions[f]]
    BY <2>1, <2>2 DEF ExecutionInv, AllSound
  <2>4. ExecutionSound(y, repositoryRefs, controlState) /\ y.step = "sealed"
    BY <1>0, <1>3, <2>1 DEF ExecutionFields
  <2>5. AllSound(after, repositoryRefs, controlState)
    BY <2>3, <2>4 DEF AllSound, ExecutionInv
  <2>6. /\ DOMAIN repositoryRefs' = DOMAIN repositoryRefs
        /\ \A f \in Executions \ {e} : repositoryRefs'[f] = repositoryRefs[f]
        /\ repositoryRefs'[e] = "frozen"
    BY <1>6 DEF WorktreeOn, ExecutionInv, Placed
  <2>7. Placed(repositoryRefs', controlState')
    BY <1>1, <2>6 DEF ExecutionInv, Placed
  <2>8. Later(repositoryRefs, controlState, repositoryRefs', controlState')
    BY <1>1, <2>6 DEF ExecutionInv, Placed, Later
  <2>9. Kept(after, repositoryRefs')
    BY <2>3, <2>4, <2>6 DEF ExecutionInv, Kept
  <2>10. executions' = Disturbing("candidate", after)
    BY <1>6, <2>2
  <2>11. QED
    BY <1>2, <2>5, <2>6, <2>7, <2>8, <2>9, <2>10, DisturbingStep
<1>7. QED
  BY <1>4, <1>5, <1>6 DEF Freeze

-----------------------------------------------------------------------------
(* The judgement. *)

(* What is found acceptable stands: what was disturbed would have shown as a     *)
(* violation, unless HEAD is the candidate on record, and the watchdog has ended. *)
LEMMA AcceptableStands ==
    ASSUME ExecutionInv, NEW x, NEW v, x.step \in Running, Acceptable(x, v),
           ExecutionSound(x, repositoryRefs, controlState)
    PROVE  StandsOn(x, x.head)
<1>1. Violations(x) = {}
  BY DEF Acceptable, WriterAcceptable, InspectionAcceptable
<1>2. Shows(x, repositoryRefs, controlState) /\ DogSound(x.dog)
  BY DEF ExecutionSound
<1>3. controlState.events \in Nat
  BY DEF ExecutionInv, Placed
<1>4. ASSUME x.before.control = controlState PROVE "event" \notin x.disturbed
  BY <1>2, <1>3, <1>4 DEF Shows
<1>5. ASSUME x.before.refs = repositoryRefs PROVE "candidate" \notin x.disturbed
  BY <1>2, <1>5 DEF Shows
<1>6. CASE ExecutionClass(x.stage) = "leased-writer"
  <2>1. Violations(x) =
          {w \in {"writer-out-of-scope-mutation"} : x.strayed}
            \cup {w \in {"writer-control-state-mutation"} :
                    x.before.control # controlState}
            \cup {w \in {"writer-ref-mutation-unbound"} :
                    x.before.refs # repositoryRefs /\ x.head # x.before.candidate}
    BY <1>6 DEF Violations
  <2>2. x.before.control = controlState
    BY <1>1, <2>1
  <2>3. x.before.refs = repositoryRefs \/ x.head = x.before.candidate
    BY <1>1, <2>1
  <2>4. x.dog.persisted = x.dog.length + 1
    BY <1>2, <1>6 DEF Acceptable, WriterAcceptable, WatchdogGreen, DogSound, Ended
  <2>5. QED
    BY <1>4, <1>5, <1>6, <2>2, <2>3, <2>4 DEF StandsOn
<1>7. CASE ExecutionClass(x.stage) # "leased-writer"
  <2>1. ExecutionClass(x.stage) = "observe-only"
    BY <1>7 DEF ExecutionClass
  <2>2. Violations(x) =
          {w \in {"observe-only-repository-mutation"} :
             \/ x.edited \/ x.strayed
             \/ x.before.head # x.head \/ x.before.refs # repositoryRefs}
          \cup {w \in {"observe-only-state-root-mutation"} :
                  x.before.control # controlState}
    BY <2>1 DEF Violations
  <2>3. x.before.control = controlState /\ x.before.refs = repositoryRefs
    BY <1>1, <2>2
  <2>4. QED
    BY <1>4, <1>5, <1>7, <2>3 DEF StandsOn
<1>8. QED
  BY <1>6, <1>7

LEMMA JudgeStep ==
    ASSUME ExecutionInv, NEW e \in Executions, Judge(e)
    PROVE  ExecutionInv'
<1> DEFINE x == executions[e]
<1>0. ExecutionSound(x, repositoryRefs, controlState)
  BY ExecutionIs
<1>1. x.step = "returned" /\ Same
  BY DEF Judge
<1>2. CASE Put(e, Over("rejected"))
  BY <1>1, <1>2, OverSound, SamePutStep
<1>3. ASSUME NEW v, Acceptable(x, v), NEW step \in {"freezing", "sealed"},
             Put(e, [x EXCEPT !.judgedOn = x.head, !.step = step])
      PROVE  ExecutionInv'
  <2>1. PICK y : y = [x EXCEPT !.judgedOn = x.head, !.step = step]
    OBVIOUS
  <2>2. /\ DOMAIN y = ExecutionFields /\ y.dog = x.dog
        /\ y.step = step /\ y.stage = x.stage /\ y.before = x.before
        /\ y.disturbed = x.disturbed /\ y.judgedOn = x.head
    BY <1>0, <2>1 DEF ExecutionSound, ExecutionFields
  <2>3. StandsOn(x, x.head)
    BY <1>0, <1>1, <1>3, AcceptableStands DEF Running
  <2>4. StandsOn(y, y.judgedOn)
    BY <2>2, <2>3 DEF StandsOn
  <2>5. ExecutionSound(y, repositoryRefs, controlState)
    BY <1>0, <2>2, <2>4 DEF ExecutionSound, Running
  <2>6. QED
    BY <1>1, <1>3, <2>1, <2>5, SamePutStep
<1>4. \/ Put(e, Over("rejected"))
      \/ \E v \in Evidence, step \in {"freezing", "sealed"} :
           /\ Acceptable(x, v)
           /\ Put(e, [x EXCEPT !.judgedOn = x.head, !.step = step])
  BY DEF Judge
<1>5. QED
  BY <1>2, <1>3, <1>4

LEMMA ExecutionKept == ExecutionInv /\ [ExecutionNext]_executionVars => ExecutionInv'
<1> SUFFICES ASSUME ExecutionInv, [ExecutionNext]_executionVars PROVE ExecutionInv'
  OBVIOUS
<1>1. CASE UNCHANGED executionVars
  BY <1>1 DEF executionVars, ExecutionInv, AllSound
<1>2. QED
  BY <1>1, WaveStep, BeforeStep, ActorStep, StrayStep, WatchdogStep, SettleStep,
     FreezeStep, JudgeStep DEF ExecutionNext

LEMMA ExecutionStarts == ExecutionInit => ExecutionInv
<1> SUFFICES ASSUME ExecutionInit PROVE ExecutionInv
  OBVIOUS
<1>1. PICK x : x = NewExecution
  OBVIOUS
<1>2. /\ DOMAIN x = ExecutionFields /\ x.step = "idle" /\ x.disturbed = {}
      /\ x.dog = NewWatchdog
  BY <1>1 DEF NewExecution, ExecutionFields
<1>3. ExecutionSound(x, repositoryRefs, controlState)
  BY <1>2, NewWatchdogSound DEF ExecutionSound, Running
<1>4. Placed(repositoryRefs, controlState)
  BY DEF ExecutionInit, Placed
<1>5. Kept(executions, repositoryRefs)
  BY DEF ExecutionInit, Kept
<1>6. QED
  BY <1>1, <1>3, <1>4, <1>5 DEF ExecutionInit, ExecutionInv, AllSound

(* A result that was accepted stands: since its writer was started nothing was  *)
(* recorded below the state root, no candidate of another writer was frozen     *)
(* unless HEAD was judged to be the candidate on record, and the receipt of its *)
(* watchdog is the last word on its trace, however many writers run beside it   *)
(* (stage-runtime-guard.mjs, writer-runtime-watchdog.mjs,                       *)
(* lifecycle-writer-executor.mjs).                                              *)
THEOREM AcceptedResultsStand == ExecutionSpec => []ResultsStand
<1>1. ExecutionInv => ResultsStand
  BY DEF ExecutionInv, AllSound, ExecutionSound, StandsOn, ResultsStand, Accepted, InStep
<1>2. QED
  BY <1>1, ExecutionStarts, ExecutionKept, PTL DEF ExecutionSpec

-----------------------------------------------------------------------------
(***************************************************************************)
(* Theorems about the stages of writers.                                   *)
(***************************************************************************)

(* An entry of the completed prefix: a slice of a plan, and its material.       *)
Entries == {e \in [plan : Plans, slice : 1 .. MaxSlices,
                   material : (1 .. MaxSlices) \X Versions] : e.slice \in Slices(e.plan)}

(* The completed work s is the beginning of a plan. *)
Work(s, plan) ==
    \A i \in DOMAIN s : s[i].plan.phase = plan.phase /\ s[i].material = Material(plan, i)

Typed ==
    /\ stage \in Dispatches \cup {NoValue}
    /\ prefix \in Seq(Entries)
    /\ attemptIds \subseteq Attempts

(* The slice of an active attempt comes after the completed work. *)
AtWork ==
    active # NoValue =>
        /\ stage \in Dispatches /\ active = stage.plan.attempt /\ active \in attemptIds
        /\ stage.slice = Len(prefix) + 1 /\ Work(prefix, stage.plan)
        /\ failure = NoValue /\ completed = NoValue
        /\ expected \in {NoValue, stage}

(* A retry is authorised: of a fresh attempt at a plan that begins with the     *)
(* completed work.                                                              *)
Authorized ==
    /\ expected \in Dispatches
    /\ expected.plan.phase = failure.plan.phase
    /\ expected.plan.attempt # failure.plan.attempt
    /\ carry = [plan |-> expected.plan, entries |-> prefix]
    /\ Work(prefix, expected.plan)

(* A failed stage: the node is terminal until a retry is authorised. *)
Failing ==
    failure # NoValue =>
        /\ failure = stage /\ stage \in Dispatches /\ Work(prefix, stage.plan)
        /\ stage.plan.attempt \in attemptIds
        /\ active = NoValue /\ completed = NoValue
        /\ status = "terminal" \/ Authorized

(* A completed stage has its whole plan in the prefix. *)
Whole ==
    completed # NoValue =>
        /\ stage \in Dispatches /\ completed = stage.plan.attempt
        /\ completed \in attemptIds
        /\ Len(prefix) = Len(stage.plan.material) /\ Work(prefix, stage.plan)
        /\ active = NoValue /\ expected = NoValue

(* A slice is only awaited from an active or a failed attempt. *)
Awaited == expected # NoValue => active # NoValue \/ failure # NoValue

WriterInv == Typed /\ AtWork /\ Failing /\ Whole /\ Awaited

-----------------------------------------------------------------------------

LEMMA DispatchIs ==
    ASSUME NEW d \in Dispatches
    PROVE  /\ d.plan \in Plans /\ d.slice \in 1 .. MaxSlices
           /\ d.slice \in Slices(d.plan) /\ d.plan.attempt \in Attempts
           /\ d # NoValue /\ d.plan.attempt # NoValue
           /\ d = [plan |-> d.plan, slice |-> d.slice]
BY NoValueAssumption DEF Dispatches, Plans

LEMMA PlanIs ==
    ASSUME NEW plan \in Plans
    PROVE  /\ Slices(plan) \subseteq 1 .. MaxSlices
           /\ Slices(plan) = 1 .. Len(plan.material)
           /\ \A i \in Slices(plan) : Material(plan, i) \in (1 .. MaxSlices) \X Versions
<1>1. PICK n \in 1 .. MaxSlices : plan.material \in [1 .. n -> Versions]
  BY DEF Plans
<1>2. MaxSlices \in Nat
  BY BoundAssumption
<1>3. n \in Nat /\ plan.material \in Seq(Versions) /\ Len(plan.material) = n
  BY <1>1, <1>2
<1>4. QED
  BY <1>1, <1>2, <1>3 DEF Slices, Material

LEMMA EntryIs ==
    ASSUME NEW d \in Dispatches
    PROVE  [plan |-> d.plan, slice |-> d.slice, material |-> Material(d.plan, d.slice)]
             \in Entries
BY DispatchIs, PlanIs DEF Entries

(* Work goes on with the slice after the completed ones. *)
LEMMA WorkGrows ==
    ASSUME NEW s \in Seq(Entries), NEW d \in Dispatches, d.slice = Len(s) + 1,
           Work(s, d.plan), NEW t,
           t = Append(s, [plan |-> d.plan, slice |-> d.slice,
                          material |-> Material(d.plan, d.slice)])
    PROVE  t \in Seq(Entries) /\ Len(t) = Len(s) + 1 /\ Work(t, d.plan)
<1>1. PICK e \in Entries : e = [plan |-> d.plan, slice |-> d.slice,
                                material |-> Material(d.plan, d.slice)]
  BY EntryIs
<1>2. t = Append(s, e)
  BY <1>1
<1>3. /\ t \in Seq(Entries) /\ Len(t) = Len(s) + 1 /\ DOMAIN t = 1 .. Len(s) + 1
      /\ DOMAIN s = 1 .. Len(s) /\ Len(s) \in Nat
      /\ t[Len(s) + 1] = e
      /\ \A i \in 1 .. Len(s) : t[i] = s[i]
  BY <1>2
<1>4. SUFFICES ASSUME NEW i \in 1 .. Len(s) + 1
               PROVE  t[i].plan.phase = d.plan.phase /\ t[i].material = Material(d.plan, i)
  BY <1>3 DEF Work
<1>5. CASE i = Len(s) + 1
  BY <1>1, <1>3, <1>5
<1>6. CASE i # Len(s) + 1
  BY <1>3, <1>6 DEF Work
<1>7. QED
  BY <1>5, <1>6

(* The next slice of a plan. *)
LEMMA NextSlice ==
    ASSUME NEW d \in Dispatches, NEW next, next = [d EXCEPT !.slice = @ + 1],
           next.slice \in Slices(d.plan)
    PROVE  next \in Dispatches /\ next.plan = d.plan /\ next.slice = d.slice + 1
<1>1. PICK i \in Int : i = d.slice + 1
  BY DispatchIs
<1>2. next = [d EXCEPT !.slice = i]
  BY <1>1
<1>3. next = [plan |-> d.plan, slice |-> i]
  BY <1>2, DispatchIs
<1>4. i \in 1 .. MaxSlices /\ i \in Slices(d.plan)
  BY <1>3, DispatchIs, PlanIs
<1>5. QED
  BY <1>1, <1>3, <1>4, DispatchIs DEF Dispatches

-----------------------------------------------------------------------------

(* Steps that touch neither the attempt nor its work. *)
LEMMA SteadyKeeps ==
    ASSUME WriterInv, status = "terminal" => status' = "terminal",
           UNCHANGED <<active, ledgerVars, stage, prefix, completed>>
    PROVE  WriterInv'
BY DEF WriterInv, Typed, AtWork, Failing, Authorized, Whole, Awaited, Work, ledgerVars

LEMMA StatusKeeps ==
    ASSUME WriterInv, StatusEvent \/ VerificationPassed \/ UxAccepted \/ CandidateGreen
    PROVE  WriterInv'
<1>1. UNCHANGED <<active, ledgerVars, stage, prefix, completed>>
  BY DEF StatusEvent, VerificationPassed, UxAccepted, CandidateGreen, sliceVars
<1>2. status = "terminal" => status' = "terminal"
  <2>1. CASE StatusEvent
    <3>1. PICK rule \in Contesting \cup Deciding \cup Closing :
            rule[2] = status /\ status' = rule[3]
      BY <2>1 DEF StatusEvent
    <3>2. rule \in Contesting /\ rule[2] = "terminal" => rule[3] = "terminal"
      BY DEF Contesting, Rule
    <3>3. rule \in Deciding => rule[2] # "terminal"
      BY DEF Deciding, Rule
    <3>4. rule \in Closing => rule[2] # "terminal"
      BY DEF Closing, Rule
    <3>5. QED
      BY <3>1, <3>2, <3>3, <3>4
  <2>2. CASE VerificationPassed \/ UxAccepted \/ CandidateGreen
    BY <2>2 DEF VerificationPassed, UxAccepted, CandidateGreen
  <2>3. QED
    BY <2>1, <2>2
<1>3. QED
  BY <1>1, <1>2, SteadyKeeps

LEMMA StartsAre ==
    ASSUME NEW phase \in Phases, NEW step \in Starts(phase)
    PROVE  step[1] # "terminal"
<1>1. CASE phase = "test-contract"
  BY <1>1 DEF Starts
<1>2. CASE phase = "implementation"
  BY <1>2 DEF Starts
<1>3. CASE phase = "landing-conflict-resolution"
  BY <1>3 DEF Starts
<1>4. CASE phase = "documentation"
  BY <1>4 DEF Starts
<1>5. QED
  BY <1>1, <1>2, <1>3, <1>4 DEF Phases

(* An attempt starts anew, or where the retry it is authorised for says. *)
LEMMA StartedIs ==
    ASSUME WriterInv, NEW d \in Dispatches, Started(d)
    PROVE  /\ status # "terminal" /\ active = NoValue /\ d.plan.attempt \notin attemptIds
           /\ expected = NoValue => failure = NoValue /\ d.slice = 1 /\ prefix' = <<>>
           /\ expected # NoValue =>
                /\ failure # NoValue /\ Authorized /\ d = expected
                /\ d.slice = Len(prefix) + 1 /\ prefix' = prefix
<1>1. status # "terminal"
  <2>1. d.plan.phase \in Phases
    BY DispatchIs DEF Plans
  <2>2. PICK step \in Starts(d.plan.phase) : status = step[1]
    BY DEF Started
  <2>3. QED
    BY <2>1, <2>2, StartsAre
<1>2. active = NoValue /\ d.plan.attempt \notin attemptIds
  BY DEF Started
<1>3. failure # NoValue => Authorized
  BY <1>1 DEF WriterInv, Failing
<1>4. Authorized => expected # NoValue
  BY DispatchIs DEF Authorized
<1>5. expected # NoValue => failure # NoValue
  BY <1>2 DEF WriterInv, Awaited
<1>6. FirstOrAuthorizedRetrySlice(d) /\ prefix' = IF RetryResume THEN prefix ELSE <<>>
  BY DEF Started
<1>7. QED
  BY <1>1, <1>2, <1>3, <1>4, <1>5, <1>6 DEF FirstOrAuthorizedRetrySlice, RetryResume

LEMMA StartedKeeps ==
    ASSUME WriterInv, NEW d \in Dispatches, Started(d)
    PROVE  WriterInv'
<1>1. /\ active' = d.plan.attempt /\ stage' = d
      /\ attemptIds' = attemptIds \cup {d.plan.attempt}
      /\ completed' = NoValue /\ failure' = NoValue /\ expected' = NoValue
  BY DEF Started
<1>2. /\ prefix' \in Seq(Entries) /\ d.slice = Len(prefix') + 1
      /\ Work(prefix', d.plan)
  <2>1. CASE expected = NoValue
    <3>1. prefix' = <<>> /\ d.slice = 1
      BY <2>1, StartedIs
    <3>2. <<>> \in Seq(Entries) /\ Len(<<>>) = 0 /\ Work(<<>>, d.plan)
      BY DEF Work
    <3>3. QED
      BY <3>1, <3>2
  <2>2. CASE expected # NoValue
    BY <2>2, StartedIs DEF Authorized, WriterInv, Typed
  <2>3. QED
    BY <2>1, <2>2
<1>3. Typed'
  BY <1>1, <1>2, DispatchIs DEF WriterInv, Typed
<1>4. QED
  BY <1>1, <1>2, <1>3, DispatchIs DEF WriterInv, AtWork, Failing, Whole, Awaited

LEMMA ReportedKeeps ==
    ASSUME WriterInv, NEW a \in attemptIds,
           (\E complete \in BOOLEAN : CheckpointRecorded(a, complete)) \/ ContinuationRecorded(a)
    PROVE  WriterInv'
BY SteadyKeeps DEF CheckpointRecorded, ContinuationRecorded

(* The attempt that reports is the active one. *)
LEMMA BoundIs ==
    ASSUME WriterInv, NEW a \in attemptIds, IsBound(a)
    PROVE  /\ active = a /\ active # NoValue
           /\ stage \in Dispatches /\ active = stage.plan.attempt
           /\ stage.slice = Len(prefix) + 1 /\ Work(prefix, stage.plan)
           /\ failure = NoValue /\ completed = NoValue
           /\ expected \in {NoValue, stage} /\ prefix \in Seq(Entries)
BY NoValueAssumption DEF WriterInv, Typed, AtWork, IsBound

LEMMA CompletingIs ==
    ASSUME WriterInv, NEW a \in attemptIds, IsBound(a), prefix' = Completing
    PROVE  /\ prefix' \in Seq(Entries) /\ Len(prefix') = Len(prefix) + 1
           /\ Work(prefix', stage.plan)
<1>1. PICK t : t = Completing
  OBVIOUS
<1>2. PICK d \in Dispatches : d = stage
  BY BoundIs
<1>3. t \in Seq(Entries) /\ Len(t) = Len(prefix) + 1 /\ Work(t, d.plan)
  BY <1>1, <1>2, BoundIs, WorkGrows DEF Completing
<1>4. QED
  BY <1>1, <1>2, <1>3

LEMMA SliceKeeps ==
    ASSUME WriterInv, NEW a \in attemptIds, SliceCompleted(a)
    PROVE  WriterInv'
<1>1. PICK next : next = [stage EXCEPT !.slice = @ + 1]
  OBVIOUS
<1>2. /\ IsBound(a) /\ next.slice \in Slices(stage.plan)
      /\ prefix' = Completing /\ stage' = next /\ expected' = next
      /\ UNCHANGED <<active, attemptIds, failure, completed>>
  BY <1>1 DEF SliceCompleted, TerminalGate
<1>3. next \in Dispatches /\ next.plan = stage.plan /\ next.slice = stage.slice + 1
  BY <1>1, <1>2, BoundIs, NextSlice
<1>4. /\ prefix' \in Seq(Entries) /\ Len(prefix') = Len(prefix) + 1
      /\ Work(prefix', next.plan)
  BY <1>2, <1>3, CompletingIs
<1>5. next.slice = Len(prefix') + 1
  BY <1>2, <1>3, <1>4, BoundIs
<1>6. QED
  BY <1>2, <1>3, <1>4, <1>5, BoundIs DEF WriterInv, Typed, AtWork, Failing, Whole, Awaited

LEMMA StageKeeps ==
    ASSUME WriterInv, NEW a \in attemptIds, StageCompleted(a)
    PROVE  WriterInv'
<1>1. /\ IsBound(a) /\ stage.slice = Len(stage.plan.material)
      /\ prefix' = Completing /\ completed' = a /\ active' = NoValue /\ expected' = NoValue
      /\ UNCHANGED <<attemptIds, failure, stage>>
  BY DEF StageCompleted, TerminalGate
<1>2. /\ prefix' \in Seq(Entries) /\ Len(prefix') = Len(prefix) + 1
      /\ Work(prefix', stage.plan)
  BY <1>1, CompletingIs
<1>3. Len(prefix') = Len(stage.plan.material)
  BY <1>1, <1>2, BoundIs
<1>4. QED
  BY <1>1, <1>2, <1>3, BoundIs DEF WriterInv, Typed, AtWork, Failing, Whole, Awaited

LEMMA FailedKeeps ==
    ASSUME WriterInv, NEW a \in attemptIds, StageFailed(a)
    PROVE  WriterInv'
<1>1. /\ IsBound(a) /\ status' = "terminal" /\ active' = NoValue /\ failure' = stage
      /\ UNCHANGED <<attemptIds, expected, stage, prefix, completed>>
  BY DEF StageFailed, sliceVars
<1>2. QED
  BY <1>1, BoundIs, DispatchIs DEF WriterInv, Typed, AtWork, Failing, Whole, Awaited, Work

LEMMA RetryKeeps ==
    ASSUME WriterInv, NEW d \in Dispatches, NEW kind, RetryAuthorized(d, kind)
    PROVE  WriterInv'
<1>1. /\ failure # NoValue /\ d.plan.phase = failure.plan.phase
      /\ active' = NoValue /\ expected' = d
      /\ carry' = [plan |-> d.plan, entries |-> prefix]
      /\ UNCHANGED <<attemptIds, failure, stage, prefix, completed>>
  BY DEF RetryAuthorized, IsSubstantive, sliceVars
<1>2. /\ d.plan.attempt # failure.plan.attempt
      /\ \A i \in DOMAIN prefix : prefix[i].material = Material(d.plan, i)
  BY DEF RetryAuthorized, Carrying
<1>3. /\ failure = stage /\ stage \in Dispatches /\ Work(prefix, stage.plan)
      /\ stage.plan.attempt \in attemptIds /\ completed = NoValue
  BY <1>1 DEF WriterInv, Failing
<1>4. Work(prefix, d.plan)
  BY <1>1, <1>2, <1>3 DEF Work
<1>5. Work(prefix', d.plan) /\ Work(prefix', stage.plan)
  BY <1>1, <1>3, <1>4
<1>6. Authorized'
  BY <1>1, <1>2, <1>5 DEF Authorized
<1>7. Failing'
  BY <1>1, <1>3, <1>5, <1>6 DEF Failing
<1>8. QED
  BY <1>1, <1>3, <1>7 DEF WriterInv, Typed, AtWork, Whole, Awaited

(* A stage that is complete has no active attempt any more. *)
LEMMA CompleteIs ==
    ASSUME WriterInv, StageIsComplete
    PROVE  /\ completed # NoValue /\ active = NoValue /\ failure = NoValue
           /\ completed = stage.plan.attempt
           /\ Len(prefix) = Len(stage.plan.material) /\ Work(prefix, stage.plan)
<1>1. completed # NoValue
  BY DispatchIs DEF StageIsComplete, WriterInv, Typed
<1>2. QED
  BY <1>1 DEF WriterInv, Whole, Failing

LEMMA EndKeeps ==
    ASSUME WriterInv, TestContractFrozen \/ DocumentationPassed
    PROVE  WriterInv'
<1>1. StageIsComplete /\ active' = NoValue /\ UNCHANGED <<ledgerVars, sliceVars>>
  BY DEF TestContractFrozen, DocumentationPassed
<1>2. active = NoValue /\ status # "terminal"
  BY <1>1, CompleteIs DEF TestContractFrozen, DocumentationPassed
<1>3. QED
  BY <1>1, <1>2, SteadyKeeps DEF sliceVars

LEMMA WriterInitHolds == WriterInit => WriterInv
BY DEF WriterInit, WriterInv, Typed, AtWork, Failing, Whole, Awaited

LEMMA WriterNextKeeps == WriterInv /\ [WriterNext]_writerVars => WriterInv'
<1>1. SUFFICES ASSUME WriterInv, [WriterNext]_writerVars PROVE WriterInv'
  OBVIOUS
<1>2. CASE UNCHANGED writerVars
  BY <1>1, <1>2, SteadyKeeps DEF writerVars, sliceVars
<1>3. CASE Report
  <2>1. PICK a \in attemptIds :
          \/ \E complete \in BOOLEAN : CheckpointRecorded(a, complete)
          \/ ContinuationRecorded(a) \/ SliceCompleted(a)
          \/ StageCompleted(a) \/ StageFailed(a)
    BY <1>3 DEF Report
  <2>2. QED
    BY <1>1, <2>1, ReportedKeeps, SliceKeeps, StageKeeps, FailedKeeps
<1>4. ASSUME NEW d \in Dispatches, Started(d) PROVE WriterInv'
  BY <1>1, <1>4, StartedKeeps
<1>5. ASSUME NEW d \in Dispatches, NEW kind \in RevisionKinds, RetryAuthorized(d, kind)
      PROVE  WriterInv'
  BY <1>1, <1>5, RetryKeeps
<1>6. CASE \/ StatusEvent \/ VerificationPassed \/ UxAccepted \/ CandidateGreen
           \/ TestContractFrozen \/ DocumentationPassed
  BY <1>1, <1>6, StatusKeeps, EndKeeps
<1>7. QED
  BY <1>1, <1>2, <1>3, <1>4, <1>5, <1>6 DEF WriterNext

LEMMA WriterAlwaysSound == WriterSpec => []WriterInv
<1>1. QED
  BY WriterInitHolds, WriterNextKeeps, PTL DEF WriterSpec

-----------------------------------------------------------------------------

(* Only implementation.candidate-green makes a node candidate-green. *)
LEMMA GreenOnce ==
    ASSUME WriterInv, WriterNext, status' = "candidate-green", status # "candidate-green"
    PROVE  CandidateGreen
<1>1. ASSUME StatusEvent PROVE FALSE
  <2>1. PICK rule \in Contesting \cup Deciding \cup Closing :
          rule[2] = status /\ status' = rule[3]
    BY <1>1 DEF StatusEvent
  <2>2. rule \in Contesting => rule[3] # "candidate-green"
    BY DEF Contesting, Rule
  <2>3. rule \in Deciding => rule[3] # "candidate-green"
    BY DEF Deciding, Rule
  <2>4. rule \in Closing => rule[3] # "candidate-green"
    BY DEF Closing, Rule
  <2>5. QED
    BY <2>1, <2>2, <2>3, <2>4
<1>2. ASSUME NEW d \in Dispatches, Started(d) PROVE FALSE
  <2>1. d.plan.phase \in Phases
    BY DispatchIs DEF Plans
  <2>2. PICK step \in Starts(d.plan.phase) : status' = step[2]
    BY <1>2 DEF Started
  <2>3. step[2] # "candidate-green"
    <3>1. CASE d.plan.phase = "test-contract"
      BY <2>2, <3>1 DEF Starts
    <3>2. CASE d.plan.phase = "implementation"
      BY <2>2, <3>2 DEF Starts
    <3>3. CASE d.plan.phase = "landing-conflict-resolution"
      BY <2>2, <3>3 DEF Starts
    <3>4. CASE d.plan.phase = "documentation"
      BY <2>2, <3>4 DEF Starts
    <3>5. QED
      BY <2>1, <3>1, <3>2, <3>3, <3>4 DEF Phases
  <2>4. QED
    BY <2>2, <2>3
<1>3. ASSUME NEW d \in Dispatches, NEW kind \in RevisionKinds, RetryAuthorized(d, kind)
      PROVE  FALSE
  BY <1>3 DEF RetryAuthorized, ResumeState
<1>4. ASSUME Report PROVE FALSE
  BY <1>4 DEF Report, CheckpointRecorded, ContinuationRecorded, SliceCompleted,
     StageCompleted, StageFailed
<1>5. ASSUME VerificationPassed \/ UxAccepted \/ TestContractFrozen \/ DocumentationPassed
      PROVE  FALSE
  BY <1>5 DEF VerificationPassed, UxAccepted, TestContractFrozen, DocumentationPassed
<1>6. QED
  BY <1>1, <1>2, <1>3, <1>4, <1>5 DEF WriterNext

(* An attempt that becomes active has just started. *)
LEMMA ActiveStarted ==
    ASSUME WriterInv, WriterNext, active = NoValue, active' # NoValue
    PROVE  \E d \in Dispatches : Started(d)
<1>1. ASSUME Report PROVE FALSE
  <2>1. PICK a \in attemptIds :
          \/ \E complete \in BOOLEAN : CheckpointRecorded(a, complete)
          \/ ContinuationRecorded(a) \/ SliceCompleted(a)
          \/ StageCompleted(a) \/ StageFailed(a)
    BY <1>1 DEF Report
  <2>2. IsBound(a)
    BY <2>1 DEF CheckpointRecorded, ContinuationRecorded, SliceCompleted, StageCompleted,
       StageFailed, TerminalGate
  <2>3. QED
    BY <2>2, BoundIs
<1>2. ASSUME \/ StatusEvent \/ VerificationPassed \/ UxAccepted \/ CandidateGreen
             \/ TestContractFrozen \/ DocumentationPassed
             \/ \E d \in Dispatches, kind \in RevisionKinds : RetryAuthorized(d, kind)
      PROVE  FALSE
  BY <1>2 DEF StatusEvent, VerificationPassed, UxAccepted, CandidateGreen,
     TestContractFrozen, DocumentationPassed, RetryAuthorized
<1>3. QED
  BY <1>1, <1>2 DEF WriterNext

(* The completed prefix of an active attempt is the beginning of its plan, and  *)
(* the active slice follows it, for any number of attempts, failures, retries   *)
(* and late reports (validateLedgerOwnedSlicePrefix, resetWriterAttempt-        *)
(* Projection).                                                                 *)
THEOREM PrefixOrdered == WriterSpec => []PrefixIsOrdered
<1>1. WriterInv => PrefixIsOrdered
  BY DEF WriterInv, AtWork, Work, PrefixIsOrdered
<1>2. QED
  BY <1>1, WriterAlwaysSound, PTL

(* implementation.candidate-green is accepted for a whole plan only, and when   *)
(* no writer is active.                                                         *)
THEOREM CandidatesComplete == WriterSpec => CandidateIsComplete
<1> DEFINE Step ==
      status' = "candidate-green" /\ status # "candidate-green" =>
          /\ active = NoValue
          /\ candidate' = stage.plan.attempt
          /\ stage.plan.phase = "implementation"
          /\ Len(prefix) = Len(stage.plan.material)
          /\ \A i \in DOMAIN prefix : prefix[i].material = Material(stage.plan, i)
<1>1. WriterInv /\ [WriterNext]_writerVars => [Step]_writerVars
  <2>1. SUFFICES ASSUME WriterInv, WriterNext, status' = "candidate-green",
                        status # "candidate-green"
                 PROVE  Step
    OBVIOUS
  <2>2. CandidateGreen
    BY <2>1, GreenOnce
  <2>3. /\ active = NoValue /\ completed = stage.plan.attempt
        /\ Len(prefix) = Len(stage.plan.material) /\ Work(prefix, stage.plan)
    BY <2>1, <2>2, CompleteIs DEF CandidateGreen
  <2>4. QED
    BY <2>2, <2>3 DEF CandidateGreen, Work
<1>2. QED
  BY <1>1, WriterAlwaysSound, PTL DEF WriterSpec, CandidateIsComplete

(* A prefix keeps its entries while more of its stage is expected. *)
LEMMA WorkKeptStep ==
    ASSUME WriterInv, WriterNext, expected # NoValue
    PROVE  Len(prefix) <= Len(prefix') /\ SubSeq(prefix', 1, Len(prefix)) = prefix
<1>1. prefix \in Seq(Entries)
  BY DEF WriterInv, Typed
<1>2. prefix' = prefix \/ \E e : prefix' = Append(prefix, e) /\ e \in Entries
  <2>1. ASSUME NEW d \in Dispatches, Started(d) PROVE prefix' = prefix
    BY <2>1, StartedIs
  <2>2. ASSUME NEW a \in attemptIds, SliceCompleted(a) \/ StageCompleted(a)
        PROVE  \E e : prefix' = Append(prefix, e) /\ e \in Entries
    <3>1. IsBound(a) /\ prefix' = Completing
      BY <2>2 DEF SliceCompleted, StageCompleted, TerminalGate
    <3>2. stage \in Dispatches
      BY <3>1, BoundIs
    <3>3. QED
      BY <3>1, <3>2, EntryIs DEF Completing
  <2>3. CASE ~(\E d \in Dispatches : Started(d)) /\
             ~(\E a \in attemptIds : SliceCompleted(a) \/ StageCompleted(a))
    BY <2>3 DEF WriterNext, Report, StatusEvent, VerificationPassed, UxAccepted,
       CandidateGreen, TestContractFrozen, DocumentationPassed, RetryAuthorized,
       CheckpointRecorded, ContinuationRecorded, StageFailed, sliceVars
  <2>4. QED
    BY <2>1, <2>2, <2>3
<1>3. CASE prefix' = prefix
  BY <1>1, <1>3
<1>4. ASSUME NEW e \in Entries, prefix' = Append(prefix, e)
      PROVE  Len(prefix) <= Len(prefix') /\ SubSeq(prefix', 1, Len(prefix)) = prefix
  <2>1. /\ Append(prefix, e) \in Seq(Entries) /\ Len(Append(prefix, e)) = Len(prefix) + 1
        /\ Len(prefix) \in Nat
    BY <1>1
  <2>2. SubSeq(Append(prefix, e), 1, Len(prefix)) = prefix
    BY <1>1, <2>1
  <2>3. QED
    BY <1>4, <2>1, <2>2
<1>5. QED
  BY <1>2, <1>3, <1>4

(* Completed slices are kept from the first one until the stage is complete,    *)
(* through any number of failures and retries.                                  *)
THEOREM WorkKept == WriterSpec => WorkIsKept
<1> DEFINE Step ==
      expected # NoValue =>
          /\ Len(prefix) <= Len(prefix')
          /\ SubSeq(prefix', 1, Len(prefix)) = prefix
<1>1. WriterInv /\ [WriterNext]_writerVars => [Step]_writerVars
  BY WorkKeptStep
<1>2. QED
  BY <1>1, WriterAlwaysSound, PTL DEF WriterSpec, WorkIsKept

(* After a failure the next attempt of the node is the authorised retry, which  *)
(* carries the completed work (firstOrAuthorizedRetrySlice).                    *)
THEOREM BreakerStays == WriterSpec => BreakerHolds
<1> DEFINE Step ==
      failure # NoValue /\ active = NoValue /\ active' # NoValue =>
          /\ expected # NoValue
          /\ stage' = expected
          /\ stage'.plan.attempt # failure.plan.attempt
          /\ stage'.plan.phase = failure.plan.phase
          /\ carry.plan = stage'.plan
          /\ carry.entries = prefix
<1>1. WriterInv /\ [WriterNext]_writerVars => [Step]_writerVars
  <2>1. SUFFICES ASSUME WriterInv, WriterNext, failure # NoValue, active = NoValue,
                        active' # NoValue
                 PROVE  Step
    OBVIOUS
  <2>2. PICK d \in Dispatches : Started(d)
    BY <2>1, ActiveStarted
  <2>3. expected # NoValue /\ Authorized /\ d = expected /\ stage' = d
    BY <2>1, <2>2, StartedIs DEF Started
  <2>4. QED
    BY <2>3 DEF Authorized
<1>2. QED
  BY <1>1, WriterAlwaysSound, PTL DEF WriterSpec, BreakerHolds

=============================================================================
