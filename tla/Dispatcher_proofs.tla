-------------------------- MODULE Dispatcher_proofs --------------------------
(***************************************************************************)
(* Theorems about the dispatcher, for any number of nodes, repositories,   *)
(* stages and slots, and any number of base moves, scope changes and       *)
(* crashes.                                                                *)
(***************************************************************************)
EXTENDS Dispatcher, FiniteSetTheorems, SequenceTheorems, TLAPS

Bind == [node : Nodes, epoch : Nat, head : Nat, base : Nat, selector : Nat]

(* What the other parts of the invariant need of the types. *)
Typed ==
    /\ TypeOK
    /\ dispatches \in Seq(Dispatch)
    /\ wave \subseteq Bind

Outcomes == {"none", "completed", "failed", "excluded"}
Actors == Ends \cup {"unspawned", "running"}

(* e is dispatch d with another actor, event and outcome. *)
Becomes(e, d, actor, event, outcome) ==
    e = [node |-> d.node, epoch |-> d.epoch, head |-> d.head, base |-> d.base,
         selector |-> d.selector, actor |-> actor, event |-> event,
         outcome |-> outcome]

(* Updates of one field of a dispatch. *)
LEMMA FieldUpdate ==
    ASSUME NEW d \in Dispatch, NEW x
    PROVE  /\ Becomes([d EXCEPT !.actor = x], d, x, d.event, d.outcome)
           /\ Becomes([d EXCEPT !.event = x], d, d.actor, x, d.outcome)
           /\ Becomes([d EXCEPT !.outcome = x], d, d.actor, d.event, x)
           /\ Becomes(d, d, d.actor, d.event, d.outcome)
BY DEF Becomes, Dispatch

LEMMA BecomesTyped ==
    ASSUME NEW d \in Dispatch, NEW e, NEW actor \in Actors,
           NEW event \in BOOLEAN, NEW outcome \in Outcomes,
           Becomes(e, d, actor, event, outcome)
    PROVE  e \in Dispatch
BY DEF Becomes, Dispatch, Actors, Outcomes

(* How a step may change the dispatches. *)
NewDispatch(b) ==
    dispatches' = Append(dispatches,
        [node |-> b.node, epoch |-> b.epoch, head |-> b.head, base |-> b.base,
         selector |-> b.selector, actor |-> "unspawned", event |-> FALSE,
         outcome |-> "none"])

ActorsChange ==
    /\ dispatches' \in Seq(Dispatch) /\ Ids' = Ids
    /\ \A i \in Ids : \E actor \in Actors :
         /\ Becomes(dispatches'[i], dispatches[i], actor, dispatches[i].event,
                    dispatches[i].outcome)
         /\ actor = dispatches[i].actor \/ dispatches[i].actor # "malformed"

OneChanges(i, event, outcome) ==
    /\ dispatches' \in Seq(Dispatch) /\ Ids' = Ids
    /\ Becomes(dispatches'[i], dispatches[i], dispatches[i].actor, event, outcome)
    /\ \A j \in Ids : j # i => dispatches'[j] = dispatches[j]

LEMMA SeqUpdate ==
    ASSUME NEW s \in Seq(Dispatch), NEW t,
           t = [i \in DOMAIN s |-> t[i]], \A i \in DOMAIN s : t[i] \in Dispatch
    PROVE  t \in Seq(Dispatch) /\ DOMAIN t = DOMAIN s
<1>1. Len(s) \in Nat /\ DOMAIN s = 1 .. Len(s)
  BY LenProperties
<1>2. t \in [1 .. Len(s) -> Dispatch]
  BY <1>1
<1>3. QED
  BY <1>1, <1>2, SeqDef

LEMMA ActorsStep ==
    Typed /\ (Start \/ SpawnWave \/ \E i \in Ids, how \in Ends : ActorEnds(i, how))
        => ActorsChange
<1> SUFFICES ASSUME Typed, 
                    Start \/ SpawnWave \/ \E i \in Ids, how \in Ends : ActorEnds(i, how)
             PROVE  ActorsChange
  OBVIOUS
<1>1. \A i \in Ids : dispatches[i] \in Dispatch
  BY DEF Typed, TypeOK
<1>2. ASSUME NEW d \in Dispatch, NEW actor \in Actors
      PROVE  [d EXCEPT !.actor = actor] \in Dispatch
  BY DEF Dispatch, Actors
<1>3. CASE Start \/ SpawnWave
  <2>1. \A i \in Ids : 
          \/ dispatches'[i] = dispatches[i]
          \/ /\ dispatches'[i] = [dispatches[i] EXCEPT !.actor = "running"]
             /\ dispatches[i].actor # "malformed"
    BY <1>3 DEF Start, SpawnWave
  <2>2. dispatches' = [i \in Ids |-> dispatches'[i]]
    BY <1>3 DEF Start, SpawnWave
  <2>3. ASSUME NEW i \in Ids PROVE dispatches'[i] \in Dispatch
    <3>1. dispatches[i] \in Dispatch /\ "running" \in Actors
      BY <1>1 DEF Actors
    <3>2. [dispatches[i] EXCEPT !.actor = "running"] \in Dispatch
      BY <1>2, <3>1
    <3>3. QED
      BY <2>1, <3>1, <3>2
  <2>4. dispatches' \in Seq(Dispatch) /\ Ids' = Ids
    BY <2>2, <2>3, SeqUpdate DEF Typed, Ids
  <2>5. ASSUME NEW i \in Ids
        PROVE  \E actor \in Actors :
                 /\ Becomes(dispatches'[i], dispatches[i], actor, dispatches[i].event,
                            dispatches[i].outcome)
                 /\ actor = dispatches[i].actor \/ dispatches[i].actor # "malformed"
    <3>1. dispatches[i].actor \in Actors /\ "running" \in Actors
      BY <1>1 DEF Dispatch, Actors
    <3>2. CASE dispatches'[i] = dispatches[i]
      BY <1>1, <3>1, <3>2, FieldUpdate
    <3>3. CASE /\ dispatches'[i] = [dispatches[i] EXCEPT !.actor = "running"]
               /\ dispatches[i].actor # "malformed"
      BY <1>1, <3>1, <3>3, FieldUpdate
    <3>4. QED
      BY <2>1, <3>2, <3>3
  <2>6. QED
    BY <2>4, <2>5 DEF ActorsChange
<1>4. ASSUME NEW i \in Ids, NEW how \in Ends, ActorEnds(i, how) PROVE ActorsChange
  <2>1. dispatches' = [dispatches EXCEPT ![i].actor = how]
        /\ dispatches[i].actor = "running"
    BY <1>4 DEF ActorEnds
  <2>2. \A j \in Ids : dispatches'[j] = IF j = i THEN [dispatches[i] EXCEPT !.actor = how]
                                        ELSE dispatches[j]
    BY <2>1 DEF Ids
  <2>3. dispatches' = [j \in Ids |-> dispatches'[j]]
    BY <2>1 DEF Ids, Typed
  <2>4. \A j \in Ids : dispatches'[j] \in Dispatch
    BY <1>1, <1>2, <2>2 DEF Actors
  <2>5. dispatches' \in Seq(Dispatch) /\ Ids' = Ids
    BY <2>3, <2>4, SeqUpdate DEF Typed, Ids
  <2>6. ASSUME NEW j \in Ids
        PROVE  \E actor \in Actors :
                 /\ Becomes(dispatches'[j], dispatches[j], actor, dispatches[j].event,
                            dispatches[j].outcome)
                 /\ actor = dispatches[j].actor \/ dispatches[j].actor # "malformed"
    <3>1. dispatches[j].actor \in Actors /\ how \in Actors
      BY <1>1 DEF Dispatch, Actors
    <3>2. CASE j = i
      <4>1. /\ dispatches'[j] = [dispatches[j] EXCEPT !.actor = how]
            /\ dispatches[j].actor # "malformed"
        BY <2>1, <2>2, <3>2
      <4>2. Becomes(dispatches'[j], dispatches[j], how, dispatches[j].event,
                    dispatches[j].outcome)
        <5>1. dispatches[j] \in Dispatch
          BY <1>1
        <5>2. Becomes([dispatches[j] EXCEPT !.actor = how], dispatches[j], how,
                      dispatches[j].event, dispatches[j].outcome)
          BY <5>1, FieldUpdate
        <5>3. QED
          BY <4>1, <5>2
      <4>3. QED
        BY <3>1, <4>1, <4>2
    <3>3. CASE j # i
      <4>1. dispatches'[j] = dispatches[j]
        BY <2>2, <3>3
      <4>2. Becomes(dispatches'[j], dispatches[j], dispatches[j].actor, dispatches[j].event,
                    dispatches[j].outcome)
        BY <1>1, <3>1, <4>1, FieldUpdate
      <4>3. QED
        BY <3>1, <4>2
    <3>4. QED
      BY <3>2, <3>3
  <2>7. QED
    BY <2>5, <2>6 DEF ActorsChange
<1>5. QED
  BY <1>3, <1>4

LEMMA NewStep ==
    ASSUME Typed, NEW b \in wave, NewDispatch(b)
    PROVE  /\ dispatches' \in Seq(Dispatch)
           /\ Ids' = Ids \cup {Len(dispatches) + 1} /\ Len(dispatches) + 1 \notin Ids
           /\ \A j \in Ids : dispatches'[j] = dispatches[j]
           /\ dispatches'[Len(dispatches) + 1] =
                [node |-> b.node, epoch |-> b.epoch, head |-> b.head, base |-> b.base,
                 selector |-> b.selector, actor |-> "unspawned", event |-> FALSE,
                 outcome |-> "none"]
<1> DEFINE e == [node |-> b.node, epoch |-> b.epoch, head |-> b.head, base |-> b.base,
                 selector |-> b.selector, actor |-> "unspawned", event |-> FALSE,
                 outcome |-> "none"]
<1>1. e \in Dispatch
  BY DEF Typed, Bind, Dispatch
<1>2. dispatches' = Append(dispatches, e)
  BY DEF NewDispatch
<1> HIDE DEF e
<1>3. /\ dispatches' \in Seq(Dispatch)
      /\ Len(dispatches') = Len(dispatches) + 1
      /\ dispatches'[Len(dispatches) + 1] = e
      /\ \A j \in 1 .. Len(dispatches) : dispatches'[j] = dispatches[j]
  BY <1>1, <1>2, AppendProperties DEF Typed
<1>4. Ids = 1 .. Len(dispatches) /\ Ids' = 1 .. Len(dispatches') /\ Len(dispatches) \in Nat
  BY <1>3, LenProperties DEF Typed, Ids
<1>5. QED
  BY <1>3, <1>4 DEF e

LEMMA OneStep ==
    ASSUME Typed, NEW i \in Ids
    PROVE  /\ AdmitResult(i) => OneChanges(i, TRUE, dispatches[i].outcome)
           /\ SettleExcluded(i) => OneChanges(i, dispatches[i].event, "excluded")
           /\ SettleResult(i) /\ ~dispatches[i].event =>
                /\ ~IsFresh(dispatches[i])
                /\ OneChanges(i, dispatches[i].event, "excluded")
           /\ SettleResult(i) /\ dispatches[i].event =>
                \E outcome \in {"completed", "failed"} :
                    OneChanges(i, dispatches[i].event, outcome)
<1> DEFINE d == dispatches[i]
<1>1. d \in Dispatch /\ \A j \in Ids : dispatches[j] \in Dispatch
  BY DEF Typed, TypeOK
<1>2. ASSUME NEW e, dispatches' = [dispatches EXCEPT ![i] = e],
             NEW event \in BOOLEAN, NEW outcome \in Outcomes,
             Becomes(e, d, d.actor, event, outcome)
      PROVE  OneChanges(i, event, outcome)
  <2>1. d.actor \in Actors
    BY <1>1 DEF Dispatch, Actors
  <2>2. e \in Dispatch
    BY <1>1, <1>2, <2>1, BecomesTyped
  <2>3. \A j \in Ids : dispatches'[j] = IF j = i THEN e ELSE dispatches[j]
    BY <1>2 DEF Ids
  <2>4. dispatches' = [j \in Ids |-> dispatches'[j]] /\ \A j \in Ids : dispatches'[j] \in Dispatch
    BY <1>1, <1>2, <2>2, <2>3 DEF Ids, Typed
  <2>5. QED
    BY <1>2, <2>3, <2>4, SeqUpdate DEF OneChanges, Typed, Ids
<1>3. ASSUME AdmitResult(i) PROVE OneChanges(i, TRUE, d.outcome)
  <2>1. dispatches' = [dispatches EXCEPT ![i] = [d EXCEPT !.event = TRUE]]
    BY <1>3 DEF AdmitResult
  <2>2. d.outcome \in Outcomes
    BY <1>1 DEF Dispatch, Outcomes
  <2>3. Becomes([d EXCEPT !.event = TRUE], d, d.actor, TRUE, d.outcome)
    BY <1>1, FieldUpdate
  <2>4. QED
    BY <1>2, <2>1, <2>2, <2>3
<1>4. ASSUME NEW outcome \in Outcomes,
             dispatches' = [dispatches EXCEPT ![i].outcome = outcome]
      PROVE  OneChanges(i, d.event, outcome)
  <2>1. d.event \in BOOLEAN
    BY <1>1 DEF Dispatch
  <2>2. Becomes([d EXCEPT !.outcome = outcome], d, d.actor, d.event, outcome)
    BY <1>1, FieldUpdate
  <2>3. dispatches' = [dispatches EXCEPT ![i] = [d EXCEPT !.outcome = outcome]]
    BY <1>4
  <2>4. QED
    BY <1>2, <2>1, <2>2, <2>3
<1>5. SettleExcluded(i) => OneChanges(i, d.event, "excluded")
  BY <1>4 DEF SettleExcluded, Outcomes
<1>6. SettleResult(i) /\ ~d.event => ~IsFresh(d) /\ OneChanges(i, d.event, "excluded")
  BY <1>4 DEF SettleResult, Outcomes
<1>7. SettleResult(i) /\ d.event =>
        \E outcome \in {"completed", "failed"} : OneChanges(i, d.event, outcome)
  <2> SUFFICES ASSUME SettleResult(i), d.event
               PROVE  \E outcome \in {"completed", "failed"} : OneChanges(i, d.event, outcome)
    OBVIOUS
  <2>1. CASE d.actor = "fulfilled"
    BY <1>4, <2>1 DEF SettleResult, Outcomes
  <2>2. CASE d.actor # "fulfilled"
    BY <1>4, <2>2 DEF SettleResult, Outcomes
  <2>3. QED
    BY <2>1, <2>2
<1>8. QED
  BY <1>3, <1>5, <1>6, <1>7

(* How a step may change a node. *)
NodeIs(e, status, epoch, base, stage, head) ==
    e = [status |-> status, epoch |-> epoch, base |-> base, stage |-> stage, head |-> head]

Removed(n) ==
    /\ NodeIs(nodes'[n], "removed", nodes[n].epoch, nodes[n].base, nodes[n].stage, nodes[n].head)
    /\ selector' = selector + 1

Reborn(n) ==
    \E stage \in 0 .. Final - 1, head \in {0, 1} :
        NodeIs(nodes'[n], "active", nodes[n].epoch + 1, repositoryBases'[RepositoryOf[n]],
               stage, head)

Advanced(n) ==
    /\ nodes[n].stage < Final
    /\ \E stage \in {nodes[n].stage, nodes[n].stage + 1} :
         NodeIs(nodes'[n], nodes[n].status, nodes[n].epoch, nodes[n].base, stage,
                nodes[n].head + 1)

Moves(n) == nodes'[n] = nodes[n] \/ Removed(n) \/ Reborn(n) \/ Advanced(n)

LEMMA RefreshMoves == Typed /\ Refresh => \A n \in Nodes : Moves(n)
<1> SUFFICES ASSUME Typed, Refresh, NEW n \in Nodes PROVE Moves(n)
  OBVIOUS
<1>1. nodes'[n] = RefreshedNode(n) /\ selector' = selector + 1 /\ repositoryBases' = repositoryBases
  BY DEF Refresh
<1>2. nodes[n] \in Node
  BY DEF Typed, TypeOK
<1>3. CASE IsActive(n) /\ n \notin inScope
  <2>1. nodes'[n] = [nodes[n] EXCEPT !.status = "removed"]
    BY <1>1, <1>3 DEF RefreshedNode
  <2>2. Removed(n)
    BY <1>1, <1>2, <2>1 DEF Removed, NodeIs, Node
  <2>3. QED
    BY <2>2 DEF Moves
<1>4. CASE ~(IsActive(n) /\ n \notin inScope) /\ n \in inScope /\ (~IsActive(n) \/ n \in changed)
  <2>1. NodeIs(nodes'[n], "active", nodes[n].epoch + 1, repositoryBases'[RepositoryOf[n]], 0, 0)
    BY <1>1, <1>4 DEF RefreshedNode, NodeIs
  <2>2. Reborn(n)
    BY <2>1, StageAssumption DEF Reborn
  <2>3. QED
    BY <2>2 DEF Moves
<1>5. QED
  BY <1>1, <1>3, <1>4 DEF RefreshedNode, Moves

LEMMA RebindMoves ==
    ASSUME Typed, NEW r \in Repositories, RebindBase(r), NEW n \in Nodes
    PROVE  Moves(n) /\ (RepositoryOf[n] = r /\ nodes[n].stage # Final => Reborn(n))
<1>1. CASE RepositoryOf[n] = r /\ nodes[n].stage # Final
  <2>1. NodeIs(nodes'[n], "active", nodes[n].epoch + 1, repositoryBases'[RepositoryOf[n]],
               FrozenStage, 1)
    BY <1>1 DEF RebindBase, NodeIs, Typed, TypeOK
  <2>2. QED
    BY <2>1, StageAssumption DEF Reborn, Moves
<1>2. CASE ~(RepositoryOf[n] = r /\ nodes[n].stage # Final)
  BY <1>2 DEF RebindBase, Moves
<1>3. QED
  BY <1>1, <1>2

LEMMA AdvanceMoves ==
    ASSUME Typed, NEW S \in SUBSET Nodes, \A n \in S : nodes[n].stage < Final, Advance(S),
           NEW n \in Nodes
    PROVE  Moves(n)
<1>1. nodes[n] \in Node
  BY DEF Typed, TypeOK
<1>2. CASE n \in S
  <2>1. nodes'[n] = [nodes[n] EXCEPT !.stage = @ + 1, !.head = @ + 1]
    BY <1>2 DEF Advance
  <2>2. NodeIs(nodes'[n], nodes[n].status, nodes[n].epoch, nodes[n].base, nodes[n].stage + 1,
                nodes[n].head + 1)
    BY <1>1, <2>1 DEF NodeIs, Node
  <2>3. QED
    BY <1>2, <2>2 DEF Moves, Advanced
<1>3. CASE n \notin S
  BY <1>3 DEF Advance, Moves
<1>4. QED
  BY <1>2, <1>3

LEMMA AdmitMoves ==
    ASSUME Typed, NEW i \in Ids, AdmitResult(i), nodes[dispatches[i].node].stage < Final,
           NEW n \in Nodes
    PROVE  Moves(n) /\ (n # dispatches[i].node => nodes'[n] = nodes[n])
<1>1. nodes[n] \in Node
  BY DEF Typed, TypeOK
<1>2. CASE n = dispatches[i].node
  <2>1. \E stage \in {nodes[n].stage, nodes[n].stage + 1} :
          nodes'[n] = [nodes[n] EXCEPT !.head = @ + 1, !.stage = stage]
    BY <1>1, <1>2 DEF AdmitResult, Typed, TypeOK
  <2>2. \E stage \in {nodes[n].stage, nodes[n].stage + 1} :
          NodeIs(nodes'[n], nodes[n].status, nodes[n].epoch, nodes[n].base, stage,
                 nodes[n].head + 1)
    BY <1>1, <2>1 DEF NodeIs, Node
  <2>3. QED
    BY <1>2, <2>2 DEF Moves, Advanced
<1>3. CASE n # dispatches[i].node
  BY <1>3 DEF AdmitResult, Moves, Typed, TypeOK
<1>4. QED
  BY <1>2, <1>3

-----------------------------------------------------------------------------
(* What the steps do, sorted by what they change of the ledgers. *)

Kept == UNCHANGED <<nodes, selector, repositoryBases>>

Recorded(b) ==
    /\ pc = "recording"
    /\ NewDispatch(b)
    /\ wave' = wave \ {b}
    /\ Kept

Advances(S) ==
    /\ \A n \in S : nodes[n].stage < Final
    /\ Advance(S)
    /\ pc = "loop" /\ running = {}
    /\ UNCHANGED <<selector, repositoryBases, dispatches>>

Kinds ==
    \/ Kept /\ UNCHANGED dispatches
    \/ Kept /\ ActorsChange
    \/ \E b \in wave : Recorded(b)
    \/ \E i \in Ids : AdmitResult(i) \/ SettleResult(i) \/ SettleExcluded(i)
    \/ Refresh
    \/ \E r \in Repositories : RebindBase(r)
    \/ \E S \in SUBSET Nodes : Advances(S)

LEMMA DriftKinds ==
    ASSUME NEW about \in SUBSET Nodes, DropForDrift(about)
    PROVE  \/ Kept /\ UNCHANGED dispatches
           \/ \E r \in Repositories : RebindBase(r)
<1>1. Drifted(about) \subseteq Repositories
  BY NodeAssumption DEF Drifted
<1>2. QED
  BY <1>1 DEF DropForDrift, Kept, ledgerVars

LEMMA StepKinds ==
    ASSUME Typed, [Next]_vars
    PROVE  Kinds
<1>1. CASE UNCHANGED vars
  BY <1>1 DEF vars, ledgerVars, Kinds, Kept
<1>2. CASE Remote \/ Crash
  <2>1. Kept /\ UNCHANGED dispatches
    BY <1>2 DEF Remote, Crash, BaseMoves, IssueChanges, IssueLeaves, IssueReturns, OutsideChanges,
         ScopeMoves, ledgerVars, Kept
  <2>2. QED
    BY <2>1 DEF Kinds
<1>3. CASE \E i \in Ids, how \in Ends : ActorEnds(i, how)
  <2>1. ActorsChange
    BY <1>3, ActorsStep
  <2>2. Kept
    BY <1>3 DEF ActorEnds, Kept
  <2>3. QED
    BY <2>1, <2>2 DEF Kinds
<1>4. CASE Start \/ SpawnWave
  <2>1. ActorsChange
    BY <1>4, ActorsStep
  <2>2. Kept
    BY <1>4 DEF Start, SpawnWave, Kept
  <2>3. QED
    BY <2>1, <2>2 DEF Kinds
<1>5. CASE \/ CompileFails \/ CompileWave \/ CompileAwait \/ Drain \/ ObserveDrained
           \/ FinishSettling \/ Idle \/ \E prepared \in SUBSET wave : PrepareWave(prepared)
  <2>1. Kept /\ UNCHANGED dispatches
    BY <1>5 DEF CompileFails, CompileWave, CompileAwait, Drain, ObserveDrained,
         FinishSettling, Idle, PrepareWave, ledgerVars, Kept
  <2>2. QED
    BY <2>1 DEF Kinds
<1>6. CASE RecordStarted
  BY <1>6 DEF RecordStarted, Recorded, NewDispatch, Kept, Kinds
<1>7. CASE WaveDrifts
  <2>1. DropForDrift(WaveNodes) /\ WaveNodes \in SUBSET Nodes
    BY <1>7 DEF WaveDrifts, WaveNodes, Typed, TypeOK
  <2>2. QED
    BY <2>1, DriftKinds DEF Kinds
<1>8. ASSUME NEW n \in Nodes, RootAction(n) PROVE Kinds
  <2>1. CASE DropForDrift({n})
    BY <2>1, DriftKinds DEF Kinds
  <2>2. CASE ~DropForDrift({n})
    <3>1. Advances({n})
      BY <1>8, <2>2 DEF RootAction, Advances, Quiet, RootNodes, Owned
    <3>2. QED
      BY <3>1 DEF Kinds
  <2>3. QED
    BY <2>1, <2>2
<1>9. ASSUME NEW S \in SUBSET Nodes, MachineBatch(S) PROVE Kinds
  <2>1. CASE DropForDrift(Owned("machine"))
    BY <2>1, DriftKinds DEF Kinds, Owned
  <2>2. CASE ~DropForDrift(Owned("machine"))
    <3>1. Advances(S)
      BY <1>9, <2>2 DEF MachineBatch, Advances, Quiet, Owned
    <3>2. QED
      BY <3>1 DEF Kinds
  <2>3. QED
    BY <2>1, <2>2
<1>10. QED
  BY <1>1, <1>2, <1>3, <1>4, <1>5, <1>6, <1>7, <1>8, <1>9 DEF Next, Process, Kinds

-----------------------------------------------------------------------------
(* What every step keeps of the types, and how it moves the nodes. *)

(* A dispatch was bound to a node that was already there: its epoch and its  *)
(* head lie at or below those of the node, and a node at whose very head it  *)
(* was bound is not closed.                                                  *)
Bound(d, n) ==
    /\ d.epoch <= nodes[n].epoch
    /\ d.epoch = nodes[n].epoch =>
         /\ d.head <= nodes[n].head
         /\ d.head = nodes[n].head => nodes[n].stage < Final

Bounds == \A i \in Ids : dispatches[i].selector <= selector
                         /\ Bound(dispatches[i], dispatches[i].node)

LEMMA BasesStep ==
    ASSUME Typed, [Next]_vars
    PROVE  /\ repositoryBases' \in [Repositories -> Nat]
           /\ remoteHead' \in [Repositories -> Nat]
           /\ \A r \in Repositories : remoteHead[r] <= remoteHead'[r]
<1> DEFINE Good == /\ repositoryBases' \in [Repositories -> Nat]
                   /\ remoteHead' \in [Repositories -> Nat]
                   /\ \A r \in Repositories : remoteHead[r] <= remoteHead'[r]
<1> USE DEF Typed, TypeOK
<1>1. CASE UNCHANGED <<repositoryBases, remoteHead>>
  BY <1>1
<1>2. CASE Kept /\ UNCHANGED remoteHead
  BY <1>2 DEF Kept
<1>3. ASSUME NEW about \in SUBSET Nodes, DropForDrift(about) PROVE Good
  <2>1. Drifted(about) \subseteq Repositories
    BY NodeAssumption DEF Drifted
  <2>2. UNCHANGED remoteHead /\ repositoryBases' \in [Repositories -> Nat]
    BY <1>3, <2>1 DEF DropForDrift, RebindBase, remoteVars, ledgerVars
  <2>3. QED
    BY <2>2
<1>4. ASSUME NEW r \in Repositories, remoteHead' = [remoteHead EXCEPT ![r] = @ + 1],
             UNCHANGED repositoryBases
      PROVE  Good
  BY <1>4
<1>5. CASE UNCHANGED vars
  BY <1>1, <1>5 DEF vars, ledgerVars, remoteVars
<1>6. CASE Remote
  <2>1. CASE \E r \in Repositories : BaseMoves(r)
    BY <1>4, <2>1 DEF BaseMoves, ledgerVars
  <2>2. CASE (\E n \in Nodes : IssueChanges(n) \/ IssueLeaves(n) \/ IssueReturns(n))
             \/ OutsideChanges
    BY <1>1, <2>2 DEF IssueChanges, IssueLeaves, IssueReturns, OutsideChanges, ScopeMoves,
         ledgerVars
  <2>3. QED
    BY <1>6, <2>1, <2>2 DEF Remote
<1>7. CASE Crash \/ Start \/ Refresh \/ SpawnWave \/ RecordStarted
           \/ \E i \in Ids, how \in Ends : ActorEnds(i, how)
  BY <1>1, <1>7 DEF Crash, Start, Refresh, SpawnWave, RecordStarted, ActorEnds, ledgerVars,
       remoteVars
<1>8. CASE \/ CompileFails \/ CompileWave \/ CompileAwait \/ Drain \/ ObserveDrained
           \/ FinishSettling \/ Idle \/ \E prepared \in SUBSET wave : PrepareWave(prepared)
  BY <1>1, <1>8 DEF CompileFails, CompileWave, CompileAwait, Drain, ObserveDrained,
       FinishSettling, Idle, PrepareWave, ledgerVars, remoteVars
<1>9. CASE \E i \in Ids : AdmitResult(i) \/ SettleResult(i) \/ SettleExcluded(i)
  BY <1>1, <1>9 DEF AdmitResult, SettleResult, SettleExcluded, remoteVars
<1>10. CASE WaveDrifts
  BY <1>3, <1>10 DEF WaveDrifts, WaveNodes
<1>11. ASSUME NEW n \in Nodes, RootAction(n) PROVE Good
  <2>1. CASE DropForDrift({n})
    BY <1>3, <2>1
  <2>2. CASE ~DropForDrift({n})
    <3>1. RepositoryOf[n] \in Repositories /\ UNCHANGED repositoryBases
      BY <1>11, <2>2, NodeAssumption DEF RootAction
    <3>2. UNCHANGED remoteHead
          \/ remoteHead' = [remoteHead EXCEPT ![RepositoryOf[n]] = @ + 1]
      BY <1>11, <2>2 DEF RootAction
    <3>3. QED
      BY <1>1, <1>4, <3>1, <3>2
  <2>3. QED
    BY <2>1, <2>2
<1>12. ASSUME NEW S \in SUBSET Nodes, MachineBatch(S) PROVE Good
  <2>1. CASE DropForDrift(Owned("machine"))
    BY <1>3, <2>1 DEF Owned
  <2>2. CASE ~DropForDrift(Owned("machine"))
    BY <1>1, <1>12, <2>2 DEF MachineBatch, remoteVars
  <2>3. QED
    BY <2>1, <2>2
<1>13. QED
  BY <1>5, <1>6, <1>7, <1>8, <1>9, <1>10, <1>11, <1>12 DEF Next, Process

LEMMA NodesMove ==
    ASSUME Typed, Bounds, [Next]_vars
    PROVE  /\ nodes' = [n \in Nodes |-> nodes'[n]]
           /\ \A n \in Nodes : Moves(n)
           /\ selector' \in {selector, selector + 1}
<1> DEFINE Good == /\ nodes' = [n \in Nodes |-> nodes'[n]]
                   /\ \A n \in Nodes : Moves(n)
                   /\ selector' \in {selector, selector + 1}
<1>1. CASE Kept
  BY <1>1 DEF Kept, Moves, Typed, TypeOK
<1>2. CASE Refresh
  BY <1>2, RefreshMoves DEF Refresh
<1>3. ASSUME NEW r \in Repositories, RebindBase(r) PROVE Good
  <2>1. nodes' = [n \in Nodes |-> nodes'[n]] /\ selector' = selector
    BY <1>3 DEF RebindBase
  <2>2. QED
    BY <1>3, <2>1, RebindMoves
<1>4. ASSUME NEW S \in SUBSET Nodes, Advances(S) PROVE Good
  <2>1. nodes' = [n \in Nodes |-> nodes'[n]] /\ selector' = selector
    BY <1>4 DEF Advances, Advance
  <2>2. QED
    BY <1>4, <2>1, AdvanceMoves DEF Advances
<1>5. ASSUME NEW i \in Ids, AdmitResult(i) PROVE Good
  <2>1. nodes' = [n \in Nodes |-> nodes'[n]] /\ selector' = selector
    BY <1>5 DEF AdmitResult, Typed, TypeOK
  <2>2. Bound(dispatches[i], dispatches[i].node) /\ IsFresh(dispatches[i])
    BY <1>5 DEF AdmitResult, Bounds
  <2>3. nodes[dispatches[i].node].stage < Final
    BY <2>2 DEF Bound, IsFresh, Binding
  <2>4. QED
    BY <1>5, <2>1, <2>3, AdmitMoves
<1>6. CASE \E i \in Ids : SettleResult(i) \/ SettleExcluded(i)
  BY <1>1, <1>6 DEF SettleResult, SettleExcluded, Kept
<1>7. QED
  BY <1>1, <1>2, <1>3, <1>4, <1>5, <1>6, StepKinds DEF Kinds, Recorded

(* What the moves of a node have in common. *)
Grows(n) ==
    \/ /\ nodes'[n].epoch = nodes[n].epoch
       /\ nodes'[n].head >= nodes[n].head
       /\ nodes'[n].stage >= nodes[n].stage
       /\ nodes'[n].head = nodes[n].head => nodes'[n].stage = nodes[n].stage
    \/ nodes'[n].epoch = nodes[n].epoch + 1

LEMMA MovesTyped ==
    ASSUME Typed, repositoryBases' \in [Repositories -> Nat], NEW n \in Nodes, Moves(n)
    PROVE  nodes'[n] \in Node /\ Grows(n)
<1>1. nodes[n] \in Node /\ repositoryBases'[RepositoryOf[n]] \in Nat
  BY NodeAssumption DEF Typed, TypeOK
<1>2. ASSUME NEW status \in {"active", "removed"}, NEW epoch \in Nat, NEW base \in Nat,
             NEW stage \in 0 .. Final, NEW head \in Nat,
             NodeIs(nodes'[n], status, epoch, base, stage, head)
      PROVE  nodes'[n] \in Node /\ nodes'[n].epoch = epoch /\ nodes'[n].stage = stage
             /\ nodes'[n].head = head
  BY <1>2 DEF NodeIs, Node
<1>3. CASE nodes'[n] = nodes[n]
  BY <1>1, <1>3 DEF Grows, Node
<1>4. CASE Removed(n)
  <2>1. /\ nodes[n].epoch \in Nat /\ nodes[n].base \in Nat /\ nodes[n].stage \in 0 .. Final
        /\ nodes[n].head \in Nat
    BY <1>1 DEF Node
  <2>2. nodes'[n] \in Node /\ nodes'[n].epoch = nodes[n].epoch
        /\ nodes'[n].stage = nodes[n].stage /\ nodes'[n].head = nodes[n].head
    BY <1>2, <1>4, <2>1 DEF Removed
  <2>3. QED
    BY <2>1, <2>2, StageAssumption DEF Grows
<1>5. CASE Reborn(n)
  <2>1. PICK stage \in 0 .. Final - 1, head \in {0, 1} :
          NodeIs(nodes'[n], "active", nodes[n].epoch + 1, repositoryBases'[RepositoryOf[n]],
                 stage, head)
    BY <1>5 DEF Reborn
  <2>2. nodes[n].epoch + 1 \in Nat /\ stage \in 0 .. Final /\ head \in Nat
    BY <1>1, StageAssumption DEF Node
  <2>3. nodes'[n] \in Node /\ nodes'[n].epoch = nodes[n].epoch + 1
    BY <1>1, <1>2, <2>1, <2>2
  <2>4. QED
    BY <2>3 DEF Grows
<1>6. CASE Advanced(n)
  <2>1. PICK stage \in {nodes[n].stage, nodes[n].stage + 1} :
          NodeIs(nodes'[n], nodes[n].status, nodes[n].epoch, nodes[n].base, stage,
                 nodes[n].head + 1)
    BY <1>6 DEF Advanced
  <2>2. /\ nodes[n].status \in {"active", "removed"} /\ nodes[n].epoch \in Nat
        /\ nodes[n].base \in Nat /\ stage \in 0 .. Final /\ nodes[n].head + 1 \in Nat
        /\ nodes[n].head \in Nat /\ stage >= nodes[n].stage
    BY <1>1, <1>6, StageAssumption DEF Node, Advanced
  <2>3. nodes'[n] \in Node /\ nodes'[n].epoch = nodes[n].epoch /\ nodes'[n].stage = stage
        /\ nodes'[n].head = nodes[n].head + 1
    BY <1>2, <2>1, <2>2
  <2>4. QED
    BY <2>2, <2>3 DEF Grows
<1>7. QED
  BY <1>3, <1>4, <1>5, <1>6 DEF Moves

(* A dispatch keeps what it was bound to; an append adds one. *)
SameBinding(i) ==
    /\ dispatches'[i].node = dispatches[i].node
    /\ dispatches'[i].epoch = dispatches[i].epoch
    /\ dispatches'[i].head = dispatches[i].head
    /\ dispatches'[i].base = dispatches[i].base
    /\ dispatches'[i].selector = dispatches[i].selector

LEMMA BecomesFields ==
    ASSUME NEW e, NEW d, NEW actor, NEW event, NEW outcome, Becomes(e, d, actor, event, outcome)
    PROVE  /\ e.node = d.node /\ e.epoch = d.epoch /\ e.head = d.head /\ e.base = d.base
           /\ e.selector = d.selector
           /\ e.actor = actor /\ e.event = event /\ e.outcome = outcome
BY DEF Becomes

LEMMA OneFields ==
    ASSUME NEW i \in Ids, NEW event, NEW outcome, OneChanges(i, event, outcome)
    PROVE  /\ dispatches' \in Seq(Dispatch) /\ Ids' = Ids
           /\ \A j \in Ids : SameBinding(j) /\ dispatches'[j].actor = dispatches[j].actor
           /\ dispatches'[i].event = event /\ dispatches'[i].outcome = outcome
           /\ \A j \in Ids : j # i => dispatches'[j] = dispatches[j]
BY BecomesFields DEF OneChanges, SameBinding

LEMMA ActorsFields ==
    ASSUME ActorsChange
    PROVE  /\ dispatches' \in Seq(Dispatch) /\ Ids' = Ids
           /\ \A i \in Ids :
                /\ SameBinding(i)
                /\ dispatches'[i].event = dispatches[i].event
                /\ dispatches'[i].outcome = dispatches[i].outcome
                /\ dispatches[i].actor = "malformed" => dispatches'[i].actor = "malformed"
<1>1. ASSUME NEW i \in Ids
      PROVE  /\ SameBinding(i)
             /\ dispatches'[i].event = dispatches[i].event
             /\ dispatches'[i].outcome = dispatches[i].outcome
             /\ dispatches[i].actor = "malformed" => dispatches'[i].actor = "malformed"
  <2>1. PICK actor \in Actors :
          /\ Becomes(dispatches'[i], dispatches[i], actor, dispatches[i].event,
                     dispatches[i].outcome)
          /\ actor = dispatches[i].actor \/ dispatches[i].actor # "malformed"
    BY DEF ActorsChange
  <2>2. QED
    BY <2>1, BecomesFields DEF SameBinding
<1>2. QED
  BY <1>1 DEF ActorsChange

LEMMA IdStep ==
    ASSUME Typed, NEW i \in Ids, AdmitResult(i) \/ SettleResult(i) \/ SettleExcluded(i)
    PROVE  \E event, outcome : OneChanges(i, event, outcome)
BY OneStep

LEMMA DispatchesKept ==
    ASSUME Typed, [Next]_vars
    PROVE  /\ dispatches' \in Seq(Dispatch)
           /\ \A i \in Ids' : dispatches'[i] \in Dispatch
           /\ Ids \subseteq Ids'
           /\ \A i \in Ids : SameBinding(i)
<1> DEFINE Good == dispatches' \in Seq(Dispatch) /\ Ids \subseteq Ids'
                   /\ \A i \in Ids : SameBinding(i)
<1>1. ASSUME UNCHANGED dispatches PROVE Good
  BY <1>1 DEF Typed, Ids, SameBinding
<1>2. ASSUME ActorsChange PROVE Good
  <2>1. dispatches' \in Seq(Dispatch) /\ Ids' = Ids
    BY <1>2, ActorsFields
  <2>2. \A i \in Ids : SameBinding(i)
    BY <1>2, ActorsFields
  <2>3. QED
    BY <2>1, <2>2
<1>3. ASSUME NEW b \in wave, Recorded(b) PROVE Good
  BY <1>3, NewStep DEF Recorded, SameBinding
<1>4. ASSUME NEW i \in Ids, AdmitResult(i) \/ SettleResult(i) \/ SettleExcluded(i) PROVE Good
  BY <1>4, IdStep, OneFields
<1>5. Good
  BY <1>1, <1>2, <1>3, <1>4, StepKinds DEF Kinds, Refresh, RebindBase, Advances
<1>6. \A i \in Ids' : dispatches'[i] \in Dispatch
  <2>1. dispatches' \in [1 .. Len(dispatches') -> Dispatch]
    BY <1>5, LenProperties
  <2>2. QED
    BY <2>1 DEF Ids
<1>7. QED
  BY <1>5, <1>6

(* The variables of the process and the bounds. *)
ProcessTyped ==
    /\ delivered \subseteq Nodes
    /\ terminal \in BOOLEAN
    /\ inScope \subseteq Nodes
    /\ changed \subseteq Nodes
    /\ outside \in BOOLEAN
    /\ pc \in {"down", "loop", "wave", "recording", "await", "observing",
               "settling", "done"}
    /\ UNION {running, drained, admit, exclude} \subseteq Ids
    /\ wave \subseteq Bind
    /\ current \in Ids \cup {0}
    /\ fatal \in BOOLEAN
    /\ scopeMoves \in 0 .. MaxScope
    /\ faults \in 0 .. MaxFaults

LEMMA DriftTyped ==
    ASSUME Typed, NEW about, DropForDrift(about), Ids \subseteq Ids'
    PROVE  ProcessTyped'
BY DEF DropForDrift, RebindBase, Down, Typed, TypeOK, ProcessTyped, ledgerVars, remoteVars, batchVars

LEMMA ProcessTypes ==
    ASSUME Typed, [Next]_vars
    PROVE  ProcessTyped'
<1>1. Ids \subseteq Ids' /\ MaxFaults \in Nat /\ MaxScope \in Nat
  BY DispatchesKept, LimitAssumption
<1>2. ProcessTyped
  BY DEF Typed, TypeOK, ProcessTyped
<1>3. CASE UNCHANGED vars
  BY <1>1, <1>2, <1>3 DEF vars, ledgerVars, remoteVars, batchVars, ProcessTyped
<1>4. CASE Remote
  <2>1. CASE \E r \in Repositories : BaseMoves(r)
    BY <1>1, <1>2, <2>1 DEF BaseMoves, ledgerVars, batchVars, ProcessTyped
  <2>2. CASE OutsideChanges \/ \E n \in Nodes : IssueChanges(n) \/ IssueLeaves(n) \/ IssueReturns(n)
    <3>1. UNCHANGED <<delivered, terminal, pc, running, wave, batchVars, faults>>
          /\ scopeMoves' \in 0 .. MaxScope
      BY <1>1, <1>2, <2>2 DEF OutsideChanges, IssueChanges, IssueLeaves, IssueReturns, ScopeMoves,
           ledgerVars, ProcessTyped
    <3>2. inScope' \subseteq Nodes /\ changed' \subseteq Nodes /\ outside' \in BOOLEAN
      BY <1>2, <2>2 DEF OutsideChanges, IssueChanges, IssueLeaves, IssueReturns, ProcessTyped
    <3>3. QED
      BY <1>1, <1>2, <3>1, <3>2 DEF batchVars, ProcessTyped
  <2>3. QED
    BY <1>4, <2>1, <2>2 DEF Remote
<1>5. CASE Crash \/ Start \/ Refresh \/ SpawnWave \/ RecordStarted
           \/ \E i \in Ids, how \in Ends : ActorEnds(i, how)
  <2>1. CASE Crash
    <3>1. faults' \in 0 .. MaxFaults
      BY <1>1, <1>2, <2>1 DEF Crash, ProcessTyped
    <3>2. QED
      BY <1>2, <2>1, <3>1 DEF Crash, Down, ledgerVars, remoteVars, ProcessTyped
  <2>2. CASE Start \/ SpawnWave
    BY <1>1, <1>2, <2>2 DEF Start, SpawnWave, Unsettled, remoteVars, batchVars, ProcessTyped
  <2>3. CASE Refresh
    BY <1>1, <1>2, <2>3 DEF Refresh, batchVars, ProcessTyped
  <2>4. CASE RecordStarted
    BY <1>1, <1>2, <2>4 DEF RecordStarted, remoteVars, batchVars, ProcessTyped
  <2>5. CASE \E i \in Ids, how \in Ends : ActorEnds(i, how)
    BY <1>1, <1>2, <2>5 DEF ActorEnds, remoteVars, batchVars, ProcessTyped
  <2>6. QED
    BY <1>5, <2>1, <2>2, <2>3, <2>4, <2>5
<1>6. CASE CompileFails \/ CompileAwait \/ Drain \/ FinishSettling
  BY <1>1, <1>2, <1>6 DEF CompileFails, CompileAwait, Drain, Ready, FinishSettling, Down,
       ledgerVars, remoteVars, batchVars, ProcessTyped
<1>7. CASE CompileWave
  <2>1. \A n \in Nodes : Binding(n) \in Bind
    BY DEF Typed, TypeOK, Node, Binding, Bind
  <2>2. wave' \subseteq Bind
    BY <1>7, <2>1 DEF CompileWave, Waves, Candidates, Owned
  <2>3. QED
    BY <1>1, <1>2, <1>7, <2>2 DEF CompileWave, ledgerVars, remoteVars, batchVars, ProcessTyped
<1>8. CASE ObserveDrained \/ Idle
  <2>1. CASE ObserveDrained /\ BasesConflict
    BY <1>1, <1>2, <2>1 DEF ObserveDrained, Down, ledgerVars, remoteVars, ProcessTyped
  <2>2. CASE ObserveDrained /\ ~BasesConflict
    <3>1. exclude' \subseteq drained /\ admit' \subseteq drained
      BY <2>2 DEF ObserveDrained, Observed, DrainedAs
    <3>2. QED
      BY <1>1, <1>2, <2>2, <3>1 DEF ObserveDrained, ledgerVars, remoteVars, ProcessTyped
  <2>3. CASE Idle
    <3>1. terminal' \in BOOLEAN
      BY <1>2, <2>3 DEF Idle, ProcessTyped
    <3>2. faults' \in 0 .. MaxFaults
      <4>1. faults' = faults \/ (faults < MaxFaults /\ faults' = faults + 1)
        <5>1. \/ UNCHANGED <<running, wave, batchVars, faults>>
              \/ /\ AllClosed => faults < MaxFaults
                 /\ faults' = IF AllClosed THEN faults + 1 ELSE faults
          BY <2>3, Zenon DEF Idle
        <5>2. CASE AllClosed
          BY <5>1, <5>2
        <5>3. CASE ~AllClosed
          BY <5>1, <5>3
        <5>4. QED
          BY <5>2, <5>3
      <4>2. QED
        BY <1>1, <1>2, <4>1 DEF ProcessTyped
    <3>3. \/ Down
          \/ pc' = "done" /\ UNCHANGED <<running, wave, batchVars>>
      BY <2>3 DEF Idle
    <3>4. QED
      BY <1>1, <1>2, <2>3, <3>1, <3>2, <3>3 DEF Idle, Down, remoteVars, batchVars, ProcessTyped
  <2>4. QED
    BY <1>8, <2>1, <2>2, <2>3
<1>9. ASSUME NEW prepared \in SUBSET wave, PrepareWave(prepared) PROVE ProcessTyped'
  <2>1. faults' \in 0 .. MaxFaults
    BY <1>1, <1>2, <1>9 DEF PrepareWave, ProcessTyped
  <2>2. \/ Down
        \/ /\ pc' \in {"await", "recording"} /\ wave' \subseteq wave
           /\ UNCHANGED <<running, batchVars>>
    BY <1>9 DEF PrepareWave
  <2>3. QED
    BY <1>1, <1>2, <1>9, <2>1, <2>2 DEF PrepareWave, Down, ledgerVars, remoteVars, batchVars,
         ProcessTyped
<1>10. CASE \E i \in Ids : AdmitResult(i) \/ SettleResult(i) \/ SettleExcluded(i)
  BY <1>1, <1>2, <1>10 DEF AdmitResult, SettleResult, SettleExcluded, remoteVars, ProcessTyped
<1>11. CASE WaveDrifts
  BY <1>1, <1>11, DriftTyped DEF WaveDrifts
<1>12. ASSUME NEW n \in Nodes, RootAction(n) PROVE ProcessTyped'
  <2>1. CASE DropForDrift({n})
    BY <1>1, <2>1, DriftTyped
  <2>2. CASE ~DropForDrift({n})
    BY <1>1, <1>2, <1>12, <2>2 DEF RootAction, batchVars, ProcessTyped
  <2>3. QED
    BY <2>1, <2>2
<1>13. ASSUME NEW S \in SUBSET Nodes, MachineBatch(S) PROVE ProcessTyped'
  <2>1. CASE DropForDrift(Owned("machine"))
    BY <1>1, <2>1, DriftTyped
  <2>2. CASE ~DropForDrift(Owned("machine"))
    <3>1. faults' \in 0 .. MaxFaults
      BY <1>1, <1>2, <1>13, <2>2 DEF MachineBatch, ProcessTyped
    <3>2. Down \/ UNCHANGED <<pc, running, wave, batchVars>>
      BY <1>13, <2>2 DEF MachineBatch
    <3>3. UNCHANGED <<delivered, terminal, remoteVars>>
      BY <1>13, <2>2 DEF MachineBatch
    <3>4. QED
      BY <1>1, <1>2, <3>1, <3>2, <3>3 DEF Down, remoteVars, batchVars, ProcessTyped
  <2>3. QED
    BY <2>1, <2>2
<1>14. QED
  BY <1>3, <1>4, <1>5, <1>6, <1>7, <1>8, <1>9, <1>10, <1>11, <1>12, <1>13 DEF Next, Process

LEMMA TypedStep ==
    ASSUME Typed, Bounds, [Next]_vars
    PROVE  Typed' /\ \A n \in Nodes : Grows(n)
<1>1. /\ repositoryBases' \in [Repositories -> Nat]
      /\ remoteHead' \in [Repositories -> Nat]
  BY BasesStep
<1>2. /\ nodes' = [n \in Nodes |-> nodes'[n]]
      /\ \A n \in Nodes : nodes'[n] \in Node /\ Grows(n)
      /\ selector' \in {selector, selector + 1}
  BY <1>1, NodesMove, MovesTyped
<1>3. nodes' \in [Nodes -> Node] /\ selector' \in Nat
  BY <1>2 DEF Typed, TypeOK
<1>4. ProcessTyped' /\ dispatches' \in Seq(Dispatch) /\ \A i \in Ids' : dispatches'[i] \in Dispatch
  BY ProcessTypes, DispatchesKept
<1>5. {b.node : b \in wave'} \subseteq Nodes
  BY <1>4 DEF ProcessTyped, Bind
<1>6. QED
  BY <1>1, <1>2, <1>3, <1>4, <1>5 DEF ProcessTyped, Typed, TypeOK

-----------------------------------------------------------------------------
(* What the process remembers. *)

Memory ==
    /\ MemoryAgrees
    /\ pc = "recording" => running \subseteq Unsettled
    /\ pc = "settling" => drained = {}
    /\ admit \cap exclude = {}

LEMMA UnsettledSame ==
    ASSUME Typed, \/ UNCHANGED dispatches
                  \/ ActorsChange
                  \/ \E i \in Ids : AdmitResult(i)
    PROVE  Unsettled' = Unsettled /\ Busy' = Busy
<1>1. CASE UNCHANGED dispatches
  BY <1>1 DEF Unsettled, Busy, Ids
<1>2. CASE ActorsChange
  <2>1. Ids' = Ids /\ \A i \in Ids : dispatches'[i].outcome = dispatches[i].outcome
                                     /\ dispatches'[i].node = dispatches[i].node
    BY <1>2, ActorsFields DEF SameBinding
  <2>2. QED
    BY <2>1 DEF Unsettled, Busy
<1>3. ASSUME NEW i \in Ids, AdmitResult(i) PROVE Unsettled' = Unsettled /\ Busy' = Busy
  <2>1. OneChanges(i, TRUE, dispatches[i].outcome)
    BY <1>3, OneStep
  <2>2. Ids' = Ids /\ \A j \in Ids : dispatches'[j].outcome = dispatches[j].outcome
                                     /\ dispatches'[j].node = dispatches[j].node
    <3>1. /\ Ids' = Ids
          /\ \A j \in Ids : j # i => dispatches'[j] = dispatches[j]
          /\ Becomes(dispatches'[i], dispatches[i], dispatches[i].actor, TRUE,
                     dispatches[i].outcome)
      BY <2>1 DEF OneChanges
    <3>2. /\ dispatches'[i].outcome = dispatches[i].outcome
          /\ dispatches'[i].node = dispatches[i].node
      BY <3>1 DEF Becomes
    <3>3. QED
      BY <3>1, <3>2
  <2>3. QED
    BY <2>2 DEF Unsettled, Busy
<1>4. QED
  BY <1>1, <1>2, <1>3

LEMMA NewFields ==
    ASSUME Typed, NEW b \in wave, NewDispatch(b)
    PROVE  LET e == dispatches'[Len(dispatches) + 1]
           IN  /\ e.node = b.node /\ e.epoch = b.epoch /\ e.head = b.head /\ e.base = b.base
               /\ e.selector = b.selector /\ ~e.event /\ e.outcome = "none"
<1>1. dispatches'[Len(dispatches) + 1] =
        [node |-> b.node, epoch |-> b.epoch, head |-> b.head, base |-> b.base,
         selector |-> b.selector, actor |-> "unspawned", event |-> FALSE,
         outcome |-> "none"]
  BY NewStep
<1>2. QED
  BY <1>1

LEMMA UnsettledMore ==
    ASSUME Typed, NEW b \in wave, NewDispatch(b)
    PROVE  /\ Unsettled' = Unsettled \cup {Len(dispatches) + 1}
           /\ Busy' = Busy \cup {b.node}
<1>1. /\ Ids' = Ids \cup {Len(dispatches) + 1} /\ Len(dispatches) + 1 \notin Ids
      /\ \A j \in Ids : dispatches'[j] = dispatches[j]
      /\ dispatches'[Len(dispatches) + 1].outcome = "none"
      /\ dispatches'[Len(dispatches) + 1].node = b.node
  BY NewStep, NewFields
<1>2. Unsettled' = Unsettled \cup {Len(dispatches) + 1}
  BY <1>1 DEF Unsettled
<1>3. QED
  BY <1>1, <1>2 DEF Unsettled, Busy

LEMMA UnsettledLess ==
    ASSUME Typed, NEW i \in Ids, SettleResult(i) \/ SettleExcluded(i)
    PROVE  /\ Unsettled' = Unsettled \ {i} /\ Busy' \subseteq Busy
<1>1. \E event : \E outcome \in {"completed", "failed", "excluded"} : OneChanges(i, event, outcome)
  BY OneStep
<1>2. Ids' = Ids /\ dispatches'[i].outcome # "none"
      /\ \A j \in Ids : dispatches'[j].node = dispatches[j].node
                        /\ (j # i => dispatches'[j].outcome = dispatches[j].outcome)
  BY <1>1, OneFields DEF SameBinding
<1>3. Unsettled' = Unsettled \ {i}
  BY <1>2 DEF Unsettled
<1>4. QED
  BY <1>2, <1>3 DEF Unsettled, Busy

LEMMA DriftMemory ==
    ASSUME Memory, NEW about, DropForDrift(about), pc = "wave" \/ pc = "loop"
    PROVE  Memory' /\ UNCHANGED <<dispatches, terminal>> /\ wave' = {} /\ pc' \in {"down", "loop"}
<1>1. PICK r \in Drifted(about) :
        IF CanRebind(r)
        THEN RebindBase(r) /\ pc' = "loop" /\ wave' = {} /\ UNCHANGED <<running, batchVars>>
        ELSE Down /\ UNCHANGED ledgerVars
  BY DEF DropForDrift
<1>2. UNCHANGED dispatches /\ Unsettled' = Unsettled /\ UNCHANGED terminal
  BY <1>1 DEF RebindBase, ledgerVars, Unsettled, Ids
<1>3. CASE RebindBase(r) /\ pc' = "loop" /\ wave' = {} /\ UNCHANGED <<running, batchVars>>
  BY <1>2, <1>3 DEF Memory, MemoryAgrees, batchVars
<1>4. CASE Down /\ UNCHANGED ledgerVars
  BY <1>2, <1>4 DEF Memory, MemoryAgrees, Down
<1>5. QED
  BY <1>1, <1>3, <1>4

LEMMA MemoryStep ==
    ASSUME Typed, Memory, [Next]_vars
    PROVE  Memory'
<1> USE DEF Memory, MemoryAgrees
<1>1. CASE UNCHANGED <<dispatches, pc, running, batchVars>>
  BY <1>1, UnsettledSame DEF batchVars
<1>2. CASE UNCHANGED vars
  BY <1>1, <1>2 DEF vars, ledgerVars
<1>3. CASE Remote
  <2>1. UNCHANGED <<dispatches, pc, running, batchVars>>
    BY <1>3 DEF Remote, BaseMoves, IssueChanges, IssueLeaves, IssueReturns, OutsideChanges,
         ScopeMoves, ledgerVars
  <2>2. QED
    BY <1>1, <2>1
<1>4. CASE \E i \in Ids, how \in Ends : ActorEnds(i, how)
  <2>1. UNCHANGED <<pc, running, batchVars>>
    BY <1>4 DEF ActorEnds
  <2>2. Unsettled' = Unsettled
    BY <1>4, ActorsStep, UnsettledSame
  <2>3. QED
    BY <2>1, <2>2 DEF batchVars
<1>5. ASSUME Down PROVE Memory'
  BY <1>5 DEF Down
<1>6. CASE Crash \/ CompileFails
  BY <1>5, <1>6 DEF Crash, CompileFails
<1>7. CASE Start \/ SpawnWave
  <2>1. UNCHANGED batchVars /\ running' = Unsettled /\ pc' \in {"loop", "await"}
    BY <1>7 DEF Start, SpawnWave
  <2>2. Unsettled' = Unsettled
    BY <1>7, ActorsStep, UnsettledSame
  <2>3. QED
    BY <2>1, <2>2 DEF batchVars
<1>8. CASE Refresh
  BY <1>1, <1>8 DEF Refresh
<1>9. CASE CompileWave \/ CompileAwait
  <2>1. UNCHANGED <<dispatches, running, batchVars>> /\ pc = "loop" /\ pc' \in {"wave", "await"}
    BY <1>9 DEF CompileWave, CompileAwait, ledgerVars
  <2>2. QED
    BY <2>1, UnsettledSame DEF batchVars
<1>10. CASE WaveDrifts
  BY <1>10, DriftMemory DEF WaveDrifts
<1>11. ASSUME NEW prepared \in SUBSET wave, PrepareWave(prepared) PROVE Memory'
  <2>1. \/ Down
        \/ /\ UNCHANGED <<dispatches, running, batchVars>> /\ pc = "wave"
           /\ pc' \in {"await", "recording"}
    BY <1>11 DEF PrepareWave, ledgerVars
  <2>2. QED
    BY <1>5, <2>1, UnsettledSame DEF batchVars
<1>12. CASE RecordStarted
  <2>1. \E b \in wave : NewDispatch(b)
    BY <1>12 DEF RecordStarted, NewDispatch
  <2>2. Unsettled \subseteq Unsettled'
    BY <2>1, UnsettledMore
  <2>3. pc = "recording" /\ UNCHANGED <<pc, running, batchVars>>
    BY <1>12 DEF RecordStarted
  <2>4. QED
    BY <2>2, <2>3 DEF batchVars
<1>13. CASE Drain
  <2>1. Unsettled' = Unsettled
    BY <1>13, UnsettledSame DEF Drain, ledgerVars
  <2>2. QED
    BY <1>13, <2>1 DEF Drain, Ready
<1>14. CASE ObserveDrained
  <2>1. Unsettled' = Unsettled
    BY <1>14, UnsettledSame DEF ObserveDrained, ledgerVars
  <2>2. CASE ~BasesConflict
    <3>1. /\ exclude' \subseteq drained /\ admit' \subseteq drained /\ drained' = {}
          /\ exclude' \cap admit' = {}
          /\ pc = "observing" /\ pc' = "settling" /\ running' = running
      BY <1>14, <2>2 DEF ObserveDrained, Observed, DrainedAs
    <3>2. QED
      BY <2>1, <3>1
  <2>3. CASE BasesConflict
    BY <1>5, <1>14, <2>3 DEF ObserveDrained
  <2>4. QED
    BY <2>2, <2>3
<1>15. ASSUME NEW i \in Ids, AdmitResult(i) PROVE Memory'
  BY <1>15, UnsettledSame DEF AdmitResult
<1>16. ASSUME NEW i \in Ids, SettleResult(i) \/ SettleExcluded(i) PROVE Memory'
  <2>1. Unsettled' = Unsettled \ {i}
    BY <1>16, UnsettledLess
  <2>2. /\ pc = "settling" /\ pc' = pc /\ running' = running /\ drained' = drained
        /\ \/ i \in admit /\ admit' = admit \ {i} /\ exclude' = exclude
           \/ i \in exclude /\ admit' = admit /\ exclude' = exclude \ {i}
    BY <1>16 DEF SettleResult, SettleExcluded
  <2>3. QED
    BY <2>1, <2>2
<1>17. CASE FinishSettling
  <2>1. Unsettled' = Unsettled
    BY <1>17, UnsettledSame DEF FinishSettling, ledgerVars
  <2>2. CASE fatal
    BY <1>5, <1>17, <2>2 DEF FinishSettling
  <2>3. CASE ~fatal
    <3>1. pc = "settling" /\ pc' = "loop" /\ running' = running \cap Unsettled /\ UNCHANGED batchVars
      BY <1>17, <2>3 DEF FinishSettling
    <3>2. QED
      BY <2>1, <3>1 DEF batchVars
  <2>4. QED
    BY <2>2, <2>3
<1>18. ASSUME NEW n \in Nodes, RootAction(n) PROVE Memory'
  <2>1. CASE DropForDrift({n})
    BY <1>18, <2>1, DriftMemory DEF RootAction, Quiet
  <2>2. CASE ~DropForDrift({n})
    BY <1>1, <1>18, <2>2 DEF RootAction
  <2>3. QED
    BY <2>1, <2>2
<1>19. ASSUME NEW S \in SUBSET Nodes, MachineBatch(S) PROVE Memory'
  <2>1. CASE DropForDrift(Owned("machine"))
    BY <1>19, <2>1, DriftMemory DEF MachineBatch, Quiet
  <2>2. CASE ~DropForDrift(Owned("machine"))
    BY <1>1, <1>5, <1>19, <2>2 DEF MachineBatch
  <2>3. QED
    BY <2>1, <2>2
<1>20. CASE Idle
  <2>1. \/ Down
        \/ UNCHANGED <<dispatches, running, batchVars>> /\ pc' = "done"
    BY <1>20 DEF Idle
  <2>2. QED
    BY <1>5, <2>1, UnsettledSame DEF batchVars
<1>21. QED
  BY <1>2, <1>3, <1>4, <1>6, <1>7, <1>8, <1>9, <1>10, <1>11, <1>12, <1>13, <1>14, <1>15, <1>16,
     <1>17, <1>18, <1>19, <1>20 DEF Next, Process

-----------------------------------------------------------------------------
(* The actions of a wave are still bound to their nodes when they are        *)
(* recorded, and there is a slot for each.                                   *)
Startable(b) ==
    /\ b = Binding(b.node)
    /\ IsActive(b.node)
    /\ nodes[b.node].stage < Final
    /\ b.node \notin Busy

Waved ==
    /\ pc \notin {"wave", "recording"} => wave = {}
    /\ \A b \in wave : Startable(b)
    /\ wave # {} => Cardinality(Busy \cup WaveNodes) <= Capacity

LEMMA SlotsKept ==
    ASSUME Typed, Waved, Busy' \subseteq Busy \cup WaveNodes, wave' \subseteq wave
    PROVE  wave' # {} => Cardinality(Busy' \cup WaveNodes') <= Capacity
<1>1. WaveNodes' \subseteq WaveNodes
  BY DEF WaveNodes
<1>2. Busy \cup WaveNodes \subseteq Nodes
  BY DEF Busy, Unsettled, Typed, TypeOK, Dispatch, WaveNodes
<1>3. IsFiniteSet(Busy \cup WaveNodes)
  BY <1>2, NodeAssumption, FS_Subset
<1>4. Busy' \cup WaveNodes' \in SUBSET (Busy \cup WaveNodes)
  BY <1>1
<1>5. /\ Cardinality(Busy' \cup WaveNodes') <= Cardinality(Busy \cup WaveNodes)
      /\ IsFiniteSet(Busy' \cup WaveNodes')
  BY <1>3, <1>4, FS_Subset
<1>6. Cardinality(Busy' \cup WaveNodes') \in Nat /\ Cardinality(Busy \cup WaveNodes) \in Nat
  BY <1>3, <1>5, FS_CardinalityType
<1>7. wave' # {} => Cardinality(Busy \cup WaveNodes) <= Capacity
  BY DEF Waved
<1>8. Capacity \in Nat
  BY LimitAssumption
<1>9. QED
  BY <1>5, <1>6, <1>7, <1>8

LEMMA WaveSame ==
    ASSUME Typed, Waved, UNCHANGED <<nodes, selector>>, Busy' = Busy, wave' \subseteq wave,
           pc' \in {"wave", "recording"} \/ wave' = {}
    PROVE  Waved'
<1>1. \A b \in wave' : Startable(b)'
  BY DEF Waved, Startable, Binding, IsActive
<1>2. wave' # {} => Cardinality(Busy' \cup WaveNodes') <= Capacity
  BY SlotsKept
<1>3. QED
  BY <1>1, <1>2 DEF Waved

LEMMA WaveCompiled ==
    ASSUME Typed, CompileWave
    PROVE  Waved'
<1>1. PICK W \in Waves : wave' = {Binding(n) : n \in W}
  BY DEF CompileWave
<1>2. W \subseteq Nodes /\ W \cap Busy = {} /\ \A n \in W : nodes[n].stage < Final
  BY DEF Waves, Candidates, Owned
<1>3. Compiles /\ Busy' = Busy /\ UNCHANGED <<nodes, selector>> /\ pc' = "wave"
  BY UnsettledSame DEF CompileWave, ledgerVars
<1>4. \A n \in W : Binding(n).node = n /\ Binding(n)' = Binding(n)
  BY <1>3 DEF Binding
<1>5. ASSUME NEW b \in wave' PROVE Startable(b)'
  <2>1. PICK n \in W : b = Binding(n)
    BY <1>1
  <2>2. b.node = n /\ b = Binding(n)'
    BY <1>4, <2>1
  <2>3. QED
    BY <1>2, <1>3, <2>1, <2>2 DEF Startable, Compiles, IsActive
<1>6. WaveNodes' = W
  BY <1>1, <1>4 DEF WaveNodes
<1>7. IsFiniteSet(W) /\ IsFiniteSet(Busy)
  <2>1. Busy \subseteq Nodes
    BY DEF Busy, Unsettled, Typed, TypeOK, Dispatch
  <2>2. QED
    BY <1>2, <2>1, NodeAssumption, FS_Subset
<1>8. Cardinality(Busy \cup W) = Cardinality(Busy) + Cardinality(W) - Cardinality(Busy \cap W)
  BY <1>7, FS_Union
<1>9. Cardinality(Busy \cap W) = 0
  BY <1>2, FS_EmptySet
<1>10. Cardinality(W) <= Capacity - Cardinality(Busy)
  BY DEF Waves, FreeSlots
<1>11. Cardinality(W) \in Nat /\ Cardinality(Busy) \in Nat /\ Capacity \in Nat
  BY <1>7, FS_CardinalityType, LimitAssumption
<1>12. Cardinality(Busy' \cup WaveNodes') <= Capacity
  BY <1>3, <1>6, <1>8, <1>9, <1>10, <1>11
<1>13. QED
  BY <1>3, <1>5, <1>12 DEF Waved

LEMMA WaveStep ==
    ASSUME Typed, Waved, [Next]_vars
    PROVE  Waved'
<1>1. ASSUME wave' = {} PROVE Waved'
  BY <1>1 DEF Waved
<1>2. ASSUME UNCHANGED <<nodes, selector, pc, wave>>, Busy' = Busy PROVE Waved'
  BY <1>2, WaveSame DEF Waved
<1>3. ASSUME UNCHANGED wave, pc \notin {"wave", "recording"} PROVE Waved'
  BY <1>1, <1>3 DEF Waved
<1>4. ASSUME Down PROVE Waved'
  BY <1>1, <1>4 DEF Down
<1>5. CASE UNCHANGED vars
  BY <1>2, <1>5, UnsettledSame DEF vars, ledgerVars
<1>6. CASE Remote
  <2>1. UNCHANGED <<nodes, selector, pc, wave, dispatches>>
    BY <1>6 DEF Remote, BaseMoves, IssueChanges, IssueLeaves, IssueReturns, OutsideChanges,
         ScopeMoves, ledgerVars
  <2>2. QED
    BY <1>2, <2>1, UnsettledSame
<1>7. CASE \E i \in Ids, how \in Ends : ActorEnds(i, how)
  <2>1. UNCHANGED <<nodes, selector, pc, wave>>
    BY <1>7 DEF ActorEnds
  <2>2. QED
    BY <1>2, <1>7, <2>1, ActorsStep, UnsettledSame
<1>8. CASE Crash \/ CompileFails
  BY <1>4, <1>8 DEF Crash, CompileFails
<1>9. CASE Start \/ Refresh \/ CompileAwait \/ Drain \/ Idle
  BY <1>3, <1>4, <1>9 DEF Start, Refresh, CompileAwait, Drain, Idle, Quiet
<1>10. CASE ObserveDrained \/ FinishSettling
  BY <1>3, <1>4, <1>10 DEF ObserveDrained, FinishSettling
<1>11. CASE CompileWave
  BY <1>11, WaveCompiled
<1>12. ASSUME NEW about, DropForDrift(about) PROVE Waved'
  BY <1>1, <1>4, <1>12 DEF DropForDrift
<1>13. CASE WaveDrifts
  BY <1>12, <1>13 DEF WaveDrifts
<1>14. ASSUME NEW prepared \in SUBSET wave, PrepareWave(prepared) PROVE Waved'
  <2>1. \/ Down
        \/ /\ pc' = (IF prepared = {} THEN "await" ELSE "recording")
           /\ wave' = prepared
    BY <1>14 DEF PrepareWave
  <2>2. UNCHANGED <<nodes, selector, dispatches>>
    BY <1>14 DEF PrepareWave, ledgerVars
  <2>3. QED
    BY <1>4, <2>1, <2>2, UnsettledSame, WaveSame
<1>15. CASE RecordStarted
  <2>1. PICK b \in wave : NewDispatch(b) /\ wave' = wave \ {b}
    BY <1>15 DEF RecordStarted, NewDispatch
  <2>2. UNCHANGED <<nodes, selector, pc>> /\ pc = "recording"
    BY <1>15 DEF RecordStarted
  <2>3. Busy' = Busy \cup {b.node}
    BY <2>1, UnsettledMore
  <2>4. ASSUME NEW c \in wave' PROVE Startable(c)'
    <3>1. c \in wave /\ c # b /\ Startable(c) /\ Startable(b)
      BY <2>1 DEF Waved
    <3>2. c.node # b.node
      BY <3>1 DEF Startable
    <3>3. Binding(c.node)' = Binding(c.node)
      BY <2>2 DEF Binding
    <3>4. QED
      BY <2>2, <2>3, <3>1, <3>2, <3>3 DEF Startable, IsActive
  <2>5. Busy' \subseteq Busy \cup WaveNodes /\ wave' \subseteq wave
    BY <2>1, <2>3 DEF WaveNodes
  <2>6. wave' # {} => Cardinality(Busy' \cup WaveNodes') <= Capacity
    BY <2>5, SlotsKept
  <2>7. QED
    BY <2>2, <2>4, <2>6 DEF Waved
<1>16. CASE SpawnWave
  BY <1>1, <1>16 DEF SpawnWave
<1>17. CASE \E i \in Ids : AdmitResult(i) \/ SettleResult(i) \/ SettleExcluded(i)
  BY <1>3, <1>17 DEF AdmitResult, SettleResult, SettleExcluded
<1>18. ASSUME NEW n \in Nodes, RootAction(n) PROVE Waved'
  <2>1. CASE DropForDrift({n})
    BY <1>12, <2>1
  <2>2. CASE ~DropForDrift({n})
    BY <1>3, <1>18, <2>2 DEF RootAction, Quiet
  <2>3. QED
    BY <2>1, <2>2
<1>19. ASSUME NEW S \in SUBSET Nodes, MachineBatch(S) PROVE Waved'
  <2>1. CASE DropForDrift(Owned("machine"))
    BY <1>12, <2>1
  <2>2. CASE ~DropForDrift(Owned("machine"))
    BY <1>3, <1>4, <1>19, <2>2 DEF MachineBatch, Quiet
  <2>3. QED
    BY <2>1, <2>2
<1>20. QED
  BY <1>5, <1>6, <1>7, <1>8, <1>9, <1>10, <1>11, <1>13, <1>14, <1>15, <1>16, <1>17, <1>18, <1>19
     DEF Next, Process

-----------------------------------------------------------------------------
(* The dispatches and the nodes they are bound to. *)

LEMMA Appended ==
    ASSUME Typed, NEW b \in wave, NewDispatch(b), NEW i \in Ids'
    PROVE  i \in Ids \/ i = Len(dispatches) + 1
BY NewStep

LEMMA BoundGrows ==
    ASSUME Typed, NEW i \in Ids, Bound(dispatches[i], dispatches[i].node), SameBinding(i),
           Typed', Grows(dispatches[i].node)
    PROVE  Bound(dispatches[i], dispatches[i].node)'
<1> DEFINE n == dispatches[i].node
<1>1. dispatches[i] \in Dispatch /\ n \in Nodes
  BY DEF Typed, TypeOK, Dispatch
<1>2. nodes[n] \in Node /\ nodes'[n] \in Node
  BY <1>1 DEF Typed, TypeOK
<1>3. /\ nodes[n].epoch \in Nat /\ nodes[n].head \in Nat /\ nodes[n].stage \in 0 .. Final
      /\ nodes'[n].epoch \in Nat /\ nodes'[n].head \in Nat /\ nodes'[n].stage \in 0 .. Final
      /\ dispatches[i].epoch \in Nat /\ dispatches[i].head \in Nat
  BY <1>1, <1>2 DEF Node, Dispatch
<1>4. /\ dispatches'[i].node = n /\ dispatches'[i].epoch = dispatches[i].epoch
      /\ dispatches'[i].head = dispatches[i].head
  BY DEF SameBinding
<1>5. /\ dispatches[i].epoch <= nodes'[n].epoch
      /\ dispatches[i].epoch = nodes'[n].epoch =>
           /\ dispatches[i].head <= nodes'[n].head
           /\ dispatches[i].head = nodes'[n].head => nodes'[n].stage < Final
  BY <1>3 DEF Bound, Grows
<1>6. QED
  BY <1>4, <1>5 DEF Bound

LEMMA BoundsStep ==
    ASSUME Typed, Bounds, Waved, [Next]_vars
    PROVE  Bounds'
<1>1. Typed' /\ (\A n \in Nodes : Grows(n)) /\ \A i \in Ids : SameBinding(i)
  BY TypedStep, DispatchesKept
<1>2. selector' \in {selector, selector + 1} /\ selector \in Nat
  BY NodesMove DEF Typed, TypeOK
<1>3. ASSUME NEW i \in Ids
      PROVE  dispatches'[i].selector <= selector' /\ Bound(dispatches[i], dispatches[i].node)'
  <2>1. dispatches[i] \in Dispatch /\ dispatches[i].selector <= selector
        /\ Bound(dispatches[i], dispatches[i].node)
    BY DEF Bounds, Typed, TypeOK
  <2>2. dispatches[i].selector \in Nat /\ dispatches[i].node \in Nodes
    BY <2>1 DEF Dispatch
  <2>3. dispatches'[i].selector = dispatches[i].selector
    BY <1>1 DEF SameBinding
  <2>4. dispatches'[i].selector <= selector'
    BY <1>2, <2>1, <2>2, <2>3
  <2>5. QED
    BY <1>1, <2>1, <2>2, <2>4, BoundGrows
<1>4. CASE Ids' = Ids
  BY <1>3, <1>4 DEF Bounds
<1>5. ASSUME NEW b \in wave, Recorded(b) PROVE Bounds'
  <2>. PICK k : k = Len(dispatches) + 1
    OBVIOUS
  <2>1. /\ dispatches'[k].node = b.node /\ dispatches'[k].epoch = b.epoch
        /\ dispatches'[k].head = b.head /\ dispatches'[k].selector = b.selector
    BY <1>5, NewFields DEF Recorded
  <2>2. b = Binding(b.node) /\ nodes[b.node].stage < Final
    BY DEF Waved, Startable
  <2>3. /\ b.epoch = nodes[b.node].epoch /\ b.head = nodes[b.node].head
        /\ b.selector = selector
    BY <2>2 DEF Binding
  <2>4. UNCHANGED <<nodes, selector>>
    BY <1>5 DEF Recorded, Kept
  <2>5. nodes[b.node].epoch \in Nat /\ nodes[b.node].head \in Nat /\ selector \in Nat
    BY DEF Typed, TypeOK, Bind, Node
  <2>6. dispatches'[k].selector <= selector' /\ Bound(dispatches[k], dispatches[k].node)'
    BY <2>1, <2>2, <2>3, <2>4, <2>5 DEF Bound
  <2>7. \A i \in Ids' : i \in Ids \/ i = k
    BY <1>5, Appended DEF Recorded
  <2>8. QED
    BY <1>3, <2>6, <2>7 DEF Bounds
<1>6. Ids' = Ids \/ \E b \in wave : Recorded(b)
  <2>1. ASSUME NEW i \in Ids, AdmitResult(i) \/ SettleResult(i) \/ SettleExcluded(i)
        PROVE  Ids' = Ids
    BY <2>1, IdStep, OneFields
  <2>2. UNCHANGED dispatches => Ids' = Ids
    BY DEF Ids
  <2>3. ActorsChange => Ids' = Ids
    BY DEF ActorsChange
  <2>4. QED
    BY <2>1, <2>2, <2>3, StepKinds DEF Kinds, Refresh, RebindBase, Advances
<1>7. QED
  BY <1>4, <1>5, <1>6

(* No node has two unsettled dispatches. *)
Exclusive ==
    \A i, j \in Unsettled : dispatches[i].node = dispatches[j].node => i = j

LEMMA ExclusiveStep ==
    ASSUME Typed, Waved, Exclusive, [Next]_vars
    PROVE  Exclusive'
<1>1. ASSUME Unsettled' \subseteq Unsettled PROVE Exclusive'
  <2>1. \A i \in Unsettled : dispatches'[i].node = dispatches[i].node
    BY DispatchesKept DEF SameBinding, Unsettled
  <2>2. QED
    BY <1>1, <2>1 DEF Exclusive
<1>2. ASSUME NEW b \in wave, Recorded(b) PROVE Exclusive'
  <2>1. /\ Unsettled' = Unsettled \cup {Len(dispatches) + 1}
        /\ \A j \in Ids : dispatches'[j] = dispatches[j]
        /\ dispatches'[Len(dispatches) + 1].node = b.node
    BY <1>2, UnsettledMore, NewStep, NewFields DEF Recorded
  <2>2. \A j \in Unsettled : j \in Ids /\ dispatches[j].node # b.node
    BY DEF Waved, Startable, Busy, Unsettled
  <2>3. QED
    BY <2>1, <2>2 DEF Exclusive
<1>3. ASSUME NEW i \in Ids, AdmitResult(i) \/ SettleResult(i) \/ SettleExcluded(i)
      PROVE  Exclusive'
  BY <1>1, <1>3, UnsettledSame, UnsettledLess
<1>4. CASE UNCHANGED dispatches \/ ActorsChange
  BY <1>1, <1>4, UnsettledSame
<1>5. QED
  BY <1>2, <1>3, <1>4, StepKinds DEF Kinds, Refresh, RebindBase, Advances

-----------------------------------------------------------------------------
(* The chain of a node ledger. *)

(* An admitted result lies below the head of its incarnation. *)
Below(i) ==
    dispatches[i].epoch = nodes[dispatches[i].node].epoch =>
        dispatches[i].head < nodes[dispatches[i].node].head

(* Two results were not admitted on the same head of one incarnation. *)
Apart(i, j) ==
    /\ dispatches[j].node = dispatches[i].node
    /\ dispatches[j].epoch = dispatches[i].epoch
    /\ dispatches[j].head = dispatches[i].head
    => i = j

Chain ==
    /\ \A i \in Ids : dispatches[i].event => Below(i)
    /\ \A i, j \in Ids : dispatches[i].event /\ dispatches[j].event => Apart(i, j)

LEMMA ChainIsLinear == Chain <=> LinearHistory
BY DEF Chain, Below, Apart, LinearHistory

LEMMA BelowKept ==
    ASSUME Typed, Typed', Bounds, NEW i \in Ids, Below(i), SameBinding(i),
           Grows(dispatches[i].node)
    PROVE  Below(i)'
<1> DEFINE n == dispatches[i].node
<1>1. dispatches[i] \in Dispatch /\ n \in Nodes
  BY DEF Typed, TypeOK, Dispatch
<1>2. nodes[n] \in Node /\ nodes'[n] \in Node
  BY <1>1 DEF Typed, TypeOK
<1>3. /\ nodes[n].epoch \in Nat /\ nodes[n].head \in Nat
      /\ nodes'[n].epoch \in Nat /\ nodes'[n].head \in Nat
      /\ dispatches[i].epoch \in Nat /\ dispatches[i].head \in Nat
  BY <1>1, <1>2 DEF Node, Dispatch
<1>4. dispatches[i].epoch <= nodes[n].epoch
  BY DEF Bounds, Bound
<1>5. dispatches[i].epoch = nodes'[n].epoch => dispatches[i].head < nodes'[n].head
  BY <1>3, <1>4 DEF Below, Grows
<1>6. QED
  BY <1>5 DEF Below, SameBinding

LEMMA ChainKept ==
    ASSUME Typed, Typed', Bounds, Chain, \A n \in Nodes : Grows(n),
           \A i \in Ids : SameBinding(i),
           \A i \in Ids' : dispatches'[i].event => i \in Ids /\ dispatches[i].event
    PROVE  Chain'
<1>1. ASSUME NEW i \in Ids', dispatches'[i].event PROVE Below(i)'
  <2>1. i \in Ids /\ Below(i) /\ dispatches[i].node \in Nodes
    BY <1>1 DEF Chain, Typed, TypeOK, Dispatch
  <2>2. QED
    BY <2>1, BelowKept
<1>2. ASSUME NEW i \in Ids', NEW j \in Ids', dispatches'[i].event, dispatches'[j].event
      PROVE  Apart(i, j)'
  <2>1. i \in Ids /\ j \in Ids /\ Apart(i, j)
    BY <1>2 DEF Chain
  <2>2. QED
    BY <2>1 DEF Apart, SameBinding
<1>3. QED
  BY <1>1, <1>2 DEF Chain

LEMMA AdmitChains ==
    ASSUME Typed, Typed', Bounds, Chain, NEW i \in Ids, AdmitResult(i),
           \A n \in Nodes : Grows(n)
    PROVE  Chain'
<1> DEFINE n == dispatches[i].node
<1>1. /\ Ids' = Ids /\ dispatches'[i].event
      /\ \A j \in Ids : SameBinding(j) /\ (j # i => dispatches'[j].event = dispatches[j].event)
  BY OneStep, OneFields
<1>2. IsFresh(dispatches[i]) /\ dispatches[i] \in Dispatch /\ n \in Nodes
  BY DEF AdmitResult, Typed, TypeOK, Dispatch
<1>3. dispatches[i].epoch = nodes[n].epoch /\ dispatches[i].head = nodes[n].head
  BY <1>2 DEF IsFresh, Binding
<1>4. nodes'[n].head = nodes[n].head + 1 /\ nodes[n].head \in Nat
  <2>1. /\ nodes' = [nodes EXCEPT ![n].head = @ + 1,
                      ![n].stage = IF dispatches[i].actor = "fulfilled" THEN @ + 1 ELSE @]
        /\ nodes \in [Nodes -> Node]
    BY DEF AdmitResult, Typed, TypeOK
  <2>2. nodes[n] \in Node
    BY <1>2, <2>1
  <2>3. nodes'[n].head = nodes[n].head + 1
    BY <1>2, <2>1, <2>2 DEF Node
  <2>4. QED
    BY <2>2, <2>3 DEF Node
<1>5. Below(i)'
  BY <1>1, <1>3, <1>4 DEF Below, SameBinding
<1>6. ASSUME NEW j \in Ids, j # i, dispatches[j].event PROVE ~(
             /\ dispatches[j].node = dispatches[i].node
             /\ dispatches[j].epoch = dispatches[i].epoch
             /\ dispatches[j].head = dispatches[i].head)
  BY <1>3, <1>4, <1>6 DEF Chain, Below
<1>7. ASSUME NEW j \in Ids', dispatches'[j].event PROVE Below(j)'
  <2>1. CASE j = i
    BY <1>5, <2>1
  <2>2. CASE j # i
    <3>1. j \in Ids /\ Below(j) /\ dispatches[j].node \in Nodes
      BY <1>1, <1>7, <2>2 DEF Chain, Typed, TypeOK, Dispatch
    <3>2. QED
      BY <1>1, <3>1, BelowKept
  <2>3. QED
    BY <2>1, <2>2
<1>8. ASSUME NEW j \in Ids', NEW k \in Ids', dispatches'[j].event, dispatches'[k].event
      PROVE  Apart(j, k)'
  <2>1. /\ j \in Ids /\ k \in Ids
        /\ j # i => dispatches[j].event
        /\ k # i => dispatches[k].event
    BY <1>1, <1>8
  <2>2. Apart(j, k)
    BY <1>6, <2>1 DEF Apart, Chain
  <2>3. QED
    BY <1>1, <2>1, <2>2 DEF Apart, SameBinding
<1>9. QED
  BY <1>7, <1>8 DEF Chain

LEMMA ChainStep ==
    ASSUME Typed, Bounds, Waved, Chain, [Next]_vars
    PROVE  Chain'
<1>1. Typed' /\ (\A n \in Nodes : Grows(n)) /\ \A i \in Ids : SameBinding(i)
  BY TypedStep, DispatchesKept
<1>2. ASSUME \A i \in Ids' : dispatches'[i].event => i \in Ids /\ dispatches[i].event
      PROVE  Chain'
  BY <1>1, <1>2, ChainKept
<1>3. CASE UNCHANGED dispatches
  BY <1>2, <1>3 DEF Ids
<1>4. CASE ActorsChange
  BY <1>2, <1>4, ActorsFields
<1>5. ASSUME NEW b \in wave, Recorded(b) PROVE Chain'
  <2>1. /\ \A i \in Ids' : i \in Ids \/ i = Len(dispatches) + 1
        /\ ~dispatches'[Len(dispatches) + 1].event
        /\ \A i \in Ids : dispatches'[i] = dispatches[i]
    BY <1>5, NewStep, NewFields DEF Recorded
  <2>2. QED
    BY <1>2, <2>1
<1>6. ASSUME NEW i \in Ids, AdmitResult(i) PROVE Chain'
  BY <1>1, <1>6, AdmitChains
<1>7. ASSUME NEW i \in Ids, SettleResult(i) \/ SettleExcluded(i) PROVE Chain'
  <2>1. \E outcome : OneChanges(i, dispatches[i].event, outcome)
    BY <1>7, OneStep
  <2>2. Ids' = Ids /\ \A j \in Ids : dispatches'[j].event = dispatches[j].event
    BY <2>1, OneFields
  <2>3. QED
    BY <1>2, <2>2
<1>8. QED
  BY <1>3, <1>4, <1>5, <1>6, <1>7, StepKinds DEF Kinds, Refresh, RebindBase, Advances

-----------------------------------------------------------------------------
(* Why results are dropped. *)

(* An unsettled result of the present incarnation and scope is fresh. *)
Kin ==
    \A i \in Unsettled :
        /\ ~dispatches[i].event
        /\ dispatches[i].epoch = nodes[dispatches[i].node].epoch
        /\ dispatches[i].selector = selector
        => IsFresh(dispatches[i])

LEMMA KinStep ==
    ASSUME Typed, Bounds, Waved, Exclusive, Memory, Kin, [Next]_vars
    PROVE  Kin'
<1>1. /\ Typed'
      /\ \A i \in Ids : SameBinding(i)
      /\ \A i \in Ids : /\ dispatches[i] \in Dispatch /\ dispatches[i].node \in Nodes
                        /\ dispatches[i].epoch \in Nat /\ dispatches[i].selector \in Nat
                        /\ nodes[dispatches[i].node].epoch \in Nat
                        /\ dispatches[i].selector <= selector
                        /\ dispatches[i].epoch <= nodes[dispatches[i].node].epoch
  BY TypedStep, DispatchesKept DEF Typed, TypeOK, Dispatch, Node, Bounds, Bound
<1>2. ASSUME NEW i \in Ids, SameBinding(i),
             UNCHANGED selector, nodes'[dispatches[i].node] = nodes[dispatches[i].node]
      PROVE  IsFresh(dispatches[i])' <=> IsFresh(dispatches[i])
  BY <1>2 DEF IsFresh, IsActive, Binding, SameBinding
<1>3. ASSUME Kept, Unsettled' \subseteq Unsettled,
             \A i \in Unsettled : dispatches'[i].event = dispatches[i].event
      PROVE  Kin'
  <2>1. \A i \in Unsettled : /\ i \in Ids /\ SameBinding(i)
                             /\ IsFresh(dispatches[i])' <=> IsFresh(dispatches[i])
    BY <1>1, <1>2, <1>3 DEF Kept, Unsettled
  <2>2. QED
    BY <1>3, <2>1 DEF Kin, Kept, SameBinding
<1>4. CASE Kept /\ UNCHANGED dispatches
  BY <1>3, <1>4, UnsettledSame
<1>5. CASE Kept /\ ActorsChange
  <2>1. \A i \in Unsettled : dispatches'[i].event = dispatches[i].event
    BY <1>5, ActorsFields DEF Unsettled
  <2>2. QED
    BY <1>3, <1>5, <2>1, UnsettledSame
<1>6. ASSUME NEW b \in wave, Recorded(b) PROVE Kin'
  <2>. PICK k : k = Len(dispatches) + 1
    OBVIOUS
  <2>1. /\ Unsettled' = Unsettled \cup {k} /\ Unsettled \subseteq Ids
        /\ \A i \in Ids : dispatches'[i] = dispatches[i]
        /\ dispatches'[k].node = b.node /\ dispatches'[k].epoch = b.epoch
        /\ dispatches'[k].head = b.head /\ dispatches'[k].base = b.base
        /\ dispatches'[k].selector = b.selector
    BY <1>6, UnsettledMore, NewStep, NewFields DEF Recorded, Unsettled
  <2>2. UNCHANGED <<nodes, selector>>
    BY <1>6 DEF Recorded, Kept
  <2>3. b = Binding(b.node) /\ IsActive(b.node)
    BY DEF Waved, Startable
  <2>4. IsFresh(dispatches[k])'
    BY <2>1, <2>2, <2>3 DEF IsFresh, Binding, IsActive
  <2>5. \A i \in Unsettled : IsFresh(dispatches[i])' <=> IsFresh(dispatches[i])
    BY <1>1, <1>2, <2>1, <2>2
  <2>6. ASSUME NEW i \in Unsettled', ~dispatches'[i].event,
               dispatches'[i].epoch = nodes'[dispatches'[i].node].epoch,
               dispatches'[i].selector = selector'
        PROVE  IsFresh(dispatches[i])'
    <3>1. CASE i = k
      BY <2>4, <3>1
    <3>2. CASE i # k
      BY <2>1, <2>2, <2>5, <2>6, <3>2 DEF Kin
    <3>3. QED
      BY <3>1, <3>2
  <2>7. QED
    BY <2>6 DEF Kin
<1>7. ASSUME NEW i \in Ids, AdmitResult(i) PROVE Kin'
  <2>1. i \in Unsettled
    BY <1>7 DEF AdmitResult, Memory, MemoryAgrees
  <2>2. /\ dispatches'[i].event
        /\ \A j \in Ids : j # i => dispatches'[j] = dispatches[j]
    <3>1. OneChanges(i, TRUE, dispatches[i].outcome) /\ i \in Ids
      BY <1>7, OneStep
    <3>2. QED
      BY <3>1, OneFields DEF OneChanges, Becomes
  <2>3. Unsettled' = Unsettled
    BY <1>7, UnsettledSame
  <2>4. UNCHANGED selector
    BY <1>7 DEF AdmitResult
  <2>5. ASSUME NEW j \in Unsettled, j # i
        PROVE  nodes'[dispatches[j].node] = nodes[dispatches[j].node]
    <3>1. dispatches[j].node # dispatches[i].node
      BY <2>1, <2>5 DEF Exclusive
    <3>2. dispatches[j].node \in Nodes
      BY <1>1, <2>5 DEF Unsettled
    <3>3. \A n \in Nodes : n # dispatches[i].node => nodes'[n] = nodes[n]
      BY <1>7 DEF AdmitResult, Typed, TypeOK
    <3>4. QED
      BY <3>1, <3>2, <3>3
  <2>6. ASSUME NEW j \in Unsettled', ~dispatches'[j].event,
               dispatches'[j].epoch = nodes'[dispatches'[j].node].epoch,
               dispatches'[j].selector = selector'
        PROVE  IsFresh(dispatches[j])'
    <3>1. j \in Unsettled /\ j \in Ids /\ j # i
      BY <2>2, <2>3, <2>6 DEF Unsettled
    <3>2. dispatches'[j] = dispatches[j] /\ nodes'[dispatches[j].node] = nodes[dispatches[j].node]
      BY <2>2, <2>5, <3>1
    <3>3. IsFresh(dispatches[j])
      BY <2>4, <2>6, <3>1, <3>2 DEF Kin
    <3>4. QED
      BY <1>1, <1>2, <2>4, <3>1, <3>2, <3>3
  <2>7. QED
    BY <2>6 DEF Kin
<1>8. ASSUME NEW i \in Ids, SettleResult(i) \/ SettleExcluded(i) PROVE Kin'
  <2>1. \E outcome : OneChanges(i, dispatches[i].event, outcome)
    BY <1>8, OneStep
  <2>2. \A j \in Ids : dispatches'[j].event = dispatches[j].event
    BY <2>1, OneFields
  <2>3. Kept
    BY <1>8 DEF SettleResult, SettleExcluded, Kept
  <2>4. QED
    BY <1>3, <1>8, <2>2, <2>3, UnsettledLess DEF Unsettled
<1>9. CASE Refresh
  <2>1. selector' = selector + 1 /\ selector \in Nat /\ UNCHANGED dispatches
    BY <1>9 DEF Refresh, Typed, TypeOK
  <2>2. \A i \in Ids : dispatches'[i].selector # selector'
    BY <1>1, <2>1
  <2>3. QED
    BY <2>1, <2>2, UnsettledSame DEF Kin, Unsettled
<1>10. ASSUME NEW r \in Repositories, RebindBase(r) PROVE Kin'
  <2>1. UNCHANGED <<selector, dispatches>> /\ Unsettled' = Unsettled
    BY <1>10, UnsettledSame DEF RebindBase
  <2>2. ASSUME NEW i \in Unsettled, ~dispatches[i].event,
               dispatches[i].epoch = nodes'[dispatches[i].node].epoch,
               dispatches[i].selector = selector
        PROVE  IsFresh(dispatches[i])'
    <3> DEFINE n == dispatches[i].node
    <3>1. i \in Ids /\ n \in Nodes
      BY <1>1 DEF Unsettled
    <3>2. nodes'[n] = nodes[n] \/ nodes'[n].epoch = nodes[n].epoch + 1
      <4>1. CASE RepositoryOf[n] = r /\ nodes[n].stage # Final
        <5>1. nodes'[n] = [status |-> "active", epoch |-> nodes[n].epoch + 1,
                           base |-> remoteHead[r], stage |-> FrozenStage, head |-> 1]
          BY <1>10, <3>1, <4>1 DEF RebindBase
        <5>2. QED
          BY <5>1
      <4>2. CASE ~(RepositoryOf[n] = r /\ nodes[n].stage # Final)
        BY <1>10, <3>1, <4>2 DEF RebindBase
      <4>3. QED
        BY <4>1, <4>2
    <3>3. nodes'[n] = nodes[n]
      BY <1>1, <2>2, <3>1, <3>2
    <3>4. IsFresh(dispatches[i])
      BY <2>2, <3>3 DEF Kin
    <3>5. QED
      BY <1>1, <1>2, <2>1, <3>1, <3>3, <3>4
  <2>3. QED
    BY <2>1, <2>2 DEF Kin
<1>11. ASSUME NEW S \in SUBSET Nodes, Advances(S) PROVE Kin'
  <2>1. Unsettled = {}
    BY <1>11 DEF Advances, Memory, MemoryAgrees
  <2>2. Unsettled' = {}
    BY <1>11, <2>1, UnsettledSame DEF Advances
  <2>3. QED
    BY <2>2 DEF Kin
<1>12. QED
  BY <1>4, <1>5, <1>6, <1>7, <1>8, <1>9, <1>10, <1>11, StepKinds DEF Kinds

(* No base that is remembered is ahead of the remote. *)
Behind ==
    /\ \A r \in Repositories : repositoryBases[r] <= remoteHead[r]
    /\ \A n \in Nodes : nodes[n].base <= HeadOf(n)
    /\ \A i \in Ids : dispatches[i].base <= HeadOf(dispatches[i].node)

LEMMA HeadsGrow ==
    ASSUME Typed, [Next]_vars, NEW n \in Nodes
    PROVE  HeadOf(n) \in Nat /\ HeadOf(n)' \in Nat /\ HeadOf(n) <= HeadOf(n)'
<1>1. RepositoryOf[n] \in Repositories
  BY NodeAssumption
<1>2. QED
  BY <1>1, BasesStep DEF HeadOf, Typed, TypeOK

LEMMA BaseOfMoved ==
    ASSUME Typed, NEW n \in Nodes, Moves(n)
    PROVE  nodes'[n].base \in {nodes[n].base, repositoryBases'[RepositoryOf[n]]}
<1>1. CASE Removed(n) \/ Advanced(n)
  <2>1. \E status, epoch, stage, head : NodeIs(nodes'[n], status, epoch, nodes[n].base, stage, head)
    BY <1>1 DEF Removed, Advanced
  <2>2. QED
    BY <2>1 DEF NodeIs
<1>2. CASE Reborn(n)
  <2>1. \E status, epoch, stage, head :
          NodeIs(nodes'[n], status, epoch, repositoryBases'[RepositoryOf[n]], stage, head)
    BY <1>2 DEF Reborn
  <2>2. QED
    BY <2>1 DEF NodeIs
<1>3. QED
  BY <1>1, <1>2 DEF Moves

LEMMA BasesMove ==
    ASSUME Typed, [Next]_vars
    PROVE  \/ UNCHANGED repositoryBases
           \/ \E r \in Repositories :
                RebindBase(r) /\ repositoryBases' = [repositoryBases EXCEPT ![r] = remoteHead[r]]
BY StepKinds DEF Kinds, Kept, Recorded, AdmitResult, SettleResult, SettleExcluded, Refresh,
   RebindBase, Advances

LEMMA BehindStep ==
    ASSUME Typed, Bounds, Waved, Behind, [Next]_vars
    PROVE  Behind'
<1>1. /\ \A n \in Nodes : HeadOf(n) \in Nat /\ HeadOf(n)' \in Nat /\ HeadOf(n) <= HeadOf(n)'
      /\ \A r \in Repositories : /\ remoteHead[r] \in Nat /\ remoteHead'[r] \in Nat
                                 /\ remoteHead[r] <= remoteHead'[r]
                                 /\ repositoryBases[r] \in Nat /\ repositoryBases'[r] \in Nat
  BY HeadsGrow, BasesStep DEF Typed, TypeOK
<1>2. Typed' /\ \A n \in Nodes : Moves(n)
  BY TypedStep, NodesMove
<1>3. ASSUME NEW r \in Repositories PROVE repositoryBases'[r] <= remoteHead'[r]
  <2>1. repositoryBases'[r] = repositoryBases[r] \/ repositoryBases'[r] = remoteHead[r]
    BY BasesMove DEF Typed, TypeOK
  <2>2. QED
    BY <1>1, <2>1 DEF Behind
<1>4. ASSUME NEW n \in Nodes PROVE nodes'[n].base <= HeadOf(n)'
  <2>1. RepositoryOf[n] \in Repositories
    BY NodeAssumption
  <2>2. repositoryBases'[RepositoryOf[n]] <= HeadOf(n)'
    BY <1>3, <2>1 DEF HeadOf
  <2>3. nodes[n].base \in Nat /\ nodes[n].base <= HeadOf(n)
    BY DEF Behind, Typed, TypeOK, Node
  <2>4. nodes'[n].base \in {nodes[n].base, repositoryBases'[RepositoryOf[n]]}
    BY <1>2, BaseOfMoved
  <2>5. QED
    BY <1>1, <2>2, <2>3, <2>4
<1>5. ASSUME NEW i \in Ids
      PROVE  dispatches'[i].base <= HeadOf(dispatches[i].node)' 
  <2>1. dispatches[i].base \in Nat /\ dispatches[i].node \in Nodes /\ SameBinding(i)
    BY DispatchesKept DEF Typed, TypeOK, Dispatch
  <2>2. dispatches[i].base <= HeadOf(dispatches[i].node)
    BY DEF Behind
  <2>3. dispatches'[i].node = dispatches[i].node /\ dispatches'[i].base = dispatches[i].base
    BY <2>1 DEF SameBinding
  <2>4. remoteHead[RepositoryOf[dispatches[i].node]] <= remoteHead'[RepositoryOf[dispatches[i].node]]
        /\ remoteHead[RepositoryOf[dispatches[i].node]] \in Nat
        /\ remoteHead'[RepositoryOf[dispatches[i].node]] \in Nat
    BY <1>1, <2>1, NodeAssumption
  <2>5. QED
    BY <2>1, <2>2, <2>3, <2>4 DEF HeadOf
<1>6. ASSUME NEW b \in wave, Recorded(b)
      PROVE  \A i \in Ids' : dispatches'[i].base <= HeadOf(dispatches[i].node)'
  <2>. PICK k : k = Len(dispatches) + 1
    OBVIOUS
  <2>1. dispatches'[k].node = b.node /\ dispatches'[k].base = b.base
    BY <1>6, NewFields DEF Recorded
  <2>2. b = Binding(b.node) /\ b.node \in Nodes
    BY DEF Waved, Startable, Typed, TypeOK
  <2>3. b.base = nodes[b.node].base /\ nodes'[b.node] = nodes[b.node]
    BY <1>6, <2>2 DEF Binding, Recorded, Kept
  <2>4. dispatches'[k].base <= HeadOf(dispatches[k].node)'
    BY <1>4, <2>1, <2>2, <2>3 DEF HeadOf
  <2>5. \A i \in Ids' : i \in Ids \/ i = k
    BY <1>6, Appended DEF Recorded
  <2>6. QED
    BY <1>5, <2>4, <2>5
<1>7. Ids' = Ids \/ \E b \in wave : Recorded(b)
  <2>1. ASSUME NEW i \in Ids, AdmitResult(i) \/ SettleResult(i) \/ SettleExcluded(i)
        PROVE  Ids' = Ids
    BY <2>1, IdStep, OneFields
  <2>2. UNCHANGED dispatches => Ids' = Ids
    BY DEF Ids
  <2>3. ActorsChange => Ids' = Ids
    BY DEF ActorsChange
  <2>4. QED
    BY <2>1, <2>2, <2>3, StepKinds DEF Kinds, Refresh, RebindBase, Advances
<1>8. \A i \in Ids' : dispatches'[i].base <= HeadOf(dispatches[i].node)'
  BY <1>5, <1>6, <1>7
<1>9. QED
  BY <1>3, <1>4, <1>8 DEF Behind

LEMMA AgreementStep ==
    ASSUME Typed, Bounds, BaseAgreement, [Next]_vars
    PROVE  BaseAgreement'
<1>1. ASSUME NEW n \in Nodes, UNCHANGED <<repositoryBases>>, IsActive(n)', nodes'[n].stage # Final
      PROVE  nodes'[n].base = repositoryBases'[RepositoryOf[n]]
  <2>1. nodes[n] \in Node /\ Moves(n)
    BY NodesMove DEF Typed, TypeOK
  <2>2. IsActive(n) /\ nodes[n].stage # Final => nodes[n].base = repositoryBases[RepositoryOf[n]]
    BY DEF BaseAgreement
  <2>3. CASE nodes'[n] = nodes[n]
    BY <1>1, <2>2, <2>3 DEF IsActive
  <2>4. CASE Removed(n)
    BY <1>1, <2>4 DEF Removed, NodeIs, IsActive
  <2>5. CASE Reborn(n)
    BY <2>5 DEF Reborn, NodeIs
  <2>6. CASE Advanced(n)
    <3>1. PICK stage \in {nodes[n].stage, nodes[n].stage + 1} :
            NodeIs(nodes'[n], nodes[n].status, nodes[n].epoch, nodes[n].base, stage,
                   nodes[n].head + 1)
      BY <2>6 DEF Advanced
    <3>2. nodes'[n].base = nodes[n].base /\ nodes'[n].status = nodes[n].status
      BY <3>1 DEF NodeIs
    <3>3. nodes[n].stage # Final
      BY <2>1, <2>6, StageAssumption DEF Advanced, Node
    <3>4. QED
      BY <1>1, <2>2, <3>2, <3>3 DEF IsActive
  <2>7. QED
    BY <2>1, <2>3, <2>4, <2>5, <2>6 DEF Moves
<1>2. CASE UNCHANGED repositoryBases
  BY <1>1, <1>2 DEF BaseAgreement
<1>3. ASSUME NEW r \in Repositories, RebindBase(r) PROVE BaseAgreement'
  <2>1. ASSUME NEW n \in Nodes, IsActive(n)', nodes'[n].stage # Final
        PROVE  nodes'[n].base = repositoryBases'[RepositoryOf[n]]
    <3>1. CASE RepositoryOf[n] = r /\ nodes[n].stage # Final
      <4>1. Reborn(n)
        BY <1>3, <3>1, RebindMoves
      <4>2. QED
        BY <4>1 DEF Reborn, NodeIs
    <3>2. CASE RepositoryOf[n] # r \/ nodes[n].stage = Final
      <4>1. nodes'[n] = nodes[n]
        BY <1>3, <3>2 DEF RebindBase
      <4>2. RepositoryOf[n] # r
        BY <2>1, <3>2, <4>1
      <4>3. repositoryBases'[RepositoryOf[n]] = repositoryBases[RepositoryOf[n]]
        BY <1>3, <4>2, NodeAssumption DEF RebindBase, Typed, TypeOK
      <4>4. QED
        BY <2>1, <4>1, <4>3 DEF BaseAgreement, IsActive
    <3>3. QED
      BY <3>1, <3>2
  <2>2. QED
    BY <2>1 DEF BaseAgreement
<1>4. QED
  BY <1>2, <1>3, BasesMove

(* A reason to drop a result, in the form in which no step takes it back. *)
Moved(i) == dispatches[i].base < HeadOf(dispatches[i].node)
Superseded(i) ==
    \/ dispatches[i].selector < selector
    \/ dispatches[i].epoch < nodes[dispatches[i].node].epoch

Caused ==
    /\ \A i \in exclude : dispatches[i].actor = "malformed" \/ Moved(i)
    /\ \A i \in Ids : dispatches[i].outcome = "excluded" =>
           dispatches[i].actor = "malformed" \/ Moved(i) \/ Superseded(i)

LEMMA CausesLast ==
    ASSUME Typed, Bounds, Waved, [Next]_vars, NEW i \in Ids
    PROVE  /\ Moved(i) => Moved(i)'
           /\ Superseded(i) => Superseded(i)'
           /\ dispatches[i].actor = "malformed" => dispatches'[i].actor = "malformed"
<1> DEFINE n == dispatches[i].node
<1>1. /\ dispatches[i] \in Dispatch /\ n \in Nodes /\ SameBinding(i)
      /\ Typed' /\ Grows(n)
  BY TypedStep, DispatchesKept DEF Typed, TypeOK, Dispatch
<1>2. /\ dispatches[i].base \in Nat /\ dispatches[i].selector \in Nat
      /\ dispatches[i].epoch \in Nat
      /\ nodes[n].epoch \in Nat /\ nodes'[n].epoch \in Nat
      /\ selector \in Nat /\ selector' \in {selector, selector + 1}
  BY <1>1, NodesMove DEF Typed, TypeOK, Dispatch, Node
<1>3. Moved(i) => Moved(i)'
  <2>1. RepositoryOf[n] \in Repositories
    BY <1>1, NodeAssumption
  <2>2. remoteHead[RepositoryOf[n]] \in Nat /\ remoteHead'[RepositoryOf[n]] \in Nat
        /\ remoteHead[RepositoryOf[n]] <= remoteHead'[RepositoryOf[n]]
    BY <2>1, BasesStep DEF Typed, TypeOK
  <2>3. dispatches'[i].node = n /\ dispatches'[i].base = dispatches[i].base
    BY <1>1 DEF SameBinding
  <2>4. QED
    BY <1>2, <2>2, <2>3 DEF Moved, HeadOf
<1>4. Superseded(i) => Superseded(i)'
  <2>1. dispatches'[i].node = n /\ dispatches'[i].epoch = dispatches[i].epoch
        /\ dispatches'[i].selector = dispatches[i].selector
    BY <1>1 DEF SameBinding
  <2>2. nodes[n].epoch <= nodes'[n].epoch
    BY <1>1, <1>2 DEF Grows
  <2>3. QED
    BY <1>2, <2>1, <2>2 DEF Superseded
<1>5. dispatches[i].actor = "malformed" => dispatches'[i].actor = "malformed"
  <2>1. ASSUME NEW b \in wave, Recorded(b) PROVE dispatches'[i] = dispatches[i]
    BY <2>1, NewStep DEF Recorded
  <2>2. ASSUME NEW j \in Ids, AdmitResult(j) \/ SettleResult(j) \/ SettleExcluded(j)
        PROVE  dispatches'[i].actor = dispatches[i].actor
    BY <2>2, IdStep, OneFields
  <2>3. ActorsChange => (dispatches[i].actor = "malformed" => dispatches'[i].actor = "malformed")
    BY ActorsFields
  <2>4. QED
    BY <2>1, <2>2, <2>3, StepKinds DEF Kinds, Refresh, RebindBase, Advances
<1>6. QED
  BY <1>3, <1>4, <1>5

(* The results the observation of the bases excludes. *)
LEMMA ExcludeCaused ==
    ASSUME Typed, Memory, Behind, ObserveDrained
    PROVE  \A i \in exclude' : dispatches[i].actor = "malformed" \/ Moved(i)
<1>1. ASSUME NEW i \in exclude' PROVE dispatches[i].actor = "malformed" \/ Moved(i)
  <2>1. CASE BasesConflict
    BY <1>1, <2>1 DEF ObserveDrained, Down
  <2>2. CASE ~BasesConflict
    <3>1. /\ i \in drained
          /\ dispatches[i].actor = "malformed"
             \/ dispatches[i].base # HeadOf(dispatches[i].node)
      BY <1>1, <2>2 DEF ObserveDrained, Observed, DrainedAs
    <3>2. i \in Ids /\ dispatches[i].base <= HeadOf(dispatches[i].node)
      BY <3>1 DEF Typed, TypeOK, Behind
    <3>3. dispatches[i].base \in Nat /\ HeadOf(dispatches[i].node) \in Nat
      BY <3>2, NodeAssumption DEF Typed, TypeOK, Dispatch, HeadOf
    <3>4. QED
      BY <3>1, <3>2, <3>3 DEF Moved
  <2>3. QED
    BY <2>1, <2>2
<1>2. QED
  BY <1>1

LEMMA ExcludeGrows ==
    ASSUME [Next]_vars
    PROVE  exclude' \subseteq exclude \/ ObserveDrained
<1>1. CASE UNCHANGED vars
  BY <1>1 DEF vars, batchVars
<1>2. CASE Remote
  BY <1>2 DEF Remote, BaseMoves, IssueChanges, IssueLeaves, IssueReturns, OutsideChanges,
       ScopeMoves, batchVars
<1>3. ASSUME Down PROVE exclude' \subseteq exclude
  BY <1>3 DEF Down
<1>4. CASE \E i \in Ids, how \in Ends : ActorEnds(i, how)
  BY <1>4 DEF ActorEnds, batchVars
<1>5. CASE Crash \/ CompileFails
  BY <1>3, <1>5 DEF Crash, CompileFails
<1>6. CASE Start \/ Refresh \/ CompileWave \/ CompileAwait \/ RecordStarted \/ SpawnWave
  BY <1>6 DEF Start, Refresh, CompileWave, CompileAwait, RecordStarted, SpawnWave, batchVars
<1>7. CASE Drain \/ FinishSettling \/ Idle \/ \E prepared \in SUBSET wave : PrepareWave(prepared)
  BY <1>3, <1>7 DEF Drain, FinishSettling, Idle, PrepareWave, batchVars
<1>8. CASE \E i \in Ids : AdmitResult(i) \/ SettleResult(i) \/ SettleExcluded(i)
  BY <1>8 DEF AdmitResult, SettleResult, SettleExcluded
<1>9. ASSUME NEW about, DropForDrift(about) PROVE exclude' \subseteq exclude
  BY <1>3, <1>9 DEF DropForDrift, batchVars
<1>10. ASSUME NEW n \in Nodes, RootAction(n) PROVE exclude' \subseteq exclude
  BY <1>9, <1>10 DEF RootAction, batchVars
<1>11. ASSUME NEW S \in SUBSET Nodes, MachineBatch(S) PROVE exclude' \subseteq exclude
  BY <1>3, <1>9, <1>11 DEF MachineBatch, batchVars
<1>12. QED
  BY <1>1, <1>2, <1>4, <1>5, <1>6, <1>7, <1>8, <1>9, <1>10, <1>11 DEF Next, Process, WaveDrifts

LEMMA CausedStep ==
    ASSUME Typed, Bounds, Waved, Memory, Kin, Behind, Caused, [Next]_vars
    PROVE  Caused'
<1>1. /\ Typed' /\ exclude \subseteq Ids /\ exclude' \subseteq Ids'
  BY TypedStep DEF Typed, TypeOK
<1>2. ASSUME NEW i \in exclude' PROVE dispatches'[i].actor = "malformed" \/ Moved(i)'
  <2>1. i \in Ids /\ (dispatches[i].actor = "malformed" \/ Moved(i))
    <3>1. CASE ObserveDrained
      <4>1. Ids' = Ids
        BY <3>1 DEF ObserveDrained, ledgerVars, Ids
      <4>2. QED
        BY <1>1, <1>2, <3>1, <4>1, ExcludeCaused
    <3>2. CASE ~ObserveDrained
      BY <1>1, <1>2, <3>2, ExcludeGrows DEF Caused
    <3>3. QED
      BY <3>1, <3>2
  <2>2. QED
    BY <2>1, CausesLast
<1>3. ASSUME NEW i \in Ids,
             dispatches[i].actor = "malformed" \/ Moved(i) \/ Superseded(i)
      PROVE  (dispatches[i].actor = "malformed" \/ Moved(i) \/ Superseded(i))'
  BY <1>3, CausesLast
<1>4. ASSUME \A i \in Ids' : dispatches'[i].outcome = "excluded" =>
                 /\ i \in Ids
                 /\ \/ dispatches[i].outcome = "excluded"
                    \/ dispatches[i].actor = "malformed" \/ Moved(i) \/ Superseded(i)
      PROVE  Caused'
  <2>1. ASSUME NEW i \in Ids', dispatches'[i].outcome = "excluded"
        PROVE  (dispatches[i].actor = "malformed" \/ Moved(i) \/ Superseded(i))'
    BY <1>3, <1>4, <2>1 DEF Caused
  <2>2. QED
    BY <1>2, <2>1 DEF Caused
<1>5. CASE UNCHANGED dispatches
  BY <1>4, <1>5 DEF Ids
<1>6. CASE ActorsChange
  BY <1>4, <1>6, ActorsFields
<1>7. ASSUME NEW b \in wave, Recorded(b) PROVE Caused'
  <2>1. /\ \A i \in Ids' : i \in Ids \/ i = Len(dispatches) + 1
        /\ dispatches'[Len(dispatches) + 1].outcome = "none"
        /\ \A i \in Ids : dispatches'[i] = dispatches[i]
    BY <1>7, NewStep, NewFields DEF Recorded
  <2>2. QED
    BY <1>4, <2>1
<1>8. ASSUME NEW i \in Ids, AdmitResult(i) PROVE Caused'
  <2>1. OneChanges(i, TRUE, dispatches[i].outcome)
    BY <1>8, OneStep
  <2>2. Ids' = Ids /\ \A j \in Ids : dispatches'[j].outcome = dispatches[j].outcome
    BY <2>1, OneFields
  <2>3. QED
    BY <1>4, <2>2
<1>9. ASSUME NEW i \in Ids, SettleExcluded(i) PROVE Caused'
  <2>1. OneChanges(i, dispatches[i].event, "excluded") /\ i \in exclude
    BY <1>9, OneStep DEF SettleExcluded
  <2>2. Ids' = Ids /\ \A j \in Ids : j # i => dispatches'[j] = dispatches[j]
    BY <2>1, OneFields
  <2>3. dispatches[i].actor = "malformed" \/ Moved(i)
    BY <2>1 DEF Caused
  <2>4. QED
    BY <1>4, <2>2, <2>3
<1>10. ASSUME NEW i \in Ids, SettleResult(i) PROVE Caused'
  <2>1. CASE dispatches[i].event
    <3>1. \E outcome \in {"completed", "failed"} : OneChanges(i, dispatches[i].event, outcome)
      BY <1>10, <2>1, OneStep
    <3>2. /\ Ids' = Ids /\ dispatches'[i].outcome # "excluded"
          /\ \A j \in Ids : j # i => dispatches'[j] = dispatches[j]
      BY <3>1, OneFields
    <3>3. QED
      BY <1>4, <3>2
  <2>2. CASE ~dispatches[i].event
    <3>1. OneChanges(i, dispatches[i].event, "excluded") /\ ~IsFresh(dispatches[i])
      BY <1>10, <2>2, OneStep
    <3>2. Ids' = Ids /\ \A j \in Ids : j # i => dispatches'[j] = dispatches[j]
      BY <3>1, OneFields
    <3>3. i \in Unsettled
      BY <1>10 DEF SettleResult, Memory, MemoryAgrees
    <3>4. dispatches[i].selector # selector
          \/ dispatches[i].epoch # nodes[dispatches[i].node].epoch
      BY <2>2, <3>1, <3>3 DEF Kin
    <3>5. /\ dispatches[i].selector <= selector
          /\ dispatches[i].epoch <= nodes[dispatches[i].node].epoch
          /\ dispatches[i].selector \in Nat /\ dispatches[i].epoch \in Nat
          /\ selector \in Nat /\ nodes[dispatches[i].node].epoch \in Nat
      BY DEF Bounds, Bound, Typed, TypeOK, Dispatch, Node
    <3>6. Superseded(i)
      BY <3>4, <3>5 DEF Superseded
    <3>7. QED
      BY <1>4, <3>2, <3>6
  <2>3. QED
    BY <2>1, <2>2
<1>11. QED
  BY <1>5, <1>6, <1>7, <1>8, <1>9, <1>10, StepKinds DEF Kinds, Refresh, RebindBase, Advances

(* An ended run has nothing in flight and nothing left to do. *)
Ending == terminal => pc = "done" /\ Unsettled = {} /\ AllClosed

LEMMA EndingStep ==
    ASSUME Typed, Memory, Ending, [Next]_vars
    PROVE  Ending'
<1>1. CASE terminal
  <2>1. pc = "done" /\ Unsettled = {} /\ AllClosed
    BY <1>1 DEF Ending
  <2>2. \/ UNCHANGED vars \/ Remote \/ \E i \in Ids, how \in Ends : ActorEnds(i, how)
    BY <2>1 DEF Next, Process, Crash, Start, Refresh, CompileFails, CompileWave, CompileAwait,
         WaveDrifts, PrepareWave, RecordStarted, SpawnWave, Drain, ObserveDrained, FinishSettling,
         AdmitResult, SettleResult, SettleExcluded, RootAction, MachineBatch, Idle, Quiet
  <2>3. /\ UNCHANGED <<pc, nodes, terminal>>
        /\ UNCHANGED dispatches \/ \E i \in Ids, how \in Ends : ActorEnds(i, how)
    BY <2>2 DEF vars, ledgerVars, Remote, BaseMoves, IssueChanges, IssueLeaves, IssueReturns,
         OutsideChanges, ScopeMoves, ActorEnds
  <2>4. Unsettled' = Unsettled
    BY <2>3, ActorsStep, UnsettledSame
  <2>5. QED
    BY <2>1, <2>3, <2>4 DEF Ending, AllClosed
<1>2. CASE ~terminal
  <2>1. terminal' => Idle
    <3>1. ASSUME terminal' = terminal PROVE ~terminal'
      BY <1>2, <3>1
    <3>2. ASSUME NEW about, DropForDrift(about) PROVE terminal' = terminal
      BY <3>2 DEF DropForDrift, RebindBase, ledgerVars
    <3>3. Remote \/ Crash \/ UNCHANGED vars => terminal' = terminal
      BY DEF vars, Remote, BaseMoves, IssueChanges, IssueLeaves, IssueReturns, OutsideChanges,
           ScopeMoves, Crash, ledgerVars
    <3>4. \/ Start \/ Refresh \/ CompileFails \/ CompileWave \/ CompileAwait \/ RecordStarted
          \/ SpawnWave \/ Drain \/ ObserveDrained \/ FinishSettling
          => terminal' = terminal
      BY DEF Start, Refresh, CompileFails, CompileWave, CompileAwait, RecordStarted, SpawnWave,
           Drain, ObserveDrained, FinishSettling, ledgerVars
    <3>5. ASSUME NEW i \in Ids, \/ AdmitResult(i) \/ SettleResult(i) \/ SettleExcluded(i)
                                \/ \E how \in Ends : ActorEnds(i, how)
          PROVE  terminal' = terminal
      BY <3>5 DEF AdmitResult, SettleResult, SettleExcluded, ActorEnds
    <3>6. ASSUME NEW prepared \in SUBSET wave, PrepareWave(prepared) PROVE terminal' = terminal
      BY <3>6 DEF PrepareWave, ledgerVars
    <3>7. ASSUME NEW n \in Nodes, RootAction(n) PROVE terminal' = terminal
      BY <3>2, <3>7 DEF RootAction
    <3>8. ASSUME NEW S \in SUBSET Nodes, MachineBatch(S) PROVE terminal' = terminal
      BY <3>2, <3>8 DEF MachineBatch
    <3>9. QED
      BY <3>1, <3>2, <3>3, <3>4, <3>5, <3>6, <3>7, <3>8 DEF Next, Process, WaveDrifts
  <2>2. CASE terminal' /\ Idle
    <3>1. AllClosed /\ pc' = "done" /\ pc = "loop" /\ running = {} /\ UNCHANGED <<nodes, dispatches>>
      BY <1>2, <2>2 DEF Idle, Quiet
    <3>2. Unsettled = {}
      BY <3>1 DEF Memory, MemoryAgrees
    <3>3. Unsettled' = {}
      BY <3>1, <3>2, UnsettledSame
    <3>4. QED
      BY <3>1, <3>3 DEF Ending, AllClosed
  <2>3. QED
    BY <2>1, <2>2 DEF Ending
<1>3. QED
  BY <1>1, <1>2

-----------------------------------------------------------------------------
(* The inductive invariant. *)

Inv ==
    /\ Typed
    /\ Memory
    /\ Waved
    /\ Exclusive
    /\ Bounds
    /\ Chain
    /\ Kin
    /\ Behind
    /\ BaseAgreement
    /\ Caused
    /\ Ending

LEMMA InvInit == Init => Inv
<1> SUFFICES ASSUME Init PROVE Inv
  OBVIOUS
<1>1. Ids = {} /\ Unsettled = {}
  BY DEF Init, Ids, Unsettled
<1>2. Typed
  <2>1. nodes \in [Nodes -> Node]
    BY StageAssumption DEF Init, Node
  <2>2. dispatches \in Seq(Dispatch)
    BY DEF Init
  <2>3. scopeMoves \in 0 .. MaxScope /\ faults \in 0 .. MaxFaults
    BY LimitAssumption DEF Init
  <2>4. QED
    BY <1>1, <2>1, <2>2, <2>3 DEF Init, Typed, TypeOK
<1>3. Memory /\ Waved /\ Ending
  BY <1>1 DEF Init, Memory, MemoryAgrees, Waved, Ending
<1>4. Exclusive /\ Bounds /\ Chain /\ Kin /\ Caused
  BY <1>1 DEF Init, Exclusive, Bounds, Chain, Kin, Caused
<1>5. Behind /\ BaseAgreement
  BY <1>1, NodeAssumption DEF Init, Behind, HeadOf, BaseAgreement
<1>6. QED
  BY <1>2, <1>3, <1>4, <1>5 DEF Inv

LEMMA InvStep == Inv /\ [Next]_vars => Inv'
BY TypedStep, MemoryStep, WaveStep, ExclusiveStep, BoundsStep, ChainStep, KinStep, BehindStep,
   AgreementStep, CausedStep, EndingStep DEF Inv

LEMMA InvAlways == Spec => []Inv
BY InvInit, InvStep, PTL DEF Spec

(* Every variable of the dispatcher and its ledgers keeps its type. *)
THEOREM TypeCorrect == Spec => []TypeOK
<1>1. Inv => TypeOK
  BY DEF Inv, Typed
<1>2. QED
  BY <1>1, InvAlways, PTL

(* The dispatcher's memory (its set of promises, the drained results and   *)
(* the batches to record) agrees with the dispatches recorded as unsettled,*)
(* whatever crashed: no slot is lost and nothing is settled twice.         *)
THEOREM MemoryAgreesAlways == Spec => []MemoryAgrees
<1>1. Inv => MemoryAgrees
  BY DEF Inv, Memory
<1>2. QED
  BY <1>1, InvAlways, PTL

(* No two results are admitted on one head of a node ledger. *)
THEOREM HistoryIsLinear == Spec => []LinearHistory
<1>1. Inv => LinearHistory
  BY ChainIsLinear DEF Inv
<1>2. QED
  BY <1>1, InvAlways, PTL

(* The open nodes of a repository agree on its base. *)
THEOREM BasesAgree == Spec => []BaseAgreement
<1>1. Inv => BaseAgreement
  BY DEF Inv
<1>2. QED
  BY <1>1, InvAlways, PTL

(* A dropped result is malformed, or the base, the scope or the incarnation*)
(* it was bound to is gone: its peers never invalidate it.                 *)
THEOREM DroppedForCause == Spec => []ExcludedForCause
<1>1. Inv => ExcludedForCause
  <2> SUFFICES ASSUME Inv, NEW i \in Ids, dispatches[i].outcome = "excluded"
               PROVE  \/ dispatches[i].actor = "malformed"
                      \/ dispatches[i].base # HeadOf(dispatches[i].node)
                      \/ dispatches[i].selector # selector
                      \/ dispatches[i].epoch # nodes[dispatches[i].node].epoch
    BY DEF ExcludedForCause
  <2>1. dispatches[i].actor = "malformed" \/ Moved(i) \/ Superseded(i)
    BY DEF Inv, Caused
  <2>2. /\ dispatches[i].base \in Nat /\ HeadOf(dispatches[i].node) \in Nat
        /\ dispatches[i].selector \in Nat /\ selector \in Nat
        /\ dispatches[i].epoch \in Nat /\ nodes[dispatches[i].node].epoch \in Nat
    BY NodeAssumption DEF Inv, Typed, TypeOK, Dispatch, Node, HeadOf
  <2>3. QED
    BY <2>1, <2>2 DEF Moved, Superseded
<1>2. QED
  BY <1>1, InvAlways, PTL

(* A run is recorded as terminal only with every node closed and no        *)
(* dispatch in flight, and it stays so.                                    *)
THEOREM EndIsQuiescent == Spec => []EndsQuiescent
<1>1. Inv => EndsQuiescent
  BY DEF Inv, Ending, EndsQuiescent
<1>2. QED
  BY <1>1, InvAlways, PTL

(* A node goes forward within its incarnation, and incarnations follow one *)
(* another.                                                                *)
THEOREM NodesGoForward == Spec => ForwardOnly
<1>1. Inv /\ [Next]_vars =>
        [\A n \in Nodes :
            \/ nodes'[n].epoch = nodes[n].epoch
               /\ nodes'[n].stage >= nodes[n].stage
               /\ nodes'[n].head >= nodes[n].head
            \/ nodes'[n].epoch = nodes[n].epoch + 1]_vars
  BY TypedStep DEF Inv, Grows
<1>2. QED
  BY <1>1, InvAlways, PTL DEF Spec, ForwardOnly

-----------------------------------------------------------------------------
(* The dispatches implement the leases of DispatchLease. *)

LEMMA LeaseInit == Init => Lease!Init
BY DEF Init, Lease!Init, Leases, Ids

LEMMA LeaseTyped ==
    ASSUME Typed
    PROVE  /\ Leases \in Seq(Lease!Lease)
           /\ DOMAIN Leases = Ids
           /\ \A i \in Ids : Leases[i] = LeaseOf(dispatches[i])
           /\ Lease!Active = Unsettled
<1>1. Len(dispatches) \in Nat /\ Ids = 1 .. Len(dispatches)
  BY LenProperties DEF Typed, Ids
<1>2. DOMAIN Leases = Ids /\ \A i \in Ids : Leases[i] = LeaseOf(dispatches[i])
  BY DEF Leases
<1>3. ASSUME NEW d \in Dispatch
      PROVE  LeaseOf(d) \in Lease!Lease /\ (LeaseOf(d).state = "active" <=> d.outcome = "none")
  BY DEF LeaseOf, Lease!Lease, Lease!Released, Dispatch
<1>4. \A i \in Ids : dispatches[i] \in Dispatch
  BY DEF Typed, TypeOK
<1>5. Leases \in [1 .. Len(dispatches) -> Lease!Lease]
  BY <1>1, <1>3, <1>4 DEF Leases
<1>6. Leases \in Seq(Lease!Lease)
  BY <1>1, <1>5, SeqDef
<1>7. Lease!Active = Unsettled
  BY <1>2, <1>3, <1>4 DEF Lease!Active, Unsettled
<1>8. QED
  BY <1>2, <1>6, <1>7

(* A recorded dispatch is a lease granted on a free node and a free slot. *)
LEMMA LeaseGranted ==
    ASSUME Inv, NEW b \in wave, NewDispatch(b)
    PROVE  Lease!Grant(b.node)
<1>1. Lease!Active = Unsettled
  BY LeaseTyped DEF Inv
<1>2. \A i \in Unsettled : dispatches[i].node # b.node
  BY DEF Inv, Waved, Startable, Busy
<1>3. Cardinality(Unsettled) < Capacity
  <2>1. Unsettled \subseteq 1 .. Len(dispatches) /\ Len(dispatches) \in Nat
    BY LenProperties DEF Inv, Typed, Unsettled, Ids
  <2>2. Busy \cup WaveNodes \subseteq Nodes /\ b.node \in WaveNodes /\ b.node \notin Busy
    BY DEF Inv, Waved, Startable, Busy, Unsettled, Typed, TypeOK, Dispatch, WaveNodes
  <2>3. IsFiniteSet(Busy \cup WaveNodes) /\ IsFiniteSet(Busy)
    BY <2>2, NodeAssumption, FS_Subset
  <2>4. Cardinality(Busy) <= Cardinality(Busy \cup WaveNodes)
        /\ Cardinality(Busy) # Cardinality(Busy \cup WaveNodes)
    BY <2>2, <2>3, FS_Subset
  <2>5. Cardinality(Unsettled) <= Cardinality(Busy)
    <3> DEFINE f == [i \in Unsettled |-> dispatches[i].node]
    <3>1. f \in [Unsettled -> Busy]
      BY DEF Busy
    <3>2. f \in Injection(Unsettled, Busy)
      BY <3>1 DEF Injection, IsInjective, Inv, Exclusive
    <3>3. QED
      BY <2>3, <3>2, FS_Injection
  <2>6. IsFiniteSet(Unsettled)
    <3>1. IsFiniteSet(1 .. Len(dispatches))
      BY <2>1, FS_Interval
    <3>2. QED
      BY <2>1, <3>1, FS_Subset
  <2>7. /\ Cardinality(Unsettled) \in Nat /\ Cardinality(Busy) \in Nat
        /\ Cardinality(Busy \cup WaveNodes) \in Nat /\ Capacity \in Nat
    BY <2>3, <2>6, FS_CardinalityType, LimitAssumption
  <2>8. Cardinality(Busy \cup WaveNodes) <= Capacity
    BY DEF Inv, Waved
  <2>9. QED
    BY <2>4, <2>5, <2>7, <2>8
<1>4. Lease!Cardinality(Unsettled) = Cardinality(Unsettled)
  BY DEF Cardinality, Lease!Cardinality
<1>5. Leases' = Append(Leases, [node |-> b.node, admitted |-> FALSE, state |-> "active"])
  <2> DEFINE e == [node |-> b.node, admitted |-> FALSE, state |-> "active"]
  <2>1. Leases \in Seq(Lease!Lease) /\ e \in Lease!Lease
    BY LeaseTyped DEF Inv, Lease!Lease, Typed, Bind
  <2>2. Len(Leases) = Len(dispatches) /\ Len(dispatches) \in Nat /\ Ids = 1 .. Len(dispatches)
    BY <2>1, LeaseTyped, LenProperties DEF Ids, Inv, Typed
  <2>. PICK k : k = Len(dispatches) + 1
    OBVIOUS
  <2> DEFINE t == Append(Leases, e)
  <2>3. /\ t \in Seq(Lease!Lease) /\ Len(t) = k /\ t[k] = e
        /\ \A i \in Ids : t[i] = Leases[i]
    BY <2>1, <2>2, AppendProperties
  <2> HIDE DEF t
  <2>4. t = [i \in 1 .. k |-> t[i]]
    BY <2>3, LenProperties
  <2>5. /\ Ids' = Ids \cup {k}
        /\ \A i \in Ids : dispatches'[i] = dispatches[i]
        /\ dispatches'[k].node = b.node /\ ~dispatches'[k].event /\ dispatches'[k].outcome = "none"
    BY NewStep, NewFields DEF Inv
  <2>6. dispatches'[k].event = FALSE
    <3>1. dispatches'[k] = [node |-> b.node, epoch |-> b.epoch, head |-> b.head,
                            base |-> b.base, selector |-> b.selector, actor |-> "unspawned",
                            event |-> FALSE, outcome |-> "none"]
      BY NewStep DEF Inv
    <3>2. QED
      BY <3>1
  <2>7. LeaseOf(dispatches'[k]) = e
    BY <2>5, <2>6 DEF LeaseOf
  <2>8. \A i \in Ids : LeaseOf(dispatches'[i]) = t[i]
    BY <2>3, <2>5, LeaseTyped DEF Inv
  <2>9. Ids' = 1 .. k
    BY <2>2, <2>5
  <2>10. Leases' = [i \in 1 .. k |-> LeaseOf(dispatches'[i])]
    BY <2>9 DEF Leases, LeaseOf
  <2>11. \A i \in 1 .. k : LeaseOf(dispatches'[i]) = t[i]
    BY <2>3, <2>5, <2>7, <2>8, <2>9
  <2>12. Leases' = t
    BY <2>4, <2>10, <2>11
  <2>13. QED
    BY <2>12 DEF t
<1>6. \A i \in Lease!Active : Leases[i].node # b.node
  BY <1>1, <1>2, LeaseTyped DEF LeaseOf, Inv, Unsettled
<1>7. QED
  BY <1>1, <1>3, <1>4, <1>5, <1>6 DEF Lease!Grant

LEMMA LeasesKept ==
    ASSUME Ids' = Ids, \A i \in Ids : /\ dispatches'[i].node = dispatches[i].node
                                      /\ dispatches'[i].event = dispatches[i].event
                                      /\ dispatches'[i].outcome = dispatches[i].outcome
    PROVE  Leases' = Leases
BY DEF Leases, LeaseOf

(* What one dispatch becomes is what its lease becomes. *)
LEMMA LeaseUpdated ==
    ASSUME Inv, NEW i \in Ids, NEW event, NEW outcome, OneChanges(i, event, outcome)
    PROVE  /\ Ids' = Ids
           /\ dispatches'[i].node = dispatches[i].node
           /\ Leases' = [Leases EXCEPT ![i] = LeaseOf(dispatches'[i])]
           /\ LeaseOf(dispatches'[i]) =
                [node |-> dispatches[i].node, admitted |-> event,
                 state |-> IF outcome = "none" THEN "active" ELSE outcome]
<1>1. /\ Ids' = Ids
      /\ dispatches'[i].event = event /\ dispatches'[i].outcome = outcome
      /\ \A j \in Ids : j # i => dispatches'[j] = dispatches[j]
      /\ dispatches'[i].node = dispatches[i].node
  BY OneFields DEF SameBinding
<1>2. Leases' = [j \in Ids |-> LeaseOf(dispatches'[j])]
  BY <1>1 DEF Leases, LeaseOf
<1>3. [Leases EXCEPT ![i] = LeaseOf(dispatches'[i])]
        = [j \in Ids |-> IF j = i THEN LeaseOf(dispatches'[i]) ELSE LeaseOf(dispatches[j])]
  BY DEF Leases
<1>4. \A j \in Ids : LeaseOf(dispatches'[j]) =
        IF j = i THEN LeaseOf(dispatches'[i]) ELSE LeaseOf(dispatches[j])
  BY <1>1
<1>5. Leases' = [Leases EXCEPT ![i] = LeaseOf(dispatches'[i])]
  BY <1>2, <1>3, <1>4
<1>6. QED
  BY <1>1, <1>5 DEF LeaseOf

LEMMA LeaseFields ==
    ASSUME Inv, NEW i \in Ids
    PROVE  /\ Leases[i] = LeaseOf(dispatches[i])
           /\ Leases[i].node = dispatches[i].node
           /\ Leases[i].admitted = dispatches[i].event
           /\ DOMAIN Leases = Ids
           /\ i \in Lease!Active <=> i \in Unsettled
BY LeaseTyped DEF Inv, LeaseOf

(* The node event of a result admits it to its lease. *)
LEMMA LeaseAdmitted ==
    ASSUME Inv, NEW i \in Ids, AdmitResult(i)
    PROVE  Lease!Admit(i)
<1>1. i \in Unsettled /\ ~dispatches[i].event
  BY DEF AdmitResult, Inv, Memory, MemoryAgrees
<1>2. OneChanges(i, TRUE, dispatches[i].outcome) /\ dispatches[i].outcome = "none"
  BY <1>1, OneStep DEF Inv, Unsettled
<1>3. /\ Leases' = [Leases EXCEPT ![i] = LeaseOf(dispatches'[i])]
      /\ LeaseOf(dispatches'[i]) =
           [node |-> dispatches[i].node, admitted |-> TRUE, state |-> "active"]
  BY <1>2, LeaseUpdated
<1>4. Leases[i] \in Lease!Lease /\ Leases[i].node = dispatches[i].node
      /\ Leases[i].state = "active"
  <2>1. Leases \in Seq(Lease!Lease) /\ i \in 1 .. Len(Leases)
    BY LeaseTyped, LenProperties DEF Inv
  <2>2. Leases[i] \in Lease!Lease
    BY <2>1, ElementOfSeq
  <2>3. i \in Lease!Active
    BY <1>1, LeaseFields
  <2>4. QED
    BY <2>2, <2>3, LeaseFields DEF Lease!Active
<1>5. ASSUME NEW s, NEW lease, NEW admitted, lease = [s[i] EXCEPT !.admitted = admitted]
      PROVE  [s EXCEPT ![i].admitted = admitted] = [s EXCEPT ![i] = lease]
  BY <1>5
<1>6. ASSUME NEW lease \in Lease!Lease, NEW admitted
      PROVE  [lease EXCEPT !.admitted = admitted] =
               [node |-> lease.node, admitted |-> admitted, state |-> lease.state]
  BY DEF Lease!Lease
<1>7. LeaseOf(dispatches'[i]) = [Leases[i] EXCEPT !.admitted = TRUE]
  <2>1. [Leases[i] EXCEPT !.admitted = TRUE] =
          [node |-> Leases[i].node, admitted |-> TRUE, state |-> Leases[i].state]
    BY <1>4, <1>6
  <2>2. QED
    BY <1>3, <1>4, <2>1
<1>8. Leases' = [Leases EXCEPT ![i].admitted = TRUE]
  BY <1>3, <1>5, <1>7
<1>9. i \in Lease!Active /\ ~Leases[i].admitted
  BY <1>1, LeaseFields
<1>10. QED
  BY <1>8, <1>9 DEF Lease!Admit

(* The settlement of a result releases its lease. *)
LEMMA LeaseReleased ==
    ASSUME Inv, NEW i \in Ids, SettleResult(i) \/ SettleExcluded(i)
    PROVE  \E outcome \in Lease!Released : Lease!Release(i, outcome)
<1>1. i \in Unsettled /\ dispatches[i].outcome = "none"
  BY DEF SettleResult, SettleExcluded, Inv, Memory, MemoryAgrees, Unsettled
<1>2. PICK outcome \in {"completed", "failed", "excluded"} :
        /\ OneChanges(i, dispatches[i].event, outcome)
        /\ outcome # "excluded" => dispatches[i].event
  <2>1. CASE SettleExcluded(i)
    BY <2>1, OneStep DEF Inv
  <2>2. CASE SettleResult(i) /\ dispatches[i].event
    BY <2>2, OneStep DEF Inv
  <2>3. CASE SettleResult(i) /\ ~dispatches[i].event
    BY <2>3, OneStep DEF Inv
  <2>4. QED
    BY <2>1, <2>2, <2>3
<1>3. /\ Leases' = [Leases EXCEPT ![i] = LeaseOf(dispatches'[i])]
      /\ LeaseOf(dispatches'[i]) =
           [node |-> dispatches[i].node, admitted |-> dispatches[i].event, state |-> outcome]
  BY <1>2, LeaseUpdated
<1>4. Leases[i] = [node |-> dispatches[i].node, admitted |-> dispatches[i].event,
                   state |-> "active"]
  BY <1>1, LeaseFields DEF LeaseOf
<1>5. [Leases[i] EXCEPT !.state = outcome] =
        [node |-> dispatches[i].node, admitted |-> dispatches[i].event, state |-> outcome]
  BY <1>4
<1>6. Leases' = [Leases EXCEPT ![i].state = outcome]
  BY <1>3, <1>5
<1>7. i \in Lease!Active /\ (outcome # "excluded" => Leases[i].admitted)
  BY <1>1, <1>2, LeaseFields
<1>8. QED
  BY <1>6, <1>7 DEF Lease!Release, Lease!Released

LEMMA LeaseStep == Inv /\ [Next]_vars => [Lease!Next]_Leases
<1> SUFFICES ASSUME Inv, [Next]_vars PROVE Lease!Next \/ UNCHANGED Leases
  OBVIOUS
<1>1. CASE UNCHANGED dispatches
  BY <1>1 DEF Leases, LeaseOf, Ids
<1>2. CASE ActorsChange
  <2>1. Ids' = Ids /\ \A i \in Ids : /\ dispatches'[i].node = dispatches[i].node
                                     /\ dispatches'[i].event = dispatches[i].event
                                     /\ dispatches'[i].outcome = dispatches[i].outcome
    BY <1>2, ActorsFields DEF SameBinding
  <2>2. QED
    BY <2>1, LeasesKept
<1>3. ASSUME NEW b \in wave, Recorded(b) PROVE Lease!Next
  <2>1. Lease!Grant(b.node) /\ b.node \in Nodes
    BY <1>3, LeaseGranted DEF Recorded, Inv, Typed, TypeOK
  <2>2. QED
    BY <2>1 DEF Lease!Next
<1>4. ASSUME NEW i \in Ids, AdmitResult(i) PROVE Lease!Next
  <2>1. Lease!Admit(i) /\ i \in DOMAIN Leases
    BY <1>4, LeaseAdmitted, LeaseFields
  <2>2. QED
    BY <2>1 DEF Lease!Next
<1>5. ASSUME NEW i \in Ids, SettleResult(i) \/ SettleExcluded(i) PROVE Lease!Next
  <2>1. i \in DOMAIN Leases /\ \E outcome \in Lease!Released : Lease!Release(i, outcome)
    BY <1>5, LeaseReleased, LeaseFields
  <2>2. QED
    BY <2>1 DEF Lease!Next
<1>6. Kinds
  BY StepKinds DEF Inv
<1>7. QED
  BY <1>1, <1>2, <1>3, <1>4, <1>5, <1>6 DEF Kinds, Refresh, RebindBase, Advances

(* The dispatcher implements the leases: a dispatch is granted on a node   *)
(* that has none and while a slot is free, its result is admitted at most  *)
(* once, and it is settled once.                                           *)
THEOREM DispatchesAreLeases == Spec => LeaseSpec
BY LeaseInit, LeaseStep, InvAlways, PTL DEF Spec, LeaseSpec, Lease!Spec

=============================================================================
