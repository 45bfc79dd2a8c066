--------------------------- MODULE Cleanup_proofs ---------------------------
(***************************************************************************)
(* What nodes, attempts and runs leave behind: Git resources, resources of *)
(* the machine, and the inventory on which a run is ended.                 *)
(***************************************************************************)
EXTENDS GitResourceCleanup, AttemptResources, Quiescence, TLAPS

-----------------------------------------------------------------------------
(***************************************************************************)
(* Theorems about the cleanup of worktrees and branches.                   *)
(***************************************************************************)

CleanupFields ==
    {"state", "epoch", "inventory", "disposition", "mapping", "remoteCleaned"}

BeforeProof == {"none", "active", "frozen", "inventoried"}

(* What the disposition of a cleanup c of r rests on, when k is the quarantine  *)
(* of r and d the default branch.                                               *)
Sound(r, c, k, d) ==
    /\ DOMAIN c = CleanupFields
    /\ c.disposition = "none" <=> c.state \in BeforeProof
    /\ c.disposition \in {"none", "landed", "superseded", "discard-authorized", "quarantined"}
    /\ c.disposition = "landed" => c.mapping = "merge-ancestry" \/ r \in d.patches
    /\ c.disposition = "superseded" => \E s \in Resources : <<r, s>> \in Descends
    /\ c.disposition = "discard-authorized" => r \in d.contains
    /\ c.disposition = "quarantined" =>
         k.directory /\ k.ref /\ c.inventory.dirty = (k.edits > 0)

(* A removed worktree had no edits, or there is a copy of them. *)
Copied(t, k) == t.present \/ t.edits = 0 \/ k.edits > 0

TreeOk(t) == /\ DOMAIN t = {"present", "edits", "process"}
             /\ t.edits \in Nat

GitShape ==
    /\ DOMAIN cleanup = Resources /\ DOMAIN tree = Resources
    /\ DOMAIN kept = Resources /\ DOMAIN branch = Resources
    /\ DOMAIN staging = Resources /\ DOMAIN lease = Resources
    /\ DOMAIN default = {"head", "contains", "patches", "last"}
    /\ Unchanged \subseteq default.contains
    /\ default.last \subseteq default.patches
    /\ \A r \in Resources : TreeOk(tree[r]) /\ kept[r].edits \in Nat

CleanupSound == \A r \in Resources : Sound(r, cleanup[r], kept[r], default)

TreesCopied == \A r \in Resources : Copied(tree[r], kept[r])

LeaseInv ==
    /\ \A r \in Resources : r \notin Staged => staging[r] = "gone"
    /\ LeaseOutlivesResource

GitInv ==
    /\ GitShape
    /\ CleanupSound
    /\ TreesCopied
    /\ LeaseInv
    /\ \A r \in Resources : Found(r)

(* What is kept of a candidate is found again. *)
Here(s) == \/ branch[s] # "gone"
           \/ s \in default.contains \cup default.patches
           \/ kept[s].ref

LEMMA FoundHere ==
    ASSUME NEW r
    PROVE  Found(r) <=> \E s \in Resources : r \in Ancestry(s) /\ Here(s)
BY DEF Found, Here

(* While whatever was here stays here, nothing is lost. *)
LEMMA StaysFound ==
    ASSUME \A s \in Resources : Found(s), \A s \in Resources : Here(s) => Here(s)'
    PROVE  (\A s \in Resources : Found(s))'
<1>1. SUFFICES ASSUME NEW r \in Resources PROVE Found(r)'
  OBVIOUS
<1>2. PICK s \in Resources : r \in Ancestry(s) /\ Here(s)
  BY FoundHere
<1>3. r \in Ancestry(s)'
  BY <1>2 DEF Ancestry
<1>4. Here(s)'
  BY <1>2
<1>5. QED
  BY <1>3, <1>4 DEF Found, Here

(* A candidate that another one contains may lose its branch. *)
LEMMA SupersededFound ==
    ASSUME \A s \in Resources : Found(s), NEW r \in Resources, NEW t \in Resources,
           <<r, t>> \in Descends,
           \A s \in Resources \ {r} : Here(s) => Here(s)'
    PROVE  (\A s \in Resources : Found(s))'
<1>1. SUFFICES ASSUME NEW x \in Resources PROVE Found(x)'
  OBVIOUS
<1>2. PICK s \in Resources : x \in Ancestry(s) /\ Here(s)
  BY FoundHere
<1>3. PICK u \in Resources : t \in Ancestry(u) /\ Here(u)
  BY FoundHere
<1>4. u # r
  BY <1>3, DescendsAssumption DEF Ancestry
<1>5. CASE s # r
  <2>1. x \in Ancestry(s)' /\ Here(s)'
    BY <1>2, <1>5 DEF Ancestry
  <2>2. QED
    BY <2>1 DEF Found, Here
<1>6. CASE s = r
  <2>1. <<x, t>> \in Descends
    BY <1>2, <1>6, DescendsAssumption DEF Ancestry
  <2>2. x \in Ancestry(u)'
    BY <2>1, <1>3, DescendsAssumption DEF Ancestry
  <2>3. Here(u)'
    BY <1>3, <1>4
  <2>4. QED
    BY <2>2, <2>3 DEF Found, Here
<1>7. QED
  BY <1>5, <1>6

-----------------------------------------------------------------------------

(* One cleanup gets a new state that is as sound. *)
LEMMA SoundStep ==
    ASSUME GitInv, NEW r \in Resources, NEW c, Sound(r, c, kept[r], default),
           cleanup' = [cleanup EXCEPT ![r] = c], UNCHANGED <<default, kept>>
    PROVE  CleanupSound'
<1>1. \A s \in Resources : cleanup'[s] = IF s = r THEN c ELSE cleanup[s]
  BY DEF GitInv, GitShape
<1>2. SUFFICES ASSUME NEW s \in Resources PROVE Sound(s, cleanup'[s], kept[s], default)
  BY DEF CleanupSound
<1>3. CASE s = r
  BY <1>1, <1>3
<1>4. CASE s # r
  BY <1>1, <1>4 DEF GitInv, CleanupSound
<1>5. QED
  BY <1>3, <1>4

(* A step of a state machine that touches nothing in the repository. *)
LEMMA SavedOnly ==
    ASSUME GitInv, NEW r \in Resources, NEW c, Sound(r, c, kept[r], default),
           cleanup' = [cleanup EXCEPT ![r] = c],
           UNCHANGED <<default, tree, branch, staging, kept, lease>>
    PROVE  GitInv'
<1>1. GitShape'
  BY DEF GitInv, GitShape
<1>2. CleanupSound'
  BY SoundStep
<1>3. TreesCopied' /\ LeaseInv'
  BY DEF GitInv, TreesCopied, LeaseInv, LeaseOutlivesResource
<1>4. (\A s \in Resources : Found(s))'
  BY StaysFound DEF GitInv, Here
<1>5. QED
  BY <1>1, <1>2, <1>3, <1>4 DEF GitInv

(* The state advances past the proof of the disposition, or is not saved. *)
LEMMA Advanced ==
    ASSUME GitInv, NEW r \in Resources, NEW state, NEW saved \in BOOLEAN,
           Advance(r, state, saved), UNCHANGED <<default, kept>>,
           cleanup[r].state \in BeforeProof <=> state \in BeforeProof
    PROVE  CleanupSound' /\ DOMAIN cleanup' = Resources
<1>1. Sound(r, cleanup[r], kept[r], default)
  BY DEF GitInv, CleanupSound
<1>2. DOMAIN cleanup = Resources
  BY DEF GitInv, GitShape
<1>3. CASE saved
  <2>1. PICK c : c = [cleanup[r] EXCEPT !.state = state]
    OBVIOUS
  <2>2. cleanup' = [cleanup EXCEPT ![r] = c]
    BY <1>3, <2>1 DEF Advance
  <2>3. /\ DOMAIN c = CleanupFields /\ c.state = state
        /\ c.disposition = cleanup[r].disposition
        /\ c.mapping = cleanup[r].mapping /\ c.inventory = cleanup[r].inventory
    BY <1>1, <2>1 DEF Sound, CleanupFields
  <2>4. Sound(r, c, kept[r], default)
    BY <1>1, <2>3 DEF Sound
  <2>5. QED
    BY <1>2, <2>2, <2>4, SoundStep
<1>4. CASE ~saved
  <2>1. cleanup' = cleanup
    BY <1>4 DEF Advance
  <2>2. QED
    BY <1>2, <2>1 DEF GitInv, CleanupSound
<1>5. QED
  BY <1>3, <1>4

-----------------------------------------------------------------------------
(* The steps of the root. *)

LEMMA InitSound == GitInit => GitInv
<1>1. SUFFICES ASSUME GitInit PROVE GitInv
  OBVIOUS
<1>2. GitShape
  BY <1>1 DEF GitInit, GitShape, TreeOk
<1>3. CleanupSound
  BY <1>1 DEF GitInit, CleanupSound, Sound, Unstarted, CleanupFields, BeforeProof
<1>4. TreesCopied /\ LeaseInv
  BY <1>1 DEF GitInit, TreesCopied, Copied, LeaseInv, LeaseOutlivesResource
<1>5. \A r \in Resources : Found(r)
  BY <1>1, FoundHere DEF GitInit, Here, Ancestry
<1>6. QED
  BY <1>2, <1>3, <1>4, <1>5 DEF GitInv

LEMMA BeforeKeeps ==
    ASSUME GitInv, NEW r \in Resources,
           CreateCleanup(r) \/ FreezeResource(r) \/ InventoryResource(r)
    PROVE  GitInv'
<1>1. Sound(r, cleanup[r], kept[r], default)
  BY DEF GitInv, CleanupSound
<1>2. CASE CreateCleanup(r)
  <2>1. PICK c : c = [Unstarted EXCEPT !.state = "active", !.epoch = rootEpoch]
    OBVIOUS
  <2>2. /\ DOMAIN c = CleanupFields
        /\ c.state = "active" /\ c.disposition = "none"
    BY <2>1 DEF Unstarted, CleanupFields
  <2>3. Sound(r, c, kept[r], default)
    BY <2>2 DEF Sound, BeforeProof
  <2>4. QED
    BY <1>2, <2>1, <2>3, SavedOnly DEF CreateCleanup
<1>3. CASE FreezeResource(r)
  <2>1. PICK c : c = [cleanup[r] EXCEPT !.state = "frozen"]
    OBVIOUS
  <2>2. cleanup[r].disposition = "none"
    BY <1>1, <1>3 DEF FreezeResource, At, Sound, BeforeProof
  <2>3. /\ DOMAIN c = CleanupFields
        /\ c.state = "frozen" /\ c.disposition = "none"
    BY <1>1, <2>1, <2>2 DEF Sound, CleanupFields
  <2>4. Sound(r, c, kept[r], default)
    BY <2>3 DEF Sound, BeforeProof
  <2>5. QED
    BY <1>3, <2>1, <2>4, SavedOnly DEF FreezeResource, Advance
<1>4. CASE InventoryResource(r)
  <2>1. PICK i : i = [head |-> default.head, dirty |-> tree[r].edits > 0,
                      refs |-> OtherRefs(r)]
    OBVIOUS
  <2>2. PICK c : c = [cleanup[r] EXCEPT !.state = "inventoried", !.inventory = i]
    OBVIOUS
  <2>3. cleanup[r].disposition = "none"
    BY <1>1, <1>4 DEF InventoryResource, At, Sound, BeforeProof
  <2>4. /\ DOMAIN c = CleanupFields
        /\ c.state = "inventoried" /\ c.disposition = "none"
    BY <1>1, <2>2, <2>3 DEF Sound, CleanupFields
  <2>5. Sound(r, c, kept[r], default)
    BY <2>4 DEF Sound, BeforeProof
  <2>6. cleanup' = [cleanup EXCEPT ![r] = c]
    BY <1>4, <2>1, <2>2 DEF InventoryResource
  <2>7. QED
    BY <1>4, <2>5, <2>6, SavedOnly DEF InventoryResource
<1>5. QED
  BY <1>2, <1>3, <1>4

(* What a proof of a disposition leaves in the state. *)
LEMMA Proven ==
    ASSUME GitInv, NEW r \in Resources, NEW disposition, NEW mapping,
           Prove(r, disposition, mapping, TRUE)
    PROVE  /\ cleanup' = [cleanup EXCEPT ![r] = cleanup'[r]]
           /\ DOMAIN cleanup'[r] = CleanupFields
           /\ cleanup'[r].state = "candidate-disposition-proven"
           /\ cleanup'[r].disposition = disposition
           /\ cleanup'[r].mapping = mapping
           /\ cleanup'[r].inventory = cleanup[r].inventory
<1>1. DOMAIN cleanup[r] = CleanupFields
  BY DEF GitInv, CleanupSound, Sound
<1>2. PICK c : c = [cleanup[r] EXCEPT !.state = "candidate-disposition-proven",
                                      !.disposition = disposition,
                                      !.mapping = mapping]
  OBVIOUS
<1>3. cleanup' = [cleanup EXCEPT ![r] = c]
  BY <1>2 DEF Prove
<1>4. cleanup'[r] = c
  BY <1>3 DEF GitInv, GitShape
<1>5. cleanup' = [cleanup EXCEPT ![r] = cleanup'[r]]
  BY <1>3, <1>4
<1>6. QED
  BY <1>1, <1>2, <1>4, <1>5 DEF CleanupFields

LEMMA ProofKeeps ==
    ASSUME GitInv, NEW r \in Resources,
           ProveLanded(r) \/ ProveSuperseded(r) \/ ProveDiscard(r)
    PROVE  GitInv'
<1>1. CASE ProveLanded(r)
  <2>1. PICK m : m = LandingMapping(r)
    OBVIOUS
  <2>2. m = "merge-ancestry" \/ r \in default.patches
    BY <1>1, <2>1 DEF ProveLanded, LandingMapping, GitInv, GitShape
  <2>3. PICK c : /\ c = cleanup'[r]
                 /\ cleanup' = [cleanup EXCEPT ![r] = c]
                 /\ DOMAIN c = CleanupFields
                 /\ c.state = "candidate-disposition-proven"
                 /\ c.disposition = "landed" /\ c.mapping = m
    BY <1>1, <2>1, Proven DEF ProveLanded
  <2>4. Sound(r, c, kept[r], default)
    BY <2>2, <2>3 DEF Sound, BeforeProof
  <2>5. QED
    BY <1>1, <2>3, <2>4, SavedOnly DEF ProveLanded
<1>2. CASE ProveSuperseded(r)
  <2>1. PICK c : /\ c = cleanup'[r]
                 /\ cleanup' = [cleanup EXCEPT ![r] = c]
                 /\ DOMAIN c = CleanupFields
                 /\ c.state = "candidate-disposition-proven"
                 /\ c.disposition = "superseded"
    BY <1>2, Proven DEF ProveSuperseded
  <2>2. Sound(r, c, kept[r], default)
    BY <1>2, <2>1 DEF ProveSuperseded, Sound, BeforeProof
  <2>3. QED
    BY <1>2, <2>1, <2>2, SavedOnly DEF ProveSuperseded
<1>3. CASE ProveDiscard(r)
  <2>1. PICK c : /\ c = cleanup'[r]
                 /\ cleanup' = [cleanup EXCEPT ![r] = c]
                 /\ DOMAIN c = CleanupFields
                 /\ c.state = "candidate-disposition-proven"
                 /\ c.disposition = "discard-authorized"
    BY <1>3, Proven DEF ProveDiscard
  <2>2. r \in default.contains
    BY <1>3 DEF ProveDiscard, GitInv, GitShape
  <2>3. Sound(r, c, kept[r], default)
    BY <2>1, <2>2 DEF Sound, BeforeProof
  <2>4. QED
    BY <1>3, <2>1, <2>3, SavedOnly DEF ProveDiscard
<1>4. QED
  BY <1>1, <1>2, <1>3

(* A quarantine is made once, of the edits the inventory knows of. *)
LEMMA QuarantineKeeps ==
    ASSUME GitInv, NEW r \in Resources, QuarantineCandidate(r)
    PROVE  GitInv'
<1>1. PICK saved \in BOOLEAN, ref \in BOOLEAN :
        /\ saved => ref
        /\ kept' = [kept EXCEPT ![r] = [directory |-> TRUE, ref |-> ref,
                                        edits |-> tree[r].edits]]
        /\ Prove(r, "quarantined", "none", saved)
  BY DEF QuarantineCandidate
<1>2. PICK k : k = [directory |-> TRUE, ref |-> ref, edits |-> tree[r].edits]
  OBVIOUS
<1>3. /\ UNCHANGED <<default, tree, branch, staging, lease>>
      /\ ~kept[r].directory /\ CriticalInventoryCurrent(r)
  BY DEF QuarantineCandidate
<1>4. /\ DOMAIN kept' = Resources /\ kept'[r] = k
      /\ \A s \in Resources \ {r} : kept'[s] = kept[s]
  BY <1>1, <1>2 DEF GitInv, GitShape
<1>5. /\ k.directory /\ k.ref = ref /\ k.edits = tree[r].edits
      /\ k.edits \in Nat
  BY <1>2 DEF GitInv, GitShape, TreeOk
<1>6. /\ DOMAIN cleanup' = Resources
      /\ Sound(r, cleanup'[r], k, default)
      /\ \A s \in Resources \ {r} : cleanup'[s] = cleanup[s]
  <2>1. CASE saved
    <3>1. PICK c : /\ c = cleanup'[r]
                   /\ cleanup' = [cleanup EXCEPT ![r] = c]
                   /\ DOMAIN c = CleanupFields
                   /\ c.state = "candidate-disposition-proven"
                   /\ c.disposition = "quarantined"
                   /\ c.inventory = cleanup[r].inventory
      BY <1>1, <2>1, Proven
    <3>2. c.inventory.dirty = (k.edits > 0)
      BY <1>3, <1>5, <3>1 DEF CriticalInventoryCurrent
    <3>3. Sound(r, c, k, default)
      BY <1>1, <1>5, <2>1, <3>1, <3>2 DEF Sound, BeforeProof
    <3>4. QED
      BY <3>1, <3>3 DEF GitInv, GitShape
  <2>2. CASE ~saved
    <3>1. cleanup' = cleanup
      BY <1>1, <2>2 DEF Prove
    <3>2. Sound(r, cleanup[r], kept[r], default)
      BY DEF GitInv, CleanupSound
    <3>3. Sound(r, cleanup[r], k, default)
      BY <1>3, <3>2 DEF Sound
    <3>4. QED
      BY <3>1, <3>3 DEF GitInv, GitShape
  <2>3. QED
    BY <2>1, <2>2
<1>7. CleanupSound'
  <2>1. SUFFICES ASSUME NEW s \in Resources
                 PROVE  Sound(s, cleanup'[s], kept'[s], default)
    BY <1>3 DEF CleanupSound
  <2>2. CASE s = r
    BY <1>4, <1>6, <2>2
  <2>3. CASE s # r
    BY <1>4, <1>6, <2>3 DEF GitInv, CleanupSound
  <2>4. QED
    BY <2>2, <2>3
<1>8. GitShape'
  BY <1>3, <1>4, <1>5, <1>6 DEF GitInv, GitShape
<1>9. tree[r].present
  BY <1>3 DEF CriticalInventoryCurrent
<1>10. TreesCopied'
  BY <1>3, <1>4, <1>9 DEF GitInv, TreesCopied, Copied
<1>11. LeaseInv'
  BY <1>3 DEF GitInv, LeaseInv, LeaseOutlivesResource
<1>12. branch[r] # "gone"
  BY <1>3 DEF CriticalInventoryCurrent
<1>13. \A s \in Resources : Here(s) => Here(s)'
  BY <1>3, <1>4, <1>12 DEF Here
<1>14. (\A s \in Resources : Found(s))'
  BY <1>13, StaysFound DEF GitInv
<1>15. QED
  BY <1>7, <1>8, <1>10, <1>11, <1>14 DEF GitInv

LEMMA StoppedKeeps ==
    ASSUME GitInv, NEW r \in Resources, ConfirmStopped(r)
    PROVE  GitInv'
<1>1. CleanupSound' /\ DOMAIN cleanup' = Resources
  BY Advanced DEF ConfirmStopped, At, BeforeProof
<1>2. QED
  BY <1>1, StaysFound DEF ConfirmStopped, GitInv, GitShape, Here,
     TreesCopied, LeaseInv, LeaseOutlivesResource

(* A worktree is removed as the inventory saw it: without edits, or after a     *)
(* copy of them was made.                                                       *)
LEMMA RemovalKeeps ==
    ASSUME GitInv, NEW r \in Resources, RemoveWorktree(r)
    PROVE  GitInv'
<1>1. PICK saved \in BOOLEAN : Advance(r, "worktree-removed", saved)
  BY DEF RemoveWorktree
<1>2. UNCHANGED <<default, branch, staging, kept, lease>>
  BY DEF RemoveWorktree
<1>3. CleanupSound' /\ DOMAIN cleanup' = Resources
  BY <1>1, <1>2, Advanced DEF RemoveWorktree, At, BeforeProof
<1>4. PICK t : t = [tree[r] EXCEPT !.present = FALSE]
  OBVIOUS
<1>5. tree' = [tree EXCEPT ![r] = t]
  BY <1>4 DEF RemoveWorktree
<1>6. /\ DOMAIN tree' = Resources /\ tree'[r] = t
      /\ \A s \in Resources \ {r} : tree'[s] = tree[s]
  BY <1>5 DEF GitInv, GitShape
<1>7. /\ TreeOk(t) /\ ~t.present /\ t.edits = tree[r].edits
      /\ t.process = tree[r].process
  BY <1>4 DEF GitInv, GitShape, TreeOk
<1>8. GitShape'
  BY <1>2, <1>3, <1>6, <1>7 DEF GitInv, GitShape
<1>9. Copied(t, kept[r])
  <2>1. Sound(r, cleanup[r], kept[r], default)
    BY DEF GitInv, CleanupSound
  <2>2. CASE tree[r].edits = 0
    BY <1>7, <2>2 DEF Copied
  <2>3. CASE QuarantineVerified(r)
    <3>1. (t.edits > 0) = (kept[r].edits > 0)
      BY <1>7, <2>1, <2>3 DEF QuarantineVerified, Sound, RemoveWorktree,
         CriticalInventoryCurrent
    <3>2. t.edits \in Nat
      BY <1>7 DEF TreeOk
    <3>3. QED
      BY <3>1, <3>2 DEF Copied
  <2>4. QED
    BY <2>2, <2>3 DEF RemoveWorktree, RemovalAllowed
<1>10. TreesCopied'
  BY <1>2, <1>6, <1>9 DEF GitInv, TreesCopied, Copied
<1>11. LeaseInv'
  BY <1>2, <1>6, <1>7 DEF GitInv, LeaseInv, LeaseOutlivesResource
<1>12. (\A s \in Resources : Found(s))'
  BY <1>2, StaysFound DEF GitInv, Here
<1>13. QED
  BY <1>3, <1>8, <1>10, <1>11, <1>12 DEF GitInv

(* A branch goes when its disposition says where else the candidate is: in the  *)
(* default branch, under its quarantine ref, or within another candidate.       *)
LEMMA RetirementKeeps ==
    ASSUME GitInv, NEW r \in Resources, RetireLocalRef(r)
    PROVE  GitInv'
<1>1. PICK saved \in BOOLEAN :
        Advance(r, IF cleanup[r].disposition = "quarantined"
                   THEN "quarantined" ELSE "local-ref-retired", saved)
  BY DEF RetireLocalRef
<1>2. /\ UNCHANGED <<default, tree, staging, kept, lease>>
      /\ branch' = [branch EXCEPT ![r] = "gone"]
      /\ cleanup[r].state = "worktree-removed"
  BY DEF RetireLocalRef, At
<1>3. PICK state : state = IF cleanup[r].disposition = "quarantined"
                           THEN "quarantined" ELSE "local-ref-retired"
  OBVIOUS
<1>4. Advance(r, state, saved) /\ state \notin BeforeProof
  BY <1>1, <1>3 DEF BeforeProof
<1>5. CleanupSound' /\ DOMAIN cleanup' = Resources
  BY <1>2, <1>4, Advanced DEF BeforeProof
<1>6. /\ DOMAIN branch' = Resources /\ branch'[r] = "gone"
      /\ \A s \in Resources \ {r} : branch'[s] = branch[s]
  BY <1>2 DEF GitInv, GitShape
<1>7. GitShape'
  BY <1>2, <1>5, <1>6 DEF GitInv, GitShape
<1>8. TreesCopied'
  BY <1>2 DEF GitInv, TreesCopied
<1>9. LeaseInv'
  BY <1>2, <1>6 DEF GitInv, LeaseInv, LeaseOutlivesResource
<1>10. \A s \in Resources \ {r} : Here(s) => Here(s)'
  BY <1>2, <1>6 DEF Here
<1>11. Sound(r, cleanup[r], kept[r], default)
  BY DEF GitInv, CleanupSound
<1>12. (\A s \in Resources : Found(s))'
  <2>1. CASE cleanup[r].disposition = "superseded"
    BY <1>10, <1>11, <2>1, SupersededFound DEF Sound, GitInv
  <2>2. CASE cleanup[r].disposition # "superseded"
    <3>1. RetirementProven(r)
      BY DEF RetireLocalRef
    <3>2. cleanup[r].disposition # "none"
      BY <1>2, <1>11 DEF Sound, BeforeProof
    <3>3. r \in default.contains \cup default.patches \/ kept[r].ref
      <4>1. CASE cleanup[r].disposition = "landed"
        BY <1>11, <3>1, <4>1 DEF RetirementProven, Sound
      <4>2. CASE cleanup[r].disposition = "quarantined"
        BY <1>11, <4>2 DEF Sound
      <4>3. CASE cleanup[r].disposition = "discard-authorized"
        BY <1>11, <4>3 DEF Sound
      <4>4. QED
        BY <1>11, <2>2, <3>2, <4>1, <4>2, <4>3 DEF Sound
    <3>4. Here(r)'
      BY <1>2, <3>3 DEF Here
    <3>5. QED
      BY <1>10, <3>4, StaysFound DEF GitInv
  <2>3. QED
    BY <2>1, <2>2
<1>13. QED
  BY <1>5, <1>7, <1>8, <1>9, <1>12 DEF GitInv

LEMMA RemoteKeeps ==
    ASSUME GitInv, NEW r \in Resources, CleanupRemoteRef(r)
    PROVE  GitInv'
<1>1. PICK saved \in BOOLEAN : cleanup' = [cleanup EXCEPT ![r].remoteCleaned = saved]
  BY DEF CleanupRemoteRef
<1>2. /\ UNCHANGED <<default, tree, branch, kept, lease>>
      /\ staging' = [staging EXCEPT ![r] = "gone"]
  BY DEF CleanupRemoteRef
<1>3. PICK c : c = [cleanup[r] EXCEPT !.remoteCleaned = saved]
  OBVIOUS
<1>4. Sound(r, cleanup[r], kept[r], default)
  BY DEF GitInv, CleanupSound
<1>5. /\ DOMAIN c = CleanupFields /\ c.state = cleanup[r].state
      /\ c.disposition = cleanup[r].disposition
      /\ c.mapping = cleanup[r].mapping /\ c.inventory = cleanup[r].inventory
  BY <1>3, <1>4 DEF Sound, CleanupFields
<1>6. Sound(r, c, kept[r], default)
  BY <1>4, <1>5 DEF Sound
<1>7. cleanup' = [cleanup EXCEPT ![r] = c]
  BY <1>1, <1>3
<1>8. CleanupSound'
  BY <1>2, <1>6, <1>7, SoundStep
<1>9. GitShape'
  BY <1>2, <1>7 DEF GitInv, GitShape
<1>10. LeaseInv'
  BY <1>2 DEF GitInv, GitShape, LeaseInv, LeaseOutlivesResource
<1>11. TreesCopied'
  BY <1>2 DEF GitInv, TreesCopied
<1>12. (\A s \in Resources : Found(s))'
  BY <1>2, StaysFound DEF GitInv, Here
<1>13. QED
  BY <1>8, <1>9, <1>10, <1>11, <1>12 DEF GitInv

(* The lease goes last. *)
LEMMA ReleaseKeeps ==
    ASSUME GitInv, NEW r \in Resources, ReleaseLeaseAndSlot(r) \/ VerifyCleanup(r)
    PROVE  GitInv'
<1>1. CASE ReleaseLeaseAndSlot(r)
  <2>1. PICK saved \in BOOLEAN : Advance(r, "lease-and-slot-released", saved)
    BY <1>1 DEF ReleaseLeaseAndSlot
  <2>2. /\ UNCHANGED <<default, tree, branch, staging, kept>>
        /\ lease' = [lease EXCEPT ![r] = FALSE]
        /\ cleanup[r].state \in {"local-ref-retired", "quarantined"}
    BY <1>1 DEF ReleaseLeaseAndSlot, LocalRefRetired, At
  <2>3. CleanupSound' /\ DOMAIN cleanup' = Resources
    BY <2>1, <2>2, Advanced DEF BeforeProof
  <2>4. /\ ~tree[r].present /\ ~tree[r].process
        /\ branch[r] = "gone" /\ staging[r] = "gone"
    BY <1>1 DEF ReleaseLeaseAndSlot, PhysicallyRetired, GitInv, LeaseInv
  <2>5. GitShape'
    BY <2>2, <2>3 DEF GitInv, GitShape
  <2>6. LeaseInv'
    BY <2>2, <2>4 DEF GitInv, GitShape, LeaseInv, LeaseOutlivesResource
  <2>7. TreesCopied'
    BY <2>2 DEF GitInv, TreesCopied
  <2>8. (\A s \in Resources : Found(s))'
    BY <2>2, StaysFound DEF GitInv, Here
  <2>9. QED
    BY <2>3, <2>5, <2>6, <2>7, <2>8 DEF GitInv
<1>2. CASE VerifyCleanup(r)
  <2>1. CleanupSound' /\ DOMAIN cleanup' = Resources
    BY <1>2, Advanced DEF VerifyCleanup, BeforeProof
  <2>2. QED
    BY <1>2, <2>1, StaysFound DEF VerifyCleanup, GitInv, GitShape, Here,
       TreesCopied, LeaseInv, LeaseOutlivesResource
<1>3. QED
  BY <1>1, <1>2

-----------------------------------------------------------------------------
(* The steps of the others. *)

(* The worktree of r changes, and it was not removed before. *)
LEMMA TreeKeeps ==
    ASSUME GitInv, NEW r \in Resources,
           WriterEdits(r) \/ WriterCommits(r) \/ ProcessExits(r)
    PROVE  GitInv'
<1>1. UNCHANGED <<default, staging, kept, lease, cleanup>>
  BY DEF WriterEdits, WriterCommits, ProcessExits
<1>2. PICK t : t = tree'[r]
  OBVIOUS
<1>3. /\ DOMAIN tree' = Resources /\ TreeOk(t)
      /\ \A s \in Resources \ {r} : tree'[s] = tree[s]
      /\ t.present = tree[r].present
      /\ ~t.present => t.edits = tree[r].edits
      /\ ~tree[r].process => ~t.process
  <2>1. DOMAIN tree = Resources /\ TreeOk(tree[r])
    BY DEF GitInv, GitShape
  <2>2. CASE WriterEdits(r)
    <3>1. PICK e \in Nat : e = tree[r].edits + 1
      BY <2>1 DEF TreeOk
    <3>2. tree' = [tree EXCEPT ![r].edits = e] /\ tree[r].present
      BY <2>2, <3>1 DEF WriterEdits
    <3>3. QED
      BY <1>2, <2>1, <3>1, <3>2 DEF TreeOk
  <2>3. CASE WriterCommits(r)
    BY <1>2, <2>1, <2>3 DEF WriterCommits, TreeOk
  <2>4. CASE ProcessExits(r)
    BY <1>2, <2>1, <2>4 DEF ProcessExits, TreeOk
  <2>5. QED
    BY <2>2, <2>3, <2>4
<1>4. /\ DOMAIN branch' = Resources
      /\ \A s \in Resources :
           branch'[s] = branch[s] \/ (tree[s].present /\ branch'[s] # "gone")
  <2>1. DOMAIN branch = Resources
    BY DEF GitInv, GitShape
  <2>2. CASE WriterCommits(r)
    <3>1. branch' = [branch EXCEPT ![r] = "moved"] /\ tree[r].present
      BY <2>2 DEF WriterCommits
    <3>2. QED
      BY <2>1, <3>1
  <2>3. CASE WriterEdits(r) \/ ProcessExits(r)
    <3>1. branch' = branch
      BY <2>3 DEF WriterEdits, ProcessExits
    <3>2. QED
      BY <2>1, <3>1
  <2>4. QED
    BY <2>2, <2>3
<1>5. GitShape'
  BY <1>1, <1>2, <1>3, <1>4 DEF GitInv, GitShape
<1>6. CleanupSound'
  BY <1>1 DEF GitInv, CleanupSound
<1>7. TreesCopied'
  BY <1>1, <1>2, <1>3 DEF GitInv, TreesCopied, Copied
<1>8. LeaseInv'
  BY <1>1, <1>2, <1>3, <1>4 DEF GitInv, LeaseInv, LeaseOutlivesResource
<1>9. \A s \in Resources : Here(s) => Here(s)'
  BY <1>1, <1>4 DEF Here
<1>10. (\A s \in Resources : Found(s))'
  BY <1>9, StaysFound DEF GitInv
<1>11. QED
  BY <1>5, <1>6, <1>7, <1>8, <1>10 DEF GitInv

LEMMA StagingKeeps ==
    ASSUME GitInv, NEW r \in Resources, StagingMoves(r)
    PROVE  GitInv'
<1>1. GitShape' /\ CleanupSound' /\ TreesCopied'
  BY DEF StagingMoves, GitInv, GitShape, CleanupSound, TreesCopied
<1>2. LeaseInv'
  BY DEF StagingMoves, GitInv, GitShape, LeaseInv, LeaseOutlivesResource
<1>3. (\A s \in Resources : Found(s))'
  BY StaysFound DEF StagingMoves, GitInv, Here
<1>4. QED
  BY <1>1, <1>2, <1>3 DEF GitInv

(* The default branch only grows. *)
LEMMA LandingKeeps ==
    ASSUME GitInv, NEW r \in Resources, LandByMerge(r) \/ LandAsPatch(r)
    PROVE  GitInv'
<1>1. UNCHANGED <<tree, branch, staging, kept, lease, cleanup>>
  BY DEF LandByMerge, LandAsPatch
<1>2. PICK d : d = default'
  OBVIOUS
<1>3. /\ DOMAIN d = {"head", "contains", "patches", "last"}
      /\ default.contains \subseteq d.contains
      /\ default.patches \subseteq d.patches
      /\ d.last \subseteq d.patches
  <2>1. CASE LandByMerge(r)
    BY <1>2, <2>1 DEF LandByMerge
  <2>2. CASE LandAsPatch(r)
    BY <1>2, <2>2 DEF LandAsPatch, GitInv, GitShape
  <2>3. QED
    BY <2>1, <2>2
<1>4. GitShape'
  BY <1>1, <1>2, <1>3 DEF GitInv, GitShape
<1>5. CleanupSound'
  <2>1. SUFFICES ASSUME NEW s \in Resources PROVE Sound(s, cleanup[s], kept[s], d)
    BY <1>1, <1>2 DEF CleanupSound
  <2>2. QED
    BY <1>3 DEF GitInv, CleanupSound, Sound
<1>6. TreesCopied' /\ LeaseInv'
  BY <1>1 DEF GitInv, TreesCopied, LeaseInv, LeaseOutlivesResource
<1>7. (\A s \in Resources : Found(s))'
  BY <1>1, <1>2, <1>3, StaysFound DEF GitInv, Here
<1>8. QED
  BY <1>4, <1>5, <1>6, <1>7 DEF GitInv

LEMMA NextSound == GitInv /\ [GitNext]_gitVars => GitInv'
<1>1. SUFFICES ASSUME GitInv, [GitNext]_gitVars PROVE GitInv'
  OBVIOUS
<1>2. CASE GitTakeover \/ UNCHANGED gitVars
  <2>1. UNCHANGED <<default, tree, branch, staging, kept, lease, cleanup>>
    BY <1>2 DEF GitTakeover, gitVars
  <2>2. QED
    BY <1>1, <2>1, StaysFound DEF GitInv, GitShape, CleanupSound, Here,
       TreesCopied, LeaseInv, LeaseOutlivesResource
<1>3. ASSUME NEW r \in Resources,
             \/ CreateCleanup(r) \/ FreezeResource(r) \/ InventoryResource(r)
             \/ ProveLanded(r) \/ ProveSuperseded(r) \/ ProveDiscard(r)
             \/ QuarantineCandidate(r) \/ ConfirmStopped(r) \/ RemoveWorktree(r)
      PROVE  GitInv'
  BY <1>1, <1>3, BeforeKeeps, ProofKeeps, QuarantineKeeps, StoppedKeeps, RemovalKeeps
<1>4. ASSUME NEW r \in Resources,
             \/ RetireLocalRef(r) \/ CleanupRemoteRef(r)
             \/ ReleaseLeaseAndSlot(r) \/ VerifyCleanup(r)
             \/ WriterEdits(r) \/ WriterCommits(r) \/ ProcessExits(r)
             \/ StagingMoves(r) \/ LandByMerge(r) \/ LandAsPatch(r)
      PROVE  GitInv'
  BY <1>1, <1>4, RetirementKeeps, RemoteKeeps, ReleaseKeeps, TreeKeeps, StagingKeeps,
     LandingKeeps
<1>5. QED
  BY <1>1, <1>2, <1>3, <1>4 DEF GitNext

(* The invariant of the cleanup, at every step. *)
LEMMA GitAlwaysSound == GitSpec => []GitInv
<1>1. QED
  BY InitSound, NextSound, PTL DEF GitSpec

-----------------------------------------------------------------------------

(* No commit of a candidate and no edit of a worktree is lost, for any number   *)
(* of cleanups, roots and pushes: what proveCandidateDisposition proved still   *)
(* holds when removeGitWorktree and retireGitLocalRef act on it.                *)
THEOREM CandidatesKept == GitSpec => []CandidateNotLost
<1>1. GitInv => CandidateNotLost
  BY DEF GitInv, TreesCopied, Copied, CandidateNotLost
<1>2. QED
  BY <1>1, GitAlwaysSound, PTL

(* The lease is released after worktree, process, branch and staging ref are    *)
(* gone, and none of them comes back (releaseGitResourceLeaseAndSlot).          *)
THEOREM LeaseReleasedLast == GitSpec => []LeaseOutlivesResource
<1>1. GitInv => LeaseOutlivesResource
  BY DEF GitInv, LeaseInv
<1>2. QED
  BY <1>1, GitAlwaysSound, PTL

-----------------------------------------------------------------------------
(***************************************************************************)
(* A theorem about the resources an attempt leaves on the machine, for any *)
(* number of self-tests that fail.                                         *)
(***************************************************************************)

(* Nothing of the attempt is left on the machine. *)
Gone == real \cap OwnResources = {} /\ holder # "attempt"

ResourceInv ==
    /\ "slotHeld" \in DOMAIN registry
    /\ receipts # {} => Gone
    /\ ~registry.slotHeld => Gone

(* What is gone stays gone: nothing brings back a resource of the attempt. *)
LEMMA GoneStays ==
    ASSUME ResourceNext
    PROVE  Gone => Gone'
<1> SUFFICES ASSUME Gone PROVE Gone'
  OBVIOUS
<1>1. real' \subseteq real /\ (holder' = "attempt" => holder = "attempt")
  <2>1. ASSUME NEW groupCleanup, CleanupAttempt(groupCleanup)
        PROVE  real' \subseteq real /\ (holder' = "attempt" => holder = "attempt")
    BY <2>1 DEF CleanupAttempt
  <2>2. CASE \A groupCleanup : ~CleanupAttempt(groupCleanup)
    BY <2>2 DEF ResourceNext, CleanupRefused, SelfTestFailed, CleanupStarted, SelfTestGreen,
       VerificationRejected, ServiceReplaced, LeaderExited, SlotReleaseRequested, RetryStarted,
       DirtyWorktree, MemberCleanup, GroupCleanup, Changed, GitCleanupVerified,
       DefaultBranchMoves, ProcessesExit, ForeignTakesPort, ForeignLeavesPort
  <2>3. QED
    BY <2>1, <2>2
<1>2. QED
  BY <1>1 DEF Gone

(* Steps that neither seal a receipt nor give up the slot. *)
LEMMA HeldKeeps ==
    ASSUME ResourceInv, ResourceNext, receipts' = receipts,
           "slotHeld" \in DOMAIN registry', ~registry'.slotHeld => ~registry.slotHeld
    PROVE  ResourceInv'
BY GoneStays DEF ResourceInv

LEMMA CleanupKeeps ==
    ASSUME ResourceInv, ResourceNext, NEW groupCleanup \in BOOLEAN,
           CleanupAttempt(groupCleanup)
    PROVE  ResourceInv'
<1> DEFINE targets == Targets(groupCleanup)
<1>1. PICK survivors \in Survivors(targets) :
          LET failed == CleanupFailures(targets, survivors)
          IN /\ real' = real \ (targets \ failed)
             /\ holder' = IF holder = "attempt" /\ "process-group" \notin survivors
                          THEN "nobody" ELSE holder
             /\ RecordCleanup(targets, failed)
  BY DEF CleanupAttempt
<1> DEFINE failed == CleanupFailures(targets, survivors)
<1>2. OwnResources \subseteq targets
  BY DEF Targets
<1>3. survivors \subseteq failed
  BY DEF CleanupFailures
<1>4. CASE failed = {}
  <2>1. Gone'
    BY <1>1, <1>2, <1>3, <1>4 DEF Gone
  <2>2. "slotHeld" \in DOMAIN registry'
    <3>1. \E m, p, a : registry' = [registry EXCEPT
            !.state = m, !.writeLease = "released", !.slotHeld = FALSE,
            !.phase = p, !.authorized = a]
      BY <1>1, <1>4 DEF RecordCleanup
    <3>2. QED
      BY <3>1 DEF ResourceInv
  <2>3. QED
    BY <2>1, <2>2 DEF ResourceInv
<1>5. CASE failed # {}
  <2>1. receipts' = receipts /\ \E m : registry' = [registry EXCEPT !.state = m,
                                                                    !.authorized = FALSE]
    BY <1>1, <1>5 DEF RecordCleanup
  <2>2. "slotHeld" \in DOMAIN registry' /\ registry'.slotHeld = registry.slotHeld
    BY <2>1 DEF ResourceInv
  <2>3. QED
    BY <2>1, <2>2, HeldKeeps
<1>6. QED
  BY <1>4, <1>5

LEMMA ResourceNextKeeps ==
    ASSUME ResourceInv, [ResourceNext]_resourceVars
    PROVE  ResourceInv'
<1>1. CASE UNCHANGED resourceVars
  BY <1>1 DEF resourceVars, ResourceInv, Gone
<1>2. ASSUME ResourceNext, NEW groupCleanup \in BOOLEAN, CleanupAttempt(groupCleanup)
      PROVE  ResourceInv'
  BY <1>2, CleanupKeeps
<1>3. ASSUME ResourceNext, SlotReleaseRequested
      PROVE  ResourceInv'
  <2>1. /\ receipts # {} /\ receipts' = receipts
        /\ \E p : registry' = [registry EXCEPT !.slotHeld = FALSE,
                                 !.writeLease = "released", !.phase = p]
    BY <1>3 DEF SlotReleaseRequested, Changed
  <2>2. "slotHeld" \in DOMAIN registry' /\ Gone
    BY <2>1 DEF ResourceInv
  <2>3. QED
    BY <1>3, <2>1, <2>2, GoneStays DEF ResourceInv
<1>4. ASSUME ResourceNext, ~SlotReleaseRequested,
             \A groupCleanup \in BOOLEAN : ~CleanupAttempt(groupCleanup)
      PROVE  ResourceInv'
  <2>1. receipts' = receipts
    BY <1>4 DEF ResourceNext, CleanupRefused, SelfTestFailed, CleanupStarted, SelfTestGreen,
       VerificationRejected, ServiceReplaced, LeaderExited, RetryStarted,
       DirtyWorktree, MemberCleanup, GroupCleanup, Changed, GitCleanupVerified,
       DefaultBranchMoves, ProcessesExit, ForeignTakesPort, ForeignLeavesPort
  <2>2. \/ registry' = registry
        \/ \E v : registry' \in {[registry EXCEPT !.authorized = v],
                                 [registry EXCEPT !.selfTests = v],
                                 [registry EXCEPT !.phase = v],
                                 [registry EXCEPT !.retry = v],
                                 [registry EXCEPT !.state = v]}
        \/ registry' = [registry EXCEPT !.writeLease = "revoked", !.readLease = TRUE,
                                        !.phase = "independent-verifying"]
        \/ registry' = [registry EXCEPT !.writeLease = "active", !.readLease = FALSE,
                                        !.phase = "implementing-self-testing"]
        \/ \E r : registry' \in {[registry EXCEPT !.state[r] = "active"],
                                 [registry EXCEPT !.state[r] = "leader-exited-unverified"]}
        \/ registry' = [registry EXCEPT !.phase = "quarantined-dirty", !.slotHeld = TRUE,
                                        !.authorized = FALSE]
    BY <1>4 DEF ResourceNext, CleanupRefused, SelfTestFailed, CleanupStarted, SelfTestGreen,
       VerificationRejected, ServiceReplaced, LeaderExited, RetryStarted,
       DirtyWorktree, MemberCleanup, GroupCleanup, Changed, GitCleanupVerified,
       DefaultBranchMoves, ProcessesExit, ForeignTakesPort, ForeignLeavesPort
  <2>3. "slotHeld" \in DOMAIN registry' /\ (~registry'.slotHeld => ~registry.slotHeld)
    BY <2>2 DEF ResourceInv
  <2>4. QED
    BY <1>4, <2>1, <2>3, HeldKeeps
<1>5. QED
  BY <1>1, <1>2, <1>3, <1>4

(* cleanupAttemptResources and applyResourceEvent: the slot of an attempt is given *)
(* up only when every resource of its own is gone from the machine, and nothing   *)
(* comes back later: through self-tests, a cleanup that leaves survivors, retries *)
(* and a dirty worktree, however many self-tests fail.                            *)
THEOREM SlotFreedAfterAttempt == ResourceSpec => []SlotFreedWhenGone
<1>1. ResourceInit => ResourceInv
  BY DEF ResourceInit, ResourceInv
<1>2. ResourceInv => SlotFreedWhenGone
  BY DEF ResourceInv, SlotFreedWhenGone, Gone
<1>3. QED
  BY <1>1, <1>2, ResourceNextKeeps, PTL DEF ResourceSpec

-----------------------------------------------------------------------------
(***************************************************************************)
(* Theorems about the end of a run, for every set of issues.               *)
(***************************************************************************)

NodeStates ==
    {"open", "active", "green", "cleaning", "closing", "closed", "terminal"}

\* The effects of an issue, against the epoch of its node: those a node went
\* through are of its own epoch, for only one epoch of an issue is delivered.
EffectsOf(n, c) ==
    /\ n.state \in {"cleaning", "closing", "closed"} => c.delivery = n.epoch
    /\ n.state \in {"closing", "closed"} => c.cleanup = n.epoch
    /\ c.closure # 0 => c.closure = c.delivery

LedgerShape ==
    /\ issueNodes \in [TargetIssues ->
         [epoch : Nat \ {0}, state : NodeStates, retained : BOOLEAN]]
    /\ chain \in [TargetIssues -> [delivery : Nat, cleanup : Nat, closure : Nat]]
    /\ \A i \in TargetIssues : EffectsOf(issueNodes[i], chain[i])

CheckoutShape == checkout \in [head : {"expected", "other"}, dirty : BOOLEAN]

FinalFields ==
    {"step", "current", "nodes", "chain", "remote", "inventory", "git", "processes"}

FinalShape(f) == DOMAIN f = FinalFields

Projecting == {"observing", "observed", "collected"}

\* While the action set is current, the ledger is the one it projected; an
\* observer is only asked on when every node has a disposition.
Faithful(f, nodes, effects) ==
    /\ f.step \in Projecting /\ f.current => f.nodes = nodes /\ f.chain = effects
    /\ f.step \in {"observed", "collected"} =>
         \A i \in TargetIssues : Disposition(f, i) # "refused"
    /\ f.step = "collected" =>
         /\ f.git = [head |-> f.git.head, dirty |-> f.git.dirty,
                     worktrees |-> f.git.worktrees]
         /\ f.git.dirty \in BOOLEAN

FinalInv ==
    /\ LedgerShape
    /\ CheckoutShape
    /\ terminal \in BOOLEAN
    /\ FinalShape(finalization)
    /\ Faithful(finalization, issueNodes, chain)

-----------------------------------------------------------------------------

LEMMA FinalStarts == FinalInit => FinalInv
<1> SUFFICES ASSUME FinalInit PROVE FinalInv
  OBVIOUS
<1>1. LedgerShape
  BY DEF FinalInit, LedgerShape, NodeStates, NewIssueNode, NoChain, EffectsOf
<1>2. CheckoutShape
  BY DEF FinalInit, CheckoutShape
<1>3. FinalShape(finalization) /\ Faithful(finalization, issueNodes, chain)
  BY DEF FinalInit, NoFinalization, FinalShape, FinalFields, Faithful, Projecting
<1>4. terminal \in BOOLEAN
  BY DEF FinalInit
<1>5. QED
  BY <1>1, <1>2, <1>3, <1>4 DEF FinalInv

(* An event that is recorded leaves a finalizer that no longer is current. *)
LEMMA RecordedKeeps ==
    ASSUME FinalInv, Recorded
    PROVE  /\ FinalShape(finalization')
           /\ Faithful(finalization', issueNodes', chain')
<1>1. CASE finalization.step = "none"
  BY <1>1 DEF Recorded, FinalInv, Faithful, Projecting
<1>2. CASE finalization.step # "none"
  <2>1. /\ FinalShape(finalization')
        /\ finalization'.current = FALSE
        /\ finalization'.step = finalization.step
        /\ finalization'.nodes = finalization.nodes
        /\ finalization'.chain = finalization.chain
        /\ finalization'.git = finalization.git
    BY <1>2 DEF Recorded, FinalInv, FinalShape, FinalFields
  <2>2. \A i : Disposition(finalization', i) = Disposition(finalization, i)
    BY <2>1 DEF Disposition
  <2>3. QED
    BY <2>1, <2>2 DEF FinalInv, Faithful
<1>3. QED
  BY <1>1, <1>2

(* What happens to the ledger of one issue. *)
LEMMA LedgerStep ==
    ASSUME LedgerShape, NEW i \in TargetIssues,
           NEW n \in [epoch : Nat \ {0}, state : NodeStates, retained : BOOLEAN],
           NEW c \in [delivery : Nat, cleanup : Nat, closure : Nat],
           EffectsOf(n, c),
           issueNodes' = [issueNodes EXCEPT ![i] = n],
           chain' = [chain EXCEPT ![i] = c]
    PROVE  LedgerShape'
<1>1. \A j \in TargetIssues :
        /\ issueNodes'[j] = IF j = i THEN n ELSE issueNodes[j]
        /\ chain'[j] = IF j = i THEN c ELSE chain[j]
  BY DEF LedgerShape
<1>2. \A j \in TargetIssues : EffectsOf(issueNodes'[j], chain'[j])
  BY <1>1 DEF LedgerShape
<1>3. QED
  BY <1>2 DEF LedgerShape

LEMMA LedgerTurns ==
    ASSUME LedgerShape, NEW i \in TargetIssues, NEW to \in NodeStates,
           NEW from, Step(i, from, to),
           NEW c \in [delivery : Nat, cleanup : Nat, closure : Nat],
           \A n : n.epoch = issueNodes[i].epoch /\ n.state = to => EffectsOf(n, c),
           chain' = [chain EXCEPT ![i] = c]
    PROVE  LedgerShape'
<1> DEFINE n == [epoch |-> issueNodes[i].epoch, state |-> to,
                 retained |-> issueNodes[i].retained]
<1>1. issueNodes[i] \in [epoch : Nat \ {0}, state : NodeStates, retained : BOOLEAN]
  BY DEF LedgerShape
<1>2. n \in [epoch : Nat \ {0}, state : NodeStates, retained : BOOLEAN]
  BY <1>1
<1>3. [issueNodes[i] EXCEPT !.state = to] = n
  BY <1>1
<1>4. issueNodes' = [issueNodes EXCEPT ![i] = n]
  BY <1>3 DEF Step
<1>5. EffectsOf(n, c)
  OBVIOUS
<1> HIDE DEF n
<1>6. QED
  BY <1>2, <1>4, <1>5, LedgerStep

LEMMA ChainIs ==
    ASSUME LedgerShape, NEW i \in TargetIssues
    PROVE  /\ chain[i] \in [delivery : Nat, cleanup : Nat, closure : Nat]
           /\ chain = [chain EXCEPT ![i] = chain[i]]
           /\ issueNodes[i].epoch \in Nat \ {0}
           /\ issueNodes[i].state \in NodeStates
           /\ issueNodes[i].retained \in BOOLEAN
           /\ issueNodes[i] = [epoch |-> issueNodes[i].epoch,
                               state |-> issueNodes[i].state,
                               retained |-> issueNodes[i].retained]
           /\ EffectsOf(issueNodes[i], chain[i])
           /\ \A v : /\ [chain[i] EXCEPT !.delivery = v] =
                          [delivery |-> v, cleanup |-> chain[i].cleanup,
                           closure |-> chain[i].closure]
                     /\ [chain[i] EXCEPT !.cleanup = v] =
                          [delivery |-> chain[i].delivery, cleanup |-> v,
                           closure |-> chain[i].closure]
                     /\ [chain[i] EXCEPT !.closure = v] =
                          [delivery |-> chain[i].delivery,
                           cleanup |-> chain[i].cleanup, closure |-> v]
BY DEF LedgerShape

(* Everything the run loop does to an issue. *)
LEMMA LedgerKeeps ==
    ASSUME LedgerShape, NEW i \in TargetIssues,
           \/ WorkOn(i) \/ TurnGreen(i) \/ DeliverIssue(i) \/ FinalizeCleanup(i)
           \/ CloseIssue(i) \/ CompleteClosure(i) \/ TerminalizeIssue(i)
           \/ TerminalizeRetaining(i) \/ RebindIssue(i)
    PROVE  LedgerShape'
<1> DEFINE c == chain[i]
<1>0. /\ chain[i] \in [delivery : Nat, cleanup : Nat, closure : Nat]
      /\ chain = [chain EXCEPT ![i] = chain[i]]
      /\ EffectsOf(issueNodes[i], chain[i])
      /\ issueNodes[i].epoch \in Nat \ {0}
  BY ChainIs
<1>1. ASSUME NEW from, NEW to \in {"active", "green", "closed", "terminal"},
             Step(i, from, to), UNCHANGED chain,
             to = "closed" => from \in {"closing", "closed"}
      PROVE  LedgerShape'
  <2>1. \A n : n.epoch = issueNodes[i].epoch /\ n.state = to => EffectsOf(n, c)
    BY <1>0, <1>1 DEF EffectsOf, Step
  <2>2. QED
    BY <1>0, <1>1, <2>1, LedgerTurns DEF NodeStates
<1>2. CASE WorkOn(i)
  BY <1>1, <1>2 DEF WorkOn
<1>3. CASE TurnGreen(i)
  BY <1>1, <1>3 DEF TurnGreen
<1>4. CASE CloseIssue(i)
  BY <1>1, <1>4 DEF CloseIssue
<1>5. CASE TerminalizeIssue(i)
  BY <1>1, <1>5 DEF TerminalizeIssue
<1>6. CASE DeliverIssue(i)
  <2> DEFINE d == [delivery |-> issueNodes[i].epoch, cleanup |-> c.cleanup,
                   closure |-> c.closure]
  <2>1. [chain[i] EXCEPT !.delivery = issueNodes[i].epoch] = d
    BY ChainIs
  <2>2. chain' = [chain EXCEPT ![i] = d]
    BY <1>6, <2>1 DEF DeliverIssue
  <2>3. d \in [delivery : Nat, cleanup : Nat, closure : Nat]
    BY <1>0
  <2>4. c.closure = 0
    BY <1>0, <1>6 DEF DeliverIssue, EffectsOf
  <2>5. \A n : n.epoch = issueNodes[i].epoch /\ n.state = "cleaning" => EffectsOf(n, d)
    BY <2>4 DEF EffectsOf
  <2>6. Step(i, "green", "cleaning")
    BY <1>6 DEF DeliverIssue
  <2> HIDE DEF d
  <2>7. QED
    BY <2>2, <2>3, <2>5, <2>6, LedgerTurns DEF NodeStates
<1>7. CASE FinalizeCleanup(i)
  <2> DEFINE d == [delivery |-> c.delivery, cleanup |-> issueNodes[i].epoch,
                   closure |-> c.closure]
  <2>1. [chain[i] EXCEPT !.cleanup = issueNodes[i].epoch] = d
    BY ChainIs
  <2>2. chain' = [chain EXCEPT ![i] = d]
    BY <1>7, <2>1 DEF FinalizeCleanup
  <2>3. d \in [delivery : Nat, cleanup : Nat, closure : Nat]
    BY <1>0
  <2>4. c.delivery = issueNodes[i].epoch
    BY <1>0, <1>7 DEF FinalizeCleanup, Step, EffectsOf
  <2>5. \A n : n.epoch = issueNodes[i].epoch /\ n.state = "closing" => EffectsOf(n, d)
    BY <1>0, <2>4 DEF EffectsOf
  <2>6. Step(i, "cleaning", "closing")
    BY <1>7 DEF FinalizeCleanup
  <2> HIDE DEF d
  <2>7. QED
    BY <2>2, <2>3, <2>5, <2>6, LedgerTurns DEF NodeStates
<1>8. CASE CompleteClosure(i)
  <2> DEFINE d == [delivery |-> c.delivery, cleanup |-> c.cleanup,
                   closure |-> issueNodes[i].epoch]
  <2>1. [chain[i] EXCEPT !.closure = issueNodes[i].epoch] = d
    BY ChainIs
  <2>2. chain' = [chain EXCEPT ![i] = d]
    BY <1>8, <2>1 DEF CompleteClosure
  <2>3. d \in [delivery : Nat, cleanup : Nat, closure : Nat]
    BY <1>0
  <2>4. c.delivery = issueNodes[i].epoch /\ c.cleanup = issueNodes[i].epoch
    BY <1>0, <1>8 DEF CompleteClosure, Step, EffectsOf
  <2>5. \A n : n.epoch = issueNodes[i].epoch /\ n.state = "closed" => EffectsOf(n, d)
    BY <2>4 DEF EffectsOf
  <2>6. Step(i, "closed", "closed")
    BY <1>8 DEF CompleteClosure
  <2> HIDE DEF d
  <2>7. QED
    BY <2>2, <2>3, <2>5, <2>6, LedgerTurns DEF NodeStates
<1>9. CASE TerminalizeRetaining(i)
  <2>1. PICK n : n = [issueNodes[i] EXCEPT !.state = "terminal", !.retained = TRUE]
    OBVIOUS
  <2>2. issueNodes' = [issueNodes EXCEPT ![i] = n] /\ UNCHANGED chain
    BY <1>9, <2>1 DEF TerminalizeRetaining
  <2>3. issueNodes[i] \in [epoch : Nat \ {0}, state : NodeStates, retained : BOOLEAN]
    BY DEF LedgerShape
  <2>4. /\ n \in [epoch : Nat \ {0}, state : NodeStates, retained : BOOLEAN]
        /\ n.epoch = issueNodes[i].epoch /\ n.state = "terminal"
    BY <2>1, <2>3 DEF NodeStates
  <2>5. EffectsOf(n, c)
    BY <1>0, <2>4 DEF EffectsOf
  <2>6. QED
    BY <1>0, <2>2, <2>4, <2>5, LedgerStep
<1>10. CASE RebindIssue(i)
  <2> DEFINE n == NewIssueNode(issueNodes[i].epoch + 1)
  <2>1. issueNodes' = [issueNodes EXCEPT ![i] = n] /\ UNCHANGED chain
    BY <1>10 DEF RebindIssue
  <2>2. EffectsOf(n, c)
    BY <1>0 DEF EffectsOf, NewIssueNode
  <2>3. n \in [epoch : Nat \ {0}, state : NodeStates, retained : BOOLEAN]
    BY <1>0 DEF NodeStates, NewIssueNode
  <2> HIDE DEF n
  <2>4. QED
    BY <1>0, <2>1, <2>2, <2>3, LedgerStep
<1>11. QED
  BY <1>2, <1>3, <1>4, <1>5, <1>6, <1>7, <1>8, <1>9, <1>10

(* Neither people nor processes touch the ledger; the checkout keeps its form. *)
LEMMA WorldKeeps ==
    ASSUME FinalInv, NEW i \in TargetIssues,
           \/ WorkOn(i) \/ TurnGreen(i) \/ DeliverIssue(i) \/ FinalizeCleanup(i)
           \/ CloseIssue(i) \/ CompleteClosure(i) \/ TerminalizeIssue(i)
           \/ TerminalizeRetaining(i) \/ RebindIssue(i)
    PROVE  FinalInv'
<1>1. LedgerShape'
  BY LedgerKeeps DEF FinalInv
<1>2. CheckoutShape'
  <2>1. CASE UNCHANGED checkout
    BY <2>1 DEF FinalInv, CheckoutShape
  <2>2. CASE DeliverIssue(i)
    BY <2>2 DEF DeliverIssue, FinalInv, CheckoutShape
  <2>3. QED
    BY <2>1, <2>2 DEF WorkOn, TurnGreen, FinalizeCleanup, CloseIssue, CompleteClosure,
                      TerminalizeIssue, TerminalizeRetaining, RebindIssue
<1>3. Recorded /\ UNCHANGED terminal
  BY DEF WorkOn, TurnGreen, DeliverIssue, FinalizeCleanup, CloseIssue, CompleteClosure,
         TerminalizeIssue, TerminalizeRetaining, RebindIssue, Step
<1>4. QED
  BY <1>1, <1>2, <1>3, RecordedKeeps DEF FinalInv

(* A step of the finalizer changes nothing but what it holds. *)
LEMMA FinalizerKeeps ==
    ASSUME FinalInv, NEW f, PutFinal(f), FinalShape(f),
           Faithful(f, issueNodes, chain), terminal' \in BOOLEAN
    PROVE  FinalInv'
<1>1. finalization' = f /\ UNCHANGED <<issueNodes, chain, checkout>>
  BY DEF PutFinal
<1>2. LedgerShape' /\ CheckoutShape'
  BY <1>1 DEF FinalInv, LedgerShape, CheckoutShape
<1>3. QED
  BY <1>1, <1>2 DEF FinalInv

LEMMA NothingHeld ==
    FinalShape(NoFinalization) /\ Faithful(NoFinalization, issueNodes, chain)
BY DEF NoFinalization, FinalShape, FinalFields, Faithful, Projecting

LEMMA FinalStep ==
    ASSUME FinalInv,
           PlanFinalization \/ StartFinalization \/ ObserveFacts
             \/ CollectInventory \/ Finalize
    PROVE  FinalInv'
<1> DEFINE f == finalization
<1>0. FinalShape(f) /\ Faithful(f, issueNodes, chain)
  BY DEF FinalInv
<1>1. terminal' \in BOOLEAN
  BY DEF PlanFinalization, StartFinalization, ObserveFacts, CollectInventory, Finalize,
         Await, FinalInv
<1>2. ASSUME PutFinal(NoFinalization) PROVE FinalInv'
  BY <1>2, <1>1, NothingHeld, FinalizerKeeps
<1>3. CASE PlanFinalization
  <2>1. PICK g : g = [f EXCEPT !.step = "planned"]
    OBVIOUS
  <2>2. PutFinal(g)
    BY <1>3, <2>1 DEF PlanFinalization, Await
  <2>3. FinalShape(g) /\ g.step = "planned"
    BY <1>0, <2>1 DEF FinalShape, FinalFields
  <2>4. Faithful(g, issueNodes, chain)
    BY <2>3 DEF Faithful, Projecting
  <2>5. QED
    BY <2>2, <2>3, <2>4, <1>1, FinalizerKeeps
<1>4. CASE StartFinalization
  <2>1. PICK g : g = [f EXCEPT !.step = "observing", !.nodes = issueNodes,
                               !.chain = chain]
    OBVIOUS
  <2>2. PutFinal(g) \/ PutFinal(NoFinalization)
    BY <1>4, <2>1 DEF StartFinalization, Await
  <2>3. /\ FinalShape(g) /\ g.step = "observing"
        /\ g.nodes = issueNodes /\ g.chain = chain
    BY <1>0, <2>1 DEF FinalShape, FinalFields
  <2>4. Faithful(g, issueNodes, chain)
    BY <2>3 DEF Faithful
  <2>5. QED
    BY <1>2, <2>2, <2>3, <2>4, <1>1, FinalizerKeeps
<1>5. CASE ObserveFacts
  <2>1. PICK clean \in InventoryOutcomes :
          \/ /\ \A i \in TargetIssues : Disposition(f, i) # "refused"
             /\ PutFinal([f EXCEPT !.step = "observed", !.remote = remoteIssues,
                                   !.inventory = clean])
          \/ PutFinal(NoFinalization)
    BY <1>5 DEF ObserveFacts, Await
  <2>2. PICK g : g = [f EXCEPT !.step = "observed", !.remote = remoteIssues,
                               !.inventory = clean]
    OBVIOUS
  <2>3. /\ FinalShape(g) /\ g.step = "observed" /\ g.current = f.current
        /\ g.nodes = f.nodes /\ g.chain = f.chain
    BY <1>0, <2>2 DEF FinalShape, FinalFields
  <2>4. f.step = "observing"
    BY <1>5 DEF ObserveFacts
  <2>5. ASSUME \A i \in TargetIssues : Disposition(f, i) # "refused"
        PROVE  Faithful(g, issueNodes, chain)
    <3>1. \A i \in TargetIssues : Disposition(g, i) # "refused"
      BY <2>3, <2>5 DEF Disposition
    <3>2. QED
      BY <1>0, <2>3, <2>4, <3>1 DEF Faithful, Projecting
  <2>6. \/ (\A i \in TargetIssues : Disposition(f, i) # "refused") /\ PutFinal(g)
        \/ PutFinal(NoFinalization)
    BY <2>1, <2>2
  <2>7. QED
    BY <1>2, <2>3, <2>5, <2>6, <1>1, FinalizerKeeps
<1>6. CASE CollectInventory
  <2>1. PICK s : s = [head |-> checkout.head, dirty |-> checkout.dirty,
                      worktrees |-> worktrees]
    OBVIOUS
  <2>2. PICK g : g = [f EXCEPT !.step = "collected", !.git = s,
                               !.processes = ownProcesses]
    OBVIOUS
  <2>3. PutFinal(g) \/ PutFinal(NoFinalization)
    BY <1>6, <2>1, <2>2 DEF CollectInventory, Await
  <2>4. /\ FinalShape(g) /\ g.step = "collected" /\ g.current = f.current
        /\ g.nodes = f.nodes /\ g.chain = f.chain /\ g.git = s
    BY <1>0, <2>2 DEF FinalShape, FinalFields
  <2>5. f.step = "observed"
    BY <1>6 DEF CollectInventory
  <2>6. s = [head |-> s.head, dirty |-> s.dirty, worktrees |-> s.worktrees]
          /\ s.dirty \in BOOLEAN
    BY <2>1 DEF FinalInv, CheckoutShape
  <2>7. \A i \in TargetIssues : Disposition(g, i) # "refused"
    BY <1>0, <2>4, <2>5 DEF Disposition, Faithful
  <2>8. Faithful(g, issueNodes, chain)
    BY <1>0, <2>4, <2>5, <2>6, <2>7 DEF Faithful, Projecting
  <2>9. QED
    BY <1>2, <2>3, <2>4, <2>8, <1>1, FinalizerKeeps
<1>7. CASE Finalize
  BY <1>2, <1>7 DEF Finalize
<1>9. QED
  BY <1>3, <1>4, <1>5, <1>6, <1>7

LEMMA FinalKept == FinalInv /\ [FinalNext]_finalVars => FinalInv'
<1> SUFFICES ASSUME FinalInv, [FinalNext]_finalVars PROVE FinalInv'
  OBVIOUS
<1>1. ASSUME UNCHANGED <<issueNodes, chain, finalization, terminal>>, CheckoutShape'
      PROVE  FinalInv'
  BY <1>1 DEF FinalInv, LedgerShape
<1>2. CASE UNCHANGED finalVars
  BY <1>1, <1>2 DEF finalVars, FinalInv, CheckoutShape
<1>3. ASSUME NEW i \in TargetIssues, RemoteChanges(i) PROVE FinalInv'
  BY <1>1, <1>3 DEF RemoteChanges, FinalInv, CheckoutShape
<1>4. CASE MachineChanges
  BY <1>1, <1>4 DEF MachineChanges, FinalInv, CheckoutShape
<1>5. CASE ChangeRoot
  <2>1. UNCHANGED <<issueNodes, chain, checkout, terminal>> /\ Recorded
    BY <1>5 DEF ChangeRoot
  <2>2. LedgerShape' /\ CheckoutShape'
    BY <2>1 DEF FinalInv, LedgerShape, CheckoutShape
  <2>3. QED
    BY <2>1, <2>2, RecordedKeeps DEF FinalInv
<1>6. QED
  BY <1>2, <1>3, <1>4, <1>5, FinalStep, WorldKeeps DEF FinalNext

-----------------------------------------------------------------------------

(* What a clean inventory of the collector and of the ledger says. *)
LEMMA CleanInventory ==
    ASSUME NEW f, NoViolations(f),
           f.git = [head |-> f.git.head, dirty |-> f.git.dirty,
                    worktrees |-> f.git.worktrees],
           f.git.dirty \in BOOLEAN
    PROVE  /\ f.git = [head |-> "expected", dirty |-> FALSE, worktrees |-> {}]
           /\ ~f.processes
           /\ \A i \in TargetIssues : ~f.nodes[i].retained
<1>1. PICK flagged, expected, left :
        /\ flagged <=> f.git.worktrees # {} \/ f.git.dirty
        /\ expected <=> f.git.head = "expected"
        /\ left <=> f.git.dirty
        /\ GitRecord(f) = [CleanRecord EXCEPT !.flagged = flagged,
                                              !.verified = expected, !.left = left]
  BY DEF GitRecord
<1>2. GitClean(GitRecord(f))
  BY DEF NoViolations, RecordClean
<1>3. f.git.head = "expected" /\ f.git.worktrees = {} /\ ~f.git.dirty
  BY <1>1, <1>2 DEF GitClean, EvidenceClean, CommonClean, CleanRecord
<1>4. RuntimeClean(ProcessRecord(f))
  BY DEF NoViolations, RecordClean
<1>5. ~f.processes
  BY <1>4 DEF RuntimeClean, EvidenceClean, CommonClean, ProcessRecord, CleanRecord
<1>6. ASSUME NEW i \in TargetIssues PROVE ~f.nodes[i].retained
  <2>1. ResourceClean(RetainedRecord(f, i))
    BY DEF NoViolations, RecordClean
  <2>2. QED
    BY <2>1 DEF ResourceClean, EvidenceClean, CommonClean, RetainedRecord, CleanRecord
<1>7. QED
  BY <1>3, <1>5, <1>6

(* run.terminalized is recorded only for a quiescent run: the issues are judged *)
(* as the ledger has them at that step, although the finalizer read it before   *)
(* it waited for the observer and the machine, and every effect of a closed     *)
(* issue is of the epoch its node has (lifecycle-quiescence-finalizer.mjs,      *)
(* recordLifecycleRunTerminalization).                                          *)
THEOREM OnlyQuiescentRunsEnd == FinalSpec => TerminalizesQuiescent
<1>1. ASSUME FinalInv, [FinalNext]_finalVars, terminal' # terminal
      PROVE  /\ \A i \in TargetIssues :
                  \/ /\ issueNodes[i].state = "closed"
                     /\ \A effect \in {"delivery", "cleanup", "closure"} :
                          chain[i][effect] = issueNodes[i].epoch
                     /\ finalization.remote[i] = "completed"
                  \/ issueNodes[i].state = "terminal" /\ ~issueNodes[i].retained
             /\ finalization.git = [head |-> "expected", dirty |-> FALSE, worktrees |-> {}]
             /\ ~finalization.processes
  <2> DEFINE f == finalization
  <2>1. Finalize
    BY <1>1 DEF FinalNext, finalVars, WorkOn, TurnGreen, DeliverIssue, FinalizeCleanup,
         CloseIssue, CompleteClosure, TerminalizeIssue, TerminalizeRetaining,
         RebindIssue, RemoteChanges, ChangeRoot, MachineChanges, PlanFinalization,
         StartFinalization, ObserveFacts, CollectInventory, Await, Step
  <2>2. Terminalizable(f) /\ f.step = "collected"
    BY <1>1, <2>1 DEF Finalize, FinalInv
  <2>3. /\ f.nodes = issueNodes /\ f.chain = chain
        /\ \A i \in TargetIssues : Disposition(f, i) # "refused"
    BY <1>1, <2>2 DEF FinalInv, Faithful, Projecting, Terminalizable, ActionSetCurrent
  <2>4. /\ f.git = [head |-> "expected", dirty |-> FALSE, worktrees |-> {}]
        /\ ~f.processes
        /\ \A i \in TargetIssues : ~f.nodes[i].retained
    BY <1>1, <2>2, CleanInventory DEF FinalInv, Faithful, Terminalizable
  <2>5. ASSUME NEW i \in TargetIssues
        PROVE  \/ /\ issueNodes[i].state = "closed"
                  /\ \A effect \in {"delivery", "cleanup", "closure"} :
                       chain[i][effect] = issueNodes[i].epoch
                  /\ f.remote[i] = "completed"
               \/ issueNodes[i].state = "terminal" /\ ~issueNodes[i].retained
    <3>1. EffectsOf(issueNodes[i], chain[i])
      BY <1>1 DEF FinalInv, LedgerShape
    <3>2. CASE issueNodes[i].state = "terminal"
      BY <2>3, <2>4, <3>2
    <3>3. CASE issueNodes[i].state # "terminal"
      <4>1. /\ issueNodes[i].state = "closed" /\ chain[i].closure # 0
            /\ Disposition(f, i) = "closed"
        BY <2>3, <3>3 DEF Disposition
      <4>2. /\ chain[i].delivery = issueNodes[i].epoch
            /\ chain[i].cleanup = issueNodes[i].epoch
            /\ chain[i].closure = issueNodes[i].epoch
        BY <3>1, <4>1 DEF EffectsOf
      <4>3. f.remote[i] = "completed"
        BY <2>2, <4>1 DEF Terminalizable, RemoteAgrees
      <4>4. QED
        BY <4>1, <4>2, <4>3
    <3>4. QED
      BY <3>2, <3>3
  <2>6. QED
    BY <2>4, <2>5
<1>2. QED
  BY <1>1, FinalStarts, FinalKept, PTL DEF FinalSpec, TerminalizesQuiescent

=============================================================================
