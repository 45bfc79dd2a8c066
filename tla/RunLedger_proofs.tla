-------------------------- MODULE RunLedger_proofs --------------------------
(***************************************************************************)
(* The ledger of a run: who records in it, and what is answered from the   *)
(* cache of its replay.                                                    *)
(***************************************************************************)
EXTENDS RootTakeover, ReplayCache,
        TLAPS

-----------------------------------------------------------------------------
(***************************************************************************)
(* Only the root a run-control ledger is bound to records in it, for any   *)
(* number of roots, authorizations, packages and entries.                  *)
(***************************************************************************)

Ended == {"terminated", "machine-fenced"}
Order == [old : Roots, new : Roots, package : Nat, expires : Nat,
          fenced : BOOLEAN, handoff : BOOLEAN, launched : BOOLEAN, ended : BOOLEAN]
Startup == [status : {"none", "verified", "rejected"},
            phase : {"none", "scheduling", "recovery-takeover"},
            order : Nat, package : Nat]
LedgerEntry == [kind : {"authority", "event"}, root : Roots, order : Nat]

Typed ==
    /\ clock \in Nat /\ package \in Nat
    /\ process \in [Roots -> {"none", "running"} \cup Ended]
    /\ orders \in Seq(Order)
    /\ startups \in [Roots -> Startup]
    /\ runLedger \in Seq(LedgerEntry)
    /\ reading \in [Roots -> Seq(LedgerEntry)]

(* A fenced root has ended. *)
Fencing == \A o \in Orders : orders[o].fenced => process[orders[o].old] \in Ended

(* The attestation of a recovery root names its own fenced authorization. *)
Attested ==
    \A r \in Roots : startups[r].phase = "recovery-takeover" =>
        /\ startups[r].status = "verified"
        /\ startups[r].order \in Orders
        /\ orders[startups[r].order].new = r
        /\ orders[startups[r].order].fenced

(* LedgerEntry j is the last authority among the first i of a ledger. *)
IsLast(L, i, j) ==
    /\ L[j].kind = "authority"
    /\ \A k \in j + 1 .. i : L[k].kind # "authority"

(* Events are of the authority they come after, and authorities of a fenced *)
(* authorization that names the one before.                                 *)
Sound(L, os) ==
    /\ L \in Seq(LedgerEntry) /\ Len(L) >= 1
    /\ \A i \in 1 .. Len(L) : \E j \in 1 .. i : IsLast(L, i, j)
    /\ \A i \in 1 .. Len(L) : L[i].kind = "event" => AuthorityAt(L, i).root = L[i].root
    /\ \A i \in 2 .. Len(L) : L[i].kind = "authority" =>
         /\ L[i].order \in DOMAIN os
         /\ os[L[i].order].old = AuthorityAt(L, i - 1).root
         /\ os[L[i].order].new = L[i].root
         /\ os[L[i].order].fenced

(* What a root has read was sound, and names it or the root it takes over from. *)
Reads ==
    \A r \in Roots : reading[r] # <<>> =>
        /\ startups[r].status = "verified"
        /\ Sound(reading[r], orders)
        /\ Authority(reading[r]).root # r =>
             /\ startups[r].phase = "recovery-takeover"
             /\ orders[startups[r].order].old = Authority(reading[r]).root

TakeoverInv == Typed /\ Fencing /\ Attested /\ Sound(runLedger, orders) /\ Reads

-----------------------------------------------------------------------------
(* Ledgers. *)

LEMMA LastIsAuthority ==
    ASSUME NEW L, NEW i \in Nat, NEW j \in 1 .. i, IsLast(L, i, j)
    PROVE  AuthorityAt(L, i) = L[j]
<1> DEFINE S == {k \in 1 .. i : L[k].kind = "authority"}
<1>1. j \in S /\ \A k \in S : j >= k
  BY DEF IsLast
<1>2. Max(S) \in S /\ \A k \in S : Max(S) >= k
  BY <1>1 DEF Max
<1>3. Max(S) = j
  <2>1. j >= Max(S) /\ Max(S) >= j /\ Max(S) \in Nat /\ j \in Nat
    BY <1>1, <1>2
  <2> HIDE DEF S
  <2>2. QED
    BY <2>1
<1>4. QED
  BY <1>3 DEF AuthorityAt

(* The authority at a place depends on the entries up to there. *)
LEMMA AuthorityKept ==
    ASSUME NEW L, NEW M, NEW i \in Nat, \A k \in 1 .. i : M[k] = L[k],
           \E j \in 1 .. i : IsLast(L, i, j)
    PROVE  /\ AuthorityAt(M, i) = AuthorityAt(L, i)
           /\ \E j \in 1 .. i : IsLast(M, i, j)
<1>1. PICK j \in 1 .. i : IsLast(L, i, j)
  OBVIOUS
<1>2. IsLast(M, i, j)
  BY <1>1 DEF IsLast
<1>3. M[j] = L[j]
  OBVIOUS
<1>4. QED
  BY <1>1, <1>2, <1>3, LastIsAuthority

LEMMA Longer ==
    ASSUME NEW os, NEW L, Sound(L, os), NEW e \in LedgerEntry
    PROVE  /\ Append(L, e) \in Seq(LedgerEntry) /\ Len(Append(L, e)) = Len(L) + 1
           /\ Len(L) \in Nat /\ Len(L) >= 1
           /\ Append(L, e)[Len(L) + 1] = e
           /\ \A i \in 1 .. Len(L) : /\ Append(L, e)[i] = L[i]
                                     /\ AuthorityAt(Append(L, e), i) = AuthorityAt(L, i)
                                     /\ \E j \in 1 .. i : IsLast(Append(L, e), i, j)
<1>1. L \in Seq(LedgerEntry) /\ Len(L) \in Nat /\ Len(L) >= 1
  BY DEF Sound
<1>2. /\ Append(L, e) \in Seq(LedgerEntry) /\ Len(Append(L, e)) = Len(L) + 1
      /\ Append(L, e)[Len(L) + 1] = e
      /\ \A i \in 1 .. Len(L) : Append(L, e)[i] = L[i]
  BY <1>1
<1>3. ASSUME NEW i \in 1 .. Len(L)
      PROVE  /\ AuthorityAt(Append(L, e), i) = AuthorityAt(L, i)
             /\ \E j \in 1 .. i : IsLast(Append(L, e), i, j)
  <2>1. i \in Nat /\ \A k \in 1 .. i : Append(L, e)[k] = L[k]
    BY <1>1, <1>2
  <2>2. \E j \in 1 .. i : IsLast(L, i, j)
    BY DEF Sound
  <2>3. QED
    BY <2>1, <2>2, AuthorityKept
<1>4. QED
  BY <1>1, <1>2, <1>3

LEMMA SoundWithEvent ==
    ASSUME NEW os, NEW L, Sound(L, os), NEW r \in Roots, Authority(L).root = r
    PROVE  Sound(Append(L, EventEntry(r)), os)
<1> DEFINE e == EventEntry(r)
           M == Append(L, e)
           n == Len(L)
<1>1. e \in LedgerEntry /\ e.kind = "event" /\ e.root = r
  BY DEF LedgerEntry, EventEntry
<1>2. /\ M \in Seq(LedgerEntry) /\ Len(M) = n + 1 /\ n \in Nat /\ n >= 1 /\ M[n + 1] = e
      /\ \A i \in 1 .. n : /\ M[i] = L[i] /\ AuthorityAt(M, i) = AuthorityAt(L, i)
                           /\ \E j \in 1 .. i : IsLast(M, i, j)
  BY <1>1, Longer
<1> HIDE DEF e, M, n
<1>3. PICK j \in 1 .. n : IsLast(M, n, j)
  BY <1>2
<1>4. IsLast(M, n + 1, j)
  BY <1>1, <1>2, <1>3 DEF IsLast
<1>5. AuthorityAt(M, n + 1) = M[j] /\ AuthorityAt(M, n) = M[j]
  BY <1>2, <1>3, <1>4, LastIsAuthority
<1>6. AuthorityAt(M, n + 1).root = r
  BY <1>2, <1>5 DEF Authority, n
<1>7. \A i \in 1 .. n + 1 : \E k \in 1 .. i : IsLast(M, i, k)
  BY <1>2, <1>4
<1>8. \A i \in 1 .. n + 1 : M[i].kind = "event" => AuthorityAt(M, i).root = M[i].root
  BY <1>1, <1>2, <1>6 DEF Sound, n
<1>9. ASSUME NEW i \in 2 .. n + 1, M[i].kind = "authority"
      PROVE  /\ M[i].order \in DOMAIN os
             /\ os[M[i].order].old = AuthorityAt(M, i - 1).root
             /\ os[M[i].order].new = M[i].root
             /\ os[M[i].order].fenced
  <2>1. i \in 2 .. n /\ i - 1 \in 1 .. n /\ i \in 1 .. n
    BY <1>1, <1>2, <1>9
  <2>2. M[i] = L[i] /\ AuthorityAt(M, i - 1) = AuthorityAt(L, i - 1)
    BY <1>2, <2>1
  <2>3. QED
    BY <1>9, <2>1, <2>2 DEF Sound, n
<1>10. Sound(M, os)
  BY <1>2, <1>7, <1>8, <1>9 DEF Sound
<1>11. QED
  BY <1>10 DEF M, e

LEMMA SoundWithAuthority ==
    ASSUME NEW os, NEW L, Sound(L, os), NEW r \in Roots, NEW o \in DOMAIN os, o \in Nat,
           os[o].old = Authority(L).root, os[o].new = r, os[o].fenced
    PROVE  Sound(Append(L, AuthorityEntry(r, o)), os)
<1> DEFINE e == AuthorityEntry(r, o)
           M == Append(L, e)
           n == Len(L)
<1>1. e \in LedgerEntry /\ e.kind = "authority" /\ e.root = r /\ e.order = o
  BY DEF LedgerEntry, AuthorityEntry
<1>2. /\ M \in Seq(LedgerEntry) /\ Len(M) = n + 1 /\ n \in Nat /\ n >= 1 /\ M[n + 1] = e
      /\ \A i \in 1 .. n : /\ M[i] = L[i] /\ AuthorityAt(M, i) = AuthorityAt(L, i)
                           /\ \E j \in 1 .. i : IsLast(M, i, j)
  BY <1>1, Longer
<1> HIDE DEF e, M, n
<1>3. IsLast(M, n + 1, n + 1)
  BY <1>1, <1>2 DEF IsLast
<1>4. \A i \in 1 .. n + 1 : \E k \in 1 .. i : IsLast(M, i, k)
  BY <1>2, <1>3
<1>5. \A i \in 1 .. n + 1 : M[i].kind = "event" => AuthorityAt(M, i).root = M[i].root
  BY <1>1, <1>2 DEF Sound, n
<1>6. ASSUME NEW i \in 2 .. n + 1, M[i].kind = "authority"
      PROVE  /\ M[i].order \in DOMAIN os
             /\ os[M[i].order].old = AuthorityAt(M, i - 1).root
             /\ os[M[i].order].new = M[i].root
             /\ os[M[i].order].fenced
  <2>1. CASE i = n + 1
    <3>1. i - 1 = n /\ AuthorityAt(M, n) = AuthorityAt(L, n)
      BY <1>2, <2>1
    <3>2. QED
      BY <1>1, <1>2, <2>1, <3>1 DEF Authority, n
  <2>2. CASE i # n + 1
    <3>1. i \in 2 .. n /\ i - 1 \in 1 .. n /\ i \in 1 .. n
      BY <1>2, <2>2
    <3>2. M[i] = L[i] /\ AuthorityAt(M, i - 1) = AuthorityAt(L, i - 1)
      BY <1>2, <3>1
    <3>3. QED
      BY <1>6, <3>1, <3>2 DEF Sound, n
  <2>3. QED
    BY <2>1, <2>2
<1>7. Sound(M, os)
  BY <1>2, <1>4, <1>5, <1>6 DEF Sound
<1>8. QED
  BY <1>7 DEF M, e

(* Authorizations are added and never rewritten, and stay fenced. *)
Grows(os, ot) ==
    /\ DOMAIN os \subseteq DOMAIN ot
    /\ \A o \in DOMAIN os : /\ ot[o].old = os[o].old /\ ot[o].new = os[o].new
                            /\ os[o].fenced => ot[o].fenced

LEMMA SoundGrows ==
    ASSUME NEW os, NEW ot, Grows(os, ot), NEW L, Sound(L, os)
    PROVE  Sound(L, ot)
<1>1. ASSUME NEW i \in 2 .. Len(L), L[i].kind = "authority"
      PROVE  /\ L[i].order \in DOMAIN ot
             /\ ot[L[i].order].old = AuthorityAt(L, i - 1).root
             /\ ot[L[i].order].new = L[i].root
             /\ ot[L[i].order].fenced
  BY <1>1 DEF Sound, Grows
<1>2. QED
  BY <1>1 DEF Sound

-----------------------------------------------------------------------------
(* What a step changes. *)

OrdersStep ==
    /\ orders' \in Seq(Order)
    /\ Grows(orders, orders')
    /\ \A o \in DOMAIN orders' : orders'[o].fenced =>
         (o \in Orders /\ orders[o].fenced) \/ process[orders'[o].old] \in Ended

LEMMA OrderFields ==
    ASSUME NEW d \in Order
    PROVE  /\ [d EXCEPT !.fenced = TRUE] \in Order
           /\ [d EXCEPT !.fenced = TRUE].old = d.old /\ [d EXCEPT !.fenced = TRUE].new = d.new
           /\ [d EXCEPT !.fenced = TRUE].fenced
           /\ [d EXCEPT !.handoff = TRUE] \in Order
           /\ [d EXCEPT !.handoff = TRUE].old = d.old /\ [d EXCEPT !.handoff = TRUE].new = d.new
           /\ [d EXCEPT !.handoff = TRUE].fenced = d.fenced
           /\ [d EXCEPT !.launched = TRUE] \in Order
           /\ [d EXCEPT !.launched = TRUE].old = d.old /\ [d EXCEPT !.launched = TRUE].new = d.new
           /\ [d EXCEPT !.launched = TRUE].fenced = d.fenced
           /\ [d EXCEPT !.ended = TRUE] \in Order
           /\ [d EXCEPT !.ended = TRUE].old = d.old /\ [d EXCEPT !.ended = TRUE].new = d.new
           /\ [d EXCEPT !.ended = TRUE].fenced = d.fenced
BY DEF Order

(* One authorization is replaced by one that names the same roots. *)
LEMMA OneOrder ==
    ASSUME Typed, NEW o \in Orders, NEW d \in Order, orders' = [orders EXCEPT ![o] = d],
           d.old = orders[o].old, d.new = orders[o].new,
           orders[o].fenced => d.fenced,
           d.fenced => orders[o].fenced \/ process[d.old] \in Ended
    PROVE  OrdersStep
<1>1. orders \in Seq(Order) /\ Orders = 1 .. Len(orders)
  BY DEF Typed, Orders
<1>2. orders' \in Seq(Order) /\ DOMAIN orders' = Orders
  BY <1>1 DEF Orders
<1>3. \A p \in Orders : orders'[p] = IF p = o THEN d ELSE orders[p]
  BY <1>1 DEF Orders
<1>4. QED
  BY <1>2, <1>3 DEF OrdersStep, Grows, Orders

LEMMA OrdersChange ==
    ASSUME Typed, [TakeoverNext]_takeoverVars
    PROVE  OrdersStep
<1>1. orders \in Seq(Order) /\ \A o \in Orders : orders[o] \in Order
  BY DEF Typed, Orders
<1>2. CASE UNCHANGED orders
  BY <1>1, <1>2 DEF OrdersStep, Grows, Orders
<1>3. ASSUME NEW old \in Roots, NEW new \in Roots, AuthorizeTakeover(old, new)
      PROVE  OrdersStep
  <2> DEFINE d == [old |-> old, new |-> new, package |-> package, expires |-> clock,
                   fenced |-> FALSE, handoff |-> FALSE, launched |-> FALSE, ended |-> FALSE]
  <2>1. d \in Order /\ ~d.fenced
    BY DEF Order, Typed
  <2>2. orders' = Append(orders, d)
    BY <1>3 DEF AuthorizeTakeover
  <2> HIDE DEF d
  <2>3. /\ orders' \in Seq(Order) /\ DOMAIN orders' = 1 .. Len(orders) + 1
        /\ Orders = 1 .. Len(orders) /\ Len(orders) \in Nat
        /\ orders'[Len(orders) + 1] = d
        /\ \A o \in Orders : orders'[o] = orders[o]
    BY <1>1, <2>1, <2>2 DEF Orders
  <2>4. QED
    BY <2>1, <2>3 DEF OrdersStep, Grows, Orders
<1>4. ASSUME NEW o \in Orders, FenceOldRoot(o) PROVE OrdersStep
  <2>1. orders' = [orders EXCEPT ![o] = [orders[o] EXCEPT !.fenced = TRUE]]
    BY <1>4 DEF FenceOldRoot
  <2>2. process[orders[o].old] \in Ended
    BY <1>4 DEF FenceOldRoot, Ended
  <2>3. QED
    BY <1>1, <2>1, <2>2, OrderFields, OneOrder
<1>5. ASSUME NEW o \in Orders, CompileHandoff(o) PROVE OrdersStep
  <2>1. orders' = [orders EXCEPT ![o] = [orders[o] EXCEPT !.handoff = TRUE]]
    BY <1>5 DEF CompileHandoff
  <2>2. QED
    BY <1>1, <2>1, OrderFields, OneOrder
<1>6. ASSUME NEW o \in Orders, LaunchRecoveryRoot(o) PROVE OrdersStep
  <2>1. orders' = [orders EXCEPT ![o] = [orders[o] EXCEPT !.launched = TRUE]]
    BY <1>6 DEF LaunchRecoveryRoot
  <2>2. QED
    BY <1>1, <2>1, OrderFields, OneOrder
<1>7. ASSUME NEW o \in Orders, CompleteTakeover(o) \/ TerminalizeTakeover(o) PROVE OrdersStep
  <2>1. orders' = [orders EXCEPT ![o] = [orders[o] EXCEPT !.ended = TRUE]]
    BY <1>7 DEF CompleteTakeover, TerminalizeTakeover
  <2>2. QED
    BY <1>1, <2>1, OrderFields, OneOrder
<1>8. \/ UNCHANGED orders
      \/ \E old, new \in Roots : AuthorizeTakeover(old, new)
      \/ \E o \in Orders : \/ FenceOldRoot(o) \/ CompileHandoff(o) \/ LaunchRecoveryRoot(o)
                           \/ CompleteTakeover(o) \/ TerminalizeTakeover(o)
  BY DEF TakeoverNext, takeoverVars, AttestStartup, ReadForTakeover, PersistTakeover, ReadFacts,
         RecordEvent, RootEnds, MachineFences, RevokeLease, Tick, InstallPackage
<1>9. QED
  BY <1>2, <1>3, <1>4, <1>5, <1>6, <1>7, <1>8

(* A process that ended does not run again. *)
LEMMA ProcessChange ==
    ASSUME Typed, [TakeoverNext]_takeoverVars
    PROVE  /\ process' \in [Roots -> {"none", "running"} \cup Ended]
           /\ \A r \in Roots : process[r] \in Ended => process'[r] \in Ended
<1>1. process \in [Roots -> {"none", "running"} \cup Ended]
  BY DEF Typed
<1>2. CASE UNCHANGED process
  BY <1>1, <1>2
<1>3. ASSUME NEW o \in Orders, LaunchRecoveryRoot(o)
      PROVE  /\ process' = [process EXCEPT ![orders[o].new] = "running"]
             /\ process[orders[o].new] = "none" /\ orders[o].new \in Roots
  <2>1. orders[o] \in Order
    BY DEF Typed, Orders
  <2>2. orders[o].new \in Roots
    BY <2>1 DEF Order
  <2>3. QED
    BY <1>3, <2>2 DEF LaunchRecoveryRoot
<1>4. ASSUME NEW r \in Roots, RootEnds(r) \/ MachineFences(r)
      PROVE  \E e \in Ended : process' = [process EXCEPT ![r] = e]
  BY <1>4 DEF RootEnds, MachineFences, Ended
<1>5. \/ UNCHANGED process
      \/ \E o \in Orders : LaunchRecoveryRoot(o)
      \/ \E r \in Roots : RootEnds(r) \/ MachineFences(r)
  BY DEF TakeoverNext, takeoverVars, AuthorizeTakeover, FenceOldRoot, CompileHandoff,
         CompleteTakeover, TerminalizeTakeover, AttestStartup, ReadForTakeover, PersistTakeover,
         ReadFacts, RecordEvent, RevokeLease, Tick, InstallPackage
<1>6. CASE \E o \in Orders : LaunchRecoveryRoot(o)
  BY <1>1, <1>3, <1>6 DEF Ended
<1>7. CASE \E r \in Roots : RootEnds(r) \/ MachineFences(r)
  BY <1>1, <1>4, <1>7
<1>8. QED
  BY <1>2, <1>5, <1>6, <1>7

(* An attestation is made once, and one of a takeover names its authorization. *)
Attests(r) ==
    /\ startups[r].status = "none"
    /\ \/ startups'[r].phase = "none" /\ startups'[r].status = "rejected"
       \/ \E o \in Orders :
            /\ startups'[r].status = "verified" /\ startups'[r].order = o
            /\ orders[o].new = r /\ orders[o].fenced

LEMMA StartupsChange ==
    ASSUME Typed, [TakeoverNext]_takeoverVars
    PROVE  /\ startups' \in [Roots -> Startup]
           /\ \A r \in Roots : startups'[r] = startups[r] \/ Attests(r)
<1>1. startups \in [Roots -> Startup] /\ package \in Nat
  BY DEF Typed
<1>2. CASE UNCHANGED startups
  BY <1>1, <1>2
<1>3. ASSUME NEW o \in Orders, NEW r \in Roots, AttestStartup(r, o)
      PROVE  /\ startups' \in [Roots -> Startup]
             /\ \A q \in Roots : startups'[q] = startups[q] \/ Attests(q)
  <2>1. startups[r].status = "none"
    BY <1>3 DEF AttestStartup
  <2>2. o \in Nat
    BY DEF Orders, Typed
  <2>3. CASE TakeoverContextHolds(r, o)
    <3> DEFINE new == AttestedAs("recovery-takeover", o)
    <3>1. new \in Startup /\ new.status = "verified" /\ new.order = o
      BY <1>1, <2>2 DEF AttestedAs, Startup
    <3>2. startups' = [startups EXCEPT ![r] = new]
      BY <1>3, <2>3 DEF AttestStartup
    <3>3. orders[o].new = r /\ orders[o].fenced
      BY <2>3 DEF TakeoverContextHolds
    <3> HIDE DEF new
    <3>4. startups' \in [Roots -> Startup] /\ startups'[r] = new
          /\ \A q \in Roots : q # r => startups'[q] = startups[q]
      BY <1>1, <3>1, <3>2
    <3>5. Attests(r)
      BY <2>1, <3>1, <3>3, <3>4 DEF Attests
    <3>6. QED
      BY <3>4, <3>5
  <2>4. CASE ~TakeoverContextHolds(r, o)
    <3> DEFINE new == [NotStarted EXCEPT !.status = "rejected"]
    <3>1. new \in Startup /\ new.status = "rejected" /\ new.phase = "none"
      BY DEF NotStarted, Startup
    <3>2. startups' = [startups EXCEPT ![r] = new]
      BY <1>3, <2>4 DEF AttestStartup
    <3> HIDE DEF new
    <3>3. startups' \in [Roots -> Startup] /\ startups'[r] = new
          /\ \A q \in Roots : q # r => startups'[q] = startups[q]
      BY <1>1, <3>1, <3>2
    <3>4. Attests(r)
      BY <2>1, <3>1, <3>3 DEF Attests
    <3>5. QED
      BY <3>3, <3>4
  <2>5. QED
    BY <2>3, <2>4
<1>4. UNCHANGED startups \/ \E o \in Orders, r \in Roots : AttestStartup(r, o)
  BY DEF TakeoverNext, takeoverVars, AuthorizeTakeover, FenceOldRoot, CompileHandoff,
         LaunchRecoveryRoot, CompleteTakeover, TerminalizeTakeover, ReadForTakeover,
         PersistTakeover, ReadFacts, RecordEvent, RootEnds, MachineFences, RevokeLease, Tick,
         InstallPackage
<1>5. QED
  BY <1>2, <1>3, <1>4

(* Who reads the ledger is bound to it, or takes over from who is. *)
ReadsNow(r) ==
    /\ startups[r].status = "verified"
    /\ Authority(runLedger).root # r =>
         /\ startups[r].phase = "recovery-takeover"
         /\ orders[startups[r].order].old = Authority(runLedger).root

LEMMA ReadingChange ==
    ASSUME Typed, [TakeoverNext]_takeoverVars
    PROVE  /\ reading' \in [Roots -> Seq(LedgerEntry)]
           /\ \A r \in Roots : \/ reading'[r] = reading[r]
                               \/ reading'[r] = <<>>
                               \/ reading'[r] = runLedger /\ ReadsNow(r)
<1>1. reading \in [Roots -> Seq(LedgerEntry)] /\ runLedger \in Seq(LedgerEntry) /\ <<>> \in Seq(LedgerEntry)
  BY DEF Typed
<1>2. CASE UNCHANGED reading
  BY <1>1, <1>2
<1>3. ASSUME NEW r \in Roots, ReadForTakeover(r) \/ ReadFacts(r)
      PROVE  reading' = [reading EXCEPT ![r] = runLedger] /\ ReadsNow(r)
  BY <1>3 DEF ReadForTakeover, ReadFacts, ReadsNow, StartupBound, HandoffCurrent
<1>4. ASSUME NEW r \in Roots,
             PersistTakeover(r) \/ RecordEvent(r) \/ RootEnds(r) \/ MachineFences(r)
      PROVE  reading' = [reading EXCEPT ![r] = <<>>]
  BY <1>4 DEF PersistTakeover, RecordEvent, RootEnds, MachineFences, NothingRead
<1>5. \/ UNCHANGED reading
      \/ \E r \in Roots : ReadForTakeover(r) \/ ReadFacts(r)
      \/ \E r \in Roots : PersistTakeover(r) \/ RecordEvent(r) \/ RootEnds(r) \/ MachineFences(r)
  BY DEF TakeoverNext, takeoverVars, AuthorizeTakeover, FenceOldRoot, CompileHandoff,
         LaunchRecoveryRoot, CompleteTakeover, TerminalizeTakeover, AttestStartup, RevokeLease,
         Tick, InstallPackage
<1>6. CASE \E r \in Roots : ReadForTakeover(r) \/ ReadFacts(r)
  BY <1>1, <1>3, <1>6
<1>7. CASE \E r \in Roots :
        PersistTakeover(r) \/ RecordEvent(r) \/ RootEnds(r) \/ MachineFences(r)
  BY <1>1, <1>4, <1>7
<1>8. QED
  BY <1>2, <1>5, <1>6, <1>7

(* Whatever is written was read by who may write it. *)
LEMMA LedgerChange ==
    ASSUME TakeoverInv, [TakeoverNext]_takeoverVars
    PROVE  UNCHANGED runLedger \/ Sound(runLedger', orders)
<1>1. ASSUME NEW r \in Roots, PersistTakeover(r) PROVE Sound(runLedger', orders)
  <2> DEFINE o == startups[r].order
  <2>1. /\ reading[r] # <<>> /\ Authority(reading[r]).root # r
        /\ runLedger' = Append(reading[r], AuthorityEntry(r, o))
    BY <1>1 DEF PersistTakeover, NothingRead
  <2>2. /\ Sound(reading[r], orders) /\ startups[r].phase = "recovery-takeover"
        /\ orders[o].old = Authority(reading[r]).root
    BY <2>1 DEF TakeoverInv, Reads
  <2>3. /\ o \in DOMAIN orders /\ orders[o].new = r /\ orders[o].fenced
    BY <2>2 DEF TakeoverInv, Attested, Orders
  <2>4. o \in Nat
    BY <2>3 DEF TakeoverInv, Typed
  <2> HIDE DEF o
  <2>5. QED
    BY <2>1, <2>2, <2>3, <2>4, SoundWithAuthority
<1>2. ASSUME NEW r \in Roots, RecordEvent(r), ~UNCHANGED runLedger
      PROVE  Sound(runLedger', orders)
  <2>1. /\ Authority(reading[r]).root = r /\ reading[r] = runLedger
        /\ runLedger' = Append(runLedger, EventEntry(r))
    BY <1>2 DEF RecordEvent
  <2>2. QED
    BY <2>1, SoundWithEvent DEF TakeoverInv
<1>3. UNCHANGED runLedger \/ \E r \in Roots : PersistTakeover(r) \/ RecordEvent(r)
  BY DEF TakeoverNext, takeoverVars, AuthorizeTakeover, FenceOldRoot, CompileHandoff,
         LaunchRecoveryRoot, CompleteTakeover, TerminalizeTakeover, AttestStartup,
         ReadForTakeover, ReadFacts, RootEnds, MachineFences, RevokeLease, Tick, InstallPackage
<1>4. QED
  BY <1>1, <1>2, <1>3

LEMMA CountsChange ==
    ASSUME Typed, [TakeoverNext]_takeoverVars
    PROVE  clock' \in Nat /\ package' \in Nat
<1>1. clock' \in {clock, clock + 1} /\ package' \in {package, package + 1}
  <2>1. UNCHANGED <<clock, package>> \/ Tick \/ InstallPackage
    BY DEF TakeoverNext, takeoverVars, AuthorizeTakeover, FenceOldRoot, CompileHandoff,
           LaunchRecoveryRoot, CompleteTakeover, TerminalizeTakeover, AttestStartup,
           ReadForTakeover, PersistTakeover, ReadFacts, RecordEvent, RootEnds, MachineFences,
           RevokeLease
  <2>2. QED
    BY <2>1 DEF Tick, InstallPackage
<1>2. QED
  BY <1>1 DEF Typed

-----------------------------------------------------------------------------
(* The invariant. *)

LEMMA TakeoverStarts == TakeoverInit => TakeoverInv
<1> SUFFICES ASSUME TakeoverInit PROVE TakeoverInv
  OBVIOUS
<1> DEFINE first == AuthorityEntry(GenesisRoot, 0)
<1>1. first \in LedgerEntry /\ first.kind = "authority"
  BY GenesisRootAssumption DEF AuthorityEntry, LedgerEntry
<1>2. orders = <<>> /\ runLedger = <<first>> /\ \A r \in Roots : reading[r] = <<>>
  BY DEF TakeoverInit, NothingRead
<1>3. Orders = {} /\ orders \in Seq(Order)
  BY <1>2 DEF Orders
<1>4. \A r \in Roots : startups[r] \in Startup /\ startups[r].phase # "recovery-takeover"
  BY DEF TakeoverInit, AttestedAs, NotStarted, Startup
<1>5. startups \in [Roots -> Startup]
  BY <1>4 DEF TakeoverInit
<1> HIDE DEF first
<1>6. runLedger \in Seq(LedgerEntry) /\ Len(runLedger) = 1 /\ runLedger[1] = first
  BY <1>1, <1>2
<1>7. reading \in [Roots -> Seq(LedgerEntry)]
  BY DEF TakeoverInit, NothingRead
<1>8. Typed
  BY <1>3, <1>5, <1>6, <1>7 DEF TakeoverInit, Typed, Ended
<1>9. IsLast(runLedger, 1, 1)
  BY <1>1, <1>6 DEF IsLast
<1>10. Sound(runLedger, orders)
  BY <1>1, <1>6, <1>9 DEF Sound
<1>11. Fencing /\ Attested /\ Reads
  BY <1>2, <1>3, <1>4 DEF Fencing, Attested, Reads
<1>12. QED
  BY <1>8, <1>10, <1>11 DEF TakeoverInv

LEMMA TakeoverStep ==
    ASSUME TakeoverInv, [TakeoverNext]_takeoverVars
    PROVE  TakeoverInv'
<1>1. Typed /\ Fencing /\ Attested /\ Sound(runLedger, orders) /\ Reads
  BY DEF TakeoverInv
<1>2. OrdersStep /\ Grows(orders, orders')
  BY <1>1, OrdersChange DEF OrdersStep
<1>3. Sound(runLedger', orders')
  BY <1>1, <1>2, LedgerChange, SoundGrows
<1>4. Typed'
  <2>1. orders' \in Seq(Order) /\ runLedger' \in Seq(LedgerEntry)
    BY <1>2, <1>3 DEF OrdersStep, Sound
  <2>2. QED
    BY <1>1, <2>1, ProcessChange, StartupsChange, ReadingChange, CountsChange DEF Typed
<1>5. Fencing'
  <2>1. ASSUME NEW o \in DOMAIN orders', orders'[o].fenced
        PROVE  process'[orders'[o].old] \in Ended
    <3>1. orders'[o] \in Order
      BY <1>2 DEF OrdersStep
    <3>2. orders'[o].old \in Roots
      BY <3>1 DEF Order
    <3>3. process[orders'[o].old] \in Ended
      BY <1>1, <1>2, <2>1 DEF OrdersStep, Fencing, Grows, Orders
    <3>4. QED
      BY <1>1, <3>2, <3>3, ProcessChange
  <2>2. QED
    BY <2>1 DEF Fencing, Orders
<1>6. Attested'
  <2>1. ASSUME NEW r \in Roots, startups'[r].phase = "recovery-takeover"
        PROVE  /\ startups'[r].status = "verified"
               /\ startups'[r].order \in DOMAIN orders'
               /\ orders'[startups'[r].order].new = r
               /\ orders'[startups'[r].order].fenced
    <3>1. CASE startups'[r] = startups[r]
      BY <1>1, <1>2, <2>1, <3>1 DEF Attested, Grows, Orders
    <3>2. CASE Attests(r)
      BY <1>2, <2>1, <3>2 DEF Attests, Grows, Orders
    <3>3. QED
      BY <1>1, <3>1, <3>2, StartupsChange
  <2>2. QED
    BY <2>1 DEF Attested, Orders
<1>7. Reads'
  <2>1. ASSUME NEW r \in Roots, reading'[r] # <<>>
        PROVE  /\ startups'[r].status = "verified"
               /\ Sound(reading'[r], orders')
               /\ Authority(reading'[r]).root # r =>
                    /\ startups'[r].phase = "recovery-takeover"
                    /\ orders'[startups'[r].order].old = Authority(reading'[r]).root
    <3>1. /\ startups[r].status = "verified"
          /\ Sound(reading'[r], orders)
          /\ Authority(reading'[r]).root # r =>
               /\ startups[r].phase = "recovery-takeover"
               /\ orders[startups[r].order].old = Authority(reading'[r]).root
      <4>1. CASE reading'[r] = reading[r]
        BY <1>1, <2>1, <4>1 DEF Reads
      <4>2. CASE reading'[r] = runLedger /\ ReadsNow(r)
        BY <1>1, <4>2 DEF ReadsNow
      <4>3. QED
        BY <1>1, <2>1, <4>1, <4>2, ReadingChange
    <3>2. startups'[r] = startups[r]
      BY <1>1, <3>1, StartupsChange DEF Attests
    <3>3. Sound(reading'[r], orders')
      BY <1>2, <3>1, SoundGrows
    <3>4. startups[r].phase = "recovery-takeover" =>
             orders'[startups[r].order].old = orders[startups[r].order].old
      BY <1>1, <1>2 DEF Attested, Grows, Orders
    <3>5. QED
      BY <3>1, <3>2, <3>3, <3>4
  <2>2. QED
    BY <2>1 DEF Reads, Authority, AuthorityAt, Sound, IsLast
<1>8. QED
  BY <1>3, <1>4, <1>5, <1>6, <1>7 DEF TakeoverInv, Sound, AuthorityAt, IsLast

-----------------------------------------------------------------------------
(* What a takeover writes anew. *)

(* A takeover has read the ledger that is there, unless a root was taken over  *)
(* twice.                                                                      *)
Whole ==
    \A r \in Roots : reading[r] # NothingRead /\ Authority(reading[r]).root # r =>
        TakenOverTwice \/ reading[r] = runLedger

LEMMA TwiceStays ==
    ASSUME Typed, [TakeoverNext]_takeoverVars, TakenOverTwice
    PROVE  TakenOverTwice'
BY OrdersChange DEF OrdersStep, Grows, TakenOverTwice, Orders

(* The authorization of who has read a ledger to take over. *)
LEMMA TakesOver ==
    ASSUME TakeoverInv, NEW r \in Roots, reading[r] # <<>>, Authority(reading[r]).root # r
    PROVE  \E o \in Orders : /\ orders[o].old = Authority(reading[r]).root /\ orders[o].new = r
                             /\ orders[o].fenced
<1>1. /\ startups[r].phase = "recovery-takeover"
      /\ orders[startups[r].order].old = Authority(reading[r]).root
  BY DEF TakeoverInv, Reads
<1>2. /\ startups[r].order \in Orders /\ orders[startups[r].order].new = r
      /\ orders[startups[r].order].fenced
  BY <1>1 DEF TakeoverInv, Attested
<1>3. QED
  BY <1>1, <1>2

LEMMA WholeKept ==
    ASSUME TakeoverInv, Whole, [TakeoverNext]_takeoverVars
    PROVE  Whole'
<1> SUFFICES ASSUME NEW r \in Roots, reading'[r] # <<>>, Authority(reading'[r]).root # r,
                    ~TakenOverTwice'
             PROVE  reading'[r] = runLedger'
  BY DEF Whole, NothingRead, Authority, AuthorityAt
<1>1. ~TakenOverTwice
  BY TwiceStays DEF TakeoverInv
<1>2. reading'[r] = reading[r] \/ reading'[r] = runLedger
  BY ReadingChange DEF TakeoverInv
<1>3. reading'[r] = reading[r] => reading[r] = runLedger
  BY <1>1 DEF Whole, NothingRead
<1>4. CASE UNCHANGED runLedger
  BY <1>2, <1>3, <1>4
<1>5. ASSUME NEW q \in Roots, PersistTakeover(q) PROVE FALSE
  <2>1. /\ reading' = [reading EXCEPT ![q] = <<>>] /\ reading[q] # <<>>
        /\ Authority(reading[q]).root # q
    BY <1>5 DEF PersistTakeover, NothingRead
  <2>2. r # q /\ reading'[r] = reading[r]
    BY <2>1 DEF TakeoverInv, Typed
  <2>3. reading[r] = runLedger /\ reading[q] = runLedger
    BY <1>1, <1>3, <2>1, <2>2 DEF Whole, NothingRead
  <2>4. PICK o \in Orders : /\ orders[o].old = Authority(runLedger).root /\ orders[o].new = r
                            /\ orders[o].fenced
    BY <2>2, <2>3, TakesOver
  <2>5. PICK p \in Orders : /\ orders[p].old = Authority(runLedger).root /\ orders[p].new = q
                            /\ orders[p].fenced
    BY <2>1, <2>3, TakesOver
  <2>6. QED
    BY <1>1, <2>2, <2>4, <2>5 DEF TakenOverTwice
<1>6. ASSUME NEW q \in Roots, RecordEvent(q), ~UNCHANGED runLedger PROVE FALSE
  <2>1. /\ reading' = [reading EXCEPT ![q] = <<>>] /\ reading[q] = runLedger
        /\ Authority(runLedger).root = q /\ process[q] = "running"
    BY <1>6 DEF RecordEvent, NothingRead
  <2>2. reading'[r] = reading[r]
    BY <2>1 DEF TakeoverInv, Typed
  <2>3. PICK o \in Orders : orders[o].old = Authority(runLedger).root /\ orders[o].fenced
    BY <1>3, <2>2, TakesOver
  <2>4. QED
    BY <2>1, <2>3 DEF TakeoverInv, Fencing, Ended
<1>7. UNCHANGED runLedger \/ \E q \in Roots : PersistTakeover(q) \/ RecordEvent(q)
  BY DEF TakeoverNext, takeoverVars, AuthorizeTakeover, FenceOldRoot, CompileHandoff,
         LaunchRecoveryRoot, CompleteTakeover, TerminalizeTakeover, AttestStartup,
         ReadForTakeover, ReadFacts, RootEnds, MachineFences, RevokeLease, Tick, InstallPackage
<1>8. QED
  BY <1>4, <1>5, <1>6, <1>7

LEMMA TakeoverAlways == TakeoverSpec => [](TakeoverInv /\ Whole)
<1>1. TakeoverInit => Whole
  BY DEF TakeoverInit, Whole
<1>2. TakeoverInv /\ Whole /\ [TakeoverNext]_takeoverVars => (TakeoverInv /\ Whole)'
  BY TakeoverStep, WholeKept
<1>3. QED
  BY <1>1, <1>2, TakeoverStarts, PTL DEF TakeoverSpec

(* The ledger of a run is written by one root after the other: an event by the *)
(* root the ledger is bound to, the next root after the one before it was      *)
(* fenced, however takeovers overlap, fail or are authorized again.            *)
THEOREM TakeoversHandOver == TakeoverSpec => []RecordsUnderAuthority
<1>1. TakeoverInv /\ Whole => RecordsUnderAuthority
  <2> SUFFICES ASSUME TakeoverInv, Whole PROVE RecordsUnderAuthority
    OBVIOUS
  <2>1. \A i \in DOMAIN runLedger : runLedger[i].kind = "event" =>
          AuthorityAt(runLedger, i).root = runLedger[i].root
    <3>1. Sound(runLedger, orders) /\ DOMAIN runLedger = 1 .. Len(runLedger)
      BY DEF TakeoverInv, Typed
    <3>2. QED
      BY <3>1 DEF Sound
  <2>2. ASSUME NEW i \in 2 .. Len(runLedger), runLedger[i].kind = "authority"
        PROVE  /\ orders[runLedger[i].order].old = AuthorityAt(runLedger, i - 1).root
               /\ orders[runLedger[i].order].new = runLedger[i].root
               /\ process[AuthorityAt(runLedger, i - 1).root] # "running"
    <3> DEFINE o == runLedger[i].order
    <3>1. /\ o \in DOMAIN orders /\ orders[o].fenced /\ orders[o].new = runLedger[i].root
          /\ orders[o].old = AuthorityAt(runLedger, i - 1).root
      BY <2>2 DEF TakeoverInv, Sound
    <3>2. process[orders[o].old] \in Ended
      BY <3>1 DEF TakeoverInv, Fencing, Orders
    <3>3. QED
      BY <3>1, <3>2 DEF Ended
  <2>3. QED
    BY <2>1, <2>2 DEF RecordsUnderAuthority, Whole
<1>2. QED
  BY <1>1, TakeoverAlways, PTL

(* As long as no root is taken over twice the ledger only grows: a takeover    *)
(* that writes it anew keeps every event that others recorded.                 *)
THEOREM LedgerOnlyGrows ==
    TakeoverSpec => [][TakenOverTwice \/ \E e : runLedger' = Append(runLedger, e)]_runLedger
<1>1. ASSUME TakeoverInv, Whole, [TakeoverNext]_takeoverVars
      PROVE  [TakenOverTwice \/ \E e : runLedger' = Append(runLedger, e)]_runLedger
  <2>1. ASSUME NEW q \in Roots, PersistTakeover(q)
        PROVE  TakenOverTwice \/ \E e : runLedger' = Append(runLedger, e)
    BY <1>1, <2>1 DEF PersistTakeover, Whole
  <2>2. ASSUME NEW q \in Roots, RecordEvent(q), runLedger' # runLedger
        PROVE  \E e : runLedger' = Append(runLedger, e)
    BY <2>2 DEF RecordEvent
  <2>3. UNCHANGED runLedger \/ \E q \in Roots : PersistTakeover(q) \/ RecordEvent(q)
    BY <1>1 DEF TakeoverNext, takeoverVars, AuthorizeTakeover, FenceOldRoot, CompileHandoff,
           LaunchRecoveryRoot, CompleteTakeover, TerminalizeTakeover, AttestStartup,
           ReadForTakeover, ReadFacts, RootEnds, MachineFences, RevokeLease, Tick, InstallPackage
  <2>4. QED
    BY <2>1, <2>2, <2>3
<1>2. QED
  BY <1>1, TakeoverAlways, PTL DEF TakeoverSpec

-----------------------------------------------------------------------------
(***************************************************************************)
(* Theorems about the replay cache of a run.                               *)
(***************************************************************************)

FileType == [head : Int, tail : {"whole", "bare", "torn", "glued"}]
Registration == [epoch : 1..MaxEpochs, active : BOOLEAN]

ControlShape(file) ==
    /\ DOMAIN file = {"head", "binding", "tail", "reg"}
    /\ file.head \in Int /\ file.tail \in {"whole", "bare", "torn", "glued"}
    /\ file.reg \in [ReplayNodes -> Registration]

FileShape ==
    /\ ControlShape(controlFile)
    /\ nodeFile \in [ReplayNodes -> [1..MaxEpochs -> FileType]]

(* The ledger of an incarnation that has not begun is not there. *)
Unborn ==
    \A n \in ReplayNodes, e \in 1..MaxEpochs :
        e > controlFile.reg[n].epoch => nodeFile[n][e] = NoFile

(* An entry has the components of the nodes its control projection has. *)
Formed(e) ==
    e.components = [n \in Active(e.control) |->
                      [reg |-> e.control.reg[n], head |-> e.components[n].head]]

(* It was read from a prefix of the control ledger. *)
Past(e, control) ==
    /\ e.control.head \in Int /\ e.control.head <= control.head
    /\ e.control.head = control.head => e.control = ControlProjection(control)

(* It says what a replay of the files says. *)
Current(e, control, files) ==
    /\ e.control = ControlProjection(control)
    /\ e.components = ReadComponents(ControlProjection(control), files)

EntriesOf(keys, f, control) ==
    \A k \in keys : Formed(f[k]) /\ Past(f[k], control)

KeysOf(control) == {Fallback(control), Explicit}

(* The one writer of a run keeps its entries current, but for the one of its    *)
(* startup while the facts wait to be recovered.                                *)
Alone ==
    \/ overtaken \/ Glued
    \/ \A k \in Cached : ready \/ k = Fallback(controlFile) =>
                           Current(entries[k], controlFile, nodeFile)

CacheInv ==
    /\ FileShape
    /\ Unborn
    /\ Cached \subseteq KeysOf(controlFile)
    /\ EntriesOf(Cached, entries, controlFile)
    /\ Alone

ReplayInv == CacheInv /\ AnswersAreReplays

-----------------------------------------------------------------------------
(* Entries and components. *)

LEMMA PutIs ==
    ASSUME NEW f, NEW key, NEW e
    PROVE  /\ DOMAIN With(f, key, e) = {key} \cup DOMAIN f
           /\ With(f, key, e)[key] = e
           /\ \A k \in DOMAIN f : k # key => With(f, key, e)[k] = f[k]
BY DEF With

LEMMA EntryIs ==
    ASSUME NEW control, NEW components, NEW arts
    PROVE  /\ Entry(control, components, arts).control = control
           /\ Entry(control, components, arts).components = components
BY DEF Entry

LEMMA CurrentSound ==
    ASSUME NEW e, NEW control, NEW files, control.head \in Int,
           Current(e, control, files)
    PROVE  Formed(e) /\ Past(e, control)
<1>1. Past(e, control)
  BY DEF Current, Past, ControlProjection
<1>2. DEFINE c == ControlProjection(control)
<1>3. \A n : /\ ReadComponent(n, c, files).reg = c.reg[n]
             /\ ReadComponent(n, c, files) =
                  [reg |-> c.reg[n], head |-> ReadComponent(n, c, files).head]
  BY DEF ReadComponent
<1>4. e.control = c /\ e.components = [n \in Active(c) |-> ReadComponent(n, c, files)]
  BY DEF Current, ReadComponents
<1> HIDE DEF c
<1>5. Formed(e)
  BY <1>3, <1>4 DEF Formed
<1>6. QED
  BY <1>1, <1>5

(* Two reads of the same files. *)
LEMMA ReplayIs ==
    ASSUME NEW e, NEW control, NEW files, Current(e, control, files)
    PROVE  ResultOf(e) = ReplayOf(control, files)
BY DEF Current, ResultOf, ReplayOf

(* An entry whose control head is that of the ledger and whose component heads *)
(* are those of the node ledgers is current.                                    *)
LEMMA HitIsCurrent ==
    ASSUME NEW e, Formed(e), Past(e, controlFile), ControlUnchanged(e), NodesUnchanged(e)
    PROVE  Current(e, controlFile, nodeFile)
<1> DEFINE c == ControlProjection(controlFile)
<1>1. e.control = c
  BY DEF Past, ControlUnchanged
<1>2. ASSUME NEW n \in Active(c) PROVE e.components[n] = ReadComponent(n, c, nodeFile)
  <2>1. /\ n \in DOMAIN e.components
        /\ e.components[n] = [reg |-> c.reg[n], head |-> e.components[n].head]
    BY <1>1, <1>2 DEF Formed
  <2>2. LET file == nodeFile[n][c.reg[n].epoch]
        IN  Readable(file) /\ file.head = e.components[n].head
    BY <2>1 DEF NodesUnchanged
  <2>3. QED
    BY <2>1, <2>2 DEF ReadComponent
<1> HIDE DEF c
<1>3. e.components = [n \in Active(c) |-> e.components[n]]
  BY <1>1 DEF Formed
<1>4. e.components = ReadComponents(c, nodeFile)
  BY <1>2, <1>3 DEF ReadComponents
<1>5. QED
  BY <1>1, <1>4 DEF Current, c

-----------------------------------------------------------------------------
(* Recovery. *)

(* What a recovery leaves: it failed as it may, or it answered what the files   *)
(* say, and the entries it did not make are as they were.                       *)
Kept(key) ==
    \A k \in DOMAIN entries' :
        \/ k \in KeysOf(controlFile) /\ Current(entries'[k], controlFile, nodeFile)
        \/ k \in Cached /\ entries'[k] = entries[k] /\ k # key

Refused ==
    /\ answer'.value = Failed
    /\ ~Readable(controlFile) \/ artifacts.index = Broken
    /\ UNCHANGED <<artifacts, entries>>

Recovered(key) ==
    /\ answer'.by = "recover"
    /\ Refused \/ (answer'.value = <<ReplayOf(controlFile, nodeFile)>> /\ Kept(key))

LEMMA KeysDiffer == NoAuthority \notin KeysOf(controlFile) /\ Explicit # NoAuthority
BY DEF NoAuthority, KeysOf, Fallback, Explicit

(* One entry is installed, and it is current. *)
LEMMA InstalledKeeps ==
    ASSUME NEW key, NEW found, NEW e, Installed(found, e),
           Cached \subseteq KeysOf(controlFile), key \in {Explicit, NoAuthority},
           found \in KeysOf(controlFile), key = Explicit => found = Explicit,
           Current(e, controlFile, nodeFile)
    PROVE  Kept(key)
<1>1. /\ DOMAIN entries' = {found} \cup Cached /\ entries'[found] = e
      /\ \A k \in Cached : k # found => entries'[k] = entries[k]
  BY DEF Installed, Cached, With
<1>2. \A k \in Cached : k # found => k # key
  BY KeysDiffer
<1>3. QED
  BY <1>1, <1>2 DEF Kept

LEMMA FullReplayAnswers ==
    ASSUME CacheInv, NEW key \in {Explicit, NoAuthority}, FullReplay(key)
    PROVE  Recovered(key)
<1> DEFINE control == ControlProjection(controlFile)
           components == ReadComponents(control, nodeFile)
           arts == Written(artifacts, control, components, DOMAIN components, TRUE)
<1>1. CASE ~Readable(controlFile) \/ artifacts.index = Broken
  <2>1. Answer("recover", Failed) /\ UNCHANGED <<artifacts, entries>>
    BY <1>1 DEF FullReplay
  <2>2. QED
    BY <1>1, <2>1 DEF Answer, Recovered, Refused
<1>2. CASE ~(~Readable(controlFile) \/ artifacts.index = Broken)
  <2>1. /\ Installed(InstallKey(key, control), Entry(control, components, arts))
        /\ Answer("recover", <<Assemble(control, components)>>)
    BY <1>2 DEF FullReplay
  <2>2. InstallKey(key, control) \in KeysOf(controlFile)
    BY DEF InstallKey, KeysOf, Fallback, Binding, ControlProjection
  <2>3. key = Explicit => InstallKey(key, control) = Explicit
    BY KeysDiffer DEF InstallKey
  <2>4. PICK e : e = Entry(control, components, arts)
    OBVIOUS
  <2>5. Current(e, controlFile, nodeFile)
    <3> HIDE DEF arts
    <3>1. e.control = control /\ e.components = components
      BY <2>4, EntryIs
    <3>2. QED
      BY <3>1 DEF Current
  <2>6. PICK found : found = InstallKey(key, control)
    OBVIOUS
  <2>7. Kept(key)
    BY <2>1, <2>2, <2>3, <2>4, <2>5, <2>6, InstalledKeeps DEF CacheInv
  <2>8. answer'.by = "recover" /\ answer'.value = <<ReplayOf(controlFile, nodeFile)>>
    BY <2>1 DEF Answer, ReplayOf
  <2>9. QED
    BY <2>7, <2>8 DEF Recovered
<1>3. QED
  BY <1>1, <1>2

LEMMA LookupIs ==
    ASSUME NEW key, key \in {Explicit, NoAuthority}, NEW k \in Lookup(key)
    PROVE  k \in Cached /\ (key = Explicit => k = Explicit)
BY KeysDiffer DEF Lookup

LEMMA CacheHitAnswers ==
    ASSUME CacheInv, NEW key \in {Explicit, NoAuthority}, NEW found \in Lookup(key),
           CacheHit(entries[found])
    PROVE  Recovered(key)
<1>1. found \in Cached /\ (key = Explicit => found = Explicit)
  BY LookupIs
<1>2. PICK e : e = entries[found]
  OBVIOUS
<1>3. Formed(e) /\ Past(e, controlFile)
  BY <1>1, <1>2 DEF CacheInv, EntriesOf
<1>4. ControlUnchanged(e) /\ NodesUnchanged(e)
  BY <1>2 DEF CacheHit
<1>5. Current(e, controlFile, nodeFile)
  BY <1>3, <1>4, HitIsCurrent
<1>6. answer'.by = "recover" /\ answer'.value = <<ReplayOf(controlFile, nodeFile)>>
  BY <1>2, <1>5, ReplayIs DEF CacheHit, Answer
<1>7. entries' = entries
  BY DEF CacheHit
<1>8. \A k \in Cached : k # found => k # key
  BY <1>1, KeysDiffer DEF CacheInv
<1>9. Kept(key)
  BY <1>1, <1>2, <1>5, <1>7, <1>8 DEF Kept, Cached, CacheInv
<1>10. QED
  BY <1>6, <1>9 DEF Recovered

(* The component of an unchanged node is what reading it again would give. *)
LEMMA KeptComponent ==
    ASSUME NEW e, Formed(e), NEW n \in DOMAIN e.components, NEW control,
           e.components[n].reg = control.reg[n],
           Readable(nodeFile[n][control.reg[n].epoch]),
           nodeFile[n][control.reg[n].epoch].head = e.components[n].head
    PROVE  e.components[n] = ReadComponent(n, control, nodeFile)
<1>1. e.components[n] = [reg |-> e.control.reg[n], head |-> e.components[n].head]
  BY DEF Formed
<1>2. e.components[n] = [reg |-> control.reg[n], head |-> e.components[n].head]
  BY <1>1
<1>3. QED
  BY <1>2 DEF ReadComponent

LEMMA ReconcileAnswers ==
    ASSUME CacheInv, NEW key \in {Explicit, NoAuthority}, NEW found \in Lookup(key),
           Reconcile(key, found)
    PROVE  Recovered(key)
<1> DEFINE e == entries[found]
           control == IF ControlUnchanged(e) THEN e.control ELSE ControlProjection(controlFile)
           kept == {n \in Active(control) \cap Verified(e.components) :
                      /\ e.components[n].reg = control.reg[n]
                      /\ Readable(nodeFile[n][control.reg[n].epoch])
                      /\ nodeFile[n][control.reg[n].epoch].head = e.components[n].head}
           components == [n \in Active(control) |->
                             IF n \in kept THEN e.components[n]
                             ELSE ReadComponent(n, control, nodeFile)]
           arts == Written(artifacts, control, components, Active(control) \ kept,
                           ~ ControlUnchanged(e))
<1>1. found \in Cached /\ (key = Explicit => found = Explicit)
  BY LookupIs
<1>2. Formed(e) /\ Past(e, controlFile)
  BY <1>1 DEF CacheInv, EntriesOf
<1>3. control = ControlProjection(controlFile)
  BY <1>2 DEF Past, ControlUnchanged
<1>4. IF Binding(control) # Binding(e.control)
      THEN FullReplay(key)
      ELSE /\ artifacts' = arts
           /\ Installed(found, Entry(control, components, arts))
           /\ Answer("recover", <<Assemble(control, components)>>)
  BY DEF Reconcile
<1>5. components = ReadComponents(control, nodeFile)
  <2>1. ASSUME NEW n \in Active(control)
        PROVE  components[n] = ReadComponent(n, control, nodeFile)
    <3>1. CASE n \notin kept
      BY <3>1
    <3>2. CASE n \in kept
      <4>1. /\ n \in DOMAIN e.components
            /\ e.components[n].reg = control.reg[n]
            /\ Readable(nodeFile[n][control.reg[n].epoch])
            /\ nodeFile[n][control.reg[n].epoch].head = e.components[n].head
        BY <3>2 DEF Verified
      <4>2. e.components[n] = ReadComponent(n, control, nodeFile)
        BY <1>2, <4>1, KeptComponent
      <4>3. QED
        BY <3>2, <4>2
    <3>3. QED
      BY <3>1, <3>2
  <2>2. QED
    BY <2>1 DEF ReadComponents
<1> HIDE DEF control, components, arts
<1>6. CASE Binding(control) # Binding(e.control)
  BY <1>4, <1>6, FullReplayAnswers
<1>7. CASE ~(Binding(control) # Binding(e.control))
  <2>1. PICK new : new = Entry(control, components, arts)
    OBVIOUS
  <2>2. Current(new, controlFile, nodeFile)
    BY <1>3, <1>5, <2>1, EntryIs DEF Current
  <2>3. Installed(found, new) /\ Answer("recover", <<Assemble(control, components)>>)
    BY <1>4, <1>7, <2>1
  <2>4. Kept(key)
    BY <1>1, <2>2, <2>3, InstalledKeeps DEF CacheInv
  <2>5. answer'.by = "recover" /\ answer'.value = <<ReplayOf(controlFile, nodeFile)>>
    BY <1>3, <1>5, <2>3 DEF Answer, ReplayOf
  <2>6. QED
    BY <2>4, <2>5 DEF Recovered
<1>8. QED
  BY <1>6, <1>7

LEMMA RecoverAnswers ==
    ASSUME CacheInv, NEW key \in {Explicit, NoAuthority}, NEW forced \in BOOLEAN,
           Recover(key, forced)
    PROVE  Recovered(key)
<1>1. CASE FullReplay(key)
  BY <1>1, FullReplayAnswers
<1>2. CASE ~Readable(controlFile) /\ Answer("recover", Failed) /\ UNCHANGED <<artifacts, entries>>
  BY <1>2 DEF Answer, Recovered, Refused
<1>3. ASSUME NEW k \in Lookup(key), CacheHit(entries[k]) \/ Reconcile(key, k)
      PROVE  Recovered(key)
  BY <1>3, CacheHitAnswers, ReconcileAnswers
<1>4. QED
  BY <1>1, <1>2, <1>3 DEF Recover

LEMMA RecoverKeeps ==
    ASSUME ReplayInv, RecoverFacts \/ RecoverHandle \/ RecoverAudit
    PROVE  ReplayInv'
<1>1. PICK key \in {Explicit, NoAuthority}, forced \in BOOLEAN :
        /\ Recover(key, forced)
        /\ UNCHANGED <<controlFile, nodeFile, startup, overtaken, mishaps>>
        /\ (ready' = (answer'.value # Failed) /\ key = Explicit) \/ ready' = ready
  BY DEF RecoverFacts, RecoverHandle, RecoverAudit, UnchangedFiles, UnchangedLife
<1>2. Recovered(key) /\ CacheInv
  BY <1>1, RecoverAnswers DEF ReplayInv
<1>3. FileShape' /\ Unborn' /\ (Glued' <=> Glued)
  BY <1>1, <1>2 DEF CacheInv, FileShape, Unborn, Glued
<1>4. AnswersAreReplays'
  BY <1>1, <1>2 DEF Recovered, Refused, AnswersAreReplays
<1>5. KeysOf(controlFile)' = KeysOf(controlFile) /\ Fallback(controlFile)' = Fallback(controlFile)
  BY <1>1 DEF KeysOf, Explicit, Fallback
<1>6. ASSUME NEW k \in DOMAIN entries'
      PROVE  /\ k \in KeysOf(controlFile)
             /\ Formed(entries'[k]) /\ Past(entries'[k], controlFile)
             /\ \/ overtaken \/ Glued
                \/ ready' \/ k = Fallback(controlFile) =>
                     Current(entries'[k], controlFile, nodeFile)
  <2>1. CASE Refused
    <3>1. k \in Cached /\ entries' = entries
      BY <1>6, <2>1 DEF Refused, Cached
    <3>2. ready' => ready
      BY <1>1, <2>1 DEF Refused
    <3>3. QED
      BY <1>2, <3>1, <3>2 DEF CacheInv, EntriesOf, Alone
  <2>2. CASE k \in KeysOf(controlFile) /\ Current(entries'[k], controlFile, nodeFile)
    BY <1>2, <2>2, CurrentSound DEF CacheInv, FileShape, ControlShape
  <2>3. CASE k \in Cached /\ entries'[k] = entries[k] /\ k # key
    <3>1. k \in KeysOf(controlFile) /\ Formed(entries[k]) /\ Past(entries[k], controlFile)
      BY <1>2, <2>3 DEF CacheInv, EntriesOf
    <3>2. ready' \/ k = Fallback(controlFile) => ready \/ k = Fallback(controlFile)
      BY <1>1, <2>3, <3>1 DEF KeysOf
    <3>3. QED
      BY <1>2, <2>3, <3>1, <3>2 DEF CacheInv, Alone
  <2>4. QED
    BY <1>2, <1>6, <2>1, <2>2, <2>3 DEF Recovered, Kept
<1>7. Cached' \subseteq KeysOf(controlFile)'
  BY <1>5, <1>6 DEF Cached
<1>8. EntriesOf(Cached, entries, controlFile)'
  BY <1>1, <1>6 DEF Cached, EntriesOf
<1>9. Alone'
  BY <1>1, <1>3, <1>5, <1>6 DEF Cached, Alone
<1>10. QED
  BY <1>3, <1>4, <1>7, <1>8, <1>9 DEF ReplayInv, CacheInv

-----------------------------------------------------------------------------
(* Ledgers. *)

LEMMA ExtendedNode ==
    ASSUME NEW file \in FileType
    PROVE  /\ Extended(file) \in FileType
           /\ Extended(file).head = file.head + 1
           /\ Extended(file).tail = IF file.tail = "bare" THEN "glued" ELSE "whole"
<1>1. PICK head \in Int : head = file.head + 1
  BY DEF FileType
<1>2. PICK tail \in {"whole", "glued"} : tail = IF file.tail = "bare" THEN "glued" ELSE "whole"
  OBVIOUS
<1>3. Extended(file) = [file EXCEPT !.head = head, !.tail = tail]
  BY <1>1, <1>2 DEF Extended
<1>4. QED
  BY <1>1, <1>2, <1>3 DEF FileType

LEMMA ExtendedControl ==
    ASSUME NEW file, ControlShape(file)
    PROVE  /\ ControlShape(Extended(file))
           /\ Extended(file).head = file.head + 1
           /\ Extended(file).tail = IF file.tail = "bare" THEN "glued" ELSE "whole"
           /\ Extended(file).binding = file.binding
           /\ Extended(file).reg = file.reg
<1>1. PICK head \in Int : head = file.head + 1
  BY DEF ControlShape
<1>2. PICK tail \in {"whole", "glued"} : tail = IF file.tail = "bare" THEN "glued" ELSE "whole"
  OBVIOUS
<1>3. Extended(file) = [file EXCEPT !.head = head, !.tail = tail]
  BY <1>1, <1>2 DEF Extended
<1>4. QED
  BY <1>1, <1>2, <1>3 DEF ControlShape

-----------------------------------------------------------------------------
(* Appends. *)

(* What an append leaves of the entries: all are as they were, or some, and all *)
(* when they agree, follow the event.  NewControl and NewComponents are what an *)
(* entry becomes.                                                               *)
Followed(keys, control, components) ==
    \E first \in keys :
       LET same == {k \in keys : Assemble(control[k], components[k]) =
                                 Assemble(control[first], components[first])}
       IN  /\ DOMAIN entries' = Cached
           /\ \A k \in Cached :
                IF k = first \/ (k \in same /\ same = keys)
                THEN entries'[k].control = control[k] /\ entries'[k].components = components[k]
                ELSE entries'[k] = entries[k]
           /\ answer'.by = "append"
           /\ answer'.value = IF same = keys
                              THEN <<Assemble(control[first], components[first])>>
                              ELSE Failed

NodeKeys(n) == {k \in Cached : entries[k].control.reg[n].active}

Newer(n, files) == [reg |-> controlFile.reg[n],
                    head |-> files[n][controlFile.reg[n].epoch].head]

LEMMA NodeFollowed ==
    ASSUME NEW n \in ReplayNodes, NEW files, NEW arts, NodeAppended(n, files, arts)
    PROVE  \/ /\ entries' = entries /\ answer'.by = "append"
              /\ \/ /\ NodeKeys(n) = {}
                    /\ answer'.value = <<Assemble(ControlProjection(controlFile),
                                           ReadComponents(ControlProjection(controlFile), files))>>
                 \/ \E k \in NodeKeys(n) : entries[k].control.reg[n] # controlFile.reg[n]
           \/ /\ \A k \in NodeKeys(n) : entries[k].control.reg[n] = controlFile.reg[n]
              /\ Followed(NodeKeys(n), [k \in NodeKeys(n) |-> entries[k].control],
                          [k \in NodeKeys(n) |-> With(entries[k].components, n, Newer(n, files))])
<1>1. CASE NodeKeys(n) = {}
  <2>1. RefreshDerived(ControlProjection(controlFile), files, arts)
    BY <1>1 DEF NodeAppended, NodeKeys
  <2>2. QED
    BY <1>1, <2>1 DEF RefreshDerived, Answer
<1>2. CASE \E k \in NodeKeys(n) : entries[k].control.reg[n] # controlFile.reg[n]
  <2>1. NodeKeys(n) # {}
    BY <1>2
  <2>2. Answer("append", Failed) /\ UNCHANGED entries
    BY <1>2, <2>1 DEF NodeAppended, NodeKeys, UpdateEntries
  <2>3. QED
    BY <1>2, <2>2 DEF Answer
<1>3. CASE /\ NodeKeys(n) # {}
           /\ \A k \in NodeKeys(n) : entries[k].control.reg[n] = controlFile.reg[n]
  <2> DEFINE keys == NodeKeys(n)
             Comp(k) == With(entries[k].components, n, Newer(n, files))
             Written1(first) == Written(arts, entries[first].control, Comp(first), {n}, FALSE)
             Same(first) == {k \in keys : Assemble(entries[k].control, Comp(k)) =
                                 Assemble(entries[first].control, Comp(first))}
  <2>1. PICK first \in keys :
          /\ entries' = [k \in Cached |->
                IF k = first \/ (k \in Same(first) /\ Same(first) = keys)
                THEN Entry(entries[k].control, Comp(k), Written1(first)) ELSE entries[k]]
          /\ Answer("append", IF Same(first) = keys
                              THEN <<Assemble(entries[first].control, Comp(first))>>
                              ELSE Failed)
    BY <1>3 DEF NodeAppended, NodeKeys, UpdateEntries, Newer
  <2> DEFINE control == [k \in keys |-> entries[k].control]
             components == [k \in keys |-> Comp(k)]
             same == {k \in keys : Assemble(control[k], components[k]) =
                                   Assemble(control[first], components[first])}
  <2>2. \A k \in keys : control[k] = entries[k].control /\ components[k] = Comp(k)
    OBVIOUS
  <2> HIDE DEF control, components, Comp
  <2>3. same = Same(first)
    BY <2>2
  <2>4. \A k \in Cached :
          IF k = first \/ (k \in same /\ same = keys)
          THEN entries'[k].control = control[k] /\ entries'[k].components = components[k]
          ELSE entries'[k] = entries[k]
    <3>1. SUFFICES ASSUME NEW k \in Cached
                   PROVE  IF k = first \/ (k \in same /\ same = keys)
                          THEN /\ entries'[k].control = control[k]
                               /\ entries'[k].components = components[k]
                          ELSE entries'[k] = entries[k]
      OBVIOUS
    <3> HIDE DEF same, Same, Written1
    <3>2. CASE k = first \/ (k \in same /\ same = keys)
      <4>1. k \in keys
        BY <3>2 DEF same
      <4>2. entries'[k] = Entry(entries[k].control, Comp(k), Written1(first))
        BY <2>1, <2>3, <3>2
      <4>3. QED
        BY <2>2, <3>2, <4>1, <4>2, EntryIs
    <3>3. CASE ~(k = first \/ (k \in same /\ same = keys))
      BY <2>1, <2>3, <3>3
    <3>4. QED
      BY <3>2, <3>3
  <2>5. answer'.by = "append" /\ answer'.value = IF same = keys
                              THEN <<Assemble(control[first], components[first])>>
                              ELSE Failed
    BY <2>1, <2>2, <2>3 DEF Answer
  <2>6. DOMAIN entries' = Cached
    BY <2>1
  <2>7. Followed(keys, control, components)
    <3> HIDE DEF keys, Same
    <3>1. QED
      BY <2>4, <2>5, <2>6 DEF Followed
  <2>8. QED
    BY <1>3, <2>7 DEF control, components, Comp
<1>4. QED
  BY <1>1, <1>2, <1>3

ControlKeys == {k \in Cached : entries[k].control.head = controlFile.head}

NextComponent(k, control, n) ==
    IF SameRegistration(entries[k], control, n) THEN entries[k].components[n]
    ELSE ReadComponent(n, control, nodeFile)

NextComponents(k, control) == [n \in Active(control) |-> NextComponent(k, control, n)]

LEMMA ControlFollowed ==
    ASSUME NEW control, NEW arts, ControlAppended(control, arts)
    PROVE  \/ /\ entries' = entries /\ answer'.by = "append"
              /\ answer'.value = <<Assemble(control, ReadComponents(control, nodeFile))>>
              /\ \/ ControlKeys = {}
                 \/ \E k \in ControlKeys : Binding(entries[k].control) # Binding(control)
           \/ Followed(ControlKeys, [k \in ControlKeys |-> control],
                       [k \in ControlKeys |-> NextComponents(k, control)])
<1>1. CASE ControlKeys = {} \/ \E k \in ControlKeys : Binding(entries[k].control) # Binding(control)
  <2>1. RefreshDerived(control, nodeFile, arts)
    BY <1>1 DEF ControlAppended, ControlKeys, UpdateEntries
  <2>2. QED
    BY <1>1, <2>1 DEF RefreshDerived, Answer
<1>2. CASE ~(\/ ControlKeys = {}
             \/ \E k \in ControlKeys : Binding(entries[k].control) # Binding(control))
  <2> DEFINE keys == ControlKeys
             Comp(k) == NextComponents(k, control)
             Changed(k) == {n \in Active(control) : ~ SameRegistration(entries[k], control, n)}
             Written1(first) == Written(arts, control, Comp(first), Changed(first), FALSE)
             Same(first) == {k \in keys : Assemble(control, Comp(k)) =
                                 Assemble(control, Comp(first))}
  <2>1. PICK first \in keys :
          /\ entries' = [k \in Cached |->
                IF k = first \/ (k \in Same(first) /\ Same(first) = keys)
                THEN Entry(control, Comp(k), Written1(first)) ELSE entries[k]]
          /\ Answer("append", IF Same(first) = keys
                              THEN <<Assemble(control, Comp(first))>> ELSE Failed)
    BY <1>2 DEF ControlAppended, ControlKeys, UpdateEntries, NextComponents, NextComponent
  <2> DEFINE projections == [k \in keys |-> control]
             components == [k \in keys |-> Comp(k)]
             same == {k \in keys : Assemble(projections[k], components[k]) =
                                   Assemble(projections[first], components[first])}
  <2>2. \A k \in keys : projections[k] = control /\ components[k] = Comp(k)
    OBVIOUS
  <2> HIDE DEF projections, components, Comp
  <2>3. same = Same(first)
    BY <2>2
  <2>4. \A k \in Cached :
          IF k = first \/ (k \in same /\ same = keys)
          THEN entries'[k].control = projections[k] /\ entries'[k].components = components[k]
          ELSE entries'[k] = entries[k]
    <3>1. SUFFICES ASSUME NEW k \in Cached
                   PROVE  IF k = first \/ (k \in same /\ same = keys)
                          THEN /\ entries'[k].control = projections[k]
                               /\ entries'[k].components = components[k]
                          ELSE entries'[k] = entries[k]
      OBVIOUS
    <3> HIDE DEF same, Same, Written1
    <3>2. CASE k = first \/ (k \in same /\ same = keys)
      <4>1. k \in keys
        BY <3>2 DEF same
      <4>2. entries'[k] = Entry(control, Comp(k), Written1(first))
        BY <2>1, <2>3, <3>2
      <4>3. QED
        BY <2>2, <3>2, <4>1, <4>2, EntryIs
    <3>3. CASE ~(k = first \/ (k \in same /\ same = keys))
      BY <2>1, <2>3, <3>3
    <3>4. QED
      BY <3>2, <3>3
  <2>5. answer'.by = "append" /\ answer'.value = IF same = keys
                              THEN <<Assemble(projections[first], components[first])>>
                              ELSE Failed
    BY <2>1, <2>2, <2>3 DEF Answer
  <2>6. DOMAIN entries' = Cached
    BY <2>1
  <2>7. Followed(keys, projections, components)
    <3> HIDE DEF keys, Same
    <3>1. QED
      BY <2>4, <2>5, <2>6 DEF Followed
  <2>8. QED
    BY <2>7 DEF projections, components, Comp
<1>3. QED
  BY <1>1, <1>2

(* Entries that agree all follow. *)
LEMMA AgreedFollowed ==
    ASSUME NEW keys, NEW control, NEW components, Followed(keys, control, components),
           keys = Cached, NEW c, NEW comp,
           \A k \in keys : control[k] = c /\ components[k] = comp
    PROVE  /\ answer'.by = "append" /\ answer'.value = <<Assemble(c, comp)>>
           /\ DOMAIN entries' = Cached
           /\ \A k \in Cached : entries'[k].control = c /\ entries'[k].components = comp
<1>1. PICK first \in keys :
       LET same == {k \in keys : Assemble(control[k], components[k]) =
                                 Assemble(control[first], components[first])}
       IN  /\ DOMAIN entries' = Cached
           /\ \A k \in Cached :
                IF k = first \/ (k \in same /\ same = keys)
                THEN entries'[k].control = control[k] /\ entries'[k].components = components[k]
                ELSE entries'[k] = entries[k]
           /\ answer'.by = "append"
           /\ answer'.value = IF same = keys
                              THEN <<Assemble(control[first], components[first])>>
                              ELSE Failed
  BY DEF Followed
<1>2. {k \in keys : Assemble(control[k], components[k]) =
                    Assemble(control[first], components[first])} = keys
  OBVIOUS
<1>3. QED
  BY <1>1, <1>2

(* An entry may become what these say. *)
Follows(control, components, after) ==
    /\ components = [n \in Active(control) |->
                       [reg |-> control.reg[n], head |-> components[n].head]]
    /\ control.head \in Int /\ control.head <= after.head
    /\ control.head = after.head => control = ControlProjection(after)

LEMMA FollowedSound ==
    ASSUME NEW keys, NEW control, NEW components, Followed(keys, control, components),
           NEW after, \A k \in Cached : Formed(entries[k]) /\ Past(entries[k], after),
           \A k \in keys : Follows(control[k], components[k], after)
    PROVE  /\ answer'.by = "append" /\ DOMAIN entries' = Cached
           /\ \A k \in Cached : Formed(entries'[k]) /\ Past(entries'[k], after)
<1>1. /\ answer'.by = "append" /\ DOMAIN entries' = Cached
      /\ \A k \in Cached :
           \/ entries'[k] = entries[k]
           \/ k \in keys /\ entries'[k].control = control[k]
                         /\ entries'[k].components = components[k]
  BY DEF Followed
<1>2. SUFFICES ASSUME NEW k \in Cached PROVE Formed(entries'[k]) /\ Past(entries'[k], after)
  BY <1>1
<1>3. CASE entries'[k] = entries[k]
  BY <1>3
<1>4. CASE k \in keys /\ entries'[k].control = control[k]
                      /\ entries'[k].components = components[k]
  <2>1. Follows(entries'[k].control, entries'[k].components, after)
    BY <1>4
  <2>2. QED
    BY <2>1 DEF Follows, Formed, Past
<1>5. QED
  BY <1>1, <1>3, <1>4

(* A ledger of a node is written, one that was not glued. *)
LEMMA NodeWrite ==
    ASSUME FileShape, Unborn, NEW n \in ReplayNodes, NEW file \in FileType,
           nodeFile' = [nodeFile EXCEPT ![n][controlFile.reg[n].epoch] = file],
           nodeFile[n][controlFile.reg[n].epoch].tail # "glued",
           controlFile' = controlFile
    PROVE  /\ FileShape' /\ Unborn' /\ (Glued => Glued')
           /\ nodeFile'[n][controlFile.reg[n].epoch] = file
           /\ \A m \in ReplayNodes, e \in 1..MaxEpochs :
                m # n \/ e # controlFile.reg[n].epoch => nodeFile'[m][e] = nodeFile[m][e]
<1>1. PICK epoch \in 1..MaxEpochs : epoch = controlFile.reg[n].epoch
  BY DEF FileShape, ControlShape, Registration
<1>2. nodeFile' = [nodeFile EXCEPT ![n][epoch] = file]
  BY <1>1
<1>3. /\ nodeFile' \in [ReplayNodes -> [1..MaxEpochs -> FileType]]
      /\ nodeFile'[n][epoch] = file
      /\ \A m \in ReplayNodes, e \in 1..MaxEpochs :
           m # n \/ e # epoch => nodeFile'[m][e] = nodeFile[m][e]
  <2>1. PICK row : row = [nodeFile[n] EXCEPT ![epoch] = file]
    OBVIOUS
  <2>2. nodeFile' = [nodeFile EXCEPT ![n] = row]
    BY <1>2, <2>1
  <2>3. /\ row \in [1..MaxEpochs -> FileType] /\ row[epoch] = file
        /\ \A e \in 1..MaxEpochs : e # epoch => row[e] = nodeFile[n][e]
    BY <2>1 DEF FileShape
  <2>4. QED
    BY <2>2, <2>3 DEF FileShape
<1>4. FileShape'
  BY <1>3 DEF FileShape
<1>5. Unborn'
  <2>1. SUFFICES ASSUME NEW m \in ReplayNodes, NEW e \in 1..MaxEpochs,
                        e > controlFile.reg[m].epoch
                 PROVE  nodeFile'[m][e] = NoFile
    BY DEF Unborn
  <2>2. m # n \/ e # epoch
    BY <1>1, <2>1
  <2>3. QED
    BY <1>3, <2>1, <2>2 DEF Unborn
<1>6. Glued => Glued'
  <2>1. CASE controlFile.tail = "glued"
    BY <2>1 DEF Glued
  <2>2. ASSUME NEW m \in ReplayNodes, NEW e \in 1..MaxEpochs, nodeFile[m][e].tail = "glued"
        PROVE  nodeFile'[m][e].tail = "glued"
    <3>1. m # n \/ e # epoch
      BY <1>1, <2>2
    <3>2. QED
      BY <1>3, <2>2, <3>1
  <2>3. QED
    BY <2>1, <2>2 DEF Glued
<1>7. QED
  BY <1>1, <1>3, <1>4, <1>5, <1>6

(* The entries of a process that is not alone are not looked at. *)
LEMMA AllCurrent ==
    ASSUME CacheInv, ready, ~overtaken, ~Glued
    PROVE  \A k \in Cached : Current(entries[k], controlFile, nodeFile)
BY DEF CacheInv, Alone

(* Reading again after one ledger changed. *)
LEMMA ReadAgain ==
    ASSUME FileShape, NEW n \in ReplayNodes, controlFile.reg[n].active, NEW files,
           Readable(files[n][controlFile.reg[n].epoch]),
           \A m \in ReplayNodes : m # n =>
             files[m][controlFile.reg[m].epoch] = nodeFile[m][controlFile.reg[m].epoch]
    PROVE  With(ReadComponents(ControlProjection(controlFile), nodeFile), n, Newer(n, files)) =
             ReadComponents(ControlProjection(controlFile), files)
<1> DEFINE c == ControlProjection(controlFile)
<1>1. c.reg = controlFile.reg /\ n \in Active(c) /\ Active(c) \subseteq ReplayNodes
  BY DEF ControlProjection, Active
<1> HIDE DEF c
<1>2. Newer(n, files) = ReadComponent(n, c, files)
  BY <1>1 DEF Newer, ReadComponent
<1>3. \A m \in Active(c) : m # n => ReadComponent(m, c, files) = ReadComponent(m, c, nodeFile)
  BY <1>1 DEF ReadComponent
<1>4. With(ReadComponents(c, nodeFile), n, Newer(n, files)) =
        [m \in Active(c) |-> IF m = n THEN Newer(n, files) ELSE ReadComponent(m, c, nodeFile)]
  BY <1>1 DEF With, ReadComponents
<1>5. QED
  BY <1>2, <1>3, <1>4 DEF ReadComponents, c

LEMMA NodeAppendKeeps ==
    ASSUME ReplayInv, NEW n \in ReplayNodes, AppendNodeEventAtomicSync(n)
    PROVE  ReplayInv'
<1>1. /\ ready /\ Readable(controlFile) /\ controlFile.reg[n].active
      /\ Readable(nodeFile[n][controlFile.reg[n].epoch])
      /\ nodeFile' = NodeFileExtended(n)
      /\ UNCHANGED <<controlFile, ready, startup, overtaken, mishaps>>
  BY DEF AppendNodeEventAtomicSync, CanAppendNode, UnchangedLife
<1>2. PICK old \in FileType : old = nodeFile[n][controlFile.reg[n].epoch]
  BY DEF ReplayInv, CacheInv, FileShape, ControlShape, Registration
<1>3. PICK file \in FileType : file = Extended(old)
  BY ExtendedNode
<1>4. /\ file.head = old.head + 1
      /\ file.tail = IF old.tail = "bare" THEN "glued" ELSE "whole"
      /\ old.tail \in {"whole", "bare"} /\ old.head >= 0
  BY <1>1, <1>2, <1>3, ExtendedNode DEF Readable
<1>5. nodeFile' = [nodeFile EXCEPT ![n][controlFile.reg[n].epoch] = file]
  BY <1>1, <1>2, <1>3 DEF NodeFileExtended
<1>6. /\ FileShape' /\ Unborn' /\ (Glued => Glued')
      /\ nodeFile'[n][controlFile.reg[n].epoch] = file
      /\ \A m \in ReplayNodes, e \in 1..MaxEpochs :
           m # n \/ e # controlFile.reg[n].epoch => nodeFile'[m][e] = nodeFile[m][e]
  BY <1>1, <1>2, <1>4, <1>5, NodeWrite DEF ReplayInv, CacheInv
<1> DEFINE c == ControlProjection(controlFile)
           files == nodeFile'
           keys == NodeKeys(n)
           controls == [k \in keys |-> entries[k].control]
           components == [k \in keys |-> With(entries[k].components, n, Newer(n, files))]
<1>7. PICK arts : NodeAppended(n, files, arts)
  BY <1>1 DEF AppendNodeEventAtomicSync
<1>8. \/ /\ entries' = entries /\ answer'.by = "append"
         /\ \/ keys = {} /\ answer'.value = <<Assemble(c, ReadComponents(c, files))>>
            \/ \E k \in keys : entries[k].control.reg[n] # controlFile.reg[n]
      \/ /\ \A k \in keys : entries[k].control.reg[n] = controlFile.reg[n]
         /\ Followed(keys, controls, components)
  BY <1>7, NodeFollowed
<1> HIDE DEF c, controls, components, files
<1>9. /\ answer'.by = "append" /\ DOMAIN entries' = Cached
      /\ \A k \in Cached : Formed(entries'[k]) /\ Past(entries'[k], controlFile)
  <2>1. \A k \in Cached : Formed(entries[k]) /\ Past(entries[k], controlFile)
    BY DEF ReplayInv, CacheInv, EntriesOf
  <2>2. CASE entries' = entries /\ answer'.by = "append"
    BY <2>1, <2>2 DEF Cached
  <2>3. CASE /\ \A k \in keys : entries[k].control.reg[n] = controlFile.reg[n]
             /\ Followed(keys, controls, components)
    <3>1. ASSUME NEW k \in keys PROVE Follows(controls[k], components[k], controlFile)
      <4>1. PICK e : e = entries[k]
        OBVIOUS
      <4>2. PICK d : d = Newer(n, files)
        OBVIOUS
      <4>3. /\ Formed(e) /\ Past(e, controlFile) /\ n \in Active(e.control)
            /\ d = [reg |-> e.control.reg[n], head |-> d.head]
        BY <2>1, <2>3, <4>1, <4>2 DEF NodeKeys, Active, Newer
      <4>4. controls[k] = e.control /\ components[k] = With(e.components, n, d)
        BY <4>1, <4>2 DEF controls, components
      <4>5. With(e.components, n, d) =
              [m \in Active(e.control) |-> IF m = n THEN d ELSE e.components[m]]
        BY <4>3 DEF With, Formed
      <4>6. components[k] = [m \in Active(e.control) |->
                               [reg |-> e.control.reg[m], head |-> components[k][m].head]]
        <5>1. ASSUME NEW m \in Active(e.control)
              PROVE  components[k][m] = [reg |-> e.control.reg[m], head |-> components[k][m].head]
          <6>1. CASE m = n
            <7>1. components[k][m] = d
              BY <4>4, <4>5, <6>1
            <7>2. QED
              BY <4>3, <6>1, <7>1
          <6>2. CASE m # n
            <7>1. components[k][m] = e.components[m]
              BY <4>4, <4>5, <6>2
            <7>2. e.components[m] = [reg |-> e.control.reg[m], head |-> e.components[m].head]
              BY <4>3 DEF Formed
            <7>3. QED
              BY <7>1, <7>2
          <6>3. QED
            BY <6>1, <6>2
        <5>2. QED
          BY <4>4, <4>5, <5>1
      <4>7. QED
        BY <4>3, <4>4, <4>6 DEF Follows, Past
    <3>2. QED
      BY <2>1, <2>3, <3>1, FollowedSound
  <2>4. QED
    BY <1>8, <2>2, <2>3
<1>10. Cached' \subseteq KeysOf(controlFile)'
  BY <1>1, <1>9 DEF ReplayInv, CacheInv, Cached, KeysOf, Fallback, Explicit
<1>11. EntriesOf(Cached, entries, controlFile)'
  BY <1>1, <1>9 DEF EntriesOf, Cached
<1>12. Alone' /\ AnswersAreReplays'
  <2>1. CASE overtaken' \/ Glued'
    BY <1>9, <2>1 DEF Alone, AnswersAreReplays
  <2>2. CASE ~overtaken' /\ ~Glued'
    <3>1. \A k \in Cached : Current(entries[k], controlFile, nodeFile)
      BY <1>1, <1>6, <2>2, AllCurrent DEF ReplayInv
    <3>2. keys = Cached /\ \A k \in keys : entries[k].control.reg[n] = controlFile.reg[n]
      BY <1>1, <3>1 DEF NodeKeys, Current, ControlProjection
    <3>3. Readable(file)
      <4>1. file.tail # "glued"
        BY <1>1, <1>6, <2>2 DEF Glued, ReplayInv, CacheInv, FileShape, ControlShape,
           Registration
      <4>2. QED
        BY <1>4, <4>1 DEF Readable, FileType
    <3>4. With(ReadComponents(c, nodeFile), n, Newer(n, files)) = ReadComponents(c, files)
      <4>1. \A m \in ReplayNodes : controlFile.reg[m].epoch \in 1..MaxEpochs
        BY DEF ReplayInv, CacheInv, FileShape, ControlShape, Registration
      <4>2. QED
        BY <1>1, <1>6, <3>3, <4>1, ReadAgain DEF ReplayInv, CacheInv, c, files
    <3>5. /\ answer'.value = <<Assemble(c, ReadComponents(c, files))>>
          /\ \A k \in DOMAIN entries' : Current(entries'[k], controlFile, files)
      <4>1. CASE entries' = entries /\ keys = {} /\
                 answer'.value = <<Assemble(c, ReadComponents(c, files))>>
        BY <3>2, <4>1 DEF Cached
      <4>2. CASE Followed(keys, controls, components)
        <5>1. \A k \in keys : controls[k] = c /\ components[k] = ReadComponents(c, files)
          BY <3>1, <3>2, <3>4 DEF Current, controls, components, c
        <5>2. /\ answer'.value = <<Assemble(c, ReadComponents(c, files))>>
              /\ DOMAIN entries' = Cached
              /\ \A k \in Cached : /\ entries'[k].control = c
                                   /\ entries'[k].components = ReadComponents(c, files)
          BY <3>2, <4>2, <5>1, AgreedFollowed
        <5>3. QED
          BY <5>2 DEF Current, c
      <4>3. QED
        BY <1>8, <3>2, <4>1, <4>2
    <3>6. Alone'
      BY <1>1, <3>5 DEF Alone, Cached, files
    <3>7. AnswersAreReplays'
      BY <1>1, <3>5 DEF AnswersAreReplays, ReplayOf, c, files
    <3>8. QED
      BY <3>6, <3>7
  <2>3. QED
    BY <2>1, <2>2
<1>13. QED
  BY <1>6, <1>10, <1>11, <1>12 DEF ReplayInv, CacheInv

LEMMA AfterEventIs ==
    ASSUME ControlShape(controlFile), NEW removed
    PROVE  /\ ControlShape(AfterEvent(removed))
           /\ AfterEvent(removed).head = controlFile.head + 1
           /\ AfterEvent(removed).tail = IF controlFile.tail = "bare" THEN "glued" ELSE "whole"
           /\ AfterEvent(removed).binding = controlFile.binding
           /\ \A n \in ReplayNodes :
                AfterEvent(removed).reg[n].epoch = controlFile.reg[n].epoch
<1>1. PICK file : file = Extended(controlFile)
  OBVIOUS
<1>2. /\ ControlShape(file) /\ file.head = controlFile.head + 1
      /\ file.tail = IF controlFile.tail = "bare" THEN "glued" ELSE "whole"
      /\ file.binding = controlFile.binding /\ file.reg = controlFile.reg
  BY <1>1, ExtendedControl
<1>3. PICK reg : reg = [n \in ReplayNodes |->
                          [file.reg[n] EXCEPT !.active = @ /\ n \notin removed]]
  OBVIOUS
<1>4. ASSUME NEW n \in ReplayNodes
      PROVE  reg[n] \in Registration /\ reg[n].epoch = controlFile.reg[n].epoch
  <2>1. PICK active \in BOOLEAN : active = (file.reg[n].active /\ n \notin removed)
    OBVIOUS
  <2>2. reg[n] = [file.reg[n] EXCEPT !.active = active]
    BY <1>3, <2>1
  <2>3. file.reg[n] \in Registration
    BY <1>2 DEF ControlShape
  <2>4. QED
    BY <1>2, <2>2, <2>3 DEF Registration
<1>5. reg \in [ReplayNodes -> Registration]
  BY <1>3, <1>4
<1>6. AfterEvent(removed) = [file EXCEPT !.reg = reg]
  BY <1>1, <1>2, <1>3 DEF AfterEvent
<1>7. QED
  BY <1>2, <1>4, <1>5, <1>6 DEF ControlShape

(* The control ledger grows, and no incarnation begins. *)
LEMMA ControlWrite ==
    ASSUME FileShape, Unborn, ControlShape(controlFile'), nodeFile' = nodeFile,
           controlFile.tail # "glued",
           \A n \in ReplayNodes : controlFile'.reg[n].epoch = controlFile.reg[n].epoch
    PROVE  FileShape' /\ Unborn' /\ (Glued => Glued')
BY DEF FileShape, Unborn, Glued

LEMMA NextComponentIs ==
    ASSUME NEW k \in Cached, Formed(entries[k]), NEW control, NEW n \in Active(control)
    PROVE  NextComponent(k, control, n) =
             [reg |-> control.reg[n], head |-> NextComponent(k, control, n).head]
<1>1. CASE SameRegistration(entries[k], control, n)
  <2>1. PICK e : e = entries[k]
    OBVIOUS
  <2>2. n \in DOMAIN e.components /\ e.components[n].reg = control.reg[n]
    BY <1>1, <2>1 DEF SameRegistration
  <2>3. e.components[n] = [reg |-> e.control.reg[n], head |-> e.components[n].head]
    BY <2>1, <2>2 DEF Formed
  <2>4. e.components[n] = [reg |-> control.reg[n], head |-> e.components[n].head]
    BY <2>2, <2>3
  <2>5. QED
    BY <1>1, <2>1, <2>4 DEF NextComponent
<1>2. CASE ~SameRegistration(entries[k], control, n)
  BY <1>2 DEF NextComponent, ReadComponent
<1>3. QED
  BY <1>1, <1>2

LEMMA NextComponentsAre ==
    ASSUME NEW k \in Cached, Current(entries[k], controlFile, nodeFile), NEW control
    PROVE  NextComponents(k, control) = ReadComponents(control, nodeFile)
<1>1. ASSUME NEW n \in Active(control)
      PROVE  NextComponent(k, control, n) = ReadComponent(n, control, nodeFile)
  <2>1. CASE SameRegistration(entries[k], control, n)
    <3>1. PICK e : e = entries[k]
      OBVIOUS
    <3>2. PICK c : c = ControlProjection(controlFile)
      OBVIOUS
    <3>3. n \in DOMAIN e.components /\ e.components[n].reg = control.reg[n]
      BY <2>1, <3>1 DEF SameRegistration
    <3>4. e.components[n] = ReadComponent(n, c, nodeFile)
      BY <3>1, <3>2, <3>3 DEF Current, ReadComponents
    <3>5. c.reg[n] = control.reg[n]
      BY <3>3, <3>4 DEF ReadComponent
    <3>6. e.components[n] = ReadComponent(n, control, nodeFile)
      BY <3>4, <3>5 DEF ReadComponent
    <3>7. QED
      BY <2>1, <3>1, <3>6 DEF NextComponent
  <2>2. CASE ~SameRegistration(entries[k], control, n)
    BY <2>2 DEF NextComponent
  <2>3. QED
    BY <2>1, <2>2
<1>2. QED
  BY <1>1 DEF NextComponents, ReadComponents

LEMMA ControlAppendKeeps ==
    ASSUME ReplayInv, AppendControlEventAtomicSync
    PROVE  ReplayInv'
<1>1. PICK removed, arts :
        /\ controlFile' = AfterEvent(removed)
        /\ ControlAppended(ControlProjection(AfterEvent(removed)), arts)
  BY DEF AppendControlEventAtomicSync
<1>2. /\ ready /\ Readable(controlFile)
      /\ UNCHANGED <<nodeFile, ready, startup, overtaken, mishaps>>
  BY DEF AppendControlEventAtomicSync, CanAppendControl, UnchangedLife
<1>3. PICK after : after = AfterEvent(removed)
  OBVIOUS
<1>4. /\ ControlShape(after) /\ after.head = controlFile.head + 1
      /\ after.binding = controlFile.binding
      /\ \A n \in ReplayNodes : after.reg[n].epoch = controlFile.reg[n].epoch
  BY <1>3, AfterEventIs DEF ReplayInv, CacheInv, FileShape
<1>5. controlFile' = after /\ controlFile.head \in Int
  BY <1>1, <1>3 DEF ReplayInv, CacheInv, FileShape, ControlShape
<1>6. FileShape' /\ Unborn' /\ (Glued => Glued')
  BY <1>2, <1>4, <1>5, ControlWrite DEF ReplayInv, CacheInv, Readable
<1> DEFINE c == ControlProjection(after)
           keys == ControlKeys
           controls == [k \in keys |-> c]
           components == [k \in keys |-> NextComponents(k, c)]
<1>7. \/ /\ entries' = entries /\ answer'.by = "append"
         /\ answer'.value = <<Assemble(c, ReadComponents(c, nodeFile))>>
         /\ \/ keys = {}
            \/ \E k \in keys : Binding(entries[k].control) # Binding(c)
      \/ Followed(keys, controls, components)
  BY <1>1, <1>3, ControlFollowed
<1>8. c.head = after.head /\ c.binding = after.binding
  BY DEF ControlProjection
<1>9. \A k \in Cached : Formed(entries[k]) /\ Past(entries[k], after)
  <2>1. \A k \in Cached : Formed(entries[k]) /\ Past(entries[k], controlFile)
    BY DEF ReplayInv, CacheInv, EntriesOf
  <2>2. QED
    BY <1>4, <1>5, <2>1 DEF Past
<1> HIDE DEF controls, components
<1>10. /\ answer'.by = "append" /\ DOMAIN entries' = Cached
       /\ \A k \in Cached : Formed(entries'[k]) /\ Past(entries'[k], after)
  <2>1. CASE entries' = entries /\ answer'.by = "append"
    BY <1>9, <2>1 DEF Cached
  <2>2. CASE Followed(keys, controls, components)
    <3>1. ASSUME NEW k \in keys PROVE Follows(controls[k], components[k], after)
      <4>1. k \in Cached
        BY DEF ControlKeys
      <4>2. controls[k] = c /\ components[k] = NextComponents(k, c)
        BY DEF controls, components
      <4>3. \A n \in Active(c) : NextComponent(k, c, n) =
              [reg |-> c.reg[n], head |-> NextComponent(k, c, n).head]
        BY <1>9, <4>1, NextComponentIs
      <4> HIDE DEF c
      <4>4. NextComponents(k, c) = [n \in Active(c) |->
              [reg |-> c.reg[n], head |-> NextComponents(k, c)[n].head]]
        BY <4>3 DEF NextComponents
      <4>5. QED
        BY <1>4, <1>5, <1>8, <4>2, <4>4 DEF Follows, c
    <3>2. QED
      BY <1>9, <2>2, <3>1, FollowedSound
  <2>3. QED
    BY <1>7, <2>1, <2>2
<1>11. Cached' \subseteq KeysOf(controlFile)'
  BY <1>2, <1>4, <1>5, <1>10 DEF ReplayInv, CacheInv, Cached, KeysOf, Fallback, Explicit,
     Binding
<1>12. EntriesOf(Cached, entries, controlFile)'
  BY <1>5, <1>10 DEF EntriesOf, Cached
<1>13. Alone' /\ AnswersAreReplays'
  <2>1. CASE overtaken' \/ Glued'
    BY <1>10, <2>1 DEF Alone, AnswersAreReplays
  <2>2. CASE ~overtaken' /\ ~Glued'
    <3>1. \A k \in Cached : Current(entries[k], controlFile, nodeFile)
      BY <1>2, <1>6, <2>2, AllCurrent DEF ReplayInv
    <3>2. keys = Cached /\ \A k \in keys : Binding(entries[k].control) = Binding(c)
      BY <1>4, <1>8, <3>1 DEF ControlKeys, Current, ControlProjection, Binding
    <3>3. /\ answer'.value = <<Assemble(c, ReadComponents(c, nodeFile))>>
          /\ \A k \in DOMAIN entries' : Current(entries'[k], after, nodeFile)
      <4>1. CASE /\ entries' = entries
                 /\ answer'.value = <<Assemble(c, ReadComponents(c, nodeFile))>>
                 /\ \/ keys = {}
                    \/ \E k \in keys : Binding(entries[k].control) # Binding(c)
        BY <3>2, <4>1 DEF Cached
      <4>2. CASE Followed(keys, controls, components)
        <5>1. \A k \in keys : controls[k] = c /\ components[k] = ReadComponents(c, nodeFile)
          BY <3>1, <3>2, NextComponentsAre DEF controls, components
        <5>2. /\ answer'.value = <<Assemble(c, ReadComponents(c, nodeFile))>>
              /\ DOMAIN entries' = Cached
              /\ \A k \in Cached : /\ entries'[k].control = c
                                   /\ entries'[k].components = ReadComponents(c, nodeFile)
          BY <3>2, <4>2, <5>1, AgreedFollowed
        <5>3. QED
          BY <5>2 DEF Current
      <4>3. QED
        BY <1>7, <4>1, <4>2
    <3>4. Alone'
      BY <1>2, <1>5, <3>3 DEF Alone, Cached
    <3>5. AnswersAreReplays'
      BY <1>2, <1>5, <3>3 DEF AnswersAreReplays, ReplayOf
    <3>6. QED
      BY <3>4, <3>5
  <2>3. QED
    BY <2>1, <2>2
<1>14. QED
  BY <1>6, <1>11, <1>12, <1>13 DEF ReplayInv, CacheInv

-----------------------------------------------------------------------------
(* Persisting the run. *)

(* What a persist makes of the control ledger: no incarnation goes back, and    *)
(* one that stays keeps its registration.                                       *)
Rewritten(after) ==
    /\ ControlShape(after) /\ after.head = controlFile.head + 1
    /\ \A m \in ReplayNodes : \/ after.reg[m] = controlFile.reg[m]
                              \/ after.reg[m].epoch > controlFile.reg[m].epoch

LEMMA ReboundIs ==
    ASSUME ControlShape(controlFile), NEW n \in ReplayNodes,
           controlFile.reg[n].epoch < MaxEpochs
    PROVE  Rewritten(Rebound(n)) /\ Rebound(n).binding = controlFile.binding
<1>1. PICK old \in Registration : old = controlFile.reg[n]
  BY DEF ControlShape
<1>2. PICK e \in 1..MaxEpochs : e = old.epoch + 1
  BY <1>1, EpochsAssumption DEF Registration
<1>3. PICK new \in Registration : new = [epoch |-> e, active |-> TRUE]
  BY <1>2 DEF Registration
<1>4. PICK head \in Int : head = controlFile.head + 1
  BY DEF ControlShape
<1>5. PICK reg : reg = [controlFile.reg EXCEPT ![n] = new]
  OBVIOUS
<1>6. Rebound(n) = [controlFile EXCEPT !.head = head, !.tail = "whole", !.reg = reg]
  BY <1>1, <1>2, <1>3, <1>4, <1>5 DEF Rebound
<1>7. /\ reg \in [ReplayNodes -> Registration] /\ reg[n] = new
      /\ \A m \in ReplayNodes : m # n => reg[m] = controlFile.reg[m]
  BY <1>5 DEF ControlShape
<1>8. new.epoch > old.epoch
  BY <1>2, <1>3 DEF Registration
<1>9. QED
  BY <1>1, <1>4, <1>6, <1>7, <1>8 DEF ControlShape, Rewritten

LEMMA PersistedIs ==
    ASSUME FileShape, NEW control, control.reg \in [ReplayNodes -> Registration]
    PROVE  /\ PersistedFiles(control) \in [ReplayNodes -> [1..MaxEpochs -> FileType]]
           /\ \A m \in ReplayNodes, e \in 1..MaxEpochs :
                e # control.reg[m].epoch \/ ~control.reg[m].active =>
                  PersistedFiles(control)[m][e] = nodeFile[m][e]
<1>1. ASSUME NEW m \in ReplayNodes
      PROVE  /\ PersistedFiles(control)[m] \in [1..MaxEpochs -> FileType]
             /\ \A e \in 1..MaxEpochs :
                  e # control.reg[m].epoch \/ ~control.reg[m].active =>
                    PersistedFiles(control)[m][e] = nodeFile[m][e]
  <2>1. PICK epoch \in 1..MaxEpochs : epoch = control.reg[m].epoch
    BY DEF Registration
  <2>2. PICK old \in FileType : old = nodeFile[m][epoch]
    BY DEF FileShape
  <2>3. PICK head \in Int : head = IF old = NoFile THEN 1 ELSE old.head
    BY DEF FileType
  <2>4. PICK file \in FileType : file = IF ~control.reg[m].active THEN old
                                        ELSE [head |-> head, tail |-> "whole"]
    BY DEF FileType
  <2>5. nodeFile[m] \in [1..MaxEpochs -> FileType]
    BY DEF FileShape
  <2>6. PersistedFiles(control)[m] = [nodeFile[m] EXCEPT ![epoch] = file]
    BY <2>1, <2>2, <2>3, <2>4, <2>5 DEF PersistedFiles
  <2>7. QED
    BY <2>1, <2>2, <2>4, <2>5, <2>6
<1>2. PersistedFiles(control) = [m \in ReplayNodes |-> PersistedFiles(control)[m]]
  BY DEF PersistedFiles
<1>3. QED
  BY <1>1, <1>2

LEMMA PersistKeeps ==
    ASSUME ReplayInv, NEW after, PersistAggregateRunState(after), Rewritten(after),
           LedgersReadable, ready' = FALSE, overtaken' = overtaken,
           \/ Cached = {}
           \/ after.binding = controlFile.binding /\ startup' = startup
    PROVE  ReplayInv'
<1> DEFINE control == ControlProjection(after)
           files == PersistedFiles(control)
           components == ReadComponents(control, files)
           arts == Written(artifacts, control, components, DOMAIN components, TRUE)
<1>1. /\ controlFile' = after /\ nodeFile' = files
      /\ Installed(Fallback(control), Entry(control, components, arts))
      /\ Answer("persist", <<Assemble(control, components)>>)
  BY DEF PersistAggregateRunState
<1>2. control.reg = after.reg /\ control.reg \in [ReplayNodes -> Registration]
  BY DEF ControlProjection, Rewritten, ControlShape
<1>3. FileShape /\ Unborn /\ controlFile.head \in Int
  BY DEF ReplayInv, CacheInv, FileShape, ControlShape
<1>4. /\ files \in [ReplayNodes -> [1..MaxEpochs -> FileType]]
      /\ \A m \in ReplayNodes, e \in 1..MaxEpochs :
           e # after.reg[m].epoch \/ ~after.reg[m].active => files[m][e] = nodeFile[m][e]
  BY <1>2, <1>3, PersistedIs
<1>5. Fallback(control) = Fallback(after)
  BY DEF Fallback, Binding, ControlProjection
<1>6. PICK new : new = Entry(control, components, arts)
  OBVIOUS
<1>7. Current(new, after, files)
  <2> HIDE DEF arts
  <2>1. new.control = control /\ new.components = components
    BY <1>6, EntryIs
  <2>2. QED
    BY <2>1 DEF Current
<1>8. Formed(new) /\ Past(new, after)
  BY <1>7, CurrentSound DEF Rewritten, ControlShape
<1>9. /\ DOMAIN entries' = {Fallback(after)} \cup Cached
      /\ entries'[Fallback(after)] = new
      /\ \A k \in Cached : k # Fallback(after) => entries'[k] = entries[k]
  BY <1>1, <1>5, <1>6 DEF Installed, With, Cached
<1>10. answer'.value = <<ReplayOf(after, files)>>
  BY <1>1 DEF Answer, ReplayOf
<1> HIDE DEF control, files, components, arts
<1>11. FileShape'
  BY <1>1, <1>4 DEF FileShape, Rewritten
<1>12. \A m \in ReplayNodes : /\ after.reg[m].epoch \in 1..MaxEpochs
                              /\ controlFile.reg[m].epoch \in 1..MaxEpochs
                              /\ after.reg[m].epoch >= controlFile.reg[m].epoch
  <2>1. SUFFICES ASSUME NEW m \in ReplayNodes
                 PROVE  /\ after.reg[m].epoch \in 1..MaxEpochs
                        /\ controlFile.reg[m].epoch \in 1..MaxEpochs
                        /\ after.reg[m].epoch >= controlFile.reg[m].epoch
    OBVIOUS
  <2>2. after.reg[m] \in Registration /\ controlFile.reg[m] \in Registration
    BY <1>2, <1>3 DEF FileShape, ControlShape
  <2>3. after.reg[m].epoch \in 1..MaxEpochs /\ controlFile.reg[m].epoch \in 1..MaxEpochs
    BY <2>2 DEF Registration
  <2>4. \/ after.reg[m] = controlFile.reg[m]
        \/ after.reg[m].epoch > controlFile.reg[m].epoch
    BY DEF Rewritten
  <2>5. QED
    BY <2>3, <2>4
<1>13. Unborn'
  <2>1. SUFFICES ASSUME NEW m \in ReplayNodes, NEW e \in 1..MaxEpochs,
                        e > after.reg[m].epoch
                 PROVE  files[m][e] = NoFile
    BY <1>1 DEF Unborn
  <2>2. e # after.reg[m].epoch /\ e > controlFile.reg[m].epoch
    BY <1>12, <2>1
  <2>3. QED
    BY <1>3, <1>4, <2>2 DEF Unborn
<1>14. Glued => Glued'
  <2>1. SUFFICES ASSUME Glued PROVE Glued'
    OBVIOUS
  <2>2. controlFile.tail # "glued"
    BY DEF LedgersReadable, Readable
  <2>3. PICK m \in ReplayNodes, e \in 1..MaxEpochs : nodeFile[m][e].tail = "glued"
    BY <2>1, <2>2 DEF Glued
  <2>4. e # after.reg[m].epoch \/ ~after.reg[m].active
    <3>1. CASE after.reg[m] = controlFile.reg[m]
      BY <2>3, <3>1 DEF LedgersReadable, Readable, Active
    <3>2. CASE after.reg[m].epoch > controlFile.reg[m].epoch
      <4>1. SUFFICES ASSUME e = after.reg[m].epoch PROVE FALSE
        OBVIOUS
      <4>2. nodeFile[m][e] = NoFile
        BY <1>3, <3>2, <4>1 DEF Unborn
      <4>3. QED
        BY <2>3, <4>2 DEF NoFile
    <3>3. QED
      BY <3>1, <3>2 DEF Rewritten
  <2>5. files[m][e].tail = "glued"
    BY <1>4, <2>3, <2>4
  <2>6. QED
    BY <1>1, <2>5 DEF Glued
<1>15. Cached' \subseteq KeysOf(controlFile)'
  BY <1>1, <1>9 DEF ReplayInv, CacheInv, Cached, KeysOf, Fallback, Binding, Explicit
<1>16. EntriesOf(Cached, entries, controlFile)'
  <2>1. \A k \in Cached : Formed(entries[k]) /\ Past(entries[k], after)
    BY <1>3 DEF ReplayInv, CacheInv, EntriesOf, Past, Rewritten
  <2>2. \A k \in DOMAIN entries' : Formed(entries'[k]) /\ Past(entries'[k], after)
    BY <1>8, <1>9, <2>1
  <2>3. QED
    BY <1>1, <2>2 DEF EntriesOf, Cached
<1>17. Alone'
  BY <1>1, <1>7, <1>9 DEF Alone
<1>18. AnswersAreReplays'
  BY <1>1, <1>10 DEF AnswersAreReplays
<1>19. QED
  BY <1>11, <1>13, <1>15, <1>16, <1>17, <1>18 DEF ReplayInv, CacheInv

LEMMA RebindKeeps ==
    ASSUME ReplayInv, NEW n \in ReplayNodes, RebindNode(n)
    PROVE  ReplayInv'
<1>1. /\ PersistAggregateRunState(Rebound(n)) /\ LedgersReadable
      /\ controlFile.reg[n].epoch < MaxEpochs
      /\ ready' = FALSE /\ UNCHANGED <<startup, overtaken>>
  BY DEF RebindNode, CanRebind, UnchangedLife
<1>2. PICK after : after = Rebound(n)
  OBVIOUS
<1>3. Rewritten(after) /\ after.binding = controlFile.binding
  BY <1>1, <1>2, ReboundIs DEF ReplayInv, CacheInv, FileShape
<1>4. QED
  BY <1>1, <1>2, <1>3, PersistKeeps

LEMMA TakeOverKeeps ==
    ASSUME ReplayInv, TakeOver
    PROVE  ReplayInv'
<1>1. PICK after : after = [controlFile EXCEPT !.head = @ + 1, !.tail = "whole",
                                               !.binding = @ + 1]
  OBVIOUS
<1>2. /\ PersistAggregateRunState(after) /\ LedgersReadable /\ Cached = {}
      /\ ready' = FALSE /\ overtaken' = overtaken
  BY <1>1 DEF TakeOver
<1>3. Rewritten(after)
  <2>1. ControlShape(controlFile)
    BY DEF ReplayInv, CacheInv, FileShape
  <2>2. PICK head \in Int : head = controlFile.head + 1
    BY <2>1 DEF ControlShape
  <2>3. PICK binding : binding = controlFile.binding + 1
    OBVIOUS
  <2>4. after = [controlFile EXCEPT !.head = head, !.tail = "whole", !.binding = binding]
    BY <1>1, <2>2, <2>3
  <2>5. QED
    BY <2>1, <2>2, <2>4 DEF Rewritten, ControlShape
<1>4. QED
  BY <1>2, <1>3, PersistKeeps

-----------------------------------------------------------------------------
(* Mishaps. *)

LEMMA FreshKeeps ==
    ASSUME FileShape', Unborn', FreshProcess
    PROVE  ReplayInv'
<1>1. entries' = << >> /\ answer' = NoAnswer
  BY DEF FreshProcess
<1>2. Cached' = {}
  BY <1>1 DEF Cached
<1>3. QED
  BY <1>1, <1>2 DEF ReplayInv, CacheInv, EntriesOf, Alone, AnswersAreReplays

LEMMA TornNode ==
    ASSUME NEW file \in FileType, file.tail \in {"whole", "bare"},
           NEW torn \in Torn(file, Extended(file))
    PROVE  torn \in FileType
<1>1. Extended(file) \in FileType
  BY ExtendedNode
<1>2. QED
  BY <1>1 DEF Torn, FileType

LEMMA TornControl ==
    ASSUME ControlShape(controlFile), NEW torn \in Torn(controlFile, AfterEvent({}))
    PROVE  /\ ControlShape(torn)
           /\ \A n \in ReplayNodes : torn.reg[n].epoch = controlFile.reg[n].epoch
<1>1. PICK whole : whole = AfterEvent({})
  OBVIOUS
<1>2. /\ ControlShape(whole)
      /\ \A n \in ReplayNodes : whole.reg[n].epoch = controlFile.reg[n].epoch
  BY <1>1, AfterEventIs
<1>3. torn \in {whole, [whole EXCEPT !.tail = "bare"], [controlFile EXCEPT !.tail = "torn"]}
  BY <1>1 DEF Torn
<1>4. QED
  BY <1>2, <1>3 DEF ControlShape

LEMMA CrashKeeps ==
    ASSUME ReplayInv,
           \/ Restart \/ CrashInControlAppend
           \/ \E n \in ReplayNodes : CrashInNodeAppend(n) \/ CrashInPersist(n)
    PROVE  ReplayInv'
<1>1. FileShape /\ Unborn /\ FreshProcess
  BY DEF ReplayInv, CacheInv, Restart, CrashInControlAppend, CrashInNodeAppend, CrashInPersist
<1>2. CASE Restart
  <2>1. FileShape' /\ Unborn'
    BY <1>1, <1>2 DEF Restart, UnchangedFiles, FileShape, Unborn
  <2>2. QED
    BY <1>1, <2>1, FreshKeeps
<1>3. CASE CrashInControlAppend
  <2>1. PICK torn : torn = controlFile'
    OBVIOUS
  <2>2. torn \in Torn(controlFile, AfterEvent({})) /\ nodeFile' = nodeFile
    BY <1>3, <2>1 DEF CrashInControlAppend
  <2>3. /\ ControlShape(torn)
        /\ \A n \in ReplayNodes : torn.reg[n].epoch = controlFile.reg[n].epoch
    BY <1>1, <2>2, TornControl DEF FileShape
  <2>4. FileShape' /\ Unborn'
    BY <1>1, <2>1, <2>2, <2>3 DEF FileShape, Unborn
  <2>5. QED
    BY <1>1, <2>4, FreshKeeps
<1>4. ASSUME NEW n \in ReplayNodes, CrashInNodeAppend(n)
      PROVE  ReplayInv'
  <2>1. PICK old \in FileType : old = nodeFile[n][controlFile.reg[n].epoch]
    BY <1>1 DEF FileShape, ControlShape, Registration
  <2>2. PICK file \in Torn(old, Extended(old)) :
          nodeFile' = [nodeFile EXCEPT ![n][controlFile.reg[n].epoch] = file]
    BY <1>4, <2>1 DEF CrashInNodeAppend
  <2>3. old.tail = "whole" /\ controlFile' = controlFile
    BY <1>4, <2>1 DEF CrashInNodeAppend
  <2>4. file \in FileType
    BY <2>2, <2>3, TornNode
  <2>5. FileShape' /\ Unborn'
    BY <1>1, <2>1, <2>2, <2>3, <2>4, NodeWrite
  <2>6. QED
    BY <1>1, <2>5, FreshKeeps
<1>5. ASSUME NEW n \in ReplayNodes, CrashInPersist(n)
      PROVE  ReplayInv'
  <2>1. PICK after : after = Rebound(n)
    OBVIOUS
  <2>2. /\ controlFile' = after /\ nodeFile' = nodeFile
        /\ controlFile.reg[n].epoch < MaxEpochs
    BY <1>5, <2>1 DEF CrashInPersist, CanRebind
  <2>3. Rewritten(after)
    BY <1>1, <2>1, <2>2, ReboundIs DEF FileShape
  <2>4. FileShape'
    BY <1>1, <2>2, <2>3 DEF FileShape, Rewritten
  <2>5. Unborn'
    <3>1. SUFFICES ASSUME NEW m \in ReplayNodes, NEW e \in 1..MaxEpochs,
                          e > after.reg[m].epoch
                   PROVE  nodeFile[m][e] = NoFile
      BY <2>2 DEF Unborn
    <3>2. after.reg[m] \in Registration /\ controlFile.reg[m] \in Registration
      BY <1>1, <2>3 DEF FileShape, ControlShape, Rewritten
    <3>3. after.reg[m].epoch \in 1..MaxEpochs /\ controlFile.reg[m].epoch \in 1..MaxEpochs
      BY <3>2 DEF Registration
    <3>4. \/ after.reg[m] = controlFile.reg[m]
          \/ after.reg[m].epoch > controlFile.reg[m].epoch
      BY <2>3 DEF Rewritten
    <3>5. e > controlFile.reg[m].epoch
      BY <3>1, <3>3, <3>4
    <3>6. QED
      BY <1>1, <3>5 DEF Unborn
  <2>6. QED
    BY <1>1, <2>4, <2>5, FreshKeeps
<1>6. QED
  BY <1>2, <1>3, <1>4, <1>5

LEMMA EditKeeps ==
    ASSUME ReplayInv, EditArtifact
    PROVE  ReplayInv'
<1>1. /\ answer' = NoAnswer
      /\ UNCHANGED <<controlFile, nodeFile, entries, startup, ready, overtaken>>
  BY DEF EditArtifact, UnchangedFiles
<1>2. FileShape' /\ Unborn' /\ (Glued' <=> Glued)
  BY <1>1 DEF ReplayInv, CacheInv, FileShape, Unborn, Glued
<1>3. Cached' \subseteq KeysOf(controlFile)' /\ EntriesOf(Cached, entries, controlFile)'
  BY <1>1 DEF ReplayInv, CacheInv, Cached, KeysOf, Explicit, EntriesOf
<1>4. Alone'
  BY <1>1, <1>2 DEF ReplayInv, CacheInv, Alone, Cached
<1>5. QED
  BY <1>1, <1>2, <1>3, <1>4 DEF ReplayInv, CacheInv, AnswersAreReplays

LEMMA ForeignKeeps ==
    ASSUME ReplayInv, ForeignAppend
    PROVE  ReplayInv'
<1>1. overtaken' /\ answer' = NoAnswer /\ UNCHANGED <<entries, startup, ready>>
  BY DEF ForeignAppend
<1>2. FileShape /\ Unborn /\ controlFile.head \in Int
  BY DEF ReplayInv, CacheInv, FileShape, ControlShape
<1>3. /\ FileShape' /\ Unborn' /\ controlFile'.binding = controlFile.binding
      /\ \/ controlFile' = controlFile
         \/ controlFile'.head = controlFile.head + 1
  <2>1. ASSUME NEW n \in ReplayNodes, CanAppendNode(n), nodeFile' = NodeFileExtended(n),
               controlFile' = controlFile
        PROVE  FileShape' /\ Unborn'
    <3>1. PICK old \in FileType : old = nodeFile[n][controlFile.reg[n].epoch]
      BY <1>2 DEF FileShape, ControlShape, Registration
    <3>2. PICK file \in FileType : file = Extended(old)
      BY ExtendedNode
    <3>3. nodeFile' = [nodeFile EXCEPT ![n][controlFile.reg[n].epoch] = file]
      BY <2>1, <3>1, <3>2 DEF NodeFileExtended
    <3>4. old.tail # "glued"
      BY <2>1, <3>1 DEF CanAppendNode, Readable
    <3>5. QED
      BY <1>2, <2>1, <3>1, <3>3, <3>4, NodeWrite
  <2>2. CASE CanAppendControl /\ controlFile' = AfterEvent({}) /\ nodeFile' = nodeFile
    <3>1. PICK after : after = AfterEvent({})
      OBVIOUS
    <3>2. /\ ControlShape(after) /\ after.head = controlFile.head + 1
          /\ after.binding = controlFile.binding
          /\ \A n \in ReplayNodes : after.reg[n].epoch = controlFile.reg[n].epoch
      BY <1>2, <3>1, AfterEventIs DEF FileShape
    <3>3. QED
      BY <1>2, <2>2, <3>1, <3>2 DEF FileShape, Unborn
  <2>3. QED
    BY <2>1, <2>2 DEF ForeignAppend
<1>4. Cached' \subseteq KeysOf(controlFile)'
  BY <1>1, <1>3 DEF ReplayInv, CacheInv, Cached, KeysOf, Fallback, Binding, Explicit
<1>5. EntriesOf(Cached, entries, controlFile)'
  <2>1. \A k \in Cached : Formed(entries[k]) /\ Past(entries[k], controlFile')
    BY <1>2, <1>3 DEF ReplayInv, CacheInv, EntriesOf, Past
  <2>2. QED
    BY <1>1, <2>1 DEF EntriesOf, Cached
<1>6. QED
  BY <1>1, <1>3, <1>4, <1>5 DEF ReplayInv, CacheInv, Alone, AnswersAreReplays

-----------------------------------------------------------------------------

LEMMA ReplayInitHolds == ReplayInit => ReplayInv
<1>1. SUFFICES ASSUME ReplayInit PROVE ReplayInv
  OBVIOUS
<1> DEFINE control == ControlProjection(InitialControl)
           components == ReadComponents(control, InitialNodes)
<1>2. /\ controlFile = InitialControl /\ nodeFile = InitialNodes
      /\ entries = With(<< >>, Fallback(control), Entry(control, components, artifacts))
      /\ ready = FALSE /\ answer = NoAnswer
  BY <1>1 DEF ReplayInit
<1>3. FileShape /\ Unborn
  <2>1. 1 \in 1..MaxEpochs
    BY EpochsAssumption
  <2>2. ControlShape(InitialControl)
    BY <2>1 DEF InitialControl, ControlShape, Registration
  <2>3. InitialNodes \in [ReplayNodes -> [1..MaxEpochs -> FileType]]
    BY DEF InitialNodes, FileType, NoFile
  <2>4. Unborn
    BY <1>2 DEF Unborn, InitialNodes, InitialControl
  <2>5. QED
    BY <1>2, <2>2, <2>3, <2>4 DEF FileShape
<1>4. PICK new : new = Entry(control, components, artifacts)
  OBVIOUS
<1>5. Current(new, controlFile, nodeFile)
  <2>1. new.control = control /\ new.components = components
    BY <1>4, EntryIs
  <2>2. QED
    BY <1>2, <2>1 DEF Current
<1>6. Formed(new) /\ Past(new, controlFile)
  BY <1>3, <1>5, CurrentSound DEF FileShape, ControlShape
<1>7. Fallback(control) = Fallback(controlFile)
  BY <1>2 DEF Fallback, Binding, ControlProjection
<1> HIDE DEF control, components
<1>8. Cached = {Fallback(controlFile)} /\ entries[Fallback(controlFile)] = new
  BY <1>2, <1>4, <1>7 DEF Cached, With
<1>9. QED
  BY <1>2, <1>3, <1>5, <1>6, <1>8 DEF ReplayInv, CacheInv, KeysOf, EntriesOf, Alone,
     AnswersAreReplays

LEMMA ReplayNextKeeps == ReplayInv /\ [ReplayNext]_replayVars => ReplayInv'
<1>1. SUFFICES ASSUME ReplayInv, [ReplayNext]_replayVars PROVE ReplayInv'
  OBVIOUS
<1>2. CASE UNCHANGED replayVars
  BY <1>1, <1>2 DEF replayVars, ReplayInv, CacheInv, FileShape, Unborn, Cached, KeysOf,
     Explicit, EntriesOf, Alone, Glued, AnswersAreReplays
<1>3. CASE RecoverFacts \/ RecoverHandle \/ RecoverAudit
  BY <1>1, <1>3, RecoverKeeps
<1>4. CASE AppendControlEventAtomicSync \/ TakeOver \/ EditArtifact \/ ForeignAppend
  BY <1>1, <1>4, ControlAppendKeeps, TakeOverKeeps, EditKeeps, ForeignKeeps
<1>5. CASE \E n \in ReplayNodes : AppendNodeEventAtomicSync(n) \/ RebindNode(n)
  BY <1>1, <1>5, NodeAppendKeeps, RebindKeeps
<1>6. CASE \/ Restart \/ CrashInControlAppend
           \/ \E n \in ReplayNodes : CrashInNodeAppend(n) \/ CrashInPersist(n)
  BY <1>1, <1>6, CrashKeeps
<1>7. QED
  BY <1>1, <1>2, <1>3, <1>4, <1>5, <1>6 DEF ReplayNext

(* What recovery and the appends of the one writer return is what a replay of   *)
(* the files on disk returns, for any number of nodes, incarnations, processes, *)
(* crashes, edits and foreign appends (multi-node-state.mjs: the entries of     *)
(* VERIFIED_REPLAY_CACHE are compared with the ledgers before they are used).   *)
THEOREM CacheAnswersReplays == ReplaySpec => []AnswersAreReplays
<1>1. ReplayInv => AnswersAreReplays
  BY DEF ReplayInv
<1>2. QED
  BY <1>1, ReplayInitHolds, ReplayNextKeeps, PTL DEF ReplaySpec

=============================================================================
