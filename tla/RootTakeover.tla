---------------------------- MODULE RootTakeover ----------------------------
(***************************************************************************)
(* How a run gets a new root: the supervisor authorizes a takeover, fences *)
(* the old root, hands over and launches (root-takeover-supervisor.mjs);   *)
(* the new root attests its startup (runtime-startup-attestation.mjs),     *)
(* compiles its authority (lifecycle-genesis-authority.mjs) and rebinds    *)
(* the control ledger to it (recordLifecycleAuthorityTakeover).            *)
(*                                                                         *)
(* The supervisor's functions are pure: it may lose what they return, and  *)
(* authorize again.  A takeover reads the ledger and writes it anew, with  *)
(* other processes between; an append is a step of its own.                *)
(*                                                                         *)
(* A root is its invocation, session and epoch, an authorization its       *)
(* number.  The ledger keeps the authorities and the events of the roots.  *)
(***************************************************************************)
EXTENDS Naturals, Sequences, FiniteSetsExt

CONSTANTS
    Roots,              \* invocations of a root
    GenesisRoot,        \* the one the run began with
    MaxAuthorizations,  \* bound: authorizations of the supervisor
    MaxClock,           \* bound: time
    MaxPackages,        \* bound: installed package versions
    MaxRootEvents       \* bound: entries of the ledger

ASSUME GenesisRootAssumption == GenesisRoot \in Roots

VARIABLES
    clock,
    package,            \* version of the installed package and its policies
    process,            \* per root: what its process does
    rootLeases,         \* roots that hold a root control lease
    orders,             \* the authorizations of the supervisor
    startups,           \* per root: its startup attestation
    runLedger,          \* authorities and events, in order
    reading             \* per root: the ledger it has read, if any

takeoverVars ==
    <<clock, package, process, rootLeases, orders, startups, runLedger, reading>>

-----------------------------------------------------------------------------

Orders == DOMAIN orders

NotStarted == [status |-> "none", phase |-> "none", order |-> 0, package |-> 0]

AttestedAs(phase, order) ==
    [status |-> "verified", phase |-> phase, order |-> order, package |-> package]

AuthorityEntry(r, order) == [kind |-> "authority", root |-> r, order |-> order]
EventEntry(r) == [kind |-> "event", root |-> r, order |-> 0]

NothingRead == <<>>

TakeoverInit ==
    /\ clock = 0
    /\ package = 1
    /\ process = [r \in Roots |-> IF r = GenesisRoot THEN "running" ELSE "none"]
    /\ rootLeases = {GenesisRoot}
    /\ orders = <<>>
    /\ startups = [r \in Roots |-> IF r = GenesisRoot THEN AttestedAs("scheduling", 0)
                                   ELSE NotStarted]
    /\ runLedger = <<AuthorityEntry(GenesisRoot, 0)>>
    /\ reading = [r \in Roots |-> NothingRead]

\* The last lifecycleAuthority of a ledger, and of its first i entries.
AuthorityAt(entries, i) ==
    entries[Max({j \in 1 .. i : entries[j].kind = "authority"})]
Authority(entries) == AuthorityAt(entries, Len(entries))

-----------------------------------------------------------------------------
(* The supervisor. *)

\* compileRootTakeoverEligibility and compileRootTakeoverAuthorization; a time
\* step is as long as an authorization is valid.
AuthorizeTakeover(old, new) ==
    /\ Len(orders) < MaxAuthorizations
    /\ old # new
    /\ startups[old].status # "none"
    /\ process[new] = "none"
    /\ orders' = Append(orders,
         [old |-> old, new |-> new, package |-> package, expires |-> clock,
          fenced |-> FALSE, handoff |-> FALSE, launched |-> FALSE, ended |-> FALSE])
    /\ UNCHANGED <<clock, package, process, rootLeases, startups, runLedger, reading>>

\* validateRootTakeoverAuthorization, without a time.
FenceOldRoot(o) ==
    /\ process[orders[o].old] \in {"terminated", "machine-fenced"}
    /\ orders[o].old \notin rootLeases
    /\ ~orders[o].fenced
    /\ orders' = [orders EXCEPT ![o].fenced = TRUE]
    /\ UNCHANGED <<clock, package, process, rootLeases, startups, runLedger, reading>>

CompileHandoff(o) ==
    /\ orders[o].fenced
    /\ ~orders[o].handoff
    /\ orders' = [orders EXCEPT ![o].handoff = TRUE]
    /\ UNCHANGED <<clock, package, process, rootLeases, startups, runLedger, reading>>

\* authorizeRecoveryRootLaunch: within its time, and not consumed.
LaunchRecoveryRoot(o) ==
    /\ orders[o].fenced /\ orders[o].handoff
    /\ clock <= orders[o].expires
    /\ ~orders[o].ended
    /\ process[orders[o].new] = "none"
    /\ orders' = [orders EXCEPT ![o].launched = TRUE]
    /\ process' = [process EXCEPT ![orders[o].new] = "running"]
    /\ UNCHANGED <<clock, package, rootLeases, startups, runLedger, reading>>

\* completeRecoveryTakeover: the attested root of this authorization holds the
\* only lease; the time is not looked at any more.
CompleteTakeover(o) ==
    /\ orders[o].launched
    /\ startups[orders[o].new].order = o
    /\ startups[orders[o].new].package = package
    /\ Cardinality(rootLeases) = 1
    /\ ~orders[o].ended
    /\ orders' = [orders EXCEPT ![o].ended = TRUE]
    /\ UNCHANGED <<clock, package, process, rootLeases, startups, runLedger, reading>>

\* terminalizeRecoveryTakeover needs the authorization and the fencing only:
\* its root may be running, and stays so.
TerminalizeTakeover(o) ==
    /\ orders[o].fenced
    /\ ~orders[o].ended
    /\ orders' = [orders EXCEPT ![o].ended = TRUE]
    /\ UNCHANGED <<clock, package, process, rootLeases, startups, runLedger, reading>>

-----------------------------------------------------------------------------
(* A new root. *)

\* validateTakeoverContext; the attestation keeps its own time, so that what
\* was in time then is verified for ever.
TakeoverContextHolds(r, o) ==
    /\ orders[o].new = r
    /\ orders[o].fenced /\ orders[o].handoff
    /\ orders[o].package = package
    /\ clock <= orders[o].expires

AttestStartup(r, o) ==
    /\ process[r] = "running"
    /\ startups[r].status = "none"
    /\ startups' = [startups EXCEPT ![r] =
         IF TakeoverContextHolds(r, o)
         THEN AttestedAs("recovery-takeover", o)
         ELSE [NotStarted EXCEPT !.status = "rejected"]]
    /\ rootLeases' = IF TakeoverContextHolds(r, o) THEN rootLeases \cup {r}
                     ELSE rootLeases
    /\ UNCHANGED <<clock, package, process, orders, runLedger, reading>>

\* requireRuntimeStartupBinding computes the attestation again: it fails as
\* soon as another package is installed.
StartupBound(r) ==
    startups[r].status = "verified" /\ startups[r].package = package

\* The handoff is from the root the ledger is bound to.
HandoffOfAny(r, entries) == startups[r].phase = "recovery-takeover"
HandoffCurrent(r, entries) ==
    /\ startups[r].phase = "recovery-takeover"
    /\ orders[startups[r].order].old = Authority(entries).root

\* recordLifecycleAuthorityTakeover up to the compiled authority ...
ReadForTakeover(r) ==
    /\ process[r] = "running"
    /\ reading[r] = NothingRead
    /\ StartupBound(r)
    /\ HandoffCurrent(r, runLedger)
    /\ reading' = [reading EXCEPT ![r] = runLedger]
    /\ UNCHANGED <<clock, package, process, rootLeases, orders, startups, runLedger>>

\* ... and persistAggregateRunState, over what is there by now.
PersistTakeover(r) ==
    /\ process[r] = "running"
    /\ reading[r] # NothingRead
    /\ Authority(reading[r]).root # r
    /\ Len(reading[r]) < MaxRootEvents
    /\ runLedger' = Append(reading[r], AuthorityEntry(r, startups[r].order))
    /\ reading' = [reading EXCEPT ![r] = NothingRead]
    /\ UNCHANGED <<clock, package, process, rootLeases, orders, startups>>

\* currentLifecycleAuthorityFromControlLedger: the authority of the ledger is
\* that of this startup.
ReadFacts(r) ==
    /\ process[r] = "running"
    /\ reading[r] = NothingRead
    /\ StartupBound(r)
    /\ Authority(runLedger).root = r
    /\ reading' = [reading EXCEPT ![r] = runLedger]
    /\ UNCHANGED <<clock, package, process, rootLeases, orders, startups, runLedger>>

\* The event names the event before it: one made of old facts does not fit.
RecordEvent(r) ==
    /\ process[r] = "running"
    /\ reading[r] # NothingRead
    /\ Authority(reading[r]).root = r
    /\ IF reading[r] = runLedger /\ Len(runLedger) < MaxRootEvents
       THEN runLedger' = Append(runLedger, EventEntry(r))
       ELSE UNCHANGED runLedger
    /\ reading' = [reading EXCEPT ![r] = NothingRead]
    /\ UNCHANGED <<clock, package, process, rootLeases, orders, startups>>

-----------------------------------------------------------------------------
(* The machine. *)

RootEnds(r) ==
    /\ process[r] = "running"
    /\ process' = [process EXCEPT ![r] = "terminated"]
    /\ reading' = [reading EXCEPT ![r] = NothingRead]
    /\ UNCHANGED <<clock, package, rootLeases, orders, startups, runLedger>>

\* A root that does not answer is cut off; rejectFencedOldRootAction refuses
\* what it still tries.
MachineFences(r) ==
    /\ process[r] = "running"
    /\ \E o \in Orders : orders[o].old = r
    /\ process' = [process EXCEPT ![r] = "machine-fenced"]
    /\ reading' = [reading EXCEPT ![r] = NothingRead]
    /\ UNCHANGED <<clock, package, rootLeases, orders, startups, runLedger>>

RevokeLease(r) ==
    /\ r \in rootLeases
    /\ process[r] # "running"
    /\ rootLeases' = rootLeases \ {r}
    /\ UNCHANGED <<clock, package, process, orders, startups, runLedger, reading>>

Tick ==
    /\ clock < MaxClock
    /\ clock' = clock + 1
    /\ UNCHANGED <<package, process, rootLeases, orders, startups, runLedger, reading>>

InstallPackage ==
    /\ package < MaxPackages
    /\ package' = package + 1
    /\ UNCHANGED <<clock, process, rootLeases, orders, startups, runLedger, reading>>

TakeoverNext ==
    \/ \E old, new \in Roots : AuthorizeTakeover(old, new)
    \/ \E o \in Orders :
         \/ FenceOldRoot(o) \/ CompileHandoff(o) \/ LaunchRecoveryRoot(o)
         \/ CompleteTakeover(o) \/ TerminalizeTakeover(o)
         \/ \E r \in Roots : AttestStartup(r, o)
    \/ \E r \in Roots :
         \/ ReadForTakeover(r) \/ PersistTakeover(r)
         \/ ReadFacts(r) \/ RecordEvent(r)
         \/ RootEnds(r) \/ MachineFences(r) \/ RevokeLease(r)
    \/ Tick \/ InstallPackage

TakeoverSpec == TakeoverInit /\ [][TakeoverNext]_takeoverVars

-----------------------------------------------------------------------------

\* Two authorizations of one root, both carried out.
TakenOverTwice ==
    \E o, other \in Orders :
        /\ o # other /\ orders[o].old = orders[other].old
        /\ orders[o].fenced /\ orders[other].fenced

\* Every event of the ledger was recorded by the root the ledger was bound to,
\* and each root after the first followed the one before it by an authorization
\* that names both, after that one was fenced: two roots never both record
\* under the same ledger (recordLifecycleAuthorityTakeover, lines 3269-3284).
\* And a takeover that writes the ledger anew erases nothing, unless two roots
\* were given the place of one (persistAggregateRunState compares nothing).
RecordsUnderAuthority ==
    /\ \A i \in DOMAIN runLedger : LET entry == runLedger[i] IN
         entry.kind = "event" =>
             AuthorityAt(runLedger, i).root = entry.root
    /\ \A i \in 2 .. Len(runLedger) : LET entry == runLedger[i] IN
         entry.kind = "authority" =>
             LET before == AuthorityAt(runLedger, i - 1).root
             IN /\ orders[entry.order].old = before
                /\ orders[entry.order].new = entry.root
                /\ process[before] # "running"
    /\ \A r \in Roots : reading[r] # NothingRead /\ Authority(reading[r]).root # r =>
         TakenOverTwice \/ reading[r] = runLedger
=============================================================================
