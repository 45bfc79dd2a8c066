---------------------------- MODULE ReplayCache ----------------------------
(***************************************************************************)
(* The files of a run and the replay cache kept beside them, after         *)
(* multi-node-state.mjs: a control ledger, a ledger per node incarnation,  *)
(* the artifacts derived from them, and in one process a cache of verified *)
(* replays, one entry per authority.  An append writes the ledger first,   *)
(* then brings every entry and every artifact up to date; a persist writes *)
(* all ledgers anew and installs one entry only.  Whatever recovery        *)
(* answers must be what a replay of the files would say.                   *)
(*                                                                         *)
(* A ledger is its number of events: the head digest identifies exactly    *)
(* the events before it.  A projection is a function of the ledger, so an  *)
(* artifact is the head (or the heads) it was derived from.                *)
(***************************************************************************)
EXTENDS Integers, FiniteSets

CONSTANTS ReplayNodes,      \* the nodes of the run
          MaxReplayEvents,  \* bound on the events of a ledger
          MaxEpochs,        \* bound on the incarnations of a node
          MaxStartups,      \* bound on the processes that take the run over
          MaxMishaps        \* bound on crashes, damages and foreign appends

ASSUME EpochsAssumption == MaxEpochs \in Nat \ {0}

VARIABLES controlFile,   \* the control ledger on disk
          nodeFile,      \* the node ledgers on disk, by node and epoch
          artifacts,     \* control projection, node projections and index
          entries,       \* VERIFIED_REPLAY_CACHE, by authority
          startup,       \* the startup attestation of this process
          ready,         \* currentControlFacts holds in this process
          overtaken,     \* another process wrote since this one started
          answer,        \* what the last call returned
          mishaps        \* mishaps so far
replayVars == << controlFile, nodeFile, artifacts, entries, startup, ready,
                 overtaken, answer, mishaps >>

\* A value is <<v>>; the empty sequence stands for the value that is not there.
Failed == << >>
Forged == << >>            \* edited, with a digest that fits
Broken == <<0, 0>>         \* edited, with a digest that does not fit
NoAnswer == [by |-> "nobody", value |-> << >>]
NoAuthority == <<"none", 0>>
Quarantined == -1
NoFile == [head |-> -1, tail |-> "whole"]

\* The tail of a ledger: complete lines; a last line without its newline;
\* half a line; two events on one line, after an append to a bare tail.
Readable(file) == file.head >= 0 /\ file.tail \in {"whole", "bare"}
Extended(file) == [file EXCEPT !.head = @ + 1,
                               !.tail = IF @ = "bare" THEN "glued" ELSE "whole"]

Binding(control) == control.binding
Active(control) == {n \in ReplayNodes : control.reg[n].active}
ControlProjection(file) == [head |-> file.head, binding |-> file.binding, reg |-> file.reg]

\* The component of an active node: its registration and verified head.
ReadComponent(n, control, files) ==
    LET file == files[n][control.reg[n].epoch]
    IN  [reg |-> control.reg[n],
         head |-> IF Readable(file) THEN file.head ELSE Quarantined]
ReadComponents(control, files) ==
    [n \in Active(control) |-> ReadComponent(n, control, files)]
Verified(components) ==
    {n \in DOMAIN components : components[n].head # Quarantined}

\* The aggregate projection and the node index name the control head and
\* the head of every active node.
Assemble(control, components) == [control |-> control, nodes |-> components]
ReplayOf(control, files) ==
    Assemble(ControlProjection(control), ReadComponents(ControlProjection(control), files))

-----------------------------------------------------------------------------
(* The cache. *)

Fallback(control) == <<"fallback", Binding(control)>>
Explicit == <<"startup", startup>>
Cached == DOMAIN entries

Capture(arts, components) ==
    [control |-> arts.control, index |-> arts.index,
     nodes |-> [n \in Verified(components) |-> arts.nodes[n][components[n].reg.epoch]]]
Entry(control, components, arts) ==
    [control |-> control, components |-> components,
     captured |-> Capture(arts, components)]
ResultOf(e) == Assemble(e.control, e.components)
ArtifactsMatch(e) == Capture(artifacts, e.components) = e.captured

\* The boundaries of the ledgers are read again and compared.
ControlUnchanged(e) == controlFile.head = e.control.head
NodesUnchangedAny(e) == TRUE
NodesUnchanged(e) ==
    \A n \in DOMAIN e.components :
       LET file == nodeFile[n][e.components[n].reg.epoch]
       IN  Readable(file) /\ file.head = e.components[n].head

\* Without an authority the only entry of the run serves; of several, none.
Lookup(key) ==
    IF key # NoAuthority THEN {key} \cap Cached
    ELSE IF Cardinality(Cached) = 1 THEN Cached ELSE {}
InstallKey(key, control) == IF key # NoAuthority THEN key ELSE Fallback(control)
With(f, key, e) == [k \in {key} \cup DOMAIN f |-> IF k = key THEN e ELSE f[k]]
Installed(key, e) == entries' = With(entries, key, e)

\* Writes of derived artifacts: some node projections, and the index.
Written(arts, control, components, changed, withControl) ==
    [control |-> IF withControl THEN <<control>> ELSE arts.control,
     index |-> <<Assemble(control, components)>>,
     nodes |-> [n \in ReplayNodes |->
        IF n \in changed \cap Verified(components)
        THEN [arts.nodes[n] EXCEPT ![components[n].reg.epoch] = <<components[n].head>>]
        ELSE arts.nodes[n]]]

Answer(by, value) == answer' = [by |-> by, value |-> value]
UnchangedFiles == UNCHANGED << controlFile, nodeFile >>
UnchangedLife == UNCHANGED << startup, overtaken, mishaps >>

-----------------------------------------------------------------------------
(* Recovery: full replay, hit, or reconciliation. *)

FullReplay(key) ==
    LET control == ControlProjection(controlFile)
        components == ReadComponents(control, nodeFile)
        arts == Written(artifacts, control, components, DOMAIN components, TRUE)
    IN  IF ~ Readable(controlFile) \/ artifacts.index = Broken
        THEN /\ Answer("recover", Failed)
             /\ UNCHANGED << artifacts, entries >>
        ELSE /\ artifacts' = arts
             /\ Installed(InstallKey(key, control), Entry(control, components, arts))
             /\ Answer("recover", <<Assemble(control, components)>>)

CacheHit(e) ==
    /\ ControlUnchanged(e) /\ NodesUnchanged(e)
    /\ Answer("recover", <<ResultOf(e)>>)
    /\ UNCHANGED << artifacts, entries >>

\* Components whose registration and boundaries are unchanged are kept.
Reconcile(key, found) ==
    LET e == entries[found]
        control == IF ControlUnchanged(e) THEN e.control ELSE ControlProjection(controlFile)
        kept == {n \in Active(control) \cap Verified(e.components) :
                   /\ e.components[n].reg = control.reg[n]
                   /\ Readable(nodeFile[n][control.reg[n].epoch])
                   /\ nodeFile[n][control.reg[n].epoch].head = e.components[n].head}
        components == [n \in Active(control) |->
                          IF n \in kept THEN e.components[n]
                          ELSE ReadComponent(n, control, nodeFile)]
        arts == Written(artifacts, control, components, Active(control) \ kept,
                        ~ ControlUnchanged(e))
    IN  /\ ~ (ControlUnchanged(e) /\ NodesUnchanged(e))
        /\ IF Binding(control) # Binding(e.control)
           THEN FullReplay(key)
           ELSE /\ artifacts' = arts
                /\ Installed(found, Entry(control, components, arts))
                /\ Answer("recover", <<Assemble(control, components)>>)

Recover(key, forced) ==
    IF forced \/ ~ \E k \in Lookup(key) : ArtifactsMatch(entries[k])
    THEN FullReplay(key)
    ELSE IF ~ Readable(controlFile)
    THEN Answer("recover", Failed) /\ UNCHANGED << artifacts, entries >>
    ELSE \E k \in Lookup(key) : CacheHit(entries[k]) \/ Reconcile(key, k)

\* A recorder: resolveAuthority, then currentControlFacts.
RecoverFacts ==
    /\ Recover(Explicit, FALSE)
    /\ ready' = (answer'.value # Failed)
    /\ UnchangedFiles /\ UnchangedLife
\* makeHandle and readLifecycleRunLedger recover without an authority.
RecoverHandle ==
    /\ Recover(NoAuthority, FALSE)
    /\ UnchangedFiles /\ UnchangedLife /\ UNCHANGED ready
\* Quiescence asks for an explicit audit.
RecoverAudit ==
    /\ Recover(Explicit, TRUE)
    /\ ready' = (answer'.value # Failed)
    /\ UnchangedFiles /\ UnchangedLife

-----------------------------------------------------------------------------
(* Appends. *)

\* No entry to bring up to date: the aggregate is rebuilt from the files.
RefreshDerived(control, files, arts) ==
    LET components == ReadComponents(control, files)
    IN  /\ artifacts' = [arts EXCEPT !.index = <<Assemble(control, components)>>]
        /\ Answer("append", <<Assemble(control, components)>>)
        /\ UNCHANGED entries

\* The entries `keys`, each with its new control projection and components,
\* must agree; the first one writes the artifacts.
UpdateEntries(keys, control(_), components(_), arts, changed(_)) ==
    \E first \in keys :
       LET written == Written(arts, control(first), components(first), changed(first), FALSE)
           same == {k \in keys : Assemble(control(k), components(k)) =
                                 Assemble(control(first), components(first))}
       IN  /\ artifacts' = written
           /\ entries' = [k \in Cached |->
                IF k = first \/ (k \in same /\ same = keys)
                THEN Entry(control(k), components(k), written) ELSE entries[k]]
           /\ Answer("append", IF same = keys THEN <<Assemble(control(first), components(first))>>
                               ELSE Failed)

NodeAppended(n, files, arts) ==
    LET epoch == controlFile.reg[n].epoch
        keys == {k \in Cached : entries[k].control.reg[n].active}
        newer == [reg |-> controlFile.reg[n], head |-> files[n][epoch].head]
        Control(k) == entries[k].control
        Components(k) == With(entries[k].components, n, newer)
        Changed(k) == {n}
    IN  IF keys = {} THEN RefreshDerived(ControlProjection(controlFile), files, arts)
        ELSE IF \E k \in keys : entries[k].control.reg[n] # controlFile.reg[n]
        THEN Answer("append", Failed) /\ artifacts' = arts /\ UNCHANGED entries
        ELSE UpdateEntries(keys, Control, Components, arts, Changed)

NodeFileExtended(n) ==
    LET epoch == controlFile.reg[n].epoch
    IN  [nodeFile EXCEPT ![n][epoch] = Extended(@)]
NodeProjectionWritten(n) ==
    LET epoch == controlFile.reg[n].epoch
    IN  [artifacts EXCEPT !.nodes[n][epoch] = <<nodeFile[n][epoch].head + 1>>]
CanAppendNode(n) ==
    LET file == nodeFile[n][controlFile.reg[n].epoch]
    IN  /\ ready /\ Readable(controlFile) /\ controlFile.reg[n].active
        /\ Readable(file) /\ file.head < MaxReplayEvents

AppendNodeEventAtomicSync(n) ==
    /\ CanAppendNode(n)
    /\ nodeFile' = NodeFileExtended(n)
    /\ NodeAppended(n, NodeFileExtended(n), NodeProjectionWritten(n))
    /\ UNCHANGED << controlFile, ready >> /\ UnchangedLife

\* A control event: an ordinary one, or the removal of a node.
AfterEvent(removed) ==
    [Extended(controlFile) EXCEPT
        !.reg = [n \in ReplayNodes |->
                    [controlFile.reg[n] EXCEPT !.active = @ /\ n \notin removed]]]
SameRegistration(e, control, n) ==
    n \in DOMAIN e.components /\ e.components[n].reg = control.reg[n]

ControlAppended(control, arts) ==
    LET keys == {k \in Cached : entries[k].control.head = controlFile.head}
        Control(k) == control
        Components(k) == [n \in Active(control) |->
            IF SameRegistration(entries[k], control, n) THEN entries[k].components[n]
            ELSE ReadComponent(n, control, nodeFile)]
        Changed(k) == {n \in Active(control) : ~ SameRegistration(entries[k], control, n)}
    IN  IF keys = {} \/ \E k \in keys : Binding(entries[k].control) # Binding(control)
        THEN RefreshDerived(control, nodeFile, arts)
        ELSE UpdateEntries(keys, Control, Components, arts, Changed)

CanAppendControl ==
    ready /\ Readable(controlFile) /\ controlFile.head < MaxReplayEvents

AppendControlEventAtomicSync ==
    /\ CanAppendControl
    /\ \E removed \in {{}} \cup {{n} : n \in Active(controlFile)} :
          LET after == AfterEvent(removed)
              control == ControlProjection(after)
          IN  /\ controlFile' = after
              /\ ControlAppended(control, [artifacts EXCEPT !.control = <<control>>])
    /\ UNCHANGED << nodeFile, ready >> /\ UnchangedLife

-----------------------------------------------------------------------------
(* Persisting the whole run: scope refresh, base change and takeover. *)

\* The control ledger and all current node ledgers are written anew.
PersistedFiles(control) ==
    [n \in ReplayNodes |-> [nodeFile[n] EXCEPT ![control.reg[n].epoch] =
        IF ~ control.reg[n].active THEN @
        ELSE [head |-> IF @ = NoFile THEN 1 ELSE @.head, tail |-> "whole"]]]

PersistAggregateRunState(after) ==
    LET control == ControlProjection(after)
        files == PersistedFiles(control)
        components == ReadComponents(control, files)
        arts == Written(artifacts, control, components, DOMAIN components, TRUE)
    IN  /\ controlFile' = after
        /\ nodeFile' = files
        /\ artifacts' = arts
        /\ Installed(Fallback(control), Entry(control, components, arts))
        /\ Answer("persist", <<Assemble(control, components)>>)

LedgersReadable ==
    /\ Readable(controlFile)
    /\ \A n \in Active(controlFile) : Readable(nodeFile[n][controlFile.reg[n].epoch])

\* A rebound node gets a new epoch and with it a ledger of its own.
Rebound(n) ==
    [controlFile EXCEPT !.head = @ + 1, !.tail = "whole",
                        !.reg[n] = [epoch |-> @.epoch + 1, active |-> TRUE]]
CanRebind(n) ==
    /\ ready /\ LedgersReadable /\ controlFile.reg[n].active
    /\ controlFile.head < MaxReplayEvents /\ controlFile.reg[n].epoch < MaxEpochs

RebindNode(n) ==
    /\ CanRebind(n)
    /\ PersistAggregateRunState(Rebound(n))
    /\ ready' = FALSE
    /\ UnchangedLife

\* recordLifecycleAuthorityTakeover: the new root is a new process, with a
\* startup and an authority binding of its own.
TakeOver ==
    /\ LedgersReadable /\ Cached = {} /\ startup < MaxStartups
    /\ controlFile.head < MaxReplayEvents
    /\ PersistAggregateRunState([controlFile EXCEPT !.head = @ + 1, !.tail = "whole",
                                                    !.binding = @ + 1])
    /\ startup' = startup + 1
    /\ ready' = FALSE
    /\ UNCHANGED << overtaken, mishaps >>

-----------------------------------------------------------------------------
(* Mishaps: ends of the process, a torn write, edits, other processes. *)

Mishap == mishaps < MaxMishaps /\ mishaps' = mishaps + 1
FreshProcess ==
    /\ entries' = << >>
    /\ ready' = FALSE /\ overtaken' = FALSE /\ answer' = NoAnswer
    /\ UNCHANGED startup

Restart ==
    /\ Mishap /\ FreshProcess
    /\ UnchangedFiles /\ UNCHANGED artifacts

\* What an interrupted append leaves of its event.
Torn(file, whole) ==
    {whole, [whole EXCEPT !.tail = "bare"], [file EXCEPT !.tail = "torn"]}

CrashInNodeAppend(n) ==
    LET epoch == controlFile.reg[n].epoch
    IN  /\ CanAppendNode(n) /\ Mishap /\ FreshProcess
        /\ nodeFile[n][epoch].tail = "whole"
        /\ \E file \in Torn(nodeFile[n][epoch], Extended(nodeFile[n][epoch])) :
              nodeFile' = [nodeFile EXCEPT ![n][epoch] = file]
        /\ artifacts' = artifacts \/ artifacts' = NodeProjectionWritten(n)
        /\ UNCHANGED controlFile

CrashInControlAppend ==
    /\ CanAppendControl /\ Mishap /\ FreshProcess
    /\ controlFile.tail = "whole"
    /\ controlFile' \in Torn(controlFile, AfterEvent({}))
    /\ UNCHANGED << nodeFile, artifacts >>

\* The control ledger is on disk and the new node ledger is not.
CrashInPersist(n) ==
    /\ CanRebind(n) /\ Mishap /\ FreshProcess
    /\ controlFile' = Rebound(n)
    /\ UNCHANGED << nodeFile, artifacts >>

EditArtifact ==
    /\ Mishap
    /\ \/ artifacts' = [artifacts EXCEPT !.control = Forged]
       \/ \E mark \in {Forged, Broken} : artifacts' = [artifacts EXCEPT !.index = mark]
       \/ \E n \in Active(controlFile) :
             artifacts' = [artifacts EXCEPT !.nodes[n][controlFile.reg[n].epoch] = Forged]
    /\ answer' = NoAnswer
    /\ UnchangedFiles /\ UNCHANGED << entries, startup, ready, overtaken >>

\* Another process appends, its artifacts not yet written.
ForeignAppend ==
    /\ Mishap /\ overtaken' = TRUE /\ answer' = NoAnswer
    /\ \/ \E n \in ReplayNodes :
             /\ CanAppendNode(n)
             /\ nodeFile' = NodeFileExtended(n)
             /\ UNCHANGED controlFile
       \/ /\ CanAppendControl
          /\ controlFile' = AfterEvent({})
          /\ UNCHANGED nodeFile
    /\ UNCHANGED << artifacts, entries, startup, ready >>

-----------------------------------------------------------------------------
(* The specification. *)

InitialControl == [head |-> 1, binding |-> 1, tail |-> "whole",
                   reg |-> [n \in ReplayNodes |-> [epoch |-> 1, active |-> TRUE]]]
InitialNodes == [n \in ReplayNodes |-> [e \in 1..MaxEpochs |->
                    IF e = 1 THEN [head |-> 1, tail |-> "whole"] ELSE NoFile]]
ReplayInit ==
    LET control == ControlProjection(InitialControl)
        components == ReadComponents(control, InitialNodes)
    IN  /\ controlFile = InitialControl
        /\ nodeFile = InitialNodes
        /\ artifacts = [control |-> <<control>>, index |-> <<Assemble(control, components)>>,
                        nodes |-> [n \in ReplayNodes |-> [e \in 1..MaxEpochs |->
                                      IF e = 1 THEN <<1>> ELSE << >>]]]
        /\ entries = With(<< >>, Fallback(control), Entry(control, components, artifacts))
        /\ startup = 1 /\ ready = FALSE /\ overtaken = FALSE
        /\ answer = NoAnswer /\ mishaps = 0

ReplayNext ==
    \/ RecoverFacts \/ RecoverHandle \/ RecoverAudit
    \/ \E n \in ReplayNodes : AppendNodeEventAtomicSync(n)
    \/ AppendControlEventAtomicSync
    \/ \E n \in ReplayNodes : RebindNode(n)
    \/ TakeOver
    \/ Restart
    \/ \E n \in ReplayNodes : CrashInNodeAppend(n) \/ CrashInPersist(n)
    \/ CrashInControlAppend
    \/ EditArtifact
    \/ ForeignAppend

ReplaySpec == ReplayInit /\ [][ReplayNext]_replayVars

-----------------------------------------------------------------------------
(* Properties. *)

Glued ==
    \/ controlFile.tail = "glued"
    \/ \E n \in ReplayNodes, e \in 1..MaxEpochs : nodeFile[n][e].tail = "glued"

\* Whatever mix of appends, rebinds, takeovers, crashes, edits and foreign
\* appends went before, a recovery returns what a replay of the files says,
\* or fails because the control ledger or the index cannot be read; so does
\* an append of the one process that writes the run, which never fails once
\* its event is on disk (multi-node-state.mjs:2328, :2490, :2561).  Excepted
\* are appends beside another writer and behind a line that lost its newline.
AnswersAreReplays ==
    \/ answer = NoAnswer
    \/ answer.value = <<ReplayOf(controlFile, nodeFile)>>
    \/ answer.value = Failed /\ answer.by = "recover"
         /\ (~ Readable(controlFile) \/ artifacts.index = Broken)
    \/ answer.by = "append" /\ (overtaken \/ Glued)
=============================================================================
