---------------------------- MODULE CatalogRelease ----------------------------
(***************************************************************************)
(* The Catalog baseline: the Server's installer stages the configured      *)
(* bundle, has every entry materialized and verified by the runnable       *)
(* action queue (module ActionContract), writes the scenario directories   *)
(* and publishes all of them in one transaction.                           *)
(*                                                                         *)
(* A release is named by its bundle digest, which the operator may change  *)
(* at a restart.  The installer is one goroutine; each of its transactions *)
(* and file operations is a step.  A directory carries the publication     *)
(* time of its manifest, as the number of times it was promoted.           *)
(***************************************************************************)
EXTENDS Naturals, FiniteSets

CONSTANTS
    Digests, Entries, None,
    Initial,            \* the digest that is configured first; they are alike
    MaxSourceAttempts,  \* source attempts of a pending release (five)
    MaxFaults           \* bound: broken calls, exhausted actions, stops

ASSUME CatalogAssumption ==
    /\ None \notin Digests /\ Initial \in Digests
    /\ MaxSourceAttempts \in Nat \ {0} /\ MaxFaults \in Nat

VARIABLES
    bundle,    \* what the registry holds under each digest
    release,   \* catalog_releases
    entry,     \* catalog_release_entries
    commit,    \* catalog_release_entry_commits
    rows,      \* scenarios and revisions of the release, with published_at
    authored,  \* has an author's scenario been published?
    status,    \* the queue, as its contract shows it
    verdict,   \* the stored report of each entry
    source,    \* the releases whose source is on the data volume
    disk,      \* the scenario directories
    swept,     \* directories that a late sweep took from a committing or ready release
    inst,      \* the installer's pass
    sweep,     \* the reconciler's pass
    server,    \* the process and its configured digest
    faults

content == <<release, entry, commit, rows>>
queue == <<status, verdict>>
files == <<source, disk, swept>>
vars == <<bundle, content, authored, queue, files, inst, sweep, server, faults>>

Phases == {"materialize", "verify"}
Queue == INSTANCE ActionContract WITH Actions <- Digests \X Entries \X Phases

ReleaseStates == {"none", "Pending", "Installing", "Committing", "Ready", "Failed"}
Terminal == {"Ready", "Failed"}
Active == {"Pending", "Installing", "Committing"}
EntryStates == {"none", "MaterializingArtifact", "Verifying", "ReadyToCommit"}
CommitStates == {"none", "Prepared", "Materialized", "Committed"}

NoPass == [pc |-> "idle", d |-> None, todo |-> {}, e |-> None, phase |-> "none", class |-> "none", all |-> TRUE]
NoSweep == [pc |-> "idle", retained |-> {}]

Init ==
    /\ bundle \in [Digests -> {"good", "bad"}]
    /\ release = [d \in Digests |-> [state |-> "none", attempt |-> 0, due |-> TRUE]]
    /\ entry = [d \in Digests |-> [e \in Entries |-> [state |-> "none", version |-> 0]]]
    /\ commit = [d \in Digests |-> [e \in Entries |-> [state |-> "none", at |-> 0]]]
    /\ rows = [d \in Digests |-> [e \in Entries |-> 0]]
    /\ authored = FALSE
    /\ Queue!ContractInit
    /\ verdict = [d \in Digests |-> [e \in Entries |-> "none"]]
    /\ source = {}
    /\ disk = [d \in Digests |-> [e \in Entries |-> [present |-> FALSE, at |-> 0]]]
    /\ swept = {}
    /\ inst = NoPass
    /\ sweep = NoSweep
    /\ server = [state |-> "down", digest |-> None]
    /\ faults = 0

Fault == faults < MaxFaults /\ faults' = faults + 1
Sound == UNCHANGED faults

Up == server.state = "up" /\ UNCHANGED <<bundle, authored, sweep, server>>
At(pc) == Up /\ inst.pc = pc
Ends == inst' = NoPass
Goto(pc) == inst' = [inst EXCEPT !.pc = pc]

PublishedCount == Cardinality({p \in Digests \X Entries : rows[p[1]][p[2]] # 0}) + (IF authored THEN 1 ELSE 0)

(***************************************************************************)
(* Rows of the release.                                                    *)
(***************************************************************************)
Put(d, state) == release' = [release EXCEPT ![d].state = state]

CreateOrGetRelease(d) ==
    release' = [release EXCEPT ![d] = IF @.state = "none" THEN [state |-> "Pending", attempt |-> 1, due |-> TRUE] ELSE @]

InitializeRelease(d) ==
    /\ Put(d, "Installing")
    /\ entry' = [entry EXCEPT ![d] = [e \in Entries |-> [state |-> "MaterializingArtifact", version |-> 1]]]

\* Another attempt after a delay, or the end of the release.
SourceFailed(r) == IF r.attempt >= MaxSourceAttempts THEN [r EXCEPT !.state = "Failed"]
                   ELSE [r EXCEPT !.attempt = r.attempt + 1, !.due = FALSE]
ReportSourceInfrastructureFailure(d) == release' = [release EXCEPT ![d] = SourceFailed(@)]

FailRelease(d, allowed) ==
    /\ release[d].state \in allowed
    /\ Put(d, "Failed")

\* A transient diagnostic keeps the state and sets the next retry.
RecordCatalogFinalizerFailure(d, class) ==
    /\ release[d].state \in {"Installing", "Committing"}
    /\ release' = IF class = "deterministic" THEN [release EXCEPT ![d].state = "Failed"]
                                             ELSE [release EXCEPT ![d].due = FALSE]

MarkEntry(d, e, from, to) ==
    /\ release[d].state = "Installing" /\ entry[d][e].state = from
    /\ entry' = [entry EXCEPT ![d][e] = [state |-> to, version |-> @.version + 1]]

MarkCatalogEntryMaterialized(d, e) == MarkEntry(d, e, "MaterializingArtifact", "Verifying")

\* The stored report must have passed.
MarkCatalogEntryVerified(d, e) == verdict[d][e] = "passed" /\ MarkEntry(d, e, "Verifying", "ReadyToCommit")

\* One intent for each entry, all of which must be verified.
PrepareReleaseCommit(d) ==
    /\ release[d].state = "Installing"
    /\ \A e \in Entries : entry[d][e].state = "ReadyToCommit"
    /\ Put(d, "Committing")
    /\ commit' = [commit EXCEPT ![d] = [e \in Entries |-> [state |-> "Prepared", at |-> 0]]]

\* Seeded fault: the commit takes a second reading of the clock.
MarkWithSecondClock(d, e) ==
    /\ release[d].state = "Committing" /\ commit[d][e].state = "Prepared"
    /\ commit' = [commit EXCEPT ![d][e] = [state |-> "Materialized", at |-> faults + 1]]

\* The publication time is the one in the manifest on disk.
MarkCommitMaterialized(d, e) ==
    /\ release[d].state = "Committing" /\ commit[d][e].state = "Prepared"
    /\ commit' = [commit EXCEPT ![d][e] = [state |-> "Materialized", at |-> disk[d][e].at]]

BaselineEstablished(d) == PublishedCount # 0 \/ \E x \in Digests \ {d} : release[x].state = "Ready"

Complete(d) == \A e \in Entries : commit[d][e].state = "Materialized" /\ entry[d][e].state = "ReadyToCommit"

\* Every scenario, every commit and the release, in one transaction.
CompleteReleaseCommit(d) ==
    /\ release[d].state = "Committing" /\ ~BaselineEstablished(d) /\ Complete(d)
    /\ rows' = [rows EXCEPT ![d] = [e \in Entries |-> commit[d][e].at]]
    /\ commit' = [commit EXCEPT ![d] = [e \in Entries |-> [commit[d][e] EXCEPT !.state = "Committed"]]]
    /\ Put(d, "Ready")

(***************************************************************************)
(* What a configured digest may become.                                    *)
(***************************************************************************)
\* The state of the release to resume, "create", or nothing for a conflict.
SelectBootstrapRelease(d) ==
    LET in(states) == {x \in Digests : release[x].state \in states}
        known == {IF release[d].state = "none" THEN "create" ELSE release[d].state}
    IN  IF in({"Ready"}) # {} THEN IF in({"Ready"}) = {d} /\ in(Active) = {} THEN {"Ready"} ELSE {}
        ELSE IF PublishedCount # 0 \/ in(Active) \notin {{}, {d}} THEN {}
        ELSE known

\* Every active revision's directory is there and has the row's time.
CheckIntegrity ==
    \A d \in Digests, e \in Entries : rows[d][e] # 0 => disk[d][e] = [present |-> TRUE, at |-> rows[d][e]]

(***************************************************************************)
(* RunOnce: ensureRelease.                                                 *)
(***************************************************************************)
TerminalSources == {x \in Digests : release[x].state = "Failed"}

Resumed(d, state) ==
    CASE state = "create" -> [NoPass EXCEPT !.pc = "create", !.d = d]
      [] state = "Pending" /\ release[d].due -> [NoPass EXCEPT !.pc = "stage", !.d = d]
      [] state \in {"Installing", "Committing"} /\ release[d].due -> [NoPass EXCEPT !.pc = "load", !.d = d]
      [] OTHER -> NoPass

\* The pass removes what terminal releases left behind and picks its release.
BeginPass ==
    LET d == server.digest
        selected == SelectBootstrapRelease(d)
    IN  /\ At("idle") /\ Sound
        /\ source' = source \ (TerminalSources \cup (IF selected = {"Ready"} THEN {d} ELSE {}))
        /\ inst' = IF selected = {} THEN NoPass ELSE Resumed(d, CHOOSE s \in selected : TRUE)
        /\ <<source', inst'>> # <<source, inst>>
        /\ UNCHANGED <<content, queue, disk, swept>>

CreateRelease ==
    /\ At("create") /\ Sound
    /\ CreateOrGetRelease(inst.d)
    /\ Goto("stage")
    /\ UNCHANGED <<entry, commit, rows, queue, files>>

\* Is the bundle an OCI archive with one source layer, and that layer a catalog?
LoadPortableSource(d) == bundle[d] = "good"

\* Every blob is checked against its digest: a pull delivers the bundle or breaks.
PullOCIArchive(ok) == IF ok THEN Sound ELSE Fault

\* A persisted source is read again; otherwise it is pulled, checked and renamed
\* into place.  What is wrong with the bundle is wrong at every attempt.
StageSource(next, todo) ==
    /\ \E ok \in BOOLEAN :
         /\ PullOCIArchive(ok)
         /\ LET class == IF ~ok THEN "transient"
                         ELSE IF inst.d \in source \/ LoadPortableSource(inst.d) THEN "none" ELSE "deterministic"
            IN  IF class = "none"
                THEN source' = source \cup {inst.d} /\ inst' = [inst EXCEPT !.pc = next, !.todo = todo]
                ELSE UNCHANGED source /\ inst' = [inst EXCEPT !.pc = "failed", !.class = class]
    /\ UNCHANGED <<content, queue, disk, swept>>

StagePending == At("stage") /\ StageSource("initialize", {})

\* A pass that finds the release installing or committing needs its source too,
\* then lists the entries or the commits, which only the installer writes.
LoadOrStageSource ==
    /\ At("load")
    /\ IF release[inst.d].state = "Installing"
       THEN StageSource("advance", {e \in Entries : entry[inst.d][e].state # "ReadyToCommit"})
       ELSE StageSource("finalize", Entries)

\* The pass records how staging or finalizing failed, and ends.
RecordFailure ==
    /\ At("failed") /\ Sound
    /\ IF release[inst.d].state = "Pending"
       THEN IF inst.class = "deterministic" THEN FailRelease(inst.d, {"Pending"})
                                            ELSE ReportSourceInfrastructureFailure(inst.d)
       ELSE RecordCatalogFinalizerFailure(inst.d, inst.class)
    /\ Ends
    /\ UNCHANGED <<entry, commit, rows, queue, files>>

Initialize ==
    /\ At("initialize") /\ Sound
    /\ InitializeRelease(inst.d)
    /\ inst' = [inst EXCEPT !.pc = "advance", !.todo = Entries]
    /\ UNCHANGED <<commit, rows, queue, files>>

(***************************************************************************)
(* RunOnce: advanceEntries and prepareCommit.                              *)
(***************************************************************************)
PhaseOf(state) == IF state = "Verifying" THEN "verify" ELSE "materialize"

\* Entries and commits are taken in the fixed order of their listing.
First(todo) == CHOOSE e \in todo : TRUE

\* compileEntry, the stored source and the action: scheduled before it is resolved.
ScheduleEntry(e) ==
    LET phase == PhaseOf(entry[inst.d][e].state)
        a == <<inst.d, e, phase>>
    IN  /\ At("advance") /\ inst.todo # {} /\ e = First(inst.todo) /\ Sound
        /\ inst' = [inst EXCEPT !.pc = "resolve", !.todo = @ \ {e}, !.e = e, !.phase = phase]
        /\ \/ Queue!Schedule(a)
           \/ status[a] \notin {"none", "infra-failed"} /\ UNCHANGED status
        /\ UNCHANGED <<content, verdict, files>>

\* Seeded fault: a failed action is waited for like an unfinished one.
ResolvedAlwaysWaits(s) == IF s = "completed" THEN "mark" ELSE "advance"

Resolved(s) ==
    CASE s = "pending" -> "advance"
      [] s \in {"artifact-failed", "infra-failed"} -> "fail"
      [] s = "completed" -> "mark"

ResolveEntry ==
    /\ At("resolve") /\ Sound
    /\ Goto(Resolved(status[<<inst.d, inst.e, inst.phase>>]))
    /\ UNCHANGED <<content, queue, files>>

\* failReleaseForAction, and a report that did not pass.
FailReleaseForAction ==
    /\ At("fail") /\ Sound
    /\ FailRelease(inst.d, Active)
    /\ Ends
    /\ UNCHANGED <<entry, commit, rows, queue, files>>

MarkEntryDone ==
    /\ At("mark") /\ Sound
    /\ IF inst.phase = "materialize"
       THEN MarkCatalogEntryMaterialized(inst.d, inst.e) /\ Goto("advance")
       ELSE IF verdict[inst.d][inst.e] = "passed"
            THEN MarkCatalogEntryVerified(inst.d, inst.e) /\ Goto("advance")
            ELSE UNCHANGED entry /\ Goto("fail")
    /\ UNCHANGED <<release, commit, rows, queue, files>>

\* Once no entry is left the pass tries to prepare the commit, and ends.
PrepareCommit ==
    /\ At("advance") /\ inst.todo = {} /\ Sound
    /\ IF \A e \in Entries : entry[inst.d][e].state = "ReadyToCommit"
       THEN PrepareReleaseCommit(inst.d)
       ELSE UNCHANGED <<release, commit>>
    /\ Ends
    /\ UNCHANGED <<entry, rows, queue, files>>

(***************************************************************************)
(* RunOnce: finalizeCommit.                                                *)
(***************************************************************************)
\* ensureMaterialized for a materialized commit: a missing directory is transient.
CheckMaterialized(e) ==
    /\ At("finalize") /\ inst.todo # {} /\ e = First(inst.todo) /\ Sound
    /\ commit[inst.d][e].state = "Materialized"
    /\ inst' = IF disk[inst.d][e].present THEN [inst EXCEPT !.todo = @ \ {e}]
                                          ELSE [inst EXCEPT !.pc = "failed", !.class = "transient"]
    /\ UNCHANGED <<content, queue, files>>

\* A directory that is already there is taken as it is; a new one gets a time.
PromoteDirectoryAt(dir) == IF dir.present THEN dir ELSE [present |-> TRUE, at |-> dir.at + 1]

MaterializeCommit(e) ==
    /\ At("finalize") /\ inst.todo # {} /\ e = First(inst.todo)
    /\ commit[inst.d][e].state = "Prepared"
    /\ \/ /\ Sound
          /\ disk' = [disk EXCEPT ![inst.d][e] = PromoteDirectoryAt(@)]
          /\ inst' = [inst EXCEPT !.pc = "promoted", !.todo = @ \ {e}, !.e = e, !.all = FALSE]
       \/ /\ Fault /\ UNCHANGED disk
          /\ \E class \in {"transient", "deterministic"} : inst' = [inst EXCEPT !.pc = "failed", !.class = class]
    /\ UNCHANGED <<content, queue, source, swept>>

MarkPromoted ==
    /\ At("promoted") /\ Sound
    /\ MarkCommitMaterialized(inst.d, inst.e)
    /\ Goto("finalize")
    /\ UNCHANGED <<release, entry, rows, queue, files>>

\* Nothing had to be written in this pass: everything is published at once.
FinalizeCommit ==
    /\ At("finalize") /\ inst.todo = {} /\ Sound
    /\ IF ~inst.all THEN UNCHANGED <<release, commit, rows>> /\ Ends
       ELSE \/ CompleteReleaseCommit(inst.d) /\ Ends
            \/ /\ BaselineEstablished(inst.d)
               /\ inst' = [inst EXCEPT !.pc = "failed", !.class = "deterministic"]
               /\ UNCHANGED <<release, commit, rows>>
    /\ UNCHANGED <<entry, queue, files>>

\* Any other broken call ends the pass; the database keeps what was committed.
AbortPass ==
    /\ server.state = "up" /\ inst.pc # "idle" /\ Fault
    /\ Ends
    /\ UNCHANGED <<bundle, content, authored, queue, files, sweep, server>>

(***************************************************************************)
(* Around the installer.                                                   *)
(***************************************************************************)
\* A retry time passes.
RetryComesDue(d) ==
    /\ ~release[d].due
    /\ release' = [release EXCEPT ![d].due = TRUE]
    /\ UNCHANGED <<bundle, entry, commit, rows, authored, queue, files, inst, sweep, server, faults>>

\* The queue settles an action; exhausting its attempts is a fault of the world.
ActionSettles(a) ==
    /\ \/ Queue!Settle(a, "artifact-failed") /\ Sound /\ UNCHANGED verdict
       \/ Queue!Settle(a, "infra-failed") /\ Fault /\ UNCHANGED verdict
       \/ /\ Queue!Settle(a, "completed") /\ Sound
          /\ \E v \in {"passed", "rejected"} :
               verdict' = IF a[3] = "verify" THEN [verdict EXCEPT ![a[1]][a[2]] = v] ELSE verdict
    /\ UNCHANGED <<bundle, content, authored, files, inst, sweep, server>>

\* An author's publication, which no gate of the Server holds back.  Beside a
\* ready baseline it changes nothing here.
AuthorPublishes ==
    /\ server.state = "up" /\ ~authored /\ \A d \in Digests : release[d].state # "Ready"
    /\ authored' = TRUE
    /\ UNCHANGED <<bundle, content, queue, files, inst, sweep, server, faults>>

RetainedMaterializationPaths ==
    {p \in Digests \X Entries : \/ rows[p[1]][p[2]] # 0
                                \/ release[p[1]].state = "Committing" /\ commit[p[1]][p[2]].state # "none"}

OnDisk == {p \in Digests \X Entries : disk[p[1]][p[2]].present}

Removed(gone) == disk' = [d \in Digests |-> [e \in Entries |->
                             [disk[d][e] EXCEPT !.present = @ /\ <<d, e>> \notin gone]]]

\* The reconciler lists what to keep, and later removes the rest.
SweepLists ==
    /\ server.state = "up" /\ sweep.pc = "idle"
    /\ sweep' = [pc |-> "listed", retained |-> RetainedMaterializationPaths]
    /\ UNCHANGED <<bundle, content, authored, queue, files, inst, server, faults>>

SweepRemoves ==
    LET gone == OnDisk \ sweep.retained
    IN  /\ server.state = "up" /\ sweep.pc = "listed"
        /\ Removed(gone)
        /\ swept' = swept \cup {p \in gone : release[p[1]].state \in {"Committing", "Ready"}}
        /\ sweep' = NoSweep
        /\ UNCHANGED <<bundle, content, authored, queue, source, inst, server, faults>>

Stop ==
    /\ server.state = "up" /\ Fault
    /\ server' = [server EXCEPT !.state = "down"]
    /\ inst' = NoPass /\ sweep' = NoSweep
    /\ UNCHANGED <<bundle, content, authored, queue, files>>

\* A start with some digest configured: the reconciler's recovery pass comes
\* first, then ValidateBootstrap and CheckIntegrity may refuse to go on.
Boot(d) ==
    /\ server.state # "up"
    /\ server.digest = None => d = Initial
    /\ Removed(OnDisk \ RetainedMaterializationPaths)
    /\ server' = [state |-> IF SelectBootstrapRelease(d) # {} /\ CheckIntegrity THEN "up" ELSE "refused",
                  digest |-> d]
    /\ UNCHANGED <<bundle, content, authored, queue, source, swept, inst, sweep, faults>>

Pass ==
    \/ BeginPass \/ CreateRelease \/ StagePending \/ LoadOrStageSource \/ RecordFailure \/ Initialize
    \/ (\E e \in Entries : ScheduleEntry(e)) \/ ResolveEntry \/ FailReleaseForAction
    \/ MarkEntryDone \/ PrepareCommit
    \/ (\E e \in Entries : CheckMaterialized(e) \/ MaterializeCommit(e)) \/ MarkPromoted
    \/ FinalizeCommit

Next ==
    \/ Pass \/ AbortPass
    \/ \E d \in Digests : RetryComesDue(d) \/ Boot(d)
    \/ \E a \in Digests \X Entries \X Phases : ActionSettles(a)
    \/ AuthorPublishes
    \/ SweepLists \/ SweepRemoves
    \/ Stop

Spec == Init /\ [][Next]_vars

\* The installer polls, a retry time comes, the queue settles what is pending,
\* and a stopped Server is started again.
FairSpec ==
    /\ Spec
    /\ WF_vars(Pass) /\ WF_vars(\E d \in Digests : Boot(d))
    /\ WF_vars(\E d \in Digests : RetryComesDue(d))
    /\ WF_vars(\E a \in Digests \X Entries \X Phases : ActionSettles(a))

-----------------------------------------------------------------------------
\* Type correctness, with Release.Valid and Entry.Valid: an initialized release
\* has its entries, a committing or ready one has its commits.
CatalogTypeOK ==
    /\ \A d \in Digests :
         /\ release[d] \in [state : ReleaseStates, attempt : 0..MaxSourceAttempts, due : BOOLEAN]
         /\ \A e \in Entries :
              /\ entry[d][e].state \in EntryStates /\ commit[d][e].state \in CommitStates
              /\ release[d].state \in {"Installing", "Committing", "Ready"} => entry[d][e].state # "none"
              /\ release[d].state \in {"Committing", "Ready"} => commit[d][e].state # "none"
    /\ Queue!ContractTypeOK
    /\ inst.d \in Digests \cup {None} /\ inst.todo \subseteq Entries
    /\ faults \in 0..MaxFaults

\* Whatever digest each restart configures, the platform gets one baseline: at
\* most one release is ready, at most one is under way, and none is under way
\* beside a ready one.
OneBaseline ==
    LET in(states) == {d \in Digests : release[d].state \in states}
    IN  Cardinality(in({"Ready"} \cup Active)) <= 1

\* A baseline is visible as a whole, verified and readable: its scenarios exist
\* exactly when it is ready, each passed verification, and each directory carries
\* the publication time of its row, across crashes between writing the directory
\* and recording it.  Only a sweep that had listed before the commits were
\* prepared can take a directory away.
BaselineIsIntact ==
    \A d \in Digests, e \in Entries :
        /\ (rows[d][e] # 0) <=> (release[d].state = "Ready")
        /\ rows[d][e] # 0 => /\ verdict[d][e] = "passed"
                             /\ disk[d][e].at = rows[d][e]
                             /\ disk[d][e].present \/ <<d, e>> \in swept

\* An installation ends, ready or failed, unless the Server refuses to start, a
\* late sweep took a directory, for which the installer then waits for ever, or an
\* author published before the baseline, which conflicts with it for good.
\* Infrastructure failures are finite here: the queue's are rescheduled without
\* limit, because the action is scheduled again before it is resolved.
ReleaseSettles ==
    \A d \in Digests : release[d].state \in Active
        ~> (release[d].state \in Terminal \/ server.state = "refused" \/ swept # {} \/ authored)

\* The source of a failed release is removed, also when another digest has been
\* configured since, unless the Server refuses to start.
FailedIsCleaned ==
    \A d \in Digests : (release[d].state = "Failed" /\ d \in source)
        ~> (d \notin source \/ server.state = "refused")
\* One baseline, visible as a whole and intact.
BaselineInvariant == CatalogTypeOK /\ OneBaseline /\ BaselineIsIntact

\* An installation ends, and a failed one leaves nothing behind.
InstallationsEnd == ReleaseSettles /\ FailedIsCleaned
=============================================================================
