------------------------ MODULE ScenarioPublication ------------------------
(***************************************************************************)
(* The tail of a generation workflow: the author confirms a candidate, the *)
(* PublicationFinalizer puts its directory on the Server's data volume and *)
(* publishes it in one transaction, and the MaterializationReconciler      *)
(* removes directories that PostgreSQL does not refer to.                  *)
(*                                                                         *)
(* Finalizer and reconciler are two goroutines of the one Server; each     *)
(* file system operation and each transaction of theirs is a step.         *)
(* Confirming twice is impossible, so a workflow also names the scenario   *)
(* revision its confirmation prepares.  Original is a scenario published   *)
(* earlier, as revision Origin; a session revises it or creates a scenario *)
(* of its own, named after the workflow that publishes it.                 *)
(***************************************************************************)
EXTENDS Naturals

CONSTANTS
  Workflows, Sessions, SessionOf,
  Revising,              \* the sessions that revise Original
  Original, Origin, None,
  Periodic,              \* does the Server stay up for a reconciler interval?
  MaxFaults              \* bound: crashes and failing calls in a behaviour

Revisions == Workflows \cup {Origin}
Scenarios == Workflows \cup {Original}

ASSUME PublicationAssumption ==
  /\ SessionOf \in [Workflows -> Sessions] /\ Revising \subseteq Sessions
  /\ Origin \notin Workflows /\ Original \notin Workflows
  /\ None \notin Revisions
  /\ Periodic \in BOOLEAN /\ MaxFaults \in Nat

VARIABLES
  state,     \* generation_workflows.state of each workflow
  retry,     \* its finalizer_next_retry_at: "none", "waiting" or "due"
  base,      \* authoring_sessions.revision_base_active_revision_id
  scen,      \* scenarios
  rev,       \* scenario_revisions.state
  disk,      \* the revisions whose directory is at its target path
  parents,   \* the slug directories
  staging,   \* .tmp- directories
  fin,       \* the finalizer's pass
  rec,       \* the reconciler's pass
  server,    \* "up", or the recovery pass of the start that is running
  faults

vars == <<state, retry, base, scen, rev, disk, parents, staging, fin, rec, server, faults>>
database == <<state, retry, base, scen, rev>>
files == <<disk, parents, staging>>

Finalization == [pc : {"idle", "next", "check", "parent", "rename", "commit", "record"},
                 todo : SUBSET Workflows, w : Workflows \cup {None},
                 class : {"none", "deterministic", "transient"}]
Sweep == [pc : {"idle", "list", "next", "sweep"}, retained : SUBSET Revisions,
          todo : SUBSET Scenarios, slug : Scenarios \cup {None}, revs : SUBSET Revisions,
          failed : BOOLEAN]

(* A pass of the finalizer that has yet to look at todo.                   *)
Pass(todo) == [pc |-> IF todo = {} THEN "idle" ELSE "next", todo |-> todo, w |-> None,
               class |-> "none"]
NoFin == Pass({})
NoRec == [pc |-> "idle", retained |-> {}, todo |-> {}, slug |-> None, revs |-> {},
          failed |-> FALSE]

IsRevision(w) == SessionOf[w] \in Revising
ScenarioOf(r) == IF r = Origin \/ IsRevision(r) THEN Original ELSE r
Slug(r) == ScenarioOf(r)
Published == {r \in Revisions : rev[r] # "none"}

Init ==
  /\ state = [w \in Workflows |-> "none"]
  /\ retry = [w \in Workflows |-> "none"]
  /\ base = [s \in Sessions |-> None]
  /\ scen = [x \in Scenarios |-> IF x = Original THEN [state |-> "active", active |-> Origin]
                                                 ELSE [state |-> "none", active |-> None]]
  /\ rev = [r \in Revisions |-> IF r = Origin THEN "active" ELSE "none"]
  /\ disk = {Origin} /\ parents = {Original} /\ staging = {}
  /\ fin = NoFin /\ rec = NoRec
  /\ server = "up" /\ faults = MaxFaults

Fault == faults > 0 /\ faults' = faults - 1
Sound == UNCHANGED faults

-----------------------------------------------------------------------------
(* The author.                                                             *)

(* CreateScenarioRevisionSession notes the revision it starts from; the    *)
(* session's workflows then reach the author's review.                     *)
OpenSession(s) ==
  /\ server = "up"
  /\ \A w \in Workflows : SessionOf[w] = s => state[w] = "none"
  /\ s \in Revising => scen[Original].state = "active"
  /\ base' = [base EXCEPT ![s] = IF s \in Revising THEN scen[Original].active ELSE None]
  /\ state' = [w \in Workflows |-> IF SessionOf[w] = s THEN "NeedsAuthorReview" ELSE state[w]]
  /\ UNCHANGED <<retry, scen, rev, files, fin, rec, server, faults>>

(* Seeded fault: the base the session started from is not compared with.   *)
AtBaseNeverChecked(w) == scen[Original].state = "active"

AtBase(w) == scen[Original].state = "active" /\ scen[Original].active = base[SessionOf[w]]

(* ConfirmGenerationContent with prepareGenerationPublicationTx.           *)
Confirm(w) ==
  /\ server = "up" /\ state[w] = "NeedsAuthorReview"
  /\ IsRevision(w) => AtBase(w)
  /\ state' = [state EXCEPT ![w] = "Publishing"]
  /\ UNCHANGED <<retry, base, scen, rev, files, fin, rec, server, faults>>

CancelGenerationWorkflow(w) ==
  /\ server = "up" /\ state[w] \in {"NeedsAuthorReview", "Publishing"}
  /\ state' = [state EXCEPT ![w] = "Cancelled"]
  /\ UNCHANGED <<retry, base, scen, rev, files, fin, rec, server, faults>>

DeprecateAuthoringScenario(x) ==
  /\ server = "up" /\ scen[x].state = "active"
  /\ scen' = [scen EXCEPT ![x].state = "deprecated"]
  /\ UNCHANGED <<state, retry, base, rev, files, fin, rec, server, faults>>

-----------------------------------------------------------------------------
(* The finalizer: RunOnce, materialize, classify and record.               *)

FinUp == server \in {"up", "finalizing"} /\ UNCHANGED rec

(* Seeded fault: only publications never attempted before are pending.     *)
PendingFirstAttempts == {w \in Workflows : state[w] = "Publishing" /\ retry[w] = "none"}

(* PendingGenerationPublicationFinalizations.                              *)
Pending == {w \in Workflows : state[w] = "Publishing" /\ retry[w] # "waiting"}

RetryDue(w) ==
  /\ retry[w] = "waiting"
  /\ retry' = [retry EXCEPT ![w] = "due"]
  /\ UNCHANGED <<state, base, scen, rev, files, fin, rec, server, faults>>

(* The pass goes on with the next publication or ends; at the start of the *)
(* Server the end of the pass opens the HTTP listener.                     *)
Proceed ==
  /\ fin' = Pass(fin.todo)
  /\ server' = IF fin.todo = {} THEN "up" ELSE server

GoTo(pc) == fin' = [fin EXCEPT !.pc = pc] /\ UNCHANGED server

Report(class) == fin' = [fin EXCEPT !.pc = "record", !.class = class] /\ UNCHANGED server

ListPending ==
  /\ FinUp /\ fin.pc = "idle" /\ (Pending # {} \/ server = "finalizing")
  /\ fin' = Pass(Pending)
  /\ server' = IF Pending = {} THEN "up" ELSE server
  /\ UNCHANGED <<database, files, faults>>

(* ResolveRunnableRevision; its database errors are not path errors, so    *)
(* publicationFailure calls them deterministic.                            *)
Resolve(w) ==
  /\ FinUp /\ fin.pc = "next" /\ w \in fin.todo
  /\ \/ Sound /\ fin' = [pc |-> "check", todo |-> fin.todo \ {w}, w |-> w, class |-> "none"]
     \/ Fault /\ fin' = [pc |-> "record", todo |-> fin.todo \ {w}, w |-> w,
                         class |-> "deterministic"]
  /\ UNCHANGED <<database, files, server>>

(* validateExistingPublication, else populate a staging directory; a path  *)
(* error on the way is transient.                                          *)
Check ==
  /\ FinUp /\ fin.pc = "check"
  /\ \/ Sound /\ fin.w \in disk /\ GoTo("commit") /\ UNCHANGED staging
     \/ Sound /\ fin.w \notin disk /\ GoTo("parent") /\ staging' = staging \cup {fin.w}
     \/ Fault /\ Report("transient") /\ UNCHANGED staging
  /\ UNCHANGED <<database, disk, parents>>

(* materializeAt: MkdirAll of the slug directory.                          *)
MakeParent ==
  /\ FinUp /\ fin.pc = "parent"
  /\ parents' = parents \cup {Slug(fin.w)}
  /\ GoTo("rename")
  /\ UNCHANGED <<database, disk, staging, faults>>

(* materializeAt: os.Rename.  Without its parent it fails with a LinkError *)
(* which is no PathError either.                                           *)
Rename ==
  /\ FinUp /\ fin.pc = "rename"
  /\ staging' = staging \ {fin.w}
  /\ \/ Slug(fin.w) \in parents /\ disk' = disk \cup {fin.w} /\ GoTo("commit")
     \/ Slug(fin.w) \notin parents /\ Report("deterministic") /\ UNCHANGED disk
  /\ UNCHANGED <<database, parents, faults>>

(* A second scenario of one authoring session violates its unique key.     *)
SourceTaken(w) ==
  \E v \in Workflows \ {w} : SessionOf[v] = SessionOf[w] /\ scen[v].state # "none"

(* FinalizeGenerationScenarioPublication, finalizeAuthoringRevisionTx.     *)
Publish(w) ==
  /\ state[w] = "Publishing"
  /\ state' = [state EXCEPT ![w] = "Published"] /\ retry' = [retry EXCEPT ![w] = "none"]
  /\ \/ /\ IsRevision(w) /\ AtBase(w)
        /\ rev' = [rev EXCEPT ![scen[Original].active] = "superseded", ![w] = "active"]
        /\ scen' = [scen EXCEPT ![Original].active = w]
     \/ /\ ~IsRevision(w) /\ ~SourceTaken(w)
        /\ rev' = [rev EXCEPT ![w] = "active"]
        /\ scen' = [scen EXCEPT ![w] = [state |-> "active", active |-> w]]

(* ErrRevisionConflict and the unique key's error are both unclassified,   *)
(* hence transient.                                                        *)
Conflict(w) == IF IsRevision(w) THEN ~AtBase(w) ELSE SourceTaken(w)

Commit ==
  /\ FinUp /\ fin.pc = "commit"
  /\ \/ Sound /\ Publish(fin.w) /\ Proceed
     \/ /\ UNCHANGED <<state, retry, scen, rev>>
        /\ \/ Sound /\ state[fin.w] # "Publishing" /\ Report("deterministic")
           \/ Sound /\ state[fin.w] = "Publishing" /\ Conflict(fin.w) /\ Report("transient")
           \/ Fault /\ Report("transient")
  /\ UNCHANGED <<base, files>>

(* RecordGenerationPublicationFinalizerFailure, fenced by the state.       *)
Record ==
  /\ FinUp /\ fin.pc = "record" /\ Sound
  /\ state' = IF state[fin.w] = "Publishing" /\ fin.class = "deterministic"
              THEN [state EXCEPT ![fin.w] = "Failed"] ELSE state
  /\ retry' = IF state[fin.w] = "Publishing" /\ fin.class = "transient"
              THEN [retry EXCEPT ![fin.w] = "waiting"] ELSE retry
  /\ Proceed
  /\ UNCHANGED <<base, scen, rev, files>>

(* The diagnostic cannot be written: a warning, and on with the pass.      *)
LoseDiagnostic ==
  /\ FinUp /\ fin.pc = "record" /\ Fault /\ Proceed
  /\ UNCHANGED <<database, files>>

-----------------------------------------------------------------------------
(* The reconciler.                                                         *)

RecUp ==
  /\ server = "sweeping" \/ (server = "up" /\ Periodic)
  /\ UNCHANGED <<database, fin>>

(* Seeded fault: only what the active pointers show is retained.           *)
RetainedActiveOnly == {r \in Revisions : rev[r] = "active"} \cup
                      {w \in Workflows : state[w] = "Publishing"}

(* RetainedMaterializationPaths: published revisions and pending intents.  *)
Retained == Published \cup {w \in Workflows : state[w] = "Publishing"}

ReadRetained ==
  /\ RecUp /\ rec.pc = "idle"
  /\ rec' = [NoRec EXCEPT !.pc = "list", !.retained = Retained]
  /\ UNCHANGED <<files, server, faults>>

(* Seeded fault: a start keeps the staging directories it finds.           *)
StagingLeftKept == staging

(* Recover: no materializer is left from the previous process.  (The age   *)
(* at which a periodic pass takes a staging directory is far beyond the    *)
(* time a finalizer needs for its own.)                                    *)
StagingLeft == IF server = "sweeping" THEN {} ELSE staging

(* os.ReadDir of the scenarios directory.                                  *)
ListSlugs ==
  /\ RecUp /\ rec.pc = "list"
  /\ rec' = [rec EXCEPT !.pc = "next", !.todo = parents]
  /\ staging' = StagingLeft
  /\ UNCHANGED <<disk, parents, server, faults>>

OpenSlug(x) ==
  /\ RecUp /\ rec.pc = "next" /\ x \in rec.todo
  /\ rec' = [rec EXCEPT !.pc = "sweep", !.todo = @ \ {x}, !.slug = x,
                        !.revs = {r \in disk : Slug(r) = x}]
  /\ UNCHANGED <<files, server, faults>>

(* os.RemoveAll; a failure is kept for the pass's result.                  *)
Remove(r) ==
  /\ RecUp /\ rec.pc = "sweep" /\ r \in rec.revs \ rec.retained
  /\ \/ Sound /\ disk' = disk \ {r} /\ rec' = [rec EXCEPT !.revs = @ \ {r}]
     \/ Fault /\ UNCHANGED disk /\ rec' = [rec EXCEPT !.revs = @ \ {r}, !.failed = TRUE]
  /\ UNCHANGED <<parents, staging, server>>

(* os.Remove of the slug directory, which succeeds when it is empty.       *)
CloseSlug ==
  /\ RecUp /\ rec.pc = "sweep" /\ rec.revs \subseteq rec.retained
  /\ parents' = IF \E r \in disk : Slug(r) = rec.slug THEN parents ELSE parents \ {rec.slug}
  /\ rec' = [rec EXCEPT !.pc = "next", !.slug = None, !.revs = {}]
  /\ UNCHANGED <<disk, staging, server, faults>>

(* Seeded fault: a start goes on after a sweep that failed.                *)
AfterSweepAnyway == IF server = "sweeping" THEN "finalizing" ELSE server

(* A sweep that failed is a warning, or ends the start: the next one       *)
(* sweeps again.                                                           *)
AfterSweep == IF server = "sweeping" /\ ~rec.failed THEN "finalizing" ELSE server

EndSweep ==
  /\ RecUp /\ rec.pc = "next" /\ rec.todo = {}
  /\ rec' = NoRec
  /\ server' = AfterSweep
  /\ UNCHANGED <<files, faults>>

-----------------------------------------------------------------------------
(* The Server dies, and starts with the reconciler's recovery pass.        *)
Crash ==
  /\ Fault
  /\ server' = "sweeping" /\ fin' = NoFin /\ rec' = NoRec
  /\ UNCHANGED <<database, files>>

Author ==
  \/ \E s \in Sessions : OpenSession(s)
  \/ \E w \in Workflows : Confirm(w) \/ CancelGenerationWorkflow(w)
  \/ \E x \in Scenarios : DeprecateAuthoringScenario(x)

Finalizer ==
  \/ ListPending \/ Check \/ MakeParent \/ Rename \/ Commit \/ Record \/ LoseDiagnostic
  \/ \E w \in Workflows : Resolve(w)

Reconciler ==
  \/ ReadRetained \/ ListSlugs \/ CloseSlug \/ EndSweep
  \/ \E x \in Scenarios : OpenSlug(x)
  \/ \E r \in Revisions : Remove(r)

Next == Author \/ Finalizer \/ Reconciler \/ Crash \/ \E w \in Workflows : RetryDue(w)

(* Both goroutines tick for ever, and time passes.                         *)
Fairness ==
  /\ WF_vars(Finalizer) /\ WF_vars(Reconciler)
  /\ \A w \in Workflows : WF_vars(RetryDue(w))

Spec == Init /\ [][Next]_vars
FairSpec == Spec /\ Fairness

-----------------------------------------------------------------------------
(* Types; and a Server that is past recovery has no staging directory but  *)
(* the one its finalizer is filling.                                       *)
PublicationTypeOK ==
  /\ state \in [Workflows -> {"none", "NeedsAuthorReview", "Publishing", "Published", "Failed",
                              "Cancelled"}]
  /\ retry \in [Workflows -> {"none", "waiting", "due"}]
  /\ base \in [Sessions -> Revisions \cup {None}]
  /\ scen \in [Scenarios -> [state : {"none", "active", "deprecated"},
                             active : Revisions \cup {None}]]
  /\ rev \in [Revisions -> {"none", "active", "superseded"}]
  /\ disk \subseteq Revisions /\ parents \subseteq Scenarios /\ staging \subseteq Workflows
  /\ fin \in Finalization /\ rec \in Sweep
  /\ server \in {"up", "sweeping", "finalizing"} /\ faults \in 0 .. MaxFaults
  /\ server # "sweeping" => staging \subseteq {fin.w}

(* w is a published revision that was written from revision r.             *)
Heir(w, r) == IsRevision(w) /\ rev[w] # "none" /\ base[SessionOf[w]] = r

(* No update of a scenario is lost: of the authors who started from one    *)
(* revision at most one publishes, the active pointer shows the one active *)
(* revision, and nothing published builds on any revision but a superseded *)
(* one (finalizeAuthoringRevisionTx).                                      *)
NoLostUpdate ==
  /\ \A r \in Revisions : \A v, w \in Workflows : Heir(v, r) /\ Heir(w, r) => v = w
  /\ \A r \in Revisions : rev[r] = "active" <=> scen[ScenarioOf(r)].active = r
  /\ \A r \in Revisions : rev[r] = "superseded" <=> \E w \in Workflows : Heir(w, r)

(* The MaterializationReconciler "removes only scenario directories that   *)
(* have no durable publication reference": every published revision, also  *)
(* a superseded one, keeps its directory.                                  *)
PublishedIsOnDisk == Published \subseteq disk

(* A confirmed candidate is published, or ends, unless another publication *)
(* made its own impossible.                                                *)
PublicationEnds ==
  \A w \in Workflows : state[w] = "Publishing" ~> (state[w] # "Publishing" \/ Conflict(w))

(* A start leaves nothing behind: when its sweep is over, every directory  *)
(* is a published revision's or one the finalizer, which runs next, still  *)
(* has to publish, and no empty slug or staging directory is left of what  *)
(* the crash cut short (Recover "before publication loops begin").         *)
StartIsClean ==
  server = "finalizing" /\ fin.pc = "idle" =>
    /\ \A r \in disk : rev[r] # "none" \/ state[r] = "Publishing"
    /\ parents = {Slug(r) : r \in disk}
    /\ staging = {}
=============================================================================
