--------------------- MODULE ScenarioPublicationProofs ---------------------
(***************************************************************************)
(* For any number of authors, sessions, workflows and faults: publication  *)
(* loses no update, and the reconciler's pass at the start of the Server   *)
(* never removes the directory of a published revision and leaves nothing  *)
(* else behind.                                                            *)
(***************************************************************************)
EXTENDS ScenarioPublication, TLAPS

(* The type invariant, and when a staging directory can be there.          *)
TypeInv ==
  /\ PublicationTypeOK
  /\ fin.pc \notin {"idle", "next"} => fin.w \in Workflows
  /\ server # "sweeping" /\ fin.pc \notin {"parent", "rename"} => staging = {}
  /\ server = "sweeping" /\ rec.pc \in {"next", "sweep"} => staging = {}

LEMMA SlugTyped ==
  /\ \A r \in Revisions : ScenarioOf(r) \in Scenarios
  /\ \A r \in Revisions : Slug(r) \in Scenarios
BY PublicationAssumption DEF Slug, ScenarioOf, Revisions, Scenarios, IsRevision

LEMMA FaultsTyped ==
  ASSUME faults \in 0 .. MaxFaults, Fault \/ Sound
  PROVE  faults' \in 0 .. MaxFaults
BY PublicationAssumption DEF Fault, Sound

LEMMA PassTyped ==
  /\ \A todo \in SUBSET Workflows : Pass(todo) \in Finalization /\ Pass(todo).w = None
                                    /\ Pass(todo).pc \in {"idle", "next"}
  /\ NoFin \in Finalization /\ NoRec \in Sweep
  /\ NoFin.pc = "idle" /\ NoRec.pc = "idle"
BY DEF Pass, Finalization, NoFin, NoRec, Sweep

LEMMA MovesTyped ==
  ASSUME fin \in Finalization,
         \/ GoTo("commit") \/ GoTo("parent") \/ GoTo("rename")
         \/ Report("transient") \/ Report("deterministic")
  PROVE  /\ fin' \in Finalization /\ fin'.w = fin.w /\ UNCHANGED server
         /\ GoTo("commit") => fin'.pc = "commit"
         /\ GoTo("parent") => fin'.pc = "parent"
         /\ GoTo("rename") => fin'.pc = "rename"
         /\ Report("transient") \/ Report("deterministic") => fin'.pc = "record"
BY DEF GoTo, Report, Finalization

LEMMA RemoveTyped ==
  ASSUME NEW r \in Revisions, rec \in Sweep, Remove(r)
  PROVE  /\ rec' \in Sweep /\ rec'.pc = rec.pc /\ rec'.retained = rec.retained
         /\ rec'.todo = rec.todo /\ rec'.slug = rec.slug /\ rec'.revs = rec.revs \ {r}
         /\ rec'.failed = rec.failed \/ (UNCHANGED disk /\ rec'.failed)
         /\ disk' = disk \ {r} \/ (UNCHANGED disk /\ rec'.failed)
<1>1. CASE disk' = disk \ {r} /\ rec' = [rec EXCEPT !.revs = @ \ {r}]
  BY <1>1 DEF Sweep
<1>2. CASE UNCHANGED disk /\ rec' = [rec EXCEPT !.revs = @ \ {r}, !.failed = TRUE]
  BY <1>2 DEF Sweep
<1> QED
  BY <1>1, <1>2 DEF Remove

LEMMA InitTyped == Init => TypeInv
BY PublicationAssumption
   DEF Init, TypeInv, PublicationTypeOK, Finalization, Sweep, NoFin, Pass, NoRec, Revisions, Scenarios

(* The author's steps and the clock.                                       *)
LEMMA AuthorTyped ==
  ASSUME TypeInv, Author \/ \E w \in Workflows : RetryDue(w)
  PROVE  TypeInv'
<1> USE PublicationAssumption DEF TypeInv, PublicationTypeOK, files
<1>1. CASE \E s \in Sessions : OpenSession(s)
  BY <1>1 DEF OpenSession, Revisions, Scenarios
<1>2. CASE \E w \in Workflows : Confirm(w) \/ CancelGenerationWorkflow(w)
  BY <1>2 DEF Confirm, CancelGenerationWorkflow
<1>3. CASE \E x \in Scenarios : DeprecateAuthoringScenario(x)
  BY <1>3 DEF DeprecateAuthoringScenario
<1>4. CASE \E w \in Workflows : RetryDue(w)
  BY <1>4 DEF RetryDue
<1> QED
  BY <1>1, <1>2, <1>3, <1>4 DEF Author

LEMMA FinalizerTyped ==
  ASSUME TypeInv, Finalizer
  PROVE  TypeInv'
<1> USE PublicationAssumption DEF TypeInv, PublicationTypeOK, FinUp, database, files
<1>1. CASE ListPending
  <2>1. Pending \in SUBSET Workflows
    BY DEF Pending
  <2> QED
    BY <1>1, <2>1, PassTyped DEF ListPending
<1>2. CASE \E w \in Workflows : Resolve(w)
  <2> PICK w \in Workflows : Resolve(w)
    BY <1>2
  <2>1. fin' \in Finalization /\ fin'.w = w /\ fin'.pc \in {"check", "record"}
    BY DEF Resolve, Finalization
  <2>2. faults' \in 0 .. MaxFaults
    BY FaultsTyped DEF Resolve
  <2>3. staging = {}
    BY DEF Resolve
  <2> QED
    BY <2>1, <2>2, <2>3 DEF Resolve
<1>3. CASE Check
  <2>1. faults' \in 0 .. MaxFaults
    BY <1>3, FaultsTyped DEF Check
  <2>2. fin.w \in Workflows /\ staging = {}
    BY <1>3 DEF Check
  <2> QED
    BY <1>3, <2>1, <2>2, MovesTyped DEF Check
<1>4. CASE MakeParent
  <2>1. Slug(fin.w) \in Scenarios
    BY <1>4, SlugTyped DEF MakeParent, Revisions
  <2> QED
    BY <1>4, <2>1, MovesTyped DEF MakeParent
<1>5. CASE Rename
  <2>1. disk' \subseteq Revisions /\ staging' = {}
    BY <1>5 DEF Rename, Revisions
  <2> QED
    BY <1>5, <2>1, MovesTyped DEF Rename
<1>6. CASE Commit
  <2>1. /\ fin.w \in Workflows /\ fin.w \in Revisions /\ fin.w \in Scenarios
        /\ staging = {} /\ fin.todo \in SUBSET Workflows
    BY <1>6 DEF Commit, Revisions, Scenarios, Finalization
  <2>2. CASE Sound /\ Publish(fin.w) /\ Proceed
    <3>1. /\ state' \in [Workflows -> {"none", "NeedsAuthorReview", "Publishing", "Published",
                                       "Failed", "Cancelled"}]
          /\ retry' \in [Workflows -> {"none", "waiting", "due"}]
      BY <2>2 DEF Publish
    <3>2. rev' \in [Revisions -> {"none", "active", "superseded"}]
      BY <2>2 DEF Publish
    <3>3. scen' \in [Scenarios -> [state : {"none", "active", "deprecated"},
                                   active : Revisions \cup {None}]]
      BY <2>1, <2>2 DEF Publish
    <3>4. fin' \in Finalization /\ fin'.pc \in {"idle", "next"}
      BY <2>1, <2>2, PassTyped DEF Proceed
    <3> QED
      BY <1>6, <2>1, <2>2, <3>1, <3>2, <3>3, <3>4 DEF Commit, Proceed, Sound
  <2>3. CASE /\ UNCHANGED <<state, retry, scen, rev>>
             /\ Sound \/ Fault
             /\ Report("deterministic") \/ Report("transient")
    <3>1. faults' \in 0 .. MaxFaults
      BY <2>3, FaultsTyped
    <3> QED
      BY <1>6, <2>1, <2>3, <3>1, MovesTyped DEF Commit
  <2> QED
    BY <1>6, <2>2, <2>3 DEF Commit
<1>7. CASE Record
  <2>1. /\ state' \in [Workflows -> {"none", "NeedsAuthorReview", "Publishing", "Published",
                                     "Failed", "Cancelled"}]
        /\ retry' \in [Workflows -> {"none", "waiting", "due"}]
    BY <1>7 DEF Record
  <2>2. /\ fin' \in Finalization /\ fin'.pc \in {"idle", "next"}
        /\ server' \in {"up", "finalizing"} /\ staging = {}
    BY <1>7, PassTyped DEF Record, Proceed, Finalization
  <2> QED
    BY <1>7, <2>1, <2>2 DEF Record, Sound
<1>8. CASE LoseDiagnostic
  <2>1. /\ fin' \in Finalization /\ fin'.pc \in {"idle", "next"}
        /\ server' \in {"up", "finalizing"} /\ staging = {}
    BY <1>8, PassTyped DEF LoseDiagnostic, Proceed, Finalization
  <2>2. faults' \in 0 .. MaxFaults
    BY <1>8, FaultsTyped DEF LoseDiagnostic
  <2> QED
    BY <1>8, <2>1, <2>2 DEF LoseDiagnostic
<1> QED
  BY <1>1, <1>2, <1>3, <1>4, <1>5, <1>6, <1>7, <1>8 DEF Finalizer

LEMMA ReconcilerTyped ==
  ASSUME TypeInv, Reconciler
  PROVE  TypeInv'
<1> USE PublicationAssumption DEF TypeInv, PublicationTypeOK, RecUp, database, files
<1>1. CASE ReadRetained
  <2>1. Retained \subseteq Revisions
    BY DEF Retained, Published, Revisions
  <2>2. rec' \in Sweep /\ rec'.pc = "list"
    BY <1>1, <2>1 DEF ReadRetained, NoRec, Sweep
  <2> QED
    BY <1>1, <2>2 DEF ReadRetained
<1>2. CASE ListSlugs
  <2>1. rec' \in Sweep
    BY <1>2 DEF ListSlugs, Sweep
  <2>2. staging' \subseteq staging /\ (server = "sweeping" => staging' = {})
    BY <1>2 DEF ListSlugs, StagingLeft
  <2> QED
    BY <1>2, <2>1, <2>2 DEF ListSlugs
<1>3. CASE \E x \in Scenarios : OpenSlug(x)
  <2> PICK x \in Scenarios : OpenSlug(x)
    BY <1>3
  <2>1. rec' \in Sweep /\ rec.pc = "next"
    BY DEF OpenSlug, Sweep
  <2> QED
    BY <2>1 DEF OpenSlug
<1>4. CASE \E r \in Revisions : Remove(r)
  <2> PICK r \in Revisions : Remove(r)
    BY <1>4
  <2>1. rec' \in Sweep /\ rec.pc = "sweep"
    BY RemoveTyped DEF Remove
  <2>2. faults' \in 0 .. MaxFaults
    BY FaultsTyped DEF Remove
  <2> QED
    BY <2>1, <2>2 DEF Remove
<1>5. CASE CloseSlug
  <2>1. rec' \in Sweep /\ rec.pc = "sweep"
    BY <1>5 DEF CloseSlug, Sweep
  <2> QED
    BY <1>5, <2>1 DEF CloseSlug
<1>6. CASE EndSweep
  BY <1>6, PassTyped DEF EndSweep, AfterSweep
<1> QED
  BY <1>1, <1>2, <1>3, <1>4, <1>5, <1>6 DEF Reconciler

LEMMA CrashTyped ==
  ASSUME TypeInv, Crash
  PROVE  TypeInv'
BY PublicationAssumption
   DEF TypeInv, PublicationTypeOK, Crash, Fault, Finalization, Sweep, NoFin, Pass, NoRec, database, files

LEMMA StepTyped == TypeInv /\ [Next]_vars => TypeInv'
<1> SUFFICES ASSUME TypeInv, [Next]_vars PROVE TypeInv'
  OBVIOUS
<1>1. CASE UNCHANGED vars
  BY <1>1 DEF vars, TypeInv, PublicationTypeOK
<1> QED
  BY <1>1, AuthorTyped, FinalizerTyped, ReconcilerTyped, CrashTyped DEF Next

(* The rows, the passes and the volume keep their types, and no staging    *)
(* directory of a dead process outlives the recovery of the Server.        *)
THEOREM PublicationTypeCorrect == Spec => []PublicationTypeOK
<1>1. TypeInv => PublicationTypeOK
  BY DEF TypeInv
<1> QED
  BY <1>1, InitTyped, StepTyped, PTL DEF Spec

-----------------------------------------------------------------------------
(* A revision has a row exactly when its workflow is published; an active  *)
(* pointer stays within its scenario; a session starts from a published    *)
(* revision.                                                               *)
Linked ==
  /\ \A w \in Workflows : rev[w] # "none" <=> state[w] = "Published"
  /\ rev[Origin] # "none"
  /\ \A x \in Scenarios : scen[x].active # None => ScenarioOf(scen[x].active) = x
  /\ scen[Original].active # None
  /\ \A s \in Sessions : base[s] # None => rev[base[s]] # "none"

UpdateInv == Linked /\ NoLostUpdate

LEMMA InitUpdate == Init => UpdateInv
<1> SUFFICES ASSUME Init PROVE UpdateInv
  OBVIOUS
<1>1. Linked
  BY PublicationAssumption DEF Init, Linked, Revisions, Scenarios, ScenarioOf
<1>2. \A w \in Workflows, r \in Revisions : ~Heir(w, r)
  BY PublicationAssumption DEF Init, Heir, Revisions
<1>3. \A r \in Revisions : rev[r] = "active" <=> scen[ScenarioOf(r)].active = r
  BY PublicationAssumption DEF Init, Revisions, Scenarios, ScenarioOf, IsRevision
<1>4. \A r \in Revisions : rev[r] # "superseded"
  BY DEF Init
<1> QED
  BY <1>1, <1>2, <1>3, <1>4 DEF UpdateInv, NoLostUpdate

(* Steps that publish nothing and open no session.                         *)
LEMMA QuietSteps ==
  ASSUME UpdateInv, UNCHANGED <<base, rev>>,
         \A x \in Scenarios : scen'[x].active = scen[x].active,
         \A w \in Workflows : state'[w] = "Published" <=> state[w] = "Published"
  PROVE  UpdateInv'
<1>1. \A r \in Revisions : scen'[ScenarioOf(r)].active = scen[ScenarioOf(r)].active
  BY SlugTyped
<1>2. Original \in Scenarios
  BY DEF Scenarios
<1>3. Linked'
  BY <1>2 DEF UpdateInv, Linked
<1>4. NoLostUpdate'
  BY <1>1 DEF UpdateInv, NoLostUpdate, Heir
<1> QED
  BY <1>3, <1>4 DEF UpdateInv

LEMMA OpenSessionUpdate ==
  ASSUME TypeInv, UpdateInv, NEW s \in Sessions, OpenSession(s)
  PROVE  UpdateInv'
<1> USE PublicationAssumption DEF OpenSession, TypeInv, PublicationTypeOK
<1>1. \A w \in Workflows : SessionOf[w] = s => rev[w] = "none"
  BY DEF UpdateInv, Linked
<1>2. \A w \in Workflows, r \in Revisions : Heir(w, r)' <=> Heir(w, r)
  BY <1>1 DEF Heir
<1>3. rev[scen[Original].active] # "none"
  <2>1. scen[Original].active \in Revisions
    BY DEF UpdateInv, Linked, Scenarios
  <2>2. ScenarioOf(scen[Original].active) = Original
    BY DEF UpdateInv, Linked, Scenarios
  <2>3. rev[scen[Original].active] = "active"
    BY <2>1, <2>2 DEF UpdateInv, NoLostUpdate
  <2> QED
    BY <2>3
<1>4. \A t \in Sessions : base'[t] # None => rev[base'[t]] # "none"
  BY <1>3 DEF UpdateInv, Linked
<1>5. \A w \in Workflows : state'[w] = "Published" <=> state[w] = "Published"
  BY DEF UpdateInv
<1>6. Linked'
  BY <1>4, <1>5 DEF UpdateInv, Linked
<1>7. NoLostUpdate'
  BY <1>2 DEF UpdateInv, NoLostUpdate
<1> QED
  BY <1>6, <1>7 DEF UpdateInv

(* The transaction that publishes a revision of Original: its base is the  *)
(* active revision, which has no heir yet.                                 *)
LEMMA PublishRevisionUpdate ==
  ASSUME TypeInv, UpdateInv, NEW w \in Workflows, Publish(w), IsRevision(w), UNCHANGED base
  PROVE  UpdateInv'
<1> DEFINE a == scen[Original].active
<1> USE PublicationAssumption DEF TypeInv, PublicationTypeOK, Revisions, Scenarios
<1>1. /\ AtBase(w)
      /\ rev' = [rev EXCEPT ![a] = "superseded", ![w] = "active"]
      /\ scen' = [scen EXCEPT ![Original].active = w]
      /\ state' = [state EXCEPT ![w] = "Published"]
      /\ state[w] = "Publishing"
  BY DEF Publish
<1>2. /\ rev[w] = "none" /\ a \in Revisions /\ ScenarioOf(a) = Original
      /\ rev[a] = "active" /\ a # w
  <2>1. rev[w] = "none"
    BY <1>1 DEF UpdateInv, Linked
  <2>2. a \in Revisions /\ ScenarioOf(a) = Original
    BY DEF UpdateInv, Linked
  <2>3. rev[a] = "active"
    BY <2>2 DEF UpdateInv, NoLostUpdate
  <2> QED
    BY <2>1, <2>2, <2>3
<1>3. /\ rev'[w] = "active" /\ rev'[a] = "superseded"
      /\ \A r \in Revisions \ {a, w} : rev'[r] = rev[r]
  BY <1>1, <1>2
<1>4. /\ scen'[Original].active = w
      /\ \A x \in Scenarios \ {Original} : scen'[x] = scen[x]
  BY <1>1
<1>5. base[SessionOf[w]] = a
  BY <1>1 DEF AtBase
<1>6. \A v \in Workflows, r \in Revisions :
        Heir(v, r)' <=> (Heir(v, r) \/ (v = w /\ r = a))
  BY <1>2, <1>3, <1>5 DEF Heir
<1>7. \A v \in Workflows : ~Heir(v, a) /\ ~Heir(v, w)
  <2>1. \A v \in Workflows : ~Heir(v, a)
    BY <1>2 DEF UpdateInv, NoLostUpdate
  <2>2. \A v \in Workflows : ~Heir(v, w)
    BY <1>2 DEF UpdateInv, Linked, Heir
  <2> QED
    BY <2>1, <2>2
<1>8. ScenarioOf(w) = Original
  BY DEF ScenarioOf
<1>9. Linked'
  <2>1. \A v \in Workflows : rev'[v] # "none" <=> state'[v] = "Published"
    BY <1>1, <1>2, <1>3 DEF UpdateInv, Linked
  <2>2. rev'[Origin] # "none"
    BY <1>2, <1>3 DEF UpdateInv, Linked
  <2>3. \A x \in Scenarios : scen'[x].active # None => ScenarioOf(scen'[x].active) = x
    BY <1>4, <1>8 DEF UpdateInv, Linked
  <2>4. \A s \in Sessions : base'[s] # None => rev'[base'[s]] # "none"
    BY <1>3 DEF UpdateInv, Linked
  <2> QED
    BY <1>4, <2>1, <2>2, <2>3, <2>4 DEF Linked
<1>10. NoLostUpdate'
  <2>1. \A r \in Revisions : \A u, v \in Workflows : Heir(u, r)' /\ Heir(v, r)' => u = v
    BY <1>6, <1>7 DEF UpdateInv, NoLostUpdate
  <2>2. \A r \in Revisions : rev'[r] = "active" <=> scen'[ScenarioOf(r)].active = r
    <3> TAKE r \in Revisions
    <3>1. CASE r = w
      BY <1>3, <1>4, <1>8, <3>1
    <3>2. CASE r = a
      BY <1>2, <1>3, <1>4, <3>2
    <3>3. CASE r \notin {a, w} /\ ScenarioOf(r) = Original
      BY <1>3, <1>4, <3>3 DEF UpdateInv, NoLostUpdate
    <3>4. CASE r \notin {a, w} /\ ScenarioOf(r) # Original
      <4>1. ScenarioOf(r) \in Scenarios \ {Original}
        BY <3>4, SlugTyped
      <4> QED
        BY <1>3, <1>4, <3>4, <4>1 DEF UpdateInv, NoLostUpdate
    <3> QED
      BY <3>1, <3>2, <3>3, <3>4
  <2>3. \A r \in Revisions : rev'[r] = "superseded" <=> \E v \in Workflows : Heir(v, r)'
    BY <1>2, <1>3, <1>6, <1>7 DEF UpdateInv, NoLostUpdate
  <2> QED
    BY <2>1, <2>2, <2>3 DEF NoLostUpdate
<1> QED
  BY <1>9, <1>10 DEF UpdateInv

(* The transaction that publishes a new scenario.                          *)
LEMMA PublishScenarioUpdate ==
  ASSUME TypeInv, UpdateInv, NEW w \in Workflows, Publish(w), ~IsRevision(w), UNCHANGED base
  PROVE  UpdateInv'
<1> USE PublicationAssumption DEF TypeInv, PublicationTypeOK, Revisions, Scenarios
<1>1. /\ rev' = [rev EXCEPT ![w] = "active"]
      /\ scen' = [scen EXCEPT ![w] = [state |-> "active", active |-> w]]
      /\ state' = [state EXCEPT ![w] = "Published"]
      /\ state[w] = "Publishing"
  BY DEF Publish
<1>2. rev[w] = "none" /\ ScenarioOf(w) = w
  BY <1>1 DEF UpdateInv, Linked, ScenarioOf
<1>3. rev'[w] = "active" /\ \A r \in Revisions \ {w} : rev'[r] = rev[r]
  BY <1>1
<1>4. scen'[w].active = w /\ \A x \in Scenarios \ {w} : scen'[x] = scen[x]
  BY <1>1
<1>5. \A v \in Workflows, r \in Revisions : Heir(v, r)' <=> Heir(v, r)
  BY <1>3 DEF Heir
<1>6. \A v \in Workflows : ~Heir(v, w)
  BY <1>2 DEF UpdateInv, Linked, Heir
<1>7. Linked'
  <2>1. \A v \in Workflows : rev'[v] # "none" <=> state'[v] = "Published"
    BY <1>1, <1>3 DEF UpdateInv, Linked
  <2>2. \A x \in Scenarios : scen'[x].active # None => ScenarioOf(scen'[x].active) = x
    BY <1>2, <1>4 DEF UpdateInv, Linked
  <2>3. \A s \in Sessions : base'[s] # None => rev'[base'[s]] # "none"
    BY <1>3 DEF UpdateInv, Linked
  <2> QED
    BY <1>3, <1>4, <2>1, <2>2, <2>3 DEF UpdateInv, Linked
<1>8. NoLostUpdate'
  <2>1. \A r \in Revisions : rev'[r] = "active" <=> scen'[ScenarioOf(r)].active = r
    <3> TAKE r \in Revisions
    <3>1. CASE r = w
      BY <1>2, <1>3, <1>4, <3>1
    <3>2. CASE r # w
      <4>1. ScenarioOf(r) \in Scenarios \ {w}
        BY <3>2 DEF ScenarioOf
      <4> QED
        BY <1>3, <1>4, <3>2, <4>1 DEF UpdateInv, NoLostUpdate
    <3> QED
      BY <3>1, <3>2
  <2> QED
    BY <1>3, <1>5, <1>6, <2>1 DEF UpdateInv, NoLostUpdate
<1> QED
  BY <1>7, <1>8 DEF UpdateInv

LEMMA StepUpdate == TypeInv /\ UpdateInv /\ [Next]_vars => UpdateInv'
<1> SUFFICES ASSUME TypeInv, UpdateInv, [Next]_vars PROVE UpdateInv'
  OBVIOUS
<1> USE DEF files, database
<1>1. CASE UNCHANGED vars
  BY <1>1, QuietSteps DEF vars
<1>2. CASE Author
  <2>1. CASE \E s \in Sessions : OpenSession(s)
    BY <2>1, OpenSessionUpdate
  <2>2. CASE \E w \in Workflows : Confirm(w) \/ CancelGenerationWorkflow(w)
    BY <2>2, QuietSteps DEF Confirm, CancelGenerationWorkflow, TypeInv, PublicationTypeOK
  <2>3. CASE \E x \in Scenarios : DeprecateAuthoringScenario(x)
    <3>1. \A x \in Scenarios : scen'[x].active = scen[x].active
      BY <2>3 DEF DeprecateAuthoringScenario, TypeInv, PublicationTypeOK
    <3> QED
      BY <2>3, <3>1, QuietSteps DEF DeprecateAuthoringScenario
  <2> QED
    BY <1>2, <2>1, <2>2, <2>3 DEF Author
<1>3. CASE Finalizer
  <2>1. CASE Commit
    <3>1. fin.w \in Workflows /\ UNCHANGED base
      BY <2>1 DEF Commit, TypeInv
    <3>2. CASE Publish(fin.w)
      BY <3>1, <3>2, PublishRevisionUpdate, PublishScenarioUpdate
    <3>3. CASE UNCHANGED <<state, retry, scen, rev>>
      BY <3>1, <3>3, QuietSteps
    <3> QED
      BY <2>1, <3>2, <3>3 DEF Commit
  <2>2. CASE Record
    <3>1. \A w \in Workflows : state'[w] = "Published" <=> state[w] = "Published"
      BY <2>2 DEF Record, TypeInv, PublicationTypeOK
    <3> QED
      BY <2>2, <3>1, QuietSteps DEF Record
  <2>3. CASE ListPending \/ Check \/ MakeParent \/ Rename \/ LoseDiagnostic
             \/ \E w \in Workflows : Resolve(w)
    BY <2>3, QuietSteps DEF ListPending, Check, MakeParent, Rename, LoseDiagnostic, Resolve
  <2> QED
    BY <1>3, <2>1, <2>2, <2>3 DEF Finalizer
<1>4. CASE Reconciler
  BY <1>4, QuietSteps
     DEF Reconciler, RecUp, ReadRetained, ListSlugs, CloseSlug, EndSweep, OpenSlug, Remove
<1>5. CASE Crash
  BY <1>5, QuietSteps DEF Crash
<1>6. CASE \E w \in Workflows : RetryDue(w)
  BY <1>6, QuietSteps DEF RetryDue
<1> QED
  BY <1>1, <1>2, <1>3, <1>4, <1>5, <1>6 DEF Next

(* However many authors revise one scenario, at most one of those who      *)
(* started from a revision publishes (finalizeAuthoringRevisionTx).        *)
THEOREM UpdatesAreNotLost == Spec => []NoLostUpdate
<1>1. UpdateInv => NoLostUpdate
  BY DEF UpdateInv
<1> QED
  BY <1>1, InitTyped, StepTyped, InitUpdate, StepUpdate, PTL DEF Spec

-----------------------------------------------------------------------------
(* Without periodic passes the reconciler works only while the finalizer   *)
(* is not there, from a set that holds everything published; and what the  *)
(* finalizer is about to publish is on the volume.                         *)
SweepInv ==
  /\ server = "sweeping" => fin.pc = "idle"
  /\ server # "sweeping" => rec.pc = "idle"
  /\ rec.pc # "idle" => Published \subseteq rec.retained
  /\ fin.pc = "commit" => fin.w \in disk
  /\ PublishedIsOnDisk

LEMMA InitSweep == Init => SweepInv
BY PassTyped DEF Init, SweepInv, PublishedIsOnDisk, Published

LEMMA FinalizerSweep ==
  ASSUME TypeInv, UpdateInv, SweepInv, Finalizer
  PROVE  SweepInv'
<1> USE DEF SweepInv, PublishedIsOnDisk, FinUp, database, files
<1>0. /\ server # "sweeping" /\ UNCHANGED rec /\ rec.pc = "idle"
      /\ fin \in Finalization /\ fin.todo \in SUBSET Workflows
  BY DEF Finalizer, ListPending, Check, MakeParent, Rename, Commit, Record, LoseDiagnostic, Resolve,
         TypeInv, PublicationTypeOK, Finalization
<1>1. CASE ListPending
  <2>1. Pending \in SUBSET Workflows
    BY DEF Pending
  <2> QED
    BY <1>0, <1>1, <2>1, PassTyped DEF ListPending, Published
<1>2. CASE \E w \in Workflows : Resolve(w)
  BY <1>0, <1>2 DEF Resolve, Published
<1>3. CASE Check \/ MakeParent
  BY <1>0, <1>3, MovesTyped DEF Check, MakeParent, Published
<1>4. CASE Rename
  BY <1>0, <1>4, MovesTyped DEF Rename, Published
<1>5. CASE Commit
  <2>1. CASE Publish(fin.w) /\ Proceed
    <3>1. Published' \subseteq Published \cup {fin.w}
      <4>1. \A r \in Revisions \ {fin.w} : rev'[r] = rev[r] \/ r = scen[Original].active
        BY <2>1 DEF Publish, TypeInv, PublicationTypeOK
      <4>2. IsRevision(fin.w) => scen[Original].active \in Published
        <5>1. Original \in Scenarios
          BY DEF Scenarios
        <5>2. scen[Original].active \in Revisions
          BY PublicationAssumption, <5>1 DEF UpdateInv, Linked, TypeInv, PublicationTypeOK
        <5>3. ScenarioOf(scen[Original].active) = Original
          BY <5>1 DEF UpdateInv, Linked
        <5> QED
          BY <5>2, <5>3 DEF UpdateInv, NoLostUpdate, Published
      <4>3. ~IsRevision(fin.w) => \A r \in Revisions \ {fin.w} : rev'[r] = rev[r]
        BY <2>1 DEF Publish, TypeInv, PublicationTypeOK
      <4> QED
        BY <4>1, <4>2, <4>3 DEF Published
    <3>2. server' # "sweeping" /\ fin'.pc \in {"idle", "next"}
      BY <1>0, <2>1, PassTyped DEF Proceed
    <3> QED
      BY <1>0, <1>5, <3>1, <3>2 DEF Commit
  <2>2. CASE UNCHANGED rev /\ (Report("deterministic") \/ Report("transient"))
    BY <1>0, <1>5, <2>2, MovesTyped DEF Commit, Published
  <2> QED
    BY <1>5, <2>1, <2>2 DEF Commit
<1>6. CASE Record \/ LoseDiagnostic
  <2>1. server' # "sweeping" /\ fin'.pc \in {"idle", "next"}
    BY <1>0, <1>6, PassTyped DEF Record, LoseDiagnostic, Proceed
  <2> QED
    BY <1>0, <1>6, <2>1 DEF Record, LoseDiagnostic, Published
<1> QED
  BY <1>1, <1>2, <1>3, <1>4, <1>5, <1>6 DEF Finalizer

LEMMA ReconcilerSweep ==
  ASSUME ~Periodic, TypeInv, SweepInv, Reconciler
  PROVE  SweepInv'
<1> USE DEF SweepInv, PublishedIsOnDisk, RecUp, database, files
<1>0. /\ server = "sweeping" /\ fin.pc = "idle" /\ UNCHANGED <<rev, fin>> /\ rec \in Sweep
      /\ Published' = Published
  BY DEF Reconciler, ReadRetained, ListSlugs, CloseSlug, EndSweep, OpenSlug, Remove, Published,
         TypeInv, PublicationTypeOK
<1>1. CASE ReadRetained
  BY <1>0, <1>1 DEF ReadRetained, Retained, NoRec
<1>2. CASE ListSlugs \/ CloseSlug \/ \E x \in Scenarios : OpenSlug(x)
  <2>1. rec'.retained = rec.retained /\ rec.pc # "idle"
    BY <1>0, <1>2 DEF ListSlugs, CloseSlug, OpenSlug, Sweep
  <2> QED
    BY <1>0, <1>2, <2>1 DEF ListSlugs, CloseSlug, OpenSlug
<1>3. CASE \E r \in Revisions : Remove(r)
  <2> PICK r \in Revisions : Remove(r)
    BY <1>3
  <2>1. rec'.retained = rec.retained /\ rec.pc # "idle"
    BY <1>0, RemoveTyped DEF Remove
  <2>2. r \notin Published
    BY <2>1 DEF Remove
  <2> QED
    BY <1>0, <2>1, <2>2 DEF Remove
<1>4. CASE EndSweep
  BY <1>0, <1>4, PassTyped DEF EndSweep, AfterSweep
<1> QED
  BY <1>1, <1>2, <1>3, <1>4 DEF Reconciler

LEMMA StepSweep ==
  ASSUME ~Periodic
  PROVE  TypeInv /\ UpdateInv /\ SweepInv /\ [Next]_vars => SweepInv'
<1> SUFFICES ASSUME TypeInv, UpdateInv, SweepInv, [Next]_vars PROVE SweepInv'
  OBVIOUS
<1>1. CASE Author \/ (\E w \in Workflows : RetryDue(w)) \/ UNCHANGED vars
  <2>1. UNCHANGED <<rev, disk, fin, rec, server>>
    BY <1>1 DEF Author, OpenSession, Confirm, CancelGenerationWorkflow, DeprecateAuthoringScenario,
                RetryDue, vars, files
  <2> QED
    BY <2>1 DEF SweepInv, PublishedIsOnDisk, Published
<1>2. CASE Crash
  BY <1>2, PassTyped DEF Crash, SweepInv, PublishedIsOnDisk, Published, database, files
<1> QED
  BY <1>1, <1>2, FinalizerSweep, ReconcilerSweep DEF Next

(* Crash and recover as often as it may: while no periodic pass of the     *)
(* MaterializationReconciler runs, every published revision, superseded    *)
(* ones included, keeps its directory.                                     *)
THEOREM RestartKeepsPublished ==
  ASSUME ~Periodic
  PROVE  Spec => []PublishedIsOnDisk
<1>1. SweepInv => PublishedIsOnDisk
  BY DEF SweepInv
<1> QED
  BY <1>1, InitTyped, StepTyped, InitUpdate, StepUpdate, InitSweep, StepSweep, PTL DEF Spec

-----------------------------------------------------------------------------
(* The sweep of a start, as long as nothing failed in it: a slug directory *)
(* that was dealt with holds retained revisions and at least one, and of   *)
(* the one at hand only what is retained will be left.                     *)
Clean(x) ==
  /\ \E r \in disk : Slug(r) = x
  /\ \A r \in disk : Slug(r) = x => r \in rec.retained

StartInv ==
  /\ \A r \in disk : Slug(r) \in parents
  /\ server = "sweeping" /\ rec.pc # "idle" => rec.retained = Retained
  /\ server = "sweeping" /\ rec.pc \in {"next", "sweep"} /\ ~rec.failed =>
       \A x \in parents \ rec.todo : Clean(x) \/ (rec.pc = "sweep" /\ x = rec.slug)
  /\ server = "sweeping" /\ rec.pc = "sweep" /\ ~rec.failed =>
       \A r \in disk : Slug(r) = rec.slug => r \in rec.revs \cup rec.retained
  /\ StartIsClean

LEMMA InitStart == Init => StartInv
BY DEF Init, StartInv, StartIsClean, Slug, ScenarioOf

LEMMA FinalizerStart ==
  ASSUME TypeInv, StartInv, Finalizer
  PROVE  StartInv'
<1> USE DEF StartInv, StartIsClean, FinUp, database, files
<1>0. /\ server # "sweeping" /\ fin \in Finalization /\ fin.todo \in SUBSET Workflows
  BY DEF Finalizer, ListPending, Check, MakeParent, Rename, Commit, Record, LoseDiagnostic, Resolve,
         TypeInv, PublicationTypeOK, Finalization
<1>1. CASE ListPending
  <2>1. server' = "finalizing" => fin'.pc # "idle"
    BY <1>0, <1>1 DEF ListPending, Pass
  <2> QED
    BY <1>0, <1>1, <2>1 DEF ListPending
<1>2. CASE \E w \in Workflows : Resolve(w)
  BY <1>0, <1>2 DEF Resolve
<1>3. CASE Check \/ MakeParent
  BY <1>0, <1>3, MovesTyped DEF Check, MakeParent
<1>4. CASE Rename
  BY <1>0, <1>4, MovesTyped DEF Rename
<1>5. CASE Commit \/ Record \/ LoseDiagnostic
  <2>1. CASE Proceed
    <3>1. server' # "sweeping" /\ (server' = "finalizing" => fin'.pc # "idle")
      BY <1>0, <2>1 DEF Proceed, Pass
    <3> QED
      BY <1>5, <3>1 DEF Commit, Record, LoseDiagnostic
  <2>2. CASE Report("deterministic") \/ Report("transient")
    <3>1. server' # "sweeping" /\ fin'.pc # "idle"
      BY <1>0, <2>2, MovesTyped
    <3> QED
      BY <1>5, <3>1 DEF Commit, Record, LoseDiagnostic
  <2> QED
    BY <1>5, <2>1, <2>2 DEF Commit, Record, LoseDiagnostic
<1> QED
  BY <1>1, <1>2, <1>3, <1>4, <1>5 DEF Finalizer

LEMMA ReconcilerStart ==
  ASSUME TypeInv, StartInv, Reconciler
  PROVE  StartInv'
<1>0. /\ rec \in Sweep /\ server \in {"up", "sweeping"} /\ Retained' = Retained
      /\ disk \subseteq Revisions
  <2>1. RecUp
    BY DEF Reconciler, ReadRetained, ListSlugs, CloseSlug, EndSweep, OpenSlug, Remove
  <2>2. UNCHANGED <<state, rev>>
    BY <2>1 DEF RecUp, database
  <2>3. Retained' = Retained
    BY <2>2 DEF Retained, Published
  <2> QED
    BY <2>1, <2>3 DEF RecUp, TypeInv, PublicationTypeOK
<1>1. CASE ReadRetained
  BY <1>0, <1>1 DEF ReadRetained, NoRec, StartInv, StartIsClean, files
<1>2. CASE ListSlugs
  <2>1. rec' = [rec EXCEPT !.pc = "next", !.todo = parents] /\ rec.pc = "list"
    BY <1>2 DEF ListSlugs
  <2>2. rec'.pc = "next" /\ rec'.todo = parents /\ rec'.retained = rec.retained
    BY <1>0, <2>1 DEF Sweep
  <2> QED
    BY <1>0, <1>2, <2>1, <2>2 DEF ListSlugs, StartInv, StartIsClean
<1>3. CASE \E x \in Scenarios : OpenSlug(x)
  <2> PICK x \in Scenarios : OpenSlug(x)
    BY <1>3
  <2>1. /\ rec.pc = "next" /\ rec'.pc = "sweep" /\ rec'.todo = rec.todo \ {x} /\ rec'.slug = x
        /\ rec'.retained = rec.retained /\ rec'.failed = rec.failed
        /\ rec'.revs = {r \in disk : Slug(r) = x}
    BY <1>0 DEF OpenSlug, Sweep
  <2>2. UNCHANGED <<disk, parents, server, fin>>
    BY DEF OpenSlug, RecUp, files
  <2>3. \A y : Clean(y) => Clean(y)'
    BY <2>1, <2>2 DEF Clean
  <2> QED
    BY <1>0, <2>1, <2>2, <2>3 DEF StartInv, StartIsClean
<1>4. CASE \E r \in Revisions : Remove(r)
  <2> PICK r \in Revisions : Remove(r)
    BY <1>4
  <2>1. /\ rec.pc = "sweep" /\ r \in rec.revs \ rec.retained /\ UNCHANGED <<parents, server, fin>>
    BY DEF Remove, RecUp
  <2>2. ASSUME ~rec'.failed
        PROVE  \A y \in parents \ rec.todo : Clean(y) => Clean(y)'
    BY <1>0, <2>1, <2>2, RemoveTyped DEF Clean
  <2> QED
    BY <1>0, <2>1, <2>2, RemoveTyped DEF StartInv, StartIsClean
<1>5. CASE CloseSlug
  <2>1. /\ rec.pc = "sweep" /\ rec'.pc = "next" /\ rec'.todo = rec.todo
        /\ rec'.retained = rec.retained /\ rec'.failed = rec.failed
        /\ rec.revs \subseteq rec.retained
    BY <1>0, <1>5 DEF CloseSlug, Sweep
  <2>2. UNCHANGED <<disk, server, fin>> /\ parents' \subseteq parents
    BY <1>5 DEF CloseSlug, RecUp
  <2>3. \A y : Clean(y) => Clean(y)'
    BY <2>1, <2>2 DEF Clean
  <2>4. rec.slug \in parents' => \E r \in disk : Slug(r) = rec.slug
    BY <1>5 DEF CloseSlug
  <2>5. \A r \in disk : Slug(r) \in parents'
    BY <1>5 DEF CloseSlug, StartInv
  <2>6. ASSUME NEW y, y = rec.slug, server = "sweeping", ~rec.failed, y \in parents'
        PROVE  Clean(y)'
    <3>1. \A r \in disk : Slug(r) = y => r \in rec.retained
      BY <2>1, <2>6 DEF StartInv
    <3>2. \E r \in disk : Slug(r) = y
      BY <2>4, <2>6
    <3> QED
      BY <2>1, <2>2, <3>1, <3>2 DEF Clean, Slug, ScenarioOf
  <2> QED
    BY <1>0, <2>1, <2>2, <2>3, <2>5, <2>6 DEF StartInv, StartIsClean
<1>6. CASE EndSweep
  <2>1. /\ rec.pc = "next" /\ rec.todo = {} /\ rec' = NoRec /\ server' = AfterSweep
        /\ UNCHANGED <<disk, parents, staging, state, rev, fin>>
    BY <1>6 DEF EndSweep, RecUp, files, database
  <2>2. rec'.pc = "idle"
    BY <2>1 DEF NoRec
  <2>3. CASE server = "sweeping" /\ ~rec.failed
    <3>1. staging = {} /\ rec.retained = Retained /\ \A x \in parents : Clean(x)
      BY <2>1, <2>3 DEF TypeInv, StartInv
    <3>2. \A r \in disk : Slug(r) \in parents /\ r \in Retained
      BY <3>1 DEF StartInv, Clean
    <3>3. \A r \in disk : rev[r] # "none" \/ state[r] = "Publishing"
      BY <3>2 DEF Retained, Published
    <3>4. parents = {Slug(r) : r \in disk}
      BY <3>1, <3>2 DEF Clean
    <3>5. StartIsClean'
      BY <2>1, <3>1, <3>3, <3>4 DEF StartIsClean, Slug, ScenarioOf
    <3>6. \A r \in disk' : Slug(r) \in parents'
      BY <2>1, <3>2
    <3> QED
      BY <2>1, <2>2, <2>3, <3>5, <3>6 DEF StartInv
  <2>4. CASE ~(server = "sweeping" /\ ~rec.failed)
    BY <1>0, <2>1, <2>2, <2>4 DEF AfterSweep, StartInv, StartIsClean
  <2> QED
    BY <2>3, <2>4
<1> QED
  BY <1>1, <1>2, <1>3, <1>4, <1>5, <1>6 DEF Reconciler

LEMMA StepStart == TypeInv /\ StartInv /\ [Next]_vars => StartInv'
<1> SUFFICES ASSUME TypeInv, StartInv, [Next]_vars PROVE StartInv'
  OBVIOUS
<1>1. CASE Author
  <2>1. server = "up" /\ UNCHANGED <<disk, parents, server>>
    BY <1>1 DEF Author, OpenSession, Confirm, CancelGenerationWorkflow, DeprecateAuthoringScenario,
                files
  <2> QED
    BY <2>1 DEF StartInv, StartIsClean
<1>2. CASE (\E w \in Workflows : RetryDue(w)) \/ UNCHANGED vars
  <2>1. UNCHANGED <<state, rev, disk, parents, staging, fin, rec, server>>
    BY <1>2 DEF RetryDue, vars, files
  <2> QED
    BY <2>1 DEF StartInv, StartIsClean, Clean, Retained, Published
<1>3. CASE Crash
  BY <1>3, PassTyped DEF Crash, StartInv, StartIsClean, database, files
<1> QED
  BY <1>1, <1>2, <1>3, FinalizerStart, ReconcilerStart DEF Next

(* A start that gets as far as its finalizer has a clean volume, whatever  *)
(* crashes, cancellations and failing removals came before (Recover).      *)
THEOREM StartsAreClean == Spec => []StartIsClean
<1>1. StartInv => StartIsClean
  BY DEF StartInv
<1> QED
  BY <1>1, InitTyped, StepTyped, InitStart, StepStart, PTL DEF Spec
=============================================================================
