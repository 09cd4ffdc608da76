------------------------ MODULE RuntimeEnvironment -------------------------
(***************************************************************************)
(* One RuntimeEnvironment object, from its creation to its disappearance:  *)
(* the Server writes its spec, the Controller reconciles it and writes its *)
(* status, a Reaper tears its resources down under a lease in PostgreSQL,  *)
(* and the provider (Incus or a virtual cluster) holds those resources.    *)
(*                                                                         *)
(* The Controller reads the object from an informer's copy, which lags     *)
(* behind the API server, and writes merge patches: a patch carries the    *)
(* fields in which the Controller's value differs from what it read, and   *)
(* no resource version.  Reading a copy and writing later is one step here *)
(* because the copy may be old anyway; only a call of the provider, and a  *)
(* second write, are steps of their own.  Reconciles of one object never   *)
(* overlap.  Time is the two deadlines that pass and the reap lease.       *)
(***************************************************************************)
EXTENDS Naturals, Sequences

CONSTANTS
  Reapers,       \* the Controller processes: one, and another around a failover
  NoReaper,
  Workloads      \* provider and content of the environment, the Reapers at work, and the
                 \* bounds: reset requests; renewals of the idle lease; crashes, failing
                 \* calls, overrun resets and lapsed leases; versions the informer has yet
                 \* to see (more are merged)

ASSUME EnvironmentAssumption ==
  /\ NoReaper \notin Reapers
  /\ Workloads \subseteq [provider : {"node", "k8s"}, content : {"operations", "other"},
                          reapers : SUBSET Reapers, resets : Nat, renewals : Nat,
                          faults : Nat, lag : Nat \ {0}]

VARIABLES
  load,       \* this behaviour's workload
  obj,        \* the object, at the API server
  cached,     \* the informer's copy
  events,     \* the later versions, on their way to the informer
  rec,        \* the reconcile that is running
  res,        \* the provider's resources: a namespace or an Incus project
  reap,       \* the row of runnable_reaps
  reaper,     \* what each Reaper is doing
  idled,      \* the idle leases renewed fewer times than this have run out
  aged,       \* has the maximum lifetime passed?
  regressed,  \* history: has a status patch taken Draining back?
  faults

vars == <<load, obj, cached, events, rec, res, reap, reaper, idled, aged, regressed, faults>>
provider == load.provider
content == load.content
clock == <<idled, aged>>

Phases == {"Pending", "Provisioning", "Ready", "Failed", "Draining", "Released"}
Operations == {"", "None", "Resetting"}
Object == [live : BOOLEAN, deleting : BOOLEAN, finalizer : BOOLEAN,
           nonce : 0 .. load.resets, renewals : 0 .. load.renewals, release : BOOLEAN,
           phase : Phases, op : Operations,
           observed : 0 .. load.resets,     \* status.observedResetNonce
           annotated : 0 .. load.resets]    \* the annotation observed-reset-nonce
Reconcile == [pc : {"idle", "provision", "adopt", "reset", "observed", "released"},
              seen : Object, target : 0 .. load.resets, ready : BOOLEAN]
Resources == [state : {"absent", "active", "terminating"},
              stamp : 0 .. load.resets,     \* the reset generation they were built for
              born : 0 .. load.resets]      \* history: resets requested when they were built
Reap == [state : {"none", "queued", "claimed", "succeeded"},
         holder : Reapers \cup {NoReaper}, leased : BOOLEAN]

NewObject == [live |-> TRUE, deleting |-> FALSE, finalizer |-> FALSE, nonce |-> 0,
              renewals |-> 0, release |-> FALSE, phase |-> "Pending", op |-> "",
              observed |-> 0, annotated |-> 0]
Resting == [pc |-> "idle", seen |-> NewObject, target |-> 0, ready |-> FALSE]

(* create: the Server names the object and leaves its status empty.        *)
Init ==
  /\ load \in Workloads
  /\ obj = NewObject /\ cached = NewObject /\ events = <<>> /\ rec = Resting
  /\ res = [state |-> "absent", stamp |-> 0, born |-> 0]
  /\ reap = [state |-> "none", holder |-> NoReaper, leased |-> FALSE]
  /\ reaper = [r \in Reapers |-> "idle"]
  /\ idled = 0 /\ aged = FALSE /\ regressed = FALSE /\ faults = load.faults

Fault == faults > 0 /\ faults' = faults - 1
Sound == UNCHANGED faults

(* Every write is a version of its own in the watch that feeds the copy.   *)
Watched ==
  events' = IF obj' = obj THEN events
            ELSE IF Len(events) < load.lag THEN Append(events, obj')
            ELSE [events EXCEPT ![load.lag] = obj']

-----------------------------------------------------------------------------
(* The Server.  Its updates carry the resource version they read, so a     *)
(* conflicting one fails and each is one step.                             *)

ServerKeeps ==
  Watched /\ UNCHANGED <<load, cached, rec, res, reap, reaper, clock, regressed, faults>>

(* updateLease: whatever the phase.                                        *)
RenewActivity ==
  /\ obj.live /\ obj.renewals < load.renewals
  /\ obj' = [obj EXCEPT !.renewals = @ + 1]
  /\ ServerKeeps

(* requestReset: refused only for an object that is being deleted.  Who    *)
(* resets a playground has seen it ready.                                  *)
RequestReset ==
  /\ obj.live /\ ~obj.deleting /\ obj.nonce < load.resets
  /\ content = "operations" \/ obj.phase \notin {"Pending", "Provisioning"}
  /\ obj' = [obj EXCEPT !.nonce = @ + 1]
  /\ ServerKeeps

ReleaseAdminEnvironment ==
  /\ obj.live /\ obj.phase # "Released" /\ ~obj.release
  /\ obj' = [obj EXCEPT !.release = TRUE]
  /\ ServerKeeps

(* Without the finalizer the API server drops the object at once.          *)
Deleted(o) == [o EXCEPT !.deleting = TRUE, !.live = o.finalizer]

RequestDeletion ==
  /\ obj.live /\ ~obj.deleting
  /\ obj' = Deleted(obj)
  /\ ServerKeeps

(* The learning projection deletes what it finds over, for one content.    *)
DeleteEnvironmentProjection ==
  /\ content = "operations"
  /\ obj.live /\ ~obj.deleting /\ obj.phase \in {"Released", "Failed"}
  /\ obj' = Deleted(obj)
  /\ ServerKeeps

-----------------------------------------------------------------------------
(* The Controller: what it decides.                                        *)

CanTransition(from, to) ==
  \/ from = to
  \/ from = "Pending" /\ to \in {"Provisioning", "Draining", "Failed"}
  \/ from = "Provisioning" /\ to \in {"Ready", "Draining", "Failed"}
  \/ from = "Ready" /\ to \in {"Draining", "Failed"}
  \/ from = "Failed" /\ to = "Draining"
  \/ from = "Draining" /\ to = "Released"

(* Seeded fault: a pending reset keeps an idle environment.              *)
ExpiredUnlessReset(e) == aged \/ e.release \/ (e.renewals < idled /\ e.nonce = e.annotated)
(* ExpiresAt has passed: lifetime, an explicit release, or the idle lease. *)
Expired(e) == aged \/ e.release \/ e.renewals < idled

Decide(e) ==
  CASE e.phase = "Released" -> "none"
    [] e.phase = "Draining" -> "reap"
    [] e.phase \notin {"Released", "Draining"} /\ Expired(e) -> "drain"
    [] OTHER ->
         IF e.phase = "Ready" /\ e.nonce > e.annotated THEN "reset"
         ELSE IF e.op = "Resetting"
              THEN IF e.phase \in {"Ready", "Provisioning"} THEN "reset" ELSE "invalid"
              ELSE IF e.phase \in {"Pending", "Provisioning"} THEN "provision" ELSE "none"

(* A merge patch of the status, computed on what was seen.                 *)
Merge(seen, phase, op, observed) ==
  [obj EXCEPT !.phase = IF phase = seen.phase THEN @ ELSE phase,
              !.op = IF op = seen.op THEN @ ELSE op,
              !.observed = IF observed = seen.observed THEN @ ELSE observed]

(* updateStatus: refused when the phase seen cannot lead to the new one,   *)
(* and without effect once the object is gone.                             *)
UpdateStatus(seen, phase, op, observed) ==
  LET accepted == obj.live /\ CanTransition(seen.phase, phase) IN
  /\ obj' = IF accepted THEN Merge(seen, phase, op, observed) ELSE obj
  /\ regressed' = (regressed \/
       (obj.phase = "Draining" /\ obj'.phase \notin {"Draining", "Released"}))

Fail(seen) == UpdateStatus(seen, "Failed", "None", seen.observed)

-----------------------------------------------------------------------------
(* The Controller: what a reconcile does.                                  *)

(* A reconcile starts from the copy; a live copy and no reconcile running. *)
Starting == rec.pc = "idle" /\ cached.live
(* Seeded fault: work starts without waiting for the finalizer.          *)
NormalBeforeFinalizer == ~cached.deleting
Normal == ~cached.deleting /\ cached.finalizer

(* Past the adoption a reconcile uses only the status it has seen.         *)
StatusOf(e) == [NewObject EXCEPT !.phase = e.phase, !.op = e.op, !.observed = e.observed]
WorksOn(e, pc, n) ==
  rec' = [pc |-> pc, seen |-> IF pc = "adopt" THEN e ELSE StatusOf(e),
          target |-> n, ready |-> FALSE]
ControllerKeeps == Watched /\ UNCHANGED <<load, cached, reaper, clock>>

AddFinalizer ==
  /\ Starting /\ ~cached.deleting /\ ~cached.finalizer
  /\ obj' = IF obj.live THEN [obj EXCEPT !.finalizer = TRUE] ELSE obj
  /\ Sound /\ UNCHANGED <<rec, res, reap, regressed>> /\ ControllerKeeps

Drain ==
  /\ Starting /\ Normal /\ Decide(cached) = "drain"
  /\ UpdateStatus(cached, "Draining", "None", cached.observed)
  /\ Sound /\ UNCHANGED <<rec, res, reap>> /\ ControllerKeeps

RejectLifecycle ==
  /\ Starting /\ Normal /\ Decide(cached) = "invalid"
  /\ Fail(cached)
  /\ Sound /\ UNCHANGED <<rec, res, reap>> /\ ControllerKeeps

StartProvision ==
  /\ Starting /\ Normal /\ Decide(cached) = "provision"
  /\ IF cached.phase = "Pending"
     THEN /\ UpdateStatus(cached, "Provisioning", "None", cached.observed)
          /\ UNCHANGED rec
     ELSE WorksOn(cached, "provision", 0) /\ UNCHANGED <<obj, regressed>>
  /\ Sound /\ UNCHANGED <<res, reap>> /\ ControllerKeeps

(* The first write of an adoption: the status.  The API server's answer    *)
(* replaces what was seen; the binding keeps the generation read before.   *)
StartReset ==
  /\ Starting /\ Normal /\ Decide(cached) = "reset"
  /\ IF cached.op = "Resetting"
     THEN UNCHANGED <<obj, regressed>> /\ WorksOn(cached, "adopt", cached.nonce)
     ELSE /\ UpdateStatus(cached, cached.phase, "Resetting", cached.nonce)
          /\ IF obj.live THEN WorksOn(obj', "adopt", cached.nonce) ELSE UNCHANGED rec
  /\ Sound /\ UNCHANGED <<res, reap>> /\ ControllerKeeps

(* The second write: the annotation, unless it is there.                   *)
ObserveResetRequest ==
  /\ rec.pc = "adopt"
  /\ LET e == rec.seen
         writes == e.annotated # e.nonce IN
     /\ obj' = IF writes /\ obj.live THEN [obj EXCEPT !.annotated = e.nonce] ELSE obj
     /\ IF writes /\ ~obj.live THEN rec' = Resting
        ELSE WorksOn(IF writes THEN obj' ELSE e, "reset", rec.target)
  /\ Sound /\ UNCHANGED <<res, reap, regressed>> /\ ControllerKeeps

(* What Provision finds: it adopts what is there, a terminating namespace  *)
(* too, and builds what is absent, stamped with the generation asked for.  *)
Provisioned(stamp) ==
  IF res.state = "absent" THEN [state |-> "active", stamp |-> stamp, born |-> obj.nonce] ELSE res

(* Seeded fault: a namespace that is going away counts as gone.          *)
WipedOnceTerminating == res.state # "active" \/ res.stamp = rec.target
(* Reset wipes first.  Resources stamped with this generation are its own  *)
(* rebuild.  A namespace goes in its own time; an Incus project at once.   *)
Wiped == res.state = "absent" \/ res.stamp = rec.target
Rebuilt ==
  IF Wiped THEN Provisioned(rec.target)
  ELSE IF provider = "k8s" THEN [res EXCEPT !.state = "terminating"]
  ELSE [state |-> "active", stamp |-> rec.target, born |-> obj.nonce]
CanBeReady == Wiped \/ provider = "node"

Observe(ready) == rec' = [rec EXCEPT !.pc = "observed", !.ready = ready]

CallProvision ==
  /\ rec.pc = "provision"
  /\ res' = Provisioned(0) /\ \E ready \in BOOLEAN : Observe(ready)
  /\ Sound /\ UNCHANGED <<obj, reap, regressed>> /\ ControllerKeeps

CallReset ==
  /\ rec.pc = "reset"
  /\ res' = Rebuilt /\ \E ready \in {FALSE, CanBeReady} : Observe(ready)
  /\ Sound /\ UNCHANGED <<obj, reap, regressed>> /\ ControllerKeeps

(* A rebuild of a reset has a generation above zero; a provision has zero. *)
ApplyObservation ==
  /\ rec.pc = "observed"
  /\ LET e == rec.seen IN
     IF rec.ready THEN UpdateStatus(e, "Ready", "None", e.observed)
     ELSE UpdateStatus(e, e.phase, IF rec.target > 0 THEN "Resetting" ELSE e.op, e.observed)
  /\ rec' = Resting
  /\ Sound /\ UNCHANGED <<res, reap>> /\ ControllerKeeps

(* An infrastructure failure leaves the phase and is retried; an artifact  *)
(* failure is final.  Either way the call may have had its effect, or, in  *)
(* a reset of a node environment, the half of it that wipes.               *)
HalfDone ==
  IF rec.pc = "reset" /\ provider = "node" /\ ~Wiped THEN [res EXCEPT !.state = "absent"] ELSE res

ProviderFailure ==
  /\ rec.pc \in {"provision", "reset"}
  /\ res' \in {res, HalfDone, IF rec.pc = "reset" THEN Rebuilt ELSE Provisioned(0)}
  /\ UNCHANGED <<obj, regressed>> \/ Fail(rec.seen)
  /\ rec' = Resting
  /\ Fault /\ UNCHANGED <<reap>> /\ ControllerKeeps

(* The reset was adopted too long ago; the provider is not asked again.    *)
ResetTimesOut ==
  /\ rec.pc = "reset"
  /\ Fail(rec.seen) /\ rec' = Resting
  /\ Fault /\ UNCHANGED <<res, reap>> /\ ControllerKeeps

(* A write of the Controller fails and the reconcile ends with an error.   *)
WriteFails ==
  /\ rec.pc \in {"adopt", "observed"}
  /\ rec' = Resting
  /\ Fault /\ UNCHANGED <<obj, res, reap, regressed>> /\ ControllerKeeps

(* Draining, or being deleted: hand over to the Reaper, once.              *)
Reaping == cached.finalizer /\ (cached.deleting \/ Decide(cached) = "reap")

EnqueueReap ==
  /\ Starting /\ Reaping /\ reap.state = "none"
  /\ reap' = [reap EXCEPT !.state = "queued"]
  /\ Sound /\ UNCHANGED <<obj, rec, res, regressed>> /\ ControllerKeeps

(* The Reaper has reported: first write Released, then request deletion.   *)
MarkReleased ==
  /\ Starting /\ Reaping /\ ~cached.deleting /\ reap.state = "succeeded"
  /\ UpdateStatus(cached, "Released", "None", cached.observed)
  /\ IF obj.live THEN WorksOn(NewObject, "released", 0) ELSE UNCHANGED rec
  /\ Sound /\ UNCHANGED <<res, reap>> /\ ControllerKeeps

DeleteReleased ==
  /\ rec.pc = "released"
  /\ \/ Sound /\ obj' = IF obj.live /\ ~obj.deleting THEN Deleted(obj) ELSE obj
     \/ Fault /\ UNCHANGED obj
  /\ rec' = Resting
  /\ UNCHANGED <<res, reap, regressed>> /\ ControllerKeeps

RemoveFinalizer ==
  /\ Starting /\ Reaping /\ cached.deleting /\ reap.state = "succeeded"
  /\ obj' = IF obj.live THEN [obj EXCEPT !.finalizer = FALSE, !.live = ~obj.deleting] ELSE obj
  /\ Sound /\ UNCHANGED <<rec, res, reap, regressed>> /\ ControllerKeeps

(* A watch event reaches the informer.                                     *)
Deliver ==
  /\ events # <<>>
  /\ cached' = Head(events) /\ events' = Tail(events)
  /\ UNCHANGED <<load, obj, rec, res, reap, reaper, clock, regressed, faults>>

-----------------------------------------------------------------------------
(* The Reaper.  Attempt numbers only tell claims apart, and a Reaper has   *)
(* one claim at a time: the row's holder stands for its last attempt.      *)

ReaperKeeps == UNCHANGED <<load, obj, cached, events, rec, clock, regressed>>

(* Seeded fault: the claim of a dead Reaper is never taken over.         *)
ClaimableOnlyQueued == reap.state = "queued"
Claimable == reap.state = "queued" \/ (reap.state = "claimed" /\ ~reap.leased)

Claim(r) ==
  /\ r \in load.reapers /\ reaper[r] = "idle" /\ Claimable
  /\ reap' = [state |-> "claimed", holder |-> r, leased |-> TRUE]
  /\ reaper' = [reaper EXCEPT ![r] = "claimed"]
  /\ ReaperKeeps /\ Sound /\ UNCHANGED res

(* Release is Delete without a generation: it spares no rebuild.  Only an  *)
(* absent namespace is done; deleting one starts its termination.          *)
Released == res.state = "absent" \/ provider = "node"

Release(r) ==
  /\ reaper[r] = "claimed"
  /\ res' = [res EXCEPT !.state =
                IF @ = "absent" \/ provider = "node" THEN "absent" ELSE "terminating"]
  /\ reaper' = [reaper EXCEPT ![r] = IF Released THEN "done" ELSE "retry"]
  /\ ReaperKeeps /\ Sound /\ UNCHANGED reap

ReleaseFails(r) ==
  /\ reaper[r] = "claimed"
  /\ reaper' = [reaper EXCEPT ![r] = "retry"]
  /\ ReaperKeeps /\ Fault /\ UNCHANGED <<res, reap>>

(* The row when its claim ends: final, or due again.                       *)
Completed(done) ==
  [state |-> IF done THEN "succeeded" ELSE "queued", holder |-> NoReaper, leased |-> FALSE]

(* Refused without the lease.                                              *)
Complete(r) ==
  /\ reaper[r] \in {"done", "retry"}
  /\ reap' = IF reap.holder = r /\ reap.leased THEN Completed(reaper[r] = "done") ELSE reap
  /\ reaper' = [reaper EXCEPT ![r] = "idle"]
  /\ ReaperKeeps /\ Sound /\ UNCHANGED res

-----------------------------------------------------------------------------
(* What happens to them.                                                   *)

(* Thirty seconds pass: nobody renews a reap lease, so a slow teardown     *)
(* loses it as a dead Reaper does.                                         *)
LeaseLapses ==
  /\ reap.state = "claimed" /\ reap.leased
  /\ reap' = [reap EXCEPT !.leased = FALSE]
  /\ IF reaper[reap.holder] = "idle" THEN Sound ELSE Fault
  /\ UNCHANGED <<load, obj, cached, events, rec, res, reaper, clock, regressed>>

(* The leading Controller process ends; the next lists the objects anew.   *)
Crash(r) ==
  /\ r \in load.reapers /\ Fault
  /\ rec' = Resting /\ cached' = obj /\ events' = <<>>
  /\ reaper' = [reaper EXCEPT ![r] = "idle"]
  /\ UNCHANGED <<load, obj, res, reap, clock, regressed>>

NamespaceGone ==
  /\ res.state = "terminating"
  /\ res' = [res EXCEPT !.state = "absent"]
  /\ UNCHANGED <<load, obj, cached, events, rec, reap, reaper, clock, regressed, faults>>

IdleElapses ==
  /\ obj.live /\ idled <= obj.renewals
  /\ idled' = obj.renewals + 1
  /\ UNCHANGED <<load, obj, cached, events, rec, res, reap, reaper, aged, regressed, faults>>

LifetimeElapses ==
  /\ obj.live /\ ~aged
  /\ aged' = TRUE
  /\ UNCHANGED <<load, obj, cached, events, rec, res, reap, reaper, idled, regressed, faults>>

Controller ==
  \/ AddFinalizer \/ Drain \/ RejectLifecycle \/ StartProvision \/ StartReset
  \/ ObserveResetRequest \/ CallProvision \/ CallReset \/ ApplyObservation
  \/ EnqueueReap \/ MarkReleased \/ DeleteReleased \/ RemoveFinalizer

ReaperStep(r) == Claim(r) \/ Release(r) \/ Complete(r)

Next ==
  \/ RenewActivity \/ RequestReset \/ ReleaseAdminEnvironment \/ RequestDeletion
  \/ DeleteEnvironmentProjection
  \/ Controller \/ ResetTimesOut \/ ProviderFailure \/ WriteFails \/ Deliver
  \/ \E r \in Reapers : ReaperStep(r) \/ ReleaseFails(r) \/ Crash(r)
  \/ LeaseLapses \/ NamespaceGone \/ IdleElapses \/ LifetimeElapses

Spec == Init /\ [][Next]_vars

(* The informer resyncs every minute, so a reconcile that has something to *)
(* do is started; the Reaper loops; deadlines pass; namespaces terminate.  *)
(* Nothing is assumed of the Server's requests or of readiness.            *)
FairSpec ==
  /\ Spec
  /\ WF_vars(Deliver) /\ WF_vars(Controller)
  /\ \A r \in Reapers : WF_vars(ReaperStep(r))
  /\ WF_vars(LeaseLapses) /\ WF_vars(NamespaceGone)
  /\ WF_vars(LifetimeElapses) /\ WF_vars(DeleteEnvironmentProjection)

-----------------------------------------------------------------------------
(* Every variable keeps its type, and a reap row has a holder exactly      *)
(* while it is claimed, which the table's CHECK asks for.                  *)
EnvironmentTypeOK ==
  /\ load \in Workloads
  /\ obj \in Object /\ cached \in Object /\ events \in Seq(Object)
  /\ rec \in Reconcile /\ res \in Resources
  /\ reap \in Reap /\ (reap.state = "claimed" <=> reap.holder # NoReaper)
  /\ reap.leased => reap.state = "claimed"
  /\ reaper \in [Reapers -> {"idle", "claimed", "done", "retry"}]
  /\ idled \in 0 .. load.renewals + 1 /\ aged \in BOOLEAN
  /\ regressed \in BOOLEAN /\ faults \in 0 .. load.faults

(* A renewal that races the expiry can undo Draining: the Controller       *)
(* drains on a copy from before the renewal, then meets the version        *)
(* between the two, in which nothing has expired, and its status patch,    *)
(* which carries no resource version, overwrites Draining.  Nothing else   *)
(* can: otherwise CanTransition, checked against the phase that was read,  *)
(* protects the phase that is stored.                                      *)
OnlyARenewalUndoesDraining == regressed => obj.renewals > 0

(* The finalizer's purpose: when the object is gone, so are its resources, *)
(* and no call that could build them again is running.                     *)
NothingOutlivesItsObject ==
  ~obj.live /\ ~regressed =>
    res.state = "absent" /\ rec.pc \notin {"provision", "reset"}

(* Teardown never starts under an environment in use: a row in the reap    *)
(* queue belongs to an object that is draining, released, deleted or gone. *)
TeardownIsAnnounced ==
  reap.state # "none" /\ ~regressed =>
    ~obj.live \/ obj.deleting \/ obj.phase \in {"Draining", "Released"}

(* A row that says succeeded is final: nothing was left, nothing comes     *)
(* back.                                                                   *)
ReapedMeansAbsent ==
  reap.state = "succeeded" /\ ~regressed => res.state = "absent"

InUse == obj.live /\ ~obj.deleting /\ obj.phase = "Ready" /\ obj.op = "None"

(* The generation the API reports tells a ready environment from before    *)
(* the wipe from one after it: a ready environment was built after as many *)
(* reset requests as it reports.                                           *)
ReadyIsPostWipe == InUse => res.born >= obj.observed

(* Every environment disappears, crashes and lapsed leases notwithstanding.*)
(* The exception is a Delete that fails after Released was written: Decide *)
(* has nothing more to do, and only the learning projection, which looks   *)
(* after one kind of content, deletes the empty object later.              *)
EveryEnvironmentEnds ==
  <>(~obj.live \/ (content = "other" /\ obj.phase = "Released" /\ faults < load.faults))
(* What holds of the resources and of their teardown at any time, for      *)
(* environments whose Draining was not undone.                             *)
EnvironmentInvariant ==
  /\ EnvironmentTypeOK
  /\ NothingOutlivesItsObject
  /\ TeardownIsAnnounced
  /\ ReapedMeansAbsent
=============================================================================
