------------------------- MODULE RunnableExecution --------------------------
(***************************************************************************)
(* What a Runtime Worker does between the claim of an action and its       *)
(* report.  RunnableActions takes that as one step; here a materialization *)
(* builds a provider artifact request by request, and a verification asks  *)
(* the Server for an environment, waits for it, executes the plan's steps  *)
(* in it, stores each output and reports.                                  *)
(*                                                                         *)
(* One content revision passes through both actions.  A worker may crash   *)
(* at any point, and one that stalls past its lease goes on without it     *)
(* while another has the action; requests at the Server and operations at  *)
(* Incus go on without the worker that asked for them.                     *)
(***************************************************************************)
EXTENDS Naturals, Sequences, FiniteSets

CONSTANTS
  RuntimeWorkers, NoRuntimeWorker,
  Runtimes,      \* of "node" and "k8s"
  FileCount,     \* files of a node bundle
  StepCount,     \* actions and assertions of the plan, in order; the last is an assertion
  Ceiling,       \* attempts of an infrastructure failure before it is final
  MaxCycles,     \* bound: schedulings of the verify action
  MaxMishaps      \* bound: crashes, stalls, failing calls

ASSUME ExecutionAssumption ==
  /\ Runtimes \subseteq {"node", "k8s"}
  /\ NoRuntimeWorker \notin RuntimeWorkers
  /\ FileCount \in Nat \ {0} /\ StepCount \in Nat \ {0} /\ Ceiling \in Nat \ {0}
  /\ MaxCycles \in Nat \ {0} /\ MaxMishaps \in Nat

VARIABLES
  runtime,
  act,        \* the action's row; the verify action follows the materialization
  work,       \* what each worker is at
  build,      \* the source archive; the build project's instance, operation and image;
              \* the registry's blobs and manifest
  artifact,   \* the accepted artifact
  req,        \* requests for a verification environment, at the Server
  env,        \* verification environments, by name
  done,       \* history: the executions in each environment, by scheduling cycle
  verdict,    \* the stored report
  excused,    \* history: environments given up without a release, see Excuse
  strayed,    \* history: a worker wrote to the build project after losing its action
  mishaps

executionVars ==
  <<runtime, act, work, build, artifact, req, env, done, verdict, excused, strayed, mishaps>>

(* Taking over a lapsed lease counts an attempt and is not stopped by the  *)
(* ceiling, so crashes and stalls may go beyond it.                        *)
AttemptBound == Ceiling + MaxMishaps
Attempts == 1 .. AttemptBound
Cycles == 1 .. MaxCycles
Runs == Cycles \X Attempts           \* a claim: cycle and attempt
NoRun == <<0, 0>>
Phases == {"materialize", "verify"}
Results == {"none", "ok", "false", "bad"}

ActionRow == [phase : Phases, state : {"queued", "running", "completed", "failed"},
              attempt : 0 .. AttemptBound, owner : RuntimeWorkers \cup {NoRuntimeWorker},
              lapsed : BOOLEAN, class : {"none", "infrastructure", "artifact"}, cycle : Cycles]

Points == {"idle", "source", "alias", "replace", "unlink", "pre", "create", "created", "write",
           "published", "tidy", "pull", "layer", "resolve", "blobs",
           "manifest", "digest", "store",
           "request", "await", "poll", "execute", "output", "release", "complete", "mark", "fail"}
Work == [pc : Points, phase : Phases, run : Runs \cup {NoRun}, at : 0 .. StepCount + FileCount,
         waits : BOOLEAN, uid : Runs \cup {NoRun}, result : Results,
         class : {"none", "infrastructure", "artifact"}]
Resting == [pc |-> "idle", phase |-> "materialize", run |-> NoRun, at |-> 0, waits |-> FALSE,
            uid |-> NoRun, result |-> "none", class |-> "none"]

Image == [spec : {"none", "own", "other"}, files : 0 .. FileCount]
NoImage == [spec |-> "none", files |-> 0]
Build == [inst : BOOLEAN, files : 0 .. FileCount, job : {"none", "create", "delete", "publish"},
          image : Image, blobs : BOOLEAN, manifest : BOOLEAN, sound : BOOLEAN]

EnvironmentRequest == [step : {"none", "valid", "made"},
                       by : RuntimeWorkers \cup {NoRuntimeWorker}, uid : Runs \cup {NoRun}]
NoRequest == [step |-> "none", by |-> NoRuntimeWorker, uid |-> NoRun]

(* An environment is known by the run whose request created it.            *)
Entry == [run : Runs, step : 1 .. StepCount]
VerificationEnvironment == [uid : Runs \cup {NoRun}, release : BOOLEAN,
                            phase : {"none", "provisioning", "ready", "failed", "draining"}]
NoEnv == [uid |-> NoRun, phase |-> "none", release |-> FALSE]
VerificationReport == [run : Runs \cup {NoRun}, uid : Runs \cup {NoRun}, passed : BOOLEAN]
NoVerdict == [run |-> NoRun, uid |-> NoRun, passed |-> FALSE]

ExecutionInit ==
  /\ runtime \in Runtimes
  /\ act = [phase |-> "materialize", state |-> "queued", attempt |-> 0, owner |-> NoRuntimeWorker,
            lapsed |-> FALSE, class |-> "none", cycle |-> 1]
  /\ work = [w \in RuntimeWorkers |-> Resting]
  (* The alias of a node image may be that of another spec's build.        *)
  /\ \E image \in {NoImage, [spec |-> "other", files |-> FileCount]} :
       /\ runtime = "k8s" => image = NoImage
       /\ \E sound \in BOOLEAN :
            build = [inst |-> FALSE, files |-> 0, job |-> "none", image |-> image,
                     blobs |-> FALSE, manifest |-> FALSE, sound |-> sound]
  /\ artifact = NoImage
  /\ req = [r \in Runs |-> NoRequest] /\ env = [a \in Attempts |-> NoEnv]
  /\ done = [r \in Runs |-> [c \in Cycles |-> <<>>]] /\ verdict = NoVerdict
  /\ excused = {} /\ strayed = FALSE /\ mishaps = MaxMishaps

Mishap == mishaps > 0 /\ mishaps' = mishaps - 1

-----------------------------------------------------------------------------
(* Leases.                                                                 *)

(* The lease a request names by its action and owner is live.              *)
LeaseHeld(w, phase) ==
  act.state = "running" /\ act.phase = phase /\ act.owner = w /\ ~act.lapsed
HoldsLease(w) == LeaseHeld(w, work[w].phase)
(* Nobody else has taken the action over, even if the lease ran out.       *)
Owns(w) == act.state = "running" /\ act.owner = w

At(w, pc) == work[w].pc = pc
(* An environment that is given up without a release: its worker crashed   *)
(* or lost the lease; its worker ended with an error that no release goes  *)
(* with (it did not see the environment ready, its deadline passed, its    *)
(* report was not taken); the call that releases failed; or the answer     *)
(* that it was made came when nobody waited for it.                        *)
Excuse(uid) ==
  excused' = {e \in excused \cup {uid} : \E a \in Attempts : env[a].uid = e /\ e # NoRun}
Goto(w, pc) == work' = [work EXCEPT ![w].pc = pc]
Quit(w) == work' = [work EXCEPT ![w] = Resting]
Fail(w, class) == work' = [work EXCEPT ![w] = [@ EXCEPT !.pc = "fail", !.class = class]]

(* Seeded fault: only queued actions are claimed.                          *)
QueuedOnly == act.state = "queued"
ActionClaimable == act.state = "queued" \/ (act.state = "running" /\ act.lapsed)

ClaimAction(w) ==
  /\ At(w, "idle") /\ ActionClaimable /\ act.attempt < AttemptBound
  /\ act' = [act EXCEPT !.state = "running", !.owner = w, !.lapsed = FALSE, !.attempt = @ + 1]
  /\ work' = [work EXCEPT ![w] = [Resting EXCEPT
       !.pc = IF act.phase = "verify" THEN "request" ELSE "source",
       !.phase = act.phase, !.run = <<act.cycle, act.attempt + 1>>]]
  /\ UNCHANGED <<runtime, build, artifact, req, env, done, verdict, excused, strayed, mishaps>>

(* The lease of a worker that is gone runs out, and that of one that       *)
(* stalls.  A worker that is well renews it.                               *)
LeaseLapses ==
  /\ act.state = "running" /\ ~act.lapsed
  /\ \/ At(act.owner, "idle") /\ UNCHANGED mishaps
     \/ ~At(act.owner, "idle") /\ Mishap
  /\ act' = [act EXCEPT !.lapsed = TRUE]
  /\ UNCHANGED <<runtime, work, build, artifact, req, env, done, verdict, excused, strayed>>

(* A renewal is refused, or another lease check: nothing is reported.      *)
NoticeLoss(w) ==
  /\ ~At(w, "idle") /\ ~HoldsLease(w) /\ Quit(w)
  /\ Excuse(work[w].uid)
  /\ UNCHANGED <<runtime, act, build, artifact, req, env, done, verdict, strayed, mishaps>>

WorkerCrashes(w) ==
  /\ ~At(w, "idle") /\ Mishap /\ Quit(w)
  /\ Excuse(work[w].uid)
  /\ UNCHANGED <<runtime, act, build, artifact, req, env, done, verdict, strayed>>

(* A call of the worker fails.  An execution that fails leads to a release *)
(* request; after the report there is only the release to lose.            *)
CallFails(w) ==
  /\ ~At(w, "idle") /\ Mishap
  /\ CASE work[w].pc \in {"execute", "output"} -> Goto(w, "release") /\ UNCHANGED excused
       [] work[w].pc \in {"mark", "fail"} -> Quit(w) /\ Excuse(work[w].uid)
       [] OTHER -> Fail(w, "infrastructure") /\ Excuse(work[w].uid)
  /\ UNCHANGED <<runtime, act, build, artifact, req, env, done, verdict, strayed>>

(* An infrastructure failure is retried up to the ceiling.                 *)
ReportActionFailure(w) ==
  /\ At(w, "fail") /\ Quit(w)
  /\ act' = IF ~HoldsLease(w) THEN act
            ELSE [act EXCEPT !.owner = NoRuntimeWorker,
                   !.class = work[w].class,
                   !.state = IF work[w].class = "artifact" \/ act.attempt >= Ceiling
                             THEN "failed" ELSE "queued"]
  /\ UNCHANGED <<runtime, build, artifact, req, env, done, verdict, excused, strayed, mishaps>>

(* The coordinator schedules the verify action after the materialization,  *)
(* and again after an infrastructure failure, with attempts from zero.     *)
Schedule ==
  /\ \/ act.phase = "materialize" /\ act.state = "completed"
        /\ act' = [act EXCEPT !.phase = "verify", !.state = "queued", !.attempt = 0,
                              !.owner = NoRuntimeWorker]
     \/ act.phase = "verify" /\ act.state = "failed" /\ act.class = "infrastructure"
        /\ act.cycle < MaxCycles
        /\ act' = [act EXCEPT !.state = "queued", !.attempt = 0, !.class = "none", !.cycle = @ + 1]
  /\ UNCHANGED <<runtime, work, build, artifact, req, env, done, verdict, excused, strayed, mishaps>>

-----------------------------------------------------------------------------
(* The source archive.                                                     *)

BuildKeeps == UNCHANGED <<runtime, act, artifact, req, env, done, verdict, excused, mishaps>>
(* At Incus nothing tells the workers apart that the action had.           *)
Builder(w) ==
  /\ BuildKeeps
  /\ strayed' = (strayed \/ (runtime = "node" /\ build' # build /\ ~Owns(w)))

ReadSource(w) ==
  /\ At(w, "source") /\ HoldsLease(w)
  /\ IF build.sound THEN Goto(w, IF runtime = "node" THEN "alias" ELSE "pull")
     ELSE Fail(w, "artifact")
  /\ UNCHANGED build /\ Builder(w)

-----------------------------------------------------------------------------
(* Building a node image.                                                  *)

(* validateBuiltImage: the properties name the spec; the files are not     *)
(* looked at.                                                              *)
ValidBuiltImage(image) == image.spec = "own"

GetImageAlias(w) ==
  /\ At(w, "alias")
  /\ Goto(w, CASE build.image = NoImage -> "pre"
               [] build.image # NoImage /\ ValidBuiltImage(build.image) -> "tidy"
               [] build.image # NoImage /\ ~ValidBuiltImage(build.image) -> "replace")
  /\ UNCHANGED build /\ Builder(w)

(* deleteBuildInstanceIfPresent, before the image is replaced, before an   *)
(* instance is created and after the image is published.                   *)
AfterDelete == [replace |-> "unlink", pre |-> "create", tidy |-> "store"]

DeleteBuildInstance(w) ==
  /\ work[w].pc \in DOMAIN AfterDelete /\ ~work[w].waits
  /\ CASE ~build.inst -> Goto(w, AfterDelete[work[w].pc]) /\ UNCHANGED build
       [] build.inst /\ build.job # "none" -> Fail(w, "infrastructure") /\ UNCHANGED build
       [] build.inst /\ build.job = "none" ->
            build' = [build EXCEPT !.job = "delete"] /\ work' = [work EXCEPT ![w].waits = TRUE]
  /\ Builder(w)

WaitDeleted(w) ==
  /\ work[w].pc \in DOMAIN AfterDelete /\ work[w].waits /\ build.job # "delete"
  /\ work' = [work EXCEPT ![w].pc = AfterDelete[@], ![w].waits = FALSE]
  /\ UNCHANGED build /\ Builder(w)

DeleteOwnedImageAlias(w) ==
  /\ At(w, "unlink") /\ Goto(w, "pre")
  /\ build' = [build EXCEPT !.image = NoImage]
  /\ Builder(w)

CreateInstance(w) ==
  /\ At(w, "create")
  /\ IF build.inst \/ build.job # "none" THEN Fail(w, "infrastructure") /\ UNCHANGED build
     ELSE build' = [build EXCEPT !.job = "create"] /\ Goto(w, "created")
  /\ Builder(w)

WaitCreated(w) ==
  /\ At(w, "created") /\ build.job # "create"
  /\ work' = [work EXCEPT ![w] = [@ EXCEPT !.pc = "write", !.at = 0]]
  /\ UNCHANGED build /\ Builder(w)

CreateInstanceFile(w) ==
  /\ At(w, "write") /\ work[w].at < FileCount
  /\ IF ~build.inst THEN Fail(w, "infrastructure") /\ UNCHANGED build
     ELSE /\ build' = [build EXCEPT !.files = work[w].at + 1]
          /\ work' = [work EXCEPT ![w].at = @ + 1]
  /\ Builder(w)

CreateImage(w) ==
  /\ At(w, "write") /\ work[w].at = FileCount
  /\ IF ~build.inst \/ build.job # "none" \/ build.image # NoImage
     THEN Fail(w, "infrastructure") /\ UNCHANGED build
     ELSE build' = [build EXCEPT !.job = "publish"] /\ Goto(w, "published")
  /\ Builder(w)

WaitPublished(w) ==
  /\ At(w, "published") /\ build.job # "publish"
  /\ IF build.image # NoImage /\ ValidBuiltImage(build.image) THEN Goto(w, "tidy")
     ELSE Fail(w, "infrastructure")
  /\ UNCHANGED build /\ Builder(w)

(* Incus ends an operation.                                                *)
JobEnds ==
  /\ build.job # "none"
  /\ build' = [build EXCEPT !.job = "none",
       !.inst = CASE build.job = "create" -> TRUE [] build.job = "delete" -> FALSE [] OTHER -> @,
       !.files = IF build.job = "publish" THEN @ ELSE 0,
       !.image = IF build.job = "publish" THEN [spec |-> "own", files |-> build.files] ELSE @]
  /\ UNCHANGED <<work, strayed>> /\ BuildKeeps

-----------------------------------------------------------------------------
(* Building a K8s image, under a name that the spec's digest is part of.   *)

PullBaseImage(w) ==
  /\ At(w, "pull") /\ Goto(w, "layer") /\ UNCHANGED build /\ Builder(w)

(* The layer is the same for the same bundle, so a retry has the digest    *)
(* that is compared below.                                                 *)
AppendBundleLayer(w) ==
  /\ At(w, "layer") /\ Goto(w, "resolve") /\ UNCHANGED build /\ Builder(w)

ResolveArtifact(w) ==
  /\ At(w, "resolve") /\ Goto(w, IF build.manifest THEN "store" ELSE "blobs")
  /\ UNCHANGED build /\ Builder(w)

PushBlobs(w) ==
  /\ At(w, "blobs") /\ Goto(w, "manifest")
  /\ build' = [build EXCEPT !.blobs = TRUE]
  /\ Builder(w)

PushManifest(w) ==
  /\ At(w, "manifest") /\ build.blobs /\ Goto(w, "digest")
  /\ build' = [build EXCEPT !.manifest = TRUE]
  /\ Builder(w)

ResolvePublished(w) ==
  /\ At(w, "digest") /\ build.manifest /\ Goto(w, "store")
  /\ UNCHANGED build /\ Builder(w)

(* What the repository's revision names, checked against the spec.         *)
Built ==
  IF runtime = "node" THEN build.image
  ELSE [spec |-> IF build.manifest THEN "own" ELSE "none",
        files |-> IF build.blobs THEN FileCount ELSE 0]

CompleteMaterialization(w) ==
  /\ At(w, "store") /\ Quit(w)
  /\ IF HoldsLease(w)
     THEN /\ artifact' = Built
          /\ act' = [act EXCEPT !.state = "completed", !.owner = NoRuntimeWorker]
     ELSE UNCHANGED <<artifact, act>>
  /\ UNCHANGED <<runtime, build, req, env, done, verdict, excused, strayed, mishaps>>

-----------------------------------------------------------------------------
(* The verification environment, at the Server.                            *)

(* Seeded fault: the name leaves the attempt out.                          *)
EnvironmentNameOfRevision(run) == 1
VerificationEnvironmentName(run) == run[2]

(* ValidateRunnableVerificationLease: owner and attempt, not the cycle.    *)
LeaseOf(run, w) == LeaseHeld(w, "verify") /\ act.attempt = run[2]

ServerKeeps == UNCHANGED <<runtime, act, build, artifact, done, verdict, strayed>>
WithoutMishap == ServerKeeps /\ UNCHANGED mishaps

Awaiting(run, w) == At(w, "await") /\ work[w].run = run
AnswerLost(run, w) == IF Awaiting(run, w) THEN Quit(w) ELSE UNCHANGED work

(* The request arrives and its lease is checked.                           *)
RequestEnvironment(w) ==
  LET run == work[w].run IN
  /\ At(w, "request")
  /\ IF LeaseOf(run, w)
     THEN /\ Goto(w, "await")
          /\ req' = [req EXCEPT ![run] = [NoRequest EXCEPT !.step = "valid", !.by = w]]
     ELSE Quit(w) /\ UNCHANGED req
  /\ UNCHANGED <<env, excused>> /\ WithoutMishap

(* Created, or adopted under the same name.                                *)
CreateEnvironment(run) ==
  LET name == VerificationEnvironmentName(run) IN
  /\ req[run].step = "valid"
  /\ env' = IF env[name] # NoEnv THEN env
            ELSE [env EXCEPT ![name] = [NoEnv EXCEPT !.uid = run, !.phase = "provisioning"]]
  /\ req' = [req EXCEPT ![run] =
       [@ EXCEPT !.step = "made", !.uid = IF env[name] # NoEnv THEN env[name].uid ELSE run]]
  /\ UNCHANGED <<work, excused>> /\ WithoutMishap

(* markVerificationEnvironmentReleasable: the environment with this UID.   *)
Marked(uid) ==
  [a \in Attempts |-> IF env[a].uid = uid THEN [env[a] EXCEPT !.release = TRUE] ELSE env[a]]

(* Seeded fault: a request that lost its lease leaves what it created.     *)
ForgottenEnvironment(uid) == env
(* The lease was lost meanwhile: what was created is released.             *)
AbandonedEnvironment(uid) == Marked(uid)

(* That call may fail, and the check itself: only the log tells of it.     *)
AnswerRequest(run) ==
  LET w == req[run].by
      uid == req[run].uid IN
  /\ req[run].step = "made"
  /\ req' = [req EXCEPT ![run] = NoRequest]
  /\ \/ /\ ~LeaseOf(run, w) /\ AnswerLost(run, w)
        /\ \/ env' = AbandonedEnvironment(uid) /\ UNCHANGED <<excused, mishaps>>
           \/ Mishap /\ Excuse(uid) /\ UNCHANGED env
     \/ /\ LeaseOf(run, w) /\ Mishap
        /\ env' = AbandonedEnvironment(uid) /\ UNCHANGED excused
        /\ IF Awaiting(run, w) THEN Fail(w, "infrastructure") ELSE UNCHANGED work
     \/ /\ LeaseOf(run, w) /\ Awaiting(run, w)
        /\ work' = [work EXCEPT ![w] = [@ EXCEPT !.pc = "poll", !.uid = uid]]
        /\ UNCHANGED <<env, excused, mishaps>>
     \/ /\ LeaseOf(run, w) /\ ~Awaiting(run, w)
        /\ Excuse(uid)
        /\ UNCHANGED <<env, work, mishaps>>
  /\ ServerKeeps

-----------------------------------------------------------------------------
(* Executing the plan.                                                     *)

Environment(w) == env[VerificationEnvironmentName(work[w].run)]

PollEnvironment(w) ==
  /\ At(w, "poll")
  /\ \/ /\ Environment(w).uid = work[w].uid /\ Environment(w).phase = "ready"
        /\ work' = [work EXCEPT ![w] = [@ EXCEPT !.pc = "execute", !.at = 1, !.result = "ok"]]
     \/ /\ Environment(w).uid # work[w].uid \/ Environment(w).phase = "failed"
        /\ Fail(w, "infrastructure")
  /\ UNCHANGED <<req, env, excused>> /\ WithoutMishap

(* The action's deadline passes: taken for the content's failure.  A       *)
(* release would be asked for under the deadline that has passed.          *)
DeadlinePasses(w) ==
  /\ work[w].pc \notin {"idle", "mark", "fail"} /\ Mishap /\ Fail(w, "artifact")
  /\ Excuse(work[w].uid)
  /\ UNCHANGED <<runtime, act, build, artifact, req, env, done, verdict, strayed>>

(* The environment's resources are addressed by its UID; while it drains   *)
(* they may still be there.                                                *)
Execute(w, result) ==
  /\ At(w, "execute")
  /\ result = "false" => work[w].at = StepCount
  /\ \E a \in Attempts : env[a].uid = work[w].uid /\ env[a].phase \in {"ready", "draining"}
  /\ done' = [done EXCEPT ![work[w].uid][work[w].run[1]] =
                Append(@, [run |-> work[w].run, step |-> work[w].at])]
  /\ work' = [work EXCEPT ![w] = [@ EXCEPT !.pc = "output", !.result = result]]
  /\ UNCHANGED <<runtime, act, build, artifact, req, env, verdict, excused, strayed, mishaps>>

ExecutionFails(w) ==
  /\ At(w, "execute") /\ \A a \in Attempts : env[a].uid = work[w].uid => env[a].phase # "ready"
  /\ Goto(w, "release")
  /\ UNCHANGED <<req, env, excused>> /\ WithoutMishap

PlanEnds(w) == work[w].at = StepCount

(* Without a lease the output is refused, which counts as a failure of the *)
(* infrastructure.  An unexpected exit ends the plan, a false assertion    *)
(* does not.                                                               *)
StoreExecutionOutput(w) ==
  /\ At(w, "output")
  /\ CASE ~HoldsLease(w) -> Goto(w, "release")
       [] HoldsLease(w) /\ (work[w].result = "bad" \/ PlanEnds(w)) -> Goto(w, "complete")
       [] HoldsLease(w) /\ work[w].result # "bad" /\ ~PlanEnds(w) ->
            work' = [work EXCEPT ![w] = [@ EXCEPT !.pc = "execute", !.at = work[w].at + 1]]
  /\ UNCHANGED <<req, env, excused>> /\ WithoutMishap

(* Only with the lease; the failure is reported in any case.               *)
RequestRelease(w) ==
  /\ At(w, "release") /\ Fail(w, "infrastructure")
  /\ IF HoldsLease(w) THEN env' = Marked(work[w].uid) /\ UNCHANGED excused
     ELSE UNCHANGED env /\ Excuse(work[w].uid)
  /\ UNCHANGED req /\ WithoutMishap

CompleteVerification(w) ==
  /\ At(w, "complete")
  /\ IF LeaseHeld(w, "verify") /\ act.attempt = work[w].run[2]
     THEN /\ Goto(w, "mark") /\ UNCHANGED excused
          /\ act' = [act EXCEPT !.state = "completed", !.owner = NoRuntimeWorker]
          /\ verdict' = [run |-> work[w].run, uid |-> work[w].uid,
                         passed |-> work[w].result = "ok"]
     ELSE Quit(w) /\ Excuse(work[w].uid) /\ UNCHANGED <<act, verdict>>
  /\ UNCHANGED <<runtime, build, artifact, req, env, done, strayed, mishaps>>

(* The Server's handler goes on to the release.                            *)
ReleaseAfterReport(w) ==
  /\ At(w, "mark") /\ Quit(w)
  /\ env' = Marked(work[w].uid)
  /\ UNCHANGED <<req, excused>> /\ WithoutMishap

-----------------------------------------------------------------------------
(* The Controller and the Reaper, for a verification environment.          *)

EnvironmentKeeps == UNCHANGED <<runtime, act, work, build, artifact, req, done, verdict, strayed>>

EnvironmentReady(a) ==
  /\ env[a].phase = "provisioning" /\ env' = [env EXCEPT ![a].phase = "ready"]
  /\ UNCHANGED <<excused, strayed, mishaps>> /\ EnvironmentKeeps

EnvironmentFails(a) ==
  /\ env[a].phase = "provisioning" /\ Mishap
  /\ env' = [env EXCEPT ![a].phase = "failed"]
  /\ UNCHANGED excused /\ EnvironmentKeeps

(* Released, or past its idle time or lifetime, which outlast a run.       *)
EnvironmentDrains(a) ==
  /\ env[a].phase \in {"provisioning", "ready", "failed"}
  /\ IF env[a].release THEN UNCHANGED mishaps ELSE Mishap
  /\ env' = [env EXCEPT ![a].phase = "draining"]
  /\ UNCHANGED excused /\ EnvironmentKeeps

EnvironmentGoes(a) ==
  /\ env[a].phase = "draining" /\ env' = [env EXCEPT ![a] = NoEnv]
  /\ excused' = excused \ {env[a].uid}
  /\ UNCHANGED mishaps /\ EnvironmentKeeps

-----------------------------------------------------------------------------
Building(w) ==
  /\ work[w].phase = "materialize"
  /\ \/ ReadSource(w) \/ GetImageAlias(w) \/ DeleteBuildInstance(w) \/ WaitDeleted(w)
     \/ DeleteOwnedImageAlias(w) \/ CreateInstance(w) \/ WaitCreated(w)
     \/ CreateInstanceFile(w) \/ CreateImage(w) \/ WaitPublished(w)
     \/ PullBaseImage(w) \/ AppendBundleLayer(w) \/ ResolveArtifact(w) \/ PushBlobs(w)
     \/ PushManifest(w) \/ ResolvePublished(w) \/ CompleteMaterialization(w)
Verifying(w) ==
  /\ work[w].phase = "verify"
  /\ \/ RequestEnvironment(w) \/ PollEnvironment(w)
     \/ (\E result \in {"ok", "false", "bad"} : Execute(w, result)) \/ ExecutionFails(w)
     \/ StoreExecutionOutput(w) \/ RequestRelease(w) \/ CompleteVerification(w)
     \/ ReleaseAfterReport(w)
WorkerStep(w) == ClaimAction(w) \/ Building(w) \/ Verifying(w) \/ ReportActionFailure(w)
Server(run) == CreateEnvironment(run) \/ AnswerRequest(run)

ExecutionNext ==
  \/ \E w \in RuntimeWorkers : \/ WorkerStep(w) \/ NoticeLoss(w) \/ WorkerCrashes(w)
                             \/ CallFails(w) \/ DeadlinePasses(w)
  \/ LeaseLapses \/ Schedule \/ JobEnds
  \/ \E run \in Runs : Server(run)
  \/ \E a \in Attempts : \/ EnvironmentReady(a) \/ EnvironmentFails(a)
                         \/ EnvironmentDrains(a) \/ EnvironmentGoes(a)

ExecutionSpec == ExecutionInit /\ [][ExecutionNext]_executionVars

(* Workers, Server, Incus and Controller go on; a lease without a worker   *)
(* runs out; released and expired environments go.  None of them does so   *)
(* for ever, so it is enough that one of those that can go on does.        *)
Onward ==
  \/ \E w \in RuntimeWorkers : WorkerStep(w) \/ NoticeLoss(w)
  \/ \E run \in Runs : Server(run)
  \/ LeaseLapses /\ UNCHANGED mishaps
  \/ JobEnds
  \/ \E a \in Attempts : EnvironmentReady(a) \/ EnvironmentGoes(a)

ExecutionFairSpec == ExecutionSpec /\ WF_executionVars(Onward)

-----------------------------------------------------------------------------
(* Properties.                                                             *)

(* The types of the row, the workers, the provider and the Server.         *)
ExecutionTypeOK ==
  /\ runtime \in Runtimes /\ act \in ActionRow /\ work \in [RuntimeWorkers -> Work]
  /\ build \in Build /\ artifact \in Image /\ req \in [Runs -> EnvironmentRequest]
  /\ env \in [Attempts -> VerificationEnvironment]
  /\ done \in [Runs -> [Cycles -> Seq(Entry)]]
  /\ verdict \in VerificationReport
  /\ excused \subseteq Runs /\ strayed \in BOOLEAN /\ mishaps \in 0 .. MaxMishaps

(* A stored report tells of one run: within a scheduling cycle nobody else *)
(* executed anything in the environment it is about, not even a worker     *)
(* that lost its lease and did not know, and a passed report has every     *)
(* step of the plan behind it, in order, in that one environment           *)
(* (VerificationEnvironmentName, Verify, CompleteRunnableVerification).    *)
VerdictIsTheRuns ==
  verdict # NoVerdict =>
    LET here == done[verdict.uid][verdict.run[1]]
    IN  /\ \A i \in DOMAIN here : here[i].run = verdict.run
        /\ verdict.passed => here = [i \in 1 .. StepCount |-> [run |-> verdict.run, step |-> i]]

(* What a materialization stores is the spec's image with all its files,   *)
(* whatever an earlier attempt left behind (a half-written instance, an    *)
(* operation under way, an image of another spec) and whoever outlived its *)
(* lease.  The exception: the attempts at a node image share one instance  *)
(* and one alias, and a worker that went on there after another had taken  *)
(* the action over voids it (BuildNodeImage).                              *)
AcceptedIsWhole ==
  artifact # NoImage =>
    artifact = [spec |-> "own", files |-> FileCount] \/ (runtime = "node" /\ strayed)

(* An environment that starts or is ready, and that nobody works with, is  *)
(* marked for release: the one whose request lost its lease, the one whose *)
(* plan ended or failed in execution.  Unmarked it is left only by the     *)
(* exits that Excuse names, to its lifetime; a failed one is asked for by  *)
(* nobody (InternalCreateRunnableVerificationEnvironment, execute).        *)
LostEnvironmentsAreMarked ==
  \A a \in Attempts :
    env[a].phase \in {"provisioning", "ready"} /\ ~env[a].release =>
      \/ env[a].uid \in excused
      \/ \E run \in Runs : req[run].step = "made" /\ req[run].uid = env[a].uid
      \/ \E w \in RuntimeWorkers : work[w].uid = env[a].uid /\ ~At(w, "fail")

(* Both actions end, with a result or a failure, whatever crashed.         *)
ActionsSettle ==
  act.state \in {"queued", "running"} ~> act.state \in {"completed", "failed"}
(* What an action leaves behind: a whole artifact, and a report of one run.*)
ExecutionInvariant == ExecutionTypeOK /\ VerdictIsTheRuns /\ AcceptedIsWhole
=============================================================================
