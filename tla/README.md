# Verification of Breakfix

Breakfix turns an authored plan into a runnable troubleshooting scenario: an
author writes a plan with an agent, a generator produces a candidate, a Judge
reviews it, a queue of actions materializes and verifies it in real runtime
environments, and a finalizer publishes it. This directory holds TLA+ models of
the parts of that program that are concurrent, restartable and stateful, the
configurations with which TLC checks them, and theorems about them that TLAPS
checks. Paths below are relative to the repository (`internal/...`).

Contents: 1 inventory, 2 modules and how they read, 3 runs, 4 findings,
5 proofs, 6 what is only model-checked and what is not modelled, 7 plan.

## 1. Inventory

Three processes share one PostgreSQL database and one Kubernetes API. The
Server is a single replica with strategy Recreate, the Runtime Workers and the
Controller may be several.

| component | state | operations | talks to |
|---|---|---|---|
| Runnable action queue (`adapter/postgres/runnable_repository.go`) | `runnable_actions`, revisions, reports | schedule, claim, renew, complete, report failure, resolve | workers over internal HTTP, coordinators in process |
| Runtime Worker (`worker/runnable/runner.go`) | one loop per slot: action, attempt, renewal ticker | poll, execute, renew, hand in, report | queue; providers |
| Generation workflow (`adapter/postgres/generation_repository.go`) | `generation_workflows`, candidates, receipts, Judge claim | submit, judge, mark materialized/verified, confirm, request changes, cancel, fail | Judge, coordinator, finalizer, author's requests |
| Judge (`application/generation/agent_runner.go`) | claim, lease, agent run | claim, run, retry, conclude, recover | workflow rows, model provider |
| Coordinator (`application/generation/runnable_coordinator.go`) | the list of one pass | schedule, resolve, mark, fail | workflow rows, queue |
| Finalizer (`application/generation/publication_finalizer.go`) | one publication at a time; retry time in the row | materialize on the volume, commit, classify, record | workflow rows, scenario rows, data volume |
| Materialization sweep (`application/publication/materialization.go`) | retention set and directory listing of one pass | sweep at start and periodically | scenario rows, data volume |
| Environment controller (`controller/runtimeenvironment`) | RuntimeEnvironment objects, finalizers, annotations | provision, reset, drain, reap, delete | providers, reap queue, Server's handlers |
| Reap queue and Reaper | reap records with leases | enqueue, claim, stop, release, complete | controller, providers |
| Catalog installer (`application/catalog/installer.go`, `adapter/postgres/catalog_repository.go`) | releases, entries, commits, sources on the volume | select the baseline, fetch, initialize, advance entries, commit, clean up | queue, data volume, scenario rows |
| Generator workspace (`application/generation/workspace*.go`, `generator_service.go`) | rows, owner objects, sandboxes, turns, snapshots | ensure, turn, write, submit, archive, retire, reconcile, sanitize, recover | sandbox provider, cluster API, data volume |
| Authoring, agent runs, assistant (`application/authoring`, `application/assistant`, `application/interactive`, `adapter/postgres/agent_repository.go`) | sessions, stages, plan revisions, runs with attempts, messages | start turn, stage, finalize, terminate, retry, recover | model provider, environments |
| Verification and materialization (`worker/runnable/verifier.go`, `materializer.go`, `adapter/runnableprovider`) | what a worker holds during one attempt | build an image, request an environment, execute, store outputs, report | Server's internal API, Incus, registry |
| Provider adapters (`adapter/incus`, `adapter/kubernetes`, `adapter/vcluster`) | the resources of one environment | provision, reset, release request by request | Incus, Kubernetes |
| Learning projection, environment API, terminals (`application/learning/maintenance.go`, `transport/httpapi`) | attempts, first passes, progress, tickets, connections, usage sessions | start, reset, stop, project, open, close, clean up | RuntimeEnvironment objects, learners' machines |
| HTTP decoding, authentication, content formats, MCP connector | none of their own | decoding, encoding, mirroring | everything above |

The hard behaviours, and what makes each part correct:

* **Queue and workers.** Leases expire while a worker still works; a restarted
  container keeps its identity (`POD_NAME`); an HTTP call given up by the
  client may still be handled; a failure report can itself fail. Correct: a
  final result is never undone, a result and its row agree, patience is
  bounded, a healthy worker never loses its action, everything scheduled ends.
* **Inside one attempt.** A build or a verification is a sequence of requests
  to servers that go on without the worker. Correct: what is accepted is whole,
  a report stems from one run in one environment, nothing is left running.
* **Workflow, Judge, coordinator.** Three writers move one row, each with
  something it read earlier; the Server restarts at any point; one error ends a
  coordinator pass. Correct: a candidate is judged once, by the run that saw it;
  nothing unreviewed or unverified reaches publication; terminal states are
  final; the Judge always concludes; what the queue concluded arrives.
* **Finalizer, installer and sweep.** A publication is a directory and a
  transaction, in that order, with a crash possible between them; the sweep
  removes directories on the strength of a set it read before. Correct: no
  published directory is removed, no update of a scenario is lost, there is one
  baseline and it is visible as a whole, a publication and an installation end,
  a start leaves no orphan.
* **Controller, Reaper, providers.** The Controller reads a copy that lags,
  writes patches that no resource version protects, and takes two writes for
  one decision; resources terminate in their own time; operations outlive their
  callers; the teardown lease is not renewed. Correct: resources never outlive
  their object, teardown is announced and complete before it is recorded, a
  ready environment is the one the reset built, every environment ends.
* **Workspaces.** A row, an owner object, a claim and a sandbox are made by four
  systems, and four loops repair what is left half-made. Correct: one writer, a
  restorable snapshot, no edit thrown away by idle retirement, nothing leaked.
* **Turns.** The goroutine of a turn dies with the Server, its database calls may
  commit without an answer, the creation of the run among them. Correct: one
  outcome per turn, a revision is the turn's work and overwrites nothing,
  recovery leaves no run behind, a turn that is driven ends.
* **Learning.** Successive environments share a name; the projector works from a
  listing; terminals close without saying so. Correct: a completion is earned
  and recorded, outcomes stay, a deletion hits who was meant, usage ends.

`PROJECT.json` lists all components, the hazards at their source lines, and for
each definition the lines it translates.

## 2. The modules

| module | models |
|---|---|
| `ActionContract` | what the queue promises its clients: pending, then one of three ends |
| `RunnableActions` | the queue table and the worker loops; refines `ActionContract` |
| `RetryBackoff` | the retry curve as a pure function |
| `GenerationWorkflow` | workflow rows, Judge, coordinator, recovery; uses `ActionContract` as the queue below it |
| `ScenarioPublication` | confirmation, finalizer, sweep, data volume |
| `RuntimeEnvironment` | one environment object: Server's requests, Controller, informer copy, reap queue, Reapers, provider resources |
| `ProviderResources` | the same environment's resources, request by request, at Incus or Kubernetes |
| `RunnableExecution` | what a worker does inside one attempt: image build, verification in an environment, report |
| `GeneratorWorkspace` | row, owner, claim, sandbox, turns, snapshots and the loops that repair them |
| `InteractiveRuns` | authoring and assistant turns, the run table, plan revisions, recovery |
| `CatalogRelease` | the installer, the baseline, its directories and the sweep; uses `ActionContract` as the queue below it |
| `LearningProjection` | environment API over one name, projector, tickets, terminals, usage |
| `RunnableActionsProofs`, `GenerationWorkflowProofs`, `ScenarioPublicationProofs`, `RuntimeEnvironmentProofs`, `GeneratorWorkspaceProofs`, `InteractiveRunsProofs`, `CatalogReleaseProofs`, `LearningProjectionProofs` | theorems about the modules they extend, and their proofs; the first also holds those about `RunnableExecution`, `RuntimeEnvironmentProofs` those about `ProviderResources` |
| `MC*` | constants for TLC |

A definition whose comment says "Seeded fault" is a plausible mistake in the
definition below it. It is not part of any specification; it is substituted for
that definition to see that a property notices.

**Steps.** A repository operation is one PostgreSQL transaction and is one
action. Work of a goroutine between two transactions or file system calls is
where others interleave, so what it read is kept in a variable (`worker`,
`judge`, `coord`, `fin`, `rec`) and may be stale when it is used.

**RunnableActions.** `row` is the table; `lease` and `wait` are the distances
of `lease_expires_at` and `next_run_at` from now, floored at 0, so the SQL
comparisons become `lease > 0` and `wait = 0`. `ClaimedRow`, `RenewedRow`,
`CompletedRow`, `FailedRow` are the UPDATE statements as functions of a row,
`Live` and `Matches` their fences. `worker` is the state of `ProcessOne`:
executing, completing, handing over an infrastructure report, reporting.
`inflight` holds calls whose client gave up; the Server may handle one at any
later time. `cause` is a history field: what really happened, whatever class
was reported. `Tick` is the clock when everybody is on time, `Stall` the clock
when somebody is late, which counts as a fault.

**GenerationWorkflow.** `wf`, `cand`, `receipts`, `runs` are the tables. A
candidate is named by its idempotency key. `judge[n]` is the goroutine of the
n-th claim, with the version and candidate it was given; `Fenced` is
`lockGenerationAgentClaimTx`. `coord` is one pass of the coordinator with the
list it read. `load` is the instance of the behaviour at hand: which workflows
and keys are in use and how many faults may happen. The queue is `ActionContract`, justified by the refinement proved
for `RunnableActions`. Recovery is two statements with a crash possible between.

**ScenarioPublication.** `disk`, `parents`, `staging` are the volume: directories at
their target path, slug directories, and temporary ones. The finalizer's pass
is resolve, check, mkdir, rename, commit, record; the sweep's pass is read the
retention set, list slugs, open one, remove what is not retained, remove the
slug if empty. `Periodic` says whether the Server stays up long enough for the
periodic sweep; with it off, sweeps happen only in recovery, before anything
else runs; a recovery that fails ends the start (`AfterSweep`), and the next start
sweeps again.

**RuntimeEnvironment.** `obj` is the object at the API server, `cached` the
informer's copy, `events` the versions in between (at most `load.lag`; a further
write replaces the last, as if the informer had skipped it). A reconcile starts
from the copy; `rec` holds what it still needs after its first write or during
a provider call. `Merge` is the merge patch: fields that differ from what was
read, applied to whatever is stored. `Decide` and `CanTransition` are the
functions of `state.go`. `res` is the namespace or Incus project, with the
reset generation it is stamped with, and `born`, a history field: how many
resets had been requested when it was built. `reap` is the row of
`runnable_reaps`; its holder stands for owner, attempt and expiry, which only
tell claims apart. `idled` and `aged` are the deadlines that have passed;
`regressed` is history: a status patch took Draining back.
`load` is the kind of environment and its bounds.

**ProviderResources.** `RuntimeEnvironment` takes Provision, Reset and Release
as a step; here `call` is where each caller is in them, and every request may be
its last. `incus`, `inst` and `k8s` are what exists, `job` the Incus operations
that go on without their caller. Stamps are reset generations; `born` is the
history field that says for which reset something was built. `others` are the
subnets that other environments hold, so that creating a network can conflict.

**RunnableExecution.** `act` is the action's row as the worker meets it, `work`
the worker's place in `Materialize` or `Verify`, `build` the build project and
the registry, `req` a request for an environment at the Server, `env` the
environments by name: the name is made of revision and attempt, so a later
scheduling cycle meets the names of an earlier one. Three variables are history:
`done`, the executions in each environment, cycle by cycle, against which a report
is judged; `excused`, the environments that somebody gave up without a release,
by one of the exits that `Excuse` lists; `strayed`, whether a worker went on in the
shared build project after another had taken the action over.

**GeneratorWorkspace.** `call` is the place of `EnsureFresh` in each caller,
one action per external call, with the context deadline as `ProvisionFails`. A
file content is a version number; `edited` is the history of a sandbox: a file was
written since it was created or reset. `store` says of each archive whether it is
there and past its grace period. Loops are optional, as in the configuration.

**InteractiveRuns.** `run` is `agent_runs` in creation order, `plans` the plan
revisions, a plan being the set of edits in it; `turn` is the request, then the
goroutine, that has a run in hand (`Driving`), or how it left the run as it is
(`Left`): `undriven` when the start was not answered or the session could not be
read back, `refused` when the reply was, `gaveup` when a call failed. A call that
commits and loses its answer is a fault; most are retried by the code, which is
where idempotency is needed, the start of a turn is not.

**CatalogRelease.** `release`, `entry`, `commit`, `rows` are the tables, `inst` the
installer's goroutine, `sweep` the reconciler's, `server.digest` what the
operator configured at the last start. A directory carries its publication time
as the number of times it was promoted. `swept` remembers what a late sweep took.

**LearningProjection.** `env` holds the environments created under the name,
with what their machines would answer; `pass` is the projector's, one step per
evaluation and per statement; `req` are requests, `sock` terminals, `tracker` the
in-memory count. What the Controller does to the object is external here.

## 3. The runs

| run | instance | what it shows |
|---|---|---|
| `takeover` | 1 materialization, 1 verification, 2 workers, 2 attempts, lease 3, 1 fault | leases are lost only through a fault; late calls of earlier attempts break neither the ceiling nor the agreement of results and rows; the queue keeps `ActionContract`; everything scheduled ends |
| `execution` | 2 workers, node and K8s, 2 scheduling cycles, 2 files, 2 steps, 2 faults | the accepted artifact is whole, unless a stray builder shared its instance; a report stems from one run; an environment nobody works with is marked for release, unless it was given up at a named exit; both actions settle |
| `repair` | 1 workflow with 2 candidates and 1 fault, or with 1 candidate and 2 faults, or 2 workflows; 4 claims, 2 attempts | judged once; reviewed before published; terminal is final; the Judge concludes; what the queue concluded arrives, also past another workflow's error |
| `publish` | 2 authors revise one scenario, a third creates one; 2 faults; no periodic sweep | no lost update; published directories survive crashes and recoveries; a start leaves no orphan; publications end |
| `stale_sweep` | 2 workflows, periodic sweep, no fault | the finding of section 4 |
| `catalog` | 2 digests, 2 entries, 2 source attempts, 1 fault | one baseline, intact and visible as a whole; installations end and failed ones are cleaned up |
| `environment` | virtual cluster with a copy 2 versions behind (renewal and reset; renewal and fault; reset and fault); both providers and both contents with 2 Reapers, a copy 1 behind, 1 reset, 1 fault | teardown is announced, complete and final, nothing outlives its object; only a renewal undoes Draining; ready means rebuilt; every environment ends, with the exception the property names |
| `provider` | node, K8s and blank, 2 nodes, 1 subnet that another may take, 2 resets, 2 Reapers, 2 faults | released is gone, ready is rebuilt, nothing runs unfenced; building and teardown end |
| `workspace_turns` | 2 workspaces, 2 sandboxes, 1 client, snapshotter, 1 edit, 1 fault | one current workspace and writer, the archive that is named stays, idle retirement takes no edit that is not saved |
| `workspace_cleanup` | 1 workspace, 2 sandboxes, 2 clients, sanitizer, 1 fault | a completed row has no sandbox; retired rows complete and stray sandboxes go |
| `turns` | either purpose, 2 messages, 2 keys, 2 attempts, 2 edits, 2 faults | one run at a time, one outcome per turn; a run that goes on is in hand, or was left at a named point; a revision is the turn's work; a turn ends if it was not left |
| `learning` | scenario and playground; 2 environments under a name, 2 requests at a time or 2 terminals, 2 checkpoints, 1 fault | completions are earned and recorded; outcomes stay; tickets are spent once; a deletion was meant; usage ends |

An invariant with several parts (`EnvironmentInvariant`, `ResourceInvariant`,
`BaselineInvariant`, ...) is the conjunction of named ones, each with a comment
of its own.

*Bounds.* `MaxFaults` (`MaxFailures` and `MaxMishaps` in `ProviderResources`
and `RunnableExecution`), `MaxClaims`, `MaxAttempts`, `MaxAgentAttempts`,
`MaxResets`, `MaxEdits`, `MaxRuns`, `MaxCycles` and the sizes of the sets bound
the state space. Two attempts are the least for which a row is queued again and
then exhausted, and with a claim that nobody reports the attempt number passes
the ceiling; two workers are enough for a takeover; a worker that restarts
under its own name needs only one. The lease of 3 with renewal at 1 and a
request timeout of 2 is the tightest instance of `RenewEvery + RequestTimeout
<= LeaseTTL`. Two keys give a repair round; four claims are one per key plus
one per fault, so no behaviour is cut short before the Judge concludes. Two
authors of one base are the least that conflict. A copy two versions behind is
the least that shows the Controller a version between a Server's write and its
own. Two scheduling cycles make a name meet its predecessor. Two resets tell a
stamp of this reset from one of another. Two digests change the configured one;
two entries leave one promoted and one not. Two environments under a name are
one that was listed and one that replaced it. Two workspaces let a retired one
be seeded again; with a second client besides, `workspace_turns` is beyond TLC's
reach, and what a second client can do is covered by the proofs and, without
edits, by `workspace_cleanup`. Where a module takes `Workloads`,
the bounds are those of the behaviour, and the set is chosen so that every pair
of hard cases meets in one of them: all of them at once would be too large.
With the faults spent, the rest of a behaviour is free of faults, which is what
liveness needs. The code's ceilings, timeouts and intervals are larger; the
theorems of section 5 hold for every value.

*Deadlock.* `RunnableActions` has none (time always passes). The others really
stop: when every workflow, release, turn or environment is over or waits for
its user; their configurations allow it.

*Fairness.* Weak fairness only, of what the program does by itself: worker
polling, renewal tickers, executions (each has a context deadline), the clock,
the Server's ticker loops, recovery, restart by the cluster, lease expiry, the
informer (resynchronised every minute) and the reconciles it starts, the
Reaper's loop, the maximum lifetime, termination of namespaces and of provider
operations, the end of a model call (it has a timeout). A fault is never fair
and users owe nothing. Where `ActionContract` stands for the queue, settling of
a pending action is assumed fair; that is `EveryActionSettles`, checked of
`RunnableActions`. Several steps of one goroutine share one fairness condition,
as they share one thread. In `RunnableExecution` all of them share one (`Onward`):
attempts and cycles are bounded, so nobody goes on for ever, and it is enough
that somebody who can go on does.

## 4. Findings

`stale_sweep`: **the sweep can remove a published directory**
(`application/publication/materialization.go:154`). The retention set is older
than the listing it is compared with, although the type's comment makes
PostgreSQL the sole retention authority.

What else the models brought up has no run of its own; the modules follow the
code, and a property that is affected names the exception in its definition.

*Queue and execution*
* A client timeout becomes a content fault (`worker/runnable/runner.go:157`,
  `:190`, `adapter/internalapi/client.go:50`). The 30 s timeout of the hand-over of an
  infrastructure failure satisfies `context.DeadlineExceeded` and is stored as
  the artifact's failure ("That is the content's fault, not the world's").
* Exhausted actions never fail the workflow
  (`application/generation/runnable_coordinator.go:118`, `:142`). The coordinator schedules before it
  resolves, which resets a row that failed for infrastructure reasons
  (`runnable_repository.go:106`); the comments at `generation_repository.go:475` and
  `runnable_repository.go:27` promise an ending. The installer does the same.
* Rescheduling resets the attempt to 0, so a later cycle meets an earlier
  cycle's environment with what was executed in it (`worker/runnable/verifier.go:14`,
  `domain/runnable/action.go:90`). `VerdictIsTheRuns` speaks of one cycle.
* The build instance of a node image is named after the spec: a stalled worker
  and its successor share it, and what the successor publishes may lack the files
  the other one deleted. `strayed` remembers such a worker and is the exception
  in `AcceptedIsWhole`.
* The release of a verification environment is asked for once, by whoever ends
  its use, and not at every exit. A wait that ends without the environment
  (a failing read, the deadline) asks for none (`worker/runnable/verifier.go:80`); the request after
  an execution runs under the action's deadline and is refused without the
  lease; the Server's own release of what it made for a lost lease may fail and
  is then only logged (`transport/httpapi/runnable_internal.go:211`). Such an environment stays
  until its lifetime ends. `Excuse` lists the exits; `LostEnvironmentsAreMarked`
  excepts them.
* A step's timeout counts as infrastructure, the action's deadline as the
  artifact's fault. Nobody renews the lease of a verification environment.

*Publication and catalog*
* A lost race is retried for ever (`application/generation/publication_finalizer.go:132`): a revision
  conflict (`generation_repository.go:934`) and a unique key error
  (`scenario_repository.go:247`) count as transient, against
  `docs/architecture/workflows.md:30`. `PublicationEnds` is about publications that can succeed.
* A sweep can fail a sound publication: it removes the empty slug directory
  (`materialization.go:158`) between mkdir and rename
  (`content/scenario/materialize.go:87`, `:96`), and the `*os.LinkError` counts as deterministic.
* Authors can publish while the first release is being installed
  (`transport/httpapi/server.go:243`), although `docs/architecture/catalog-release.md:93` refuses
  it; every later installer pass then conflicts and the next start is refused.
* A sweep that listed before the commits were prepared can take one of their
  directories; the installer then waits for ever, or, once the release is
  ready, the next start is refused (`swept` in `BaselineIsIntact`, `ReleaseSettles`).
* An artifact failure ends the workflow in Failed (`runnable_coordinator.go:181`), while
  `docs/architecture/workflows.md:25` sends it back to Generating. A database error of
  `ResolveRunnableRevision` is classified as deterministic (`publication_finalizer.go:162`).

*Environments*
* `regressed`: a renewal that races the expiry can undo Draining, because a
  status patch is checked against the phase that was read and applied to the one
  that is stored (`controller/runtimeenvironment/reconciler.go:368`);
  `docs/architecture/runtime-environments.md:17` has no way back.
* When the Delete after the Released patch fails (`reconciler.go:319`), Released
  decides nothing more; a playground's name stays taken.
* `ErrProviderNotFound` is never returned by the Incus client, so the branches
  that take it for "released" are dead (`environment_provider.go:143`). Making them live
  would leak: two Reapers may overlap.
* Releasing an environment with content needs the profile revision it was built
  with; after an upgrade the teardown fails for as long as the new one is
  installed (`upgraded` in `ReleaseCompletes`).

*Workspaces and turns*
* The owner object's status is a subresource, so its creation drops the facts;
  an owner whose provisioning failed before `RecordWorkspaceOwnerStatus` is
  never reconciled (`RetiredRowsComplete` asks for facts).
* `reconcileOwner` does not update the stale object of a live row, and the
  sanitizer may delete the sandbox of an active workspace; `compensateOwner`
  erases the claim of another caller; `StartWorkspaceTurn` may seed from a
  snapshot older than the current one (`workspace.go:206`).
* `EnsureFresh` resets a workspace by the state it read before the wait
  (`application/generation/workspace.go:213`), on the ground that "Pending
  means no model can yet observe the workspace" (`workspace.go:210`). When two
  clients start turns at once, the other one may have activated and edited the
  workspace meanwhile, and `ActivateGeneratorWorkspace`
  (`generation_workspace_repository.go:172`) accepts a row that is already
  active, so the edits are lost, although "existing workspaces are
  intentionally untouched" (`workspace.go:95`). `NothingUnsavedIsRetired`
  therefore speaks of the edits since the last reset: it is about what the
  retirement takes, not about what such a reset has written over before.
* A start of a turn whose commit is not answered
  (`application/authoring/runtime_service.go:174`), or after which the session cannot be read
  back (`:195`), returns an error from `SendAuthoringMessage`
  (`transport/httpapi/authoring.go:99`) before `RunTurn` is called; a retry with the same key is told
  that nothing was created (`:103`) and starts nothing. The run stays running
  without a goroutine and the session stays busy until a restart's recovery closes
  it. The assistant has the same gap (`application/assistant/service.go:75`), where the deletion of
  its environment also closes the run. A failing read at the start of `RunTurn`
  (`runtime_service.go:206`, `assistant/service.go:110`) leaves the run in the same way.
  `NoAbandonedRun` and `TurnsEnd` name these points (`Left`).
* A plan saved during a turn makes its finalization refused and the run stays
  running until the next restart (`application/authoring/runtime_service.go:243`).
* `UpdateAuthoringStage` locks stage, then session; `TerminateAuthoringRun` run,
  session, stage: the database has to break the cycle.
* Recovery finds Judge runs through the workflows that name them
  (`generation_repository.go:314`), so the run of a workflow cancelled under review stays running.

*Learning*
* A terminal that opens between the two statements of `FinishTerminalUsageSession`
  (`environment_learning_repository.go:279`, READ COMMITTED) stays connected
  without a usage session.
* The controller deletes a Released object at once, so the projector may never
  see it, and a Failed environment has no ReadyAt: the attempt stays active
  (against `docs/product/learning-experience.md:38`). The outcome "reset" is never written.
* A crash between the first passes and the completion, followed by the drain,
  loses the completion; one failing evaluation ends the pass for all
  environments. `SolvedIsRecorded` asks that the environment stays ready.
* `cleanupFailedEnvironment` deletes by name (the exception in `DeletedWasMeant`);
  `adoptOrCreatePlayground` adopts a Released environment.

## 5. Proofs

All theorems are for every value of the constants that satisfies the named
assumptions: any finite or infinite set of actions, workers, workflows,
sessions, workspaces, callers, digests, entries, nodes or Reapers, any ceiling,
backoff, lease, lag of the informer, plan, bundle and number of faults. The assumptions say
that a null value is none of the things it stands for the absence of, that
bounds are numbers, and (of the lease) that `RenewEvery + RequestTimeout <=
LeaseTTL`, as the worker's configuration has it.

Each proof has the same shape: an inductive invariant of named conjuncts, which
TLC checked on the instances of section 3 before it was proved; lemmas about
what one kind of write does to a row; one lemma per action; and a theorem that
combines them. What an invariant adds to the property is nearly always one
thing: how much of what a goroutine read earlier still holds when it is used.

`RunnableActionsProofs`, from `ActionsAssumption` and `BoundsAssumption`:

* `TypeCorrect`: `Spec => []TypeOK`. `TypeOK` is inductive as it stands because
  it says of calls and loops what their handlers rely on (a completion carries
  a verdict, a failure a class). One lemma per row function, one per group
  of actions.
* `CeilingHolds`, `ResultsHold`: `AttemptCeiling` and `ResultsMatchRows` are
  inductive relative to `TypeOK`. Both look only at the table, so
  `NextIsTableStep` first reduces every action to one of five table steps
  (schedule, claim, accepted call, count-down, nothing).
* `QueueImplementsContract`: `Spec => ImplementsContract`, refinement of
  `ActionContract` under `StatusOf`. From the same table steps: each changes
  one row, and the status of that row by a contract step or not at all.
* `LeaseOutlivesTheAttempt`: `NoLossWithoutFault` for every lease, interval and
  timeout that `BoundsAssumption` allows. `HeldInv` says that while no fault was
  spent, the lease, the time since the last renewal and the time of the call
  under way add up to at least `LeaseTTL`, the ticker is not overdue, the call
  has not timed out, and no abandoned request is in flight. Two workers cannot
  be on one row, because each of them would own it.

The same module, about `RunnableExecution`, from `ExecutionAssumption`:

* `ReportsAreOfOneRun`, `NoEnvironmentIsForgotten`: `VerdictIsTheRuns` and
  `LostEnvironmentsAreMarked`, stalled and crashing workers and failing calls
  included. `RunInv`
  rests on what the environment's name does: it is made of the attempt, and of
  one cycle two claims never have the same attempt (`Claimed`, `FreshPart`,
  `OneEachPart`), so in one cycle only one run ever executes in an environment
  (`DonePart`). `DoneFits` says what a worker has executed at each of its places;
  `VerdictPart` that the run of a stored report has stopped executing;
  `CaredPart` that an environment that is not marked has someone who has it in
  hand, the request that made it or the worker it was given to, or was given up
  at one of the exits of `Excuse`.
* `ExecutionsAreSound`: all of `ExecutionInvariant`, with stalls at any point.
  `BuildInv` says that as long as nobody strayed, whatever is in the build
  project fits the one worker that owns the action, even past its lease
  (`SoundPart`), and what that worker may rely on at each request, whatever
  operation an earlier attempt left running at Incus (`Entitled`, `JobPart`). A step
  of any other worker either leaves the build project as it is or makes
  `strayed` true (`StrayFits`); at a registry, where blobs are content-addressed
  and nothing is shared, it does no harm.

`GenerationWorkflowProofs`, from `GenerationAssumption`:

* `GenerationTypeCorrect`: `TypeInv` adds that a workflow past its first
  submission, a Judge's goroutine and the coordinator's pass name a candidate.
* `EndedIsFinal`: `TerminalIsFinal` from the types alone, action by action:
  every writer compares state and version in its own transaction.
* `CandidateJudgedOnce`: `ClaimInv` (claims are numbered in order, a claim
  starts its run itself, and the version a claim read fences it to the candidate
  it was given, because every submission moves the version) and `SubmissionInv`
  (a key is submitted once; while its workflow is Judging, the candidate is not
  judged).
* `PublishedIsReviewed`: besides, `VerdictInv` says that the queue stores one
  verification report per candidate for good, which is what the contract of
  `ActionContract` gives the coordinator.

`ScenarioPublicationProofs`, from `PublicationAssumption`:

* `PublicationTypeCorrect`: the inductive invariant `TypeInv` adds to the types
  when a staging directory can be there at all: only between populate and
  rename of a live finalizer, or of a dead one until the recovery sweep has
  listed the volume.
* `UpdatesAreNotLost`: `NoLostUpdate` is not inductive. `UpdateInv` adds
  `Linked`: a revision has a row exactly when its workflow is published, the
  active pointer stays within its scenario, and a session starts from a
  published revision. The work is in the commit of a revision, where the base
  becomes superseded and gets its only heir.
* `RestartKeepsPublished`: without the periodic sweep, `PublishedIsOnDisk`
  always holds. `SweepInv` adds that sweep and finalizer never overlap, that what
  a sweep retains includes everything published, and that a finalizer at its
  commit has its directory on disk. With
  the periodic sweep the statement is false: that is the finding of section 4.
* `StartsAreClean`: with or without the periodic sweep, when the sweep of a
  start is over, every directory on the volume is published or is about to be,
  and no empty slug directory and no staging directory is left. `StartInv` adds,
  for a sweep of a start in which nothing failed so far, that each slug directory
  it has dealt with is `Clean` (not empty, and only retained revisions) and that
  the one at hand holds nothing it has not listed.

`CatalogReleaseProofs`, from `CatalogAssumption`:

* `OneIntactBaseline`: all of `BaselineInvariant`. `BaselineInv` is `OneLive`
  (one release is under way or ready), `PassFits` (what the installer's
  goroutine read when it chose its next step still holds, since it alone writes
  the release) and `EntriesFit` (how far each entry, its commit record, its rows
  and its directory are at each state of the release). Every action is first
  reduced to one of a few kinds of step of the whole system (`SystemStep`),
  from which the two invariants of the tables follow.

`RuntimeEnvironmentProofs`, from `EnvironmentAssumption`:

* `NothingOutlives`, `DrainingStands`, `ReadyAfterTheWipe`: all of
  `EnvironmentInvariant`, `OnlyARenewalUndoesDraining` and `ReadyIsPostWipe`
  from one inductive invariant. The Controller decides on a copy and writes
  patches that no resource version protects, so a decision has to be right for
  the copy, for every version under way and for the object. `Ordered` says how
  these follow each other (`Precedes`: what a later version keeps of an
  earlier one). The other parts say what a reconcile that is under way may rely
  on (`Reconciling`), that what the resources are built from lies between what
  was asked for and what is reported (`Built`), and that whoever reaches the
  reap queue is past every decision to build (`Tearing`, `Finalizing`); it
  matters that reconciles of one object do not overlap. Where a lost Draining
  (`regressed`) voids a part, the part says so.
* The lemmas about `Merge` give the conditions under which a status patch
  computed from the copy may be applied to the stored object (`MayStore`).

The same module, about `ProviderResources`, from `ProviderAssumption`:

* `ResourcesAreSound`: all of `ResourceInvariant`. `ResourceInv` has two halves.
  `WorldPart` is about the provider alone: the order in which the pieces of an
  environment come and go (`IncusPart`, `InstancePart`, `ClusterPart`), and that
  what runs is no older than the stamp of what it runs in. `CallsPart` says what
  each call may rely on at its next request, although Incus operations end,
  subnets are taken, containers start and a second Reaper deletes in between
  (`Entitled`, `AtNodes`, `AtJobs`, `AtCluster`). `ReadyPart` and `GonePart` are
  what a call that ends hands on, and the rest of a behaviour does not undo it.

`GeneratorWorkspaceProofs`, from `GeneratorAssumption`:

* `OneRestorableWorkspace`, `CompletedRowsLeaveNothing`: all of
  `WorkspaceInvariant`, and `DeletedMeansGone`. `WorkspaceInv` says what the
  memory of a request or loop is worth: a sandbox id that a row, an owner or a
  request remembers was created once, and ids are never handed out again, so a
  deleted sandbox stays deleted; an archive the snapshotter is about to publish
  is on disk, because the loop that publishes is the loop that removes.
* `IdleRetirementLosesNothing`: the action property `NothingUnsavedIsRetired`,
  for any number of clients, workspaces and sandboxes, and all the loops.
  `SavingInv` says that a sandbox is remembered for one workspace only
  (`OwnershipPart`), that turns and idle ages belong to active rows and exclude
  each other (`TurnPart`), and that the edits of an idle row are in what the
  pointer names and those of a row under the snapshotter's turn in what it is
  about to publish (`SavedPart`). A late reset by another client may come at any
  time; it leaves no edit in the sandbox, so the statement survives it. The
  proof uses the assumption that a client never names its turn like a snapshot
  holder.

`InteractiveRunsProofs`, from `RunsAssumption`:

* `OneAccountedOutcome`: all of `RunsInvariant`. `RunInv` relates the run table to
  requests, goroutines and recovery (a run that is still running is listed by
  the recovery or was created after it, and then somebody has it in hand or has
  left it), `LeftInv` says which ways of leaving a run each purpose has,
  `OutcomeInv` relates each ending to its message, and `CapacityInv` counts runs
  against messages and faults.
* `RevisionsKeepWork`: the action property `RevisionIsTheTurnsWork`. `StageInv`
  says that a stage is the plan it began with and the run's own edits, one per
  revision, and that the turn's private copy equals it or lacks only the last
  edit, whose answer was lost.

`LearningProjectionProofs`, from `LearningAssumption`:

* `WorkIsEarned`: all of `LearningInvariant`. `PassPart` says that before a pass
  looks for a completion, the first pass of everything it saw is on record
  under the UID it listed, and `LedgerPart` that this is never taken back;
  `SocketPart` that a terminal keeps the ticket it has spent, which no other
  terminal holds; `UsagePart` bounds the tracker's count by the terminals there
  are. That a nonempty set of checkpoints has a first one is from the library's
  well-foundedness of `<`.
* `OutcomesStand`, `DeletionsAreMeant`: `OutcomesAreFinal` and `DeletedWasMeant`,
  for which `RequestPart` adds that a request that writes has found a UID.

## 6. Limits

*Only model-checked:* liveness, which needs fairness and `ENABLED`, and the
recursive `RetryBackoff`. Where the code does not keep what a property says, the
property names the exception (section 4).

*Abstracted:* contents, digests and archives are model values; immutable
content-addressed blobs are stored before they are referred to and never
change, so nothing is said about them. The Judge's answer, a model's reply, an
execution's outcome and any failing call are nondeterministic. SQL isolation is
taken as given: a transaction is a step, except where the code's READ COMMITTED
transaction is two statements that others come between. Configuration is what
the defaults and the manifests say (one Server replica, strategy Recreate).
Reconciles of one object do not overlap. An environment's definition can always
be resolved and is valid.

*Not modelled*
* Registries, language models and the terminal proxy: pure I/O, of which the
  modules see results and failures.
* Content formats, digests and the compilation of specs: pure, sequential and
  covered by unit tests; a model would restate them.
* `application/assistant/lease.go` and the keep-alive of an open terminal: they
  renew every few seconds what lasts minutes; a missed pass only delays.
* `CloseTerminalWindow`, archiving, tags: single statements over one row.
  `ReplaceAuthoringPlan`: no caller outside the tests.
* An error of the environment creation itself
  (`transport/httpapi/runnable_internal.go:186`) after the object was made: it stays until its lifetime
  ends, which `RuntimeEnvironment` covers.
* The web interface, the MCP connector (a stateless client), metrics and audit
  (append-only or read-only), generated code and manifests.

## 7. Plan

What is left: an abstract environment (absent, in use, going, gone) that
`RuntimeEnvironment` implements, with `ProviderResources` as an implementation of
its provider steps.
