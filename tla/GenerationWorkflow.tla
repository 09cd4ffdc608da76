------------------------- MODULE GenerationWorkflow -------------------------
(***************************************************************************)
(* The life of a generation workflow: the author submits candidates, the   *)
(* Server's Judge reviews them under a lease, the RunnableCoordinator has  *)
(* them materialized and verified by the runnable action queue, and the    *)
(* author confirms what is published.                                      *)
(*                                                                         *)
(* A repository operation is one PostgreSQL transaction, hence one step.   *)
(* The Server is a single process (one replica, strategy Recreate): its    *)
(* Judge goroutines and its coordinator pass keep what they have read and  *)
(* are interleaved with everything else.  The queue below the coordinator  *)
(* is its contract, module ActionContract, which RunnableActions refines.  *)
(*                                                                         *)
(* A candidate is named by the idempotency key it was submitted under, so  *)
(* the number of keys bounds the number of repair rounds.  A candidate is  *)
(* materialized and verified at one state version each, so <<workflow,     *)
(* candidate, phase>> stands for the action key.                           *)
(***************************************************************************)
EXTENDS Integers, FiniteSets

CONSTANTS
  Workflows, Keys, NoKey,
  MaxClaims,         \* bound: Judge claims in a behaviour
  MaxAgentAttempts,  \* agent.MaxAttempts
  Workloads          \* the workflows and keys in use, and the bound on restarts, stalls and
                     \* broken calls

Claims == 1 .. MaxClaims
Phases == {"materialize", "verify"}
RunnableKeys == Workflows \X Keys \X Phases

ASSUME GenerationAssumption ==
  /\ NoKey \notin Keys \cup Workflows
  /\ MaxClaims \in Nat \ {0} /\ MaxAgentAttempts \in Nat \ {0}
  /\ Workloads \subseteq [workflows : SUBSET Workflows, keys : SUBSET Keys, faults : Nat]

VARIABLES
  load,      \* this behaviour's workload
  wf,        \* generation_workflows
  cand,      \* candidate_revisions
  receipts,  \* generation_action_receipts
  runs,      \* agent_runs; the n-th claim starts at most one run, number n
  judge,     \* the Judge goroutine of each claim
  status,    \* runnable_actions, as the contract shows them
  verdict,   \* the stored verification report of each candidate
  coord,     \* the coordinator's pass
  server,    \* "up", "down", or half way through recovery
  faults

durable == <<wf, cand, receipts, runs, status, verdict>>
vars == <<load, wf, cand, receipts, runs, judge, status, verdict, coord, server, faults>>

Queue == INSTANCE ActionContract WITH Actions <- RunnableKeys, status <- status

States == {"none", "Generating", "Judging", "MaterializingArtifact", "Verifying",
           "NeedsAuthorReview", "Publishing", "Published", "Failed", "Cancelled"}
Terminal == {"Published", "Failed", "Cancelled"}
Waiting == {"MaterializingArtifact", "Verifying"}

Workflow == [state : States, version : Nat, candidate : Keys \cup {NoKey},
             owner : Claims \cup {0}, live : BOOLEAN, run : Claims \cup {0}]
Candidate == [judged : {"none", "approved", "rejected"}, failed : BOOLEAN, runnable : BOOLEAN,
              report : {"none", "passed", "rejected"}, intent : BOOLEAN, published : BOOLEAN]
Run == [status : {"none", "running", "succeeded", "failed", "interrupted"},
        candidate : (Workflows \X Keys) \cup {NoKey}, attempt : 0 .. MaxAgentAttempts]
Judge == [pc : {"none", "claimed", "judging"}, w : Workflows \cup {NoKey}, version : Nat,
          candidate : Keys \cup {NoKey}]

NoCandidate == [judged |-> "none", failed |-> FALSE, runnable |-> FALSE, report |-> "none",
                intent |-> FALSE, published |-> FALSE]
NoJudge == [pc |-> "none", w |-> NoKey, version |-> 0, candidate |-> NoKey]
NoPass == [pc |-> "idle", todo |-> {}, w |-> NoKey, state |-> "none", candidate |-> NoKey]

Init ==
  /\ load \in Workloads
  /\ wf = [w \in Workflows |-> [state |-> "none", version |-> 0, candidate |-> NoKey,
                                owner |-> 0, live |-> FALSE, run |-> 0]]
  /\ cand = [w \in Workflows |-> [k \in Keys |-> NoCandidate]]
  /\ receipts = {}
  /\ runs = [n \in Claims |-> [status |-> "none", candidate |-> NoKey, attempt |-> 0]]
  /\ judge = [n \in Claims |-> NoJudge]
  /\ Queue!ContractInit
  /\ verdict = [w \in Workflows |-> [k \in Keys |-> "none"]]
  /\ coord = NoPass
  /\ server = "up"
  /\ faults = load.faults

Fault == faults > 0 /\ faults' = faults - 1

Up == server = "up" /\ UNCHANGED <<load, server>>

-----------------------------------------------------------------------------
(* Rows of generation_workflows.                                           *)

Moved(r, state) == [r EXCEPT !.state = state, !.version = r.version + 1]

(* Seeded fault: the Judge's lease outlives the state it belongs to.       *)
ReleasedRunOnly(r) == [r EXCEPT !.run = 0]

Released(r) == [r EXCEPT !.owner = 0, !.live = FALSE, !.run = 0]

Put(w, r) == wf' = [wf EXCEPT ![w] = r]

-----------------------------------------------------------------------------
(* The author's requests.                                                  *)

(* CreateGenerationWorkflow: one workflow per confirmed plan revision; a   *)
(* repeated confirmation finds it and changes nothing.                     *)
CreateGenerationWorkflow(w) ==
  /\ Up /\ w \in load.workflows /\ wf[w].state = "none"
  /\ Put(w, Moved(wf[w], "Generating"))
  /\ UNCHANGED <<cand, receipts, runs, judge, status, verdict, coord, faults>>

(* A key that has a receipt answers with the candidate it created before.  *)
(* Unused keys are alike, so one of them is picked.                        *)
Unused(w) == {k \in load.keys : <<"submit", w, k>> \notin receipts}

SubmitGenerationCandidate(w, k) ==
  /\ Up /\ Unused(w) # {} /\ k = CHOOSE j \in Unused(w) : TRUE
  /\ wf[w].state = "Generating"
  /\ Put(w, [Moved(wf[w], "Judging") EXCEPT !.candidate = k, !.run = 0])
  /\ cand' = [cand EXCEPT ![w][k] = NoCandidate]
  /\ receipts' = receipts \cup {<<"submit", w, k>>}
  /\ UNCHANGED <<runs, judge, status, verdict, coord, faults>>

ConfirmGenerationContent(w, k) ==
  /\ Up /\ <<"confirm", w, k>> \notin receipts
  /\ wf[w].state = "NeedsAuthorReview" /\ wf[w].candidate = k
  /\ cand[w][k].runnable /\ cand[w][k].report = "passed"
  /\ cand' = [cand EXCEPT ![w][k].intent = TRUE]
  /\ Put(w, Moved(wf[w], "Publishing"))
  /\ receipts' = receipts \cup {<<"confirm", w, k>>}
  /\ UNCHANGED <<runs, judge, status, verdict, coord, faults>>

RequestGenerationContentChanges(w, k) ==
  /\ Up /\ <<"changes", w, k>> \notin receipts
  /\ wf[w].state = "NeedsAuthorReview" /\ wf[w].candidate = k
  /\ Put(w, Moved(wf[w], "Generating"))
  /\ receipts' = receipts \cup {<<"changes", w, k>>}
  /\ UNCHANGED <<cand, runs, judge, status, verdict, coord, faults>>

CancelGenerationWorkflow(w) ==
  /\ Up /\ wf[w].state \notin Terminal \cup {"none"}
  /\ Put(w, Moved(Released(wf[w]), "Cancelled"))
  /\ UNCHANGED <<cand, receipts, runs, judge, status, verdict, coord, faults>>

-----------------------------------------------------------------------------
(* The Judge: AgentRunner and its lease.                                   *)

(* Seeded fault: an expired lease is never taken over.                     *)
ClaimableNeverClaimed(w) == wf[w].state = "Judging" /\ wf[w].owner = 0

Claimable(w) == wf[w].state = "Judging" /\ (wf[w].owner = 0 \/ ~wf[w].live)

ClaimGenerationAgentWorkflow(w, n) ==
  /\ Up /\ Claimable(w)
  /\ n = 1 + Cardinality({m \in Claims : judge[m].w # NoKey})
  /\ Put(w, [wf[w] EXCEPT !.owner = n, !.live = TRUE])
  /\ judge' = [judge EXCEPT ![n] = [pc |-> "claimed", w |-> w, version |-> wf[w].version,
                                    candidate |-> wf[w].candidate]]
  /\ UNCHANGED <<cand, receipts, runs, status, verdict, coord, faults>>

(* Seeded fault: any live lease on a workflow under review will do.        *)
FencedByState(n) == wf[judge[n].w].state = "Judging" /\ wf[judge[n].w].live

(* lockGenerationAgentClaimTx: state, version, owner and expiry.           *)
Fenced(n) ==
  LET r == wf[judge[n].w]
  IN r.state = "Judging" /\ r.version = judge[n].version /\ r.owner = n /\ r.live

(* What a verdict or a retry must hold besides the fence.                  *)
Active(n) == Fenced(n) /\ wf[judge[n].w].run = n

Ends(n) == judge' = [judge EXCEPT ![n].pc = "none"]

StartGenerationAgentRun(n) ==
  LET w == judge[n].w
      old == wf[w].run
  IN /\ Up /\ judge[n].pc = "claimed"
     /\ Fenced(n)
     /\ runs' = [m \in Claims |->
          CASE m = n -> [status |-> "running", candidate |-> <<w, judge[n].candidate>>, attempt |-> 1]
            [] m # n /\ m = old /\ runs[m].status = "running" -> [runs[m] EXCEPT !.status = "interrupted"]
            [] OTHER -> runs[m]]
     /\ Put(w, [wf[w] EXCEPT !.run = n])
     /\ judge' = [judge EXCEPT ![n].pc = "judging"]
     /\ UNCHANGED <<cand, receipts, status, verdict, coord, faults>>

FinalizeGenerationJudgement(n, approved) ==
  LET w == judge[n].w
      k == wf[w].candidate
  IN /\ Up /\ judge[n].pc = "judging"
     /\ Active(n) /\ runs[n].status = "running"
     /\ runs' = [runs EXCEPT ![n].status = "succeeded"]
     /\ cand' = [cand EXCEPT ![w][k] =
          [@ EXCEPT !.judged = IF approved THEN "approved" ELSE "rejected", !.failed = ~approved]]
     /\ Put(w, Moved(Released(wf[w]), IF approved THEN "MaterializingArtifact" ELSE "Generating"))
     /\ Ends(n)
     /\ UNCHANGED <<receipts, status, verdict, coord, faults>>

(* The archive of the candidate cannot be inspected.                       *)
ReportGenerationArtifactFailure(n) ==
  LET w == judge[n].w
  IN /\ Up /\ judge[n].pc = "judging"
     /\ Fenced(n)
     /\ cand' = [cand EXCEPT ![w][wf[w].candidate].failed = TRUE]
     /\ Put(w, Moved(Released(wf[w]), "Generating"))
     /\ Ends(n)
     /\ UNCHANGED <<receipts, runs, status, verdict, coord, faults>>

(* The Judge failed: another attempt, or the end of run and workflow when  *)
(* the attempts are used up or the run's deadline has passed.              *)
RetryGenerationAgentRun(n) ==
  LET w == judge[n].w
  IN /\ Up /\ judge[n].pc = "judging"
     /\ Active(n) /\ runs[n].status = "running"
     /\ \/ /\ runs[n].attempt < MaxAgentAttempts
           /\ runs' = [runs EXCEPT ![n].attempt = @ + 1]
           /\ UNCHANGED <<wf, judge>>
        \/ /\ runs' = [runs EXCEPT ![n].status = "failed"]
           /\ Put(w, Moved(Released(wf[w]), "Failed"))
           /\ Ends(n)
     /\ UNCHANGED <<cand, receipts, status, verdict, coord, faults>>

(* A refused renewal or fenced call ends the goroutine; a broken database  *)
(* call does as well, and leaves the lease to run out.                     *)
LoseJudge(n) ==
  /\ Up /\ judge[n].pc # "none"
  /\ \/ ~Fenced(n) /\ UNCHANGED faults
     \/ Fenced(n) /\ Fault
  /\ Ends(n)
  /\ UNCHANGED <<durable, coord>>

(* Renewals stop with their goroutine; a stall lets a lease run out too.   *)
LeaseExpires(w) ==
  /\ wf[w].owner # 0 /\ wf[w].live
  /\ \/ judge[wf[w].owner].pc = "none" /\ UNCHANGED faults
     \/ judge[wf[w].owner].pc # "none" /\ Fault
  /\ Put(w, [wf[w] EXCEPT !.live = FALSE])
  /\ UNCHANGED <<load, cand, receipts, runs, judge, status, verdict, coord, server>>

-----------------------------------------------------------------------------
(* The runnable action queue: its contract, and the reports it stores.     *)

PhaseOf(state) == IF state = "Verifying" THEN "verify" ELSE "materialize"

ActionSettles(a) ==
  /\ \/ /\ \E s \in {"artifact-failed", "infra-failed"} : Queue!Settle(a, s)
        /\ UNCHANGED verdict
     \/ /\ a[3] = "materialize" /\ Queue!Settle(a, "completed")
        /\ UNCHANGED verdict
     \/ /\ a[3] = "verify" /\ Queue!Settle(a, "completed")
        /\ \E v \in {"passed", "rejected"} : verdict' = [verdict EXCEPT ![a[1]][a[2]] = v]
  /\ UNCHANGED <<load, wf, cand, receipts, runs, judge, coord, server, faults>>

-----------------------------------------------------------------------------
(* One pass of RunnableCoordinator.RunOnce over the listed workflows.      *)

(* ListRunnableGenerationCandidates.                                       *)
Listed == {w \in Workflows : wf[w].state \in Waiting}

Rest == [NoPass EXCEPT !.pc = IF coord.todo = {} THEN "idle" ELSE "next", !.todo = coord.todo]

StartPass ==
  /\ Up /\ coord.pc = "idle"
  /\ Listed # {}
  /\ coord' = [NoPass EXCEPT !.pc = "next", !.todo = {<<w, wf[w].state>> : w \in Listed}]
  /\ UNCHANGED <<durable, judge, faults>>

(* CandidateForWorkflow is read afresh; the state is the listed one.       *)
ScheduleAction(s) ==
  LET k == wf[s[1]].candidate
      a == <<s[1], k, PhaseOf(s[2])>>
  IN /\ Up /\ coord.pc = "next" /\ s \in coord.todo
     /\ coord' = [pc |-> "resolving", todo |-> coord.todo \ {s}, w |-> s[1], state |-> s[2],
                  candidate |-> k]
     /\ \/ Queue!Schedule(a)
        \/ status[a] \notin {"none", "infra-failed"} /\ UNCHANGED status
     /\ UNCHANGED <<wf, cand, receipts, runs, judge, verdict, faults>>

(* ResolveMaterializedRunnableRevision / ResolveVerificationForAction.     *)
ResolveAction ==
  LET s == status[<<coord.w, coord.candidate, PhaseOf(coord.state)>>]
  IN /\ Up /\ coord.pc = "resolving"
     /\ \/ s = "pending" /\ coord' = Rest
        \/ s \in {"artifact-failed", "infra-failed"} /\ coord' = [coord EXCEPT !.pc = "failing"]
        \/ s = "completed" /\ coord' = [coord EXCEPT !.pc = "marking"]
     /\ UNCHANGED <<durable, judge, faults>>

(* MarkGenerationCandidateMaterialized; an error ends the whole pass.      *)
MarkMaterialized ==
  /\ Up /\ coord.pc = "marking" /\ coord.state = "MaterializingArtifact"
  /\ LET w == coord.w
         k == wf[w].candidate
         ok == wf[w].state = "MaterializingArtifact" /\ k = coord.candidate
     IN \/ /\ ok
           /\ cand' = [cand EXCEPT ![w][k].runnable = TRUE]
           /\ Put(w, Moved(wf[w], "Verifying"))
           /\ coord' = Rest
        \/ ~ok /\ coord' = NoPass /\ UNCHANGED <<wf, cand>>
  /\ UNCHANGED <<receipts, runs, judge, status, verdict, faults>>

(* Seeded fault: a rejecting report is taken for a passing one.            *)
VerifiedStateAlways(report) == IF report = "none" THEN "Generating" ELSE "NeedsAuthorReview"

VerifiedState(report) == IF report = "passed" THEN "NeedsAuthorReview" ELSE "Generating"

Reported(c, report) == [c EXCEPT !.report = report, !.failed = @ \/ report # "passed"]

(* MarkGenerationCandidateVerified.                                        *)
MarkVerified ==
  /\ Up /\ coord.pc = "marking" /\ coord.state = "Verifying"
  /\ LET w == coord.w
         k == wf[w].candidate
         report == verdict[w][coord.candidate]
         ok == wf[w].state = "Verifying" /\ k = coord.candidate /\ cand[w][k].runnable
     IN \/ /\ ok
           /\ cand' = [cand EXCEPT ![w][k] = Reported(@, report)]
           /\ Put(w, Moved(wf[w], VerifiedState(report)))
           /\ coord' = Rest
        \/ ~ok /\ coord' = NoPass /\ UNCHANGED <<wf, cand>>
  /\ UNCHANGED <<receipts, runs, judge, status, verdict, faults>>

(* Seeded fault: the failure is written whatever became of the workflow.   *)
FailableAlways(r) == r.version > 0

(* Seeded fault: the failure exit knows one of the two waiting states.     *)
FailableMaterializing(r) == r.state = "MaterializingArtifact"

Failable(r) == r.state \in Waiting

(* failWorkflowForAction: FailRunnableGenerationWorkflow, fenced by state. *)
FailRunnableGenerationWorkflow ==
  /\ Up /\ coord.pc = "failing"
  /\ \/ /\ Failable(wf[coord.w])
        /\ Put(coord.w, Moved(wf[coord.w], "Failed"))
        /\ coord' = Rest
     \/ ~Failable(wf[coord.w]) /\ coord' = NoPass /\ UNCHANGED wf
  /\ UNCHANGED <<cand, receipts, runs, judge, status, verdict, faults>>

(* Any other error (an unreadable archive, the database) ends the pass.    *)
AbortPass ==
  /\ Up /\ coord.pc # "idle" /\ Fault
  /\ coord' = NoPass
  /\ UNCHANGED <<durable, judge>>

-----------------------------------------------------------------------------
(* The publication finalizer's two transactions; module                    *)
(* ScenarioPublication has its detail.                                     *)

FinalizeGenerationScenarioPublication(w) ==
  LET k == wf[w].candidate
  IN /\ Up /\ wf[w].state = "Publishing"
     /\ cand[w][k].intent /\ ~cand[w][k].published
     /\ cand[w][k].runnable /\ cand[w][k].report # "none"
     /\ cand' = [cand EXCEPT ![w][k].published = TRUE]
     /\ Put(w, Moved(wf[w], "Published"))
     /\ UNCHANGED <<receipts, runs, judge, status, verdict, coord, faults>>

(* A deterministic diagnostic; the version is left as it was.              *)
RecordGenerationPublicationFinalizerFailure(w) ==
  /\ Up /\ wf[w].state = "Publishing"
  /\ Put(w, [wf[w] EXCEPT !.state = "Failed"])
  /\ UNCHANGED <<cand, receipts, runs, judge, status, verdict, coord, faults>>

-----------------------------------------------------------------------------
(* Restart.  Recovery runs before anything is claimed or served.           *)

Crash ==
  /\ server # "down" /\ Fault
  /\ server' = "down"
  /\ judge' = [n \in Claims |-> [judge[n] EXCEPT !.pc = "none"]]
  /\ coord' = NoPass
  /\ UNCHANGED <<load, durable>>

(* InterruptActiveGenerationAgentRuns, first and second statement.         *)
InterruptRuns ==
  /\ server = "down" /\ server' = "interrupted"
  /\ runs' = [n \in Claims |->
       IF runs[n].status = "running" /\ \E w \in Workflows : wf[w].state = "Judging" /\ wf[w].run = n
         THEN [runs[n] EXCEPT !.status = "interrupted"] ELSE runs[n]]
  /\ UNCHANGED <<load, wf, cand, receipts, judge, status, verdict, coord, faults>>

ClearLeases ==
  /\ server = "interrupted" /\ server' = "up"
  /\ wf' = [w \in Workflows |-> IF wf[w].state = "Judging" THEN Released(wf[w]) ELSE wf[w]]
  /\ UNCHANGED <<load, cand, receipts, runs, judge, status, verdict, coord, faults>>

-----------------------------------------------------------------------------
Author(w) ==
  \/ CreateGenerationWorkflow(w) \/ CancelGenerationWorkflow(w)
  \/ \E k \in Keys : \/ SubmitGenerationCandidate(w, k)
                     \/ ConfirmGenerationContent(w, k)
                     \/ RequestGenerationContentChanges(w, k)

JudgeStep(n) ==
  \/ StartGenerationAgentRun(n)
  \/ \E approved \in BOOLEAN : FinalizeGenerationJudgement(n, approved)
  \/ ReportGenerationArtifactFailure(n)
  \/ RetryGenerationAgentRun(n)

Pass ==
  \/ StartPass
  \/ \E s \in Workflows \X Waiting : ScheduleAction(s)
  \/ ResolveAction \/ MarkMaterialized \/ MarkVerified \/ FailRunnableGenerationWorkflow

Finalizer(w) ==
  FinalizeGenerationScenarioPublication(w) \/ RecordGenerationPublicationFinalizerFailure(w)

Recovery == InterruptRuns \/ ClearLeases

Next ==
  \/ \E w \in Workflows : Author(w) \/ LeaseExpires(w) \/ Finalizer(w)
  \/ \E w \in Workflows, n \in Claims : ClaimGenerationAgentWorkflow(w, n)
  \/ \E n \in Claims : JudgeStep(n) \/ LoseJudge(n)
  \/ \E a \in RunnableKeys : ActionSettles(a)
  \/ Pass \/ AbortPass
  \/ Crash \/ Recovery

(* The Server polls and ticks for ever, a Judge call returns before its    *)
(* deadline, a lease runs out, and the queue settles what is pending       *)
(* (EveryActionSettles).  The author owes nothing.                         *)
Fairness ==
  /\ WF_vars(Pass) /\ WF_vars(Recovery)
  /\ \A w \in Workflows : WF_vars(LeaseExpires(w))
  /\ \A w \in Workflows : WF_vars(\E n \in Claims : ClaimGenerationAgentWorkflow(w, n))
  /\ \A n \in Claims : WF_vars(JudgeStep(n))
  /\ \A a \in RunnableKeys : WF_vars(ActionSettles(a))

Spec == Init /\ [][Next]_vars
FairSpec == Spec /\ Fairness

-----------------------------------------------------------------------------
(* Types; and what every transition out of Judging must see to: the Judge  *)
(* lease and the active run are on the row only in that state.             *)
GenerationTypeOK ==
  /\ wf \in [Workflows -> Workflow]
  /\ cand \in [Workflows -> [Keys -> Candidate]]
  /\ runs \in [Claims -> Run] /\ judge \in [Claims -> Judge]
  /\ Queue!ContractTypeOK
  /\ server \in {"up", "down", "interrupted"} /\ faults \in 0 .. load.faults
  /\ \A w \in Workflows :
       /\ wf[w].state # "Judging" => wf[w].owner = 0 /\ wf[w].run = 0
       /\ wf[w].owner = 0 => ~wf[w].live

(* A verdict on a candidate comes from exactly one Judge run that finished *)
(* and that was shown this very candidate, whatever leases ran out and     *)
(* whichever goroutines of earlier claims are still at work                *)
(* (FinalizeGenerationJudgement, lockGenerationAgentClaimTx).              *)
JudgedOnce ==
  \A w \in Workflows, k \in Keys :
    Cardinality({n \in Claims : runs[n].status = "succeeded" /\ runs[n].candidate = <<w, k>>})
      = IF cand[w][k].judged = "none" THEN 0 ELSE 1

(* Nothing reaches the author's review, and nothing is published, that the *)
(* Judge did not approve or whose own revision did not pass verification;  *)
(* and only the candidate the author confirmed is published.               *)
ReviewedBeforePublished ==
  \A w \in Workflows :
    /\ wf[w].state \in {"NeedsAuthorReview", "Publishing", "Published"} =>
         LET k == wf[w].candidate
         IN /\ cand[w][k].judged = "approved" /\ cand[w][k].report = "passed"
            /\ verdict[w][k] = "passed"
    /\ \A k \in Keys : cand[w][k].published =>
         wf[w].state = "Published" /\ wf[w].candidate = k /\ <<"confirm", w, k>> \in receipts

(* Terminal states are final: no goroutine or coordinator pass that read   *)
(* the workflow before it ended writes to it afterwards.                   *)
TerminalIsFinal ==
  [][\A w \in Workflows : wf[w].state \in Terminal => wf'[w] = wf[w]]_vars

(* A candidate does not stay with the Judge: crashes, stalls, lost leases  *)
(* and failing Judge calls only delay the verdict or end the workflow.     *)
JudgingEnds == \A w \in Workflows : wf[w].state = "Judging" ~> wf[w].state # "Judging"

(* What the queue concluded for good reaches the workflow that waits.      *)
Concluded(w) ==
  /\ wf[w].state \in Waiting
  /\ status[<<w, wf[w].candidate, PhaseOf(wf[w].state)>>] \in {"completed", "artifact-failed"}
ConclusionsArrive == \A w \in Workflows : Concluded(w) ~> ~Concluded(w)
=============================================================================
