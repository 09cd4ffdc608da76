---------------------------- MODULE InteractiveRuns ----------------------------
(***************************************************************************)
(* Direct, Server-owned agent turns.  One agent session, of the authoring  *)
(* or of the assistant purpose, with its messages and runs; the turn that  *)
(* drives each run lives in the Server process and is lost when it stops.  *)
(*                                                                         *)
(* Runs are numbered in creation order.  A plan is whether its metadata    *)
(* are complete and the set of edits it contains, an edit being the run,   *)
(* the stage revision and the kind of tool call that made it.  A database  *)
(* call may fail, or commit and lose its answer; both draw on the budget.  *)
(***************************************************************************)
EXTENDS Naturals, Sequences, FiniteSets

CONSTANTS
    Keys,          \* idempotency keys of author messages and of plan saves
    MaxAttempts,   \* attempts of one assistant run
    MaxRuns,       \* bound: messages, each of which starts a run; recovery adds more
    MaxEdits,      \* bound: stage revisions of one run
    MaxFaults      \* bound: failed or unanswered calls, lost models, stops

ASSUME RunsAssumption ==
    /\ MaxAttempts \in Nat \ {0}
    /\ MaxRuns \in Nat \ {0}
    /\ MaxEdits \in Nat
    /\ MaxFaults \in Nat

VARIABLES
    session,   \* purpose, state and current plan revision
    plans,     \* authoring_revisions: plans[n + 1] is revision n
    run,       \* agent_runs: session rows in creation order
    stage,     \* authoring_stages, by run
    messages,  \* agent_messages, in sequence
    receipts,  \* what each idempotency key is bound to
    turn,      \* what the Server's goroutine for each run holds
    server,    \* the process: state and the recovery's list
    env,       \* the learning environment of an assistant session
    faults

vars == <<session, plans, run, stage, messages, receipts, turn, server, env, faults>>
authoring == <<session, plans, stage, receipts>>
process == <<turn, server>>

Ids == 1..(MaxRuns + MaxFaults)
Created == 1..Len(run)
Running == {r \in Created : run[r].status = "running"}
Kinds == {"metadata", "overview"}

EmptyPlan == [complete |-> FALSE, edits |-> {}]
NoStage == [exists |-> FALSE, base |-> 0, rev |-> 0, plan |-> EmptyPlan, changes |-> {}]
NoTurn == [pc |-> "none", rev |-> 0, plan |-> EmptyPlan, attempt |-> 0, outcome |-> "none"]

Init ==
    /\ session = [purpose |-> "none", state |-> "none", current |-> 0]
    /\ plans = <<EmptyPlan>>
    /\ run = <<>>
    /\ stage = [r \in Ids |-> NoStage]
    /\ messages = <<>>
    /\ receipts = [k \in Keys |-> 0]
    /\ turn = [r \in Ids |-> NoTurn]
    /\ server = [state |-> "ready", todo |-> {}]
    /\ env = "ready"
    /\ faults = 0

Goto(r, pc) == turn' = [turn EXCEPT ![r].pc = pc]

\* A request or a goroutine has the run in hand, or it has left it as it is: its
\* start was not answered, its reply was refused, or a call it needs has failed.
Driving == {"accepted", "start", "model", "finalize", "terminate", "retry"}
Left == {"undriven", "refused", "gaveup"}

\* The three ways a database call can come back.
Answers == {"ok", "lost", "failed"}
Answered(a) ==
    /\ a = "ok" \/ faults < MaxFaults
    /\ faults' = IF a = "ok" THEN faults ELSE faults + 1

(***************************************************************************)
(* The repositories: what one committed transaction changes.               *)
(***************************************************************************)
AllowsAgentPlanStage == session.state \in {"DraftConversation", "IntentReview"}

InsertAgentMessage(role, r) == messages' = Append(messages, [role |-> role, run |-> r])

Told(role, r) == \E i \in 1..Len(messages) : messages[i] = [role |-> role, run |-> r]

CreateRun(base) == [status |-> "running", attempt |-> 1, late |-> FALSE, base |-> base]

EnsureNoActiveSessionRun == Running = {}

UserMessages == {i \in 1..Len(messages) : messages[i].role = "user"}

Settle(r, status) == run' = [run EXCEPT ![r].status = status]

\* Idempotent by key; a second request with the key changes nothing.
StartAuthoringRun(k) ==
    LET r == Len(run) + 1
    IN  /\ receipts[k] = 0
        /\ AllowsAgentPlanStage
        /\ EnsureNoActiveSessionRun
        /\ Cardinality(UserMessages) < MaxRuns
        /\ run' = Append(run, CreateRun(session.current))
        /\ stage' = [stage EXCEPT ![r] = [exists |-> TRUE, base |-> session.current, rev |-> session.current,
                                          plan |-> plans[session.current + 1], changes |-> {}]]
        /\ receipts' = [receipts EXCEPT ![k] = r]
        /\ InsertAgentMessage("user", r)

Edited(plan, edit) ==
    [complete |-> plan.complete \/ edit[3] = "metadata", edits |-> plan.edits \cup {edit}]

Restaged(s, plan, edit) ==
    [s EXCEPT !.rev = s.rev + 1, !.changes = s.changes \cup {edit}, !.plan = Edited(plan, edit)]

\* A recorded operation is replayed; otherwise the caller's revision must be current.
UpdateAuthoringStage(r, rev, kind) ==
    LET edit == <<r, rev, kind>>
    IN  /\ stage[r].exists /\ run[r].status = "running"
        /\ \/ edit \in stage[r].changes /\ UNCHANGED stage
           \/ /\ edit \notin stage[r].changes /\ stage[r].rev = rev
              /\ stage' = [stage EXCEPT ![r] = Restaged(@, turn[r].plan, edit)]

\* Seeded fault: a plan saved since the turn began is not noticed.
FinalizeOverNewer(r) ==
    /\ run[r].status = "running" /\ stage[r].exists /\ AllowsAgentPlanStage
    /\ stage[r].changes # {} => stage[r].plan.complete

CanFinalize(r) ==
    /\ run[r].status = "running" /\ stage[r].exists
    /\ session.current = stage[r].base /\ AllowsAgentPlanStage
    /\ stage[r].changes # {} => stage[r].plan.complete

\* A completed run whose reply is recorded answers a retry without a change.
ReplayCompletedAuthoringRun(r) == run[r].status = "succeeded" /\ Told("assistant", r)

\* The reply, the run's success, the new revision and the end of the stage.
FinalizeAuthoringRun(r) ==
    \/ /\ ReplayCompletedAuthoringRun(r)
       /\ UNCHANGED <<session, plans, run, stage, messages>>
    \/ /\ CanFinalize(r)
       /\ IF stage[r].changes # {}
          THEN /\ plans' = Append(plans, stage[r].plan)
               /\ session' = [session EXCEPT !.current = Len(plans), !.state = "IntentReview"]
          ELSE UNCHANGED <<plans, session>>
       /\ InsertAgentMessage("assistant", r)
       /\ Settle(r, "succeeded")
       /\ stage' = [stage EXCEPT ![r] = NoStage]

\* Seeded fault: a termination does not look at how the run already ended.
TerminateBlindly(r, status) ==
    /\ Settle(r, status)
    /\ stage' = [stage EXCEPT ![r] = NoStage]
    /\ InsertAgentMessage("event", r)

\* The run ends, its stage goes and one event tells the author; a retry after a
\* lost answer finds the same ending and the event already there.
TerminateAuthoringRun(r, status) ==
    /\ run[r].status \in {"running", status}
    /\ Settle(r, status)
    /\ stage' = [stage EXCEPT ![r] = NoStage]
    /\ IF Told("event", r) THEN UNCHANGED messages ELSE InsertAgentMessage("event", r)

\* A client's complete plan becomes the next revision; the state is not checked.
SaveGenerationPlan(k) ==
    /\ receipts[k] = 0
    /\ plans' = Append(plans, [complete |-> TRUE, edits |-> {<<k>>}])
    /\ session' = [session EXCEPT !.current = Len(plans), !.state = "IntentReview"]
    /\ receipts' = [receipts EXCEPT ![k] = Cardinality(Ids) + Len(plans)]

CreateMessageAndRun ==
    /\ EnsureNoActiveSessionRun
    /\ Cardinality(UserMessages) < MaxRuns
    /\ run' = Append(run, CreateRun(0))
    /\ InsertAgentMessage("user", Len(run) + 1)

CompleteRunWithMessage(r) ==
    /\ run[r].status = "running"
    /\ InsertAgentMessage("assistant", r)
    /\ Settle(r, "succeeded")

\* Seeded fault: neither the attempts nor the deadline bound the retries.
RetryForever(r, attempt) ==
    /\ run[r].status = "running"
    /\ run' = run

\* Another attempt of the same run, or its failure once attempts or time are used up.
RetryRun(r, attempt) ==
    /\ run[r].status = "running" /\ run[r].attempt = attempt
    /\ run' = IF attempt < MaxAttempts /\ ~run[r].late
              THEN [run EXCEPT ![r].attempt = attempt + 1] ELSE [run EXCEPT ![r].status = "failed"]

\* The old run is interrupted and its replacement created in one transaction.
RestartRun(r) ==
    /\ run[r].status = "running"
    /\ run' = Append([run EXCEPT ![r].status = "interrupted"], CreateRun(0))

CancelRunsForOwner ==
    run' = [r \in Created |-> IF run[r].status = "running" THEN [run[r] EXCEPT !.status = "cancelled"] ELSE run[r]]

(***************************************************************************)
(* Sessions.                                                               *)
(***************************************************************************)
NewSession(purpose, plan) ==
    /\ session.purpose = "none"
    /\ session' = [purpose |-> purpose, current |-> 0,
                   state |-> IF purpose = "authoring" THEN "DraftConversation" ELSE "active"]
    /\ plans' = <<plan>>
    /\ UNCHANGED <<run, stage, messages, receipts, process, env, faults>>

CreateAuthoringSession == NewSession("authoring", EmptyPlan)

\* A revision of a published scenario starts from the plan that produced it.
CreateScenarioRevisionSession == NewSession("authoring", [complete |-> TRUE, edits |-> {}])

FindOrCreateSession == NewSession("assistant", EmptyPlan)

\* A client of the generator saves a plan; a retry with its key changes nothing.
SavePlan(k) ==
    /\ session.purpose = "authoring" /\ server.state = "ready"
    /\ SaveGenerationPlan(k)
    /\ UNCHANGED <<run, stage, messages, process, env, faults>>

\* The publication finalizer closes the session that produced the scenario.
PublishSession ==
    /\ session.purpose = "authoring" /\ session.state = "IntentReview"
    /\ session' = [session EXCEPT !.state = "Published"]
    /\ UNCHANGED <<plans, run, stage, messages, receipts, process, env, faults>>

(***************************************************************************)
(* An authoring turn.                                                      *)
(***************************************************************************)
\* SendAuthoringMessage: the run is created in one commit.  When its answer is
\* lost the request ends, and a retry with the key is told of a run that is
\* there already and starts nothing.
StartTurn(k) ==
    /\ session.purpose = "authoring" /\ server.state = "ready"
    /\ StartAuthoringRun(k)
    /\ \E a \in {"ok", "lost"} :
         /\ Answered(a)
         /\ turn' = [turn EXCEPT ![Len(run) + 1].pc = IF a = "ok" THEN "accepted" ELSE "undriven"]
    /\ UNCHANGED <<session, plans, server, env>>

\* The session is read back under the request before RunTurn is called.
BeginTurn(r) ==
    /\ session.purpose = "authoring" /\ turn[r].pc = "accepted"
    /\ \E a \in {"ok", "failed"} : Answered(a) /\ Goto(r, IF a = "ok" THEN "start" ELSE "undriven")
    /\ UNCHANGED <<authoring, run, messages, server, env>>

\* RunTurn reads the run, the stage and a history that must end with the author.
LoadTurn(r) ==
    /\ session.purpose = "authoring" /\ turn[r].pc = "start"
    /\ \/ /\ Answered("ok")
          /\ turn' = IF /\ run[r].status = "running" /\ stage[r].exists
                        /\ messages[Len(messages)].role = "user"
                     THEN [turn EXCEPT ![r] = [NoTurn EXCEPT !.pc = "model", !.rev = stage[r].rev,
                                                             !.plan = stage[r].plan, !.attempt = 1]]
                     ELSE [turn EXCEPT ![r].pc = "done"]
       \/ Answered("failed") /\ Goto(r, "gaveup")
    /\ UNCHANGED <<authoring, run, messages, server, env>>

\* A plan tool: the private copy follows only an answer that arrived.
ApplyTool(r, kind) ==
    /\ session.purpose = "authoring" /\ turn[r].pc = "model"
    /\ turn[r].rev - run[r].base < MaxEdits
    /\ \E a \in Answers :
         /\ Answered(a)
         /\ IF a = "failed" THEN UNCHANGED stage ELSE UpdateAuthoringStage(r, turn[r].rev, kind)
         /\ turn' = IF a # "ok" THEN turn
                    ELSE [turn EXCEPT ![r].rev = @ + 1, ![r].plan = Edited(@, <<r, turn[r].rev, kind>>)]
    /\ UNCHANGED <<session, plans, run, messages, receipts, server, env>>

\* The model answers, fails for good, or runs into the deadline or the shutdown.
ModelEnds(r) ==
    /\ session.purpose = "authoring" /\ turn[r].pc = "model"
    /\ \E outcome \in {"reply", "failed", "interrupted"} :
         /\ outcome = "interrupted" => run[r].late
         /\ turn' = [turn EXCEPT ![r].pc = IF outcome = "reply" THEN "finalize" ELSE "terminate",
                                 ![r].outcome = outcome]
    /\ UNCHANGED <<authoring, run, messages, server, env, faults>>

\* Finalization is retried until it is answered or refused, or time runs out.
FinalizeRun(r) ==
    /\ session.purpose = "authoring" /\ turn[r].pc = "finalize"
    /\ \E a \in Answers :
         /\ Answered(a)
         /\ \/ /\ a # "failed" /\ FinalizeAuthoringRun(r)
               /\ Goto(r, IF a = "ok" THEN "done" ELSE "finalize")
            \/ /\ a # "failed" /\ ~CanFinalize(r) /\ ~ReplayCompletedAuthoringRun(r)
               /\ Goto(r, IF a = "ok" THEN "refused" ELSE "finalize")
               /\ UNCHANGED <<session, plans, run, stage, messages>>
            \/ /\ a = "failed" /\ \E pc \in {"finalize", "gaveup"} : Goto(r, pc)
               /\ UNCHANGED <<session, plans, run, stage, messages>>
    /\ UNCHANGED <<receipts, server, env>>

TerminateRun(r) ==
    LET status == IF turn[r].outcome = "failed" THEN "failed" ELSE "interrupted"
    IN  /\ session.purpose = "authoring" /\ turn[r].pc = "terminate"
        /\ \E a \in Answers :
             /\ Answered(a)
             /\ \/ /\ a # "failed" /\ TerminateAuthoringRun(r, status)
                   /\ Goto(r, IF a = "ok" THEN "done" ELSE "terminate")
                \/ /\ a = "failed" /\ \E pc \in {"terminate", "gaveup"} : Goto(r, pc)
                   /\ UNCHANGED <<run, stage, messages>>
        /\ UNCHANGED <<session, plans, receipts, server, env>>

(***************************************************************************)
(* An assistant turn.                                                      *)
(***************************************************************************)
\* The environment must be ready; the message and the run are one transaction,
\* and without its answer nothing is executed.
StartAssistantTurn ==
    /\ session.purpose = "assistant" /\ server.state = "ready" /\ env = "ready"
    /\ CreateMessageAndRun
    /\ \E a \in {"ok", "lost"} :
         /\ Answered(a)
         /\ turn' = [turn EXCEPT ![Len(run) + 1].pc = IF a = "ok" THEN "start" ELSE "undriven"]
    /\ UNCHANGED <<authoring, server, env>>

\* RunTurn refuses a run that is no longer running.
LoadAssistantTurn(r) ==
    /\ session.purpose = "assistant" /\ turn[r].pc = "start"
    /\ \/ /\ Answered("ok")
          /\ turn' = IF run[r].status = "running"
                     THEN [turn EXCEPT ![r].pc = "model", ![r].attempt = run[r].attempt]
                     ELSE [turn EXCEPT ![r].pc = "done"]
       \/ Answered("failed") /\ Goto(r, "gaveup")
    /\ UNCHANGED <<authoring, run, messages, server, env>>

\* Each attempt first reads the conversation; a failure of that is not retried.
ReadHistoryFails(r) ==
    /\ session.purpose = "assistant" /\ turn[r].pc = "model"
    /\ Answered("failed")
    /\ Goto(r, "gaveup")
    /\ UNCHANGED <<authoring, run, messages, server, env>>

\* A reply is stored under the attempt's deadline; any error goes to the retry.
AssistantReply(r) ==
    /\ session.purpose = "assistant" /\ turn[r].pc = "model"
    /\ \E a \in Answers :
         /\ Answered(a)
         /\ \/ /\ a # "failed" /\ ~run[r].late /\ CompleteRunWithMessage(r)
               /\ Goto(r, IF a = "ok" THEN "done" ELSE "retry")
            \/ /\ a = "failed" \/ run[r].late \/ run[r].status # "running"
               /\ Goto(r, "retry") /\ UNCHANGED <<run, messages>>
    /\ UNCHANGED <<authoring, server, env>>

\* The model itself fails, as it does once the deadline has passed.
AssistantError(r) ==
    /\ session.purpose = "assistant" /\ turn[r].pc = "model"
    /\ Goto(r, "retry")
    /\ UNCHANGED <<authoring, run, messages, server, env, faults>>

\* A refused or unanswered retry ends the turn and leaves the run as it is.
AssistantRetry(r) ==
    /\ session.purpose = "assistant" /\ turn[r].pc = "retry"
    /\ \E a \in Answers :
         /\ Answered(a)
         /\ \/ /\ a # "failed" /\ RetryRun(r, turn[r].attempt)
               /\ turn' = IF a = "ok" /\ run'[r].status = "running"
                          THEN [turn EXCEPT ![r].pc = "model", ![r].attempt = run'[r].attempt]
                          ELSE [turn EXCEPT ![r].pc = IF run'[r].status = "running" THEN "gaveup" ELSE "done"]
            \/ /\ a = "failed" \/ run[r].status # "running"
               /\ Goto(r, IF a = "failed" THEN "gaveup" ELSE "done") /\ UNCHANGED run
    /\ UNCHANGED <<authoring, messages, server, env>>

\* A reset or a stop of the environment first cancels the assistant's runs.
DeleteEnvironment ==
    /\ session.purpose = "assistant" /\ env = "ready" /\ server.state = "ready"
    /\ CancelRunsForOwner
    /\ env' = "gone"
    /\ UNCHANGED <<authoring, messages, process, faults>>

\* The Controller may also tear an idle environment down on its own.
EnvironmentExpires ==
    /\ session.purpose = "assistant" /\ env = "ready"
    /\ env' = "gone"
    /\ UNCHANGED <<authoring, run, messages, process, faults>>

(***************************************************************************)
(* The process: deadlines, stops and the recovery before readiness.        *)
(***************************************************************************)
DeadlinePasses(r) ==
    /\ r \in Running /\ ~run[r].late
    /\ run' = [run EXCEPT ![r].late = TRUE]
    /\ UNCHANGED <<authoring, messages, process, env, faults>>

ServerStops ==
    /\ faults < MaxFaults
    /\ faults' = faults + 1
    /\ turn' = [r \in Ids |-> NoTurn]
    /\ server' = [state |-> "recovering", todo |-> Running]
    /\ UNCHANGED <<authoring, run, messages, env>>

Recovered(r) == server' = [server EXCEPT !.todo = @ \ {r}]

\* Authoring gets no replacement: the run is closed with an event.
RecoverAuthoring(r) ==
    /\ server.state = "recovering" /\ r \in server.todo
    /\ session.purpose = "authoring"
    /\ TerminateAuthoringRun(r, "interrupted")
    /\ Recovered(r)
    /\ UNCHANGED <<session, plans, receipts, turn, env, faults>>

\* With its environment ready the run is replaced, without it the run is closed.
RecoverAssistant(r) ==
    /\ server.state = "recovering" /\ r \in server.todo
    /\ session.purpose = "assistant"
    /\ IF env = "ready"
       THEN RestartRun(r) /\ turn' = [turn EXCEPT ![Len(run) + 1].pc = "pending"]
       ELSE Settle(r, "interrupted") /\ UNCHANGED turn
    /\ Recovered(r)
    /\ UNCHANGED <<authoring, messages, env, faults>>

\* Readiness follows the whole recovery; the replacements then run.
BecomeReady ==
    /\ server.state = "recovering" /\ server.todo = {}
    /\ server' = [server EXCEPT !.state = "ready"]
    /\ turn' = [r \in Ids |-> IF turn[r].pc = "pending" THEN [NoTurn EXCEPT !.pc = "start"] ELSE turn[r]]
    /\ UNCHANGED <<authoring, run, messages, env, faults>>

TurnStep(r) ==
    \/ BeginTurn(r) \/ LoadTurn(r) \/ (\E kind \in Kinds : ApplyTool(r, kind)) \/ ModelEnds(r) \/ FinalizeRun(r) \/ TerminateRun(r)
    \/ LoadAssistantTurn(r) \/ ReadHistoryFails(r) \/ AssistantReply(r) \/ AssistantError(r) \/ AssistantRetry(r)

Recovery == BecomeReady \/ \E r \in Ids : RecoverAuthoring(r) \/ RecoverAssistant(r)

Next ==
    \/ CreateAuthoringSession \/ CreateScenarioRevisionSession \/ FindOrCreateSession
    \/ \E k \in Keys : SavePlan(k) \/ StartTurn(k)
    \/ PublishSession
    \/ StartAssistantTurn
    \/ DeleteEnvironment
    \/ EnvironmentExpires
    \/ \E r \in Ids : TurnStep(r) \/ DeadlinePasses(r)
    \/ ServerStops
    \/ Recovery

Spec == Init /\ [][Next]_vars

\* A goroutine runs, a recovery proceeds, and a model call ends: its request has
\* a timeout.  Authors, clients and stops owe nothing.
FairSpec ==
    /\ Spec
    /\ WF_vars(Recovery)
    /\ \A r \in Ids : WF_vars(TurnStep(r)) /\ WF_vars(ModelEnds(r))

-----------------------------------------------------------------------------
\* Type correctness, with what the session lock promises: one running run.
RunsTypeOK ==
    /\ session.current \in 0..(Len(plans) - 1)
    /\ \A r \in Created : run[r] \in [status : {"running", "succeeded", "failed", "interrupted", "cancelled"},
                                      attempt : 1..MaxAttempts, late : BOOLEAN, base : Nat]
    /\ \A r \in Ids : /\ turn[r].pc \in {"none", "pending", "done"} \cup Driving \cup Left
                      /\ stage[r].exists => r \in Running
    /\ server.todo \subseteq Created
    /\ faults \in 0..MaxFaults
    /\ Cardinality(Running) <= 1

\* A turn has one outcome: a reply exactly when its run succeeded, else at most
\* one event and never both, across retried finalizations and terminations whose
\* answer was lost, late retries of the assistant, cancellations and recoveries.
OneOutcomePerTurn ==
    \A r \in Created :
        LET told(role) == {i \in 1..Len(messages) : messages[i] = [role |-> role, run |-> r]}
        IN  /\ Cardinality(told("assistant")) = IF run[r].status = "succeeded" THEN 1 ELSE 0
            /\ Cardinality(told("event")) =
                 IF session.purpose = "authoring" /\ run[r].status \in {"failed", "interrupted"} THEN 1 ELSE 0

\* A revision made by a turn is the revision that was current when it committed
\* plus edits of that turn alone, and it keeps every edit the tools reported:
\* neither a plan saved meanwhile nor an acknowledged tool call is overwritten.
RevisionIsTheTurnsWork ==
    [][\A r \in Created :
         (run[r].status = "running" /\ run'[r].status = "succeeded" /\ session.purpose = "authoring")
            => LET before == plans[session.current + 1].edits
                   after == plans'[session'.current + 1].edits
               IN  /\ before \subseteq after
                   /\ turn[r].plan.edits \subseteq after
                   /\ \A e \in after \ before : e[1] = r]_vars

\* On a ready Server nothing is silently dropped: every running run is in the
\* hands of a request or a goroutine of this process, or one of this process left
\* it for a reason the code has: the answer of its start was lost, its reply was
\* refused, a call failed for good.  A goroutine that returns for any other reason
\* has settled its run, and recovery leaves no run of an earlier process behind.
NoAbandonedRun ==
    server.state = "ready" => \A r \in Running : turn[r].pc \in Driving \cup Left

\* Every turn ends: its run settles, or is left for one of those reasons.  A run
\* that was left keeps the session busy until the Server restarts; a stop takes
\* the reason away, so the recovery must then close it.  The assistant's retries
\* are bounded by attempts and by the deadline.
TurnsEnd ==
    \A r \in Ids : r \in Running ~> (r \notin Running \/ turn[r].pc \in Left)

\* One run at a time, one outcome of each, and none dropped without a reason.
RunsInvariant == RunsTypeOK /\ OneOutcomePerTurn /\ NoAbandonedRun
=============================================================================
