-------------------------- MODULE RunnableActions --------------------------
(***************************************************************************)
(* The durable queue of runnable actions (table runnable_actions, owned by *)
(* the Server) and the Runtime Workers that poll it over HTTP.             *)
(*                                                                         *)
(* A Server operation is one PostgreSQL transaction, hence one step.  A    *)
(* worker's call is answered in the same step, or the worker gives up on   *)
(* it: the request then stays in `inflight' and the Server may handle it   *)
(* at any later moment, or never.                                          *)
(*                                                                         *)
(* Time is kept as countdowns.  `lease' is lease_expires_at - now and      *)
(* `wait' is next_run_at - now, both floored at zero, so the comparisons   *)
(* of the SQL fences (lease_expires_at > now, next_run_at <= now) are      *)
(* lease > 0 and wait = 0.                                                 *)
(***************************************************************************)
EXTENDS Integers

CONSTANTS
  Materializations,   \* keys of the materialize-artifact actions
  Verifications,      \* keys of the verify actions
  MaterializationOf,  \* the action that produces the revision a verification checks
  Workers,            \* worker identities (POD_NAME: a restarted container keeps it)
  NoWorker, NoAction,
  MaxAttempts,        \* runnableActionMaxAttempts
  Backoff,            \* delay after the n-th failed attempt (module RetryBackoff)
  LeaseTTL,           \* RunnerConfig.LeaseTTL
  RenewEvery,         \* the renewal interval, a third of the lease
  RequestTimeout,     \* timeout of the internal HTTP client
  MaxFaults           \* bound: faults (crash, stall, abandoned call) in a behaviour

Actions == Materializations \cup Verifications

ASSUME ActionsAssumption ==
  /\ Materializations \cap Verifications = {}
  /\ MaterializationOf \in [Verifications -> Materializations]
  /\ NoAction \notin Actions
  /\ NoWorker \notin Workers
ASSUME BoundsAssumption ==
  /\ MaxAttempts \in Nat \ {0}
  /\ Backoff \in [1 .. MaxAttempts -> Nat]
  /\ LeaseTTL \in Nat /\ RenewEvery \in Nat \ {0} /\ RequestTimeout \in Nat \ {0}
  /\ RenewEvery + RequestTimeout <= LeaseTTL
  /\ MaxFaults \in Nat

VARIABLES
  row,        \* the runnable_actions table
  revisions,  \* materializations whose runnable revision is stored
  reports,    \* the stored verification report of each verification
  worker,     \* the polling loop of each worker
  inflight,   \* requests a worker gave up on that may still reach the Server
  faults      \* faults that may still happen

vars == <<row, revisions, reports, worker, inflight, faults>>

States == {"none", "queued", "running", "completed", "failed"}
Classes == {"none", "artifact", "infrastructure"}
Codes == {"none", "reported", "deadline-exceeded", "attempts-exhausted"}
(* What the execution really came to, whatever class is reported for it.   *)
Causes == {"none", "passed", "rejected", "artifact", "infrastructure", "deadline"}

Row == [state : States, attempt : Nat, owner : Workers \cup {NoWorker},
        lease : Nat, wait : Nat, class : Classes, code : Codes, cause : Causes]
Report == [attempt : Nat, verdict : {"none", "passed", "rejected"}]
Worker == [pc : {"idle", "executing", "completing", "handing-over", "reporting"},
           action : Actions \cup {NoAction}, attempt : Nat, class : Classes,
           code : Codes, cause : Causes, age : Nat, call : Nat]
Request == [op : {"claim", "renew", "complete", "failure"}, worker : Workers,
            action : Actions \cup {NoAction}, attempt : Nat, class : Classes,
            code : Codes, cause : Causes]

NoRow == [state |-> "none", attempt |-> 0, owner |-> NoWorker, lease |-> 0,
          wait |-> 0, class |-> "none", code |-> "none", cause |-> "none"]
Idle == [pc |-> "idle", action |-> NoAction, attempt |-> 0, class |-> "none",
         code |-> "none", cause |-> "none", age |-> 0, call |-> 0]

Init ==
  /\ row = [a \in Actions |-> NoRow]
  /\ revisions = {}
  /\ reports = [v \in Verifications |-> [attempt |-> 0, verdict |-> "none"]]
  /\ worker = [w \in Workers |-> Idle]
  /\ inflight = {}
  /\ faults = MaxFaults

-----------------------------------------------------------------------------
(* The Server's transactions, as functions from a row to a row.            *)

(* Seeded fault: the clause forgets the failure class.                     *)
ReschedulableAnyFailure(r) == r.state \in {"none", "failed"}

(* The reschedule clause of both Schedule operations: a new key, or a key  *)
(* whose last failure was the world's fault, starts a fresh attempt cycle. *)
Reschedulable(r) ==
  \/ r.state = "none"
  \/ r.state = "failed" /\ r.class = "infrastructure"

(* Seeded fault: the scan only looks at queued rows.                       *)
ClaimableOnlyQueued(r) == r.state = "queued" /\ r.wait = 0

(* ClaimRunnableAction's scan: due, or left behind by an expired lease.    *)
Claimable(r) ==
  \/ r.state = "queued" /\ r.wait = 0
  \/ r.state = "running" /\ r.lease = 0

ClaimedRow(r, w) ==
  [r EXCEPT !.state = "running", !.attempt = r.attempt + 1,
            !.owner = w, !.lease = LeaseTTL]

RenewedRow(r) == [r EXCEPT !.lease = LeaseTTL]

(* Seeded fault: completing leaves the owner and the lease behind.         *)
CompletedRowKeepingLease(r) == [r EXCEPT !.state = "completed"]

CompletedRow(r) ==
  [r EXCEPT !.state = "completed", !.owner = NoWorker, !.lease = 0]

(* Seeded fault: off by one at the ceiling.                                *)
FailedRowOneMoreAttempt(r, class, code, cause) ==
  LET retry == class = "infrastructure" /\ r.attempt <= MaxAttempts
  IN [r EXCEPT !.owner = NoWorker, !.lease = 0, !.class = class, !.cause = cause,
               !.state = IF retry THEN "queued" ELSE "failed",
               !.wait = IF retry THEN Backoff[r.attempt] ELSE 0,
               !.code = IF class = "infrastructure" THEN "attempts-exhausted" ELSE code]

(* ReportRunnableActionFailure: only an infrastructure failure below the   *)
(* ceiling is queued again, after its backoff.                             *)
FailedRow(r, class, code, cause) ==
  LET released == [r EXCEPT !.owner = NoWorker, !.lease = 0,
                            !.class = class, !.cause = cause]
      retry == class = "infrastructure" /\ r.attempt < MaxAttempts
      exhausted == class = "infrastructure" /\ r.attempt >= MaxAttempts
  IN [released EXCEPT !.state = IF retry THEN "queued" ELSE "failed",
                      !.wait = IF retry THEN Backoff[r.attempt] ELSE 0,
                      !.code = IF exhausted THEN "attempts-exhausted" ELSE code]

(* The fence every lease-bound statement carries: state, owner, expiry.    *)
Live(m) ==
  /\ m.action \in Actions
  /\ row[m.action].state = "running"
  /\ row[m.action].owner = m.worker
  /\ row[m.action].lease > 0

(* Seeded fault: the completion is fenced by the owner alone.              *)
MatchesAnyAttempt(m) == m.attempt >= 0

(* CompleteRunnableVerification also compares the attempt.                 *)
Matches(m) ==
  (m.op = "complete" /\ m.action \in Verifications)
     => row[m.action].attempt = m.attempt

Accepted(m) == Live(m) /\ Matches(m)

StoreRenewal(m) ==
  /\ row' = [row EXCEPT ![m.action] = RenewedRow(@)]
  /\ UNCHANGED <<revisions, reports>>

StoreFailure(m) ==
  /\ row' = [row EXCEPT ![m.action] = FailedRow(@, m.class, m.code, m.cause)]
  /\ UNCHANGED <<revisions, reports>>

StoreMaterialization(m) ==
  /\ row' = [row EXCEPT ![m.action] = CompletedRow(@)]
  /\ revisions' = revisions \cup {m.action}
  /\ UNCHANGED reports

StoreVerification(m) ==
  /\ row' = [row EXCEPT ![m.action] = CompletedRow(@)]
  /\ reports' = [reports EXCEPT ![m.action] =
                   IF @.verdict = "none"
                     THEN [attempt |-> m.attempt, verdict |-> m.cause]
                     ELSE @]
  /\ UNCHANGED revisions

(* An accepted request, dispatched to its handler.                         *)
Store(m) ==
  \/ m.op = "renew" /\ StoreRenewal(m)
  \/ m.op = "failure" /\ StoreFailure(m)
  \/ m.op = "complete" /\ m.action \in Materializations /\ StoreMaterialization(m)
  \/ m.op = "complete" /\ m.action \in Verifications /\ StoreVerification(m)

StoreClaim(a, w) ==
  /\ Claimable(row[a])
  /\ row' = [row EXCEPT ![a] = ClaimedRow(@, w)]
  /\ UNCHANGED <<revisions, reports>>

Untouched == UNCHANGED <<row, revisions, reports>>

-----------------------------------------------------------------------------
(* The coordinators schedule.                                              *)

ScheduleMaterialization(a) ==
  /\ a \in Materializations
  /\ Reschedulable(row[a])
  /\ row' = [row EXCEPT ![a] = [NoRow EXCEPT !.state = "queued"]]
  /\ UNCHANGED <<revisions, reports, worker, inflight, faults>>

ScheduleVerification(a) ==
  /\ a \in Verifications
  /\ MaterializationOf[a] \in revisions
  /\ Reschedulable(row[a])
  /\ row' = [row EXCEPT ![a] = [NoRow EXCEPT !.state = "queued"]]
  /\ UNCHANGED <<revisions, reports, worker, inflight, faults>>

-----------------------------------------------------------------------------
(* The worker's loop.                                                      *)

RequestOf(w, op) ==
  [op |-> op, worker |-> w, action |-> worker[w].action,
   attempt |-> worker[w].attempt, class |-> worker[w].class,
   code |-> worker[w].code, cause |-> worker[w].cause]

(* The call the worker is in the middle of, if any.                        *)
Pending(w) ==
  CASE worker[w].pc = "completing" -> {RequestOf(w, "complete")}
    [] worker[w].pc \in {"handing-over", "reporting"} -> {RequestOf(w, "failure")}
    [] OTHER -> {}

Becomes(w, state) == worker' = [worker EXCEPT ![w] = state]

Fault == faults > 0 /\ faults' = faults - 1

(* ProcessOne: claim, then start executing with the renewal ticker at 0.   *)
Claim(w) ==
  /\ worker[w].pc = "idle"
  /\ \E a \in Actions :
       /\ StoreClaim(a, w)
       /\ Becomes(w, [Idle EXCEPT !.pc = "executing", !.action = a,
                                  !.attempt = row[a].attempt + 1])
  /\ UNCHANGED <<inflight, faults>>

(* The claim call fails at the worker; the Server may still grant it.      *)
AbandonClaim(w) ==
  /\ worker[w].pc = "idle"
  /\ Fault
  /\ inflight' = inflight \cup {RequestOf(w, "claim")}
  /\ Untouched /\ UNCHANGED worker

(* Seeded fault: the renewal stops before the result is handed in.         *)
RenewingOnlyWhileExecuting(w) == worker[w].pc = "executing"

(* The renewal goroutine runs beside execute, not beside the final report. *)
Renewing(w) == worker[w].pc \in {"executing", "completing", "handing-over"}

RenewalDue(w) == Renewing(w) /\ worker[w].age >= RenewEvery

(* A refused renewal marks the lease lost and cancels the execution; a     *)
(* call that was under way may still arrive.                               *)
Renew(w) ==
  /\ RenewalDue(w)
  /\ LET m == RequestOf(w, "renew")
     IN \/ /\ Accepted(m) /\ Store(m)
           /\ Becomes(w, [worker[w] EXCEPT !.age = 0])
           /\ UNCHANGED inflight
        \/ /\ ~Accepted(m) /\ Untouched
           /\ Becomes(w, Idle)
           /\ inflight' = inflight \cup Pending(w)
  /\ UNCHANGED faults

AbandonRenewal(w) ==
  /\ RenewalDue(w)
  /\ Fault
  /\ Becomes(w, Idle)
  /\ inflight' = inflight \cup {RequestOf(w, "renew")} \cup Pending(w)
  /\ Untouched

(* Materialize or Verify returned something to store: a revision, or a     *)
(* report whose assertions decide passed or rejected.  A verification      *)
(* report with an artifact failure is stored as a rejection as well.       *)
Produce(w) ==
  /\ worker[w].pc = "executing"
  /\ \E verdict \in {"passed", "rejected"} :
       /\ worker[w].action \in Materializations => verdict = "passed"
       /\ Becomes(w, [worker[w] EXCEPT !.pc = "completing", !.cause = verdict])
  /\ Untouched /\ UNCHANGED <<inflight, faults>>

(* Materialize or Verify returned an error, classified by reportFailure.   *)
FailToExecute(w) ==
  /\ worker[w].pc = "executing"
  /\ \E cause \in {"artifact", "infrastructure", "deadline"} :
       Becomes(w, [worker[w] EXCEPT
         !.pc = "reporting", !.cause = cause,
         !.class = IF cause = "infrastructure" THEN "infrastructure" ELSE "artifact",
         !.code = IF cause = "deadline" THEN "deadline-exceeded" ELSE "reported"])
  /\ Untouched /\ UNCHANGED <<inflight, faults>>

(* Verify returned a report with an infrastructure failure: execute hands  *)
(* it over itself, with the renewal still running.                         *)
FailInEnvironment(w) ==
  /\ worker[w].pc = "executing"
  /\ worker[w].action \in Verifications
  /\ Becomes(w, [worker[w] EXCEPT !.pc = "handing-over", !.cause = "infrastructure",
                                  !.class = "infrastructure", !.code = "reported"])
  /\ Untouched /\ UNCHANGED <<inflight, faults>>

(* The completion call: stored, refused by the lease fence, or refused for *)
(* another reason, which the worker reports as an infrastructure failure.  *)
Complete(w) ==
  /\ worker[w].pc = "completing"
  /\ LET m == RequestOf(w, "complete")
     IN \/ Accepted(m) /\ Store(m) /\ Becomes(w, Idle)
        \/ ~Live(m) /\ Untouched /\ Becomes(w, Idle)
        \/ /\ Live(m) /\ ~Matches(m) /\ Untouched
           /\ Becomes(w, [worker[w] EXCEPT !.pc = "reporting", !.cause = "infrastructure",
                            !.class = "infrastructure", !.code = "reported"])
  /\ UNCHANGED <<inflight, faults>>

(* The completion call breaks, or the action's own deadline ends it.       *)
AbandonCompletion(w) ==
  /\ worker[w].pc = "completing"
  /\ Fault
  /\ inflight' = inflight \cup Pending(w)
  /\ \/ Becomes(w, [worker[w] EXCEPT !.pc = "reporting", !.cause = "infrastructure",
                      !.class = "infrastructure", !.code = "reported"])
     \/ Becomes(w, [worker[w] EXCEPT !.pc = "reporting", !.cause = "deadline",
                      !.class = "artifact", !.code = "deadline-exceeded"])
  /\ Untouched

HandOver(w) ==
  /\ worker[w].pc = "handing-over"
  /\ LET m == RequestOf(w, "failure")
     IN \/ Accepted(m) /\ Store(m)
        \/ ~Accepted(m) /\ Untouched
  /\ Becomes(w, Idle)
  /\ UNCHANGED <<inflight, faults>>

(* The hand-over call breaks.  Its error is classified like an execution   *)
(* error: a broken connection is infrastructure, but the HTTP client's own *)
(* timeout is a context.DeadlineExceeded, which is an artifact failure.    *)
AbandonHandOver(w) ==
  /\ worker[w].pc = "handing-over"
  /\ Fault
  /\ inflight' = inflight \cup Pending(w)
  /\ \/ Becomes(w, [worker[w] EXCEPT !.pc = "reporting"])
     \/ Becomes(w, [worker[w] EXCEPT !.pc = "reporting", !.class = "artifact",
                                     !.code = "deadline-exceeded"])
  /\ Untouched

(* process: the last call of an attempt; whatever it answers, the loop     *)
(* goes on to claim again.                                                 *)
ReportFailure(w) ==
  /\ worker[w].pc = "reporting"
  /\ LET m == RequestOf(w, "failure")
     IN \/ Accepted(m) /\ Store(m)
        \/ ~Accepted(m) /\ Untouched
  /\ Becomes(w, Idle)
  /\ UNCHANGED <<inflight, faults>>

AbandonReport(w) ==
  /\ worker[w].pc = "reporting"
  /\ Fault
  /\ inflight' = inflight \cup Pending(w)
  /\ Becomes(w, Idle)
  /\ Untouched

(* The process dies; its identity comes back with an empty loop.           *)
Crash(w) ==
  /\ worker[w].pc # "idle"
  /\ Fault
  /\ inflight' = inflight \cup Pending(w)
  /\ Becomes(w, Idle)
  /\ Untouched

-----------------------------------------------------------------------------
(* The network and the clock.                                              *)

DeliverLate(m) ==
  /\ inflight' = inflight \ {m}
  /\ \/ m.op = "claim" /\ \E a \in Actions : StoreClaim(a, m.worker)
     \/ m.op = "claim" /\ (\A a \in Actions : ~Claimable(row[a])) /\ Untouched
     \/ m.op # "claim" /\ Accepted(m) /\ Store(m)
     \/ m.op # "claim" /\ ~Accepted(m) /\ Untouched
  /\ UNCHANGED <<worker, faults>>

Down(n) == IF n > 0 THEN n - 1 ELSE 0

Up(n, limit) == IF n < limit THEN n + 1 ELSE n

TimePasses ==
  /\ row' = [a \in Actions |-> [row[a] EXCEPT !.lease = Down(@), !.wait = Down(@)]]
  /\ worker' = [w \in Workers |->
       [worker[w] EXCEPT
          !.age = IF Renewing(w) THEN Up(@, RenewEvery) ELSE @,
          !.call = IF worker[w].pc = "reporting" THEN Up(@, RequestTimeout) ELSE @]]
  /\ UNCHANGED <<revisions, reports, inflight>>

(* Time passes as long as nobody is late: a due renewal happens within its *)
(* tick and a report is answered within the client's timeout.              *)
Tick ==
  /\ \A w \in Workers : ~RenewalDue(w)
  /\ \A w \in Workers : worker[w].pc = "reporting" => worker[w].call + 1 < RequestTimeout
  /\ TimePasses
  /\ UNCHANGED faults

(* A stalled worker or a slow Server: time passes regardless.              *)
Stall ==
  /\ \E w \in Workers : worker[w].pc # "idle"
  /\ Fault
  /\ TimePasses

Next ==
  \/ \E a \in Actions : ScheduleMaterialization(a) \/ ScheduleVerification(a)
  \/ \E w \in Workers :
       \/ Claim(w) \/ AbandonClaim(w)
       \/ Renew(w) \/ AbandonRenewal(w)
       \/ Produce(w) \/ FailToExecute(w) \/ FailInEnvironment(w)
       \/ Complete(w) \/ AbandonCompletion(w)
       \/ HandOver(w) \/ AbandonHandOver(w)
       \/ ReportFailure(w) \/ AbandonReport(w)
       \/ Crash(w)
  \/ \E m \in inflight : DeliverLate(m)
  \/ Tick \/ Stall

(* A worker polls for ever, renews when its ticker fires and finishes each *)
(* execution (every action has an approved deadline); time never stops.    *)
Finish(w) == Produce(w) \/ FailToExecute(w) \/ FailInEnvironment(w)

Answer(w) == Complete(w) \/ HandOver(w) \/ ReportFailure(w)

Fairness ==
  /\ WF_vars(Tick)
  /\ \A w \in Workers :
       WF_vars(Claim(w)) /\ WF_vars(Renew(w)) /\ WF_vars(Finish(w)) /\ WF_vars(Answer(w))

Spec == Init /\ [][Next]_vars
FairSpec == Spec /\ Fairness

-----------------------------------------------------------------------------
(* A row is well formed when it has an owner exactly while it is running,  *)
(* a lease only then, and was claimed at least once to get there.          *)
RowOK(r) ==
  /\ r.owner # NoWorker <=> r.state = "running"
  /\ r.state # "running" => r.lease = 0
  /\ r.state = "running" => r.attempt >= 1

(* A call carries what its handler stores: a completion a verdict, a       *)
(* failure report a class.                                                 *)
RequestOK(m) ==
  /\ m \in Request
  /\ m.op # "claim" => m.action \in Actions
  /\ m.op = "complete" => m.cause \in {"passed", "rejected"}
  /\ m.op = "failure" => m.class # "none"

LoopOK(l) ==
  /\ l.pc # "idle" => l.action \in Actions
  /\ l.pc = "completing" => l.cause \in {"passed", "rejected"}
  /\ l.pc \in {"handing-over", "reporting"} => l.class # "none"

TableOK ==
  /\ row \in [Actions -> Row] /\ \A a \in Actions : RowOK(row[a])
  /\ revisions \subseteq Materializations
  /\ reports \in [Verifications -> Report]

LoopsOK ==
  /\ worker \in [Workers -> Worker] /\ \A w \in Workers : LoopOK(worker[w])
  /\ \A m \in inflight : RequestOK(m)
  /\ faults \in 0 .. MaxFaults

(* Types of the table, the worker loops and the abandoned requests; an     *)
(* owner and a lease are on a row exactly while it runs, which every       *)
(* transaction that ends an attempt must see to.                           *)
TypeOK == TableOK /\ LoopsOK

(* Bounded patience (runnableActionMaxAttempts): a row that waits to run   *)
(* has attempts left, and an infrastructure failure is final only when all *)
(* of them were used - even when claims by crashed workers, which report   *)
(* nothing, have pushed the attempt number past the ceiling.               *)
AttemptCeiling ==
  \A a \in Actions :
    /\ row[a].state = "queued" => row[a].attempt < MaxAttempts
    /\ row[a].state = "failed" /\ row[a].class = "infrastructure"
         => row[a].attempt >= MaxAttempts

(* Results and rows agree (ResolveMaterializedRunnableRevision joins the   *)
(* revision, ResolveVerificationForAction reads the report by identity and *)
(* never looks at the row's state): a result exists exactly when its row   *)
(* is completed, and a report carries the attempt the row ended on, no     *)
(* matter which late or abandoned completion stored it.                    *)
ResultsMatchRows ==
  /\ \A a \in Materializations : a \in revisions <=> row[a].state = "completed"
  /\ \A v \in Verifications :
       /\ (reports[v].verdict # "none") <=> (row[v].state = "completed")
       /\ row[v].state = "completed" => reports[v].attempt = row[v].attempt
       /\ row[v].state # "none" => MaterializationOf[v] \in revisions

(* The lease a worker believes in.                                         *)
Holds(w) ==
  LET r == row[worker[w].action]
  IN worker[w].action \in Actions /\ r.state = "running" /\ r.owner = w
     /\ r.attempt = worker[w].attempt /\ r.lease > 0

(* Without a fault no lease is ever lost: the renewal interval and the     *)
(* client timeout together fit in the lease (runner.renew, LeaseTTL / 3),  *)
(* so a worker in any stage of an attempt still holds the row it claimed,  *)
(* and no two workers are on the same action.                              *)
NoLossWithoutFault ==
  faults = MaxFaults =>
    \A w \in Workers :
      worker[w].pc # "idle" =>
        /\ Holds(w)
        /\ \A v \in Workers \ {w} : worker[v].action # worker[w].action

(* Every action that is scheduled comes to an end: bounded retries under   *)
(* expiring leases leave no row waiting or running for ever.               *)
EveryActionSettles ==
  \A a \in Actions :
    row[a].state \in {"queued", "running"} ~> row[a].state \in {"completed", "failed"}

(* The queue as its clients see it.                                        *)
StatusOf(r) ==
  CASE r.state = "none" -> "none"
    [] r.state \in {"queued", "running"} -> "pending"
    [] r.state = "completed" -> "completed"
    [] r.state = "failed" /\ r.class = "infrastructure" -> "infra-failed"
    [] OTHER -> "artifact-failed"

Contract == INSTANCE ActionContract WITH status <- [a \in Actions |-> StatusOf(row[a])]

(* The queue keeps its contract: a completed action or an artifact failure *)
(* is never undone by a retry, a takeover, a late request or rescheduling. *)
ImplementsContract == Contract!ContractSpec
=============================================================================
