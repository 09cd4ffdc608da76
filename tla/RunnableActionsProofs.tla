----------------------- MODULE RunnableActionsProofs -----------------------
(***************************************************************************)
(* Proofs about the runnable action queue, for any number of actions,      *)
(* workers, attempts and faults, and about what a worker does under a      *)
(* claim: any number of workers, of a bundle's files and a plan's steps,   *)
(* of scheduling cycles and of mishaps.                                    *)
(***************************************************************************)
EXTENDS RunnableActions, RunnableExecution, TLAPS

USE DEF Actions

-----------------------------------------------------------------------------
(* Every transaction turns a well-formed row into a well-formed row.       *)

LEMMA ClaimedRowOK ==
  ASSUME NEW r \in Row, RowOK(r), NEW w \in Workers
  PROVE  ClaimedRow(r, w) \in Row /\ RowOK(ClaimedRow(r, w))
<1>1. r.attempt + 1 \in Nat /\ r.attempt + 1 >= 1
  BY DEF Row
<1>2. LeaseTTL \in Nat /\ w # NoWorker
  BY ActionsAssumption, BoundsAssumption
<1>3. /\ ClaimedRow(r, w).state = "running" /\ ClaimedRow(r, w).owner = w
      /\ ClaimedRow(r, w).attempt = r.attempt + 1
  BY DEF ClaimedRow, Row
<1>4. ClaimedRow(r, w) \in Row
  BY <1>1, <1>2 DEF ClaimedRow, Row, States
<1> QED
  BY <1>1, <1>2, <1>3, <1>4 DEF RowOK

LEMMA RenewedRowOK ==
  ASSUME NEW r \in Row, RowOK(r), r.state = "running"
  PROVE  RenewedRow(r) \in Row /\ RowOK(RenewedRow(r))
BY BoundsAssumption DEF RenewedRow, Row, RowOK

LEMMA CompletedRowOK ==
  ASSUME NEW r \in Row, RowOK(r)
  PROVE  CompletedRow(r) \in Row /\ RowOK(CompletedRow(r))
BY DEF CompletedRow, Row, RowOK, States

LEMMA FailedRowOK ==
  ASSUME NEW r \in Row, RowOK(r), r.state = "running",
         NEW class \in Classes, NEW code \in Codes, NEW cause \in Causes
  PROVE  FailedRow(r, class, code, cause) \in Row /\ RowOK(FailedRow(r, class, code, cause))
<1>1. r.attempt \in Nat /\ r.attempt >= 1
  BY DEF Row, RowOK
<1>2. r.attempt < MaxAttempts => Backoff[r.attempt] \in Nat
  BY <1>1, BoundsAssumption
<1> QED
  BY <1>1, <1>2 DEF FailedRow, Row, RowOK, States, Codes

LEMMA QueuedRowOK ==
  [NoRow EXCEPT !.state = "queued"] \in Row /\ RowOK([NoRow EXCEPT !.state = "queued"])
BY DEF NoRow, Row, RowOK, States, Classes, Codes, Causes

-----------------------------------------------------------------------------
(* The table part of the type invariant.                                   *)

LEMMA StoreKeepsTable ==
  ASSUME TableOK, NEW m, RequestOK(m), Accepted(m), Store(m)
  PROVE  TableOK'
<1> DEFINE a == m.action
<1>1. a \in Actions /\ row[a] \in Row /\ RowOK(row[a]) /\ row[a].state = "running"
  BY DEF TableOK, Accepted, Live
<1>2. m \in Request
  BY DEF RequestOK
<1>3. CASE m.op = "renew" /\ StoreRenewal(m)
  BY <1>1, <1>3, RenewedRowOK DEF TableOK, StoreRenewal
<1>4. CASE m.op = "failure" /\ StoreFailure(m)
  <2>1. FailedRow(row[a], m.class, m.code, m.cause) \in Row
        /\ RowOK(FailedRow(row[a], m.class, m.code, m.cause))
    BY <1>1, <1>2, FailedRowOK DEF Request
  <2> QED
    BY <1>1, <1>4, <2>1 DEF TableOK, StoreFailure
<1>5. CASE m.op = "complete" /\ m.action \in Materializations /\ StoreMaterialization(m)
  BY <1>1, <1>5, CompletedRowOK DEF TableOK, StoreMaterialization
<1>6. CASE m.op = "complete" /\ m.action \in Verifications /\ StoreVerification(m)
  <2>1. [attempt |-> m.attempt, verdict |-> m.cause] \in Report
    BY <1>2, <1>6 DEF RequestOK, Request, Report
  <2> QED
    BY <1>1, <1>6, <2>1, CompletedRowOK DEF TableOK, StoreVerification
<1> QED
  BY <1>3, <1>4, <1>5, <1>6 DEF Store

LEMMA ClaimKeepsTable ==
  ASSUME TableOK, NEW a \in Actions, NEW w \in Workers, StoreClaim(a, w)
  PROVE  TableOK'
BY ClaimedRowOK DEF TableOK, StoreClaim

LEMMA UntouchedKeepsTable ==
  ASSUME TableOK, Untouched
  PROVE  TableOK'
BY DEF TableOK, Untouched

LEMMA TimeKeepsTable ==
  ASSUME TableOK, TimePasses
  PROVE  TableOK'
<1>1. ASSUME NEW a \in Actions
      PROVE  row'[a] \in Row /\ RowOK(row'[a])
  <2>1. row[a] \in Row /\ RowOK(row[a])
    BY DEF TableOK
  <2>2. row'[a] = [row[a] EXCEPT !.lease = Down(row[a].lease), !.wait = Down(row[a].wait)]
    BY <2>1 DEF TimePasses, Row
  <2>3. Down(row[a].lease) \in Nat /\ Down(row[a].wait) \in Nat
        /\ (row[a].lease = 0 => Down(row[a].lease) = 0)
    BY <2>1 DEF Down, Row
  <2> QED
    BY <2>1, <2>2, <2>3 DEF Row, RowOK
<1>2. row' \in [Actions -> Row]
  BY <1>1 DEF TimePasses
<1> QED
  BY <1>1, <1>2 DEF TableOK, TimePasses

-----------------------------------------------------------------------------
(* The worker part of the type invariant.                                  *)

LEMMA RequestOfOK ==
  ASSUME LoopsOK, NEW w \in Workers
  PROVE  /\ RequestOK(RequestOf(w, "claim"))
         /\ worker[w].pc # "idle" => RequestOK(RequestOf(w, "renew"))
         /\ worker[w].pc = "completing" => RequestOK(RequestOf(w, "complete"))
         /\ worker[w].pc \in {"handing-over", "reporting"} => RequestOK(RequestOf(w, "failure"))
         /\ \A m \in Pending(w) : RequestOK(m)
<1>1. worker[w] \in Worker /\ LoopOK(worker[w])
  BY DEF LoopsOK
<1>2. \A op \in {"claim", "renew", "complete", "failure"} : RequestOf(w, op) \in Request
  BY <1>1 DEF RequestOf, Request, Worker
<1>3. \A op \in {"claim", "renew", "complete", "failure"} :
        /\ RequestOf(w, op).op = op /\ RequestOf(w, op).action = worker[w].action
        /\ RequestOf(w, op).cause = worker[w].cause /\ RequestOf(w, op).class = worker[w].class
  BY DEF RequestOf
<1>4. /\ RequestOK(RequestOf(w, "claim"))
      /\ worker[w].pc # "idle" => RequestOK(RequestOf(w, "renew"))
      /\ worker[w].pc = "completing" => RequestOK(RequestOf(w, "complete"))
      /\ worker[w].pc \in {"handing-over", "reporting"} => RequestOK(RequestOf(w, "failure"))
  BY <1>1, <1>2, <1>3 DEF RequestOK, LoopOK
<1> QED
  BY <1>4 DEF Pending

LEMMA IdleOK == Idle \in Worker /\ LoopOK(Idle)
BY DEF Idle, Worker, LoopOK, Classes, Codes, Causes

(* A step of one loop to an allowed state, keeping or abandoning its call. *)
LEMMA BecomesKeepsLoops ==
  ASSUME LoopsOK, NEW w \in Workers, NEW l \in Worker, LoopOK(l), Becomes(w, l),
         NEW S, inflight' = S, \A m \in S : RequestOK(m), faults' \in 0 .. MaxFaults
  PROVE  LoopsOK'
BY DEF LoopsOK, Becomes

LEMMA FaultOK ==
  ASSUME LoopsOK, Fault
  PROVE  faults' \in 0 .. MaxFaults
BY BoundsAssumption DEF LoopsOK, Fault

LEMMA TimeKeepsLoops ==
  ASSUME LoopsOK, TimePasses, faults' \in 0 .. MaxFaults
  PROVE  LoopsOK'
<1>1. ASSUME NEW w \in Workers
      PROVE  worker'[w] \in Worker /\ LoopOK(worker'[w])
  <2>1. worker[w] \in Worker /\ LoopOK(worker[w])
    BY DEF LoopsOK
  <2> DEFINE older == IF Renewing(w) THEN Up(worker[w].age, RenewEvery) ELSE worker[w].age
             longer == IF worker[w].pc = "reporting" THEN Up(worker[w].call, RequestTimeout)
                                                     ELSE worker[w].call
  <2>2. worker'[w] = [worker[w] EXCEPT !.age = older, !.call = longer]
    BY <2>1 DEF TimePasses, Worker
  <2>3. older \in Nat /\ longer \in Nat
    BY <2>1 DEF Up, Worker
  <2> HIDE DEF older, longer
  <2> QED
    BY <2>1, <2>2, <2>3 DEF Worker, LoopOK
<1>2. worker' \in [Workers -> Worker]
  BY <1>1 DEF TimePasses
<1> QED
  BY <1>1, <1>2 DEF LoopsOK, TimePasses

-----------------------------------------------------------------------------
(* One lemma per family of steps: the table, then the loops.               *)

LEMMA AttemptEndsTyped ==
  ASSUME TypeOK, NEW w \in Workers,
         Complete(w) \/ AbandonCompletion(w) \/ HandOver(w) \/ AbandonHandOver(w)
           \/ ReportFailure(w) \/ AbandonReport(w) \/ Crash(w)
  PROVE  TypeOK'
<1> USE DEF TypeOK
<1>1. worker[w] \in Worker /\ LoopOK(worker[w]) /\ faults \in 0 .. MaxFaults
      /\ \A m \in inflight : RequestOK(m)
  BY DEF LoopsOK
<1>2. \A m \in inflight \cup Pending(w) : RequestOK(m)
  BY <1>1, RequestOfOK
<1> DEFINE infra == [worker[w] EXCEPT !.pc = "reporting", !.cause = "infrastructure",
                       !.class = "infrastructure", !.code = "reported"]
           late == [worker[w] EXCEPT !.pc = "reporting", !.cause = "deadline",
                      !.class = "artifact", !.code = "deadline-exceeded"]
           passed == [worker[w] EXCEPT !.pc = "reporting"]
           timedOut == [worker[w] EXCEPT !.pc = "reporting", !.class = "artifact",
                                         !.code = "deadline-exceeded"]
<1>3. worker[w].pc = "completing" =>
        infra \in Worker /\ LoopOK(infra) /\ late \in Worker /\ LoopOK(late)
  BY <1>1 DEF Worker, LoopOK, Classes, Codes, Causes
<1>4. worker[w].pc = "handing-over" =>
        passed \in Worker /\ LoopOK(passed) /\ timedOut \in Worker /\ LoopOK(timedOut)
  BY <1>1 DEF Worker, LoopOK, Classes, Codes, Causes
<1> HIDE DEF infra, late, passed, timedOut
<1>5. CASE Complete(w)
  <2>1. TableOK'
    BY <1>5, StoreKeepsTable, UntouchedKeepsTable, RequestOfOK DEF Complete
  <2>2. Becomes(w, Idle) \/ Becomes(w, infra)
    BY <1>5 DEF Complete, infra
  <2>3. LoopsOK'
    BY <1>1, <1>3, <1>5, <2>2, IdleOK, BecomesKeepsLoops DEF Complete
  <2> QED BY <2>1, <2>3
<1>6. CASE AbandonCompletion(w)
  <2>1. Becomes(w, infra) \/ Becomes(w, late)
    BY <1>6 DEF AbandonCompletion, infra, late
  <2>2. LoopsOK'
    BY <1>2, <1>3, <1>6, <2>1, FaultOK, BecomesKeepsLoops DEF AbandonCompletion
  <2> QED BY <1>6, <2>2, UntouchedKeepsTable DEF AbandonCompletion
<1>7. CASE HandOver(w)
  <2>1. TableOK'
    BY <1>7, StoreKeepsTable, UntouchedKeepsTable, RequestOfOK DEF HandOver
  <2> QED BY <1>1, <1>7, <2>1, IdleOK, BecomesKeepsLoops DEF HandOver
<1>8. CASE AbandonHandOver(w)
  <2>1. Becomes(w, passed) \/ Becomes(w, timedOut)
    BY <1>8 DEF AbandonHandOver, passed, timedOut
  <2>2. LoopsOK'
    BY <1>2, <1>4, <1>8, <2>1, FaultOK, BecomesKeepsLoops DEF AbandonHandOver
  <2> QED BY <1>8, <2>2, UntouchedKeepsTable DEF AbandonHandOver
<1>9. CASE ReportFailure(w)
  <2>1. TableOK'
    BY <1>9, StoreKeepsTable, UntouchedKeepsTable, RequestOfOK DEF ReportFailure
  <2> QED BY <1>1, <1>9, <2>1, IdleOK, BecomesKeepsLoops DEF ReportFailure
<1>10. CASE AbandonReport(w)
  BY <1>2, <1>10, FaultOK, IdleOK, BecomesKeepsLoops, UntouchedKeepsTable DEF AbandonReport
<1>11. CASE Crash(w)
  BY <1>2, <1>11, FaultOK, IdleOK, BecomesKeepsLoops, UntouchedKeepsTable DEF Crash
<1> QED
  BY <1>5, <1>6, <1>7, <1>8, <1>9, <1>10, <1>11

LEMMA AttemptRunsTyped ==
  ASSUME TypeOK, NEW w \in Workers,
         Claim(w) \/ AbandonClaim(w) \/ Renew(w) \/ AbandonRenewal(w)
           \/ Produce(w) \/ FailToExecute(w) \/ FailInEnvironment(w)
  PROVE  TypeOK'
<1> USE DEF TypeOK
<1>1. worker[w] \in Worker /\ LoopOK(worker[w]) /\ faults \in 0 .. MaxFaults
      /\ \A m \in inflight : RequestOK(m)
  BY DEF LoopsOK
<1>2. \A m \in inflight \cup Pending(w) : RequestOK(m)
  BY <1>1, RequestOfOK
<1>3. CASE Claim(w)
  <2>1. PICK a \in Actions :
          /\ StoreClaim(a, w)
          /\ Becomes(w, [Idle EXCEPT !.pc = "executing", !.action = a,
                                     !.attempt = row[a].attempt + 1])
    BY <1>3 DEF Claim
  <2> DEFINE l == [Idle EXCEPT !.pc = "executing", !.action = a, !.attempt = row[a].attempt + 1]
  <2>2. row[a].attempt + 1 \in Nat
    BY DEF TableOK, Row
  <2>3. l \in Worker /\ LoopOK(l)
    BY <2>2, IdleOK DEF Idle, Worker, LoopOK
  <2> HIDE DEF l
  <2>4. Becomes(w, l)
    BY <2>1 DEF l
  <2> QED BY <1>1, <1>3, <2>1, <2>3, <2>4, ClaimKeepsTable, BecomesKeepsLoops DEF Claim
<1>4. CASE AbandonClaim(w)
  <2>1. LoopsOK'
    BY <1>1, <1>4, FaultOK, RequestOfOK DEF AbandonClaim, LoopsOK
  <2> QED BY <1>4, <2>1, UntouchedKeepsTable DEF AbandonClaim
<1>5. CASE Renew(w)
  <2>1. RequestOK(RequestOf(w, "renew"))
    BY <1>5, RequestOfOK DEF Renew, RenewalDue, Renewing
  <2>2. CASE /\ Accepted(RequestOf(w, "renew")) /\ Store(RequestOf(w, "renew"))
             /\ Becomes(w, [worker[w] EXCEPT !.age = 0])
             /\ UNCHANGED inflight
    <3> DEFINE l == [worker[w] EXCEPT !.age = 0]
    <3>1. l \in Worker /\ LoopOK(l)
      BY <1>1 DEF Worker, LoopOK
    <3> HIDE DEF l
    <3>2. Becomes(w, l)
      BY <2>2 DEF l
    <3>3. faults' \in 0 .. MaxFaults
      BY <1>1, <1>5 DEF Renew
    <3> QED BY <1>1, <2>1, <2>2, <3>1, <3>2, <3>3, StoreKeepsTable, BecomesKeepsLoops
  <2>3. CASE /\ ~Accepted(RequestOf(w, "renew")) /\ Untouched
             /\ Becomes(w, Idle)
             /\ inflight' = inflight \cup Pending(w)
    <3>1. faults' \in 0 .. MaxFaults
      BY <1>1, <1>5 DEF Renew
    <3> QED BY <1>2, <2>3, <3>1, IdleOK, UntouchedKeepsTable, BecomesKeepsLoops
  <2> QED BY <1>5, <2>2, <2>3 DEF Renew
<1>6. CASE AbandonRenewal(w)
  <2>1. RequestOK(RequestOf(w, "renew"))
    BY <1>6, RequestOfOK DEF AbandonRenewal, RenewalDue, Renewing
  <2>2. \A m \in inflight \cup {RequestOf(w, "renew")} \cup Pending(w) : RequestOK(m)
    BY <1>2, <2>1
  <2> QED BY <1>6, <2>2, FaultOK, IdleOK, UntouchedKeepsTable, BecomesKeepsLoops DEF AbandonRenewal
<1>7. CASE Produce(w)
  <2>1. PICK answer \in {"passed", "rejected"} :
          Becomes(w, [worker[w] EXCEPT !.pc = "completing", !.cause = answer])
    BY <1>7 DEF Produce
  <2> DEFINE l == [worker[w] EXCEPT !.pc = "completing", !.cause = answer]
  <2>2. l \in Worker /\ LoopOK(l)
    BY <1>1, <1>7 DEF Produce, Worker, LoopOK, Causes
  <2> HIDE DEF l
  <2>3. Becomes(w, l)
    BY <2>1 DEF l
  <2> QED BY <1>1, <1>7, <2>2, <2>3, UntouchedKeepsTable, BecomesKeepsLoops DEF Produce
<1>8. CASE FailToExecute(w)
  <2> DEFINE l(cause) == [worker[w] EXCEPT
         !.pc = "reporting", !.cause = cause,
         !.class = IF cause = "infrastructure" THEN "infrastructure" ELSE "artifact",
         !.code = IF cause = "deadline" THEN "deadline-exceeded" ELSE "reported"]
  <2>1. PICK cause \in {"artifact", "infrastructure", "deadline"} : Becomes(w, l(cause))
    BY <1>8 DEF FailToExecute
  <2>2. l(cause) \in Worker /\ LoopOK(l(cause))
    BY <1>1, <1>8 DEF FailToExecute, Worker, LoopOK, Classes, Codes, Causes
  <2> HIDE DEF l
  <2> QED BY <1>1, <1>8, <2>1, <2>2, UntouchedKeepsTable, BecomesKeepsLoops DEF FailToExecute
<1>9. CASE FailInEnvironment(w)
  <2> DEFINE l == [worker[w] EXCEPT !.pc = "handing-over", !.cause = "infrastructure",
                                  !.class = "infrastructure", !.code = "reported"]
  <2>1. l \in Worker /\ LoopOK(l)
    BY <1>1, <1>9 DEF FailInEnvironment, Worker, LoopOK, Classes, Codes, Causes
  <2>2. Becomes(w, l)
    BY <1>9 DEF FailInEnvironment
  <2> HIDE DEF l
  <2> QED BY <1>1, <1>9, <2>1, <2>2, UntouchedKeepsTable, BecomesKeepsLoops DEF FailInEnvironment
<1> QED
  BY <1>3, <1>4, <1>5, <1>6, <1>7, <1>8, <1>9

LEMMA RestTyped ==
  ASSUME TypeOK,
         \/ \E a \in Actions : ScheduleMaterialization(a) \/ ScheduleVerification(a)
         \/ \E m \in inflight : DeliverLate(m)
         \/ Tick \/ Stall
  PROVE  TypeOK'
<1> USE DEF TypeOK
<1>1. ASSUME NEW a \in Actions, ScheduleMaterialization(a) \/ ScheduleVerification(a)
      PROVE  TypeOK'
  <2>1. TableOK'
    BY <1>1, QueuedRowOK DEF ScheduleMaterialization, ScheduleVerification, TableOK
  <2>2. LoopsOK'
    BY <1>1 DEF ScheduleMaterialization, ScheduleVerification, LoopsOK
  <2> QED BY <2>1, <2>2
<1>2. ASSUME NEW m \in inflight, DeliverLate(m)
      PROVE  TypeOK'
  <2>1. RequestOK(m) /\ m.worker \in Workers
    BY DEF LoopsOK, RequestOK, Request
  <2>2. TableOK'
    BY <1>2, <2>1, StoreKeepsTable, ClaimKeepsTable, UntouchedKeepsTable DEF DeliverLate
  <2>3. LoopsOK'
    BY <1>2 DEF DeliverLate, LoopsOK
  <2> QED BY <2>2, <2>3
<1>3. CASE Tick
  BY <1>3, TimeKeepsTable, TimeKeepsLoops DEF Tick, LoopsOK
<1>4. CASE Stall
  BY <1>4, TimeKeepsTable, TimeKeepsLoops, FaultOK DEF Stall
<1> QED
  BY <1>1, <1>2, <1>3, <1>4

LEMMA InitTyped == Init => TypeOK
<1> SUFFICES ASSUME Init PROVE TypeOK
  OBVIOUS
<1>1. NoRow \in Row /\ RowOK(NoRow)
  BY DEF NoRow, Row, RowOK, States, Classes, Codes, Causes
<1>2. TableOK
  BY <1>1 DEF Init, TableOK, Report
<1>3. LoopsOK
  BY IdleOK, BoundsAssumption DEF Init, LoopsOK
<1> QED
  BY <1>2, <1>3 DEF TypeOK

(* Steps keep the types: one case per family of actions.                   *)
LEMMA NextTyped == TypeOK /\ [Next]_vars => TypeOK'
<1> SUFFICES ASSUME TypeOK, [Next]_vars PROVE TypeOK'
  OBVIOUS
<1>1. CASE Next
  BY <1>1, AttemptEndsTyped, AttemptRunsTyped, RestTyped DEF Next
<1>2. CASE UNCHANGED vars
  BY <1>2 DEF vars, TypeOK, TableOK, LoopsOK
<1> QED
  BY <1>1, <1>2

(* Type correctness of the queue and of the worker loops, including that   *)
(* a row carries an owner and a lease exactly while it is running.         *)
THEOREM TypeCorrect == Spec => []TypeOK
BY InitTyped, NextTyped, PTL DEF Spec

-----------------------------------------------------------------------------
(* Seen from the table there are only five kinds of step, whichever worker *)
(* or late request is behind them.                                         *)

ScheduleStep(a) ==
  /\ Reschedulable(row[a])
  /\ a \in Verifications => MaterializationOf[a] \in revisions
  /\ row' = [row EXCEPT ![a] = [NoRow EXCEPT !.state = "queued"]]
  /\ UNCHANGED <<revisions, reports>>

CountDownStep ==
  /\ row' = [a \in Actions |-> [row[a] EXCEPT !.lease = Down(@), !.wait = Down(@)]]
  /\ UNCHANGED <<revisions, reports>>

TableStep ==
  \/ Untouched
  \/ CountDownStep
  \/ \E a \in Actions : ScheduleStep(a)
  \/ \E a \in Actions, w \in Workers : StoreClaim(a, w)
  \/ \E m : RequestOK(m) /\ Accepted(m) /\ Store(m)

LEMMA NextIsTableStep == TypeOK /\ [Next]_vars => TableStep
<1> SUFFICES ASSUME TypeOK, [Next]_vars PROVE TableStep
  OBVIOUS
<1> USE DEF TypeOK
<1>1. CASE UNCHANGED vars
  BY <1>1 DEF vars, TableStep, Untouched
<1>2. ASSUME NEW a \in Actions, ScheduleMaterialization(a) \/ ScheduleVerification(a)
      PROVE  TableStep
  <2>1. ScheduleStep(a)
    BY <1>2, ActionsAssumption DEF ScheduleMaterialization, ScheduleVerification, ScheduleStep
  <2> QED BY <2>1 DEF TableStep
<1>3. ASSUME NEW w \in Workers,
             AbandonClaim(w) \/ AbandonRenewal(w) \/ Produce(w) \/ FailToExecute(w)
               \/ FailInEnvironment(w) \/ AbandonCompletion(w) \/ AbandonHandOver(w)
               \/ AbandonReport(w) \/ Crash(w)
      PROVE  TableStep
  <2>1. Untouched
    BY <1>3 DEF AbandonClaim, AbandonRenewal, Produce, FailToExecute, FailInEnvironment,
                AbandonCompletion, AbandonHandOver, AbandonReport, Crash
  <2> QED BY <2>1 DEF TableStep
<1>4. ASSUME NEW w \in Workers, Claim(w)
      PROVE  TableStep
  BY <1>4 DEF Claim, TableStep
<1>5. ASSUME NEW w \in Workers, Renew(w) \/ Complete(w) \/ HandOver(w) \/ ReportFailure(w)
      PROVE  TableStep
  <2>1. CASE Untouched
    BY <2>1 DEF TableStep
  <2>2. CASE ~Untouched
    <3>1. PICK op \in {"renew", "complete", "failure"} :
            RequestOK(RequestOf(w, op)) /\ Accepted(RequestOf(w, op)) /\ Store(RequestOf(w, op))
      BY <1>5, <2>2, RequestOfOK
         DEF Renew, RenewalDue, Renewing, Complete, HandOver, ReportFailure
    <3> QED BY <3>1 DEF TableStep
  <2> QED BY <2>1, <2>2
<1>6. ASSUME NEW m \in inflight, DeliverLate(m)
      PROVE  TableStep
  <2>1. RequestOK(m) /\ m.worker \in Workers
    BY DEF LoopsOK, RequestOK, Request
  <2> QED BY <1>6, <2>1 DEF DeliverLate, TableStep
<1>7. CASE Tick \/ Stall
  BY <1>7 DEF Tick, Stall, TimePasses, CountDownStep, TableStep
<1> QED
  BY <1>1, <1>2, <1>3, <1>4, <1>5, <1>6, <1>7 DEF Next

(* What the countdown leaves alone.                                        *)
LEMMA CountDownKeeps ==
  ASSUME TableOK, CountDownStep, NEW a \in Actions
  PROVE  /\ row'[a].state = row[a].state /\ row'[a].attempt = row[a].attempt
         /\ row'[a].class = row[a].class
<1>1. row[a] \in Row
  BY DEF TableOK
<1>2. row'[a] = [row[a] EXCEPT !.lease = Down(row[a].lease), !.wait = Down(row[a].wait)]
  BY <1>1 DEF CountDownStep, Row
<1> QED
  BY <1>1, <1>2 DEF Row

-----------------------------------------------------------------------------
(* The attempt ceiling.                                                    *)

CeilingOf(r) ==
  /\ r.state = "queued" => r.attempt < MaxAttempts
  /\ r.state = "failed" /\ r.class = "infrastructure" => r.attempt >= MaxAttempts

LEMMA FailedRowCeiling ==
  ASSUME NEW r \in Row, NEW class \in Classes, NEW code, NEW cause
  PROVE  CeilingOf(FailedRow(r, class, code, cause))
<1> DEFINE f == FailedRow(r, class, code, cause)
<1>1. /\ f.attempt = r.attempt /\ f.class = class
      /\ f.state = IF class = "infrastructure" /\ r.attempt < MaxAttempts
                     THEN "queued" ELSE "failed"
  BY DEF FailedRow, Row
<1>2. r.attempt \in Nat /\ MaxAttempts \in Nat
  BY BoundsAssumption DEF Row
<1> QED
  BY <1>1, <1>2 DEF CeilingOf

LEMMA StoreCeiling ==
  ASSUME TableOK, NEW m, RequestOK(m), Accepted(m), Store(m),
         \A a \in Actions : CeilingOf(row[a])
  PROVE  \A a \in Actions : CeilingOf(row'[a])
<1>1. m \in Request /\ m.action \in Actions /\ row[m.action] \in Row
      /\ row \in [Actions -> Row] /\ row[m.action].state = "running"
  BY DEF RequestOK, Accepted, Live, TableOK
<1>2. CeilingOf(RenewedRow(row[m.action])) /\ CeilingOf(CompletedRow(row[m.action]))
  BY <1>1 DEF CeilingOf, RenewedRow, CompletedRow, Row
<1>3. CeilingOf(FailedRow(row[m.action], m.class, m.code, m.cause))
  BY <1>1, FailedRowCeiling DEF Request
<1> QED
  BY <1>1, <1>2, <1>3
     DEF Store, StoreRenewal, StoreFailure, StoreMaterialization, StoreVerification

LEMMA NextCeiling == TypeOK /\ AttemptCeiling /\ [Next]_vars => AttemptCeiling'
<1> SUFFICES ASSUME TypeOK, AttemptCeiling, TableStep PROVE AttemptCeiling'
  BY NextIsTableStep
<1> USE DEF TypeOK
<1>1. \A a \in Actions : CeilingOf(row[a])
  BY DEF AttemptCeiling, CeilingOf
<1>2. row \in [Actions -> Row]
  BY DEF TableOK
<1>3. \A a \in Actions : CeilingOf(row'[a])
  <2>1. CASE Untouched
    BY <1>1, <2>1 DEF Untouched
  <2>2. CASE CountDownStep
    BY <1>1, <2>2, CountDownKeeps DEF CeilingOf
  <2>3. ASSUME NEW a \in Actions, ScheduleStep(a)
        PROVE  \A b \in Actions : CeilingOf(row'[b])
    <3>1. CeilingOf([NoRow EXCEPT !.state = "queued"])
      BY BoundsAssumption DEF CeilingOf, NoRow
    <3> QED BY <1>1, <1>2, <2>3, <3>1 DEF ScheduleStep
  <2>4. ASSUME NEW a \in Actions, NEW w \in Workers, StoreClaim(a, w)
        PROVE  \A b \in Actions : CeilingOf(row'[b])
    <3>1. CeilingOf(ClaimedRow(row[a], w))
      BY <1>2 DEF CeilingOf, ClaimedRow, Row
    <3> QED BY <1>1, <1>2, <2>4, <3>1 DEF StoreClaim
  <2>5. ASSUME NEW m, RequestOK(m), Accepted(m), Store(m)
        PROVE  \A b \in Actions : CeilingOf(row'[b])
    BY <1>1, <2>5, StoreCeiling
  <2> QED BY <2>1, <2>2, <2>3, <2>4, <2>5 DEF TableStep
<1> QED
  BY <1>3 DEF AttemptCeiling, CeilingOf

(* Bounded patience: whatever crashes, takeovers and late requests happen, *)
(* no row waits for an attempt beyond runnableActionMaxAttempts and no     *)
(* infrastructure failure is final before they are used up.                *)
THEOREM CeilingHolds == Spec => []AttemptCeiling
<1>1. Init => AttemptCeiling
  BY DEF Init, AttemptCeiling, NoRow
<1> QED
  BY <1>1, TypeCorrect, NextCeiling, PTL DEF Spec

-----------------------------------------------------------------------------
(* Results and rows agree.                                                 *)

LEMMA NextResults == TypeOK /\ ResultsMatchRows /\ [Next]_vars => ResultsMatchRows'
<1> SUFFICES ASSUME TypeOK, ResultsMatchRows, TableStep PROVE ResultsMatchRows'
  BY NextIsTableStep
<1> USE DEF TypeOK
<1>1. /\ row \in [Actions -> Row] /\ reports \in [Verifications -> Report]
      /\ Materializations \cap Verifications = {}
      /\ MaterializationOf \in [Verifications -> Materializations]
  BY ActionsAssumption DEF TableOK
<1>2. CASE Untouched
  BY <1>2 DEF Untouched, ResultsMatchRows
<1>3. CASE CountDownStep
  <2>1. \A a \in Actions : row'[a].state = row[a].state /\ row'[a].attempt = row[a].attempt
    BY <1>3, CountDownKeeps
  <2> QED BY <1>3, <2>1 DEF CountDownStep, ResultsMatchRows
<1>4. ASSUME NEW a \in Actions, ScheduleStep(a)
      PROVE  ResultsMatchRows'
  <2>1. row[a].state # "completed" /\ row'[a].state = "queued"
        /\ \A b \in Actions \ {a} : row'[b] = row[b]
    BY <1>1, <1>4 DEF ScheduleStep, Reschedulable, NoRow
  <2> QED BY <1>1, <1>4, <2>1 DEF ScheduleStep, ResultsMatchRows
<1>5. ASSUME NEW a \in Actions, NEW w \in Workers, StoreClaim(a, w)
      PROVE  ResultsMatchRows'
  <2>1. row[a].state \in {"queued", "running"} /\ row'[a].state = "running"
        /\ \A b \in Actions \ {a} : row'[b] = row[b]
    BY <1>1, <1>5 DEF StoreClaim, Claimable, ClaimedRow, Row
  <2> QED BY <1>1, <1>5, <2>1 DEF StoreClaim, ResultsMatchRows
<1>6. ASSUME NEW m, RequestOK(m), Accepted(m), Store(m)
      PROVE  ResultsMatchRows'
  <2> DEFINE a == m.action
  <2>1. a \in Actions /\ row[a].state = "running" /\ row[a] \in Row /\ m \in Request
    BY <1>1, <1>6 DEF Accepted, Live, RequestOK
  <2>2. CASE StoreRenewal(m)
    <3>1. row'[a].state = "running" /\ \A b \in Actions \ {a} : row'[b] = row[b]
      BY <1>1, <2>1, <2>2 DEF StoreRenewal, RenewedRow, Row
    <3> QED BY <1>1, <2>1, <2>2, <3>1 DEF StoreRenewal, ResultsMatchRows
  <2>3. CASE StoreFailure(m)
    <3>1. row'[a].state \in {"queued", "failed"} /\ \A b \in Actions \ {a} : row'[b] = row[b]
      BY <1>1, <2>1, <2>3 DEF StoreFailure, FailedRow, Row
    <3> QED BY <1>1, <2>1, <2>3, <3>1 DEF StoreFailure, ResultsMatchRows
  <2>4. CASE a \in Materializations /\ StoreMaterialization(m)
    <3>1. row'[a].state = "completed" /\ \A b \in Actions \ {a} : row'[b] = row[b]
      BY <1>1, <2>1, <2>4 DEF StoreMaterialization, CompletedRow, Row
    <3> QED BY <1>1, <2>1, <2>4, <3>1 DEF StoreMaterialization, ResultsMatchRows
  <2>5. CASE m.op = "complete" /\ a \in Verifications /\ StoreVerification(m)
    <3>1. row'[a].state = "completed" /\ row'[a].attempt = row[a].attempt
          /\ \A b \in Actions \ {a} : row'[b] = row[b]
      BY <1>1, <2>1, <2>5 DEF StoreVerification, CompletedRow, Row
    <3>2. reports[a].verdict = "none"
      BY <2>1, <2>5 DEF ResultsMatchRows
    <3>3. reports'[a] = [attempt |-> m.attempt, verdict |-> m.cause]
          /\ \A b \in Verifications \ {a} : reports'[b] = reports[b]
      BY <1>1, <2>5, <3>2 DEF StoreVerification
    <3>4. m.attempt = row[a].attempt /\ m.cause # "none"
      BY <1>6, <2>5 DEF Accepted, Matches, RequestOK
    <3> QED BY <1>1, <2>1, <2>5, <3>1, <3>3, <3>4 DEF StoreVerification, ResultsMatchRows
  <2> QED BY <1>6, <2>2, <2>3, <2>4, <2>5 DEF Store
<1> QED
  BY <1>2, <1>3, <1>4, <1>5, <1>6 DEF TableStep

(* Results are durable exactly when their rows are completed, and a report *)
(* carries the attempt its row ended on.                                   *)
THEOREM ResultsHold == Spec => []ResultsMatchRows
<1>1. Init => ResultsMatchRows
  BY ActionsAssumption DEF Init, ResultsMatchRows, NoRow
<1> QED
  BY <1>1, TypeCorrect, NextResults, PTL DEF Spec

-----------------------------------------------------------------------------
(* The queue implements its contract.                                      *)

status == [a \in Actions |-> StatusOf(row[a])]

LEMMA StatusOfDone ==
  ASSUME NEW r \in Row
  PROVE  /\ r.state = "none" => StatusOf(r) = "none"
         /\ r.state \in {"queued", "running"} => StatusOf(r) = "pending"
         /\ r.state = "completed" => StatusOf(r) = "completed"
         /\ r.state = "failed" => StatusOf(r) =
              IF r.class = "infrastructure" THEN "infra-failed" ELSE "artifact-failed"
BY DEF StatusOf, Row

(* A step that changes one row changes at most that row's status.          *)
LEMMA OneRowChanges ==
  ASSUME TableOK, NEW a \in Actions, NEW r, row' = [row EXCEPT ![a] = r]
  PROVE  status' = [status EXCEPT ![a] = StatusOf(r)]
<1>1. row \in [Actions -> Row]
  BY DEF TableOK
<1>2. \A b \in Actions : status'[b] = [status EXCEPT ![a] = StatusOf(r)][b]
  BY <1>1 DEF status
<1> QED
  BY <1>2 DEF status

LEMMA PendingStays ==
  ASSUME NEW a \in Actions, status[a] = "pending", status' = [status EXCEPT ![a] = "pending"]
  PROVE  UNCHANGED status
<1>1. DOMAIN status = Actions
  BY DEF status
<1>2. \A b \in Actions : [status EXCEPT ![a] = "pending"][b] = status[b]
  BY <1>1
<1>3. \A b \in Actions : status'[b] = status[b]
  BY <1>2
<1> QED
  BY <1>3 DEF status

LEMMA StepKeepsContract ==
  ASSUME TypeOK, TableStep
  PROVE  [Contract!ContractNext]_status
<1> USE DEF TypeOK
<1>1. row \in [Actions -> Row] /\ \A a \in Actions : status[a] = StatusOf(row[a])
  BY DEF TableOK, status
<1>2. CASE Untouched
  BY <1>2 DEF Untouched, status
<1>3. CASE CountDownStep
  <2>1. ASSUME NEW a \in Actions
        PROVE  StatusOf(row'[a]) = StatusOf(row[a])
    BY <1>1, <1>3, <2>1, CountDownKeeps DEF StatusOf
  <2> QED BY <2>1 DEF status
<1>4. ASSUME NEW a \in Actions, ScheduleStep(a)
      PROVE  Contract!Schedule(a)
  <2>1. StatusOf([NoRow EXCEPT !.state = "queued"]) = "pending"
    BY QueuedRowOK, StatusOfDone DEF NoRow
  <2>2. status' = [status EXCEPT ![a] = "pending"]
    BY <1>4, <2>1, OneRowChanges DEF ScheduleStep
  <2>3. status[a] \in {"none", "infra-failed"}
    BY <1>1, <1>4, StatusOfDone DEF ScheduleStep, Reschedulable
  <2> QED BY <2>2, <2>3 DEF Contract!Schedule, status
<1>5. ASSUME NEW a \in Actions, NEW w \in Workers, StoreClaim(a, w)
      PROVE  UNCHANGED status
  <2>1. status[a] = "pending"
    BY <1>1, <1>5, StatusOfDone DEF StoreClaim, Claimable
  <2>2. StatusOf(ClaimedRow(row[a], w)) = "pending"
    <3>1. row[a] \in Row /\ ClaimedRow(row[a], w) \in Row
      BY <1>1, ClaimedRowOK DEF TableOK
    <3>2. ClaimedRow(row[a], w).state = "running"
      BY <3>1 DEF ClaimedRow, Row
    <3> QED BY <3>1, <3>2, StatusOfDone
  <2>3. status' = [status EXCEPT ![a] = "pending"]
    BY <1>1, <1>5, <2>2, OneRowChanges DEF StoreClaim
  <2> QED BY <2>1, <2>3, PendingStays
<1>6. ASSUME NEW m, RequestOK(m), Accepted(m), Store(m)
      PROVE  Contract!ContractNext \/ UNCHANGED status
  <2>1. PICK a \in Actions : a = m.action
    BY <1>6 DEF Accepted, Live
  <2>a. row[a].state = "running" /\ row[a] \in Row /\ RowOK(row[a]) /\ m \in Request
    BY <1>1, <1>6, <2>1 DEF Accepted, Live, RequestOK, TableOK
  <2>2. status[a] = "pending"
    BY <1>1, <2>a, StatusOfDone
  <2>3. CASE StoreRenewal(m)
    <3>1. StatusOf(RenewedRow(row[a])) = "pending"
      <4>1. RenewedRow(row[a]) \in Row
        BY <2>a, RenewedRowOK
      <4>2. RenewedRow(row[a]).state = "running"
        BY <2>a DEF RenewedRow, Row
      <4> QED BY <4>1, <4>2, StatusOfDone
    <3>2. status' = [status EXCEPT ![a] = "pending"]
      <4>1. row' = [row EXCEPT ![a] = RenewedRow(row[a])]
        BY <2>1, <2>3 DEF StoreRenewal
      <4> QED BY <3>1, <4>1, OneRowChanges
    <3>3. UNCHANGED status
      BY <2>1, <2>2, <3>2, PendingStays
    <3> QED BY <3>3
  <2>4. CASE StoreMaterialization(m) \/ StoreVerification(m)
    <3>1. StatusOf(CompletedRow(row[a])) = "completed"
      <4>1. CompletedRow(row[a]) \in Row
        BY <2>a, CompletedRowOK
      <4>2. CompletedRow(row[a]).state = "completed"
        BY <2>a DEF CompletedRow, Row
      <4> QED BY <4>1, <4>2, StatusOfDone
    <3>2. status' = [status EXCEPT ![a] = "completed"]
      <4>1. row' = [row EXCEPT ![a] = CompletedRow(row[a])]
        BY <2>1, <2>4 DEF StoreMaterialization, StoreVerification
      <4> QED BY <3>1, <4>1, OneRowChanges
    <3>3. Contract!Settle(a, "completed")
      BY <2>2, <3>2 DEF Contract!Settle, status
    <3> QED BY <2>1, <3>3 DEF Contract!ContractNext
  <2>5. CASE StoreFailure(m)
    <3> DEFINE f == FailedRow(row[a], m.class, m.code, m.cause)
    <3>1. f \in Row /\ f.state \in {"queued", "failed"}
      <4>1. m.class \in Classes /\ m.code \in Codes /\ m.cause \in Causes
        BY <2>a DEF Request
      <4>2. f \in Row
        BY <2>a, <4>1, FailedRowOK
      <4>3. f.state \in {"queued", "failed"}
        BY <2>a DEF FailedRow, Row
      <4> QED BY <4>2, <4>3
    <3>2. status' = [status EXCEPT ![a] = StatusOf(f)]
      <4>1. row' = [row EXCEPT ![a] = f]
        BY <2>1, <2>5 DEF StoreFailure
      <4> QED BY <4>1, OneRowChanges
    <3>3. StatusOf(f) \in {"pending", "artifact-failed", "infra-failed"}
      BY <3>1, StatusOfDone
    <3> HIDE DEF f
    <3>4. CASE StatusOf(f) = "pending"
      <4>1. UNCHANGED status
        BY <2>1, <2>2, <3>2, <3>4, PendingStays
      <4> QED BY <4>1
    <3>5. CASE StatusOf(f) # "pending"
      <4>1. Contract!Settle(a, StatusOf(f))
        BY <2>2, <3>2 DEF Contract!Settle, status
      <4> QED BY <2>1, <3>3, <3>5, <4>1 DEF Contract!ContractNext
    <3> QED BY <3>4, <3>5
  <2> QED BY <1>6, <2>3, <2>4, <2>5 DEF Store
<1> QED
  BY <1>2, <1>3, <1>4, <1>5, <1>6 DEF TableStep, Contract!ContractNext

(* Refinement: hidden behind attempts, leases, takeovers and late requests *)
(* the queue is the contract its coordinators rely on - a completed action *)
(* and an artifact failure are cached for ever.                            *)
THEOREM QueueImplementsContract == Spec => ImplementsContract
<1>1. Init => Contract!ContractInit
  BY DEF Init, Contract!ContractInit, NoRow, StatusOf
<1>2. TypeOK /\ [Next]_vars => [Contract!ContractNext]_status
  BY NextIsTableStep, StepKeepsContract
<1> QED
  BY <1>1, <1>2, TypeCorrect, PTL DEF Spec, ImplementsContract, Contract!ContractSpec, status
-----------------------------------------------------------------------------
(* No lease is lost without a fault.                                       *)

(* A worker in an attempt is the owner of its row, and the time that went  *)
(* by since the last renewal, waiting for the next one or for the answer   *)
(* to the final report, is what the lease has lost.                        *)
Held(w) ==
  LET r == row[worker[w].action]
      l == worker[w]
  IN  /\ l.action \in Actions
      /\ r.state = "running" /\ r.owner = w /\ r.attempt = l.attempt
      /\ l.age <= RenewEvery /\ l.call < RequestTimeout
      /\ l.pc # "reporting" => l.call = 0
      /\ r.lease + l.age + l.call >= LeaseTTL

InHand(w) ==
  /\ worker[w].pc # "idle" => Held(w)
  /\ worker[w].pc = "idle" => worker[w].action = NoAction

HeldInv == faults = MaxFaults => inflight = {} /\ \A w \in Workers : InHand(w)

LEMMA HeldIsLive ==
  ASSUME TypeOK, NEW w \in Workers, Held(w)
  PROVE  /\ Holds(w) /\ row[worker[w].action].lease > 0
         /\ \A op \in {"renew", "failure", "complete"} : Accepted(RequestOf(w, op))
<1>1. /\ worker[w] \in Worker /\ worker[w].action \in Actions /\ row[worker[w].action] \in Row
      /\ row[worker[w].action].state = "running" /\ row[worker[w].action].owner = w
      /\ row[worker[w].action].attempt = worker[w].attempt
  BY DEF Held, TypeOK, LoopsOK, TableOK
<1>2. /\ worker[w].age \in Nat /\ worker[w].call \in Nat /\ row[worker[w].action].lease \in Nat
      /\ worker[w].age <= RenewEvery /\ worker[w].call < RequestTimeout
      /\ row[worker[w].action].lease + worker[w].age + worker[w].call >= LeaseTTL
  BY <1>1 DEF Held, Worker, Row
<1>3. row[worker[w].action].lease > 0
  <2>1. /\ RenewEvery \in Nat /\ RequestTimeout \in Nat /\ LeaseTTL \in Nat
        /\ RenewEvery + RequestTimeout <= LeaseTTL
    BY BoundsAssumption
  <2> QED
    BY <1>2, <2>1
<1>4. ASSUME NEW op \in {"renew", "failure", "complete"}
      PROVE  Accepted(RequestOf(w, op))
  <2>1. /\ RequestOf(w, op).action = worker[w].action /\ RequestOf(w, op).worker = w
        /\ RequestOf(w, op).attempt = worker[w].attempt
    BY DEF RequestOf
  <2> QED
    BY <1>1, <1>3, <2>1 DEF Accepted, Live, Matches
<1> QED
  BY <1>1, <1>3, <1>4 DEF Holds

(* Another worker's step leaves a held row alone.                          *)
LEMMA OthersHeld ==
  ASSUME TypeOK, NEW w \in Workers, NEW l, Becomes(w, l), NEW v \in Workers, v # w, Held(v),
         \/ Untouched
         \/ \E a \in Actions, r \in Row : row' = [row EXCEPT ![a] = r] /\ a # worker[v].action
  PROVE  Held(v)'
<1>1. worker'[v] = worker[v]
  BY DEF Becomes, TypeOK, LoopsOK
<1>2. row'[worker[v].action] = row[worker[v].action]
  BY DEF Untouched, TypeOK, TableOK, Held
<1> QED
  BY <1>1, <1>2 DEF Held

(* A step of one loop, without a fault, that goes idle or still holds.     *)
LEMMA LoopKeepsHeld ==
  ASSUME TypeOK, HeldInv, UNCHANGED <<inflight, faults>>, NEW w \in Workers, NEW l \in Worker, Becomes(w, l),
         \/ Untouched
         \/ \E a \in Actions, r \in Row :
              /\ row' = [row EXCEPT ![a] = r]
              /\ \A v \in Workers : v # w /\ worker[v].pc # "idle" /\ Held(v) => a # worker[v].action,
         l.pc = "idle" => l.action = NoAction,
         faults = MaxFaults /\ l.pc # "idle" => Held(w)'
  PROVE  HeldInv'
<1> SUFFICES ASSUME faults = MaxFaults, NEW v \in Workers
             PROVE  InHand(v)'
  BY DEF HeldInv
<1>1. worker \in [Workers -> Worker] /\ worker' = [worker EXCEPT ![w] = l]
  BY DEF TypeOK, LoopsOK, Becomes
<1>2. CASE v = w
  BY <1>1, <1>2 DEF InHand
<1>3. CASE v # w
  <2>1. worker'[v] = worker[v] /\ InHand(v)
    BY <1>1, <1>3 DEF HeldInv
  <2>2. worker[v].pc # "idle" => Held(v)'
    BY <1>3, <2>1, OthersHeld DEF InHand
  <2> QED
    BY <2>1, <2>2 DEF InHand
<1> QED
  BY <1>2, <1>3

(* The loop moves on within the attempt: nothing the lease depends on.     *)
LEMMA MovesOnHeld ==
  ASSUME TypeOK, HeldInv, UNCHANGED <<inflight, faults>>, NEW w \in Workers, NEW l \in Worker, Becomes(w, l),
         Untouched, worker[w].pc # "idle",
         l.action = worker[w].action, l.attempt = worker[w].attempt, l.age = worker[w].age,
         l.call = worker[w].call, worker[w].pc # "reporting", l.pc # "idle"
  PROVE  HeldInv'
<1>1. worker'[w] = l /\ row' = row
  BY DEF TypeOK, LoopsOK, Becomes, Untouched
<1>2. faults = MaxFaults => Held(w)
  BY DEF HeldInv, InHand
<1>3. faults = MaxFaults => Held(w)'
  BY <1>1, <1>2 DEF Held
<1> QED
  BY <1>3, LoopKeepsHeld

(* A worker's own request changes the row that it holds.                   *)
LEMMA StoreOwnRow ==
  ASSUME TypeOK, NEW w \in Workers, NEW op \in {"renew", "failure", "complete"},
         RequestOK(RequestOf(w, op)), Accepted(RequestOf(w, op)), Store(RequestOf(w, op))
  PROVE  \E r \in Row :
           /\ row' = [row EXCEPT ![worker[w].action] = r]
           /\ \A v \in Workers : v # w /\ Held(v) => worker[w].action # worker[v].action
<1> DEFINE m == RequestOf(w, op)
           a == worker[w].action
<1>1. m.action = a /\ m.worker = w /\ m \in Request
  BY DEF RequestOf, RequestOK
<1>2. a \in Actions /\ row[a] \in Row /\ RowOK(row[a]) /\ row[a].state = "running" /\ row[a].owner = w
  BY <1>1 DEF Accepted, Live, TypeOK, TableOK
<1>3. RenewedRow(row[a]) \in Row /\ CompletedRow(row[a]) \in Row
  BY <1>2, RenewedRowOK, CompletedRowOK
<1>4. FailedRow(row[a], m.class, m.code, m.cause) \in Row
  BY <1>1, <1>2, FailedRowOK DEF Request
<1>5. \A v \in Workers : v # w /\ Held(v) => a # worker[v].action
  BY <1>2 DEF Held
<1>6. \E r \in Row : row' = [row EXCEPT ![a] = r]
  BY <1>1, <1>3, <1>4 DEF Store, StoreRenewal, StoreFailure, StoreMaterialization, StoreVerification
<1> QED
  BY <1>5, <1>6

LEMMA ClaimKeepsHeld ==
  ASSUME TypeOK, HeldInv, NEW w \in Workers, Claim(w)
  PROVE  HeldInv'
<1>1. PICK a \in Actions :
        /\ StoreClaim(a, w)
        /\ Becomes(w, [Idle EXCEPT !.pc = "executing", !.action = a, !.attempt = row[a].attempt + 1])
  BY DEF Claim
<1>2. row[a] \in Row /\ RowOK(row[a]) /\ row[a].attempt + 1 \in Nat /\ row \in [Actions -> Row]
  BY DEF TypeOK, TableOK, Row
<1>3. PICK l : l = [Idle EXCEPT !.pc = "executing", !.action = a, !.attempt = row[a].attempt + 1]
  OBVIOUS
<1>4. l \in Worker
  BY <1>2, <1>3, IdleOK DEF Worker
<1>5. l.pc = "executing" /\ l.action = a /\ l.attempt = row[a].attempt + 1 /\ l.age = 0 /\ l.call = 0
  BY <1>3 DEF Idle
<1>6. PICK r : r = ClaimedRow(row[a], w)
  OBVIOUS
<1>7. /\ r \in Row /\ r.state = "running" /\ r.owner = w /\ r.attempt = row[a].attempt + 1
      /\ r.lease = LeaseTTL
  <2>1. r \in Row
    BY <1>2, <1>6, ClaimedRowOK
  <2> QED
    BY <1>2, <1>6, <2>1 DEF ClaimedRow, Row
<1>8. row' = [row EXCEPT ![a] = r] /\ Claimable(row[a])
  BY <1>1, <1>6 DEF StoreClaim
<1>9. Becomes(w, l) /\ worker'[w] = l /\ row'[a] = r
  BY <1>1, <1>2, <1>3, <1>8 DEF Becomes, TypeOK, LoopsOK
<1>10. \A v \in Workers : Held(v) => a # worker[v].action
  <2>1. ASSUME NEW v \in Workers, Held(v), a = worker[v].action
        PROVE  FALSE
    <3>1. row[a].lease > 0 /\ row[a].state = "running"
      BY <2>1, HeldIsLive DEF Held
    <3> QED
      BY <1>2, <1>8, <3>1 DEF Claimable, Row
  <2> QED
    BY <2>1
<1>11. Held(w)'
  <2>1. r.lease + l.age + l.call >= LeaseTTL /\ l.age <= RenewEvery /\ l.call < RequestTimeout
    BY <1>5, <1>7, BoundsAssumption
  <2> QED
    BY <1>5, <1>7, <1>9, <2>1 DEF Held
<1>12. UNCHANGED <<inflight, faults>>
  BY DEF Claim
<1>13. \E b \in Actions, q \in Row :
         /\ row' = [row EXCEPT ![b] = q]
         /\ \A v \in Workers : v # w /\ worker[v].pc # "idle" /\ Held(v) => b # worker[v].action
  BY <1>7, <1>8, <1>10
<1> QED
  BY <1>4, <1>5, <1>9, <1>11, <1>12, <1>13, LoopKeepsHeld

LEMMA RenewKeepsHeld ==
  ASSUME TypeOK, HeldInv, NEW w \in Workers, Renew(w)
  PROVE  HeldInv'
<1> SUFFICES ASSUME faults = MaxFaults PROVE HeldInv'
  BY DEF HeldInv, Renew
<1> DEFINE m == RequestOf(w, "renew")
           a == worker[w].action
<1>1. worker[w].pc \in {"executing", "completing", "handing-over"} /\ Held(w)
  BY DEF Renew, RenewalDue, Renewing, HeldInv, InHand
<1>2. Accepted(m)
  BY <1>1, HeldIsLive
<1>3. /\ Store(m) /\ Becomes(w, [worker[w] EXCEPT !.age = 0])
      /\ UNCHANGED <<inflight, faults>>
  BY <1>2 DEF Renew
<1>4. RequestOK(m)
  BY <1>1, RequestOfOK DEF TypeOK
<1>5. PICK r \in Row :
           /\ row' = [row EXCEPT ![a] = r]
           /\ \A v \in Workers : v # w /\ Held(v) => a # worker[v].action
  BY <1>2, <1>3, <1>4, StoreOwnRow
<1>6. worker[w] \in Worker /\ worker \in [Workers -> Worker] /\ row \in [Actions -> Row] /\ a \in Actions
  BY <1>1 DEF TypeOK, LoopsOK, TableOK, Held
<1>7. PICK l : l = [worker[w] EXCEPT !.age = 0]
  OBVIOUS
<1>8. /\ l \in Worker /\ l.pc = worker[w].pc /\ l.action = a /\ l.attempt = worker[w].attempt
      /\ l.age = 0 /\ l.call = worker[w].call
  BY <1>6, <1>7 DEF Worker
<1>9. Becomes(w, l) /\ worker'[w] = l
  BY <1>3, <1>6, <1>7 DEF Becomes
<1>10. StoreRenewal(m) /\ m.action = a
  BY <1>3 DEF Store, RequestOf
<1>11. /\ row'[a].state = row[a].state /\ row'[a].owner = row[a].owner
       /\ row'[a].attempt = row[a].attempt /\ row'[a].lease = LeaseTTL
  <2>1. row'[a] = RenewedRow(row[a])
    BY <1>6, <1>10 DEF StoreRenewal
  <2>2. row[a] \in Row
    BY <1>6
  <2> QED
    BY <2>1, <2>2 DEF RenewedRow, Row
<1>12. Held(w)'
  <2>1. worker[w].call = 0 /\ l.call < RequestTimeout /\ l.age <= RenewEvery
    BY <1>1, <1>8, BoundsAssumption DEF Held
  <2>2. row'[a].lease + l.age + l.call >= LeaseTTL
    BY <1>8, <1>11, <2>1, BoundsAssumption
  <2> QED
    BY <1>1, <1>8, <1>9, <1>11, <2>1, <2>2 DEF Held
<1>13. \E b \in Actions, q \in Row :
         /\ row' = [row EXCEPT ![b] = q]
         /\ \A v \in Workers : v # w /\ worker[v].pc # "idle" /\ Held(v) => b # worker[v].action
  BY <1>5, <1>6
<1> QED
  BY <1>1, <1>3, <1>8, <1>9, <1>12, <1>13, LoopKeepsHeld

(* An attempt that ends leaves the other rows alone.                       *)
LEMMA IdleKeepsHeld ==
  ASSUME TypeOK, HeldInv, UNCHANGED <<inflight, faults>>, NEW w \in Workers, Becomes(w, Idle),
         NEW op \in {"failure", "complete"}, RequestOK(RequestOf(w, op)),
         (Accepted(RequestOf(w, op)) /\ Store(RequestOf(w, op))) \/ Untouched
  PROVE  HeldInv'
<1>1. Idle \in Worker /\ Idle.pc = "idle" /\ Idle.action = NoAction
  BY IdleOK DEF Idle
<1>2. CASE Untouched
  BY <1>1, <1>2, LoopKeepsHeld
<1>3. CASE Accepted(RequestOf(w, op)) /\ Store(RequestOf(w, op))
  <2>1. PICK r \in Row :
          /\ row' = [row EXCEPT ![worker[w].action] = r]
          /\ \A v \in Workers : v # w /\ Held(v) => worker[w].action # worker[v].action
    BY <1>3, StoreOwnRow
  <2>2. worker[w].action \in Actions
    BY <1>3 DEF Accepted, Live, RequestOf
  <2>3. \E b \in Actions, q \in Row :
          /\ row' = [row EXCEPT ![b] = q]
          /\ \A v \in Workers : v # w /\ worker[v].pc # "idle" /\ Held(v) => b # worker[v].action
    BY <2>1, <2>2
  <2> QED
    BY <1>1, <2>3, LoopKeepsHeld
<1> QED
  BY <1>2, <1>3

LEMMA EndsKeepHeld ==
  ASSUME TypeOK, HeldInv, NEW w \in Workers, Complete(w) \/ HandOver(w) \/ ReportFailure(w)
  PROVE  HeldInv'
<1>1. UNCHANGED <<inflight, faults>> /\ worker[w] \in Worker
  BY DEF Complete, HandOver, ReportFailure, TypeOK, LoopsOK
<1>2. CASE HandOver(w) \/ ReportFailure(w)
  <2>1. RequestOK(RequestOf(w, "failure")) /\ Becomes(w, Idle)
    BY <1>2, RequestOfOK DEF HandOver, ReportFailure, TypeOK
  <2> QED
    BY <1>1, <1>2, <2>1, IdleKeepsHeld DEF HandOver, ReportFailure
<1>3. CASE Complete(w)
  <2>1. RequestOK(RequestOf(w, "complete")) /\ worker[w].pc = "completing"
    BY <1>3, RequestOfOK DEF Complete, TypeOK
  <2>2. CASE Becomes(w, Idle)
    BY <1>1, <1>3, <2>1, <2>2, IdleKeepsHeld DEF Complete
  <2>3. CASE /\ Untouched
             /\ Becomes(w, [worker[w] EXCEPT !.pc = "reporting", !.cause = "infrastructure",
                              !.class = "infrastructure", !.code = "reported"])
    <3>1. PICK l : l = [worker[w] EXCEPT !.pc = "reporting", !.cause = "infrastructure",
                          !.class = "infrastructure", !.code = "reported"]
      OBVIOUS
    <3>2. /\ l \in Worker /\ l.action = worker[w].action /\ l.attempt = worker[w].attempt
          /\ l.age = worker[w].age /\ l.call = worker[w].call /\ l.pc # "idle"
      BY <1>1, <3>1 DEF Worker, Classes, Codes, Causes
    <3>3. Becomes(w, l)
      BY <2>3, <3>1
    <3> QED
      BY <1>1, <2>1, <2>3, <3>2, <3>3, MovesOnHeld
  <2> QED
    BY <1>3, <2>2, <2>3 DEF Complete
<1> QED
  BY <1>2, <1>3

LEMMA ExecutionKeepsHeld ==
  ASSUME TypeOK, HeldInv, NEW w \in Workers, Produce(w) \/ FailToExecute(w) \/ FailInEnvironment(w)
  PROVE  HeldInv'
<1>1. UNCHANGED <<inflight, faults>> /\ Untouched /\ worker[w] \in Worker /\ worker[w].pc = "executing"
  BY DEF Produce, FailToExecute, FailInEnvironment, TypeOK, LoopsOK
<1>2. PICK pc \in {"completing", "reporting", "handing-over"}, cause \in Causes, class \in Classes, code \in Codes :
        Becomes(w, [worker[w] EXCEPT !.pc = pc, !.cause = cause, !.class = class, !.code = code])
  <2>1. CASE Produce(w)
    <3>1. PICK answer \in {"passed", "rejected"} :
            Becomes(w, [worker[w] EXCEPT !.pc = "completing", !.cause = answer])
      BY <2>1 DEF Produce
    <3>2. [worker[w] EXCEPT !.pc = "completing", !.cause = answer]
            = [worker[w] EXCEPT !.pc = "completing", !.cause = answer,
                                !.class = worker[w].class, !.code = worker[w].code]
      BY <1>1 DEF Worker
    <3>3. worker[w].class \in Classes /\ worker[w].code \in Codes /\ answer \in Causes
      BY <1>1 DEF Worker, Causes
    <3>4. Becomes(w, [worker[w] EXCEPT !.pc = "completing", !.cause = answer,
                                       !.class = worker[w].class, !.code = worker[w].code])
      BY <3>1, <3>2
    <3> QED
      BY <3>3, <3>4
  <2>2. CASE FailToExecute(w)
    BY <2>2 DEF FailToExecute, Causes, Classes, Codes
  <2>3. CASE FailInEnvironment(w)
    BY <2>3 DEF FailInEnvironment, Causes, Classes, Codes
  <2> QED
    BY <2>1, <2>2, <2>3
<1>3. PICK l : l = [worker[w] EXCEPT !.pc = pc, !.cause = cause, !.class = class, !.code = code]
  OBVIOUS
<1>4. /\ l \in Worker /\ l.action = worker[w].action /\ l.attempt = worker[w].attempt
      /\ l.age = worker[w].age /\ l.call = worker[w].call /\ l.pc # "idle"
  BY <1>1, <1>3 DEF Worker
<1>5. Becomes(w, l)
  BY <1>2, <1>3
<1> QED
  BY <1>1, <1>4, <1>5, MovesOnHeld

LEMMA ScheduleKeepsHeld ==
  ASSUME TypeOK, HeldInv, NEW a \in Actions, ScheduleMaterialization(a) \/ ScheduleVerification(a)
  PROVE  HeldInv'
<1>1. /\ row[a].state # "running" /\ UNCHANGED <<worker, inflight, faults>>
      /\ row' = [row EXCEPT ![a] = [NoRow EXCEPT !.state = "queued"]]
  BY DEF ScheduleMaterialization, ScheduleVerification, Reschedulable
<1> SUFFICES ASSUME faults = MaxFaults, NEW w \in Workers, worker[w].pc # "idle"
             PROVE  Held(w)'
  BY <1>1 DEF HeldInv, InHand
<1>2. Held(w)
  BY DEF HeldInv, InHand
<1>3. row'[worker[w].action] = row[worker[w].action]
  BY <1>1, <1>2 DEF Held, TypeOK, TableOK
<1> QED
  BY <1>1, <1>2, <1>3 DEF Held

(* A tick takes from the lease what it adds to the age or to the call.     *)
LEMMA TickKeepsHeld ==
  ASSUME TypeOK, HeldInv, Tick
  PROVE  HeldInv'
<1>1. TimePasses /\ UNCHANGED <<inflight, faults>>
  BY DEF Tick, TimePasses
<1> SUFFICES ASSUME faults = MaxFaults, NEW w \in Workers
             PROVE  InHand(w)'
  BY <1>1 DEF HeldInv
<1>2. worker[w] \in Worker /\ row \in [Actions -> Row]
  BY DEF TypeOK, LoopsOK, TableOK
<1> DEFINE older == IF Renewing(w) THEN Up(worker[w].age, RenewEvery) ELSE worker[w].age
           longer == IF worker[w].pc = "reporting" THEN Up(worker[w].call, RequestTimeout)
                                                   ELSE worker[w].call
           a == worker[w].action
<1>3. worker'[w] = [worker[w] EXCEPT !.age = older, !.call = longer]
  BY <1>1, <1>2 DEF TimePasses, Worker
<1> HIDE DEF older, longer
<1>4. /\ worker'[w].pc = worker[w].pc /\ worker'[w].action = a /\ worker'[w].attempt = worker[w].attempt
      /\ worker'[w].age = older /\ worker'[w].call = longer
  BY <1>2, <1>3 DEF Worker
<1> SUFFICES ASSUME worker[w].pc # "idle"
             PROVE  Held(w)'
  BY <1>4 DEF HeldInv, InHand
<1>5. Held(w)
  BY DEF HeldInv, InHand
<1>6. a \in Actions /\ row[a] \in Row /\ row[a].lease > 0
  BY <1>2, <1>5, HeldIsLive DEF Held
<1>7. row'[a] = [row[a] EXCEPT !.lease = Down(row[a].lease), !.wait = Down(row[a].wait)]
  BY <1>1, <1>6 DEF TimePasses, Row
<1>8. /\ row'[a].state = row[a].state /\ row'[a].owner = row[a].owner /\ row'[a].attempt = row[a].attempt
      /\ row'[a].lease = row[a].lease - 1
  BY <1>6, <1>7 DEF Down, Row
<1>9. /\ row[a].lease \in Nat /\ worker[w].age \in Nat /\ worker[w].call \in Nat
      /\ worker[w].age <= RenewEvery /\ worker[w].call < RequestTimeout
      /\ row[a].lease + worker[w].age + worker[w].call >= LeaseTTL
      /\ RenewEvery \in Nat /\ RequestTimeout \in Nat /\ LeaseTTL \in Nat
  BY <1>2, <1>5, <1>6, BoundsAssumption DEF Held, Worker, Row
<1>10. CASE worker[w].pc = "reporting"
  <2>1. older = worker[w].age /\ longer = worker[w].call + 1 /\ longer < RequestTimeout
    <3>1. ~Renewing(w)
      BY <1>10 DEF Renewing
    <3>2. worker[w].call + 1 < RequestTimeout
      BY <1>10 DEF Tick
    <3> QED
      BY <1>9, <1>10, <3>1, <3>2 DEF older, longer, Up
  <2>2. row'[a].lease + older + longer >= LeaseTTL
    BY <1>8, <1>9, <2>1
  <2> QED
    BY <1>4, <1>5, <1>6, <1>8, <1>9, <1>10, <2>1, <2>2 DEF Held
<1>11. CASE worker[w].pc # "reporting"
  <2>1. Renewing(w) /\ worker[w].age < RenewEvery
    <3>1. Renewing(w)
      BY <1>2, <1>4, <1>11 DEF Renewing, Worker
    <3>2. ~(worker[w].age >= RenewEvery)
      BY <3>1 DEF Tick, RenewalDue
    <3> QED
      BY <1>9, <3>1, <3>2
  <2>2. older = worker[w].age + 1 /\ longer = worker[w].call /\ older <= RenewEvery /\ longer = 0
    <3>1. older = worker[w].age + 1
      BY <2>1 DEF older, Up
    <3>2. longer = worker[w].call /\ longer = 0
      BY <1>5, <1>11 DEF longer, Held
    <3> QED
      BY <1>9, <2>1, <3>1, <3>2
  <2>3. row'[a].lease + older + longer >= LeaseTTL /\ longer < RequestTimeout
    BY <1>8, <1>9, <2>2
  <2> QED
    BY <1>4, <1>5, <1>6, <1>8, <2>2, <2>3 DEF Held
<1> QED
  BY <1>10, <1>11

LEMMA FaultEndsIt ==
  ASSUME TypeOK, Fault
  PROVE  HeldInv'
BY BoundsAssumption DEF TypeOK, LoopsOK, Fault, HeldInv

LEMMA NextHeld == TypeOK /\ HeldInv /\ [Next]_vars => HeldInv'
<1> SUFFICES ASSUME TypeOK, HeldInv, [Next]_vars PROVE HeldInv'
  OBVIOUS
<1>1. ASSUME NEW a \in Actions, ScheduleMaterialization(a) \/ ScheduleVerification(a) PROVE HeldInv'
  BY <1>1, ScheduleKeepsHeld
<1>2. ASSUME NEW w \in Workers, Claim(w) \/ Renew(w) PROVE HeldInv'
  BY <1>2, ClaimKeepsHeld, RenewKeepsHeld
<1>3. ASSUME NEW w \in Workers, Produce(w) \/ FailToExecute(w) \/ FailInEnvironment(w) PROVE HeldInv'
  BY <1>3, ExecutionKeepsHeld
<1>4. ASSUME NEW w \in Workers, Complete(w) \/ HandOver(w) \/ ReportFailure(w) PROVE HeldInv'
  BY <1>4, EndsKeepHeld
<1>5. ASSUME NEW w \in Workers,
             AbandonClaim(w) \/ AbandonRenewal(w) \/ AbandonCompletion(w) \/ AbandonHandOver(w)
               \/ AbandonReport(w) \/ Crash(w)
      PROVE  HeldInv'
  BY <1>5, FaultEndsIt DEF AbandonClaim, AbandonRenewal, AbandonCompletion, AbandonHandOver, AbandonReport, Crash
<1>6. ASSUME NEW m \in inflight, DeliverLate(m) PROVE HeldInv'
  BY <1>6 DEF DeliverLate, HeldInv
<1>7. CASE Tick
  BY <1>7, TickKeepsHeld
<1>8. CASE Stall
  BY <1>8, FaultEndsIt DEF Stall
<1>9. CASE UNCHANGED vars
  BY <1>9 DEF vars, HeldInv, InHand, Held
<1> QED
  BY <1>1, <1>2, <1>3, <1>4, <1>5, <1>6, <1>7, <1>8, <1>9 DEF Next

(* The third of the lease and the client's timeout fit in the lease, so as *)
(* long as nothing crashed, stalled or broke, every worker still holds the *)
(* row of its attempt and is alone on it - for every length of the lease,  *)
(* of the interval and of the timeout that satisfy BoundsAssumption.       *)
THEOREM LeaseOutlivesTheAttempt == Spec => []NoLossWithoutFault
<1>1. Init => HeldInv
  BY DEF Init, HeldInv, InHand, Idle
<1>2. TypeOK /\ HeldInv => NoLossWithoutFault
  <2> SUFFICES ASSUME TypeOK, HeldInv, faults = MaxFaults, NEW w \in Workers, worker[w].pc # "idle"
               PROVE  Holds(w) /\ \A v \in Workers \ {w} : worker[v].action # worker[w].action
    BY DEF NoLossWithoutFault
  <2>1. Held(w)
    BY DEF HeldInv, InHand
  <2>2. ASSUME NEW v \in Workers \ {w}, worker[v].action = worker[w].action
        PROVE  FALSE
    <3>1. worker[v] \in Worker /\ worker[v].action \in Actions /\ NoAction \notin Actions
      BY <2>1, <2>2, ActionsAssumption DEF TypeOK, LoopsOK, Held
    <3>2. CASE worker[v].pc # "idle"
      BY <2>1, <2>2, <3>2 DEF HeldInv, InHand, Held
    <3>3. CASE worker[v].pc = "idle"
      BY <3>1, <3>3 DEF HeldInv, InHand
    <3> QED
      BY <3>2, <3>3
  <2> QED
    BY <2>1, <2>2, HeldIsLive
<1> QED
  BY <1>1, <1>2, NextHeld, TypeCorrect, PTL DEF Spec

-----------------------------------------------------------------------------
(***************************************************************************)
(* Runs.  The inductive invariant ties a worker's environment to the       *)
(* attempt it is named after, its executions to the step it is at, and     *)
(* the claims that have begun to the row; what a report says is then about *)
(* a run nobody else can have.                                             *)
(***************************************************************************)

\* The places of a worker: at a build, before it has an environment, with one.
Builds == {"source", "alias", "replace", "unlink", "pre", "create", "created", "write",
           "published", "tidy", "pull", "layer", "resolve", "blobs",
           "manifest", "digest", "store"}
Asks == {"request", "await"}
Uses == {"poll", "execute", "output", "release", "complete", "mark"}

\* The runs that claims of the verify action have begun; the others have left nothing.
Claimed(r) ==
  act.phase = "verify" /\ (r[1] < act.cycle \/ (r[1] = act.cycle /\ r[2] <= act.attempt))

Unused(r) == \A u \in Runs : u[2] = r[2] => done[u][r[1]] = <<>>
Covers(s, r, n) == Len(s) = n /\ \A i \in 1 .. n : s[i] = [run |-> r, step |-> i]

\* What a worker's run and environment are to each other.
RunFits(o) ==
  /\ o.pc = "idle" => o.uid = NoRun
  /\ o.pc # "idle" /\ o.phase = "materialize" => o.pc \in Builds \cup {"fail"} /\ o.uid = NoRun
  /\ o.pc # "idle" /\ o.phase = "verify" =>
       o.pc \in Asks \cup Uses \cup {"fail"} /\ o.run \in Runs /\ Claimed(o.run)
  /\ o.pc \in Asks => o.uid = NoRun
  /\ o.pc \in Uses => o.uid \in Runs /\ o.uid[2] = o.run[2]

\* What it has executed: each step of the plan before the one it is at, once.
DoneFits(o) ==
  /\ o.pc \in Asks \cup {"poll"} => Unused(o.run)
  /\ o.pc = "execute" =>
       /\ o.result = "ok" /\ o.at \in 1 .. StepCount
       /\ Covers(done[o.uid][o.run[1]], o.run, o.at - 1)
  /\ o.pc = "output" =>
       /\ o.at \in 1 .. StepCount
       /\ o.result = "ok" \/ o.result = "bad" \/ o.at = StepCount
       /\ Covers(done[o.uid][o.run[1]], o.run, o.at)
  /\ o.pc = "complete" /\ o.result = "ok" =>
       Covers(done[o.uid][o.run[1]], o.run, StepCount)

\* Nothing was asked for in the name of a run that has yet to ask.
AskFits(o) == o.pc = "request" => req[o.run].step = "none"

WorkPart == \A w \in RuntimeWorkers : RunFits(work[w]) /\ DoneFits(work[w]) /\ AskFits(work[w])

Verifies(w) == work[w].phase = "verify" /\ work[w].pc # "idle"
OneEachPart ==
  \A v, w \in RuntimeWorkers :
    v # w /\ Verifies(v) /\ Verifies(w) => work[v].run # work[w].run

FreshPart == \A r \in Runs : ~Claimed(r) => req[r].step = "none" /\ Unused(r)

EnvironmentPart ==
  \A a \in Attempts :
    IF env[a].phase = "none" THEN env[a] = NoEnv ELSE env[a].uid \in Runs /\ env[a].uid[2] = a

AskedPart ==
  \A r \in Runs :
    /\ req[r].step # "none" => req[r].by \in RuntimeWorkers
    /\ req[r].step = "made" => req[r].uid \in Runs /\ req[r].uid[2] = r[2]

\* The name of an environment is that of the attempt: in a cycle, one run uses it.
DonePart ==
  \A u \in Runs, c \in Cycles : \A i \in 1 .. Len(done[u][c]) : done[u][c][i].run = <<c, u[2]>>

VerdictPart ==
  verdict # NoVerdict =>
    /\ verdict.run \in Runs /\ verdict.uid \in Runs /\ verdict.uid[2] = verdict.run[2]
    /\ Claimed(verdict.run)
    /\ \A w \in RuntimeWorkers :
         Verifies(w) /\ work[w].run = verdict.run => work[w].pc = "mark"
    /\ verdict.passed => Covers(done[verdict.uid][verdict.run[1]], verdict.run, StepCount)

\* Somebody still has the environment who will ask for its release, or could not.
Cared(u) ==
  \/ u \in excused
  \/ \E r \in Runs : req[r].step = "made" /\ req[r].uid = u
  \/ \E w \in RuntimeWorkers : work[w].uid = u /\ work[w].pc # "fail"
Needed(e) == e.phase \in {"provisioning", "ready"} /\ ~e.release
CaredPart == \A a \in Attempts : Needed(env[a]) => Cared(env[a].uid)

RunInv ==
  ExecutionTypeOK /\ WorkPart /\ OneEachPart /\ FreshPart /\ EnvironmentPart /\ AskedPart
  /\ DonePart /\ VerdictPart /\ CaredPart

-----------------------------------------------------------------------------
\* Whose build no other worker may write to: at a node only the owner's is its own.
Entitled(w) == Owns(w) \/ runtime # "node"

\* What the operations at Incus can still do to what it relies on.
JobPart ==
  /\ build.job = "publish" => build.inst /\ build.files = FileCount
  /\ build.job = "create" => ~build.inst
  /\ build.image.spec = "none" => build.image = NoImage
  /\ build.image.spec = "own" => build.image.files = FileCount
  /\ build.manifest => build.blobs

BuildFits(o) ==
  /\ o.pc \in Builds => o.phase = "materialize"
  /\ o.pc \in {"alias", "replace", "unlink", "pre", "create", "created", "write", "published",
               "tidy"} => runtime = "node"
  /\ o.pc \in {"pull", "layer", "resolve", "blobs", "manifest", "digest"} => runtime # "node"
  /\ o.pc = "created" =>
       build.job \in {"create", "none"} /\ (build.job = "none" => build.inst /\ build.files = 0)
  /\ o.pc = "write" =>
       build.job = "none" /\ build.inst /\ build.files = o.at /\ o.at <= FileCount
  /\ o.pc = "tidy" => build.image.spec = "own"
  /\ o.pc = "store" => IF runtime = "node" THEN build.image.spec = "own" ELSE build.manifest

SoundPart == JobPart /\ \A w \in RuntimeWorkers : Entitled(w) => BuildFits(work[w])
BuildInv == AcceptedIsWhole /\ (strayed => runtime = "node") /\ (~strayed => SoundPart)

-----------------------------------------------------------------------------
(* Runs.                                                                   *)

LEMMA RunFacts ==
  ASSUME NEW r \in Runs
  PROVE  /\ r[1] \in Cycles /\ r[2] \in Attempts /\ r[1] \in Nat /\ r[2] \in Nat
         /\ r # NoRun /\ r = <<r[1], r[2]>>
<1>1. r[1] \in Cycles /\ r[2] \in Attempts /\ r = <<r[1], r[2]>>
  BY DEF Runs
<1>2. r[1] \in Nat /\ r[2] \in Nat /\ r[1] # 0
  BY <1>1, ExecutionAssumption DEF Cycles, Attempts, AttemptBound, ExecutionAssumption
<1> QED
  BY <1>1, <1>2 DEF NoRun

LEMMA SameRun ==
  ASSUME NEW r \in Runs, NEW s \in Runs, r[1] = s[1], r[2] = s[2]
  PROVE  r = s
BY RunFacts

LEMMA MakeRun ==
  ASSUME NEW c \in Cycles, NEW a \in Attempts
  PROVE  <<c, a>> \in Runs /\ <<c, a>>[1] = c /\ <<c, a>>[2] = a
BY DEF Runs

LEMMA BoundFacts ==
  /\ AttemptBound \in Nat /\ MaxCycles \in Nat \ {0} /\ StepCount \in Nat \ {0}
  /\ FileCount \in Nat \ {0} /\ MaxMishaps \in Nat /\ 1 \in Cycles
  /\ NoRun \notin Runs
<1>1. NoRun \notin Runs
  BY RunFacts
<1> QED
  BY <1>1, ExecutionAssumption DEF ExecutionAssumption, AttemptBound, Cycles

-----------------------------------------------------------------------------
(* What one step does to a worker's record.                                *)

LEMMA WorkerHere ==
  ASSUME RunInv, NEW w \in RuntimeWorkers
  PROVE  /\ work \in [RuntimeWorkers -> Work] /\ work[w] \in Work
         /\ RunFits(work[w]) /\ DoneFits(work[w]) /\ AskFits(work[w])
BY DEF RunInv, ExecutionTypeOK, WorkPart

LEMMA RestingFits ==
  /\ Resting \in Work /\ Resting.pc = "idle" /\ Resting.uid = NoRun
  /\ Resting.phase = "materialize"
  /\ RunFits(Resting) /\ DoneFits(Resting) /\ AskFits(Resting)
<1>1. 0 \in 0 .. StepCount + FileCount
  BY BoundFacts
<1> QED
  BY <1>1 DEF Resting, Work, Points, Phases, Results, RunFits, DoneFits, AskFits,
              Builds, Asks, Uses

LEMMA GoesTo ==
  ASSUME work \in [RuntimeWorkers -> Work], NEW w \in RuntimeWorkers, NEW pc \in Points, Goto(w, pc)
  PROVE  \E o \in Work : /\ work' = [work EXCEPT ![w] = o]
                         /\ o.pc = pc /\ o.phase = work[w].phase /\ o.run = work[w].run
                         /\ o.at = work[w].at /\ o.waits = work[w].waits /\ o.uid = work[w].uid
                         /\ o.result = work[w].result /\ o.class = work[w].class
<1> DEFINE o == [work[w] EXCEPT !.pc = pc]
<1>1. /\ o \in Work /\ o.pc = pc /\ o.phase = work[w].phase /\ o.run = work[w].run
      /\ o.at = work[w].at /\ o.waits = work[w].waits /\ o.uid = work[w].uid
      /\ o.result = work[w].result /\ o.class = work[w].class
  BY DEF Work
<1>2. work' = [work EXCEPT ![w] = o]
  BY DEF Goto
<1> QED
  BY <1>1, <1>2

LEMMA Fails ==
  ASSUME work \in [RuntimeWorkers -> Work], NEW w \in RuntimeWorkers,
         NEW class \in {"infrastructure", "artifact"}, Fail(w, class)
  PROVE  \E o \in Work : /\ work' = [work EXCEPT ![w] = o]
                         /\ o.pc = "fail" /\ o.phase = work[w].phase /\ o.run = work[w].run
                         /\ o.uid = work[w].uid
<1> DEFINE o == [work[w] EXCEPT !.pc = "fail", !.class = class]
<1>0. class \in {"none", "infrastructure", "artifact"} /\ "fail" \in Points
  BY DEF Points
<1>1. /\ o \in Work /\ o.pc = "fail" /\ o.phase = work[w].phase /\ o.run = work[w].run
      /\ o.uid = work[w].uid
  BY <1>0 DEF Work
<1>2. work' = [work EXCEPT ![w] = o]
  BY DEF Fail
<1> QED
  BY <1>1, <1>2

LEMMA FailureFits ==
  ASSUME NEW o, o.pc = "fail"
  PROVE  DoneFits(o) /\ AskFits(o)
BY DEF DoneFits, AskFits, Asks

(* What a worker's place says of its phase.                                *)
LEMMA PlaceTellsPhase ==
  ASSUME RunInv, NEW w \in RuntimeWorkers
  PROVE  /\ work[w].pc \in Builds => work[w].phase = "materialize" /\ work[w].uid = NoRun
         /\ work[w].pc \in Asks \cup Uses =>
              /\ work[w].phase = "verify" /\ work[w].run \in Runs /\ Claimed(work[w].run)
              /\ Verifies(w)
<1>1. work[w] \in Work /\ RunFits(work[w])
  BY WorkerHere
<1> QED
  BY <1>1 DEF RunFits, Builds, Asks, Uses, Work, Phases, Verifies

-----------------------------------------------------------------------------
(* The kinds of step.                                                      *)

(* Environments go on being needed by someone.                             *)
KeepsCare(w, o) ==
  \A a \in Attempts : Needed(env'[a]) =>
    /\ Needed(env[a]) /\ env'[a].uid = env[a].uid
    /\ env[a].uid \in excused => env[a].uid \in excused'
    /\ env[a].uid = work[w].uid /\ work[w].pc # "fail" =>
         env[a].uid \in excused' \/ (o.uid = env[a].uid /\ o.pc # "fail")

LEMMA CareGoesOn ==
  ASSUME RunInv, NEW w \in RuntimeWorkers, NEW o \in Work, work' = [work EXCEPT ![w] = o],
         req' = req,
         KeepsCare(w, o)
  PROVE  CaredPart'
<1> SUFFICES ASSUME NEW a \in Attempts, Needed(env'[a]), NEW u, u = env'[a].uid
             PROVE  Cared(u)'
  BY DEF CaredPart, Needed, Cared
<1>1. Cared(u) /\ env[a].uid = u
  BY DEF RunInv, CaredPart, KeepsCare
<1>2. work \in [RuntimeWorkers -> Work]
  BY WorkerHere
<1>3. CASE u \in excused
  BY <1>1, <1>3 DEF Cared, KeepsCare
<1>4. CASE \E r \in Runs : req[r].step = "made" /\ req[r].uid = u
  BY <1>4 DEF Cared
<1>5. ASSUME NEW v \in RuntimeWorkers, work[v].uid = u, work[v].pc # "fail"
      PROVE  Cared(u)'
  <2>1. CASE v = w
    BY <1>1, <1>2, <1>5, <2>1 DEF Cared, KeepsCare
  <2>2. CASE v # w
    BY <1>2, <1>5, <2>2 DEF Cared
  <2> QED
    BY <2>1, <2>2
<1> QED
  BY <1>1, <1>3, <1>4, <1>5 DEF Cared

(* A worker keeps its run until it is idle, and reports once.              *)
OnWay(w, o) ==
  \/ o.pc = "idle"
  \/ /\ work[w].pc \notin {"idle", "mark"}
     /\ o.run = work[w].run /\ o.phase = work[w].phase
  \/ o = work[w]

CountersFit == mishaps \in 0 .. MaxMishaps /\ strayed \in BOOLEAN
RowKeeps ==
  act' \in ActionRow /\ act'.phase = act.phase /\ act'.cycle = act.cycle /\ act'.attempt = act.attempt

LEMMA RunsMove ==
  ASSUME RunInv, NEW w \in RuntimeWorkers, NEW o \in Work, work' = [work EXCEPT ![w] = o],
         RowKeeps, RunFits(o), OnWay(w, o)
  PROVE  (\A v \in RuntimeWorkers : RunFits(work[v])') /\ OneEachPart'
<1>1. work \in [RuntimeWorkers -> Work]
  BY WorkerHere
<1>2. ASSUME NEW v \in RuntimeWorkers
      PROVE  RunFits(work[v])'
  <2>1. PICK p : p = work'[v] /\ RunFits(p)
    BY <1>1, WorkerHere
  <2> QED
    BY <2>1 DEF RunFits, Claimed, RowKeeps
<1>3. OneEachPart'
  BY <1>1 DEF RunInv, OneEachPart, Verifies, OnWay
<1> QED
  BY <1>2, <1>3

LEMMA DoneMoves ==
  ASSUME RunInv, NEW w \in RuntimeWorkers, NEW o \in Work, work' = [work EXCEPT ![w] = o],
         done' = done, DoneFits(o)
  PROVE  \A v \in RuntimeWorkers : DoneFits(work[v])'
<1> SUFFICES ASSUME NEW v \in RuntimeWorkers
             PROVE  DoneFits(work[v])'
  OBVIOUS
<1>1. PICK p : p = work'[v] /\ DoneFits(p)
  BY WorkerHere
<1> QED
  BY <1>1 DEF DoneFits, Unused, Covers

LEMMA AsksMove ==
  ASSUME RunInv, NEW w \in RuntimeWorkers, NEW o \in Work, work' = [work EXCEPT ![w] = o],
         req' = req, AskFits(o)
  PROVE  \A v \in RuntimeWorkers : AskFits(work[v])'
BY WorkerHere DEF AskFits

(* The report stands while no one goes on with its run.                    *)
LEMMA VerdictStands ==
  ASSUME RunInv, NEW w \in RuntimeWorkers, NEW o \in Work, work' = [work EXCEPT ![w] = o],
         RowKeeps, verdict' = verdict, done' = done, OnWay(w, o)
  PROVE  VerdictPart'
<1>1. work \in [RuntimeWorkers -> Work] /\ VerdictPart
  BY WorkerHere DEF RunInv
<1>2. ASSUME verdict # NoVerdict, NEW v \in RuntimeWorkers, Verifies(v)', work'[v].run = verdict.run
      PROVE  work'[v].pc = "mark"
  BY <1>1, <1>2 DEF VerdictPart, Verifies, OnWay
<1>3. Claimed(verdict.run)' = Claimed(verdict.run)
  BY DEF Claimed, RowKeeps
<1> QED
  BY <1>1, <1>2, <1>3 DEF VerdictPart, Claimed, Covers

(* A worker goes from one place to another.                                *)
LEMMA Walks ==
  ASSUME RunInv, NEW w \in RuntimeWorkers, NEW o \in Work, work' = [work EXCEPT ![w] = o],
         RowKeeps, UNCHANGED <<runtime, req, done, verdict>>,
         build' \in Build, artifact' \in Image, CountersFit', excused' \subseteq Runs,
         env' \in [Attempts -> VerificationEnvironment], EnvironmentPart',
         RunFits(o), DoneFits(o), AskFits(o), OnWay(w, o), KeepsCare(w, o)
  PROVE  RunInv'
<1>1. CaredPart'
  BY CareGoesOn
<1>2. WorkPart' /\ OneEachPart'
  BY RunsMove, DoneMoves, AsksMove DEF WorkPart
<1>3. VerdictPart'
  BY VerdictStands
<1>4. ExecutionTypeOK'
  BY DEF RunInv, ExecutionTypeOK, RowKeeps, CountersFit
<1>5. FreshPart' /\ DonePart' /\ AskedPart'
  BY DEF RunInv, FreshPart, DonePart, AskedPart, Unused, Claimed, RowKeeps
<1> QED
  BY <1>1, <1>2, <1>3, <1>4, <1>5 DEF RunInv

LEMMA Excused ==
  ASSUME RunInv, NEW u, Excuse(u)
  PROVE  /\ excused' \subseteq Runs
         /\ \A a \in Attempts :
              Needed(env[a]) /\ (env[a].uid \in excused \/ env[a].uid = u) => env[a].uid \in excused'
<1>1. env \in [Attempts -> VerificationEnvironment] /\ EnvironmentPart
  BY DEF RunInv, ExecutionTypeOK
<1>2. excused' \subseteq Runs
  BY <1>1 DEF Excuse, VerificationEnvironment
<1>3. ASSUME NEW a \in Attempts, Needed(env[a]), env[a].uid \in excused \/ env[a].uid = u
      PROVE  env[a].uid \in excused'
  <2>1. env[a].uid \in Runs
    BY <1>1, <1>3 DEF EnvironmentPart, Needed
  <2>2. env[a].uid # NoRun
    BY <2>1, RunFacts
  <2> QED
    BY <1>3, <2>2 DEF Excuse
<1> QED
  BY <1>2, <1>3

LEMMA WalksAndExcuses ==
  ASSUME RunInv, NEW w \in RuntimeWorkers, NEW o \in Work, work' = [work EXCEPT ![w] = o], RowKeeps,
         UNCHANGED <<runtime, req, env, done, verdict>>,
         build' \in Build, artifact' \in Image, CountersFit',
         Excuse(work[w].uid), RunFits(o), DoneFits(o), AskFits(o), OnWay(w, o)
  PROVE  RunInv'
<1>1. excused' \subseteq Runs /\ KeepsCare(w, o)
  BY Excused DEF KeepsCare
<1>2. env' \in [Attempts -> VerificationEnvironment] /\ EnvironmentPart'
  BY DEF RunInv, ExecutionTypeOK, EnvironmentPart
<1> QED
  BY <1>1, <1>2, Walks

LEMMA WalksOn ==
  ASSUME RunInv, NEW w \in RuntimeWorkers, NEW o \in Work, work' = [work EXCEPT ![w] = o], RowKeeps,
         UNCHANGED <<runtime, req, env, done, verdict, excused>>,
         build' \in Build, artifact' \in Image, CountersFit',
         RunFits(o), DoneFits(o), AskFits(o), OnWay(w, o),
         \/ o.uid = work[w].uid /\ o.pc # "fail"
         \/ work[w].uid = NoRun
         \/ work[w].pc = "fail"
  PROVE  RunInv'
<1>1. \A a \in Attempts : Needed(env[a]) => env[a].uid # NoRun
  BY RunFacts DEF RunInv, EnvironmentPart, Needed
<1>2. KeepsCare(w, o)
  BY <1>1 DEF KeepsCare
<1>3. /\ env' \in [Attempts -> VerificationEnvironment] /\ EnvironmentPart'
      /\ excused' \subseteq Runs
  BY DEF RunInv, ExecutionTypeOK, EnvironmentPart
<1> QED
  BY <1>2, <1>3, Walks

LEMMA Untaken ==
  ASSUME RunInv
  PROVE  /\ act \in ActionRow /\ build \in Build /\ artifact \in Image
         /\ act' = act => RowKeeps
         /\ strayed' \in BOOLEAN /\ (Mishap \/ mishaps' = mishaps) => CountersFit'
         /\ strayed' = strayed /\ (Mishap \/ mishaps' = mishaps) => CountersFit'
<1>1. /\ act \in ActionRow /\ build \in Build /\ artifact \in Image
      /\ mishaps \in 0 .. MaxMishaps /\ strayed \in BOOLEAN
  BY DEF RunInv, ExecutionTypeOK
<1>2. Mishap \/ mishaps' = mishaps => mishaps' \in 0 .. MaxMishaps
  BY <1>1, BoundFacts DEF Mishap
<1> QED
  BY <1>1, <1>2 DEF RowKeeps, CountersFit

LEMMA FailingFits ==
  ASSUME NEW p, RunFits(p), p.pc # "idle", NEW o, o.pc = "fail",
         o.phase = p.phase, o.run = p.run, o.uid = p.uid
  PROVE  RunFits(o) /\ DoneFits(o) /\ AskFits(o)
BY FailureFits DEF RunFits, Asks, Uses

-----------------------------------------------------------------------------
(* Losses and failures.                                                    *)

LEMMA QuitExcused ==
  ASSUME RunInv, NEW w \in RuntimeWorkers, Quit(w), Excuse(work[w].uid),
         UNCHANGED <<runtime, act, build, artifact, req, env, done, verdict>>,
         CountersFit'
  PROVE  RunInv'
<1>1. PICK o \in Work : o = Resting
  BY RestingFits
<1>2. work' = [work EXCEPT ![w] = o]
  BY <1>1 DEF Quit
<1>3. RunFits(o) /\ DoneFits(o) /\ AskFits(o) /\ OnWay(w, o)
  BY <1>1, RestingFits DEF OnWay
<1>4. build' \in Build /\ artifact' \in Image /\ RowKeeps
  BY Untaken
<1> QED
  BY <1>2, <1>3, <1>4, WalksAndExcuses

LEMMA FailExcused ==
  ASSUME RunInv, NEW w \in RuntimeWorkers, work[w].pc \notin {"idle", "mark"},
         NEW class \in {"infrastructure", "artifact"}, Fail(w, class), Excuse(work[w].uid),
         UNCHANGED <<runtime, act, build, artifact, req, env, done, verdict>>,
         CountersFit'
  PROVE  RunInv'
<1>0. work \in [RuntimeWorkers -> Work] /\ RunFits(work[w])
  BY WorkerHere
<1>1. PICK o \in Work : /\ work' = [work EXCEPT ![w] = o]
                        /\ o.pc = "fail" /\ o.phase = work[w].phase /\ o.run = work[w].run
                        /\ o.uid = work[w].uid
  BY <1>0, Fails
<1>2. RunFits(o) /\ DoneFits(o) /\ AskFits(o) /\ OnWay(w, o)
  BY <1>0, <1>1, FailingFits DEF OnWay
<1>3. build' \in Build /\ artifact' \in Image /\ RowKeeps
  BY Untaken
<1> QED
  BY <1>1, <1>2, <1>3, WalksAndExcuses

LEMMA NoticeLossKept ==
  ASSUME RunInv, NEW w \in RuntimeWorkers, NoticeLoss(w) \/ WorkerCrashes(w)
  PROVE  RunInv'
<1>1. CountersFit'
  BY Untaken DEF NoticeLoss, WorkerCrashes
<1> QED
  BY <1>1, QuitExcused DEF NoticeLoss, WorkerCrashes

LEMMA ToReleaseKept ==
  ASSUME RunInv, NEW w \in RuntimeWorkers, work[w].pc \in {"execute", "output"}, Goto(w, "release"),
         UNCHANGED <<runtime, act, build, artifact, req, env, done, verdict, excused>>,
         CountersFit'
  PROVE  RunInv'
<1>0. work \in [RuntimeWorkers -> Work] /\ RunFits(work[w]) /\ "release" \in Points
  BY WorkerHere DEF Points
<1>1. PICK o \in Work : /\ work' = [work EXCEPT ![w] = o]
                        /\ o.pc = "release" /\ o.phase = work[w].phase /\ o.run = work[w].run
                        /\ o.uid = work[w].uid
  BY <1>0, GoesTo
<1>2. RunFits(o)
  BY <1>0, <1>1 DEF RunFits, Builds, Asks, Uses
<1>3. DoneFits(o) /\ AskFits(o) /\ OnWay(w, o)
  BY <1>1 DEF DoneFits, AskFits, Asks, OnWay
<1>4. build' \in Build /\ artifact' \in Image /\ RowKeeps
  BY Untaken
<1> QED
  BY <1>1, <1>2, <1>3, <1>4, WalksOn

LEMMA CallFailsLeft ==
  ASSUME RunInv, NEW w \in RuntimeWorkers, CallFails(w)
  PROVE  RunInv'
<1>1. CountersFit'
  BY Untaken DEF CallFails
<1>2. CASE work[w].pc \in {"execute", "output"}
  BY <1>1, <1>2, ToReleaseKept DEF CallFails
<1>3. CASE work[w].pc \in {"mark", "fail"}
  BY <1>1, <1>3, QuitExcused DEF CallFails
<1>4. CASE work[w].pc \notin {"execute", "output", "mark", "fail"}
  BY <1>1, <1>4, FailExcused DEF CallFails, At
<1> QED
  BY <1>2, <1>3, <1>4

LEMMA DeadlineKept ==
  ASSUME RunInv, NEW w \in RuntimeWorkers, DeadlinePasses(w)
  PROVE  RunInv'
<1>1. CountersFit'
  BY Untaken DEF DeadlinePasses
<1> QED
  BY <1>1, FailExcused DEF DeadlinePasses, At

LEMMA ReportKept ==
  ASSUME RunInv, NEW w \in RuntimeWorkers, ReportActionFailure(w)
  PROVE  RunInv'
<1>1. PICK o \in Work : o = Resting
  BY RestingFits
<1>2. work' = [work EXCEPT ![w] = o]
  BY <1>1 DEF ReportActionFailure, Quit
<1>3. RunFits(o) /\ DoneFits(o) /\ AskFits(o) /\ OnWay(w, o)
  BY <1>1, RestingFits DEF OnWay
<1>4. act \in ActionRow /\ work[w] \in Work
  BY Untaken, WorkerHere
<1>5. RowKeeps
  BY <1>4 DEF ReportActionFailure, RowKeeps, ActionRow, Work
<1>6. /\ build' \in Build /\ artifact' \in Image /\ CountersFit'
      /\ work[w].pc = "fail"
      /\ UNCHANGED <<runtime, req, env, done, verdict, excused>>
  BY Untaken DEF ReportActionFailure, At
<1> QED
  BY <1>2, <1>3, <1>5, <1>6, WalksOn

-----------------------------------------------------------------------------
(* A build.                                                                *)

BuildStep(w) ==
  /\ work[w].pc \in Builds /\ build' \in Build /\ Builder(w)
  /\ \E o \in Work : /\ work' = [work EXCEPT ![w] = o]
                     /\ o.pc \in Builds \cup {"fail"}
                     /\ o.phase = work[w].phase /\ o.run = work[w].run /\ o.uid = work[w].uid

LEMMA BuildWalks ==
  ASSUME RunInv, NEW w \in RuntimeWorkers, BuildStep(w)
  PROVE  RunInv'
<1>1. PICK o \in Work : /\ work' = [work EXCEPT ![w] = o]
                        /\ o.pc \in Builds \cup {"fail"}
                        /\ o.phase = work[w].phase /\ o.run = work[w].run /\ o.uid = work[w].uid
  BY DEF BuildStep
<1>2. work[w].phase = "materialize" /\ work[w].uid = NoRun /\ work[w].pc \in Builds
  BY PlaceTellsPhase DEF BuildStep
<1>3. RunFits(o) /\ DoneFits(o) /\ AskFits(o)
  BY <1>1, <1>2 DEF RunFits, DoneFits, AskFits, Builds, Asks, Uses
<1>4. OnWay(w, o)
  BY <1>1, <1>2 DEF OnWay, Builds
<1>5. /\ build' \in Build /\ artifact' \in Image /\ CountersFit' /\ RowKeeps
      /\ UNCHANGED <<runtime, req, env, done, verdict, excused>>
  BY Untaken DEF BuildStep, Builder, BuildKeeps
<1> QED
  BY <1>1, <1>2, <1>3, <1>4, <1>5, WalksOn

LEMMA BuildTypes ==
  ASSUME RunInv
  PROVE  /\ build \in Build /\ build.files \in 0 .. FileCount /\ build.image \in Image
         /\ NoImage \in Image /\ 0 \in 0 .. FileCount /\ FileCount \in 0 .. FileCount
         /\ \A n \in 0 .. FileCount : [spec |-> "own", files |-> n] \in Image
<1>1. build \in Build /\ 0 \in 0 .. FileCount /\ FileCount \in 0 .. FileCount
  BY Untaken, BoundFacts
<1> QED
  BY <1>1 DEF Build, Image, NoImage

LEMMA BuildGoesTo ==
  ASSUME RunInv, NEW w \in RuntimeWorkers, work[w].pc \in Builds, NEW pc \in Builds, Goto(w, pc),
         build' \in Build, Builder(w)
  PROVE  BuildStep(w)
<1>1. work \in [RuntimeWorkers -> Work] /\ pc \in Points
  BY WorkerHere DEF Builds, Points
<1>2. PICK o \in Work : /\ work' = [work EXCEPT ![w] = o]
                        /\ o.pc = pc /\ o.phase = work[w].phase /\ o.run = work[w].run
                        /\ o.uid = work[w].uid
  BY <1>1, GoesTo
<1> QED
  BY <1>2 DEF BuildStep

LEMMA BuildGivesUp ==
  ASSUME RunInv, NEW w \in RuntimeWorkers, work[w].pc \in Builds,
         NEW class \in {"infrastructure", "artifact"}, Fail(w, class),
         build' \in Build, Builder(w)
  PROVE  BuildStep(w)
<1>1. work \in [RuntimeWorkers -> Work]
  BY WorkerHere
<1>2. PICK o \in Work : /\ work' = [work EXCEPT ![w] = o]
                        /\ o.pc = "fail" /\ o.phase = work[w].phase /\ o.run = work[w].run
                        /\ o.uid = work[w].uid
  BY <1>1, Fails
<1> QED
  BY <1>2 DEF BuildStep

LEMMA NodeBuildSteps ==
  ASSUME RunInv, NEW w \in RuntimeWorkers,
         \/ ReadSource(w) \/ GetImageAlias(w) \/ DeleteBuildInstance(w) \/ WaitDeleted(w)
         \/ DeleteOwnedImageAlias(w) \/ CreateInstance(w) \/ WaitCreated(w)
         \/ CreateInstanceFile(w) \/ CreateImage(w) \/ WaitPublished(w)
  PROVE  BuildStep(w)
<1>0. work \in [RuntimeWorkers -> Work] /\ work[w] \in Work
  BY WorkerHere
<1>1. CASE ReadSource(w)
  <2>1. work[w].pc \in Builds /\ build' \in Build /\ Builder(w)
    BY <1>1, BuildTypes DEF ReadSource, At, Builds
  <2>2. Goto(w, "alias") \/ Goto(w, "pull") \/ Fail(w, "artifact")
    BY <1>1 DEF ReadSource
  <2>3. "alias" \in Builds /\ "pull" \in Builds
    BY DEF Builds
  <2> QED
    BY <2>1, <2>2, <2>3, BuildGoesTo, BuildGivesUp
<1>2. CASE GetImageAlias(w)
  <2>1. work[w].pc \in Builds /\ build' \in Build /\ Builder(w)
    BY <1>2, BuildTypes DEF GetImageAlias, At, Builds
  <2>2. Goto(w, "pre") \/ Goto(w, "tidy") \/ Goto(w, "replace")
    BY <1>2 DEF GetImageAlias
  <2>3. "pre" \in Builds /\ "tidy" \in Builds /\ "replace" \in Builds
    BY DEF Builds
  <2> QED
    BY <2>1, <2>2, <2>3, BuildGoesTo
<1>3. CASE DeleteBuildInstance(w)
  <2>1. work[w].pc \in Builds /\ work[w].pc \in {"replace", "pre", "tidy"} /\ Builder(w)
    BY <1>3 DEF DeleteBuildInstance, AfterDelete, Builds
  <2>2. CASE ~build.inst
    <3>1. AfterDelete[work[w].pc] \in Builds
      BY <2>1 DEF AfterDelete, Builds
    <3>2. Goto(w, AfterDelete[work[w].pc]) /\ build' = build
      BY <1>3, <2>2 DEF DeleteBuildInstance
    <3> QED
      BY <2>1, <3>1, <3>2, BuildGoesTo, BuildTypes
  <2>3. CASE build.inst /\ build.job # "none"
    <3>1. Fail(w, "infrastructure") /\ build' = build
      BY <1>3, <2>3 DEF DeleteBuildInstance
    <3> QED
      BY <2>1, <3>1, BuildGivesUp, BuildTypes
  <2>4. CASE build.inst /\ build.job = "none"
    <3>1. build' = [build EXCEPT !.job = "delete"] /\ work' = [work EXCEPT ![w].waits = TRUE]
      BY <1>3, <2>4 DEF DeleteBuildInstance
    <3>2. build' \in Build
      BY <3>1, BuildTypes DEF Build
    <3> DEFINE o == [work[w] EXCEPT !.waits = TRUE]
    <3>3. o \in Work /\ o.pc = work[w].pc /\ o.phase = work[w].phase /\ o.run = work[w].run
          /\ o.uid = work[w].uid
      BY <1>0 DEF Work
    <3>4. work' = [work EXCEPT ![w] = o]
      BY <3>1
    <3> QED
      BY <2>1, <3>2, <3>3, <3>4 DEF BuildStep
  <2> QED
    BY <2>2, <2>3, <2>4, BuildTypes DEF Build
<1>4. CASE WaitDeleted(w)
  <2>1. work[w].pc \in Builds /\ work[w].pc \in {"replace", "pre", "tidy"} /\ Builder(w)
        /\ build' \in Build
    BY <1>4, BuildTypes DEF WaitDeleted, AfterDelete, Builds
  <2> DEFINE o == [work[w] EXCEPT !.pc = AfterDelete[work[w].pc], !.waits = FALSE]
  <2>2. AfterDelete[work[w].pc] \in Builds /\ AfterDelete[work[w].pc] \in Points
    BY <2>1 DEF AfterDelete, Builds, Points
  <2>3. o \in Work /\ o.pc \in Builds /\ o.phase = work[w].phase /\ o.run = work[w].run
        /\ o.uid = work[w].uid
    BY <1>0, <2>2 DEF Work
  <2>4. work' = [work EXCEPT ![w] = o]
    BY <1>4 DEF WaitDeleted
  <2> QED
    BY <2>1, <2>3, <2>4 DEF BuildStep
<1>5. CASE DeleteOwnedImageAlias(w)
  <2>1. work[w].pc \in Builds /\ "pre" \in Builds /\ Builder(w) /\ Goto(w, "pre")
    BY <1>5 DEF DeleteOwnedImageAlias, At, Builds
  <2>2. build' \in Build
    BY <1>5, BuildTypes DEF DeleteOwnedImageAlias, Build
  <2> QED
    BY <2>1, <2>2, BuildGoesTo
<1>6. CASE CreateInstance(w)
  <2>1. work[w].pc \in Builds /\ "created" \in Builds /\ Builder(w)
        /\ (Fail(w, "infrastructure") \/ Goto(w, "created"))
    BY <1>6 DEF CreateInstance, At, Builds
  <2>2. build' \in Build
    BY <1>6, BuildTypes DEF CreateInstance, Build
  <2> QED
    BY <2>1, <2>2, BuildGoesTo, BuildGivesUp
<1>7. CASE WaitCreated(w)
  <2>1. work[w].pc \in Builds /\ Builder(w) /\ build' \in Build
    BY <1>7, BuildTypes DEF WaitCreated, At, Builds
  <2> DEFINE o == [work[w] EXCEPT !.pc = "write", !.at = 0]
  <2>2. 0 \in 0 .. StepCount + FileCount /\ "write" \in Points /\ "write" \in Builds
    BY BoundFacts DEF Points, Builds
  <2>3. o \in Work /\ o.pc \in Builds /\ o.phase = work[w].phase /\ o.run = work[w].run
        /\ o.uid = work[w].uid
    BY <1>0, <2>2 DEF Work
  <2>4. work' = [work EXCEPT ![w] = o]
    BY <1>7 DEF WaitCreated
  <2> QED
    BY <2>1, <2>3, <2>4 DEF BuildStep
<1>8. CASE CreateInstanceFile(w)
  <2>1. work[w].pc \in Builds /\ Builder(w) /\ work[w].at < FileCount
    BY <1>8 DEF CreateInstanceFile, At, Builds
  <2>2. CASE ~build.inst
    BY <1>8, <2>1, <2>2, BuildGivesUp, BuildTypes DEF CreateInstanceFile
  <2>3. CASE build.inst
    <3>1. build' = [build EXCEPT !.files = work[w].at + 1] /\ work' = [work EXCEPT ![w].at = @ + 1]
      BY <1>8, <2>3 DEF CreateInstanceFile
    <3>2. work[w].at + 1 \in 0 .. FileCount /\ work[w].at + 1 \in 0 .. StepCount + FileCount
      BY <1>0, <2>1, BoundFacts DEF Work
    <3>3. build' \in Build
      BY <3>1, <3>2, BuildTypes DEF Build
    <3> DEFINE o == [work[w] EXCEPT !.at = work[w].at + 1]
    <3>4. o \in Work /\ o.pc = work[w].pc /\ o.phase = work[w].phase /\ o.run = work[w].run
          /\ o.uid = work[w].uid
      BY <1>0, <3>2 DEF Work
    <3>5. work' = [work EXCEPT ![w] = o]
      BY <3>1
    <3> QED
      BY <2>1, <3>3, <3>4, <3>5 DEF BuildStep
  <2> QED
    BY <2>2, <2>3, BuildTypes DEF Build
<1>9. CASE CreateImage(w)
  <2>1. work[w].pc \in Builds /\ "published" \in Builds /\ Builder(w)
        /\ (Fail(w, "infrastructure") \/ Goto(w, "published"))
    BY <1>9 DEF CreateImage, At, Builds
  <2>2. build' \in Build
    BY <1>9, BuildTypes DEF CreateImage, Build
  <2> QED
    BY <2>1, <2>2, BuildGoesTo, BuildGivesUp
<1>10. CASE WaitPublished(w)
  <2>1. work[w].pc \in Builds /\ "tidy" \in Builds /\ Builder(w) /\ build' \in Build
        /\ (Fail(w, "infrastructure") \/ Goto(w, "tidy"))
    BY <1>10, BuildTypes DEF WaitPublished, At, Builds
  <2> QED
    BY <2>1, BuildGoesTo, BuildGivesUp
<1> QED
  BY <1>1, <1>2, <1>3, <1>4, <1>5, <1>6, <1>7, <1>8, <1>9, <1>10

LEMMA ImageBuildSteps ==
  ASSUME RunInv, NEW w \in RuntimeWorkers,
         \/ PullBaseImage(w) \/ AppendBundleLayer(w) \/ ResolveArtifact(w) \/ PushBlobs(w)
         \/ PushManifest(w) \/ ResolvePublished(w)
  PROVE  BuildStep(w)
<1>1. work[w].pc \in Builds /\ Builder(w)
  BY DEF PullBaseImage, AppendBundleLayer, ResolveArtifact, PushBlobs, PushManifest,
         ResolvePublished, At, Builds
<1>2. build' \in Build
  BY BuildTypes DEF PullBaseImage, AppendBundleLayer, ResolveArtifact, PushBlobs, PushManifest,
         ResolvePublished, Build
<1>3. \E pc \in {"layer", "resolve", "store", "blobs", "manifest", "digest"} : Goto(w, pc)
  BY DEF PullBaseImage, AppendBundleLayer, ResolveArtifact, PushBlobs, PushManifest,
         ResolvePublished
<1>4. {"layer", "resolve", "store", "blobs", "manifest", "digest"} \subseteq Builds
  BY DEF Builds
<1> QED
  BY <1>1, <1>2, <1>3, <1>4, BuildGoesTo

LEMMA BuiltTyped ==
  ASSUME RunInv
  PROVE  Built \in Image
<1>1. "own" \in {"none", "own", "other"} /\ "none" \in {"none", "own", "other"}
  OBVIOUS
<1> QED
  BY <1>1, BuildTypes DEF Built, Image

LEMMA AcceptKept ==
  ASSUME RunInv, NEW w \in RuntimeWorkers, CompleteMaterialization(w)
  PROVE  RunInv'
<1>1. PICK o \in Work : o = Resting
  BY RestingFits
<1>2. work' = [work EXCEPT ![w] = o]
  BY <1>1 DEF CompleteMaterialization, Quit
<1>3. RunFits(o) /\ DoneFits(o) /\ AskFits(o) /\ OnWay(w, o)
  BY <1>1, RestingFits DEF OnWay
<1>4. act \in ActionRow /\ work[w].uid = NoRun
  BY Untaken, PlaceTellsPhase DEF CompleteMaterialization, At, Builds
<1>5. RowKeeps
  BY <1>4 DEF CompleteMaterialization, RowKeeps, ActionRow
<1>6. /\ build' \in Build /\ artifact' \in Image /\ CountersFit'
      /\ UNCHANGED <<runtime, req, env, done, verdict, excused>>
  BY Untaken, BuiltTyped DEF CompleteMaterialization
<1> QED
  BY <1>2, <1>3, <1>4, <1>5, <1>6, WalksOn

LEMMA JobEndsTyped ==
  ASSUME RunInv, JobEnds
  PROVE  build' \in Build
<1>1. build' = [build EXCEPT !.job = "none",
         !.inst = IF build.job = "create" THEN TRUE
                  ELSE IF build.job = "delete" THEN FALSE ELSE build.inst,
         !.files = IF build.job = "publish" THEN build.files ELSE 0,
         !.image = IF build.job = "publish" THEN [spec |-> "own", files |-> build.files]
                   ELSE build.image]
  BY DEF JobEnds
<1> QED
  BY <1>1, BuildTypes DEF Build

(* Nobody moves, and runs that have begun have begun.                      *)
ClaimsGrow == act' \in ActionRow /\ \A r \in Runs : Claimed(r) => Claimed(r)'

LEMMA ClaimsStand ==
  ASSUME RowKeeps
  PROVE  ClaimsGrow
BY DEF RowKeeps, ClaimsGrow, Claimed

LEMMA NobodyMoves ==
  ASSUME RunInv, ClaimsGrow,
         UNCHANGED <<runtime, work, req, env, done, verdict, excused>>,
         build' \in Build, artifact' \in Image, CountersFit'
  PROVE  RunInv'
<1>2. ExecutionTypeOK'
  BY DEF RunInv, ExecutionTypeOK, ClaimsGrow, CountersFit
<1>3. WorkPart'
  <2> SUFFICES ASSUME NEW w \in RuntimeWorkers
               PROVE  RunFits(work[w])' /\ DoneFits(work[w])' /\ AskFits(work[w])'
    BY DEF WorkPart
  <2>1. work[w].run \in Runs /\ Claimed(work[w].run) => Claimed(work[w].run)'
    <3>1. PICK r : r = work[w].run
      OBVIOUS
    <3>2. Claimed(r)' = Claimed(work[w].run)'
      BY <3>1 DEF Claimed
    <3> QED
      BY <3>1, <3>2 DEF ClaimsGrow
  <2>2. RunFits(work[w])'
    BY <2>1, WorkerHere DEF RunFits
  <2>3. DoneFits(work[w])' /\ AskFits(work[w])'
    BY WorkerHere DEF DoneFits, AskFits, Unused, Covers
  <2> QED
    BY <2>2, <2>3
<1>4. OneEachPart' /\ EnvironmentPart' /\ AskedPart' /\ DonePart' /\ CaredPart'
  BY DEF RunInv, OneEachPart, Verifies, EnvironmentPart, AskedPart, DonePart, CaredPart, Cared,
         Needed
<1>5. FreshPart'
  BY DEF RunInv, FreshPart, Unused, ClaimsGrow
<1>6. VerdictPart'
  <2>1. verdict.run \in Runs /\ Claimed(verdict.run) => Claimed(verdict.run)'
    <3>1. PICK r : r = verdict.run
      OBVIOUS
    <3>2. Claimed(r)' = Claimed(verdict.run)'
      BY <3>1 DEF Claimed
    <3> QED
      BY <3>1, <3>2 DEF ClaimsGrow
  <2> QED
    BY <2>1 DEF RunInv, VerdictPart, Verifies, Covers
<1> QED
  BY <1>2, <1>3, <1>4, <1>5, <1>6 DEF RunInv

LEMMA JobOrLapseKept ==
  ASSUME RunInv, JobEnds \/ LeaseLapses
  PROVE  RunInv'
<1>1. CASE JobEnds
  BY <1>1, JobEndsTyped, Untaken, ClaimsStand, NobodyMoves DEF JobEnds, BuildKeeps
<1>2. CASE LeaseLapses
  <2>1. RowKeeps
    BY <1>2, Untaken DEF LeaseLapses, RowKeeps, ActionRow
  <2> QED
    BY <1>2, <2>1, Untaken, ClaimsStand, NobodyMoves DEF LeaseLapses
<1> QED
  BY <1>1, <1>2

-----------------------------------------------------------------------------
(* The verification environment, at the Server.                            *)

LEMMA NoRequestTyped == NoRequest \in EnvironmentRequest /\ NoRequest.step = "none"
BY DEF NoRequest, EnvironmentRequest

LEMMA AskingHere ==
  ASSUME RunInv, NEW w \in RuntimeWorkers, work[w].pc \in Asks \cup Uses
  PROVE  /\ work[w] \in Work /\ work[w].phase = "verify" /\ Verifies(w)
         /\ work[w].run \in Runs /\ work[w].run[1] \in Cycles /\ work[w].run[2] \in Attempts
         /\ Claimed(work[w].run)
         /\ work[w].pc \in Asks => work[w].uid = NoRun
         /\ work[w].pc \in Uses => work[w].uid \in Runs /\ work[w].uid[2] = work[w].run[2]
BY PlaceTellsPhase, WorkerHere, RunFacts DEF RunFits

(* Releasing an environment takes it from those that need somebody.        *)
LEMMA Marks ==
  ASSUME RunInv, NEW u \in Runs, env' = Marked(u)
  PROVE  /\ env' \in [Attempts -> VerificationEnvironment] /\ EnvironmentPart'
         /\ \A a \in Attempts : Needed(env'[a]) =>
              Needed(env[a]) /\ env'[a].uid = env[a].uid /\ env[a].uid # u
<1>1. env \in [Attempts -> VerificationEnvironment] /\ EnvironmentPart
  BY DEF RunInv, ExecutionTypeOK
<1>2. \A a \in Attempts :
        env'[a] = IF env[a].uid = u THEN [env[a] EXCEPT !.release = TRUE] ELSE env[a]
  BY DEF Marked
<1>3. ASSUME NEW a \in Attempts
      PROVE  /\ env'[a] \in VerificationEnvironment
             /\ env'[a].uid = env[a].uid /\ env'[a].phase = env[a].phase
             /\ env[a].uid = u => env'[a].release
             /\ env[a].uid # u => env'[a] = env[a]
  <2>1. env[a] \in VerificationEnvironment
    BY <1>1
  <2> QED
    BY <1>2, <2>1 DEF VerificationEnvironment
<1>4. env' \in [Attempts -> VerificationEnvironment]
  <2>1. env' = [a \in Attempts |-> env'[a]]
    BY DEF Marked
  <2> QED
    BY <1>3, <2>1
<1>5. NoEnv.phase = "none" /\ NoEnv.uid = NoRun /\ NoRun # u
  BY RunFacts DEF NoEnv
<1>6. EnvironmentPart'
  BY <1>1, <1>3, <1>5 DEF EnvironmentPart
<1> QED
  BY <1>3, <1>4, <1>6 DEF Needed

LEMMA EnvironmentStays ==
  ASSUME RunInv, env' = env
  PROVE  env' \in [Attempts -> VerificationEnvironment] /\ EnvironmentPart'
BY DEF RunInv, ExecutionTypeOK, EnvironmentPart

LEMMA RequestEnvironmentKept ==
  ASSUME RunInv, NEW w \in RuntimeWorkers, RequestEnvironment(w)
  PROVE  RunInv'
<1>1. /\ work[w].pc = "request" /\ UNCHANGED <<env, excused>> /\ WithoutMishap
      /\ work \in [RuntimeWorkers -> Work] /\ DoneFits(work[w]) /\ AskFits(work[w])
  BY WorkerHere DEF RequestEnvironment, At
<1>2. /\ work[w].phase = "verify" /\ Verifies(w) /\ work[w].uid = NoRun
      /\ work[w].run \in Runs /\ Claimed(work[w].run)
  BY <1>1, AskingHere DEF Asks
<1>3. RowKeeps /\ build' \in Build /\ artifact' \in Image /\ CountersFit'
  BY <1>1, Untaken DEF WithoutMishap, ServerKeeps
<1>4. CASE ~LeaseOf(work[w].run, w)
  <2>1. PICK o \in Work : o = Resting
    BY RestingFits
  <2>2. work' = [work EXCEPT ![w] = o] /\ req' = req
    BY <1>4, <2>1 DEF RequestEnvironment, Quit
  <2>3. RunFits(o) /\ DoneFits(o) /\ AskFits(o) /\ OnWay(w, o)
    BY <2>1, RestingFits DEF OnWay
  <2> QED
    BY <1>1, <1>2, <1>3, <2>2, <2>3, WalksOn DEF WithoutMishap, ServerKeeps
<1>5. CASE LeaseOf(work[w].run, w)
  <2>1. Goto(w, "await") /\ "await" \in Points
    BY <1>5 DEF RequestEnvironment, Points
  <2>2. PICK o \in Work : /\ work' = [work EXCEPT ![w] = o]
                          /\ o.pc = "await" /\ o.phase = work[w].phase /\ o.run = work[w].run
                          /\ o.uid = work[w].uid
    BY <1>1, <2>1, GoesTo
  <2>3. RunFits(o) /\ AskFits(o) /\ DoneFits(o) /\ OnWay(w, o)
    BY <1>1, <1>2, <2>2 DEF RunFits, AskFits, DoneFits, OnWay, Builds, Asks, Uses
  <2>4. PICK q \in EnvironmentRequest :
          /\ req' = [req EXCEPT ![work[w].run] = q]
          /\ q.step = "valid" /\ q.by = w
    <3>1. req' = [req EXCEPT ![work[w].run] = [NoRequest EXCEPT !.step = "valid", !.by = w]]
      BY <1>5 DEF RequestEnvironment
    <3>2. [NoRequest EXCEPT !.step = "valid", !.by = w] \in EnvironmentRequest
      BY DEF NoRequest, EnvironmentRequest
    <3>3. /\ [NoRequest EXCEPT !.step = "valid", !.by = w].step = "valid"
          /\ [NoRequest EXCEPT !.step = "valid", !.by = w].by = w
      BY DEF NoRequest
    <3> QED
      BY <3>1, <3>2, <3>3
  <2>5. req \in [Runs -> EnvironmentRequest] /\ req[work[w].run].step = "none"
    BY <1>1 DEF RunInv, ExecutionTypeOK, AskFits
  <2>6. ExecutionTypeOK'
    BY <1>1, <1>3, <2>2, <2>4, <2>5 DEF RunInv, ExecutionTypeOK, WithoutMishap, ServerKeeps, RowKeeps, CountersFit
  <2>7. (\A v \in RuntimeWorkers : RunFits(work[v])') /\ OneEachPart'
    BY <1>3, <2>2, <2>3, RunsMove
  <2>8. \A v \in RuntimeWorkers : DoneFits(work[v])'
    BY <1>1, <2>2, <2>3, DoneMoves DEF WithoutMishap, ServerKeeps
  <2>9. \A v \in RuntimeWorkers : AskFits(work[v])'
    <3> SUFFICES ASSUME NEW v \in RuntimeWorkers, work'[v].pc = "request"
                 PROVE  req'[work'[v].run].step = "none"
      BY DEF AskFits
    <3>1. v # w /\ work'[v] = work[v]
      BY <1>1, <2>2
    <3>2. work[v].run \in Runs /\ Verifies(v) /\ AskFits(work[v])
      BY <3>1, AskingHere, WorkerHere DEF Asks
    <3>3. work[v].run # work[w].run
      BY <1>2, <3>1, <3>2 DEF RunInv, OneEachPart
    <3> QED
      BY <2>4, <2>5, <3>1, <3>2, <3>3 DEF AskFits
  <2>10. FreshPart' /\ AskedPart' /\ DonePart'
    <3>1. \A r \in Runs : Claimed(r)' = Claimed(r)
      BY <1>3 DEF Claimed, RowKeeps
    <3>2. FreshPart'
      BY <1>1, <1>2, <2>4, <2>5, <3>1 DEF RunInv, FreshPart, Unused, WithoutMishap, ServerKeeps
    <3>3. AskedPart'
      BY <2>4, <2>5 DEF RunInv, AskedPart
    <3> QED
      BY <1>1, <3>2, <3>3 DEF RunInv, DonePart, WithoutMishap, ServerKeeps
  <2>11. VerdictPart'
    BY <1>1, <1>3, <2>2, <2>3, VerdictStands DEF WithoutMishap, ServerKeeps
  <2>12. CaredPart'
    <3> SUFFICES ASSUME NEW a \in Attempts, Needed(env[a]), NEW u, u = env[a].uid
                 PROVE  Cared(u)'
      BY <1>1 DEF CaredPart, Needed, Cared
    <3>1. u # NoRun /\ Cared(u)
      BY RunFacts DEF RunInv, CaredPart, EnvironmentPart, Needed
    <3>2. ASSUME NEW v \in RuntimeWorkers, work[v].uid = u, work[v].pc # "fail"
          PROVE  work'[v].uid = u /\ work'[v].pc # "fail"
      BY <1>1, <1>2, <2>2, <3>1, <3>2
    <3>3. ASSUME NEW r \in Runs, req[r].step = "made", req[r].uid = u
          PROVE  req'[r].step = "made" /\ req'[r].uid = u
      BY <2>4, <2>5, <3>3
    <3> QED
      BY <1>1, <3>1, <3>2, <3>3 DEF Cared
  <2> QED
    BY <1>1, <2>6, <2>7, <2>8, <2>9, <2>10, <2>11, <2>12, EnvironmentStays DEF RunInv, WorkPart
<1> QED
  BY <1>4, <1>5

(* A request that has arrived is of a run that has begun and has asked.    *)
LEMMA ArrivedFacts ==
  ASSUME RunInv, NEW run \in Runs, req[run].step # "none"
  PROVE  /\ req \in [Runs -> EnvironmentRequest] /\ req[run].by \in RuntimeWorkers
         /\ Claimed(run)
         /\ \A v \in RuntimeWorkers : work[v].pc = "request" => work[v].run \in Runs /\ work[v].run # run
<1>1. req \in [Runs -> EnvironmentRequest] /\ req[run].by \in RuntimeWorkers /\ Claimed(run)
  BY DEF RunInv, ExecutionTypeOK, AskedPart, FreshPart
<1>2. ASSUME NEW v \in RuntimeWorkers, work[v].pc = "request"
      PROVE  work[v].run \in Runs /\ work[v].run # run
  BY <1>2, AskingHere, WorkerHere DEF AskFits, Asks
<1> QED
  BY <1>1, <1>2

(* What a change of such a request leaves as it is.                        *)
LEMMA RequestMoves ==
  ASSUME RunInv, NEW run \in Runs, req[run].step # "none", NEW q \in EnvironmentRequest,
         req' = [req EXCEPT ![run] = q],
         q.step # "none" => q.by = req[run].by,
         q.step = "made" => q.uid \in Runs /\ q.uid[2] = run[2],
         RowKeeps, done' = done,
         NEW w \in RuntimeWorkers, NEW o \in Work, work' = [work EXCEPT ![w] = o],
         o.pc # "request" \/ o = work[w]
  PROVE  /\ req' \in [Runs -> EnvironmentRequest]
         /\ \A v \in RuntimeWorkers : AskFits(work[v])'
         /\ FreshPart' /\ AskedPart' /\ DonePart'
<1>0. work \in [RuntimeWorkers -> Work]
  BY WorkerHere
<1>1. req \in [Runs -> EnvironmentRequest] /\ req[run].by \in RuntimeWorkers /\ Claimed(run)
  BY ArrivedFacts
<1>2. req' \in [Runs -> EnvironmentRequest] /\ req'[run] = q /\ \A r \in Runs \ {run} : req'[r] = req[r]
  BY <1>1
<1>3. \A v \in RuntimeWorkers : AskFits(work[v])'
  <2> SUFFICES ASSUME NEW v \in RuntimeWorkers, work'[v].pc = "request"
               PROVE  req'[work'[v].run].step = "none"
    BY DEF AskFits
  <2>1. work'[v] = work[v]
    BY <1>0
  <2>2. work[v].run \in Runs /\ work[v].run # run
    BY <2>1, ArrivedFacts
  <2> QED
    BY <1>2, <2>1, <2>2, WorkerHere DEF AskFits
<1>4. \A r \in Runs : Claimed(r)' = Claimed(r)
  BY DEF Claimed, RowKeeps
<1>5. FreshPart'
  BY <1>1, <1>2, <1>4 DEF RunInv, FreshPart, Unused
<1>6. AskedPart'
  BY <1>1, <1>2 DEF RunInv, AskedPart
<1> QED
  BY <1>2, <1>3, <1>5, <1>6 DEF RunInv, DonePart

LEMMA StandsStill ==
  ASSUME RunInv, NEW w \in RuntimeWorkers, work' = work
  PROVE  \E o \in Work : /\ o = work[w] /\ work' = [work EXCEPT ![w] = o]
                         /\ RunFits(o) /\ DoneFits(o) /\ AskFits(o) /\ OnWay(w, o)
<1>1. work \in [RuntimeWorkers -> Work] /\ work[w] \in Work
  BY WorkerHere
<1>2. work' = [work EXCEPT ![w] = work[w]]
  BY <1>1
<1> QED
  BY <1>1, <1>2, WorkerHere DEF OnWay

LEMMA CreateEnvironmentKept ==
  ASSUME RunInv, NEW run \in Runs, CreateEnvironment(run)
  PROVE  RunInv'
<1> DEFINE name == run[2]
<1>1. /\ req[run].step = "valid" /\ UNCHANGED <<work, excused>> /\ WithoutMishap
      /\ name \in Attempts
  BY RunFacts DEF CreateEnvironment
<1>2. PICK w : w = req[run].by
  OBVIOUS
<1>3. w \in RuntimeWorkers /\ req \in [Runs -> EnvironmentRequest]
  BY <1>1, <1>2, ArrivedFacts
<1>4. PICK o \in Work : /\ o = work[w] /\ work' = [work EXCEPT ![w] = o]
                        /\ RunFits(o) /\ DoneFits(o) /\ AskFits(o) /\ OnWay(w, o)
  BY <1>1, <1>3, StandsStill
<1>5. RowKeeps /\ build' \in Build /\ artifact' \in Image /\ CountersFit'
  BY <1>1, Untaken DEF WithoutMishap, ServerKeeps
<1>6. env \in [Attempts -> VerificationEnvironment] /\ EnvironmentPart
  BY DEF RunInv, ExecutionTypeOK
<1>7. NoEnv.phase = "none" /\ NoEnv.uid = NoRun /\ NoRun # run
  BY RunFacts DEF NoEnv
<1>8. PICK u : u = IF env[name] # NoEnv THEN env[name].uid ELSE run
  OBVIOUS
<1>9. u \in Runs /\ u[2] = run[2]
  BY <1>1, <1>6, <1>8 DEF EnvironmentPart
<1>10. PICK q \in EnvironmentRequest :
         req' = [req EXCEPT ![run] = q] /\ q.step = "made" /\ q.by = req[run].by /\ q.uid = u
  <2>1. req' = [req EXCEPT ![run] = [req[run] EXCEPT !.step = "made", !.uid = u]]
    BY <1>8 DEF CreateEnvironment, VerificationEnvironmentName
  <2>2. req[run] \in EnvironmentRequest
    BY <1>3
  <2>3. /\ [req[run] EXCEPT !.step = "made", !.uid = u] \in EnvironmentRequest
        /\ [req[run] EXCEPT !.step = "made", !.uid = u].step = "made"
        /\ [req[run] EXCEPT !.step = "made", !.uid = u].by = req[run].by
        /\ [req[run] EXCEPT !.step = "made", !.uid = u].uid = u
    BY <1>9, <2>2 DEF EnvironmentRequest
  <2> QED
    BY <2>1, <2>3
<1>11. PICK e \in VerificationEnvironment :
         /\ env' = [env EXCEPT ![name] = e] /\ e.uid = u /\ e.phase # "none"
         /\ env[name] # NoEnv => e = env[name]
  <2>1. CASE env[name] # NoEnv
    <3>1. env' = env /\ env[name] \in VerificationEnvironment
      BY <1>1, <1>6, <2>1 DEF CreateEnvironment, VerificationEnvironmentName
    <3>2. env' = [env EXCEPT ![name] = env[name]]
      BY <1>6, <3>1
    <3>3. env[name].phase # "none"
      BY <1>1, <1>6, <2>1 DEF EnvironmentPart
    <3> QED
      BY <1>8, <2>1, <3>1, <3>2, <3>3
  <2>2. CASE env[name] = NoEnv
    <3> DEFINE e == [NoEnv EXCEPT !.uid = run, !.phase = "provisioning"]
    <3>1. env' = [env EXCEPT ![name] = e]
      BY <2>2 DEF CreateEnvironment, VerificationEnvironmentName
    <3>2. e \in VerificationEnvironment /\ e.uid = run /\ e.phase = "provisioning"
      BY DEF NoEnv, VerificationEnvironment
    <3> QED
      BY <1>8, <2>2, <3>1, <3>2
  <2> QED
    BY <2>1, <2>2
<1>12. env' \in [Attempts -> VerificationEnvironment] /\ EnvironmentPart'
  BY <1>1, <1>6, <1>9, <1>11 DEF EnvironmentPart
<1>13. /\ req' \in [Runs -> EnvironmentRequest]
       /\ \A v \in RuntimeWorkers : AskFits(work[v])'
       /\ FreshPart' /\ AskedPart' /\ DonePart'
  BY <1>1, <1>3, <1>4, <1>5, <1>9, <1>10, RequestMoves DEF WithoutMishap, ServerKeeps
<1>14. WorkPart' /\ OneEachPart' /\ VerdictPart'
  BY <1>1, <1>3, <1>4, <1>5, <1>13, RunsMove, DoneMoves, VerdictStands DEF WorkPart, WithoutMishap, ServerKeeps
<1>15. CaredPart'
  <2> SUFFICES ASSUME NEW a \in Attempts, Needed(env'[a]), NEW v, v = env'[a].uid
               PROVE  Cared(v)'
    BY DEF CaredPart, Needed, Cared
  <2>1. CASE v = u
    BY <1>3, <1>10, <2>1 DEF Cared
  <2>2. CASE v # u
    <3>1. env'[a] = env[a]
      BY <1>1, <1>6, <1>11, <2>2
    <3>2. Cared(v)
      BY <3>1 DEF RunInv, CaredPart
    <3>3. \A r \in Runs : req[r].step = "made" => req'[r] = req[r]
      BY <1>1, <1>3, <1>10
    <3> QED
      BY <1>1, <3>2, <3>3 DEF Cared
  <2> QED
    BY <2>1, <2>2
<1>16. ExecutionTypeOK'
  BY <1>1, <1>5, <1>12, <1>13 DEF RunInv, ExecutionTypeOK, WithoutMishap, ServerKeeps, RowKeeps, CountersFit
<1> QED
  BY <1>12, <1>13, <1>14, <1>15, <1>16 DEF RunInv

(* What an answered request leaves to those that need somebody.            *)
LEMMA AnsweredCare ==
  ASSUME RunInv, NEW run \in Runs, req[run].step = "made", req' = [req EXCEPT ![run] = NoRequest],
         NEW w \in RuntimeWorkers, NEW o \in Work, work' = [work EXCEPT ![w] = o],
         KeepsCare(w, o),
         \A a \in Attempts : Needed(env'[a]) /\ env'[a].uid = req[run].uid =>
           env'[a].uid \in excused' \/ (o.uid = env'[a].uid /\ o.pc # "fail")
  PROVE  CaredPart'
<1>1. work \in [RuntimeWorkers -> Work] /\ req \in [Runs -> EnvironmentRequest]
  BY WorkerHere DEF RunInv, ExecutionTypeOK
<1> SUFFICES ASSUME NEW a \in Attempts, Needed(env'[a]), NEW u, u = env'[a].uid
             PROVE  Cared(u)'
  BY DEF CaredPart, Needed, Cared
<1>2. CASE u = req[run].uid
  BY <1>1, <1>2 DEF Cared
<1>3. CASE u # req[run].uid
  <2>1. Cared(u) /\ env[a].uid = u
    BY DEF RunInv, CaredPart, KeepsCare
  <2>2. CASE u \in excused
    BY <2>1, <2>2 DEF Cared, KeepsCare
  <2>3. CASE \E r \in Runs : req[r].step = "made" /\ req[r].uid = u
    BY <1>1, <1>3, <2>3 DEF Cared
  <2>4. ASSUME NEW v \in RuntimeWorkers, work[v].uid = u, work[v].pc # "fail"
        PROVE  Cared(u)'
    <3>1. CASE v = w
      BY <1>1, <2>1, <2>4, <3>1 DEF Cared, KeepsCare
    <3>2. CASE v # w
      BY <1>1, <2>4, <3>2 DEF Cared
    <3> QED
      BY <3>1, <3>2
  <2> QED
    BY <2>1, <2>2, <2>3, <2>4 DEF Cared
<1> QED
  BY <1>2, <1>3

AnswerFits(u, o) ==
  \A a \in Attempts : Needed(env'[a]) /\ env'[a].uid = u =>
    env'[a].uid \in excused' \/ (o.uid = env'[a].uid /\ o.pc # "fail")

LEMMA AnswerLeaves ==
  ASSUME RunInv, NEW run \in Runs, req[run].step = "made", req' = [req EXCEPT ![run] = NoRequest],
         NEW w \in RuntimeWorkers, NEW o \in Work, work' = [work EXCEPT ![w] = o],
         ServerKeeps, CountersFit', excused' \subseteq Runs,
         env' \in [Attempts -> VerificationEnvironment], EnvironmentPart',
         RunFits(o), DoneFits(o), o.pc # "request" \/ o = work[w], OnWay(w, o),
         KeepsCare(w, o), AnswerFits(req[run].uid, o)
  PROVE  RunInv'
<1>1. RowKeeps /\ build' \in Build /\ artifact' \in Image
  BY Untaken DEF ServerKeeps
<1>2. /\ req' \in [Runs -> EnvironmentRequest]
      /\ \A v \in RuntimeWorkers : AskFits(work[v])'
      /\ FreshPart' /\ AskedPart' /\ DonePart'
  BY <1>1, RequestMoves, NoRequestTyped DEF ServerKeeps
<1>3. WorkPart' /\ OneEachPart' /\ VerdictPart'
  BY <1>1, <1>2, RunsMove, DoneMoves, VerdictStands DEF WorkPart, ServerKeeps
<1>4. CaredPart'
  BY AnsweredCare DEF AnswerFits
<1>5. ExecutionTypeOK'
  BY <1>1, <1>2 DEF RunInv, ExecutionTypeOK, ServerKeeps, RowKeeps, CountersFit
<1> QED
  BY <1>2, <1>3, <1>4, <1>5 DEF RunInv

(* Where an answer that brings no environment leaves its worker.           *)
LEMMA AnswerMoves ==
  ASSUME RunInv, NEW run \in Runs, NEW w \in RuntimeWorkers,
         AnswerLost(run, w) \/ (Awaiting(run, w) /\ Fail(w, "infrastructure"))
  PROVE  \E o \in Work :
           /\ work' = [work EXCEPT ![w] = o] /\ (o = work[w] \/ work[w].uid = NoRun)
           /\ RunFits(o) /\ DoneFits(o) /\ (o.pc # "request" \/ o = work[w]) /\ OnWay(w, o)
<1>1. work \in [RuntimeWorkers -> Work] /\ RunFits(work[w])
  BY WorkerHere
<1>2. CASE Awaiting(run, w) /\ Fail(w, "infrastructure")
  <2>1. work[w].pc = "await" /\ work[w].uid = NoRun
    BY <1>2, AskingHere DEF Awaiting, At, Asks
  <2>2. PICK o \in Work : /\ work' = [work EXCEPT ![w] = o]
                          /\ o.pc = "fail" /\ o.phase = work[w].phase /\ o.run = work[w].run
                          /\ o.uid = work[w].uid
    BY <1>1, <1>2, Fails
  <2>3. RunFits(o) /\ DoneFits(o) /\ OnWay(w, o)
    BY <1>1, <2>1, <2>2, FailingFits DEF OnWay
  <2> QED
    BY <2>1, <2>2, <2>3
<1>3. CASE Awaiting(run, w) /\ AnswerLost(run, w)
  <2>1. work' = [work EXCEPT ![w] = Resting] /\ work[w].uid = NoRun
    BY <1>3, AskingHere DEF AnswerLost, Quit, Awaiting, At, Asks
  <2> QED
    BY <2>1, RestingFits DEF OnWay
<1>4. CASE ~Awaiting(run, w)
  BY <1>4, StandsStill DEF AnswerLost
<1> QED
  BY <1>2, <1>3, <1>4

LEMMA AnswerRequestKept ==
  ASSUME RunInv, NEW run \in Runs, AnswerRequest(run)
  PROVE  RunInv'
<1>1. PICK w : w = req[run].by
  OBVIOUS
<1>2. /\ req[run].step = "made" /\ req' = [req EXCEPT ![run] = NoRequest] /\ ServerKeeps
  BY DEF AnswerRequest
<1>3. w \in RuntimeWorkers /\ req[run].uid \in Runs /\ req[run].uid[2] = run[2]
      /\ work \in [RuntimeWorkers -> Work] /\ excused \subseteq Runs
  BY <1>1, <1>2, ArrivedFacts, WorkerHere DEF RunInv, AskedPart, ExecutionTypeOK
<1>4. \A a \in Attempts : Needed(env[a]) => env[a].uid # NoRun
  BY RunFacts DEF RunInv, EnvironmentPart, Needed
<1>5. CountersFit'
  BY <1>2, Untaken DEF AnswerRequest, ServerKeeps
<1>6. CASE env' = Marked(req[run].uid) /\ excused' = excused
           /\ (AnswerLost(run, w) \/ (Awaiting(run, w) /\ Fail(w, "infrastructure")))
  <2>1. PICK o \in Work :
          /\ work' = [work EXCEPT ![w] = o] /\ (o = work[w] \/ work[w].uid = NoRun)
          /\ RunFits(o) /\ DoneFits(o) /\ (o.pc # "request" \/ o = work[w]) /\ OnWay(w, o)
    BY <1>3, <1>6, AnswerMoves
  <2>2. /\ env' \in [Attempts -> VerificationEnvironment] /\ EnvironmentPart'
        /\ \A a \in Attempts : Needed(env'[a]) =>
             Needed(env[a]) /\ env'[a].uid = env[a].uid /\ env[a].uid # req[run].uid
    BY <1>3, <1>6, Marks
  <2>3. KeepsCare(w, o) /\ AnswerFits(req[run].uid, o)
    BY <1>4, <1>6, <2>1, <2>2 DEF KeepsCare, AnswerFits
  <2> QED
    BY <1>2, <1>3, <1>5, <1>6, <2>1, <2>2, <2>3, AnswerLeaves
<1>7. CASE Excuse(req[run].uid) /\ env' = env /\ AnswerLost(run, w)
  <2>1. PICK o \in Work :
          /\ work' = [work EXCEPT ![w] = o] /\ (o = work[w] \/ work[w].uid = NoRun)
          /\ RunFits(o) /\ DoneFits(o) /\ (o.pc # "request" \/ o = work[w]) /\ OnWay(w, o)
    BY <1>3, <1>7, AnswerMoves
  <2>2. excused' \subseteq Runs /\ KeepsCare(w, o) /\ AnswerFits(req[run].uid, o)
    BY <1>3, <1>4, <1>7, <2>1, Excused DEF KeepsCare, AnswerFits
  <2> QED
    BY <1>2, <1>3, <1>5, <1>7, <2>1, <2>2, AnswerLeaves, EnvironmentStays
<1>8. CASE /\ work' = [work EXCEPT ![w] = [work[w] EXCEPT !.pc = "poll", !.uid = req[run].uid]]
           /\ Awaiting(run, w) /\ UNCHANGED <<env, excused>>
  <2>1. /\ work[w].pc = "await" /\ work[w].run = run /\ work[w].phase = "verify"
        /\ work[w].uid = NoRun /\ work[w] \in Work /\ Claimed(run) /\ DoneFits(work[w])
    BY <1>3, <1>8, AskingHere, WorkerHere DEF Awaiting, At, Asks
  <2>2. PICK o \in Work :
          /\ work' = [work EXCEPT ![w] = o]
          /\ o.pc = "poll" /\ o.phase = "verify" /\ o.run = run /\ o.uid = req[run].uid
    <3> DEFINE o == [work[w] EXCEPT !.pc = "poll", !.uid = req[run].uid]
    <3>1. /\ o \in Work /\ o.pc = "poll" /\ o.phase = "verify" /\ o.run = run
          /\ o.uid = req[run].uid
      BY <1>3, <2>1 DEF Work, Points
    <3> QED
      BY <1>8, <3>1
  <2>3. RunFits(o) /\ DoneFits(o) /\ OnWay(w, o)
    BY <1>3, <2>1, <2>2 DEF RunFits, DoneFits, OnWay, Builds, Asks, Uses
  <2>4. KeepsCare(w, o) /\ AnswerFits(req[run].uid, o)
    BY <1>4, <1>8, <2>1, <2>2 DEF KeepsCare, AnswerFits
  <2> QED
    BY <1>2, <1>3, <1>5, <1>8, <2>2, <2>3, <2>4, AnswerLeaves, EnvironmentStays
<1>9. CASE Excuse(req[run].uid) /\ UNCHANGED <<env, work>>
  <2>1. PICK o \in Work : /\ o = work[w] /\ work' = [work EXCEPT ![w] = o]
                          /\ RunFits(o) /\ DoneFits(o) /\ AskFits(o) /\ OnWay(w, o)
    BY <1>3, <1>9, StandsStill
  <2>2. excused' \subseteq Runs /\ KeepsCare(w, o) /\ AnswerFits(req[run].uid, o)
    BY <1>3, <1>9, <2>1, Excused DEF KeepsCare, AnswerFits
  <2> QED
    BY <1>2, <1>3, <1>5, <1>9, <2>1, <2>2, AnswerLeaves, EnvironmentStays
<1> QED
  BY <1>1, <1>6, <1>7, <1>8, <1>9 DEF AnswerRequest, AbandonedEnvironment, AnswerLost

-----------------------------------------------------------------------------
(* Executing the plan.                                                     *)

LEMMA PollKept ==
  ASSUME RunInv, NEW w \in RuntimeWorkers, PollEnvironment(w)
  PROVE  RunInv'
<1>1. work[w].pc = "poll" /\ UNCHANGED <<req, env, excused>> /\ WithoutMishap
  BY DEF PollEnvironment, At
<1>2. /\ work \in [RuntimeWorkers -> Work] /\ work[w] \in Work /\ DoneFits(work[w])
      /\ work[w].phase = "verify" /\ work[w].run \in Runs /\ work[w].run[1] \in Cycles
      /\ Claimed(work[w].run) /\ work[w].uid \in Runs /\ work[w].uid[2] = work[w].run[2]
  BY <1>1, AskingHere, WorkerHere DEF Uses
<1>3. RowKeeps /\ build' \in Build /\ artifact' \in Image /\ CountersFit'
  BY <1>1, Untaken DEF WithoutMishap, ServerKeeps
<1>4. CASE Fail(w, "infrastructure")
           /\ (Environment(w).uid # work[w].uid \/ Environment(w).phase = "failed")
  <2>1. PICK o \in Work : /\ work' = [work EXCEPT ![w] = o]
                          /\ o.pc = "fail" /\ o.phase = work[w].phase /\ o.run = work[w].run
                          /\ o.uid = work[w].uid
    BY <1>2, <1>4, Fails
  <2>2. RunFits(o) /\ DoneFits(o) /\ AskFits(o) /\ OnWay(w, o)
    BY <1>1, <1>2, <2>1, FailingFits, WorkerHere DEF OnWay
  <2>3. ASSUME NEW a \in Attempts, Needed(env[a])
        PROVE  env[a].uid # work[w].uid
    <3>1. env[a].phase \in {"provisioning", "ready"} /\ env[a].uid[2] = a
      BY <2>3 DEF RunInv, EnvironmentPart, Needed
    <3>2. env[a].uid = work[w].uid => Environment(w) = env[a]
      BY <1>2, <3>1 DEF Environment, VerificationEnvironmentName
    <3> QED
      BY <1>4, <3>1, <3>2
  <2>4. KeepsCare(w, o)
    BY <1>1, <2>3 DEF KeepsCare
  <2>5. excused' \subseteq Runs
    BY <1>1 DEF RunInv, ExecutionTypeOK
  <2> QED
    BY <1>1, <1>3, <2>1, <2>2, <2>4, <2>5, EnvironmentStays, Walks DEF WithoutMishap, ServerKeeps
<1>5. CASE work' = [work EXCEPT ![w] = [work[w] EXCEPT !.pc = "execute", !.at = 1, !.result = "ok"]]
  <2>1. PICK o \in Work :
          /\ work' = [work EXCEPT ![w] = o]
          /\ o.pc = "execute" /\ o.phase = "verify" /\ o.run = work[w].run /\ o.uid = work[w].uid
          /\ o.at = 1 /\ o.result = "ok"
    <3> DEFINE o == [work[w] EXCEPT !.pc = "execute", !.at = 1, !.result = "ok"]
    <3>1. 1 \in 0 .. StepCount + FileCount /\ "execute" \in Points /\ "ok" \in Results
      BY BoundFacts DEF Points, Results
    <3>2. /\ o \in Work /\ o.pc = "execute" /\ o.phase = "verify" /\ o.run = work[w].run
          /\ o.uid = work[w].uid /\ o.at = 1 /\ o.result = "ok"
      BY <1>2, <3>1 DEF Work
    <3> QED
      BY <1>5, <3>2
  <2>2. RunFits(o)
    BY <1>2, <2>1 DEF RunFits, Builds, Asks, Uses
  <2>3. done[o.uid][o.run[1]] = <<>>
    BY <1>1, <1>2, <2>1 DEF DoneFits, Unused
  <2>4. Covers(done[o.uid][o.run[1]], o.run, o.at - 1)
    BY <2>1, <2>3 DEF Covers
  <2>5. 1 \in 1 .. StepCount
    BY BoundFacts
  <2>6. DoneFits(o) /\ AskFits(o) /\ OnWay(w, o)
    BY <1>1, <1>2, <2>1, <2>4, <2>5 DEF DoneFits, AskFits, OnWay, Asks
  <2> QED
    BY <1>1, <1>3, <1>5, <2>1, <2>2, <2>6, WalksOn DEF WithoutMishap, ServerKeeps
<1> QED
  BY <1>4, <1>5 DEF PollEnvironment

LEMMA ExecutionFailsKept ==
  ASSUME RunInv, NEW w \in RuntimeWorkers, ExecutionFails(w)
  PROVE  RunInv'
BY ToReleaseKept, Untaken DEF ExecutionFails, At, WithoutMishap, ServerKeeps

LEMMA StoreOutputKept ==
  ASSUME RunInv, NEW w \in RuntimeWorkers, StoreExecutionOutput(w)
  PROVE  RunInv'
<1>1. work[w].pc = "output" /\ UNCHANGED <<req, env, excused>> /\ WithoutMishap
  BY DEF StoreExecutionOutput, At
<1>2. /\ work \in [RuntimeWorkers -> Work] /\ work[w] \in Work /\ DoneFits(work[w])
      /\ work[w].phase = "verify" /\ work[w].run \in Runs
      /\ Claimed(work[w].run) /\ work[w].uid \in Runs /\ work[w].uid[2] = work[w].run[2]
  BY <1>1, AskingHere, WorkerHere DEF Uses
<1>3. RowKeeps /\ build' \in Build /\ artifact' \in Image /\ CountersFit'
  BY <1>1, Untaken DEF WithoutMishap, ServerKeeps
<1>4. CASE ~HoldsLease(w)
  BY <1>1, <1>3, <1>4, ToReleaseKept DEF StoreExecutionOutput, WithoutMishap, ServerKeeps
<1>5. CASE HoldsLease(w) /\ (work[w].result = "bad" \/ PlanEnds(w))
  <2>1. Goto(w, "complete") /\ "complete" \in Points
    BY <1>5 DEF StoreExecutionOutput, Points
  <2>2. PICK o \in Work : /\ work' = [work EXCEPT ![w] = o]
                          /\ o.pc = "complete" /\ o.phase = work[w].phase /\ o.run = work[w].run
                          /\ o.uid = work[w].uid /\ o.result = work[w].result
    BY <1>2, <2>1, GoesTo
  <2>3. RunFits(o)
    BY <1>2, <2>2 DEF RunFits, Builds, Asks, Uses
  <2>4. o.result = "ok" => Covers(done[o.uid][o.run[1]], o.run, StepCount)
    BY <1>1, <1>2, <1>5, <2>2 DEF DoneFits, PlanEnds
  <2>5. DoneFits(o) /\ AskFits(o) /\ OnWay(w, o)
    BY <1>1, <2>2, <2>4 DEF DoneFits, AskFits, OnWay, Asks
  <2> QED
    BY <1>1, <1>3, <2>2, <2>3, <2>5, WalksOn DEF WithoutMishap, ServerKeeps
<1>6. CASE HoldsLease(w) /\ work[w].result # "bad" /\ ~PlanEnds(w)
  <2>1. work' = [work EXCEPT ![w] = [work[w] EXCEPT !.pc = "execute", !.at = work[w].at + 1]]
    BY <1>6 DEF StoreExecutionOutput
  <2>2. /\ work[w].at \in 1 .. StepCount /\ work[w].at # StepCount
        /\ work[w].result = "ok"
        /\ Covers(done[work[w].uid][work[w].run[1]], work[w].run, work[w].at)
    BY <1>1, <1>2, <1>6 DEF DoneFits, PlanEnds
  <2>3. PICK o \in Work :
          /\ work' = [work EXCEPT ![w] = o]
          /\ o.pc = "execute" /\ o.phase = "verify" /\ o.run = work[w].run /\ o.uid = work[w].uid
          /\ o.at = work[w].at + 1 /\ o.result = work[w].result
    <3> DEFINE o == [work[w] EXCEPT !.pc = "execute", !.at = work[w].at + 1]
    <3>1. work[w].at + 1 \in 0 .. StepCount + FileCount /\ "execute" \in Points
      BY <2>2, BoundFacts DEF Points
    <3>2. /\ o \in Work /\ o.pc = "execute" /\ o.phase = "verify" /\ o.run = work[w].run
          /\ o.uid = work[w].uid /\ o.at = work[w].at + 1 /\ o.result = work[w].result
      BY <1>2, <3>1 DEF Work
    <3> QED
      BY <2>1, <3>2
  <2>4. RunFits(o)
    BY <1>2, <2>3 DEF RunFits, Builds, Asks, Uses
  <2>5. o.at \in 1 .. StepCount /\ o.at - 1 = work[w].at
    BY <2>2, <2>3, BoundFacts
  <2>6. DoneFits(o) /\ AskFits(o) /\ OnWay(w, o)
    BY <1>1, <1>2, <2>2, <2>3, <2>5 DEF DoneFits, AskFits, OnWay, Asks
  <2> QED
    BY <1>1, <1>3, <2>3, <2>4, <2>6, WalksOn DEF WithoutMishap, ServerKeeps
<1> QED
  BY <1>4, <1>5, <1>6

LEMMA RequestReleaseKept ==
  ASSUME RunInv, NEW w \in RuntimeWorkers, RequestRelease(w)
  PROVE  RunInv'
<1>1. work[w].pc = "release" /\ req' = req /\ WithoutMishap /\ Fail(w, "infrastructure")
  BY DEF RequestRelease, At
<1>2. /\ work \in [RuntimeWorkers -> Work] /\ RunFits(work[w]) /\ work[w].uid \in Runs
      /\ excused \subseteq Runs
  BY <1>1, AskingHere, WorkerHere DEF Uses, RunInv, ExecutionTypeOK
<1>3. RowKeeps /\ build' \in Build /\ artifact' \in Image /\ CountersFit'
  BY <1>1, Untaken DEF WithoutMishap, ServerKeeps
<1>4. CASE ~HoldsLease(w)
  BY <1>1, <1>3, <1>4, FailExcused DEF RequestRelease, WithoutMishap, ServerKeeps
<1>5. CASE HoldsLease(w)
  <2>1. env' = Marked(work[w].uid) /\ excused' = excused
    BY <1>5 DEF RequestRelease
  <2>2. PICK o \in Work : /\ work' = [work EXCEPT ![w] = o]
                          /\ o.pc = "fail" /\ o.phase = work[w].phase /\ o.run = work[w].run
                          /\ o.uid = work[w].uid
    BY <1>1, <1>2, Fails
  <2>3. RunFits(o) /\ DoneFits(o) /\ AskFits(o) /\ OnWay(w, o)
    BY <1>1, <1>2, <2>2, FailingFits DEF OnWay
  <2>4. /\ env' \in [Attempts -> VerificationEnvironment] /\ EnvironmentPart'
        /\ KeepsCare(w, o)
    BY <1>2, <2>1, Marks DEF KeepsCare
  <2> QED
    BY <1>1, <1>2, <1>3, <2>1, <2>2, <2>3, <2>4, Walks DEF WithoutMishap, ServerKeeps
<1> QED
  BY <1>4, <1>5

LEMMA ReleaseAfterReportKept ==
  ASSUME RunInv, NEW w \in RuntimeWorkers, ReleaseAfterReport(w)
  PROVE  RunInv'
<1>1. /\ work[w].pc = "mark" /\ UNCHANGED <<req, excused>> /\ WithoutMishap /\ Quit(w)
      /\ env' = Marked(work[w].uid)
  BY DEF ReleaseAfterReport, At
<1>2. work[w].uid \in Runs /\ excused \subseteq Runs
  BY <1>1, AskingHere DEF Uses, RunInv, ExecutionTypeOK
<1>3. RowKeeps /\ build' \in Build /\ artifact' \in Image /\ CountersFit'
  BY <1>1, Untaken DEF WithoutMishap, ServerKeeps
<1>4. PICK o \in Work : o = Resting
  BY RestingFits
<1>5. work' = [work EXCEPT ![w] = o]
  BY <1>1, <1>4 DEF Quit
<1>6. RunFits(o) /\ DoneFits(o) /\ AskFits(o) /\ OnWay(w, o)
  BY <1>4, RestingFits DEF OnWay
<1>7. env' \in [Attempts -> VerificationEnvironment] /\ EnvironmentPart' /\ KeepsCare(w, o)
  BY <1>1, <1>2, Marks DEF KeepsCare
<1> QED
  BY <1>1, <1>2, <1>3, <1>5, <1>6, <1>7, Walks DEF WithoutMishap, ServerKeeps

LEMMA CompleteKept ==
  ASSUME RunInv, NEW w \in RuntimeWorkers, CompleteVerification(w)
  PROVE  RunInv'
<1>1. work[w].pc = "complete" /\ UNCHANGED <<runtime, build, artifact, req, env, done, strayed, mishaps>>
  BY DEF CompleteVerification, At
<1>2. /\ work \in [RuntimeWorkers -> Work] /\ work[w] \in Work /\ DoneFits(work[w])
      /\ work[w].phase = "verify" /\ Verifies(w) /\ work[w].run \in Runs
      /\ Claimed(work[w].run) /\ work[w].uid \in Runs /\ work[w].uid[2] = work[w].run[2]
  BY <1>1, AskingHere, WorkerHere DEF Uses
<1>3. /\ act \in ActionRow /\ build' \in Build /\ artifact' \in Image
      /\ CountersFit' /\ (act' = act => RowKeeps)
  BY <1>1, Untaken
<1>4. CASE ~(LeaseHeld(w, "verify") /\ act.attempt = work[w].run[2])
  BY <1>1, <1>3, <1>4, QuitExcused DEF CompleteVerification
<1>5. CASE LeaseHeld(w, "verify") /\ act.attempt = work[w].run[2]
  <2>1. /\ Goto(w, "mark") /\ excused' = excused
        /\ act' = [act EXCEPT !.state = "completed", !.owner = NoRuntimeWorker]
        /\ verdict' = [run |-> work[w].run, uid |-> work[w].uid,
                       passed |-> work[w].result = "ok"]
        /\ "mark" \in Points
    BY <1>5 DEF CompleteVerification, Points
  <2>2. PICK o \in Work : /\ work' = [work EXCEPT ![w] = o]
                          /\ o.pc = "mark" /\ o.phase = work[w].phase /\ o.run = work[w].run
                          /\ o.uid = work[w].uid
    BY <1>2, <2>1, GoesTo
  <2>3. RowKeeps
    BY <1>3, <2>1 DEF RowKeeps, ActionRow
  <2>4. RunFits(o)
    BY <1>2, <2>2 DEF RunFits, Builds, Asks, Uses
  <2>5. DoneFits(o) /\ AskFits(o) /\ OnWay(w, o)
    BY <1>1, <2>2 DEF DoneFits, AskFits, OnWay, Asks
  <2>6. WorkPart' /\ OneEachPart'
    BY <1>1, <2>2, <2>3, <2>4, <2>5, RunsMove, DoneMoves, AsksMove DEF WorkPart
  <2>7. KeepsCare(w, o)
    BY <1>1, <2>1, <2>2 DEF KeepsCare
  <2>8. CaredPart'
    BY <1>1, <2>2, <2>7, CareGoesOn
  <2>9. /\ verdict' \in VerificationReport /\ verdict'.run = work[w].run
        /\ verdict'.uid = work[w].uid /\ (verdict'.passed => work[w].result = "ok")
    BY <1>2, <2>1 DEF VerificationReport
  <2>10. ExecutionTypeOK'
    BY <1>1, <1>3, <2>1, <2>2, <2>3, <2>9 DEF RunInv, ExecutionTypeOK, RowKeeps, CountersFit
  <2>11. VerdictPart'
    <3>1. Claimed(work[w].run)'
      <4>1. PICK r : r = work[w].run
        OBVIOUS
      <4>2. Claimed(r)'
        BY <1>2, <2>3, <4>1 DEF Claimed, RowKeeps
      <4>3. work'[w].run = r
        BY <1>2, <2>2, <4>1
      <4> QED
        BY <4>2, <4>3 DEF Claimed
    <3>2. Claimed(verdict.run)'
      <4>1. verdict'.run = work'[w].run
        BY <1>2, <2>2, <2>9
      <4> QED
        BY <3>1, <4>1 DEF Claimed
    <3>3. ASSUME NEW v \in RuntimeWorkers, Verifies(v)', work'[v].run = verdict'.run
          PROVE  work'[v].pc = "mark"
      <4>1. CASE v = w
        BY <1>2, <2>2, <4>1
      <4>2. CASE v # w
        <5>1. work'[v] = work[v] /\ Verifies(v)
          BY <1>2, <2>2, <3>3, <4>2 DEF Verifies
        <5> QED
          BY <1>2, <2>9, <3>3, <4>2, <5>1 DEF RunInv, OneEachPart
      <4> QED
        BY <4>1, <4>2
    <3>4. verdict'.passed => Covers(done[work[w].uid][work[w].run[1]], work[w].run, StepCount)
      BY <1>1, <1>2, <2>9 DEF DoneFits
    <3> QED
      BY <1>1, <1>2, <2>9, <3>2, <3>3, <3>4 DEF VerdictPart, Covers
  <2>12. FreshPart' /\ DonePart' /\ AskedPart'
    BY <1>1, <2>3 DEF RunInv, FreshPart, DonePart, AskedPart, Unused, Claimed, RowKeeps
  <2> QED
    BY <1>1, <2>6, <2>8, <2>10, <2>11, <2>12, EnvironmentStays DEF RunInv
<1> QED
  BY <1>4, <1>5

(* What is executed is on the account of one run: no other run has its     *)
(* executions in the same environment and cycle.                           *)
LEMMA Elsewhere ==
  ASSUME done \in [Runs -> [Cycles -> Seq(Entry)]],
         NEW r \in Runs, NEW u \in Runs, u[2] = r[2], NEW s,
         done' = [done EXCEPT ![u][r[1]] = s],
         NEW t \in Runs, NEW v \in Runs, v[2] = t[2], t # r
  PROVE  done'[v][t[1]] = done[v][t[1]]
<1>1. r[1] \in Cycles /\ t[1] \in Cycles
  BY RunFacts
<1>2. t[1] # r[1] \/ t[2] # r[2]
  BY SameRun
<1>3. v # u \/ t[1] # r[1]
  BY <1>2
<1> QED
  BY <1>1, <1>3

LEMMA ExecuteKept ==
  ASSUME RunInv, NEW w \in RuntimeWorkers, NEW result \in {"ok", "false", "bad"}, Execute(w, result)
  PROVE  RunInv'
<1>1. /\ work[w].pc = "execute"
      /\ UNCHANGED <<runtime, act, build, artifact, req, env, verdict, excused, strayed, mishaps>>
      /\ (result = "false" => work[w].at = StepCount)
  BY DEF Execute, At
<1>2. /\ work \in [RuntimeWorkers -> Work] /\ work[w] \in Work /\ DoneFits(work[w])
      /\ work[w].phase = "verify" /\ Verifies(w) /\ work[w].run \in Runs
      /\ Claimed(work[w].run) /\ work[w].uid \in Runs /\ work[w].uid[2] = work[w].run[2]
  BY <1>1, AskingHere, WorkerHere DEF Uses
<1>3. PICK r \in Runs, u \in Runs :
        r = work[w].run /\ u = work[w].uid /\ r[1] \in Cycles /\ u[2] = r[2] /\ r = <<r[1], r[2]>>
  BY <1>2, RunFacts
<1>4. /\ work[w].at \in 1 .. StepCount /\ Covers(done[u][r[1]], r, work[w].at - 1)
  BY <1>1, <1>2, <1>3 DEF DoneFits
<1>5. PICK e \in Entry : e = [run |-> r, step |-> work[w].at]
  BY <1>3, <1>4 DEF Entry
<1>6. PICK s : s = Append(done[u][r[1]], e)
  OBVIOUS
<1>7. done \in [Runs -> [Cycles -> Seq(Entry)]] /\ done[u][r[1]] \in Seq(Entry)
  BY <1>3 DEF RunInv, ExecutionTypeOK
<1>8. done' = [done EXCEPT ![u][r[1]] = s]
  BY <1>3, <1>5, <1>6 DEF Execute
<1>9. /\ s \in Seq(Entry) /\ Len(s) = Len(done[u][r[1]]) + 1 /\ s[Len(s)] = e
      /\ \A i \in 1 .. Len(done[u][r[1]]) : s[i] = done[u][r[1]][i]
  BY <1>6, <1>7
<1>10. done' \in [Runs -> [Cycles -> Seq(Entry)]] /\ done'[u][r[1]] = s
  BY <1>3, <1>7, <1>8, <1>9
<1>11. PICK o \in Work :
         /\ work' = [work EXCEPT ![w] = o]
         /\ o.pc = "output" /\ o.phase = "verify" /\ o.run = r /\ o.uid = u
         /\ o.at = work[w].at /\ o.result = result
  <2> DEFINE o == [work[w] EXCEPT !.pc = "output", !.result = result]
  <2>1. result \in Results /\ "output" \in Points
    BY DEF Results, Points
  <2>2. /\ o \in Work /\ o.pc = "output" /\ o.phase = "verify" /\ o.run = r /\ o.uid = u
        /\ o.at = work[w].at /\ o.result = result
    BY <1>2, <1>3, <2>1 DEF Work
  <2>3. work' = [work EXCEPT ![w] = o]
    BY DEF Execute
  <2> QED
    BY <2>2, <2>3
<1>12. Covers(s, r, work[w].at)
  <2>1. Len(done[u][r[1]]) = work[w].at - 1 /\ Len(s) = work[w].at
    BY <1>4, <1>7, <1>9 DEF Covers
  <2>2. ASSUME NEW i \in 1 .. work[w].at
        PROVE  s[i] = [run |-> r, step |-> i]
    <3>1. CASE i = work[w].at
      BY <1>5, <1>9, <2>1, <3>1
    <3>2. CASE i # work[w].at
      <4>1. i \in 1 .. work[w].at - 1
        BY <1>4, <2>2, <3>2
      <4> QED
        BY <1>4, <1>9, <2>1, <4>1 DEF Covers
    <3> QED
      BY <3>1, <3>2
  <2> QED
    BY <2>1, <2>2 DEF Covers
<1>13. RowKeeps /\ build' \in Build /\ artifact' \in Image /\ CountersFit'
  BY <1>1, Untaken
<1>14. RunFits(o) /\ AskFits(o) /\ OnWay(w, o)
  BY <1>1, <1>2, <1>3, <1>11 DEF RunFits, AskFits, OnWay, Builds, Asks, Uses
<1>15. (\A v \in RuntimeWorkers : RunFits(work[v])' /\ AskFits(work[v])') /\ OneEachPart'
  BY <1>1, <1>11, <1>13, <1>14, RunsMove, AsksMove
<1>16. \A t \in Runs, v \in Runs : v[2] = t[2] /\ t # r => done'[v][t[1]] = done[v][t[1]]
  <2> SUFFICES ASSUME NEW t \in Runs, NEW v \in Runs, v[2] = t[2], t # r
               PROVE  done'[v][t[1]] = done[v][t[1]]
    OBVIOUS
  <2>1. u[2] = r[2] /\ done \in [Runs -> [Cycles -> Seq(Entry)]]
        /\ done' = [done EXCEPT ![u][r[1]] = s]
    BY <1>3, <1>7, <1>8
  <2> QED
    BY <2>1, Elsewhere
<1>17. \A v \in RuntimeWorkers : DoneFits(work[v])'
  <2> SUFFICES ASSUME NEW v \in RuntimeWorkers
               PROVE  DoneFits(work[v])'
    OBVIOUS
  <2>1. CASE v = w
    <3>1. work'[v] = o
      BY <1>2, <1>11, <2>1
    <3>2. o.result = "ok" \/ o.result = "bad" \/ o.at = StepCount
      BY <1>1, <1>11
    <3> QED
      BY <1>4, <1>10, <1>11, <1>12, <3>1, <3>2 DEF DoneFits, Covers, Asks
  <2>2. CASE v # w
    <3>1. work'[v] = work[v] /\ DoneFits(work[v])
      BY <1>2, <1>11, <2>2, WorkerHere
    <3>2. CASE work[v].pc \notin Asks \cup Uses
      BY <3>1, <3>2 DEF DoneFits, Asks, Uses
    <3>3. CASE work[v].pc \in Asks \cup Uses
      <4>1. work[v].run \in Runs /\ Verifies(v)
        BY <3>3, AskingHere
      <4>2. work[v].run # r
        BY <1>2, <1>3, <2>2, <4>1 DEF RunInv, OneEachPart
      <4>3. work[v].pc \in Asks \cup {"poll"} => Unused(work[v].run)'
        <5> SUFFICES ASSUME work[v].pc \in Asks \cup {"poll"}, NEW x \in Runs, x[2] = work[v].run[2]
                     PROVE  done'[x][work[v].run[1]] = <<>>
          BY <3>1 DEF Unused
        <5> QED
          BY <1>16, <3>1, <4>1, <4>2 DEF DoneFits, Unused
      <4>4. work[v].pc \in Uses =>
              done'[work[v].uid][work[v].run[1]] = done[work[v].uid][work[v].run[1]]
        BY <1>16, <4>1, <4>2, AskingHere
      <4> QED
        BY <3>1, <4>3, <4>4 DEF DoneFits, Covers, Uses
    <3> QED
      BY <3>2, <3>3
  <2> QED
    BY <2>1, <2>2
<1>18. \A t : Claimed(t)' = Claimed(t)
  BY <1>1 DEF Claimed
<1>19. FreshPart'
  <2> SUFFICES ASSUME NEW t \in Runs, ~Claimed(t)
               PROVE  req'[t].step = "none" /\ Unused(t)'
    BY <1>18 DEF FreshPart
  <2>1. t # r /\ req[t].step = "none" /\ Unused(t)
    BY <1>2, <1>3 DEF RunInv, FreshPart
  <2> QED
    BY <1>1, <1>16, <2>1 DEF Unused
<1>20. DonePart'
  <2> SUFFICES ASSUME NEW x \in Runs, NEW c \in Cycles, NEW i \in 1 .. Len(done'[x][c])
               PROVE  done'[x][c][i].run = <<c, x[2]>>
    BY DEF DonePart
  <2>1. CASE x = u /\ c = r[1]
    <3>1. done'[x][c] = s /\ Covers(s, r, work[w].at)
      BY <1>10, <1>12, <2>1
    <3>2. s[i] = [run |-> r, step |-> i]
      <4>1. i \in 1 .. work[w].at
        BY <3>1 DEF Covers
      <4> QED
        BY <3>1, <4>1 DEF Covers
    <3> QED
      BY <1>3, <2>1, <3>1, <3>2
  <2>2. CASE ~(x = u /\ c = r[1])
    <3>1. done'[x][c] = done[x][c]
      BY <1>3, <1>7, <1>8, <2>2
    <3> QED
      BY <3>1 DEF RunInv, DonePart
  <2> QED
    BY <2>1, <2>2
<1>21. VerdictPart'
  <2> SUFFICES ASSUME verdict # NoVerdict
               PROVE  VerdictPart'
    BY <1>1 DEF VerdictPart
  <2>1. /\ verdict.run \in Runs /\ verdict.uid \in Runs /\ verdict.uid[2] = verdict.run[2]
        /\ Claimed(verdict.run) /\ verdict.run # r
        /\ \A v \in RuntimeWorkers :
             Verifies(v) /\ work[v].run = verdict.run => work[v].pc = "mark"
        /\ verdict.passed => Covers(done[verdict.uid][verdict.run[1]], verdict.run, StepCount)
    BY <1>1, <1>2, <1>3 DEF RunInv, VerdictPart
  <2>2. done'[verdict.uid][verdict.run[1]] = done[verdict.uid][verdict.run[1]]
    BY <1>16, <2>1
  <2>3. ASSUME NEW v \in RuntimeWorkers, Verifies(v)', work'[v].run = verdict.run
        PROVE  work'[v].pc = "mark"
    <3>1. v # w /\ work'[v] = work[v]
      BY <1>2, <1>11, <2>1, <2>3
    <3> QED
      BY <2>1, <2>3, <3>1 DEF Verifies
  <2>4. Claimed(verdict.run)'
    BY <1>1, <2>1 DEF Claimed
  <2> QED
    BY <1>1, <2>1, <2>2, <2>3, <2>4 DEF VerdictPart, Covers
<1>22. KeepsCare(w, o)
  BY <1>1, <1>3, <1>11 DEF KeepsCare
<1>23. CaredPart'
  BY <1>1, <1>11, <1>22, CareGoesOn
<1>24. ExecutionTypeOK'
  BY <1>1, <1>2, <1>10, <1>11, <1>13 DEF RunInv, ExecutionTypeOK, RowKeeps, CountersFit
<1> QED
  BY <1>1, <1>15, <1>17, <1>19, <1>20, <1>21, <1>23, <1>24
  DEF RunInv, WorkPart, EnvironmentPart, AskedPart

-----------------------------------------------------------------------------
(* The row: claims and schedulings.                                        *)

LEMMA ClaimKept ==
  ASSUME RunInv, NEW w \in RuntimeWorkers, ClaimAction(w)
  PROVE  RunInv'
<1>1. /\ work[w].pc = "idle" /\ act.attempt < AttemptBound
      /\ UNCHANGED <<runtime, build, artifact, req, env, done, verdict, excused, strayed, mishaps>>
      /\ act' = [act EXCEPT !.state = "running", !.owner = w, !.lapsed = FALSE,
                            !.attempt = act.attempt + 1]
  BY DEF ClaimAction, At
<1>2. /\ work \in [RuntimeWorkers -> Work] /\ act \in ActionRow /\ work[w].uid = NoRun
      /\ act.attempt \in 0 .. AttemptBound /\ act.cycle \in Cycles /\ act.phase \in Phases
      /\ act.attempt \in Nat /\ act.cycle \in Nat
  BY <1>1, WorkerHere, BoundFacts DEF RunInv, ExecutionTypeOK, ActionRow, RunFits, Cycles
<1>3. act.attempt + 1 \in Attempts /\ act.attempt + 1 \in 0 .. AttemptBound
  BY <1>1, <1>2, BoundFacts DEF Attempts
<1>4. /\ act' \in ActionRow /\ act'.phase = act.phase /\ act'.cycle = act.cycle
      /\ act'.attempt = act.attempt + 1
  BY <1>1, <1>2, <1>3 DEF ActionRow
<1>5. PICK r \in Runs : r = <<act.cycle, act.attempt + 1>> /\ r[1] = act.cycle /\ r[2] = act.attempt + 1
  BY <1>2, <1>3, MakeRun
<1>6. PICK o \in Work :
        /\ work' = [work EXCEPT ![w] = o]
        /\ o.pc = IF act.phase = "verify" THEN "request" ELSE "source"
        /\ o.phase = act.phase /\ o.run = r /\ o.uid = NoRun
  <2> DEFINE o == [Resting EXCEPT !.pc = IF act.phase = "verify" THEN "request" ELSE "source",
                                  !.phase = act.phase, !.run = r]
  <2>1. "request" \in Points /\ "source" \in Points /\ r \in Runs \cup {NoRun}
        /\ Resting \in Work /\ Resting.uid = NoRun
    BY RestingFits DEF Points
  <2>2. /\ o \in Work /\ o.pc = (IF act.phase = "verify" THEN "request" ELSE "source")
        /\ o.phase = act.phase /\ o.run = r /\ o.uid = NoRun
    BY <1>2, <2>1 DEF Work
  <2>3. work' = [work EXCEPT ![w] = o]
    BY <1>5 DEF ClaimAction
  <2> QED
    BY <2>2, <2>3
<1>7. /\ ClaimsGrow /\ \A t \in Runs : Claimed(t) => Claimed(t)'
      /\ ~Claimed(r) /\ (act.phase = "verify" => Claimed(r)')
  <2>1. ASSUME NEW t \in Runs, Claimed(t)
        PROVE  Claimed(t)'
    BY <1>2, <1>4, <2>1, RunFacts DEF Claimed
  <2>2. ~Claimed(r) /\ (act.phase = "verify" => Claimed(r)')
    BY <1>2, <1>4, <1>5 DEF Claimed
  <2> QED
    BY <1>4, <2>1, <2>2 DEF ClaimsGrow
<1>8. req[r].step = "none" /\ Unused(r)
  BY <1>7 DEF RunInv, FreshPart
<1>9. DoneFits(o) /\ AskFits(o)
  BY <1>6, <1>8 DEF DoneFits, AskFits, Asks
<1>10. \A v \in RuntimeWorkers : DoneFits(work[v])' /\ AskFits(work[v])'
  BY <1>1, <1>6, <1>9, DoneMoves, AsksMove
<1>11. \A v \in RuntimeWorkers : RunFits(work[v])'
  <2> SUFFICES ASSUME NEW v \in RuntimeWorkers
               PROVE  RunFits(work[v])'
    OBVIOUS
  <2>1. CASE v = w
    <3>1. work'[v] = o
      BY <1>2, <1>6, <2>1
    <3>2. act.phase = "verify" => Claimed(work[v].run)'
      BY <1>2, <1>4, <1>5, <1>6, <3>1 DEF Claimed
    <3> QED
      BY <1>2, <1>6, <3>1, <3>2 DEF RunFits, Builds, Asks, Uses, Phases
  <2>2. CASE v # w
    <3>1. work'[v] = work[v] /\ RunFits(work[v])
      BY <1>2, <1>6, <2>2, WorkerHere
    <3>2. work[v].run \in Runs /\ Claimed(work[v].run) => Claimed(work[v].run)'
      <4>1. PICK t : t = work[v].run
        OBVIOUS
      <4>2. Claimed(t)' = Claimed(work[v].run)'
        BY <3>1, <4>1 DEF Claimed
      <4> QED
        BY <1>7, <4>1, <4>2
    <3> QED
      BY <3>1, <3>2 DEF RunFits
  <2> QED
    BY <2>1, <2>2
<1>12. ASSUME NEW v \in RuntimeWorkers, v # w, Verifies(v)'
       PROVE  work'[v] = work[v] /\ Verifies(v) /\ Claimed(work[v].run) /\ work'[v].run # r
  <2>1. work'[v] = work[v] /\ Verifies(v)
    BY <1>2, <1>6, <1>12 DEF Verifies
  <2>2. Claimed(work[v].run)
    BY <2>1, WorkerHere DEF RunFits, Verifies
  <2> QED
    BY <1>7, <2>1, <2>2
<1>13. OneEachPart'
  <2> SUFFICES ASSUME NEW v \in RuntimeWorkers, NEW x \in RuntimeWorkers, v # x,
                      Verifies(v)', Verifies(x)'
               PROVE  work'[v].run # work'[x].run
    BY DEF OneEachPart
  <2>1. work'[w].run = r
    BY <1>2, <1>6
  <2> QED
    BY <1>12, <2>1 DEF RunInv, OneEachPart
<1>14. FreshPart' /\ DonePart' /\ AskedPart'
  BY <1>1, <1>7 DEF RunInv, FreshPart, DonePart, AskedPart, Unused
<1>15. VerdictPart'
  <2> SUFFICES ASSUME verdict # NoVerdict
               PROVE  VerdictPart'
    BY <1>1 DEF VerdictPart
  <2>1. VerdictPart /\ verdict.run \in Runs /\ Claimed(verdict.run) /\ verdict.run # r
    BY <1>7 DEF RunInv, VerdictPart
  <2>2. Claimed(verdict.run)'
    BY <1>1, <1>2, <1>4, <2>1, RunFacts DEF Claimed
  <2>3. ASSUME NEW v \in RuntimeWorkers, Verifies(v)', work'[v].run = verdict.run
        PROVE  work'[v].pc = "mark"
    <3>1. v # w
      BY <1>2, <1>6, <2>1, <2>3
    <3> QED
      BY <1>12, <2>1, <2>3, <3>1 DEF VerdictPart
  <2> QED
    BY <1>1, <2>1, <2>2, <2>3 DEF VerdictPart, Covers
<1>16. KeepsCare(w, o)
  BY <1>1, <1>2, RunFacts DEF KeepsCare, RunInv, EnvironmentPart, Needed
<1>17. CaredPart'
  BY <1>1, <1>6, <1>16, CareGoesOn
<1>18. ExecutionTypeOK'
  BY <1>1, <1>2, <1>4, <1>6 DEF RunInv, ExecutionTypeOK
<1> QED
  BY <1>1, <1>10, <1>11, <1>13, <1>14, <1>15, <1>17, <1>18, EnvironmentStays DEF RunInv, WorkPart

LEMMA ScheduleLeft ==
  ASSUME RunInv, Schedule
  PROVE  RunInv'
<1>1. act \in ActionRow /\ act.cycle \in Cycles /\ act.cycle \in Nat
  BY Untaken DEF ActionRow, Cycles
<1>2. act' \in ActionRow
  <2>1. CASE act.phase = "materialize" /\ act.state = "completed"
             /\ act' = [act EXCEPT !.phase = "verify", !.state = "queued", !.attempt = 0,
                                   !.owner = NoRuntimeWorker]
    <3>1. 0 \in 0 .. AttemptBound /\ "verify" \in Phases
      BY BoundFacts DEF Phases
    <3> QED
      BY <1>1, <2>1, <3>1 DEF ActionRow
  <2>2. CASE act.cycle < MaxCycles
             /\ act' = [act EXCEPT !.state = "queued", !.attempt = 0, !.class = "none",
                                   !.cycle = act.cycle + 1]
    <3>1. act.cycle + 1 \in Cycles /\ 0 \in 0 .. AttemptBound
      BY <1>1, <2>2, BoundFacts DEF Cycles
    <3> QED
      BY <1>1, <2>2, <3>1 DEF ActionRow
  <2> QED
    BY <2>1, <2>2 DEF Schedule
<1>3. ASSUME NEW r \in Runs, Claimed(r)
      PROVE  Claimed(r)'
  <2>1. act.phase = "verify" /\ r[1] <= act.cycle /\ r[1] \in Nat
    BY <1>1, <1>3, RunFacts DEF Claimed
  <2>2. act' = [act EXCEPT !.state = "queued", !.attempt = 0, !.class = "none",
                           !.cycle = act.cycle + 1]
    BY <2>1 DEF Schedule
  <2>3. act'.phase = "verify" /\ act'.cycle = act.cycle + 1
    BY <1>1, <2>1, <2>2 DEF ActionRow
  <2> QED
    BY <1>1, <2>1, <2>3 DEF Claimed
<1>4. ClaimsGrow
  BY <1>2, <1>3 DEF ClaimsGrow
<1> QED
  BY <1>4, NobodyMoves, Untaken DEF Schedule

-----------------------------------------------------------------------------
(* The Controller and the Reaper.                                          *)

EnvironmentChanges ==
  /\ env' \in [Attempts -> VerificationEnvironment] /\ EnvironmentPart'
  /\ excused' \subseteq Runs /\ CountersFit'
  /\ \A a \in Attempts : Needed(env'[a]) =>
       /\ Needed(env[a]) /\ env'[a].uid = env[a].uid
       /\ env[a].uid \in excused => env[a].uid \in excused'

LEMMA EnvironmentChangesKept ==
  ASSUME RunInv, EnvironmentChanges, EnvironmentKeeps
  PROVE  RunInv'
<1>1. ExecutionTypeOK'
  BY DEF RunInv, ExecutionTypeOK, EnvironmentChanges, EnvironmentKeeps, CountersFit
<1>2. WorkPart'
  BY DEF RunInv, WorkPart, RunFits, DoneFits, AskFits, Unused, Covers, Claimed, EnvironmentKeeps
<1>3. OneEachPart' /\ FreshPart' /\ AskedPart' /\ DonePart'
  BY DEF RunInv, OneEachPart, Verifies, FreshPart, Claimed, Unused, AskedPart, DonePart,
         EnvironmentKeeps
<1>4. VerdictPart'
  BY DEF RunInv, VerdictPart, Verifies, Claimed, Covers, EnvironmentKeeps
<1>5. CaredPart'
  <2> SUFFICES ASSUME NEW a \in Attempts, Needed(env'[a]), NEW u, u = env'[a].uid
               PROVE  Cared(u)'
    BY DEF CaredPart, Needed, Cared
  <2>1. Cared(u) /\ (u \in excused => u \in excused')
    BY DEF RunInv, CaredPart, EnvironmentChanges
  <2> QED
    BY <2>1 DEF Cared, EnvironmentKeeps
<1> QED
  BY <1>1, <1>2, <1>3, <1>4, <1>5 DEF RunInv, EnvironmentChanges

(* The steps that leave the environment where it is.                       *)
LEMMA PhaseChangesKept ==
  ASSUME RunInv, NEW a \in Attempts,
         EnvironmentReady(a) \/ EnvironmentFails(a) \/ EnvironmentDrains(a)
  PROVE  RunInv'
<1>1. /\ env \in [Attempts -> VerificationEnvironment] /\ EnvironmentPart
      /\ env[a] \in VerificationEnvironment /\ excused \subseteq Runs
  BY DEF RunInv, ExecutionTypeOK
<1>2. /\ env[a].phase \in {"provisioning", "ready", "failed"} /\ excused' = excused
      /\ EnvironmentKeeps
  BY DEF EnvironmentReady, EnvironmentFails, EnvironmentDrains
<1>3. CountersFit'
  BY <1>2, Untaken DEF EnvironmentReady, EnvironmentFails, EnvironmentDrains, EnvironmentKeeps
<1>4. PICK e \in VerificationEnvironment :
        /\ env' = [env EXCEPT ![a] = e] /\ e.uid = env[a].uid /\ e.release = env[a].release
        /\ e.phase # "none" /\ (Needed(e) => Needed(env[a]))
  <2>1. ASSUME NEW phase \in {"ready", "failed", "draining"}, env' = [env EXCEPT ![a].phase = phase]
        PROVE  /\ env' = [env EXCEPT ![a] = [env[a] EXCEPT !.phase = phase]]
               /\ [env[a] EXCEPT !.phase = phase] \in VerificationEnvironment
               /\ [env[a] EXCEPT !.phase = phase].phase = phase
               /\ [env[a] EXCEPT !.phase = phase].uid = env[a].uid
               /\ [env[a] EXCEPT !.phase = phase].release = env[a].release
    BY <1>1, <2>1 DEF VerificationEnvironment
  <2>2. CASE EnvironmentReady(a)
    <3>1. env' = [env EXCEPT ![a].phase = "ready"] /\ env[a].phase = "provisioning"
      BY <2>2 DEF EnvironmentReady
    <3> QED
      BY <2>1, <3>1 DEF Needed
  <2>3. CASE EnvironmentFails(a)
    <3>1. env' = [env EXCEPT ![a].phase = "failed"]
      BY <2>3 DEF EnvironmentFails
    <3> QED
      BY <2>1, <3>1 DEF Needed
  <2>4. CASE EnvironmentDrains(a)
    <3>1. env' = [env EXCEPT ![a].phase = "draining"]
      BY <2>4 DEF EnvironmentDrains
    <3> QED
      BY <2>1, <3>1 DEF Needed
  <2> QED
    BY <2>2, <2>3, <2>4
<1>5. NoEnv.phase = "none"
  BY DEF NoEnv
<1>6. EnvironmentPart'
  BY <1>1, <1>2, <1>4, <1>5 DEF EnvironmentPart
<1>7. EnvironmentChanges
  BY <1>1, <1>2, <1>3, <1>4, <1>6 DEF EnvironmentChanges
<1> QED
  BY <1>2, <1>7, EnvironmentChangesKept

(* Its name is the attempt's, so the one that goes takes no other with it. *)
LEMMA EnvironmentGoesKept ==
  ASSUME RunInv, NEW a \in Attempts, EnvironmentGoes(a)
  PROVE  RunInv'
<1>1. /\ env \in [Attempts -> VerificationEnvironment] /\ EnvironmentPart
      /\ excused \subseteq Runs /\ mishaps \in 0 .. MaxMishaps
  BY DEF RunInv, ExecutionTypeOK
<1>2. /\ env[a].phase = "draining" /\ env' = [env EXCEPT ![a] = NoEnv]
      /\ excused' = excused \ {env[a].uid} /\ mishaps' = mishaps /\ EnvironmentKeeps
  BY DEF EnvironmentGoes
<1>3. NoEnv \in VerificationEnvironment /\ NoEnv.phase = "none"
  BY DEF NoEnv, VerificationEnvironment
<1>4. env' \in [Attempts -> VerificationEnvironment] /\ EnvironmentPart'
  BY <1>1, <1>2, <1>3 DEF EnvironmentPart
<1>5. ASSUME NEW b \in Attempts, Needed(env'[b])
      PROVE  /\ Needed(env[b]) /\ env'[b].uid = env[b].uid
             /\ env[b].uid \in excused => env[b].uid \in excused'
  <2>1. b # a
    BY <1>1, <1>2, <1>3, <1>5 DEF Needed
  <2>2. env'[b] = env[b]
    BY <1>1, <1>2, <2>1
  <2>3. env[b].uid[2] = b /\ env[a].uid[2] = a
    BY <1>1, <1>2, <1>5, <2>2 DEF EnvironmentPart, Needed
  <2> QED
    BY <1>2, <1>5, <2>1, <2>2, <2>3
<1>6. EnvironmentChanges
  BY <1>1, <1>2, <1>4, <1>5, Untaken DEF EnvironmentChanges, EnvironmentKeeps
<1> QED
  BY <1>2, <1>6, EnvironmentChangesKept

-----------------------------------------------------------------------------
(* The invariant.                                                          *)

LEMMA ExecutionStarts ==
  ASSUME ExecutionInit
  PROVE  RunInv
<1>1. /\ act = [phase |-> "materialize", state |-> "queued", attempt |-> 0,
                owner |-> NoRuntimeWorker, lapsed |-> FALSE, class |-> "none", cycle |-> 1]
      /\ work = [w \in RuntimeWorkers |-> Resting]
      /\ req = [r \in Runs |-> NoRequest] /\ env = [a \in Attempts |-> NoEnv]
      /\ done = [r \in Runs |-> [c \in Cycles |-> <<>>]] /\ verdict = NoVerdict
      /\ runtime \in Runtimes /\ artifact = NoImage /\ excused = {} /\ mishaps = MaxMishaps
      /\ strayed = FALSE
  BY DEF ExecutionInit
<1>2. NoEnv \in VerificationEnvironment /\ NoEnv.phase = "none"
  BY DEF NoEnv, VerificationEnvironment
<1>3. NoImage \in Image /\ FileCount \in 0 .. FileCount /\ 0 \in 0 .. FileCount
  BY BoundFacts DEF NoImage, Image
<1>4. build \in Build
  <2>1. PICK image \in {NoImage, [spec |-> "other", files |-> FileCount]}, sound \in BOOLEAN :
          build = [inst |-> FALSE, files |-> 0, job |-> "none", image |-> image,
                   blobs |-> FALSE, manifest |-> FALSE, sound |-> sound]
    BY DEF ExecutionInit
  <2>2. image \in Image
    BY <1>3 DEF Image
  <2> QED
    BY <1>3, <2>1, <2>2 DEF Build
<1>5. act \in ActionRow /\ ~(act.phase = "verify")
  <2>1. 0 \in 0 .. AttemptBound /\ 1 \in Cycles
    BY BoundFacts
  <2> QED
    BY <1>1, <2>1 DEF ActionRow, Phases
<1>6. verdict \in VerificationReport
  BY <1>1 DEF NoVerdict, VerificationReport
<1>7. done \in [Runs -> [Cycles -> Seq(Entry)]] /\ \A r \in Runs, c \in Cycles : done[r][c] = <<>>
  <2>1. <<>> \in Seq(Entry)
    OBVIOUS
  <2> QED
    BY <1>1, <2>1
<1>8. mishaps \in 0 .. MaxMishaps
  BY <1>1, BoundFacts
<1>9. ExecutionTypeOK
  BY <1>1, <1>2, <1>3, <1>4, <1>5, <1>6, <1>7, <1>8, RestingFits, NoRequestTyped
  DEF ExecutionTypeOK
<1>10. WorkPart
  BY <1>1, RestingFits DEF WorkPart
<1>11. OneEachPart /\ AskedPart /\ VerdictPart
  BY <1>1, RestingFits, NoRequestTyped DEF OneEachPart, Verifies, AskedPart, VerdictPart
<1>12. FreshPart
  BY <1>1, <1>7, NoRequestTyped, RunFacts DEF FreshPart, Unused
<1>13. EnvironmentPart /\ CaredPart
  BY <1>1, <1>2 DEF EnvironmentPart, CaredPart, Needed
<1>14. DonePart
  BY <1>7 DEF DonePart
<1> QED
  BY <1>9, <1>10, <1>11, <1>12, <1>13, <1>14 DEF RunInv

LEMMA ExecutionStutters ==
  ASSUME RunInv, UNCHANGED executionVars
  PROVE  RunInv'
<1>1. RowKeeps
  BY Untaken DEF executionVars
<1> QED
  BY <1>1, Untaken, ClaimsStand, NobodyMoves DEF executionVars

LEMMA EveryExecutionStep ==
  ASSUME RunInv, [ExecutionNext]_executionVars
  PROVE  RunInv'
<1>1. CASE UNCHANGED executionVars
  BY <1>1, ExecutionStutters
<1>2. ASSUME NEW w \in RuntimeWorkers, ClaimAction(w) \/ ReportActionFailure(w)
      PROVE  RunInv'
  BY <1>2, ClaimKept, ReportKept
<1>3. ASSUME NEW w \in RuntimeWorkers, Building(w)
      PROVE  RunInv'
  <2>1. CASE CompleteMaterialization(w)
    BY <2>1, AcceptKept
  <2>2. CASE \/ ReadSource(w) \/ GetImageAlias(w) \/ DeleteBuildInstance(w) \/ WaitDeleted(w)
             \/ DeleteOwnedImageAlias(w) \/ CreateInstance(w) \/ WaitCreated(w)
             \/ CreateInstanceFile(w) \/ CreateImage(w) \/ WaitPublished(w)
    BY <2>2, NodeBuildSteps, BuildWalks
  <2>3. CASE \/ PullBaseImage(w) \/ AppendBundleLayer(w) \/ ResolveArtifact(w) \/ PushBlobs(w)
             \/ PushManifest(w) \/ ResolvePublished(w)
    BY <2>3, ImageBuildSteps, BuildWalks
  <2> QED
    BY <1>3, <2>1, <2>2, <2>3 DEF Building
<1>4. ASSUME NEW w \in RuntimeWorkers, Verifying(w)
      PROVE  RunInv'
  BY <1>4, RequestEnvironmentKept, PollKept, ExecuteKept, ExecutionFailsKept, StoreOutputKept,
     RequestReleaseKept, CompleteKept, ReleaseAfterReportKept DEF Verifying
<1>5. ASSUME NEW w \in RuntimeWorkers,
             NoticeLoss(w) \/ WorkerCrashes(w) \/ CallFails(w) \/ DeadlinePasses(w)
      PROVE  RunInv'
  BY <1>5, NoticeLossKept, CallFailsLeft, DeadlineKept
<1>6. CASE LeaseLapses \/ Schedule \/ JobEnds
  BY <1>6, JobOrLapseKept, ScheduleLeft
<1>7. ASSUME NEW run \in Runs, Server(run)
      PROVE  RunInv'
  BY <1>7, CreateEnvironmentKept, AnswerRequestKept DEF Server
<1>8. ASSUME NEW a \in Attempts, \/ EnvironmentReady(a) \/ EnvironmentFails(a)
                                 \/ EnvironmentDrains(a) \/ EnvironmentGoes(a)
      PROVE  RunInv'
  BY <1>8, PhaseChangesKept, EnvironmentGoesKept
<1> QED
  BY <1>1, <1>2, <1>3, <1>4, <1>5, <1>6, <1>7, <1>8 DEF ExecutionNext, WorkerStep

-----------------------------------------------------------------------------
(* What the invariant promises.                                            *)

LEMMA RunInvPromises ==
  ASSUME RunInv
  PROVE  ExecutionTypeOK /\ VerdictIsTheRuns /\ LostEnvironmentsAreMarked
<1>1. VerdictIsTheRuns
  <2> SUFFICES ASSUME verdict # NoVerdict,
                      NEW here, here = done[verdict.uid][verdict.run[1]]
               PROVE  /\ \A i \in DOMAIN here : here[i].run = verdict.run
                      /\ verdict.passed =>
                           here = [i \in 1 .. StepCount |-> [run |-> verdict.run, step |-> i]]
    BY DEF VerdictIsTheRuns
  <2>1. /\ verdict.run \in Runs /\ verdict.uid \in Runs /\ verdict.uid[2] = verdict.run[2]
        /\ verdict.passed => Covers(here, verdict.run, StepCount)
    BY DEF RunInv, VerdictPart
  <2>2. verdict.run[1] \in Cycles /\ verdict.run = <<verdict.run[1], verdict.run[2]>>
    BY <2>1, RunFacts
  <2>3. here \in Seq(Entry)
    BY <2>1, <2>2 DEF RunInv, ExecutionTypeOK
  <2>4. \A i \in 1 .. Len(here) : here[i].run = verdict.run
    BY <2>1, <2>2 DEF RunInv, DonePart
  <2>5. ASSUME Covers(here, verdict.run, StepCount)
        PROVE  here = [i \in 1 .. StepCount |-> [run |-> verdict.run, step |-> i]]
    <3>1. here = [i \in 1 .. Len(here) |-> here[i]]
      BY <2>3
    <3>2. Len(here) = StepCount
          /\ \A i \in 1 .. StepCount : here[i] = [run |-> verdict.run, step |-> i]
      BY <2>5 DEF Covers
    <3> QED
      BY <3>1, <3>2
  <2>6. \A i \in DOMAIN here : here[i].run = verdict.run
    <3>1. DOMAIN here = 1 .. Len(here)
      BY <2>3
    <3> QED
      BY <2>4, <3>1
  <2>7. verdict.passed =>
          here = [i \in 1 .. StepCount |-> [run |-> verdict.run, step |-> i]]
    BY <2>1, <2>5
  <2> QED
    BY <2>6, <2>7
<1>2. LostEnvironmentsAreMarked
  BY DEF RunInv, CaredPart, Needed, Cared, LostEnvironmentsAreMarked, At
<1> QED
  BY <1>1, <1>2 DEF RunInv

-----------------------------------------------------------------------------
(* Builds, as long as nobody has strayed.                                  *)

Unstrayed(w) == Entitled(w) /\ ~strayed /\ ~strayed'

LEMMA NoBuildFits ==
  ASSUME NEW o, o.pc \notin Builds
  PROVE  BuildFits(o) /\ BuildFits(o)'
BY DEF BuildFits, Builds

LEMMA BuildHere ==
  ASSUME RunInv, BuildInv, NEW w \in RuntimeWorkers, Unstrayed(w)
  PROVE  /\ work \in [RuntimeWorkers -> Work] /\ work[w] \in Work /\ build \in Build
         /\ BuildFits(work[w]) /\ JobPart
         /\ work[w].pc \in Builds => work[w].phase = "materialize"
BY WorkerHere, Untaken, PlaceTellsPhase DEF BuildInv, SoundPart, Unstrayed

(* A place of another build fits as long as the registry keeps what it has.*)
LEMMA PlaceStands ==
  ASSUME NEW o, BuildFits(o), runtime' = runtime, runtime # "node",
         build.manifest => build'.manifest
  PROVE  BuildFits(o)'
BY DEF BuildFits

(* A step of a build.                                                      *)
LEMMA BuildGoesOn ==
  ASSUME RunInv, BuildInv, NEW w \in RuntimeWorkers, Unstrayed(w),
         NEW o \in Work, work' = [work EXCEPT ![w] = o], Builder(w),
         runtime = "node" \/ (build.manifest => build'.manifest),
         JobPart', BuildFits(o)'
  PROVE  BuildInv'
<1>1. work \in [RuntimeWorkers -> Work] /\ SoundPart /\ ~strayed /\ ~strayed' /\ Entitled(w)
  BY WorkerHere DEF BuildInv, Unstrayed
<1>2. UNCHANGED <<runtime, act, artifact>>
  BY DEF Builder, BuildKeeps
<1>3. ASSUME NEW v \in RuntimeWorkers, Entitled(v)'
      PROVE  BuildFits(work[v])'
  <2>1. PICK p : p = work'[v]
    OBVIOUS
  <2>2. CASE v = w
    <3>1. p = o
      BY <1>1, <2>1, <2>2
    <3> QED
      BY <2>1, <3>1 DEF BuildFits
  <2>3. CASE v # w
    <3>1. Entitled(v) /\ runtime # "node"
      BY <1>1, <1>2, <1>3, <2>3 DEF Entitled, Owns
    <3>2. p = work[v] /\ BuildFits(p)
      BY <1>1, <2>1, <2>3, <3>1 DEF SoundPart
    <3>3. BuildFits(p)'
      BY <1>2, <3>1, <3>2, PlaceStands
    <3> QED
      BY <2>1, <3>3 DEF BuildFits
  <2> QED
    BY <2>2, <2>3
<1>4. AcceptedIsWhole'
  BY <1>1, <1>2 DEF BuildInv, AcceptedIsWhole
<1> QED
  BY <1>1, <1>3, <1>4 DEF BuildInv, SoundPart

(* One who has lost a node's build does not touch it, or has strayed.      *)
LEMMA StrayFits ==
  ASSUME RunInv, BuildInv, NEW w \in RuntimeWorkers, ~Unstrayed(w), BuildStep(w)
  PROVE  BuildInv'
<1>1. PICK o \in Work : work' = [work EXCEPT ![w] = o]
  BY DEF BuildStep
<1>2. /\ work \in [RuntimeWorkers -> Work] /\ UNCHANGED <<runtime, act, artifact>>
      /\ strayed' = (strayed \/ (runtime = "node" /\ build' # build /\ ~Owns(w)))
  BY WorkerHere DEF BuildStep, Builder, BuildKeeps
<1>3. AcceptedIsWhole' /\ (strayed' => runtime' = "node")
  BY <1>2 DEF BuildInv, AcceptedIsWhole
<1>4. ASSUME ~strayed', NEW v \in RuntimeWorkers, Entitled(v)'
      PROVE  BuildFits(work[v])'
  <2>1. ~strayed /\ ~Owns(w) /\ runtime = "node" /\ build' = build
    BY <1>2, <1>4 DEF Unstrayed, Entitled
  <2>2. PICK p : p = work'[v]
    OBVIOUS
  <2>3. v # w /\ Entitled(v)
    BY <1>2, <1>4, <2>1 DEF Entitled, Owns
  <2>4. p = work[v] /\ BuildFits(p)
    BY <1>1, <1>2, <2>1, <2>2, <2>3 DEF BuildInv, SoundPart
  <2> QED
    BY <1>2, <2>1, <2>2, <2>4 DEF BuildFits
<1>5. ASSUME ~strayed'
      PROVE  JobPart'
  <2>1. ~strayed /\ build' = build
    BY <1>2, <1>5 DEF Unstrayed, Entitled
  <2> QED
    BY <2>1 DEF BuildInv, SoundPart, JobPart
<1> QED
  BY <1>3, <1>4, <1>5 DEF BuildInv, SoundPart

(* What nobody writes to, nobody strays with.                              *)
LEMMA NobodyStrays ==
  ASSUME RunInv, NEW w, Builder(w), build' = build
  PROVE  UNCHANGED <<runtime, act, build, artifact, strayed>>
BY DEF RunInv, ExecutionTypeOK, Builder, BuildKeeps

(* A worker leaves its build, or was at none.                              *)
Leaves(w) == \E o \in Work : work' = [work EXCEPT ![w] = o] /\ o.pc \notin Builds

LEMMA QuitLeaves ==
  ASSUME NEW w, Quit(w)
  PROVE  Leaves(w)
BY RestingFits DEF Quit, Leaves, Builds

LEMMA GotoLeaves ==
  ASSUME RunInv, NEW w \in RuntimeWorkers, NEW pc \in Points \ Builds, Goto(w, pc)
  PROVE  Leaves(w)
<1>1. PICK o \in Work : work' = [work EXCEPT ![w] = o] /\ o.pc = pc /\ o.phase = work[w].phase
  BY WorkerHere, GoesTo
<1> QED
  BY <1>1 DEF Leaves

LEMMA FailLeaves ==
  ASSUME RunInv, NEW w \in RuntimeWorkers, NEW class \in {"infrastructure", "artifact"}, Fail(w, class)
  PROVE  Leaves(w)
<1>1. PICK o \in Work : work' = [work EXCEPT ![w] = o] /\ o.pc = "fail" /\ o.phase = work[w].phase
  BY WorkerHere, Fails
<1> QED
  BY <1>1 DEF Leaves, Builds

(* Nobody is given the action who did not have it.                         *)
SameOwner == \A w \in RuntimeWorkers : Owns(w)' => Owns(w)

LEMMA SameOwnerWhen ==
  ASSUME act' = act \/ act'.state # "running"
  PROVE  SameOwner
BY DEF SameOwner, Owns

LEMMA BuildLeft ==
  ASSUME RunInv, BuildInv, NEW w \in RuntimeWorkers, Leaves(w) \/ work' = work,
         UNCHANGED <<runtime, build, strayed>>, SameOwner,
         artifact' = artifact \/ AcceptedIsWhole'
  PROVE  BuildInv'
<1>1. work \in [RuntimeWorkers -> Work]
  BY WorkerHere
<1>2. AcceptedIsWhole' /\ (strayed' => runtime' = "node") /\ (~strayed' => JobPart')
  BY DEF BuildInv, SoundPart, JobPart, AcceptedIsWhole
<1>3. ASSUME ~strayed', NEW v \in RuntimeWorkers, Entitled(v)'
      PROVE  BuildFits(work[v])'
  <2>1. PICK p : p = work'[v]
    OBVIOUS
  <2>2. CASE p = work[v]
    <3>1. Entitled(v) /\ ~strayed
      BY <1>3 DEF Entitled, SameOwner
    <3>2. BuildFits(p)
      BY <2>2, <3>1 DEF BuildInv, SoundPart
    <3> QED
      BY <2>1, <3>2 DEF BuildFits
  <2>3. CASE p.pc \notin Builds
    <3>1. BuildFits(p)'
      BY <2>3, NoBuildFits
    <3> QED
      BY <2>1, <3>1 DEF BuildFits
  <2> QED
    BY <1>1, <2>1, <2>2, <2>3 DEF Leaves
<1> QED
  BY <1>2, <1>3 DEF BuildInv, SoundPart

LEMMA BuildUntouched ==
  ASSUME RunInv, BuildInv, UNCHANGED <<runtime, build, artifact, work, strayed>>, SameOwner
  PROVE  BuildInv'
<1>1. CASE RuntimeWorkers = {}
  BY <1>1 DEF BuildInv, SoundPart, JobPart, AcceptedIsWhole
<1>2. CASE \E w \in RuntimeWorkers : TRUE
  BY <1>2, BuildLeft
<1> QED
  BY <1>1, <1>2

-----------------------------------------------------------------------------
(* The requests of a build.                                                *)

(* Another place of the build, or giving up, with the build as it is.    *)
LEMMA BuildGoesToPlace ==
  ASSUME RunInv, BuildInv, NEW w \in RuntimeWorkers, Unstrayed(w), work[w].pc \in Builds,
         NEW pc \in Builds, Goto(w, pc), Builder(w),
         runtime = "node" \/ (build.manifest => build'.manifest), JobPart',
         \A o \in Work : o.pc = pc /\ o.phase = "materialize" /\ o.at = work[w].at => BuildFits(o)'
  PROVE  BuildInv'
<1>1. work \in [RuntimeWorkers -> Work] /\ pc \in Points /\ work[w].phase = "materialize"
  BY BuildHere DEF Builds, Points
<1>2. PICK o \in Work : /\ work' = [work EXCEPT ![w] = o]
                        /\ o.pc = pc /\ o.phase = work[w].phase /\ o.at = work[w].at
  BY <1>1, GoesTo
<1> QED
  BY <1>1, <1>2, BuildGoesOn

LEMMA BuildFailsFits ==
  ASSUME RunInv, BuildInv, NEW w \in RuntimeWorkers, Unstrayed(w), work[w].pc \in Builds,
         NEW class \in {"infrastructure", "artifact"}, Fail(w, class), Builder(w), build' = build
  PROVE  BuildInv'
<1>1. Leaves(w)
  BY FailLeaves DEF Builds
<1> QED
  BY <1>1, BuildLeft, NobodyStrays, SameOwnerWhen

LEMMA JobStands ==
  ASSUME BuildInv, NEW w, Unstrayed(w), build' = build
  PROVE  JobPart'
BY DEF BuildInv, SoundPart, Unstrayed, JobPart

LEMMA ReadSourceFits ==
  ASSUME RunInv, BuildInv, NEW w \in RuntimeWorkers, Unstrayed(w), ReadSource(w)
  PROVE  BuildInv'
<1>1. /\ work[w].pc \in Builds /\ Builder(w) /\ build' = build
      /\ "alias" \in Builds /\ "pull" \in Builds
  BY DEF ReadSource, At, Builds
<1>2. CASE Fail(w, "artifact")
  BY <1>1, <1>2, BuildFailsFits
<1>3. CASE Goto(w, "alias") /\ runtime = "node"
  <2>1. \A o \in Work : o.pc = "alias" /\ o.phase = "materialize" => BuildFits(o)'
    BY <1>1, <1>3 DEF BuildFits, Builder, BuildKeeps
  <2> QED
    BY <1>1, <1>3, <2>1, BuildGoesToPlace, JobStands
<1>4. CASE Goto(w, "pull") /\ runtime # "node"
  <2>1. \A o \in Work : o.pc = "pull" /\ o.phase = "materialize" => BuildFits(o)'
    BY <1>1, <1>4 DEF BuildFits, Builder, BuildKeeps
  <2> QED
    BY <1>1, <1>4, <2>1, BuildGoesToPlace, JobStands
<1> QED
  BY <1>2, <1>3, <1>4 DEF ReadSource

LEMMA GetImageAliasFits ==
  ASSUME RunInv, BuildInv, NEW w \in RuntimeWorkers, Unstrayed(w), GetImageAlias(w)
  PROVE  BuildInv'
<1>1. /\ work[w].pc \in Builds /\ Builder(w) /\ build' = build /\ runtime = "node"
      /\ "pre" \in Builds /\ "tidy" \in Builds /\ "replace" \in Builds
  BY BuildHere DEF GetImageAlias, At, Builds, BuildFits
<1>2. CASE Goto(w, "pre") \/ Goto(w, "replace")
  <2>1. \A o \in Work :
          o.pc \in {"pre", "replace"} /\ o.phase = "materialize" => BuildFits(o)'
    BY <1>1 DEF BuildFits, Builder, BuildKeeps
  <2> QED
    BY <1>1, <1>2, <2>1, BuildGoesToPlace, JobStands
<1>3. CASE Goto(w, "tidy") /\ build.image.spec = "own"
  <2>1. \A o \in Work : o.pc = "tidy" /\ o.phase = "materialize" => BuildFits(o)'
    BY <1>1, <1>3 DEF BuildFits, Builder, BuildKeeps
  <2> QED
    BY <1>1, <1>3, <2>1, BuildGoesToPlace, JobStands
<1> QED
  BY <1>2, <1>3 DEF GetImageAlias, ValidBuiltImage

(* Where the deletion of the instance leads.                             *)
LEMMA DeletedFits ==
  ASSUME RunInv, BuildInv, NEW w \in RuntimeWorkers, Unstrayed(w), work[w].pc \in {"replace", "pre", "tidy"},
         NEW o, o.pc = AfterDelete[work[w].pc], o.phase = "materialize",
         runtime' = runtime, build' = build
  PROVE  BuildFits(o)'
<1>1. work[w].pc \in Builds /\ BuildFits(work[w])
  BY BuildHere DEF Builds
<1>2. \/ work[w].pc = "replace" /\ o.pc = "unlink"
      \/ work[w].pc = "pre" /\ o.pc = "create"
      \/ work[w].pc = "tidy" /\ o.pc = "store"
  BY DEF AfterDelete
<1> QED
  BY <1>1, <1>2 DEF BuildFits

LEMMA DeletionFits ==
  ASSUME RunInv, BuildInv, NEW w \in RuntimeWorkers, Unstrayed(w), DeleteBuildInstance(w) \/ WaitDeleted(w)
  PROVE  BuildInv'
<1>1. /\ work[w].pc \in {"replace", "pre", "tidy"} /\ work[w].pc \in Builds /\ Builder(w)
      /\ AfterDelete[work[w].pc] \in Builds /\ AfterDelete[work[w].pc] \in Points
  <2>1. work[w].pc \in {"replace", "pre", "tidy"} /\ Builder(w)
    BY DEF DeleteBuildInstance, WaitDeleted, AfterDelete
  <2>2. AfterDelete[work[w].pc] \in {"unlink", "create", "store"}
    BY <2>1 DEF AfterDelete
  <2> QED
    BY <2>1, <2>2 DEF Builds, Points
<1>2. /\ work \in [RuntimeWorkers -> Work] /\ work[w] \in Work /\ build \in Build
      /\ BuildFits(work[w]) /\ JobPart /\ work[w].phase = "materialize"
  BY <1>1, BuildHere
<1>3. CASE DeleteBuildInstance(w)
  <2>1. CASE ~build.inst
    <3>1. Goto(w, AfterDelete[work[w].pc]) /\ build' = build
      BY <1>3, <2>1 DEF DeleteBuildInstance
    <3>2. PICK pc \in Builds : pc = AfterDelete[work[w].pc] /\ Goto(w, pc)
      BY <1>1, <3>1
    <3>3. \A o \in Work : o.pc = pc /\ o.phase = "materialize" => BuildFits(o)'
      BY <1>1, <3>1, <3>2, DeletedFits DEF Builder, BuildKeeps
    <3> QED
      BY <1>1, <3>1, <3>2, <3>3, BuildGoesToPlace, JobStands
  <2>2. CASE build.inst /\ build.job # "none"
    <3>1. Fail(w, "infrastructure") /\ build' = build
      BY <1>3, <2>2 DEF DeleteBuildInstance
    <3> QED
      BY <1>1, <3>1, BuildFailsFits
  <2>3. CASE build.inst /\ build.job = "none"
    <3>1. build' = [build EXCEPT !.job = "delete"] /\ work' = [work EXCEPT ![w].waits = TRUE]
      BY <1>3, <2>3 DEF DeleteBuildInstance
    <3>2. JobPart'
      BY <1>2, <3>1 DEF JobPart, Build
    <3>3. PICK o \in Work : /\ work' = [work EXCEPT ![w] = o] /\ o.pc = work[w].pc
                            /\ o.phase = "materialize"
      <4>1. [work[w] EXCEPT !.waits = TRUE] \in Work
        BY <1>2 DEF Work
      <4>2. /\ [work[w] EXCEPT !.waits = TRUE].pc = work[w].pc
            /\ [work[w] EXCEPT !.waits = TRUE].phase = "materialize"
        BY <1>2 DEF Work
      <4> QED
        BY <3>1, <4>1, <4>2
    <3>4. build'.image = build.image /\ runtime' = runtime
      BY <1>1, <1>2, <3>1 DEF Build, Builder, BuildKeeps
    <3>5. BuildFits(o)' /\ runtime = "node"
      BY <1>1, <1>2, <3>3, <3>4 DEF BuildFits
    <3> QED
      BY <1>1, <3>2, <3>3, <3>5, BuildGoesOn
  <2> QED
    BY <1>2, <2>1, <2>2, <2>3 DEF Build
<1>4. CASE WaitDeleted(w)
  <2>1. build' = build
    BY <1>4 DEF WaitDeleted
  <2>2. PICK o \in Work : /\ work' = [work EXCEPT ![w] = o] /\ o.pc = AfterDelete[work[w].pc]
                          /\ o.phase = "materialize"
    <3> DEFINE o == [work[w] EXCEPT !.pc = AfterDelete[work[w].pc], !.waits = FALSE]
    <3>1. o \in Work /\ o.pc = AfterDelete[work[w].pc] /\ o.phase = "materialize"
      BY <1>1, <1>2 DEF Work
    <3>2. work' = [work EXCEPT ![w] = o]
      BY <1>4 DEF WaitDeleted
    <3> QED
      BY <3>1, <3>2
  <2>3. BuildFits(o)'
    BY <1>1, <2>1, <2>2, DeletedFits DEF Builder, BuildKeeps
  <2> QED
    BY <1>1, <2>1, <2>2, <2>3, BuildGoesOn, JobStands
<1> QED
  BY <1>3, <1>4

LEMMA UnlinkFits ==
  ASSUME RunInv, BuildInv, NEW w \in RuntimeWorkers, Unstrayed(w), DeleteOwnedImageAlias(w)
  PROVE  BuildInv'
<1>1. /\ work[w].pc \in Builds /\ Builder(w) /\ Goto(w, "pre") /\ "pre" \in Builds
      /\ build' = [build EXCEPT !.image = NoImage] /\ runtime = "node"
  BY BuildHere DEF DeleteOwnedImageAlias, At, Builds, BuildFits
<1>2. JobPart'
  BY <1>1, BuildHere DEF JobPart, Build, NoImage
<1>3. \A o \in Work : o.pc = "pre" /\ o.phase = "materialize" => BuildFits(o)'
  BY <1>1 DEF BuildFits, Builder, BuildKeeps
<1> QED
  BY <1>1, <1>2, <1>3, BuildGoesToPlace

LEMMA CreateInstanceFits ==
  ASSUME RunInv, BuildInv, NEW w \in RuntimeWorkers, Unstrayed(w), CreateInstance(w)
  PROVE  BuildInv'
<1>1. /\ work[w].pc \in Builds /\ Builder(w) /\ "created" \in Builds /\ runtime = "node"
      /\ build \in Build /\ JobPart
  BY BuildHere DEF CreateInstance, At, Builds, BuildFits
<1>2. CASE build.inst \/ build.job # "none"
  BY <1>1, <1>2, BuildFailsFits DEF CreateInstance
<1>3. CASE ~(build.inst \/ build.job # "none")
  <2>1. build' = [build EXCEPT !.job = "create"] /\ Goto(w, "created")
    BY <1>3 DEF CreateInstance
  <2>2. JobPart' /\ build'.job = "create"
    BY <1>1, <1>3, <2>1 DEF JobPart, Build
  <2>3. \A o \in Work : o.pc = "created" /\ o.phase = "materialize" => BuildFits(o)'
    BY <1>1, <2>2 DEF BuildFits, Builder, BuildKeeps
  <2> QED
    BY <1>1, <2>1, <2>2, <2>3, BuildGoesToPlace
<1> QED
  BY <1>2, <1>3

LEMMA WaitCreatedFits ==
  ASSUME RunInv, BuildInv, NEW w \in RuntimeWorkers, Unstrayed(w), WaitCreated(w)
  PROVE  BuildInv'
<1>1. /\ work[w].pc \in Builds /\ Builder(w) /\ build' = build /\ runtime = "node"
      /\ work \in [RuntimeWorkers -> Work] /\ work[w] \in Work /\ work[w].phase = "materialize"
      /\ build.job = "none" /\ build.inst /\ build.files = 0
  BY BuildHere DEF WaitCreated, At, Builds, BuildFits
<1>2. PICK o \in Work : /\ work' = [work EXCEPT ![w] = o]
                        /\ o.pc = "write" /\ o.phase = "materialize" /\ o.at = 0
  <2> DEFINE o == [work[w] EXCEPT !.pc = "write", !.at = 0]
  <2>1. 0 \in 0 .. StepCount + FileCount /\ "write" \in Points
    BY BoundFacts DEF Points
  <2>2. o \in Work /\ o.pc = "write" /\ o.phase = "materialize" /\ o.at = 0
    BY <1>1, <2>1 DEF Work
  <2>3. work' = [work EXCEPT ![w] = o]
    BY DEF WaitCreated
  <2> QED
    BY <2>2, <2>3
<1>3. BuildFits(o)'
  BY <1>1, <1>2, BoundFacts DEF BuildFits, Builder, BuildKeeps
<1> QED
  BY <1>1, <1>2, <1>3, BuildGoesOn, JobStands

LEMMA CreateInstanceFileFits ==
  ASSUME RunInv, BuildInv, NEW w \in RuntimeWorkers, Unstrayed(w), CreateInstanceFile(w)
  PROVE  BuildInv'
<1>1. /\ work[w].pc \in Builds /\ Builder(w) /\ runtime = "node" /\ build \in Build /\ JobPart
      /\ work \in [RuntimeWorkers -> Work] /\ work[w] \in Work /\ work[w].phase = "materialize"
      /\ build.job = "none" /\ build.inst /\ work[w].pc = "write" /\ work[w].at < FileCount
  BY BuildHere DEF CreateInstanceFile, At, Builds, BuildFits
<1>2. /\ build' = [build EXCEPT !.files = work[w].at + 1]
      /\ work' = [work EXCEPT ![w] = [work[w] EXCEPT !.at = work[w].at + 1]]
  BY <1>1 DEF CreateInstanceFile
<1>3. /\ work[w].at \in Nat /\ work[w].at + 1 \in 0 .. StepCount + FileCount
      /\ work[w].at + 1 <= FileCount
  BY <1>1, BoundFacts DEF Work
<1>4. PICK o \in Work : /\ work' = [work EXCEPT ![w] = o]
                        /\ o.pc = "write" /\ o.phase = "materialize" /\ o.at = work[w].at + 1
  <2> DEFINE o == [work[w] EXCEPT !.at = work[w].at + 1]
  <2>1. o \in Work /\ o.pc = "write" /\ o.phase = "materialize" /\ o.at = work[w].at + 1
    BY <1>1, <1>3 DEF Work
  <2> QED
    BY <1>2, <2>1
<1>5. JobPart' /\ build'.files = work[w].at + 1 /\ build'.job = "none" /\ build'.inst
  BY <1>1, <1>2 DEF JobPart, Build
<1>6. BuildFits(o)'
  BY <1>1, <1>3, <1>4, <1>5 DEF BuildFits, Builder, BuildKeeps
<1> QED
  BY <1>1, <1>4, <1>5, <1>6, BuildGoesOn

LEMMA CreateImageFits ==
  ASSUME RunInv, BuildInv, NEW w \in RuntimeWorkers, Unstrayed(w), CreateImage(w)
  PROVE  BuildInv'
<1>1. /\ work[w].pc \in Builds /\ Builder(w) /\ "published" \in Builds /\ runtime = "node"
      /\ build \in Build /\ JobPart /\ build.inst /\ build.files = FileCount
  BY BuildHere DEF CreateImage, At, Builds, BuildFits
<1>2. CASE Fail(w, "infrastructure") /\ build' = build
  BY <1>1, <1>2, BuildFailsFits
<1>3. CASE build' = [build EXCEPT !.job = "publish"] /\ Goto(w, "published")
  <2>1. JobPart'
    BY <1>1, <1>3 DEF JobPart, Build
  <2>2. \A o \in Work : o.pc = "published" /\ o.phase = "materialize" => BuildFits(o)'
    BY <1>1 DEF BuildFits, Builder, BuildKeeps
  <2> QED
    BY <1>1, <1>3, <2>1, <2>2, BuildGoesToPlace
<1> QED
  BY <1>2, <1>3 DEF CreateImage

LEMMA WaitPublishedFits ==
  ASSUME RunInv, BuildInv, NEW w \in RuntimeWorkers, Unstrayed(w), WaitPublished(w)
  PROVE  BuildInv'
<1>1. /\ work[w].pc \in Builds /\ Builder(w) /\ build' = build /\ runtime = "node"
      /\ "tidy" \in Builds
  BY BuildHere DEF WaitPublished, At, Builds, BuildFits
<1>2. CASE Fail(w, "infrastructure")
  BY <1>1, <1>2, BuildFailsFits
<1>3. CASE Goto(w, "tidy") /\ build.image.spec = "own"
  <2>1. \A o \in Work : o.pc = "tidy" /\ o.phase = "materialize" => BuildFits(o)'
    BY <1>1, <1>3 DEF BuildFits, Builder, BuildKeeps
  <2> QED
    BY <1>1, <1>3, <2>1, BuildGoesToPlace, JobStands
<1> QED
  BY <1>2, <1>3 DEF WaitPublished, ValidBuiltImage

(* The steps of an image for K8s; what the registry has stays there.     *)
LEMMA ImageStepsFit ==
  ASSUME RunInv, BuildInv, NEW w \in RuntimeWorkers, Unstrayed(w),
         \/ PullBaseImage(w) \/ AppendBundleLayer(w) \/ ResolveArtifact(w) \/ PushBlobs(w)
         \/ PushManifest(w) \/ ResolvePublished(w)
  PROVE  BuildInv'
<1>1. work[w].pc \in Builds /\ Builder(w) /\ runtime # "node" /\ build \in Build /\ JobPart
  BY BuildHere DEF PullBaseImage, AppendBundleLayer, ResolveArtifact, PushBlobs, PushManifest,
                   ResolvePublished, At, Builds, BuildFits
<1>2. /\ \/ \E pc \in {"layer", "resolve", "blobs", "manifest", "digest"} : Goto(w, pc)
         \/ Goto(w, "store") /\ build'.manifest
      /\ JobPart' /\ (build.manifest => build'.manifest)
  BY <1>1 DEF PullBaseImage, AppendBundleLayer, ResolveArtifact, PushBlobs, PushManifest,
              ResolvePublished, JobPart, Build
<1>3. {"layer", "resolve", "blobs", "manifest", "digest", "store"} \subseteq Builds
  BY DEF Builds
<1>4. CASE \E pc \in {"layer", "resolve", "blobs", "manifest", "digest"} : Goto(w, pc)
  <2>1. PICK pc \in {"layer", "resolve", "blobs", "manifest", "digest"} : Goto(w, pc)
    BY <1>4
  <2>2. \A o \in Work : o.pc = pc /\ o.phase = "materialize" => BuildFits(o)'
    BY <1>1 DEF BuildFits, Builder, BuildKeeps
  <2> QED
    BY <1>1, <1>2, <1>3, <2>1, <2>2, BuildGoesToPlace
<1>5. CASE Goto(w, "store") /\ build'.manifest
  <2>1. \A o \in Work : o.pc = "store" /\ o.phase = "materialize" => BuildFits(o)'
    BY <1>1, <1>5 DEF BuildFits, Builder, BuildKeeps
  <2> QED
    BY <1>1, <1>2, <1>3, <1>5, <2>1, BuildGoesToPlace
<1> QED
  BY <1>2, <1>4, <1>5

(* What is stored is what the place says was built.                      *)
LEMMA BuiltIsWhole ==
  ASSUME RunInv, BuildInv, NEW w \in RuntimeWorkers, Unstrayed(w), work[w].pc = "store"
  PROVE  Built = [spec |-> "own", files |-> FileCount]
<1>1. build \in Build /\ BuildFits(work[w]) /\ JobPart
  BY BuildHere
<1>2. CASE runtime = "node"
  <2>1. build.image \in Image /\ build.image.spec = "own" /\ build.image.files = FileCount
    BY <1>1, <1>2 DEF BuildFits, JobPart, Build
  <2> QED
    BY <1>2, <2>1 DEF Built, Image
<1>3. CASE runtime # "node"
  BY <1>1, <1>3 DEF BuildFits, JobPart, Built
<1> QED
  BY <1>2, <1>3

LEMMA AcceptFits ==
  ASSUME RunInv, BuildInv, NEW w \in RuntimeWorkers, CompleteMaterialization(w)
  PROVE  BuildInv'
<1>1. work[w].pc = "store" /\ Quit(w) /\ UNCHANGED <<runtime, build, strayed>> /\ act \in ActionRow
  BY Untaken DEF CompleteMaterialization, At
<1>2. CASE ~HoldsLease(w)
  <2>1. UNCHANGED <<artifact, act>>
    BY <1>2 DEF CompleteMaterialization
  <2> QED
    BY <1>1, <2>1, QuitLeaves, SameOwnerWhen, BuildLeft
<1>3. CASE HoldsLease(w)
  <2>1. artifact' = Built /\ act'.state = "completed"
    BY <1>1, <1>3 DEF CompleteMaterialization, ActionRow
  <2>2. AcceptedIsWhole'
    <3>1. CASE strayed
      BY <1>1, <3>1 DEF BuildInv, AcceptedIsWhole
    <3>2. CASE ~strayed
      <4>1. Unstrayed(w)
        BY <1>1, <1>3, <3>2 DEF Unstrayed, Entitled, Owns, HoldsLease, LeaseHeld
      <4> QED
        BY <1>1, <2>1, <4>1, BuiltIsWhole DEF AcceptedIsWhole
    <3> QED
      BY <3>1, <3>2
  <2> QED
    BY <1>1, <2>1, <2>2, QuitLeaves, SameOwnerWhen, BuildLeft
<1> QED
  BY <1>2, <1>3

-----------------------------------------------------------------------------
(* The other steps.                                                        *)

(* Losses, failures and what a verification does leave the builds alone.   *)
LEMMA VerifyingLeaves ==
  ASSUME RunInv, NEW w \in RuntimeWorkers,
         \/ NoticeLoss(w) \/ WorkerCrashes(w) \/ CallFails(w) \/ DeadlinePasses(w)
         \/ RequestEnvironment(w) \/ PollEnvironment(w) \/ ExecutionFails(w)
         \/ (\E result \in {"ok", "false", "bad"} : Execute(w, result))
         \/ StoreExecutionOutput(w) \/ RequestRelease(w) \/ ReleaseAfterReport(w)
  PROVE  Leaves(w) /\ UNCHANGED <<runtime, act, build, artifact, strayed>>
<1>1. /\ work[w].pc # "idle" /\ UNCHANGED <<runtime, act, build, artifact, strayed>>
      /\ work \in [RuntimeWorkers -> Work] /\ work[w] \in Work
  BY WorkerHere
  DEF NoticeLoss, WorkerCrashes, CallFails, DeadlinePasses, RequestEnvironment, PollEnvironment,
      ExecutionFails, Execute, StoreExecutionOutput, RequestRelease, ReleaseAfterReport,
      WithoutMishap, ServerKeeps, At
<1>2. /\ "await" \in Points \ Builds /\ "release" \in Points \ Builds
      /\ "complete" \in Points \ Builds /\ "execute" \in Points \ Builds
      /\ "output" \in Points \ Builds
  BY DEF Points, Builds
<1>3. CASE \/ NoticeLoss(w) \/ WorkerCrashes(w) \/ CallFails(w) \/ DeadlinePasses(w)
           \/ RequestEnvironment(w) \/ ExecutionFails(w) \/ RequestRelease(w)
           \/ ReleaseAfterReport(w)
  <2>1. \/ Quit(w) \/ Goto(w, "release") \/ Goto(w, "await")
        \/ Fail(w, "infrastructure") \/ Fail(w, "artifact")
    BY <1>3 DEF NoticeLoss, WorkerCrashes, CallFails, DeadlinePasses, RequestEnvironment,
                ExecutionFails, RequestRelease, ReleaseAfterReport
  <2> QED
    BY <1>1, <1>2, <2>1, QuitLeaves, GotoLeaves, FailLeaves
<1>4. CASE PollEnvironment(w)
  <2>1. CASE Fail(w, "infrastructure")
    BY <1>1, <2>1, FailLeaves
  <2>2. CASE work' = [work EXCEPT ![w] = [work[w] EXCEPT !.pc = "execute", !.at = 1, !.result = "ok"]]
    <3> DEFINE o == [work[w] EXCEPT !.pc = "execute", !.at = 1, !.result = "ok"]
    <3>1. 1 \in 0 .. StepCount + FileCount /\ "ok" \in Results
      BY BoundFacts DEF Results
    <3>2. o \in Work /\ o.pc = "execute"
      BY <1>1, <1>2, <3>1 DEF Work
    <3> QED
      BY <1>1, <1>2, <2>2, <3>2 DEF Leaves
  <2> QED
    BY <1>1, <1>4, <2>1, <2>2 DEF PollEnvironment
<1>5. ASSUME NEW result \in {"ok", "false", "bad"}, Execute(w, result)
      PROVE  Leaves(w)
  <2> DEFINE o == [work[w] EXCEPT !.pc = "output", !.result = result]
  <2>1. result \in Results
    BY DEF Results
  <2>2. o \in Work /\ o.pc = "output"
    BY <1>1, <1>2, <2>1 DEF Work
  <2>3. work' = [work EXCEPT ![w] = o]
    BY <1>5 DEF Execute
  <2> QED
    BY <1>1, <1>2, <2>2, <2>3 DEF Leaves
<1>6. CASE StoreExecutionOutput(w)
  <2>1. CASE Goto(w, "release") \/ Goto(w, "complete")
    BY <1>1, <1>2, <2>1, GotoLeaves
  <2>2. CASE /\ work' = [work EXCEPT ![w] = [work[w] EXCEPT !.pc = "execute", !.at = work[w].at + 1]]
             /\ ~PlanEnds(w)
    <3> DEFINE o == [work[w] EXCEPT !.pc = "execute", !.at = work[w].at + 1]
    <3>1. work[w].at \in 1 .. StepCount /\ work[w].at # StepCount
      BY <1>6, <2>2, WorkerHere DEF StoreExecutionOutput, DoneFits, PlanEnds, At
    <3>2. work[w].at + 1 \in 0 .. StepCount + FileCount
      BY <3>1, BoundFacts
    <3>3. o \in Work /\ o.pc = "execute"
      BY <1>1, <1>2, <3>2 DEF Work
    <3> QED
      BY <1>1, <1>2, <2>2, <3>3 DEF Leaves
  <2> QED
    BY <1>6, <2>1, <2>2 DEF StoreExecutionOutput
<1> QED
  BY <1>1, <1>3, <1>4, <1>5, <1>6

(* So do the Server's answers.                                             *)
LEMMA ServerLeaves ==
  ASSUME RunInv, BuildInv, NEW run \in Runs, Server(run)
  PROVE  BuildInv'
<1>1. UNCHANGED <<runtime, act, build, artifact, strayed>>
  BY DEF Server, CreateEnvironment, AnswerRequest, WithoutMishap, ServerKeeps
<1>2. CASE UNCHANGED work
  BY <1>1, <1>2, SameOwnerWhen, BuildUntouched
<1>3. CASE AnswerRequest(run) /\ work' # work
  <2>1. PICK w : w = req[run].by
    OBVIOUS
  <2>2. req[run].step = "made" /\ w \in RuntimeWorkers /\ req[run].uid \in Runs
    BY <1>3, <2>1, ArrivedFacts DEF AnswerRequest, RunInv, AskedPart
  <2>3. \/ Quit(w) \/ Fail(w, "infrastructure")
        \/ work' = [work EXCEPT ![w] = [work[w] EXCEPT !.pc = "poll", !.uid = req[run].uid]]
    BY <1>3, <2>1 DEF AnswerRequest, AnswerLost
  <2>4. CASE Quit(w) \/ Fail(w, "infrastructure")
    BY <1>1, <2>2, <2>4, QuitLeaves, FailLeaves, SameOwnerWhen, BuildLeft
  <2>5. CASE work' = [work EXCEPT ![w] = [work[w] EXCEPT !.pc = "poll", !.uid = req[run].uid]]
    <3> DEFINE o == [work[w] EXCEPT !.pc = "poll", !.uid = req[run].uid]
    <3>1. work[w] \in Work /\ "poll" \in Points /\ "poll" \notin Builds
      BY <2>2, WorkerHere DEF Points, Builds
    <3>2. o \in Work /\ o.pc = "poll"
      BY <2>2, <3>1 DEF Work
    <3>3. Leaves(w)
      BY <2>5, <3>1, <3>2 DEF Leaves
    <3> QED
      BY <1>1, <2>2, <3>3, SameOwnerWhen, BuildLeft
  <2> QED
    BY <2>3, <2>4, <2>5
<1> QED
  BY <1>2, <1>3 DEF Server, CreateEnvironment

LEMMA CompleteFits ==
  ASSUME RunInv, BuildInv, NEW w \in RuntimeWorkers, CompleteVerification(w)
  PROVE  BuildInv'
<1>1. UNCHANGED <<runtime, build, artifact, strayed>> /\ act \in ActionRow
  BY Untaken DEF CompleteVerification
<1>2. /\ Quit(w) \/ Goto(w, "mark")
      /\ act' = act \/ act'.state # "running"
  BY <1>1 DEF CompleteVerification, ActionRow
<1>3. "mark" \in Points \ Builds
  BY DEF Points, Builds
<1> QED
  BY <1>1, <1>2, <1>3, QuitLeaves, GotoLeaves, SameOwnerWhen, BuildLeft

LEMMA ReportFits ==
  ASSUME RunInv, BuildInv, NEW w \in RuntimeWorkers, ReportActionFailure(w)
  PROVE  BuildInv'
<1>1. Quit(w) /\ UNCHANGED <<runtime, build, artifact, strayed>> /\ act \in ActionRow
  BY Untaken DEF ReportActionFailure
<1>2. act' = act \/ act'.state # "running"
  BY <1>1 DEF ReportActionFailure, ActionRow
<1> QED
  BY <1>1, <1>2, QuitLeaves, SameOwnerWhen, BuildLeft

(* The next one to build is the only one that may: whoever goes on at a    *)
(* node's build from now on has lost it.                                   *)
LEMMA ClaimFits ==
  ASSUME RunInv, BuildInv, NEW w \in RuntimeWorkers, ClaimAction(w)
  PROVE  BuildInv'
<1>1. /\ UNCHANGED <<runtime, build, artifact, strayed>>
      /\ act \in ActionRow /\ work \in [RuntimeWorkers -> Work]
      /\ act' = [act EXCEPT !.state = "running", !.owner = w, !.lapsed = FALSE,
                            !.attempt = act.attempt + 1]
  BY Untaken, WorkerHere DEF ClaimAction
<1>2. act'.owner = w
  BY <1>1 DEF ActionRow
<1>3. PICK o : /\ work' = [work EXCEPT ![w] = o]
               /\ o.pc = "request" \/ (o.pc = "source" /\ o.phase = "materialize")
  <2> DEFINE o == [Resting EXCEPT !.pc = IF act.phase = "verify" THEN "request" ELSE "source",
                                  !.phase = act.phase, !.run = <<act.cycle, act.attempt + 1>>]
  <2>1. act.phase \in {"materialize", "verify"}
    BY <1>1 DEF ActionRow, Phases
  <2>2. o.pc = "request" \/ (o.pc = "source" /\ o.phase = "materialize")
    BY <2>1 DEF Resting
  <2>3. work' = [work EXCEPT ![w] = o]
    BY DEF ClaimAction
  <2> QED
    BY <2>2, <2>3
<1>4. AcceptedIsWhole' /\ (strayed' => runtime' = "node") /\ (~strayed' => JobPart')
  BY <1>1 DEF BuildInv, SoundPart, JobPart, AcceptedIsWhole
<1>5. ASSUME ~strayed', NEW v \in RuntimeWorkers, Entitled(v)'
      PROVE  BuildFits(work[v])'
  <2>1. PICK p : p = work'[v]
    OBVIOUS
  <2>2. CASE v = w
    <3>1. p.pc = "request" \/ (p.pc = "source" /\ p.phase = "materialize")
      BY <1>1, <1>3, <2>1, <2>2
    <3>2. BuildFits(p)'
      BY <3>1 DEF BuildFits, Builds
    <3> QED
      BY <2>1, <3>2 DEF BuildFits
  <2>3. CASE v # w
    <3>1. runtime # "node"
      BY <1>1, <1>2, <1>5, <2>3 DEF Entitled, Owns
    <3>2. p = work[v] /\ BuildFits(p)
      BY <1>1, <1>3, <1>5, <2>1, <2>3, <3>1 DEF BuildInv, SoundPart, Entitled
    <3> QED
      BY <1>1, <2>1, <3>2 DEF BuildFits
  <2> QED
    BY <2>2, <2>3
<1> QED
  BY <1>4, <1>5 DEF BuildInv, SoundPart

(* A lease that runs out leaves the action with its owner.                 *)
LEMMA LapseFits ==
  ASSUME RunInv, BuildInv, LeaseLapses
  PROVE  BuildInv'
<1>1. /\ UNCHANGED <<runtime, work, build, artifact, strayed>>
      /\ act' = [act EXCEPT !.lapsed = TRUE] /\ act \in ActionRow
  BY Untaken DEF LeaseLapses
<1>2. act'.state = act.state /\ act'.owner = act.owner
  BY <1>1 DEF ActionRow
<1>3. SameOwner
  BY <1>2 DEF SameOwner, Owns
<1> QED
  BY <1>1, <1>3, BuildUntouched

LEMMA ScheduleFits ==
  ASSUME RunInv, BuildInv, Schedule
  PROVE  BuildInv'
<1>1. /\ act'.state = "queued" /\ UNCHANGED <<runtime, work, build, artifact, strayed>>
  BY Untaken DEF Schedule, ActionRow
<1> QED
  BY <1>1, SameOwnerWhen, BuildUntouched

(* An operation at Incus that ends does what its request relied on.        *)
LEMMA JobEndsFits ==
  ASSUME RunInv, BuildInv, JobEnds
  PROVE  BuildInv'
<1>1. UNCHANGED <<runtime, act, work, artifact, strayed>>
  BY DEF JobEnds, BuildKeeps
<1>2. AcceptedIsWhole' /\ (strayed' => runtime' = "node")
  BY <1>1 DEF BuildInv, AcceptedIsWhole
<1>3. CASE strayed
  BY <1>1, <1>2, <1>3 DEF BuildInv
<1>4. CASE ~strayed
  <2>1. /\ build.job # "none" /\ build \in Build /\ JobPart
        /\ build' = [build EXCEPT !.job = "none",
             !.inst = IF build.job = "create" THEN TRUE
                      ELSE IF build.job = "delete" THEN FALSE ELSE build.inst,
             !.files = IF build.job = "publish" THEN build.files ELSE 0,
             !.image = IF build.job = "publish" THEN [spec |-> "own", files |-> build.files]
                       ELSE build.image]
    BY <1>4, Untaken DEF JobEnds, BuildInv, SoundPart
  <2>2. /\ build'.job = "none" /\ build'.blobs = build.blobs /\ build'.manifest = build.manifest
        /\ build.job = "create" => build'.inst /\ build'.files = 0
        /\ build.job # "publish" => build'.image = build.image
        /\ build.job = "publish" => build'.image = [spec |-> "own", files |-> FileCount]
    BY <2>1 DEF Build, JobPart
  <2>3. JobPart'
    BY <2>1, <2>2 DEF JobPart
  <2>4. ASSUME NEW w \in RuntimeWorkers, Entitled(w)'
        PROVE  BuildFits(work[w])'
    <3>1. Entitled(w)
      BY <1>1, <2>4 DEF Entitled, Owns
    <3>2. PICK o : o = work[w] /\ BuildFits(o)
      BY <1>4, <3>1 DEF BuildInv, SoundPart
    <3>3. build.image.spec = "own" => build'.image.spec = "own"
      BY <2>2
    <3>4. BuildFits(o)'
      BY <1>1, <2>1, <2>2, <3>2, <3>3 DEF BuildFits
    <3> QED
      BY <1>1, <3>2, <3>4 DEF BuildFits
  <2> QED
    BY <1>2, <2>3, <2>4 DEF BuildInv, SoundPart
<1> QED
  BY <1>3, <1>4

LEMMA BuildsStart ==
  ASSUME ExecutionInit
  PROVE  BuildInv
<1>1. artifact = NoImage /\ work = [w \in RuntimeWorkers |-> Resting] /\ ~strayed
  BY DEF ExecutionInit
<1>2. \E image \in {NoImage, [spec |-> "other", files |-> FileCount]} :
        build.image = image /\ build.job = "none" /\ ~build.manifest
  BY DEF ExecutionInit
<1>3. JobPart
  BY <1>2 DEF JobPart, NoImage
<1>4. BuildFits(Resting)
  BY RestingFits DEF BuildFits, Builds
<1> QED
  BY <1>1, <1>3, <1>4 DEF BuildInv, SoundPart, AcceptedIsWhole

LEMMA EveryBuildStep ==
  ASSUME RunInv, BuildInv, [ExecutionNext]_executionVars
  PROVE  BuildInv'
<1>1. CASE UNCHANGED executionVars
  BY <1>1, SameOwnerWhen, BuildUntouched DEF executionVars
<1>2. ASSUME NEW w \in RuntimeWorkers, ClaimAction(w) \/ ReportActionFailure(w)
      PROVE  BuildInv'
  BY <1>2, ClaimFits, ReportFits
<1>3. ASSUME NEW w \in RuntimeWorkers, Building(w)
      PROVE  BuildInv'
  <2>1. CASE CompleteMaterialization(w)
    BY <2>1, AcceptFits
  <2>2. CASE ~CompleteMaterialization(w) /\ Unstrayed(w)
    BY <1>3, <2>2, ReadSourceFits, GetImageAliasFits, DeletionFits, UnlinkFits,
       CreateInstanceFits, WaitCreatedFits, CreateInstanceFileFits, CreateImageFits,
       WaitPublishedFits, ImageStepsFit DEF Building
  <2>3. CASE ~CompleteMaterialization(w) /\ ~Unstrayed(w)
    BY <1>3, <2>3, NodeBuildSteps, ImageBuildSteps, StrayFits DEF Building
  <2> QED
    BY <2>1, <2>2, <2>3
<1>4. ASSUME NEW w \in RuntimeWorkers, Verifying(w)
      PROVE  BuildInv'
  <2>1. CASE CompleteVerification(w)
    BY <2>1, CompleteFits
  <2>2. CASE ~CompleteVerification(w)
    BY <1>4, <2>2, VerifyingLeaves, SameOwnerWhen, BuildLeft DEF Verifying
  <2> QED
    BY <2>1, <2>2
<1>5. ASSUME NEW w \in RuntimeWorkers,
             NoticeLoss(w) \/ WorkerCrashes(w) \/ CallFails(w) \/ DeadlinePasses(w)
      PROVE  BuildInv'
  BY <1>5, VerifyingLeaves, SameOwnerWhen, BuildLeft
<1>6. CASE LeaseLapses \/ Schedule \/ JobEnds
  BY <1>6, LapseFits, ScheduleFits, JobEndsFits
<1>7. ASSUME NEW run \in Runs, Server(run)
      PROVE  BuildInv'
  BY <1>7, ServerLeaves
<1>8. ASSUME NEW a \in Attempts, \/ EnvironmentReady(a) \/ EnvironmentFails(a)
                                 \/ EnvironmentDrains(a) \/ EnvironmentGoes(a)
      PROVE  BuildInv'
  BY <1>8, SameOwnerWhen, BuildUntouched DEF EnvironmentReady, EnvironmentFails, EnvironmentDrains,
     EnvironmentGoes, EnvironmentKeeps
<1> QED
  BY <1>1, <1>2, <1>3, <1>4, <1>5, <1>6, <1>7, <1>8 DEF ExecutionNext, WorkerStep

-----------------------------------------------------------------------------
(* A stored report tells of one run, whoever lost the lease, crashed or    *)
(* came late: nobody else executed anything in its environment in that     *)
(* cycle, and a passed report has the whole plan behind it, in order       *)
(* (VerificationEnvironmentName, Verify, CompleteRunnableVerification).    *)
THEOREM ReportsAreOfOneRun == ExecutionSpec => []VerdictIsTheRuns
<1>1. ExecutionInit => RunInv
  BY ExecutionStarts
<1>2. RunInv /\ [ExecutionNext]_executionVars => RunInv'
  BY EveryExecutionStep
<1>3. RunInv => VerdictIsTheRuns
  BY RunInvPromises
<1> QED
  BY <1>1, <1>2, <1>3, PTL DEF ExecutionSpec

(* An environment that starts or is ready, and that nobody works with, is  *)
(* marked for release, unless it was given up by one of the exits that     *)
(* Excuse names: a crash or a lost lease, an end of the worker that asks   *)
(* for no release (a wait that failed, a passed deadline, a report that    *)
(* was not taken), a release that failed itself, an answer nobody heard.   *)
(* The Server's second lease check, the release after a failed execution   *)
(* and the one after a report leave none behind otherwise                  *)
(* (RequestVerificationEnvironment, markVerificationEnvironmentReleasable).*)
THEOREM NoEnvironmentIsForgotten == ExecutionSpec => []LostEnvironmentsAreMarked
<1>1. ExecutionInit => RunInv
  BY ExecutionStarts
<1>2. RunInv /\ [ExecutionNext]_executionVars => RunInv'
  BY EveryExecutionStep
<1>3. RunInv => LostEnvironmentsAreMarked
  BY RunInvPromises
<1> QED
  BY <1>1, <1>2, <1>3, PTL DEF ExecutionSpec

(* What both actions leave behind: the report of one run, and as artifact  *)
(* the spec's whole image, whatever earlier attempts and their operations  *)
(* left at the provider.  At a node the image is promised only until a     *)
(* worker that lost the action has written to the build project, where     *)
(* nothing tells it from the new owner; its reads do no harm, and neither  *)
(* does anything a second worker does at a registry                        *)
(* (buildNode, buildK8s, CompleteRunnableMaterialization).       *)
THEOREM ExecutionsAreSound == ExecutionSpec => []ExecutionInvariant
<1>1. ExecutionInit => RunInv /\ BuildInv
  BY ExecutionStarts, BuildsStart
<1>2. RunInv /\ BuildInv /\ [ExecutionNext]_executionVars => (RunInv /\ BuildInv)'
  BY EveryExecutionStep, EveryBuildStep
<1>3. RunInv /\ BuildInv => ExecutionInvariant
  BY RunInvPromises DEF ExecutionInvariant, BuildInv
<1> QED
  BY <1>1, <1>2, <1>3, PTL DEF ExecutionSpec
=============================================================================
