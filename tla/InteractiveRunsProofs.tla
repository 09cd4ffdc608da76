------------------------- MODULE InteractiveRunsProofs -------------------------
(***************************************************************************)
(* Proofs about the turns of an agent session, for any number of keys,     *)
(* attempts, runs, edits and faults.                                       *)
(***************************************************************************)
EXTENDS InteractiveRuns, FiniteSetTheorems, SequenceTheorems, TLAPS

-----------------------------------------------------------------------------
(* The types of the tables and of the process.                             *)

Statuses == {"running", "succeeded", "failed", "interrupted", "cancelled"}
PCs == {"none", "pending", "done"} \cup Driving \cup Left
Edit == Ids \X Nat \X Kinds
Plan == [complete : BOOLEAN, edits : SUBSET (Edit \cup {<<k>> : k \in Keys})]
RunRow == [status : Statuses, attempt : 1..MaxAttempts, late : BOOLEAN, base : Nat]
StageRow == [exists : BOOLEAN, base : Nat, rev : Nat, plan : Plan, changes : SUBSET Edit]
TurnRow == [pc : PCs, rev : Nat, plan : Plan, attempt : Nat,
            outcome : {"none", "reply", "failed", "interrupted"}]
Message == [role : {"user", "assistant", "event"}, run : Ids]
SessionRow == [purpose : {"none", "authoring", "assistant"}, current : Nat,
               state : {"none", "active", "DraftConversation", "IntentReview", "Published"}]

TypeInv ==
  /\ session \in SessionRow /\ plans \in Seq(Plan) /\ session.current < Len(plans)
  /\ run \in Seq(RunRow) /\ Created \subseteq Ids
  /\ stage \in [Ids -> StageRow] /\ turn \in [Ids -> TurnRow]
  /\ messages \in Seq(Message)
  /\ server \in [state : {"ready", "recovering"}, todo : SUBSET Ids]
  /\ faults \in 0..MaxFaults

(* Each run was started by a message, or replaces one that a stop left     *)
(* running: there is always a number left for the next.                    *)
CapacityInv ==
  /\ Cardinality(UserMessages) <= MaxRuns
  /\ Len(run) <= Cardinality(UserMessages) + faults
  /\ server.todo # {} => Len(run) < Cardinality(UserMessages) + faults

(* One run at a time.  A recovery lists it, and until it is done there is  *)
(* no goroutine but those that wait for readiness.                         *)
RunInv ==
  /\ \A x, y \in Running : x = y
  /\ \A x, y \in server.todo : x = y
  /\ server.todo \subseteq Running
  /\ server.state = "ready" => server.todo = {} /\ \A r \in Running : turn[r].pc \notin {"none", "pending"}
  /\ server.state = "recovering" =>
       /\ \A r \in Ids : turn[r].pc \in {"none", "pending"}
       /\ \A r \in Running : r \in server.todo \/ turn[r].pc = "pending"
  /\ \A r \in Ids : turn[r].pc # "none" => r \in Created
  /\ Created # {} => session.purpose # "none"
  /\ \A r \in Ids : stage[r].exists => r \in Running /\ session.purpose = "authoring"

(* A goroutine that is done has settled its run.  An authoring run that    *)
(* runs has its stage and its message, so that RunTurn does not refuse it. *)
LeftInv ==
  /\ \A r \in Running : turn[r].pc # "done"
  /\ session.purpose = "authoring" => \A r \in Running : stage[r].exists
  /\ session.purpose = "authoring" /\ Running # {} => messages[Len(messages)].role = "user"

(* A reply goes with success, an event with the other endings of an        *)
(* authoring run, and neither is ever written twice.                       *)
OutcomeInv ==
  /\ \A i \in 1..Len(messages) : messages[i].run \in Created
  /\ \A i, j \in 1..Len(messages) : messages[i] = messages[j] /\ messages[i].role # "user" => i = j
  /\ \A r \in Created :
       /\ Told("assistant", r) <=> run[r].status = "succeeded"
       /\ Told("event", r) <=> session.purpose = "authoring" /\ run[r].status \in {"failed", "interrupted"}

(* A stage is the plan it began with and the run's own edits, one for each *)
(* revision.  The turn's private copy is the stage's, or lacks just the    *)
(* last edit, whose answer was lost.                                       *)
InStep(r) ==
  \/ turn[r].rev = stage[r].rev /\ turn[r].plan.edits = stage[r].plan.edits
  \/ /\ turn[r].rev + 1 = stage[r].rev
     /\ \E c \in stage[r].changes : c[2] = turn[r].rev /\ stage[r].plan.edits = turn[r].plan.edits \cup {c}

StageFits(r) ==
  LET base == plans[stage[r].base + 1].edits
  IN  /\ stage[r].base < Len(plans)
      /\ base \subseteq stage[r].plan.edits
      /\ \A e \in stage[r].plan.edits \ base : e[1] = r
      /\ stage[r].changes = {} => stage[r].plan.edits = base
      /\ \A c \in stage[r].changes : c[2] < stage[r].rev
      /\ \A c, d \in stage[r].changes : c[2] = d[2] => c = d
      /\ turn[r].pc \in {"model", "finalize"} => InStep(r)

StageInv == \A r \in Ids : stage[r].exists => StageFits(r)

TurnInv == CapacityInv /\ RunInv /\ LeftInv /\ OutcomeInv /\ StageInv
-----------------------------------------------------------------------------
(* What one committed change does to each table.                           *)

LEMMA RunsTyped ==
  ASSUME TypeInv
  PROVE  /\ Len(run) \in Nat /\ Created = 1..Len(run)
         /\ \A r \in Created : run[r] \in RunRow
BY LenProperties, ElementOfSeq DEF TypeInv, Created

(* A sequence with the same length whose elements are rows.                *)
LEMMA SameLength ==
  ASSUME NEW S, NEW n \in Nat, NEW f \in [1..n -> S]
  PROVE  f \in Seq(S) /\ Len(f) = n
BY SeqDef

LEMMA RowChanged ==
  ASSUME TypeInv, NEW r \in Created, NEW x \in RunRow, run' = [run EXCEPT ![r] = x]
  PROVE  /\ run' \in Seq(RunRow) /\ Len(run') = Len(run) /\ Created' = Created
         /\ run'[r] = x /\ \A y \in Created : y # r => run'[y] = run[y]
<1>1. run \in Seq(RunRow) /\ r \in 1..Len(run)
  BY DEF TypeInv, Created
<1>2. /\ [run EXCEPT ![r] = x] \in Seq(RunRow)
      /\ Len([run EXCEPT ![r] = x]) = Len(run)
      /\ \A j \in 1 .. Len(run) : [run EXCEPT ![r] = x][j] = IF j = r THEN x ELSE run[j]
  BY <1>1, ExceptSeq
<1> QED
  BY <1>1, <1>2 DEF Created

LEMMA SettleFacts ==
  ASSUME TypeInv, NEW r \in Created, NEW s \in Statuses, Settle(r, s)
  PROVE  /\ run' \in Seq(RunRow) /\ Len(run') = Len(run) /\ Created' = Created
         /\ run'[r].status = s /\ \A y \in Created : y # r => run'[y] = run[y]
<1>1. PICK x : x = [run[r] EXCEPT !.status = s]
  OBVIOUS
<1>2. x \in RunRow /\ x.status = s
  BY <1>1, RunsTyped DEF RunRow
<1>3. run' = [run EXCEPT ![r] = x]
  BY <1>1 DEF Settle
<1> QED
  BY <1>2, <1>3, RowChanged

LEMMA CreateRunFacts ==
  ASSUME TypeInv, NEW base \in Nat, run' = Append(run, CreateRun(base)), Len(run) + 1 \in Ids
  PROVE  /\ run' \in Seq(RunRow) /\ Len(run') = Len(run) + 1
         /\ Created' = Created \cup {Len(run) + 1} /\ Len(run) + 1 \notin Created /\ Created' \subseteq Ids
         /\ run'[Len(run) + 1].status = "running" /\ \A y \in Created : run'[y] = run[y]
<1>1. CreateRun(base) \in RunRow /\ CreateRun(base).status = "running"
  BY RunsAssumption DEF CreateRun, RunRow, Statuses
<1>2. run \in Seq(RunRow) /\ Len(run) \in Nat
  BY RunsTyped DEF TypeInv
<1>3. /\ run' \in Seq(RunRow) /\ Len(run') = Len(run) + 1
      /\ run'[Len(run) + 1] = CreateRun(base) /\ \A y \in 1..Len(run) : run'[y] = run[y]
  BY <1>1, <1>2, AppendProperties
<1>4. Created' = Created \cup {Len(run) + 1} /\ Len(run) + 1 \notin Created
  BY <1>2, <1>3 DEF Created
<1> QED
  BY <1>1, <1>3, <1>4 DEF Created, TypeInv

LEMMA MessagesTyped ==
  ASSUME TypeInv
  PROVE  /\ Len(messages) \in Nat /\ IsFiniteSet(UserMessages)
         /\ Cardinality(UserMessages) \in Nat
         /\ \A i \in 1..Len(messages) : messages[i] \in Message
<1>1. Len(messages) \in Nat /\ \A i \in 1..Len(messages) : messages[i] \in Message
  BY LenProperties, ElementOfSeq DEF TypeInv
<1>2. IsFiniteSet(1..Len(messages))
  BY <1>1, FS_Interval
<1>3. UserMessages \subseteq 1..Len(messages)
  BY DEF UserMessages
<1>4. IsFiniteSet(UserMessages)
  BY <1>2, <1>3, FS_Subset
<1> QED
  BY <1>1, <1>4, FS_CardinalityType

LEMMA InsertFacts ==
  ASSUME TypeInv, NEW role \in {"user", "assistant", "event"}, NEW r \in Ids, InsertAgentMessage(role, r)
  PROVE  /\ messages' \in Seq(Message) /\ Len(messages') = Len(messages) + 1
         /\ messages'[Len(messages) + 1].role = role /\ messages'[Len(messages) + 1].run = r
         /\ messages'[Len(messages) + 1] = [role |-> role, run |-> r]
         /\ \A i \in 1..Len(messages) : messages'[i] = messages[i]
<1>1. [role |-> role, run |-> r] \in Message
  BY DEF Message
<1>2. messages \in Seq(Message)
  BY DEF TypeInv
<1> QED
  BY <1>1, <1>2, AppendProperties DEF InsertAgentMessage

LEMMA ToldAfter ==
  ASSUME TypeInv, NEW role \in {"user", "assistant", "event"}, NEW r \in Ids, InsertAgentMessage(role, r)
  PROVE  /\ \A other, x : Told(other, x)' <=> Told(other, x) \/ (other = role /\ x = r)
         /\ role # "user" => UserMessages' = UserMessages
         /\ role = "user" => /\ Cardinality(UserMessages') = Cardinality(UserMessages) + 1
<1>1. /\ Len(messages) \in Nat /\ Len(messages') = Len(messages) + 1
      /\ messages'[Len(messages) + 1].role = role
      /\ messages'[Len(messages) + 1] = [role |-> role, run |-> r]
      /\ \A i \in 1..Len(messages) : messages'[i] = messages[i]
  BY MessagesTyped, InsertFacts
<1>2. 1..Len(messages') = 1..Len(messages) \cup {Len(messages) + 1} /\ Len(messages) + 1 \notin 1..Len(messages)
  BY <1>1
<1>3. ASSUME NEW other, NEW x
      PROVE  Told(other, x)' <=> Told(other, x) \/ (other = role /\ x = r)
  <2>1. [role |-> other, run |-> x] = [role |-> role, run |-> r] <=> other = role /\ x = r
    OBVIOUS
  <2>2. Told(other, x)' <=> \E i \in 1..Len(messages') : messages'[i] = [role |-> other, run |-> x]
    BY DEF Told
  <2> QED
    BY <1>1, <1>2, <2>1, <2>2 DEF Told
<1>4. UserMessages' = UserMessages \cup {i \in {Len(messages) + 1} : role = "user"}
  BY <1>1, <1>2 DEF UserMessages
<1>5. role # "user" => UserMessages' = UserMessages
  BY <1>4
<1>6. ASSUME role = "user"
      PROVE  Cardinality(UserMessages') = Cardinality(UserMessages) + 1
  <2>1. UserMessages' = UserMessages \cup {Len(messages) + 1}
    BY <1>4, <1>6
  <2>2. Len(messages) + 1 \notin UserMessages
    BY <1>2 DEF UserMessages
  <2> QED
    BY <2>1, <2>2, MessagesTyped, FS_AddElement
<1> QED
  BY <1>3, <1>5, <1>6

LEMMA GotoFacts ==
  ASSUME TypeInv, NEW r \in Ids, NEW pc \in PCs, Goto(r, pc)
  PROVE  /\ turn' \in [Ids -> TurnRow] /\ turn'[r].pc = pc
         /\ turn'[r].rev = turn[r].rev /\ turn'[r].plan = turn[r].plan
         /\ \A x \in Ids : x # r => turn'[x] = turn[x]
<1>1. PICK t : t = [turn[r] EXCEPT !.pc = pc]
  OBVIOUS
<1>2. t \in TurnRow /\ t.pc = pc /\ t.rev = turn[r].rev /\ t.plan = turn[r].plan
  BY <1>1 DEF TypeInv, TurnRow
<1>3. turn' = [turn EXCEPT ![r] = t]
  BY <1>1 DEF Goto
<1> QED
  BY <1>2, <1>3 DEF TypeInv

LEMMA AnsweredFacts ==
  ASSUME TypeInv, NEW a \in Answers, Answered(a)
  PROVE  faults' \in 0..MaxFaults /\ faults' >= faults
BY RunsAssumption DEF TypeInv, Answered

LEMMA EmptyTyped ==
  EmptyPlan \in Plan /\ NoStage \in StageRow /\ NoTurn \in TurnRow /\ ~NoStage.exists /\ NoTurn.pc = "none"
BY DEF EmptyPlan, Plan, NoStage, StageRow, NoTurn, TurnRow, PCs, Driving, Left

\* Len(run) + 1 is a number of the next run as long as the capacity allows it.
LEMMA NextNumber ==
  ASSUME TypeInv, CapacityInv, Cardinality(UserMessages) < MaxRuns \/ server.todo # {}
  PROVE  Len(run) + 1 \in Ids
BY RunsTyped, MessagesTyped, RunsAssumption DEF TypeInv, CapacityInv, Ids
-----------------------------------------------------------------------------
(* What keeps each part of the invariant.                                  *)

LEMMA CapacityKept ==
  ASSUME TypeInv, CapacityInv, Len(run') = Len(run), UserMessages' = UserMessages,
         faults' \in Nat, faults' >= faults, server'.todo # {} => server.todo # {}
  PROVE  CapacityInv'
BY RunsTyped, MessagesTyped DEF TypeInv, CapacityInv

LEMMA RunKept ==
  ASSUME TypeInv, RunInv, Created' = Created, Running' \subseteq Running, UNCHANGED server,
         Running' = Running \/ server.state = "ready",
         session'.purpose = session.purpose,
         \A r \in Ids : turn'[r].pc # turn[r].pc =>
           server.state = "ready" /\ turn[r].pc # "none" /\ turn'[r].pc \notin {"none", "pending"},
         \A r \in Ids : stage'[r].exists => stage[r].exists /\ r \in Running'
  PROVE  RunInv'
<1>1. Running' \subseteq Ids
  BY DEF Running, TypeInv
<1>2. server.state = "ready" \/ server.state = "recovering"
  BY DEF TypeInv
<1> QED
  BY <1>1, <1>2 DEF RunInv

LEMMA LeftKept ==
  ASSUME LeftInv, Running' \subseteq Running, session'.purpose = session.purpose,
         \A r \in Running' : turn'[r].pc = "done" => turn[r].pc = "done",
         \A r \in Running' : stage[r].exists => stage'[r].exists \/ session.purpose # "authoring",
         Running' = {} \/ session.purpose # "authoring" \/ UNCHANGED messages
  PROVE  LeftInv'
BY DEF LeftInv

LEMMA OutcomeKept ==
  ASSUME OutcomeInv, Created' = Created, UNCHANGED messages, session'.purpose = session.purpose,
         \A r \in Created :
           /\ run'[r].status = "succeeded" <=> run[r].status = "succeeded"
           /\ session.purpose = "authoring" =>
                (run'[r].status \in {"failed", "interrupted"} <=> run[r].status \in {"failed", "interrupted"})
  PROVE  OutcomeInv'
<1>1. \A role, r : Told(role, r)' <=> Told(role, r)
  BY DEF Told
<1> QED
  BY <1>1 DEF OutcomeInv

LEMMA OutcomeTold ==
  ASSUME TypeInv, OutcomeInv, NEW role \in {"assistant", "event"}, NEW r \in Created,
         InsertAgentMessage(role, r), run[r].status = "running",
         Created' = Created, session'.purpose = session.purpose,
         \A y \in Created : y # r => run'[y] = run[y],
         role = "assistant" => run'[r].status = "succeeded",
         role = "event" => session.purpose = "authoring" /\ run'[r].status \in {"failed", "interrupted"}
  PROVE  OutcomeInv'
<1>1. r \in Ids /\ ~Told(role, r)
  BY DEF OutcomeInv, TypeInv
<1>2. \A other, x : Told(other, x)' <=> Told(other, x) \/ (other = role /\ x = r)
  BY <1>1, ToldAfter
<1>3. /\ Len(messages) \in Nat /\ Len(messages') = Len(messages) + 1
      /\ messages'[Len(messages) + 1] = [role |-> role, run |-> r]
      /\ messages'[Len(messages) + 1].run = r /\ messages'[Len(messages) + 1].role = role
      /\ \A i \in 1..Len(messages) : messages'[i] = messages[i]
  BY <1>1, MessagesTyped, InsertFacts
<1>4. \A i \in 1..Len(messages') : i \in 1..Len(messages) \/ i = Len(messages) + 1
  BY <1>3
<1>5. \A i \in 1..Len(messages) : messages[i] # [role |-> role, run |-> r]
  BY <1>1 DEF Told
<1>6. \A i \in 1..Len(messages') : messages'[i].run \in Created'
  BY <1>3, <1>4 DEF OutcomeInv
<1>7. \A i, j \in 1..Len(messages') : messages'[i] = messages'[j] /\ messages'[i].role # "user" => i = j
  BY <1>3, <1>4, <1>5 DEF OutcomeInv
<1>8. \A y \in Created :
        /\ Told("assistant", y)' <=> run'[y].status = "succeeded"
        /\ Told("event", y)' <=> session.purpose = "authoring" /\ run'[y].status \in {"failed", "interrupted"}
  BY <1>2 DEF OutcomeInv
<1> QED
  BY <1>6, <1>7, <1>8 DEF OutcomeInv

(* A new run has no outcome, and the author's message is not one.          *)
LEMMA OutcomeStarted ==
  ASSUME TypeInv, OutcomeInv, NEW n \in Ids, InsertAgentMessage("user", n), n \notin Created,
         Created' = Created \cup {n}, session'.purpose = session.purpose,
         run'[n].status = "running", \A y \in Created : run'[y] = run[y]
  PROVE  OutcomeInv'
<1>2. \A other, x : Told(other, x)' <=> Told(other, x) \/ (other = "user" /\ x = n)
  BY ToldAfter
<1>3. /\ Len(messages) \in Nat /\ Len(messages') = Len(messages) + 1
      /\ messages'[Len(messages) + 1].run = n /\ messages'[Len(messages) + 1].role = "user"
      /\ \A i \in 1..Len(messages) : messages'[i] = messages[i]
  BY MessagesTyped, InsertFacts
<1>4. \A i \in 1..Len(messages') : i \in 1..Len(messages) \/ i = Len(messages) + 1
  BY <1>3
<1>5. ~Told("assistant", n) /\ ~Told("event", n)
  <2>1. ASSUME NEW role, Told(role, n)
        PROVE  FALSE
    <3>1. PICK i \in 1..Len(messages) : messages[i] = [role |-> role, run |-> n]
      BY <2>1 DEF Told
    <3>2. messages[i].run = n
      BY <3>1
    <3> QED
      BY <3>2 DEF OutcomeInv
  <2> QED
    BY <2>1
<1>6. \A i \in 1..Len(messages') : messages'[i].run \in Created'
  BY <1>3, <1>4 DEF OutcomeInv
<1>7. \A i, j \in 1..Len(messages') : messages'[i] = messages'[j] /\ messages'[i].role # "user" => i = j
  BY <1>3, <1>4 DEF OutcomeInv
<1>8. \A y \in Created' :
        /\ Told("assistant", y)' <=> run'[y].status = "succeeded"
        /\ Told("event", y)' <=> session.purpose = "authoring" /\ run'[y].status \in {"failed", "interrupted"}
  BY <1>2, <1>5 DEF OutcomeInv
<1> QED
  BY <1>6, <1>7, <1>8 DEF OutcomeInv

LEMMA StageKept ==
  ASSUME TypeInv, StageInv, Len(plans') \in Nat, Len(plans') >= Len(plans),
         \A i \in 1..Len(plans) : plans'[i] = plans[i],
         \A r \in Ids : stage'[r].exists => stage'[r] = stage[r],
         \A r \in Ids : turn'[r].pc \in {"model", "finalize"} /\ stage'[r].exists =>
           /\ turn[r].pc \in {"model", "finalize"}
           /\ turn'[r].rev = turn[r].rev /\ turn'[r].plan = turn[r].plan
  PROVE  StageInv'
<1> SUFFICES ASSUME NEW r \in Ids, stage'[r].exists PROVE StageFits(r)'
  BY DEF StageInv
<1>1. stage'[r] = stage[r] /\ StageFits(r) /\ stage[r] \in StageRow
  BY DEF StageInv, TypeInv
<1>2. Len(plans) \in Nat /\ stage[r].base \in Nat
  BY <1>1, LenProperties DEF TypeInv, StageRow
<1>3. stage[r].base < Len(plans) /\ stage[r].base + 1 \in 1..Len(plans) /\ stage[r].base < Len(plans')
  BY <1>1, <1>2 DEF StageFits
<1>4. plans'[stage[r].base + 1] = plans[stage[r].base + 1]
  BY <1>3
<1> QED
  BY <1>1, <1>3, <1>4 DEF StageFits, InStep

LEMMA StageSame ==
  ASSUME TypeInv, StageInv, UNCHANGED <<plans, stage>>,
         \A r \in Ids : turn'[r].pc \in {"model", "finalize"} /\ stage[r].exists =>
           /\ turn[r].pc \in {"model", "finalize"}
           /\ turn'[r].rev = turn[r].rev /\ turn'[r].plan = turn[r].plan
  PROVE  StageInv'
BY StageKept, LenProperties DEF TypeInv

\* Of a purpose that stages nothing, whatever its goroutines do.
LEMMA StageNone ==
  ASSUME TypeInv, RunInv, session.purpose # "authoring", UNCHANGED stage
  PROVE  StageInv'
BY DEF StageInv, RunInv

Kept == TypeInv' /\ TurnInv'

-----------------------------------------------------------------------------
(* Sessions.                                                               *)

LEMMA NewSessionStep ==
  ASSUME TypeInv, TurnInv, NEW purpose \in {"authoring", "assistant"}, NEW plan \in Plan, NewSession(purpose, plan)
  PROVE  Kept
<1>1. /\ session.purpose = "none" /\ plans' = <<plan>>
      /\ session' = [purpose |-> purpose, current |-> 0,
                     state |-> IF purpose = "authoring" THEN "DraftConversation" ELSE "active"]
      /\ UNCHANGED <<run, stage, messages, turn, server, faults>>
  BY DEF NewSession, process
<1>2. Created = {} /\ Created' = Created /\ Running = {} /\ Running' = {}
  BY <1>1 DEF TurnInv, RunInv, Created, Running
<1>3. \A r \in Ids : ~stage[r].exists
  BY <1>1 DEF TurnInv, RunInv
<1>4. session' \in SessionRow /\ session'.current = 0
  BY <1>1 DEF SessionRow
<1>5. plans' \in Seq(Plan) /\ Len(plans') = 1
  BY <1>1
<1>6. TypeInv'
  BY <1>1, <1>2, <1>4, <1>5 DEF TypeInv
<1>7. UserMessages' = UserMessages
  BY <1>1 DEF UserMessages
<1>8. CapacityInv'
  BY <1>1, <1>7, CapacityKept DEF TurnInv, TypeInv
<1>9. RunInv'
  BY <1>1, <1>2, <1>3 DEF TurnInv, RunInv
<1>10. OutcomeInv'
  BY <1>1, <1>2 DEF TurnInv, OutcomeInv
<1>11. StageInv'
  BY <1>1, <1>3 DEF StageInv
<1>12. LeftInv'
  BY <1>2 DEF LeftInv
<1> QED
  BY <1>6, <1>8, <1>9, <1>10, <1>11, <1>12 DEF Kept, TurnInv

LEMMA SessionsStep ==
  ASSUME TypeInv, TurnInv, CreateAuthoringSession \/ CreateScenarioRevisionSession \/ FindOrCreateSession
  PROVE  Kept
<1>1. EmptyPlan \in Plan /\ [complete |-> TRUE, edits |-> {}] \in Plan
  BY EmptyTyped DEF Plan
<1> QED
  BY <1>1, NewSessionStep DEF CreateAuthoringSession, CreateScenarioRevisionSession, FindOrCreateSession

\* The session moves on, with or without a revision; the turns go on as before.
LEMMA SessionMoves ==
  ASSUME TypeInv, TurnInv, session' \in SessionRow, session'.purpose = session.purpose,
         UNCHANGED <<run, stage, messages, turn, server, faults>>,
         \/ UNCHANGED plans /\ session'.current = session.current
         \/ \E plan \in Plan : plans' = Append(plans, plan) /\ session'.current = Len(plans)
  PROVE  Kept
<1>1. /\ plans' \in Seq(Plan) /\ session'.current < Len(plans')
      /\ Len(plans') \in Nat /\ Len(plans') >= Len(plans)
      /\ \A i \in 1..Len(plans) : plans'[i] = plans[i]
  <2>1. plans \in Seq(Plan) /\ Len(plans) \in Nat /\ session.current < Len(plans)
    BY LenProperties DEF TypeInv
  <2>2. CASE UNCHANGED plans /\ session'.current = session.current
    BY <2>1, <2>2
  <2>3. ASSUME NEW plan \in Plan, plans' = Append(plans, plan), session'.current = Len(plans)
        PROVE  <1>1!1
    BY <2>1, <2>3, AppendProperties
  <2> QED
    BY <2>2, <2>3
<1>2. Created' = Created /\ Running' = Running /\ UserMessages' = UserMessages
  BY DEF Created, Running, UserMessages
<1>3. TypeInv'
  BY <1>1, <1>2 DEF TypeInv
<1>4. CapacityInv'
  BY <1>2, CapacityKept DEF TurnInv, TypeInv
<1>5. RunInv'
  BY <1>2, RunKept DEF TurnInv, RunInv
<1>6. OutcomeInv'
  BY <1>2, OutcomeKept DEF TurnInv
<1>7. StageInv'
  BY <1>1, StageKept DEF TurnInv
<1>8. LeftInv'
  BY <1>2, LeftKept DEF TurnInv
<1> QED
  BY <1>3, <1>4, <1>5, <1>6, <1>7, <1>8 DEF Kept, TurnInv

LEMMA SaveStep ==
  ASSUME TypeInv, TurnInv, NEW k \in Keys, SavePlan(k)
  PROVE  Kept
<1>1. /\ plans' = Append(plans, [complete |-> TRUE, edits |-> {<<k>>}])
      /\ session' = [session EXCEPT !.current = Len(plans), !.state = "IntentReview"]
      /\ UNCHANGED <<run, stage, messages, turn, server, faults>>
  BY DEF SavePlan, SaveGenerationPlan, process
<1>2. [complete |-> TRUE, edits |-> {<<k>>}] \in Plan
  BY DEF Plan
<1>3. Len(plans) \in Nat
  BY LenProperties DEF TypeInv
<1>4. session' \in SessionRow /\ session'.purpose = session.purpose /\ session'.current = Len(plans)
  BY <1>1, <1>3 DEF TypeInv, SessionRow
<1> QED
  BY <1>1, <1>2, <1>4, SessionMoves

LEMMA PublishStep ==
  ASSUME TypeInv, TurnInv, PublishSession
  PROVE  Kept
<1>1. /\ session' = [session EXCEPT !.state = "Published"]
      /\ UNCHANGED <<plans, run, stage, messages, turn, server, faults>>
  BY DEF PublishSession, process
<1>2. session' \in SessionRow /\ session'.purpose = session.purpose /\ session'.current = session.current
  BY <1>1 DEF TypeInv, SessionRow
<1> QED
  BY <1>1, <1>2, SessionMoves

-----------------------------------------------------------------------------
(* An authoring turn.                                                      *)

LEMMA StartStep ==
  ASSUME TypeInv, TurnInv, NEW k \in Keys, StartTurn(k)
  PROVE  Kept
<1> DEFINE n == Len(run) + 1
           new == [exists |-> TRUE, base |-> session.current, rev |-> session.current,
                   plan |-> plans[session.current + 1], changes |-> {}]
<1>1. /\ session.purpose = "authoring" /\ server.state = "ready" /\ Running = {}
      /\ Cardinality(UserMessages) < MaxRuns
      /\ run' = Append(run, CreateRun(session.current)) /\ stage' = [stage EXCEPT ![n] = new]
      /\ InsertAgentMessage("user", n) /\ UNCHANGED <<session, plans, server>>
  BY DEF StartTurn, StartAuthoringRun, EnsureNoActiveSessionRun
<1>0. PICK a \in {"ok", "lost"}, pc \in {"accepted", "undriven"} : Answered(a) /\ Goto(n, pc)
  BY DEF StartTurn, Goto
<1>00. faults' \in 0..MaxFaults /\ faults' >= faults /\ faults \in Nat /\ faults' \in Nat
  BY <1>0, AnsweredFacts, RunsAssumption DEF TypeInv, Answers
<1>2. n \in Ids
  BY <1>1, NextNumber DEF TurnInv
<1>3. session.current \in Nat /\ session.current < Len(plans) /\ Len(plans) \in Nat
  BY LenProperties DEF TypeInv, SessionRow
<1>4. /\ run' \in Seq(RunRow) /\ Len(run') = n /\ Created' = Created \cup {n}
      /\ n \notin Created /\ Created' \subseteq Ids
      /\ run'[n].status = "running" /\ \A y \in Created : run'[y] = run[y]
  BY <1>1, <1>2, <1>3, CreateRunFacts
<1>5. new \in StageRow /\ new.exists /\ new.base = session.current /\ new.rev = session.current
      /\ new.plan = plans[session.current + 1] /\ new.changes = {}
  <2>1. plans[session.current + 1] \in Plan
    BY <1>3, ElementOfSeq DEF TypeInv
  <2> QED
    BY <1>3, <2>1 DEF StageRow
<1> HIDE DEF new
<1>6. /\ stage' \in [Ids -> StageRow] /\ stage'[n] = new
      /\ \A x \in Ids : x # n => stage'[x] = stage[x]
  BY <1>1, <1>2, <1>5 DEF TypeInv
<1>7. /\ turn' \in [Ids -> TurnRow] /\ turn'[n].pc = pc
      /\ \A x \in Ids : x # n => turn'[x] = turn[x]
  BY <1>0, <1>2, GotoFacts DEF PCs, Driving, Left
<1>8. TypeInv'
  BY <1>00, <1>1, <1>2, <1>4, <1>6, <1>7, InsertFacts DEF TypeInv
<1>9. CapacityInv'
  <2>1. Cardinality(UserMessages') = Cardinality(UserMessages) + 1
    BY <1>1, <1>2, ToldAfter
  <2>2. server'.todo = {}
    BY <1>1 DEF TurnInv, RunInv
  <2>3. /\ Len(run) \in Nat /\ Cardinality(UserMessages) \in Nat /\ MaxRuns \in Nat
        /\ Len(run) <= Cardinality(UserMessages) + faults /\ faults \in Nat /\ faults' \in Nat /\ faults' >= faults
    BY <1>00, <1>1, RunsTyped, MessagesTyped, RunsAssumption DEF TurnInv, CapacityInv, TypeInv
  <2>4. Len(run') = Len(run) + 1
    BY <1>4
  <2>5. Cardinality(UserMessages') <= MaxRuns /\ Len(run') <= Cardinality(UserMessages') + faults'
    BY <1>1, <2>1, <2>3, <2>4
  <2> QED
    BY <2>2, <2>5 DEF CapacityInv
<1>10. Running' = {n}
  BY <1>1, <1>4 DEF Running
<1>11. RunInv'
  <2>1. server.todo = {} /\ \A r \in Ids : ~stage[r].exists
    BY <1>1 DEF TurnInv, RunInv
  <2> QED
    BY <1>1, <1>4, <1>6, <1>7, <1>10, <2>1 DEF TurnInv, RunInv
<1>14. LeftInv'
  <2>1. messages'[Len(messages')].role = "user"
    BY <1>1, <1>2, InsertFacts
  <2>2. stage'[n].exists /\ turn'[n].pc # "done"
    BY <1>5, <1>6, <1>7
  <2> QED
    BY <1>10, <2>1, <2>2 DEF LeftInv
<1>12. OutcomeInv'
  BY <1>1, <1>2, <1>4, OutcomeStarted DEF TurnInv
<1>13. StageInv'
  <2> SUFFICES ASSUME NEW r \in Ids, stage'[r].exists PROVE StageFits(r)'
    BY DEF StageInv
  <2>1. r = n
    BY <1>1, <1>6 DEF TurnInv, RunInv
  <2>2. /\ stage'[r].base = session.current /\ stage'[r].plan = plans'[session.current + 1]
        /\ stage'[r].changes = {} /\ turn'[r].pc \notin {"model", "finalize"}
    BY <1>1, <1>5, <1>6, <1>7, <2>1
  <2> QED
    BY <1>1, <1>3, <2>2 DEF StageFits
<1> QED
  BY <1>8, <1>9, <1>11, <1>12, <1>13, <1>14 DEF Kept, TurnInv

\* Steps of a goroutine that write nothing but its own row of the turns.
LEMMA TurnMoves ==
  ASSUME TypeInv, TurnInv, NEW r \in Ids, turn[r].pc \notin {"none", "pending"}, turn' \in [Ids -> TurnRow],
         \A x \in Ids : x # r => turn'[x] = turn[x],
         turn'[r].pc \notin {"none", "pending"}, turn'[r].pc = "done" => r \notin Running,
         turn'[r].pc \in {"model", "finalize"} /\ stage[r].exists =>
           \/ InStep(r)'
           \/ turn[r].pc \in {"model", "finalize"} /\ UNCHANGED <<turn[r].rev, turn[r].plan>>,
         faults' \in 0..MaxFaults, faults' >= faults,
         UNCHANGED <<session, plans, run, stage, messages, server>>
  PROVE  Kept
<1>1. Created' = Created /\ Running' = Running /\ UserMessages' = UserMessages
  BY DEF Created, Running, UserMessages
<1>2. TypeInv'
  BY <1>1 DEF TypeInv
<1>3. CapacityInv'
  BY <1>1, CapacityKept DEF TurnInv
<1>4. server.state = "ready"
  BY DEF TurnInv, RunInv, TypeInv
<1>5. RunInv'
  <2>1. \A x \in Ids : turn'[x].pc # turn[x].pc =>
          server.state = "ready" /\ turn[x].pc # "none" /\ turn'[x].pc \notin {"none", "pending"}
    <3> TAKE x \in Ids
    <3>1. CASE x # r
      BY <3>1
    <3>2. CASE x = r
      BY <1>4, <3>2
    <3> QED
      BY <3>1, <3>2
  <2>2. \A x \in Ids : stage'[x].exists => stage[x].exists /\ x \in Running'
    BY <1>1 DEF TurnInv, RunInv
  <2>3. RunInv /\ Running' \subseteq Running /\ UNCHANGED server /\ session'.purpose = session.purpose
    BY <1>1 DEF TurnInv
  <2> QED
    BY <1>1, <2>1, <2>2, <2>3, RunKept
<1>6. OutcomeInv'
  BY <1>1, OutcomeKept DEF TurnInv
<1>7. StageInv'
  <2> SUFFICES ASSUME NEW x \in Ids, stage[x].exists PROVE StageFits(x)'
    BY DEF StageInv
  <2>1. StageFits(x)
    BY DEF TurnInv, StageInv
  <2>2. turn'[x].pc \in {"model", "finalize"} => InStep(x)'
    <3>1. CASE x # r
      BY <2>1, <3>1 DEF StageFits, InStep
    <3>2. CASE x = r
      BY <2>1, <3>2 DEF StageFits, InStep
    <3> QED
      BY <3>1, <3>2
  <2> QED
    BY <2>1, <2>2 DEF StageFits
<1>8. LeftInv'
  <2>1. \A x \in Running : x \in Ids
    BY DEF Running, TypeInv
  <2>2. \A x \in Running : turn'[x].pc = "done" => turn[x].pc = "done"
    BY <2>1
  <2> QED
    BY <1>1, <2>2, LeftKept DEF TurnInv
<1> QED
  BY <1>2, <1>3, <1>5, <1>6, <1>7, <1>8 DEF Kept, TurnInv

\* A goroutine that only goes on.
LEMMA GotoStep ==
  ASSUME TypeInv, TurnInv, NEW r \in Ids, NEW pc \in PCs \ {"none", "pending"}, Goto(r, pc),
         turn[r].pc \notin {"none", "pending"}, pc = "done" => r \notin Running,
         pc \in {"model", "finalize"} => turn[r].pc \in {"model", "finalize"},
         faults' \in 0..MaxFaults, faults' >= faults,
         UNCHANGED <<session, plans, run, stage, messages, server>>
  PROVE  Kept
BY GotoFacts, TurnMoves

\* The handler reads the session back, or the request ends.
LEMMA BeginStep ==
  ASSUME TypeInv, TurnInv, NEW r \in Ids, BeginTurn(r)
  PROVE  Kept
<1>1. /\ turn[r].pc = "accepted" /\ UNCHANGED <<session, plans, run, stage, messages, server>>
  BY DEF BeginTurn, authoring
<1>2. PICK a \in Answers, pc \in {"start", "undriven"} : Answered(a) /\ Goto(r, pc)
  BY DEF BeginTurn, Answers
<1>3. faults' \in 0..MaxFaults /\ faults' >= faults
  BY <1>2, AnsweredFacts
<1> QED
  BY <1>1, <1>2, <1>3, GotoStep DEF PCs, Driving, Left

LEMMA LoadStep ==
  ASSUME TypeInv, TurnInv, NEW r \in Ids, LoadTurn(r)
  PROVE  Kept
<1>1. /\ turn[r].pc = "start" /\ UNCHANGED <<session, plans, run, stage, messages, server>>
      /\ turn[r] \in TurnRow /\ stage[r] \in StageRow
  BY DEF LoadTurn, authoring, TypeInv
<1>0. faults' \in 0..MaxFaults /\ faults' >= faults
  BY AnsweredFacts DEF LoadTurn, Answers
<1>4. r \in Running => run[r].status = "running" /\ stage[r].exists /\ messages[Len(messages)].role = "user"
  BY DEF LoadTurn, TurnInv, LeftInv, Running
<1>2. CASE \/ Goto(r, "gaveup")
           \/ Goto(r, "done") /\ ~(run[r].status = "running" /\ stage[r].exists /\ messages[Len(messages)].role = "user")
  <2>1. PICK pc \in {"gaveup", "done"} : Goto(r, pc) /\ (pc = "done" => r \notin Running)
    BY <1>2, <1>4
  <2> QED
    BY <1>0, <1>1, <2>1, GotoStep DEF PCs, Driving, Left
<1>3. CASE /\ stage[r].exists
           /\ turn' = [turn EXCEPT ![r] = [NoTurn EXCEPT !.pc = "model", !.rev = stage[r].rev,
                                                         !.plan = stage[r].plan, !.attempt = 1]]
  <2>1. PICK t : t = [NoTurn EXCEPT !.pc = "model", !.rev = stage[r].rev, !.plan = stage[r].plan, !.attempt = 1]
    OBVIOUS
  <2>2. t \in TurnRow /\ t.pc = "model" /\ t.rev = stage[r].rev /\ t.plan = stage[r].plan
    BY <1>1, <2>1, EmptyTyped DEF TurnRow, StageRow, PCs, Driving, Left
  <2>3. /\ turn' \in [Ids -> TurnRow] /\ turn'[r] = t
        /\ \A x \in Ids : x # r => turn'[x] = turn[x]
    BY <1>3, <2>1, <2>2 DEF TypeInv
  <2>4. InStep(r)'
    BY <1>1, <2>2, <2>3 DEF InStep
  <2> QED
    BY <1>0, <1>1, <2>2, <2>3, <2>4, TurnMoves
<1> QED
  BY <1>2, <1>3 DEF LoadTurn, Goto

LEMMA ModelStep ==
  ASSUME TypeInv, TurnInv, NEW r \in Ids, ModelEnds(r)
  PROVE  Kept
<1>1. /\ turn[r].pc = "model" /\ UNCHANGED <<session, plans, run, stage, messages, server, faults>>
      /\ turn[r] \in TurnRow
  BY DEF ModelEnds, authoring, TypeInv
<1>2. PICK outcome \in {"reply", "failed", "interrupted"} :
         turn' = [turn EXCEPT ![r].pc = IF outcome = "reply" THEN "finalize" ELSE "terminate", ![r].outcome = outcome]
  BY DEF ModelEnds
<1>3. PICK t : t = [turn[r] EXCEPT !.pc = IF outcome = "reply" THEN "finalize" ELSE "terminate", !.outcome = outcome]
  OBVIOUS
<1>4. t \in TurnRow /\ t.pc \in {"finalize", "terminate"} /\ t.rev = turn[r].rev /\ t.plan = turn[r].plan
  BY <1>1, <1>3 DEF TurnRow, PCs, Driving, Left
<1>5. turn' = [turn EXCEPT ![r] = t]
  BY <1>2, <1>3 DEF TypeInv
<1>6. /\ turn' \in [Ids -> TurnRow] /\ turn'[r] = t
      /\ \A x \in Ids : x # r => turn'[x] = turn[x]
  BY <1>4, <1>5 DEF TypeInv
<1> QED
  BY <1>1, <1>4, <1>6, TurnMoves DEF TypeInv

\* An edit adds itself, to the plan of the turn and to that of the stage.
LEMMA EditedFacts ==
  ASSUME NEW plan \in Plan, NEW edit \in Edit
  PROVE  Edited(plan, edit) \in Plan /\ Edited(plan, edit).edits = plan.edits \cup {edit}
<1>1. (plan.complete \/ edit[3] = "metadata") \in BOOLEAN
  OBVIOUS
<1>2. plan.edits \cup {edit} \in SUBSET (Edit \cup {<<k>> : k \in Keys})
  BY DEF Plan
<1> QED
  BY <1>1, <1>2 DEF Edited, Plan

LEMMA RestagedFacts ==
  ASSUME NEW s \in StageRow, NEW plan \in Plan, NEW edit \in Edit
  PROVE  /\ Restaged(s, plan, edit) \in StageRow
         /\ Restaged(s, plan, edit).exists <=> s.exists
         /\ Restaged(s, plan, edit).base = s.base /\ Restaged(s, plan, edit).rev = s.rev + 1
         /\ Restaged(s, plan, edit).changes = s.changes \cup {edit}
         /\ Restaged(s, plan, edit).plan.edits = plan.edits \cup {edit}
<1>1. PICK p : p = Edited(plan, edit)
  OBVIOUS
<1>2. p \in Plan /\ p.edits = plan.edits \cup {edit}
  BY <1>1, EditedFacts
<1>3. PICK q : q = [s EXCEPT !.rev = s.rev + 1, !.changes = s.changes \cup {edit}, !.plan = p]
  OBVIOUS
<1>4. Restaged(s, plan, edit) = q
  BY <1>1, <1>3 DEF Restaged
<1>5. s.rev + 1 \in Nat /\ s.changes \cup {edit} \in SUBSET Edit
  BY DEF StageRow
<1>6. q \in StageRow
  BY <1>2, <1>3, <1>5 DEF StageRow
<1>7. /\ q.exists <=> s.exists
      /\ q.base = s.base /\ q.rev = s.rev + 1 /\ q.changes = s.changes \cup {edit} /\ q.plan = p
  BY <1>3 DEF StageRow
<1> QED
  BY <1>2, <1>4, <1>6, <1>7

\* An edit leaves the stage one revision ahead of the turn until its answer arrives.
LEMMA ToolStep ==
  ASSUME TypeInv, TurnInv, NEW r \in Ids, NEW kind \in Kinds, ApplyTool(r, kind)
  PROVE  Kept
<1> DEFINE edit == <<r, turn[r].rev, kind>>
<1>1. PICK a \in Answers :
        /\ Answered(a)
        /\ IF a = "failed" THEN UNCHANGED stage ELSE UpdateAuthoringStage(r, turn[r].rev, kind)
        /\ turn' = IF a # "ok" THEN turn
                   ELSE [turn EXCEPT ![r].rev = @ + 1, ![r].plan = Edited(@, <<r, turn[r].rev, kind>>)]
  BY DEF ApplyTool
<1>2. /\ turn[r].pc = "model" /\ UNCHANGED <<session, plans, run, messages, server>>
      /\ turn[r] \in TurnRow /\ stage[r] \in StageRow
      /\ turn[r].rev \in Nat /\ turn[r].plan \in Plan /\ stage[r].rev \in Nat
  BY DEF ApplyTool, TypeInv, TurnRow, StageRow
<1>3. edit \in Edit /\ edit[1] = r /\ edit[2] = turn[r].rev
  BY <1>2 DEF Edit
<1>4. faults' \in 0..MaxFaults /\ faults' >= faults
  BY <1>1, AnsweredFacts
<1>5. PICK t : t = [turn[r] EXCEPT !.rev = turn[r].rev + 1, !.plan = Edited(turn[r].plan, edit)]
  OBVIOUS
<1>6. /\ t \in TurnRow /\ t.pc = "model" /\ t.rev = turn[r].rev + 1
      /\ t.plan.edits = turn[r].plan.edits \cup {edit}
  <2>1. PICK p : p = Edited(turn[r].plan, edit)
    OBVIOUS
  <2>2. p \in Plan /\ p.edits = turn[r].plan.edits \cup {edit}
    BY <1>2, <1>3, <2>1, EditedFacts
  <2>3. t = [turn[r] EXCEPT !.rev = turn[r].rev + 1, !.plan = p]
    BY <1>5, <2>1
  <2>4. turn[r].rev + 1 \in Nat
    BY <1>2
  <2>5. t \in TurnRow
    BY <1>2, <2>2, <2>3, <2>4 DEF TurnRow
  <2>6. t.pc = "model" /\ t.rev = turn[r].rev + 1 /\ t.plan = p
    BY <1>2, <2>3 DEF TurnRow
  <2> QED
    BY <2>2, <2>5, <2>6
<1>7. a = "ok" => turn' = [turn EXCEPT ![r] = t]
  BY <1>1, <1>5 DEF TypeInv
<1>8. a # "ok" => turn' = turn
  BY <1>1
<1>9. turn' \in [Ids -> TurnRow] /\ \A x \in Ids : x # r => turn'[x] = turn[x]
  BY <1>6, <1>7, <1>8 DEF TypeInv
<1>10. a = "ok" => turn'[r] = t
  BY <1>6, <1>7 DEF TypeInv
<1>11. turn'[r].pc = "model"
  BY <1>2, <1>6, <1>8, <1>10
<1> HIDE DEF edit
<1>12. CASE a = "failed"
  BY <1>1, <1>2, <1>4, <1>8, <1>9, <1>12, TurnMoves DEF TypeInv
<1>13. CASE a # "failed" /\ edit \in stage[r].changes /\ UNCHANGED stage /\ stage[r].exists
  <2>1. StageFits(r)
    BY <1>13 DEF TurnInv, StageInv
  <2>2. InStep(r) /\ edit[2] < stage[r].rev
    BY <1>2, <1>13, <2>1 DEF StageFits
  <2>3. turn[r].rev + 1 = stage[r].rev /\ stage[r].plan.edits = turn[r].plan.edits \cup {edit}
    BY <1>2, <1>3, <1>13, <2>1, <2>2 DEF StageFits, InStep
  <2>4. a = "ok" => InStep(r)'
    BY <1>6, <1>10, <1>13, <2>3 DEF InStep
  <2> QED
    BY <1>2, <1>4, <1>8, <1>9, <1>11, <1>13, <2>4, TurnMoves
<1>14. CASE /\ a # "failed" /\ edit \notin stage[r].changes /\ stage[r].rev = turn[r].rev
            /\ stage[r].exists /\ run[r].status = "running"
            /\ stage' = [stage EXCEPT ![r] = Restaged(@, turn[r].plan, edit)]
  <2>1. PICK s : s = Restaged(stage[r], turn[r].plan, edit)
    OBVIOUS
  <2>2. /\ s \in StageRow /\ s.exists /\ s.base = stage[r].base /\ s.rev = stage[r].rev + 1
        /\ s.changes = stage[r].changes \cup {edit} /\ s.plan.edits = turn[r].plan.edits \cup {edit}
    BY <1>2, <1>3, <1>14, <2>1, RestagedFacts
  <2>3. /\ stage' \in [Ids -> StageRow] /\ stage'[r] = s
        /\ \A x \in Ids : x # r => stage'[x] = stage[x]
    BY <1>14, <2>1, <2>2 DEF TypeInv
  <2>4. Created' = Created /\ Running' = Running /\ UserMessages' = UserMessages
    BY <1>2 DEF Created, Running, UserMessages
  <2>5. TypeInv'
    BY <1>2, <1>4, <1>9, <2>3, <2>4 DEF TypeInv
  <2>6. CapacityInv'
    BY <1>2, <1>4, <2>4, CapacityKept DEF TurnInv
  <2>7. RunInv'
    BY <1>2, <1>9, <1>11, <1>14, <2>3, <2>4, RunKept DEF TurnInv, RunInv
  <2>8. OutcomeInv'
    BY <1>2, <2>4, OutcomeKept DEF TurnInv
  <2>9. StageInv'
    <3> SUFFICES ASSUME NEW x \in Ids, stage'[x].exists PROVE StageFits(x)'
      BY DEF StageInv
    <3>1. CASE x # r
      <4>1. StageFits(x)
        BY <2>3, <3>1 DEF TurnInv, StageInv
      <4> QED
        BY <1>2, <1>9, <2>3, <3>1, <4>1 DEF StageFits, InStep
    <3>2. CASE x = r
      <4>1. StageFits(r) /\ InStep(r)
        BY <1>2, <1>14 DEF TurnInv, StageInv, StageFits
      <4>2. turn[r].plan.edits = stage[r].plan.edits
        BY <1>2, <1>14, <4>1 DEF InStep
      <4>3. \A c \in stage[r].changes : c[2] < stage[r].rev /\ c[2] \in Nat
        BY <1>2, <4>1 DEF StageFits, StageRow, Edit
      <4>4. \A c \in s.changes : c[2] < s.rev
        BY <1>2, <1>3, <1>14, <2>2, <4>3
      <4>5. \A c, d \in s.changes : c[2] = d[2] => c = d
        <5>1. \A c \in stage[r].changes : c[2] # edit[2]
          BY <1>2, <1>3, <1>14, <4>3
        <5> QED
          BY <2>2, <4>1, <5>1 DEF StageFits
      <4>6. InStep(r)'
        <5>1. CASE a = "ok"
          BY <1>2, <1>6, <1>10, <1>14, <2>2, <2>3, <5>1 DEF InStep
        <5>2. CASE a # "ok"
          <6>1. turn'[r].rev + 1 = stage'[r].rev /\ turn'[r].plan = turn[r].plan
            BY <1>8, <1>14, <2>2, <2>3, <5>2
          <6>2. edit \in stage'[r].changes /\ edit[2] = turn'[r].rev
            BY <1>3, <1>8, <2>2, <2>3, <5>2
          <6>3. stage'[r].plan.edits = turn'[r].plan.edits \cup {edit}
            BY <2>2, <2>3, <6>1
          <6> QED
            BY <6>1, <6>2, <6>3 DEF InStep
        <5> QED
          BY <5>1, <5>2
      <4>7. /\ s.base < Len(plans) /\ s.changes # {}
            /\ plans[s.base + 1].edits \subseteq s.plan.edits
            /\ \A e \in s.plan.edits \ plans[s.base + 1].edits : e[1] = r
        BY <1>3, <2>2, <4>1, <4>2 DEF StageFits
      <4> QED
        BY <1>2, <2>3, <3>2, <4>4, <4>5, <4>6, <4>7 DEF StageFits
    <3> QED
      BY <3>1, <3>2
  <2>10. LeftInv'
    <3>1. \A x \in Running : x \in Ids
      BY DEF Running, TypeInv
    <3>2. \A x \in Running' : turn'[x].pc = "done" => turn[x].pc = "done"
      BY <1>9, <1>11, <2>4, <3>1
    <3>3. \A x \in Running' : stage[x].exists => stage'[x].exists
      BY <2>2, <2>3, <2>4, <3>1
    <3> QED
      BY <1>2, <2>4, <3>2, <3>3, LeftKept DEF TurnInv
  <2> QED
    BY <2>5, <2>6, <2>7, <2>8, <2>9, <2>10 DEF Kept, TurnInv
<1> QED
  BY <1>1, <1>12, <1>13, <1>14 DEF UpdateAuthoringStage, edit

(* A run ends: its stage goes, and its outcome is the one it is told to    *)
(* have.  The rest of the session goes on.                                 *)
LEMMA EndStep ==
  ASSUME TypeInv, TurnInv, NEW r \in Created, NEW s \in Statuses \ {"running"}, Settle(r, s),
         OutcomeInv', messages' \in Seq(Message), UserMessages' = UserMessages,
         run[r].status = "running" \/ session.purpose # "authoring" \/ UNCHANGED messages,
         stage' \in [Ids -> StageRow], \A x \in Ids : x # r => stage'[x] = stage[x], ~stage'[r].exists,
         session' \in SessionRow, session'.purpose = session.purpose,
         plans' \in Seq(Plan), session'.current < Len(plans'), Len(plans') >= Len(plans),
         \A i \in 1..Len(plans) : plans'[i] = plans[i],
         turn' \in [Ids -> TurnRow], \A x \in Ids : x # r => turn'[x] = turn[x],
         turn'[r].pc = turn[r].pc \/ (server.state = "ready" /\ turn'[r].pc \notin {"none", "pending"}),
         server'.state = server.state, server' \in [state : {"ready", "recovering"}, todo : SUBSET Ids],
         server'.todo = server.todo \ {r},
         faults' \in 0..MaxFaults, faults' >= faults
  PROVE  Kept
<1>1. /\ run' \in Seq(RunRow) /\ Len(run') = Len(run) /\ Created' = Created
      /\ run'[r].status = s /\ \A y \in Created : y # r => run'[y] = run[y]
  BY SettleFacts
<1>2. Running' = Running \ {r}
  BY <1>1 DEF Running
<1>3. TypeInv'
  BY <1>1 DEF TypeInv
<1>4. CapacityInv'
  BY <1>1, CapacityKept DEF TurnInv
<1>5. RunInv'
  <2>1. \A x \in Running' : x \in Running /\ x # r /\ x \in Ids
    BY <1>2 DEF Running, TypeInv
  <2>2. ASSUME server.state = "ready"
        PROVE  server'.todo = {} /\ \A x \in Running' : turn'[x].pc \notin {"none", "pending"}
    BY <2>1, <2>2 DEF TurnInv, RunInv
  <2>3. ASSUME server.state = "recovering"
        PROVE  /\ \A x \in Ids : turn'[x].pc \in {"none", "pending"}
               /\ \A x \in Running' : x \in server'.todo \/ turn'[x].pc = "pending"
    BY <2>1, <2>3 DEF TurnInv, RunInv
  <2>4. \A x \in Ids : stage'[x].exists => x \in Running' /\ session.purpose = "authoring"
    BY <1>2 DEF TurnInv, RunInv
  <2>5. \A x \in Ids : turn'[x].pc # "none" => x \in Created
    BY DEF TurnInv, RunInv
  <2>6. /\ \A x, y \in server.todo : x = y
        /\ server.todo \subseteq Running
        /\ Created # {} => session.purpose # "none"
        /\ \A x, y \in Running : x = y
    BY DEF TurnInv, RunInv
  <2>7. server'.todo \subseteq Running'
    BY <1>2, <2>6
  <2>8. server'.state = "ready" \/ server'.state = "recovering"
    OBVIOUS
  <2> QED
    BY <1>1, <2>1, <2>2, <2>3, <2>4, <2>5, <2>6, <2>7, <2>8 DEF RunInv
<1>6. StageInv'
  <2>1. Len(plans') \in Nat
    BY LenProperties
  <2>2. \A x \in Ids : stage'[x].exists => stage'[x] = stage[x] /\ turn'[x] = turn[x]
    OBVIOUS
  <2> QED
    BY <2>1, <2>2, StageKept DEF TurnInv
<1>7. LeftInv'
  <2>1. \A x \in Running : x \in Ids
    BY DEF Running, TypeInv
  <2>2. \A x \in Running' : turn'[x] = turn[x] /\ stage'[x] = stage[x]
    BY <1>2, <2>1
  <2>3. run[r].status = "running" => Running' = {}
    BY <1>2 DEF TurnInv, RunInv, Running
  <2> QED
    BY <1>2, <2>2, <2>3, LeftKept DEF TurnInv
<1> QED
  BY <1>3, <1>4, <1>5, <1>6, <1>7 DEF Kept, TurnInv

LEMMA FinalizeStep ==
  ASSUME TypeInv, TurnInv, NEW r \in Ids, FinalizeRun(r)
  PROVE  Kept
<1>1. PICK a \in Answers :
        /\ Answered(a)
        /\ \/ /\ a # "failed" /\ FinalizeAuthoringRun(r)
              /\ Goto(r, IF a = "ok" THEN "done" ELSE "finalize")
           \/ /\ a # "failed" /\ ~CanFinalize(r) /\ ~ReplayCompletedAuthoringRun(r)
              /\ Goto(r, IF a = "ok" THEN "refused" ELSE "finalize")
              /\ UNCHANGED <<session, plans, run, stage, messages>>
           \/ /\ a = "failed" /\ \E pc \in {"finalize", "gaveup"} : Goto(r, pc)
              /\ UNCHANGED <<session, plans, run, stage, messages>>
  BY DEF FinalizeRun
<1>2. turn[r].pc = "finalize" /\ session.purpose = "authoring" /\ UNCHANGED server
  BY DEF FinalizeRun
<1>3. faults' \in 0..MaxFaults /\ faults' >= faults
  BY <1>1, AnsweredFacts
<1>4. PICK pc \in {"finalize", "done", "refused", "gaveup"} :
        Goto(r, pc) /\ (pc = "done" => FinalizeAuthoringRun(r))
  BY <1>1
<1>5. CASE UNCHANGED <<session, plans, run, stage, messages>>
  <2>1. ASSUME pc = "done", r \in Running
        PROVE  FALSE
    <3>1. run[r].status = "running" /\ Settle(r, "succeeded") /\ r \in Created
      BY <1>4, <2>1 DEF FinalizeAuthoringRun, ReplayCompletedAuthoringRun, Running
    <3>2. run'[r].status = "succeeded"
      BY <3>1, SettleFacts DEF Statuses
    <3> QED
      BY <1>5, <3>1, <3>2
  <2> QED
    BY <1>2, <1>3, <1>4, <1>5, <2>1, GotoStep DEF PCs, Driving, Left
<1>6. CASE /\ CanFinalize(r)
           /\ IF stage[r].changes # {}
              THEN /\ plans' = Append(plans, stage[r].plan)
                   /\ session' = [session EXCEPT !.current = Len(plans), !.state = "IntentReview"]
              ELSE UNCHANGED <<plans, session>>
           /\ InsertAgentMessage("assistant", r) /\ Settle(r, "succeeded")
           /\ stage' = [stage EXCEPT ![r] = NoStage]
  <2>1. r \in Created /\ run[r].status = "running" /\ stage[r] \in StageRow
    BY <1>6 DEF CanFinalize, TurnInv, RunInv, Running, TypeInv
  <2>2. plans \in Seq(Plan) /\ Len(plans) \in Nat /\ session.current < Len(plans) /\ session \in SessionRow
    BY LenProperties DEF TypeInv
  <2>3. /\ session' \in SessionRow /\ session'.purpose = session.purpose
        /\ plans' \in Seq(Plan) /\ session'.current < Len(plans') /\ Len(plans') >= Len(plans)
        /\ \A i \in 1..Len(plans) : plans'[i] = plans[i]
    <3>1. CASE UNCHANGED <<plans, session>>
      BY <2>2, <3>1
    <3>2. CASE /\ plans' = Append(plans, stage[r].plan)
               /\ session' = [session EXCEPT !.current = Len(plans), !.state = "IntentReview"]
      <4>1. session' \in SessionRow /\ session'.purpose = session.purpose /\ session'.current = Len(plans)
        BY <2>2, <3>2 DEF SessionRow
      <4>2. stage[r].plan \in Plan
        BY <2>1 DEF StageRow
      <4>3. /\ plans' \in Seq(Plan) /\ Len(plans') = Len(plans) + 1
            /\ \A i \in 1..Len(plans) : plans'[i] = plans[i]
        BY <2>2, <3>2, <4>2, AppendProperties
      <4> QED
        BY <2>2, <4>1, <4>3
    <3> QED
      BY <1>6, <3>1, <3>2
  <2>4. /\ run'[r].status = "succeeded" /\ Created' = Created /\ \A y \in Created : y # r => run'[y] = run[y]
    BY <1>6, <2>1, SettleFacts DEF Statuses
  <2>5. OutcomeInv'
    BY <1>6, <2>1, <2>3, <2>4, OutcomeTold DEF TurnInv
  <2>6. messages' \in Seq(Message) /\ UserMessages' = UserMessages
    BY <1>6, InsertFacts, ToldAfter
  <2>7. /\ stage' \in [Ids -> StageRow] /\ \A x \in Ids : x # r => stage'[x] = stage[x]
        /\ ~stage'[r].exists
    BY <1>6, EmptyTyped DEF TypeInv
  <2>8. /\ turn' \in [Ids -> TurnRow] /\ \A x \in Ids : x # r => turn'[x] = turn[x]
        /\ turn'[r].pc \notin {"none", "pending"}
    BY <1>4, GotoFacts DEF PCs, Driving, Left
  <2>9. /\ server.state = "ready" /\ server \in [state : {"ready", "recovering"}, todo : SUBSET Ids]
        /\ server.todo = server.todo \ {r}
    BY <1>2 DEF TurnInv, RunInv, TypeInv
  <2>10. "succeeded" \in Statuses \ {"running"}
    BY DEF Statuses
  <2> QED
    BY <1>2, <1>3, <1>6, <2>1, <2>3, <2>5, <2>6, <2>7, <2>8, <2>9, <2>10, EndStep
<1> QED
  BY <1>1, <1>5, <1>6 DEF FinalizeAuthoringRun

\* One event, however often the termination is retried.
LEMMA TerminateFacts ==
  ASSUME TypeInv, TurnInv, NEW r \in Created, NEW status \in {"failed", "interrupted"},
         TerminateAuthoringRun(r, status), session.purpose = "authoring", UNCHANGED session
  PROVE  /\ Settle(r, status) /\ OutcomeInv' /\ (run[r].status = "running" \/ UNCHANGED messages)
         /\ messages' \in Seq(Message) /\ UserMessages' = UserMessages
         /\ stage' \in [Ids -> StageRow] /\ \A x \in Ids : x # r => stage'[x] = stage[x]
         /\ ~stage'[r].exists
<1>0. r \in Ids
  BY DEF TypeInv
<1>1. /\ run[r].status \in {"running", status} /\ Settle(r, status) /\ stage' = [stage EXCEPT ![r] = NoStage]
      /\ IF Told("event", r) THEN UNCHANGED messages ELSE InsertAgentMessage("event", r)
  BY DEF TerminateAuthoringRun
<1>2. run'[r].status = status /\ Created' = Created /\ \A y \in Created : y # r => run'[y] = run[y]
  BY <1>1, SettleFacts DEF Statuses
<1>3. stage' \in [Ids -> StageRow] /\ (\A x \in Ids : x # r => stage'[x] = stage[x]) /\ ~stage'[r].exists
  BY <1>0, <1>1, EmptyTyped DEF TypeInv
<1>4. CASE run[r].status = status
  <2>1. Told("event", r) /\ UNCHANGED messages
    BY <1>1, <1>4 DEF TurnInv, OutcomeInv
  <2>2. OutcomeInv'
    BY <1>2, <1>4, <2>1, OutcomeKept DEF TurnInv
  <2> QED
    BY <1>1, <1>3, <2>1, <2>2 DEF TypeInv, UserMessages
<1>5. CASE run[r].status = "running"
  <2>1. ~Told("event", r) /\ InsertAgentMessage("event", r)
    BY <1>1, <1>5 DEF TurnInv, OutcomeInv
  <2>2. OutcomeInv'
    BY <1>2, <1>5, <2>1, OutcomeTold DEF TurnInv
  <2>3. messages' \in Seq(Message) /\ UserMessages' = UserMessages
    BY <1>0, <2>1, InsertFacts, ToldAfter
  <2> QED
    BY <1>1, <1>3, <1>5, <2>2, <2>3
<1> QED
  BY <1>1, <1>4, <1>5

LEMMA TerminateStep ==
  ASSUME TypeInv, TurnInv, NEW r \in Ids, TerminateRun(r)
  PROVE  Kept
<1>1. PICK status \in {"failed", "interrupted"}, a \in Answers :
        /\ Answered(a)
        /\ \/ /\ a # "failed" /\ TerminateAuthoringRun(r, status)
              /\ Goto(r, IF a = "ok" THEN "done" ELSE "terminate")
           \/ /\ a = "failed" /\ \E pc \in {"terminate", "gaveup"} : Goto(r, pc)
              /\ UNCHANGED <<run, stage, messages>>
  BY DEF TerminateRun
<1>2. turn[r].pc = "terminate" /\ session.purpose = "authoring" /\ UNCHANGED <<session, plans, server>>
  BY DEF TerminateRun
<1>3. faults' \in 0..MaxFaults /\ faults' >= faults
  BY <1>1, AnsweredFacts
<1>4. PICK pc \in {"terminate", "done", "gaveup"} :
        Goto(r, pc) /\ (pc = "done" => TerminateAuthoringRun(r, status))
  BY <1>1
<1>5. CASE UNCHANGED <<run, stage, messages>>
  <2>1. ASSUME pc = "done", r \in Running
        PROVE  FALSE
    <3>1. run[r].status = "running" /\ Settle(r, status) /\ r \in Created
      BY <1>4, <2>1 DEF TerminateAuthoringRun, Running
    <3>2. run'[r].status = status
      BY <3>1, SettleFacts DEF Statuses
    <3> QED
      BY <1>5, <3>1, <3>2
  <2> QED
    BY <1>2, <1>3, <1>4, <1>5, <2>1, GotoStep DEF PCs, Driving, Left
<1>6. CASE TerminateAuthoringRun(r, status)
  <2>1. r \in Created
    BY <1>2 DEF TurnInv, RunInv
  <2>2. /\ Settle(r, status) /\ OutcomeInv' /\ (run[r].status = "running" \/ UNCHANGED messages)
        /\ messages' \in Seq(Message) /\ UserMessages' = UserMessages
        /\ stage' \in [Ids -> StageRow] /\ \A x \in Ids : x # r => stage'[x] = stage[x]
        /\ ~stage'[r].exists
    BY <1>2, <1>6, <2>1, TerminateFacts
  <2>3. /\ turn' \in [Ids -> TurnRow] /\ \A x \in Ids : x # r => turn'[x] = turn[x]
        /\ turn'[r].pc \notin {"none", "pending"}
    BY <1>4, GotoFacts DEF PCs, Driving, Left
  <2>4. /\ server.state = "ready" /\ server \in [state : {"ready", "recovering"}, todo : SUBSET Ids]
        /\ server.todo = server.todo \ {r}
    BY <1>2 DEF TurnInv, RunInv, TypeInv
  <2>5. status \in Statuses \ {"running"}
    BY DEF Statuses
  <2>6. session' \in SessionRow /\ plans' \in Seq(Plan) /\ session'.current < Len(plans') /\ Len(plans') >= Len(plans)
    BY <1>2, LenProperties DEF TypeInv
  <2> QED
    BY <1>2, <1>3, <2>1, <2>2, <2>3, <2>4, <2>5, <2>6, EndStep
<1> QED
  BY <1>1, <1>5, <1>6

LEMMA RecoverAuthoringStep ==
  ASSUME TypeInv, TurnInv, NEW r \in Ids, RecoverAuthoring(r)
  PROVE  Kept
<1>1. /\ server.state = "recovering" /\ r \in server.todo /\ session.purpose = "authoring"
      /\ TerminateAuthoringRun(r, "interrupted") /\ Recovered(r)
      /\ UNCHANGED <<session, plans, turn, faults>>
  BY DEF RecoverAuthoring
<1>2. r \in Created
  BY <1>1 DEF TurnInv, RunInv, Running
<1>3. /\ Settle(r, "interrupted") /\ OutcomeInv' /\ (run[r].status = "running" \/ UNCHANGED messages)
      /\ messages' \in Seq(Message) /\ UserMessages' = UserMessages
      /\ stage' \in [Ids -> StageRow] /\ \A x \in Ids : x # r => stage'[x] = stage[x]
      /\ ~stage'[r].exists
  BY <1>1, <1>2, TerminateFacts
<1>4. /\ server' \in [state : {"ready", "recovering"}, todo : SUBSET Ids]
      /\ server'.state = server.state /\ server'.todo = server.todo \ {r}
  BY <1>1 DEF Recovered, TypeInv
<1>5. session' \in SessionRow /\ plans' \in Seq(Plan) /\ session'.current < Len(plans') /\ Len(plans') >= Len(plans)
  BY <1>1, LenProperties DEF TypeInv
<1>6. turn' \in [Ids -> TurnRow] /\ faults' \in 0..MaxFaults /\ faults' >= faults
  BY <1>1, RunsAssumption DEF TypeInv
<1>7. "interrupted" \in Statuses \ {"running"}
  BY DEF Statuses
<1> QED
  BY <1>1, <1>2, <1>3, <1>4, <1>5, <1>6, <1>7, EndStep

-----------------------------------------------------------------------------
(* An assistant turn.                                                      *)

LEMMA StartAssistantStep ==
  ASSUME TypeInv, TurnInv, StartAssistantTurn
  PROVE  Kept
<1> DEFINE n == Len(run) + 1
<1>1. /\ session.purpose = "assistant" /\ server.state = "ready" /\ Running = {}
      /\ Cardinality(UserMessages) < MaxRuns
      /\ run' = Append(run, CreateRun(0)) /\ InsertAgentMessage("user", n)
      /\ UNCHANGED <<session, plans, stage, server>>
  BY DEF StartAssistantTurn, CreateMessageAndRun, EnsureNoActiveSessionRun, authoring
<1>0. PICK a \in {"ok", "lost"}, pc \in {"start", "undriven"} : Answered(a) /\ Goto(n, pc)
  BY DEF StartAssistantTurn, Goto
<1>00. faults' \in 0..MaxFaults /\ faults' >= faults /\ faults \in Nat /\ faults' \in Nat
  BY <1>0, AnsweredFacts, RunsAssumption DEF TypeInv, Answers
<1>2. n \in Ids
  BY <1>1, NextNumber DEF TurnInv
<1>3. /\ run' \in Seq(RunRow) /\ Len(run') = Len(run) + 1 /\ Created' = Created \cup {n}
      /\ n \notin Created /\ Created' \subseteq Ids
      /\ run'[n].status = "running" /\ \A y \in Created : run'[y] = run[y]
  BY <1>1, <1>2, CreateRunFacts
<1>4. /\ turn' \in [Ids -> TurnRow] /\ turn'[n].pc = pc
      /\ \A x \in Ids : x # n => turn'[x] = turn[x]
  BY <1>0, <1>2, GotoFacts DEF PCs, Driving, Left
<1>5. TypeInv'
  BY <1>00, <1>1, <1>2, <1>3, <1>4, InsertFacts DEF TypeInv
<1>6. CapacityInv'
  <2>1. Cardinality(UserMessages') = Cardinality(UserMessages) + 1
    BY <1>1, <1>2, ToldAfter
  <2>2. server'.todo = {}
    BY <1>1 DEF TurnInv, RunInv
  <2>3. /\ Len(run) \in Nat /\ Cardinality(UserMessages) \in Nat /\ MaxRuns \in Nat
        /\ Len(run) <= Cardinality(UserMessages) + faults /\ faults \in Nat /\ faults' \in Nat /\ faults' >= faults
    BY <1>00, <1>1, RunsTyped, MessagesTyped, RunsAssumption DEF TurnInv, CapacityInv, TypeInv
  <2>4. Cardinality(UserMessages') <= MaxRuns /\ Len(run') <= Cardinality(UserMessages') + faults'
    BY <1>1, <1>3, <2>1, <2>3
  <2> QED
    BY <2>2, <2>4 DEF CapacityInv
<1>7. Running' = {n}
  BY <1>1, <1>3 DEF Running
<1>8. RunInv'
  <2>1. server.todo = {} /\ \A r \in Ids : ~stage[r].exists
    BY <1>1 DEF TurnInv, RunInv
  <2> QED
    BY <1>1, <1>3, <1>4, <1>7, <2>1 DEF TurnInv, RunInv
<1>9. OutcomeInv'
  BY <1>1, <1>2, <1>3, OutcomeStarted DEF TurnInv
<1>10. StageInv'
  BY <1>1, StageNone DEF TurnInv
<1>11. LeftInv'
  BY <1>1, <1>4, <1>7, <1>2 DEF LeftInv
<1> QED
  BY <1>5, <1>6, <1>8, <1>9, <1>10, <1>11 DEF Kept, TurnInv

\* A run's row changes, but not how it ended.
LEMMA RowStep ==
  ASSUME TypeInv, TurnInv, NEW r \in Created, NEW x \in RunRow, x.status = run[r].status,
         run' = [run EXCEPT ![r] = x], UNCHANGED <<session, plans, stage, messages, server>>,
         turn' \in [Ids -> TurnRow], \A y \in Ids : y # r => turn'[y] = turn[y],
         turn'[r] = turn[r] \/ (session.purpose # "authoring" /\ turn[r].pc \notin {"none", "pending"}
                                /\ turn'[r].pc \notin {"none", "pending", "done"}),
         faults' \in 0..MaxFaults, faults' >= faults
  PROVE  Kept
<1>0. /\ run' \in Seq(RunRow) /\ Len(run') = Len(run) /\ Created' = Created
      /\ run'[r] = x /\ \A y \in Created : y # r => run'[y] = run[y]
  BY RowChanged
<1>1. /\ run' \in Seq(RunRow) /\ Len(run') = Len(run) /\ Created' = Created
      /\ \A y \in Created : run'[y].status = run[y].status
  BY <1>0
<1>2. Running' = Running /\ UserMessages' = UserMessages /\ r \in Ids
  BY <1>1 DEF Running, UserMessages, TypeInv
<1>3. TypeInv'
  BY <1>1 DEF TypeInv
<1>4. CapacityInv'
  BY <1>1, <1>2, CapacityKept DEF TurnInv
<1>5. RunInv'
  <2>1. \A y \in Ids : turn'[y].pc # turn[y].pc =>
          server.state = "ready" /\ turn[y].pc # "none" /\ turn'[y].pc \notin {"none", "pending"}
    BY DEF TurnInv, RunInv, TypeInv
  <2>2. \A y \in Ids : stage'[y].exists => stage[y].exists /\ y \in Running'
    BY <1>2 DEF TurnInv, RunInv
  <2>3. RunInv /\ Running' \subseteq Running /\ Running' = Running
        /\ UNCHANGED server /\ session'.purpose = session.purpose
    BY <1>2 DEF TurnInv
  <2> QED
    BY <1>1, <2>1, <2>2, <2>3, RunKept
<1>6. OutcomeInv'
  BY <1>1, OutcomeKept DEF TurnInv
<1>7. StageInv'
  <2>1. CASE session.purpose # "authoring"
    BY <2>1, StageNone DEF TurnInv
  <2>2. CASE turn'[r] = turn[r]
    <3>1. \A y \in Ids : turn'[y] = turn[y]
      BY <2>2
    <3> QED
      BY <3>1, StageSame DEF TurnInv, StageInv, StageFits
  <2> QED
    BY <2>1, <2>2
<1>8. LeftInv'
  <2>1. \A y \in Running : y \in Ids
    BY DEF Running, TypeInv
  <2>2. \A y \in Running : turn'[y].pc = "done" => turn[y].pc = "done"
    BY <2>1
  <2> QED
    BY <1>2, <2>2, LeftKept DEF TurnInv
<1> QED
  BY <1>3, <1>4, <1>5, <1>6, <1>7, <1>8 DEF Kept, TurnInv

LEMMA DeadlineStep ==
  ASSUME TypeInv, TurnInv, NEW r \in Ids, DeadlinePasses(r)
  PROVE  Kept
<1>1. /\ r \in Created /\ run[r].status = "running" /\ run' = [run EXCEPT ![r].late = TRUE]
      /\ UNCHANGED <<session, plans, stage, messages, turn, server, faults>>
  BY DEF DeadlinePasses, Running, authoring, process
<1>2. PICK x : x = [run[r] EXCEPT !.late = TRUE]
  OBVIOUS
<1>3. x \in RunRow /\ x.status = run[r].status
  BY <1>1, <1>2, RunsTyped DEF RunRow
<1>4. run' = [run EXCEPT ![r] = x]
  BY <1>1, <1>2
<1>5. turn' \in [Ids -> TurnRow] /\ faults' \in 0..MaxFaults /\ faults' >= faults
  BY <1>1, RunsAssumption DEF TypeInv
<1> QED
  BY <1>1, <1>3, <1>4, <1>5, RowStep

LEMMA LoadAssistantStep ==
  ASSUME TypeInv, TurnInv, NEW r \in Ids, LoadAssistantTurn(r)
  PROVE  Kept
<1>1. /\ turn[r].pc = "start" /\ session.purpose = "assistant"
      /\ UNCHANGED <<session, plans, run, stage, messages, server>> /\ turn[r] \in TurnRow
  BY DEF LoadAssistantTurn, authoring, TypeInv
<1>0. faults' \in 0..MaxFaults /\ faults' >= faults
  BY AnsweredFacts DEF LoadAssistantTurn, Answers
<1>2. r \in Created /\ ~stage[r].exists
  BY <1>1 DEF TurnInv, RunInv
<1>3. PICK attempt \in Nat : attempt = run[r].attempt
  BY <1>2, RunsTyped DEF RunRow
<1>4. CASE turn' = [turn EXCEPT ![r].pc = "model", ![r].attempt = run[r].attempt]
  <2>1. PICK t : t = [turn[r] EXCEPT !.pc = "model", !.attempt = attempt]
    OBVIOUS
  <2>2. t \in TurnRow /\ t.pc = "model"
    BY <1>1, <2>1 DEF TurnRow, PCs, Driving, Left
  <2>3. turn' = [turn EXCEPT ![r] = t]
    BY <1>3, <1>4, <2>1 DEF TypeInv
  <2>4. turn' \in [Ids -> TurnRow] /\ turn'[r].pc = "model" /\ \A x \in Ids : x # r => turn'[x] = turn[x]
    BY <2>2, <2>3 DEF TypeInv
  <2> QED
    BY <1>0, <1>1, <1>2, <2>4, TurnMoves
<1>6. CASE Goto(r, "gaveup")
  BY <1>0, <1>1, <1>6, GotoStep DEF PCs, Driving, Left
<1>5. CASE Goto(r, "done") /\ run[r].status # "running"
  <2>1. r \notin Running
    BY <1>5 DEF Running
  <2> QED
    BY <1>0, <1>1, <1>5, <2>1, GotoStep DEF PCs, Driving, Left
<1> QED
  BY <1>4, <1>5, <1>6 DEF LoadAssistantTurn, Goto

LEMMA HistoryFailsStep ==
  ASSUME TypeInv, TurnInv, NEW r \in Ids, ReadHistoryFails(r)
  PROVE  Kept
<1>1. /\ turn[r].pc = "model" /\ Goto(r, "gaveup") /\ Answered("failed")
      /\ UNCHANGED <<session, plans, run, stage, messages, server>>
  BY DEF ReadHistoryFails, authoring
<1>2. faults' \in 0..MaxFaults /\ faults' >= faults
  BY <1>1, AnsweredFacts DEF Answers
<1> QED
  BY <1>1, <1>2, GotoStep DEF PCs, Driving, Left

LEMMA AssistantErrorStep ==
  ASSUME TypeInv, TurnInv, NEW r \in Ids, AssistantError(r)
  PROVE  Kept
<1>1. /\ turn[r].pc = "model" /\ Goto(r, "retry") /\ faults' \in 0..MaxFaults /\ faults' >= faults
      /\ UNCHANGED <<session, plans, run, stage, messages, server>>
  BY RunsAssumption DEF AssistantError, authoring, TypeInv
<1> QED
  BY <1>1, GotoStep DEF PCs, Driving, Left

(* An assistant's run ends, with the reply or without a message.           *)
LEMMA AssistantEnds ==
  ASSUME TypeInv, TurnInv, NEW r \in Created, NEW s \in Statuses \ {"running"}, Settle(r, s),
         session.purpose = "assistant", run[r].status = "running",
         \/ s = "succeeded" /\ InsertAgentMessage("assistant", r)
         \/ s # "succeeded" /\ UNCHANGED messages,
         turn' \in [Ids -> TurnRow], \A x \in Ids : x # r => turn'[x] = turn[x],
         turn'[r].pc = turn[r].pc \/ (server.state = "ready" /\ turn'[r].pc \notin {"none", "pending"}),
         UNCHANGED <<session, plans, stage>>,
         server'.state = server.state, server' \in [state : {"ready", "recovering"}, todo : SUBSET Ids],
         server'.todo = server.todo \ {r},
         faults' \in 0..MaxFaults, faults' >= faults
  PROVE  Kept
<1>1. /\ run'[r].status = s /\ Created' = Created /\ \A y \in Created : y # r => run'[y] = run[y]
  BY SettleFacts
<1>2. r \in Ids /\ ~stage[r].exists
  BY DEF TurnInv, RunInv, TypeInv
<1>3. OutcomeInv' /\ messages' \in Seq(Message) /\ UserMessages' = UserMessages
  <2>1. CASE s = "succeeded" /\ InsertAgentMessage("assistant", r)
    <3>1. OutcomeInv'
      BY <1>1, <2>1, OutcomeTold DEF TurnInv
    <3> QED
      BY <1>2, <2>1, <3>1, InsertFacts, ToldAfter
  <2>2. CASE s # "succeeded" /\ UNCHANGED messages
    <3>1. \A y \in Created : run'[y].status = "succeeded" <=> run[y].status = "succeeded"
      BY <1>1, <2>2
    <3>2. OutcomeInv'
      BY <1>1, <2>2, <3>1, OutcomeKept DEF TurnInv
    <3> QED
      BY <2>2, <3>2 DEF TypeInv, UserMessages
  <2> QED
    BY <2>1, <2>2
<1>4. /\ session' \in SessionRow /\ plans' \in Seq(Plan) /\ session'.current < Len(plans')
      /\ Len(plans') >= Len(plans) /\ stage' \in [Ids -> StageRow]
  BY LenProperties DEF TypeInv
<1> QED
  BY <1>2, <1>3, <1>4, EndStep
LEMMA AssistantReplyStep ==
  ASSUME TypeInv, TurnInv, NEW r \in Ids, AssistantReply(r)
  PROVE  Kept
<1>1. PICK a \in Answers :
        /\ Answered(a)
        /\ \/ /\ CompleteRunWithMessage(r)
              /\ Goto(r, IF a = "ok" THEN "done" ELSE "retry")
           \/ Goto(r, "retry") /\ UNCHANGED <<run, messages>>
  BY DEF AssistantReply
<1>2. /\ turn[r].pc = "model" /\ session.purpose = "assistant"
      /\ UNCHANGED <<session, plans, stage, server>>
  BY DEF AssistantReply, authoring
<1>3. faults' \in 0..MaxFaults /\ faults' >= faults
  BY <1>1, AnsweredFacts
<1>4. PICK pc \in {"done", "retry"} : Goto(r, pc)
  BY <1>1
<1>5. CASE Goto(r, "retry") /\ UNCHANGED <<run, messages>>
  BY <1>2, <1>3, <1>5, GotoStep DEF PCs, Driving, Left
<1>6. CASE CompleteRunWithMessage(r)
  <2>1. r \in Created /\ server.state = "ready" /\ server.todo = {}
        /\ server \in [state : {"ready", "recovering"}, todo : SUBSET Ids]
    BY <1>2 DEF TurnInv, RunInv, TypeInv
  <2>2. run[r].status = "running" /\ InsertAgentMessage("assistant", r) /\ Settle(r, "succeeded")
    BY <1>6 DEF CompleteRunWithMessage
  <2>3. /\ turn' \in [Ids -> TurnRow] /\ \A x \in Ids : x # r => turn'[x] = turn[x]
        /\ turn'[r].pc \notin {"none", "pending"}
    BY <1>4, GotoFacts DEF PCs, Driving, Left
  <2>4. "succeeded" \in Statuses \ {"running"}
    BY DEF Statuses
  <2> QED
    BY <1>2, <1>3, <2>1, <2>2, <2>3, <2>4, AssistantEnds
<1> QED
  BY <1>1, <1>5, <1>6

LEMMA AssistantRetryStep ==
  ASSUME TypeInv, TurnInv, NEW r \in Ids, AssistantRetry(r)
  PROVE  Kept
<1>1. PICK a \in Answers :
         /\ Answered(a)
         /\ \/ /\ RetryRun(r, turn[r].attempt)
               /\ turn' = IF a = "ok" /\ run'[r].status = "running"
                          THEN [turn EXCEPT ![r].pc = "model", ![r].attempt = run'[r].attempt]
                          ELSE [turn EXCEPT ![r].pc = IF run'[r].status = "running" THEN "gaveup" ELSE "done"]
            \/ /\ a = "failed" \/ run[r].status # "running"
               /\ Goto(r, IF a = "failed" THEN "gaveup" ELSE "done") /\ UNCHANGED run
  BY DEF AssistantRetry
<1>2. /\ turn[r].pc = "retry" /\ session.purpose = "assistant" /\ turn[r] \in TurnRow
      /\ UNCHANGED <<session, plans, stage, messages, server>>
  BY DEF AssistantRetry, authoring, TypeInv
<1>3. faults' \in 0..MaxFaults /\ faults' >= faults
  BY <1>1, AnsweredFacts
<1>4. CASE /\ a = "failed" \/ run[r].status # "running"
           /\ Goto(r, IF a = "failed" THEN "gaveup" ELSE "done") /\ UNCHANGED run
  <2>1. PICK pc \in {"gaveup", "done"} : Goto(r, pc) /\ (pc = "done" => r \notin Running)
    BY <1>4 DEF Running
  <2> QED
    BY <1>2, <1>3, <1>4, <2>1, GotoStep DEF PCs, Driving, Left
<1>5. CASE /\ RetryRun(r, turn[r].attempt)
           /\ turn' = IF a = "ok" /\ run'[r].status = "running"
                      THEN [turn EXCEPT ![r].pc = "model", ![r].attempt = run'[r].attempt]
                      ELSE [turn EXCEPT ![r].pc = IF run'[r].status = "running" THEN "gaveup" ELSE "done"]
  <2>1. /\ r \in Created /\ server.state = "ready" /\ server.todo = {} /\ run[r].status = "running"
        /\ server \in [state : {"ready", "recovering"}, todo : SUBSET Ids] /\ run[r] \in RunRow
    BY <1>2, <1>5, RunsTyped DEF TurnInv, RunInv, TypeInv, RetryRun
  <2>2. PICK attempt \in Nat : attempt = turn[r].attempt /\ attempt = run[r].attempt
    BY <1>2, <1>5 DEF RetryRun, TurnRow
  <2>3. CASE attempt < MaxAttempts /\ run' = [run EXCEPT ![r].attempt = attempt + 1]
    <3>1. PICK x : x = [run[r] EXCEPT !.attempt = attempt + 1]
      OBVIOUS
    <3>2. x \in RunRow /\ x.status = "running" /\ x.attempt = attempt + 1
      <4>1. attempt + 1 \in 1..MaxAttempts
        BY <2>3, RunsAssumption
      <4> QED
        BY <2>1, <3>1, <4>1 DEF RunRow
    <3>3. run' = [run EXCEPT ![r] = x]
      BY <2>3, <3>1
    <3>4. run'[r] = x
      BY <2>1, <3>2, <3>3, RowChanged
    <3>5. /\ turn' \in [Ids -> TurnRow] /\ turn'[r].pc \notin {"none", "pending", "done"}
          /\ \A y \in Ids : y # r => turn'[y] = turn[y]
      <4>1. CASE Goto(r, "gaveup")
        BY <4>1, GotoFacts DEF PCs, Driving, Left
      <4>2. CASE turn' = [turn EXCEPT ![r].pc = "model", ![r].attempt = run'[r].attempt]
        <5>1. PICK t : t = [turn[r] EXCEPT !.pc = "model", !.attempt = attempt + 1]
          OBVIOUS
        <5>2. t \in TurnRow /\ t.pc = "model"
          <6>1. attempt + 1 \in Nat
            OBVIOUS
          <6> QED
            BY <1>2, <5>1, <6>1 DEF TurnRow, PCs, Driving, Left
        <5>3. turn' = [turn EXCEPT ![r] = t]
          BY <3>2, <3>4, <4>2, <5>1 DEF TypeInv
        <5> QED
          BY <5>2, <5>3 DEF TypeInv
      <4> QED
        BY <1>5, <3>2, <3>4, <4>1, <4>2 DEF Goto
    <3> QED
      BY <1>2, <1>3, <2>1, <3>2, <3>3, <3>5, RowStep
  <2>4. CASE Settle(r, "failed")
    <3>1. "failed" \in Statuses \ {"running"}
      BY DEF Statuses
    <3>2. run'[r].status = "failed"
      BY <2>1, <2>4, <3>1, SettleFacts
    <3>3. Goto(r, "done")
      BY <1>5, <3>2 DEF Goto
    <3>4. /\ turn' \in [Ids -> TurnRow] /\ turn'[r].pc = "done"
          /\ \A y \in Ids : y # r => turn'[y] = turn[y]
      BY <3>3, GotoFacts DEF PCs, Driving, Left
    <3> QED
      BY <1>2, <1>3, <2>1, <2>4, <3>1, <3>4, AssistantEnds
  <2> QED
    BY <1>5, <2>2, <2>3, <2>4 DEF RetryRun, Settle
<1> QED
  BY <1>1, <1>4, <1>5

LEMMA ExpiresStep ==
  ASSUME TypeInv, TurnInv, EnvironmentExpires \/ UNCHANGED vars
  PROVE  Kept
<1>1. UNCHANGED <<session, plans, run, stage, messages, turn, server, faults>>
  BY DEF EnvironmentExpires, vars, authoring, process
<1> QED
  BY <1>1, SessionMoves DEF TypeInv

LEMMA DeleteStep ==
  ASSUME TypeInv, TurnInv, DeleteEnvironment
  PROVE  Kept
<1>1. /\ session.purpose = "assistant" /\ server.state = "ready"
      /\ run' = [r \in Created |-> IF run[r].status = "running" THEN [run[r] EXCEPT !.status = "cancelled"] ELSE run[r]]
      /\ UNCHANGED <<session, plans, stage, messages, turn, server, faults>>
  BY DEF DeleteEnvironment, CancelRunsForOwner, authoring, process
<1>2. Len(run) \in Nat /\ Created = 1..Len(run) /\ \A r \in Created : run[r] \in RunRow
  BY RunsTyped
<1>3. ASSUME NEW r \in Created
      PROVE  /\ run'[r] \in RunRow /\ run'[r].status # "running"
             /\ run'[r].status = "succeeded" <=> run[r].status = "succeeded"
  <2>1. CASE run[r].status = "running"
    <3>1. run'[r] = [run[r] EXCEPT !.status = "cancelled"]
      BY <1>1, <2>1
    <3>2. run[r] \in RunRow
      BY <1>2
    <3> QED
      BY <2>1, <3>1, <3>2 DEF RunRow, Statuses
  <2>2. CASE run[r].status # "running"
    BY <1>1, <1>2, <2>2
  <2> QED
    BY <2>1, <2>2
<1>4. run' \in [1..Len(run) -> RunRow]
  BY <1>1, <1>2, <1>3
<1>5. run' \in Seq(RunRow) /\ Len(run') = Len(run)
  BY <1>2, <1>4, SameLength
<1>6. Created' = Created /\ Running' = {} /\ UserMessages' = UserMessages
  BY <1>1, <1>3, <1>5 DEF Created, Running, UserMessages
<1>7. TypeInv'
  BY <1>1, <1>5, <1>6 DEF TypeInv
<1>8. CapacityInv'
  <2>1. faults' \in Nat /\ faults' >= faults
    BY <1>1, RunsAssumption DEF TypeInv
  <2> QED
    BY <1>1, <1>5, <1>6, <2>1, CapacityKept DEF TurnInv
<1>9. RunInv'
  <2>1. \A r \in Ids : ~stage[r].exists
    BY <1>1 DEF TurnInv, RunInv
  <2> QED
    BY <1>1, <1>6, <2>1, RunKept DEF TurnInv
<1>10. OutcomeInv'
  BY <1>1, <1>3, <1>6, OutcomeKept DEF TurnInv
<1>11. StageInv'
  BY <1>1, StageNone DEF TurnInv
<1>12. LeftInv'
  BY <1>6 DEF LeftInv
<1> QED
  BY <1>7, <1>8, <1>9, <1>10, <1>11, <1>12 DEF Kept, TurnInv
-----------------------------------------------------------------------------
(* The process.                                                            *)

LEMMA StopStep ==
  ASSUME TypeInv, TurnInv, ServerStops
  PROVE  Kept
<1>1. /\ faults < MaxFaults /\ faults' = faults + 1 /\ turn' = [r \in Ids |-> NoTurn]
      /\ server' = [state |-> "recovering", todo |-> Running]
      /\ UNCHANGED <<session, plans, run, stage, messages>>
  BY DEF ServerStops, authoring
<1>2. Created' = Created /\ Running' = Running /\ UserMessages' = UserMessages /\ Running \subseteq Ids
  BY <1>1 DEF Created, Running, UserMessages, TypeInv
<1>3. turn' \in [Ids -> TurnRow] /\ \A r \in Ids : turn'[r].pc = "none"
  BY <1>1, EmptyTyped
<1>4. faults \in Nat /\ faults' \in 0..MaxFaults
  BY <1>1, RunsAssumption DEF TypeInv
<1>5. TypeInv'
  BY <1>1, <1>2, <1>3, <1>4 DEF TypeInv
<1>6. CapacityInv'
  <2>1. /\ Len(run) \in Nat /\ Cardinality(UserMessages) \in Nat
        /\ Cardinality(UserMessages) <= MaxRuns /\ Len(run) <= Cardinality(UserMessages) + faults
    BY RunsTyped, MessagesTyped DEF TurnInv, CapacityInv
  <2>2. Len(run) < Cardinality(UserMessages) + faults'
    BY <1>1, <1>4, <2>1
  <2>3. Len(run) <= Cardinality(UserMessages) + faults'
    BY <1>1, <1>4, <2>1
  <2> QED
    BY <1>1, <1>2, <2>1, <2>2, <2>3 DEF CapacityInv
<1>7. RunInv'
  BY <1>1, <1>2, <1>3 DEF TurnInv, RunInv
<1>8. OutcomeInv'
  BY <1>1, <1>2, OutcomeKept DEF TurnInv
<1>9. StageInv'
  BY <1>1, <1>3, StageSame DEF TurnInv
<1>10. LeftInv'
  BY <1>1, <1>2, <1>3, LeftKept DEF TurnInv
<1> QED
  BY <1>5, <1>6, <1>7, <1>8, <1>9, <1>10 DEF Kept, TurnInv

LEMMA ReadyStep ==
  ASSUME TypeInv, TurnInv, BecomeReady
  PROVE  Kept
<1>1. /\ server.state = "recovering" /\ server.todo = {} /\ server' = [server EXCEPT !.state = "ready"]
      /\ turn' = [r \in Ids |-> IF turn[r].pc = "pending" THEN [NoTurn EXCEPT !.pc = "start"] ELSE turn[r]]
      /\ UNCHANGED <<session, plans, run, stage, messages, faults>>
  BY DEF BecomeReady, authoring
<1>2. Created' = Created /\ Running' = Running /\ UserMessages' = UserMessages /\ Running \subseteq Ids
  BY <1>1 DEF Created, Running, UserMessages, TypeInv
<1>3. /\ server' \in [state : {"ready", "recovering"}, todo : SUBSET Ids]
      /\ server'.state = "ready" /\ server'.todo = {}
  BY <1>1 DEF TypeInv
<1>4. PICK t : t = [NoTurn EXCEPT !.pc = "start"]
  OBVIOUS
<1>5. t \in TurnRow /\ t.pc = "start"
  BY <1>4, EmptyTyped DEF TurnRow, PCs, Driving, Left
<1>6. ASSUME NEW r \in Ids
      PROVE  /\ turn'[r] \in TurnRow
             /\ turn[r].pc = "pending" => turn'[r].pc = "start"
             /\ turn[r].pc # "pending" => turn'[r] = turn[r]
  BY <1>1, <1>4, <1>5 DEF TypeInv
<1>7. turn' \in [Ids -> TurnRow]
  BY <1>1, <1>6
<1>8. TypeInv'
  BY <1>1, <1>2, <1>3, <1>7 DEF TypeInv
<1>9. CapacityInv'
  BY <1>1, <1>2, <1>3 DEF TurnInv, CapacityInv
<1>10. RunInv'
  <2>1. \A r \in Running : turn'[r].pc \notin {"none", "pending"}
    BY <1>1, <1>2, <1>6 DEF TurnInv, RunInv
  <2>2. \A r \in Ids : turn'[r].pc # "none" => r \in Created
    BY <1>6 DEF TurnInv, RunInv
  <2> QED
    BY <1>1, <1>2, <1>3, <2>1, <2>2 DEF TurnInv, RunInv
<1>11. OutcomeInv'
  BY <1>1, <1>2, OutcomeKept DEF TurnInv
<1>12. StageInv'
  <2>1. \A r \in Ids : turn'[r].pc \notin {"model", "finalize"}
    BY <1>1, <1>6 DEF TurnInv, RunInv
  <2> QED
    BY <1>1, <2>1, StageSame DEF TurnInv
<1>13. LeftInv'
  <2>1. \A r \in Running : turn'[r].pc = "done" => turn[r].pc = "done"
    BY <1>2, <1>6
  <2> QED
    BY <1>1, <1>2, <2>1, LeftKept DEF TurnInv
<1> QED
  BY <1>8, <1>9, <1>10, <1>11, <1>12, <1>13 DEF Kept, TurnInv

\* The interrupted run and its replacement, which waits for readiness.
LEMMA RestartStep ==
  ASSUME TypeInv, TurnInv, NEW r \in Ids, RecoverAssistant(r), env = "ready"
  PROVE  Kept
<1> DEFINE n == Len(run) + 1
<1>1. /\ server.state = "recovering" /\ r \in server.todo /\ session.purpose = "assistant"
      /\ run[r].status = "running"
      /\ run' = Append([run EXCEPT ![r].status = "interrupted"], CreateRun(0))
      /\ Goto(n, "pending") /\ server' = [server EXCEPT !.todo = @ \ {r}]
      /\ UNCHANGED <<session, plans, stage, messages, faults>>
  BY DEF RecoverAssistant, RestartRun, Recovered, Goto, authoring
<1>2. r \in Created /\ Running = {r} /\ server.todo = {r} /\ \A x \in Ids : ~stage[x].exists
  BY <1>1 DEF TurnInv, RunInv, Running
<1>3. n \in Ids
  BY <1>2, NextNumber DEF TurnInv
<1>4. PICK x : x = [run[r] EXCEPT !.status = "interrupted"]
  OBVIOUS
<1>5. x \in RunRow /\ x.status = "interrupted"
  BY <1>2, <1>4, RunsTyped DEF RunRow, Statuses
<1>6. PICK ended : ended = [run EXCEPT ![r] = x]
  OBVIOUS
<1>7. run \in Seq(RunRow) /\ Len(run) \in Nat /\ r \in 1..Len(run)
  BY <1>2, RunsTyped DEF TypeInv
<1>8. /\ ended \in Seq(RunRow) /\ Len(ended) = Len(run) /\ ended[r] = x
      /\ \A y \in 1..Len(run) : y # r => ended[y] = run[y]
  BY <1>5, <1>6, <1>7, ExceptSeq
<1>9. CreateRun(0) \in RunRow /\ CreateRun(0).status = "running"
  BY RunsAssumption DEF CreateRun, RunRow, Statuses
<1>10. run' = Append(ended, CreateRun(0))
  BY <1>1, <1>4, <1>6
<1>11. /\ run' \in Seq(RunRow) /\ Len(run') = n /\ run'[n] = CreateRun(0)
       /\ \A y \in 1..Len(run) : run'[y] = ended[y]
  BY <1>7, <1>8, <1>9, <1>10, AppendProperties
<1>12. Created' = Created \cup {n} /\ n \notin Created /\ Created' \subseteq Ids
  <2>1. Created' = Created \cup {n} /\ n \notin Created
    BY <1>7, <1>11 DEF Created
  <2> QED
    BY <1>3, <2>1 DEF TypeInv
<1>13. /\ run'[n].status = "running" /\ run'[r].status = "interrupted"
       /\ \A y \in Created : y # r => run'[y] = run[y]
  BY <1>5, <1>7, <1>8, <1>9, <1>11 DEF Created
<1>14. Running' = {n}
  BY <1>2, <1>12, <1>13 DEF Running
<1>15. /\ turn' \in [Ids -> TurnRow] /\ turn'[n].pc = "pending"
       /\ \A y \in Ids : y # n => turn'[y] = turn[y]
  BY <1>1, <1>3, GotoFacts DEF PCs, Driving, Left
<1>16. /\ server' \in [state : {"ready", "recovering"}, todo : SUBSET Ids]
       /\ server'.state = "recovering" /\ server'.todo = {}
  BY <1>1, <1>2 DEF TypeInv
<1>17. TypeInv'
  BY <1>1, <1>11, <1>12, <1>15, <1>16 DEF TypeInv
<1>18. UserMessages' = UserMessages
  BY <1>1 DEF UserMessages
<1>19. CapacityInv'
  <2>1. /\ Cardinality(UserMessages) \in Nat /\ faults \in Nat
        /\ Cardinality(UserMessages) <= MaxRuns /\ Len(run) < Cardinality(UserMessages) + faults
    BY <1>2, MessagesTyped, RunsAssumption DEF TurnInv, CapacityInv, TypeInv
  <2>2. Len(run') <= Cardinality(UserMessages) + faults
    BY <1>7, <1>11, <2>1
  <2> QED
    BY <1>1, <1>16, <1>18, <2>1, <2>2 DEF CapacityInv
<1>20. RunInv'
  <2>1. \A y \in Ids : turn'[y].pc \in {"none", "pending"} /\ (turn'[y].pc # "none" => y \in Created')
    BY <1>1, <1>12, <1>15 DEF TurnInv, RunInv
  <2> QED
    BY <1>1, <1>2, <1>14, <1>15, <1>16, <2>1 DEF RunInv
<1>21. OutcomeInv'
  <2>1. \A role, y : Told(role, y)' <=> Told(role, y)
    BY <1>1 DEF Told
  <2>2. \A role : ~Told(role, n)
    <3>1. ASSUME NEW role, Told(role, n)
          PROVE  FALSE
      <4>1. PICK i \in 1..Len(messages) : messages[i] = [role |-> role, run |-> n]
        BY <3>1 DEF Told
      <4>2. messages[i].run = n
        BY <4>1
      <4> QED
        BY <1>12, <4>2 DEF TurnInv, OutcomeInv
    <3> QED
      BY <3>1
  <2>3. \A y \in Created' :
          /\ Told("assistant", y)' <=> run'[y].status = "succeeded"
          /\ Told("event", y)' <=> session'.purpose = "authoring" /\ run'[y].status \in {"failed", "interrupted"}
    BY <1>1, <1>12, <1>13, <2>1, <2>2 DEF TurnInv, OutcomeInv
  <2>4. /\ \A i \in 1..Len(messages') : messages'[i].run \in Created'
        /\ \A i, j \in 1..Len(messages') : messages'[i] = messages'[j] /\ messages'[i].role # "user" => i = j
    BY <1>1, <1>12 DEF TurnInv, OutcomeInv
  <2> QED
    BY <2>3, <2>4 DEF OutcomeInv
<1>22. StageInv'
  BY <1>1, StageNone DEF TurnInv
<1>23. LeftInv'
  BY <1>1, <1>14, <1>15 DEF LeftInv
<1> QED
  BY <1>17, <1>19, <1>20, <1>21, <1>22, <1>23 DEF Kept, TurnInv

LEMMA RecoverAssistantStep ==
  ASSUME TypeInv, TurnInv, NEW r \in Ids, RecoverAssistant(r)
  PROVE  Kept
<1>1. CASE env = "ready"
  BY <1>1, RestartStep
<1>2. CASE env # "ready"
  <2>1. /\ server.state = "recovering" /\ r \in server.todo /\ session.purpose = "assistant"
        /\ Settle(r, "interrupted") /\ server' = [server EXCEPT !.todo = @ \ {r}]
        /\ UNCHANGED <<session, plans, stage, messages, turn, faults>>
    BY <1>2 DEF RecoverAssistant, Recovered, authoring
  <2>2. r \in Created /\ run[r].status = "running"
    BY <2>1 DEF TurnInv, RunInv, Running
  <2>3. /\ server' \in [state : {"ready", "recovering"}, todo : SUBSET Ids]
        /\ server'.state = server.state /\ server'.todo = server.todo \ {r}
    BY <2>1 DEF TypeInv
  <2>4. turn' \in [Ids -> TurnRow] /\ faults' \in 0..MaxFaults /\ faults' >= faults
    BY <2>1, RunsAssumption DEF TypeInv
  <2>5. "interrupted" \in Statuses \ {"running"} /\ "interrupted" # "succeeded"
    BY DEF Statuses
  <2> QED
    BY <2>1, <2>2, <2>3, <2>4, <2>5, AssistantEnds
<1> QED
  BY <1>1, <1>2
-----------------------------------------------------------------------------
(* The theorems.                                                           *)

LEMMA InitInv == Init => TypeInv /\ TurnInv
<1> SUFFICES ASSUME Init PROVE TypeInv /\ TurnInv
  OBVIOUS
<1>1. /\ session = [purpose |-> "none", state |-> "none", current |-> 0]
      /\ plans = <<EmptyPlan>> /\ run = <<>> /\ messages = <<>>
      /\ stage = [r \in Ids |-> NoStage] /\ turn = [r \in Ids |-> NoTurn]
      /\ server = [state |-> "ready", todo |-> {}] /\ faults = 0
  BY DEF Init
<1>2. Len(run) = 0 /\ Len(messages) = 0 /\ Len(plans) = 1 /\ Created = {} /\ Running = {}
  BY <1>1 DEF Created, Running
<1>3. run \in Seq(RunRow) /\ messages \in Seq(Message) /\ plans \in Seq(Plan)
  BY <1>1, EmptyTyped
<1>4. session \in SessionRow /\ stage \in [Ids -> StageRow] /\ turn \in [Ids -> TurnRow]
  BY <1>1, EmptyTyped DEF SessionRow
<1>5. TypeInv
  BY <1>1, <1>2, <1>3, <1>4, RunsAssumption DEF TypeInv
<1>6. CapacityInv
  <2>1. UserMessages = {}
    BY <1>2 DEF UserMessages
  <2>2. Cardinality(UserMessages) = 0
    BY <2>1, FS_EmptySet
  <2> QED
    BY <1>1, <1>2, <2>2, RunsAssumption DEF CapacityInv
<1>7. RunInv
  BY <1>1, <1>2, EmptyTyped DEF RunInv
<1>8. OutcomeInv
  BY <1>2 DEF OutcomeInv
<1>9. StageInv
  BY <1>1, EmptyTyped DEF StageInv
<1>10. LeftInv
  BY <1>2 DEF LeftInv
<1> QED
  BY <1>5, <1>6, <1>7, <1>8, <1>9, <1>10 DEF TurnInv

LEMMA StepInv == TypeInv /\ TurnInv /\ [Next]_vars => TypeInv' /\ TurnInv'
<1> SUFFICES ASSUME TypeInv, TurnInv, [Next]_vars PROVE Kept
  BY DEF Kept
<1>1. CASE CreateAuthoringSession \/ CreateScenarioRevisionSession \/ FindOrCreateSession
  BY <1>1, SessionsStep
<1>2. ASSUME NEW k \in Keys, SavePlan(k) \/ StartTurn(k) PROVE Kept
  BY <1>2, SaveStep, StartStep
<1>3. CASE PublishSession
  BY <1>3, PublishStep
<1>4. CASE StartAssistantTurn
  BY <1>4, StartAssistantStep
<1>5. CASE DeleteEnvironment
  BY <1>5, DeleteStep
<1>6. CASE EnvironmentExpires \/ UNCHANGED vars
  BY <1>6, ExpiresStep
<1>7. ASSUME NEW r \in Ids, TurnStep(r) PROVE Kept
  BY <1>7, BeginStep, LoadStep, ToolStep, ModelStep, FinalizeStep, TerminateStep, LoadAssistantStep,
     HistoryFailsStep, AssistantReplyStep, AssistantErrorStep, AssistantRetryStep DEF TurnStep
<1>8. ASSUME NEW r \in Ids, DeadlinePasses(r) PROVE Kept
  BY <1>8, DeadlineStep
<1>9. CASE ServerStops
  BY <1>9, StopStep
<1>10. CASE Recovery
  BY <1>10, ReadyStep, RecoverAuthoringStep, RecoverAssistantStep DEF Recovery
<1> QED
  BY <1>1, <1>2, <1>3, <1>4, <1>5, <1>6, <1>7, <1>8, <1>9, <1>10 DEF Next

LEMMA TurnInvariant == Spec => [](TypeInv /\ TurnInv)
BY InitInv, StepInv, PTL DEF Spec

\* Nothing is told twice: a reply or an event is there once or not at all.
LEMMA ToldOnce ==
  ASSUME TypeInv, OutcomeInv, NEW role \in {"assistant", "event"}, NEW r \in Created
  PROVE  Cardinality({i \in 1..Len(messages) : messages[i] = [role |-> role, run |-> r]})
           = IF Told(role, r) THEN 1 ELSE 0
<1> DEFINE told == {i \in 1..Len(messages) : messages[i] = [role |-> role, run |-> r]}
<1>1. CASE Told(role, r)
  <2>1. PICK i \in 1..Len(messages) : messages[i] = [role |-> role, run |-> r]
    BY <1>1 DEF Told
  <2>2. \A j \in told : j = i
    BY <2>1 DEF OutcomeInv
  <2>3. told = {i}
    BY <2>1, <2>2
  <2> QED
    BY <1>1, <2>3, FS_Singleton
<1>2. CASE ~Told(role, r)
  <2>1. told = {}
    BY <1>2 DEF Told
  <2> QED
    BY <1>2, <2>1, FS_EmptySet
<1> QED
  BY <1>1, <1>2

LEMMA RunsFromTurns ==
  ASSUME TypeInv, TurnInv
  PROVE  RunsInvariant
<1>1. RunsTypeOK
  <2>1. Cardinality(Running) <= 1
    <3>1. CASE Running = {}
      BY <3>1, FS_EmptySet
    <3>2. CASE Running # {}
      <4>1. PICK r \in Running : Running = {r}
        BY <3>2 DEF TurnInv, RunInv
      <4> QED
        BY <4>1, FS_Singleton
    <3> QED
      BY <3>1, <3>2
  <2>2. session.current \in 0..(Len(plans) - 1)
    BY LenProperties DEF TypeInv, SessionRow
  <2>3. \A r \in Created : run[r] \in [status : {"running", "succeeded", "failed", "interrupted", "cancelled"},
                                       attempt : 1..MaxAttempts, late : BOOLEAN, base : Nat]
    BY RunsTyped DEF RunRow, Statuses
  <2>4. \A r \in Ids : /\ turn[r].pc \in {"none", "pending", "done"} \cup Driving \cup Left
                       /\ stage[r].exists => r \in Running
    BY DEF TypeInv, TurnRow, PCs, Driving, Left, TurnInv, RunInv
  <2>5. server.todo \subseteq Created /\ faults \in 0..MaxFaults
    BY DEF TypeInv, TurnInv, RunInv, Running
  <2> QED
    BY <2>1, <2>2, <2>3, <2>4, <2>5 DEF RunsTypeOK
<1>2. OneOutcomePerTurn
  <2> SUFFICES ASSUME NEW r \in Created
               PROVE  /\ Cardinality({i \in 1..Len(messages) : messages[i] = [role |-> "assistant", run |-> r]})
                           = IF run[r].status = "succeeded" THEN 1 ELSE 0
                      /\ Cardinality({i \in 1..Len(messages) : messages[i] = [role |-> "event", run |-> r]})
                           = IF session.purpose = "authoring" /\ run[r].status \in {"failed", "interrupted"}
                             THEN 1 ELSE 0
    BY DEF OneOutcomePerTurn
  <2>1. /\ Told("assistant", r) <=> run[r].status = "succeeded"
        /\ Told("event", r) <=> session.purpose = "authoring" /\ run[r].status \in {"failed", "interrupted"}
    BY DEF TurnInv, OutcomeInv
  <2>2. /\ Cardinality({i \in 1..Len(messages) : messages[i] = [role |-> "assistant", run |-> r]})
             = IF Told("assistant", r) THEN 1 ELSE 0
        /\ Cardinality({i \in 1..Len(messages) : messages[i] = [role |-> "event", run |-> r]})
             = IF Told("event", r) THEN 1 ELSE 0
    BY ToldOnce DEF TurnInv
  <2> QED
    BY <2>1, <2>2
<1>3. NoAbandonedRun
  <2>1. \A r \in Running : r \in Ids /\ turn[r] \in TurnRow
    BY DEF Running, TypeInv
  <2>2. \A r \in Running : turn[r].pc \in {"none", "pending", "done"} \cup Driving \cup Left /\ turn[r].pc # "done"
    BY <2>1 DEF TurnRow, PCs, TurnInv, LeftInv
  <2> QED
    BY <2>2 DEF NoAbandonedRun, TurnInv, RunInv
<1> QED
  BY <1>1, <1>2, <1>3 DEF RunsInvariant

(* One running run, at most one outcome of each run, and, once the Server  *)
(* is ready, no running run but those in the hands of this process or left *)
(* by it after an unanswered start, a refused reply or a failed call: the  *)
(* transactions of the repositories and the recovery before readiness,     *)
(* whatever answers are lost and wherever the Server stops.                *)
THEOREM OneAccountedOutcome == Spec => []RunsInvariant
BY TurnInvariant, RunsFromTurns, PTL

\* Only the finalization of its own turn makes an authoring run succeed.
LEMMA SuccessIsFinalized ==
  ASSUME TypeInv, TurnInv, [Next]_vars, NEW r \in Created,
         run[r].status = "running", run'[r].status = "succeeded", session.purpose = "authoring"
  PROVE  FinalizeRun(r)
<1>1. run' # run
  OBVIOUS
<1>2. \A k \in Keys : ~StartTurn(k)
  <2>1. ASSUME NEW k \in Keys, StartTurn(k)
        PROVE  FALSE
    <3>1. /\ Cardinality(UserMessages) < MaxRuns /\ run' = Append(run, CreateRun(session.current))
      BY <2>1 DEF StartTurn, StartAuthoringRun
    <3>2. Len(run) + 1 \in Ids /\ session.current \in Nat
      BY <3>1, NextNumber DEF TurnInv, TypeInv, SessionRow
    <3>3. run'[r] = run[r]
      BY <3>1, <3>2, CreateRunFacts
    <3> QED
      BY <3>3
  <2> QED
    BY <2>1
<1>3. \A x \in Ids : ~DeadlinePasses(x)
  <2>1. ASSUME NEW x \in Ids, DeadlinePasses(x)
        PROVE  FALSE
    <3>1. x \in Created /\ run' = [run EXCEPT ![x].late = TRUE]
      BY <2>1 DEF DeadlinePasses, Running
    <3>2. PICK row : row = [run[x] EXCEPT !.late = TRUE]
      OBVIOUS
    <3>3. row \in RunRow /\ row.status = run[x].status
      BY <3>1, <3>2, RunsTyped DEF RunRow
    <3>4. run' = [run EXCEPT ![x] = row]
      BY <3>1, <3>2
    <3>5. run'[x].status = run[x].status /\ (r # x => run'[r] = run[r])
      BY <3>1, <3>3, <3>4, RowChanged
    <3> QED
      BY <3>5
  <2> QED
    BY <2>1
<1>4. ASSUME NEW x \in Created, NEW status \in {"failed", "interrupted"}, Settle(x, status)
      PROVE  FALSE
  BY <1>4, SettleFacts DEF Statuses
<1>5. \A x \in Ids : ~TerminateRun(x) /\ ~RecoverAuthoring(x)
  <2>1. ASSUME NEW x \in Ids, TerminateRun(x)
        PROVE  FALSE
    <3>1. x \in Created
      BY <2>1 DEF TerminateRun, TurnInv, RunInv
    <3>2. \E status \in {"failed", "interrupted"} : Settle(x, status)
      BY <1>1, <2>1 DEF TerminateRun, TerminateAuthoringRun
    <3> QED
      BY <1>4, <3>1, <3>2
  <2>2. ASSUME NEW x \in Ids, RecoverAuthoring(x)
        PROVE  FALSE
    <3>1. x \in Created /\ Settle(x, "interrupted")
      BY <2>2 DEF RecoverAuthoring, TerminateAuthoringRun, TurnInv, RunInv, Running
    <3> QED
      BY <1>4, <3>1
  <2> QED
    BY <2>1, <2>2
<1>6. \A x \in Ids : FinalizeRun(x) => x = r
  <2>1. ASSUME NEW x \in Ids, FinalizeRun(x), x # r
        PROVE  FALSE
    <3>1. x \in Created
      BY <2>1 DEF FinalizeRun, TurnInv, RunInv
    <3>2. Settle(x, "succeeded")
      BY <1>1, <2>1 DEF FinalizeRun, FinalizeAuthoringRun
    <3>3. run'[r] = run[r]
      BY <2>1, <3>1, <3>2, SettleFacts DEF Statuses
    <3> QED
      BY <3>3
  <2> QED
    BY <2>1
<1>7. \A x \in Ids : TurnStep(x) => FinalizeRun(x) \/ TerminateRun(x)
  BY <1>1 DEF TurnStep, BeginTurn, LoadTurn, ApplyTool, ModelEnds, LoadAssistantTurn, ReadHistoryFails, AssistantReply, AssistantError, AssistantRetry
<1>8. Recovery => \E x \in Ids : RecoverAuthoring(x)
  BY <1>1 DEF Recovery, BecomeReady, RecoverAssistant
<1>9. /\ ~CreateAuthoringSession /\ ~CreateScenarioRevisionSession /\ ~FindOrCreateSession
      /\ \A k \in Keys : ~SavePlan(k)
      /\ ~PublishSession /\ ~StartAssistantTurn /\ ~DeleteEnvironment /\ ~EnvironmentExpires
      /\ ~ServerStops /\ ~UNCHANGED vars
  BY <1>1 DEF CreateAuthoringSession, CreateScenarioRevisionSession, FindOrCreateSession, NewSession, SavePlan,
     PublishSession, StartAssistantTurn, DeleteEnvironment, EnvironmentExpires, ServerStops, vars
<1> QED
  BY <1>2, <1>3, <1>5, <1>6, <1>7, <1>8, <1>9 DEF Next

\* What FinalizeRun commits is the base plan and the turn's own edits.
LEMMA FinalizedWork ==
  ASSUME TypeInv, TurnInv, NEW r \in Created, FinalizeRun(r), run' # run
  PROVE  LET before == plans[session.current + 1].edits
             after == plans'[session'.current + 1].edits
         IN  /\ before \subseteq after
             /\ turn[r].plan.edits \subseteq after
             /\ \A e \in after \ before : e[1] = r
<1>1. /\ turn[r].pc = "finalize" /\ stage[r].exists /\ session.current = stage[r].base
      /\ IF stage[r].changes # {}
         THEN /\ plans' = Append(plans, stage[r].plan)
              /\ session' = [session EXCEPT !.current = Len(plans), !.state = "IntentReview"]
         ELSE UNCHANGED <<plans, session>>
  BY DEF FinalizeRun, FinalizeAuthoringRun, CanFinalize
<1>2. r \in Ids /\ stage[r] \in StageRow /\ Len(plans) \in Nat
  BY LenProperties DEF TypeInv
<1>3. StageFits(r)
  BY <1>1, <1>2 DEF TurnInv, StageInv
<1>4. InStep(r)
  BY <1>1, <1>3 DEF StageFits
<1>5. /\ plans[session.current + 1].edits \subseteq stage[r].plan.edits
      /\ \A e \in stage[r].plan.edits \ plans[session.current + 1].edits : e[1] = r
      /\ stage[r].changes = {} => stage[r].plan.edits = plans[session.current + 1].edits
  BY <1>1, <1>3 DEF StageFits
<1>6. CASE stage[r].changes # {}
  <2>1. plans' = Append(plans, stage[r].plan) /\ session'.current = Len(plans)
    BY <1>1, <1>6 DEF TypeInv, SessionRow
  <2>2. plans \in Seq(Plan) /\ stage[r].plan \in Plan
    BY <1>2 DEF TypeInv, StageRow
  <2>3. plans'[session'.current + 1] = stage[r].plan
    BY <1>2, <2>1, <2>2, AppendProperties
  <2>4. turn[r].plan.edits \subseteq stage[r].plan.edits
    BY <1>4 DEF InStep
  <2> QED
    BY <1>5, <2>3, <2>4
<1>7. CASE stage[r].changes = {}
  <2>1. UNCHANGED <<plans, session>>
    BY <1>1, <1>7
  <2>2. turn[r].plan.edits = stage[r].plan.edits
    BY <1>4, <1>7 DEF InStep
  <2> QED
    BY <1>5, <1>7, <2>1, <2>2
<1> QED
  BY <1>6, <1>7

(* A revision that a turn commits keeps the plan that was current and      *)
(* every edit the tools reported, and adds only the turn's own edits: the  *)
(* check of the base revision, and the stage that leads the turn's copy by *)
(* the one edit whose answer was lost.                                     *)
THEOREM RevisionsKeepWork == Spec => RevisionIsTheTurnsWork
<1>1. TypeInv /\ TurnInv /\ [Next]_vars =>
        [\A r \in Created :
           (run[r].status = "running" /\ run'[r].status = "succeeded" /\ session.purpose = "authoring")
              => LET before == plans[session.current + 1].edits
                     after == plans'[session'.current + 1].edits
                 IN  /\ before \subseteq after
                     /\ turn[r].plan.edits \subseteq after
                     /\ \A e \in after \ before : e[1] = r]_vars
  <2> SUFFICES ASSUME TypeInv, TurnInv, [Next]_vars, NEW r \in Created,
                      run[r].status = "running", run'[r].status = "succeeded", session.purpose = "authoring"
               PROVE  LET before == plans[session.current + 1].edits
                          after == plans'[session'.current + 1].edits
                      IN  /\ before \subseteq after
                          /\ turn[r].plan.edits \subseteq after
                          /\ \A e \in after \ before : e[1] = r
    OBVIOUS
  <2>1. FinalizeRun(r)
    BY SuccessIsFinalized
  <2>2. run' # run
    OBVIOUS
  <2> QED
    BY <2>1, <2>2, FinalizedWork
<1> QED
  BY <1>1, TurnInvariant, PTL DEF Spec, RevisionIsTheTurnsWork
=============================================================================
