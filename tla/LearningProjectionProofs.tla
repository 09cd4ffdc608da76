---------------------- MODULE LearningProjectionProofs ----------------------
(***************************************************************************)
(* Proofs about what the Server keeps of a user's work under one           *)
(* environment name, for any number of environments, requests, terminals,  *)
(* checkpoints and faults: a completion was earned in one environment, an  *)
(* outcome stays, a deletion hits the environment that was meant, and a    *)
(* ticket attaches one terminal to the environment it was minted for.      *)
(***************************************************************************)
EXTENDS LearningProjection, FiniteSetTheorems, WellFoundedInduction, TLAPS

Ended == {"completed", "stopped", "expired"}

OneNamed == \A u, v \in Named : u = v

ServicePart ==
  /\ load \in Workloads /\ server \in {"down", "recovering", "up"}
  /\ asked \in 0 .. load.requests /\ faults \in 0 .. load.faults

EnvironmentPart == env \in [UIDs -> Object] /\ OneNamed

LedgerPart ==
  /\ attempts \in [UIDs -> {"none", "active"} \cup Ended]
  /\ firsts \in [UIDs -> SUBSET Checkpoints] /\ progress \in UIDs \cup {NoUID}
  /\ CompletionIsEarned

(* A pass that records is about one environment, and before it looks for a *)
(* completion it has recorded the first pass of whatever it saw.           *)
PassPart ==
  /\ pass \in Pass
  /\ pass.pc # "idle" => pass.uid \in UIDs
  /\ pass.pc = "evaluate" => pass.todo # {}
  /\ pass.pc = "passes" => pass.seen \subseteq firsts[pass.uid] \cup pass.todo
  /\ pass.pc = "complete" => pass.seen \subseteq firsts[pass.uid]

(* A request that writes under a UID has found one.                        *)
RequestPart ==
  /\ req \in [Callers -> Request]
  /\ \A c \in Callers :
       req[c].pc \in {"clear", "reset", "record", "finish", "destroy"} => req[c].uid \in UIDs

(* A terminal keeps the ticket it has spent.                               *)
Spent(s) ==
  /\ sock[s].ticket \in Tickets /\ sock[s].uid \in UIDs
  /\ tickets[sock[s].ticket].used /\ tickets[sock[s].ticket].uid = sock[s].uid

SocketPart ==
  /\ tickets \in [Tickets -> Ticket] /\ sock \in [Sockets -> Socket]
  /\ \A s \in Sockets : sock[s].pc # "none" => Spent(s)
  /\ \A s, r \in Sockets :
       sock[s].pc # "none" /\ sock[r].pc # "none" /\ sock[s].ticket = sock[r].ticket => s = r

(* The tracker counts terminals that are connected.                        *)
Counted == {s \in Sockets : sock[s].pc \in {"live", "closing"}}
UsagePart ==
  /\ rows \in [Sockets -> {"none", "fresh", "stale", "closed"}] /\ usage \in [UIDs -> BOOLEAN]
  /\ finishing \in [UIDs -> {"none", "count", "update"}]
  /\ tracker \in [active : Nat, pending : UIDs \cup {NoUID}]
  /\ tracker.active <= Cardinality(Counted)

LearningInv ==
  ServicePart /\ EnvironmentPart /\ LedgerPart /\ PassPart /\ RequestPart /\ SocketPart /\ UsagePart

-----------------------------------------------------------------------------
(* What a step may not do, and what it leaves alone.                       *)

OutcomesKept == \A u \in UIDs : attempts[u] \in Ended => attempts'[u] = attempts[u]

Meant ==
  \A u \in UIDs :
    ~env[u].deleting /\ env'[u].deleting =>
      \/ env[u].phase = "Released" \/ pass.uid = u
      \/ \E c \in Callers : req[c].uid = u \/ req[c].pc = "cleanup"

Advance == LearningInv' /\ OutcomesKept /\ Meant

LEMMA ServiceKept ==
  ASSUME ServicePart, UNCHANGED <<load, server, asked, faults>>
  PROVE  ServicePart'
BY DEF ServicePart

LEMMA LoadFacts ==
  ASSUME ServicePart
  PROVE  /\ load.requests \in Nat /\ load.faults \in Nat
         /\ load.sockets \subseteq Sockets /\ load.callers \subseteq Callers
<1>1. load \in [kind : {"scenario", "playground"}, callers : SUBSET Callers,
                sockets : SUBSET Sockets, tasks : SUBSET (1 .. CheckpointCount),
                requests : Nat, faults : Nat]
  BY LearningAssumption DEF ServicePart
<1> QED
  BY <1>1

LEMMA FaultCounted ==
  ASSUME ServicePart, faults < load.faults, faults' = faults + 1, UNCHANGED <<load, asked>>,
         server' \in {"down", "recovering", "up"}
  PROVE  ServicePart'
<1>1. load.faults \in Nat /\ faults \in Nat
  BY LoadFacts DEF ServicePart
<1>2. faults + 1 \in 0 .. load.faults
  BY <1>1
<1> QED
  BY <1>2 DEF ServicePart

LEMMA ServerMoves ==
  ASSUME ServicePart, UNCHANGED <<load, asked, faults>>, server' \in {"down", "recovering", "up"}
  PROVE  ServicePart'
BY DEF ServicePart

LEMMA EnvironmentKept ==
  ASSUME EnvironmentPart, UNCHANGED env
  PROVE  EnvironmentPart' /\ Meant
BY DEF EnvironmentPart, Meant, OneNamed, Named, Exists

LEMMA LedgerKept ==
  ASSUME LedgerPart, UNCHANGED learningVars
  PROVE  LedgerPart' /\ OutcomesKept
BY DEF LedgerPart, learningVars, OutcomesKept, CompletionIsEarned

LEMMA PassKept ==
  ASSUME PassPart, UNCHANGED <<pass, firsts>>
  PROVE  PassPart'
BY DEF PassPart

LEMMA RequestsKept ==
  ASSUME RequestPart, UNCHANGED req
  PROVE  RequestPart'
BY DEF RequestPart

LEMMA SocketsKept ==
  ASSUME SocketPart, UNCHANGED <<tickets, sock>>
  PROVE  SocketPart'
BY DEF SocketPart, Spent

LEMMA UsageKept ==
  ASSUME UsagePart, UNCHANGED <<sock, rows, usage, tracker, finishing>>
  PROVE  UsagePart'
<1>1. Counted' = Counted
  BY DEF Counted
<1> QED
  BY <1>1 DEF UsagePart

LEMMA TerminalsKept ==
  ASSUME SocketPart, UsagePart, UNCHANGED terminalVars
  PROVE  SocketPart' /\ UsagePart'
BY SocketsKept, UsageKept DEF terminalVars

-----------------------------------------------------------------------------
(* The first checkpoint of a set that has one.                             *)
LEMMA FirstFacts ==
  ASSUME NEW todo \in SUBSET Checkpoints, todo # {}
  PROVE  FirstOf(todo) \in todo
<1> DEFINE Less == {p \in Nat \X Nat : p[1] < p[2]}
<1>1. todo \subseteq Nat
  BY LearningAssumption DEF Checkpoints
<1>2. IsWellFoundedOn(Less, Nat)
  BY NatLessThanWellFounded, Zenon DEF OpToRel
<1>3. PICK k \in todo : \A j \in todo : <<j, k>> \notin Less
  <2> HIDE DEF Less
  <2> QED BY <1>1, <1>2, WFMin
<1>4. ASSUME NEW j \in todo PROVE k <= j
  <2>1. j \in Nat /\ k \in Nat /\ <<j, k>> \notin Less
    BY <1>1, <1>3
  <2> QED
    BY <2>1
<1> QED
  BY <1>4 DEF FirstOf

-----------------------------------------------------------------------------
(* The object under the name.                                              *)

LEMMA ObjectTyped ==
  ASSUME NEW o \in Object
  PROVE  /\ \A p \in Phases : [o EXCEPT !.phase = p] \in Object
         /\ \A d \in BOOLEAN : [o EXCEPT !.deleting = d] \in Object
         /\ \A r \in {"none", "asked", "wiping"} : [o EXCEPT !.reset = r] \in Object
         /\ \A k \in SUBSET Checkpoints : [o EXCEPT !.passing = k] \in Object
         /\ [Unborn EXCEPT !.phase = "gone"] \in Object
BY DEF Object, Phases, Unborn

(* An object is written, and does not come to exist by that.               *)
LEMMA ObjectWritten ==
  ASSUME EnvironmentPart, NEW u \in UIDs, NEW o \in Object, env' = [env EXCEPT ![u] = o],
         o.phase \notin {"unborn", "gone"} => Exists(u),
         ~env[u].deleting /\ o.deleting =>
           \/ env[u].phase = "Released" \/ pass.uid = u
           \/ \E c \in Callers : req[c].uid = u \/ req[c].pc = "cleanup"
  PROVE  EnvironmentPart' /\ Meant
<1>1. env' \in [UIDs -> Object] /\ env'[u] = o /\ \A v \in UIDs : v # u => env'[v] = env[v]
  BY DEF EnvironmentPart
<1>2. \A v \in UIDs : Exists(v)' => Exists(v)
  BY <1>1 DEF Exists
<1>3. OneNamed'
  BY <1>2 DEF EnvironmentPart, OneNamed, Named
<1>4. Meant
  BY <1>1 DEF Meant
<1> QED
  BY <1>1, <1>3, <1>4 DEF EnvironmentPart

LEMMA UIDDeleted ==
  ASSUME EnvironmentPart, NEW u \in UIDs, DeleteWithUID(u),
         \/ env[u].phase = "Released" \/ pass.uid = u
         \/ \E c \in Callers : req[c].uid = u
  PROVE  EnvironmentPart' /\ Meant
<1>1. CASE ~Exists(u)
  BY <1>1, EnvironmentKept DEF DeleteWithUID
<1>2. CASE Exists(u)
  <2>1. env[u] \in Object
    BY DEF EnvironmentPart
  <2>2. PICK o \in Object : o = [env[u] EXCEPT !.deleting = TRUE]
    BY <2>1, ObjectTyped
  <2>3. env' = [env EXCEPT ![u] = o]
    BY <1>2, <2>2 DEF DeleteWithUID
  <2>4. o.phase = env[u].phase
    BY <2>1, <2>2 DEF Object
  <2> QED
    BY <1>2, <2>3, <2>4, ObjectWritten DEF Exists
<1> QED
  BY <1>1, <1>2

(* Whoever removes what has the name.                                      *)
LEMMA NameDeleted ==
  ASSUME EnvironmentPart, NEW c \in Callers, req[c].pc = "cleanup",
         env' = [u \in UIDs |-> IF Exists(u) THEN [env[u] EXCEPT !.deleting = TRUE] ELSE env[u]]
  PROVE  EnvironmentPart' /\ Meant
<1>1. env \in [UIDs -> Object]
  BY DEF EnvironmentPart
<1>2. ASSUME NEW u \in UIDs PROVE env'[u] \in Object /\ env'[u].phase = env[u].phase
  <2>1. env[u] \in Object
    BY <1>1
  <2>2. [env[u] EXCEPT !.deleting = TRUE] \in Object
    BY <2>1, ObjectTyped
  <2> QED
    BY <2>1, <2>2 DEF Object
<1>3. env' \in [UIDs -> Object]
  BY <1>2
<1>4. \A u \in UIDs : Exists(u)' <=> Exists(u)
  BY <1>2 DEF Exists
<1>5. OneNamed'
  BY <1>4 DEF EnvironmentPart, OneNamed, Named
<1> QED
  BY <1>3, <1>5 DEF EnvironmentPart, Meant

LEMMA EnvironmentCreated ==
  ASSUME EnvironmentPart, Named = {}, \E u \in UIDs : env[u].phase = "unborn",
         env' = [env EXCEPT ![NextUID].phase = "Pending"]
  PROVE  EnvironmentPart' /\ Meant /\ NextUID \in UIDs
<1>1. NextUID \in UIDs /\ env[NextUID].phase = "unborn"
  BY DEF NextUID
<1>2. env[NextUID] \in Object
  BY <1>1 DEF EnvironmentPart
<1>3. PICK o \in Object : o = [env[NextUID] EXCEPT !.phase = "Pending"]
  BY <1>2, ObjectTyped DEF Phases
<1>4. env' = [env EXCEPT ![NextUID] = o]
  BY <1>3
<1>5. env' \in [UIDs -> Object] /\ \A v \in UIDs : v # NextUID => env'[v] = env[v]
  BY <1>1, <1>4 DEF EnvironmentPart
<1>6. env'[NextUID].deleting = env[NextUID].deleting
  BY <1>1, <1>2, <1>3, <1>4 DEF EnvironmentPart, Object
<1>7. \A v \in UIDs : Exists(v)' => v = NextUID
  BY <1>5 DEF Named, Exists
<1>8. OneNamed'
  BY <1>7 DEF OneNamed, Named
<1> QED
  BY <1>1, <1>5, <1>6, <1>8 DEF EnvironmentPart, Meant

LEMMA ControllerStep ==
  ASSUME EnvironmentPart, NEW u \in UIDs, Controller(u)
  PROVE  EnvironmentPart' /\ Meant
<1>1. env[u] \in Object
  BY DEF EnvironmentPart
<1> DEFINE Quiet(o) == /\ o \in Object /\ env' = [env EXCEPT ![u] = o] /\ Exists(u)
                       /\ o.deleting = env[u].deleting
<1>2. ASSUME NEW o, Quiet(o) PROVE EnvironmentPart' /\ Meant
  BY <1>2, ObjectWritten
<1>3. CASE env[u].phase = "Pending" /\ env' = [env EXCEPT ![u].phase = "Ready"]
  <2>1. PICK o \in Object : o = [env[u] EXCEPT !.phase = "Ready"]
    BY <1>1, ObjectTyped DEF Phases
  <2>2. o.deleting = env[u].deleting /\ env' = [env EXCEPT ![u] = o] /\ Exists(u)
    BY <1>1, <1>3, <2>1 DEF Object, Exists
  <2> QED BY <1>2, <2>2
<1>4. CASE env[u].phase \in {"Pending", "Ready"}
           /\ env' = [env EXCEPT ![u].phase = "Failed", ![u].passing = {}]
  <2>1. PICK o \in Object : o = [env[u] EXCEPT !.phase = "Failed", !.passing = {}]
    BY <1>1 DEF Object, Phases
  <2>2. o.deleting = env[u].deleting /\ env' = [env EXCEPT ![u] = o] /\ Exists(u)
    BY <1>1, <1>4, <2>1 DEF Object, Exists, EnvironmentPart
  <2> QED BY <1>2, <2>2
<1>5. CASE env[u].phase \in {"Pending", "Ready", "Failed"}
           /\ env' = [env EXCEPT ![u].phase = "Draining", ![u].reset = "none"]
  <2>1. PICK o \in Object : o = [env[u] EXCEPT !.phase = "Draining", !.reset = "none"]
    BY <1>1 DEF Object, Phases
  <2>2. o.deleting = env[u].deleting /\ env' = [env EXCEPT ![u] = o] /\ Exists(u)
    BY <1>1, <1>5, <2>1 DEF Object, Exists, EnvironmentPart
  <2> QED BY <1>2, <2>2
<1>6. CASE env[u].phase = "Draining"
           /\ env' = [env EXCEPT ![u].phase = "Released", ![u].passing = {}]
  <2>1. PICK o \in Object : o = [env[u] EXCEPT !.phase = "Released", !.passing = {}]
    BY <1>1 DEF Object, Phases
  <2>2. o.deleting = env[u].deleting /\ env' = [env EXCEPT ![u] = o] /\ Exists(u)
    BY <1>1, <1>6, <2>1 DEF Object, Exists, EnvironmentPart
  <2> QED BY <1>2, <2>2
<1>7. CASE env[u].phase = "Released" /\ DeleteWithUID(u)
  BY <1>7, UIDDeleted
<1>8. CASE env[u].phase = "Ready"
           /\ env' = [env EXCEPT ![u].reset = "wiping", ![u].passing = {}]
  <2>1. PICK o \in Object : o = [env[u] EXCEPT !.reset = "wiping", !.passing = {}]
    BY <1>1 DEF Object
  <2>2. o.deleting = env[u].deleting /\ env' = [env EXCEPT ![u] = o] /\ Exists(u)
    BY <1>1, <1>8, <2>1 DEF Object, Exists, EnvironmentPart
  <2> QED BY <1>2, <2>2
<1>9. CASE env[u].phase = "Ready" /\ env' = [env EXCEPT ![u].reset = "none"]
  <2>1. PICK o \in Object : o = [env[u] EXCEPT !.reset = "none"]
    BY <1>1, ObjectTyped
  <2>2. o.deleting = env[u].deleting /\ env' = [env EXCEPT ![u] = o] /\ Exists(u)
    BY <1>1, <1>9, <2>1 DEF Object, Exists
  <2> QED BY <1>2, <2>2
<1>10. CASE Exists(u) /\ env[u].deleting /\ env' = [env EXCEPT ![u] = [Unborn EXCEPT !.phase = "gone"]]
  <2>1. PICK o \in Object : o = [Unborn EXCEPT !.phase = "gone"]
    BY <1>1, ObjectTyped
  <2>2. o.phase = "gone" /\ o.deleting = FALSE
    BY <2>1 DEF Unborn
  <2>3. env' = [env EXCEPT ![u] = o]
    BY <1>10, <2>1
  <2> QED BY <2>2, <2>3, ObjectWritten
<1> QED
  BY <1>3, <1>4, <1>5, <1>6, <1>7, <1>8, <1>9, <1>10 DEF Controller

LEMMA WorkStep ==
  ASSUME EnvironmentPart, NEW u \in UIDs, NEW k \in Checkpoints, Work(u, k)
  PROVE  EnvironmentPart' /\ Meant
<1>1. env[u] \in Object
  BY DEF EnvironmentPart
<1>2. PICK p \in SUBSET Checkpoints : p = IF k \in env[u].passing THEN env[u].passing \ {k}
                                          ELSE env[u].passing \cup {k}
  BY <1>1 DEF Object
<1>3. PICK o \in Object : o = [env[u] EXCEPT !.passing = p]
  BY <1>1, ObjectTyped
<1>4. env' = [env EXCEPT ![u] = o]
  BY <1>1, <1>2, <1>3 DEF Work, Object
<1>5. Exists(u) /\ o.deleting = env[u].deleting
  BY <1>1, <1>3 DEF Work, Exists, Object
<1> QED
  BY <1>4, <1>5, ObjectWritten

-----------------------------------------------------------------------------
(* The tables of the learner's work.                                       *)

Outcomes == {"none", "active"} \cup Ended

LEMMA AttemptsWritten ==
  ASSUME LedgerPart, attempts' \in [UIDs -> Outcomes], UNCHANGED <<firsts, progress>>,
         \A u \in UIDs : attempts[u] \in Ended => attempts'[u] = attempts[u]
  PROVE  LedgerPart' /\ OutcomesKept
<1>1. CompletionIsEarned'
  <2> SUFFICES ASSUME progress # NoUID
               PROVE  firsts[progress] = Checkpoints /\ attempts'[progress] \in Ended
    BY DEF CompletionIsEarned, Ended
  <2>1. progress \in UIDs /\ firsts[progress] = Checkpoints /\ attempts[progress] \in Ended
    BY DEF LedgerPart, CompletionIsEarned, Ended
  <2> QED
    BY <2>1
<1> QED
  BY <1>1 DEF LedgerPart, OutcomesKept, Outcomes

LEMMA AttemptRecorded ==
  ASSUME LedgerPart, NEW u \in UIDs, attempts' = RecordedAttempt(u), UNCHANGED <<firsts, progress>>
  PROVE  LedgerPart' /\ OutcomesKept
<1>1. attempts \in [UIDs -> Outcomes]
  BY DEF LedgerPart, Outcomes
<1>2. attempts' \in [UIDs -> Outcomes]
  BY <1>1 DEF RecordedAttempt, Outcomes
<1>3. \A v \in UIDs : attempts[v] \in Ended => attempts'[v] = attempts[v]
  BY <1>1 DEF RecordedAttempt, Ended
<1> QED
  BY <1>2, <1>3, AttemptsWritten

LEMMA AttemptFinished ==
  ASSUME LedgerPart, NEW u \in UIDs, NEW outcome \in Ended,
         attempts' = FinishScenarioAttempt(u, outcome), UNCHANGED <<firsts, progress>>
  PROVE  LedgerPart' /\ OutcomesKept
<1>1. attempts \in [UIDs -> Outcomes]
  BY DEF LedgerPart, Outcomes
<1>2. attempts' \in [UIDs -> Outcomes]
  BY <1>1 DEF FinishScenarioAttempt, Outcomes
<1>3. \A v \in UIDs : attempts[v] \in Ended => attempts'[v] = attempts[v]
  BY <1>1 DEF FinishScenarioAttempt, Ended
<1> QED
  BY <1>2, <1>3, AttemptsWritten

LEMMA FirstPassRecorded ==
  ASSUME LedgerPart, NEW u \in UIDs, NEW k \in Checkpoints,
         firsts' = [firsts EXCEPT ![u] = @ \cup {k}], UNCHANGED <<attempts, progress>>
  PROVE  LedgerPart' /\ OutcomesKept /\ firsts'[u] = firsts[u] \cup {k}
<1>1. firsts \in [UIDs -> SUBSET Checkpoints] /\ firsts[u] \in SUBSET Checkpoints
  BY DEF LedgerPart
<1>2. firsts' \in [UIDs -> SUBSET Checkpoints] /\ firsts'[u] = firsts[u] \cup {k}
      /\ \A v \in UIDs : firsts[v] \subseteq firsts'[v]
  BY <1>1
<1>3. CompletionIsEarned'
  <2> SUFFICES ASSUME progress # NoUID
               PROVE  firsts'[progress] = Checkpoints /\ attempts[progress] \in Ended
    BY DEF CompletionIsEarned, Ended
  <2>1. progress \in UIDs /\ firsts[progress] = Checkpoints /\ attempts[progress] \in Ended
    BY DEF LedgerPart, CompletionIsEarned, Ended
  <2>2. firsts'[progress] \in SUBSET Checkpoints
    BY <1>2, <2>1
  <2> QED
    BY <1>2, <2>1, <2>2
<1> QED
  BY <1>2, <1>3 DEF LedgerPart, OutcomesKept

(* A completion is recorded with every first pass on record.               *)
LEMMA CompletionRecorded ==
  ASSUME LedgerPart, PassPart, pass.pc = "complete", RecordScenarioCompletion, UNCHANGED firsts
  PROVE  LedgerPart' /\ OutcomesKept
<1>1. CASE ~allCheckpointsPassed
  BY <1>1, LedgerKept DEF RecordScenarioCompletion, learningVars
<1>2. CASE allCheckpointsPassed
  <2>1. pass.uid \in UIDs /\ pass.seen \subseteq firsts[pass.uid]
    BY DEF PassPart
  <2>2. firsts[pass.uid] = Checkpoints
    BY <1>2, <2>1 DEF allCheckpointsPassed, passedCheckpoints, LedgerPart
  <2>3. attempts \in [UIDs -> Outcomes]
    BY DEF LedgerPart, Outcomes
  <2>4. attempts' = IF attempts[pass.uid] \in {"none", "active"}
                    THEN [attempts EXCEPT ![pass.uid] = "completed"] ELSE attempts
    BY <1>2 DEF RecordScenarioCompletion
  <2>5. attempts' \in [UIDs -> Outcomes]
    BY <2>3, <2>4 DEF Outcomes, Ended
  <2>6. \A v \in UIDs : attempts[v] \in Ended => attempts'[v] = attempts[v]
    BY <2>3, <2>4 DEF Ended
  <2>7. attempts'[pass.uid] \in Ended
    BY <2>1, <2>3, <2>4 DEF Ended, Outcomes
  <2>8. progress' = IF progress = NoUID THEN pass.uid ELSE progress
    BY <1>2 DEF RecordScenarioCompletion
  <2>9. CompletionIsEarned'
    <3>1. CASE progress = NoUID
      BY <2>2, <2>7, <2>8, <3>1 DEF CompletionIsEarned, Ended
    <3>2. CASE progress # NoUID
      <4>1. progress \in UIDs /\ firsts[progress] = Checkpoints /\ attempts[progress] \in Ended
        BY <3>2 DEF LedgerPart, CompletionIsEarned, Ended
      <4>2. attempts'[progress] \in Ended /\ progress' = progress
        BY <2>6, <2>8, <3>2, <4>1
      <4> QED
        BY <4>1, <4>2 DEF CompletionIsEarned, Ended
    <3> QED
      BY <3>1, <3>2
  <2>10. progress' \in UIDs \cup {NoUID} /\ firsts' \in [UIDs -> SUBSET Checkpoints]
    BY <2>1, <2>8 DEF LedgerPart
  <2> QED
    BY <2>5, <2>6, <2>9, <2>10 DEF LedgerPart, OutcomesKept, Outcomes
<1> QED
  BY <1>1, <1>2

-----------------------------------------------------------------------------
(* The projector.                                                          *)

PassSteps == {"idle", "evaluate", "attempt", "passes", "complete", "finish", "delete"}

LEMMA PassFields ==
  ASSUME PassPart
  PROVE  /\ pass.pc \in PassSteps /\ pass.uid \in UIDs \cup {NoUID} /\ pass.phase \in Phases
         /\ pass.todo \in SUBSET Checkpoints /\ pass.seen \in SUBSET Checkpoints
         /\ pass.evaluated \in BOOLEAN
BY DEF PassPart, Pass, PassSteps

LEMMA PassEnded ==
  ASSUME pass' = NoPass
  PROVE  PassPart'
BY DEF PassPart, NoPass, Pass, Phases

LEMMA ServiceAfterPass ==
  ASSUME ServicePart, UNCHANGED <<load, asked, faults>>,
         \/ UNCHANGED server
         \/ server' = IF server = "recovering" THEN "up" ELSE server
         \/ server' = IF server = "recovering" THEN "down" ELSE server
  PROVE  ServicePart'
BY ServerMoves DEF ServicePart

(* What a step of the projector leaves alone.                              *)
LEMMA ProjectorFrame ==
  ASSUME LearningInv, UNCHANGED <<req, terminalVars>>
  PROVE  RequestPart' /\ SocketPart' /\ UsagePart'
BY RequestsKept, TerminalsKept DEF LearningInv

LEMMA ListStep ==
  ASSUME LearningInv, ListEnvironmentProjections
  PROVE  Advance
<1>1. ServicePart' /\ EnvironmentPart' /\ Meant /\ LedgerPart' /\ OutcomesKept
  BY ServiceAfterPass, EnvironmentKept, LedgerKept DEF LearningInv, ListEnvironmentProjections, PassEnds
<1>2. ASSUME NEW u \in Named,
             pass' = [NoPass EXCEPT !.pc = IF env[u].phase = "Ready" THEN "evaluate" ELSE "attempt",
                        !.uid = u, !.phase = env[u].phase,
                        !.todo = IF env[u].phase = "Ready" THEN Checkpoints ELSE {}]
      PROVE  PassPart'
  <2>1. u \in UIDs /\ env[u].phase \in Phases
    BY DEF Named, LearningInv, EnvironmentPart, Object
  <2>2. Checkpoints # {}
    BY LearningAssumption DEF Checkpoints
  <2>3. CASE env[u].phase = "Ready"
    <3>1. /\ pass'.pc = "evaluate" /\ pass'.uid = u /\ pass'.phase = env[u].phase
          /\ pass'.todo = Checkpoints /\ pass'.seen = {} /\ pass'.evaluated = FALSE
          /\ pass' = [pc |-> "evaluate", uid |-> u, phase |-> env[u].phase, todo |-> Checkpoints,
                      seen |-> {}, evaluated |-> FALSE]
      BY <1>2, <2>3 DEF NoPass
    <3> QED
      BY <2>1, <2>2, <3>1 DEF PassPart, Pass
  <2>4. CASE env[u].phase # "Ready"
    <3>1. /\ pass'.pc = "attempt" /\ pass'.uid = u
          /\ pass' = [pc |-> "attempt", uid |-> u, phase |-> env[u].phase, todo |-> {},
                      seen |-> {}, evaluated |-> FALSE]
      BY <1>2, <2>4 DEF NoPass
    <3> QED
      BY <2>1, <3>1 DEF PassPart, Pass
  <2> QED
    BY <2>3, <2>4
<1>3. PassPart'
  BY <1>2, PassEnded DEF ListEnvironmentProjections, PassEnds
<1> QED
  BY <1>1, <1>3, ProjectorFrame DEF Advance, LearningInv, ListEnvironmentProjections

LEMMA EvaluateStep ==
  ASSUME LearningInv, EvaluateLearningCheckpoints
  PROVE  Advance
<1>1. ServicePart' /\ EnvironmentPart' /\ Meant /\ LedgerPart' /\ OutcomesKept
  BY ServiceKept, EnvironmentKept, LedgerKept DEF LearningInv, EvaluateLearningCheckpoints
<1>2. /\ pass \in Pass /\ pass.pc = "evaluate" /\ pass.uid \in UIDs /\ pass.todo # {}
      /\ pass.todo \in SUBSET Checkpoints /\ pass.seen \in SUBSET Checkpoints
  BY PassFields DEF LearningInv, PassPart, EvaluateLearningCheckpoints
<1>3. PICK k \in pass.todo : k = FirstOf(pass.todo)
  BY <1>2, FirstFacts
<1>4. PICK seen \in SUBSET Checkpoints : seen = pass.seen \cup ({k} \cap env[pass.uid].passing)
  BY <1>2, <1>3
<1>5. PICK next \in {"attempt", "evaluate"} :
        next = IF Cardinality(pass.todo) = 1 THEN "attempt" ELSE "evaluate"
  OBVIOUS
<1>6. pass' = [pass EXCEPT !.todo = pass.todo \ {k}, !.seen = seen, !.evaluated = TRUE, !.pc = next]
  BY <1>2, <1>3, <1>4, <1>5 DEF EvaluateLearningCheckpoints
<1>7. next = "evaluate" => pass.todo \ {k} # {}
  <2> SUFFICES ASSUME pass.todo \ {k} = {} PROVE Cardinality(pass.todo) = 1
    BY <1>5
  <2>1. pass.todo = {k}
    BY <1>2
  <2> QED
    BY <2>1, FS_Singleton
<1>8. /\ pass' \in Pass /\ pass'.pc = next /\ pass'.uid = pass.uid /\ pass'.todo = pass.todo \ {k}
  BY <1>2, <1>4, <1>5, <1>6 DEF Pass
<1>9. PassPart'
  BY <1>2, <1>5, <1>7, <1>8 DEF PassPart
<1> QED
  BY <1>1, <1>9, ProjectorFrame DEF Advance, LearningInv, EvaluateLearningCheckpoints

LEMMA EvaluationFailsStep ==
  ASSUME LearningInv, EvaluationFails
  PROVE  Advance
<1>1. ServicePart' /\ EnvironmentPart' /\ Meant /\ LedgerPart' /\ OutcomesKept /\ PassPart'
  BY ServiceAfterPass, EnvironmentKept, LedgerKept, PassEnded DEF LearningInv, EvaluationFails
<1> QED
  BY <1>1, ProjectorFrame DEF Advance, LearningInv, EvaluationFails

LEMMA PassFailsStep ==
  ASSUME LearningInv, PassFails
  PROVE  Advance
<1>1. server' \in {"down", "recovering", "up"}
  BY DEF LearningInv, ServicePart, PassFails
<1>2. ServicePart' /\ EnvironmentPart' /\ Meant /\ LedgerPart' /\ OutcomesKept /\ PassPart'
  BY <1>1, FaultCounted, EnvironmentKept, LedgerKept, PassEnded DEF LearningInv, PassFails
<1> QED
  BY <1>2, ProjectorFrame DEF Advance, LearningInv, PassFails

LEMMA AttemptStep ==
  ASSUME LearningInv, ProjectAttempt
  PROVE  Advance
<1>1. ServicePart' /\ EnvironmentPart' /\ Meant
  BY ServiceKept, EnvironmentKept DEF LearningInv, ProjectAttempt
<1>2. pass \in Pass /\ pass.uid \in UIDs /\ pass.seen \in SUBSET Checkpoints
  BY PassFields DEF LearningInv, PassPart, ProjectAttempt
<1>3. LedgerPart' /\ OutcomesKept
  <2>1. CASE attempts' = RecordedAttempt(pass.uid)
    BY <1>2, <2>1, AttemptRecorded DEF LearningInv, ProjectAttempt
  <2>2. CASE attempts' = attempts
    BY <2>2, LedgerKept DEF LearningInv, ProjectAttempt, learningVars
  <2> QED
    BY <2>1, <2>2 DEF ProjectAttempt
<1>4. /\ pass' \in Pass /\ pass'.pc = "passes" /\ pass'.uid = pass.uid
      /\ pass'.todo = pass.seen /\ pass'.seen = pass.seen
  BY <1>2 DEF ProjectAttempt, Pass
<1>5. PassPart'
  BY <1>2, <1>4 DEF PassPart
<1> QED
  BY <1>1, <1>3, <1>5, ProjectorFrame DEF Advance, LearningInv, ProjectAttempt

LEMMA FirstPassStep ==
  ASSUME LearningInv, RecordCheckpointFirstPass
  PROVE  Advance
<1>1. ServicePart' /\ EnvironmentPart' /\ Meant
  BY ServiceKept, EnvironmentKept DEF LearningInv, RecordCheckpointFirstPass
<1>2. /\ pass \in Pass /\ pass.pc = "passes" /\ pass.uid \in UIDs /\ pass.todo \in SUBSET Checkpoints
      /\ pass.seen \subseteq firsts[pass.uid] \cup pass.todo
  BY PassFields DEF LearningInv, PassPart, RecordCheckpointFirstPass
<1>3. LedgerPart' /\ OutcomesKept /\ PassPart'
  <2>1. CASE pass.todo = {}
    <3>1. LedgerPart' /\ OutcomesKept /\ firsts' = firsts
      BY <2>1, LedgerKept DEF LearningInv, RecordCheckpointFirstPass, learningVars
    <3>2. /\ pass' \in Pass /\ pass'.pc = "complete" /\ pass'.uid = pass.uid /\ pass'.seen = pass.seen
      BY <1>2, <2>1 DEF RecordCheckpointFirstPass, Pass
    <3>3. PassPart'
      BY <1>2, <2>1, <3>1, <3>2 DEF PassPart
    <3> QED
      BY <3>1, <3>3
  <2>2. CASE pass.todo # {}
    <3>1. PICK k \in pass.todo : k = FirstOf(pass.todo)
      BY <1>2, <2>2, FirstFacts
    <3>2. k \in Checkpoints
      BY <1>2
    <3>3. /\ firsts' = [firsts EXCEPT ![pass.uid] = @ \cup {k}]
          /\ pass' = [pass EXCEPT !.todo = pass.todo \ {k}]
          /\ UNCHANGED <<attempts, progress>>
      BY <1>2, <2>2, <3>1 DEF RecordCheckpointFirstPass
    <3>4. LedgerPart' /\ OutcomesKept /\ firsts'[pass.uid] = firsts[pass.uid] \cup {k}
      BY <1>2, <3>2, <3>3, FirstPassRecorded DEF LearningInv
    <3>5. /\ pass' \in Pass /\ pass'.pc = "passes" /\ pass'.uid = pass.uid
          /\ pass'.todo = pass.todo \ {k} /\ pass'.seen = pass.seen
      BY <1>2, <3>3 DEF Pass
    <3>6. PassPart'
      BY <1>2, <3>4, <3>5 DEF PassPart
    <3> QED
      BY <3>4, <3>6
  <2> QED
    BY <2>1, <2>2
<1> QED
  BY <1>1, <1>3, ProjectorFrame DEF Advance, LearningInv, RecordCheckpointFirstPass

LEMMA CompletionStep ==
  ASSUME LearningInv, ProjectCompletion
  PROVE  Advance
<1>1. ServicePart' /\ EnvironmentPart' /\ Meant
  BY ServiceAfterPass, EnvironmentKept DEF LearningInv, ProjectCompletion, PassEnds
<1>2. LedgerPart' /\ OutcomesKept
  BY CompletionRecorded DEF LearningInv, ProjectCompletion
<1>3. PassPart'
  <2>1. CASE pass' = NoPass
    BY <2>1, PassEnded
  <2>2. CASE pass' = [pass EXCEPT !.pc = "finish"]
    <3>1. pass \in Pass /\ pass.uid \in UIDs
      BY DEF LearningInv, PassPart, ProjectCompletion
    <3>2. pass' \in Pass /\ pass'.pc = "finish" /\ pass'.uid = pass.uid
      BY <2>2, <3>1 DEF Pass
    <3> QED
      BY <3>1, <3>2 DEF PassPart
  <2> QED
    BY <2>1, <2>2 DEF ProjectCompletion, PassEnds
<1> QED
  BY <1>1, <1>2, <1>3, ProjectorFrame DEF Advance, LearningInv, ProjectCompletion

LEMMA EndStep ==
  ASSUME LearningInv, ProjectEnd
  PROVE  Advance
<1>1. ServicePart' /\ EnvironmentPart' /\ Meant
  BY ServiceKept, EnvironmentKept DEF LearningInv, ProjectEnd
<1>2. pass \in Pass /\ pass.uid \in UIDs
  BY DEF LearningInv, PassPart, ProjectEnd
<1>3. LedgerPart' /\ OutcomesKept
  <2>1. CASE attempts' = FinishScenarioAttempt(pass.uid, "expired")
    <3>1. "expired" \in Ended
      BY DEF Ended
    <3> QED
      BY <1>2, <2>1, <3>1, AttemptFinished DEF LearningInv, ProjectEnd
  <2>2. CASE attempts' = attempts
    BY <2>2, LedgerKept DEF LearningInv, ProjectEnd, learningVars
  <2> QED
    BY <2>1, <2>2 DEF ProjectEnd
<1>4. pass' \in Pass /\ pass'.pc = "delete" /\ pass'.uid = pass.uid
  BY <1>2 DEF ProjectEnd, Pass
<1>5. PassPart'
  BY <1>2, <1>4 DEF PassPart
<1> QED
  BY <1>1, <1>3, <1>5, ProjectorFrame DEF Advance, LearningInv, ProjectEnd

LEMMA DeleteStep ==
  ASSUME LearningInv, DeleteEnvironmentProjection
  PROVE  Advance
<1>1. ServicePart' /\ LedgerPart' /\ OutcomesKept /\ PassPart'
  BY ServiceAfterPass, LedgerKept, PassEnded DEF LearningInv, DeleteEnvironmentProjection, PassEnds
<1>2. EnvironmentPart' /\ Meant
  <2>1. pass.uid \in UIDs
    BY DEF LearningInv, PassPart, DeleteEnvironmentProjection
  <2> QED
    BY <2>1, UIDDeleted DEF LearningInv, DeleteEnvironmentProjection
<1> QED
  BY <1>1, <1>2, ProjectorFrame DEF Advance, LearningInv, DeleteEnvironmentProjection

-----------------------------------------------------------------------------
(* Requests.                                                               *)

RequestSteps == {"idle", "find", "create", "get", "clear", "cleared", "wait", "cleanup",
                 "record", "finish", "destroy", "destroyed", "reset"}
Writing == {"clear", "reset", "record", "finish", "destroy"}

LEMMA Answered ==
  ASSUME RequestPart, NEW c \in Callers, Answer(c)
  PROVE  RequestPart'
BY DEF RequestPart, Answer, NoRequest, Request

LEMMA Went ==
  ASSUME RequestPart, NEW c \in Callers, NEW pc \in RequestSteps, Goto(c, pc),
         pc \in Writing => req[c].uid \in UIDs
  PROVE  RequestPart'
<1>1. req[c] \in Request
  BY DEF RequestPart
<1>2. PICK q \in Request : q = [req[c] EXCEPT !.pc = pc]
  BY <1>1 DEF Request, RequestSteps
<1>3. q.pc = pc /\ q.uid = req[c].uid
  BY <1>1, <1>2 DEF Request
<1>4. req' = [req EXCEPT ![c] = q]
  BY <1>2 DEF Goto
<1> QED
  BY <1>3, <1>4 DEF RequestPart, Writing

LEMMA Taken ==
  ASSUME RequestPart, NEW c \in Callers, NEW pc \in RequestSteps, NEW u \in UIDs, Take(c, pc, u)
  PROVE  RequestPart'
<1>1. req[c] \in Request
  BY DEF RequestPart
<1>2. PICK q \in Request : q = [req[c] EXCEPT !.pc = pc, !.uid = u]
  BY <1>1 DEF Request, RequestSteps
<1>3. q.pc = pc /\ q.uid = u
  BY <1>1, <1>2 DEF Request
<1>4. req' = [req EXCEPT ![c] = q]
  BY <1>2 DEF Take, RequestPart
<1> QED
  BY <1>3, <1>4 DEF RequestPart

LEMMA RequestAdvances ==
  ASSUME LearningInv, UNCHANGED apiVars, RequestPart',
         \/ EnvironmentPart' /\ Meant
         \/ UNCHANGED env,
         \/ LedgerPart' /\ OutcomesKept
         \/ UNCHANGED attempts
  PROVE  Advance
<1>1. ServicePart' /\ PassPart' /\ SocketPart' /\ UsagePart'
  BY ServiceKept, PassKept, TerminalsKept DEF LearningInv, apiVars
<1>2. EnvironmentPart' /\ Meant
  BY EnvironmentKept DEF LearningInv
<1>3. LedgerPart' /\ OutcomesKept
  BY LedgerKept DEF LearningInv, apiVars, learningVars
<1> QED
  BY <1>1, <1>2, <1>3 DEF Advance, LearningInv

(* A request goes on to its next step, and writes nothing yet.             *)
Moves(c) ==
  \/ Answer(c)
  \/ \E pc \in RequestSteps \ Writing : Goto(c, pc)
  \/ \E pc \in RequestSteps, u \in UIDs : Take(c, pc, u)

LEMMA MovesStep ==
  ASSUME LearningInv, NEW c \in Callers, Moves(c)
  PROVE  RequestPart'
BY Answered, Went, Taken DEF LearningInv, Moves, Writing

LEMMA NamedTyped ==
  /\ Named \subseteq UIDs /\ \A c \in Callers : Found(c) \subseteq UIDs
BY DEF Named, Found, Listed

LEMMA FindStep ==
  ASSUME LearningInv, NEW c \in Callers,
         FindForStart(c) \/ FindForReset(c) \/ FindForStop(c)
           \/ StartPlayground(c) \/ ResetPlayground(c) \/ StopPlayground(c)
  PROVE  Advance
<1>1. {"create", "wait", "reset", "record", "clear", "destroy"} \subseteq RequestSteps
      /\ "create" \notin Writing
  BY DEF RequestSteps, Writing
<1>2. Moves(c) /\ UNCHANGED <<env, attempts, apiVars>>
  <2>1. CASE FindForStart(c)
    BY <1>1, <2>1, NamedTyped DEF FindForStart, Moves
  <2>2. CASE FindForReset(c)
    BY <1>1, <2>2, NamedTyped DEF FindForReset, Moves
  <2>3. CASE FindForStop(c)
    BY <1>1, <2>3, NamedTyped DEF FindForStop, Moves
  <2>4. CASE StartPlayground(c)
    BY <1>1, <2>4, NamedTyped DEF StartPlayground, Moves
  <2>5. CASE ResetPlayground(c)
    BY <1>1, <2>5, NamedTyped DEF ResetPlayground, Moves
  <2>6. CASE StopPlayground(c)
    BY <1>1, <2>6, NamedTyped DEF StopPlayground, Moves
  <2> QED
    BY <2>1, <2>2, <2>3, <2>4, <2>5, <2>6
<1> QED
  BY <1>2, MovesStep, RequestAdvances

LEMMA WaitStep ==
  ASSUME LearningInv, NEW c \in Callers,
         AdoptExisting(c) \/ waitEnvironmentDeleted(c) \/ waitEnvironmentReady(c)
  PROVE  Advance
<1>1. {"create", "wait", "cleanup", "clear"} \subseteq RequestSteps
      /\ "create" \notin Writing /\ "cleanup" \notin Writing
  BY DEF RequestSteps, Writing
<1>2. Moves(c) /\ UNCHANGED <<env, attempts, apiVars>>
  <2>1. CASE AdoptExisting(c)
    BY <1>1, <2>1, NamedTyped DEF AdoptExisting, Moves
  <2>2. CASE waitEnvironmentDeleted(c)
    BY <1>1, <2>2 DEF waitEnvironmentDeleted, Moves
  <2>3. CASE waitEnvironmentReady(c)
    BY <1>1, <2>3 DEF waitEnvironmentReady, Moves
  <2> QED
    BY <2>1, <2>2, <2>3
<1> QED
  BY <1>2, MovesStep, RequestAdvances

LEMMA ResetStep ==
  ASSUME LearningInv, NEW c \in Callers, requestReset(c)
  PROVE  Advance
<1>1. RequestPart'
  BY Answered DEF LearningInv, requestReset
<1>2. CASE req[c].uid \notin Listed
  BY <1>1, <1>2, RequestAdvances DEF requestReset
<1>3. CASE req[c].uid \in Listed
  <2>1. PICK u \in UIDs : u = req[c].uid /\ Exists(u)
    BY <1>3 DEF Listed, Named
  <2>2. env[u] \in Object
    BY DEF LearningInv, EnvironmentPart
  <2>3. PICK o \in Object : o = [env[u] EXCEPT !.reset = "asked"]
    BY <2>2, ObjectTyped
  <2>4. o.deleting = env[u].deleting
    BY <2>2, <2>3 DEF Object
  <2>5. env' = [env EXCEPT ![u] = o]
    BY <1>3, <2>1, <2>3 DEF requestReset
  <2>6. EnvironmentPart' /\ Meant
    BY <2>1, <2>4, <2>5, ObjectWritten DEF LearningInv
  <2> QED
    BY <1>1, <2>6, RequestAdvances DEF requestReset
<1> QED
  BY <1>2, <1>3

LEMMA CreateStep ==
  ASSUME LearningInv, NEW c \in Callers, createEnvironment(c)
  PROVE  Advance
<1>1. CASE Named # {}
  <2>1. "get" \in RequestSteps /\ "get" \notin Writing
    BY DEF RequestSteps, Writing
  <2>2. RequestPart'
    BY <1>1, <2>1, Went DEF LearningInv, createEnvironment
  <2> QED
    BY <1>1, <2>2, RequestAdvances DEF createEnvironment
<1>2. CASE Named = {}
  <2>1. EnvironmentPart' /\ Meant /\ NextUID \in UIDs
    BY <1>2, EnvironmentCreated DEF LearningInv, createEnvironment
  <2>2. RequestPart'
    <3>1. CASE Answer(c)
      BY <3>1, Answered DEF LearningInv
    <3>2. CASE req' = [req EXCEPT ![c].pc = "wait", ![c].uid = NextUID, ![c].made = TRUE]
      <4>1. req \in [Callers -> Request] /\ req[c] \in Request
        BY DEF LearningInv, RequestPart
      <4>2. PICK q \in Request : q = [req[c] EXCEPT !.pc = "wait", !.uid = NextUID, !.made = TRUE]
        BY <2>1, <4>1 DEF Request
      <4>3. q.pc = "wait"
        BY <4>1, <4>2 DEF Request
      <4>4. req' = [req EXCEPT ![c] = q]
        BY <3>2, <4>1, <4>2
      <4> QED
        BY <4>3, <4>4 DEF LearningInv, RequestPart
    <3> QED
      BY <1>2, <3>1, <3>2 DEF createEnvironment
  <2> QED
    BY <2>1, <2>2, RequestAdvances DEF createEnvironment
<1> QED
  BY <1>1, <1>2

LEMMA DestroyStep ==
  ASSUME LearningInv, NEW c \in Callers, destroyEnvironment(c)
  PROVE  Advance
<1>1. req[c].uid \in UIDs /\ DeleteWithUID(req[c].uid)
  BY DEF LearningInv, RequestPart, destroyEnvironment
<1>2. EnvironmentPart' /\ Meant
  BY <1>1, UIDDeleted DEF LearningInv
<1>3. {"cleared", "destroyed"} \subseteq RequestSteps \ Writing
  BY DEF RequestSteps, Writing
<1>4. Moves(c)
  BY <1>3 DEF Moves, destroyEnvironment
<1> QED
  BY <1>2, <1>4, MovesStep, RequestAdvances DEF destroyEnvironment

LEMMA CleanupFailedStep ==
  ASSUME LearningInv, NEW c \in Callers, cleanupFailedEnvironment(c)
  PROVE  Advance
<1>1. EnvironmentPart' /\ Meant
  BY NameDeleted DEF LearningInv, cleanupFailedEnvironment
<1> QED
  BY <1>1, Answered, RequestAdvances DEF LearningInv, cleanupFailedEnvironment

LEMMA StopStep ==
  ASSUME LearningInv, NEW c \in Callers, RecordStopped(c) \/ finishEnvironmentAttempt(c)
  PROVE  Advance
<1>1. req[c].uid \in UIDs
  BY DEF LearningInv, RequestPart, RecordStopped, finishEnvironmentAttempt
<1>2. "finish" \in RequestSteps /\ "destroy" \in RequestSteps /\ "stopped" \in Ended
  BY DEF RequestSteps, Ended
<1>3. RequestPart'
  BY <1>1, <1>2, Went DEF LearningInv, RecordStopped, finishEnvironmentAttempt
<1>4. LedgerPart' /\ OutcomesKept
  BY <1>1, <1>2, AttemptRecorded, AttemptFinished
     DEF LearningInv, RecordStopped, finishEnvironmentAttempt, apiVars
<1> QED
  BY <1>3, <1>4, RequestAdvances DEF RecordStopped, finishEnvironmentAttempt

LEMMA AskStep ==
  ASSUME LearningInv, NEW c \in Callers, NEW op \in {"start", "reset", "stop"}, Ask(c, op)
  PROVE  Advance
<1>1. asked < load.requests /\ load.requests \in Nat /\ asked \in Nat
  BY LoadFacts DEF Ask, LearningInv, ServicePart
<1>2. ServicePart'
  <2>1. asked + 1 \in 0 .. load.requests
    BY <1>1
  <2> QED
    BY <2>1 DEF Ask, LearningInv, ServicePart
<1>3. RequestPart'
  <2>1. PICK q \in Request : q = [NoRequest EXCEPT !.pc = "find", !.op = op]
    BY DEF Request, NoRequest
  <2>2. q.pc = "find"
    BY <2>1 DEF NoRequest
  <2>3. req' = [req EXCEPT ![c] = q]
    BY <2>1 DEF Ask
  <2> QED
    BY <2>2, <2>3 DEF LearningInv, RequestPart
<1>4. EnvironmentPart' /\ Meant /\ LedgerPart' /\ OutcomesKept /\ SocketPart' /\ UsagePart' /\ PassPart'
  BY EnvironmentKept, LedgerKept, TerminalsKept, PassKept DEF LearningInv, Ask, learningVars
<1> QED
  BY <1>2, <1>3, <1>4 DEF Advance, LearningInv

LEMMA RequestFailsStep ==
  ASSUME LearningInv, NEW c \in Callers, RequestFails(c)
  PROVE  Advance
<1>1. ServicePart'
  BY FaultCounted DEF LearningInv, RequestFails, ServicePart
<1>2. RequestPart'
  BY Answered DEF LearningInv, RequestFails
<1>3. EnvironmentPart' /\ Meant /\ LedgerPart' /\ OutcomesKept /\ SocketPart' /\ UsagePart' /\ PassPart'
  BY EnvironmentKept, LedgerKept, TerminalsKept, PassKept DEF LearningInv, RequestFails, learningVars
<1> QED
  BY <1>1, <1>2, <1>3 DEF Advance, LearningInv

-----------------------------------------------------------------------------
(* Terminals.                                                              *)

LEMMA TerminalAdvances ==
  ASSUME LearningInv, UNCHANGED socketVars, SocketPart', UsagePart',
         UNCHANGED faults \/ (faults < load.faults /\ faults' = faults + 1)
  PROVE  Advance
<1>1. ServicePart'
  <2>1. CASE UNCHANGED faults
    BY <2>1, ServiceKept DEF LearningInv, socketVars
  <2>2. CASE faults < load.faults /\ faults' = faults + 1
    BY <2>2, FaultCounted DEF LearningInv, socketVars, ServicePart
  <2> QED
    BY <2>1, <2>2
<1>2. EnvironmentPart' /\ Meant /\ LedgerPart' /\ OutcomesKept /\ PassPart' /\ RequestPart'
  BY EnvironmentKept, LedgerKept, PassKept, RequestsKept DEF LearningInv, socketVars, learningVars
<1> QED
  BY <1>1, <1>2 DEF Advance, LearningInv

(* A terminal keeps its ticket and its environment in all that it does.    *)
LEMMA SocketMoved ==
  ASSUME SocketPart, NEW s \in Sockets, NEW pc \in {"claimed", "opened", "live", "closing", "closed"},
         sock[s].pc # "none", sock' = [sock EXCEPT ![s].pc = pc], UNCHANGED tickets
  PROVE  /\ SocketPart'
         /\ sock'[s].pc = pc /\ sock'[s].uid = sock[s].uid
         /\ \A r \in Sockets : r # s => sock'[r] = sock[r]
<1>1. sock \in [Sockets -> Socket] /\ sock[s] \in Socket
  BY DEF SocketPart
<1>2. PICK k \in Socket : k = [sock[s] EXCEPT !.pc = pc]
  BY <1>1 DEF Socket
<1>3. k.pc = pc /\ k.uid = sock[s].uid /\ k.ticket = sock[s].ticket
  BY <1>1, <1>2 DEF Socket
<1>4. sock' = [sock EXCEPT ![s] = k]
  BY <1>2
<1>5. /\ sock' \in [Sockets -> Socket] /\ sock'[s] = k
      /\ \A r \in Sockets : r # s => sock'[r] = sock[r]
  BY <1>1, <1>4
<1>6. \A r \in Sockets : /\ sock'[r].ticket = sock[r].ticket /\ sock'[r].uid = sock[r].uid
                         /\ sock'[r].pc # "none" <=> sock[r].pc # "none"
  <2> SUFFICES ASSUME NEW r \in Sockets
               PROVE  /\ sock'[r].ticket = sock[r].ticket /\ sock'[r].uid = sock[r].uid
                      /\ sock'[r].pc # "none" <=> sock[r].pc # "none"
    OBVIOUS
  <2>1. CASE r = s
    BY <1>3, <1>5, <2>1
  <2>2. CASE r # s
    BY <1>5, <2>2
  <2> QED
    BY <2>1, <2>2
<1>7. SocketPart'
  BY <1>5, <1>6 DEF SocketPart, Spent
<1> QED
  BY <1>3, <1>5, <1>7

LEMMA CountedFinite ==
  IsFiniteSet(Counted) /\ Cardinality(Counted) \in Nat /\ Cardinality(Counted) <= Cardinality(Sockets)
<1>1. Counted \subseteq Sockets /\ IsFiniteSet(Sockets)
  BY LearningAssumption DEF Counted
<1> QED
  BY <1>1, FS_Subset, FS_CardinalityType

LEMMA CreateTicketStep ==
  ASSUME LearningInv, NEW t \in Tickets, CreateTerminalTicket(t)
  PROVE  Advance
<1>1. tickets[t].uid = NoUID /\ tickets \in [Tickets -> Ticket] /\ sock \in [Sockets -> Socket]
  BY DEF CreateTerminalTicket, LearningInv, SocketPart
<1>2. PICK u \in UIDs : tickets' = [tickets EXCEPT ![t].uid = u]
  BY DEF CreateTerminalTicket, Listed, Named
<1>3. PICK k \in Ticket : k = [tickets[t] EXCEPT !.uid = u]
  BY <1>1 DEF Ticket
<1>4. tickets' = [tickets EXCEPT ![t] = k]
  BY <1>2, <1>3
<1>5. tickets' \in [Tickets -> Ticket] /\ \A x \in Tickets : x # t => tickets'[x] = tickets[x]
  BY <1>1, <1>4
<1>6. ASSUME NEW s \in Sockets, sock[s].pc # "none"
      PROVE  Spent(s)'
  <2>1. Spent(s)
    BY <1>6 DEF LearningInv, SocketPart
  <2>2. sock[s].ticket # t
    BY <1>1, <2>1, LearningAssumption DEF Spent
  <2> QED
    BY <1>5, <2>1, <2>2 DEF Spent, CreateTerminalTicket
<1>7. SocketPart'
  BY <1>1, <1>5, <1>6 DEF CreateTerminalTicket, LearningInv, SocketPart
<1> QED
  BY <1>7, UsageKept, TerminalAdvances DEF CreateTerminalTicket, LearningInv

LEMMA ClaimTicketStep ==
  ASSUME LearningInv, NEW s \in Sockets, NEW t \in Tickets, ClaimTerminalTicket(s, t)
  PROVE  Advance
<1>1. tickets \in [Tickets -> Ticket] /\ sock \in [Sockets -> Socket] /\ tickets[t] \in Ticket
  BY DEF LearningInv, SocketPart
<1>2. tickets[t].uid \in UIDs /\ ~tickets[t].used
  BY <1>1 DEF ClaimTerminalTicket, Ticket
<1>3. sock[s].pc = "none"
  BY DEF ClaimTerminalTicket, Unused
<1>4. PICK k \in Ticket : k = [tickets[t] EXCEPT !.used = TRUE]
  BY <1>1 DEF Ticket
<1>5. k.used /\ k.uid = tickets[t].uid
  BY <1>1, <1>4 DEF Ticket
<1>6. tickets' = [tickets EXCEPT ![t] = k]
  BY <1>4 DEF ClaimTerminalTicket
<1>7. PICK l \in Socket : l = [pc |-> "claimed", uid |-> tickets[t].uid, ticket |-> t]
  BY <1>2 DEF Socket
<1>8. l.pc = "claimed" /\ l.uid = tickets[t].uid /\ l.ticket = t
  BY <1>7
<1>9. sock' = [sock EXCEPT ![s] = l]
  BY <1>7 DEF ClaimTerminalTicket
<1>10. /\ tickets' \in [Tickets -> Ticket] /\ tickets'[t] = k
       /\ \A x \in Tickets : x # t => tickets'[x] = tickets[x]
       /\ sock' \in [Sockets -> Socket] /\ sock'[s] = l
       /\ \A r \in Sockets : r # s => sock'[r] = sock[r]
  BY <1>1, <1>6, <1>9
<1>11. ASSUME NEW r \in Sockets, r # s, sock[r].pc # "none"
       PROVE  Spent(r) /\ sock[r].ticket # t
  <2>1. Spent(r)
    BY <1>11 DEF LearningInv, SocketPart
  <2> QED
    BY <1>2, <2>1 DEF Spent
<1>12. ASSUME NEW r \in Sockets, sock'[r].pc # "none"
       PROVE  Spent(r)'
  <2>1. CASE r = s
    BY <1>2, <1>5, <1>8, <1>10, <2>1 DEF Spent
  <2>2. CASE r # s
    <3>1. Spent(r) /\ sock[r].ticket # t /\ sock'[r] = sock[r]
      BY <1>10, <1>11, <1>12, <2>2
    <3> QED
      BY <1>10, <3>1 DEF Spent
  <2> QED
    BY <2>1, <2>2
<1>13. ASSUME NEW q \in Sockets, NEW r \in Sockets, sock'[q].pc # "none", sock'[r].pc # "none",
              sock'[q].ticket = sock'[r].ticket
       PROVE  q = r
  <2>1. CASE q # s /\ r # s
    BY <1>10, <1>13, <2>1 DEF LearningInv, SocketPart
  <2>2. CASE q = s \/ r = s
    BY <1>8, <1>10, <1>11, <1>13, <2>2
  <2> QED
    BY <2>1, <2>2
<1>14. SocketPart'
  BY <1>10, <1>12, <1>13 DEF SocketPart
<1>15. Counted' = Counted
  BY <1>3, <1>8, <1>10 DEF Counted
<1>16. UsagePart'
  BY <1>15 DEF ClaimTerminalTicket, LearningInv, UsagePart
<1> QED
  BY <1>14, <1>16, TerminalAdvances DEF ClaimTerminalTicket

(* A step that is not the tracker's leaves the count as it is.             *)
LEMMA CountKept ==
  ASSUME SocketPart, NEW s \in Sockets, NEW pc \in {"claimed", "opened", "live", "closing", "closed"},
         sock[s].pc # "none", sock' = [sock EXCEPT ![s].pc = pc], UNCHANGED tickets,
         sock[s].pc \in {"live", "closing"} <=> pc \in {"live", "closing"}
  PROVE  Counted' = Counted
<1>1. sock'[s].pc = pc /\ \A r \in Sockets : r # s => sock'[r] = sock[r]
  BY SocketMoved
<1> QED
  BY <1>1 DEF Counted

LEMMA OpenConnectionStep ==
  ASSUME LearningInv, NEW s \in Sockets, OpenTerminalConnection(s)
  PROVE  Advance
<1>1. sock[s].pc = "claimed" /\ sock \in [Sockets -> Socket] /\ UNCHANGED tickets
  BY DEF OpenTerminalConnection, LearningInv, SocketPart
<1>2. CASE findActiveEnvironmentByUID(sock[s].uid) # {}
  <2>1. PICK u \in findActiveEnvironmentByUID(sock[s].uid) :
          /\ sock' = [sock EXCEPT ![s].pc = "opened", ![s].uid = u]
          /\ rows' = [rows EXCEPT ![s] = "fresh"]
          /\ usage' = [usage EXCEPT ![u] = TRUE]
    BY <1>2 DEF OpenTerminalConnection
  <2>2. u = sock[s].uid /\ u \in UIDs
    BY DEF findActiveEnvironmentByUID, Listed, Named
  <2>3. [sock EXCEPT ![s].pc = "opened", ![s].uid = u] = [sock EXCEPT ![s].pc = "opened"]
    BY <1>1, <2>2 DEF Socket
  <2>4. sock' = [sock EXCEPT ![s].pc = "opened"]
    BY <2>1, <2>3
  <2>5. SocketPart' /\ Counted' = Counted
    BY <1>1, <2>4, SocketMoved, CountKept DEF LearningInv
  <2>6. UsagePart'
    BY <2>1, <2>2, <2>5 DEF LearningInv, UsagePart, OpenTerminalConnection
  <2> QED
    BY <2>5, <2>6, TerminalAdvances DEF OpenTerminalConnection
<1>3. CASE findActiveEnvironmentByUID(sock[s].uid) = {}
  <2>1. sock' = [sock EXCEPT ![s].pc = "closed"] /\ UNCHANGED <<rows, usage>>
    BY <1>3 DEF OpenTerminalConnection
  <2>2. SocketPart' /\ Counted' = Counted
    BY <1>1, <2>1, SocketMoved, CountKept DEF LearningInv
  <2>3. UsagePart'
    BY <2>1, <2>2 DEF LearningInv, UsagePart, OpenTerminalConnection
  <2> QED
    BY <2>2, <2>3, TerminalAdvances DEF OpenTerminalConnection
<1> QED
  BY <1>2, <1>3

LEMMA TrackerOpenStep ==
  ASSUME LearningInv, NEW s \in Sockets, TrackerOpen(s)
  PROVE  Advance
<1>1. sock[s].pc = "opened" /\ sock' = [sock EXCEPT ![s].pc = "live"] /\ UNCHANGED tickets
  BY DEF TrackerOpen
<1>2. /\ SocketPart' /\ sock'[s].pc = "live"
      /\ \A r \in Sockets : r # s => sock'[r] = sock[r]
  BY <1>1, SocketMoved DEF LearningInv
<1>3. s \notin Counted /\ Counted' = Counted \cup {s}
  BY <1>1, <1>2 DEF Counted
<1>4. Cardinality(Counted') = Cardinality(Counted) + 1 /\ Cardinality(Counted) \in Nat
  BY <1>3, CountedFinite, FS_AddElement
<1>5. tracker.active \in Nat /\ tracker.active <= Cardinality(Counted)
  BY DEF LearningInv, UsagePart
<1>6. /\ tracker' \in [active : Nat, pending : UIDs \cup {NoUID}]
      /\ tracker'.active = tracker.active + 1
  BY <1>5 DEF TrackerOpen
<1>7. Cardinality(Counted)' = Cardinality(Counted')
  OBVIOUS
<1>8. tracker'.active <= Cardinality(Counted)'
  BY <1>4, <1>5, <1>6, <1>7
<1>9. UsagePart'
  BY <1>6, <1>8 DEF LearningInv, UsagePart, TrackerOpen
<1> QED
  BY <1>2, <1>9, TerminalAdvances DEF TrackerOpen

LEMMA CloseConnectionStep ==
  ASSUME LearningInv, NEW s \in Sockets, CloseTerminalConnection(s)
  PROVE  Advance
<1>1. sock[s].pc = "live" /\ sock' = [sock EXCEPT ![s].pc = "closing"] /\ UNCHANGED tickets
  BY DEF CloseTerminalConnection
<1>2. SocketPart' /\ Counted' = Counted
  BY <1>1, SocketMoved, CountKept DEF LearningInv
<1>3. rows' \in [Sockets -> {"none", "fresh", "stale", "closed"}]
  BY DEF CloseTerminalConnection, LearningInv, UsagePart
<1>4. UsagePart'
  BY <1>2, <1>3 DEF LearningInv, UsagePart, CloseTerminalConnection
<1> QED
  BY <1>2, <1>4, TerminalAdvances DEF CloseTerminalConnection

LEMMA TrackerCloseStep ==
  ASSUME LearningInv, NEW s \in Sockets, TrackerClose(s)
  PROVE  Advance
<1>1. sock[s].pc = "closing" /\ sock' = [sock EXCEPT ![s].pc = "closed"] /\ UNCHANGED tickets
  BY DEF TrackerClose
<1>2. /\ SocketPart' /\ sock'[s].pc = "closed"
      /\ \A r \in Sockets : r # s => sock'[r] = sock[r]
  BY <1>1, SocketMoved DEF LearningInv
<1>3. s \in Counted /\ Counted' = Counted \ {s}
  BY <1>1, <1>2 DEF Counted
<1>4. Cardinality(Counted') = Cardinality(Counted) - 1 /\ Cardinality(Counted) \in Nat
  BY <1>3, CountedFinite, FS_RemoveElement
<1>5. Cardinality(Counted') \in Nat
  BY <1>3, CountedFinite, FS_RemoveElement, FS_CardinalityType
<1>6. tracker.active \in Nat /\ tracker.active <= Cardinality(Counted)
      /\ tracker \in [active : Nat, pending : UIDs \cup {NoUID}]
  BY DEF LearningInv, UsagePart
<1>7. sock[s].uid \in UIDs
  BY <1>1 DEF LearningInv, SocketPart, Spent
<1>8. /\ tracker' \in [active : Nat, pending : UIDs \cup {NoUID}]
      /\ tracker'.active <= Cardinality(Counted')
  <2>1. CASE tracker.active > 1
    <3>1. PICK n \in Nat : n = tracker.active - 1
      BY <1>6, <2>1
    <3>2. tracker' = [tracker EXCEPT !.active = n]
      BY <2>1, <3>1 DEF TrackerClose
    <3>3. tracker' \in [active : Nat, pending : UIDs \cup {NoUID}] /\ tracker'.active = n
      BY <1>6, <3>2
    <3>4. n <= Cardinality(Counted')
      BY <1>4, <1>6, <3>1
    <3> QED
      BY <3>3, <3>4
  <2>2. CASE ~(tracker.active > 1)
    <3>1. tracker' = [active |-> 0, pending |-> sock[s].uid]
      BY <2>2 DEF TrackerClose
    <3>2. tracker' \in [active : Nat, pending : UIDs \cup {NoUID}] /\ tracker'.active = 0
      BY <1>7, <3>1
    <3> QED
      BY <1>5, <3>2
  <2> QED
    BY <2>1, <2>2
<1>9. UsagePart'
  BY <1>8 DEF LearningInv, UsagePart, TrackerClose
<1> QED
  BY <1>2, <1>9, TerminalAdvances DEF TrackerClose

(* Heartbeats, the end of the settle delay and the end of a usage session. *)
LEMMA UsageStep ==
  ASSUME LearningInv, UNCHANGED <<tickets, sock>>,
         \/ \E s \in Sockets : TouchTerminalConnection(s) \/ HeartbeatAges(s) \/ HeartbeatsLost(s)
         \/ TrackerSettles
         \/ \E u \in UIDs : FinishCounts(u) \/ FinishUpdates(u) \/ FinishFails(u)
         \/ Cleanup
  PROVE  Advance
<1>1. Counted' = Counted /\ Cardinality(Counted) \in Nat
  BY CountedFinite DEF Counted
<1>2. SocketPart'
  BY SocketsKept DEF LearningInv
<1>3. /\ rows \in [Sockets -> {"none", "fresh", "stale", "closed"}] /\ usage \in [UIDs -> BOOLEAN]
      /\ finishing \in [UIDs -> {"none", "count", "update"}]
      /\ tracker \in [active : Nat, pending : UIDs \cup {NoUID}]
      /\ tracker.active <= Cardinality(Counted)
  BY DEF LearningInv, UsagePart
<1>4. CASE \E s \in Sockets : TouchTerminalConnection(s) \/ HeartbeatAges(s) \/ HeartbeatsLost(s)
  <2>1. PICK s \in Sockets : TouchTerminalConnection(s) \/ HeartbeatAges(s) \/ HeartbeatsLost(s)
    BY <1>4
  <2>2. UsagePart'
    BY <1>1, <1>3, <2>1 DEF UsagePart, TouchTerminalConnection, HeartbeatAges, HeartbeatsLost
  <2> QED
    BY <1>2, <2>1, <2>2, TerminalAdvances DEF TouchTerminalConnection, HeartbeatAges, HeartbeatsLost
<1>5. CASE TrackerSettles
  <2>1. tracker.pending \in UIDs
    BY <1>3, <1>5 DEF TrackerSettles
  <2>2. finishing' \in [UIDs -> {"none", "count", "update"}]
    BY <1>3, <1>5, <2>1 DEF TrackerSettles
  <2>3. tracker' = [active |-> 0, pending |-> NoUID] /\ UNCHANGED <<rows, usage>>
    BY <1>5 DEF TrackerSettles, Idle
  <2>4. tracker' \in [active : Nat, pending : UIDs \cup {NoUID}] /\ tracker'.active = 0
    BY <2>3
  <2>5. UsagePart'
    BY <1>1, <1>3, <2>2, <2>3, <2>4 DEF UsagePart
  <2> QED
    BY <1>2, <1>5, <2>5, TerminalAdvances DEF TrackerSettles
<1>6. CASE \E u \in UIDs : FinishCounts(u) \/ FinishUpdates(u) \/ FinishFails(u)
  <2>1. PICK u \in UIDs : FinishCounts(u) \/ FinishUpdates(u) \/ FinishFails(u)
    BY <1>6
  <2>2. UsagePart'
    BY <1>1, <1>3, <2>1 DEF UsagePart, FinishCounts, FinishUpdates, FinishFails
  <2> QED
    BY <1>2, <2>1, <2>2, TerminalAdvances DEF FinishCounts, FinishUpdates, FinishFails
<1>7. CASE Cleanup
  <2>1. UsagePart'
    BY <1>1, <1>3, <1>7 DEF UsagePart, Cleanup, CleanupTerminalActivity
  <2> QED
    BY <1>2, <1>7, <2>1, TerminalAdvances DEF Cleanup
<1> QED
  BY <1>4, <1>5, <1>6, <1>7

-----------------------------------------------------------------------------
(* The Server stops and starts.                                            *)

LEMMA CrashStep ==
  ASSUME LearningInv, Crash
  PROVE  Advance
<1>1. ServicePart'
  BY FaultCounted DEF LearningInv, Crash, ServicePart
<1>2. EnvironmentPart' /\ Meant /\ LedgerPart' /\ OutcomesKept /\ PassPart'
  BY EnvironmentKept, LedgerKept, PassEnded DEF LearningInv, Crash
<1>3. RequestPart'
  BY DEF Crash, RequestPart, NoRequest, Request
<1>4. sock \in [Sockets -> Socket]
  BY DEF LearningInv, SocketPart
<1>5. ASSUME NEW s \in Sockets
      PROVE  /\ sock'[s] \in Socket /\ sock'[s].pc \in {"none", "closed"}
             /\ sock'[s].uid = sock[s].uid /\ sock'[s].ticket = sock[s].ticket
             /\ sock'[s].pc # "none" => sock[s].pc # "none"
  <2>1. sock[s] \in Socket
    BY <1>4
  <2>2. sock'[s] = IF sock[s].pc = "none" THEN sock[s] ELSE [sock[s] EXCEPT !.pc = "closed"]
    BY DEF Crash
  <2> QED
    BY <2>1, <2>2 DEF Socket
<1>6. sock' \in [Sockets -> Socket]
  BY <1>5 DEF Crash
<1>7. SocketPart'
  BY <1>5, <1>6 DEF Crash, LearningInv, SocketPart, Spent
<1>8. tracker' = [active |-> 0, pending |-> NoUID] /\ UNCHANGED <<rows, usage>>
  BY DEF Crash, Idle
<1>9. Cardinality(Counted') \in Nat
  <2>1. Counted' = {}
    BY <1>5 DEF Counted
  <2> QED
    BY <2>1, FS_EmptySet
<1>10. tracker' \in [active : Nat, pending : UIDs \cup {NoUID}] /\ tracker'.active <= Cardinality(Counted')
  BY <1>8, <1>9
<1>11. finishing' \in [UIDs -> {"none", "count", "update"}]
  BY DEF Crash
<1>12. UsagePart'
  BY <1>8, <1>10, <1>11 DEF LearningInv, UsagePart
<1> QED
  BY <1>1, <1>2, <1>3, <1>7, <1>12 DEF Advance, LearningInv

LEMMA RestartStep ==
  ASSUME LearningInv, Restart
  PROVE  Advance
<1>1. ServicePart'
  BY ServerMoves DEF LearningInv, Restart
<1>2. EnvironmentPart' /\ Meant /\ LedgerPart' /\ OutcomesKept /\ PassPart' /\ RequestPart' /\ SocketPart'
  BY EnvironmentKept, LedgerKept, PassKept, RequestsKept, SocketsKept DEF LearningInv, Restart, learningVars
<1>3. Counted' = Counted
  BY DEF Counted, Restart
<1>4. UsagePart'
  BY <1>3 DEF LearningInv, UsagePart, Restart, CleanupTerminalActivity
<1> QED
  BY <1>1, <1>2, <1>4 DEF Advance, LearningInv

-----------------------------------------------------------------------------
LEMMA Initially == Init => LearningInv
<1> SUFFICES ASSUME Init PROVE LearningInv
  OBVIOUS
<1>1. load \in Workloads
  BY DEF Init
<1>2. load.requests \in Nat /\ load.faults \in Nat
  <2>1. load \in [kind : {"scenario", "playground"}, callers : SUBSET Callers,
                  sockets : SUBSET Sockets, tasks : SUBSET (1 .. CheckpointCount),
                  requests : Nat, faults : Nat]
    BY <1>1, LearningAssumption
  <2> QED
    BY <2>1
<1>3. ServicePart
  BY <1>1, <1>2 DEF Init, ServicePart
<1>4. EnvironmentPart
  <2>1. CASE env = [u \in UIDs |-> Unborn]
    <3>1. env \in [UIDs -> Object] /\ \A u \in UIDs : env[u].phase = "unborn"
      BY <2>1 DEF Unborn, Object, Phases
    <3> QED
      BY <3>1 DEF EnvironmentPart, OneNamed, Named, Exists
  <2>2. CASE env = Started
    <3>1. PICK first : first = CHOOSE u \in UIDs : TRUE
      OBVIOUS
    <3>2. env = [u \in UIDs |-> IF u = first THEN [Unborn EXCEPT !.phase = "Pending"] ELSE Unborn]
      BY <2>2, <3>1 DEF Started
    <3>3. env \in [UIDs -> Object] /\ \A u \in UIDs : u # first => env[u].phase = "unborn"
      BY <3>2 DEF Unborn, Object, Phases
    <3>4. \A u \in Named : u = first
      BY <3>3 DEF Named, Exists
    <3> QED
      BY <3>3, <3>4 DEF EnvironmentPart, OneNamed
  <2> QED
    BY <2>1, <2>2 DEF Init
<1>5. LedgerPart
  BY DEF Init, LedgerPart, CompletionIsEarned
<1>6. PassPart
  BY DEF Init, PassPart, NoPass, Pass, Phases
<1>7. RequestPart
  BY DEF Init, RequestPart, NoRequest, Request
<1>8. SocketPart
  BY DEF Init, SocketPart, NoSocket, Socket, Ticket
<1>9. UsagePart
  <2>1. tracker = [active |-> 0, pending |-> NoUID] /\ tracker.active = 0
    BY DEF Init, Idle
  <2>2. tracker.active <= Cardinality(Counted)
    BY <2>1, CountedFinite
  <2> QED
    BY <2>1, <2>2 DEF Init, UsagePart
<1> QED
  BY <1>3, <1>4, <1>5, <1>6, <1>7, <1>8, <1>9 DEF LearningInv

LEMMA Stutter ==
  ASSUME LearningInv, UNCHANGED vars
  PROVE  Advance
BY ServiceKept, EnvironmentKept, LedgerKept, PassKept, RequestsKept, TerminalsKept
   DEF vars, LearningInv, learningVars, terminalVars, Advance

LEMMA EveryStep ==
  ASSUME LearningInv, [Next]_vars
  PROVE  Advance
<1>1. ASSUME NEW u \in UIDs, Reconcile(u) \/ \E k \in Checkpoints : Work(u, k)
      PROVE  Advance
  <2>1. EnvironmentPart' /\ Meant
    BY <1>1, ControllerStep, WorkStep DEF Reconcile, LearningInv
  <2>2. UNCHANGED <<load, server, pass, learningVars, req, terminalVars, asked, faults>>
    BY <1>1 DEF Reconcile, Work
  <2>3. ServicePart' /\ LedgerPart' /\ OutcomesKept /\ PassPart' /\ RequestPart' /\ SocketPart' /\ UsagePart'
    BY <2>2, ServiceKept, LedgerKept, PassKept, RequestsKept, TerminalsKept
       DEF LearningInv, learningVars
  <2> QED
    BY <2>1, <2>3 DEF Advance, LearningInv
<1>2. CASE Projector \/ PassFails
  BY <1>2, ListStep, EvaluateStep, EvaluationFailsStep, AttemptStep, FirstPassStep, CompletionStep,
     EndStep, DeleteStep, PassFailsStep DEF Projector
<1>3. ASSUME NEW c \in Callers,
             \/ \E op \in {"start", "reset", "stop"} : Ask(c, op)
             \/ FindForStart(c) \/ FindForReset(c) \/ FindForStop(c) \/ requestReset(c)
             \/ StartPlayground(c) \/ ResetPlayground(c) \/ StopPlayground(c)
             \/ createEnvironment(c) \/ AdoptExisting(c) \/ destroyEnvironment(c)
             \/ waitEnvironmentDeleted(c) \/ waitEnvironmentReady(c) \/ cleanupFailedEnvironment(c)
             \/ RecordStopped(c) \/ finishEnvironmentAttempt(c) \/ RequestFails(c)
      PROVE  Advance
  BY <1>3, AskStep, FindStep, ResetStep, CreateStep, WaitStep, DestroyStep, CleanupFailedStep,
     StopStep, RequestFailsStep
<1>4. ASSUME NEW t \in Tickets, CreateTerminalTicket(t) \/ \E s \in Sockets : ClaimTerminalTicket(s, t)
      PROVE  Advance
  BY <1>4, CreateTicketStep, ClaimTicketStep
<1>5. ASSUME NEW s \in Sockets,
             \/ OpenTerminalConnection(s) \/ TrackerOpen(s) \/ TouchTerminalConnection(s)
             \/ HeartbeatAges(s) \/ HeartbeatsLost(s) \/ CloseTerminalConnection(s) \/ TrackerClose(s)
      PROVE  Advance
  <2>1. CASE TouchTerminalConnection(s) \/ HeartbeatAges(s) \/ HeartbeatsLost(s)
    <3>1. UNCHANGED <<tickets, sock>>
      BY <2>1 DEF TouchTerminalConnection, HeartbeatAges, HeartbeatsLost
    <3> QED
      BY <2>1, <3>1, UsageStep
  <2> QED
    BY <1>5, <2>1, OpenConnectionStep, TrackerOpenStep, CloseConnectionStep, TrackerCloseStep
<1>6. CASE TrackerSettles \/ (\E u \in UIDs : FinishCounts(u) \/ FinishUpdates(u) \/ FinishFails(u)) \/ Cleanup
  <2>1. UNCHANGED <<tickets, sock>>
    BY <1>6 DEF TrackerSettles, FinishCounts, FinishUpdates, FinishFails, Cleanup
  <2> QED
    BY <1>6, <2>1, UsageStep
<1> QED
  BY <1>1, <1>2, <1>3, <1>4, <1>5, <1>6, CrashStep, RestartStep, Stutter DEF Next

LEMMA Promised == LearningInv => LearningInvariant
<1> SUFFICES ASSUME LearningInv PROVE LearningInvariant
  OBVIOUS
<1>1. Cardinality(Named) <= 1
  <2>1. CASE Named = {}
    BY <2>1, FS_EmptySet
  <2>2. CASE Named # {}
    <3>1. PICK u \in Named : Named = {u}
      BY <2>2 DEF LearningInv, EnvironmentPart, OneNamed
    <3>2. Cardinality({u}) = 1
      BY FS_Singleton
    <3> QED
      BY <3>1, <3>2
  <2> QED
    BY <2>1, <2>2
<1>2. tracker \in [active : 0 .. Cardinality(Sockets), pending : UIDs \cup {NoUID}]
  <2>1. tracker \in [active : Nat, pending : UIDs \cup {NoUID}] /\ tracker.active <= Cardinality(Counted)
    BY DEF LearningInv, UsagePart
  <2>2. Cardinality(Sockets) \in Nat
    BY LearningAssumption, FS_CardinalityType
  <2>3. tracker.active \in 0 .. Cardinality(Sockets)
    BY <2>1, <2>2, CountedFinite
  <2> QED
    BY <2>1, <2>3
<1>3. LearningTypeOK
  BY <1>1, <1>2 DEF LearningInv, LearningTypeOK, ServicePart, EnvironmentPart, LedgerPart, PassPart,
     RequestPart, SocketPart, UsagePart, Ended
<1>4. TicketsAreSpentOnce
  BY DEF LearningInv, SocketPart, Spent, TicketsAreSpentOnce
<1> QED
  BY <1>3, <1>4 DEF LearningInv, LedgerPart, LearningInvariant

LEMMA Always == Spec => []LearningInv
<1>1. LearningInv /\ [Next]_vars => LearningInv'
  BY EveryStep DEF Advance
<1> QED
  BY <1>1, Initially, PTL DEF Spec

(* A completion was earned in one environment, and a terminal is attached  *)
(* to the environment its ticket was minted for: whatever pass, request or *)
(* restart comes between (RecordScenarioCompletion, ClaimTerminalTicket).  *)
THEOREM WorkIsEarned == Spec => []LearningInvariant
<1> QED
  BY Always, Promised, PTL

(* No pass that works from an old listing, no stop and no later completion *)
(* rewrites an attempt that has ended (FinishScenarioAttempt,              *)
(* RecordScenarioCompletion).                                              *)
THEOREM OutcomesStand == Spec => OutcomesAreFinal
<1>1. LearningInv /\ [Next]_vars =>
        [\A u \in UIDs : attempts[u] \in {"completed", "stopped", "expired"}
                           => attempts'[u] = attempts[u]]_vars
  BY EveryStep DEF Advance, OutcomesKept, Ended
<1> QED
  BY <1>1, Always, PTL DEF Spec, OutcomesAreFinal

(* Under a name that is used again, only who meant an environment deletes  *)
(* it (deleteCRDWithUID), with the one exception the property names.       *)
THEOREM DeletionsAreMeant == Spec => DeletedWasMeant
<1>1. LearningInv /\ [Next]_vars =>
        [\A u \in UIDs :
           ~env[u].deleting /\ env'[u].deleting =>
             \/ env[u].phase = "Released" \/ pass.uid = u
             \/ \E c \in Callers : req[c].uid = u \/ req[c].pc = "cleanup"]_vars
  BY EveryStep DEF Advance, Meant
<1> QED
  BY <1>1, Always, PTL DEF Spec, DeletedWasMeant

=============================================================================
