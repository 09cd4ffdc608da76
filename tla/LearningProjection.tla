------------------------- MODULE LearningProjection -------------------------
(***************************************************************************)
(* What the Server keeps of a user's work in one environment name.  HTTP   *)
(* requests start, reset and stop the environment; the projector turns its *)
(* status and its checkpoints into attempts, first passes and progress,    *)
(* and removes the object at the end; terminals claim a ticket, attach and *)
(* are counted as usage until they hang up.                                *)
(*                                                                         *)
(* The name is fixed by the user and the content, so that successive       *)
(* environments share it and only their UIDs tell them apart.  A scenario  *)
(* is projected; the playground, which has no content, is not.  What the   *)
(* Controller does to the object is external here (RuntimeEnvironment).    *)
(***************************************************************************)
EXTENDS Naturals, FiniteSets

CONSTANTS
  UIDs, NoUID,     \* bound: the environments created under the name
  Callers,         \* requests handled at once
  Sockets, Tickets,
  CheckpointCount, \* assertions of the scenario's final observation, in order
  Workloads        \* kind of the content; the callers, the terminals and the tasks in use;
                   \* bounds: start, reset and stop requests;
                   \* crashes, failing calls and lost heartbeats

ASSUME LearningAssumption ==
  /\ NoUID \notin UIDs /\ IsFiniteSet(Sockets) /\ CheckpointCount \in Nat \ {0}
  /\ Workloads \subseteq [kind : {"scenario", "playground"}, callers : SUBSET Callers,
                          sockets : SUBSET Sockets, tasks : SUBSET (1 .. CheckpointCount),
                          requests : Nat, faults : Nat]

VARIABLES
  load,       \* this behaviour's workload
  server,     \* "down", "recovering" (background services only) or "up"
  env,        \* RuntimeEnvironment objects, and what their machines would answer
  pass,       \* the projector's pass
  attempts,   \* user_scenario_attempts: outcome by UID
  firsts,     \* checkpoint_pass_events: checkpoints by UID
  progress,   \* user_scenario_progress: the UID of the first completion
  req,        \* requests under way
  tickets, sock,
  rows,       \* terminal_connections: one for each terminal
  usage,      \* environment_usage_sessions: whether one is open, by UID
  tracker,    \* terminalConnectionTracker's entry for the name
  finishing,  \* FinishTerminalUsageSession calls under way, by UID
  asked, faults

vars == <<load, server, env, pass, attempts, firsts, progress, req, tickets, sock, rows, usage,
          tracker, finishing, asked, faults>>
learningVars == <<attempts, firsts, progress>>
terminalVars == <<tickets, sock, rows, usage, tracker, finishing>>

Checkpoints == 1 .. CheckpointCount
FirstOf(todo) == CHOOSE k \in todo : \A j \in todo : k <= j

Phases == {"unborn", "Pending", "Ready", "Draining", "Released", "Failed", "gone"}
Object == [phase : Phases, deleting : BOOLEAN, reset : {"none", "asked", "wiping"},
           passing : SUBSET Checkpoints]
Unborn == [phase |-> "unborn", deleting |-> FALSE, reset |-> "none", passing |-> {}]

Pass == [pc : {"idle", "evaluate", "attempt", "passes", "complete", "finish", "delete"},
         uid : UIDs \cup {NoUID}, phase : Phases, todo : SUBSET Checkpoints,
         seen : SUBSET Checkpoints, evaluated : BOOLEAN]
NoPass == [pc |-> "idle", uid |-> NoUID, phase |-> "unborn", todo |-> {}, seen |-> {},
           evaluated |-> FALSE]

Request == [pc : {"idle", "find", "create", "get", "clear", "cleared", "wait", "cleanup",
                  "record", "finish", "destroy", "destroyed", "reset"},
            op : {"none", "start", "reset", "stop"}, uid : UIDs \cup {NoUID}, made : BOOLEAN]
NoRequest == [pc |-> "idle", op |-> "none", uid |-> NoUID, made |-> FALSE]

Ticket == [uid : UIDs \cup {NoUID}, used : BOOLEAN]
Socket == [pc : {"none", "claimed", "opened", "live", "closing", "closed"},
           uid : UIDs \cup {NoUID}, ticket : Tickets \cup {NoUID}]
NoSocket == [pc |-> "none", uid |-> NoUID, ticket |-> NoUID]
Idle == [active |-> 0, pending |-> NoUID]

(* A start request may lie behind.                                         *)
Started == LET first == CHOOSE u \in UIDs : TRUE
           IN  [u \in UIDs |-> IF u = first THEN [Unborn EXCEPT !.phase = "Pending"] ELSE Unborn]

Init ==
  /\ load \in Workloads
  /\ server = "up"
  /\ env = [u \in UIDs |-> Unborn] \/ env = Started
  /\ pass = NoPass
  /\ attempts = [u \in UIDs |-> "none"]
  /\ firsts = [u \in UIDs |-> {}]
  /\ progress = NoUID
  /\ req = [c \in Callers |-> NoRequest]
  /\ tickets = [t \in Tickets |-> [uid |-> NoUID, used |-> FALSE]]
  /\ sock = [s \in Sockets |-> NoSocket]
  /\ rows = [s \in Sockets |-> "none"]
  /\ usage = [u \in UIDs |-> FALSE]
  /\ tracker = Idle
  /\ finishing = [u \in UIDs |-> "none"]
  /\ asked = 0 /\ faults = 0

-----------------------------------------------------------------------------
(* The object under the name.                                              *)

Scenario == load.kind = "scenario"
Exists(u) == env[u].phase \notin {"unborn", "gone"}
Named == {u \in UIDs : Exists(u)}
isLiveEnvironmentPhase(u) == env[u].phase \in {"Pending", "Ready", "Draining"}
Listed == {u \in Named : ~env[u].deleting}

(* A delete that names the UID is refused for any other object.            *)
DeleteWithUID(u) ==
  env' = IF Exists(u) THEN [env EXCEPT ![u].deleting = TRUE] ELSE env

(* The Controller and the learner.  Released is followed by the            *)
(* Controller's own delete.  A renewal delays draining; that one which     *)
(* races the expiry can also undo it (`regressed` in RuntimeEnvironment)   *)
(* is left out here.                                                       *)
Controller(u) ==
  \/ /\ env[u].phase = "Pending" /\ ~env[u].deleting
     /\ env' = [env EXCEPT ![u].phase = "Ready"]
  \/ /\ env[u].phase \in {"Pending", "Ready"} /\ ~env[u].deleting
     /\ env' = [env EXCEPT ![u].phase = "Failed", ![u].passing = {}]
  \/ /\ env[u].phase \in {"Pending", "Ready", "Failed"} /\ ~env[u].deleting
     /\ env' = [env EXCEPT ![u].phase = "Draining", ![u].reset = "none"]
  \/ /\ env[u].phase = "Draining" /\ ~env[u].deleting
     /\ env' = [env EXCEPT ![u].phase = "Released", ![u].passing = {}]
  \/ /\ env[u].phase = "Released" /\ ~env[u].deleting
     /\ DeleteWithUID(u)
  \/ /\ env[u].phase = "Ready" /\ env[u].reset = "asked" /\ ~env[u].deleting
     /\ env' = [env EXCEPT ![u].reset = "wiping", ![u].passing = {}]
  \/ /\ env[u].phase = "Ready" /\ env[u].reset = "wiping" /\ ~env[u].deleting
     /\ env' = [env EXCEPT ![u].reset = "none"]
  \/ /\ Exists(u) /\ env[u].deleting
     /\ env' = [env EXCEPT ![u] = [Unborn EXCEPT !.phase = "gone"]]

Reconcile(u) ==
  /\ Controller(u)
  /\ UNCHANGED <<load, server, pass, learningVars, req, terminalVars, asked, faults>>

(* The learner solves a task, or breaks one solved before.                 *)
Work(u, k) ==
  /\ env[u].phase = "Ready" /\ env[u].reset # "wiping" /\ k \in load.tasks
  /\ env' = [env EXCEPT ![u].passing = IF k \in @ THEN @ \ {k} ELSE @ \cup {k}]
  /\ UNCHANGED <<load, server, pass, learningVars, req, terminalVars, asked, faults>>

-----------------------------------------------------------------------------
(* The projector: a pass lists the objects, runs the assertions of one     *)
(* that is Ready, and records what it saw.                                 *)

PassEnds ==
  /\ pass' = NoPass
  /\ server' = IF server = "recovering" THEN "up" ELSE server

ListEnvironmentProjections ==
  /\ pass.pc = "idle" /\ server # "down"
  /\ server = "recovering" \/ (Scenario /\ Named # {})
  /\ \/ /\ Scenario
        /\ \E u \in Named :
             pass' = [NoPass EXCEPT !.pc = IF env[u].phase = "Ready" THEN "evaluate"
                                           ELSE "attempt",
                        !.uid = u, !.phase = env[u].phase,
                        !.todo = IF env[u].phase = "Ready" THEN Checkpoints ELSE {}]
        /\ UNCHANGED server
     \/ /\ ~Scenario \/ Named = {}
        /\ PassEnds
  /\ UNCHANGED <<load, env, learningVars, req, terminalVars, asked, faults>>

(* The assertions run one after the other, each on the machines as they    *)
(* are then.                                                               *)
EvaluateLearningCheckpoints ==
  /\ pass.pc = "evaluate"
  /\ env[pass.uid].phase \in {"Ready", "Draining"} /\ env[pass.uid].reset # "wiping"
  /\ pass' = [pass EXCEPT !.todo = @ \ {FirstOf(@)},
                !.seen = @ \cup ({FirstOf(pass.todo)} \cap env[pass.uid].passing),
                !.evaluated = TRUE,
                !.pc = IF Cardinality(pass.todo) = 1 THEN "attempt" ELSE @]
  /\ UNCHANGED <<load, server, env, learningVars, req, terminalVars, asked, faults>>

(* ... and the first that cannot run ends the pass.                        *)
EvaluationFails ==
  /\ pass.pc = "evaluate"
  /\ env[pass.uid].phase \notin {"Ready", "Draining"} \/ env[pass.uid].reset = "wiping"
  /\ pass' = NoPass
  /\ server' = IF server = "recovering" THEN "down" ELSE server
  /\ UNCHANGED <<load, env, learningVars, req, terminalVars, asked, faults>>

RecordedAttempt(u) == IF attempts[u] = "none" THEN [attempts EXCEPT ![u] = "active"] ELSE attempts

ProjectAttempt ==
  /\ pass.pc = "attempt"
  /\ attempts' = IF pass.phase \in {"Ready", "Draining", "Released"}
                 THEN RecordedAttempt(pass.uid) ELSE attempts
  /\ pass' = [pass EXCEPT !.pc = "passes", !.todo = pass.seen]
  /\ UNCHANGED <<load, server, env, firsts, progress, req, terminalVars, asked, faults>>

RecordCheckpointFirstPass ==
  /\ pass.pc = "passes"
  /\ IF pass.todo = {} THEN pass' = [pass EXCEPT !.pc = "complete"] /\ UNCHANGED firsts
     ELSE /\ firsts' = [firsts EXCEPT ![pass.uid] = @ \cup {FirstOf(pass.todo)}]
          /\ pass' = [pass EXCEPT !.todo = @ \ {FirstOf(@)}]
  /\ UNCHANGED <<load, server, env, attempts, progress, req, terminalVars, asked, faults>>

(* Seeded fault: only what this pass saw counts.                           *)
PassedInThisPass == pass.seen

passedCheckpoints == IF pass.evaluated THEN pass.seen \cup firsts[pass.uid] ELSE {}

(* Seeded fault: no checkpoints, nothing missing.                          *)
NoneMissing == (IF pass.evaluated THEN Checkpoints ELSE {}) \subseteq passedCheckpoints

allCheckpointsPassed == pass.evaluated /\ Checkpoints \subseteq passedCheckpoints

RecordScenarioCompletion ==
  IF allCheckpointsPassed
  THEN /\ progress' = IF progress = NoUID THEN pass.uid ELSE progress
       /\ attempts' = IF attempts[pass.uid] \in {"none", "active"}
                      THEN [attempts EXCEPT ![pass.uid] = "completed"] ELSE attempts
  ELSE UNCHANGED <<progress, attempts>>

ProjectCompletion ==
  /\ pass.pc = "complete"
  /\ RecordScenarioCompletion
  /\ IF pass.phase \in {"Released", "Failed"}
     THEN pass' = [pass EXCEPT !.pc = "finish"] /\ UNCHANGED server
     ELSE PassEnds
  /\ UNCHANGED <<load, env, firsts, req, terminalVars, asked, faults>>

(* Seeded fault: the end of the environment is what the attempt records.   *)
LastOutcome(u, outcome) == [attempts EXCEPT ![u] = outcome]

FinishScenarioAttempt(u, outcome) ==
  IF attempts[u] = "active" THEN [attempts EXCEPT ![u] = outcome] ELSE attempts

ProjectEnd ==
  /\ pass.pc = "finish"
  /\ attempts' = IF pass.phase = "Released"
                 THEN FinishScenarioAttempt(pass.uid, "expired") ELSE attempts
  /\ pass' = [pass EXCEPT !.pc = "delete"]
  /\ UNCHANGED <<load, server, env, firsts, progress, req, terminalVars, asked, faults>>

DeleteEnvironmentProjection ==
  /\ pass.pc = "delete"
  /\ DeleteWithUID(pass.uid)
  /\ PassEnds
  /\ UNCHANGED <<load, learningVars, req, terminalVars, asked, faults>>

PassFails ==
  /\ pass.pc # "idle" /\ faults < load.faults
  /\ pass' = NoPass
  /\ server' = IF server = "recovering" THEN "down" ELSE server
  /\ faults' = faults + 1
  /\ UNCHANGED <<load, env, learningVars, req, terminalVars, asked>>

-----------------------------------------------------------------------------
(* Start, reset and stop.                                                  *)

Answer(c) == req' = [req EXCEPT ![c] = NoRequest]
Goto(c, pc) == req' = [req EXCEPT ![c].pc = pc]
Take(c, pc, u) == req' = [req EXCEPT ![c].pc = pc, ![c].uid = u]
apiVars == <<load, server, pass, firsts, progress, terminalVars, asked, faults>>

Ask(c, op) ==
  /\ server = "up" /\ asked < load.requests
  /\ \E d \in load.callers : req[d].pc = "idle"
  /\ c = CHOOSE d \in load.callers : req[d].pc = "idle"
  /\ req' = [req EXCEPT ![c] = [NoRequest EXCEPT !.pc = "find", !.op = op]]
  /\ asked' = asked + 1
  /\ UNCHANGED <<load, server, env, pass, learningVars, terminalVars, faults>>

(* Reset and stop of a scenario also find a Released environment.  The     *)
(* label search does not see one before the Controller has set its         *)
(* provider; the search by name does, and so does the one over every       *)
(* environment of the user, which stop falls back to.                      *)
Found(c) ==
  {u \in Listed : \/ isLiveEnvironmentPhase(u)
                  \/ Scenario /\ req[c].op # "start" /\ env[u].phase = "Released"}
Unlabelled(c) == \A u \in Found(c) : env[u].phase = "Pending"

FindForStart(c) ==
  /\ Scenario /\ req[c].pc = "find" /\ req[c].op = "start"
  /\ \/ Unlabelled(c) /\ Goto(c, "create")
     \/ \E u \in Found(c) : IF env[u].phase = "Ready" THEN Answer(c) ELSE Take(c, "wait", u)
  /\ UNCHANGED <<env, attempts, apiVars>>

FindForReset(c) ==
  /\ Scenario /\ req[c].pc = "find" /\ req[c].op = "reset"
  /\ \/ Unlabelled(c) /\ Goto(c, "create")
     \/ \E u \in Found(c) : Take(c, "reset", u)
  /\ UNCHANGED <<env, attempts, apiVars>>

FindForStop(c) ==
  /\ Scenario /\ req[c].pc = "find" /\ req[c].op = "stop"
  /\ \/ Found(c) = {} /\ Answer(c)
     \/ \E u \in Found(c) : Take(c, "record", u)
  /\ UNCHANGED <<env, attempts, apiVars>>

(* The playground's answer does not wait for readiness; one that drains    *)
(* makes room first, and a new one may meet the capacity of the site.      *)
StartPlayground(c) ==
  /\ ~Scenario /\ req[c].pc = "find" /\ req[c].op = "start"
  /\ \/ Found(c) = {} /\ (Goto(c, "create") \/ Answer(c))
     \/ \E u \in Found(c) : IF env[u].phase = "Draining" THEN Take(c, "clear", u) ELSE Answer(c)
  /\ UNCHANGED <<env, attempts, apiVars>>

ResetPlayground(c) ==
  /\ ~Scenario /\ req[c].pc = "find" /\ req[c].op = "reset"
  /\ \/ Found(c) = {} /\ Answer(c)
     \/ \E u \in Found(c) : IF env[u].phase = "Ready" /\ env[u].reset # "wiping"
                            THEN Take(c, "reset", u) ELSE Answer(c)
  /\ UNCHANGED <<env, attempts, apiVars>>

StopPlayground(c) ==
  /\ ~Scenario /\ req[c].pc = "find" /\ req[c].op = "stop"
  /\ \/ Found(c) = {} /\ Answer(c)
     \/ \E u \in Found(c) : Take(c, "destroy", u)
  /\ UNCHANGED <<env, attempts, apiVars>>

requestReset(c) ==
  /\ req[c].pc = "reset"
  /\ env' = IF req[c].uid \in Listed THEN [env EXCEPT ![req[c].uid].reset = "asked"] ELSE env
  /\ Answer(c)
  /\ UNCHANGED <<attempts, apiVars>>

NextUID == CHOOSE u \in UIDs : env[u].phase = "unborn"

createEnvironment(c) ==
  /\ req[c].pc = "create"
  /\ IF Named = {}
     THEN /\ \E u \in UIDs : env[u].phase = "unborn"
          /\ env' = [env EXCEPT ![NextUID].phase = "Pending"]
          /\ IF Scenario
             THEN req' = [req EXCEPT ![c].pc = "wait", ![c].uid = NextUID, ![c].made = TRUE]
             ELSE Answer(c)
     ELSE Goto(c, "get") /\ UNCHANGED env
  /\ UNCHANGED <<attempts, apiVars>>

(* The name is taken: remains are cleared, an environment in use is        *)
(* adopted.                                                                *)
Cleared(u) ==
  env[u].deleting \/ (IF Scenario THEN ~isLiveEnvironmentPhase(u)
                      ELSE env[u].phase = "Failed")

AdoptExisting(c) ==
  /\ req[c].pc = "get"
  /\ \/ Named = {} /\ Goto(c, "create")
     \/ \E u \in Named :
          IF Cleared(u) THEN Take(c, "clear", u)
          ELSE IF Scenario THEN Take(c, "wait", u) ELSE Answer(c)
  /\ UNCHANGED <<env, attempts, apiVars>>

(* Seeded fault: whatever has the name is deleted.                         *)
DestroyByName(c) ==
  /\ req[c].pc \in {"clear", "destroy"}
  /\ env' = [u \in UIDs |-> IF Exists(u) THEN [env[u] EXCEPT !.deleting = TRUE] ELSE env[u]]
  /\ Goto(c, IF req[c].pc = "clear" THEN "cleared" ELSE "destroyed")
  /\ UNCHANGED <<attempts, apiVars>>

(* A name that is free is as good as deleted; one taken again is refused.  *)
destroyEnvironment(c) ==
  /\ req[c].pc \in {"clear", "destroy"}
  /\ DeleteWithUID(req[c].uid)
  /\ IF Exists(req[c].uid) \/ Named = {}
     THEN Goto(c, IF req[c].pc = "clear" THEN "cleared" ELSE "destroyed") ELSE Answer(c)
  /\ UNCHANGED <<attempts, apiVars>>

(* The wait is for the name: with a new environment under it, it times     *)
(* out.                                                                    *)
waitEnvironmentDeleted(c) ==
  /\ req[c].pc \in {"cleared", "destroyed"}
  /\ \/ Named = {} /\ req[c].pc = "cleared" /\ Goto(c, "create")
     \/ Named = {} /\ req[c].pc = "cleared" /\ ~Scenario /\ Answer(c)
     \/ /\ Named # {} \/ req[c].pc = "destroyed"
        /\ Answer(c)
  /\ UNCHANGED <<env, attempts, apiVars>>

(* The wait for readiness reads the name again, whoever created it; the    *)
(* creator whose wait fails, or times out, removes what has the name.      *)
waitEnvironmentReady(c) ==
  /\ req[c].pc = "wait"
  /\ \/ /\ \E u \in Listed : env[u].phase = "Ready"
        /\ Answer(c)
     \/ IF req[c].made THEN Goto(c, "cleanup") ELSE Answer(c)
  /\ UNCHANGED <<env, attempts, apiVars>>

cleanupFailedEnvironment(c) ==
  /\ req[c].pc = "cleanup"
  /\ env' = [u \in UIDs |-> IF Exists(u) THEN [env[u] EXCEPT !.deleting = TRUE] ELSE env[u]]
  /\ Answer(c)
  /\ UNCHANGED <<attempts, apiVars>>

(* Stopping records the attempt, also one the projector has not seen.      *)
RecordStopped(c) ==
  /\ req[c].pc = "record"
  /\ attempts' = RecordedAttempt(req[c].uid)
  /\ Goto(c, "finish")
  /\ UNCHANGED <<env, apiVars>>

finishEnvironmentAttempt(c) ==
  /\ req[c].pc = "finish"
  /\ attempts' = FinishScenarioAttempt(req[c].uid, "stopped")
  /\ Goto(c, "destroy")
  /\ UNCHANGED <<env, apiVars>>

RequestFails(c) ==
  /\ req[c].pc \notin {"idle", "wait"} /\ faults < load.faults
  /\ Answer(c)
  /\ faults' = faults + 1
  /\ UNCHANGED <<load, server, env, pass, learningVars, terminalVars, asked>>

-----------------------------------------------------------------------------
(* Terminals.                                                              *)

socketVars == <<load, server, env, pass, learningVars, req, asked>>

CreateTerminalTicket(t) ==
  /\ server = "up" /\ load.sockets # {} /\ \E x \in Tickets : tickets[x].uid = NoUID
  /\ t = CHOOSE x \in Tickets : tickets[x].uid = NoUID
  /\ \E u \in Listed : /\ isLiveEnvironmentPhase(u)
                        /\ tickets' = [tickets EXCEPT ![t].uid = u]
  /\ UNCHANGED <<socketVars, sock, rows, usage, tracker, finishing, faults>>

Unused == {s \in load.sockets : sock[s].pc = "none"}

ClaimTerminalTicket(s, t) ==
  /\ server = "up" /\ Unused # {} /\ s = CHOOSE r \in Unused : TRUE
  /\ tickets[t].uid # NoUID /\ ~tickets[t].used
  /\ tickets' = [tickets EXCEPT ![t].used = TRUE]
  /\ sock' = [sock EXCEPT ![s] = [pc |-> "claimed", uid |-> tickets[t].uid, ticket |-> t]]
  /\ UNCHANGED <<socketVars, rows, usage, tracker, finishing, faults>>

findActiveEnvironmentByUID(u) == {v \in Listed : v = u /\ isLiveEnvironmentPhase(v)}

(* One transaction: the connection's row, and a usage session unless the   *)
(* environment has an open one.                                            *)
OpenTerminalConnection(s) ==
  /\ sock[s].pc = "claimed"
  /\ \/ \E u \in findActiveEnvironmentByUID(sock[s].uid) :
          /\ sock' = [sock EXCEPT ![s].pc = "opened", ![s].uid = u]
          /\ rows' = [rows EXCEPT ![s] = "fresh"]
          /\ usage' = [usage EXCEPT ![u] = TRUE]
     \/ /\ findActiveEnvironmentByUID(sock[s].uid) = {}
        /\ sock' = [sock EXCEPT ![s].pc = "closed"]
        /\ UNCHANGED <<rows, usage>>
  /\ UNCHANGED <<socketVars, tickets, tracker, finishing, faults>>

TrackerOpen(s) ==
  /\ sock[s].pc = "opened"
  /\ sock' = [sock EXCEPT ![s].pc = "live"]
  /\ tracker' = [active |-> tracker.active + 1, pending |-> NoUID]
  /\ UNCHANGED <<socketVars, tickets, rows, usage, finishing, faults>>

TouchTerminalConnection(s) ==
  /\ sock[s].pc = "live" /\ rows[s] = "stale"
  /\ rows' = [rows EXCEPT ![s] = "fresh"]
  /\ UNCHANGED <<socketVars, tickets, sock, usage, tracker, finishing, faults>>

(* The heartbeat of a terminal that is gone is out of date in time; that   *)
(* of one in use only when heartbeats are lost.                            *)
Attached(u) == {s \in Sockets : /\ sock[s].uid = u
                               /\ sock[s].pc \in {"claimed", "opened", "live", "closing"}}

HeartbeatAges(s) ==
  /\ rows[s] = "fresh" /\ s \notin Attached(sock[s].uid)
  /\ rows' = [rows EXCEPT ![s] = "stale"]
  /\ UNCHANGED <<socketVars, tickets, sock, usage, tracker, finishing, faults>>

HeartbeatsLost(s) ==
  /\ rows[s] = "fresh" /\ s \in Attached(sock[s].uid)
  /\ rows' = [rows EXCEPT ![s] = "stale"]
  /\ faults < load.faults /\ faults' = faults + 1
  /\ UNCHANGED <<socketVars, tickets, sock, usage, tracker, finishing>>

CloseTerminalConnection(s) ==
  /\ sock[s].pc = "live"
  /\ sock' = [sock EXCEPT ![s].pc = "closing"]
  /\ \/ rows' = [rows EXCEPT ![s] = "closed"] /\ UNCHANGED faults
     \/ UNCHANGED rows /\ faults < load.faults /\ faults' = faults + 1
  /\ UNCHANGED <<socketVars, tickets, usage, tracker, finishing>>

TrackerClose(s) ==
  /\ sock[s].pc = "closing"
  /\ sock' = [sock EXCEPT ![s].pc = "closed"]
  /\ tracker' = IF tracker.active > 1 THEN [tracker EXCEPT !.active = @ - 1]
                ELSE [active |-> 0, pending |-> sock[s].uid]
  /\ UNCHANGED <<socketVars, tickets, rows, usage, finishing, faults>>

(* The settle delay is over and no terminal came back.                     *)
TrackerSettles ==
  /\ tracker.pending # NoUID /\ tracker.active = 0
  /\ finishing' = [finishing EXCEPT ![tracker.pending] = "count"]
  /\ tracker' = Idle
  /\ UNCHANGED <<socketVars, tickets, sock, rows, usage, faults>>

Connected(u) == {s \in Sockets : sock[s].uid = u /\ rows[s] \in {"fresh", "stale"}}

(* FinishTerminalUsageSession: two statements of a READ COMMITTED          *)
(* transaction.                                                            *)
FinishCounts(u) ==
  /\ finishing[u] = "count"
  /\ finishing' = [finishing EXCEPT ![u] = IF Connected(u) = {} THEN "update" ELSE "none"]
  /\ UNCHANGED <<socketVars, tickets, sock, rows, usage, tracker, faults>>

FinishUpdates(u) ==
  /\ finishing[u] = "update"
  /\ finishing' = [finishing EXCEPT ![u] = "none"]
  /\ usage' = [usage EXCEPT ![u] = FALSE]
  /\ UNCHANGED <<socketVars, tickets, sock, rows, tracker, faults>>

FinishFails(u) ==
  /\ finishing[u] # "none" /\ faults < load.faults
  /\ finishing' = [finishing EXCEPT ![u] = "none"]
  /\ faults' = faults + 1
  /\ UNCHANGED <<socketVars, tickets, sock, rows, usage, tracker>>

(* Seeded fault: the cleanup closes rows and leaves their sessions.        *)
RowsOnly ==
  /\ rows' = [s \in Sockets |-> IF rows[s] = "stale" THEN "closed" ELSE rows[s]]
  /\ UNCHANGED usage

(* A closed row may also have been deleted: nothing tells them apart.      *)
CleanupTerminalActivity ==
  /\ rows' = [s \in Sockets |-> IF rows[s] = "stale" THEN "closed" ELSE rows[s]]
  /\ usage' = [u \in UIDs |-> usage[u] /\ \E s \in Connected(u) : rows[s] # "stale"]

Cleanup ==
  /\ server = "up"
  /\ CleanupTerminalActivity
  /\ UNCHANGED <<socketVars, tickets, sock, tracker, finishing, faults>>

-----------------------------------------------------------------------------
Crash ==
  /\ server # "down" /\ faults < load.faults
  /\ server' = "down" /\ faults' = faults + 1
  /\ pass' = NoPass
  /\ req' = [c \in Callers |-> NoRequest]
  /\ sock' = [s \in Sockets |-> IF sock[s].pc = "none" THEN sock[s]
                                ELSE [sock[s] EXCEPT !.pc = "closed"]]
  /\ tracker' = Idle
  /\ finishing' = [u \in UIDs |-> "none"]
  /\ UNCHANGED <<load, env, learningVars, tickets, rows, usage, asked>>

(* The cleanup and one pass of the projector come before HTTP.             *)
Restart ==
  /\ server = "down"
  /\ server' = "recovering"
  /\ CleanupTerminalActivity
  /\ UNCHANGED <<load, env, pass, learningVars, req, tickets, sock, tracker, finishing, asked,
                 faults>>

Projector ==
  \/ ListEnvironmentProjections \/ EvaluateLearningCheckpoints
  \/ EvaluationFails \/ ProjectAttempt \/ RecordCheckpointFirstPass \/ ProjectCompletion
  \/ ProjectEnd \/ DeleteEnvironmentProjection

Next ==
  \/ \E u \in UIDs : Reconcile(u) \/ \E k \in Checkpoints : Work(u, k)
  \/ Projector \/ PassFails
  \/ \E c \in Callers :
       \/ \E op \in {"start", "reset", "stop"} : Ask(c, op)
       \/ FindForStart(c) \/ FindForReset(c) \/ FindForStop(c) \/ requestReset(c)
       \/ StartPlayground(c) \/ ResetPlayground(c) \/ StopPlayground(c)
       \/ createEnvironment(c) \/ AdoptExisting(c) \/ destroyEnvironment(c)
       \/ waitEnvironmentDeleted(c) \/ waitEnvironmentReady(c) \/ cleanupFailedEnvironment(c)
       \/ RecordStopped(c) \/ finishEnvironmentAttempt(c) \/ RequestFails(c)
  \/ \E t \in Tickets : CreateTerminalTicket(t) \/ \E s \in Sockets : ClaimTerminalTicket(s, t)
  \/ \E s \in Sockets :
       \/ OpenTerminalConnection(s) \/ TrackerOpen(s) \/ TouchTerminalConnection(s)
       \/ HeartbeatAges(s) \/ HeartbeatsLost(s) \/ CloseTerminalConnection(s) \/ TrackerClose(s)
  \/ TrackerSettles \/ \E u \in UIDs : FinishCounts(u) \/ FinishUpdates(u) \/ FinishFails(u)
  \/ Cleanup \/ Crash \/ Restart

Spec == Init /\ [][Next]_vars

(* The tickers of the two services, the restart policy of the Server and   *)
(* the passing of time.  Nothing is assumed of users and of the            *)
(* Controller.                                                             *)
FairSpec ==
  /\ Spec
  /\ WF_vars(Projector) /\ WF_vars(Cleanup) /\ WF_vars(Restart)
  /\ \A s \in Sockets : WF_vars(HeartbeatAges(s))

-----------------------------------------------------------------------------
(* The types, and at most one environment under the name.                  *)
LearningTypeOK ==
  /\ load \in Workloads /\ server \in {"down", "recovering", "up"}
  /\ env \in [UIDs -> Object] /\ pass \in Pass /\ Cardinality(Named) <= 1
  /\ attempts \in [UIDs -> {"none", "active", "completed", "stopped", "expired"}]
  /\ firsts \in [UIDs -> SUBSET Checkpoints] /\ progress \in UIDs \cup {NoUID}
  /\ req \in [Callers -> Request]
  /\ tickets \in [Tickets -> Ticket] /\ sock \in [Sockets -> Socket]
  /\ rows \in [Sockets -> {"none", "fresh", "stale", "closed"}] /\ usage \in [UIDs -> BOOLEAN]
  /\ tracker \in [active : 0 .. Cardinality(Sockets), pending : UIDs \cup {NoUID}]
  /\ finishing \in [UIDs -> {"none", "count", "update"}]
  /\ asked \in 0 .. load.requests /\ faults \in 0 .. load.faults

(* A completion was earned in one environment: whatever pass recorded it,  *)
(* after whatever restarts, resets and failed passes, each checkpoint has  *)
(* its first pass on record under the same UID, and the attempt there has  *)
(* ended.                                                                  *)
CompletionIsEarned ==
  progress # NoUID =>
    /\ firsts[progress] = Checkpoints
    /\ attempts[progress] \in {"completed", "stopped", "expired"}

(* An attempt that has ended keeps its outcome: the projector, which works *)
(* from a listing of some time ago, and a stop overlap on the same attempt *)
(* and neither overwrites the other.                                       *)
OutcomesAreFinal ==
  [][\A u \in UIDs : attempts[u] \in {"completed", "stopped", "expired"}
                       => attempts'[u] = attempts[u]]_vars

(* Under a name that is used again, an environment is deleted only by      *)
(* someone who meant that one: a request or a pass that found this UID,    *)
(* its Controller, or the creator whose wait failed and who removes what   *)
(* has the name.                                                           *)
DeletedWasMeant ==
  [][\A u \in UIDs :
       ~env[u].deleting /\ env'[u].deleting =>
         \/ env[u].phase = "Released" \/ pass.uid = u
         \/ \E c \in Callers : req[c].uid = u \/ req[c].pc = "cleanup"]_vars

(* A ticket attaches one terminal, and to the environment it was minted    *)
(* for, whatever has taken the name since.                                 *)
TicketsAreSpentOnce ==
  \A s \in Sockets : sock[s].pc # "none" =>
    /\ sock[s].uid = tickets[sock[s].ticket].uid
    /\ \A r \in Sockets \ {s} : sock[r].pc # "none" => sock[r].ticket # sock[s].ticket

(* An environment left Ready with every checkpoint passed at some time -   *)
(* together or not, before or after a restart - completes the scenario.    *)
Steady(u) == env[u].phase = "Ready" /\ env[u].reset # "wiping" /\ server = "up"
SolvedIsRecorded ==
  <>[](\E u \in UIDs : Steady(u) /\ firsts[u] = Checkpoints) => <>(progress # NoUID)

(* Learning time does not run on: once no terminal of an environment is    *)
(* left, its usage session ends, whether the closes were recorded or lost  *)
(* with a call or with the Server.                                         *)
RunsOn == \E u \in UIDs : usage[u] /\ Attached(u) = {}
UsageEnds == RunsOn ~> ~RunsOn
(* What is on record of a user's work: completions that were earned, and   *)
(* terminals of the environments they were opened for.                     *)
LearningInvariant == LearningTypeOK /\ CompletionIsEarned /\ TicketsAreSpentOnce
=============================================================================
