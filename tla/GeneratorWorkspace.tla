------------------------- MODULE GeneratorWorkspace -------------------------
(***************************************************************************)
(* The editable workspace of one generation workflow: a durable row, a     *)
(* GeneratorWorkspace object in the cluster (the owner), a claim owned by  *)
(* it and a sandbox at an external provider.  Requests provision it step   *)
(* by step and then hold the single-writer turn; a snapshotter archives    *)
(* it, a reaper retires it, a reconciler drops what is retired and a       *)
(* sanitizer removes sandboxes that no owner claims.                       *)
(*                                                                         *)
(* File contents are version numbers, 0 the empty workspace.  Failures of  *)
(* the provider, of the cluster API and of the process draw on one budget. *)
(***************************************************************************)
EXTENDS Naturals, FiniteSets

CONSTANTS
    Workspaces,  \* workspace ids the manager may allocate
    Boxes,       \* sandbox ids the provider may hand out
    Callers,     \* concurrent turns; a turn is named after its caller
    Loops,       \* the Server's optional loops that the instance runs
    MaxEdits,    \* bound: file writes
    MaxFaults    \* bound: failed calls, lost sandboxes or archives, restarts

NoBox == "no sandbox"
NoTurn == "no turn"
Holder == "snapshot holder"

ASSUME GeneratorAssumption ==
    /\ "none" \notin Workspaces
    /\ NoBox \notin Boxes
    /\ {NoTurn, Holder} \cap Callers = {}
    /\ Loops \subseteq {"snapshotter", "sanitizer"}
    /\ MaxEdits \in Nat
    /\ MaxFaults \in Nat

VARIABLES
    wf,      \* the workflow row: state, snapshot digest, candidate archive
    row,     \* generator_workspaces, one record per workspace id
    cr,      \* the owner objects
    claim,   \* the claims: none, owned by the present owner, or orphaned
    box,     \* the provider's sandboxes; `edited` is history: a file of it was
             \* written since it was created or reset
    call,    \* the turns being started or held
    snap,    \* the snapshotter's pass
    sweep,   \* the sanitizer's pass
    store,   \* snapshot archives on disk: absent, new (inside the grace), old, lost
    edits,   \* number of file writes so far
    faults   \* failures so far

vars == <<wf, row, cr, claim, box, call, snap, sweep, store, edits, faults>>
request == <<call, edits>>
cluster == <<cr, claim>>

Versions == 0..MaxEdits
NoDigest == MaxEdits + 1

States == {"none", "pending", "active", "deleting", "deleted"}

Rows == [state : States, box : Boxes \cup {NoBox},
         turn : Callers \cup {NoTurn, Holder},
         idle : {"no", "fresh", "stale"}, expired : BOOLEAN]

Owners == [exists : BOOLEAN, facts : BOOLEAN, box : Boxes \cup {NoBox},
           phase : {"pending", "active", "deleting"}]

NoRow == [state |-> "none", box |-> NoBox, turn |-> NoTurn, idle |-> "no", expired |-> FALSE]
NoOwner == [exists |-> FALSE, facts |-> FALSE, box |-> NoBox, phase |-> "pending"]
NoCall == [pc |-> "idle", ws |-> "none", box |-> NoBox,
           state |-> "none", seed |-> 0, pass |-> 0]
NoSnap == [pc |-> "idle", ws |-> "none", digest |-> NoDigest,
           idle |-> "no", content |-> 0]

Provisioning == {"owner", "find", "create", "record", "publish", "wait", "activate"}

\* An archive is readable when its bytes are there and match the digest.
Readable(v) == store[v] \in {"new", "old"}

\* The unique index keeps at most one pending or active row per workflow.
Current == {w \in Workspaces : row[w].state \in {"pending", "active"}}

Init ==
    /\ wf = [state |-> "generating", digest |-> NoDigest, candidate |-> 0]
    /\ row = [w \in Workspaces |-> NoRow]
    /\ cr = [w \in Workspaces |-> NoOwner]
    /\ claim = [w \in Workspaces |-> "none"]
    /\ box = [s \in Boxes |-> [ws |-> "none", alive |-> FALSE, content |-> 0, edited |-> FALSE]]
    /\ call = [c \in Callers |-> NoCall]
    /\ snap = NoSnap
    /\ sweep = [pc |-> "idle", ids |-> {}]
    /\ store = [v \in Versions |-> "absent"]
    /\ edits = 0
    /\ faults = 0

(***************************************************************************)
(* The owner store and the sandbox provider.                               *)
(***************************************************************************)
\* A call either succeeds or fails, and a failure draws on the budget.
Outcome(ok) ==
    /\ ok \/ faults < MaxFaults
    /\ faults' = IF ok THEN faults ELSE faults + 1

\* The status subresource is not written by a create: a new owner has no facts.
CreatedOwner == [NoOwner EXCEPT !.exists = TRUE]

EnsureWorkspaceOwner(o) == IF o.exists THEN o ELSE CreatedOwner

RecordWorkspaceOwnerStatus(o, s, state) ==
    IF ~o.exists THEN CreatedOwner
    ELSE [o EXCEPT !.facts = TRUE, !.box = s,
                   !.phase = IF state \in {"active", "deleting"} THEN state ELSE "pending"]

\* Without facts the status patch fails the schema's required fields.
RetireWorkspaceOwner(o) == IF o.facts THEN [o EXCEPT !.phase = "deleting"] ELSE o

\* The claim is created, or taken over, with the owner as its reference.
EnsureWorkspacePVC(w) == claim' = [claim EXCEPT ![w] = "owned"]

\* Owners that carry their facts; one without is listed and skipped.
ListWorkspaceOwners == {w \in Workspaces : cr[w].exists /\ cr[w].facts}

DeleteWorkspaceOwner(w) ==
    /\ cr' = [cr EXCEPT ![w] = NoOwner]
    /\ claim' = [claim EXCEPT ![w] = IF @ = "owned" THEN "orphan" ELSE @]

\* The sandboxes that carry this workspace's metadata; more than one is an error.
FindWorkspace(w) == {s \in Boxes : box[s].alive /\ box[s].ws = w}

CreateWorkspace(w, s) ==
    /\ box[s].ws = "none"
    /\ box' = [box EXCEPT ![s] = [ws |-> w, alive |-> TRUE, content |-> 0, edited |-> FALSE]]

Emptied(b) == [b EXCEPT !.alive = FALSE, !.content = 0, !.edited = FALSE]

DeleteWorkspaces(ids) == [s \in Boxes |-> IF s \in ids THEN Emptied(box[s]) ELSE box[s]]

\* The files are deleted and the seed's are written.
ResetWorkspace(s, seed) == box' = [box EXCEPT ![s] = [@ EXCEPT !.content = seed, !.edited = FALSE]]

WaitWorkspace(s) == box[s].alive

ArchiveWorkspace(s) == box[s].content

ListWorkspaceSandboxes == {s \in Boxes : box[s].alive}

\* Saving bytes that are already on disk does not renew the file's age.
Save(v) == store' = [store EXCEPT ![v] = IF Readable(v) THEN @ ELSE "new"]

\* Archives past the grace go, unless a workflow points to them.
Cleanup(referenced) ==
    store' = [v \in Versions |-> IF store[v] \in {"old", "lost"} /\ v \notin referenced THEN "absent" ELSE store[v]]

(***************************************************************************)
(* The repository: each operator is one statement or transaction.          *)
(***************************************************************************)
CreateGeneratorWorkspace(w) ==
    /\ row[w].state = "none"
    /\ row' = [row EXCEPT ![w] = [NoRow EXCEPT !.state = "pending"]]

RecordGeneratorWorkspaceSandbox(w, s) ==
    /\ row[w].state = "pending" /\ row[w].box \in {NoBox, s}
    /\ row' = [row EXCEPT ![w].box = s]

ActivateGeneratorWorkspace(w, s) ==
    /\ row[w].state \in {"pending", "active"} /\ row[w].box \in {NoBox, s}
    /\ row' = [row EXCEPT ![w].box = s, ![w].state = "active", ![w].expired = FALSE]

Retired(r) == [r EXCEPT !.state = "deleting", !.turn = NoTurn, !.idle = "no", !.expired = FALSE]

BeginGeneratorWorkspaceCleanup(w) ==
    row' = [row EXCEPT ![w] = IF @.state \in {"pending", "active"} THEN Retired(@) ELSE @]

\* Retires whatever row is current, which need not be the one the caller read.
RetireCurrentGeneratorWorkspace ==
    row' = [w \in Workspaces |-> IF w \in Current THEN Retired(row[w]) ELSE row[w]]

AcquireGeneratorWorkspaceTurn(w, turn) ==
    row' = [row EXCEPT ![w] = IF @.turn = NoTurn THEN [@ EXCEPT !.turn = turn, !.idle = "no"] ELSE @]

ReleaseGeneratorWorkspaceTurn(turn) ==
    row' = [w \in Workspaces |->
              IF row[w].state = "active" /\ row[w].turn = turn
              THEN [row[w] EXCEPT !.turn = NoTurn, !.idle = "no"] ELSE row[w]]

AcquireGeneratorWorkspaceSnapshot(w) ==
    /\ wf.state = "generating"
    /\ row[w].state = "active" /\ row[w].turn = NoTurn
    /\ ~(row[w].idle # "no" /\ wf.digest # NoDigest)
    /\ row' = [row EXCEPT ![w].turn = Holder, ![w].idle = "no"]

PublishGeneratorWorkspaceSnapshot(w, digest) ==
    /\ wf.state = "generating" /\ row[w].state = "active" /\ row[w].turn = Holder
    /\ wf' = [wf EXCEPT !.digest = digest]
    /\ row' = [row EXCEPT ![w].turn = NoTurn, ![w].idle = "fresh"]

ClearGeneratorWorkspaceSnapshot ==
    /\ wf' = [wf EXCEPT !.digest = NoDigest]
    /\ row' = [w \in Workspaces |->
                 IF row[w].state = "active" THEN [row[w] EXCEPT !.idle = "no"] ELSE row[w]]

\* Seeded fault: the idle age the caller listed is not checked again.
RetireTrustsListing(w, digest) ==
    row' = IF /\ wf.state = "generating" /\ wf.digest = digest
              /\ row[w].state = "active" /\ row[w].turn = NoTurn
           THEN [row EXCEPT ![w] = Retired(@)] ELSE row

RetireIdleGeneratorWorkspace(w, digest) ==
    row' = IF /\ wf.state = "generating" /\ wf.digest = digest
              /\ row[w].state = "active" /\ row[w].turn = NoTurn /\ row[w].idle = "stale"
           THEN [row EXCEPT ![w] = Retired(@)] ELSE row

RetireIncompleteGeneratorWorkspaces ==
    [w \in Workspaces |-> IF w \in Current /\ wf.state # "ended" THEN Retired(row[w]) ELSE row[w]]

MarkGeneratorWorkspaceDeleted(w) == row' = [row EXCEPT ![w].state = "deleted"]

ListGeneratorWorkspaceSnapshotReferences == {wf.digest}

ListGeneratorWorkspaceSnapshotTargets ==
    {w \in Workspaces : wf.state = "generating" /\ row[w].state = "active"}

\* Expired pending rows, rows of ended workflows, and deleting rows.
ListCleanupDue ==
    {w \in Workspaces : \/ row[w].state = "pending" /\ row[w].expired
                        \/ w \in Current /\ wf.state = "ended"
                        \/ row[w].state = "deleting"}

GetGeneratorWorkspaceForTurn(turn) ==
    {w \in Workspaces : row[w].state = "active" /\ row[w].turn = turn}

(***************************************************************************)
(* Starting a turn: read the seed, ensure the workspace, bind the turn.    *)
(***************************************************************************)
\* A request that ended, or that holds its turn, remembers nothing else.
Goto(c, pc) ==
    call' = [call EXCEPT ![c] = IF pc \in {"idle", "again", "holding"} THEN [NoCall EXCEPT !.pc = pc]
                                ELSE [@ EXCEPT !.pc = pc]]

\* A published snapshot seeds the workspace; a pointer whose archive cannot be
\* read is cleared and the last candidate is used instead.
WorkspaceSeed(c) ==
    /\ call[c].pc \in {"idle", "again"}
    /\ wf.state = "generating"
    /\ LET readable == wf.digest # NoDigest /\ Readable(wf.digest)
       IN  /\ call' = [call EXCEPT ![c] = [NoCall EXCEPT !.pc = "ensure",
                          !.pass = IF call[c].pc = "again" THEN 1 ELSE 0,
                          !.seed = IF readable THEN wf.digest ELSE wf.candidate]]
           /\ IF wf.digest # NoDigest /\ ~readable
              THEN ClearGeneratorWorkspaceSnapshot ELSE UNCHANGED <<wf, row>>
    /\ UNCHANGED <<cluster, box, snap, sweep, store, edits, faults>>

EnsureRow(c) ==
    /\ call[c].pc = "ensure"
    /\ \/ /\ Current = {}
          /\ \E w \in Workspaces :
               /\ CreateGeneratorWorkspace(w)
               /\ call' = [call EXCEPT ![c].ws = w, ![c].box = NoBox,
                                       ![c].state = "pending", ![c].pc = "owner"]
       \/ \E w \in Current :
            /\ call' = [call EXCEPT ![c].ws = w, ![c].box = row[w].box, ![c].state = row[w].state,
                          ![c].pc = IF row[w].state = "active" THEN "verify" ELSE "owner"]
            /\ UNCHANGED row
    /\ UNCHANGED <<wf, cluster, box, snap, sweep, store, edits, faults>>

\* An active row whose sandbox is gone, or whose metadata finds another one, is
\* retired; the loop then allocates a fresh workspace.
VerifySandbox(c) ==
    LET w == call[c].ws
        found == FindWorkspace(w)
    IN  /\ call[c].pc = "verify"
        /\ \/ found = {call[c].box} /\ Goto(c, "acquire") /\ UNCHANGED <<row, cr, box>>
           \/ Cardinality(found) > 1 /\ Goto(c, "idle") /\ UNCHANGED <<row, cr, box>>
           \/ /\ found # {call[c].box} /\ Cardinality(found) <= 1
              /\ box' = DeleteWorkspaces(found)
              /\ RetireCurrentGeneratorWorkspace
              /\ cr' = IF Current = {} THEN cr ELSE [cr EXCEPT ![w] = RetireWorkspaceOwner(@)]
              /\ Goto(c, "ensure")
        /\ UNCHANGED <<wf, claim, snap, sweep, store, edits, faults>>

\* The owner exists before the claim that references it.
EnsureOwnerAndClaim(c) ==
    LET w == call[c].ws
    IN  /\ call[c].pc = "owner"
        /\ ~row[w].expired
        /\ \E ok \in BOOLEAN :
             /\ Outcome(ok)
             /\ cr' = [cr EXCEPT ![w] = EnsureWorkspaceOwner(@)]
             /\ IF ok THEN EnsureWorkspacePVC(w) ELSE UNCHANGED claim
             /\ Goto(c, IF ~ok THEN "idle" ELSE IF call[c].box = NoBox THEN "find" ELSE "wait")
        /\ UNCHANGED <<wf, row, box, snap, sweep, store, edits>>

FindSandbox(c) ==
    LET found == FindWorkspace(call[c].ws)
    IN  /\ call[c].pc = "find"
        /\ \/ found = {} /\ Goto(c, "create")
           \/ \E s \in found :
                /\ found = {s}
                /\ call' = [call EXCEPT ![c].box = s, ![c].pc = "record"]
           \/ Cardinality(found) > 1 /\ Goto(c, "idle")
        /\ UNCHANGED <<wf, row, cluster, box, snap, sweep, store, edits, faults>>

CreateSandbox(c) ==
    /\ call[c].pc = "create"
    /\ \E s \in Boxes :
         /\ CreateWorkspace(call[c].ws, s)
         /\ call' = [call EXCEPT ![c].box = s, ![c].pc = "record"]
    /\ UNCHANGED <<wf, row, cluster, snap, sweep, store, edits, faults>>

\* A sandbox that cannot be recorded or activated is deleted and the owner is
\* rewritten so that it no longer advertises one.
Compensate(c) ==
    LET w == call[c].ws
    IN  /\ box' = DeleteWorkspaces({call[c].box})
        /\ cr' = [cr EXCEPT ![w] = RecordWorkspaceOwnerStatus(@, NoBox, "pending")]
        /\ Goto(c, "idle")

RecordSandbox(c) ==
    LET w == call[c].ws
    IN  /\ call[c].pc = "record"
        /\ \/ /\ RecordGeneratorWorkspaceSandbox(w, call[c].box)
              /\ Goto(c, "publish")
              /\ UNCHANGED <<cr, box>>
           \/ /\ ~(row[w].state = "pending" /\ row[w].box \in {NoBox, call[c].box})
              /\ Compensate(c)
              /\ UNCHANGED row
        /\ UNCHANGED <<wf, claim, snap, sweep, store, edits, faults>>

\* The row is read again and its facts are published; a failed write is logged.
PublishOwner(c, from, to) ==
    LET w == call[c].ws
    IN  /\ call[c].pc = from
        /\ \E ok \in BOOLEAN :
             /\ Outcome(ok)
             /\ cr' = IF ok THEN [cr EXCEPT ![w] =
                          RecordWorkspaceOwnerStatus(@, row[w].box, row[w].state)] ELSE cr
        /\ call' = [call EXCEPT ![c] = IF to = "wait"
                                   THEN [@ EXCEPT !.box = row[w].box, !.state = row[w].state, !.pc = to]
                                   ELSE [NoCall EXCEPT !.pc = to, !.pass = call[c].pass]]
        /\ UNCHANGED <<wf, row, claim, box, snap, sweep, store, edits>>

\* The wait ends with a ready sandbox or an error.  The state tested before the
\* reset is the one this call read, not the row's present one.
SeedSandbox(c) ==
    LET s == call[c].box
    IN  /\ call[c].pc = "wait"
        /\ \/ /\ WaitWorkspace(s)
              /\ IF call[c].state = "pending" THEN ResetWorkspace(s, call[c].seed) ELSE UNCHANGED box
              /\ Goto(c, "activate")
           \/ ~WaitWorkspace(s) /\ Goto(c, "idle") /\ UNCHANGED box
        /\ UNCHANGED <<wf, row, cluster, snap, sweep, store, edits, faults>>

Activate(c) ==
    LET w == call[c].ws
        s == call[c].box
    IN  /\ call[c].pc = "activate"
        /\ \/ /\ ActivateGeneratorWorkspace(w, s)
              /\ Goto(c, "confirm")
              /\ UNCHANGED <<cr, box>>
           \/ /\ ~(row[w].state \in {"pending", "active"} /\ row[w].box \in {NoBox, s})
              /\ Compensate(c)
              /\ UNCHANGED row
        /\ UNCHANGED <<wf, claim, snap, sweep, store, edits, faults>>

\* A provider or cluster call fails, or the provisioning deadline has passed.
ProvisionFails(c) ==
    LET w == call[c].ws
    IN  /\ call[c].pc \in Provisioning
        /\ IF row[w].expired THEN UNCHANGED faults ELSE Outcome(FALSE)
        /\ IF call[c].pc \in {"record", "activate"}
           THEN Compensate(c) ELSE Goto(c, "idle") /\ UNCHANGED <<cr, box>>
        /\ UNCHANGED <<wf, row, claim, snap, sweep, store, edits>>

\* Busy with another turn ends the request; busy with the snapshotter waits;
\* no active row any more is tried once more from the start.
AcquireTurn(c) ==
    /\ call[c].pc = "acquire"
    /\ LET active == {w \in Workspaces : row[w].state = "active"}
       IN  \/ active = {} /\ UNCHANGED row
              /\ Goto(c, IF call[c].pass = 0 THEN "again" ELSE "idle")
           \/ \E w \in active :
                \/ /\ row[w].turn \in {NoTurn, c}
                   /\ AcquireGeneratorWorkspaceTurn(w, c)
                   /\ Goto(c, "holding")
                \/ row[w].turn \in Callers \ {c} /\ Goto(c, "idle") /\ UNCHANGED row
    /\ UNCHANGED <<wf, cluster, box, snap, sweep, store, edits, faults>>

\* The second pass finds that the workflow is no longer editable.
StartRefused(c) ==
    /\ call[c].pc = "again"
    /\ wf.state # "generating"
    /\ Goto(c, "idle")
    /\ UNCHANGED <<wf, row, cluster, box, snap, sweep, store, edits, faults>>

(***************************************************************************)
(* Working in the turn.                                                    *)
(***************************************************************************)
\* The check every operation of a turn makes before it touches the sandbox.
GeneratingWorkspace(c, w) ==
    /\ call[c].pc = "holding"
    /\ wf.state = "generating"
    /\ w \in GetGeneratorWorkspaceForTurn(c)

\* A file is written, by the editor or by a command that the turn runs.
WriteWorkspaceFile(c) ==
    /\ edits < MaxEdits
    /\ \E w \in Workspaces :
         /\ GeneratingWorkspace(c, w)
         /\ box[row[w].box].alive
         /\ box' = [box EXCEPT ![row[w].box] = [@ EXCEPT !.content = edits + 1, !.edited = TRUE]]
    /\ edits' = edits + 1
    /\ UNCHANGED <<wf, row, cluster, call, snap, sweep, store, faults>>

EndWorkspaceTurn(c) ==
    /\ \E w \in Workspaces : GeneratingWorkspace(c, w)
    /\ ReleaseGeneratorWorkspaceTurn(c)
    /\ Goto(c, "idle")
    /\ UNCHANGED <<wf, cluster, box, snap, sweep, store, edits, faults>>

\* The archive becomes the candidate; the snapshot pointer and the turn go.
SubmitCandidate(c) ==
    /\ \E w \in Workspaces :
         /\ GeneratingWorkspace(c, w)
         /\ box[row[w].box].alive
         /\ wf' = [state |-> "judging", digest |-> NoDigest, candidate |-> ArchiveWorkspace(row[w].box)]
    /\ ReleaseGeneratorWorkspaceTurn(c)
    /\ Goto(c, "idle")
    /\ UNCHANGED <<cluster, box, snap, sweep, store, edits, faults>>

TurnLost(c) ==
    /\ call[c].pc = "holding"
    /\ ~\E w \in Workspaces : GeneratingWorkspace(c, w)
    /\ Goto(c, "idle")
    /\ UNCHANGED <<wf, row, cluster, box, snap, sweep, store, edits, faults>>

\* The rest of the workflow: a repair returns it to editing, or it ends.
WorkflowMoves ==
    /\ \/ wf.state = "judging" /\ wf' = [wf EXCEPT !.state = "generating"]
       \/ wf.state # "ended" /\ wf' = [wf EXCEPT !.state = "ended"]
    /\ UNCHANGED <<row, cluster, box, snap, sweep, store, request, faults>>

(***************************************************************************)
(* The snapshotter, one goroutine: targets, archive, publish, clean up.    *)
(***************************************************************************)
SnapGoto(pc) == snap' = IF pc \in {"idle", "cleanup"} THEN [NoSnap EXCEPT !.pc = pc] ELSE [snap EXCEPT !.pc = pc]

ListSnapshotTarget ==
    /\ "snapshotter" \in Loops /\ snap.pc = "idle"
    /\ \E w \in ListGeneratorWorkspaceSnapshotTargets :
         snap' = [NoSnap EXCEPT !.pc = "reconcile", !.ws = w, !.digest = wf.digest, !.idle = row[w].idle]
    /\ UNCHANGED <<wf, row, cluster, box, sweep, store, request, faults>>

ReconcileSnapshot ==
    /\ snap.pc = "reconcile"
    /\ IF snap.digest = NoDigest \/ snap.idle = "no"
       THEN SnapGoto("acquire") /\ UNCHANGED <<wf, row>>
       ELSE IF Readable(snap.digest)
       THEN /\ SnapGoto("cleanup")
            /\ UNCHANGED wf
            /\ IF snap.idle = "stale"
               THEN RetireIdleGeneratorWorkspace(snap.ws, snap.digest) ELSE UNCHANGED row
       ELSE IF wf.state = "generating" /\ wf.digest = snap.digest
       THEN ClearGeneratorWorkspaceSnapshot /\ SnapGoto("acquire")
       ELSE SnapGoto("cleanup") /\ UNCHANGED <<wf, row>>
    /\ UNCHANGED <<cluster, box, sweep, store, request, faults>>

\* The holder fences out user turns while the archive is taken.
AcquireSnapshot ==
    /\ snap.pc = "acquire"
    /\ \/ \E w \in Workspaces :
            /\ AcquireGeneratorWorkspaceSnapshot(w)
            /\ snap' = [snap EXCEPT !.pc = "archive", !.ws = w]
       \/ /\ ~\E w \in Workspaces :
                 /\ wf.state = "generating"
                 /\ row[w].state = "active" /\ row[w].turn = NoTurn
                 /\ ~(row[w].idle # "no" /\ wf.digest # NoDigest)
          /\ SnapGoto("cleanup")
          /\ UNCHANGED row
    /\ UNCHANGED <<wf, cluster, box, sweep, store, request, faults>>

ArchiveAndSave ==
    LET s == row[snap.ws].box
    IN  /\ snap.pc = "archive"
        /\ \/ /\ box[s].alive
              /\ snap' = [snap EXCEPT !.pc = "publish", !.content = ArchiveWorkspace(s)]
              /\ Save(ArchiveWorkspace(s))
              /\ UNCHANGED <<row, faults>>
           \/ /\ IF box[s].alive THEN Outcome(FALSE) ELSE UNCHANGED faults
              /\ ReleaseGeneratorWorkspaceTurn(Holder)
              /\ SnapGoto("cleanup")
              /\ UNCHANGED store
        /\ UNCHANGED <<wf, cluster, box, sweep, request>>

PublishSnapshot ==
    /\ snap.pc = "publish"
    /\ \/ PublishGeneratorWorkspaceSnapshot(snap.ws, snap.content)
       \/ /\ ~(wf.state = "generating" /\ row[snap.ws].state = "active" /\ row[snap.ws].turn = Holder)
          /\ ReleaseGeneratorWorkspaceTurn(Holder)
          /\ UNCHANGED wf
    /\ SnapGoto("cleanup")
    /\ UNCHANGED <<cluster, box, sweep, store, request, faults>>

\* Seeded fault: the cleanup forgets to protect referenced archives.
CleanupIgnoresReferences ==
    /\ snap.pc = "cleanup"
    /\ Cleanup({})
    /\ SnapGoto("idle")
    /\ UNCHANGED <<wf, row, cluster, box, sweep, request, faults>>

CleanupSnapshots ==
    /\ snap.pc = "cleanup"
    /\ Cleanup(ListGeneratorWorkspaceSnapshotReferences)
    /\ SnapGoto("idle")
    /\ UNCHANGED <<wf, row, cluster, box, sweep, request, faults>>

(***************************************************************************)
(* The reaper, the reconciler and the sanitizer.                           *)
(***************************************************************************)
\* The owner is marked on every pass, a failed marking is retried by the next
\* one; a pass that would change nothing is not a step.
CleanupDue(w) ==
    /\ w \in ListCleanupDue
    /\ row[w].state = "deleting" => cr[w].facts /\ cr[w].phase # "deleting"
    /\ BeginGeneratorWorkspaceCleanup(w)
    /\ \E ok \in BOOLEAN :
         /\ Outcome(ok)
         /\ cr' = IF ok THEN [cr EXCEPT ![w] = RetireWorkspaceOwner(@)] ELSE cr
    /\ UNCHANGED <<wf, claim, box, snap, sweep, store, request>>

\* Seeded fault: the row is completed before the sandbox is deleted.
DropRowFirst(w, done) ==
    LET recorded == IF row[w].box # NoBox THEN row[w].box ELSE cr[w].box
    IN  /\ row' = IF done >= 1 THEN [row EXCEPT ![w].state = "deleted"] ELSE row
        /\ box' = IF done >= 2 THEN DeleteWorkspaces({recorded}) ELSE box
        /\ IF done = 3 THEN DeleteWorkspaceOwner(w) ELSE UNCHANGED cluster

\* Sandbox first, row second, owner last; `done` steps of the three succeed.
DropWorkspace(w, done) ==
    LET recorded == IF row[w].box # NoBox THEN row[w].box ELSE cr[w].box
    IN  /\ box' = IF done >= 1 THEN DeleteWorkspaces({recorded}) ELSE box
        /\ IF done >= 2 THEN MarkGeneratorWorkspaceDeleted(w) ELSE UNCHANGED row
        /\ IF done = 3 THEN DeleteWorkspaceOwner(w) ELSE UNCHANGED cluster

\* Seeded fault: a retired row whose owner is already marked is passed over.
ReconcileMarkedOnly(w) ==
    /\ w \in ListWorkspaceOwners
    /\ row[w].state = "deleting" /\ cr[w].phase = "pending"
    /\ \E done \in 0..3 : Outcome(done = 3) /\ DropWorkspace(w, done)
    /\ UNCHANGED <<wf, snap, sweep, store, request>>

\* Retired rows are dropped, a deleting owner above a live row is healed, and
\* an owner without facts is left alone.
ReconcileOwner(w) ==
    /\ w \in ListWorkspaceOwners
    /\ \/ /\ row[w].state \in {"deleting", "deleted"}
          /\ \E done \in 0..3 : Outcome(done = 3) /\ DropWorkspace(w, done)
       \/ /\ w \in Current /\ cr[w].phase = "deleting"
          /\ cr' = [cr EXCEPT ![w] = RecordWorkspaceOwnerStatus(@, row[w].box, row[w].state)]
          /\ UNCHANGED <<row, claim, box, faults>>
    /\ UNCHANGED <<wf, snap, sweep, store, request>>

\* A live or deleting row without an owner gets one, then its facts.
BackfillOwner(w) ==
    /\ row[w].state \in {"pending", "active", "deleting"} /\ ~cr[w].exists
    /\ \E ok \in BOOLEAN :
         /\ Outcome(ok)
         /\ cr' = [cr EXCEPT ![w] = IF ok THEN RecordWorkspaceOwnerStatus(CreatedOwner, row[w].box, row[w].state)
                                    ELSE CreatedOwner]
    /\ UNCHANGED <<wf, row, claim, box, snap, sweep, store, request>>

\* The sanitizer lists the sandboxes before it reads the owners.
ListSandboxes ==
    /\ "sanitizer" \in Loops /\ sweep.pc = "idle"
    /\ ListWorkspaceSandboxes # {}
    /\ sweep' = [pc |-> "listed", ids |-> ListWorkspaceSandboxes]
    /\ UNCHANGED <<wf, row, cluster, box, snap, store, request, faults>>

ReadOwners ==
    /\ sweep.pc = "listed"
    /\ LET unowned == sweep.ids \ {cr[w].box : w \in Workspaces}
       IN  sweep' = [pc |-> IF unowned = {} THEN "idle" ELSE "doomed", ids |-> unowned]
    /\ UNCHANGED <<wf, row, cluster, box, snap, store, request, faults>>

DeleteUnowned ==
    /\ sweep.pc = "doomed"
    /\ \E ok \in BOOLEAN :
         /\ Outcome(ok)
         /\ box' = IF ok THEN DeleteWorkspaces(sweep.ids) ELSE box
    /\ sweep' = [pc |-> "idle", ids |-> {}]
    /\ UNCHANGED <<wf, row, cluster, snap, store, request>>

\* Kubernetes removes a claim none of whose owners exists.
CollectClaim(w) ==
    /\ claim[w] = "orphan"
    /\ claim' = [claim EXCEPT ![w] = "none"]
    /\ UNCHANGED <<wf, row, cr, box, snap, sweep, store, request, faults>>

(***************************************************************************)
(* Time, losses and restarts.                                              *)
(***************************************************************************)
TimePasses ==
    /\ \/ \E w \in Workspaces :
            /\ \/ row[w].state = "pending" /\ ~row[w].expired
                  /\ row' = [row EXCEPT ![w].expired = TRUE]
               \/ row[w].idle = "fresh" /\ row' = [row EXCEPT ![w].idle = "stale"]
            /\ UNCHANGED store
       \/ \E v \in Versions :
            /\ store[v] = "new"
            /\ store' = [store EXCEPT ![v] = "old"]
            /\ UNCHANGED row
    /\ UNCHANGED <<wf, cluster, box, snap, sweep, request, faults>>

SandboxLost(s) ==
    /\ box[s].alive
    /\ Outcome(FALSE)
    /\ box' = DeleteWorkspaces({s})
    /\ UNCHANGED <<wf, row, cluster, snap, sweep, store, request>>

ArchiveLost(v) ==
    /\ Readable(v)
    /\ Outcome(FALSE)
    /\ store' = [store EXCEPT ![v] = "lost"]
    /\ UNCHANGED <<wf, row, cluster, box, snap, sweep, request>>

\* An owner the database does not know becomes a deleting row, if it has facts.
AdoptOwner(w) ==
    IF cr[w].facts THEN [NoRow EXCEPT !.state = "deleting", !.box = cr[w].box] ELSE NoRow

\* The process stops at any point; the next start retires every incomplete
\* workspace before it serves, and after a schema reset it adopts the owners.
Restart(reset) ==
    /\ Outcome(FALSE)
    /\ row' = IF reset THEN [w \in Workspaces |-> AdoptOwner(w)]
              ELSE RetireIncompleteGeneratorWorkspaces
    /\ wf' = IF reset THEN [wf EXCEPT !.state = "ended", !.digest = NoDigest] ELSE wf
    /\ cr' = IF reset THEN [w \in Workspaces |-> RetireWorkspaceOwner(cr[w])] ELSE cr
    /\ call' = [c \in Callers |-> NoCall]
    /\ snap' = NoSnap
    /\ sweep' = [pc |-> "idle", ids |-> {}]
    /\ UNCHANGED <<claim, box, store, edits>>

Request(c) ==
    \/ WorkspaceSeed(c) \/ EnsureRow(c) \/ VerifySandbox(c) \/ EnsureOwnerAndClaim(c)
    \/ FindSandbox(c) \/ CreateSandbox(c) \/ RecordSandbox(c) \/ PublishOwner(c, "publish", "wait")
    \/ SeedSandbox(c) \/ Activate(c) \/ PublishOwner(c, "confirm", "acquire")
    \/ ProvisionFails(c) \/ AcquireTurn(c) \/ StartRefused(c)
    \/ WriteWorkspaceFile(c) \/ EndWorkspaceTurn(c) \/ SubmitCandidate(c) \/ TurnLost(c)

Snapshotter ==
    ListSnapshotTarget \/ ReconcileSnapshot \/ AcquireSnapshot \/ ArchiveAndSave
    \/ PublishSnapshot \/ CleanupSnapshots

Sanitizer == ListSandboxes \/ ReadOwners \/ DeleteUnowned

Next ==
    \/ \E c \in Callers : Request(c)
    \/ WorkflowMoves
    \/ Snapshotter
    \/ Sanitizer
    \/ \E w \in Workspaces :
         CleanupDue(w) \/ ReconcileOwner(w) \/ BackfillOwner(w) \/ CollectClaim(w)
    \/ TimePasses
    \/ \E s \in Boxes : SandboxLost(s)
    \/ \E v \in Versions : ArchiveLost(v)
    \/ \E reset \in BOOLEAN : Restart(reset)

\* The Server's loops tick for as long as it runs; users owe nothing.
Fairness ==
    /\ WF_vars(Snapshotter)
    /\ WF_vars(Sanitizer)
    /\ \A w \in Workspaces :
         /\ WF_vars(CleanupDue(w))
         /\ WF_vars(ReconcileOwner(w))
         /\ WF_vars(BackfillOwner(w))
         /\ WF_vars(CollectClaim(w))

Spec == Init /\ [][Next]_vars /\ Fairness

-----------------------------------------------------------------------------
\* Type correctness, with what the table's unique index and the retirements
\* keep: one current row per workflow, and no turn on a retired one.
GeneratorTypeOK ==
    /\ wf \in [state : {"generating", "judging", "ended"}, digest : Versions \cup {NoDigest}, candidate : Versions]
    /\ row \in [Workspaces -> Rows]
    /\ cr \in [Workspaces -> Owners]
    /\ claim \in [Workspaces -> {"none", "owned", "orphan"}]
    /\ box \in [Boxes -> [ws : Workspaces \cup {"none"}, alive : BOOLEAN, content : Versions, edited : BOOLEAN]]
    /\ store \in [Versions -> {"absent", "new", "old", "lost"}]
    /\ sweep.ids \subseteq Boxes
    /\ Cardinality(Current) <= 1
    /\ \A w \in Workspaces : row[w].state \in {"deleting", "deleted"} => row[w].turn = NoTurn
    /\ edits \in Versions
    /\ faults \in 0..MaxFaults

\* The archive cleanup (workspacearchive.Store.Cleanup) never removes the archive
\* a workflow's snapshot pointer names, although saving an archive that is
\* already there does not renew its age and pointers are published afterwards.
SnapshotIsOnDisk == wf.digest # NoDigest => store[wf.digest] # "absent"

\* Idle retirement (RetireIdleGeneratorWorkspace) throws no edit away: files that
\* were edited since their sandbox was created or last reset are those of the
\* published snapshot, from which the next workspace is seeded.
Unsaved(s) == box[s].alive /\ box[s].edited /\ box[s].content # wf.digest

RetiredAsIdle(w) ==
    /\ row[w].state = "active" /\ row'[w].state = "deleting"
    /\ snap.pc = "reconcile" /\ snap'.pc = "cleanup"

NothingUnsavedIsRetired == [][\A w \in Workspaces : RetiredAsIdle(w) => ~Unsaved(row[w].box)]_vars

\* A row is completed (MarkGeneratorWorkspaceDeleted) only after its sandbox is
\* gone, whatever step of the drop fails in between.
DeletedMeansGone ==
    \A w \in Workspaces : row[w].state = "deleted" /\ row[w].box # NoBox => ~box[row[w].box].alive

\* A retired row whose owner carries its facts is eventually completed, across
\* failed drops, lost markings, restarts and schema resets.
RetiredRowsComplete ==
    \A w \in Workspaces :
        (row[w].state = "deleting" /\ cr[w].facts) ~> (row[w].state = "deleted")

\* A sandbox that no owner claims is eventually deleted or claimed: a crash
\* between creating and recording one does not leak it.
StraysAreRemoved ==
    \A s \in Boxes :
        (box[s].alive /\ \A w \in Workspaces : cr[w].box # s)
            ~> (~box[s].alive \/ \E w \in Workspaces : cr[w].box = s)
\* One current workspace, one writer, and a snapshot that can be restored.
WorkspaceInvariant == GeneratorTypeOK /\ SnapshotIsOnDisk

\* Nothing is left for good: neither a retired row (the reaper, the reconciler)
\* nor a sandbox that nobody owns (the sanitizer).
WorkspacesAreCleaned == RetiredRowsComplete /\ StraysAreRemoved
=============================================================================
