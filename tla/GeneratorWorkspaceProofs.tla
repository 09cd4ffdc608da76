---------------------- MODULE GeneratorWorkspaceProofs ----------------------
(***************************************************************************)
(* Proofs about the generator workspace: at most one current workspace,    *)
(* no turn on a retired one, a snapshot pointer whose archive is on disk,  *)
(* no completed row whose sandbox is alive, and, as long as one client at  *)
(* a time uses the workspace, no edit that an idle retirement throws away. *)
(*                                                                         *)
(* Several requests, the snapshotter, the reaper, the reconciler and the   *)
(* sanitizer work on the same rows, owners and sandboxes with what they    *)
(* read before.  The inductive invariant says what such a memory is worth: *)
(* a sandbox id that a row, an owner or a request remembers was created    *)
(* once, and the provider never hands out an id again, so a deleted        *)
(* sandbox stays deleted; an archive about to be published is on disk,     *)
(* because the loop that publishes is also the loop that removes.  The     *)
(* second part adds that a sandbox is remembered for one workspace only    *)
(* and that an idle row contains what the published snapshot contains.     *)
(***************************************************************************)
EXTENDS GeneratorWorkspace, FiniteSetTheorems, TLAPS

CallSteps == Provisioning \cup {"idle", "again", "ensure", "verify", "confirm", "acquire", "holding"}

Calls == [pc : CallSteps, ws : Workspaces \cup {"none"}, box : Boxes \cup {NoBox},
          state : States, seed : Versions, pass : {0, 1}]

SnapSteps == {"idle", "reconcile", "acquire", "archive", "publish", "cleanup"}

Snaps == [pc : SnapSteps, ws : Workspaces \cup {"none"}, digest : Versions \cup {NoDigest},
          idle : {"no", "fresh", "stale"}, content : Versions]

Workflows == [state : {"generating", "judging", "ended"},
              digest : Versions \cup {NoDigest}, candidate : Versions]

Sandboxes == [ws : Workspaces \cup {"none"}, alive : BOOLEAN, content : Versions, edited : BOOLEAN]

\* The provider created this sandbox, whether or not it is still there.
Made(s) == s \in Boxes => box[s].ws # "none"

IsCurrent(w) == row[w].state \in {"pending", "active"}

\* The unique index: at most one current row.
OneCurrent == \A v, w \in Workspaces : IsCurrent(v) /\ IsCurrent(w) => v = w

RowOK(w) ==
    /\ row[w].state = "none" => row[w].box \notin Boxes
    /\ row[w].state \in {"deleting", "deleted"} => row[w].turn = NoTurn
    /\ row[w].state = "active" => row[w].box \in Boxes
    /\ row[w].state = "deleted" /\ row[w].box \in Boxes => ~box[row[w].box].alive
    /\ Made(row[w].box)

\* What a request remembers is good for the call it makes next.
CallOK(k) ==
    /\ Made(k.box)
    /\ k.pc \in Provisioning \cup {"verify", "confirm"} => k.ws \in Workspaces
    /\ k.pc \in {"record", "wait", "activate"} => k.box \in Boxes
    /\ k.pc = "publish" => row[k.ws].box \in Boxes

RowPart ==
    /\ row \in [Workspaces -> Rows]
    /\ OneCurrent
    /\ \A w \in Workspaces : RowOK(w)

OwnerPart ==
    /\ cr \in [Workspaces -> Owners]
    /\ \A w \in Workspaces : Made(cr[w].box)

RequestPart ==
    /\ call \in [Callers -> Calls]
    /\ \A c \in Callers : CallOK(call[c])

\* The archive the snapshotter has saved and not yet published is on disk.
SnapPart ==
    /\ snap \in Snaps
    /\ snap.pc \in {"reconcile", "archive", "publish"} => snap.ws \in Workspaces
    /\ snap.pc = "archive" => row[snap.ws].box \in Boxes
    /\ snap.pc = "publish" => store[snap.content] # "absent"

DiskPart ==
    /\ wf \in Workflows
    /\ store \in [Versions -> {"absent", "new", "old", "lost"}]
    /\ SnapshotIsOnDisk

RestPart ==
    /\ claim \in [Workspaces -> {"none", "owned", "orphan"}]
    /\ box \in [Boxes -> Sandboxes]
    /\ sweep.ids \subseteq Boxes
    /\ edits \in Versions
    /\ faults \in 0..MaxFaults

\* What the requests, the loops and the restarts keep between them.
WorkspaceInv == RowPart /\ OwnerPart /\ RequestPart /\ SnapPart /\ DiskPart /\ RestPart

-----------------------------------------------------------------------------
\* Bounds of the version numbers.
LEMMA VersionFacts ==
    /\ 0 \in Versions
    /\ NoDigest \notin Versions
    /\ \A n \in Versions : n < MaxEdits => n + 1 \in Versions
BY GeneratorAssumption DEF Versions, NoDigest

LEMMA UniqueIndex ==
    ASSUME OneCurrent PROVE Cardinality(Current) <= 1
<1>1. Current = {} \/ \E w \in Workspaces : Current = {w}
  BY DEF OneCurrent, Current, IsCurrent
<1>2. CASE Current = {}
  BY <1>2, FS_EmptySet
<1>3. ASSUME NEW w \in Workspaces, Current = {w} PROVE Cardinality(Current) <= 1
  BY <1>3, FS_Singleton
<1>q. QED
  BY <1>1, <1>2, <1>3

\* The inductive invariant implies what the runs check.
LEMMA InvariantSuffices ==
    ASSUME WorkspaceInv PROVE WorkspaceInvariant /\ DeletedMeansGone
<1>1. Cardinality(Current) <= 1
  BY UniqueIndex DEF WorkspaceInv, RowPart
<1>2. GeneratorTypeOK
  BY <1>1 DEF WorkspaceInv, RowPart, OwnerPart, DiskPart, RestPart, RowOK, GeneratorTypeOK,
              Workflows, Sandboxes
<1>3. SnapshotIsOnDisk
  BY DEF WorkspaceInv, DiskPart
<1>4. DeletedMeansGone
  BY DEF WorkspaceInv, RowPart, RowOK, DeletedMeansGone, Rows
<1>q. QED
  BY <1>2, <1>3, <1>4 DEF WorkspaceInvariant

LEMMA InitialWorkspace ==
    ASSUME Init PROVE WorkspaceInv
<1>1. NoRow \in Rows /\ NoRow.state = "none" /\ NoRow.box \notin Boxes
  BY GeneratorAssumption DEF NoRow, Rows, States
<1>2. NoOwner \in Owners /\ NoOwner.box \notin Boxes
  BY GeneratorAssumption DEF NoOwner, Owners
<1>3. NoCall \in Calls /\ NoCall.pc = "idle" /\ NoCall.box \notin Boxes
  BY GeneratorAssumption, VersionFacts DEF NoCall, Calls, CallSteps, States
<1>4. NoSnap \in Snaps /\ NoSnap.pc = "idle"
  BY VersionFacts DEF NoSnap, Snaps, SnapSteps
<1>5. RowPart
  BY <1>1 DEF Init, RowPart, OneCurrent, IsCurrent, RowOK, Made
<1>6. OwnerPart
  BY <1>2 DEF Init, OwnerPart, Made
<1>7. RequestPart
  BY <1>3 DEF Init, RequestPart, CallOK, Made, Provisioning
<1>8. SnapPart
  BY <1>4 DEF Init, SnapPart
<1>9. DiskPart
  BY VersionFacts DEF Init, DiskPart, Workflows, SnapshotIsOnDisk
<1>10. RestPart
  BY VersionFacts, GeneratorAssumption DEF Init, RestPart, Sandboxes
<1>q. QED
  BY <1>5, <1>6, <1>7, <1>8, <1>9, <1>10 DEF WorkspaceInv

-----------------------------------------------------------------------------
\* Sandboxes die and are not reused; rows only retire, complete or change turn.
BoxMoves(s) ==
    /\ box'[s].ws = box[s].ws
    /\ box'[s].alive => box[s].alive

RowMoves(w) ==
    /\ row'[w].state = "none" => row[w].state = "none"
    /\ row'[w].state \in {"pending", "active"} => row[w].state \in {"pending", "active"}
    /\ row'[w].state = "active" => row[w].state = "active"
    /\ row'[w].state = "deleted" => row[w].state = "deleted"
    /\ row'[w].state \in {"deleting", "deleted"} => row'[w].turn = NoTurn
    /\ row'[w].box = row[w].box

\* What others remember of the rows and the sandboxes stays true.
Steady ==
    /\ \A w \in Workspaces : row[w].box \in Boxes => row'[w].box \in Boxes
    /\ \A s \in Boxes : box[s].ws # "none" => box'[s].ws # "none"

StoreKept == \A v \in Versions : store[v] # "absent" => store'[v] # "absent"

LEMMA SteadyMoves ==
    ASSUME \A w \in Workspaces : RowMoves(w), \A s \in Boxes : BoxMoves(s)
    PROVE Steady
BY DEF RowMoves, BoxMoves, Steady

LEMMA RowsFollow ==
    ASSUME WorkspaceInv, row' \in [Workspaces -> Rows],
           \A w \in Workspaces : RowMoves(w), \A s \in Boxes : BoxMoves(s)
    PROVE RowPart'
<1>1. OneCurrent'
  BY DEF WorkspaceInv, RowPart, OneCurrent, IsCurrent, RowMoves
<1>2. ASSUME NEW w \in Workspaces PROVE RowOK(w)'
  <2>1. RowOK(w) /\ RowMoves(w)
    BY DEF WorkspaceInv, RowPart
  <2>2. row[w].box \in Boxes => BoxMoves(row[w].box)
    OBVIOUS
  <2>q. QED
    BY <2>1, <2>2 DEF RowOK, RowMoves, BoxMoves, Made
<1>q. QED
  BY <1>1, <1>2 DEF RowPart

LEMMA OwnersFollow ==
    ASSUME WorkspaceInv, Steady, cr' \in [Workspaces -> Owners],
           \A w \in Workspaces : cr'[w].box \in {cr[w].box, row[w].box, NoBox}
    PROVE OwnerPart'
<1>1. ASSUME NEW w \in Workspaces PROVE Made(cr[w].box)'
  <2>1. Made(cr[w].box) /\ Made(row[w].box)
    BY DEF WorkspaceInv, OwnerPart, RowPart, RowOK
  <2>q. QED
    BY <2>1, GeneratorAssumption DEF Made, Steady
<1>q. QED
  BY <1>1 DEF OwnerPart

LEMMA MemoryKept ==
    ASSUME Steady, NEW k \in Calls, CallOK(k) PROVE CallOK(k)'
BY DEF Steady, CallOK, Made, Provisioning

LEMMA RequestsKept ==
    ASSUME WorkspaceInv, Steady, call' = call PROVE RequestPart'
<1>1. ASSUME NEW c \in Callers PROVE CallOK(call[c])'
  <2>1. call[c] \in Calls /\ CallOK(call[c])
    BY DEF WorkspaceInv, RequestPart
  <2>2. PICK k \in Calls : k = call[c]
    BY <2>1
  <2>3. CallOK(k)'
    BY <2>1, <2>2, MemoryKept
  <2>q. QED
    BY <2>2, <2>3
<1>q. QED
  BY <1>1 DEF WorkspaceInv, RequestPart

\* One request moves on; what it remembers then is described by k.
LEMMA RequestMoves ==
    ASSUME WorkspaceInv, Steady, NEW c \in Callers, NEW k \in Calls,
           call' = [call EXCEPT ![c] = k], CallOK(k)'
    PROVE RequestPart'
<1>1. call' \in [Callers -> Calls]
  BY DEF WorkspaceInv, RequestPart
<1>2. ASSUME NEW d \in Callers PROVE CallOK(call[d])'
  <2>1. CASE d = c
    <3>1. call'[d] = k
      BY <2>1 DEF WorkspaceInv, RequestPart
    <3>q. QED
      BY <3>1
  <2>2. CASE d # c
    <3>1. call'[d] = call[d] /\ call[d] \in Calls /\ CallOK(call[d])
      BY <2>2 DEF WorkspaceInv, RequestPart
    <3>2. PICK j \in Calls : j = call[d]
      BY <3>1
    <3>3. CallOK(j)'
      BY <3>1, <3>2, MemoryKept
    <3>q. QED
      BY <3>1, <3>2, <3>3
  <2>q. QED
    BY <2>1, <2>2
<1>q. QED
  BY <1>1, <1>2 DEF RequestPart

\* A request that ends, or holds its turn, remembers nothing that could be wrong.
LEMMA RequestEnds ==
    ASSUME WorkspaceInv, Steady, NEW c \in Callers, NEW pc \in {"idle", "again", "holding"},
           Goto(c, pc)
    PROVE RequestPart'
<1>1. PICK k : k = [NoCall EXCEPT !.pc = pc]
  OBVIOUS
<1>2. k \in Calls /\ k.pc = pc /\ k.box \notin Boxes
  BY <1>1, VersionFacts, GeneratorAssumption DEF NoCall, Calls, CallSteps, States
<1>3. call' = [call EXCEPT ![c] = k]
  BY <1>1 DEF Goto
<1>4. CallOK(k)'
  BY <1>2 DEF CallOK, Made, Provisioning
<1>q. QED
  BY <1>2, <1>3, <1>4, RequestMoves

\* A request that goes on remembers what it did.
LEMMA RequestGoesOn ==
    ASSUME WorkspaceInv, Steady, NEW c \in Callers, NEW pc \in CallSteps,
           pc \notin {"idle", "again", "holding"}, Goto(c, pc),
           pc \in Provisioning \cup {"verify", "confirm"} => call[c].ws \in Workspaces,
           pc \in {"record", "wait", "activate"} => call[c].box \in Boxes,
           pc = "publish" => row'[call[c].ws].box \in Boxes
    PROVE RequestPart'
<1>1. call[c] \in Calls /\ CallOK(call[c])
  BY DEF WorkspaceInv, RequestPart
<1>2. PICK k : k = [call[c] EXCEPT !.pc = pc]
  OBVIOUS
<1>3. k \in Calls /\ k.pc = pc /\ k.ws = call[c].ws /\ k.box = call[c].box
  BY <1>1, <1>2 DEF Calls
<1>4. call' = [call EXCEPT ![c] = k]
  BY <1>2 DEF Goto
<1>5. Made(k.box)'
  BY <1>1, <1>3 DEF CallOK, Made, Steady
<1>6. CallOK(k)'
  BY <1>3, <1>5 DEF CallOK
<1>q. QED
  BY <1>3, <1>4, <1>6, RequestMoves

LEMMA SnapKept ==
    ASSUME WorkspaceInv, Steady, StoreKept, snap' = snap PROVE SnapPart'
<1>1. snap.content \in Versions
  BY DEF WorkspaceInv, SnapPart, Snaps
<1>q. QED
  BY <1>1 DEF WorkspaceInv, SnapPart, Steady, StoreKept

\* A workflow row whose snapshot pointer is kept or cleared.
LEMMA DiskKept ==
    ASSUME WorkspaceInv, StoreKept, wf' \in Workflows,
           store' \in [Versions -> {"absent", "new", "old", "lost"}],
           wf'.digest \in {wf.digest, NoDigest}
    PROVE DiskPart'
<1>1. wf.digest \in Versions \cup {NoDigest}
  BY DEF WorkspaceInv, DiskPart, Workflows
<1>q. QED
  BY <1>1 DEF WorkspaceInv, DiskPart, SnapshotIsOnDisk, StoreKept

-----------------------------------------------------------------------------
\* The three tables of a step that creates, activates and completes nothing.
RowsQuiet == row' \in [Workspaces -> Rows] /\ \A w \in Workspaces : RowMoves(w)

BoxesQuiet == box' \in [Boxes -> Sandboxes] /\ \A s \in Boxes : BoxMoves(s)

OwnersQuiet ==
    /\ cr' \in [Workspaces -> Owners]
    /\ \A w \in Workspaces : cr'[w].box \in {cr[w].box, row[w].box, NoBox}

RestQuiet ==
    /\ claim' \in [Workspaces -> {"none", "owned", "orphan"}]
    /\ sweep'.ids \subseteq Boxes
    /\ edits' \in Versions
    /\ faults' \in 0..MaxFaults

LEMMA QuietIsSteady ==
    ASSUME RowsQuiet, BoxesQuiet PROVE Steady
BY SteadyMoves DEF RowsQuiet, BoxesQuiet

LEMMA QuietStep ==
    ASSUME WorkspaceInv, RowsQuiet, BoxesQuiet, OwnersQuiet, RestQuiet,
           RequestPart', SnapPart', DiskPart'
    PROVE WorkspaceInv'
<1>1. Steady
  BY QuietIsSteady
<1>2. RowPart'
  BY RowsFollow DEF RowsQuiet, BoxesQuiet
<1>3. OwnerPart'
  BY <1>1, OwnersFollow DEF OwnersQuiet
<1>4. RestPart'
  BY DEF RestPart, RestQuiet, BoxesQuiet
<1>q. QED
  BY <1>2, <1>3, <1>4 DEF WorkspaceInv

LEMMA RowsUntouched ==
    ASSUME WorkspaceInv, row' = row PROVE RowsQuiet
BY DEF WorkspaceInv, RowPart, RowOK, RowsQuiet, RowMoves

LEMMA BoxesUntouched ==
    ASSUME WorkspaceInv, box' = box PROVE BoxesQuiet
BY DEF WorkspaceInv, RestPart, BoxesQuiet, BoxMoves

LEMMA OwnersUntouched ==
    ASSUME WorkspaceInv, cr' = cr PROVE OwnersQuiet
BY DEF WorkspaceInv, OwnerPart, OwnersQuiet

LEMMA RestUntouched ==
    ASSUME WorkspaceInv, claim' = claim, sweep' = sweep, edits' = edits, faults' = faults
    PROVE RestQuiet
BY DEF WorkspaceInv, RestPart, RestQuiet

LEMMA DiskUntouched ==
    ASSUME WorkspaceInv, wf' = wf, store' = store PROVE DiskPart' /\ StoreKept
BY DEF WorkspaceInv, DiskPart, SnapshotIsOnDisk, StoreKept

LEMMA SnapUntouched ==
    ASSUME WorkspaceInv, Steady, snap' = snap, store' = store PROVE SnapPart'
BY SnapKept DEF StoreKept

LEMMA OutcomeTyped ==
    ASSUME WorkspaceInv, NEW ok \in BOOLEAN, Outcome(ok) PROVE faults' \in 0..MaxFaults
BY GeneratorAssumption DEF WorkspaceInv, RestPart, Outcome

\* Deleting sandboxes, and writing the files of one, creates none.
LEMMA DeletedBoxes ==
    ASSUME WorkspaceInv, NEW ids, box' = DeleteWorkspaces(ids)
    PROVE BoxesQuiet /\ \A s \in Boxes : s \in ids => ~box'[s].alive
<1>1. ASSUME NEW s \in Boxes
      PROVE box'[s] \in Sandboxes /\ BoxMoves(s) /\ (s \in ids => ~box'[s].alive)
  <2>1. box[s] \in Sandboxes
    BY DEF WorkspaceInv, RestPart
  <2>2. PICK q : q = Emptied(box[s])
    OBVIOUS
  <2>3. q \in Sandboxes /\ q.ws = box[s].ws /\ ~q.alive
    BY <2>1, <2>2, VersionFacts DEF Sandboxes, Emptied
  <2>4. box'[s] = IF s \in ids THEN q ELSE box[s]
    BY <2>2 DEF DeleteWorkspaces
  <2>q. QED
    BY <2>1, <2>3, <2>4 DEF BoxMoves
<1>2. box' = [s \in Boxes |-> box'[s]]
  BY DEF DeleteWorkspaces
<1>3. box' \in [Boxes -> Sandboxes]
  BY <1>1, <1>2
<1>q. QED
  BY <1>1, <1>3 DEF BoxesQuiet

LEMMA WrittenBox ==
    ASSUME WorkspaceInv, NEW s, NEW v \in Versions, NEW e \in BOOLEAN,
           box' = [box EXCEPT ![s] = [@ EXCEPT !.content = v, !.edited = e]]
    PROVE BoxesQuiet
<1>1. ASSUME NEW t \in Boxes PROVE box'[t] \in Sandboxes /\ BoxMoves(t)
  <2>1. box[t] \in Sandboxes /\ box \in [Boxes -> Sandboxes]
    BY DEF WorkspaceInv, RestPart
  <2>2. PICK q : q = [box[t] EXCEPT !.content = v, !.edited = e]
    OBVIOUS
  <2>3. q \in Sandboxes /\ q.ws = box[t].ws /\ q.alive = box[t].alive
    BY <2>1, <2>2 DEF Sandboxes
  <2>4. box'[t] = IF t = s THEN q ELSE box[t]
    BY <2>1, <2>2
  <2>q. QED
    BY <2>1, <2>3, <2>4 DEF BoxMoves
<1>2. box' = [t \in Boxes |-> box'[t]]
  BY DEF WorkspaceInv, RestPart
<1>q. QED
  BY <1>1, <1>2 DEF BoxesQuiet

-----------------------------------------------------------------------------
\* What the repository's statements do to one row.
LEMMA RetiredRow ==
    ASSUME NEW r \in Rows
    PROVE /\ Retired(r) \in Rows
          /\ Retired(r).state = "deleting" /\ Retired(r).turn = NoTurn /\ Retired(r).box = r.box
BY DEF Retired, Rows, States

LEMMA RowsRetire ==
    ASSUME WorkspaceInv, NEW S,
           row' = [w \in Workspaces |-> IF w \in S THEN Retired(row[w]) ELSE row[w]]
    PROVE RowsQuiet
<1>1. ASSUME NEW w \in Workspaces PROVE row'[w] \in Rows /\ RowMoves(w)
  <2>1. row[w] \in Rows /\ RowOK(w)
    BY DEF WorkspaceInv, RowPart
  <2>q. QED
    BY <2>1, RetiredRow DEF RowMoves, RowOK
<1>q. QED
  BY <1>1 DEF RowsQuiet

LEMMA OneRowRetires ==
    ASSUME WorkspaceInv, NEW w, row' = [row EXCEPT ![w] = Retired(@)]
    PROVE RowsQuiet
<1>1. row' = [v \in Workspaces |-> IF v \in {w} THEN Retired(row[v]) ELSE row[v]]
  BY DEF WorkspaceInv, RowPart
<1>q. QED
  BY <1>1, RowsRetire

LEMMA CleanupRetires ==
    ASSUME WorkspaceInv, NEW w, BeginGeneratorWorkspaceCleanup(w) PROVE RowsQuiet
<1>1. row \in [Workspaces -> Rows]
  BY DEF WorkspaceInv, RowPart
<1>2. CASE row[w].state \in {"pending", "active"}
  <2>1. row' = [row EXCEPT ![w] = Retired(@)]
    BY <1>1, <1>2 DEF BeginGeneratorWorkspaceCleanup
  <2>q. QED
    BY <2>1, OneRowRetires
<1>3. CASE row[w].state \notin {"pending", "active"}
  <2>1. row' = row
    BY <1>1, <1>3 DEF BeginGeneratorWorkspaceCleanup
  <2>q. QED
    BY <2>1, RowsUntouched
<1>q. QED
  BY <1>2, <1>3

LEMMA IdleRetires ==
    ASSUME WorkspaceInv, NEW w, NEW d, RetireIdleGeneratorWorkspace(w, d) PROVE RowsQuiet
BY RowsUntouched, OneRowRetires DEF RetireIdleGeneratorWorkspace

\* A turn is taken or left, the idle age or the deadline changes.
LEMMA RowsTouched ==
    ASSUME WorkspaceInv, row' \in [Workspaces -> Rows],
           \A w \in Workspaces :
              /\ row'[w].state = row[w].state /\ row'[w].box = row[w].box
              /\ row[w].state # "active" => row'[w].turn = row[w].turn
    PROVE RowsQuiet
<1>1. ASSUME NEW w \in Workspaces PROVE RowMoves(w)
  <2>1. RowOK(w)
    BY DEF WorkspaceInv, RowPart
  <2>q. QED
    BY <2>1 DEF RowOK, RowMoves
<1>q. QED
  BY <1>1 DEF RowsQuiet

Turns == Callers \cup {NoTurn, Holder}

LEMMA TurnTaken ==
    ASSUME WorkspaceInv, NEW w \in Workspaces, NEW t \in Turns, row[w].state = "active",
           AcquireGeneratorWorkspaceTurn(w, t)
    PROVE RowsQuiet
<1>1. row \in [Workspaces -> Rows] /\ row[w] \in Rows
  BY DEF WorkspaceInv, RowPart
<1>2. PICK q : q = [row[w] EXCEPT !.turn = t, !.idle = "no"]
  OBVIOUS
<1>3. q \in Rows /\ q.state = row[w].state /\ q.box = row[w].box
  BY <1>1, <1>2 DEF Rows, Turns
<1>4. row' = row \/ row' = [row EXCEPT ![w] = q]
  BY <1>1, <1>2 DEF AcquireGeneratorWorkspaceTurn
<1>5. row' \in [Workspaces -> Rows]
  BY <1>1, <1>3, <1>4
<1>q. QED
  BY <1>1, <1>3, <1>4, <1>5, RowsTouched

LEMMA TurnLeft ==
    ASSUME WorkspaceInv, NEW t, ReleaseGeneratorWorkspaceTurn(t) PROVE RowsQuiet
<1>1. ASSUME NEW w \in Workspaces
      PROVE /\ row'[w] \in Rows /\ row'[w].state = row[w].state /\ row'[w].box = row[w].box
            /\ row[w].state # "active" => row'[w].turn = row[w].turn
  <2>1. row[w] \in Rows
    BY DEF WorkspaceInv, RowPart
  <2>2. PICK q : q = [row[w] EXCEPT !.turn = NoTurn, !.idle = "no"]
    OBVIOUS
  <2>3. q \in Rows /\ q.state = row[w].state /\ q.box = row[w].box
    BY <2>1, <2>2 DEF Rows
  <2>4. row'[w] = IF row[w].state = "active" /\ row[w].turn = t THEN q ELSE row[w]
    BY <2>2 DEF ReleaseGeneratorWorkspaceTurn
  <2>q. QED
    BY <2>1, <2>3, <2>4
<1>2. row' = [w \in Workspaces |-> row'[w]]
  BY DEF ReleaseGeneratorWorkspaceTurn
<1>3. row' \in [Workspaces -> Rows]
  BY <1>1, <1>2
<1>q. QED
  BY <1>1, <1>3, RowsTouched

LEMMA SnapshotTurnTaken ==
    ASSUME WorkspaceInv, NEW w \in Workspaces, AcquireGeneratorWorkspaceSnapshot(w)
    PROVE RowsQuiet /\ row[w].state = "active"
<1>1. row \in [Workspaces -> Rows] /\ row[w] \in Rows
  BY DEF WorkspaceInv, RowPart
<1>2. PICK q : q = [row[w] EXCEPT !.turn = Holder, !.idle = "no"]
  OBVIOUS
<1>3. q \in Rows /\ q.state = row[w].state /\ q.box = row[w].box
  BY <1>1, <1>2 DEF Rows
<1>4. row' = [row EXCEPT ![w] = q] /\ row[w].state = "active"
  BY <1>1, <1>2 DEF AcquireGeneratorWorkspaceSnapshot
<1>5. row' \in [Workspaces -> Rows]
  BY <1>1, <1>3, <1>4
<1>q. QED
  BY <1>1, <1>3, <1>4, <1>5, RowsTouched

LEMMA SnapshotPublished ==
    ASSUME WorkspaceInv, NEW w \in Workspaces, NEW d, PublishGeneratorWorkspaceSnapshot(w, d)
    PROVE RowsQuiet
<1>1. row \in [Workspaces -> Rows] /\ row[w] \in Rows
  BY DEF WorkspaceInv, RowPart
<1>2. PICK q : q = [row[w] EXCEPT !.turn = NoTurn, !.idle = "fresh"]
  OBVIOUS
<1>3. q \in Rows /\ q.state = row[w].state /\ q.box = row[w].box
  BY <1>1, <1>2 DEF Rows
<1>4. row' = [row EXCEPT ![w] = q] /\ row[w].state = "active"
  BY <1>1, <1>2 DEF PublishGeneratorWorkspaceSnapshot
<1>5. row' \in [Workspaces -> Rows]
  BY <1>1, <1>3, <1>4
<1>q. QED
  BY <1>1, <1>3, <1>4, <1>5, RowsTouched

LEMMA SnapshotCleared ==
    ASSUME WorkspaceInv, ClearGeneratorWorkspaceSnapshot
    PROVE RowsQuiet /\ wf' \in Workflows /\ wf'.digest = NoDigest
<1>1. ASSUME NEW w \in Workspaces
      PROVE /\ row'[w] \in Rows /\ row'[w].state = row[w].state /\ row'[w].box = row[w].box
            /\ row'[w].turn = row[w].turn
  <2>1. row[w] \in Rows
    BY DEF WorkspaceInv, RowPart
  <2>2. PICK q : q = [row[w] EXCEPT !.idle = "no"]
    OBVIOUS
  <2>3. q \in Rows /\ q.state = row[w].state /\ q.box = row[w].box /\ q.turn = row[w].turn
    BY <2>1, <2>2 DEF Rows
  <2>4. row'[w] = IF row[w].state = "active" THEN q ELSE row[w]
    BY <2>2 DEF ClearGeneratorWorkspaceSnapshot
  <2>q. QED
    BY <2>1, <2>3, <2>4
<1>2. row' = [w \in Workspaces |-> row'[w]]
  BY DEF ClearGeneratorWorkspaceSnapshot
<1>3. row' \in [Workspaces -> Rows]
  BY <1>1, <1>2
<1>4. RowsQuiet
  BY <1>1, <1>3, RowsTouched
<1>5. wf' \in Workflows /\ wf'.digest = NoDigest
  BY DEF WorkspaceInv, DiskPart, Workflows, ClearGeneratorWorkspaceSnapshot
<1>q. QED
  BY <1>4, <1>5
-----------------------------------------------------------------------------
\* Starting a turn.
LEMMA SeedStep ==
    ASSUME WorkspaceInv, NEW c \in Callers, WorkspaceSeed(c) PROVE WorkspaceInv'
<1> DEFINE readable == wf.digest # NoDigest /\ Readable(wf.digest)
           again == IF call[c].pc = "again" THEN 1 ELSE 0
           seed == IF readable THEN wf.digest ELSE wf.candidate
<1>1. PICK k : k = [NoCall EXCEPT !.pc = "ensure", !.pass = again, !.seed = seed]
  OBVIOUS
<1>2. wf \in Workflows
  BY DEF WorkspaceInv, DiskPart
<1>3. seed \in Versions /\ again \in {0, 1}
  BY <1>2 DEF Workflows
<1>4. k \in Calls /\ k.pc = "ensure" /\ k.box \notin Boxes
  BY <1>1, <1>3, GeneratorAssumption DEF NoCall, Calls, CallSteps, States
<1>5. call' = [call EXCEPT ![c] = k]
  BY <1>1 DEF WorkspaceSeed
<1>6. BoxesQuiet /\ OwnersQuiet /\ RestQuiet
  BY BoxesUntouched, OwnersUntouched, RestUntouched DEF WorkspaceSeed, cluster
<1>7. ClearGeneratorWorkspaceSnapshot \/ (wf' = wf /\ row' = row)
  BY DEF WorkspaceSeed
<1>8. RowsQuiet /\ wf' \in Workflows /\ wf'.digest \in {wf.digest, NoDigest}
  BY <1>2, <1>7, SnapshotCleared, RowsUntouched
<1>9. Steady
  BY <1>6, <1>8, QuietIsSteady
<1>10. CallOK(k)'
  BY <1>4 DEF CallOK, Made, Provisioning
<1>11. RequestPart'
  BY <1>4, <1>5, <1>9, <1>10, RequestMoves
<1>12. store' = store /\ snap' = snap
  BY DEF WorkspaceSeed
<1>13. SnapPart'
  BY <1>9, <1>12, SnapUntouched
<1>14. store' \in [Versions -> {"absent", "new", "old", "lost"}] /\ StoreKept
  BY <1>12 DEF WorkspaceInv, DiskPart, StoreKept
<1>15. DiskPart'
  BY <1>8, <1>14, DiskKept
<1>q. QED
  BY <1>6, <1>8, <1>11, <1>13, <1>15, QuietStep

LEMMA AllocatedRow ==
    ASSUME WorkspaceInv, NEW w \in Workspaces, Current = {}, CreateGeneratorWorkspace(w),
           box' = box
    PROVE RowPart' /\ Steady
<1>1. PICK r : r = [NoRow EXCEPT !.state = "pending"]
  OBVIOUS
<1>2. r \in Rows /\ r.state = "pending" /\ r.box \notin Boxes
  BY <1>1, GeneratorAssumption DEF NoRow, Rows, States
<1>3. row' = [row EXCEPT ![w] = r] /\ row[w].state = "none"
  BY <1>1 DEF CreateGeneratorWorkspace
<1>4. row \in [Workspaces -> Rows] /\ \A v \in Workspaces : RowOK(v)
  BY DEF WorkspaceInv, RowPart
<1>5. row' \in [Workspaces -> Rows] /\ row'[w] = r /\ \A v \in Workspaces : v # w => row'[v] = row[v]
  BY <1>2, <1>3, <1>4
<1>6. OneCurrent'
  BY <1>5 DEF OneCurrent, IsCurrent, Current
<1>7. ASSUME NEW v \in Workspaces PROVE RowOK(v)'
  <2>1. CASE v = w
    BY <1>2, <1>5, <2>1 DEF RowOK, Made
  <2>2. CASE v # w
    BY <1>4, <1>5, <2>2 DEF RowOK, Made
  <2>q. QED
    BY <2>1, <2>2
<1>8. row[w].box \notin Boxes
  BY <1>3, <1>4 DEF RowOK
<1>9. Steady
  BY <1>5, <1>8 DEF Steady
<1>q. QED
  BY <1>5, <1>6, <1>7, <1>9 DEF RowPart

LEMMA EnsureStep ==
    ASSUME WorkspaceInv, NEW c \in Callers, EnsureRow(c) PROVE WorkspaceInv'
<1>1. call[c] \in Calls /\ CallOK(call[c]) /\ row \in [Workspaces -> Rows]
  BY DEF WorkspaceInv, RequestPart, RowPart
<1>2. /\ wf' = wf /\ cr' = cr /\ claim' = claim /\ box' = box /\ snap' = snap
      /\ sweep' = sweep /\ store' = store /\ edits' = edits /\ faults' = faults
  BY DEF EnsureRow, cluster
<1>3. DiskPart'
  BY <1>2, DiskUntouched
<1>4. RestPart'
  BY <1>2 DEF WorkspaceInv, RestPart
<1>5. OwnersQuiet
  BY <1>2, OwnersUntouched
<1>6. ASSUME NEW w \in Workspaces, Current = {}, CreateGeneratorWorkspace(w),
             call' = [call EXCEPT ![c].ws = w, ![c].box = NoBox,
                                  ![c].state = "pending", ![c].pc = "owner"]
      PROVE WorkspaceInv'
  <2>1. PICK k : k = [call[c] EXCEPT !.ws = w, !.box = NoBox, !.state = "pending", !.pc = "owner"]
    OBVIOUS
  <2>2. k \in Calls /\ k.ws = w /\ k.box \notin Boxes /\ k.pc = "owner"
    BY <1>1, <2>1, GeneratorAssumption DEF Calls, CallSteps, Provisioning, States
  <2>3. call' = [call EXCEPT ![c] = k]
    BY <1>6, <2>1 DEF WorkspaceInv, RequestPart
  <2>4. RowPart' /\ Steady
    BY <1>2, <1>6, AllocatedRow
  <2>5. CallOK(k)'
    BY <2>2 DEF CallOK, Made
  <2>6. RequestPart'
    BY <2>2, <2>3, <2>4, <2>5, RequestMoves
  <2>7. OwnerPart' /\ SnapPart'
    BY <1>2, <1>5, <2>4, OwnersFollow, SnapUntouched DEF OwnersQuiet
  <2>q. QED
    BY <1>3, <1>4, <2>4, <2>6, <2>7 DEF WorkspaceInv
<1>7. ASSUME NEW w \in Current, row' = row,
             call' = [call EXCEPT ![c].ws = w, ![c].box = row[w].box, ![c].state = row[w].state,
                        ![c].pc = IF row[w].state = "active" THEN "verify" ELSE "owner"]
      PROVE WorkspaceInv'
  <2> DEFINE next == IF row[w].state = "active" THEN "verify" ELSE "owner"
  <2>1. PICK k : k = [call[c] EXCEPT !.ws = w, !.box = row[w].box, !.state = row[w].state, !.pc = next]
    OBVIOUS
  <2>2. w \in Workspaces /\ row[w] \in Rows /\ RowOK(w)
    BY <1>1, <1>7 DEF Current, WorkspaceInv, RowPart
  <2>3. k \in Calls /\ k.ws = w /\ k.box = row[w].box /\ k.pc \in {"verify", "owner"}
    BY <1>1, <2>1, <2>2 DEF Calls, CallSteps, Provisioning, Rows
  <2>4. call' = [call EXCEPT ![c] = k]
    BY <1>7, <2>1 DEF WorkspaceInv, RequestPart
  <2>5. RowsQuiet /\ BoxesQuiet
    BY <1>2, <1>7, RowsUntouched, BoxesUntouched
  <2>6. Steady
    BY <2>5, QuietIsSteady
  <2>7. CallOK(k)'
    BY <1>2, <1>7, <2>2, <2>3 DEF CallOK, RowOK, Made
  <2>8. RequestPart'
    BY <2>3, <2>4, <2>6, <2>7, RequestMoves
  <2>9. SnapPart' /\ RestQuiet
    BY <1>2, <2>6, SnapUntouched, RestUntouched
  <2>q. QED
    BY <1>3, <1>5, <2>5, <2>8, <2>9, QuietStep
<1>8. \/ \E w \in Workspaces :
           /\ Current = {} /\ CreateGeneratorWorkspace(w)
           /\ call' = [call EXCEPT ![c].ws = w, ![c].box = NoBox,
                                  ![c].state = "pending", ![c].pc = "owner"]
      \/ \E w \in Current :
           /\ row' = row
           /\ call' = [call EXCEPT ![c].ws = w, ![c].box = row[w].box, ![c].state = row[w].state,
                        ![c].pc = IF row[w].state = "active" THEN "verify" ELSE "owner"]
  BY DEF EnsureRow
<1>q. QED
  BY <1>6, <1>7, <1>8
-----------------------------------------------------------------------------
\* The owner store.
LEMMA StatusRecorded ==
    ASSUME NEW o \in Owners, NEW s \in Boxes \cup {NoBox}, NEW state
    PROVE /\ RecordWorkspaceOwnerStatus(o, s, state) \in Owners
          /\ RecordWorkspaceOwnerStatus(o, s, state).box \in {s, NoBox}
<1>1. CreatedOwner \in Owners /\ CreatedOwner.box = NoBox
  BY DEF CreatedOwner, NoOwner, Owners
<1>2. PICK p : p = IF state \in {"active", "deleting"} THEN state ELSE "pending"
  OBVIOUS
<1>3. PICK q : q = [o EXCEPT !.facts = TRUE, !.box = s, !.phase = p]
  OBVIOUS
<1>4. q \in Owners /\ q.box = s
  BY <1>2, <1>3 DEF Owners
<1>5. RecordWorkspaceOwnerStatus(o, s, state) = IF ~o.exists THEN CreatedOwner ELSE q
  BY <1>2, <1>3 DEF RecordWorkspaceOwnerStatus
<1>q. QED
  BY <1>1, <1>4, <1>5

LEMMA OwnerRetired ==
    ASSUME NEW o \in Owners
    PROVE RetireWorkspaceOwner(o) \in Owners /\ RetireWorkspaceOwner(o).box = o.box
BY DEF RetireWorkspaceOwner, Owners

LEMMA OwnerEnsured ==
    ASSUME NEW o \in Owners
    PROVE EnsureWorkspaceOwner(o) \in Owners /\ EnsureWorkspaceOwner(o).box \in {o.box, NoBox}
BY DEF EnsureWorkspaceOwner, CreatedOwner, NoOwner, Owners

LEMMA OwnerPatched ==
    ASSUME WorkspaceInv, NEW w \in Workspaces, NEW o \in Owners,
           o.box \in {cr[w].box, row[w].box, NoBox}, cr' = [cr EXCEPT ![w] = o]
    PROVE OwnersQuiet
BY DEF WorkspaceInv, OwnerPart, OwnersQuiet

LEMMA StatusPatched ==
    ASSUME WorkspaceInv, NEW w \in Workspaces, NEW s \in {row[w].box, NoBox}, NEW state,
           cr' = [cr EXCEPT ![w] = RecordWorkspaceOwnerStatus(@, s, state)]
    PROVE OwnersQuiet
<1>1. cr \in [Workspaces -> Owners] /\ row[w] \in Rows
  BY DEF WorkspaceInv, OwnerPart, RowPart
<1>2. cr[w] \in Owners /\ s \in Boxes \cup {NoBox}
  BY <1>1 DEF Rows
<1>3. PICK o : o = RecordWorkspaceOwnerStatus(cr[w], s, state)
  OBVIOUS
<1>4. o \in Owners /\ o.box \in {s, NoBox}
  BY <1>2, <1>3, StatusRecorded
<1>5. cr' = [cr EXCEPT ![w] = o]
  BY <1>1, <1>3
<1>q. QED
  BY <1>4, <1>5, OwnerPatched

LEMMA RetiredPatched ==
    ASSUME WorkspaceInv, NEW w \in Workspaces, cr' = [cr EXCEPT ![w] = RetireWorkspaceOwner(@)]
    PROVE OwnersQuiet
<1>1. cr \in [Workspaces -> Owners] /\ cr[w] \in Owners
  BY DEF WorkspaceInv, OwnerPart
<1>2. PICK o : o = RetireWorkspaceOwner(cr[w])
  OBVIOUS
<1>3. o \in Owners /\ o.box = cr[w].box
  BY <1>1, <1>2, OwnerRetired
<1>4. cr' = [cr EXCEPT ![w] = o]
  BY <1>1, <1>2
<1>q. QED
  BY <1>3, <1>4, OwnerPatched

LEMMA Compensated ==
    ASSUME WorkspaceInv, NEW c \in Callers, call[c].pc \in {"record", "activate"},
           Compensate(c), row' = row
    PROVE RowsQuiet /\ BoxesQuiet /\ OwnersQuiet /\ RequestPart'
<1>1. call[c].ws \in Workspaces
  BY DEF WorkspaceInv, RequestPart, CallOK, Provisioning
<1>2. RowsQuiet
  BY RowsUntouched
<1>3. BoxesQuiet
  BY DeletedBoxes DEF Compensate
<1>4. OwnersQuiet
  BY <1>1, StatusPatched DEF Compensate
<1>5. RequestPart'
  BY <1>2, <1>3, QuietIsSteady, RequestEnds DEF Compensate
<1>q. QED
  BY <1>2, <1>3, <1>4, <1>5

-----------------------------------------------------------------------------
\* Provisioning.
LEMMA VerifyStep ==
    ASSUME WorkspaceInv, NEW c \in Callers, VerifySandbox(c) PROVE WorkspaceInv'
<1> DEFINE w == call[c].ws
           found == FindWorkspace(w)
<1>1. /\ wf' = wf /\ claim' = claim /\ snap' = snap /\ sweep' = sweep
      /\ store' = store /\ edits' = edits /\ faults' = faults
  BY DEF VerifySandbox
<1>2. w \in Workspaces
  BY DEF WorkspaceInv, RequestPart, CallOK, VerifySandbox
<1>3. RestQuiet /\ DiskPart'
  BY <1>1, RestUntouched, DiskUntouched
<1>4. ASSUME NEW pc \in {"acquire", "idle"}, Goto(c, pc), row' = row, cr' = cr, box' = box
      PROVE WorkspaceInv'
  <2>1. RowsQuiet /\ BoxesQuiet /\ OwnersQuiet
    BY <1>4, RowsUntouched, BoxesUntouched, OwnersUntouched
  <2>2. Steady
    BY <2>1, QuietIsSteady
  <2>3. RequestPart'
    BY <1>4, <2>2, RequestEnds, RequestGoesOn DEF CallSteps, Provisioning
  <2>4. SnapPart'
    BY <1>1, <2>2, SnapUntouched
  <2>q. QED
    BY <1>3, <2>1, <2>3, <2>4, QuietStep
<1>5. ASSUME box' = DeleteWorkspaces(found), RetireCurrentGeneratorWorkspace,
             cr' = IF Current = {} THEN cr ELSE [cr EXCEPT ![w] = RetireWorkspaceOwner(@)],
             Goto(c, "ensure")
      PROVE WorkspaceInv'
  <2>1. RowsQuiet
    BY <1>5, RowsRetire DEF RetireCurrentGeneratorWorkspace
  <2>2. BoxesQuiet
    BY <1>5, DeletedBoxes
  <2>3. OwnersQuiet
    BY <1>2, <1>5, OwnersUntouched, RetiredPatched
  <2>4. Steady
    BY <2>1, <2>2, QuietIsSteady
  <2>5. RequestPart'
    BY <1>5, <2>4, RequestGoesOn DEF CallSteps, Provisioning
  <2>6. SnapPart'
    BY <1>1, <2>4, SnapUntouched
  <2>q. QED
    BY <1>3, <2>1, <2>2, <2>3, <2>5, <2>6, QuietStep
<1>q. QED
  BY <1>4, <1>5 DEF VerifySandbox

LEMMA ClaimStep ==
    ASSUME WorkspaceInv, NEW c \in Callers, EnsureOwnerAndClaim(c) PROVE WorkspaceInv'
<1> DEFINE w == call[c].ws
<1>1. /\ wf' = wf /\ row' = row /\ box' = box /\ snap' = snap
      /\ sweep' = sweep /\ store' = store /\ edits' = edits
  BY DEF EnsureOwnerAndClaim
<1>2. call[c] \in Calls /\ w \in Workspaces
  BY DEF WorkspaceInv, RequestPart, CallOK, EnsureOwnerAndClaim, Provisioning
<1>3. PICK ok \in BOOLEAN :
        /\ Outcome(ok)
        /\ cr' = [cr EXCEPT ![w] = EnsureWorkspaceOwner(@)]
        /\ IF ok THEN EnsureWorkspacePVC(w) ELSE UNCHANGED claim
        /\ Goto(c, IF ~ok THEN "idle" ELSE IF call[c].box = NoBox THEN "find" ELSE "wait")
  BY DEF EnsureOwnerAndClaim
<1>4. RowsQuiet /\ BoxesQuiet /\ DiskPart'
  BY <1>1, RowsUntouched, BoxesUntouched, DiskUntouched
<1>5. Steady
  BY <1>4, QuietIsSteady
<1>6. OwnersQuiet
  <2>1. cr \in [Workspaces -> Owners] /\ cr[w] \in Owners
    BY <1>2 DEF WorkspaceInv, OwnerPart
  <2>2. PICK o : o = EnsureWorkspaceOwner(cr[w])
    OBVIOUS
  <2>3. o \in Owners /\ o.box \in {cr[w].box, NoBox}
    BY <2>1, <2>2, OwnerEnsured
  <2>4. cr' = [cr EXCEPT ![w] = o]
    BY <1>3, <2>1, <2>2
  <2>q. QED
    BY <1>2, <2>3, <2>4, OwnerPatched
<1>7. RestQuiet
  <2>1. claim' \in [Workspaces -> {"none", "owned", "orphan"}]
    BY <1>3 DEF EnsureWorkspacePVC, WorkspaceInv, RestPart
  <2>2. faults' \in 0..MaxFaults
    BY <1>3, OutcomeTyped
  <2>q. QED
    BY <1>1, <2>1, <2>2 DEF WorkspaceInv, RestPart, RestQuiet
<1>8. RequestPart'
  <2>1. CASE ~ok
    BY <1>3, <1>5, <2>1, RequestEnds
  <2>2. CASE ok /\ call[c].box = NoBox
    <3>1. Goto(c, "find")
      BY <1>3, <2>2
    <3>q. QED
      BY <1>2, <1>5, <3>1, RequestGoesOn DEF CallSteps, Provisioning
  <2>3. CASE ok /\ call[c].box # NoBox
    <3>1. Goto(c, "wait") /\ call[c].box \in Boxes
      BY <1>2, <1>3, <2>3 DEF Calls
    <3>q. QED
      BY <1>2, <1>5, <3>1, RequestGoesOn DEF CallSteps, Provisioning
  <2>q. QED
    BY <2>1, <2>2, <2>3
<1>9. SnapPart'
  BY <1>1, <1>5, SnapUntouched
<1>q. QED
  BY <1>4, <1>6, <1>7, <1>8, <1>9, QuietStep

\* A request that only reads, or remembers a sandbox it found.
LEMMA ReadingStep ==
    ASSUME WorkspaceInv, RequestPart', wf' = wf, row' = row, cr' = cr, claim' = claim,
           box' = box, snap' = snap, sweep' = sweep, store' = store, edits' = edits,
           faults' = faults
    PROVE WorkspaceInv'
<1>1. RowsQuiet /\ BoxesQuiet /\ OwnersQuiet /\ RestQuiet /\ DiskPart'
  BY RowsUntouched, BoxesUntouched, OwnersUntouched, RestUntouched, DiskUntouched
<1>2. SnapPart'
  BY <1>1, QuietIsSteady, SnapUntouched
<1>q. QED
  BY <1>1, <1>2, QuietStep

LEMMA UntouchedIsSteady ==
    ASSUME row' = row, box' = box PROVE Steady
BY DEF Steady

LEMMA FindStep ==
    ASSUME WorkspaceInv, NEW c \in Callers, FindSandbox(c) PROVE WorkspaceInv'
<1> DEFINE w == call[c].ws
           found == FindWorkspace(w)
<1>1. /\ wf' = wf /\ row' = row /\ cr' = cr /\ claim' = claim /\ box' = box /\ snap' = snap
      /\ sweep' = sweep /\ store' = store /\ edits' = edits /\ faults' = faults
  BY DEF FindSandbox, cluster
<1>2. call[c] \in Calls /\ w \in Workspaces
  BY DEF WorkspaceInv, RequestPart, CallOK, FindSandbox, Provisioning
<1>3. Steady
  BY <1>1, UntouchedIsSteady
<1>4. RequestPart'
  <2>1. CASE Goto(c, "create")
    BY <1>2, <1>3, <2>1, RequestGoesOn DEF CallSteps, Provisioning
  <2>2. CASE Goto(c, "idle")
    BY <1>3, <2>2, RequestEnds
  <2>3. ASSUME NEW s \in found, call' = [call EXCEPT ![c].box = s, ![c].pc = "record"]
        PROVE RequestPart'
    <3>1. s \in Boxes /\ box[s].ws # "none"
      BY <1>2, <2>3, GeneratorAssumption DEF FindWorkspace
    <3>2. PICK k : k = [call[c] EXCEPT !.box = s, !.pc = "record"]
      OBVIOUS
    <3>3. k \in Calls /\ k.pc = "record" /\ k.box = s /\ k.ws = w
      BY <1>2, <3>1, <3>2 DEF Calls, CallSteps, Provisioning
    <3>4. call' = [call EXCEPT ![c] = k]
      BY <2>3, <3>2 DEF WorkspaceInv, RequestPart
    <3>5. CallOK(k)'
      BY <1>1, <1>2, <3>1, <3>3 DEF CallOK, Made
    <3>q. QED
      BY <1>3, <3>3, <3>4, <3>5, RequestMoves
  <2>q. QED
    BY <2>1, <2>2, <2>3 DEF FindSandbox
<1>q. QED
  BY <1>1, <1>4, ReadingStep
\* The provider never hands out an id again: no row, owner or request remembers it.
LEMMA CreateStep ==
    ASSUME WorkspaceInv, NEW c \in Callers, CreateSandbox(c) PROVE WorkspaceInv'
<1> DEFINE w == call[c].ws
<1>1. /\ wf' = wf /\ row' = row /\ cr' = cr /\ claim' = claim /\ snap' = snap
      /\ sweep' = sweep /\ store' = store /\ edits' = edits /\ faults' = faults
  BY DEF CreateSandbox, cluster
<1>2. call[c] \in Calls /\ w \in Workspaces
  BY DEF WorkspaceInv, RequestPart, CallOK, CreateSandbox, Provisioning
<1>3. PICK s \in Boxes :
        /\ CreateWorkspace(w, s)
        /\ call' = [call EXCEPT ![c].box = s, ![c].pc = "record"]
  BY DEF CreateSandbox
<1>4. PICK q : q = [ws |-> w, alive |-> TRUE, content |-> 0, edited |-> FALSE]
  OBVIOUS
<1>5. q \in Sandboxes /\ q.ws = w
  BY <1>2, <1>4, VersionFacts DEF Sandboxes
<1>6. box[s].ws = "none" /\ box' = [box EXCEPT ![s] = q] /\ box \in [Boxes -> Sandboxes]
  BY <1>3, <1>4 DEF CreateWorkspace, WorkspaceInv, RestPart
<1>7. /\ box' \in [Boxes -> Sandboxes] /\ box'[s].ws = w
      /\ \A t \in Boxes : t # s => box'[t] = box[t]
  BY <1>5, <1>6
<1>8. Steady
  BY <1>1, <1>6, <1>7 DEF Steady
<1>9. RowPart'
  <2>1. row \in [Workspaces -> Rows] /\ OneCurrent'
    BY <1>1 DEF WorkspaceInv, RowPart, OneCurrent, IsCurrent
  <2>2. ASSUME NEW v \in Workspaces PROVE RowOK(v)'
    <3>1. RowOK(v)
      BY DEF WorkspaceInv, RowPart
    <3>2. row[v].box \in Boxes => row[v].box # s /\ box'[row[v].box] = box[row[v].box]
      BY <1>6, <1>7, <3>1 DEF RowOK, Made
    <3>q. QED
      BY <1>1, <3>1, <3>2 DEF RowOK, Made
  <2>q. QED
    BY <1>1, <2>1, <2>2 DEF RowPart
<1>10. OwnerPart'
  BY <1>1, <1>8, OwnersUntouched, OwnersFollow DEF OwnersQuiet
<1>11. RequestPart'
  <2>1. PICK k : k = [call[c] EXCEPT !.box = s, !.pc = "record"]
    OBVIOUS
  <2>2. k \in Calls /\ k.pc = "record" /\ k.box = s /\ k.ws = w
    BY <1>2, <2>1 DEF Calls, CallSteps, Provisioning
  <2>3. call' = [call EXCEPT ![c] = k]
    BY <1>3, <2>1 DEF WorkspaceInv, RequestPart
  <2>4. CallOK(k)'
    BY <1>2, <1>7, <2>2, GeneratorAssumption DEF CallOK, Made
  <2>q. QED
    BY <1>8, <2>2, <2>3, <2>4, RequestMoves
<1>12. SnapPart' /\ DiskPart'
  BY <1>1, <1>8, SnapUntouched, DiskUntouched
<1>13. RestPart'
  BY <1>1, <1>7 DEF WorkspaceInv, RestPart
<1>q. QED
  BY <1>9, <1>10, <1>11, <1>12, <1>13 DEF WorkspaceInv

LEMMA RowBound ==
    ASSUME WorkspaceInv, NEW w \in Workspaces, NEW s \in Boxes, box[s].ws # "none",
           row[w].state \in {"pending", "active"}, row[w].box \in {NoBox, s},
           NEW r \in Rows, r.box = s, r.state \in {"pending", "active"},
           row' = [row EXCEPT ![w] = r], box' = box
    PROVE RowPart' /\ Steady
<1>1. row \in [Workspaces -> Rows] /\ \A v \in Workspaces : RowOK(v)
  BY DEF WorkspaceInv, RowPart
<1>2. row' \in [Workspaces -> Rows] /\ row'[w] = r /\ \A v \in Workspaces : v # w => row'[v] = row[v]
  BY <1>1
<1>3. OneCurrent'
  BY <1>2 DEF WorkspaceInv, RowPart, OneCurrent, IsCurrent
<1>4. ASSUME NEW v \in Workspaces PROVE RowOK(v)'
  <2>1. CASE v = w
    BY <1>2, <2>1 DEF RowOK, Made
  <2>2. CASE v # w
    BY <1>1, <1>2, <2>2 DEF RowOK, Made
  <2>q. QED
    BY <2>1, <2>2
<1>5. Steady
  BY <1>2, GeneratorAssumption DEF Steady
<1>q. QED
  BY <1>2, <1>3, <1>4, <1>5 DEF RowPart

\* A step that binds a row to a sandbox, and the request that does it.
LEMMA BindingStep ==
    ASSUME WorkspaceInv, RowPart', Steady, RequestPart', wf' = wf, cr' = cr, claim' = claim,
           box' = box, snap' = snap, sweep' = sweep, store' = store, edits' = edits,
           faults' = faults
    PROVE WorkspaceInv'
<1>1. OwnerPart'
  BY OwnersUntouched, OwnersFollow DEF OwnersQuiet
<1>2. SnapPart' /\ DiskPart'
  BY SnapUntouched, DiskUntouched
<1>3. RestPart'
  BY DEF WorkspaceInv, RestPart
<1>q. QED
  BY <1>1, <1>2, <1>3 DEF WorkspaceInv

\* A refused or failed record or activation deletes the sandbox.
LEMMA CompensatingStep ==
    ASSUME WorkspaceInv, NEW c \in Callers, call[c].pc \in {"record", "activate"},
           Compensate(c), wf' = wf, row' = row, claim' = claim, snap' = snap, sweep' = sweep,
           store' = store, edits' = edits, faults' \in 0..MaxFaults
    PROVE WorkspaceInv'
<1>1. RowsQuiet /\ BoxesQuiet /\ OwnersQuiet /\ RequestPart'
  BY Compensated
<1>2. SnapPart' /\ DiskPart'
  BY <1>1, QuietIsSteady, SnapUntouched, DiskUntouched
<1>3. RestQuiet
  BY DEF WorkspaceInv, RestPart, RestQuiet
<1>q. QED
  BY <1>1, <1>2, <1>3, QuietStep

LEMMA RecordStep ==
    ASSUME WorkspaceInv, NEW c \in Callers, RecordSandbox(c) PROVE WorkspaceInv'
<1> DEFINE w == call[c].ws
           s == call[c].box
<1>1. /\ wf' = wf /\ claim' = claim /\ snap' = snap /\ sweep' = sweep
      /\ store' = store /\ edits' = edits /\ faults' = faults /\ call[c].pc = "record"
  BY DEF RecordSandbox
<1>2. /\ w \in Workspaces /\ s \in Boxes /\ box[s].ws # "none"
      /\ row \in [Workspaces -> Rows] /\ faults \in 0..MaxFaults
  BY <1>1 DEF WorkspaceInv, RequestPart, RowPart, RestPart, CallOK, Made, Provisioning
<1>3. ASSUME RecordGeneratorWorkspaceSandbox(w, s), Goto(c, "publish"), cr' = cr, box' = box
      PROVE WorkspaceInv'
  <2>1. row[w].state = "pending" /\ row[w].box \in {NoBox, s} /\ row[w] \in Rows
    BY <1>2, <1>3 DEF RecordGeneratorWorkspaceSandbox
  <2>2. PICK r : r = [row[w] EXCEPT !.box = s]
    OBVIOUS
  <2>3. r \in Rows /\ r.box = s /\ r.state = "pending"
    BY <1>2, <2>1, <2>2 DEF Rows
  <2>4. row' = [row EXCEPT ![w] = r]
    BY <1>2, <1>3, <2>2 DEF RecordGeneratorWorkspaceSandbox
  <2>5. RowPart' /\ Steady
    BY <1>2, <1>3, <2>1, <2>3, <2>4, RowBound
  <2>6. row'[w].box \in Boxes
    BY <1>2, <2>3, <2>4
  <2>7. RequestPart'
    BY <1>2, <1>3, <2>5, <2>6, RequestGoesOn DEF CallSteps, Provisioning
  <2>q. QED
    BY <1>1, <1>3, <2>5, <2>7, BindingStep
<1>4. ASSUME Compensate(c), row' = row PROVE WorkspaceInv'
  BY <1>1, <1>2, <1>4, CompensatingStep
<1>q. QED
  BY <1>3, <1>4 DEF RecordSandbox

LEMMA ActivateStep ==
    ASSUME WorkspaceInv, NEW c \in Callers, Activate(c) PROVE WorkspaceInv'
<1> DEFINE w == call[c].ws
           s == call[c].box
<1>1. /\ wf' = wf /\ claim' = claim /\ snap' = snap /\ sweep' = sweep
      /\ store' = store /\ edits' = edits /\ faults' = faults /\ call[c].pc = "activate"
  BY DEF Activate
<1>2. /\ w \in Workspaces /\ s \in Boxes /\ box[s].ws # "none"
      /\ row \in [Workspaces -> Rows] /\ faults \in 0..MaxFaults
  BY <1>1 DEF WorkspaceInv, RequestPart, RowPart, RestPart, CallOK, Made, Provisioning
<1>3. ASSUME ActivateGeneratorWorkspace(w, s), Goto(c, "confirm"), cr' = cr, box' = box
      PROVE WorkspaceInv'
  <2>1. row[w].state \in {"pending", "active"} /\ row[w].box \in {NoBox, s} /\ row[w] \in Rows
    BY <1>2, <1>3 DEF ActivateGeneratorWorkspace
  <2>2. PICK r : r = [row[w] EXCEPT !.box = s, !.state = "active", !.expired = FALSE]
    OBVIOUS
  <2>3. r \in Rows /\ r.box = s /\ r.state = "active"
    BY <1>2, <2>1, <2>2 DEF Rows, States
  <2>4. row' = [row EXCEPT ![w] = r]
    BY <1>2, <1>3, <2>2 DEF ActivateGeneratorWorkspace
  <2>5. RowPart' /\ Steady
    BY <1>2, <1>3, <2>1, <2>3, <2>4, RowBound
  <2>6. RequestPart'
    BY <1>2, <1>3, <2>5, RequestGoesOn DEF CallSteps, Provisioning
  <2>q. QED
    BY <1>1, <1>3, <2>5, <2>6, BindingStep
<1>4. ASSUME Compensate(c), row' = row PROVE WorkspaceInv'
  BY <1>1, <1>2, <1>4, CompensatingStep
<1>q. QED
  BY <1>3, <1>4 DEF Activate

LEMMA PublishStep ==
    ASSUME WorkspaceInv, NEW c \in Callers,
           NEW from \in {"publish", "confirm"}, NEW to \in {"wait", "acquire"},
           from = "publish" <=> to = "wait", PublishOwner(c, from, to)
    PROVE WorkspaceInv'
<1> DEFINE w == call[c].ws
<1>1. /\ wf' = wf /\ row' = row /\ claim' = claim /\ box' = box /\ snap' = snap
      /\ sweep' = sweep /\ store' = store /\ edits' = edits /\ call[c].pc = from
  BY DEF PublishOwner
<1>2. call[c] \in Calls /\ w \in Workspaces /\ row[w] \in Rows /\ Made(row[w].box)
  BY <1>1 DEF WorkspaceInv, RequestPart, RowPart, RowOK, CallOK, Provisioning
<1>3. PICK ok \in BOOLEAN :
        /\ Outcome(ok)
        /\ cr' = IF ok THEN [cr EXCEPT ![w] = RecordWorkspaceOwnerStatus(@, row[w].box, row[w].state)]
                 ELSE cr
  BY DEF PublishOwner
<1>4. RowsQuiet /\ BoxesQuiet /\ DiskPart'
  BY <1>1, RowsUntouched, BoxesUntouched, DiskUntouched
<1>5. OwnersQuiet
  BY <1>2, <1>3, StatusPatched, OwnersUntouched
<1>6. RestQuiet
  BY <1>1, <1>3, OutcomeTyped DEF WorkspaceInv, RestPart, RestQuiet
<1>7. Steady
  BY <1>4, QuietIsSteady
<1>8. RequestPart'
  <2>1. CASE to = "wait"
    <3>1. PICK k : k = [call[c] EXCEPT !.box = row[w].box, !.state = row[w].state, !.pc = to]
      OBVIOUS
    <3>2. k \in Calls /\ k.pc = "wait" /\ k.box = row[w].box /\ k.ws = w
      BY <1>2, <2>1, <3>1 DEF Calls, CallSteps, Provisioning, Rows
    <3>3. call' = [call EXCEPT ![c] = k]
      BY <2>1, <3>1 DEF PublishOwner, WorkspaceInv, RequestPart
    <3>4. row[w].box \in Boxes
      BY <1>1, <2>1 DEF WorkspaceInv, RequestPart, CallOK
    <3>5. CallOK(k)'
      BY <1>1, <1>2, <3>2, <3>4 DEF CallOK, Made
    <3>q. QED
      BY <1>7, <3>2, <3>3, <3>5, RequestMoves
  <2>2. CASE to # "wait"
    <3>1. PICK k : k = [NoCall EXCEPT !.pc = to, !.pass = call[c].pass]
      OBVIOUS
    <3>2. k \in Calls /\ k.pc = "acquire" /\ k.box \notin Boxes
      BY <1>2, <2>2, <3>1, VersionFacts, GeneratorAssumption DEF NoCall, Calls, CallSteps, States
    <3>3. call' = [call EXCEPT ![c] = k]
      BY <2>2, <3>1 DEF PublishOwner
    <3>4. CallOK(k)'
      BY <3>2 DEF CallOK, Made, Provisioning
    <3>q. QED
      BY <1>7, <3>2, <3>3, <3>4, RequestMoves
  <2>q. QED
    BY <2>1, <2>2
<1>9. SnapPart'
  BY <1>1, <1>7, SnapUntouched
<1>q. QED
  BY <1>4, <1>5, <1>6, <1>8, <1>9, QuietStep
LEMMA SeedingStep ==
    ASSUME WorkspaceInv, NEW c \in Callers, SeedSandbox(c) PROVE WorkspaceInv'
<1> DEFINE s == call[c].box
<1>1. /\ wf' = wf /\ row' = row /\ cr' = cr /\ claim' = claim /\ snap' = snap
      /\ sweep' = sweep /\ store' = store /\ edits' = edits /\ faults' = faults
      /\ call[c].pc = "wait"
  BY DEF SeedSandbox, cluster
<1>2. call[c] \in Calls /\ call[c].ws \in Workspaces /\ s \in Boxes
  BY <1>1 DEF WorkspaceInv, RequestPart, CallOK, Provisioning
<1>3. BoxesQuiet
  <2>1. call[c].seed \in Versions
    BY <1>2 DEF Calls
  <2>2. ResetWorkspace(s, call[c].seed) \/ box' = box
    BY DEF SeedSandbox
  <2>q. QED
    BY <2>1, <2>2, WrittenBox, BoxesUntouched DEF ResetWorkspace
<1>4. RowsQuiet /\ OwnersQuiet /\ RestQuiet /\ DiskPart'
  BY <1>1, RowsUntouched, OwnersUntouched, RestUntouched, DiskUntouched
<1>5. Steady
  BY <1>3, <1>4, QuietIsSteady
<1>6. RequestPart'
  <2>1. CASE Goto(c, "activate")
    BY <1>2, <1>5, <2>1, RequestGoesOn DEF CallSteps, Provisioning
  <2>2. CASE Goto(c, "idle")
    BY <1>5, <2>2, RequestEnds
  <2>q. QED
    BY <2>1, <2>2 DEF SeedSandbox
<1>7. SnapPart'
  BY <1>1, <1>5, SnapUntouched
<1>q. QED
  BY <1>3, <1>4, <1>6, <1>7, QuietStep

\* A request whose memory alone changes, and which may have spent a failure.
LEMMA RequestStep ==
    ASSUME WorkspaceInv, RowsQuiet, RequestPart', wf' = wf, cr' = cr, claim' = claim,
           box' = box, snap' = snap, sweep' = sweep, store' = store, edits' = edits,
           faults' \in 0..MaxFaults
    PROVE WorkspaceInv'
<1>1. BoxesQuiet /\ OwnersQuiet /\ DiskPart'
  BY BoxesUntouched, OwnersUntouched, DiskUntouched
<1>2. SnapPart'
  BY <1>1, QuietIsSteady, SnapUntouched
<1>3. RestQuiet
  BY DEF WorkspaceInv, RestPart, RestQuiet
<1>q. QED
  BY <1>1, <1>2, <1>3, QuietStep

LEMMA FailingStep ==
    ASSUME WorkspaceInv, NEW c \in Callers, ProvisionFails(c) PROVE WorkspaceInv'
<1>1. /\ wf' = wf /\ row' = row /\ claim' = claim /\ snap' = snap
      /\ sweep' = sweep /\ store' = store /\ edits' = edits
  BY DEF ProvisionFails
<1>2. faults' \in 0..MaxFaults
  <2>1. Outcome(FALSE) \/ faults' = faults
    BY DEF ProvisionFails
  <2>q. QED
    BY <2>1, OutcomeTyped DEF WorkspaceInv, RestPart
<1>3. CASE call[c].pc \in {"record", "activate"}
  <2>1. Compensate(c)
    BY <1>3 DEF ProvisionFails
  <2>q. QED
    BY <1>1, <1>2, <1>3, <2>1, CompensatingStep
<1>4. CASE call[c].pc \notin {"record", "activate"}
  <2>1. Goto(c, "idle") /\ cr' = cr /\ box' = box
    BY <1>4 DEF ProvisionFails
  <2>2. Steady
    BY <1>1, <2>1, UntouchedIsSteady
  <2>3. RequestPart'
    BY <2>1, <2>2, RequestEnds
  <2>q. QED
    BY <1>1, <1>2, <2>1, <2>3, RowsUntouched, RequestStep
<1>q. QED
  BY <1>3, <1>4

LEMMA TurnStep ==
    ASSUME WorkspaceInv, NEW c \in Callers, AcquireTurn(c) PROVE WorkspaceInv'
<1> DEFINE active == {w \in Workspaces : row[w].state = "active"}
<1>1. /\ wf' = wf /\ cr' = cr /\ claim' = claim /\ box' = box /\ snap' = snap
      /\ sweep' = sweep /\ store' = store /\ edits' = edits /\ faults' = faults
  BY DEF AcquireTurn, cluster
<1>2. faults' \in 0..MaxFaults
  BY <1>1 DEF WorkspaceInv, RestPart
<1>3. PICK pc \in {"idle", "again", "holding"} :
        Goto(c, pc) /\ (row' = row \/ \E w \in active : AcquireGeneratorWorkspaceTurn(w, c))
  BY DEF AcquireTurn
<1>4. RowsQuiet
  BY <1>3, RowsUntouched, TurnTaken DEF Turns
<1>5. Steady
  BY <1>1, <1>4, BoxesUntouched, QuietIsSteady
<1>6. RequestPart'
  BY <1>3, <1>5, RequestEnds
<1>q. QED
  BY <1>1, <1>2, <1>4, <1>6, RequestStep

\* The request ends and nothing else happens: refused, or its turn was lost.
LEMMA RefusedStep ==
    ASSUME WorkspaceInv, NEW c \in Callers, StartRefused(c) \/ TurnLost(c) PROVE WorkspaceInv'
<1>1. /\ wf' = wf /\ row' = row /\ cr' = cr /\ claim' = claim /\ box' = box /\ snap' = snap
      /\ sweep' = sweep /\ store' = store /\ edits' = edits /\ faults' = faults
      /\ Goto(c, "idle")
  BY DEF StartRefused, TurnLost, cluster
<1>2. Steady
  BY <1>1, UntouchedIsSteady
<1>3. RequestPart'
  BY <1>1, <1>2, RequestEnds
<1>q. QED
  BY <1>1, <1>3, ReadingStep

-----------------------------------------------------------------------------
\* Working in the turn.
LEMMA WriteStep ==
    ASSUME WorkspaceInv, NEW c \in Callers, WriteWorkspaceFile(c) PROVE WorkspaceInv'
<1>1. /\ wf' = wf /\ row' = row /\ cr' = cr /\ claim' = claim /\ call' = call /\ snap' = snap
      /\ sweep' = sweep /\ store' = store /\ faults' = faults
  BY DEF WriteWorkspaceFile, cluster
<1>2. edits \in Versions /\ edits < MaxEdits /\ edits' = edits + 1
  BY DEF WriteWorkspaceFile, WorkspaceInv, RestPart
<1>3. edits' \in Versions
  BY <1>2, VersionFacts
<1>4. PICK w \in Workspaces :
        box' = [box EXCEPT ![row[w].box] = [@ EXCEPT !.content = edits + 1, !.edited = TRUE]]
  BY DEF WriteWorkspaceFile
<1>5. BoxesQuiet
  BY <1>2, <1>3, <1>4, WrittenBox
<1>6. RowsQuiet /\ OwnersQuiet /\ DiskPart'
  BY <1>1, RowsUntouched, OwnersUntouched, DiskUntouched
<1>7. RestQuiet
  BY <1>1, <1>3 DEF WorkspaceInv, RestPart, RestQuiet
<1>8. Steady
  BY <1>5, <1>6, QuietIsSteady
<1>9. RequestPart' /\ SnapPart'
  BY <1>1, <1>8, RequestsKept, SnapUntouched
<1>q. QED
  BY <1>5, <1>6, <1>7, <1>9, QuietStep

LEMMA EndTurnStep ==
    ASSUME WorkspaceInv, NEW c \in Callers, EndWorkspaceTurn(c) PROVE WorkspaceInv'
<1>1. /\ wf' = wf /\ cr' = cr /\ claim' = claim /\ box' = box /\ snap' = snap
      /\ sweep' = sweep /\ store' = store /\ edits' = edits /\ faults' = faults
      /\ ReleaseGeneratorWorkspaceTurn(c) /\ Goto(c, "idle")
  BY DEF EndWorkspaceTurn, cluster
<1>2. RowsQuiet
  BY <1>1, TurnLeft
<1>3. Steady
  BY <1>1, <1>2, BoxesUntouched, QuietIsSteady
<1>4. RequestPart' /\ faults' \in 0..MaxFaults
  BY <1>1, <1>3, RequestEnds DEF WorkspaceInv, RestPart
<1>q. QED
  BY <1>1, <1>2, <1>4, RequestStep

\* The archive of an active row's sandbox is a version.
LEMMA ArchiveTyped ==
    ASSUME WorkspaceInv, NEW s \in Boxes PROVE ArchiveWorkspace(s) \in Versions
BY DEF WorkspaceInv, RestPart, Sandboxes, ArchiveWorkspace

LEMMA SubmitStep ==
    ASSUME WorkspaceInv, NEW c \in Callers, SubmitCandidate(c) PROVE WorkspaceInv'
<1>1. /\ cr' = cr /\ claim' = claim /\ box' = box /\ snap' = snap
      /\ sweep' = sweep /\ store' = store /\ edits' = edits /\ faults' = faults
      /\ ReleaseGeneratorWorkspaceTurn(c) /\ Goto(c, "idle")
  BY DEF SubmitCandidate, cluster
<1>2. PICK w \in Workspaces :
        /\ GeneratingWorkspace(c, w)
        /\ wf' = [state |-> "judging", digest |-> NoDigest, candidate |-> ArchiveWorkspace(row[w].box)]
  BY DEF SubmitCandidate
<1>3. row[w].box \in Boxes
  BY <1>2 DEF GeneratingWorkspace, GetGeneratorWorkspaceForTurn, WorkspaceInv, RowPart, RowOK
<1>4. wf' \in Workflows /\ wf'.digest = NoDigest
  BY <1>2, <1>3, ArchiveTyped DEF Workflows
<1>5. store' \in [Versions -> {"absent", "new", "old", "lost"}] /\ StoreKept
  BY <1>1 DEF WorkspaceInv, DiskPart, StoreKept
<1>6. DiskPart'
  BY <1>4, <1>5, DiskKept
<1>7. RowsQuiet /\ BoxesQuiet /\ OwnersQuiet /\ RestQuiet
  BY <1>1, TurnLeft, BoxesUntouched, OwnersUntouched, RestUntouched
<1>8. Steady
  BY <1>7, QuietIsSteady
<1>9. RequestPart' /\ SnapPart'
  BY <1>1, <1>8, RequestEnds, SnapUntouched
<1>q. QED
  BY <1>6, <1>7, <1>9, QuietStep

LEMMA WorkflowStep ==
    ASSUME WorkspaceInv, WorkflowMoves PROVE WorkspaceInv'
<1>1. /\ row' = row /\ cr' = cr /\ claim' = claim /\ box' = box /\ snap' = snap /\ call' = call
      /\ sweep' = sweep /\ store' = store /\ edits' = edits /\ faults' = faults
  BY DEF WorkflowMoves, cluster, request
<1>2. wf' \in Workflows /\ wf'.digest = wf.digest
  BY DEF WorkflowMoves, WorkspaceInv, DiskPart, Workflows
<1>3. store' \in [Versions -> {"absent", "new", "old", "lost"}] /\ StoreKept
  BY <1>1 DEF WorkspaceInv, DiskPart, StoreKept
<1>4. DiskPart'
  BY <1>2, <1>3, DiskKept
<1>5. RowsQuiet /\ BoxesQuiet /\ OwnersQuiet /\ RestQuiet
  BY <1>1, RowsUntouched, BoxesUntouched, OwnersUntouched, RestUntouched
<1>6. Steady
  BY <1>5, QuietIsSteady
<1>7. RequestPart' /\ SnapPart'
  BY <1>1, <1>6, RequestsKept, SnapUntouched
<1>q. QED
  BY <1>4, <1>5, <1>7, QuietStep
-----------------------------------------------------------------------------
\* The snapshotter.
LEMMA SnapStep ==
    ASSUME WorkspaceInv, RowsQuiet, SnapPart', DiskPart', cr' = cr, claim' = claim,
           box' = box, call' = call, sweep' = sweep, edits' = edits, faults' \in 0..MaxFaults
    PROVE WorkspaceInv'
<1>1. BoxesQuiet /\ OwnersQuiet
  BY BoxesUntouched, OwnersUntouched
<1>2. RestQuiet
  BY DEF WorkspaceInv, RestPart, RestQuiet
<1>3. RequestPart'
  BY <1>1, QuietIsSteady, RequestsKept
<1>q. QED
  BY <1>1, <1>2, <1>3, QuietStep

LEMMA SnapPauses ==
    ASSUME WorkspaceInv, NEW pc \in {"idle", "acquire", "cleanup"}, SnapGoto(pc)
    PROVE SnapPart'
<1>1. snap \in Snaps
  BY DEF WorkspaceInv, SnapPart
<1>2. snap' \in Snaps /\ snap'.pc = pc
  BY <1>1, VersionFacts DEF SnapGoto, NoSnap, Snaps, SnapSteps
<1>q. QED
  BY <1>2 DEF SnapPart

LEMMA TargetStep ==
    ASSUME WorkspaceInv, ListSnapshotTarget PROVE WorkspaceInv'
<1>1. /\ wf' = wf /\ row' = row /\ cr' = cr /\ claim' = claim /\ box' = box /\ call' = call
      /\ sweep' = sweep /\ store' = store /\ edits' = edits /\ faults' = faults
  BY DEF ListSnapshotTarget, cluster, request
<1>2. PICK w \in Workspaces :
        snap' = [NoSnap EXCEPT !.pc = "reconcile", !.ws = w, !.digest = wf.digest, !.idle = row[w].idle]
  BY DEF ListSnapshotTarget, ListGeneratorWorkspaceSnapshotTargets
<1>3. row[w] \in Rows /\ wf \in Workflows
  BY DEF WorkspaceInv, RowPart, DiskPart
<1>4. snap' \in Snaps /\ snap'.pc = "reconcile" /\ snap'.ws = w
  BY <1>2, <1>3, VersionFacts DEF NoSnap, Snaps, SnapSteps, Rows, Workflows
<1>5. SnapPart'
  BY <1>4 DEF SnapPart
<1>6. RowsQuiet /\ DiskPart' /\ faults' \in 0..MaxFaults
  BY <1>1, RowsUntouched, DiskUntouched DEF WorkspaceInv, RestPart
<1>q. QED
  BY <1>1, <1>5, <1>6, SnapStep

LEMMA ReconcileSnapshotStep ==
    ASSUME WorkspaceInv, ReconcileSnapshot PROVE WorkspaceInv'
<1>1. /\ cr' = cr /\ claim' = claim /\ box' = box /\ call' = call
      /\ sweep' = sweep /\ store' = store /\ edits' = edits /\ faults' = faults
  BY DEF ReconcileSnapshot, cluster, request
<1>2. /\ SnapGoto("acquire") \/ SnapGoto("cleanup")
      /\ \/ wf' = wf /\ row' = row
         \/ wf' = wf /\ RetireIdleGeneratorWorkspace(snap.ws, snap.digest)
         \/ ClearGeneratorWorkspaceSnapshot
  BY DEF ReconcileSnapshot
<1>3. SnapPart'
  BY <1>2, SnapPauses
<1>4. RowsQuiet /\ wf' \in Workflows /\ wf'.digest \in {wf.digest, NoDigest}
  BY <1>2, RowsUntouched, IdleRetires, SnapshotCleared DEF WorkspaceInv, DiskPart
<1>5. store' \in [Versions -> {"absent", "new", "old", "lost"}] /\ StoreKept
      /\ faults' \in 0..MaxFaults
  BY <1>1 DEF WorkspaceInv, DiskPart, RestPart, StoreKept
<1>6. DiskPart'
  BY <1>4, <1>5, DiskKept
<1>q. QED
  BY <1>1, <1>3, <1>4, <1>5, <1>6, SnapStep

LEMMA AcquireSnapshotStep ==
    ASSUME WorkspaceInv, AcquireSnapshot PROVE WorkspaceInv'
<1>1. /\ wf' = wf /\ cr' = cr /\ claim' = claim /\ box' = box /\ call' = call
      /\ sweep' = sweep /\ store' = store /\ edits' = edits /\ faults' = faults
  BY DEF AcquireSnapshot, cluster, request
<1>2. DiskPart' /\ faults' \in 0..MaxFaults
  BY <1>1, DiskUntouched DEF WorkspaceInv, RestPart
<1>3. ASSUME NEW w \in Workspaces, AcquireGeneratorWorkspaceSnapshot(w),
             snap' = [snap EXCEPT !.pc = "archive", !.ws = w]
      PROVE WorkspaceInv'
  <2>1. RowsQuiet /\ row[w].state = "active"
    BY <1>3, SnapshotTurnTaken
  <2>2. row'[w].box \in Boxes
    BY <2>1 DEF WorkspaceInv, RowPart, RowOK, RowsQuiet, RowMoves
  <2>3. snap' \in Snaps /\ snap'.pc = "archive" /\ snap'.ws = w
    BY <1>3 DEF WorkspaceInv, SnapPart, Snaps, SnapSteps
  <2>4. SnapPart'
    BY <2>2, <2>3 DEF SnapPart
  <2>q. QED
    BY <1>1, <1>2, <2>1, <2>4, SnapStep
<1>4. CASE SnapGoto("cleanup") /\ row' = row
  BY <1>1, <1>2, <1>4, SnapPauses, RowsUntouched, SnapStep
<1>q. QED
  BY <1>3, <1>4 DEF AcquireSnapshot

\* An archive that is saved is on disk, whatever was there before.
LEMMA Saved ==
    ASSUME WorkspaceInv, NEW v \in Versions, Save(v)
    PROVE /\ store' \in [Versions -> {"absent", "new", "old", "lost"}]
          /\ StoreKept /\ store'[v] # "absent"
<1>1. store \in [Versions -> {"absent", "new", "old", "lost"}]
  BY DEF WorkspaceInv, DiskPart
<1>2. PICK x : x = IF Readable(v) THEN store[v] ELSE "new"
  OBVIOUS
<1>3. x \in {"new", "old"}
  BY <1>2 DEF Readable
<1>4. store' = [store EXCEPT ![v] = x]
  BY <1>1, <1>2 DEF Save
<1>q. QED
  BY <1>1, <1>3, <1>4 DEF StoreKept

LEMMA ArchiveStep ==
    ASSUME WorkspaceInv, ArchiveAndSave PROVE WorkspaceInv'
<1> DEFINE s == row[snap.ws].box
           v == ArchiveWorkspace(s)
<1>1. /\ wf' = wf /\ cr' = cr /\ claim' = claim /\ box' = box /\ call' = call
      /\ sweep' = sweep /\ edits' = edits /\ snap.pc = "archive"
  BY DEF ArchiveAndSave, cluster, request
<1>2. s \in Boxes /\ v \in Versions /\ wf \in Workflows /\ faults \in 0..MaxFaults
  BY <1>1, ArchiveTyped DEF WorkspaceInv, SnapPart, DiskPart, RestPart
<1>3. ASSUME snap' = [snap EXCEPT !.pc = "publish", !.content = v], Save(v),
             row' = row, faults' = faults
      PROVE WorkspaceInv'
  <2>1. snap' \in Snaps /\ snap'.pc = "publish" /\ snap'.content = v /\ snap'.ws \in Workspaces
    BY <1>1, <1>2, <1>3 DEF WorkspaceInv, SnapPart, Snaps, SnapSteps
  <2>2. /\ store' \in [Versions -> {"absent", "new", "old", "lost"}]
        /\ StoreKept /\ store'[v] # "absent"
    BY <1>2, <1>3, Saved
  <2>3. SnapPart'
    BY <2>1, <2>2 DEF SnapPart
  <2>4. DiskPart'
    BY <1>1, <1>2, <2>2, DiskKept
  <2>q. QED
    BY <1>1, <1>2, <1>3, <2>3, <2>4, RowsUntouched, SnapStep
<1>4. ASSUME IF box[s].alive THEN Outcome(FALSE) ELSE UNCHANGED faults,
             ReleaseGeneratorWorkspaceTurn(Holder), SnapGoto("cleanup"), store' = store
      PROVE WorkspaceInv'
  <2>1. faults' \in 0..MaxFaults
    <3>1. Outcome(FALSE) \/ faults' = faults
      BY <1>4
    <3>q. QED
      BY <1>2, <3>1, OutcomeTyped
  <2>2. SnapPart' /\ DiskPart' /\ RowsQuiet
    BY <1>1, <1>4, SnapPauses, DiskUntouched, TurnLeft
  <2>q. QED
    BY <1>1, <2>1, <2>2, SnapStep
<1>q. QED
  BY <1>3, <1>4 DEF ArchiveAndSave

LEMMA PublishSnapshotStep ==
    ASSUME WorkspaceInv, PublishSnapshot PROVE WorkspaceInv'
<1>1. /\ cr' = cr /\ claim' = claim /\ box' = box /\ call' = call /\ sweep' = sweep
      /\ store' = store /\ edits' = edits /\ faults' = faults
      /\ snap.pc = "publish" /\ SnapGoto("cleanup")
  BY DEF PublishSnapshot, cluster, request
<1>2. SnapPart' /\ faults' \in 0..MaxFaults
  BY <1>1, SnapPauses DEF WorkspaceInv, RestPart
<1>3. snap.ws \in Workspaces /\ snap.content \in Versions /\ store[snap.content] # "absent"
  BY <1>1 DEF WorkspaceInv, SnapPart, Snaps
<1>4. CASE PublishGeneratorWorkspaceSnapshot(snap.ws, snap.content)
  <2>1. RowsQuiet
    BY <1>3, <1>4, SnapshotPublished
  <2>2. wf' \in Workflows /\ wf'.digest = snap.content
    BY <1>3, <1>4 DEF PublishGeneratorWorkspaceSnapshot, WorkspaceInv, DiskPart, Workflows
  <2>3. DiskPart'
    BY <1>1, <1>3, <2>2 DEF WorkspaceInv, DiskPart, SnapshotIsOnDisk
  <2>q. QED
    BY <1>1, <1>2, <2>1, <2>3, SnapStep
<1>5. CASE ReleaseGeneratorWorkspaceTurn(Holder) /\ wf' = wf
  BY <1>1, <1>2, <1>5, TurnLeft, DiskUntouched, SnapStep
<1>q. QED
  BY <1>4, <1>5 DEF PublishSnapshot

LEMMA CleanupSnapshotsStep ==
    ASSUME WorkspaceInv, CleanupSnapshots PROVE WorkspaceInv'
<1>1. /\ wf' = wf /\ row' = row /\ cr' = cr /\ claim' = claim /\ box' = box /\ call' = call
      /\ sweep' = sweep /\ edits' = edits /\ faults' = faults /\ SnapGoto("idle")
      /\ Cleanup({wf.digest})
  BY DEF CleanupSnapshots, ListGeneratorWorkspaceSnapshotReferences, cluster, request
<1>2. SnapPart' /\ RowsQuiet /\ faults' \in 0..MaxFaults
  BY <1>1, SnapPauses, RowsUntouched DEF WorkspaceInv, RestPart
<1>3. /\ store' \in [Versions -> {"absent", "new", "old", "lost"}]
      /\ \A v \in Versions : v = wf.digest => store'[v] = store[v]
  BY <1>1 DEF Cleanup, WorkspaceInv, DiskPart
<1>4. DiskPart'
  BY <1>1, <1>3 DEF WorkspaceInv, DiskPart, Workflows, SnapshotIsOnDisk
<1>q. QED
  BY <1>1, <1>2, <1>4, SnapStep
-----------------------------------------------------------------------------
\* The reaper, the reconciler and the sanitizer.
\* A step of the loops that leaves requests, archives and workflows alone.
LEMMA LoopStep ==
    ASSUME WorkspaceInv, RowPart', Steady, BoxesQuiet, OwnersQuiet, RestQuiet, wf' = wf,
           call' = call, snap' = snap, store' = store
    PROVE WorkspaceInv'
<1>1. OwnerPart'
  BY OwnersFollow DEF OwnersQuiet
<1>2. RequestPart' /\ SnapPart' /\ DiskPart'
  BY RequestsKept, SnapUntouched, DiskUntouched
<1>3. RestPart'
  BY DEF RestPart, RestQuiet, BoxesQuiet
<1>q. QED
  BY <1>1, <1>2, <1>3 DEF WorkspaceInv

LEMMA QuietLoopStep ==
    ASSUME WorkspaceInv, RowsQuiet, BoxesQuiet, OwnersQuiet, RestQuiet, wf' = wf,
           call' = call, snap' = snap, store' = store
    PROVE WorkspaceInv'
BY QuietIsSteady, RowsFollow, LoopStep DEF RowsQuiet, BoxesQuiet

LEMMA CleanupDueStep ==
    ASSUME WorkspaceInv, NEW w \in Workspaces, CleanupDue(w) PROVE WorkspaceInv'
<1>1. /\ wf' = wf /\ claim' = claim /\ box' = box /\ call' = call /\ snap' = snap
      /\ sweep' = sweep /\ store' = store /\ edits' = edits
      /\ BeginGeneratorWorkspaceCleanup(w)
  BY DEF CleanupDue, request
<1>2. PICK ok \in BOOLEAN :
        /\ Outcome(ok)
        /\ cr' = IF ok THEN [cr EXCEPT ![w] = RetireWorkspaceOwner(@)] ELSE cr
  BY DEF CleanupDue
<1>3. RowsQuiet /\ BoxesQuiet
  BY <1>1, CleanupRetires, BoxesUntouched
<1>4. OwnersQuiet
  BY <1>2, RetiredPatched, OwnersUntouched
<1>5. RestQuiet
  BY <1>1, <1>2, OutcomeTyped DEF WorkspaceInv, RestPart, RestQuiet
<1>q. QED
  BY <1>1, <1>3, <1>4, <1>5, QuietLoopStep

\* The sandbox goes before the row is completed, and the owner after both.
LEMMA Dropped ==
    ASSUME WorkspaceInv, NEW w \in Workspaces, row[w].state \in {"deleting", "deleted"},
           NEW done \in 0..3, DropWorkspace(w, done)
    PROVE /\ RowPart' /\ Steady /\ BoxesQuiet /\ OwnersQuiet
          /\ claim' \in [Workspaces -> {"none", "owned", "orphan"}]
<1> DEFINE recorded == IF row[w].box # NoBox THEN row[w].box ELSE cr[w].box
<1>1. /\ box' = IF done >= 1 THEN DeleteWorkspaces({recorded}) ELSE box
      /\ done >= 2 => MarkGeneratorWorkspaceDeleted(w)
      /\ ~(done >= 2) => row' = row
      /\ IF done = 3 THEN DeleteWorkspaceOwner(w) ELSE UNCHANGED cluster
  BY DEF DropWorkspace
<1>2. BoxesQuiet
  BY <1>1, DeletedBoxes, BoxesUntouched
<1>3. /\ row \in [Workspaces -> Rows] /\ \A v \in Workspaces : RowOK(v)
      /\ cr \in [Workspaces -> Owners] /\ claim \in [Workspaces -> {"none", "owned", "orphan"}]
  BY DEF WorkspaceInv, RowPart, OwnerPart, RestPart
<1>4. NoOwner \in Owners /\ NoOwner.box = NoBox
  BY DEF NoOwner, Owners
<1>5. OwnersQuiet
  <2>1. CASE done = 3
    BY <1>1, <1>3, <1>4, <2>1 DEF DeleteWorkspaceOwner, OwnersQuiet
  <2>2. CASE done # 3
    BY <1>1, <2>2, OwnersUntouched DEF cluster
  <2>q. QED
    BY <2>1, <2>2
<1>6. claim' \in [Workspaces -> {"none", "owned", "orphan"}]
  <2>1. CASE done = 3
    <3>1. PICK x : x = IF claim[w] = "owned" THEN "orphan" ELSE claim[w]
      OBVIOUS
    <3>2. claim' = [claim EXCEPT ![w] = x]
      BY <1>1, <1>3, <2>1, <3>1 DEF DeleteWorkspaceOwner
    <3>3. x \in {"none", "owned", "orphan"}
      BY <1>3, <3>1
    <3>q. QED
      BY <1>3, <3>2, <3>3
  <2>2. CASE done # 3
    BY <1>1, <1>3, <2>2 DEF cluster
  <2>q. QED
    BY <2>1, <2>2
<1>7. CASE done >= 2
  <2>1. PICK r : r = [row[w] EXCEPT !.state = "deleted"]
    OBVIOUS
  <2>2. row[w] \in Rows /\ RowOK(w)
    BY <1>3
  <2>3. r \in Rows /\ r.state = "deleted" /\ r.turn = NoTurn /\ r.box = row[w].box
    BY <2>1, <2>2 DEF Rows, States, RowOK
  <2>4. row' = [row EXCEPT ![w] = r]
    BY <1>1, <1>3, <1>7, <2>1 DEF MarkGeneratorWorkspaceDeleted
  <2>5. /\ row' \in [Workspaces -> Rows] /\ row'[w] = r
        /\ \A v \in Workspaces : v # w => row'[v] = row[v]
    BY <1>3, <2>3, <2>4
  <2>6. row[w].box \in Boxes => ~box'[row[w].box].alive
    <3>1. done >= 1
      BY <1>7
    <3>2. box' = DeleteWorkspaces({recorded})
      BY <1>1, <3>1
    <3>3. row[w].box \in Boxes => row[w].box \in {recorded}
      BY GeneratorAssumption
    <3>q. QED
      BY <3>2, <3>3, DeletedBoxes
  <2>7. Steady
    BY <1>2, <2>3, <2>5 DEF Steady, BoxesQuiet, BoxMoves
  <2>8. OneCurrent'
    BY <2>3, <2>5 DEF WorkspaceInv, RowPart, OneCurrent, IsCurrent
  <2>9. ASSUME NEW v \in Workspaces PROVE RowOK(v)'
    <3>1. CASE v = w
      BY <2>2, <2>3, <2>5, <2>6, <2>7, <3>1 DEF RowOK, Made, Steady
    <3>2. CASE v # w
      <4>1. RowOK(v) /\ row'[v] = row[v]
        BY <1>3, <2>5, <3>2
      <4>2. row[v].box \in Boxes => BoxMoves(row[v].box)
        BY <1>2 DEF BoxesQuiet
      <4>q. QED
        BY <4>1, <4>2 DEF RowOK, Made, BoxMoves
    <3>q. QED
      BY <3>1, <3>2
  <2>q. QED
    BY <1>2, <1>5, <1>6, <2>5, <2>7, <2>8, <2>9 DEF RowPart
<1>8. CASE ~(done >= 2)
  <2>1. RowsQuiet
    BY <1>1, <1>8, RowsUntouched
  <2>2. RowPart' /\ Steady
    BY <1>2, <2>1, RowsFollow, QuietIsSteady DEF RowsQuiet, BoxesQuiet
  <2>q. QED
    BY <1>2, <1>5, <1>6, <2>2
<1>q. QED
  BY <1>7, <1>8

LEMMA ReconcileStep ==
    ASSUME WorkspaceInv, NEW w \in Workspaces, ReconcileOwner(w) PROVE WorkspaceInv'
<1>1. /\ wf' = wf /\ call' = call /\ snap' = snap /\ sweep' = sweep
      /\ store' = store /\ edits' = edits
  BY DEF ReconcileOwner, request
<1>2. ASSUME row[w].state \in {"deleting", "deleted"}, NEW done \in 0..3,
             Outcome(done = 3), DropWorkspace(w, done)
      PROVE WorkspaceInv'
  <2>1. /\ RowPart' /\ Steady /\ BoxesQuiet /\ OwnersQuiet
        /\ claim' \in [Workspaces -> {"none", "owned", "orphan"}]
    BY <1>2, Dropped
  <2>2. faults' \in 0..MaxFaults
    BY <1>2, OutcomeTyped
  <2>3. RestQuiet
    BY <1>1, <2>1, <2>2 DEF WorkspaceInv, RestPart, RestQuiet
  <2>q. QED
    BY <1>1, <2>1, <2>3, LoopStep
<1>3. ASSUME cr' = [cr EXCEPT ![w] = RecordWorkspaceOwnerStatus(@, row[w].box, row[w].state)],
             row' = row, claim' = claim, box' = box, faults' = faults
      PROVE WorkspaceInv'
  <2>1. OwnersQuiet
    BY <1>3, StatusPatched
  <2>2. RowsQuiet /\ BoxesQuiet /\ RestQuiet
    BY <1>1, <1>3, RowsUntouched, BoxesUntouched, RestUntouched
  <2>q. QED
    BY <1>1, <2>1, <2>2, QuietLoopStep
<1>q. QED
  BY <1>2, <1>3 DEF ReconcileOwner

LEMMA BackfillStep ==
    ASSUME WorkspaceInv, NEW w \in Workspaces, BackfillOwner(w) PROVE WorkspaceInv'
<1>1. /\ wf' = wf /\ row' = row /\ claim' = claim /\ box' = box /\ call' = call
      /\ snap' = snap /\ sweep' = sweep /\ store' = store /\ edits' = edits
  BY DEF BackfillOwner, request
<1>2. PICK ok \in BOOLEAN :
        /\ Outcome(ok)
        /\ cr' = [cr EXCEPT ![w] =
                    IF ok THEN RecordWorkspaceOwnerStatus(CreatedOwner, row[w].box, row[w].state)
                    ELSE CreatedOwner]
  BY DEF BackfillOwner
<1>3. row[w] \in Rows /\ row[w].box \in Boxes \cup {NoBox}
  BY DEF WorkspaceInv, RowPart, Rows
<1>4. CreatedOwner \in Owners /\ CreatedOwner.box = NoBox
  BY DEF CreatedOwner, NoOwner, Owners
<1>5. PICK o : o = IF ok THEN RecordWorkspaceOwnerStatus(CreatedOwner, row[w].box, row[w].state)
                   ELSE CreatedOwner
  OBVIOUS
<1>6. o \in Owners /\ o.box \in {row[w].box, NoBox}
  BY <1>3, <1>4, <1>5, StatusRecorded
<1>7. OwnersQuiet
  BY <1>2, <1>5, <1>6, OwnerPatched
<1>8. RowsQuiet /\ BoxesQuiet
  BY <1>1, RowsUntouched, BoxesUntouched
<1>9. RestQuiet
  BY <1>1, <1>2, OutcomeTyped DEF WorkspaceInv, RestPart, RestQuiet
<1>q. QED
  BY <1>1, <1>7, <1>8, <1>9, QuietLoopStep

LEMMA SanitizerStep ==
    ASSUME WorkspaceInv, Sanitizer PROVE WorkspaceInv'
<1>1. /\ wf' = wf /\ row' = row /\ cr' = cr /\ claim' = claim /\ call' = call
      /\ snap' = snap /\ store' = store /\ edits' = edits
  BY DEF Sanitizer, ListSandboxes, ReadOwners, DeleteUnowned, cluster, request
<1>2. sweep'.ids \subseteq Boxes
  BY DEF Sanitizer, ListSandboxes, ReadOwners, DeleteUnowned, ListWorkspaceSandboxes,
         WorkspaceInv, RestPart
<1>3. /\ box' = box \/ box' = DeleteWorkspaces(sweep.ids)
      /\ faults' = faults \/ \E ok \in BOOLEAN : Outcome(ok)
  BY DEF Sanitizer, ListSandboxes, ReadOwners, DeleteUnowned
<1>4. faults' \in 0..MaxFaults
  BY <1>3, OutcomeTyped DEF WorkspaceInv, RestPart
<1>5. RowsQuiet /\ BoxesQuiet /\ OwnersQuiet
  BY <1>1, <1>3, RowsUntouched, BoxesUntouched, DeletedBoxes, OwnersUntouched
<1>6. RestQuiet
  BY <1>1, <1>2, <1>4 DEF WorkspaceInv, RestPart, RestQuiet
<1>q. QED
  BY <1>1, <1>5, <1>6, QuietLoopStep

LEMMA CollectStep ==
    ASSUME WorkspaceInv, NEW w \in Workspaces, CollectClaim(w) PROVE WorkspaceInv'
<1>1. /\ wf' = wf /\ row' = row /\ cr' = cr /\ box' = box /\ call' = call
      /\ snap' = snap /\ sweep' = sweep /\ store' = store /\ edits' = edits /\ faults' = faults
  BY DEF CollectClaim, request
<1>2. claim' \in [Workspaces -> {"none", "owned", "orphan"}]
  BY DEF CollectClaim, WorkspaceInv, RestPart
<1>3. RowsQuiet /\ BoxesQuiet /\ OwnersQuiet
  BY <1>1, RowsUntouched, BoxesUntouched, OwnersUntouched
<1>4. RestQuiet
  BY <1>1, <1>2 DEF WorkspaceInv, RestPart, RestQuiet
<1>q. QED
  BY <1>1, <1>3, <1>4, QuietLoopStep
-----------------------------------------------------------------------------
\* Time, losses and restarts.
\* A step of the environment that changes the archives or the failure count.
LEMMA WorldStep ==
    ASSUME WorkspaceInv, RowsQuiet, BoxesQuiet, StoreKept,
           store' \in [Versions -> {"absent", "new", "old", "lost"}],
           faults' \in 0..MaxFaults, wf' = wf, cr' = cr, claim' = claim,
           call' = call, snap' = snap, sweep' = sweep, edits' = edits
    PROVE WorkspaceInv'
<1>1. Steady
  BY QuietIsSteady
<1>2. DiskPart'
  BY DiskKept DEF WorkspaceInv, DiskPart
<1>3. OwnersQuiet /\ RequestPart' /\ SnapPart'
  BY <1>1, OwnersUntouched, RequestsKept, SnapKept
<1>4. RestQuiet
  BY DEF WorkspaceInv, RestPart, RestQuiet
<1>q. QED
  BY <1>2, <1>3, <1>4, QuietStep

LEMMA TimeStep ==
    ASSUME WorkspaceInv, TimePasses PROVE WorkspaceInv'
<1>1. /\ wf' = wf /\ cr' = cr /\ claim' = claim /\ box' = box /\ call' = call
      /\ snap' = snap /\ sweep' = sweep /\ edits' = edits /\ faults' = faults
  BY DEF TimePasses, cluster, request
<1>2. BoxesQuiet /\ faults' \in 0..MaxFaults
      /\ store \in [Versions -> {"absent", "new", "old", "lost"}]
  BY <1>1, BoxesUntouched DEF WorkspaceInv, RestPart, DiskPart
<1>3. ASSUME NEW w \in Workspaces,
             \/ row' = [row EXCEPT ![w].expired = TRUE]
             \/ row' = [row EXCEPT ![w].idle = "stale"],
             store' = store
      PROVE WorkspaceInv'
  <2>1. row \in [Workspaces -> Rows] /\ row[w] \in Rows
    BY DEF WorkspaceInv, RowPart
  <2>2. PICK q : row' = [row EXCEPT ![w] = q] /\
                 (q = [row[w] EXCEPT !.expired = TRUE] \/ q = [row[w] EXCEPT !.idle = "stale"])
    BY <1>3
  <2>3. q \in Rows /\ q.state = row[w].state /\ q.box = row[w].box /\ q.turn = row[w].turn
    BY <2>1, <2>2 DEF Rows
  <2>4. row' \in [Workspaces -> Rows]
    BY <2>1, <2>2, <2>3
  <2>5. RowsQuiet
    BY <2>1, <2>2, <2>3, <2>4, RowsTouched
  <2>6. StoreKept
    BY <1>3 DEF StoreKept
  <2>q. QED
    BY <1>1, <1>2, <1>3, <2>5, <2>6, WorldStep
<1>4. ASSUME NEW v \in Versions, store' = [store EXCEPT ![v] = "old"], row' = row
      PROVE WorkspaceInv'
  <2>1. StoreKept /\ store' \in [Versions -> {"absent", "new", "old", "lost"}]
    BY <1>2, <1>4 DEF StoreKept
  <2>q. QED
    BY <1>1, <1>2, <1>4, <2>1, RowsUntouched, WorldStep
<1>q. QED
  BY <1>3, <1>4 DEF TimePasses

LEMMA LossStep ==
    ASSUME WorkspaceInv,
           (\E s \in Boxes : SandboxLost(s)) \/ (\E v \in Versions : ArchiveLost(v))
    PROVE WorkspaceInv'
<1>1. /\ wf' = wf /\ row' = row /\ cr' = cr /\ claim' = claim /\ call' = call
      /\ snap' = snap /\ sweep' = sweep /\ edits' = edits /\ Outcome(FALSE)
  BY DEF SandboxLost, ArchiveLost, cluster, request
<1>2. RowsQuiet /\ faults' \in 0..MaxFaults
  BY <1>1, RowsUntouched, OutcomeTyped
<1>3. store \in [Versions -> {"absent", "new", "old", "lost"}]
  BY DEF WorkspaceInv, DiskPart
<1>4. ASSUME NEW s \in Boxes, SandboxLost(s) PROVE WorkspaceInv'
  <2>1. BoxesQuiet /\ store' = store
    BY <1>4, DeletedBoxes DEF SandboxLost
  <2>2. StoreKept
    BY <2>1 DEF StoreKept
  <2>q. QED
    BY <1>1, <1>2, <1>3, <2>1, <2>2, WorldStep
<1>5. ASSUME NEW v \in Versions, ArchiveLost(v) PROVE WorkspaceInv'
  <2>1. box' = box /\ store' = [store EXCEPT ![v] = "lost"]
    BY <1>5 DEF ArchiveLost
  <2>2. StoreKept /\ store' \in [Versions -> {"absent", "new", "old", "lost"}]
    BY <1>3, <2>1 DEF StoreKept
  <2>q. QED
    BY <1>1, <1>2, <2>1, <2>2, BoxesUntouched, WorldStep
<1>q. QED
  BY <1>4, <1>5

\* After a schema reset every row is empty or adopted from its owner.
LEMMA Adopted ==
    ASSUME WorkspaceInv, box' = box, row' = [w \in Workspaces |-> AdoptOwner(w)]
    PROVE RowPart'
<1>1. NoRow \in Rows /\ NoRow.state = "none" /\ NoRow.box \notin Boxes
  BY GeneratorAssumption DEF NoRow, Rows, States
<1>2. ASSUME NEW w \in Workspaces
      PROVE row'[w] \in Rows /\ ~IsCurrent(w)' /\ RowOK(w)'
  <2>1. cr[w] \in Owners /\ Made(cr[w].box)
    BY DEF WorkspaceInv, OwnerPart
  <2>2. PICK q : q = [NoRow EXCEPT !.state = "deleting", !.box = cr[w].box]
    OBVIOUS
  <2>3. q \in Rows /\ q.state = "deleting" /\ q.turn = NoTurn /\ q.box = cr[w].box
    BY <2>1, <2>2 DEF NoRow, Rows, States, Owners
  <2>4. row'[w] = IF cr[w].facts THEN q ELSE NoRow
    BY <2>2 DEF AdoptOwner
  <2>q. QED
    BY <1>1, <2>1, <2>3, <2>4 DEF IsCurrent, RowOK, Made
<1>3. row' \in [Workspaces -> Rows]
  BY <1>2
<1>q. QED
  BY <1>2, <1>3 DEF RowPart, OneCurrent

LEMMA RestartStep ==
    ASSUME WorkspaceInv, NEW reset \in BOOLEAN, Restart(reset) PROVE WorkspaceInv'
<1>1. /\ call' = [c \in Callers |-> NoCall] /\ snap' = NoSnap
      /\ sweep' = [pc |-> "idle", ids |-> {}] /\ claim' = claim /\ box' = box
      /\ store' = store /\ edits' = edits /\ Outcome(FALSE)
  BY DEF Restart
<1>2. RowPart'
  <2>1. CASE reset
    BY <1>1, <2>1, Adopted DEF Restart
  <2>2. CASE ~reset
    <3>1. row' = [w \in Workspaces |-> IF w \in {v \in Current : wf.state # "ended"}
                                       THEN Retired(row[w]) ELSE row[w]]
      BY <2>2 DEF Restart, RetireIncompleteGeneratorWorkspaces
    <3>2. RowsQuiet /\ BoxesQuiet
      BY <1>1, <3>1, RowsRetire, BoxesUntouched
    <3>q. QED
      BY <3>2, RowsFollow DEF RowsQuiet, BoxesQuiet
  <2>q. QED
    BY <2>1, <2>2
<1>3. OwnerPart'
  <2>1. cr \in [Workspaces -> Owners] /\ \A w \in Workspaces : Made(cr[w].box)
    BY DEF WorkspaceInv, OwnerPart
  <2>2. cr' = cr \/ cr' = [w \in Workspaces |-> RetireWorkspaceOwner(cr[w])]
    BY DEF Restart
  <2>3. ASSUME NEW w \in Workspaces PROVE cr'[w] \in Owners /\ cr'[w].box = cr[w].box
    BY <2>1, <2>2, OwnerRetired
  <2>4. cr' \in [Workspaces -> Owners]
    BY <2>1, <2>2, <2>3
  <2>q. QED
    BY <1>1, <2>1, <2>3, <2>4 DEF OwnerPart, Made
<1>4. RequestPart'
  <2>1. NoCall \in Calls /\ NoCall.pc = "idle" /\ NoCall.box \notin Boxes
    BY GeneratorAssumption, VersionFacts DEF NoCall, Calls, CallSteps, States
  <2>q. QED
    BY <1>1, <2>1 DEF RequestPart, CallOK, Made, Provisioning
<1>5. SnapPart'
  <2>1. NoSnap \in Snaps /\ NoSnap.pc = "idle"
    BY VersionFacts DEF NoSnap, Snaps, SnapSteps
  <2>q. QED
    BY <1>1, <2>1 DEF SnapPart
<1>6. DiskPart'
  <2>1. wf' \in Workflows /\ wf'.digest \in {wf.digest, NoDigest}
    BY DEF Restart, WorkspaceInv, DiskPart, Workflows
  <2>2. StoreKept /\ store' \in [Versions -> {"absent", "new", "old", "lost"}]
    BY <1>1 DEF StoreKept, WorkspaceInv, DiskPart
  <2>q. QED
    BY <2>1, <2>2, DiskKept
<1>7. RestPart'
  <2>1. faults' \in 0..MaxFaults
    BY <1>1, OutcomeTyped
  <2>q. QED
    BY <1>1, <2>1 DEF WorkspaceInv, RestPart
<1>q. QED
  BY <1>2, <1>3, <1>4, <1>5, <1>6, <1>7 DEF WorkspaceInv

LEMMA StutterStep ==
    ASSUME WorkspaceInv, UNCHANGED vars PROVE WorkspaceInv'
<1>1. call' = call /\ wf' = wf /\ row' = row /\ cr' = cr /\ claim' = claim /\ box' = box
      /\ snap' = snap /\ sweep' = sweep /\ store' = store /\ edits' = edits /\ faults' = faults
  BY DEF vars
<1>2. Steady
  BY <1>1, UntouchedIsSteady
<1>q. QED
  BY <1>1, <1>2, RequestsKept, ReadingStep

-----------------------------------------------------------------------------
\* The next-state relation, one action per case.
LEMMA RequestSteps ==
    ASSUME WorkspaceInv, NEW c \in Callers, Request(c) PROVE WorkspaceInv'
<1>1. PublishOwner(c, "publish", "wait") => WorkspaceInv'
  BY PublishStep
<1>2. PublishOwner(c, "confirm", "acquire") => WorkspaceInv'
  BY PublishStep
<1>3. \/ WorkspaceSeed(c) \/ EnsureRow(c) \/ VerifySandbox(c) \/ EnsureOwnerAndClaim(c)
      \/ FindSandbox(c) \/ CreateSandbox(c) \/ RecordSandbox(c)
      \/ SeedSandbox(c) \/ Activate(c) \/ ProvisionFails(c)
      => WorkspaceInv'
  BY SeedStep, EnsureStep, VerifyStep, ClaimStep, FindStep, CreateStep, RecordStep, SeedingStep,
     ActivateStep, FailingStep
<1>4. \/ AcquireTurn(c) \/ StartRefused(c) \/ WriteWorkspaceFile(c) \/ EndWorkspaceTurn(c)
      \/ SubmitCandidate(c) \/ TurnLost(c)
      => WorkspaceInv'
  BY TurnStep, RefusedStep, WriteStep, EndTurnStep, SubmitStep
<1>q. QED
  BY <1>1, <1>2, <1>3, <1>4 DEF Request

LEMMA WorkspaceStep ==
    ASSUME WorkspaceInv, [Next]_vars PROVE WorkspaceInv'
<1>1. ASSUME NEW c \in Callers, Request(c) PROVE WorkspaceInv'
  BY <1>1, RequestSteps
<1>2. CASE WorkflowMoves
  BY <1>2, WorkflowStep
<1>3. CASE Snapshotter
  BY <1>3, TargetStep, ReconcileSnapshotStep, AcquireSnapshotStep, ArchiveStep,
     PublishSnapshotStep, CleanupSnapshotsStep DEF Snapshotter
<1>4. CASE Sanitizer
  BY <1>4, SanitizerStep
<1>5. ASSUME NEW w \in Workspaces,
             CleanupDue(w) \/ ReconcileOwner(w) \/ BackfillOwner(w) \/ CollectClaim(w)
      PROVE WorkspaceInv'
  BY <1>5, CleanupDueStep, ReconcileStep, BackfillStep, CollectStep
<1>6. CASE TimePasses
  BY <1>6, TimeStep
<1>7. CASE (\E s \in Boxes : SandboxLost(s)) \/ (\E v \in Versions : ArchiveLost(v))
  BY <1>7, LossStep
<1>8. ASSUME NEW reset \in BOOLEAN, Restart(reset) PROVE WorkspaceInv'
  BY <1>8, RestartStep
<1>9. CASE UNCHANGED vars
  BY <1>9, StutterStep
<1>q. QED
  BY <1>1, <1>2, <1>3, <1>4, <1>5, <1>6, <1>7, <1>8, <1>9 DEF Next

LEMMA WorkspaceAlways == Spec => []WorkspaceInv
BY InitialWorkspace, WorkspaceStep, PTL DEF Spec

\* One current workspace per workflow, one writer, no turn on a retired
\* workspace, and a snapshot pointer whose archive the cleanup has left alone,
\* whatever the requests, the loops and the restarts do in between.
THEOREM OneRestorableWorkspace == Spec => []WorkspaceInvariant
<1>1. WorkspaceInv => WorkspaceInvariant
  BY InvariantSuffices
<1>q. QED
  BY <1>1, WorkspaceAlways, PTL

\* A workspace row is completed only after its sandbox is gone, and the sandbox
\* never comes back.
THEOREM CompletedRowsLeaveNothing == Spec => []DeletedMeansGone
<1>1. WorkspaceInv => DeletedMeansGone
  BY InvariantSuffices
<1>q. QED
  BY <1>1, WorkspaceAlways, PTL

-----------------------------------------------------------------------------
(***************************************************************************)
(* What the snapshotter retires as idle is saved.                          *)
(***************************************************************************)
\* A sandbox belongs to the workspace it was created for, and nothing else
\* remembers it: not another row, owner or request.
Owned(s, w) == s \in Boxes => box[s].ws = w

\* Only an active row has a turn or an idle age, and never both at once.
TurnOK(r) ==
    /\ r.state # "active" => r.turn = NoTurn /\ r.idle = "no"
    /\ r.idle # "no" => r.turn = NoTurn

RequestsOwn == \A c \in Callers : Owned(call[c].box, call[c].ws)

OwnershipPart ==
    /\ \A w \in Workspaces : Owned(row[w].box, w) /\ Owned(cr[w].box, w)
    /\ RequestsOwn

TurnPart == \A w \in Workspaces : TurnOK(row[w])

\* No edit of w is missing in v.  A reset by a request that found the row pending
\* may write over what is there at any time; what it writes is no edit.
Contains(w, v) == box[row[w].box].alive /\ box[row[w].box].edited => box[row[w].box].content = v

\* The edits of an idle row are in the published snapshot, those of a row under
\* the snapshotter's turn in the archive that is about to be published.
SavedPart ==
    /\ \A w \in Workspaces : row[w].idle # "no" /\ wf.digest # NoDigest => Contains(w, wf.digest)
    /\ snap.pc = "publish" /\ row[snap.ws].turn = Holder => Contains(snap.ws, snap.content)

SavingInv == OwnershipPart /\ TurnPart /\ SavedPart

LEMMA NoTurnFacts ==
    /\ NoTurn # Holder
    /\ \A c \in Callers : c # NoTurn /\ c # Holder
BY GeneratorAssumption DEF NoTurn, Holder

LEMMA InitialSaving ==
    ASSUME Init PROVE SavingInv
<1>1. NoRow.state = "none" /\ NoRow.box \notin Boxes /\ NoRow.turn = NoTurn /\ NoRow.idle = "no"
  BY GeneratorAssumption DEF NoRow
<1>2. NoOwner.box \notin Boxes
  BY GeneratorAssumption DEF NoOwner
<1>3. NoCall.pc = "idle" /\ NoCall.box \notin Boxes
  BY GeneratorAssumption DEF NoCall
<1>4. OwnershipPart
  BY <1>1, <1>2, <1>3 DEF Init, OwnershipPart, RequestsOwn, Owned
<1>5. TurnPart
  BY <1>1 DEF Init, TurnPart, TurnOK
<1>6. SavedPart
  BY <1>1 DEF Init, SavedPart, NoSnap
<1>q. QED
  BY <1>4, <1>5, <1>6 DEF SavingInv

-----------------------------------------------------------------------------
\* A step that neither moves a sandbox to another workspace nor writes to one.
BoxesKept == \A s \in Boxes : box[s].ws # "none" => box'[s].ws = box[s].ws

BoxesCalm ==
    /\ BoxesKept
    /\ \A s \in Boxes : box[s].ws # "none" /\ box'[s].alive =>
                            /\ box[s].alive /\ box'[s].content = box[s].content
                            /\ box'[s].edited = box[s].edited

\* A row that keeps its sandbox and gains neither the snapshotter's turn nor an
\* idle age; it may be retired, released or taken by a client.
Moved(r, q) ==
    /\ TurnOK(q)
    /\ q.box = r.box
    /\ q.idle # "no" => r.idle # "no"
    /\ q.turn = Holder => r.turn = Holder

RowHome(w) ==
    row'[w].box \in {row[w].box, cr[w].box, NoBox} \/ Owned(row[w].box, w)'

RowCalm(w) ==
    /\ TurnOK(row'[w])
    /\ row'[w].idle # "no" => row[w].idle # "no" /\ row'[w].box = row[w].box
    /\ row'[w].turn = Holder => row[w].turn = Holder /\ row'[w].box = row[w].box

RowsCalm == \A w \in Workspaces : RowHome(w) /\ RowCalm(w)

SnapCalm == snap' = snap \/ snap'.pc # "publish"

LEMMA OwnedKept ==
    ASSUME BoxesKept, NEW w, w # "none", NEW s, Owned(s, w)
    PROVE s \in Boxes => box'[s].ws = w
BY DEF Owned, BoxesKept

LEMMA OwnershipKept ==
    ASSUME SavingInv, BoxesKept, \A w \in Workspaces : RowHome(w), OwnersQuiet, RequestsOwn'
    PROVE OwnershipPart'
<1>1. ASSUME NEW w \in Workspaces PROVE Owned(row[w].box, w)' /\ Owned(cr[w].box, w)'
  <2>1. Owned(row[w].box, w) /\ Owned(cr[w].box, w) /\ w # "none"
    BY GeneratorAssumption DEF SavingInv, OwnershipPart
  <2>2. cr'[w].box \in {cr[w].box, row[w].box, NoBox} /\ RowHome(w)
    BY DEF OwnersQuiet
  <2>q. QED
    BY <2>1, <2>2, GeneratorAssumption DEF Owned, BoxesKept, RowHome
<1>q. QED
  BY <1>1 DEF OwnershipPart

LEMMA SavedKept ==
    ASSUME WorkspaceInv, SavingInv, \A w \in Workspaces : RowCalm(w), BoxesCalm,
           wf'.digest \in {wf.digest, NoDigest}, SnapCalm
    PROVE SavedPart'
<1>1. ASSUME NEW w \in Workspaces, NEW v, Contains(w, v), row'[w].box = row[w].box,
             row[w].state = "active"
      PROVE Contains(w, v)'
  <2>1. row[w].box \in Boxes /\ box[row[w].box].ws # "none"
    BY <1>1 DEF WorkspaceInv, RowPart, RowOK, Made
  <2>q. QED
    BY <1>1, <2>1 DEF Contains, BoxesCalm
<1>2. ASSUME NEW w \in Workspaces, row'[w].idle # "no", wf'.digest # NoDigest
      PROVE Contains(w, wf.digest)'
  <2>1. row[w].idle # "no" /\ row'[w].box = row[w].box /\ wf'.digest = wf.digest
    BY <1>2 DEF RowCalm
  <2>2. TurnOK(row[w]) /\ Contains(w, wf.digest)
    BY <1>2, <2>1 DEF SavingInv, TurnPart, SavedPart
  <2>3. PICK v : v = wf.digest
    OBVIOUS
  <2>4. Contains(w, v)'
    BY <1>1, <2>1, <2>2, <2>3 DEF TurnOK
  <2>q. QED
    BY <2>1, <2>3, <2>4 DEF Contains
<1>3. ASSUME snap'.pc = "publish", row'[snap'.ws].turn = Holder
      PROVE Contains(snap.ws, snap.content)'
  <2>1. snap' = snap
    BY <1>3 DEF SnapCalm
  <2>2. PICK w \in Workspaces : w = snap.ws
    BY <1>3, <2>1 DEF WorkspaceInv, SnapPart
  <2>3. row[w].turn = Holder /\ row'[w].box = row[w].box
    BY <1>3, <2>1, <2>2 DEF RowCalm
  <2>4. TurnOK(row[w]) /\ Contains(w, snap.content)
    BY <1>3, <2>1, <2>2, <2>3 DEF SavingInv, TurnPart, SavedPart
  <2>5. PICK v : v = snap.content
    OBVIOUS
  <2>6. Contains(w, v)'
    BY <1>1, <2>3, <2>4, <2>5, NoTurnFacts DEF TurnOK
  <2>q. QED
    BY <2>1, <2>2, <2>5, <2>6 DEF Contains
<1>q. QED
  BY <1>2, <1>3 DEF SavedPart

\* A step that writes to no sandbox, binds no row and publishes nothing.
LEMMA CalmStep ==
    ASSUME WorkspaceInv, SavingInv, RowsCalm, BoxesCalm, OwnersQuiet, RequestsOwn',
           wf'.digest \in {wf.digest, NoDigest}, SnapCalm
    PROVE SavingInv'
<1>1. OwnershipPart'
  BY OwnershipKept DEF RowsCalm, BoxesCalm
<1>2. TurnPart'
  BY DEF RowsCalm, RowCalm, TurnPart
<1>3. SavedPart'
  BY SavedKept DEF RowsCalm
<1>q. QED
  BY <1>1, <1>2, <1>3 DEF SavingInv

-----------------------------------------------------------------------------
\* What the repository's statements do to one row.
LEMMA RowsMoved ==
    ASSUME \A w \in Workspaces : Moved(row[w], row'[w])
    PROVE RowsCalm
BY DEF Moved, RowsCalm, RowHome, RowCalm

LEMMA RowStays ==
    ASSUME SavingInv, NEW w \in Workspaces PROVE Moved(row[w], row[w])
BY DEF SavingInv, TurnPart, Moved

LEMMA RowsStay ==
    ASSUME SavingInv, row' = row PROVE RowsCalm
BY RowStays, RowsMoved

LEMMA OneRowMoves ==
    ASSUME WorkspaceInv, SavingInv, NEW w \in Workspaces, NEW q, Moved(row[w], q),
           row' = [row EXCEPT ![w] = q]
    PROVE RowsCalm
<1>1. row \in [Workspaces -> Rows]
  BY DEF WorkspaceInv, RowPart
<1>2. ASSUME NEW v \in Workspaces PROVE Moved(row[v], row'[v])
  <2>1. CASE v = w
    <3>1. row'[v] = q /\ row[v] = row[w]
      BY <1>1, <2>1
    <3>q. QED
      BY <3>1
  <2>2. CASE v # w
    <3>1. row'[v] = row[v]
      BY <1>1, <2>2
    <3>q. QED
      BY <3>1, RowStays
  <2>q. QED
    BY <2>1, <2>2
<1>q. QED
  BY <1>2, RowsMoved

LEMMA RetiredMoves ==
    ASSUME NEW r \in Rows PROVE Moved(r, Retired(r))
<1>1. /\ Retired(r).state = "deleting" /\ Retired(r).turn = NoTurn
      /\ Retired(r).idle = "no" /\ Retired(r).box = r.box
  BY DEF Retired, Rows
<1>q. QED
  BY <1>1, NoTurnFacts DEF Moved, TurnOK

LEMMA RetiredRowsMove ==
    ASSUME WorkspaceInv, SavingInv, NEW S,
           row' = [w \in Workspaces |-> IF w \in S THEN Retired(row[w]) ELSE row[w]]
    PROVE RowsCalm
<1>1. ASSUME NEW w \in Workspaces PROVE Moved(row[w], row'[w])
  <2>1. row[w] \in Rows
    BY DEF WorkspaceInv, RowPart
  <2>2. CASE w \in S
    <3>1. row'[w] = Retired(row[w])
      BY <2>2
    <3>q. QED
      BY <2>1, <3>1, RetiredMoves
  <2>3. CASE w \notin S
    <3>1. row'[w] = row[w]
      BY <2>3
    <3>q. QED
      BY <3>1, RowStays
  <2>q. QED
    BY <2>2, <2>3
<1>q. QED
  BY <1>1, RowsMoved

LEMMA OneRetiredMoves ==
    ASSUME WorkspaceInv, SavingInv, NEW w \in Workspaces,
           row' = [row EXCEPT ![w] = Retired(@)] \/ row' = row
    PROVE RowsCalm
<1>1. row \in [Workspaces -> Rows] /\ row[w] \in Rows
  BY DEF WorkspaceInv, RowPart
<1>2. CASE row' = [row EXCEPT ![w] = Retired(@)]
  <2>1. PICK q : q = Retired(row[w])
    OBVIOUS
  <2>2. row' = [row EXCEPT ![w] = q] /\ Moved(row[w], q)
    BY <1>1, <1>2, <2>1, RetiredMoves
  <2>q. QED
    BY <2>2, OneRowMoves
<1>q. QED
  BY <1>2, RowsStay

LEMMA CompletedMoves ==
    ASSUME WorkspaceInv, SavingInv, NEW w \in Workspaces,
           row[w].state \in {"deleting", "deleted"}, MarkGeneratorWorkspaceDeleted(w)
    PROVE RowsCalm
<1>1. row \in [Workspaces -> Rows] /\ row[w] \in Rows /\ TurnOK(row[w])
  BY DEF WorkspaceInv, RowPart, SavingInv, TurnPart
<1>2. PICK q : q = [row[w] EXCEPT !.state = "deleted"]
  OBVIOUS
<1>3. /\ q.state = "deleted" /\ q.box = row[w].box /\ q.turn = row[w].turn
      /\ q.idle = row[w].idle
  BY <1>1, <1>2 DEF Rows
<1>4. row[w].turn = NoTurn /\ row[w].idle = "no"
  BY <1>1 DEF TurnOK
<1>5. Moved(row[w], q)
  BY <1>3, <1>4 DEF Moved, TurnOK
<1>6. row' = [row EXCEPT ![w] = q]
  BY <1>1, <1>2 DEF MarkGeneratorWorkspaceDeleted
<1>q. QED
  BY <1>5, <1>6, OneRowMoves

LEMMA TakenMoves ==
    ASSUME WorkspaceInv, SavingInv, NEW w \in Workspaces, NEW c \in Callers,
           row[w].state = "active", AcquireGeneratorWorkspaceTurn(w, c)
    PROVE RowsCalm
<1>1. row \in [Workspaces -> Rows] /\ row[w] \in Rows
  BY DEF WorkspaceInv, RowPart
<1>2. PICK q : q = [row[w] EXCEPT !.turn = c, !.idle = "no"]
  OBVIOUS
<1>3. q.state = "active" /\ q.box = row[w].box /\ q.turn = c /\ q.idle = "no"
  BY <1>1, <1>2 DEF Rows
<1>4. Moved(row[w], q)
  BY <1>3, NoTurnFacts DEF Moved, TurnOK
<1>5. row' = row \/ row' = [row EXCEPT ![w] = q]
  BY <1>1, <1>2 DEF AcquireGeneratorWorkspaceTurn
<1>q. QED
  BY <1>4, <1>5, OneRowMoves, RowsStay

\* A turn is left, or the idle age is cleared: no turn and no age is never wrong.
LEMMA LeftMoves ==
    ASSUME WorkspaceInv, SavingInv, NEW t, ReleaseGeneratorWorkspaceTurn(t)
    PROVE RowsCalm
<1>1. ASSUME NEW w \in Workspaces PROVE Moved(row[w], row'[w])
  <2>1. row[w] \in Rows
    BY DEF WorkspaceInv, RowPart
  <2>2. PICK q : q = [row[w] EXCEPT !.turn = NoTurn, !.idle = "no"]
    OBVIOUS
  <2>3. q.state = row[w].state /\ q.box = row[w].box /\ q.turn = NoTurn /\ q.idle = "no"
    BY <2>1, <2>2 DEF Rows
  <2>4. Moved(row[w], q)
    BY <2>3, NoTurnFacts DEF Moved, TurnOK
  <2>5. row'[w] = q \/ row'[w] = row[w]
    BY <2>2 DEF ReleaseGeneratorWorkspaceTurn
  <2>6. CASE row'[w] = q
    BY <2>4, <2>6
  <2>7. CASE row'[w] = row[w]
    BY <2>7, RowStays
  <2>q. QED
    BY <2>5, <2>6, <2>7
<1>q. QED
  BY <1>1, RowsMoved

LEMMA ClearedMoves ==
    ASSUME WorkspaceInv, SavingInv, ClearGeneratorWorkspaceSnapshot
    PROVE RowsCalm /\ wf'.digest = NoDigest
<1>1. ASSUME NEW w \in Workspaces PROVE Moved(row[w], row'[w])
  <2>1. row[w] \in Rows /\ TurnOK(row[w])
    BY DEF WorkspaceInv, RowPart, SavingInv, TurnPart
  <2>2. PICK q : q = [row[w] EXCEPT !.idle = "no"]
    OBVIOUS
  <2>3. q.state = row[w].state /\ q.box = row[w].box /\ q.turn = row[w].turn /\ q.idle = "no"
    BY <2>1, <2>2 DEF Rows
  <2>4. Moved(row[w], q)
    BY <2>1, <2>3 DEF Moved, TurnOK
  <2>5. row'[w] = q \/ row'[w] = row[w]
    BY <2>2 DEF ClearGeneratorWorkspaceSnapshot
  <2>6. CASE row'[w] = q
    BY <2>4, <2>6
  <2>7. CASE row'[w] = row[w]
    BY <2>7, RowStays
  <2>q. QED
    BY <2>5, <2>6, <2>7
<1>2. wf'.digest = NoDigest
  BY DEF ClearGeneratorWorkspaceSnapshot, WorkspaceInv, DiskPart, Workflows
<1>q. QED
  BY <1>1, <1>2, RowsMoved

\* A row that was empty, and rows adopted after a schema reset.
LEMMA NewRowsMove ==
    ASSUME \A w \in Workspaces :
              \/ Moved(row[w], row'[w])
              \/ /\ row'[w].state # "active" /\ row'[w].turn = NoTurn /\ row'[w].idle = "no"
                 /\ row'[w].box \in {cr[w].box, NoBox}
    PROVE RowsCalm
BY NoTurnFacts DEF Moved, TurnOK, RowsCalm, RowHome, RowCalm
-----------------------------------------------------------------------------
\* Sandboxes that are left alone or deleted.
LEMMA BoxesStay ==
    ASSUME box' = box PROVE BoxesCalm
BY DEF BoxesCalm, BoxesKept

LEMMA DeletedStay ==
    ASSUME WorkspaceInv, NEW ids, box' = DeleteWorkspaces(ids) PROVE BoxesCalm
<1>1. BoxesQuiet /\ \A s \in Boxes : s \in ids => ~box'[s].alive
  BY DeletedBoxes
<1>2. \A s \in Boxes : s \notin ids => box'[s] = box[s]
  BY DEF DeleteWorkspaces
<1>q. QED
  BY <1>1, <1>2 DEF BoxesQuiet, BoxMoves, BoxesCalm, BoxesKept

-----------------------------------------------------------------------------
\* Requests that stay where they are, or of which one moves on.
LEMMA OwnedStays ==
    ASSUME WorkspaceInv, SavingInv, NEW d \in Callers, NEW k \in Calls, k = call[d], BoxesKept,
           k.box \in Boxes
    PROVE box'[k.box].ws = k.ws
<1>1. Owned(k.box, k.ws) /\ box[k.box].ws # "none"
  BY DEF WorkspaceInv, RequestPart, CallOK, Made, SavingInv, OwnershipPart, RequestsOwn
<1>q. QED
  BY <1>1 DEF Owned, BoxesKept

LEMMA RequestsStay ==
    ASSUME WorkspaceInv, SavingInv, call' = call, BoxesKept PROVE RequestsOwn'
<1>1. ASSUME NEW d \in Callers PROVE Owned(call[d].box, call[d].ws)'
  <2>1. PICK k \in Calls : k = call[d]
    BY DEF WorkspaceInv, RequestPart
  <2>2. k.box \in Boxes => box'[k.box].ws = k.ws
    BY <2>1, OwnedStays
  <2>3. call'[d] = k
    BY <2>1
  <2>q. QED
    BY <2>2, <2>3 DEF Owned
<1>q. QED
  BY <1>1 DEF RequestsOwn

LEMMA OneRequestMoves ==
    ASSUME WorkspaceInv, SavingInv, NEW c \in Callers, NEW k, call' = [call EXCEPT ![c] = k],
           BoxesKept, k.box \in Boxes => box'[k.box].ws = k.ws
    PROVE RequestsOwn'
<1>1. call \in [Callers -> Calls]
  BY DEF WorkspaceInv, RequestPart
<1>2. ASSUME NEW d \in Callers PROVE Owned(call[d].box, call[d].ws)'
  <2>1. PICK j \in Calls : j = call[d]
    BY <1>1
  <2>2. j.box \in Boxes => box'[j.box].ws = j.ws
    BY <2>1, OwnedStays
  <2>3. call'[d] = k \/ call'[d] = j
    BY <1>1, <2>1
  <2>q. QED
    BY <2>2, <2>3 DEF Owned
<1>q. QED
  BY <1>2 DEF RequestsOwn

\* A request that goes on keeps its sandbox, one that ends forgets it.
LEMMA RequestGoes ==
    ASSUME WorkspaceInv, SavingInv, NEW c \in Callers, NEW pc, Goto(c, pc), BoxesKept
    PROVE RequestsOwn'
<1>1. PICK k \in Calls : k = call[c]
  BY DEF WorkspaceInv, RequestPart
<1>2. CASE pc \in {"idle", "again", "holding"}
  <2>1. PICK j : j = [NoCall EXCEPT !.pc = pc]
    OBVIOUS
  <2>2. j.box \notin Boxes
    BY <2>1, GeneratorAssumption DEF NoCall
  <2>3. call' = [call EXCEPT ![c] = j]
    BY <1>2, <2>1 DEF Goto
  <2>q. QED
    BY <2>2, <2>3, OneRequestMoves
<1>3. CASE pc \notin {"idle", "again", "holding"}
  <2>1. PICK j : j = [k EXCEPT !.pc = pc]
    OBVIOUS
  <2>2. j.ws = k.ws /\ j.box = k.box
    BY <1>1, <2>1 DEF Calls
  <2>3. call' = [call EXCEPT ![c] = j]
    BY <1>1, <1>3, <2>1 DEF Goto
  <2>4. k.box \in Boxes => box'[k.box].ws = k.ws
    BY <1>1, OwnedStays
  <2>q. QED
    BY <2>2, <2>3, <2>4, OneRequestMoves
<1>q. QED
  BY <1>2, <1>3

LEMMA SnapMoves ==
    ASSUME WorkspaceInv, NEW pc, pc # "publish", SnapGoto(pc) PROVE SnapCalm
BY DEF SnapGoto, SnapCalm, NoSnap, WorkspaceInv, SnapPart, Snaps
-----------------------------------------------------------------------------
\* Starting a turn.
LEMMA SeedSaves ==
    ASSUME WorkspaceInv, SavingInv, NEW c \in Callers, WorkspaceSeed(c) PROVE SavingInv'
<1>1. cr' = cr /\ box' = box /\ snap' = snap
  BY DEF WorkspaceSeed, cluster
<1>2. PICK seed, pass :
        call' = [call EXCEPT ![c] = [NoCall EXCEPT !.pc = "ensure", !.pass = pass, !.seed = seed]]
  BY DEF WorkspaceSeed
<1>3. PICK k : k = [NoCall EXCEPT !.pc = "ensure", !.pass = pass, !.seed = seed]
  OBVIOUS
<1>4. k.box \notin Boxes
  BY <1>3, GeneratorAssumption DEF NoCall
<1>5. ClearGeneratorWorkspaceSnapshot \/ (wf' = wf /\ row' = row)
  BY DEF WorkspaceSeed
<1>6. RowsCalm /\ wf'.digest \in {wf.digest, NoDigest}
  BY <1>5, ClearedMoves, RowsStay
<1>7. BoxesCalm /\ OwnersQuiet /\ SnapCalm
  BY <1>1, BoxesStay, OwnersUntouched DEF SnapCalm
<1>8. RequestsOwn'
  BY <1>2, <1>3, <1>4, <1>6, <1>7, OneRequestMoves DEF BoxesCalm
<1>q. QED
  BY <1>6, <1>7, <1>8, CalmStep

LEMMA EnsureSaves ==
    ASSUME WorkspaceInv, SavingInv, NEW c \in Callers, EnsureRow(c) PROVE SavingInv'
<1>1. wf' = wf /\ cr' = cr /\ box' = box /\ snap' = snap
  BY DEF EnsureRow, cluster
<1>2. BoxesCalm /\ OwnersQuiet /\ SnapCalm
  BY <1>1, BoxesStay, OwnersUntouched DEF SnapCalm
<1>3. call \in [Callers -> Calls] /\ row \in [Workspaces -> Rows]
  BY DEF WorkspaceInv, RequestPart, RowPart
<1>4. ASSUME NEW w \in Workspaces, CreateGeneratorWorkspace(w),
             call' = [call EXCEPT ![c].ws = w, ![c].box = NoBox,
                                  ![c].state = "pending", ![c].pc = "owner"]
      PROVE SavingInv'
  <2>1. PICK k : k = [call[c] EXCEPT !.ws = w, !.box = NoBox, !.state = "pending", !.pc = "owner"]
    OBVIOUS
  <2>2. k.ws = w /\ k.box \notin Boxes
    BY <1>3, <2>1, GeneratorAssumption DEF Calls
  <2>3. call' = [call EXCEPT ![c] = k]
    BY <1>3, <1>4, <2>1
  <2>4. PICK r : r = [NoRow EXCEPT !.state = "pending"]
    OBVIOUS
  <2>5. r.state = "pending" /\ r.turn = NoTurn /\ r.idle = "no" /\ r.box = NoBox
    BY <2>4 DEF NoRow
  <2>6. row' = [row EXCEPT ![w] = r]
    BY <1>4, <2>4 DEF CreateGeneratorWorkspace
  <2>7. row'[w] = r /\ \A v \in Workspaces : v # w => row'[v] = row[v]
    BY <1>3, <2>6
  <2>8. RowsCalm
    <3>1. ASSUME NEW v \in Workspaces, v # w PROVE Moved(row[v], row'[v])
      BY <2>7, <3>1, RowStays
    <3>q. QED
      BY <2>5, <2>7, <3>1, NewRowsMove
  <2>9. RequestsOwn'
    BY <1>2, <2>2, <2>3, OneRequestMoves DEF BoxesCalm
  <2>q. QED
    BY <1>1, <1>2, <2>8, <2>9, CalmStep
<1>5. ASSUME NEW w \in Current, row' = row, NEW pc,
             call' = [call EXCEPT ![c].ws = w, ![c].box = row[w].box, ![c].state = row[w].state,
                                  ![c].pc = pc]
      PROVE SavingInv'
  <2>1. PICK k : k = [call[c] EXCEPT !.ws = w, !.box = row[w].box, !.state = row[w].state, !.pc = pc]
    OBVIOUS
  <2>2. k.ws = w /\ k.box = row[w].box /\ k.state = row[w].state
    BY <1>3, <2>1 DEF Calls
  <2>3. call' = [call EXCEPT ![c] = k]
    BY <1>3, <1>5, <2>1
  <2>4. RowsCalm
    BY <1>5, RowsStay
  <2>5. w \in Workspaces /\ Owned(row[w].box, w)
    BY <1>5 DEF Current, SavingInv, OwnershipPart
  <2>6. k.box \in Boxes => box'[k.box].ws = k.ws
    BY <1>1, <2>2, <2>5 DEF Owned
  <2>7. RequestsOwn'
    BY <1>2, <2>3, <2>6, OneRequestMoves DEF BoxesCalm
  <2>q. QED
    BY <1>1, <1>2, <2>4, <2>7, CalmStep
<1>q. QED
  BY <1>4, <1>5 DEF EnsureRow

LEMMA VerifySaves ==
    ASSUME WorkspaceInv, SavingInv, NEW c \in Callers, VerifySandbox(c) PROVE SavingInv'
<1> DEFINE w == call[c].ws
           found == FindWorkspace(w)
<1>1. wf' = wf /\ snap' = snap
  BY DEF VerifySandbox
<1>2. w \in Workspaces
  BY DEF WorkspaceInv, RequestPart, CallOK, VerifySandbox
<1>3. ASSUME NEW pc \in {"acquire", "idle"}, Goto(c, pc), row' = row, cr' = cr, box' = box
      PROVE SavingInv'
  <2>1. RowsCalm /\ BoxesCalm /\ OwnersQuiet
    BY <1>3, RowsStay, BoxesStay, OwnersUntouched
  <2>2. RequestsOwn'
    BY <1>3, <2>1, RequestGoes DEF BoxesCalm
  <2>q. QED
    BY <1>1, <2>1, <2>2, CalmStep DEF SnapCalm
<1>4. ASSUME box' = DeleteWorkspaces(found), RetireCurrentGeneratorWorkspace,
             cr' = IF Current = {} THEN cr ELSE [cr EXCEPT ![w] = RetireWorkspaceOwner(@)],
             Goto(c, "ensure")
      PROVE SavingInv'
  <2>1. RowsCalm
    BY <1>4, RetiredRowsMove DEF RetireCurrentGeneratorWorkspace
  <2>2. BoxesCalm
    BY <1>4, DeletedStay
  <2>3. OwnersQuiet
    BY <1>2, <1>4, OwnersUntouched, RetiredPatched
  <2>4. RequestsOwn'
    BY <1>4, <2>1, <2>2, RequestGoes DEF BoxesCalm
  <2>q. QED
    BY <1>1, <2>1, <2>2, <2>3, <2>4, CalmStep DEF SnapCalm
<1>q. QED
  BY <1>3, <1>4 DEF VerifySandbox

LEMMA ClaimSaves ==
    ASSUME WorkspaceInv, SavingInv, NEW c \in Callers, EnsureOwnerAndClaim(c) PROVE SavingInv'
<1> DEFINE w == call[c].ws
<1>1. wf' = wf /\ row' = row /\ box' = box /\ snap' = snap /\ call[c].pc = "owner"
  BY DEF EnsureOwnerAndClaim
<1>2. w \in Workspaces /\ cr \in [Workspaces -> Owners] /\ cr[w] \in Owners
  BY <1>1 DEF WorkspaceInv, RequestPart, CallOK, Provisioning, OwnerPart
<1>3. PICK pc : pc \in {"idle", "find", "wait"} /\ Goto(c, pc)
  BY DEF EnsureOwnerAndClaim
<1>4. OwnersQuiet
  <2>1. PICK o : o = EnsureWorkspaceOwner(cr[w])
    OBVIOUS
  <2>2. o \in Owners /\ o.box \in {cr[w].box, NoBox}
    BY <1>2, <2>1, OwnerEnsured
  <2>3. cr' = [cr EXCEPT ![w] = o]
    BY <1>2, <2>1 DEF EnsureOwnerAndClaim
  <2>q. QED
    BY <1>2, <2>2, <2>3, OwnerPatched
<1>5. RowsCalm /\ BoxesCalm
  BY <1>1, RowsStay, BoxesStay
<1>6. RequestsOwn'
  BY <1>3, <1>5, RequestGoes DEF BoxesCalm
<1>q. QED
  BY <1>1, <1>4, <1>5, <1>6, CalmStep DEF SnapCalm

LEMMA FindSaves ==
    ASSUME WorkspaceInv, SavingInv, NEW c \in Callers, FindSandbox(c) PROVE SavingInv'
<1> DEFINE found == FindWorkspace(call[c].ws)
<1>1. wf' = wf /\ row' = row /\ cr' = cr /\ box' = box /\ snap' = snap /\ call[c].pc = "find"
  BY DEF FindSandbox, cluster
<1>2. RowsCalm /\ BoxesCalm /\ OwnersQuiet
  BY <1>1, RowsStay, BoxesStay, OwnersUntouched
<1>3. RequestsOwn'
  <2>1. CASE Goto(c, "create") \/ Goto(c, "idle")
    BY <1>2, <2>1, RequestGoes DEF BoxesCalm
  <2>2. ASSUME NEW s \in found, call' = [call EXCEPT ![c].box = s, ![c].pc = "record"]
        PROVE RequestsOwn'
    <3>1. PICK k \in Calls : k = call[c]
      BY DEF WorkspaceInv, RequestPart
    <3>2. PICK j : j = [k EXCEPT !.box = s, !.pc = "record"]
      OBVIOUS
    <3>3. j.box = s /\ j.ws = k.ws
      BY <3>2 DEF Calls
    <3>4. call' = [call EXCEPT ![c] = j]
      BY <2>2, <3>1, <3>2 DEF WorkspaceInv, RequestPart
    <3>5. s \in Boxes /\ box'[s].ws = k.ws
      BY <1>1, <2>2, <3>1 DEF FindWorkspace
    <3>q. QED
      BY <1>2, <3>3, <3>4, <3>5, OneRequestMoves DEF BoxesCalm
  <2>q. QED
    BY <2>1, <2>2 DEF FindSandbox
<1>q. QED
  BY <1>1, <1>2, <1>3, CalmStep DEF SnapCalm

LEMMA CreateSaves ==
    ASSUME WorkspaceInv, SavingInv, NEW c \in Callers, CreateSandbox(c) PROVE SavingInv'
<1>1. wf' = wf /\ row' = row /\ cr' = cr /\ snap' = snap /\ call[c].pc = "create"
  BY DEF CreateSandbox, cluster
<1>2. PICK k \in Calls : k = call[c]
  BY DEF WorkspaceInv, RequestPart
<1>3. PICK s \in Boxes :
        /\ CreateWorkspace(k.ws, s)
        /\ call' = [call EXCEPT ![c].box = s, ![c].pc = "record"]
  BY <1>2 DEF CreateSandbox
<1>4. /\ box[s].ws = "none" /\ box'[s].ws = k.ws
      /\ \A t \in Boxes : t # s => box'[t] = box[t]
  BY <1>3 DEF CreateWorkspace, WorkspaceInv, RestPart
<1>5. BoxesCalm
  BY <1>4 DEF BoxesCalm, BoxesKept
<1>6. RowsCalm /\ OwnersQuiet
  BY <1>1, RowsStay, OwnersUntouched
<1>7. PICK j : j = [k EXCEPT !.box = s, !.pc = "record"]
  OBVIOUS
<1>8. j.box = s /\ j.ws = k.ws
  BY <1>7 DEF Calls
<1>9. call' = [call EXCEPT ![c] = j]
  BY <1>2, <1>3, <1>7 DEF WorkspaceInv, RequestPart
<1>10. RequestsOwn'
  BY <1>4, <1>5, <1>8, <1>9, OneRequestMoves DEF BoxesCalm
<1>q. QED
  BY <1>1, <1>5, <1>6, <1>10, CalmStep DEF SnapCalm

\* A refused or failed record or activation deletes the sandbox.
LEMMA CompensationSaves ==
    ASSUME WorkspaceInv, SavingInv, NEW c \in Callers, call[c].pc \in {"record", "activate"},
           Compensate(c), wf' = wf, row' = row, snap' = snap
    PROVE SavingInv'
<1>1. OwnersQuiet /\ BoxesCalm /\ Goto(c, "idle")
  BY Compensated, DeletedStay DEF Compensate
<1>2. RowsCalm
  BY RowsStay
<1>3. RequestsOwn'
  BY <1>1, <1>2, RequestGoes DEF BoxesCalm
<1>q. QED
  BY <1>1, <1>2, <1>3, CalmStep DEF SnapCalm

LEMMA RecordSaves ==
    ASSUME WorkspaceInv, SavingInv, NEW c \in Callers, RecordSandbox(c) PROVE SavingInv'
<1>1. wf' = wf /\ snap' = snap /\ call[c].pc = "record"
  BY DEF RecordSandbox
<1>2. PICK w \in Workspaces, s \in Boxes : w = call[c].ws /\ s = call[c].box
  BY <1>1 DEF WorkspaceInv, RequestPart, CallOK, Provisioning
<1>3. Owned(s, w) /\ row \in [Workspaces -> Rows] /\ row[w] \in Rows
  BY <1>2 DEF WorkspaceInv, RowPart, SavingInv, OwnershipPart, RequestsOwn
<1>4. ASSUME RecordGeneratorWorkspaceSandbox(w, s), Goto(c, "publish"), cr' = cr, box' = box
      PROVE SavingInv'
  <2>1. PICK r : r = [row[w] EXCEPT !.box = s]
    OBVIOUS
  <2>2. r.box = s /\ r.state = "pending" /\ r.turn = row[w].turn /\ r.idle = row[w].idle
    BY <1>3, <1>4, <2>1 DEF Rows, RecordGeneratorWorkspaceSandbox
  <2>3. r.turn = NoTurn /\ r.idle = "no"
    BY <1>3, <1>4, <2>2 DEF RecordGeneratorWorkspaceSandbox, SavingInv, TurnPart, TurnOK
  <2>4. row' = [row EXCEPT ![w] = r]
    BY <1>4, <2>1 DEF RecordGeneratorWorkspaceSandbox
  <2>5. row'[w] = r /\ \A v \in Workspaces : v # w => row'[v] = row[v]
    BY <1>3, <2>4
  <2>6. RowHome(w) /\ RowCalm(w)
    <3>1. Owned(row[w].box, w)'
      BY <1>3, <1>4, <2>2, <2>5 DEF Owned
    <3>2. RowCalm(w)
      BY <2>2, <2>3, <2>5, NoTurnFacts DEF RowCalm, TurnOK
    <3>q. QED
      BY <3>1, <3>2 DEF RowHome
  <2>7. ASSUME NEW v \in Workspaces, v # w PROVE RowHome(v) /\ RowCalm(v)
    <3>1. row'[v] = row[v] /\ TurnOK(row[v])
      BY <2>5, <2>7 DEF SavingInv, TurnPart
    <3>q. QED
      BY <3>1 DEF RowHome, RowCalm
  <2>8. RowsCalm
    BY <2>2, <2>5, <2>6, <2>7 DEF RowsCalm
  <2>9. BoxesCalm /\ OwnersQuiet
    BY <1>4, BoxesStay, OwnersUntouched
  <2>10. RequestsOwn'
    BY <1>4, <2>9, RequestGoes DEF BoxesCalm
  <2>q. QED
    BY <1>1, <2>8, <2>9, <2>10, CalmStep DEF SnapCalm
<1>5. ASSUME Compensate(c), row' = row PROVE SavingInv'
  BY <1>1, <1>5, CompensationSaves
<1>q. QED
  BY <1>2, <1>4, <1>5 DEF RecordSandbox

LEMMA PublishSaves ==
    ASSUME WorkspaceInv, SavingInv, NEW c \in Callers,
           NEW from \in {"publish", "confirm"}, NEW to \in {"wait", "acquire"},
           PublishOwner(c, from, to)
    PROVE SavingInv'
<1> DEFINE w == call[c].ws
<1>1. wf' = wf /\ row' = row /\ box' = box /\ snap' = snap /\ call[c].pc = from
  BY DEF PublishOwner
<1>2. call[c] \in Calls /\ w \in Workspaces /\ row[w] \in Rows /\ Owned(row[w].box, w)
  BY <1>1 DEF WorkspaceInv, RequestPart, RowPart, CallOK, Provisioning, SavingInv, OwnershipPart
<1>3. OwnersQuiet
  <2>1. PICK ok \in BOOLEAN :
          cr' = IF ok THEN [cr EXCEPT ![w] = RecordWorkspaceOwnerStatus(@, row[w].box, row[w].state)]
                ELSE cr
    BY DEF PublishOwner
  <2>q. QED
    BY <1>2, <2>1, StatusPatched, OwnersUntouched
<1>4. RowsCalm /\ BoxesCalm
  BY <1>1, RowsStay, BoxesStay
<1>5. CASE to = "wait"
  <2>1. PICK k : k = [call[c] EXCEPT !.box = row[w].box, !.state = row[w].state, !.pc = to]
    OBVIOUS
  <2>2. k.box = row[w].box /\ k.ws = w
    BY <1>2, <2>1 DEF Calls
  <2>3. call' = [call EXCEPT ![c] = k]
    BY <1>5, <2>1 DEF PublishOwner, WorkspaceInv, RequestPart
  <2>4. k.box \in Boxes => box'[k.box].ws = k.ws
    BY <1>1, <1>2, <2>2 DEF Owned
  <2>5. RequestsOwn'
    BY <1>4, <2>3, <2>4, OneRequestMoves DEF BoxesCalm
  <2>q. QED
    BY <1>1, <1>3, <1>4, <2>5, CalmStep DEF SnapCalm
<1>6. CASE to # "wait"
  <2>1. PICK k : k = [NoCall EXCEPT !.pc = to, !.pass = call[c].pass]
    OBVIOUS
  <2>2. k.box \notin Boxes
    BY <2>1, GeneratorAssumption DEF NoCall
  <2>3. call' = [call EXCEPT ![c] = k]
    BY <1>6, <2>1 DEF PublishOwner
  <2>4. RequestsOwn'
    BY <1>4, <2>2, <2>3, OneRequestMoves DEF BoxesCalm
  <2>q. QED
    BY <1>1, <1>3, <1>4, <2>4, CalmStep DEF SnapCalm
<1>q. QED
  BY <1>5, <1>6

\* A step that touches one sandbox only: it then holds no edit, or its row is
\* neither idle nor under the snapshotter's turn.
LEMMA WriteKeeps ==
    ASSUME WorkspaceInv, SavingInv, NEW s \in Boxes, row' = row, wf' = wf, snap' = snap,
           box'[s].ws = box[s].ws, \A t \in Boxes : t # s => box'[t] = box[t],
           \/ ~box'[s].edited
           \/ \A w \in Workspaces : row[w].box = s => row[w].idle = "no" /\ row[w].turn # Holder
    PROVE BoxesKept /\ SavedPart'
<1>1. BoxesKept
  BY DEF BoxesKept
<1>2. ASSUME NEW w \in Workspaces, row[w].idle # "no", wf.digest # NoDigest
      PROVE Contains(w, wf.digest)'
  <2>1. TurnOK(row[w]) /\ RowOK(w) /\ Contains(w, wf.digest)
    BY <1>2 DEF SavingInv, TurnPart, SavedPart, WorkspaceInv, RowPart
  <2>2. row[w].box \in Boxes /\ (row[w].box = s => ~box'[s].edited)
    BY <1>2, <2>1 DEF TurnOK, RowOK
  <2>q. QED
    BY <2>1, <2>2 DEF Contains
<1>3. ASSUME snap.pc = "publish", row[snap.ws].turn = Holder
      PROVE Contains(snap.ws, snap.content)'
  <2>1. PICK w \in Workspaces : w = snap.ws
    BY <1>3 DEF WorkspaceInv, SnapPart
  <2>2. TurnOK(row[w]) /\ RowOK(w) /\ Contains(w, snap.content)
    BY <1>3, <2>1 DEF SavingInv, TurnPart, SavedPart, WorkspaceInv, RowPart
  <2>3. row[w].box \in Boxes /\ (row[w].box = s => ~box'[s].edited)
    BY <1>3, <2>1, <2>2, NoTurnFacts DEF TurnOK, RowOK
  <2>q. QED
    BY <2>1, <2>2, <2>3 DEF Contains
<1>q. QED
  BY <1>1, <1>2, <1>3 DEF SavedPart

\* The step writes to one such sandbox and does nothing else to the tables.
LEMMA WritingStep ==
    ASSUME WorkspaceInv, SavingInv, BoxesKept, SavedPart', RequestsOwn', row' = row, cr' = cr
    PROVE SavingInv'
<1>1. RowsCalm /\ OwnersQuiet
  BY RowsStay, OwnersUntouched
<1>2. OwnershipPart'
  BY <1>1, OwnershipKept DEF RowsCalm
<1>3. TurnPart'
  BY <1>1 DEF RowsCalm, RowCalm, TurnPart
<1>q. QED
  BY <1>2, <1>3 DEF SavingInv

\* The sandbox may be bound to an active row by now; a reset leaves no edit in it.
LEMMA SeedingSaves ==
    ASSUME WorkspaceInv, SavingInv, NEW c \in Callers, SeedSandbox(c) PROVE SavingInv'
<1>1. /\ wf' = wf /\ row' = row /\ cr' = cr /\ snap' = snap /\ call[c].pc = "wait"
  BY DEF SeedSandbox, cluster
<1>2. PICK k \in Calls : k = call[c]
  BY DEF WorkspaceInv, RequestPart
<1>3. k.ws \in Workspaces /\ k.box \in Boxes /\ box[k.box].ws = k.ws
  BY <1>1, <1>2 DEF WorkspaceInv, RequestPart, CallOK, Provisioning, SavingInv, OwnershipPart,
                    RequestsOwn, Owned
<1>4. PICK pc \in {"activate", "idle"} : Goto(c, pc)
  BY DEF SeedSandbox
<1>5. BoxesKept /\ SavedPart'
  <2>1. CASE box' = box
    <3>1. RowsCalm /\ BoxesCalm
      BY <1>1, <2>1, RowsStay, BoxesStay
    <3>q. QED
      BY <1>1, <3>1, SavedKept DEF RowsCalm, BoxesCalm, SnapCalm
  <2>2. CASE k.state = "pending" /\ ResetWorkspace(k.box, k.seed)
    <3>1. PICK s : s = k.box
      OBVIOUS
    <3>2. box'[s] = [box[s] EXCEPT !.content = k.seed, !.edited = FALSE]
      BY <1>3, <2>2, <3>1 DEF ResetWorkspace, WorkspaceInv, RestPart
    <3>3. box[s] \in Sandboxes
      BY <1>3, <3>1 DEF WorkspaceInv, RestPart
    <3>4. box'[s].ws = box[s].ws /\ ~box'[s].edited
      BY <3>2, <3>3 DEF Sandboxes
    <3>5. \A t \in Boxes : t # s => box'[t] = box[t]
      BY <2>2, <3>1 DEF ResetWorkspace, WorkspaceInv, RestPart
    <3>q. QED
      BY <1>1, <1>3, <3>1, <3>4, <3>5, WriteKeeps
  <2>q. QED
    BY <1>2, <2>1, <2>2 DEF SeedSandbox
<1>6. RequestsOwn'
  BY <1>1, <1>4, <1>5, RowsStay, RequestGoes
<1>q. QED
  BY <1>1, <1>5, <1>6, WritingStep

\* The row becomes active, with the sandbox that it recorded before.
LEMMA ActivateSaves ==
    ASSUME WorkspaceInv, SavingInv, NEW c \in Callers, Activate(c) PROVE SavingInv'
<1>1. wf' = wf /\ snap' = snap /\ call[c].pc = "activate"
  BY DEF Activate
<1>2. PICK w \in Workspaces, s \in Boxes : w = call[c].ws /\ s = call[c].box
  BY <1>1 DEF WorkspaceInv, RequestPart, CallOK, Provisioning
<1>3. /\ Owned(s, w) /\ row \in [Workspaces -> Rows]
      /\ row[w] \in Rows /\ RowOK(w) /\ TurnOK(row[w])
  BY <1>2 DEF WorkspaceInv, RowPart, SavingInv, OwnershipPart, RequestsOwn, TurnPart
<1>4. ASSUME ActivateGeneratorWorkspace(w, s), Goto(c, "confirm"), cr' = cr, box' = box
      PROVE SavingInv'
  <2>1. PICK r : r = [row[w] EXCEPT !.box = s, !.state = "active", !.expired = FALSE]
    OBVIOUS
  <2>2. r.box = s /\ r.state = "active" /\ r.turn = row[w].turn /\ r.idle = row[w].idle
    BY <1>3, <2>1 DEF Rows
  <2>3. row' = [row EXCEPT ![w] = r]
    BY <1>3, <1>4, <2>1 DEF ActivateGeneratorWorkspace
  <2>4. row'[w] = r /\ \A v \in Workspaces : v # w => row'[v] = row[v]
    BY <1>3, <2>3
  <2>5. row[w].state = "active" => row[w].box = s
    BY <1>3, <1>4, GeneratorAssumption DEF ActivateGeneratorWorkspace, RowOK
  <2>6. RowHome(w) /\ RowCalm(w)
    <3>1. Owned(row[w].box, w)'
      BY <1>3, <1>4, <2>2, <2>4 DEF Owned
    <3>2. RowCalm(w)
      BY <1>3, <2>2, <2>4, <2>5, NoTurnFacts DEF RowCalm, TurnOK
    <3>q. QED
      BY <3>1, <3>2 DEF RowHome
  <2>7. ASSUME NEW v \in Workspaces, v # w PROVE RowHome(v) /\ RowCalm(v)
    <3>1. row'[v] = row[v] /\ TurnOK(row[v])
      BY <2>4, <2>7 DEF SavingInv, TurnPart
    <3>q. QED
      BY <3>1 DEF RowHome, RowCalm
  <2>8. RowsCalm
    BY <2>6, <2>7 DEF RowsCalm
  <2>9. BoxesCalm /\ OwnersQuiet
    BY <1>4, BoxesStay, OwnersUntouched
  <2>10. RequestsOwn'
    BY <1>4, <2>9, RequestGoes DEF BoxesCalm
  <2>q. QED
    BY <1>1, <2>8, <2>9, <2>10, CalmStep DEF SnapCalm
<1>5. ASSUME Compensate(c), row' = row PROVE SavingInv'
  BY <1>1, <1>5, CompensationSaves
<1>q. QED
  BY <1>2, <1>4, <1>5 DEF Activate

LEMMA FailingSaves ==
    ASSUME WorkspaceInv, SavingInv, NEW c \in Callers, ProvisionFails(c) PROVE SavingInv'
<1>1. wf' = wf /\ row' = row /\ snap' = snap
  BY DEF ProvisionFails
<1>2. CASE call[c].pc \in {"record", "activate"}
  BY <1>1, <1>2, CompensationSaves DEF ProvisionFails
<1>3. CASE call[c].pc \notin {"record", "activate"}
  <2>1. Goto(c, "idle") /\ cr' = cr /\ box' = box
    BY <1>3 DEF ProvisionFails
  <2>2. RowsCalm /\ BoxesCalm /\ OwnersQuiet
    BY <1>1, <2>1, RowsStay, BoxesStay, OwnersUntouched
  <2>3. RequestsOwn'
    BY <2>1, <2>2, RequestGoes DEF BoxesCalm
  <2>q. QED
    BY <1>1, <2>2, <2>3, CalmStep DEF SnapCalm
<1>q. QED
  BY <1>2, <1>3

LEMMA TurnSaves ==
    ASSUME WorkspaceInv, SavingInv, NEW c \in Callers, AcquireTurn(c) PROVE SavingInv'
<1> DEFINE active == {w \in Workspaces : row[w].state = "active"}
<1>1. wf' = wf /\ cr' = cr /\ box' = box /\ snap' = snap
  BY DEF AcquireTurn, cluster
<1>2. PICK pc \in {"idle", "again", "holding"} :
        Goto(c, pc) /\ (row' = row \/ \E w \in active : AcquireGeneratorWorkspaceTurn(w, c))
  BY DEF AcquireTurn
<1>3. RowsCalm /\ BoxesCalm /\ OwnersQuiet
  BY <1>1, <1>2, RowsStay, TakenMoves, BoxesStay, OwnersUntouched
<1>4. RequestsOwn'
  BY <1>2, <1>3, RequestGoes DEF BoxesCalm
<1>q. QED
  BY <1>1, <1>3, <1>4, CalmStep DEF SnapCalm

\* The request ends, and its turn with it if it had one.
LEMMA EndingSaves ==
    ASSUME WorkspaceInv, SavingInv, NEW c \in Callers, Goto(c, "idle"),
           row' = row \/ ReleaseGeneratorWorkspaceTurn(c), cr' = cr, box' = box, snap' = snap,
           wf'.digest \in {wf.digest, NoDigest}
    PROVE SavingInv'
<1>1. RowsCalm /\ BoxesCalm /\ OwnersQuiet
  BY RowsStay, LeftMoves, BoxesStay, OwnersUntouched
<1>2. RequestsOwn'
  BY <1>1, RequestGoes DEF BoxesCalm
<1>q. QED
  BY <1>1, <1>2, CalmStep DEF SnapCalm

LEMMA TurnEndSaves ==
    ASSUME WorkspaceInv, SavingInv, NEW c \in Callers,
           StartRefused(c) \/ TurnLost(c) \/ EndWorkspaceTurn(c) \/ SubmitCandidate(c)
    PROVE SavingInv'
<1>1. /\ Goto(c, "idle") /\ (row' = row \/ ReleaseGeneratorWorkspaceTurn(c))
      /\ cr' = cr /\ box' = box /\ snap' = snap
  BY DEF StartRefused, TurnLost, EndWorkspaceTurn, SubmitCandidate, cluster
<1>2. wf'.digest \in {wf.digest, NoDigest}
  BY DEF StartRefused, TurnLost, EndWorkspaceTurn, SubmitCandidate
<1>q. QED
  BY <1>1, <1>2, EndingSaves

\* The file belongs to the one active row, which is under the client's turn.
LEMMA WriteSaves ==
    ASSUME WorkspaceInv, SavingInv, NEW c \in Callers, WriteWorkspaceFile(c) PROVE SavingInv'
<1>1. wf' = wf /\ row' = row /\ cr' = cr /\ call' = call /\ snap' = snap
  BY DEF WriteWorkspaceFile, cluster
<1>2. PICK w \in Workspaces :
        /\ GeneratingWorkspace(c, w)
        /\ box' = [box EXCEPT ![row[w].box] = [@ EXCEPT !.content = edits + 1, !.edited = TRUE]]
  BY DEF WriteWorkspaceFile
<1>3. box \in [Boxes -> Sandboxes]
  BY DEF WorkspaceInv, RestPart
<1>4. /\ row[w].turn = c /\ TurnOK(row[w]) /\ row[w].box \in Boxes
  BY <1>2 DEF GeneratingWorkspace, GetGeneratorWorkspaceForTurn, SavingInv, TurnPart,
              WorkspaceInv, RowPart, RowOK
<1>5. ASSUME NEW v \in Workspaces, row[v].box = row[w].box
      PROVE row[v].idle = "no" /\ row[v].turn # Holder
  <2>1. v = w
    BY <1>4, <1>5 DEF SavingInv, OwnershipPart, Owned
  <2>q. QED
    BY <1>4, <2>1, NoTurnFacts DEF TurnOK
<1>6. PICK s \in Boxes : s = row[w].box
  BY <1>4
<1>7. box'[s] = [box[s] EXCEPT !.content = edits + 1, !.edited = TRUE]
  BY <1>2, <1>3, <1>6
<1>8. box'[s].ws = box[s].ws
  BY <1>3, <1>7 DEF Sandboxes
<1>9. \A t \in Boxes : t # s => box'[t] = box[t]
  BY <1>2, <1>3, <1>6
<1>10. BoxesKept /\ SavedPart'
  BY <1>1, <1>5, <1>6, <1>8, <1>9, WriteKeeps
<1>11. RequestsOwn'
  BY <1>1, <1>10, RequestsStay
<1>q. QED
  BY <1>1, <1>10, <1>11, WritingStep
-----------------------------------------------------------------------------
\* The workflow, the snapshotter and the loops.
\* A step that no request takes part in.
LEMMA OthersSave ==
    ASSUME WorkspaceInv, SavingInv, RowsCalm, BoxesCalm, OwnersQuiet,
           call' = call, SnapCalm, wf'.digest \in {wf.digest, NoDigest}
    PROVE SavingInv'
<1>1. RequestsOwn'
  BY RequestsStay DEF BoxesCalm
<1>q. QED
  BY <1>1, CalmStep

LEMMA WorkflowSaves ==
    ASSUME WorkspaceInv, SavingInv, WorkflowMoves PROVE SavingInv'
<1>1. row' = row /\ cr' = cr /\ box' = box /\ snap' = snap /\ call' = call
  BY DEF WorkflowMoves, cluster, request
<1>2. wf'.digest = wf.digest
  BY DEF WorkflowMoves, WorkspaceInv, DiskPart, Workflows
<1>q. QED
  BY <1>1, <1>2, RowsStay, BoxesStay, OwnersUntouched, OthersSave DEF SnapCalm

\* The steps of the snapshotter before it archives, and its cleanup.
LEMMA LookingSaves ==
    ASSUME WorkspaceInv, SavingInv, ListSnapshotTarget \/ ReconcileSnapshot \/ CleanupSnapshots
    PROVE SavingInv'
<1>1. cr' = cr /\ box' = box /\ call' = call
  BY DEF ListSnapshotTarget, ReconcileSnapshot, CleanupSnapshots, cluster, request
<1>2. CASE ListSnapshotTarget
  <2>1. wf' = wf /\ row' = row /\ snap'.pc = "reconcile"
    BY <1>2 DEF ListSnapshotTarget, NoSnap
  <2>q. QED
    BY <1>1, <2>1, RowsStay, BoxesStay, OwnersUntouched, OthersSave DEF SnapCalm
<1>3. CASE ReconcileSnapshot
  <2>1. SnapGoto("acquire") \/ SnapGoto("cleanup")
    BY <1>3 DEF ReconcileSnapshot
  <2>2. SnapCalm
    BY <2>1, SnapMoves
  <2>3. \/ wf' = wf /\ row' = row
        \/ wf' = wf /\ RetireIdleGeneratorWorkspace(snap.ws, snap.digest)
        \/ ClearGeneratorWorkspaceSnapshot
    BY <1>3 DEF ReconcileSnapshot
  <2>4. PICK w \in Workspaces : w = snap.ws
    BY <1>3 DEF ReconcileSnapshot, WorkspaceInv, SnapPart
  <2>5. RetireIdleGeneratorWorkspace(snap.ws, snap.digest) =>
            row' = [row EXCEPT ![w] = Retired(@)] \/ row' = row
    BY <2>4 DEF RetireIdleGeneratorWorkspace
  <2>6. RowsCalm /\ wf'.digest \in {wf.digest, NoDigest}
    BY <2>3, <2>5, RowsStay, OneRetiredMoves, ClearedMoves
  <2>q. QED
    BY <1>1, <2>2, <2>6, BoxesStay, OwnersUntouched, OthersSave
<1>4. CASE CleanupSnapshots
  <2>1. wf' = wf /\ row' = row /\ SnapCalm
    BY <1>4, SnapMoves DEF CleanupSnapshots
  <2>q. QED
    BY <1>1, <2>1, RowsStay, BoxesStay, OwnersUntouched, OthersSave
<1>q. QED
  BY <1>2, <1>3, <1>4

\* The turn is taken by the snapshotter, the archive comes later.
LEMMA HoldingSaves ==
    ASSUME WorkspaceInv, SavingInv, AcquireSnapshot PROVE SavingInv'
<1>1. wf' = wf /\ cr' = cr /\ box' = box /\ call' = call /\ snap.pc = "acquire"
  BY DEF AcquireSnapshot, cluster, request
<1>2. BoxesCalm /\ OwnersQuiet
  BY <1>1, BoxesStay, OwnersUntouched
<1>3. ASSUME NEW w \in Workspaces, AcquireGeneratorWorkspaceSnapshot(w),
             snap' = [snap EXCEPT !.pc = "archive", !.ws = w]
      PROVE SavingInv'
  <2>1. row \in [Workspaces -> Rows] /\ row[w] \in Rows
    BY DEF WorkspaceInv, RowPart
  <2>2. PICK q : q = [row[w] EXCEPT !.turn = Holder, !.idle = "no"]
    OBVIOUS
  <2>3. q.state = row[w].state /\ q.box = row[w].box /\ q.idle = "no" /\ TurnOK(q)
    BY <1>3, <2>1, <2>2 DEF Rows, AcquireGeneratorWorkspaceSnapshot, TurnOK
  <2>4. row' = [row EXCEPT ![w] = q]
    BY <1>3, <2>2 DEF AcquireGeneratorWorkspaceSnapshot
  <2>5. row'[w] = q /\ \A v \in Workspaces : v # w => row'[v] = row[v]
    BY <2>1, <2>4
  <2>6. ASSUME NEW v \in Workspaces
        PROVE /\ RowHome(v) /\ TurnOK(row'[v]) /\ row'[v].box = row[v].box
              /\ row'[v].idle # "no" => row[v].idle # "no"
    <3>1. TurnOK(row[v])
      BY DEF SavingInv, TurnPart
    <3>2. row'[v] = row[v] \/ (v = w /\ row'[v] = q)
      BY <2>5
    <3>q. QED
      BY <2>3, <3>1, <3>2 DEF RowHome
  <2>7. TurnPart'
    BY <2>6 DEF TurnPart
  <2>8. RequestsOwn'
    BY <1>1, <1>2, RequestsStay DEF BoxesCalm
  <2>9. OwnershipPart'
    BY <1>2, <2>6, <2>8, OwnershipKept DEF BoxesCalm
  <2>10. SavedPart'
    <3>1. ASSUME NEW v \in Workspaces, row'[v].idle # "no", wf.digest # NoDigest
          PROVE Contains(v, wf.digest)'
      <4>1. row[v].idle # "no" /\ row'[v].box = row[v].box
        BY <2>6, <3>1
      <4>2. Contains(v, wf.digest)
        BY <3>1, <4>1 DEF SavingInv, SavedPart
      <4>q. QED
        BY <1>1, <4>1, <4>2 DEF Contains
    <3>2. snap'.pc # "publish"
      BY <1>3 DEF WorkspaceInv, SnapPart, Snaps
    <3>q. QED
      BY <1>1, <3>1, <3>2 DEF SavedPart
  <2>q. QED
    BY <2>7, <2>8, <2>9, <2>10 DEF SavingInv
<1>4. CASE SnapGoto("cleanup") /\ row' = row
  BY <1>1, <1>2, <1>4, SnapMoves, RowsStay, OthersSave
<1>q. QED
  BY <1>3, <1>4 DEF AcquireSnapshot

LEMMA ArchivingSaves ==
    ASSUME WorkspaceInv, SavingInv, ArchiveAndSave PROVE SavingInv'
<1> DEFINE s == row[snap.ws].box
<1>1. wf' = wf /\ cr' = cr /\ box' = box /\ call' = call
  BY DEF ArchiveAndSave, cluster, request
<1>2. BoxesCalm /\ OwnersQuiet
  BY <1>1, BoxesStay, OwnersUntouched
<1>3. ASSUME snap' = [snap EXCEPT !.pc = "publish", !.content = ArchiveWorkspace(s)], row' = row
      PROVE SavingInv'
  <2>1. snap'.ws = snap.ws /\ snap'.content = box[row[snap.ws].box].content
    BY <1>3 DEF WorkspaceInv, SnapPart, Snaps, ArchiveWorkspace
  <2>2. RowsCalm
    BY <1>3, RowsStay
  <2>3. RequestsOwn'
    BY <1>1, <1>2, RequestsStay DEF BoxesCalm
  <2>4. OwnershipPart' /\ TurnPart'
    BY <1>2, <2>2, <2>3, OwnershipKept DEF RowsCalm, RowCalm, BoxesCalm, TurnPart
  <2>5. SavedPart'
    BY <1>1, <1>3, <2>1 DEF SavingInv, SavedPart, Contains
  <2>q. QED
    BY <2>3, <2>4, <2>5 DEF SavingInv
<1>4. CASE ReleaseGeneratorWorkspaceTurn(Holder) /\ SnapGoto("cleanup")
  BY <1>1, <1>2, <1>4, LeftMoves, SnapMoves, OthersSave
<1>q. QED
  BY <1>3, <1>4 DEF ArchiveAndSave

\* The pointer moves to what the snapshotter's row contains, and every other
\* row is not active.
LEMMA PublishingSaves ==
    ASSUME WorkspaceInv, SavingInv, PublishSnapshot PROVE SavingInv'
<1>1. /\ cr' = cr /\ box' = box /\ call' = call /\ snap.pc = "publish"
      /\ SnapGoto("cleanup")
  BY DEF PublishSnapshot, cluster, request
<1>2. BoxesCalm /\ OwnersQuiet /\ SnapCalm
  BY <1>1, BoxesStay, OwnersUntouched, SnapMoves
<1>3. PICK w \in Workspaces : w = snap.ws
  BY <1>1 DEF WorkspaceInv, SnapPart
<1>4. CASE PublishGeneratorWorkspaceSnapshot(snap.ws, snap.content)
  <2>1. row \in [Workspaces -> Rows] /\ row[w] \in Rows
    BY DEF WorkspaceInv, RowPart
  <2>2. PICK q : q = [row[w] EXCEPT !.turn = NoTurn, !.idle = "fresh"]
    OBVIOUS
  <2>3. q.state = "active" /\ q.box = row[w].box /\ q.turn = NoTurn
    BY <1>3, <1>4, <2>1, <2>2 DEF Rows, PublishGeneratorWorkspaceSnapshot
  <2>4. row' = [row EXCEPT ![w] = q] /\ row[w].state = "active" /\ row[w].turn = Holder
    BY <1>3, <1>4, <2>2 DEF PublishGeneratorWorkspaceSnapshot
  <2>5. row'[w] = q /\ \A v \in Workspaces : v # w => row'[v] = row[v]
    BY <2>1, <2>4
  <2>6. wf'.digest = snap.content
    BY <1>4 DEF PublishGeneratorWorkspaceSnapshot, WorkspaceInv, DiskPart, Workflows
  <2>7. ASSUME NEW v \in Workspaces
        PROVE RowHome(v) /\ TurnOK(row'[v])
    <3>1. TurnOK(row[v])
      BY DEF SavingInv, TurnPart
    <3>2. row'[v] = row[v] \/ (v = w /\ row'[v] = q)
      BY <2>5
    <3>q. QED
      BY <2>3, <2>4, <3>1, <3>2 DEF RowHome, TurnOK
  <2>8. TurnPart'
    BY <2>7 DEF TurnPart
  <2>9. RequestsOwn'
    BY <1>1, <1>2, RequestsStay DEF BoxesCalm
  <2>10. OwnershipPart'
    BY <1>2, <2>7, <2>9, OwnershipKept DEF BoxesCalm
  <2>11. SavedPart'
    <3>1. ASSUME NEW v \in Workspaces, row'[v].idle # "no" PROVE v = w
      <4>1. CASE v # w
        <5>1. row[v].idle # "no" /\ TurnOK(row[v])
          BY <2>5, <3>1, <4>1 DEF SavingInv, TurnPart
        <5>2. row[v].state = "active"
          BY <5>1 DEF TurnOK
        <5>q. QED
          BY <2>4, <5>2 DEF WorkspaceInv, RowPart, OneCurrent, IsCurrent
      <4>q. QED
        BY <4>1
    <3>2. Contains(w, snap.content)
      BY <1>1, <1>3, <2>4 DEF SavingInv, SavedPart
    <3>3. PICK c : c = snap.content
      OBVIOUS
    <3>4. Contains(w, c)'
      BY <1>1, <2>3, <2>5, <3>2, <3>3 DEF Contains
    <3>5. snap'.pc = "cleanup"
      BY <1>1 DEF SnapGoto, NoSnap
    <3>q. QED
      BY <2>6, <3>1, <3>3, <3>4, <3>5 DEF SavedPart, Contains
  <2>q. QED
    BY <2>8, <2>9, <2>10, <2>11 DEF SavingInv
<1>5. CASE ReleaseGeneratorWorkspaceTurn(Holder) /\ wf' = wf
  BY <1>1, <1>2, <1>5, LeftMoves, OthersSave
<1>q. QED
  BY <1>4, <1>5 DEF PublishSnapshot
-----------------------------------------------------------------------------
\* The reaper, the reconciler, the sanitizer, time, losses and restarts.
LEMMA DueSaves ==
    ASSUME WorkspaceInv, SavingInv, NEW w \in Workspaces, CleanupDue(w) PROVE SavingInv'
<1>1. wf' = wf /\ box' = box /\ call' = call /\ snap' = snap
  BY DEF CleanupDue, request
<1>2. row' = [row EXCEPT ![w] = Retired(@)] \/ row' = row
  <2>1. row \in [Workspaces -> Rows]
    BY DEF WorkspaceInv, RowPart
  <2>2. CASE row[w].state \in {"pending", "active"}
    BY <2>1, <2>2 DEF CleanupDue, BeginGeneratorWorkspaceCleanup
  <2>3. CASE row[w].state \notin {"pending", "active"}
    BY <2>1, <2>3 DEF CleanupDue, BeginGeneratorWorkspaceCleanup
  <2>q. QED
    BY <2>2, <2>3
<1>3. OwnersQuiet
  <2>1. cr' = [cr EXCEPT ![w] = RetireWorkspaceOwner(@)] \/ cr' = cr
    BY DEF CleanupDue
  <2>q. QED
    BY <2>1, RetiredPatched, OwnersUntouched
<1>q. QED
  BY <1>1, <1>2, <1>3, OneRetiredMoves, BoxesStay, OthersSave DEF SnapCalm

LEMMA ReconcilingSaves ==
    ASSUME WorkspaceInv, SavingInv, NEW w \in Workspaces, ReconcileOwner(w) PROVE SavingInv'
<1>1. wf' = wf /\ call' = call /\ snap' = snap
  BY DEF ReconcileOwner, request
<1>2. ASSUME row[w].state \in {"deleting", "deleted"}, NEW done \in 0..3, DropWorkspace(w, done)
      PROVE SavingInv'
  <2>1. OwnersQuiet
    BY <1>2, Dropped
  <2>2. BoxesCalm
    BY <1>2, DeletedStay, BoxesStay DEF DropWorkspace
  <2>3. MarkGeneratorWorkspaceDeleted(w) \/ row' = row
    BY <1>2 DEF DropWorkspace
  <2>4. RowsCalm
    BY <1>2, <2>3, CompletedMoves, RowsStay
  <2>q. QED
    BY <1>1, <2>1, <2>2, <2>4, OthersSave DEF SnapCalm
<1>3. ASSUME cr' = [cr EXCEPT ![w] = RecordWorkspaceOwnerStatus(@, row[w].box, row[w].state)],
             row' = row, box' = box
      PROVE SavingInv'
  <2>1. OwnersQuiet
    BY <1>3, StatusPatched
  <2>q. QED
    BY <1>1, <1>3, <2>1, RowsStay, BoxesStay, OthersSave DEF SnapCalm
<1>q. QED
  BY <1>2, <1>3 DEF ReconcileOwner

LEMMA BackfillSaves ==
    ASSUME WorkspaceInv, SavingInv, NEW w \in Workspaces, BackfillOwner(w) PROVE SavingInv'
<1>1. wf' = wf /\ row' = row /\ box' = box /\ call' = call /\ snap' = snap
  BY DEF BackfillOwner, request
<1>2. PICK ok \in BOOLEAN :
        cr' = [cr EXCEPT ![w] =
                 IF ok THEN RecordWorkspaceOwnerStatus(CreatedOwner, row[w].box, row[w].state)
                 ELSE CreatedOwner]
  BY DEF BackfillOwner
<1>3. row[w].box \in Boxes \cup {NoBox}
  BY DEF WorkspaceInv, RowPart, Rows
<1>4. CreatedOwner \in Owners /\ CreatedOwner.box = NoBox
  BY DEF CreatedOwner, NoOwner, Owners
<1>5. PICK o : o = IF ok THEN RecordWorkspaceOwnerStatus(CreatedOwner, row[w].box, row[w].state)
                   ELSE CreatedOwner
  OBVIOUS
<1>6. o \in Owners /\ o.box \in {row[w].box, NoBox}
  BY <1>3, <1>4, <1>5, StatusRecorded
<1>7. OwnersQuiet
  BY <1>2, <1>5, <1>6, OwnerPatched
<1>q. QED
  BY <1>1, <1>7, RowsStay, BoxesStay, OthersSave DEF SnapCalm

LEMMA SanitizingSaves ==
    ASSUME WorkspaceInv, SavingInv, Sanitizer \/ \E w \in Workspaces : CollectClaim(w)
    PROVE SavingInv'
<1>1. wf' = wf /\ row' = row /\ cr' = cr /\ call' = call /\ snap' = snap
  BY DEF Sanitizer, ListSandboxes, ReadOwners, DeleteUnowned, CollectClaim, cluster, request
<1>2. box' = box \/ box' = DeleteWorkspaces(sweep.ids)
  BY DEF Sanitizer, ListSandboxes, ReadOwners, DeleteUnowned, CollectClaim
<1>q. QED
  BY <1>1, <1>2, RowsStay, BoxesStay, DeletedStay, OwnersUntouched, OthersSave DEF SnapCalm

LEMMA TimeSaves ==
    ASSUME WorkspaceInv, SavingInv, TimePasses PROVE SavingInv'
<1>1. wf' = wf /\ cr' = cr /\ box' = box /\ call' = call /\ snap' = snap
  BY DEF TimePasses, cluster, request
<1>2. RowsCalm
  <2>1. ASSUME NEW w \in Workspaces,
               \/ row' = [row EXCEPT ![w].expired = TRUE]
               \/ row[w].idle = "fresh" /\ row' = [row EXCEPT ![w].idle = "stale"]
        PROVE RowsCalm
    <3>1. row \in [Workspaces -> Rows] /\ row[w] \in Rows /\ TurnOK(row[w])
      BY DEF WorkspaceInv, RowPart, SavingInv, TurnPart
    <3>2. PICK q : /\ row' = [row EXCEPT ![w] = q]
                   /\ \/ q = [row[w] EXCEPT !.expired = TRUE]
                      \/ row[w].idle = "fresh" /\ q = [row[w] EXCEPT !.idle = "stale"]
      BY <2>1
    <3>3. /\ q.state = row[w].state /\ q.box = row[w].box /\ q.turn = row[w].turn
          /\ q.idle = row[w].idle \/ row[w].idle = "fresh"
      BY <3>1, <3>2 DEF Rows
    <3>4. Moved(row[w], q)
      BY <3>1, <3>3 DEF Moved, TurnOK
    <3>q. QED
      BY <3>2, <3>4, OneRowMoves
  <2>q. QED
    BY <2>1, RowsStay DEF TimePasses
<1>q. QED
  BY <1>1, <1>2, BoxesStay, OwnersUntouched, OthersSave DEF SnapCalm

LEMMA LossSaves ==
    ASSUME WorkspaceInv, SavingInv,
           (\E s \in Boxes : SandboxLost(s)) \/ (\E v \in Versions : ArchiveLost(v))
    PROVE SavingInv'
<1>1. wf' = wf /\ row' = row /\ cr' = cr /\ call' = call /\ snap' = snap
  BY DEF SandboxLost, ArchiveLost, cluster, request
<1>2. box' = box \/ \E s \in Boxes : box' = DeleteWorkspaces({s})
  BY DEF SandboxLost, ArchiveLost
<1>q. QED
  BY <1>1, <1>2, RowsStay, BoxesStay, DeletedStay, OwnersUntouched, OthersSave DEF SnapCalm

LEMMA RestartSaves ==
    ASSUME WorkspaceInv, SavingInv, NEW reset \in BOOLEAN, Restart(reset) PROVE SavingInv'
<1>1. call' = [c \in Callers |-> NoCall] /\ snap' = NoSnap /\ box' = box
  BY DEF Restart
<1>2. wf'.digest \in {wf.digest, NoDigest}
  BY DEF Restart, WorkspaceInv, DiskPart, Workflows
<1>3. SnapCalm /\ BoxesCalm
  BY <1>1, BoxesStay DEF SnapCalm, NoSnap
<1>4. RowsCalm
  <2>1. CASE reset
    <3>1. ASSUME NEW w \in Workspaces
          PROVE /\ row'[w].state # "active" /\ row'[w].turn = NoTurn /\ row'[w].idle = "no"
                /\ row'[w].box \in {cr[w].box, NoBox}
      <4>1. row'[w] = AdoptOwner(w)
        BY <2>1 DEF Restart
      <4>q. QED
        BY <4>1 DEF AdoptOwner, NoRow
    <3>q. QED
      BY <3>1, NewRowsMove
  <2>2. CASE ~reset
    <3>1. row' = [w \in Workspaces |-> IF w \in {v \in Current : wf.state # "ended"}
                                       THEN Retired(row[w]) ELSE row[w]]
      BY <2>2 DEF Restart, RetireIncompleteGeneratorWorkspaces
    <3>q. QED
      BY <3>1, RetiredRowsMove
  <2>q. QED
    BY <2>1, <2>2
<1>5. OwnersQuiet
  <2>1. cr \in [Workspaces -> Owners]
    BY DEF WorkspaceInv, OwnerPart
  <2>2. cr' = cr \/ cr' = [w \in Workspaces |-> RetireWorkspaceOwner(cr[w])]
    BY DEF Restart
  <2>3. ASSUME NEW w \in Workspaces PROVE cr'[w] \in Owners /\ cr'[w].box = cr[w].box
    BY <2>1, <2>2, OwnerRetired
  <2>q. QED
    BY <2>1, <2>2, <2>3 DEF OwnersQuiet
<1>6. RequestsOwn'
  <2>1. NoCall.box \notin Boxes
    BY GeneratorAssumption DEF NoCall
  <2>q. QED
    BY <1>1, <2>1 DEF RequestsOwn, Owned
<1>q. QED
  BY <1>2, <1>3, <1>4, <1>5, <1>6, CalmStep

LEMMA StutterSaves ==
    ASSUME WorkspaceInv, SavingInv, UNCHANGED vars PROVE SavingInv'
<1>1. wf' = wf /\ row' = row /\ cr' = cr /\ box' = box /\ call' = call /\ snap' = snap
  BY DEF vars
<1>q. QED
  BY <1>1, RowsStay, BoxesStay, OwnersUntouched, OthersSave DEF SnapCalm

-----------------------------------------------------------------------------
LEMMA RequestSaves ==
    ASSUME WorkspaceInv, SavingInv, NEW c \in Callers, Request(c) PROVE SavingInv'
<1>1. \/ PublishOwner(c, "publish", "wait") \/ PublishOwner(c, "confirm", "acquire")
      => SavingInv'
  BY PublishSaves
<1>2. \/ WorkspaceSeed(c) \/ EnsureRow(c) \/ VerifySandbox(c) \/ EnsureOwnerAndClaim(c)
      \/ FindSandbox(c) \/ CreateSandbox(c) \/ RecordSandbox(c) \/ SeedSandbox(c)
      \/ Activate(c) \/ ProvisionFails(c)
      => SavingInv'
  BY SeedSaves, EnsureSaves, VerifySaves, ClaimSaves, FindSaves, CreateSaves, RecordSaves,
     SeedingSaves, ActivateSaves, FailingSaves
<1>3. \/ AcquireTurn(c) \/ StartRefused(c) \/ WriteWorkspaceFile(c) \/ EndWorkspaceTurn(c)
      \/ SubmitCandidate(c) \/ TurnLost(c)
      => SavingInv'
  BY TurnSaves, TurnEndSaves, WriteSaves
<1>q. QED
  BY <1>1, <1>2, <1>3 DEF Request

LEMMA SavingStep ==
    ASSUME WorkspaceInv, SavingInv, [Next]_vars PROVE SavingInv'
<1>1. ASSUME NEW c \in Callers, Request(c) PROVE SavingInv'
  BY <1>1, RequestSaves
<1>2. CASE WorkflowMoves
  BY <1>2, WorkflowSaves
<1>3. CASE Snapshotter
  BY <1>3, LookingSaves, HoldingSaves, ArchivingSaves, PublishingSaves DEF Snapshotter
<1>4. CASE Sanitizer \/ \E w \in Workspaces : CollectClaim(w)
  BY <1>4, SanitizingSaves
<1>5. ASSUME NEW w \in Workspaces, CleanupDue(w) \/ ReconcileOwner(w) \/ BackfillOwner(w)
      PROVE SavingInv'
  BY <1>5, DueSaves, ReconcilingSaves, BackfillSaves
<1>6. CASE TimePasses
  BY <1>6, TimeSaves
<1>7. CASE (\E s \in Boxes : SandboxLost(s)) \/ (\E v \in Versions : ArchiveLost(v))
  BY <1>7, LossSaves
<1>8. ASSUME NEW reset \in BOOLEAN, Restart(reset) PROVE SavingInv'
  BY <1>8, RestartSaves
<1>9. CASE UNCHANGED vars
  BY <1>9, StutterSaves
<1>q. QED
  BY <1>1, <1>2, <1>3, <1>4, <1>5, <1>6, <1>7, <1>8, <1>9 DEF Next

\* Only ReconcileSnapshot takes the snapshotter from its listing to its cleanup.
LEMMA OnlyReconcileRetires ==
    ASSUME WorkspaceInv, Next, snap.pc = "reconcile", snap'.pc = "cleanup"
    PROVE ReconcileSnapshot
<1>1. snap' # snap
  OBVIOUS
<1>2. ASSUME NEW c \in Callers, Request(c) PROVE snap' = snap
  <2>1. \/ WorkspaceSeed(c) \/ EnsureRow(c) \/ VerifySandbox(c) \/ EnsureOwnerAndClaim(c)
        \/ FindSandbox(c) \/ CreateSandbox(c) \/ RecordSandbox(c) \/ SeedSandbox(c)
        => snap' = snap
    BY DEF WorkspaceSeed, EnsureRow, VerifySandbox, EnsureOwnerAndClaim, FindSandbox,
           CreateSandbox, RecordSandbox, SeedSandbox
  <2>2. \/ PublishOwner(c, "publish", "wait") \/ PublishOwner(c, "confirm", "acquire")
        \/ Activate(c) \/ ProvisionFails(c) \/ AcquireTurn(c) \/ StartRefused(c)
        \/ WriteWorkspaceFile(c) \/ EndWorkspaceTurn(c) \/ SubmitCandidate(c) \/ TurnLost(c)
        => snap' = snap
    BY DEF PublishOwner, Activate, ProvisionFails, AcquireTurn, StartRefused,
           WriteWorkspaceFile, EndWorkspaceTurn, SubmitCandidate, TurnLost
  <2>q. QED
    BY <1>2, <2>1, <2>2 DEF Request
<1>3. WorkflowMoves \/ Sanitizer \/ TimePasses => snap' = snap
  BY DEF WorkflowMoves, Sanitizer, ListSandboxes, ReadOwners, DeleteUnowned, TimePasses
<1>4. ASSUME NEW w \in Workspaces,
             CleanupDue(w) \/ ReconcileOwner(w) \/ BackfillOwner(w) \/ CollectClaim(w)
      PROVE snap' = snap
  BY <1>4 DEF CleanupDue, ReconcileOwner, BackfillOwner, CollectClaim
<1>5. (\E s \in Boxes : SandboxLost(s)) \/ (\E v \in Versions : ArchiveLost(v)) => snap' = snap
  BY DEF SandboxLost, ArchiveLost
<1>6. ASSUME NEW reset \in BOOLEAN, Restart(reset) PROVE snap'.pc # "cleanup"
  BY <1>6 DEF Restart, NoSnap
<1>7. Snapshotter => ReconcileSnapshot
  BY DEF Snapshotter, ListSnapshotTarget, AcquireSnapshot, ArchiveAndSave, PublishSnapshot,
         CleanupSnapshots
<1>q. QED
  BY <1>1, <1>2, <1>3, <1>4, <1>5, <1>6, <1>7 DEF Next

\* No edit of what the idle retirement takes is missing in the published snapshot.
LEMMA RetiredIsSaved ==
    ASSUME WorkspaceInv, SavingInv, [Next]_vars, NEW w \in Workspaces, RetiredAsIdle(w)
    PROVE ~Unsaved(row[w].box)
<1>1. /\ row[w].state = "active" /\ row'[w].state = "deleting"
      /\ snap.pc = "reconcile" /\ snap'.pc = "cleanup"
  BY DEF RetiredAsIdle
<1>2. ReconcileSnapshot
  <2>1. Next
    BY <1>1 DEF vars
  <2>q. QED
    BY <1>1, <2>1, OnlyReconcileRetires
<1>3. row \in [Workspaces -> Rows] /\ snap.ws \in Workspaces
  BY <1>1 DEF WorkspaceInv, RowPart, SnapPart
<1>4. ~ClearGeneratorWorkspaceSnapshot
  <2>1. ClearGeneratorWorkspaceSnapshot => row'[w].state = "active"
    <3>1. row[w] \in Rows
      BY <1>3
    <3>q. QED
      BY <1>1, <3>1 DEF ClearGeneratorWorkspaceSnapshot, Rows
  <2>q. QED
    BY <1>1, <2>1
<1>5. row' # row
  BY <1>1
<1>6. snap.digest # NoDigest /\ RetireIdleGeneratorWorkspace(snap.ws, snap.digest)
  BY <1>2, <1>4, <1>5 DEF ReconcileSnapshot
<1>7. /\ wf.digest = snap.digest /\ row[snap.ws].idle = "stale"
      /\ row' = [row EXCEPT ![snap.ws] = Retired(@)]
  BY <1>5, <1>6 DEF RetireIdleGeneratorWorkspace
<1>8. w = snap.ws
  BY <1>1, <1>3, <1>7
<1>q. QED
  BY <1>6, <1>7, <1>8 DEF SavingInv, SavedPart, Contains, Unsaved

\* An idle retirement (RetireIdleGeneratorWorkspace) throws no edit away: whatever
\* the requests of any number of clients, the snapshotter, the reaper, losses and
\* restarts do, files that were edited since their sandbox was created or last
\* reset are, when it takes them, those of the published snapshot.
THEOREM IdleRetirementLosesNothing == Spec => NothingUnsavedIsRetired
<1>1. Init => SavingInv
  BY InitialSaving
<1>2. WorkspaceInv /\ SavingInv /\ [Next]_vars => SavingInv'
  BY SavingStep
<1>3. WorkspaceInv /\ SavingInv /\ [Next]_vars =>
        [\A w \in Workspaces : RetiredAsIdle(w) => ~Unsaved(row[w].box)]_vars
  BY RetiredIsSaved
<1>q. QED
  BY <1>1, <1>2, <1>3, WorkspaceAlways, PTL DEF Spec, NothingUnsavedIsRetired
=============================================================================
