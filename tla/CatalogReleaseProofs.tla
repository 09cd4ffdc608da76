-------------------------- MODULE CatalogReleaseProofs --------------------------
(***************************************************************************)
(* Proofs about the Catalog baseline, for any number of digests, entries,  *)
(* source attempts and faults.                                             *)
(***************************************************************************)
EXTENDS CatalogRelease, FiniteSetTheorems, TLAPS

-----------------------------------------------------------------------------
(* The types of the tables, the files and the processes.                   *)

ReleaseRow == [state : ReleaseStates, attempt : 0..MaxSourceAttempts, due : BOOLEAN]
EntryRow == [state : EntryStates, version : Nat]
CommitRow == [state : CommitStates, at : Nat]
Directory == [present : BOOLEAN, at : Nat]
PCs == {"idle", "create", "stage", "load", "failed", "initialize", "advance", "resolve", "fail", "mark",
        "finalize", "promoted"}
InstallerPass ==
  [pc : PCs, d : Digests \cup {None}, todo : SUBSET Entries, e : Entries \cup {None},
   phase : Phases \cup {"none"}, class : {"none", "transient", "deterministic"}, all : BOOLEAN]

TablesTyped ==
  /\ release \in [Digests -> ReleaseRow]
  /\ entry \in [Digests -> [Entries -> EntryRow]]
  /\ commit \in [Digests -> [Entries -> CommitRow]]
  /\ rows \in [Digests -> [Entries -> Nat]]

QueueTyped ==
  /\ Queue!ContractTypeOK
  /\ verdict \in [Digests -> [Entries -> {"none", "passed", "rejected"}]]

DiskTyped == disk \in [Digests -> [Entries -> Directory]]

ProcessTyped ==
  /\ inst \in InstallerPass
  /\ server \in [state : {"up", "down", "refused"}, digest : Digests \cup {None}]
  /\ server.state = "up" => server.digest \in Digests
  /\ server.state # "up" => inst = NoPass
  /\ faults \in 0..MaxFaults

TypeInv == TablesTyped /\ QueueTyped /\ DiskTyped /\ ProcessTyped

(* A release that is under way, or is the baseline.                        *)
Live(d) == release[d].state \in {"Ready"} \cup Active

OneLive == \A x, y \in Digests : Live(x) /\ Live(y) => x = y

(* What the pass read when it chose its next step still holds: only the    *)
(* installer writes the release, and it is one goroutine.                  *)
PassFits ==
  /\ inst.pc # "idle" => inst.d \in Digests
  /\ inst.pc = "create" => release[inst.d].state = "none" /\ \A x \in Digests : ~Live(x)
  /\ inst.pc \in {"stage", "initialize"} => release[inst.d].state = "Pending"
  /\ inst.pc = "load" => release[inst.d].state \in {"Installing", "Committing"}
  /\ inst.pc \in {"advance", "resolve", "mark", "fail"} => release[inst.d].state = "Installing"
  /\ inst.pc \in {"finalize", "promoted"} => release[inst.d].state = "Committing"
  /\ inst.pc = "failed" => release[inst.d].state \in Active
  /\ inst.pc \in {"resolve", "mark"} => /\ inst.e \in Entries /\ inst.phase \in Phases
                                        /\ status[<<inst.d, inst.e, inst.phase>>] # "none"
  /\ inst.pc = "promoted" => /\ inst.e \in Entries /\ disk[inst.d][inst.e].at # 0
                             /\ disk[inst.d][inst.e].present \/ <<inst.d, inst.e>> \in swept

(* Release.Valid and Entry.Valid, and the commits and the rows that go     *)
(* with each state of the release.                                         *)
ReleaseFits(d, e) ==
  /\ release[d].state = "Installing" => entry[d][e].state # "none"
  /\ release[d].state \in {"Committing", "Ready"} => entry[d][e].state = "ReadyToCommit"
  /\ release[d].state = "Committing" => commit[d][e].state \in {"Prepared", "Materialized"}
  /\ release[d].state = "Ready" => commit[d][e].state = "Committed" /\ rows[d][e] = commit[d][e].at
  /\ release[d].state # "Ready" => rows[d][e] = 0

(* A verified entry has a report that passed, and a report is stored with  *)
(* the completion of its action, which is final.                           *)
Verified(d, e) ==
  /\ entry[d][e].state = "ReadyToCommit" => verdict[d][e] = "passed"
  /\ verdict[d][e] # "none" => status[<<d, e, "verify">>] = "completed"

(* A commit that says materialized carries the time of its directory, and  *)
(* the directory is there unless a late sweep took it.                     *)
Written(d, e) ==
  /\ disk[d][e].present => disk[d][e].at # 0
  /\ commit[d][e].state \in {"Materialized", "Committed"} =>
       /\ disk[d][e].at # 0 /\ commit[d][e].at = disk[d][e].at
       /\ release[d].state \in {"Committing", "Ready"} => disk[d][e].present \/ <<d, e>> \in swept

EntriesFit == \A d \in Digests, e \in Entries : ReleaseFits(d, e) /\ Verified(d, e) /\ Written(d, e)

BaselineInv == OneLive /\ PassFits /\ EntriesFit
-----------------------------------------------------------------------------
(* What one transaction does to the release it names.                      *)

LEMMA PutRow ==
  ASSUME TablesTyped, NEW d \in Digests, NEW r \in ReleaseRow, release' = [release EXCEPT ![d] = r]
  PROVE  /\ release' \in [Digests -> ReleaseRow]
         /\ release'[d] = r
         /\ \A x \in Digests : x # d => release'[x] = release[x]
BY DEF TablesTyped

LEMMA PutFacts ==
  ASSUME TablesTyped, NEW d \in Digests, NEW s \in ReleaseStates, Put(d, s)
  PROVE  /\ release' \in [Digests -> ReleaseRow]
         /\ release'[d].state = s
         /\ \A x \in Digests : x # d => release'[x] = release[x]
<1>1. PICK r : r = [release[d] EXCEPT !.state = s]
  OBVIOUS
<1>2. r \in ReleaseRow /\ r.state = s
  BY <1>1 DEF TablesTyped, ReleaseRow
<1>3. release' = [release EXCEPT ![d] = r]
  BY <1>1 DEF Put
<1> QED
  BY <1>2, <1>3, PutRow

LEMMA CreateFacts ==
  ASSUME TablesTyped, NEW d \in Digests, CreateOrGetRelease(d), release[d].state = "none"
  PROVE  /\ release' \in [Digests -> ReleaseRow]
         /\ release'[d].state = "Pending"
         /\ \A x \in Digests : x # d => release'[x] = release[x]
<1>1. PICK r : r = [state |-> "Pending", attempt |-> 1, due |-> TRUE]
  OBVIOUS
<1>2. r \in ReleaseRow /\ r.state = "Pending"
  BY <1>1, CatalogAssumption DEF ReleaseRow, ReleaseStates
<1>3. release' = [release EXCEPT ![d] = r]
  BY <1>1 DEF CreateOrGetRelease
<1> QED
  BY <1>2, <1>3, PutRow

(* However a failure is recorded, the release keeps its state or fails.    *)
LEMMA FailureFacts ==
  ASSUME TablesTyped, NEW d \in Digests, NEW class,
         \/ ReportSourceInfrastructureFailure(d)
         \/ RecordCatalogFinalizerFailure(d, class)
         \/ \E allowed \in SUBSET ReleaseStates : FailRelease(d, allowed)
  PROVE  /\ release' \in [Digests -> ReleaseRow]
         /\ release'[d].state \in {release[d].state, "Failed"}
         /\ \A x \in Digests : x # d => release'[x] = release[x]
<1>0. release[d] \in ReleaseRow
  BY DEF TablesTyped
<1>1. PICK f : f = [release[d] EXCEPT !.state = "Failed"]
  OBVIOUS
<1>2. f \in ReleaseRow /\ f.state = "Failed"
  BY <1>0, <1>1 DEF ReleaseRow, ReleaseStates
<1>3. PICK r : r = SourceFailed(release[d])
  OBVIOUS
<1>4. r \in ReleaseRow /\ r.state \in {release[d].state, "Failed"}
  <2>1. CASE release[d].attempt >= MaxSourceAttempts
    BY <1>1, <1>2, <1>3, <2>1 DEF SourceFailed
  <2>2. CASE ~(release[d].attempt >= MaxSourceAttempts)
    <3>1. release[d].attempt \in Nat /\ release[d].attempt + 1 \in 0..MaxSourceAttempts
      BY <1>0, <2>2, CatalogAssumption DEF ReleaseRow
    <3>2. r = [release[d] EXCEPT !.attempt = release[d].attempt + 1, !.due = FALSE]
      BY <1>3, <2>2 DEF SourceFailed
    <3> QED
      BY <1>0, <3>1, <3>2 DEF ReleaseRow
  <2> QED
    BY <2>1, <2>2
<1>5. PICK t : t = [release[d] EXCEPT !.due = FALSE]
  OBVIOUS
<1>6. t \in ReleaseRow /\ t.state = release[d].state
  BY <1>0, <1>5 DEF ReleaseRow
<1>7. release' \in {[release EXCEPT ![d] = f], [release EXCEPT ![d] = t], [release EXCEPT ![d] = r]}
  <2>1. CASE ReportSourceInfrastructureFailure(d)
    BY <1>3, <2>1 DEF ReportSourceInfrastructureFailure
  <2>2. CASE RecordCatalogFinalizerFailure(d, class)
    BY <1>1, <1>5, <2>2 DEF RecordCatalogFinalizerFailure
  <2>3. CASE \E allowed \in SUBSET ReleaseStates : FailRelease(d, allowed)
    BY <1>1, <2>3 DEF FailRelease, Put
  <2> QED
    BY <2>1, <2>2, <2>3
<1> QED
  BY <1>2, <1>4, <1>6, <1>7, PutRow

LEMMA MarkFacts ==
  ASSUME TablesTyped, NEW d \in Digests, NEW e \in Entries, NEW from, NEW to \in EntryStates,
         MarkEntry(d, e, from, to)
  PROVE  /\ entry' \in [Digests -> [Entries -> EntryRow]]
         /\ entry'[d][e].state = to
         /\ \A x \in Digests, y \in Entries : <<x, y>> # <<d, e>> => entry'[x][y] = entry[x][y]
<1>1. PICK r : r = [state |-> to, version |-> entry[d][e].version + 1]
  OBVIOUS
<1>2. r \in EntryRow /\ r.state = to
  <2>1. entry[d][e] \in EntryRow
    BY DEF TablesTyped
  <2> QED
    BY <1>1, <2>1 DEF EntryRow
<1>3. entry' = [entry EXCEPT ![d][e] = r]
  BY <1>1 DEF MarkEntry
<1> QED
  BY <1>2, <1>3 DEF TablesTyped

LEMMA CommitFacts ==
  ASSUME TablesTyped, DiskTyped, NEW d \in Digests, NEW e \in Entries, MarkCommitMaterialized(d, e)
  PROVE  /\ commit' \in [Digests -> [Entries -> CommitRow]]
         /\ commit'[d][e].state = "Materialized" /\ commit'[d][e].at = disk[d][e].at
         /\ \A x \in Digests, y \in Entries : <<x, y>> # <<d, e>> => commit'[x][y] = commit[x][y]
<1>1. PICK r : r = [state |-> "Materialized", at |-> disk[d][e].at]
  OBVIOUS
<1>2. r \in CommitRow /\ r.state = "Materialized" /\ r.at = disk[d][e].at
  BY <1>1 DEF CommitRow, CommitStates, DiskTyped, Directory
<1>3. commit' = [commit EXCEPT ![d][e] = r]
  BY <1>1 DEF MarkCommitMaterialized
<1> QED
  BY <1>2, <1>3 DEF TablesTyped
-----------------------------------------------------------------------------
(* What a step of the system does to the tables, by the installer alone.   *)

ReleaseStep(d) ==
  \/ release'[d].state = release[d].state
  \/ inst.pc = "create" /\ d = inst.d /\ release'[d].state = "Pending"
  \/ release[d].state \in Active /\ release'[d].state = "Failed"
  \/ release[d].state = "Pending" /\ release'[d].state = "Installing"
  \/ release[d].state = "Installing" /\ release'[d].state = "Committing"
  \/ release[d].state = "Committing" /\ release'[d].state = "Ready"

EntryStep(d, e) ==
  \/ entry'[d][e] = entry[d][e] /\ ~(release[d].state = "Pending" /\ release'[d].state = "Installing")
  \/ release[d].state = "Pending" /\ release'[d].state = "Installing" /\ entry'[d][e].state = "MaterializingArtifact"
  \/ /\ release[d].state = "Installing" /\ release'[d].state = "Installing"
     /\ \/ entry'[d][e].state = "Verifying"
        \/ entry'[d][e].state = "ReadyToCommit" /\ verdict[d][e] = "passed"

CommitStep(d, e) ==
  \/ /\ UNCHANGED <<commit[d][e], rows[d][e]>>
     /\ release'[d].state \in {"Committing", "Ready"} => release[d].state = release'[d].state
  \/ /\ release[d].state = "Installing" /\ release'[d].state = "Committing"
     /\ entry[d][e].state = "ReadyToCommit" /\ entry'[d][e] = entry[d][e]
     /\ commit'[d][e].state = "Prepared" /\ UNCHANGED rows[d][e]
  \/ /\ inst.pc = "promoted" /\ d = inst.d /\ e = inst.e
     /\ release[d].state = "Committing" /\ release'[d].state = "Committing"
     /\ commit'[d][e].state = "Materialized" /\ commit'[d][e].at = disk[d][e].at
     /\ UNCHANGED rows[d][e] /\ disk'[d][e] = disk[d][e]
  \/ /\ release[d].state = "Committing" /\ release'[d].state = "Ready"
     /\ commit[d][e].state = "Materialized" /\ entry'[d][e] = entry[d][e]
     /\ commit'[d][e].state = "Committed" /\ commit'[d][e].at = commit[d][e].at
     /\ rows'[d][e] = commit[d][e].at

\* Only what a sweep removes disappears, and a late one leaves its mark.
DiskStep(d, e) ==
  \/ disk'[d][e] = disk[d][e]
  \/ /\ commit[d][e].state = "Prepared" /\ UNCHANGED commit[d][e]
     /\ disk'[d][e].at # 0
  \/ /\ disk'[d][e].at = disk[d][e].at /\ UNCHANGED <<commit[d][e], release[d]>>
     /\ disk'[d][e].present => disk[d][e].present
     /\ \/ disk'[d][e].present <=> disk[d][e].present
        \/ <<d, e>> \in swept'
        \/ /\ release[d].state = "Committing" => commit[d][e].state = "none"
           /\ rows[d][e] = 0

QueueStep(d, e) ==
  /\ \A phase \in Phases : status[<<d, e, phase>>] # "none" => status'[<<d, e, phase>>] # "none"
  /\ \/ UNCHANGED verdict[d][e]
     \/ status[<<d, e, "verify">>] = "pending" /\ status'[<<d, e, "verify">>] = "completed"
  /\ status[<<d, e, "verify">>] = "completed" => status'[<<d, e, "verify">>] = "completed"

TableSteps == \A d \in Digests : ReleaseStep(d) /\ \A e \in Entries : EntryStep(d, e) /\ CommitStep(d, e)
QueueSteps == \A d \in Digests, e \in Entries : QueueStep(d, e)
DiskSteps == swept \subseteq swept' /\ \A d \in Digests, e \in Entries : DiskStep(d, e)

SystemStep == TableSteps /\ QueueSteps /\ DiskSteps

LEMMA FitsFromStep ==
  ASSUME TypeInv, EntriesFit, PassFits, SystemStep
  PROVE  EntriesFit'
<1> SUFFICES ASSUME NEW d \in Digests, NEW e \in Entries
             PROVE  ReleaseFits(d, e)' /\ Verified(d, e)' /\ Written(d, e)'
  BY DEF EntriesFit
<1>1. /\ ReleaseStep(d) /\ EntryStep(d, e) /\ CommitStep(d, e) /\ DiskStep(d, e) /\ QueueStep(d, e)
      /\ swept \subseteq swept'
      /\ ReleaseFits(d, e) /\ Verified(d, e) /\ Written(d, e)
  BY DEF SystemStep, TableSteps, QueueSteps, DiskSteps, EntriesFit
<1>2. ReleaseFits(d, e)'
  <2>1. inst.pc = "create" /\ d = inst.d => release[d].state = "none"
    BY DEF PassFits
  <2>2. /\ release'[d].state = "Installing" => entry'[d][e].state # "none"
        /\ release'[d].state \in {"Committing", "Ready"} => entry'[d][e].state = "ReadyToCommit"
    BY <1>1, <2>1 DEF ReleaseFits, ReleaseStep, EntryStep, CommitStep, Active
  <2>3. /\ release'[d].state = "Committing" => commit'[d][e].state \in {"Prepared", "Materialized"}
        /\ release'[d].state = "Ready" => commit'[d][e].state = "Committed" /\ rows'[d][e] = commit'[d][e].at
    BY <1>1, <2>1 DEF ReleaseFits, ReleaseStep, CommitStep, Active
  <2>4. release'[d].state # "Ready" => rows'[d][e] = 0
    BY <1>1, <2>1 DEF ReleaseFits, ReleaseStep, CommitStep, Active
  <2> QED
    BY <2>2, <2>3, <2>4 DEF ReleaseFits
<1>3. Verified(d, e)'
  BY <1>1 DEF Verified, QueueStep, EntryStep
<1>4. (disk[d][e].present => disk[d][e].at # 0)'
  BY <1>1 DEF Written, DiskStep
<1>5. ASSUME commit'[d][e].state \in {"Materialized", "Committed"}
      PROVE  disk'[d][e].at # 0 /\ commit'[d][e].at = disk'[d][e].at
  BY <1>1, <1>5 DEF PassFits, Written, DiskStep, CommitStep
<1>6. ASSUME commit'[d][e].state \in {"Materialized", "Committed"},
             release'[d].state \in {"Committing", "Ready"}
      PROVE  disk'[d][e].present \/ <<d, e>> \in swept'
  BY <1>1, <1>6 DEF PassFits, Written, DiskStep, CommitStep, ReleaseFits
<1> QED
  BY <1>2, <1>3, <1>4, <1>5, <1>6 DEF Written

LEMMA OneFromStep ==
  ASSUME TypeInv, OneLive, PassFits, SystemStep
  PROVE  OneLive'
<1>1. ASSUME NEW d \in Digests, Live(d)'
      PROVE  Live(d) \/ (inst.pc = "create" /\ d = inst.d)
  BY <1>1 DEF SystemStep, TableSteps, ReleaseStep, Live, Active
<1> QED
  BY <1>1 DEF OneLive, PassFits
(* What a step leaves alone.                                               *)
LEMMA SameTables ==
  ASSUME TablesTyped, UNCHANGED content
  PROVE  TablesTyped' /\ TableSteps
BY DEF content, TablesTyped, TableSteps, ReleaseStep, EntryStep, CommitStep

LEMMA SameQueue ==
  ASSUME QueueTyped, UNCHANGED queue
  PROVE  QueueTyped' /\ QueueSteps
BY DEF queue, QueueTyped, Queue!ContractTypeOK, Queue!Statuses, QueueSteps, QueueStep

LEMMA SameDisk ==
  ASSUME DiskTyped, UNCHANGED <<disk, swept>>
  PROVE  DiskTyped' /\ DiskSteps
BY DEF DiskTyped, DiskSteps, DiskStep

LEMMA UpTyped ==
  ASSUME ProcessTyped, Up, inst' \in InstallerPass, Sound \/ Fault
  PROVE  ProcessTyped'
<1>1. faults' \in 0..MaxFaults
  BY CatalogAssumption DEF ProcessTyped, Sound, Fault
<1> QED
  BY <1>1 DEF ProcessTyped, Up

LEMMA GotoFacts ==
  ASSUME ProcessTyped, NEW pc \in PCs, Goto(pc)
  PROVE  /\ inst' \in InstallerPass /\ inst'.pc = pc
         /\ inst'.d = inst.d /\ inst'.e = inst.e /\ inst'.phase = inst.phase
BY DEF ProcessTyped, Goto, InstallerPass

LEMMA EndsFacts ==
  ASSUME Ends
  PROVE  inst' \in InstallerPass /\ inst'.pc = "idle" /\ PassFits'
<1>1. inst' \in InstallerPass /\ inst'.pc = "idle"
  BY DEF Ends, NoPass, InstallerPass, PCs
<1> QED
  BY <1>1 DEF PassFits

Advances == TypeInv' /\ SystemStep /\ PassFits'

-----------------------------------------------------------------------------
(* The steps of the installer.                                             *)

LEMMA CreateStep == ASSUME TypeInv, BaselineInv, CreateRelease PROVE Advances
<1> USE DEF TypeInv, BaselineInv
<1>1. /\ Up /\ Sound /\ inst.pc = "create" /\ CreateOrGetRelease(inst.d) /\ Goto("stage")
      /\ UNCHANGED <<entry, commit, rows, queue, disk, swept>>
  BY DEF CreateRelease, At, files
<1>2. inst.d \in Digests /\ release[inst.d].state = "none"
  BY <1>1 DEF PassFits
<1>3. /\ release' \in [Digests -> ReleaseRow] /\ release'[inst.d].state = "Pending"
      /\ \A x \in Digests : x # inst.d => release'[x] = release[x]
  BY <1>1, <1>2, CreateFacts
<1>4. inst' \in InstallerPass /\ inst'.pc = "stage" /\ inst'.d = inst.d
  BY <1>1, GotoFacts DEF PCs
<1>5. TablesTyped'
  BY <1>1, <1>3 DEF TablesTyped
<1>6. TableSteps
  BY <1>1, <1>2, <1>3 DEF TableSteps, ReleaseStep, EntryStep, CommitStep
<1>7. PassFits'
  BY <1>2, <1>3, <1>4 DEF PassFits
<1> QED
  BY <1>1, <1>4, <1>5, <1>6, <1>7, SameQueue, SameDisk, UpTyped DEF Advances, SystemStep

\* A failure ends the pass, and no other release is touched.
LEMMA FailureStep ==
  ASSUME TypeInv, BaselineInv, Up, Sound, Ends, inst.d \in Digests, release[inst.d].state \in Active,
         NEW class,
         \/ ReportSourceInfrastructureFailure(inst.d)
         \/ RecordCatalogFinalizerFailure(inst.d, class)
         \/ \E allowed \in SUBSET ReleaseStates : FailRelease(inst.d, allowed),
         UNCHANGED <<entry, commit, rows, queue, files>>
  PROVE  Advances
<1> USE DEF TypeInv, BaselineInv
<1>1. /\ release' \in [Digests -> ReleaseRow] /\ release'[inst.d].state \in {release[inst.d].state, "Failed"}
      /\ \A x \in Digests : x # inst.d => release'[x] = release[x]
  BY FailureFacts
<1>2. TablesTyped'
  BY <1>1 DEF TablesTyped
<1>3. TableSteps
  BY <1>1 DEF TableSteps, ReleaseStep, EntryStep, CommitStep
<1> QED
  BY <1>2, <1>3, EndsFacts, SameQueue, SameDisk, UpTyped DEF Advances, SystemStep, files

LEMMA RecordStep == ASSUME TypeInv, BaselineInv, RecordFailure \/ FailReleaseForAction PROVE Advances
<1>1. Up /\ Sound /\ Ends /\ UNCHANGED <<entry, commit, rows, queue, files>>
  BY DEF RecordFailure, FailReleaseForAction, At
<1>2. inst.d \in Digests /\ release[inst.d].state \in Active
  BY DEF RecordFailure, FailReleaseForAction, At, BaselineInv, PassFits, Active
<1>3. /\ Active \in SUBSET ReleaseStates
      /\ {"Pending"} \in SUBSET ReleaseStates
  BY DEF Active, ReleaseStates
<1>4. \/ ReportSourceInfrastructureFailure(inst.d)
      \/ RecordCatalogFinalizerFailure(inst.d, inst.class)
      \/ \E allowed \in SUBSET ReleaseStates : FailRelease(inst.d, allowed)
  BY <1>3 DEF RecordFailure, FailReleaseForAction
<1> QED
  BY <1>1, <1>2, <1>4, FailureStep

LEMMA InitializeStep == ASSUME TypeInv, BaselineInv, Initialize PROVE Advances
<1> USE DEF TypeInv, BaselineInv
<1>1. /\ Up /\ Sound /\ inst.pc = "initialize" /\ InitializeRelease(inst.d)
      /\ inst' = [inst EXCEPT !.pc = "advance", !.todo = Entries]
      /\ UNCHANGED <<commit, rows, queue, disk, swept>>
  BY DEF Initialize, At, files
<1>2. inst.d \in Digests /\ release[inst.d].state = "Pending"
  BY <1>1 DEF PassFits
<1>3. /\ release' \in [Digests -> ReleaseRow] /\ release'[inst.d].state = "Installing"
      /\ \A x \in Digests : x # inst.d => release'[x] = release[x]
  BY <1>1, <1>2, PutFacts DEF InitializeRelease, ReleaseStates
<1>4. inst' \in InstallerPass /\ inst'.pc = "advance" /\ inst'.d = inst.d
  BY <1>1 DEF PCs, ProcessTyped, InstallerPass
<1>5. PICK new : new = [e \in Entries |-> [state |-> "MaterializingArtifact", version |-> 1]]
  OBVIOUS
<1>6. new \in [Entries -> EntryRow] /\ \A e \in Entries : new[e].state = "MaterializingArtifact"
  BY <1>5 DEF EntryRow, EntryStates
<1>7. entry' = [entry EXCEPT ![inst.d] = new]
  BY <1>1, <1>5 DEF InitializeRelease
<1>8. TablesTyped'
  BY <1>1, <1>3, <1>6, <1>7 DEF TablesTyped
<1>9. TableSteps
  <2>1. \A e \in Entries : entry'[inst.d][e].state = "MaterializingArtifact"
    BY <1>2, <1>6, <1>7 DEF TablesTyped
  <2>2. \A x \in Digests : x # inst.d => entry'[x] = entry[x]
    BY <1>2, <1>7 DEF TablesTyped
  <2> QED
    BY <1>1, <1>2, <1>3, <2>1, <2>2 DEF TableSteps, ReleaseStep, EntryStep, CommitStep
<1>10. PassFits'
  BY <1>2, <1>3, <1>4 DEF PassFits
<1> QED
  BY <1>1, <1>4, <1>8, <1>9, <1>10, SameQueue, SameDisk, UpTyped DEF Advances, SystemStep
\* A step of a pass that writes no table, no row of the queue and no directory.
LEMMA ReadStep ==
  ASSUME TypeInv, BaselineInv, Up, Sound \/ Fault, inst' \in InstallerPass, PassFits',
         UNCHANGED <<content, queue, disk, swept>>
  PROVE  Advances
BY SameTables, SameQueue, SameDisk, UpTyped DEF TypeInv, Advances, SystemStep

LEMMA StageSourceStep ==
  ASSUME TypeInv, BaselineInv, Up, NEW next \in PCs, NEW todo \in SUBSET Entries, StageSource(next, todo),
         inst.d \in Digests, release[inst.d].state \in Active,
         next = "initialize" => release[inst.d].state = "Pending",
         next = "advance" => release[inst.d].state = "Installing",
         next = "finalize" => release[inst.d].state = "Committing",
         next \in {"initialize", "advance", "finalize"}
  PROVE  Advances
<1>1. inst \in InstallerPass
  BY DEF TypeInv, ProcessTyped
<1>2. PICK ok \in BOOLEAN : /\ PullOCIArchive(ok)
         /\ LET class == IF ~ok THEN "transient"
                         ELSE IF inst.d \in source \/ LoadPortableSource(inst.d) THEN "none" ELSE "deterministic"
            IN  IF class = "none"
                THEN source' = source \cup {inst.d} /\ inst' = [inst EXCEPT !.pc = next, !.todo = todo]
                ELSE UNCHANGED source /\ inst' = [inst EXCEPT !.pc = "failed", !.class = class]
  BY DEF StageSource
<1>3. Sound \/ Fault
  BY <1>2 DEF PullOCIArchive
<1>4. UNCHANGED <<content, queue, disk, swept>>
  BY DEF StageSource
<1>5. CASE inst' = [inst EXCEPT !.pc = next, !.todo = todo]
  <2>1. inst' \in InstallerPass /\ inst'.pc = next /\ inst'.d = inst.d
    BY <1>1, <1>5 DEF InstallerPass
  <2>2. PassFits'
    BY <1>4, <2>1 DEF content, PassFits
  <2> QED
    BY <1>3, <1>4, <2>1, <2>2, ReadStep
<1>6. CASE \E class \in {"transient", "deterministic"} : inst' = [inst EXCEPT !.pc = "failed", !.class = class]
  <2>1. inst' \in InstallerPass /\ inst'.pc = "failed" /\ inst'.d = inst.d
    BY <1>1, <1>6 DEF InstallerPass, PCs
  <2>2. PassFits'
    BY <1>4, <2>1 DEF content, PassFits
  <2> QED
    BY <1>3, <1>4, <2>1, <2>2, ReadStep
<1> QED
  BY <1>2, <1>5, <1>6

LEMMA StageStep == ASSUME TypeInv, BaselineInv, StagePending \/ LoadOrStageSource PROVE Advances
<1>1. CASE StagePending
  <2>1. Up /\ inst.pc = "stage" /\ StageSource("initialize", {})
    BY <1>1 DEF StagePending, At
  <2>2. inst.d \in Digests /\ release[inst.d].state = "Pending"
    BY <2>1 DEF BaselineInv, PassFits
  <2> QED
    BY <2>1, <2>2, StageSourceStep DEF PCs, Active
<1>2. CASE LoadOrStageSource
  <2>1. Up /\ inst.pc = "load"
    BY <1>2 DEF LoadOrStageSource, At
  <2>2. inst.d \in Digests /\ release[inst.d].state \in {"Installing", "Committing"}
    BY <2>1 DEF BaselineInv, PassFits
  <2>3. CASE release[inst.d].state = "Installing"
    <3>1. PICK todo \in SUBSET Entries : StageSource("advance", todo)
      BY <1>2, <2>3 DEF LoadOrStageSource
    <3> QED
      BY <2>1, <2>2, <2>3, <3>1, StageSourceStep DEF PCs, Active
  <2>4. CASE release[inst.d].state = "Committing"
    <3>1. StageSource("finalize", Entries) /\ Entries \in SUBSET Entries
      BY <1>2, <2>4 DEF LoadOrStageSource
    <3> QED
      BY <2>1, <2>2, <2>4, <3>1, StageSourceStep DEF PCs, Active
  <2> QED
    BY <2>2, <2>3, <2>4
<1> QED
  BY <1>1, <1>2

\* A pass resumes the one release that is under way, or creates the first.
LEMMA BeginStep == ASSUME TypeInv, BaselineInv, BeginPass PROVE Advances
<1> DEFINE d == server.digest
           selected == SelectBootstrapRelease(d)
<1>1. /\ Up /\ Sound /\ UNCHANGED <<content, queue, disk, swept>>
      /\ inst' = IF selected = {} THEN NoPass ELSE Resumed(d, CHOOSE s \in selected : TRUE)
  BY DEF BeginPass, At
<1>2. d \in Digests
  BY <1>1 DEF Up, TypeInv, ProcessTyped
<1>3. ASSUME selected # {}
      PROVE  \/ selected = {"Ready"}
             \/ selected = {"create"} /\ release[d].state = "none" /\ \A x \in Digests : ~Live(x)
             \/ selected = {release[d].state} /\ release[d].state # "none"
  <2>1. CASE {x \in Digests : release[x].state \in {"Ready"}} # {}
    BY <1>3, <2>1 DEF SelectBootstrapRelease
  <2>2. CASE /\ {x \in Digests : release[x].state \in {"Ready"}} = {}
             /\ {x \in Digests : release[x].state \in Active} # {}
    <3>1. selected = {IF release[d].state = "none" THEN "create" ELSE release[d].state}
      BY <1>3, <2>2 DEF SelectBootstrapRelease
    <3>2. {x \in Digests : release[x].state \in Active} = {d}
      BY <1>3, <2>2 DEF SelectBootstrapRelease
    <3> QED
      BY <3>1, <3>2 DEF Active
  <2>3. CASE /\ {x \in Digests : release[x].state \in {"Ready"}} = {}
             /\ {x \in Digests : release[x].state \in Active} = {}
    <3>1. selected = {IF release[d].state = "none" THEN "create" ELSE release[d].state}
      BY <1>3, <2>3 DEF SelectBootstrapRelease
    <3>2. \A x \in Digests : ~Live(x)
      BY <2>3 DEF Live
    <3> QED
      BY <3>1, <3>2
  <2> QED
    BY <2>1, <2>2, <2>3
<1>4. \A r : {r} # {} /\ (CHOOSE s \in {r} : TRUE) = r
  OBVIOUS
<1>5. \/ inst' = NoPass
      \/ /\ inst' = [NoPass EXCEPT !.pc = "create", !.d = d]
         /\ release[d].state = "none" /\ \A x \in Digests : ~Live(x)
      \/ inst' = [NoPass EXCEPT !.pc = "stage", !.d = d] /\ release[d].state = "Pending"
      \/ inst' = [NoPass EXCEPT !.pc = "load", !.d = d] /\ release[d].state \in {"Installing", "Committing"}
  <2>1. CASE selected = {}
    BY <1>1, <2>1
  <2>2. CASE selected = {"Ready"}
    <3>1. inst' = Resumed(d, "Ready")
      BY <1>1, <1>4, <2>2
    <3> QED
      BY <3>1 DEF Resumed
  <2>3. CASE selected = {"create"} /\ release[d].state = "none" /\ \A x \in Digests : ~Live(x)
    <3>1. inst' = Resumed(d, "create")
      BY <1>1, <1>4, <2>3
    <3> QED
      BY <2>3, <3>1 DEF Resumed
  <2>4. CASE selected = {release[d].state} /\ release[d].state # "none"
    <3>1. inst' = Resumed(d, release[d].state)
      BY <1>1, <1>4, <2>4
    <3>2. release[d].state \in ReleaseStates \ {"none"}
      BY <1>2, <2>4 DEF TypeInv, TablesTyped, ReleaseRow
    <3> QED
      BY <3>1, <3>2 DEF Resumed, ReleaseStates
  <2> QED
    BY <1>3, <2>1, <2>2, <2>3, <2>4
<1>6. inst' \in InstallerPass
  <2>1. NoPass \in InstallerPass
    BY DEF NoPass, InstallerPass, PCs
  <2> QED
    BY <1>2, <1>5, <2>1 DEF InstallerPass, PCs
<1>7. \/ inst'.pc = "idle"
      \/ inst'.pc = "create" /\ inst'.d = d /\ release[d].state = "none" /\ \A x \in Digests : ~Live(x)
      \/ inst'.pc = "stage" /\ inst'.d = d /\ release[d].state = "Pending"
      \/ inst'.pc = "load" /\ inst'.d = d /\ release[d].state \in {"Installing", "Committing"}
  <2>1. NoPass \in InstallerPass /\ NoPass.pc = "idle"
    BY DEF NoPass, InstallerPass, PCs
  <2> QED
    BY <1>5, <2>1 DEF InstallerPass
<1>8. UNCHANGED <<release, status, disk, swept>>
  BY <1>1 DEF content, queue
<1>9. PassFits'
  BY <1>2, <1>7, <1>8 DEF PassFits, Live
<1> QED
  BY <1>1, <1>6, <1>9, ReadStep
-----------------------------------------------------------------------------
(* The steps that work off the entries.                                    *)

LEMMA ScheduleStep ==
  ASSUME TypeInv, BaselineInv, NEW e \in Entries, ScheduleEntry(e)
  PROVE  Advances
<1> USE DEF TypeInv, BaselineInv
<1> DEFINE phase == PhaseOf(entry[inst.d][e].state)
           a == <<inst.d, e, phase>>
<1>1. /\ Up /\ Sound /\ inst.pc = "advance"
      /\ inst' = [inst EXCEPT !.pc = "resolve", !.todo = @ \ {e}, !.e = e, !.phase = phase]
      /\ \/ Queue!Schedule(a)
         \/ status[a] \notin {"none", "infra-failed"} /\ UNCHANGED status
      /\ UNCHANGED <<content, verdict, disk, swept>>
  BY DEF ScheduleEntry, At, files
<1>2. inst.d \in Digests /\ release[inst.d].state = "Installing" /\ phase \in Phases
  BY <1>1 DEF PassFits, PhaseOf, Phases
<1>3. a \in Digests \X Entries \X Phases
  BY <1>2
<1>4. /\ status' \in [Digests \X Entries \X Phases -> Queue!Statuses]
      /\ status'[a] # "none"
      /\ \A b \in Digests \X Entries \X Phases :
           /\ status[b] # "none" => status'[b] # "none"
           /\ status[b] = "completed" => status'[b] = "completed"
  BY <1>1, <1>3 DEF QueueTyped, Queue!ContractTypeOK, Queue!Schedule, Queue!Statuses
<1>5. /\ inst' \in InstallerPass /\ inst'.pc = "resolve" /\ inst'.d = inst.d
      /\ inst'.e = e /\ inst'.phase = phase
  BY <1>1, <1>2 DEF ProcessTyped, InstallerPass, PCs
<1>6. QueueTyped'
  BY <1>1, <1>4 DEF QueueTyped, Queue!ContractTypeOK, Queue!Statuses
<1>7. QueueSteps
  BY <1>1, <1>4 DEF QueueSteps, QueueStep, Phases
<1>8. PassFits'
  BY <1>1, <1>2, <1>4, <1>5 DEF PassFits, content
<1> QED
  BY <1>1, <1>5, <1>6, <1>7, <1>8, SameTables, SameDisk, UpTyped DEF Advances, SystemStep

LEMMA ResolveStep == ASSUME TypeInv, BaselineInv, ResolveEntry PROVE Advances
<1> USE DEF TypeInv, BaselineInv
<1> DEFINE s == status[<<inst.d, inst.e, inst.phase>>]
<1>1. /\ Up /\ Sound /\ inst.pc = "resolve" /\ Goto(Resolved(s))
      /\ UNCHANGED <<content, queue, disk, swept>>
  BY DEF ResolveEntry, At, files
<1>2. /\ inst.d \in Digests /\ release[inst.d].state = "Installing"
      /\ inst.e \in Entries /\ inst.phase \in Phases /\ s # "none"
  BY <1>1 DEF PassFits
<1>3. s \in Queue!Statuses
  BY <1>2 DEF QueueTyped, Queue!ContractTypeOK
<1>4. Resolved(s) \in {"advance", "fail", "mark"}
  BY <1>2, <1>3 DEF Resolved, Queue!Statuses
<1>5. /\ inst' \in InstallerPass /\ inst'.pc \in {"advance", "fail", "mark"}
      /\ inst'.d = inst.d /\ inst'.e = inst.e /\ inst'.phase = inst.phase
  BY <1>1, <1>4, GotoFacts DEF PCs
<1>6. PassFits'
  BY <1>1, <1>2, <1>5 DEF PassFits, content, queue
<1> QED
  BY <1>1, <1>5, <1>6, ReadStep

LEMMA MarkStep == ASSUME TypeInv, BaselineInv, MarkEntryDone PROVE Advances
<1> USE DEF TypeInv, BaselineInv
<1>1. /\ Up /\ Sound /\ inst.pc = "mark" /\ UNCHANGED <<release, commit, rows, queue, disk, swept>>
  BY DEF MarkEntryDone, At, files
<1>2. /\ inst.d \in Digests /\ release[inst.d].state = "Installing" /\ inst.e \in Entries
  BY <1>1 DEF PassFits
<1>3. CASE UNCHANGED entry /\ Goto("fail")
  <2>1. inst' \in InstallerPass /\ inst'.pc = "fail" /\ inst'.d = inst.d
    BY <1>3, GotoFacts DEF PCs
  <2>2. PassFits'
    BY <1>1, <1>2, <2>1 DEF PassFits
  <2> QED
    BY <1>1, <1>3, <2>1, <2>2, ReadStep DEF content
<1>4. CASE /\ \/ MarkCatalogEntryMaterialized(inst.d, inst.e)
              \/ MarkCatalogEntryVerified(inst.d, inst.e)
           /\ Goto("advance")
  <2>1. inst' \in InstallerPass /\ inst'.pc = "advance" /\ inst'.d = inst.d
    BY <1>4, GotoFacts DEF PCs
  <2>2. PassFits'
    BY <1>1, <1>2, <2>1 DEF PassFits
  <2>3. PICK to \in {"Verifying", "ReadyToCommit"} :
          /\ \E from : MarkEntry(inst.d, inst.e, from, to)
          /\ to = "ReadyToCommit" => verdict[inst.d][inst.e] = "passed"
    BY <1>4 DEF MarkCatalogEntryMaterialized, MarkCatalogEntryVerified
  <2>4. /\ entry' \in [Digests -> [Entries -> EntryRow]] /\ entry'[inst.d][inst.e].state = to
        /\ \A x \in Digests, y \in Entries : <<x, y>> # <<inst.d, inst.e>> => entry'[x][y] = entry[x][y]
    BY <1>2, <2>3, MarkFacts DEF EntryStates
  <2>5. TablesTyped'
    BY <1>1, <2>4 DEF TablesTyped
  <2>6. ASSUME NEW x \in Digests, NEW y \in Entries
        PROVE  EntryStep(x, y)
    BY <1>1, <1>2, <2>3, <2>4 DEF EntryStep
  <2>7. TableSteps
    BY <1>1, <2>6 DEF TableSteps, ReleaseStep, CommitStep
  <2> QED
    BY <1>1, <2>1, <2>2, <2>5, <2>7, SameQueue, SameDisk, UpTyped DEF Advances, SystemStep
<1> QED
  BY <1>3, <1>4 DEF MarkEntryDone

LEMMA PrepareStep == ASSUME TypeInv, BaselineInv, PrepareCommit PROVE Advances
<1> USE DEF TypeInv, BaselineInv
<1>1. /\ Up /\ Sound /\ inst.pc = "advance" /\ Ends /\ UNCHANGED <<entry, rows, queue, disk, swept>>
  BY DEF PrepareCommit, At, files
<1>2. inst.d \in Digests /\ release[inst.d].state = "Installing"
  BY <1>1 DEF PassFits
<1>3. CASE UNCHANGED <<release, commit>>
  BY <1>1, <1>3, EndsFacts, ReadStep DEF content
<1>4. CASE PrepareReleaseCommit(inst.d)
  <2>1. /\ release' \in [Digests -> ReleaseRow] /\ release'[inst.d].state = "Committing"
        /\ \A x \in Digests : x # inst.d => release'[x] = release[x]
    BY <1>2, <1>4, PutFacts DEF PrepareReleaseCommit, ReleaseStates
  <2>2. PICK new : new = [e \in Entries |-> [state |-> "Prepared", at |-> 0]]
    OBVIOUS
  <2>3. new \in [Entries -> CommitRow] /\ \A e \in Entries : new[e].state = "Prepared"
    BY <2>2 DEF CommitRow, CommitStates
  <2>4. commit' = [commit EXCEPT ![inst.d] = new] /\ \A e \in Entries : entry[inst.d][e].state = "ReadyToCommit"
    BY <1>4, <2>2 DEF PrepareReleaseCommit
  <2>5. TablesTyped'
    BY <1>1, <2>1, <2>3, <2>4 DEF TablesTyped
  <2>6. /\ \A e \in Entries : commit'[inst.d][e].state = "Prepared"
        /\ \A x \in Digests : x # inst.d => commit'[x] = commit[x]
    BY <1>2, <2>3, <2>4 DEF TablesTyped
  <2>7. TableSteps
    BY <1>1, <1>2, <2>1, <2>4, <2>6 DEF TableSteps, ReleaseStep, EntryStep, CommitStep
  <2> QED
    BY <1>1, <2>5, <2>7, EndsFacts, SameQueue, SameDisk, UpTyped DEF Advances, SystemStep
<1> QED
  BY <1>3, <1>4 DEF PrepareCommit
-----------------------------------------------------------------------------
(* The steps that write the directories and publish them.                  *)

LEMMA CheckStep ==
  ASSUME TypeInv, BaselineInv, NEW e \in Entries, CheckMaterialized(e)
  PROVE  Advances
<1>1. /\ Up /\ Sound /\ inst.pc = "finalize" /\ UNCHANGED <<content, queue, disk, swept>>
      /\ \/ inst' = [inst EXCEPT !.todo = @ \ {e}]
         \/ inst' = [inst EXCEPT !.pc = "failed", !.class = "transient"]
  BY DEF CheckMaterialized, At, files
<1>2. inst.d \in Digests /\ release[inst.d].state = "Committing" /\ inst \in InstallerPass
  BY <1>1 DEF TypeInv, ProcessTyped, BaselineInv, PassFits
<1>3. inst' \in InstallerPass /\ inst'.pc \in {"finalize", "failed"} /\ inst'.d = inst.d
  BY <1>1, <1>2 DEF InstallerPass, PCs
<1>4. PassFits'
  BY <1>1, <1>2, <1>3 DEF PassFits, content, Active
<1> QED
  BY <1>1, <1>3, <1>4, ReadStep

LEMMA PromoteStep ==
  ASSUME TypeInv, BaselineInv, NEW e \in Entries, MaterializeCommit(e)
  PROVE  Advances
<1> USE DEF TypeInv, BaselineInv
<1>1. /\ Up /\ inst.pc = "finalize" /\ commit[inst.d][e].state = "Prepared"
      /\ UNCHANGED <<content, queue, swept>>
  BY DEF MaterializeCommit, At
<1>2. inst.d \in Digests /\ release[inst.d].state = "Committing" /\ inst \in InstallerPass
  BY <1>1 DEF ProcessTyped, PassFits
<1>3. CASE /\ Sound /\ disk' = [disk EXCEPT ![inst.d][e] = PromoteDirectoryAt(@)]
           /\ inst' = [inst EXCEPT !.pc = "promoted", !.todo = @ \ {e}, !.e = e, !.all = FALSE]
  <2>1. inst' \in InstallerPass /\ inst'.pc = "promoted" /\ inst'.d = inst.d /\ inst'.e = e
    BY <1>2, <1>3 DEF InstallerPass, PCs
  <2>2. PICK dir : dir = PromoteDirectoryAt(disk[inst.d][e])
    OBVIOUS
  <2>3. dir \in Directory /\ dir.present /\ dir.at # 0
    <3>1. disk[inst.d][e] \in Directory /\ disk[inst.d][e].at + 1 # 0
      BY <1>2 DEF DiskTyped, Directory
    <3>2. disk[inst.d][e].present => disk[inst.d][e].at # 0
      BY <1>2 DEF EntriesFit, Written
    <3> QED
      BY <2>2, <3>1, <3>2 DEF PromoteDirectoryAt, Directory
  <2>4. disk' = [disk EXCEPT ![inst.d][e] = dir]
    BY <1>3, <2>2
  <2>5. /\ disk'[inst.d][e] = dir
        /\ \A x \in Digests, y \in Entries : <<x, y>> # <<inst.d, e>> => disk'[x][y] = disk[x][y]
    BY <1>2, <2>4 DEF DiskTyped
  <2>6. DiskTyped'
    BY <2>3, <2>4 DEF DiskTyped
  <2>7. DiskSteps
    BY <1>1, <2>3, <2>5 DEF DiskSteps, DiskStep, content
  <2>8. PassFits'
    BY <1>1, <1>2, <2>1, <2>3, <2>5 DEF PassFits, content
  <2> QED
    BY <1>1, <1>3, <2>1, <2>6, <2>7, <2>8, SameTables, SameQueue, UpTyped DEF Advances, SystemStep
<1>4. CASE /\ Fault /\ UNCHANGED disk
           /\ \E class \in {"transient", "deterministic"} : inst' = [inst EXCEPT !.pc = "failed", !.class = class]
  <2>1. inst' \in InstallerPass /\ inst'.pc = "failed" /\ inst'.d = inst.d
    BY <1>2, <1>4 DEF InstallerPass, PCs
  <2>2. PassFits'
    BY <1>1, <1>2, <2>1 DEF PassFits, content, Active
  <2> QED
    BY <1>1, <1>4, <2>1, <2>2, ReadStep
<1> QED
  BY <1>3, <1>4 DEF MaterializeCommit

LEMMA PromotedStep == ASSUME TypeInv, BaselineInv, MarkPromoted PROVE Advances
<1> USE DEF TypeInv, BaselineInv
<1>1. /\ Up /\ Sound /\ inst.pc = "promoted" /\ MarkCommitMaterialized(inst.d, inst.e) /\ Goto("finalize")
      /\ UNCHANGED <<release, entry, rows, queue, disk, swept>>
  BY DEF MarkPromoted, At, files
<1>2. inst.d \in Digests /\ release[inst.d].state = "Committing" /\ inst.e \in Entries
  BY <1>1 DEF PassFits
<1>3. inst' \in InstallerPass /\ inst'.pc = "finalize" /\ inst'.d = inst.d
  BY <1>1, GotoFacts DEF PCs
<1>4. /\ commit' \in [Digests -> [Entries -> CommitRow]]
      /\ commit'[inst.d][inst.e].state = "Materialized" /\ commit'[inst.d][inst.e].at = disk[inst.d][inst.e].at
      /\ \A x \in Digests, y \in Entries : <<x, y>> # <<inst.d, inst.e>> => commit'[x][y] = commit[x][y]
  BY <1>1, <1>2, CommitFacts
<1>5. TablesTyped'
  BY <1>1, <1>4 DEF TablesTyped
<1>6. ASSUME NEW x \in Digests, NEW y \in Entries
      PROVE  CommitStep(x, y)
  BY <1>1, <1>2, <1>4 DEF CommitStep
<1>7. TableSteps
  BY <1>1, <1>6 DEF TableSteps, ReleaseStep, EntryStep
<1>8. PassFits'
  BY <1>1, <1>2, <1>3 DEF PassFits
<1> QED
  BY <1>1, <1>3, <1>5, <1>7, <1>8, SameQueue, SameDisk, UpTyped DEF Advances, SystemStep

LEMMA PublishStep == ASSUME TypeInv, BaselineInv, FinalizeCommit PROVE Advances
<1> USE DEF TypeInv, BaselineInv
<1>1. /\ Up /\ Sound /\ inst.pc = "finalize" /\ UNCHANGED <<entry, queue, disk, swept>>
  BY DEF FinalizeCommit, At, files
<1>2. inst.d \in Digests /\ release[inst.d].state = "Committing" /\ inst \in InstallerPass
  BY <1>1 DEF ProcessTyped, PassFits
<1>3. CASE UNCHANGED <<release, commit, rows>> /\ Ends
  BY <1>1, <1>3, EndsFacts, ReadStep DEF content
<1>4. CASE /\ UNCHANGED <<release, commit, rows>>
           /\ inst' = [inst EXCEPT !.pc = "failed", !.class = "deterministic"]
  <2>1. inst' \in InstallerPass /\ inst'.pc = "failed" /\ inst'.d = inst.d
    BY <1>2, <1>4 DEF InstallerPass, PCs
  <2>2. PassFits'
    BY <1>1, <1>2, <1>4, <2>1 DEF PassFits, Active
  <2> QED
    BY <1>1, <1>4, <2>1, <2>2, ReadStep DEF content
<1>5. CASE CompleteReleaseCommit(inst.d) /\ Ends
  <2>1. /\ release' \in [Digests -> ReleaseRow] /\ release'[inst.d].state = "Ready"
        /\ \A x \in Digests : x # inst.d => release'[x] = release[x]
    BY <1>2, <1>5, PutFacts DEF CompleteReleaseCommit, ReleaseStates
  <2>2. \A e \in Entries : commit[inst.d][e].state = "Materialized" /\ commit[inst.d][e] \in CommitRow
    BY <1>2, <1>5 DEF CompleteReleaseCommit, Complete, TablesTyped
  <2>3. PICK times : times = [e \in Entries |-> commit[inst.d][e].at]
    OBVIOUS
  <2>4. times \in [Entries -> Nat] /\ \A e \in Entries : times[e] = commit[inst.d][e].at
    BY <2>2, <2>3 DEF CommitRow
  <2>5. PICK done : done = [e \in Entries |-> [commit[inst.d][e] EXCEPT !.state = "Committed"]]
    OBVIOUS
  <2>6. /\ done \in [Entries -> CommitRow]
        /\ \A e \in Entries : done[e].state = "Committed" /\ done[e].at = commit[inst.d][e].at
    BY <2>2, <2>5 DEF CommitRow, CommitStates
  <2>7. rows' = [rows EXCEPT ![inst.d] = times] /\ commit' = [commit EXCEPT ![inst.d] = done]
    BY <1>5, <2>3, <2>5 DEF CompleteReleaseCommit
  <2>8. TablesTyped'
    BY <1>1, <2>1, <2>4, <2>6, <2>7 DEF TablesTyped
  <2>9. /\ rows'[inst.d] = times /\ commit'[inst.d] = done
        /\ \A x \in Digests : x # inst.d => rows'[x] = rows[x] /\ commit'[x] = commit[x]
    BY <1>2, <2>7 DEF TablesTyped
  <2>10. TableSteps
    BY <1>1, <1>2, <2>1, <2>2, <2>4, <2>6, <2>9 DEF TableSteps, ReleaseStep, EntryStep, CommitStep
  <2> QED
    BY <1>1, <1>5, <2>8, <2>10, EndsFacts, SameQueue, SameDisk, UpTyped DEF Advances, SystemStep
<1> QED
  BY <1>3, <1>4, <1>5 DEF FinalizeCommit
-----------------------------------------------------------------------------
(* The steps around the installer.                                         *)

LEMMA AbortStep == ASSUME TypeInv, BaselineInv, AbortPass PROVE Advances
<1>1. Up /\ Fault /\ Ends /\ UNCHANGED <<content, queue, disk, swept>>
  BY DEF AbortPass, Up, files
<1> QED
  BY <1>1, EndsFacts, ReadStep

\* The pass, the release states and the directories stay, and no action is forgotten.
LEMMA FitsStay ==
  ASSUME BaselineInv, UNCHANGED inst, QueueSteps,
         \A d \in Digests : release'[d].state = release[d].state,
         \A d \in Digests, e \in Entries :
           /\ disk'[d][e].at = disk[d][e].at
           /\ (disk[d][e].present \/ <<d, e>> \in swept) /\ release[d].state = "Committing" =>
                disk'[d][e].present \/ <<d, e>> \in swept'
  PROVE  PassFits'
<1>1. PassFits
  BY DEF BaselineInv
<1>2. ASSUME inst.pc \in {"resolve", "mark"}
      PROVE  inst.e \in Entries /\ inst.phase \in Phases /\ status'[<<inst.d, inst.e, inst.phase>>] # "none"
  BY <1>1, <1>2 DEF PassFits, QueueSteps, QueueStep
<1>3. ASSUME inst.pc = "promoted"
      PROVE  /\ inst.e \in Entries /\ disk'[inst.d][inst.e].at # 0
             /\ disk'[inst.d][inst.e].present \/ <<inst.d, inst.e>> \in swept'
  BY <1>1, <1>3 DEF PassFits
<1>4. inst.pc = "create" => release'[inst.d].state = "none" /\ \A x \in Digests : ~Live(x)'
  BY <1>1 DEF PassFits, Live
<1>5. inst.pc # "idle" => inst.d \in Digests
  BY <1>1 DEF PassFits
<1> QED
  BY <1>1, <1>2, <1>3, <1>4, <1>5 DEF PassFits

LEMMA RetryStep ==
  ASSUME TypeInv, BaselineInv, NEW d \in Digests, RetryComesDue(d)
  PROVE  Advances
<1> USE DEF TypeInv, BaselineInv
<1>1. /\ release' = [release EXCEPT ![d].due = TRUE]
      /\ UNCHANGED <<entry, commit, rows, queue, disk, swept, inst, server, faults>>
  BY DEF RetryComesDue, files
<1>2. PICK r : r = [release[d] EXCEPT !.due = TRUE]
  OBVIOUS
<1>3. r \in ReleaseRow /\ r.state = release[d].state /\ release' = [release EXCEPT ![d] = r]
  BY <1>1, <1>2 DEF TablesTyped, ReleaseRow
<1>4. /\ release' \in [Digests -> ReleaseRow] /\ \A x \in Digests : release'[x].state = release[x].state
  BY <1>3, PutRow
<1>5. TablesTyped'
  BY <1>1, <1>4 DEF TablesTyped
<1>6. TableSteps
  BY <1>1, <1>4 DEF TableSteps, ReleaseStep, EntryStep, CommitStep
<1>7. QueueTyped' /\ QueueSteps /\ DiskTyped' /\ DiskSteps
  BY <1>1, SameQueue, SameDisk
<1>8. PassFits'
  BY <1>1, <1>4, <1>7, FitsStay
<1>9. ProcessTyped'
  BY <1>1 DEF ProcessTyped
<1> QED
  BY <1>5, <1>6, <1>7, <1>8, <1>9 DEF Advances, SystemStep

LEMMA SettleStep ==
  ASSUME TypeInv, BaselineInv, NEW a \in Digests \X Entries \X Phases, ActionSettles(a)
  PROVE  Advances
<1> USE DEF TypeInv, BaselineInv
<1>1. /\ UNCHANGED <<content, disk, swept, inst, server>> /\ (Sound \/ Fault)
      /\ \E s \in {"completed", "artifact-failed", "infra-failed"} : Queue!Settle(a, s)
  BY DEF ActionSettles, files
<1>2. /\ status[a] = "pending" /\ status' \in [Digests \X Entries \X Phases -> Queue!Statuses]
      /\ status'[a] # "none" /\ \A b \in Digests \X Entries \X Phases : b # a => status'[b] = status[b]
  BY <1>1 DEF QueueTyped, Queue!ContractTypeOK, Queue!Settle, Queue!Statuses
<1>3. PICK d \in Digests, e \in Entries, phase \in Phases : a = <<d, e, phase>>
  OBVIOUS
<1>4. \/ UNCHANGED verdict
      \/ /\ phase = "verify" /\ status'[a] = "completed"
         /\ \E v \in {"passed", "rejected"} : verdict' = [verdict EXCEPT ![d][e] = v]
  BY <1>2, <1>3 DEF ActionSettles, Queue!Settle, QueueTyped, Queue!ContractTypeOK
<1>5. /\ verdict' \in [Digests -> [Entries -> {"none", "passed", "rejected"}]]
      /\ \A x \in Digests, y \in Entries :
           \/ verdict'[x][y] = verdict[x][y]
           \/ x = d /\ y = e /\ phase = "verify" /\ status'[a] = "completed"
  BY <1>4 DEF QueueTyped
<1>6. QueueTyped'
  BY <1>2, <1>5 DEF QueueTyped, Queue!ContractTypeOK, Queue!Statuses
<1>7. ASSUME NEW x \in Digests, NEW y \in Entries
      PROVE  QueueStep(x, y)
  <2>1. "verify" \in Phases
    BY DEF Phases
  <2>2. \A p \in Phases : <<x, y, p>> \in Digests \X Entries \X Phases
    OBVIOUS
  <2>3. \A p \in Phases : <<x, y, p>> # a => status'[<<x, y, p>>] = status[<<x, y, p>>]
    BY <1>2, <2>2
  <2>4. \A p \in Phases : <<x, y, p>> = a => status[<<x, y, p>>] = "pending" /\ status'[<<x, y, p>>] # "none"
    BY <1>2
  <2>5. \/ verdict'[x][y] = verdict[x][y]
        \/ <<x, y, "verify">> = a /\ status'[a] = "completed"
    BY <1>3, <1>5
  <2> QED
    BY <1>2, <2>1, <2>3, <2>4, <2>5 DEF QueueStep
<1>8. TablesTyped' /\ TableSteps /\ DiskTyped' /\ DiskSteps /\ QueueSteps
  BY <1>1, <1>7, SameTables, SameDisk DEF QueueSteps
<1>9. PassFits'
  BY <1>1, <1>8, FitsStay DEF content
<1>10. ProcessTyped'
  BY <1>1, CatalogAssumption DEF ProcessTyped, Sound, Fault
<1> QED
  BY <1>6, <1>8, <1>9, <1>10 DEF Advances, SystemStep

\* A sweep keeps what it lists: in a step that removes what is not listed now,
\* nothing that is retained goes.
LEMMA SweepStep ==
  ASSUME TypeInv, BaselineInv, UNCHANGED <<content, queue, inst>>, ProcessTyped',
         NEW gone \in SUBSET (Digests \X Entries), Removed(gone), swept \subseteq swept',
         \A p \in gone : \/ p \notin RetainedMaterializationPaths
                         \/ release[p[1]].state \in {"Committing", "Ready"} => p \in swept'
  PROVE  Advances
<1> USE DEF TypeInv, BaselineInv
<1>1. ASSUME NEW d \in Digests, NEW e \in Entries
      PROVE  /\ disk'[d][e] \in Directory /\ disk'[d][e].at = disk[d][e].at
             /\ disk'[d][e].present <=> disk[d][e].present /\ <<d, e>> \notin gone
  <2>1. disk'[d][e] = [disk[d][e] EXCEPT !.present = @ /\ <<d, e>> \notin gone]
    BY DEF Removed
  <2>2. disk[d][e] \in Directory
    BY DEF DiskTyped
  <2> QED
    BY <2>1, <2>2 DEF Directory
<1>2. DiskTyped'
  BY <1>1 DEF DiskTyped, Removed
<1>3. ASSUME NEW d \in Digests, NEW e \in Entries
      PROVE  /\ DiskStep(d, e)
             /\ (disk[d][e].present \/ <<d, e>> \in swept) /\ release[d].state = "Committing" =>
                  disk'[d][e].present \/ <<d, e>> \in swept'
  <2>1. ReleaseFits(d, e)
    BY DEF EntriesFit
  <2>2. ASSUME <<d, e>> \in gone, <<d, e>> \notin swept'
        PROVE  rows[d][e] = 0 /\ release[d].state # "Committing"
    <3>1. \/ <<d, e>> \notin RetainedMaterializationPaths
          \/ release[d].state \notin {"Committing", "Ready"}
      BY <2>2
    <3>2. CASE <<d, e>> \notin RetainedMaterializationPaths
      BY <2>1, <3>2 DEF RetainedMaterializationPaths, ReleaseFits
    <3>3. CASE release[d].state \notin {"Committing", "Ready"}
      BY <2>1, <3>3 DEF ReleaseFits
    <3> QED
      BY <3>1, <3>2, <3>3
  <2>3. UNCHANGED <<commit, release>>
    BY DEF content
  <2> QED
    BY <1>1, <2>2, <2>3 DEF DiskStep
<1>4. TablesTyped' /\ TableSteps /\ QueueTyped' /\ QueueSteps
  BY SameTables, SameQueue
<1>5. DiskSteps
  BY <1>3 DEF DiskSteps
<1>6. PassFits'
  BY <1>1, <1>3, <1>4, FitsStay DEF content
<1> QED
  BY <1>2, <1>4, <1>5, <1>6 DEF Advances, SystemStep

LEMMA SweepersStep ==
  ASSUME TypeInv, BaselineInv, SweepRemoves \/ \E d \in Digests : Boot(d)
  PROVE  Advances
<1> USE DEF TypeInv, BaselineInv
<1>0. OnDisk \in SUBSET (Digests \X Entries)
  BY DEF OnDisk
<1>1. CASE SweepRemoves
  <2> DEFINE gone == OnDisk \ sweep.retained
  <2>1. /\ UNCHANGED <<content, queue, inst, server, faults>> /\ Removed(gone)
        /\ swept' = swept \cup {p \in gone : release[p[1]].state \in {"Committing", "Ready"}}
    BY <1>1 DEF SweepRemoves
  <2>2. gone \in SUBSET (Digests \X Entries)
    BY <1>0
  <2>3. ProcessTyped'
    BY <2>1 DEF ProcessTyped
  <2> HIDE DEF gone
  <2>4. \A p \in gone : release[p[1]].state \in {"Committing", "Ready"} => p \in swept'
    BY <2>1
  <2> QED
    BY <2>1, <2>2, <2>3, <2>4, SweepStep
<1>2. ASSUME NEW d \in Digests, Boot(d)
      PROVE  Advances
  <2> DEFINE gone == OnDisk \ RetainedMaterializationPaths
  <2>1. /\ server.state # "up" /\ Removed(gone) /\ UNCHANGED <<content, queue, swept, inst, faults>>
        /\ \E state \in {"up", "refused"} : server' = [state |-> state, digest |-> d]
    BY <1>2 DEF Boot
  <2>2. gone \in SUBSET (Digests \X Entries) /\ \A p \in gone : p \notin RetainedMaterializationPaths
    BY <1>0
  <2>3. ProcessTyped'
    BY <2>1 DEF ProcessTyped
  <2> HIDE DEF gone
  <2> QED
    BY <2>1, <2>2, <2>3, SweepStep
<1> QED
  BY <1>1, <1>2

\* A step that touches none of the tables, the queue and the directories.
LEMMA IdleStep ==
  ASSUME TypeInv, BaselineInv, UNCHANGED <<content, queue, disk, swept>>, ProcessTyped',
         UNCHANGED inst \/ Ends
  PROVE  Advances
<1>1. TablesTyped' /\ TableSteps /\ QueueTyped' /\ QueueSteps /\ DiskTyped' /\ DiskSteps
  BY SameTables, SameQueue, SameDisk DEF TypeInv
<1>2. PassFits'
  BY <1>1, EndsFacts, FitsStay DEF content
<1> QED
  BY <1>1, <1>2 DEF TypeInv, Advances, SystemStep

LEMMA NextAdvances == TypeInv /\ BaselineInv /\ [Next]_vars => Advances
<1> SUFFICES ASSUME TypeInv, BaselineInv, [Next]_vars PROVE Advances
  OBVIOUS
<1>1. CASE Pass
  <2>1. CASE \E e \in Entries : CheckMaterialized(e) \/ MaterializeCommit(e)
    BY <2>1, CheckStep, PromoteStep
  <2>2. CASE \E e \in Entries : ScheduleEntry(e)
    BY <2>2, ScheduleStep
  <2>3. CASE BeginPass \/ CreateRelease \/ StagePending \/ LoadOrStageSource \/ RecordFailure \/ Initialize
    BY <2>3, BeginStep, CreateStep, StageStep, RecordStep, InitializeStep
  <2>4. CASE ResolveEntry \/ FailReleaseForAction \/ MarkEntryDone \/ PrepareCommit \/ MarkPromoted \/ FinalizeCommit
    BY <2>4, ResolveStep, RecordStep, MarkStep, PrepareStep, PromotedStep, PublishStep
  <2> QED
    BY <1>1, <2>1, <2>2, <2>3, <2>4 DEF Pass
<1>2. CASE AbortPass
  BY <1>2, AbortStep
<1>3. CASE \E d \in Digests : RetryComesDue(d)
  BY <1>3, RetryStep
<1>4. CASE SweepRemoves \/ \E d \in Digests : Boot(d)
  BY <1>4, SweepersStep
<1>5. CASE \E a \in Digests \X Entries \X Phases : ActionSettles(a)
  BY <1>5, SettleStep
<1>6. CASE AuthorPublishes \/ SweepLists \/ UNCHANGED vars
  <2>1. UNCHANGED <<content, queue, disk, swept, inst, server, faults>>
    BY <1>6 DEF AuthorPublishes, SweepLists, vars, files
  <2>2. ProcessTyped'
    BY <2>1 DEF TypeInv, ProcessTyped
  <2> QED
    BY <2>1, <2>2, IdleStep
<1>7. CASE Stop
  <2>1. /\ UNCHANGED <<content, queue, disk, swept>> /\ inst' = NoPass /\ Fault
        /\ server' = [server EXCEPT !.state = "down"]
    BY <1>7 DEF Stop, files
  <2>2. ProcessTyped'
    <3>1. NoPass \in InstallerPass
      BY DEF NoPass, InstallerPass, PCs
    <3>2. faults' \in 0..MaxFaults
      BY <2>1, CatalogAssumption DEF TypeInv, ProcessTyped, Fault
    <3> QED
      BY <2>1, <3>1, <3>2 DEF TypeInv, ProcessTyped
  <2> QED
    BY <2>1, <2>2, IdleStep DEF Ends
<1> QED
  BY <1>1, <1>2, <1>3, <1>4, <1>5, <1>6, <1>7 DEF Next

-----------------------------------------------------------------------------
(* The invariant.                                                          *)

LEMMA InitInv == Init => TypeInv /\ BaselineInv
<1> SUFFICES ASSUME Init PROVE TypeInv /\ BaselineInv
  OBVIOUS
<1>1. TablesTyped
  BY CatalogAssumption DEF Init, TablesTyped, ReleaseRow, ReleaseStates, EntryRow, EntryStates, CommitRow, CommitStates
<1>2. QueueTyped /\ DiskTyped
  BY DEF Init, QueueTyped, Queue!ContractInit, Queue!ContractTypeOK, Queue!Statuses, DiskTyped, Directory
<1>3. ProcessTyped
  BY CatalogAssumption DEF Init, ProcessTyped, NoPass, InstallerPass, PCs
<1>4. OneLive
  BY DEF Init, OneLive, Live, Active
<1>5. PassFits
  BY DEF Init, PassFits, NoPass
<1>6. EntriesFit
  BY DEF Init, EntriesFit, ReleaseFits, Verified, Written
<1> QED
  BY <1>1, <1>2, <1>3, <1>4, <1>5, <1>6 DEF TypeInv, BaselineInv

LEMMA StepInv == TypeInv /\ BaselineInv /\ [Next]_vars => (TypeInv /\ BaselineInv)'
<1> SUFFICES ASSUME TypeInv, BaselineInv, [Next]_vars PROVE (TypeInv /\ BaselineInv)'
  OBVIOUS
<1>1. TypeInv' /\ SystemStep /\ PassFits'
  BY NextAdvances DEF Advances
<1> QED
  BY <1>1, FitsFromStep, OneFromStep DEF BaselineInv

LEMMA InvImplies == TypeInv /\ BaselineInv => BaselineInvariant
<1> SUFFICES ASSUME TypeInv, BaselineInv PROVE BaselineInvariant
  OBVIOUS
<1>1. CatalogTypeOK
  <2>1. ASSUME NEW d \in Digests, NEW e \in Entries
        PROVE  /\ entry[d][e].state \in EntryStates /\ commit[d][e].state \in CommitStates
               /\ release[d].state \in {"Installing", "Committing", "Ready"} => entry[d][e].state # "none"
               /\ release[d].state \in {"Committing", "Ready"} => commit[d][e].state # "none"
    BY DEF TypeInv, TablesTyped, EntryRow, CommitRow, BaselineInv, EntriesFit, ReleaseFits
  <2>2. \A d \in Digests : release[d] \in ReleaseRow
    BY DEF TypeInv, TablesTyped
  <2>3. inst.d \in Digests \cup {None} /\ inst.todo \subseteq Entries /\ faults \in 0..MaxFaults
    BY DEF TypeInv, ProcessTyped, InstallerPass
  <2> QED
    BY <2>1, <2>2, <2>3 DEF CatalogTypeOK, ReleaseRow, TypeInv, QueueTyped
<1>2. OneBaseline
  <2> DEFINE L == {d \in Digests : release[d].state \in {"Ready"} \cup Active}
  <2>1. \A x, y \in L : x = y
    BY DEF BaselineInv, OneLive, Live
  <2>2. CASE L = {}
    <3>1. Cardinality(L) = 0
      BY <2>2, FS_EmptySet
    <3> QED
      BY <3>1 DEF OneBaseline
  <2>3. CASE L # {}
    <3>1. PICK x : L = {x}
      BY <2>1, <2>3
    <3>2. Cardinality(L) = 1
      BY <3>1, FS_Singleton
    <3> QED
      BY <3>2 DEF OneBaseline
  <2> QED
    BY <2>2, <2>3
<1>3. BaselineIsIntact
  <2> SUFFICES ASSUME NEW d \in Digests, NEW e \in Entries
               PROVE  /\ (rows[d][e] # 0) <=> (release[d].state = "Ready")
                      /\ rows[d][e] # 0 => /\ verdict[d][e] = "passed"
                                           /\ disk[d][e].at = rows[d][e]
                                           /\ disk[d][e].present \/ <<d, e>> \in swept
    BY DEF BaselineIsIntact
  <2>1. ReleaseFits(d, e) /\ Verified(d, e) /\ Written(d, e)
    BY DEF BaselineInv, EntriesFit
  <2>2. ASSUME release[d].state = "Ready"
        PROVE  /\ rows[d][e] = disk[d][e].at /\ disk[d][e].at # 0 /\ verdict[d][e] = "passed"
               /\ disk[d][e].present \/ <<d, e>> \in swept
    BY <2>1, <2>2 DEF ReleaseFits, Verified, Written
  <2>3. release[d].state # "Ready" => rows[d][e] = 0
    BY <2>1 DEF ReleaseFits
  <2> QED
    BY <2>2, <2>3
<1> QED
  BY <1>1, <1>2, <1>3 DEF BaselineInvariant

(* Whatever digest each start configures and wherever the Server stops,    *)
(* the platform gets at most one baseline, and it is visible as a whole,   *)
(* verified and readable with the times its directories carry              *)
(* (selectBootstrapRelease, CompleteReleaseCommit, RunOnce).               *)
THEOREM OneIntactBaseline == Spec => []BaselineInvariant
BY InitInv, StepInv, InvImplies, PTL DEF Spec
=============================================================================
