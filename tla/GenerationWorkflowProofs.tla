---------------------- MODULE GenerationWorkflowProofs ----------------------
(***************************************************************************)
(* For any number of workflows, submissions, Judge claims, attempts and    *)
(* faults: a candidate is judged by one finished run that was shown it,    *)
(* what reaches the author's review was approved and verified, and a       *)
(* workflow that ended is never written again.                             *)
(***************************************************************************)
EXTENDS GenerationWorkflow, FiniteSetTheorems, TLAPS

UnderReview == {"NeedsAuthorReview", "Publishing", "Published"}
Submitted == {"Judging"} \cup Waiting \cup UnderReview

CoordinatorPass ==
  [pc : {"idle", "next", "resolving", "failing", "marking"}, todo : SUBSET (Workflows \X Waiting),
   w : Workflows \cup {NoKey}, state : Waiting \cup {"none"}, candidate : Keys \cup {NoKey}]

(* The type invariant; and a workflow past its first submission, a Judge   *)
(* goroutine and the coordinator's pass all name a candidate.              *)
TypeInv ==
  /\ GenerationTypeOK
  /\ load \in Workloads
  /\ verdict \in [Workflows -> [Keys -> {"none", "passed", "rejected"}]]
  /\ coord \in CoordinatorPass
  /\ \A w \in Workflows : wf[w].state \in Submitted => wf[w].candidate \in Keys
  /\ \A n \in Claims : judge[n].pc # "none" => judge[n].w \in Workflows /\ judge[n].candidate \in Keys
  /\ coord.pc \notin {"idle", "next"} =>
       coord.w \in Workflows /\ coord.state \in Waiting /\ coord.candidate \in Keys
  /\ \A s \in coord.todo : wf[s[1]].candidate \in Keys

-----------------------------------------------------------------------------
(* Rows of generation_workflows.                                           *)
LEMMA RowTyped ==
  ASSUME NEW r \in Workflow
  PROVE  /\ \A s \in States :
              /\ Moved(r, s) \in Workflow
              /\ Moved(r, s).state = s /\ Moved(r, s).version = r.version + 1
              /\ Moved(r, s).candidate = r.candidate
              /\ Moved(r, s).owner = r.owner /\ (Moved(r, s).live <=> r.live) /\ Moved(r, s).run = r.run
         /\ Released(r) \in Workflow
         /\ Released(r).state = r.state /\ Released(r).version = r.version
         /\ Released(r).candidate = r.candidate
         /\ Released(r).owner = 0 /\ ~Released(r).live /\ Released(r).run = 0
<1>1. \A s \in States : Moved(r, s) \in Workflow
  <2>1. \A s \in States, v \in Nat : [r EXCEPT !.state = s, !.version = v] \in Workflow
    BY DEF Workflow
  <2>2. r.version + 1 \in Nat
    BY DEF Workflow
  <2> QED
    BY <2>1, <2>2 DEF Moved
<1>2. \A s \in States :
         /\ Moved(r, s).state = s /\ Moved(r, s).version = r.version + 1
         /\ Moved(r, s).candidate = r.candidate
         /\ Moved(r, s).owner = r.owner /\ Moved(r, s).run = r.run
  BY DEF Moved, Workflow
<1>3. \A s \in States : Moved(r, s).live <=> r.live
  BY DEF Moved, Workflow
<1>4. Released(r) \in Workflow
  BY DEF Released, Workflow
<1>5. /\ Released(r).state = r.state /\ Released(r).version = r.version
         /\ Released(r).candidate = r.candidate
         /\ Released(r).owner = 0 /\ ~Released(r).live /\ Released(r).run = 0
  BY DEF Released, Workflow
<1> QED
  BY <1>1, <1>2, <1>3, <1>4, <1>5

LEMMA PutTyped ==
  ASSUME wf \in [Workflows -> Workflow], NEW w \in Workflows, NEW r \in Workflow, Put(w, r)
  PROVE  /\ wf' \in [Workflows -> Workflow]
         /\ wf'[w] = r
         /\ \A v \in Workflows \ {w} : wf'[v] = wf[v]
BY DEF Put

LEMMA FaultTyped ==
  ASSUME TypeInv, Fault, UNCHANGED load
  PROVE  faults' \in 0 .. load'.faults
<1>1. load.faults \in Nat
  BY GenerationAssumption DEF TypeInv
<1> QED
  BY <1>1 DEF TypeInv, GenerationTypeOK, Fault

LEMMA PassTyped ==
  ASSUME TypeInv
  PROVE  /\ NoPass \in CoordinatorPass /\ NoPass.pc = "idle" /\ NoPass.todo = {}
         /\ Rest \in CoordinatorPass /\ Rest.pc \in {"idle", "next"} /\ Rest.todo = coord.todo
BY DEF TypeInv, NoPass, Rest, CoordinatorPass

LEMMA InitTyped == Init => TypeInv
<1> SUFFICES ASSUME Init PROVE TypeInv
  OBVIOUS
<1> USE GenerationAssumption DEF Init
<1>1. load \in Workloads /\ load.faults \in Nat
  OBVIOUS
<1>2. wf \in [Workflows -> Workflow] /\ \A w \in Workflows : wf[w].state \notin Submitted
  BY DEF Workflow, States, Submitted, Waiting, UnderReview
<1>3. cand \in [Workflows -> [Keys -> Candidate]]
  BY DEF Candidate, NoCandidate
<1>4. runs \in [Claims -> Run] /\ judge \in [Claims -> Judge]
  BY DEF Run, Judge, NoJudge, Claims
<1>5. coord \in CoordinatorPass /\ coord.pc = "idle" /\ coord.todo = {}
  BY DEF CoordinatorPass, NoPass
<1>6. Queue!ContractTypeOK
  BY DEF Queue!ContractInit, Queue!ContractTypeOK, Queue!Statuses
<1>7. GenerationTypeOK
  <2>1. \A w \in Workflows : wf[w].owner = 0 /\ wf[w].run = 0 /\ wf[w].live = FALSE
    OBVIOUS
  <2>2. server \in {"up", "down", "interrupted"} /\ faults \in 0 .. load.faults
    BY <1>1
  <2> QED
    BY <1>2, <1>3, <1>4, <1>6, <2>1, <2>2 DEF GenerationTypeOK
<1> QED
  BY <1>1, <1>2, <1>5, <1>7 DEF TypeInv, NoJudge

(* A step that writes one workflow's row and keeps the rest in type.       *)
LEMMA PutKeepsType ==
  ASSUME TypeInv, NEW w \in Workflows, NEW r \in Workflow, Put(w, r),
         r.state # "Judging" => r.owner = 0 /\ r.run = 0,
         r.owner = 0 => ~r.live,
         wf[w].candidate \in Keys => r.candidate \in Keys,
         r.state \in Submitted => r.candidate \in Keys,
         cand' \in [Workflows -> [Keys -> Candidate]],
         runs' \in [Claims -> Run], judge' \in [Claims -> Judge],
         \A n \in Claims : judge'[n].pc # "none" =>
            judge'[n].w \in Workflows /\ judge'[n].candidate \in Keys,
         coord' \in CoordinatorPass,
         coord'.pc \in {"idle", "next"} \/ UNCHANGED coord,
         coord'.todo \subseteq coord.todo,
         UNCHANGED <<load, status, verdict, server>>, faults' \in 0 .. load'.faults
  PROVE  TypeInv'
<1>1. /\ wf' \in [Workflows -> Workflow]
      /\ wf'[w] = r
      /\ \A v \in Workflows \ {w} : wf'[v] = wf[v]
  BY PutTyped DEF TypeInv, GenerationTypeOK
<1>2. GenerationTypeOK'
  BY <1>1 DEF TypeInv, GenerationTypeOK, Queue!ContractTypeOK
<1>3. \A s \in coord'.todo : wf'[s[1]].candidate \in Keys
  <2> SUFFICES ASSUME NEW s \in coord'.todo PROVE wf'[s[1]].candidate \in Keys
    OBVIOUS
  <2>1. s \in coord.todo /\ s[1] \in Workflows /\ wf[s[1]].candidate \in Keys
    BY DEF TypeInv, CoordinatorPass
  <2> QED
    BY <1>1, <2>1
<1> QED
  BY <1>1, <1>2, <1>3 DEF TypeInv

(* A step that writes the row of one candidate.                            *)
LEMMA CandidateTyped ==
  ASSUME TypeInv, NEW w \in Workflows, NEW k \in Keys, NEW c \in Candidate,
         cand' = [cand EXCEPT ![w][k] = c]
  PROVE  /\ cand' \in [Workflows -> [Keys -> Candidate]]
         /\ cand'[w][k] = c
         /\ \A v \in Workflows, j \in Keys : v # w \/ j # k => cand'[v][j] = cand[v][j]
BY DEF TypeInv, GenerationTypeOK

(* The row a step moves to another state.                                  *)
LEMMA MovedTyped ==
  ASSUME TypeInv, NEW w \in Workflows, NEW s \in States,
         NEW r, r = Moved(wf[w], s) \/ r = Moved(Released(wf[w]), s)
  PROVE  /\ r \in Workflow
         /\ r.state = s /\ r.version = wf[w].version + 1 /\ r.candidate = wf[w].candidate
         /\ r.owner = 0 => ~r.live
         /\ wf[w].state # "Judging" => r.owner = 0 /\ r.run = 0
         /\ r = Moved(Released(wf[w]), s) => r.owner = 0 /\ r.run = 0
<1>1. /\ wf[w] \in Workflow /\ Released(wf[w]) \in Workflow
      /\ wf[w].state # "Judging" => wf[w].owner = 0 /\ wf[w].run = 0
      /\ wf[w].owner = 0 => ~wf[w].live
  BY RowTyped DEF TypeInv, GenerationTypeOK
<1>2. CASE r = Moved(wf[w], s)
  <2>1. r \in Workflow /\ r.state = s /\ r.version = wf[w].version + 1
        /\ r.candidate = wf[w].candidate /\ r.owner = wf[w].owner /\ r.run = wf[w].run
        /\ (r.live <=> wf[w].live)
    BY <1>1, <1>2, RowTyped
  <2> QED
    BY <1>1, <2>1, RowTyped
<1>3. CASE r = Moved(Released(wf[w]), s)
  BY <1>1, <1>3, RowTyped
<1> QED
  BY <1>2, <1>3

LEMMA StatesTyped ==
  /\ States = {"none", "Generating", "Judging", "MaterializingArtifact", "Verifying",
               "NeedsAuthorReview", "Publishing", "Published", "Failed", "Cancelled"}
  /\ Submitted = {"Judging", "MaterializingArtifact", "Verifying",
                  "NeedsAuthorReview", "Publishing", "Published"}
BY DEF States, Submitted, Waiting, UnderReview

(* A step that moves one workflow on and, of the other variables the type  *)
(* invariant relates to it, changes at most candidates.                    *)
LEMMA MoveKeepsType ==
  ASSUME TypeInv, NEW w \in Workflows, NEW s \in States,
         Put(w, Moved(wf[w], s)) \/ Put(w, Moved(Released(wf[w]), s)),
         s = "Judging" \/ wf[w].state # "Judging" \/ Put(w, Moved(Released(wf[w]), s)),
         s \in Submitted => wf[w].candidate \in Keys,
         cand' \in [Workflows -> [Keys -> Candidate]],
         runs' \in [Claims -> Run], judge' \in [Claims -> Judge],
         \A n \in Claims : judge'[n].pc # "none" =>
            judge'[n].w \in Workflows /\ judge'[n].candidate \in Keys,
         coord' \in CoordinatorPass,
         coord'.pc \in {"idle", "next"} \/ UNCHANGED coord,
         coord'.todo \subseteq coord.todo,
         UNCHANGED <<load, status, verdict, server, faults>>
  PROVE  TypeInv'
<1>1. faults' \in 0 .. load'.faults
  BY DEF TypeInv, GenerationTypeOK
<1>2. PICK r : /\ Put(w, r)
               /\ r = Moved(wf[w], s) \/ r = Moved(Released(wf[w]), s)
               /\ s = "Judging" \/ wf[w].state # "Judging" \/ r = Moved(Released(wf[w]), s)
  OBVIOUS
<1>3. /\ r \in Workflow
      /\ r.state = s /\ r.candidate = wf[w].candidate
      /\ r.owner = 0 => ~r.live
      /\ s # "Judging" => r.owner = 0 /\ r.run = 0
  BY <1>2, MovedTyped
<1> QED
  BY <1>1, <1>2, <1>3, PutKeepsType

(* What a step that leaves the goroutines and the pass alone keeps.        *)
LEMMA Bystanders ==
  ASSUME TypeInv
  PROVE  /\ cand \in [Workflows -> [Keys -> Candidate]]
         /\ runs \in [Claims -> Run] /\ judge \in [Claims -> Judge]
         /\ \A n \in Claims : judge[n].pc # "none" =>
              judge[n].w \in Workflows /\ judge[n].candidate \in Keys
         /\ coord \in CoordinatorPass
         /\ faults \in 0 .. load.faults
         /\ \A w \in Workflows :
              /\ wf[w] \in Workflow
              /\ wf[w].state \in Submitted => wf[w].candidate \in Keys
              /\ wf[w].state # "Judging" => wf[w].owner = 0 /\ wf[w].run = 0
              /\ wf[w].owner = 0 => ~wf[w].live
BY DEF TypeInv, GenerationTypeOK

LEMMA AuthorTyped ==
  ASSUME TypeInv, NEW w \in Workflows, Author(w)
  PROVE  TypeInv'
<1> USE DEF Up
<1>1. CASE CreateGenerationWorkflow(w)
  BY <1>1, Bystanders, StatesTyped, MoveKeepsType DEF CreateGenerationWorkflow
<1>2. CASE \E k \in Keys : SubmitGenerationCandidate(w, k)
  <2> PICK k \in Keys : SubmitGenerationCandidate(w, k)
    BY <1>2
  <2>1. PICK m : m = Moved(wf[w], "Judging")
    OBVIOUS
  <2>2. m \in Workflow /\ m.owner = 0 /\ ~m.live /\ m.state = "Judging"
    BY <2>1, StatesTyped, MovedTyped DEF SubmitGenerationCandidate
  <2>3. PICK r : r = [m EXCEPT !.candidate = k, !.run = 0]
    OBVIOUS
  <2>4. r \in Workflow /\ r.candidate = k /\ r.run = 0 /\ r.owner = 0 /\ ~r.live /\ r.state = "Judging"
    BY <2>2, <2>3 DEF Workflow
  <2>5. Put(w, r)
    BY <2>1, <2>3 DEF SubmitGenerationCandidate
  <2>6. cand' \in [Workflows -> [Keys -> Candidate]]
    <3>1. NoCandidate \in Candidate
      BY DEF NoCandidate, Candidate
    <3> QED
      BY <3>1, CandidateTyped DEF SubmitGenerationCandidate
  <2> QED
    BY <2>4, <2>5, <2>6, Bystanders, PutKeepsType DEF SubmitGenerationCandidate
<1>3. CASE \E k \in Keys : ConfirmGenerationContent(w, k)
  <2> PICK k \in Keys : ConfirmGenerationContent(w, k)
    BY <1>3
  <2>1. cand' \in [Workflows -> [Keys -> Candidate]]
    <3>1. [cand[w][k] EXCEPT !.intent = TRUE] \in Candidate
      <4>1. cand[w][k] \in Candidate
        BY Bystanders
      <4> QED
        BY <4>1 DEF Candidate
    <3>2. cand' = [cand EXCEPT ![w][k] = [cand[w][k] EXCEPT !.intent = TRUE]]
      BY Bystanders DEF ConfirmGenerationContent
    <3> QED
      BY <3>1, <3>2, CandidateTyped
  <2> QED
    BY <2>1, Bystanders, StatesTyped, MoveKeepsType DEF ConfirmGenerationContent
<1>4. CASE \E k \in Keys : RequestGenerationContentChanges(w, k)
  <2> PICK k \in Keys : RequestGenerationContentChanges(w, k)
    BY <1>4
  <2> QED
    BY Bystanders, StatesTyped, MoveKeepsType DEF RequestGenerationContentChanges
<1>5. CASE CancelGenerationWorkflow(w)
  BY <1>5, Bystanders, StatesTyped, MoveKeepsType DEF CancelGenerationWorkflow
<1> QED
  BY <1>1, <1>2, <1>3, <1>4, <1>5 DEF Author

LEMMA ClaimTyped ==
  ASSUME TypeInv, NEW w \in Workflows, NEW n \in Claims, ClaimGenerationAgentWorkflow(w, n)
  PROVE  TypeInv'
<1> USE DEF Up
<1>1. wf[w].state = "Judging" /\ wf[w] \in Workflow /\ wf[w].candidate \in Keys
  BY Bystanders, StatesTyped DEF ClaimGenerationAgentWorkflow, Claimable
<1>2. PICK r : r = [wf[w] EXCEPT !.owner = n, !.live = TRUE]
  OBVIOUS
<1>3. r \in Workflow /\ r.owner = n /\ r.candidate = wf[w].candidate /\ r.state = "Judging"
  BY <1>1, <1>2 DEF Workflow
<1>4. n # 0
  BY GenerationAssumption DEF Claims
<1>5. /\ judge' = [judge EXCEPT ![n] = [pc |-> "claimed", w |-> w, version |-> wf[w].version,
                                        candidate |-> wf[w].candidate]]
      /\ Put(w, r)
  BY <1>2 DEF ClaimGenerationAgentWorkflow
<1>6. /\ judge' \in [Claims -> Judge]
      /\ \A m \in Claims : judge'[m].pc # "none" =>
           judge'[m].w \in Workflows /\ judge'[m].candidate \in Keys
  <2>1. [pc |-> "claimed", w |-> w, version |-> wf[w].version, candidate |-> wf[w].candidate] \in Judge
    BY <1>1 DEF Judge, Workflow
  <2> QED
    BY <1>1, <1>5, <2>1, Bystanders
<1> QED
  BY <1>1, <1>3, <1>4, <1>5, <1>6, Bystanders, PutKeepsType DEF ClaimGenerationAgentWorkflow

(* A goroutine that ends, or goes on to the Judge call.                    *)
LEMMA GoroutineTyped ==
  ASSUME TypeInv, NEW n \in Claims, judge[n].pc # "none",
         Ends(n) \/ judge' = [judge EXCEPT ![n].pc = "judging"]
  PROVE  /\ judge' \in [Claims -> Judge]
         /\ \A m \in Claims : judge'[m].pc # "none" =>
              judge'[m].w \in Workflows /\ judge'[m].candidate \in Keys
         /\ \A m \in Claims : /\ judge'[m].w = judge[m].w /\ judge'[m].version = judge[m].version
                              /\ judge'[m].candidate = judge[m].candidate
                              /\ m # n => judge'[m].pc = judge[m].pc
         /\ Ends(n) => judge'[n].pc = "none"
<1>1. judge \in [Claims -> Judge] /\ judge[n] \in Judge
  BY Bystanders
<1>2. PICK p \in {"none", "judging"} : judge' = [judge EXCEPT ![n].pc = p]
  BY DEF Ends
<1>3. PICK g : g = [judge[n] EXCEPT !.pc = p]
  OBVIOUS
<1>4. /\ g \in Judge /\ g.pc = p /\ g.w = judge[n].w /\ g.version = judge[n].version
      /\ g.candidate = judge[n].candidate
  BY <1>1, <1>3 DEF Judge
<1>5. judge' = [judge EXCEPT ![n] = g]
  BY <1>1, <1>2, <1>3
<1>6. judge'[n] = g /\ \A m \in Claims \ {n} : judge'[m] = judge[m]
  BY <1>1, <1>5
<1>7. ASSUME Ends(n) PROVE judge'[n].pc = "none"
  BY <1>1, <1>7 DEF Ends, Judge
<1>8. \A m \in Claims : judge'[m].pc # "none" => judge'[m].w \in Workflows /\ judge'[m].candidate \in Keys
  BY <1>4, <1>6, Bystanders
<1> QED
  BY <1>1, <1>4, <1>5, <1>6, <1>7, <1>8

LEMMA JudgeTyped ==
  ASSUME TypeInv, NEW n \in Claims, JudgeStep(n)
  PROVE  TypeInv'
<1> DEFINE w == judge[n].w
<1> USE DEF Up
<1>1. judge[n].pc # "none" /\ Fenced(n)
  BY DEF JudgeStep, StartGenerationAgentRun, FinalizeGenerationJudgement, Active,
         ReportGenerationArtifactFailure, RetryGenerationAgentRun
<1>2. w \in Workflows /\ wf[w] \in Workflow /\ wf[w].state = "Judging" /\ wf[w].candidate \in Keys
      /\ wf[w].owner = n /\ n # 0 /\ cand[w][wf[w].candidate] \in Candidate /\ runs[n] \in Run
  BY <1>1, GenerationAssumption, Bystanders, StatesTyped DEF Fenced, Claims
<1> HIDE DEF w
<1>3. CASE StartGenerationAgentRun(n)
  <2>1. runs' \in [Claims -> Run]
    <3>1. <<judge[n].w, judge[n].candidate>> \in Workflows \X Keys
      BY <1>1, Bystanders
    <3>2. [status |-> "running", candidate |-> <<judge[n].w, judge[n].candidate>>, attempt |-> 1] \in Run
      BY <3>1, GenerationAssumption DEF Run
    <3>3. \A m \in Claims : runs[m] \in Run /\ [runs[m] EXCEPT !.status = "interrupted"] \in Run
      BY Bystanders DEF Run
    <3> QED
      BY <1>3, <3>2, <3>3 DEF StartGenerationAgentRun
  <2>2. PICK r : r = [wf[w] EXCEPT !.run = n]
    OBVIOUS
  <2>3. r \in Workflow /\ r.owner = n /\ r.candidate = wf[w].candidate /\ r.state = "Judging"
    BY <1>2, <2>2 DEF Workflow
  <2>4. Put(w, r)
    BY <1>3, <2>2 DEF StartGenerationAgentRun, w
  <2> QED
    BY <1>1, <1>2, <1>3, <2>1, <2>3, <2>4, Bystanders, GoroutineTyped, PutKeepsType
       DEF StartGenerationAgentRun
<1>4. CASE \E approved \in BOOLEAN : FinalizeGenerationJudgement(n, approved)
  <2> PICK approved \in BOOLEAN : FinalizeGenerationJudgement(n, approved)
    BY <1>4
  <2>1. runs' \in [Claims -> Run]
    <3>1. [runs[n] EXCEPT !.status = "succeeded"] \in Run
      BY <1>2 DEF Run
    <3> QED
      BY <3>1, Bystanders DEF FinalizeGenerationJudgement
  <2>2. cand' \in [Workflows -> [Keys -> Candidate]]
    <3> DEFINE k == wf[w].candidate
               c == [cand[w][k] EXCEPT !.judged = IF approved THEN "approved" ELSE "rejected",
                                       !.failed = ~approved]
    <3>1. c \in Candidate
      BY <1>2 DEF Candidate
    <3>2. cand' = [cand EXCEPT ![w][k] = c]
      BY <1>2, Bystanders DEF FinalizeGenerationJudgement, w
    <3> QED
      BY <1>2, <3>1, <3>2, CandidateTyped
  <2>3. PICK s \in {"MaterializingArtifact", "Generating"} : Put(w, Moved(Released(wf[w]), s))
    BY DEF FinalizeGenerationJudgement, w
  <2> QED
    BY <1>1, <1>2, <2>1, <2>2, <2>3, Bystanders, StatesTyped, GoroutineTyped, MoveKeepsType
       DEF FinalizeGenerationJudgement
<1>5. CASE ReportGenerationArtifactFailure(n)
  <2>1. cand' \in [Workflows -> [Keys -> Candidate]]
    <3> DEFINE k == wf[w].candidate
               c == [cand[w][k] EXCEPT !.failed = TRUE]
    <3>1. c \in Candidate
      BY <1>2 DEF Candidate
    <3>2. cand' = [cand EXCEPT ![w][k] = c]
      BY <1>2, <1>5, Bystanders DEF ReportGenerationArtifactFailure, w
    <3> QED
      BY <1>2, <3>1, <3>2, CandidateTyped
  <2> QED
    BY <1>1, <1>2, <1>5, <2>1, Bystanders, StatesTyped, GoroutineTyped, MoveKeepsType
       DEF ReportGenerationArtifactFailure, w
<1>6. CASE RetryGenerationAgentRun(n)
  <2>1. CASE /\ runs[n].attempt < MaxAgentAttempts
             /\ runs' = [runs EXCEPT ![n].attempt = @ + 1]
             /\ UNCHANGED <<wf, judge>>
    <3>1. [runs[n] EXCEPT !.attempt = @ + 1] \in Run
      <4>1. runs[n].attempt + 1 \in 0 .. MaxAgentAttempts
        BY <1>2, <2>1, GenerationAssumption DEF Run
      <4> QED
        BY <1>2, <4>1 DEF Run
    <3>2. runs' \in [Claims -> Run]
      BY <2>1, <3>1, Bystanders
    <3> QED
      BY <1>6, <2>1, <3>2 DEF RetryGenerationAgentRun, TypeInv, GenerationTypeOK, Queue!ContractTypeOK
  <2>2. CASE /\ runs' = [runs EXCEPT ![n].status = "failed"]
             /\ Put(w, Moved(Released(wf[w]), "Failed"))
             /\ Ends(n)
    <3>1. [runs[n] EXCEPT !.status = "failed"] \in Run
      BY <1>2 DEF Run
    <3>2. runs' \in [Claims -> Run]
      BY <2>2, <3>1, Bystanders
    <3> QED
      BY <1>1, <1>2, <1>6, <2>2, <3>2, Bystanders, StatesTyped, GoroutineTyped, MoveKeepsType
         DEF RetryGenerationAgentRun
  <2> QED
    BY <1>6, <2>1, <2>2 DEF RetryGenerationAgentRun, w
<1> QED
  BY <1>3, <1>4, <1>5, <1>6 DEF JudgeStep

LEMMA LoseJudgeTyped ==
  ASSUME TypeInv, NEW n \in Claims, LoseJudge(n)
  PROVE  TypeInv'
<1>1. faults' \in 0 .. load'.faults
  BY FaultTyped, Bystanders DEF LoseJudge, Up
<1>2. /\ judge' \in [Claims -> Judge]
      /\ \A m \in Claims : judge'[m].pc # "none" => judge'[m].w \in Workflows /\ judge'[m].candidate \in Keys
  BY GoroutineTyped DEF LoseJudge
<1> QED
  BY <1>1, <1>2 DEF LoseJudge, Up, durable, TypeInv, GenerationTypeOK, Queue!ContractTypeOK

LEMMA LeaseExpiresTyped ==
  ASSUME TypeInv, NEW w \in Workflows, LeaseExpires(w)
  PROVE  TypeInv'
<1>1. faults' \in 0 .. load'.faults
  BY FaultTyped, Bystanders DEF LeaseExpires
<1>2. wf[w] \in Workflow
  BY Bystanders
<1>3. PICK r : r = [wf[w] EXCEPT !.live = FALSE]
  OBVIOUS
<1>4. /\ r \in Workflow /\ ~r.live /\ r.owner = wf[w].owner /\ r.run = wf[w].run
      /\ r.candidate = wf[w].candidate /\ r.state = wf[w].state
  BY <1>2, <1>3 DEF Workflow
<1>5. Put(w, r)
  BY <1>3 DEF LeaseExpires
<1> QED
  BY <1>1, <1>4, <1>5, Bystanders, PutKeepsType DEF LeaseExpires

LEMMA SettlesTyped ==
  ASSUME TypeInv, NEW a \in RunnableKeys, ActionSettles(a)
  PROVE  TypeInv'
<1>1. PICK s \in Queue!Statuses : Queue!Settle(a, s)
  BY DEF ActionSettles, Queue!Statuses
<1>2. Queue!ContractTypeOK'
  BY <1>1 DEF Queue!Settle, Queue!ContractTypeOK, TypeInv, GenerationTypeOK
<1>3. verdict' \in [Workflows -> [Keys -> {"none", "passed", "rejected"}]]
  BY DEF ActionSettles, TypeInv
<1> QED
  BY <1>2, <1>3 DEF ActionSettles, TypeInv, GenerationTypeOK

LEMMA CoordinatorTyped ==
  ASSUME TypeInv, Pass \/ AbortPass
  PROVE  TypeInv'
<1> USE DEF Up
<1>0. /\ coord \in CoordinatorPass
      /\ coord.pc \notin {"idle", "next"} =>
           /\ coord.w \in Workflows /\ coord.candidate \in Keys
           /\ wf[coord.w] \in Workflow
  BY DEF TypeInv, GenerationTypeOK
<1>1. CASE StartPass
  <2> DEFINE todo == {<<w, wf[w].state>> : w \in Listed}
  <2>1. todo \subseteq Workflows \X Waiting /\ \A s \in todo : wf[s[1]].candidate \in Keys
    BY StatesTyped, Bystanders DEF Listed, Waiting
  <2> HIDE DEF todo
  <2>2. coord' = [NoPass EXCEPT !.pc = "next", !.todo = todo]
    BY <1>1 DEF StartPass, todo
  <2>3. coord' \in CoordinatorPass /\ coord'.pc = "next" /\ coord'.todo = todo
    BY <2>1, <2>2 DEF NoPass, CoordinatorPass
  <2> QED
    BY <1>1, <2>1, <2>3 DEF StartPass, durable, TypeInv, GenerationTypeOK, Queue!ContractTypeOK
<1>2. CASE \E s \in Workflows \X Waiting : ScheduleAction(s)
  <2> PICK s \in Workflows \X Waiting : ScheduleAction(s)
    BY <1>2
  <2>1. s[1] \in Workflows /\ s[2] \in Waiting /\ wf[s[1]].candidate \in Keys
    BY DEF TypeInv, ScheduleAction
  <2>2. /\ coord' \in CoordinatorPass /\ coord'.pc = "resolving" /\ coord'.w \in Workflows
        /\ coord'.state \in Waiting /\ coord'.candidate \in Keys /\ coord'.todo \subseteq coord.todo
    BY <1>0, <2>1 DEF ScheduleAction, CoordinatorPass
  <2>3. Queue!ContractTypeOK'
    BY DEF ScheduleAction, TypeInv, GenerationTypeOK, Queue!Schedule, Queue!ContractTypeOK, Queue!Statuses
  <2> QED
    BY <2>2, <2>3 DEF ScheduleAction, TypeInv, GenerationTypeOK
<1>3. CASE ResolveAction
  <2>1. /\ coord' \in CoordinatorPass /\ coord'.todo = coord.todo
        /\ coord'.pc \notin {"idle", "next"} =>
             coord'.w = coord.w /\ coord'.state = coord.state /\ coord'.candidate = coord.candidate
    BY <1>0, <1>3, PassTyped DEF ResolveAction, CoordinatorPass
  <2> QED
    BY <1>3, <2>1 DEF ResolveAction, durable, TypeInv, GenerationTypeOK, Queue!ContractTypeOK
<1>4. CASE MarkMaterialized
  <2> DEFINE w == coord.w  k == wf[w].candidate
  <2>1. w \in Workflows
    BY <1>0, <1>4 DEF MarkMaterialized
  <2>2. CASE coord' = NoPass /\ UNCHANGED <<wf, cand>>
    BY <1>4, <2>2, PassTyped DEF MarkMaterialized, TypeInv, GenerationTypeOK, Queue!ContractTypeOK
  <2>3. CASE /\ wf[w].state = "MaterializingArtifact" /\ k = coord.candidate
             /\ cand' = [cand EXCEPT ![w][k].runnable = TRUE]
             /\ Put(w, Moved(wf[w], "Verifying"))
             /\ coord' = Rest
    <3>1. k \in Keys /\ cand[w][k] \in Candidate
      BY <2>1, <2>3, Bystanders, StatesTyped
    <3>2. [cand[w][k] EXCEPT !.runnable = TRUE] \in Candidate
      BY <3>1 DEF Candidate
    <3>3. cand' = [cand EXCEPT ![w][k] = [cand[w][k] EXCEPT !.runnable = TRUE]]
      BY <2>1, <2>3, <3>1, Bystanders
    <3>4. cand' \in [Workflows -> [Keys -> Candidate]]
      BY <2>1, <3>1, <3>2, <3>3, CandidateTyped
    <3> QED
      BY <1>4, <2>1, <2>3, <3>1, <3>4, PassTyped, Bystanders, StatesTyped, MoveKeepsType DEF MarkMaterialized
  <2> QED
    BY <1>4, <2>2, <2>3 DEF MarkMaterialized
<1>5. CASE MarkVerified
  <2> DEFINE w == coord.w  k == wf[w].candidate  report == verdict[w][coord.candidate]
  <2>1. w \in Workflows /\ report \in {"none", "passed", "rejected"}
    BY <1>0, <1>5 DEF MarkVerified, TypeInv
  <2>2. CASE coord' = NoPass /\ UNCHANGED <<wf, cand>>
    BY <1>5, <2>2, PassTyped DEF MarkVerified, TypeInv, GenerationTypeOK, Queue!ContractTypeOK
  <2>3. CASE /\ wf[w].state = "Verifying" /\ k = coord.candidate
             /\ cand' = [cand EXCEPT ![w][k] = Reported(@, report)]
             /\ Put(w, Moved(wf[w], VerifiedState(report)))
             /\ coord' = Rest
    <3>1. k \in Keys /\ cand[w][k] \in Candidate
      BY <2>1, <2>3, Bystanders, StatesTyped
    <3>2. Reported(cand[w][k], report) \in Candidate
      BY <2>1, <3>1 DEF Reported, Candidate
    <3>3. cand' = [cand EXCEPT ![w][k] = Reported(cand[w][k], report)]
      BY <2>3
    <3>4. cand' \in [Workflows -> [Keys -> Candidate]]
      BY <2>1, <3>1, <3>2, <3>3, CandidateTyped
    <3>5. VerifiedState(report) \in States
      BY StatesTyped DEF VerifiedState
    <3> QED
      BY <1>5, <2>1, <2>3, <3>1, <3>4, <3>5, PassTyped, Bystanders, StatesTyped, MoveKeepsType DEF MarkVerified
  <2> QED
    BY <1>5, <2>2, <2>3 DEF MarkVerified
<1>6. CASE FailRunnableGenerationWorkflow
  <2>1. coord.w \in Workflows
    BY <1>0, <1>6 DEF FailRunnableGenerationWorkflow
  <2>2. CASE Failable(wf[coord.w]) /\ Put(coord.w, Moved(wf[coord.w], "Failed")) /\ coord' = Rest
    <3>1. wf[coord.w].state # "Judging"
      BY <2>2 DEF Failable, Waiting
    <3> QED
      BY <1>6, <2>1, <2>2, <3>1, PassTyped, Bystanders, StatesTyped, MoveKeepsType
         DEF FailRunnableGenerationWorkflow
  <2>3. CASE coord' = NoPass /\ UNCHANGED wf
    BY <1>6, <2>3, PassTyped
       DEF FailRunnableGenerationWorkflow, TypeInv, GenerationTypeOK, Queue!ContractTypeOK
  <2> QED
    BY <1>6, <2>2, <2>3 DEF FailRunnableGenerationWorkflow
<1>7. CASE AbortPass
  <2>1. faults' \in 0 .. load'.faults
    BY <1>7, FaultTyped DEF AbortPass
  <2> QED
    BY <1>7, <2>1, PassTyped DEF AbortPass, durable, TypeInv, GenerationTypeOK, Queue!ContractTypeOK
<1> QED
  BY <1>1, <1>2, <1>3, <1>4, <1>5, <1>6, <1>7 DEF Pass

LEMMA FinalizerTyped ==
  ASSUME TypeInv, NEW w \in Workflows, Finalizer(w)
  PROVE  TypeInv'
<1> USE DEF Up
<1> DEFINE k == wf[w].candidate
<1>1. /\ wf[w].state = "Publishing" /\ wf[w] \in Workflow /\ k \in Keys /\ cand[w][k] \in Candidate
      /\ wf[w].owner = 0 /\ ~wf[w].live /\ wf[w].run = 0
  BY Bystanders, StatesTyped
     DEF Finalizer, FinalizeGenerationScenarioPublication, RecordGenerationPublicationFinalizerFailure
<1>2. CASE FinalizeGenerationScenarioPublication(w)
  <2>1. [cand[w][k] EXCEPT !.published = TRUE] \in Candidate
    BY <1>1 DEF Candidate
  <2>2. cand' = [cand EXCEPT ![w][k] = [cand[w][k] EXCEPT !.published = TRUE]]
    BY <1>1, <1>2, Bystanders DEF FinalizeGenerationScenarioPublication
  <2>3. cand' \in [Workflows -> [Keys -> Candidate]]
    BY <1>1, <2>1, <2>2, CandidateTyped
  <2> QED
    BY <1>1, <1>2, <2>3, Bystanders, StatesTyped, MoveKeepsType DEF FinalizeGenerationScenarioPublication
<1>3. CASE RecordGenerationPublicationFinalizerFailure(w)
  <2>1. PICK r : r = [wf[w] EXCEPT !.state = "Failed"]
    OBVIOUS
  <2>2. /\ r \in Workflow /\ ~r.live /\ r.owner = 0 /\ r.run = 0
        /\ r.candidate = k /\ r.state = "Failed"
    BY <1>1, <2>1, StatesTyped DEF Workflow
  <2>3. Put(w, r)
    BY <1>3, <2>1 DEF RecordGenerationPublicationFinalizerFailure
  <2> QED
    BY <1>1, <1>3, <2>2, <2>3, Bystanders, StatesTyped, PutKeepsType
       DEF RecordGenerationPublicationFinalizerFailure
<1> QED
  BY <1>2, <1>3 DEF Finalizer

LEMMA RestartTyped ==
  ASSUME TypeInv, Crash \/ Recovery
  PROVE  TypeInv'
<1>1. CASE Crash
  <2>1. faults' \in 0 .. load'.faults
    BY <1>1, FaultTyped DEF Crash
  <2>2. judge' \in [Claims -> Judge] /\ \A n \in Claims : judge'[n].pc = "none"
    BY <1>1, Bystanders DEF Crash, Judge
  <2> QED
    BY <1>1, <2>1, <2>2, PassTyped DEF Crash, durable, TypeInv, GenerationTypeOK, Queue!ContractTypeOK
<1>2. CASE InterruptRuns
  <2>1. \A n \in Claims : runs[n] \in Run /\ [runs[n] EXCEPT !.status = "interrupted"] \in Run
    BY Bystanders DEF Run
  <2>2. runs' \in [Claims -> Run]
    BY <1>2, <2>1 DEF InterruptRuns
  <2> QED
    BY <1>2, <2>2 DEF InterruptRuns, TypeInv, GenerationTypeOK, Queue!ContractTypeOK
<1>3. CASE ClearLeases
  <2>1. \A w \in Workflows :
          /\ wf'[w] \in Workflow /\ wf'[w].state = wf[w].state /\ wf'[w].candidate = wf[w].candidate
          /\ wf'[w].owner = 0 => ~wf'[w].live
          /\ wf'[w].state # "Judging" => wf'[w].owner = 0 /\ wf'[w].run = 0
    BY <1>3, Bystanders, RowTyped DEF ClearLeases
  <2>2. wf' \in [Workflows -> Workflow]
    BY <1>3, <2>1 DEF ClearLeases
  <2>3. \A s \in coord.todo : s[1] \in Workflows
    BY DEF TypeInv, CoordinatorPass
  <2> QED
    BY <1>3, <2>1, <2>2, <2>3 DEF ClearLeases, TypeInv, GenerationTypeOK, Queue!ContractTypeOK
<1> QED
  BY <1>1, <1>2, <1>3 DEF Recovery

LEMMA StepTyped == TypeInv /\ [Next]_vars => TypeInv'
<1> SUFFICES ASSUME TypeInv, [Next]_vars PROVE TypeInv'
  OBVIOUS
<1>1. CASE UNCHANGED vars
  BY <1>1 DEF vars, TypeInv, GenerationTypeOK, Queue!ContractTypeOK
<1> QED
  BY <1>1, AuthorTyped, LeaseExpiresTyped, FinalizerTyped, ClaimTyped, JudgeTyped, LoseJudgeTyped,
     SettlesTyped, CoordinatorTyped, RestartTyped DEF Next

(* The rows, runs and goroutines keep their types, and the Judge lease and *)
(* the active run are on a workflow's row only while it is Judging.        *)
THEOREM GenerationTypeCorrect == Spec => []GenerationTypeOK
<1>1. TypeInv => GenerationTypeOK
  BY DEF TypeInv
<1> QED
  BY <1>1, InitTyped, StepTyped, PTL DEF Spec

-----------------------------------------------------------------------------
(* Which steps write what: the row of a workflow.                          *)
RowEffect(w) ==
  LET old == wf[w]
      new == wf'[w]
  IN /\ old.state \in Terminal => new = old
     /\ new.version >= old.version
     /\ new.candidate # old.candidate \/ (new.state = "Judging" /\ old.state # "Judging") =>
          /\ new.version > old.version
          /\ \E k \in Keys : SubmitGenerationCandidate(w, k) /\ new.candidate = k /\ new.state = "Judging"
     /\ new.state # old.state =>
          /\ new.state = "MaterializingArtifact" =>
               \E n \in Claims : judge[n].w = w /\ FinalizeGenerationJudgement(n, TRUE)
          /\ new.state = "Verifying" => old.state = "MaterializingArtifact"
          /\ new.state = "NeedsAuthorReview" =>
               /\ old.state = "Verifying" /\ verdict[w][old.candidate] = "passed"
               /\ cand'[w][old.candidate].report = "passed"
          /\ new.state = "Publishing" =>
               old.state = "NeedsAuthorReview" /\ ConfirmGenerationContent(w, old.candidate)
          /\ new.state = "Published" => old.state = "Publishing"

LEMMA RowUnchanged ==
  ASSUME TypeInv, NEW w \in Workflows, wf'[w] = wf[w]
  PROVE  RowEffect(w)
<1>1. wf[w].version \in Nat
  BY Bystanders DEF Workflow
<1> QED
  BY <1>1 DEF RowEffect

(* The effect of moving a workflow on that is not terminal.                *)
LEMMA RowMoved ==
  ASSUME TypeInv, NEW w \in Workflows, NEW s \in States, wf[w].state \notin Terminal,
         Put(w, Moved(wf[w], s)) \/ Put(w, Moved(Released(wf[w]), s))
  PROVE  /\ wf'[w].state = s /\ wf'[w].candidate = wf[w].candidate
         /\ wf'[w].version > wf[w].version /\ wf'[w].version >= wf[w].version
         /\ \A v \in Workflows \ {w} : wf'[v] = wf[v]
         /\ s \in {"Generating", "Failed", "Cancelled"} => RowEffect(w)
<1>1. PICK r : Put(w, r) /\ (r = Moved(wf[w], s) \/ r = Moved(Released(wf[w]), s))
  OBVIOUS
<1>2. /\ r \in Workflow /\ r.state = s /\ r.version = wf[w].version + 1 /\ r.candidate = wf[w].candidate
  BY <1>1, MovedTyped
<1>3. wf'[w] = r /\ \A v \in Workflows \ {w} : wf'[v] = wf[v]
  BY <1>1, <1>2, PutTyped DEF TypeInv, GenerationTypeOK
<1>4. wf[w].version \in Nat
  BY Bystanders DEF Workflow
<1>5. /\ wf'[w].state = s /\ wf'[w].candidate = wf[w].candidate
      /\ wf'[w].version = wf[w].version + 1
  BY <1>2, <1>3
<1>6. wf'[w].version > wf[w].version /\ wf'[w].version >= wf[w].version
  BY <1>4, <1>5
<1>7. ASSUME s \in {"Generating", "Failed", "Cancelled"} PROVE RowEffect(w)
  BY <1>5, <1>6, <1>7 DEF RowEffect
<1> QED
  BY <1>3, <1>5, <1>6, <1>7

LEMMA AuthorRow ==
  ASSUME TypeInv, NEW v \in Workflows, Author(v), NEW w \in Workflows
  PROVE  RowEffect(w)
<1>0. wf[v] \in Workflow /\ wf \in [Workflows -> Workflow] /\ wf[v].version \in Nat
  BY DEF TypeInv, GenerationTypeOK, Workflow
<1>1. CASE CreateGenerationWorkflow(v)
  BY <1>1, RowMoved, RowUnchanged, StatesTyped DEF CreateGenerationWorkflow, Terminal
<1>2. CASE \E k \in Keys : SubmitGenerationCandidate(v, k)
  <2> PICK k \in Keys : SubmitGenerationCandidate(v, k)
    BY <1>2
  <2>1. PICK m : m = Moved(wf[v], "Judging")
    OBVIOUS
  <2>2. m \in Workflow /\ m.version = wf[v].version + 1 /\ m.state = "Judging"
    BY <2>1, StatesTyped, MovedTyped
  <2>3. PICK r : r = [m EXCEPT !.candidate = k, !.run = 0]
    OBVIOUS
  <2>4. r \in Workflow /\ r.candidate = k /\ r.state = "Judging" /\ r.version = wf[v].version + 1
    BY <2>2, <2>3 DEF Workflow
  <2>5. wf'[v] = r /\ \A u \in Workflows \ {v} : wf'[u] = wf[u]
    BY <1>0, <2>1, <2>3, <2>4, PutTyped DEF SubmitGenerationCandidate
  <2>6. /\ wf[v].state \notin Terminal /\ wf'[v].state = "Judging" /\ wf'[v].candidate = k
        /\ wf'[v].version > wf[v].version /\ wf'[v].version >= wf[v].version
    BY <1>0, <2>4, <2>5 DEF SubmitGenerationCandidate, Terminal
  <2>7. RowEffect(v)
    BY <2>6 DEF RowEffect
  <2> QED
    BY <2>5, <2>7, RowUnchanged
<1>3. CASE \E k \in Keys : ConfirmGenerationContent(v, k)
  <2> PICK k \in Keys : ConfirmGenerationContent(v, k)
    BY <1>3
  <2>1. /\ wf'[v].state = "Publishing" /\ wf'[v].candidate = wf[v].candidate
        /\ wf'[v].version > wf[v].version /\ wf'[v].version >= wf[v].version
        /\ \A u \in Workflows \ {v} : wf'[u] = wf[u]
        /\ wf[v].state = "NeedsAuthorReview" /\ wf[v].candidate = k
    BY RowMoved, StatesTyped DEF ConfirmGenerationContent, Terminal
  <2>2. wf[v].state \notin Terminal
    BY <2>1 DEF Terminal
  <2>3. RowEffect(v)
    BY <2>1, <2>2 DEF RowEffect
  <2> QED
    BY <2>1, <2>3, RowUnchanged
<1>4. CASE \E k \in Keys : RequestGenerationContentChanges(v, k)
  BY <1>4, RowMoved, RowUnchanged, StatesTyped DEF RequestGenerationContentChanges, Terminal
<1>5. CASE CancelGenerationWorkflow(v)
  BY <1>5, RowMoved, RowUnchanged, StatesTyped DEF CancelGenerationWorkflow, Terminal
<1> QED
  BY <1>1, <1>2, <1>3, <1>4, <1>5 DEF Author

(* The Judge writes a row only under its fence.                            *)
LEMMA JudgeRow ==
  ASSUME TypeInv, NEW n \in Claims, JudgeStep(n), NEW w \in Workflows
  PROVE  RowEffect(w)
<1> DEFINE v == judge[n].w
<1>0. /\ v \in Workflows /\ wf[v] \in Workflow /\ wf[v].state = "Judging" /\ wf[v].version \in Nat
  <2>1. judge[n].pc # "none" /\ Fenced(n)
    BY DEF JudgeStep, StartGenerationAgentRun, FinalizeGenerationJudgement, Active,
           ReportGenerationArtifactFailure, RetryGenerationAgentRun
  <2> QED
    BY <2>1, Bystanders DEF Fenced, Workflow
<1> HIDE DEF v
<1>1. CASE StartGenerationAgentRun(n)
  <2>1. PICK r : r = [wf[v] EXCEPT !.run = n]
    OBVIOUS
  <2>2. /\ r \in Workflow /\ r.candidate = wf[v].candidate /\ r.state = "Judging"
        /\ r.version = wf[v].version
    BY <1>0, <2>1 DEF Workflow
  <2>3. Put(v, r)
    BY <1>1, <2>1 DEF StartGenerationAgentRun, v
  <2>4. wf'[v] = r /\ \A u \in Workflows \ {v} : wf'[u] = wf[u]
    BY <1>0, <2>2, <2>3, PutTyped DEF TypeInv, GenerationTypeOK
  <2>5. /\ wf[v].state \notin Terminal /\ wf'[v].state = wf[v].state
        /\ wf'[v].candidate = wf[v].candidate /\ wf'[v].version >= wf[v].version
    BY <1>0, <2>2, <2>4 DEF Terminal
  <2>6. RowEffect(v)
    BY <2>5 DEF RowEffect
  <2> QED
    BY <2>4, <2>6, RowUnchanged
<1>2. CASE \E approved \in BOOLEAN : FinalizeGenerationJudgement(n, approved)
  <2> PICK approved \in BOOLEAN : FinalizeGenerationJudgement(n, approved)
    BY <1>2
  <2>1. CASE ~approved
    BY <1>0, <2>1, RowMoved, RowUnchanged, StatesTyped DEF FinalizeGenerationJudgement, Terminal, v
  <2>2. CASE approved
    <3>1. /\ FinalizeGenerationJudgement(n, TRUE)
          /\ Put(v, Moved(Released(wf[v]), "MaterializingArtifact"))
      BY <2>2 DEF FinalizeGenerationJudgement, v
    <3>2. /\ wf'[v].state = "MaterializingArtifact" /\ wf'[v].candidate = wf[v].candidate
          /\ wf'[v].version >= wf[v].version /\ \A u \in Workflows \ {v} : wf'[u] = wf[u]
      BY <1>0, <3>1, RowMoved, StatesTyped DEF Terminal
    <3>3. RowEffect(v)
      BY <1>0, <3>1, <3>2 DEF RowEffect, Terminal, v
    <3> QED
      BY <3>2, <3>3, RowUnchanged
  <2> QED
    BY <2>1, <2>2
<1>3. CASE ReportGenerationArtifactFailure(n)
  BY <1>0, <1>3, RowMoved, RowUnchanged, StatesTyped DEF ReportGenerationArtifactFailure, Terminal, v
<1>4. CASE RetryGenerationAgentRun(n)
  BY <1>0, <1>4, RowMoved, RowUnchanged, StatesTyped DEF RetryGenerationAgentRun, Terminal, v
<1> QED
  BY <1>1, <1>2, <1>3, <1>4 DEF JudgeStep

LEMMA CoordinatorRow ==
  ASSUME TypeInv, Pass \/ AbortPass, NEW w \in Workflows
  PROVE  RowEffect(w)
<1> DEFINE v == coord.w
<1>0. coord.pc \notin {"idle", "next"} => v \in Workflows /\ wf[v] \in Workflow /\ wf[v].version \in Nat
  BY Bystanders DEF TypeInv, Workflow
<1> HIDE DEF v
<1>1. CASE UNCHANGED wf
  BY <1>1, RowUnchanged
<1>2. CASE MarkMaterialized /\ ~UNCHANGED wf
  <2>1. v \in Workflows /\ wf[v].state = "MaterializingArtifact" /\ Put(v, Moved(wf[v], "Verifying"))
    BY <1>0, <1>2 DEF MarkMaterialized, v
  <2>2. /\ wf'[v].state = "Verifying" /\ wf'[v].candidate = wf[v].candidate
        /\ wf'[v].version >= wf[v].version /\ \A u \in Workflows \ {v} : wf'[u] = wf[u]
    BY <2>1, RowMoved, StatesTyped DEF Terminal
  <2>3. RowEffect(v)
    BY <2>1, <2>2 DEF RowEffect, Terminal
  <2> QED
    BY <2>2, <2>3, RowUnchanged
<1>3. CASE MarkVerified /\ ~UNCHANGED wf
  <2> DEFINE report == verdict[v][coord.candidate]
             k == wf[v].candidate
  <2>1. /\ v \in Workflows /\ wf[v].state = "Verifying" /\ Put(v, Moved(wf[v], VerifiedState(report)))
        /\ k = coord.candidate /\ k \in Keys
        /\ cand' = [cand EXCEPT ![v][k] = Reported(@, report)]
    BY <1>0, <1>3, StatesTyped, Bystanders DEF MarkVerified, v
  <2>2. VerifiedState(report) \in {"NeedsAuthorReview", "Generating"}
        /\ (VerifiedState(report) = "NeedsAuthorReview" => report = "passed")
    BY DEF VerifiedState
  <2>3. /\ wf'[v].state = VerifiedState(report) /\ wf'[v].candidate = wf[v].candidate
        /\ wf'[v].version >= wf[v].version /\ \A u \in Workflows \ {v} : wf'[u] = wf[u]
    BY <2>1, <2>2, RowMoved, StatesTyped DEF Terminal
  <2>4. cand'[v][k].report = report
    <3>1. cand[v][k] \in Candidate
      BY <2>1, Bystanders
    <3>2. cand'[v][k] = Reported(cand[v][k], report)
      BY <2>1, Bystanders
    <3> QED
      BY <3>1, <3>2 DEF Reported, Candidate
  <2>5. RowEffect(v)
    BY <2>1, <2>2, <2>3, <2>4 DEF RowEffect, Terminal
  <2> QED
    BY <2>3, <2>5, RowUnchanged
<1>4. CASE FailRunnableGenerationWorkflow /\ ~UNCHANGED wf
  <2>1. /\ v \in Workflows /\ wf[v].state \notin Terminal /\ Put(v, Moved(wf[v], "Failed"))
    BY <1>0, <1>4 DEF FailRunnableGenerationWorkflow, Failable, Waiting, Terminal, v
  <2> QED
    BY <2>1, RowMoved, RowUnchanged, StatesTyped
<1> QED
  BY <1>1, <1>2, <1>3, <1>4 DEF Pass, AbortPass, StartPass, ScheduleAction, ResolveAction, durable

LEMMA FinalizerRow ==
  ASSUME TypeInv, NEW v \in Workflows, Finalizer(v), NEW w \in Workflows
  PROVE  RowEffect(w)
<1>1. CASE FinalizeGenerationScenarioPublication(v)
  <2>1. wf[v].state = "Publishing" /\ Put(v, Moved(wf[v], "Published"))
    BY <1>1 DEF FinalizeGenerationScenarioPublication
  <2>2. /\ wf'[v].state = "Published" /\ wf'[v].candidate = wf[v].candidate
        /\ wf'[v].version >= wf[v].version /\ \A u \in Workflows \ {v} : wf'[u] = wf[u]
    BY <2>1, RowMoved, StatesTyped DEF Terminal
  <2>3. RowEffect(v)
    BY <2>1, <2>2 DEF RowEffect, Terminal
  <2> QED
    BY <2>2, <2>3, RowUnchanged
<1>2. CASE RecordGenerationPublicationFinalizerFailure(v)
  <2>1. wf[v].state = "Publishing" /\ Put(v, [wf[v] EXCEPT !.state = "Failed"]) /\ wf[v] \in Workflow
        /\ wf[v].version \in Nat
    BY <1>2, Bystanders DEF RecordGenerationPublicationFinalizerFailure, Workflow
  <2>2. PICK r : r = [wf[v] EXCEPT !.state = "Failed"]
    OBVIOUS
  <2>3. r \in Workflow /\ r.state = "Failed" /\ r.version = wf[v].version /\ r.candidate = wf[v].candidate
    BY <2>1, <2>2, StatesTyped DEF Workflow
  <2>4. wf'[v] = r /\ \A u \in Workflows \ {v} : wf'[u] = wf[u]
    BY <2>1, <2>2, <2>3, PutTyped DEF TypeInv, GenerationTypeOK
  <2>5. /\ wf[v].state \notin Terminal /\ wf'[v].state = "Failed"
        /\ wf'[v].candidate = wf[v].candidate /\ wf'[v].version >= wf[v].version
    BY <2>1, <2>3, <2>4 DEF Terminal
  <2>6. RowEffect(v)
    BY <2>5 DEF RowEffect
  <2> QED
    BY <2>4, <2>6, RowUnchanged
<1> QED
  BY <1>1, <1>2 DEF Finalizer

(* A lease that is claimed, runs out or is cleared at the restart.         *)
LEMMA LeaseRow ==
  ASSUME TypeInv, NEW v \in Workflows,
         (\E n \in Claims : ClaimGenerationAgentWorkflow(v, n)) \/ LeaseExpires(v) \/ ClearLeases,
         NEW w \in Workflows
  PROVE  RowEffect(w)
<1>1. \/ wf'[w] = wf[w]
      \/ /\ wf[w].state = "Judging" /\ wf'[w].state = "Judging"
         /\ wf'[w].version = wf[w].version /\ wf'[w].candidate = wf[w].candidate
  <2>1. CASE \E n \in Claims : ClaimGenerationAgentWorkflow(v, n)
    <3> PICK n \in Claims : ClaimGenerationAgentWorkflow(v, n)
      BY <2>1
    <3>1. wf[v].state = "Judging" /\ wf[v] \in Workflow
      BY Bystanders DEF ClaimGenerationAgentWorkflow, Claimable
    <3>2. PICK r : r = [wf[v] EXCEPT !.owner = n, !.live = TRUE] /\ Put(v, r)
      BY DEF ClaimGenerationAgentWorkflow
    <3>3. /\ r \in Workflow /\ r.state = "Judging" /\ r.version = wf[v].version
          /\ r.candidate = wf[v].candidate
      BY <3>1, <3>2 DEF Workflow
    <3>4. wf'[v] = r /\ \A u \in Workflows \ {v} : wf'[u] = wf[u]
      BY <3>1, <3>2, <3>3, PutTyped DEF TypeInv, GenerationTypeOK
    <3> QED
      BY <3>1, <3>3, <3>4
  <2>2. CASE LeaseExpires(v)
    <3>1. wf[v].state = "Judging" /\ wf[v] \in Workflow
      BY <2>2, Bystanders DEF LeaseExpires
    <3> QED
      BY <2>2, <3>1 DEF LeaseExpires, Put, Workflow, TypeInv, GenerationTypeOK
  <2>3. CASE ClearLeases
    <3>1. wf'[w] = IF wf[w].state = "Judging" THEN Released(wf[w]) ELSE wf[w]
      BY <2>3 DEF ClearLeases
    <3>2. wf[w] \in Workflow
      BY Bystanders
    <3> QED
      BY <3>1, <3>2, RowTyped
  <2> QED
    BY <2>1, <2>2, <2>3
<1>2. wf[w].version \in Nat
  BY Bystanders DEF Workflow
<1>3. CASE wf'[w] # wf[w]
  <2>1. /\ wf[w].state \notin Terminal /\ wf'[w].state = wf[w].state
        /\ wf'[w].candidate = wf[w].candidate /\ wf'[w].version >= wf[w].version
    BY <1>1, <1>2, <1>3 DEF Terminal
  <2> QED
    BY <2>1 DEF RowEffect
<1> QED
  BY <1>3, RowUnchanged

LEMMA RowSteps ==
  ASSUME TypeInv, [Next]_vars, NEW w \in Workflows
  PROVE  RowEffect(w)
<1>1. CASE UNCHANGED wf
  BY <1>1, RowUnchanged
<1>2. CASE Recovery
  BY <1>1, <1>2, LeaseRow DEF Recovery, InterruptRuns
<1>3. CASE \/ \E n \in Claims : LoseJudge(n)
           \/ \E a \in RunnableKeys : ActionSettles(a)
           \/ Crash
           \/ UNCHANGED vars
  BY <1>1, <1>3 DEF vars, LoseJudge, ActionSettles, Crash, durable
<1>4. CASE \E v \in Workflows : \/ Author(v) \/ LeaseExpires(v) \/ Finalizer(v)
                                \/ \E n \in Claims : ClaimGenerationAgentWorkflow(v, n)
  BY <1>4, AuthorRow, FinalizerRow, LeaseRow
<1>5. CASE \E n \in Claims : JudgeStep(n)
  BY <1>5, JudgeRow
<1>6. CASE Pass \/ AbortPass
  BY <1>6, CoordinatorRow
<1> QED
  BY <1>2, <1>3, <1>4, <1>5, <1>6 DEF Next

(* No goroutine and no pass that read a workflow before it ended writes to *)
(* it afterwards.                                                          *)
THEOREM EndedIsFinal == Spec => TerminalIsFinal
<1>1. TypeInv /\ [Next]_vars => [\A w \in Workflows : wf[w].state \in Terminal => wf'[w] = wf[w]]_vars
  BY RowSteps DEF RowEffect
<1> QED
  BY <1>1, InitTyped, StepTyped, PTL DEF Spec, TerminalIsFinal

-----------------------------------------------------------------------------
(* Claims are numbered in the order they are made; a claim starts its run  *)
(* itself, for the candidate it read; and the version a claim read fences  *)
(* it to that candidate, because every submission moves the version.       *)
ClaimInv ==
  /\ \E c \in 0 .. MaxClaims : {m \in Claims : judge[m].w # NoKey} = 1 .. c
  /\ \A n \in Claims :
       /\ judge[n].w = NoKey => judge[n].pc = "none" /\ runs[n].status = "none"
       /\ judge[n].pc = "claimed" => runs[n].status = "none"
       /\ judge[n].pc = "judging" => runs[n].candidate = <<judge[n].w, judge[n].candidate>>
       /\ judge[n].pc # "none" =>
            LET r == wf[judge[n].w]
            IN /\ judge[n].version <= r.version
               /\ r.state = "Judging" /\ r.version = judge[n].version => r.candidate = judge[n].candidate

(* A key is submitted once; its candidate is untouched before that, and is *)
(* not judged while its workflow is Judging.                               *)
SubmissionInv ==
  \A w \in Workflows :
    /\ wf[w].candidate \in Keys => <<"submit", w, wf[w].candidate>> \in receipts
    /\ \A k \in Keys : <<"submit", w, k>> \notin receipts => cand[w][k] = NoCandidate
    /\ wf[w].state = "Judging" => cand[w][wf[w].candidate].judged = "none"
    /\ wf[w].state \in Waiting => cand[w][wf[w].candidate].judged = "approved"
    /\ wf[w].state = "Publishing" => <<"confirm", w, wf[w].candidate>> \in receipts

(* The queue stores one verification report for a candidate, for good.     *)
VerdictInv ==
  \A w \in Workflows, k \in Keys : verdict[w][k] # "none" <=> status[<<w, k, "verify">>] = "completed"

GenerationInv ==
  ClaimInv /\ SubmissionInv /\ VerdictInv /\ JudgedOnce /\ ReviewedBeforePublished

LEMMA NumberTyped == Claims \subseteq Nat \ {0} /\ IsFiniteSet(Claims)
BY GenerationAssumption, FS_Interval DEF Claims

(* Which steps write what: the goroutine of a claim, and its run.          *)
GoroutineEffect(n) ==
  \/ \E w \in Workflows : ClaimGenerationAgentWorkflow(w, n)
  \/ /\ judge'[n].w = judge[n].w /\ judge'[n].version = judge[n].version
     /\ judge'[n].candidate = judge[n].candidate
     /\ judge'[n].pc # "none" => judge[n].pc # "none"
     /\ judge'[n].pc = "claimed" => judge[n].pc = "claimed" /\ ~StartGenerationAgentRun(n)
     /\ judge'[n].pc = "judging" => judge[n].pc = "judging" \/ StartGenerationAgentRun(n)

LEMMA GoroutineUnchanged ==
  ASSUME TypeInv, NEW n \in Claims, judge'[n] = judge[n]
  PROVE  GoroutineEffect(n)
<1>1. ~StartGenerationAgentRun(n)
  <2> SUFFICES ASSUME StartGenerationAgentRun(n) PROVE FALSE
    OBVIOUS
  <2>1. judge[n].pc = "claimed" /\ judge[n] \in Judge /\ judge' = [judge EXCEPT ![n].pc = "judging"]
    BY Bystanders DEF StartGenerationAgentRun
  <2>2. judge'[n].pc = "judging"
    BY <2>1, Bystanders DEF Judge
  <2> QED
    BY <2>1, <2>2
<1> QED
  BY <1>1 DEF GoroutineEffect

LEMMA GoroutineSteps ==
  ASSUME TypeInv, [Next]_vars, NEW n \in Claims
  PROVE  GoroutineEffect(n)
<1>1. CASE UNCHANGED judge
  BY <1>1, GoroutineUnchanged
<1>2. CASE \E w \in Workflows, m \in Claims : ClaimGenerationAgentWorkflow(w, m)
  <2> PICK w \in Workflows, m \in Claims : ClaimGenerationAgentWorkflow(w, m)
    BY <1>2
  <2>1. m # n => judge'[n] = judge[n]
    BY Bystanders DEF ClaimGenerationAgentWorkflow
  <2> QED
    BY <2>1, GoroutineUnchanged DEF GoroutineEffect
<1>3. ASSUME NEW m \in Claims, judge[m].pc # "none", Ends(m) PROVE GoroutineEffect(n)
  <2>1. m # n => judge'[n] = judge[n]
    BY <1>3, Bystanders DEF Ends
  <2>2. CASE m = n
    BY <1>3, <2>2, GoroutineTyped DEF GoroutineEffect
  <2> QED
    BY <2>1, <2>2, GoroutineUnchanged
<1>4. CASE \E m \in Claims : JudgeStep(m) \/ LoseJudge(m)
  <2> PICK m \in Claims : JudgeStep(m) \/ LoseJudge(m)
    BY <1>4
  <2>1. CASE StartGenerationAgentRun(m)
    <3>1. judge[m].pc = "claimed" /\ judge' = [judge EXCEPT ![m].pc = "judging"]
      BY <2>1 DEF StartGenerationAgentRun
    <3>2. m # n => judge'[n] = judge[n]
      BY <3>1, Bystanders
    <3>3. CASE m = n
      <4>1. /\ judge'[n].w = judge[n].w /\ judge'[n].version = judge[n].version
            /\ judge'[n].candidate = judge[n].candidate
        BY <3>1, <3>3, GoroutineTyped
      <4>2. judge'[n].pc = "judging"
        BY <3>1, <3>3, Bystanders DEF Judge
      <4> QED
        BY <2>1, <3>1, <3>3, <4>1, <4>2 DEF GoroutineEffect
    <3> QED
      BY <3>2, <3>3, GoroutineUnchanged
  <2>2. CASE judge[m].pc # "none" /\ Ends(m)
    BY <1>3, <2>2
  <2> QED
    BY <1>1, <2>1, <2>2
       DEF JudgeStep, FinalizeGenerationJudgement, ReportGenerationArtifactFailure,
           RetryGenerationAgentRun, LoseJudge
<1>5. CASE Crash
  BY <1>5, Bystanders DEF Crash, Judge, GoroutineEffect
<1>6. CASE \/ \E w \in Workflows : Author(w) \/ LeaseExpires(w) \/ Finalizer(w)
           \/ \E a \in RunnableKeys : ActionSettles(a)
           \/ Pass \/ AbortPass \/ Recovery \/ UNCHANGED vars
  BY <1>1, <1>6
     DEF vars, Author, CreateGenerationWorkflow, CancelGenerationWorkflow, SubmitGenerationCandidate,
         ConfirmGenerationContent, RequestGenerationContentChanges, LeaseExpires, Finalizer,
         FinalizeGenerationScenarioPublication, RecordGenerationPublicationFinalizerFailure,
         ActionSettles, Pass, StartPass, ScheduleAction, ResolveAction, MarkMaterialized, MarkVerified,
         FailRunnableGenerationWorkflow, AbortPass, Recovery, InterruptRuns, ClearLeases
<1> QED
  BY <1>2, <1>4, <1>5, <1>6 DEF Next

RunEffect(n) ==
  /\ runs[n].status = "succeeded" /\ judge[n].pc # "claimed" => runs'[n].status = "succeeded"
  /\ runs[n].status = "none" /\ runs'[n].status # "none" => StartGenerationAgentRun(n)
  /\ runs'[n].candidate # runs[n].candidate => StartGenerationAgentRun(n)
  /\ runs'[n].status = "succeeded" /\ runs[n].status # "succeeded" =>
       \E approved \in BOOLEAN : FinalizeGenerationJudgement(n, approved)

LEMMA RunSteps ==
  ASSUME TypeInv, [Next]_vars, NEW n \in Claims
  PROVE  RunEffect(n)
<1>0. runs[n] \in Run
  BY Bystanders
<1>1. CASE runs'[n] = runs[n]
  BY <1>1 DEF RunEffect
<1>2. CASE \E m \in Claims : JudgeStep(m)
  <2> PICK m \in Claims : JudgeStep(m)
    BY <1>2
  <2>1. CASE StartGenerationAgentRun(m) /\ m = n
    BY <2>1 DEF RunEffect, StartGenerationAgentRun
  <2>2. CASE StartGenerationAgentRun(m) /\ m # n
    <3>1. runs'[n] = runs[n] \/ (runs[n].status = "running" /\ runs'[n] = [runs[n] EXCEPT !.status = "interrupted"])
      BY <2>2 DEF StartGenerationAgentRun
    <3>2. runs'[n] = runs[n] \/ (runs[n].status = "running" /\ runs'[n].status = "interrupted"
                                 /\ runs'[n].candidate = runs[n].candidate)
      BY <1>0, <3>1 DEF Run
    <3> QED
      BY <3>2 DEF RunEffect
  <2>3. CASE \E approved \in BOOLEAN : FinalizeGenerationJudgement(m, approved)
    <3> PICK approved \in BOOLEAN : FinalizeGenerationJudgement(m, approved)
      BY <2>3
    <3>1. runs' = [runs EXCEPT ![m].status = "succeeded"] /\ runs[m].status = "running"
      BY DEF FinalizeGenerationJudgement
    <3>2. m # n => runs'[n] = runs[n]
      BY <3>1, Bystanders
    <3>3. m = n => runs'[n].status = "succeeded" /\ runs'[n].candidate = runs[n].candidate
      BY <1>0, <3>1, Bystanders DEF Run
    <3> QED
      BY <1>1, <3>1, <3>2, <3>3 DEF RunEffect
  <2>4. CASE ReportGenerationArtifactFailure(m)
    BY <1>1, <2>4 DEF ReportGenerationArtifactFailure
  <2>5. CASE RetryGenerationAgentRun(m)
    <3>1. /\ runs[m].status = "running"
          /\ \/ runs' = [runs EXCEPT ![m].attempt = @ + 1]
             \/ runs' = [runs EXCEPT ![m].status = "failed"]
      BY <2>5 DEF RetryGenerationAgentRun
    <3>2. m # n => runs'[n] = runs[n]
      BY <3>1, Bystanders
    <3>3. m = n => runs'[n].status \in {"running", "failed"} /\ runs'[n].candidate = runs[n].candidate
      BY <1>0, <3>1, Bystanders DEF Run
    <3> QED
      BY <1>1, <3>1, <3>2, <3>3 DEF RunEffect
  <2> QED
    BY <2>1, <2>2, <2>3, <2>4, <2>5 DEF JudgeStep
<1>3. CASE InterruptRuns
  <2>1. runs'[n] = runs[n] \/ (runs[n].status = "running" /\ runs'[n] = [runs[n] EXCEPT !.status = "interrupted"])
    BY <1>3 DEF InterruptRuns
  <2>2. runs'[n] = runs[n] \/ (runs[n].status = "running" /\ runs'[n].status = "interrupted"
                               /\ runs'[n].candidate = runs[n].candidate)
    BY <1>0, <2>1 DEF Run
  <2> QED
    BY <2>2 DEF RunEffect
<1>4. CASE \/ \E w \in Workflows : Author(w) \/ LeaseExpires(w) \/ Finalizer(w)
           \/ \E w \in Workflows, m \in Claims : ClaimGenerationAgentWorkflow(w, m)
           \/ \E m \in Claims : LoseJudge(m)
           \/ \E a \in RunnableKeys : ActionSettles(a)
           \/ Pass \/ AbortPass \/ Crash \/ ClearLeases \/ UNCHANGED vars
  BY <1>1, <1>4
     DEF vars, Author, CreateGenerationWorkflow, CancelGenerationWorkflow, SubmitGenerationCandidate,
         ConfirmGenerationContent, RequestGenerationContentChanges, LeaseExpires, Finalizer,
         FinalizeGenerationScenarioPublication, RecordGenerationPublicationFinalizerFailure,
         ActionSettles, Pass, StartPass, ScheduleAction, ResolveAction, MarkMaterialized, MarkVerified,
         FailRunnableGenerationWorkflow, AbortPass, Crash, ClearLeases, durable, LoseJudge,
         ClaimGenerationAgentWorkflow
<1> QED
  BY <1>2, <1>3, <1>4 DEF Next, Recovery

(* Which steps write what: the row of a candidate.  A submission writes an *)
(* unused one, which is as it was.                                         *)
CandidateEffect(w, k) ==
  LET old == cand[w][k]
      new == cand'[w][k]
  IN \/ new = old
     \/ SubmitGenerationCandidate(w, k) /\ new = NoCandidate
     \/ /\ k = wf[w].candidate /\ new.judged = old.judged
        /\ new.report = old.report \/ (wf[w].state = "Verifying" /\ new.report = verdict[w][k])
        /\ new.published = old.published \/ FinalizeGenerationScenarioPublication(w)
     \/ /\ k = wf[w].candidate /\ new.published = old.published
        /\ \E n \in Claims : /\ judge[n].w = w
                             /\ \/ FinalizeGenerationJudgement(n, TRUE) /\ new.judged = "approved"
                                \/ FinalizeGenerationJudgement(n, FALSE) /\ new.judged = "rejected"

LEMMA JudgeCandidate ==
  ASSUME TypeInv, NEW n \in Claims, JudgeStep(n), NEW w \in Workflows, NEW k \in Keys
  PROVE  CandidateEffect(w, k)
<1> DEFINE v == judge[n].w  j == wf[v].candidate
<1>0. v \in Workflows /\ wf[v].state = "Judging" /\ j \in Keys /\ cand[v][j] \in Candidate
  <2>1. judge[n].pc # "none" /\ Fenced(n)
    BY DEF JudgeStep, StartGenerationAgentRun, FinalizeGenerationJudgement, Active,
           ReportGenerationArtifactFailure, RetryGenerationAgentRun
  <2> QED
    BY <2>1, Bystanders, StatesTyped DEF Fenced
<1> HIDE DEF v
<1>1. CASE \E approved \in BOOLEAN : FinalizeGenerationJudgement(n, approved)
  <2> PICK approved \in BOOLEAN : FinalizeGenerationJudgement(n, approved)
    BY <1>1
  <2>1. PICK c : /\ c = [cand[v][j] EXCEPT !.judged = IF approved THEN "approved" ELSE "rejected",
                                           !.failed = ~approved]
                 /\ cand' = [cand EXCEPT ![v][j] = c]
    BY DEF FinalizeGenerationJudgement, v
  <2>2. /\ c.judged = IF approved THEN "approved" ELSE "rejected"
        /\ c.published = cand[v][j].published
    BY <1>0, <2>1 DEF Candidate
  <2>3. /\ v = w /\ j = k => cand'[w][k] = c
        /\ v # w \/ j # k => cand'[w][k] = cand[w][k]
    BY <1>0, <2>1, Bystanders
  <2>4. approved = TRUE \/ approved = FALSE
    OBVIOUS
  <2> QED
    BY <2>2, <2>3, <2>4 DEF CandidateEffect, v
<1>2. CASE ReportGenerationArtifactFailure(n)
  <2>1. PICK c : c = [cand[v][j] EXCEPT !.failed = TRUE] /\ cand' = [cand EXCEPT ![v][j] = c]
    BY <1>0, <1>2, Bystanders DEF ReportGenerationArtifactFailure, v
  <2>2. c.judged = cand[v][j].judged /\ c.published = cand[v][j].published /\ c.report = cand[v][j].report
    BY <1>0, <2>1 DEF Candidate
  <2>3. /\ v = w /\ j = k => cand'[w][k] = c
        /\ v # w \/ j # k => cand'[w][k] = cand[w][k]
    BY <1>0, <2>1, Bystanders
  <2> QED
    BY <2>2, <2>3 DEF CandidateEffect
<1>3. CASE StartGenerationAgentRun(n) \/ RetryGenerationAgentRun(n)
  BY <1>3 DEF StartGenerationAgentRun, RetryGenerationAgentRun, CandidateEffect
<1> QED
  BY <1>1, <1>2, <1>3 DEF JudgeStep

LEMMA CoordinatorCandidate ==
  ASSUME TypeInv, Pass \/ AbortPass, NEW w \in Workflows, NEW k \in Keys
  PROVE  CandidateEffect(w, k)
<1> DEFINE v == coord.w  j == wf[v].candidate
<1>1. CASE UNCHANGED cand
  BY <1>1 DEF CandidateEffect
<1>2. CASE MarkMaterialized /\ ~UNCHANGED cand
  <2>1. v \in Workflows /\ j \in Keys /\ cand[v][j] \in Candidate
    BY <1>2, Bystanders, StatesTyped DEF MarkMaterialized, TypeInv
  <2>2. PICK c : c = [cand[v][j] EXCEPT !.runnable = TRUE] /\ cand' = [cand EXCEPT ![v][j] = c]
    BY <1>2, <2>1, Bystanders DEF MarkMaterialized
  <2>3. c.judged = cand[v][j].judged /\ c.published = cand[v][j].published /\ c.report = cand[v][j].report
    BY <2>1, <2>2 DEF Candidate
  <2>4. /\ v = w /\ j = k => cand'[w][k] = c
        /\ v # w \/ j # k => cand'[w][k] = cand[w][k]
    BY <2>1, <2>2, Bystanders
  <2> QED
    BY <2>3, <2>4 DEF CandidateEffect
<1>3. CASE MarkVerified /\ ~UNCHANGED cand
  <2>1. /\ v \in Workflows /\ j \in Keys /\ cand[v][j] \in Candidate
        /\ wf[v].state = "Verifying" /\ j = coord.candidate
    BY <1>3, Bystanders, StatesTyped DEF MarkVerified, TypeInv
  <2>2. PICK c : c = Reported(cand[v][j], verdict[v][j]) /\ cand' = [cand EXCEPT ![v][j] = c]
    BY <1>3, <2>1, Bystanders DEF MarkVerified
  <2>3. c.judged = cand[v][j].judged /\ c.published = cand[v][j].published /\ c.report = verdict[v][j]
    BY <2>1, <2>2 DEF Candidate, Reported
  <2>4. /\ v = w /\ j = k => cand'[w][k] = c
        /\ v # w \/ j # k => cand'[w][k] = cand[w][k]
    BY <2>1, <2>2, Bystanders
  <2> QED
    BY <2>1, <2>3, <2>4 DEF CandidateEffect
<1> QED
  BY <1>1, <1>2, <1>3
     DEF Pass, AbortPass, StartPass, ScheduleAction, ResolveAction, FailRunnableGenerationWorkflow, durable

LEMMA AuthorCandidate ==
  ASSUME TypeInv, NEW v \in Workflows, Author(v) \/ Finalizer(v), NEW w \in Workflows, NEW k \in Keys
  PROVE  CandidateEffect(w, k)
<1>1. CASE \E j \in Keys : SubmitGenerationCandidate(v, j)
  <2> PICK j \in Keys : SubmitGenerationCandidate(v, j)
    BY <1>1
  <2>1. /\ v = w /\ j = k => cand'[w][k] = NoCandidate
        /\ v # w \/ j # k => cand'[w][k] = cand[w][k]
    BY Bystanders DEF SubmitGenerationCandidate
  <2> QED
    BY <2>1 DEF CandidateEffect
<1>2. CASE \E j \in Keys : ConfirmGenerationContent(v, j)
  <2> PICK j \in Keys : ConfirmGenerationContent(v, j)
    BY <1>2
  <2>1. cand[v][j] \in Candidate /\ j = wf[v].candidate
    BY Bystanders DEF ConfirmGenerationContent
  <2>2. PICK c : c = [cand[v][j] EXCEPT !.intent = TRUE] /\ cand' = [cand EXCEPT ![v][j] = c]
    BY <2>1, Bystanders DEF ConfirmGenerationContent
  <2>3. c.judged = cand[v][j].judged /\ c.published = cand[v][j].published /\ c.report = cand[v][j].report
    BY <2>1, <2>2 DEF Candidate
  <2>4. /\ v = w /\ j = k => cand'[w][k] = c
        /\ v # w \/ j # k => cand'[w][k] = cand[w][k]
    BY <2>1, <2>2, Bystanders
  <2> QED
    BY <2>1, <2>3, <2>4 DEF CandidateEffect
<1>3. CASE FinalizeGenerationScenarioPublication(v)
  <2> DEFINE j == wf[v].candidate
  <2>1. j \in Keys /\ cand[v][j] \in Candidate
    BY <1>3, Bystanders, StatesTyped DEF FinalizeGenerationScenarioPublication
  <2>2. PICK c : c = [cand[v][j] EXCEPT !.published = TRUE] /\ cand' = [cand EXCEPT ![v][j] = c]
    BY <1>3, <2>1, Bystanders DEF FinalizeGenerationScenarioPublication
  <2>3. c.judged = cand[v][j].judged /\ c.report = cand[v][j].report
    BY <2>1, <2>2 DEF Candidate
  <2>4. /\ v = w /\ j = k => cand'[w][k] = c
        /\ v # w \/ j # k => cand'[w][k] = cand[w][k]
    BY <2>1, <2>2, Bystanders
  <2> QED
    BY <1>3, <2>1, <2>3, <2>4 DEF CandidateEffect
<1>4. CASE UNCHANGED cand
  BY <1>4 DEF CandidateEffect
<1> QED
  BY <1>1, <1>2, <1>3, <1>4
     DEF Author, Finalizer, CreateGenerationWorkflow, CancelGenerationWorkflow,
         RequestGenerationContentChanges, RecordGenerationPublicationFinalizerFailure

LEMMA CandidateSteps ==
  ASSUME TypeInv, [Next]_vars, NEW w \in Workflows, NEW k \in Keys
  PROVE  CandidateEffect(w, k)
<1>1. CASE UNCHANGED cand
  BY <1>1 DEF CandidateEffect
<1>2. CASE \E v \in Workflows : Author(v) \/ Finalizer(v)
  BY <1>2, AuthorCandidate
<1>3. CASE \E n \in Claims : JudgeStep(n)
  BY <1>3, JudgeCandidate
<1>4. CASE Pass \/ AbortPass
  BY <1>4, CoordinatorCandidate
<1> QED
  BY <1>1, <1>2, <1>3, <1>4
     DEF Next, vars, LeaseExpires, ClaimGenerationAgentWorkflow, LoseJudge, durable, ActionSettles,
         Crash, Recovery, InterruptRuns, ClearLeases

(* Which steps write what: the receipts of the author's keys.              *)
LEMMA ReceiptSteps ==
  ASSUME [Next]_vars
  PROVE  /\ receipts \subseteq receipts'
         /\ \A w \in Workflows, k \in Keys :
              <<"submit", w, k>> \in receipts' \ receipts => SubmitGenerationCandidate(w, k)
<1>1. CASE UNCHANGED receipts
  BY <1>1
<1>2. CASE \E w \in Workflows, k \in Keys : SubmitGenerationCandidate(w, k)
  <2> PICK w \in Workflows, k \in Keys : SubmitGenerationCandidate(w, k)
    BY <1>2
  <2>1. receipts' = receipts \cup {<<"submit", w, k>>}
    BY DEF SubmitGenerationCandidate
  <2> QED
    BY <2>1
<1>3. CASE \E w \in Workflows, k \in Keys :
             ConfirmGenerationContent(w, k) \/ RequestGenerationContentChanges(w, k)
  BY <1>3 DEF ConfirmGenerationContent, RequestGenerationContentChanges
<1> QED
  BY <1>1, <1>2, <1>3
     DEF Next, vars, Author, CreateGenerationWorkflow, CancelGenerationWorkflow, LeaseExpires, Finalizer,
         FinalizeGenerationScenarioPublication, RecordGenerationPublicationFinalizerFailure,
         ClaimGenerationAgentWorkflow, JudgeStep, StartGenerationAgentRun, FinalizeGenerationJudgement,
         ReportGenerationArtifactFailure, RetryGenerationAgentRun, LoseJudge, durable,
         ActionSettles, Pass, StartPass, ScheduleAction, ResolveAction, MarkMaterialized, MarkVerified,
         FailRunnableGenerationWorkflow, AbortPass, Crash, Recovery, InterruptRuns, ClearLeases

-----------------------------------------------------------------------------
(* The invariant holds initially and is kept.                              *)
LEMMA InitInv == Init => GenerationInv
<1> SUFFICES ASSUME Init PROVE GenerationInv
  OBVIOUS
<1> USE GenerationAssumption
<1>1. ClaimInv
  <2>1. {m \in Claims : judge[m].w # NoKey} = 1 .. 0
    BY DEF Init, NoJudge
  <2>2. 0 \in 0 .. MaxClaims
    OBVIOUS
  <2>3. \A n \in Claims : judge[n] = NoJudge /\ runs[n].status = "none"
    BY DEF Init
  <2> QED
    BY <2>1, <2>2, <2>3 DEF ClaimInv, NoJudge
<1>2. \A w \in Workflows : /\ wf[w].state = "none" /\ wf[w].candidate = NoKey
                           /\ \A k \in Keys : cand[w][k] = NoCandidate
  BY DEF Init
<1>3. SubmissionInv
  BY <1>2 DEF SubmissionInv, Waiting
<1>4. VerdictInv
  <2>1. \A w \in Workflows, k \in Keys : <<w, k, "verify">> \in RunnableKeys
    BY DEF RunnableKeys, Phases
  <2> QED
    BY <2>1 DEF Init, VerdictInv, Queue!ContractInit
<1>5. JudgedOnce
  <2>1. \A w \in Workflows, k \in Keys :
          {n \in Claims : runs[n].status = "succeeded" /\ runs[n].candidate = <<w, k>>} = {}
    BY DEF Init
  <2>2. \A w \in Workflows, k \in Keys :
          Cardinality({n \in Claims : runs[n].status = "succeeded" /\ runs[n].candidate = <<w, k>>}) = 0
    BY <2>1, FS_EmptySet
  <2>3. \A w \in Workflows, k \in Keys : cand[w][k].judged = "none"
    BY <1>2 DEF NoCandidate
  <2> QED
    BY <2>2, <2>3 DEF JudgedOnce
<1>6. ReviewedBeforePublished
  BY <1>2 DEF ReviewedBeforePublished, NoCandidate
<1> QED
  BY <1>1, <1>3, <1>4, <1>5, <1>6 DEF GenerationInv

(* A new claim takes the next number.                                      *)
LEMMA NumberClaimed ==
  ASSUME TypeInv, ClaimInv, NEW w \in Workflows, NEW n \in Claims, ClaimGenerationAgentWorkflow(w, n)
  PROVE  /\ judge[n].w = NoKey
         /\ \E c \in 0 .. MaxClaims : {m \in Claims : judge'[m].w # NoKey} = 1 .. c
<1>1. PICK c \in 0 .. MaxClaims : {m \in Claims : judge[m].w # NoKey} = 1 .. c
  BY DEF ClaimInv
<1>2. Cardinality(1 .. c) = c
  BY <1>1, GenerationAssumption, FS_Interval
<1>3. n = c + 1 /\ n \in 1 .. MaxClaims /\ c \in Nat /\ MaxClaims \in Nat
  <2>1. Cardinality({m \in Claims : judge[m].w # NoKey}) = c
    BY <1>1, <1>2
  <2>2. n = 1 + Cardinality({m \in Claims : judge[m].w # NoKey})
    BY DEF ClaimGenerationAgentWorkflow
  <2> QED
    BY <2>1, <2>2, GenerationAssumption DEF Claims
<1>4. judge[n].w = NoKey
  BY <1>1, <1>3 DEF Claims
<1>5. judge'[n].w = w /\ w # NoKey /\ \A m \in Claims \ {n} : judge'[m] = judge[m]
  BY Bystanders, GenerationAssumption DEF ClaimGenerationAgentWorkflow
<1>6. {m \in Claims : judge'[m].w # NoKey} = (1 .. c) \cup {n}
  <2>1. \A m \in Claims : judge'[m].w # NoKey <=> m = n \/ judge[m].w # NoKey
    BY <1>5
  <2>2. \A m \in Claims : judge[m].w # NoKey <=> m \in 1 .. c
    BY <1>1
  <2>3. 1 .. c \subseteq Claims
    BY <1>3 DEF Claims
  <2> QED
    BY <2>1, <2>2, <2>3
<1>7. (1 .. c) \cup {n} = 1 .. c + 1 /\ c + 1 \in 0 .. MaxClaims
  BY <1>3
<1> QED
  BY <1>4, <1>6, <1>7

LEMMA ClaimStep ==
  ASSUME TypeInv, ClaimInv, [Next]_vars
  PROVE  ClaimInv'
<1>1. \E c \in 0 .. MaxClaims : {m \in Claims : judge'[m].w # NoKey} = 1 .. c
  <2>1. CASE \E w \in Workflows, n \in Claims : ClaimGenerationAgentWorkflow(w, n)
    BY <2>1, NumberClaimed
  <2>2. CASE ~\E w \in Workflows, n \in Claims : ClaimGenerationAgentWorkflow(w, n)
    <3>1. \A n \in Claims : judge'[n].w = judge[n].w
      BY <2>2, GoroutineSteps DEF GoroutineEffect
    <3>2. {m \in Claims : judge'[m].w # NoKey} = {m \in Claims : judge[m].w # NoKey}
      BY <3>1
    <3> QED
      BY <3>2 DEF ClaimInv
  <2> QED
    BY <2>1, <2>2
<1>2. ASSUME NEW n \in Claims
      PROVE  /\ judge'[n].w = NoKey => judge'[n].pc = "none" /\ runs'[n].status = "none"
             /\ judge'[n].pc = "claimed" => runs'[n].status = "none"
             /\ judge'[n].pc = "judging" => runs'[n].candidate = <<judge'[n].w, judge'[n].candidate>>
             /\ judge'[n].pc # "none" =>
                  LET r == wf'[judge'[n].w]
                  IN /\ judge'[n].version <= r.version
                     /\ r.state = "Judging" /\ r.version = judge'[n].version =>
                          r.candidate = judge'[n].candidate
  <2>0. /\ judge[n].w = NoKey => judge[n].pc = "none" /\ runs[n].status = "none"
        /\ judge[n].pc = "claimed" => runs[n].status = "none"
        /\ judge[n].pc = "judging" => runs[n].candidate = <<judge[n].w, judge[n].candidate>>
        /\ judge[n].pc # "none" => /\ judge[n].w \in Workflows
                                   /\ judge[n].version <= wf[judge[n].w].version
                                   /\ wf[judge[n].w].state = "Judging" /\ wf[judge[n].w].version = judge[n].version =>
                                        wf[judge[n].w].candidate = judge[n].candidate
    BY Bystanders DEF ClaimInv
  <2>1. CASE \E w \in Workflows : ClaimGenerationAgentWorkflow(w, n)
    <3> PICK w \in Workflows : ClaimGenerationAgentWorkflow(w, n)
      BY <2>1
    <3>1. /\ judge'[n] = [pc |-> "claimed", w |-> w, version |-> wf[w].version, candidate |-> wf[w].candidate]
          /\ wf[w].state = "Judging" /\ wf[w] \in Workflow /\ w # NoKey
          /\ runs' = runs /\ Put(w, [wf[w] EXCEPT !.owner = n, !.live = TRUE])
      BY Bystanders, GenerationAssumption DEF ClaimGenerationAgentWorkflow, Claimable
    <3>2. runs[n].status = "none"
      BY <2>0, NumberClaimed
    <3>3. wf'[w].candidate = wf[w].candidate /\ wf'[w].version >= wf[w].version
      <4>1. RowEffect(w)
        BY RowSteps
      <4>2. ~\E k \in Keys : SubmitGenerationCandidate(w, k)
        BY <3>1 DEF SubmitGenerationCandidate
      <4> QED
        BY <4>1, <4>2 DEF RowEffect
    <3>4. wf[w].version \in Nat /\ wf'[w].version \in Nat
      BY <3>1, StepTyped DEF TypeInv, GenerationTypeOK, Workflow
    <3> QED
      BY <3>1, <3>2, <3>3, <3>4
  <2>2. CASE ~\E w \in Workflows : ClaimGenerationAgentWorkflow(w, n)
    <3>1. /\ judge'[n].w = judge[n].w /\ judge'[n].version = judge[n].version
          /\ judge'[n].candidate = judge[n].candidate
          /\ judge'[n].pc # "none" => judge[n].pc # "none"
          /\ judge'[n].pc = "claimed" => judge[n].pc = "claimed" /\ ~StartGenerationAgentRun(n)
          /\ judge'[n].pc = "judging" => judge[n].pc = "judging" \/ StartGenerationAgentRun(n)
      BY <2>2, GoroutineSteps DEF GoroutineEffect
    <3>2. /\ runs[n].status = "none" /\ runs'[n].status # "none" => StartGenerationAgentRun(n)
          /\ runs'[n].candidate # runs[n].candidate => StartGenerationAgentRun(n)
      BY RunSteps DEF RunEffect
    <3>3. StartGenerationAgentRun(n) =>
            judge[n].pc = "claimed" /\ runs'[n].candidate = <<judge[n].w, judge[n].candidate>>
      BY DEF StartGenerationAgentRun
    <3>4. ASSUME judge'[n].pc # "none"
          PROVE  /\ judge[n].version <= wf'[judge[n].w].version
                 /\ wf'[judge[n].w].state = "Judging" /\ wf'[judge[n].w].version = judge[n].version =>
                      wf'[judge[n].w].candidate = judge[n].candidate
      <4> DEFINE v == judge[n].w
      <4>1. v \in Workflows /\ judge[n].version <= wf[v].version
        BY <2>0, <3>1, <3>4
      <4>2. wf[v].version \in Nat /\ wf'[v].version \in Nat /\ judge[n].version \in Nat
        BY <4>1, StepTyped, Bystanders DEF TypeInv, GenerationTypeOK, Workflow, Judge
      <4>3. wf'[v].version >= wf[v].version
        BY <4>1, RowSteps DEF RowEffect
      <4>4. ASSUME wf'[v].state = "Judging", wf'[v].version = judge[n].version
            PROVE  wf[v].state = "Judging" /\ wf[v].version = judge[n].version
                   /\ wf'[v].candidate = wf[v].candidate
        <5>1. wf'[v].version = wf[v].version
          BY <4>1, <4>2, <4>3, <4>4
        <5>2. ~(wf'[v].version > wf[v].version)
          BY <4>2, <5>1
        <5>3. RowEffect(v)
          BY <4>1, RowSteps
        <5> QED
          BY <4>4, <5>1, <5>2, <5>3 DEF RowEffect
      <4> QED
        BY <2>0, <3>1, <3>4, <4>1, <4>2, <4>3, <4>4
    <3> QED
      BY <2>0, <3>1, <3>2, <3>3, <3>4
  <2> QED
    BY <2>1, <2>2
<1> QED
  BY <1>1, <1>2 DEF ClaimInv

LEMMA VerdictStep ==
  ASSUME TypeInv, VerdictInv, [Next]_vars
  PROVE  /\ VerdictInv'
         /\ \A w \in Workflows, k \in Keys : verdict[w][k] # "none" => verdict'[w][k] = verdict[w][k]
<1> USE DEF VerdictInv
<1>0. /\ \A w \in Workflows, k \in Keys : <<w, k, "verify">> \in RunnableKeys
      /\ status \in [RunnableKeys -> Queue!Statuses]
      /\ verdict \in [Workflows -> [Keys -> {"none", "passed", "rejected"}]]
  BY DEF RunnableKeys, Phases, TypeInv, GenerationTypeOK, Queue!ContractTypeOK
<1>1. CASE UNCHANGED <<status, verdict>>
  BY <1>1
<1>2. CASE \E a \in RunnableKeys : ActionSettles(a)
  <2> PICK a \in RunnableKeys : ActionSettles(a)
    BY <1>2
  <2>0. a[1] \in Workflows /\ a[2] \in Keys /\ a = <<a[1], a[2], a[3]>>
    BY DEF RunnableKeys
  <2>1. PICK s \in Queue!Statuses : /\ status[a] = "pending" /\ status' = [status EXCEPT ![a] = s]
                                    /\ s # "completed" \/ a[3] # "verify" => UNCHANGED verdict
                                    /\ s = "completed" /\ a[3] = "verify" =>
                                         \E v \in {"passed", "rejected"} :
                                            verdict' = [verdict EXCEPT ![a[1]][a[2]] = v]
    BY DEF ActionSettles, Queue!Settle, Queue!Statuses
  <2>2. CASE s = "completed" /\ a[3] = "verify"
    <3>1. PICK v \in {"passed", "rejected"} : verdict' = [verdict EXCEPT ![a[1]][a[2]] = v]
      BY <2>1, <2>2
    <3>2. verdict[a[1]][a[2]] = "none"
      BY <2>0, <2>1, <2>2
    <3>3. ASSUME NEW w \in Workflows, NEW k \in Keys, w # a[1] \/ k # a[2]
          PROVE  verdict'[w][k] = verdict[w][k] /\ status'[<<w, k, "verify">>] = status[<<w, k, "verify">>]
      <4>1. <<w, k, "verify">> # a
        BY <2>0, <3>3
      <4>2. status'[<<w, k, "verify">>] = status[<<w, k, "verify">>]
        BY <1>0, <2>1, <4>1
      <4>3. verdict'[w][k] = verdict[w][k]
        BY <1>0, <3>1, <3>3
      <4> QED
        BY <4>2, <4>3
    <3>4. verdict'[a[1]][a[2]] = v /\ status'[a] = "completed" /\ v # "none"
      BY <1>0, <2>0, <2>1, <2>2, <3>1
    <3>5. a = <<a[1], a[2], "verify">>
      BY <2>0, <2>2
    <3>6. ASSUME NEW w \in Workflows, NEW k \in Keys
          PROVE  /\ verdict'[w][k] # "none" <=> status'[<<w, k, "verify">>] = "completed"
                 /\ verdict[w][k] # "none" => verdict'[w][k] = verdict[w][k]
      <4>1. CASE w = a[1] /\ k = a[2]
        BY <3>2, <3>4, <3>5, <4>1
      <4>2. CASE w # a[1] \/ k # a[2]
        BY <3>3, <4>2
      <4> QED
        BY <4>1, <4>2
    <3> QED
      BY <3>6
  <2>3. CASE s # "completed" \/ a[3] # "verify"
    <3>1. UNCHANGED verdict
      BY <2>1, <2>3
    <3>2. \A w \in Workflows, k \in Keys :
            status'[<<w, k, "verify">>] = "completed" <=> status[<<w, k, "verify">>] = "completed"
      <4> TAKE w \in Workflows, k \in Keys
      <4>1. CASE <<w, k, "verify">> # a
        BY <1>0, <2>1, <4>1
      <4>2. CASE <<w, k, "verify">> = a
        <5>1. a[3] = "verify"
          BY <4>2
        <5> QED
          BY <1>0, <2>1, <2>3, <4>2, <5>1
      <4> QED
        BY <4>1, <4>2
    <3> QED
      BY <3>1, <3>2
  <2> QED
    BY <2>2, <2>3
<1>3. CASE \E s \in Workflows \X Waiting : ScheduleAction(s)
  <2>1. PICK a : /\ status' = status \/ (status[a] \in {"none", "infra-failed"}
                                         /\ status' = [status EXCEPT ![a] = "pending"])
                 /\ UNCHANGED verdict
    BY <1>3 DEF ScheduleAction, Queue!Schedule
  <2> QED
    BY <1>0, <2>1
<1> QED
  BY <1>1, <1>2, <1>3
     DEF Next, vars, Author, CreateGenerationWorkflow, CancelGenerationWorkflow, SubmitGenerationCandidate,
         ConfirmGenerationContent, RequestGenerationContentChanges, LeaseExpires, Finalizer,
         FinalizeGenerationScenarioPublication, RecordGenerationPublicationFinalizerFailure,
         ClaimGenerationAgentWorkflow, JudgeStep, StartGenerationAgentRun, FinalizeGenerationJudgement,
         ReportGenerationArtifactFailure, RetryGenerationAgentRun, LoseJudge, durable,
         Pass, StartPass, ResolveAction, MarkMaterialized, MarkVerified,
         FailRunnableGenerationWorkflow, AbortPass, Crash, Recovery, InterruptRuns, ClearLeases

(* A submission takes an unused key, hence leaves every candidate as it    *)
(* was; and the workflow it moves is under no review.                      *)
LEMMA SubmissionFacts ==
  ASSUME TypeInv, SubmissionInv, NEW w \in Workflows, NEW k \in Keys, SubmitGenerationCandidate(w, k)
  PROVE  /\ <<"submit", w, k>> \notin receipts /\ cand[w][k] = NoCandidate
         /\ cand' = cand /\ wf[w].state = "Generating"
         /\ receipts' = receipts \cup {<<"submit", w, k>>}
<1>1. Unused(w) # {} /\ k = CHOOSE j \in Unused(w) : TRUE
  BY DEF SubmitGenerationCandidate
<1>2. k \in Unused(w)
  BY <1>1
<1>3. cand[w][k] = NoCandidate
  BY <1>2 DEF Unused, SubmissionInv
<1>4. cand' = [cand EXCEPT ![w][k] = NoCandidate]
  BY DEF SubmitGenerationCandidate
<1>5. cand' = cand
  BY <1>3, <1>4, Bystanders
<1> QED
  BY <1>2, <1>3, <1>5 DEF Unused, SubmitGenerationCandidate

(* A verdict is given for the candidate the run was shown.                 *)
LEMMA JudgementFacts ==
  ASSUME TypeInv, ClaimInv, NEW n \in Claims, NEW approved \in BOOLEAN,
         FinalizeGenerationJudgement(n, approved)
  PROVE  /\ judge[n].w \in Workflows /\ wf[judge[n].w].state = "Judging"
         /\ wf[judge[n].w].candidate \in Keys
         /\ runs[n].candidate = <<judge[n].w, wf[judge[n].w].candidate>>
         /\ runs' = [runs EXCEPT ![n].status = "succeeded"] /\ runs[n].status = "running"
         /\ cand'[judge[n].w][wf[judge[n].w].candidate].judged = IF approved THEN "approved" ELSE "rejected"
         /\ wf'[judge[n].w].state = IF approved THEN "MaterializingArtifact" ELSE "Generating"
<1> DEFINE w == judge[n].w  k == wf[w].candidate
<1>1. judge[n].pc = "judging" /\ Fenced(n)
  BY DEF FinalizeGenerationJudgement, Active
<1>2. w \in Workflows /\ wf[w].state = "Judging" /\ wf[w].version = judge[n].version /\ k \in Keys
  BY <1>1, Bystanders, StatesTyped DEF Fenced
<1>3. runs[n].candidate = <<w, judge[n].candidate>> /\ k = judge[n].candidate
  BY <1>1, <1>2 DEF ClaimInv
<1>4. cand[w][k] \in Candidate
  BY <1>2, Bystanders
<1>5. PICK c : /\ c = [cand[w][k] EXCEPT !.judged = IF approved THEN "approved" ELSE "rejected",
                                         !.failed = ~approved]
               /\ cand' = [cand EXCEPT ![w][k] = c]
  BY DEF FinalizeGenerationJudgement
<1>6. c.judged = IF approved THEN "approved" ELSE "rejected"
  BY <1>4, <1>5 DEF Candidate
<1>7. cand'[w][k] = c
  BY <1>2, <1>5, Bystanders
<1>8. wf'[w].state = IF approved THEN "MaterializingArtifact" ELSE "Generating"
  <2>1. PICK s : /\ s = IF approved THEN "MaterializingArtifact" ELSE "Generating"
                 /\ Put(w, Moved(Released(wf[w]), s))
    BY DEF FinalizeGenerationJudgement
  <2>2. s \in States
    BY <2>1, StatesTyped
  <2> QED
    BY <1>2, <2>1, <2>2, RowMoved DEF Terminal
<1> QED
  BY <1>2, <1>3, <1>6, <1>7, <1>8 DEF FinalizeGenerationJudgement

(* A candidate's verdict is written only while its workflow is Judging,    *)
(* by the step that ends that.                                             *)
LEMMA JudgedStays ==
  ASSUME TypeInv, ClaimInv, SubmissionInv, [Next]_vars, NEW w \in Workflows, NEW k \in Keys,
         ~(wf[w].state = "Judging" /\ wf'[w].state \in {"MaterializingArtifact", "Generating"})
  PROVE  cand'[w][k].judged = cand[w][k].judged
<1>1. CandidateEffect(w, k)
  BY CandidateSteps
<1>2. CASE SubmitGenerationCandidate(w, k)
  BY <1>2, SubmissionFacts
<1>3. ASSUME NEW n \in Claims, NEW approved \in BOOLEAN, judge[n].w = w,
             FinalizeGenerationJudgement(n, approved)
      PROVE  FALSE
  BY <1>3, JudgementFacts
<1> QED
  BY <1>1, <1>2, <1>3 DEF CandidateEffect

LEMMA SubmissionStep ==
  ASSUME TypeInv, ClaimInv, SubmissionInv, [Next]_vars
  PROVE  SubmissionInv'
<1> SUFFICES ASSUME NEW w \in Workflows
             PROVE  /\ wf'[w].candidate \in Keys => <<"submit", w, wf'[w].candidate>> \in receipts'
                    /\ \A k \in Keys : <<"submit", w, k>> \notin receipts' => cand'[w][k] = NoCandidate
                    /\ wf'[w].state = "Judging" => cand'[w][wf'[w].candidate].judged = "none"
                    /\ wf'[w].state \in Waiting => cand'[w][wf'[w].candidate].judged = "approved"
                    /\ wf'[w].state = "Publishing" => <<"confirm", w, wf'[w].candidate>> \in receipts'
  BY DEF SubmissionInv
<1>0. /\ wf[w].candidate \in Keys => <<"submit", w, wf[w].candidate>> \in receipts
      /\ \A k \in Keys : <<"submit", w, k>> \notin receipts => cand[w][k] = NoCandidate
      /\ wf[w].state = "Judging" => cand[w][wf[w].candidate].judged = "none"
      /\ wf[w].state \in Waiting => cand[w][wf[w].candidate].judged = "approved"
      /\ wf[w].state = "Publishing" => <<"confirm", w, wf[w].candidate>> \in receipts
      /\ receipts \subseteq receipts'
      /\ RowEffect(w)
      /\ wf[w].state \in Submitted => wf[w].candidate \in Keys
  BY ReceiptSteps, RowSteps, Bystanders DEF SubmissionInv
<1>1. ASSUME NEW k \in Keys, SubmitGenerationCandidate(w, k)
      PROVE  /\ <<"submit", w, k>> \in receipts' /\ cand'[w][k].judged = "none"
             /\ wf[w].state = "Generating"
  BY <1>1, SubmissionFacts DEF NoCandidate
<1>2. wf'[w].candidate \in Keys => <<"submit", w, wf'[w].candidate>> \in receipts'
  BY <1>0, <1>1 DEF RowEffect
<1>3. ASSUME NEW k \in Keys, <<"submit", w, k>> \notin receipts'
      PROVE  cand'[w][k] = NoCandidate
  <2>1. k # wf[w].candidate /\ ~SubmitGenerationCandidate(w, k) /\ cand[w][k] = NoCandidate
    BY <1>0, <1>1, <1>3
  <2> QED
    BY <2>1, CandidateSteps DEF CandidateEffect
<1>4. ASSUME wf'[w].state = "Judging"
      PROVE  cand'[w][wf'[w].candidate].judged = "none"
  <2>1. CASE wf[w].state = "Judging"
    <3>1. wf'[w].candidate = wf[w].candidate /\ wf[w].candidate \in Keys
      BY <1>0, <1>1, <2>1, StatesTyped DEF RowEffect
    <3> QED
      BY <1>0, <1>4, <2>1, <3>1, JudgedStays
  <2>2. CASE wf[w].state # "Judging"
    BY <1>0, <1>1, <1>4, <2>2 DEF RowEffect
  <2> QED
    BY <2>1, <2>2
<1>5. ASSUME wf'[w].state \in Waiting
      PROVE  cand'[w][wf'[w].candidate].judged = "approved"
  <2>1. wf'[w].candidate = wf[w].candidate
    BY <1>0, <1>5 DEF RowEffect, Waiting
  <2>2. CASE wf'[w].state = "MaterializingArtifact" /\ wf[w].state # "MaterializingArtifact"
    <3>1. PICK n \in Claims : judge[n].w = w /\ FinalizeGenerationJudgement(n, TRUE)
      BY <1>0, <2>2 DEF RowEffect
    <3>2. cand'[w][wf[w].candidate].judged = "approved"
      BY <3>1, JudgementFacts
    <3> QED
      BY <2>1, <3>2
  <2>3. CASE wf[w].state \in Waiting
    <3>1. wf[w].candidate \in Keys /\ wf[w].state # "Judging"
      BY <1>0, <2>3, StatesTyped DEF Waiting
    <3> QED
      BY <1>0, <2>1, <2>3, <3>1, JudgedStays
  <2> QED
    BY <1>0, <1>5, <2>2, <2>3 DEF RowEffect, Waiting
<1>6. ASSUME wf'[w].state = "Publishing"
      PROVE  <<"confirm", w, wf'[w].candidate>> \in receipts'
  <2>1. wf'[w].candidate = wf[w].candidate
    BY <1>0, <1>6 DEF RowEffect
  <2>2. CASE wf[w].state # "Publishing"
    BY <1>0, <1>6, <2>1, <2>2 DEF RowEffect, ConfirmGenerationContent
  <2> QED
    BY <1>0, <2>1, <2>2
<1> QED
  BY <1>2, <1>3, <1>4, <1>5, <1>6

LEMMA JudgedOnceStep ==
  ASSUME TypeInv, ClaimInv, SubmissionInv, JudgedOnce, [Next]_vars
  PROVE  JudgedOnce'
<1> SUFFICES ASSUME NEW w \in Workflows, NEW k \in Keys
             PROVE  Cardinality({n \in Claims : runs'[n].status = "succeeded" /\ runs'[n].candidate = <<w, k>>})
                      = IF cand'[w][k].judged = "none" THEN 0 ELSE 1
  BY DEF JudgedOnce
<1> DEFINE Old == {n \in Claims : runs[n].status = "succeeded" /\ runs[n].candidate = <<w, k>>}
           New == {n \in Claims : runs'[n].status = "succeeded" /\ runs'[n].candidate = <<w, k>>}
<1>1. IsFiniteSet(Old) /\ Cardinality(Old) = IF cand[w][k].judged = "none" THEN 0 ELSE 1
  <2>1. IsFiniteSet(Claims)
    BY NumberTyped
  <2>2. IsFiniteSet(Old)
    BY <2>1, FS_Subset
  <2> QED
    BY <2>2 DEF JudgedOnce
<1>2. ASSUME NEW m \in Claims
      PROVE  /\ runs[m].status = "succeeded" =>
                  runs'[m].status = "succeeded" /\ runs'[m].candidate = runs[m].candidate
             /\ runs'[m].status = "succeeded" /\ runs[m].status # "succeeded" =>
                  \E approved \in BOOLEAN : FinalizeGenerationJudgement(m, approved)
  <2>1. RunEffect(m)
    BY RunSteps
  <2>2. StartGenerationAgentRun(m) => judge[m].pc = "claimed"
    BY DEF StartGenerationAgentRun
  <2>3. judge[m].pc = "claimed" => runs[m].status = "none"
    BY DEF ClaimInv
  <2> QED
    BY <2>1, <2>2, <2>3 DEF RunEffect
<1>3. CASE \E m \in Claims, approved \in BOOLEAN :
             FinalizeGenerationJudgement(m, approved) /\ runs[m].candidate = <<w, k>>
  <2> PICK m \in Claims, approved \in BOOLEAN :
             FinalizeGenerationJudgement(m, approved) /\ runs[m].candidate = <<w, k>>
    BY <1>3
  <2>1. /\ judge[m].w = w /\ wf[w].candidate = k /\ wf[w].state = "Judging"
        /\ runs' = [runs EXCEPT ![m].status = "succeeded"] /\ runs[m].status = "running"
        /\ cand'[w][k].judged = IF approved THEN "approved" ELSE "rejected"
    BY JudgementFacts
  <2>2. cand[w][k].judged = "none" /\ cand'[w][k].judged # "none"
    BY <2>1 DEF SubmissionInv
  <2>3. Cardinality(Old) = 0
    BY <1>1, <2>2
  <2>4. Old = {}
    BY <1>1, <2>3, FS_EmptySet
  <2>5. /\ runs'[m].status = "succeeded" /\ runs'[m].candidate = <<w, k>>
        /\ \A n \in Claims \ {m} : runs'[n] = runs[n]
    BY <2>1, Bystanders DEF Run
  <2>6. New = {m}
    BY <2>4, <2>5
  <2>7. Cardinality(New) = 1
    BY <2>6, FS_Singleton
  <2> QED
    BY <2>2, <2>7
<1>4. CASE ~\E m \in Claims, approved \in BOOLEAN :
             FinalizeGenerationJudgement(m, approved) /\ runs[m].candidate = <<w, k>>
  <2>1. New = Old
    <3> SUFFICES ASSUME NEW m \in Claims
                 PROVE  runs'[m].status = "succeeded" /\ runs'[m].candidate = <<w, k>>
                          <=> runs[m].status = "succeeded" /\ runs[m].candidate = <<w, k>>
      OBVIOUS
    <3>1. CASE \E approved \in BOOLEAN : FinalizeGenerationJudgement(m, approved)
      <4>1. runs' = [runs EXCEPT ![m].status = "succeeded"] /\ runs[m].status = "running"
        BY <3>1 DEF FinalizeGenerationJudgement
      <4>2. runs'[m].candidate = runs[m].candidate
        BY <4>1, Bystanders DEF Run
      <4> QED
        BY <1>4, <3>1, <4>1, <4>2
    <3>2. CASE ~\E approved \in BOOLEAN : FinalizeGenerationJudgement(m, approved)
      BY <1>2, <3>2
    <3> QED
      BY <3>1, <3>2
  <2>2. cand'[w][k].judged = cand[w][k].judged
    <3>1. CandidateEffect(w, k)
      BY CandidateSteps
    <3>2. SubmitGenerationCandidate(w, k) => cand' = cand
      BY SubmissionFacts
    <3>3. ASSUME NEW n \in Claims, NEW approved \in BOOLEAN, judge[n].w = w, k = wf[w].candidate,
                 FinalizeGenerationJudgement(n, approved)
          PROVE  FALSE
      <4>1. runs[n].candidate = <<w, k>>
        BY <3>3, JudgementFacts
      <4> QED
        BY <1>4, <3>3, <4>1
    <3> QED
      BY <3>1, <3>2, <3>3 DEF CandidateEffect
  <2> HIDE DEF New, Old
  <2> QED
    BY <1>1, <2>1, <2>2 DEF New
<1> QED
  BY <1>3, <1>4

LEMMA ReviewedStep ==
  ASSUME TypeInv, GenerationInv, [Next]_vars
  PROVE  ReviewedBeforePublished'
<1> USE DEF GenerationInv
<1> SUFFICES ASSUME NEW w \in Workflows
             PROVE  /\ wf'[w].state \in UnderReview =>
                         LET k == wf'[w].candidate
                         IN /\ cand'[w][k].judged = "approved" /\ cand'[w][k].report = "passed"
                            /\ verdict'[w][k] = "passed"
                    /\ \A k \in Keys : cand'[w][k].published =>
                         wf'[w].state = "Published" /\ wf'[w].candidate = k /\ <<"confirm", w, k>> \in receipts'
  BY DEF ReviewedBeforePublished, UnderReview
<1>0. /\ wf[w].state \in UnderReview =>
           /\ cand[w][wf[w].candidate].judged = "approved" /\ cand[w][wf[w].candidate].report = "passed"
           /\ verdict[w][wf[w].candidate] = "passed"
      /\ \A k \in Keys : cand[w][k].published =>
           wf[w].state = "Published" /\ wf[w].candidate = k /\ <<"confirm", w, k>> \in receipts
      /\ receipts \subseteq receipts'
      /\ RowEffect(w)
      /\ wf[w].state \in Submitted => wf[w].candidate \in Keys
      /\ \A k \in Keys : CandidateEffect(w, k)
      /\ \A k \in Keys : verdict[w][k] # "none" => verdict'[w][k] = verdict[w][k]
  BY ReceiptSteps, RowSteps, CandidateSteps, VerdictStep, Bystanders DEF ReviewedBeforePublished, UnderReview
<1>1. ASSUME wf'[w].state \in UnderReview
      PROVE  /\ cand'[w][wf'[w].candidate].judged = "approved" /\ cand'[w][wf'[w].candidate].report = "passed"
             /\ verdict'[w][wf'[w].candidate] = "passed"
  <2>1. wf'[w].candidate = wf[w].candidate
    BY <1>0, <1>1 DEF RowEffect, UnderReview
  <2>2. wf[w].state \in UnderReview \cup {"Verifying"}
    BY <1>0, <1>1 DEF RowEffect, UnderReview
  <2>3. wf[w].candidate \in Keys /\ wf[w].state # "Judging"
    BY <1>0, <2>2, StatesTyped DEF UnderReview
  <2>4. cand'[w][wf[w].candidate].judged = "approved"
    <3>1. cand[w][wf[w].candidate].judged = "approved"
      BY <1>0, <2>2 DEF SubmissionInv, Waiting
    <3> QED
      BY <2>3, <3>1, JudgedStays
  <2>5. CASE wf[w].state = "Verifying"
    BY <1>0, <1>1, <2>1, <2>3, <2>4, <2>5 DEF RowEffect, UnderReview
  <2>6. CASE wf[w].state \in UnderReview
    <3>1. verdict'[w][wf[w].candidate] = "passed"
      BY <1>0, <2>3, <2>6
    <3>2. ~\E n \in Claims, approved \in BOOLEAN : judge[n].w = w /\ FinalizeGenerationJudgement(n, approved)
      BY <2>3, JudgementFacts
    <3>3. ~SubmitGenerationCandidate(w, wf[w].candidate)
      BY <2>3, <2>6, SubmissionFacts DEF UnderReview
    <3>4. cand'[w][wf[w].candidate].report = cand[w][wf[w].candidate].report
      BY <1>0, <2>3, <2>6, <3>2, <3>3 DEF CandidateEffect, UnderReview
    <3> QED
      BY <1>0, <2>1, <2>4, <2>6, <3>1, <3>4
  <2> QED
    BY <2>2, <2>5, <2>6
<1>2. ASSUME NEW k \in Keys, cand'[w][k].published
      PROVE  wf'[w].state = "Published" /\ wf'[w].candidate = k /\ <<"confirm", w, k>> \in receipts'
  <2>1. CASE cand[w][k].published
    <3>1. wf[w].state = "Published" /\ wf[w].candidate = k /\ <<"confirm", w, k>> \in receipts
      BY <1>0, <2>1
    <3>2. wf'[w] = wf[w]
      BY <1>0, <3>1 DEF RowEffect, Terminal
    <3> QED
      BY <1>0, <3>1, <3>2
  <2>2. CASE ~cand[w][k].published
    <3>1. FinalizeGenerationScenarioPublication(w) /\ k = wf[w].candidate
      <4>1. ~NoCandidate.published
        BY DEF NoCandidate
      <4>2. CandidateEffect(w, k)
        BY <1>0
      <4> QED
        BY <1>2, <2>2, <4>1, <4>2 DEF CandidateEffect
    <3>2. wf[w].state = "Publishing" /\ Put(w, Moved(wf[w], "Published"))
      BY <3>1 DEF FinalizeGenerationScenarioPublication
    <3>3. wf'[w].state = "Published" /\ wf'[w].candidate = k
      BY <3>1, <3>2, RowMoved, StatesTyped DEF Terminal
    <3>4. <<"confirm", w, k>> \in receipts
      BY <3>1, <3>2 DEF SubmissionInv
    <3> QED
      BY <1>0, <3>3, <3>4
  <2> QED
    BY <2>1, <2>2
<1> QED
  BY <1>1, <1>2

LEMMA StepInv == TypeInv /\ GenerationInv /\ [Next]_vars => GenerationInv'
<1> SUFFICES ASSUME TypeInv, GenerationInv, [Next]_vars PROVE GenerationInv'
  OBVIOUS
<1>1. ClaimInv'
  BY ClaimStep DEF GenerationInv
<1>2. SubmissionInv'
  BY SubmissionStep DEF GenerationInv
<1>3. VerdictInv'
  BY VerdictStep DEF GenerationInv
<1>4. JudgedOnce'
  BY JudgedOnceStep DEF GenerationInv
<1>5. ReviewedBeforePublished'
  BY ReviewedStep
<1> QED
  BY <1>1, <1>2, <1>3, <1>4, <1>5 DEF GenerationInv

(* A verdict comes from exactly one finished run that was shown this very  *)
(* candidate, whatever leases ran out and whoever is still at work.        *)
THEOREM CandidateJudgedOnce == Spec => []JudgedOnce
<1>1. GenerationInv => JudgedOnce
  BY DEF GenerationInv
<1> QED
  BY <1>1, InitTyped, StepTyped, InitInv, StepInv, PTL DEF Spec

(* Nothing is reviewed or published that was not approved and verified,    *)
(* and only the candidate the author confirmed is published.               *)
THEOREM PublishedIsReviewed == Spec => []ReviewedBeforePublished
<1>1. GenerationInv => ReviewedBeforePublished
  BY DEF GenerationInv
<1> QED
  BY <1>1, InitTyped, StepTyped, InitInv, StepInv, PTL DEF Spec
=============================================================================
