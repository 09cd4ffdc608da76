------------------------- MODULE ProviderResources --------------------------
(***************************************************************************)
(* The resources of one runtime environment at its provider, call by call. *)
(* RuntimeEnvironment takes Provision, Reset and Release as one step each; *)
(* here they are the sequences of requests they really are, to Incus or to *)
(* Kubernetes and the vcluster command, and every one of them may be the   *)
(* last of its caller.                                                     *)
(*                                                                         *)
(* A call starts from nothing but names derived from the environment's     *)
(* UID, adopts what it finds under them and creates or deletes the rest,   *)
(* so a call that failed is repeated from the start.  Requests that create,*)
(* start, stop and delete an instance are operations of the Incus server,  *)
(* which goes on with them when the caller is gone.  The Controller makes  *)
(* one call at a time for an environment and none once the Reaper has it;  *)
(* two Reapers overlap when a lease on the reap lapses.                    *)
(***************************************************************************)
EXTENDS Naturals, FiniteSets

CONSTANTS
  Kinds,         \* of "node", "k8s" and "blank", a virtual cluster without content
  NodeCount,     \* nodes of a node environment
  SlotCount,     \* subnets in the pool of node networks
  ControllerCaller, ReaperCallers,   \* who calls the provider
  MaxResets,     \* bound: reset requests
  MaxTaken,      \* bound: subnets that other environments take
  MaxFailures    \* bound: failing calls, lapsed leases of Reapers, upgrades

ASSUME ProviderAssumption ==
  /\ Kinds \subseteq {"node", "k8s", "blank"}
  /\ NodeCount \in Nat \ {0} /\ SlotCount \in Nat \ {0}
  /\ ControllerCaller \notin ReaperCallers
  /\ MaxResets \in Nat /\ MaxTaken \in Nat /\ MaxFailures \in Nat

VARIABLES
  kind,
  goal,       \* what the environment's phase asks for
  resets,     \* reset requests so far
  call,       \* what each caller is in the middle of
  incus,      \* the environment's ACL, network, project, image and profile
  inst,       \* its instances
  job,        \* Incus operations under way on them
  k8s,        \* its namespace and what is in it
  others,     \* the subnets of other environments
  taken,      \* how many they have taken so far
  upgraded,   \* was a Controller with another runtime profile installed since?
  failures

resourceVars ==
  <<kind, goal, resets, call, incus, inst, job, k8s, others, taken, upgraded, failures>>
node == <<incus, inst, job>>
world == <<others, taken, upgraded>>

Callers == {ControllerCaller} \cup ReaperCallers
Nodes == 1 .. NodeCount                  \* in the order of their names
Slots == 1 .. SlotCount                  \* 0: no subnet
Generations == 0 .. MaxResets            \* 0: an ordinary provision or release
Goals == {"provision", "reset", "ready", "failed", "release", "released"}
Steps == {"idle", "delete", "stop", "stopping", "remove", "removing",
          "del_image", "del_profile", "del_project", "del_network", "del_acl",
          "acl", "network", "create_network", "project", "image", "profile",
          "instance", "created", "observe",
          "del_vcluster", "del_namespace", "namespace", "access", "vcluster", "policy",
          "plane", "kubeconfig", "terminal", "observe_terminal"}
Call == [pc : Steps, gen : Generations, at : 1 .. NodeCount + 1,
         slot : 0 .. SlotCount, ops : SUBSET Nodes]
NoCall == [pc |-> "idle", gen |-> 0, at |-> 1, slot |-> 0, ops |-> {}]

Incus == [acl : BOOLEAN, net : 0 .. SlotCount, project : BOOLEAN, stamp : Generations,
          image : BOOLEAN, profile : BOOLEAN]
NoIncus == [acl |-> FALSE, net |-> 0, project |-> FALSE, stamp |-> 0,
            image |-> FALSE, profile |-> FALSE]
Instance == [state : {"none", "stopped", "running"}, init : {"pending", "success", "failure"},
             addr : 0 .. SlotCount,
             born : Generations]         \* history: resets requested when it was created
NoInstance == [state |-> "none", init |-> "pending", addr |-> 0, born |-> 0]
Jobs == {"none", "create", "start", "stop", "delete"}

Namespace == [state : {"absent", "active", "terminating"}, stamp : Generations,
              access : BOOLEAN, vcluster : {"none", "partial", "whole"}, plane : BOOLEAN,
              policy : BOOLEAN, secret : BOOLEAN,
              terminal : {"none", "starting", "success", "failure"}, born : Generations,
              stale : BOOLEAN]           \* annotated with the revision of an older plan
NoNamespace == [state |-> "absent", stamp |-> 0, access |-> FALSE, vcluster |-> "none",
                plane |-> FALSE, policy |-> FALSE, secret |-> FALSE, terminal |-> "none",
                born |-> 0, stale |-> FALSE]

ResourceInit ==
  /\ kind \in Kinds
  /\ goal = "provision" /\ resets = 0 /\ call = [c \in Callers |-> NoCall]
  /\ incus = NoIncus /\ inst = [n \in Nodes |-> NoInstance] /\ job = [n \in Nodes |-> "none"]
  /\ k8s = NoNamespace
  /\ others = {} /\ taken = 0 /\ upgraded = FALSE /\ failures = MaxFailures

Failure == failures > 0 /\ failures' = failures - 1

-----------------------------------------------------------------------------
(* Calls.                                                                  *)

At(c, pc) == call[c].pc = pc
Goto(c, pc) == call' = [call EXCEPT ![c].pc = pc]
Loop(c, pc) == call' = [call EXCEPT ![c] = [@ EXCEPT !.pc = pc, !.at = 1, !.ops = {}]]
EndCall(c) == call' = [call EXCEPT ![c] = NoCall]

(* nodeRequest, k8sRequest: a revision whose profile is not the installed  *)
(* one has no request.  The plan of a blank environment is the installed.  *)
Requestable == ~upgraded \/ kind = "blank"
(* Seeded fault: releasing a blank environment checks its plan's digest.   *)
ReleasableWithDigest == ~upgraded
(* k8sReleaseRequest: a blank environment is released by its UID alone.    *)
Releasable == Requestable

(* verifyVK8sNamespaceOwner: the namespace carries the UID and revision of *)
(* the request; a new Controller has another digest for its blank plan,    *)
(* which only a release leaves out.                                        *)
OwnedByRequest(c) == c = ControllerCaller => ~k8s.stale

FirstStep(c) ==
  IF c = ControllerCaller /\ goal = "provision"
  THEN IF kind = "node" THEN "acl" ELSE "namespace"
  ELSE "delete"

(* Reset and Release begin by deleting; Provision by creating.             *)
StartCall ==
  /\ goal \in {"provision", "reset"} /\ At(ControllerCaller, "idle") /\ Requestable
  /\ call' = [call EXCEPT ![ControllerCaller] =
       [NoCall EXCEPT !.pc = FirstStep(ControllerCaller),
                      !.gen = IF goal = "reset" THEN resets ELSE 0]]
  /\ UNCHANGED <<kind, goal, resets, node, k8s, world, failures>>

(* Without a request the environment has failed: an artifact failure.      *)
RejectRequest ==
  /\ goal \in {"provision", "reset"} /\ At(ControllerCaller, "idle") /\ ~Requestable
  /\ goal' = "failed"
  /\ UNCHANGED <<kind, resets, call, node, k8s, world, failures>>

(* A Reaper that claims the reap after another's lease has lapsed starts   *)
(* while the other is still at work.                                       *)
StartRelease(r) ==
  /\ goal = "release" /\ At(r, "idle") /\ Releasable
  /\ IF \A s \in ReaperCallers : At(s, "idle") THEN UNCHANGED failures ELSE Failure
  /\ call' = [call EXCEPT ![r] = [NoCall EXCEPT !.pc = "delete"]]
  /\ UNCHANGED <<kind, goal, resets, node, k8s, world>>

(* The resources are gone: a reset builds them again, a release is over.   *)
(* A Reaper whose lease was taken over reports to nobody.                  *)
DeletionEnds(c) ==
  IF c = ControllerCaller
  THEN Goto(c, IF kind = "node" THEN "acl" ELSE "namespace") /\ UNCHANGED goal
  ELSE EndCall(c) /\ goal' = "released"

(* Release and Reset take ErrProviderNotFound for an end of the deletion,  *)
(* but what the Incus client returns is its own ErrNotFound: an error.     *)
NotFoundAnswer(c) == EndCall(c) /\ UNCHANGED goal

(* Ready ends what was asked for, but not a reset requested since.         *)
Observed(c, ready) ==
  /\ EndCall(c)
  /\ goal' = IF ready /\ call[c].gen = resets THEN "ready" ELSE goal

(* Any request may fail, and any caller crash; what was asked of the       *)
(* server, an operation too, happens or has happened.                      *)
CallFails(c) ==
  /\ ~At(c, "idle")
  /\ Failure /\ EndCall(c)
  /\ UNCHANGED <<kind, goal, resets, node, k8s, world>>

(* The Reapers' calls end without a verdict once one of them reported.     *)
CallIsMoot(r) ==
  /\ goal = "released" /\ ~At(r, "idle")
  /\ EndCall(r)
  /\ UNCHANGED <<kind, goal, resets, node, k8s, world, failures>>

-----------------------------------------------------------------------------
(* Provisioning a node environment.                                        *)

NodeKeeps == UNCHANGED <<kind, resets, k8s, world, failures>>
Unmoved == UNCHANGED <<goal, inst, job>>

EnsureEnvironmentACL(c) ==
  /\ At(c, "acl")
  /\ incus' = [incus EXCEPT !.acl = TRUE]
  /\ Goto(c, "network") /\ Unmoved /\ NodeKeeps

(* selectEnvironmentNetworkSubnet: the first free subnet from a start that *)
(* a hash of the UID gives; 0 when the pool has none.                      *)
SelectSubnet(occupied) ==
  IF Slots \subseteq occupied THEN 0
  ELSE CHOOSE s \in Slots \ occupied : \A t \in Slots \ occupied : s <= t

EnsureEnvironmentNetwork(c) ==
  /\ At(c, "network")
  /\ IF incus.net # 0 THEN Goto(c, "project")
     ELSE IF SelectSubnet(others) = 0 THEN EndCall(c)
     ELSE call' = [call EXCEPT ![c].pc = "create_network", ![c].slot = SelectSubnet(others)]
  /\ UNCHANGED incus /\ Unmoved /\ NodeKeeps

(* Another environment may have taken the subnet since: a conflict under a *)
(* name that does not exist, and the next subnet is tried.                 *)
CreateNetwork(c) ==
  /\ At(c, "create_network")
  /\ IF call[c].slot \in others
     THEN Goto(c, "network") /\ UNCHANGED incus
     ELSE Goto(c, "project") /\ incus' = [incus EXCEPT !.net = call[c].slot]
  /\ Unmoved /\ NodeKeeps

(* The rebuild of a reset carries its generation; an existing project may  *)
(* carry any.                                                              *)
EnsureEnvironmentProject(c) ==
  /\ At(c, "project")
  /\ incus' = IF incus.project THEN incus
              ELSE [incus EXCEPT !.project = TRUE, !.stamp = call[c].gen]
  /\ Goto(c, "image") /\ Unmoved /\ NodeKeeps

EnsureEnvironmentImage(c) ==
  /\ At(c, "image")
  /\ incus' = [incus EXCEPT !.image = TRUE]
  /\ Goto(c, "profile") /\ Unmoved /\ NodeKeeps

EnsureEnvironmentProfile(c) ==
  /\ At(c, "profile")
  /\ incus' = [incus EXCEPT !.profile = TRUE]
  /\ Loop(c, "instance") /\ Unmoved /\ NodeKeeps

(* An instance that exists must have the addresses of the network.         *)
ValidInstance(i) == i.addr = incus.net

NextNode(c, pc, ops) ==
  call' = [call EXCEPT ![c] = [@ EXCEPT !.pc = pc, !.at = call[c].at + 1, !.ops = ops]]

(* A missing instance is created and waited for; a stopped one is started, *)
(* to be waited for later.  The server refuses an instance it is busy with.*)
EnsureEnvironmentInstance(c) ==
  /\ At(c, "instance") /\ call[c].at \in Nodes
  /\ LET n == call[c].at
         i == inst[n] IN
     /\ CASE job[n] # "none" -> EndCall(c) /\ UNCHANGED job
          [] job[n] = "none" /\ i.state = "none" ->
               Goto(c, "created") /\ job' = [job EXCEPT ![n] = "create"]
          [] job[n] = "none" /\ i.state # "none" /\ ~ValidInstance(i) -> EndCall(c) /\ UNCHANGED job
          [] job[n] = "none" /\ i.state = "running" /\ ValidInstance(i) ->
               NextNode(c, "instance", call[c].ops) /\ UNCHANGED job
          [] job[n] = "none" /\ i.state = "stopped" /\ ValidInstance(i) ->
               NextNode(c, "instance", call[c].ops \cup {n}) /\ job' = [job EXCEPT ![n] = "start"]
  /\ UNCHANGED <<goal, incus, inst>> /\ NodeKeeps

WaitCreated(c) ==
  /\ At(c, "created") /\ job[call[c].at] # "create"
  /\ IF inst[call[c].at].state = "none" THEN EndCall(c) ELSE Goto(c, "instance")
  /\ UNCHANGED incus /\ Unmoved /\ NodeKeeps

(* Every wait of a call is for operations it asked for itself.             *)
Finished(c, what) == \A n \in call[c].ops : job[n] # what

WaitStarted(c) ==
  /\ At(c, "instance") /\ call[c].at \notin Nodes /\ Finished(c, "start")
  /\ Loop(c, "observe")
  /\ UNCHANGED incus /\ Unmoved /\ NodeKeeps

(* parseNodeInitialization: the initializer's result is success.           *)
Initialized(i) == i.state = "running" /\ i.init = "success"

ObserveNodeEnvironment(c) ==
  /\ At(c, "observe")
  /\ Observed(c, \A n \in Nodes : Initialized(inst[n]))
  /\ UNCHANGED <<incus, inst, job>> /\ NodeKeeps

-----------------------------------------------------------------------------
(* Deleting a node environment.                                            *)

(* Seeded fault: any reset's stamp stops the wipe.                         *)
OwnRebuildOfAny(stamp, gen) == gen > 0 /\ stamp > 0
(* What carries the generation of this reset is its own rebuild.           *)
OwnRebuild(stamp, gen) == gen > 0 /\ stamp = gen

DeleteNodeEnvironment(c) ==
  /\ At(c, "delete") /\ kind = "node"
  /\ IF incus.project /\ OwnRebuild(incus.stamp, call[c].gen) THEN DeletionEnds(c)
     ELSE UNCHANGED goal /\ (IF incus.project THEN Loop(c, "stop") ELSE Goto(c, "del_network"))
  /\ UNCHANGED <<incus, inst, job>> /\ NodeKeeps

(* First every running node is stopped, then every node deleted; each is   *)
(* looked up, then acted on, and may be gone or busy by then.              *)
GetInstance(c) ==
  /\ call[c].pc \in {"stop", "remove"} /\ call[c].at \in Nodes
  /\ LET i == inst[call[c].at] IN
     IF i.state = "none" \/ (At(c, "stop") /\ i.state # "running")
     THEN NextNode(c, call[c].pc, call[c].ops)
     ELSE Goto(c, IF At(c, "stop") THEN "stopping" ELSE "removing")
  /\ UNCHANGED incus /\ Unmoved /\ NodeKeeps

StopOrDeleteInstance(c) ==
  /\ call[c].pc \in {"stopping", "removing"}
  /\ LET n == call[c].at
         what == IF At(c, "stopping") THEN "stop" ELSE "delete" IN
     IF inst[n].state = "none" THEN NotFoundAnswer(c) /\ UNCHANGED job
     ELSE /\ UNCHANGED goal
          /\ IF job[n] # "none" THEN EndCall(c) /\ UNCHANGED job
             ELSE /\ job' = [job EXCEPT ![n] = what]
                  /\ NextNode(c, IF what = "stop" THEN "stop" ELSE "remove", call[c].ops \cup {n})
  /\ UNCHANGED <<incus, inst>> /\ NodeKeeps

WaitStopped(c) ==
  /\ At(c, "stop") /\ call[c].at \notin Nodes /\ Finished(c, "stop")
  /\ Loop(c, "remove")
  /\ UNCHANGED incus /\ Unmoved /\ NodeKeeps

WaitDeleted(c) ==
  /\ At(c, "remove") /\ call[c].at \notin Nodes /\ Finished(c, "delete")
  /\ Loop(c, "del_image")
  /\ UNCHANGED incus /\ Unmoved /\ NodeKeeps

Populated == \E n \in Nodes : inst[n].state # "none"

(* deleteXIfPresent: the server refuses what is still in use.              *)
DeleteIfPresent(c, pc, present, inUse, after, next) ==
  /\ At(c, pc)
  /\ IF present /\ inUse THEN EndCall(c) /\ UNCHANGED incus
     ELSE incus' = after /\ Goto(c, next)
  /\ Unmoved /\ NodeKeeps

DeleteImageIfPresent(c) ==
  DeleteIfPresent(c, "del_image", incus.image, FALSE, [incus EXCEPT !.image = FALSE], "del_profile")
DeleteProfileIfPresent(c) ==
  DeleteIfPresent(c, "del_profile", incus.profile, Populated,
                  [incus EXCEPT !.profile = FALSE], "del_project")
DeleteProject(c) ==
  DeleteIfPresent(c, "del_project", incus.project, Populated \/ incus.image \/ incus.profile,
                  [incus EXCEPT !.project = FALSE, !.stamp = 0], "del_network")
DeleteNetworkIfPresent(c) ==
  DeleteIfPresent(c, "del_network", incus.net # 0, Populated,
                  [incus EXCEPT !.net = 0], "del_acl")

DeleteACLIfPresent(c) ==
  /\ At(c, "del_acl")
  /\ IF incus.acl /\ incus.net # 0 THEN EndCall(c) /\ UNCHANGED <<goal, incus>>
     ELSE incus' = [incus EXCEPT !.acl = FALSE] /\ DeletionEnds(c)
  /\ UNCHANGED <<inst, job>> /\ NodeKeeps

(* The Incus server ends an operation.  An instance can only be created in *)
(* a project that exists, with its image, profile and network.             *)
Creatable == incus.project /\ incus.image /\ incus.profile /\ incus.net # 0

JobEnds(n) ==
  /\ job[n] # "none" /\ job' = [job EXCEPT ![n] = "none"]
  /\ inst' = [inst EXCEPT ![n] =
       CASE job[n] = "create" ->
              IF Creatable /\ @.state = "none"
              THEN [state |-> "stopped", init |-> "pending", addr |-> incus.net, born |-> resets]
              ELSE @
         [] job[n] = "start" -> IF @.state = "stopped" THEN [@ EXCEPT !.state = "running"] ELSE @
         [] job[n] = "stop" -> IF @.state = "running" THEN [@ EXCEPT !.state = "stopped"] ELSE @
         [] job[n] = "delete" -> NoInstance]
  /\ UNCHANGED <<kind, goal, resets, call, incus, k8s, world, failures>>

(* The initializer of a node that runs writes its result.                  *)
NodeInitializes(n, result) ==
  /\ inst[n].state = "running" /\ inst[n].init = "pending"
  /\ inst' = [inst EXCEPT ![n].init = result]
  /\ UNCHANGED <<kind, goal, resets, call, incus, job, k8s, world, failures>>

-----------------------------------------------------------------------------
(* Provisioning a virtual cluster.                                         *)

ClusterKeeps == UNCHANGED <<kind, resets, node, world, failures>>

EnsureNamespace(c) ==
  /\ At(c, "namespace")
  /\ IF k8s.state # "absent"
     THEN /\ UNCHANGED k8s
          /\ IF OwnedByRequest(c) THEN Goto(c, "access") ELSE EndCall(c)
     ELSE /\ k8s' = [NoNamespace EXCEPT !.state = "active", !.stamp = call[c].gen]
          /\ Goto(c, "access")
  /\ UNCHANGED goal /\ ClusterKeeps

(* Nothing can be created in a namespace that is going away.               *)
EnsureInNamespace(c, pc, present, after, next) ==
  /\ At(c, pc)
  /\ IF present THEN UNCHANGED k8s /\ Goto(c, next)
     ELSE IF k8s.state # "active" THEN UNCHANGED k8s /\ EndCall(c)
     ELSE k8s' = after /\ Goto(c, next)
  /\ UNCHANGED goal /\ ClusterKeeps

(* The pull secret, the service account and, to verify, the right to exec. *)
EnsureAccess(c) ==
  EnsureInNamespace(c, "access", k8s.access, [k8s EXCEPT !.access = TRUE], "vcluster")

(* The StatefulSet is there, and its network policies are as asked.        *)
VClusterMatches == k8s.vcluster = "whole"
CreateOrUpgrade == [k8s EXCEPT !.vcluster = "whole"]

EnsureVCluster(c) ==
  EnsureInNamespace(c, "vcluster", VClusterMatches, CreateOrUpgrade, "policy")

(* The command was killed at its timeout, half-way through the release.    *)
VClusterTimesOut(c) ==
  /\ At(c, "vcluster") /\ k8s.state = "active" /\ k8s.vcluster = "none"
  /\ Failure /\ EndCall(c)
  /\ k8s' = [k8s EXCEPT !.vcluster = "partial"]
  /\ UNCHANGED <<kind, goal, resets, node, world>>

EnsureTerminalNetworkPolicy(c) ==
  EnsureInNamespace(c, "policy", k8s.policy, [k8s EXCEPT !.policy = TRUE], "plane")

(* Until the control plane is ready and has its kubeconfig, there is only  *)
(* an observation that says so.                                            *)
ControlPlaneReady(c) ==
  /\ At(c, "plane")
  /\ IF k8s.plane THEN Goto(c, "kubeconfig") ELSE EndCall(c)
  /\ UNCHANGED <<goal, k8s>> /\ ClusterKeeps

UpsertKubeconfig(c) ==
  EnsureInNamespace(c, "kubeconfig", k8s.secret, [k8s EXCEPT !.secret = TRUE], "terminal")

EnsureTerminal(c) ==
  EnsureInNamespace(c, "terminal", k8s.terminal # "none",
                    [k8s EXCEPT !.terminal = "starting", !.born = resets], "observe_terminal")

ObserveTerminal(c) ==
  /\ At(c, "observe_terminal")
  /\ Observed(c, k8s.terminal = "success")
  /\ UNCHANGED k8s /\ ClusterKeeps

-----------------------------------------------------------------------------
(* Deleting a virtual cluster: one call asks for it, a later one finds the *)
(* namespace gone.                                                         *)

DeleteVK8s(c) ==
  /\ At(c, "delete") /\ kind # "node"
  /\ CASE k8s.state = "absent" -> DeletionEnds(c)
       [] k8s.state # "absent" /\ ~OwnedByRequest(c) -> EndCall(c) /\ UNCHANGED goal
       [] k8s.state # "absent" /\ OwnedByRequest(c) ->
            IF OwnRebuild(k8s.stamp, call[c].gen) THEN DeletionEnds(c)
            ELSE Goto(c, "del_vcluster") /\ UNCHANGED goal
  /\ UNCHANGED k8s /\ ClusterKeeps

DeleteVCluster(c) ==
  /\ At(c, "del_vcluster")
  /\ k8s' = [k8s EXCEPT !.vcluster = "none", !.plane = FALSE]
  /\ Goto(c, "del_namespace")
  /\ UNCHANGED goal /\ ClusterKeeps

DeleteNamespace(c) ==
  /\ At(c, "del_namespace")
  /\ k8s' = IF k8s.state = "active" THEN [k8s EXCEPT !.state = "terminating"] ELSE k8s
  /\ EndCall(c)
  /\ UNCHANGED goal /\ ClusterKeeps

(* Kubernetes: a namespace goes with everything in it; a control plane     *)
(* comes up; the terminal's initializer ends.                              *)
NamespaceGoes ==
  /\ k8s.state = "terminating"
  /\ k8s' = NoNamespace
  /\ UNCHANGED <<kind, goal, resets, call, node, world, failures>>

ControlPlaneStarts ==
  /\ k8s.state = "active" /\ k8s.vcluster = "whole" /\ ~k8s.plane
  /\ k8s' = [k8s EXCEPT !.plane = TRUE]
  /\ UNCHANGED <<kind, goal, resets, call, node, world, failures>>

TerminalInitializes(result) ==
  /\ k8s.state = "active" /\ k8s.terminal = "starting"
  /\ k8s' = [k8s EXCEPT !.terminal = result]
  /\ UNCHANGED <<kind, goal, resets, call, node, world, failures>>

-----------------------------------------------------------------------------
(* What the environment's phase asks for, and what others do.              *)

ResetAsked ==
  /\ goal \in {"ready", "reset"} /\ resets < MaxResets
  /\ resets' = resets + 1 /\ goal' = "reset"
  /\ UNCHANGED <<kind, call, node, k8s, world, failures>>

(* Draining: the lease ran out, or the owner is done.  The Controller does *)
(* not hand over an environment while it is in a call for it.              *)
ReleaseAsked ==
  /\ goal \in {"provision", "reset", "ready", "failed"} /\ At(ControllerCaller, "idle")
  /\ goal' = "release"
  /\ UNCHANGED <<kind, resets, call, node, k8s, world, failures>>

OthersTake(s) ==
  /\ kind = "node" /\ taken < MaxTaken /\ s \notin others /\ s # incus.net
  /\ others' = others \cup {s} /\ taken' = taken + 1
  /\ UNCHANGED <<kind, goal, resets, call, node, k8s, upgraded, failures>>

OthersLeave(s) ==
  /\ s \in others
  /\ others' = others \ {s}
  /\ UNCHANGED <<kind, goal, resets, call, node, k8s, taken, upgraded, failures>>

(* A Controller with another runtime profile takes over; calls in progress *)
(* end with the old one.                                                   *)
Upgrade ==
  /\ ~upgraded /\ Failure
  /\ upgraded' = TRUE
  /\ call' = [c \in Callers |-> NoCall]
  /\ k8s' = [k8s EXCEPT !.stale = k8s.state # "absent" /\ kind = "blank"]
  /\ UNCHANGED <<kind, goal, resets, node, others, taken>>

-----------------------------------------------------------------------------
Provisioning(c) ==
  \/ EnsureEnvironmentACL(c) \/ EnsureEnvironmentNetwork(c) \/ CreateNetwork(c)
  \/ EnsureEnvironmentProject(c) \/ EnsureEnvironmentImage(c) \/ EnsureEnvironmentProfile(c)
  \/ EnsureEnvironmentInstance(c) \/ WaitCreated(c) \/ WaitStarted(c) \/ ObserveNodeEnvironment(c)
  \/ EnsureNamespace(c) \/ EnsureAccess(c) \/ EnsureVCluster(c) \/ EnsureTerminalNetworkPolicy(c)
  \/ ControlPlaneReady(c) \/ UpsertKubeconfig(c) \/ EnsureTerminal(c) \/ ObserveTerminal(c)

Deleting(c) ==
  \/ DeleteNodeEnvironment(c) \/ GetInstance(c) \/ StopOrDeleteInstance(c)
  \/ WaitStopped(c) \/ WaitDeleted(c)
  \/ DeleteImageIfPresent(c) \/ DeleteProfileIfPresent(c) \/ DeleteProject(c)
  \/ DeleteNetworkIfPresent(c) \/ DeleteACLIfPresent(c)
  \/ DeleteVK8s(c) \/ DeleteVCluster(c) \/ DeleteNamespace(c)

(* One step of the environment's own machinery.                            *)
Work ==
  \/ StartCall \/ RejectRequest
  \/ Provisioning(ControllerCaller) \/ Deleting(ControllerCaller)
Teardown(r) == StartRelease(r) \/ Deleting(r) \/ CallIsMoot(r)
Platform ==
  \/ \E n \in Nodes : JobEnds(n)
  \/ \E n \in Nodes, result \in {"success", "failure"} : NodeInitializes(n, result)
  \/ NamespaceGoes \/ ControlPlaneStarts
  \/ \E result \in {"success", "failure"} : TerminalInitializes(result)

ResourceNext ==
  \/ Work \/ (\E r \in ReaperCallers : Teardown(r)) \/ Platform
  \/ \E c \in Callers : CallFails(c) \/ VClusterTimesOut(c)
  \/ ResetAsked \/ ReleaseAsked \/ Upgrade
  \/ \E s \in Slots : OthersTake(s) \/ OthersLeave(s)

ResourceSpec == ResourceInit /\ [][ResourceNext]_resourceVars

(* A failed call is repeated; some Reaper goes on; the provider ends what  *)
(* it has begun; other environments run out.                               *)
ResourceFairSpec ==
  /\ ResourceSpec
  /\ WF_resourceVars(Work) /\ WF_resourceVars(Platform)
  /\ WF_resourceVars(\E r \in ReaperCallers : Teardown(r))
  /\ WF_resourceVars(\E s \in Slots : OthersLeave(s))

-----------------------------------------------------------------------------
(* Properties.                                                             *)

(* The types, with what each caller may be in the middle of.               *)
ProviderTypeOK ==
  /\ kind \in Kinds /\ goal \in Goals /\ resets \in Generations
  /\ call \in [Callers -> Call]
  /\ incus \in Incus /\ inst \in [Nodes -> Instance] /\ job \in [Nodes -> Jobs]
  /\ k8s \in Namespace
  /\ others \subseteq Slots /\ taken \in 0 .. MaxTaken /\ upgraded \in BOOLEAN
  /\ failures \in 0 .. MaxFailures

(* A release that is reported has removed everything, for good: an         *)
(* operation that a crashed caller left at the Incus server cannot bring   *)
(* an instance back, and a Reaper that meets a resource another one just   *)
(* deleted does not take that for the end (Release, Delete).               *)
ReleasedMeansGone ==
  goal = "released" =>
    incus = NoIncus /\ ~Populated /\ k8s.state = "absent"

(* What is ready after a reset was built for it: every node, or the        *)
(* terminal, was created after the last reset request that was carried     *)
(* out, whatever calls failed on the way (Reset, the generation stamps).   *)
ReadyIsRebuilt ==
  goal = "ready" =>
    IF kind = "node" THEN \A n \in Nodes : inst[n].born = resets
    ELSE k8s.born = resets

(* Nothing that a learner's commands reach exists without its fence: an    *)
(* instance has its ACL, the restricted project and the addresses of its   *)
(* own network; a terminal has its network policy (Provision's order and   *)
(* Delete's, and the validations that stop a call).                        *)
NothingRunsUnfenced ==
  /\ \A n \in Nodes : inst[n].state # "none" =>
       incus.acl /\ incus.project /\ incus.profile /\ inst[n].addr = incus.net /\ incus.net # 0
  /\ k8s.state = "active" /\ k8s.terminal # "none" => k8s.policy /\ k8s.secret

(* A teardown that was asked for ends, whatever failed, unless the runtime *)
(* profile of the environment is no longer the installed one; a blank      *)
(* environment is torn down even then (Release, k8sReleaseRequest).        *)
ReleaseCompletes ==
  goal = "release" ~> (goal = "released" \/ (upgraded /\ kind # "blank"))

InitializerFailed ==
  (\E n \in Nodes : inst[n].init = "failure") \/ k8s.terminal = "failure"

(* A provision or a reset ends: with a ready environment, with a failed    *)
(* initializer, or because something else was asked for (a retry finds and *)
(* keeps what earlier calls built).                                        *)
ProvisionCompletes ==
  goal \in {"provision", "reset"} ~>
    (goal \notin {"provision", "reset"} \/ InitializerFailed \/ k8s.stale)
(* Ready is rebuilt, released is gone, and whatever exists is fenced.      *)
ResourceInvariant ==
  /\ ProviderTypeOK
  /\ ReleasedMeansGone
  /\ ReadyIsRebuilt
  /\ NothingRunsUnfenced

(* Building and teardown both come to an end.                              *)
CallsComplete == ReleaseCompletes /\ ProvisionCompletes
=============================================================================
