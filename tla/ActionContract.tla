--------------------------- MODULE ActionContract ---------------------------
(***************************************************************************)
(* What the runnable action queue promises to the coordinators that        *)
(* schedule work on it (Generation, CatalogRelease): an action that was    *)
(* scheduled stays pending until it ends in exactly one of three ways.     *)
(* A completed action and an artifact failure are cached for ever; only an *)
(* infrastructure failure can be given a second life by scheduling again.  *)
(* Attempts, leases, workers and retries are invisible at this level.      *)
(***************************************************************************)
CONSTANT Actions

VARIABLE status

Statuses == {"none", "pending", "completed", "artifact-failed", "infra-failed"}

ContractTypeOK == status \in [Actions -> Statuses]

ContractInit == status = [a \in Actions |-> "none"]

(* ScheduleMaterialization / ScheduleVerification seen from outside.       *)
Schedule(a) ==
  /\ status[a] \in {"none", "infra-failed"}
  /\ status' = [status EXCEPT ![a] = "pending"]

(* One action reaches the end of its attempts.                             *)
Settle(a, s) ==
  /\ status[a] = "pending"
  /\ status' = [status EXCEPT ![a] = s]

ContractNext ==
  \E a \in Actions :
     \/ Schedule(a)
     \/ \E s \in {"completed", "artifact-failed", "infra-failed"} : Settle(a, s)

ContractSpec == ContractInit /\ [][ContractNext]_status
=============================================================================
