------------------------ MODULE MCRuntimeEnvironment ------------------------
(* Instances of RuntimeEnvironment for TLC.                                *)
EXTENDS RuntimeEnvironment, TLC

CONSTANTS r1, r2

MCReapers == {r1, r2}

Cluster == [provider |-> "k8s", content |-> "operations", reapers |-> {r1},
            resets |-> 1, renewals |-> 1, faults |-> 0, lag |-> 2]

(* A copy two versions behind while a renewal races a reset, a renewal     *)
(* races a fault, and a reset races a fault; and every kind of environment *)
(* with two Reapers.                                                       *)
MCWorkloads ==
  {Cluster, [Cluster EXCEPT !.resets = 0, !.faults = 1],
   [Cluster EXCEPT !.renewals = 0, !.faults = 1]}
  \cup [provider : {"node", "k8s"}, content : {"operations", "other"}, reapers : {{r1, r2}},
        resets : {1}, renewals : {0}, faults : {1}, lag : {1}]
=============================================================================
