------------------------ MODULE MCGenerationWorkflow ------------------------
(* Instances of GenerationWorkflow for TLC.                                *)
EXTENDS GenerationWorkflow

CONSTANTS w1, w2, k1, k2

MCWorkflows == {w1, w2}
MCKeys == {k1, k2}

(* Two repair rounds of one workflow with a fault, one round with two; and *)
(* two workflows in the coordinator's passes.                              *)
MCWorkloads ==
  {[workflows |-> {w1}, keys |-> {k1, k2}, faults |-> 1],
   [workflows |-> {w1}, keys |-> {k1}, faults |-> 2],
   [workflows |-> {w1, w2}, keys |-> {k1}, faults |-> 0]}
=============================================================================
