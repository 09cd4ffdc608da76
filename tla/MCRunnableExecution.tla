------------------------ MODULE MCRunnableExecution -------------------------
(* Two workers, a node and a K8s revision.                                 *)
EXTENDS RunnableExecution

CONSTANTS w1, w2
MCWorkers == {w1, w2}
MCRuntimes == {"node", "k8s"}
=============================================================================
