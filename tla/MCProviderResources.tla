------------------------ MODULE MCProviderResources -------------------------
(* Both runtimes, the blank environment and an overlap of two Reapers.     *)
EXTENDS ProviderResources

CONSTANTS c, r1, r2
MCReapers == {r1, r2}
MCKinds == {"node", "k8s", "blank"}
=============================================================================
