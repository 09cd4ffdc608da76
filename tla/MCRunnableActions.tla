------------------------- MODULE MCRunnableActions -------------------------
(* Instances of RunnableActions for TLC.                                   *)
EXTENDS RunnableActions, TLC

CONSTANTS m1, v1, w1, w2

MCMaterializations == {m1}
MCVerifications == {v1}
MCMaterializationOf == v1 :> m1
MCWorkers == {w1, w2}

(* The curve with its first delay at one tick and its cap at two.          *)
Curve == INSTANCE RetryBackoff WITH RetryBackoffCap <- 2, DefaultBase <- 1
MCBackoff == [n \in 1 .. MaxAttempts |-> Curve!RetryBackoff(1, n)]
=============================================================================
