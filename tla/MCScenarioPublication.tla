----------------------- MODULE MCScenarioPublication -----------------------
(* Instances of ScenarioPublication for TLC.                               *)
EXTENDS ScenarioPublication, TLC

CONSTANTS w1, w2, w3, s1, s2, s3

(* Two authors revise Original at the same time, a third creates.          *)
MCWorkflows == {w1, w2, w3}
MCSessions == {s1, s2, s3}
MCSessionOf == w1 :> s1 @@ w2 :> s2 @@ w3 :> s3
MCRevising == {s1, s2}

(* One author revises, another creates.                                    *)
MCTwoWorkflows == {w1, w2}
MCTwoSessions == {s1, s2}
MCTwoSessionOf == w1 :> s1 @@ w2 :> s2
MCOneRevising == {s1}
=============================================================================
