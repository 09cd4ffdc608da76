----------------------- MODULE MCLearningProjection -------------------------
(* A scenario that is solved while requests come one at a time, one with   *)
(* two requests at a time and no learner, the playground with two requests *)
(* at a time, and the playground with two terminals and a request.         *)
EXTENDS LearningProjection

CONSTANTS u1, u2, c1, c2, s1, s2, t1, t2
MCUIDs == {u1, u2}
MCCallers == {c1, c2}
MCSockets == {s1, s2}
MCTickets == {t1, t2}
MCWorkloads ==
  {[kind |-> "scenario", callers |-> {c1}, sockets |-> {}, tasks |-> Checkpoints,
    requests |-> 1, faults |-> 1],
   [kind |-> "scenario", callers |-> MCCallers, sockets |-> {}, tasks |-> {},
    requests |-> 2, faults |-> 0],
   [kind |-> "playground", callers |-> MCCallers, sockets |-> {}, tasks |-> {},
    requests |-> 2, faults |-> 0],
   [kind |-> "playground", callers |-> {c1}, sockets |-> MCSockets, tasks |-> {},
    requests |-> 1, faults |-> 1]}
=============================================================================
