-------------------------- MODULE MCCatchupQueues --------------------------
(* Instances of CatchupQueues for TLC. *)
EXTENDS CatchupQueues

Symmetry == Permutations(Jobs) \cup Permutations(Workers)

(* The state without the figures of the published status, which no action of  *)
(* CatchupQueues reads: of them only what the properties ask is kept.         *)
WithoutFigures ==
  <<redisVars, faults, workerVars, mpc, passVars, preloaded, status.retirable,
    status.remain = 0 /\ status.inProgress = 0 /\ ~status.reread>>
=============================================================================
