-------------------------- MODULE MCRangeGenerator --------------------------
(* Small inputs for RangeGenerator. *)
EXTENDS RangeGenerator

CONSTANT MaxLedger, Strategies

MCInputs ==
  {i \in [strategy : Strategies, start : 0..MaxLedger, latest : 0..MaxLedger,
          perJob : 1..4, overlap : 0..2, floor : 1..2, parallelism : 1..3] :
     /\ i.strategy = "uniform" => i.floor = 1 /\ i.parallelism = 1
     /\ i.strategy = "logarithmic" => i.perJob = 1}
=============================================================================
