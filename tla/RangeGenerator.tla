--------------------------- MODULE RangeGenerator ---------------------------
(***************************************************************************)
(* The generators that cut the ledgers to catch up into jobs:              *)
(* uniform_range_generator.sh, logarithmic_range_generator.sh and          *)
(* getCatchupRanges of MissionCatchupHelpers.fs.  A job "L/n" catches up   *)
(* to ledger L and applies the n ledgers that end with L.  The loops are   *)
(* state machines here, one iteration per step.                            *)
(***************************************************************************)
EXTENDS Integers

CONSTANTS Inputs  \* the parameter sets to run the generators on

ASSUME InputsAssumption ==
  Inputs \subseteq [strategy : {"uniform", "logarithmic"}, start : Nat, latest : Nat,
                    perJob : Nat \ {0}, overlap : Nat, floor : Nat \ {0},
                    parallelism : Nat \ {0}]

VARIABLES
  in,     \* the parameters of this run
  gpc,    \* "loop": in generate_uniform;  "outer": in the logarithmic loop;
          \* "done"
  sl,     \* lower end of the current call of generate_uniform, exclusive
  el,     \* upper end of what is left of it
  seg,    \* segment size of the current call
  start,  \* startLedger of the logarithmic loop
  end,    \* endLedger
  chunk,  \* chunkSize
  last,   \* the current call is the final one
  out     \* the jobs pushed to ranges

genVars == <<in, gpc, sl, el, seg, start, end, chunk, last, out>>

GenTypeOK ==
  /\ in \in Inputs
  /\ gpc \in {"loop", "outer", "done"}
  /\ sl \in Int /\ el \in Int /\ seg \in Nat
  /\ start \in Int /\ end \in Int /\ chunk \in Int
  /\ last \in BOOLEAN
  /\ out \subseteq [to : Int, count : Int]

\* Integer division of the shell: truncates towards zero.
Quot(a, b) == IF a >= 0 THEN a \div b ELSE -((-a) \div b)

GenInit ==
  /\ in \in Inputs
  /\ out = {}
  /\ IF in.strategy = "uniform"
     THEN /\ gpc = "loop" /\ last = TRUE
          /\ sl = in.start /\ el = in.latest /\ seg = in.perJob
          /\ start = in.start /\ end = in.latest /\ chunk = in.perJob
     ELSE /\ gpc = "outer" /\ last = FALSE
          /\ sl = 0 /\ el = 0 /\ seg = 0
          /\ start = in.start /\ end = Quot(in.latest, 2)
          /\ chunk = Quot(Quot(in.latest, 2) - in.start + 1, in.parallelism)

(* One job.  The uniform generator always takes whole segments; the           *)
(* logarithmic one clamps the last segment of a call to what is left of it.   *)
Segment ==
  IF in.strategy = "logarithmic" /\ el - sl < seg THEN el - sl ELSE seg

\* Mutant of PushRange: stops one ledger early.
PushRangeShort ==
  /\ gpc = "loop"
  /\ el > sl
  /\ out' = out \cup {[to |-> el, count |-> Segment + in.overlap - 1]}
  /\ el' = el - Segment
  /\ UNCHANGED <<in, gpc, sl, seg, start, end, chunk, last>>

PushRange ==
  /\ gpc = "loop"
  /\ el > sl
  /\ out' = out \cup {[to |-> el, count |-> Segment + in.overlap]}
  /\ el' = el - Segment
  /\ UNCHANGED <<in, gpc, sl, seg, start, end, chunk, last>>

(* A call of generate_uniform returns: to the end of the script, or to the    *)
(* logarithmic loop, which moves on to a chunk of half the size.              *)
EndCall ==
  /\ gpc = "loop"
  /\ el <= sl
  /\ IF last
     THEN gpc' = "done" /\ UNCHANGED <<start, end, chunk>>
     ELSE /\ gpc' = "outer"
          /\ start' = end + 1
          /\ chunk' = Quot(chunk, 2)
          /\ end' = end + 1 + Quot(chunk, 2) * in.parallelism
  /\ UNCHANGED <<in, sl, el, seg, last, out>>

\* Mutant of CallRest: the rest is cut by the last chunk size, not the floor.
CallRestUnset ==
  /\ gpc = "outer"
  /\ chunk <= in.floor
  /\ sl' = end + 1 /\ el' = in.latest /\ seg' = chunk
  /\ last' = TRUE
  /\ gpc' = "loop"
  /\ UNCHANGED <<in, start, end, chunk, out>>

(* The logarithmic loop: one call per chunk while chunks exceed the floor,    *)
(* then a final call for the rest.                                            *)
CallChunk ==
  /\ gpc = "outer"
  /\ chunk > in.floor
  /\ sl' = start /\ el' = end /\ seg' = chunk
  /\ gpc' = "loop"
  /\ UNCHANGED <<in, start, end, chunk, last, out>>

CallRest ==
  /\ gpc = "outer"
  /\ chunk <= in.floor
  /\ sl' = end + 1 /\ el' = in.latest /\ seg' = in.floor
  /\ last' = TRUE
  /\ gpc' = "loop"
  /\ UNCHANGED <<in, start, end, chunk, out>>

Finished == gpc = "done" /\ UNCHANGED genVars

GenNext == PushRange \/ EndCall \/ CallChunk \/ CallRest \/ Finished

GenSpec == GenInit /\ [][GenNext]_genVars

-----------------------------------------------------------------------------

\* Some job applies ledger x.
Applied(x) == \E job \in out : job.to - job.count < x /\ x <= job.to

(* Every ledger after the starting one up to the latest is applied by some    *)
(* job of the uniform generator, whether or not the segments divide the range *)
(* evenly: a mission that drains the queue has replayed the whole range.      *)
UniformCoversRange ==
  gpc = "done" /\ in.strategy = "uniform" =>
     \A x \in (in.start + 1)..in.latest : Applied(x)

(* The logarithmic generator misses nothing but the chunk on which its loop   *)
(* stops, from startLedger to endLedger, and the ledger after it: the jobs of *)
(* two neighbouring calls meet because of the overlap, and the last call      *)
(* starts after that chunk.                                                   *)
LogarithmicGapIsLastChunk ==
  gpc = "done" /\ in.strategy = "logarithmic" /\ in.overlap > 0 =>
     \A x \in (in.start + 1)..in.latest : Applied(x) \/ x \in start..(end + 1)
=============================================================================
