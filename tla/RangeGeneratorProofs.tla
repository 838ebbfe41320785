------------------------ MODULE RangeGeneratorProofs ------------------------
(***************************************************************************)
(* What the range generators cover, for every input: any ledgers, segment  *)
(* sizes, overlaps, floors and degrees of parallelism.                     *)
(***************************************************************************)
EXTENDS RangeGenerator, TLAPS

\* Every ledger above lo and up to hi is applied by one of the jobs.
Covers(jobs, lo, hi) ==
  \A x \in Int : lo < x /\ x <= hi => \E job \in jobs : job.to - job.count < x /\ x <= job.to

(* The shell's division yields an integer, and a quotient above 1 needs a     *)
(* numerator above 1.                                                         *)
LEMMA Division ==
  ASSUME NEW a \in Int, NEW b \in Nat \ {0}
  PROVE  /\ Quot(a, b) \in Int
         /\ Quot(a, b) > 1 => a > 1
<1>1. a \div b \in Int /\ (-a) \div b \in Int
  OBVIOUS
<1>2. a >= 0 => b * (a \div b) <= a
  OBVIOUS
<1>3. a < 0 => (-a) \div b >= 0
  OBVIOUS
<1>4. ASSUME a >= 0, a \div b > 1
      PROVE  a > 1
  <2>1. b * (a \div b) >= a \div b
    BY <1>1, <1>4
  <2> QED BY <1>1, <1>2, <1>4, <2>1
<1> QED BY <1>1, <1>3, <1>4 DEF Quot

(* What the parameters are. *)
LEMMA InputTypes ==
  ASSUME in \in Inputs
  PROVE  /\ in.strategy \in {"uniform", "logarithmic"}
         /\ in.start \in Nat /\ in.latest \in Nat /\ in.perJob \in Nat \ {0}
         /\ in.overlap \in Nat /\ in.floor \in Nat \ {0} /\ in.parallelism \in Nat \ {0}
BY InputsAssumption

-----------------------------------------------------------------------------
(* Types. *)

(* The generators' variables keep their types. *)
LEMMA GenTypeStep == GenTypeOK /\ [GenNext]_genVars => GenTypeOK'
<1> SUFFICES ASSUME GenTypeOK, [GenNext]_genVars PROVE GenTypeOK'
  OBVIOUS
<1> USE InputTypes DEF GenTypeOK
<1>1. CASE PushRange
  <2>1. Segment \in Int
    BY DEF Segment
  <2> QED BY <1>1, <2>1 DEF PushRange
<1>2. CASE EndCall
  <2>1. Quot(chunk, 2) \in Int
    BY Division
  <2>2. Quot(chunk, 2) * in.parallelism \in Int
    BY <2>1
  <2> QED BY <1>2, <2>1, <2>2 DEF EndCall
<1>3. CASE CallChunk
  BY <1>3 DEF CallChunk
<1>4. CASE CallRest
  BY <1>4 DEF CallRest
<1>5. CASE Finished \/ UNCHANGED genVars
  BY <1>5 DEF Finished, genVars
<1> QED BY <1>1, <1>2, <1>3, <1>4, <1>5 DEF GenNext

(* The initial state. *)
LEMMA GenTypeInit == GenInit => GenTypeOK
<1> SUFFICES ASSUME GenInit PROVE GenTypeOK
  OBVIOUS
<1>1. in \in Inputs
  BY DEF GenInit
<1>2. Quot(in.latest, 2) \in Int
  BY <1>1, InputTypes, Division
<1>3. Quot(in.latest, 2) - in.start + 1 \in Int /\ in.parallelism \in Nat \ {0}
  BY <1>1, <1>2, InputTypes
<1>4. Quot(Quot(in.latest, 2) - in.start + 1, in.parallelism) \in Int
  BY <1>3, Division
<1>5. CASE in.strategy = "uniform"
  BY <1>1, <1>5, InputTypes DEF GenInit, GenTypeOK
<1>6. CASE in.strategy # "uniform"
  <2>1. /\ gpc = "outer" /\ last = FALSE /\ sl = 0 /\ el = 0 /\ seg = 0
        /\ start = in.start /\ end = Quot(in.latest, 2)
        /\ chunk = Quot(Quot(in.latest, 2) - in.start + 1, in.parallelism) /\ out = {}
    BY <1>6 DEF GenInit
  <2>2. end \in Int /\ chunk \in Int /\ start \in Int
    BY <1>1, <1>2, <1>4, <2>1, InputTypes
  <2>3. last \in BOOLEAN
    BY <2>1
  <2>4. out \subseteq [to : Int, count : Int]
    BY <2>1
  <2>5. gpc \in {"loop", "outer", "done"} /\ sl \in Int /\ el \in Int /\ seg \in Nat
    BY <2>1
  <2> QED BY <1>1, <2>2, <2>3, <2>4, <2>5 DEF GenTypeOK
<1> QED BY <1>5, <1>6

(* Every reachable state of the generators is well typed. *)
THEOREM GenTypesHold == GenSpec => []GenTypeOK
BY GenTypeInit, GenTypeStep, PTL DEF GenSpec

-----------------------------------------------------------------------------
(* Coverage. *)

(* More jobs cover more. *)
LEMMA CoversMore ==
  ASSUME NEW jobs, NEW more, jobs \subseteq more, NEW lo \in Int, NEW hi \in Int,
         Covers(jobs, lo, hi)
  PROVE  Covers(more, lo, hi)
BY DEF Covers

(* A range covers every one that starts higher. *)
LEMMA CoversLess ==
  ASSUME NEW jobs, NEW lo \in Int, NEW hi \in Int, NEW mid \in Int,
         lo <= mid, Covers(jobs, lo, hi)
  PROVE  Covers(jobs, mid, hi)
BY DEF Covers

(* Nothing lies above hi and up to hi. *)
LEMMA CoversNothing ==
  ASSUME NEW jobs, NEW lo \in Int, NEW hi \in Int, hi <= lo
  PROVE  Covers(jobs, lo, hi)
BY DEF Covers

(* Two ranges that touch or overlap make one. *)
LEMMA CoversJoin ==
  ASSUME NEW jobs, NEW a \in Int, NEW b \in Int, NEW c \in Int, NEW d \in Int,
         c <= b, Covers(jobs, a, b), Covers(jobs, c, d)
  PROVE  Covers(jobs, a, d)
<1> SUFFICES ASSUME NEW x \in Int, a < x, x <= d
             PROVE  \E job \in jobs : job.to - job.count < x /\ x <= job.to
  BY DEF Covers
<1>1. x <= b \/ c < x
  OBVIOUS
<1> QED BY <1>1 DEF Covers

(* A job covers the segment it takes off and the overlap below it. *)
LEMMA PushCovers ==
  ASSUME GenTypeOK, PushRange
  PROVE  /\ Segment \in Nat /\ el' = el - Segment /\ out \subseteq out'
         /\ \A hi \in Int : Covers(out, el, hi) => Covers(out', el - Segment - in.overlap, hi)
<1>1. Segment \in Nat /\ in.overlap \in Nat /\ el \in Int
  BY InputTypes DEF GenTypeOK, PushRange, Segment
<1>2. out \subseteq out' /\ [to |-> el, count |-> Segment + in.overlap] \in out' /\ el' = el - Segment
  BY DEF PushRange
<1> DEFINE low == el - Segment - in.overlap
<1>3. Covers(out', low, el)
  <2> SUFFICES ASSUME NEW x \in Int, low < x, x <= el
               PROVE  \E job \in out' : job.to - job.count < x /\ x <= job.to
    BY DEF Covers
  <2>1. el - (Segment + in.overlap) < x
    BY <1>1
  <2> QED BY <1>2, <2>1
<1>4. ASSUME NEW hi \in Int, Covers(out, el, hi)
      PROVE  Covers(out', low, hi)
  <2>1. Covers(out', el, hi)
    BY <1>1, <1>2, <1>4, CoversMore
  <2>2. low \in Int
    BY <1>1
  <2> HIDE DEF low
  <2> QED BY <1>1, <1>3, <2>1, <2>2, CoversJoin
<1> QED BY <1>1, <1>2, <1>4

(* The invariant of the uniform generator: everything above what is left has  *)
(* been handed out.                                                           *)
UniformInv ==
  in.strategy = "uniform" =>
    /\ gpc \in {"loop", "done"} /\ last = TRUE
    /\ sl = in.start
    /\ Covers(out, el, in.latest)
    /\ gpc = "done" => el <= sl

(* The parts of the invariant of the logarithmic one.  Below startLedger        *)
(* everything is handed out; a call of generate_uniform has handed out what it  *)
(* has passed, and its overlap below that; the last call ends at latest.        *)
InOuter == last = FALSE /\ (chunk > in.floor => end > start)

InChunk ==
  /\ sl = start /\ end > start /\ sl <= el /\ el <= end
  /\ el < end => Covers(out, el - in.overlap, end)

InRest == sl = end + 1 /\ Covers(out, el, in.latest)

LogarithmicInv ==
  in.strategy = "logarithmic" /\ in.overlap > 0 =>
    /\ Covers(out, in.start, start - 1)
    /\ gpc = "outer" => InOuter
    /\ gpc = "loop" /\ last = FALSE => InChunk
    /\ gpc = "loop" /\ last = TRUE => InRest
    /\ gpc = "done" => Covers(out, end + 1, in.latest)

GenInv == GenTypeOK /\ UniformInv /\ LogarithmicInv

(* Nothing is asked of the initial state but the first chunk's bounds. *)
LEMMA GenInvInit == GenInit => GenInv
<1> SUFFICES ASSUME GenInit PROVE GenInv
  OBVIOUS
<1>1. GenTypeOK
  BY GenTypeInit
<1>2. /\ in.start \in Nat /\ in.latest \in Nat /\ in.floor \in Nat \ {0}
      /\ in.parallelism \in Nat \ {0}
  BY InputTypes DEF GenInit
<1>3. UniformInv
  <2> SUFFICES ASSUME in.strategy = "uniform" PROVE UniformInv
    BY DEF UniformInv
  <2>1. gpc = "loop" /\ last = TRUE /\ sl = in.start /\ el = in.latest
    BY DEF GenInit
  <2>2. Covers(out, in.latest, in.latest)
    BY <1>2, CoversNothing
  <2> QED BY <2>1, <2>2 DEF UniformInv
<1>4. LogarithmicInv
  <2> SUFFICES ASSUME in.strategy = "logarithmic" PROVE LogarithmicInv
    BY DEF LogarithmicInv
  <2>1. /\ gpc = "outer" /\ last = FALSE /\ start = in.start /\ end = Quot(in.latest, 2)
        /\ chunk = Quot(end - start + 1, in.parallelism)
    BY DEF GenInit
  <2>2. end \in Int /\ start \in Nat /\ chunk \in Int
    BY <1>1, <1>2, <2>1 DEF GenTypeOK
  <2>3. end - start + 1 \in Int
    BY <2>2
  <2>4. chunk > 1 => end - start + 1 > 1
    BY <1>2, <2>1, <2>3, Division
  <2>5. chunk > in.floor => end > start
    BY <1>2, <2>2, <2>4
  <2>6. Covers(out, in.start, start - 1)
    BY <1>2, <2>1, <2>2, CoversNothing
  <2> QED BY <2>1, <2>5, <2>6 DEF LogarithmicInv, InOuter
<1> QED BY <1>1, <1>3, <1>4 DEF GenInv

(* Every iteration keeps both invariants. *)
LEMMA GenInvStep == GenInv /\ [GenNext]_genVars => GenInv'
<1> SUFFICES ASSUME GenInv, [GenNext]_genVars PROVE GenInv'
  OBVIOUS
<1>1. GenTypeOK /\ GenTypeOK' /\ UniformInv /\ LogarithmicInv
  BY GenTypeStep DEF GenInv
<1>2. /\ in.start \in Int /\ in.latest \in Int /\ in.overlap \in Nat /\ in.floor \in Nat \ {0}
      /\ in.parallelism \in Nat \ {0} /\ el \in Int /\ sl \in Int /\ start \in Int
      /\ end \in Int /\ chunk \in Int
  BY <1>1, InputTypes DEF GenTypeOK
<1>0. last = TRUE \/ last = FALSE
  BY <1>1 DEF GenTypeOK
<1>3. CASE PushRange
  <2>1. /\ Segment \in Nat /\ el' = el - Segment /\ out \subseteq out'
        /\ \A hi \in Int : Covers(out, el, hi) => Covers(out', el - Segment - in.overlap, hi)
    BY <1>1, <1>3, PushCovers
  <2>2. gpc = "loop" /\ el > sl /\ UNCHANGED <<in, gpc, sl, seg, start, end, chunk, last>>
    BY <1>3 DEF PushRange
  <2>3. ASSUME Covers(out, el, in.latest)
        PROVE  Covers(out', el', in.latest)
    <3>1. Covers(out', el - Segment - in.overlap, in.latest)
      BY <1>2, <2>1, <2>3
    <3>2. el - Segment - in.overlap \in Int /\ el' \in Int /\ el - Segment - in.overlap <= el'
      BY <1>2, <2>1
    <3> QED BY <1>2, <3>1, <3>2, CoversLess
  <2>4. UniformInv'
    BY <1>1, <2>2, <2>3 DEF UniformInv
  <2>5. LogarithmicInv'
    <3> SUFFICES ASSUME in.strategy = "logarithmic", in.overlap > 0 PROVE LogarithmicInv'
      BY <2>2 DEF LogarithmicInv
    <3>1. Covers(out, in.start, start - 1)
      BY <1>1 DEF LogarithmicInv
    <3>2. Covers(out', in.start, start - 1)
      BY <1>2, <2>1, <3>1, CoversMore
    <3>3. CASE last = TRUE
      <4>1. InRest
        BY <1>1, <2>2, <3>3 DEF LogarithmicInv
      <4>2. InRest'
        BY <2>2, <2>3, <4>1 DEF InRest
      <4> QED BY <2>2, <3>2, <3>3, <4>2 DEF LogarithmicInv
    <3>4. CASE last = FALSE
      <4>1. InChunk
        BY <1>1, <2>2, <3>4 DEF LogarithmicInv
      <4>2. Covers(out, el, end)
        <5>1. CASE el < end
          <6>1. Covers(out, el - in.overlap, end) /\ el - in.overlap \in Int /\ el - in.overlap <= el
            BY <1>2, <4>1, <5>1 DEF InChunk
          <6> QED BY <1>2, <6>1, CoversLess
        <5>2. CASE end <= el
          BY <1>2, <5>2, CoversNothing
        <5> QED BY <1>2, <5>1, <5>2
      <4>3. Covers(out', el - Segment - in.overlap, end)
        BY <1>2, <2>1, <4>2
      <4>4. sl <= el'
        BY <1>1, <1>2, <2>1, <2>2 DEF Segment, GenTypeOK
      <4>5. el' <= end
        BY <1>2, <2>1, <4>1 DEF InChunk
      <4>6. InChunk'
        BY <2>1, <2>2, <4>1, <4>3, <4>4, <4>5 DEF InChunk
      <4> QED BY <2>2, <3>2, <3>4, <4>6 DEF LogarithmicInv
    <3> QED BY <1>0, <3>3, <3>4
  <2> QED BY <1>1, <2>4, <2>5 DEF GenInv
<1>4. CASE EndCall /\ last = TRUE
  <2>1. /\ gpc = "loop" /\ gpc' = "done" /\ last' = last /\ el <= sl
        /\ UNCHANGED <<in, sl, el, start, end, chunk, out>>
    BY <1>4 DEF EndCall
  <2>2. UniformInv'
    BY <1>1, <1>4, <2>1 DEF UniformInv
  <2>3. LogarithmicInv'
    <3> SUFFICES ASSUME in.strategy = "logarithmic", in.overlap > 0 PROVE LogarithmicInv'
      BY <2>1 DEF LogarithmicInv
    <3>1. Covers(out, in.start, start - 1) /\ InRest
      BY <1>1, <1>4, <2>1 DEF LogarithmicInv
    <3>2. Covers(out, end + 1, in.latest)
      BY <1>2, <2>1, <3>1, CoversLess DEF InRest
    <3> QED BY <2>1, <3>1, <3>2 DEF LogarithmicInv
  <2> QED BY <1>1, <2>2, <2>3 DEF GenInv
<1>5. CASE EndCall /\ last = FALSE
  <2>1. /\ gpc = "loop" /\ gpc' = "outer" /\ last' = last /\ el <= sl
        /\ start' = end + 1 /\ chunk' = Quot(chunk, 2)
        /\ end' = end + 1 + Quot(chunk, 2) * in.parallelism
        /\ UNCHANGED <<in, sl, el, out>>
    BY <1>5 DEF EndCall
  <2>2. in.strategy = "logarithmic"
    BY <1>1, <1>5, InputTypes DEF UniformInv, GenTypeOK
  <2>3. UniformInv'
    BY <2>1, <2>2 DEF UniformInv
  <2>4. chunk' > in.floor => end' > start'
    <3>1. chunk' \in Int
      BY <1>1 DEF GenTypeOK
    <3>2. chunk' > 0 => chunk' * in.parallelism > 0
      BY <1>2, <3>1
    <3>3. end' = start' + chunk' * in.parallelism /\ start' \in Int
          /\ chunk' * in.parallelism \in Int
      BY <1>2, <2>1, <3>1
    <3>4. chunk' > in.floor => chunk' > 0
      BY <1>2, <3>1
    <3> HIDE DEF Quot
    <3> QED BY <3>2, <3>3, <3>4
  <2>5. LogarithmicInv'
    <3> SUFFICES ASSUME in.overlap > 0 PROVE LogarithmicInv'
      BY <2>1 DEF LogarithmicInv
    <3>1. Covers(out, in.start, start - 1) /\ InChunk
      BY <1>1, <1>5, <2>1, <2>2 DEF LogarithmicInv
    <3>2. el = start /\ Covers(out, start - in.overlap, end)
      BY <1>2, <2>1, <3>1 DEF InChunk
    <3>3. start - 1 \in Int /\ start - in.overlap \in Int /\ start - in.overlap <= start - 1
      BY <1>2
    <3>4. Covers(out, in.start, end)
      BY <1>2, <3>1, <3>2, <3>3, CoversJoin
    <3>5. start' - 1 = end
      BY <1>2, <2>1
    <3> QED BY <1>5, <2>1, <2>4, <3>4, <3>5 DEF LogarithmicInv, InOuter
  <2> QED BY <1>1, <2>3, <2>5 DEF GenInv
<1>6. CASE CallChunk
  <2>1. /\ gpc = "outer" /\ gpc' = "loop" /\ chunk > in.floor /\ sl' = start /\ el' = end
        /\ UNCHANGED <<in, start, end, chunk, last, out>>
    BY <1>6 DEF CallChunk
  <2>2. UniformInv'
    BY <1>1, <2>1 DEF UniformInv
  <2>3. LogarithmicInv'
    <3> SUFFICES ASSUME in.strategy = "logarithmic", in.overlap > 0 PROVE LogarithmicInv'
      BY <2>1 DEF LogarithmicInv
    <3>1. Covers(out, in.start, start - 1) /\ InOuter
      BY <1>1, <2>1 DEF LogarithmicInv
    <3>2. InChunk'
      BY <1>2, <2>1, <3>1 DEF InChunk, InOuter
    <3>3. last' = FALSE
      BY <2>1, <3>1 DEF InOuter
    <3> QED BY <2>1, <3>1, <3>2, <3>3 DEF LogarithmicInv
  <2> QED BY <1>1, <2>2, <2>3 DEF GenInv
<1>7. CASE CallRest
  <2>1. /\ gpc = "outer" /\ gpc' = "loop" /\ last' = TRUE /\ sl' = end + 1 /\ el' = in.latest
        /\ UNCHANGED <<in, start, end, chunk, out>>
    BY <1>7 DEF CallRest
  <2>2. UniformInv'
    BY <1>1, <2>1 DEF UniformInv
  <2>3. InRest'
    <3>1. Covers(out, in.latest, in.latest)
      BY <1>2, CoversNothing
    <3> QED BY <2>1, <3>1 DEF InRest
  <2>4. LogarithmicInv'
    BY <1>1, <2>1, <2>3 DEF LogarithmicInv
  <2> QED BY <1>1, <2>2, <2>4 DEF GenInv
<1>8. CASE Finished \/ UNCHANGED genVars
  BY <1>1, <1>8 DEF Finished, genVars, GenInv, UniformInv, LogarithmicInv, InOuter, InChunk, InRest
<1>9. CASE EndCall
  BY <1>0, <1>4, <1>5, <1>9
<1> QED BY <1>3, <1>6, <1>7, <1>8, <1>9 DEF GenNext

(* The uniform generator covers its whole range: UniformCoversRange for every *)
(* input.                                                                     *)
THEOREM UniformCovers == GenSpec => []UniformCoversRange
<1>1. GenInv => UniformCoversRange
  <2> SUFFICES ASSUME GenInv, gpc = "done", in.strategy = "uniform",
                      NEW x \in (in.start + 1)..in.latest
               PROVE  Applied(x)
    BY DEF UniformCoversRange
  <2>1. in.start \in Nat /\ in.latest \in Nat /\ el \in Int /\ el <= in.start
        /\ Covers(out, el, in.latest)
    BY InputTypes DEF GenInv, GenTypeOK, UniformInv
  <2> QED BY <2>1 DEF Covers, Applied
<1> QED BY <1>1, GenInvInit, GenInvStep, PTL DEF GenSpec

(* The logarithmic generator misses nothing but the chunk its loop stops on:  *)
(* LogarithmicGapIsLastChunk for every input.                                 *)
THEOREM LogarithmicGap == GenSpec => []LogarithmicGapIsLastChunk
<1>1. GenInv => LogarithmicGapIsLastChunk
  <2> SUFFICES ASSUME GenInv, gpc = "done", in.strategy = "logarithmic", in.overlap > 0,
                      NEW x \in (in.start + 1)..in.latest
               PROVE  Applied(x) \/ x \in start..(end + 1)
    BY DEF LogarithmicGapIsLastChunk
  <2>1. in.start \in Nat /\ in.latest \in Nat /\ start \in Int /\ end \in Int
    BY InputTypes DEF GenInv, GenTypeOK
  <2>2. Covers(out, in.start, start - 1) /\ Covers(out, end + 1, in.latest)
    BY DEF GenInv, LogarithmicInv
  <2> QED BY <2>1, <2>2 DEF Covers, Applied
<1> QED BY <1>1, GenInvInit, GenInvStep, PTL DEF GenSpec
=============================================================================
