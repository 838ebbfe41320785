------------------------- MODULE ParallelJobsProofs -------------------------
(***************************************************************************)
(* Proofs about ParallelJobs, for any commands, any parallelism and any    *)
(* number of swallowed exceptions: what the loop loses, how many jobs run  *)
(* at once, and when it may say that a job has disappeared.                *)
(***************************************************************************)
EXTENDS ParallelJobs, FiniteSetTheorems, TLAPS

-----------------------------------------------------------------------------
(* The inductive invariant. *)

\* The handler of the loop only swallows what comes from a pass, and a pass
\* starts with a retry left.
RetriesLeft == jpc \in {"check", "add"} => retries > 0

\* The verdict comes with the end, success only with an empty queue and running set.
Outcome ==
  /\ verdict = "running" <=> jpc # "end"
  /\ ~moreJobs => todo = {}
  /\ verdict = "success" /\ retries > 0 => todo = {} /\ running = {}

\* Commands that are off the queue, not running, and have not succeeded.
Dropped == {c \in Commands : c \notin todo \cup running /\ fate[c] # "ok"}

DropsAreSwallowed ==
  verdict \in {"running", "success"} => Cardinality(Dropped) <= Swallowed

\* Jobs that have pods running and that the loop does not count.
Strays == {c \in cluster : Active(c) /\ c \notin running}

\* A job listed as succeeded has been started, and has succeeded if it still exists.
SnapIsPast ==
  \A c \in Commands : snap[c].done => c \notin todo /\ (c \in cluster => pods[c].done)

StraysAreSwallowed ==
  /\ SnapIsPast
  /\ verdict = "running" => /\ Cardinality(running) <= Parallelism
                            /\ Cardinality(Strays) <= Swallowed
  /\ Cardinality(running) + Cardinality(Strays) <= Parallelism + Swallowed

\* Unless somebody else deletes a job, what is running exists and has been listed.
RunningIsListed ==
  ~meddled => /\ running \subseteq cluster
              /\ jpc = "check" => running \subseteq seen

JobsInv ==
  /\ JobsTypeOK
  /\ RetriesLeft
  /\ Outcome
  /\ DropsAreSwallowed
  /\ StraysAreSwallowed
  /\ RunningIsListed
  /\ LostJobMeansMeddled

(* Sets of commands are finite, and one more or one less command changes      *)
(* their number by one.                                                       *)
LEMMA FewerCommands ==
  ASSUME NEW S \in SUBSET Commands, NEW T \in SUBSET Commands
  PROVE  /\ IsFiniteSet(S) /\ Cardinality(S) \in Nat
         /\ T \subseteq S => Cardinality(T) <= Cardinality(S)
<1>1. IsFiniteSet(S) /\ IsFiniteSet(T) /\ Cardinality(S) \in Nat
  BY JobsAssumption, FS_Subset, FS_CardinalityType
<1>2. T \subseteq S => Cardinality(T) <= Cardinality(S)
  BY <1>1, FS_Subset
<1> QED BY <1>1, <1>2

LEMMA OneMoreCommand ==
  ASSUME NEW S \in SUBSET Commands, NEW T \in SUBSET Commands, NEW c \in Commands
  PROVE  /\ T \subseteq S \cup {c} => Cardinality(T) <= Cardinality(S) + 1
         /\ c \in S => Cardinality(S \ {c}) = Cardinality(S) - 1
<1>1. IsFiniteSet(S) /\ Cardinality(S) \in Nat /\ Cardinality(T) \in Nat
  BY FewerCommands
<1>2. c \in S => Cardinality(S \ {c}) = Cardinality(S) - 1
  BY <1>1, FS_RemoveElement
<1>3. ASSUME T \subseteq S \cup {c}
      PROVE  Cardinality(T) <= Cardinality(S) + 1
  <2>1. /\ IsFiniteSet(S \cup {c})
        /\ Cardinality(S \cup {c}) = IF c \in S THEN Cardinality(S) ELSE Cardinality(S) + 1
    BY <1>1, FS_AddElement
  <2>2. Cardinality(T) <= Cardinality(S \cup {c})
    BY <1>3, <2>1, FS_Subset
  <2> QED BY <1>1, <2>1, <2>2
<1> QED BY <1>2, <1>3

(* The sets the invariant counts are sets of commands. *)
LEMMA CountedTypes ==
  JobsTypeOK => /\ Dropped \subseteq Commands /\ Strays \subseteq Commands
                /\ running \subseteq Commands /\ todo \subseteq Commands
                /\ Swallowed \in Nat
BY JobsAssumption DEF JobsTypeOK, Dropped, Strays, Swallowed

(* The invariant says what the runs check. *)
LEMMA InvMeans ==
  JobsInv => JobsTypeOK /\ SuccessMissesOnlyErrors /\ ActiveWithinQuota /\ LostJobMeansMeddled
<1> SUFFICES ASSUME JobsInv
             PROVE  SuccessMissesOnlyErrors /\ ActiveWithinQuota
  BY DEF JobsInv
<1>1. JobsTypeOK
  BY DEF JobsInv
<1>2. SuccessMissesOnlyErrors
  <2> SUFFICES ASSUME verdict = "success", retries > 0
               PROVE  Cardinality({c \in Commands : fate[c] # "ok"}) <= Swallowed
    BY DEF SuccessMissesOnlyErrors
  <2>1. {c \in Commands : fate[c] # "ok"} = Dropped
    BY DEF JobsInv, Outcome, Dropped
  <2> QED BY <2>1 DEF JobsInv, DropsAreSwallowed
<1>3. ActiveWithinQuota
  <2> DEFINE busy == {c \in cluster : Active(c)}
  <2>1. busy \subseteq running \cup Strays
    BY DEF Strays
  <2>2. /\ IsFiniteSet(running) /\ Cardinality(running) \in Nat
        /\ IsFiniteSet(Strays) /\ Cardinality(Strays) \in Nat
    BY <1>1, CountedTypes, JobsAssumption, FS_Subset, FS_CardinalityType
  <2>3. /\ IsFiniteSet(running \cup Strays)
        /\ Cardinality(running \cup Strays) <= Cardinality(running) + Cardinality(Strays)
    <3>1. running \cap Strays = {}
      BY DEF Strays
    <3>0. Cardinality(running \cap Strays) = 0
      BY <3>1, FS_EmptySet, Zenon
    <3>2. /\ IsFiniteSet(running \cup Strays)
          /\ Cardinality(running \cup Strays)
               = Cardinality(running) + Cardinality(Strays) - Cardinality(running \cap Strays)
      BY <2>2, FS_Union
    <3> QED BY <2>2, <3>2, <3>0
  <2>4. Cardinality(busy) <= Cardinality(running \cup Strays)
        /\ Cardinality(busy) \in Nat /\ Cardinality(running \cup Strays) \in Nat
    BY <2>1, <2>3, FS_Subset, FS_CardinalityType
  <2>5. Cardinality(running) + Cardinality(Strays) <= Parallelism + Swallowed
    BY DEF JobsInv, StraysAreSwallowed
  <2>6. Parallelism \in Nat /\ Swallowed \in Nat
    BY <1>1, CountedTypes, JobsAssumption
  <2> HIDE DEF busy
  <2>7. Cardinality(busy) <= Parallelism + Swallowed
    BY <2>2, <2>3, <2>4, <2>5, <2>6
  <2> QED BY <2>7 DEF busy, ActiveWithinQuota
<1> QED BY <1>2, <1>3

-----------------------------------------------------------------------------
(* Every step preserves the invariant. *)

LEMMA PassTypes ==
  /\ Fresh \in PodStatus
  /\ ForgetList => seen' = {} /\ toCheck' = {} /\ snap' \in [Commands -> PodStatus]
  /\ CallRaises /\ JobsTypeOK /\ retries > 0 =>
       /\ seen' = {} /\ toCheck' = {} /\ snap' \in [Commands -> PodStatus]
       /\ retries' \in 0..HttpRetries /\ jpc' \in {"top", "end"}
       /\ verdict' \in {verdict, "apiError"}
<1>1. Fresh \in PodStatus
  BY JobsAssumption DEF Fresh, PodStatus
<1>2. ForgetList => seen' = {} /\ toCheck' = {} /\ snap' \in [Commands -> PodStatus]
  BY <1>1 DEF ForgetList
<1>3. ASSUME CallRaises, JobsTypeOK, retries > 0
      PROVE  retries' \in 0..HttpRetries /\ jpc' \in {"top", "end"}
             /\ verdict' \in {verdict, "apiError"} /\ ForgetList
  BY <1>3, JobsAssumption DEF CallRaises, Swallow, Raise, JobsTypeOK
<1> QED BY <1>1, <1>2, <1>3

LEMMA OneMoreFailed ==
  ASSUME NEW p \in PodStatus, p.failed <= BackoffLimit, NEW bad \in BOOLEAN
  PROVE  [[p EXCEPT !.failed = @ + 1] EXCEPT !.bad = bad] \in PodStatus
<1>1. p.failed + 1 \in 0..(BackoffLimit + 1)
  BY JobsAssumption DEF PodStatus
<1> QED BY <1>1 DEF PodStatus

LEMMA TypesStep ==
  JobsTypeOK /\ RetriesLeft /\ [JobsNext]_jobVars => JobsTypeOK' /\ RetriesLeft'
<1> SUFFICES ASSUME JobsTypeOK, RetriesLeft, [JobsNext]_jobVars
             PROVE  JobsTypeOK' /\ RetriesLeft'
  OBVIOUS
<1> USE PassTypes DEF JobsTypeOK, RetriesLeft
<1>1. ASSUME StartPass \/ CountJobs \/ NoMoreJobs \/ EndPass \/ ReturnTable
      PROVE  JobsTypeOK' /\ RetriesLeft'
  <2>1. CASE StartPass
    BY <2>1 DEF StartPass, Raise, LoopCondition, kubeVars
  <2>2. CASE CountJobs
    BY <2>2 DEF CountJobs, Raise, kubeVars
  <2>3. CASE NoMoreJobs
    BY <2>3 DEF NoMoreJobs, kubeVars
  <2>4. CASE EndPass
    BY <2>4 DEF EndPass, kubeVars
  <2>5. CASE ReturnTable
    BY <2>5 DEF ReturnTable, CheckAllJobsSucceeded, kubeVars
  <2> QED BY <1>1, <2>1, <2>2, <2>3, <2>4, <2>5
<1>2. CASE StartPassRaises
  <2>1. retries > 0
    BY <1>2 DEF StartPassRaises, LoopCondition
  <2> QED BY <1>2, <2>1 DEF StartPassRaises, kubeVars
<1>3. ASSUME NEW c \in Commands,
             StillRunning(c) \/ JobPassed(c) \/ JobFails(c) \/ CheckJobRaises(c)
               \/ AddJob(c) \/ AddJobRaises(c)
      PROVE  JobsTypeOK' /\ RetriesLeft'
  <2>1. CASE StillRunning(c)
    BY <2>1 DEF StillRunning, kubeVars
  <2>2. CASE JobPassed(c)
    BY <2>2 DEF JobPassed, NoteFinished, DeleteJob
  <2>3. CASE JobFails(c)
    BY <2>3 DEF JobFails, NoteFinished, Raise, kubeVars
  <2>4. CASE CheckJobRaises(c)
    BY <2>4 DEF CheckJobRaises, NoteFinished, kubeVars
  <2>5. CASE AddJob(c)
    BY <2>5 DEF AddJob
  <2>6. CASE AddJobRaises(c)
    BY <2>6 DEF AddJobRaises
  <2> QED BY <1>3, <2>1, <2>2, <2>3, <2>4, <2>5, <2>6
<1>4. ASSUME NEW c \in Commands, PodSucceeds(c) \/ PodDies(c) \/ Meddle(c)
      PROVE  JobsTypeOK' /\ RetriesLeft'
  <2>1. CASE PodSucceeds(c)
    BY <2>1 DEF PodSucceeds, loopVars, PodStatus
  <2>2. CASE PodDies(c)
    <3>1. PICK bad \in {pods[c].bad, TRUE} :
            pods' = [pods EXCEPT ![c].failed = @ + 1, ![c].bad = bad]
      BY <2>2 DEF PodDies
    <3>2. pods[c] \in PodStatus /\ pods[c].failed <= BackoffLimit
      BY <2>2 DEF PodDies, Active
    <3>3. [[pods[c] EXCEPT !.failed = @ + 1] EXCEPT !.bad = bad] \in PodStatus
      <4>1. bad \in BOOLEAN
        BY <3>2 DEF PodStatus
      <4> QED BY <3>2, <4>1, OneMoreFailed
    <3>4. pods' \in [Commands -> PodStatus]
      BY <3>1, <3>3
    <3> QED BY <2>2, <3>4 DEF PodDies, loopVars
  <2>3. CASE Meddle(c)
    BY <2>3 DEF Meddle, DeleteJob, loopVars
  <2> QED BY <1>4, <2>1, <2>2, <2>3
<1>5. CASE UNCHANGED jobVars
  BY <1>5 DEF jobVars, loopVars, kubeVars
<1> QED
  BY <1>1, <1>2, <1>3, <1>4, <1>5 DEF JobsNext, LoopStep, PodStep, Meddling, Ended

LEMMA OutcomeStep ==
  JobsTypeOK /\ Outcome /\ [JobsNext]_jobVars => Outcome'
<1> SUFFICES ASSUME JobsTypeOK, Outcome, [JobsNext]_jobVars
             PROVE  Outcome'
  OBVIOUS
<1> USE DEF Outcome
<1>1. CASE StartPass
  BY <1>1 DEF StartPass, Raise
<1>2. CASE StartPassRaises
  BY <1>2 DEF StartPassRaises, CallRaises, Swallow, Raise
<1>3. CASE CountJobs
  BY <1>3 DEF CountJobs, Raise
<1>4. CASE NoMoreJobs
  BY <1>4 DEF NoMoreJobs
<1>5. CASE EndPass
  BY <1>5 DEF EndPass
<1>6. CASE ReturnTable
  BY <1>6 DEF ReturnTable, CheckAllJobsSucceeded, LoopCondition
<1>7. ASSUME NEW c \in Commands,
             StillRunning(c) \/ JobPassed(c) \/ JobFails(c) \/ CheckJobRaises(c)
               \/ AddJob(c) \/ AddJobRaises(c)
      PROVE  Outcome'
  <2>1. CASE StillRunning(c)
    BY <2>1 DEF StillRunning
  <2>2. CASE JobPassed(c)
    BY <2>2 DEF JobPassed
  <2>3. CASE JobFails(c)
    BY <2>3 DEF JobFails, Raise
  <2>4. CASE CheckJobRaises(c)
    BY <2>4 DEF CheckJobRaises, CallRaises, Swallow, Raise
  <2>5. CASE AddJob(c)
    BY <2>5 DEF AddJob
  <2>6. CASE AddJobRaises(c)
    BY <2>6 DEF AddJobRaises, CallRaises, Swallow, Raise
  <2> QED BY <1>7, <2>1, <2>2, <2>3, <2>4, <2>5, <2>6
<1>8. CASE UNCHANGED loopVars
  BY <1>8 DEF loopVars
<1> QED
  BY <1>1, <1>2, <1>3, <1>4, <1>5, <1>6, <1>7, <1>8
  DEF JobsNext, LoopStep, PodStep, Meddling, Ended, PodSucceeds, PodDies, Meddle, jobVars

(* A step drops no command, or one and swallows an exception, or it ends the  *)
(* loop without success.                                                      *)
LEMMA DropsStep ==
  ASSUME JobsTypeOK, JobsTypeOK', Outcome, DropsAreSwallowed, [JobsNext]_jobVars
  PROVE  DropsAreSwallowed'
<1> USE DEF JobsTypeOK
<1>1. ASSUME Dropped' \subseteq Dropped, retries' <= retries,
             verdict' \in {"running", "success"} => verdict \in {"running", "success"}
      PROVE  DropsAreSwallowed'
  <2> SUFFICES ASSUME verdict' \in {"running", "success"}
               PROVE  Cardinality(Dropped') <= Swallowed'
    BY DEF DropsAreSwallowed
  <2>1. Dropped \in SUBSET Commands /\ Dropped' \in SUBSET Commands
    BY DEF Dropped
  <2>2. /\ Cardinality(Dropped) \in Nat /\ Cardinality(Dropped') \in Nat
        /\ Cardinality(Dropped') <= Cardinality(Dropped)
    BY <1>1, <2>1, FewerCommands
  <2>3. Cardinality(Dropped) <= Swallowed
    BY <1>1 DEF DropsAreSwallowed
  <2> QED BY <1>1, <2>2, <2>3, JobsAssumption DEF Swallowed
<1>2. ASSUME NEW c \in Commands, Dropped' \subseteq Dropped \cup {c}, retries' = retries - 1,
             verdict' \in {"running", "success"} => verdict \in {"running", "success"}
      PROVE  DropsAreSwallowed'
  <2> SUFFICES ASSUME verdict' \in {"running", "success"}
               PROVE  Cardinality(Dropped') <= Swallowed'
    BY DEF DropsAreSwallowed
  <2>1. Dropped \in SUBSET Commands /\ Dropped' \in SUBSET Commands
    BY DEF Dropped
  <2>2. /\ Cardinality(Dropped) \in Nat /\ Cardinality(Dropped') \in Nat
        /\ Cardinality(Dropped') <= Cardinality(Dropped) + 1
    BY <1>2, <2>1, FewerCommands, OneMoreCommand
  <2>3. Cardinality(Dropped) <= Swallowed
    BY <1>2 DEF DropsAreSwallowed
  <2> QED BY <1>2, <2>2, <2>3, JobsAssumption DEF Swallowed
<1>3. ASSUME verdict' \notin {"running", "success"}
      PROVE  DropsAreSwallowed'
  BY <1>3 DEF DropsAreSwallowed
<1>4. ASSUME StartPass \/ CountJobs \/ NoMoreJobs \/ EndPass \/ ReturnTable \/ StartPassRaises
      PROVE  DropsAreSwallowed'
  <2>1. Dropped' = Dropped
    BY <1>4 DEF Dropped, StartPass, CountJobs, NoMoreJobs, EndPass, ReturnTable, StartPassRaises
  <2>2. retries' <= retries
    BY <1>4 DEF StartPass, CountJobs, NoMoreJobs, EndPass, ReturnTable, StartPassRaises,
                CallRaises, Swallow, Raise
  <2>3. verdict = "running"
    BY <1>4 DEF Outcome, StartPass, CountJobs, NoMoreJobs, EndPass, ReturnTable, StartPassRaises
  <2> QED BY <1>1, <2>1, <2>2, <2>3
<1>5. ASSUME NEW c \in Commands,
             StillRunning(c) \/ JobPassed(c) \/ JobFails(c) \/ CheckJobRaises(c)
               \/ AddJob(c) \/ AddJobRaises(c)
      PROVE  DropsAreSwallowed'
  <2>1. CASE StillRunning(c)
    <3>1. Dropped' = Dropped
      BY <2>1 DEF Dropped, StillRunning
    <3> QED BY <1>1, <2>1, <3>1 DEF StillRunning
  <2>2. CASE JobPassed(c)
    <3>1. Dropped' \subseteq Dropped
      BY <2>2 DEF Dropped, JobPassed, NoteFinished
    <3> QED BY <1>1, <2>2, <3>1 DEF JobPassed
  <2>3. CASE JobFails(c)
    BY <1>3, <2>3 DEF JobFails, Raise
  <2>4. CASE CheckJobRaises(c)
    <3>1. Dropped' \subseteq Dropped \cup {c}
      BY <2>4 DEF Dropped, CheckJobRaises, NoteFinished
    <3> QED BY <1>2, <1>3, <2>4, <3>1 DEF CheckJobRaises, CallRaises, Swallow, Raise
  <2>5. CASE AddJob(c)
    <3>1. Dropped' \subseteq Dropped
      BY <2>5 DEF Dropped, AddJob
    <3> QED BY <1>1, <2>5, <3>1 DEF AddJob
  <2>6. CASE AddJobRaises(c)
    <3>1. Dropped' \subseteq Dropped \cup {c}
      BY <2>6 DEF Dropped, AddJobRaises
    <3> QED BY <1>2, <1>3, <2>6, <3>1 DEF AddJobRaises, CallRaises, Swallow, Raise
  <2> QED BY <1>5, <2>1, <2>2, <2>3, <2>4, <2>5, <2>6
<1>6. CASE UNCHANGED loopVars
  <2>1. Dropped' = Dropped
    BY <1>6 DEF Dropped, loopVars
  <2> QED BY <1>1, <1>6, <2>1 DEF loopVars
<1> QED
  BY <1>4, <1>5, <1>6
  DEF JobsNext, LoopStep, PodStep, Meddling, Ended, PodSucceeds, PodDies, Meddle, jobVars

LEMMA SnapStep ==
  ASSUME JobsTypeOK, SnapIsPast, [JobsNext]_jobVars
  PROVE  SnapIsPast'
<1> USE DEF SnapIsPast, JobsTypeOK
<1>1. ASSUME ForgetList PROVE SnapIsPast'
  BY <1>1 DEF ForgetList, Fresh
<1>2. CASE StartPass
  <2>1. CASE ForgetList
    BY <1>1, <2>1
  <2>2. CASE ~ForgetList
    <3>1. snap' = [c \in Commands |-> IF c \in running \cap cluster THEN pods[c] ELSE Fresh]
      BY <1>2, <2>2 DEF StartPass, Raise
    <3>2. \A c \in Commands : snap'[c].done => c \in running \cap cluster /\ pods[c].done
      BY <3>1 DEF Fresh
    <3> QED BY <1>2, <3>2 DEF StartPass, kubeVars
  <2> QED BY <2>1, <2>2
<1>3. CASE StartPassRaises \/ CountJobs
  BY <1>1, <1>3 DEF StartPassRaises, CallRaises, Swallow, Raise, CountJobs
<1>4. CASE NoMoreJobs \/ EndPass \/ ReturnTable
  BY <1>4 DEF NoMoreJobs, EndPass, ReturnTable, kubeVars
<1>5. ASSUME NEW c \in Commands,
             StillRunning(c) \/ JobPassed(c) \/ JobFails(c) \/ CheckJobRaises(c)
               \/ AddJob(c) \/ AddJobRaises(c)
      PROVE  SnapIsPast'
  <2>1. CASE StillRunning(c)
    BY <2>1 DEF StillRunning, kubeVars
  <2>2. CASE JobPassed(c)
    BY <2>2 DEF JobPassed, DeleteJob
  <2>3. CASE JobFails(c) \/ CheckJobRaises(c) \/ AddJobRaises(c)
    BY <1>1, <2>3 DEF JobFails, CheckJobRaises, AddJobRaises, CallRaises, Swallow, Raise
  <2>4. CASE AddJob(c)
    BY <2>4 DEF AddJob
  <2> QED BY <1>5, <2>1, <2>2, <2>3, <2>4
<1>6. ASSUME NEW c \in Commands, PodSucceeds(c) \/ PodDies(c) \/ Meddle(c)
      PROVE  SnapIsPast'
  <2>1. ASSUME NEW d \in Commands, d \in cluster', pods[d].done
        PROVE  pods'[d].done /\ d \in cluster
    <3>1. CASE PodSucceeds(c)
      BY <2>1, <3>1 DEF PodSucceeds, PodStatus
    <3>2. CASE PodDies(c)
      BY <2>1, <3>2 DEF PodDies, PodStatus
    <3>3. CASE Meddle(c)
      BY <2>1, <3>3 DEF Meddle, DeleteJob
    <3> QED BY <1>6, <3>1, <3>2, <3>3
  <2>2. \A d \in Commands : d \in cluster' => d \in cluster
    BY <1>6 DEF PodSucceeds, PodDies, Meddle, DeleteJob
  <2> QED BY <1>6, <2>1, <2>2 DEF PodSucceeds, PodDies, Meddle, loopVars
<1>7. CASE UNCHANGED jobVars
  BY <1>7 DEF jobVars, loopVars, kubeVars
<1> QED
  BY <1>2, <1>3, <1>4, <1>5, <1>6, <1>7 DEF JobsNext, LoopStep, PodStep, Meddling, Ended

LEMMA MoreSwallowed ==
  ASSUME NEW h \in Nat, NEW r \in 0..h, NEW s \in 0..h, s <= r
  PROVE  h - r <= h - s /\ h - r \in Nat /\ h - s \in Nat
OBVIOUS

(* What a step must leave to keep the counts within the quota: no more jobs   *)
(* running or straying; or one more stray for an exception swallowed; or a    *)
(* last job that goes from one set to the other.                              *)
LEMMA StraysKept ==
  ASSUME JobsTypeOK, JobsTypeOK', StraysAreSwallowed, SnapIsPast',
         running' \subseteq running, Strays' \subseteq Strays, retries' <= retries,
         verdict' = "running" => verdict = "running"
  PROVE  StraysAreSwallowed'
<1>1. /\ Cardinality(running') <= Cardinality(running)
      /\ Cardinality(Strays') <= Cardinality(Strays)
      /\ Cardinality(running') \in Nat /\ Cardinality(Strays') \in Nat
      /\ Cardinality(running) \in Nat /\ Cardinality(Strays) \in Nat
  <2>1. /\ running \in SUBSET Commands /\ running' \in SUBSET Commands
        /\ Strays \in SUBSET Commands /\ Strays' \in SUBSET Commands
    BY DEF JobsTypeOK, Strays
  <2> QED BY <2>1, FewerCommands
<1>2. Swallowed <= Swallowed' /\ Swallowed \in Nat /\ Swallowed' \in Nat
  <2>1. retries \in 0..HttpRetries /\ retries' \in 0..HttpRetries /\ HttpRetries \in Nat
    BY JobsAssumption DEF JobsTypeOK
  <2> QED BY <2>1, MoreSwallowed DEF Swallowed
<1> QED BY <1>1, <1>2, JobsAssumption DEF StraysAreSwallowed

LEMMA OneMoreStray ==
  ASSUME JobsTypeOK, JobsTypeOK', StraysAreSwallowed, SnapIsPast',
         NEW c \in Commands, running' \subseteq running, Strays' \subseteq Strays \cup {c},
         retries' = retries - 1, verdict' = "running" => verdict = "running"
  PROVE  StraysAreSwallowed'
<1>1. /\ Cardinality(running') <= Cardinality(running)
      /\ Cardinality(Strays') <= Cardinality(Strays) + 1
      /\ Cardinality(running') \in Nat /\ Cardinality(Strays') \in Nat
      /\ Cardinality(running) \in Nat /\ Cardinality(Strays) \in Nat
  <2>1. /\ running \in SUBSET Commands /\ running' \in SUBSET Commands
        /\ Strays \in SUBSET Commands /\ Strays' \in SUBSET Commands
    BY DEF JobsTypeOK, Strays
  <2> QED BY <2>1, FewerCommands, OneMoreCommand
<1>2. Swallowed' = Swallowed + 1 /\ Swallowed \in Nat
  BY JobsAssumption DEF Swallowed, JobsTypeOK
<1> QED BY <1>1, <1>2, JobsAssumption DEF StraysAreSwallowed

LEMMA LastStray ==
  ASSUME JobsTypeOK, JobsTypeOK', StraysAreSwallowed, SnapIsPast',
         NEW c \in running, running' = running \ {c}, Strays' \subseteq Strays \cup {c},
         retries' = retries, verdict' # "running"
  PROVE  StraysAreSwallowed'
<1>1. /\ Cardinality(running') = Cardinality(running) - 1
      /\ Cardinality(Strays') <= Cardinality(Strays) + 1
      /\ Cardinality(running') \in Nat /\ Cardinality(Strays') \in Nat
      /\ Cardinality(running) \in Nat /\ Cardinality(Strays) \in Nat
  <2>1. /\ running \in SUBSET Commands /\ running' \in SUBSET Commands /\ c \in Commands
        /\ Strays \in SUBSET Commands /\ Strays' \in SUBSET Commands
    BY DEF JobsTypeOK, Strays
  <2>2. Cardinality(running \ {c}) = Cardinality(running) - 1
    BY <2>1, OneMoreCommand
  <2> QED BY <2>1, <2>2, FewerCommands, OneMoreCommand
<1>2. Swallowed' = Swallowed /\ Swallowed \in Nat
  BY JobsAssumption DEF Swallowed, JobsTypeOK
<1> QED BY <1>1, <1>2, JobsAssumption DEF StraysAreSwallowed

LEMMA StraysStep ==
  ASSUME JobsTypeOK, JobsTypeOK', Outcome, StraysAreSwallowed, [JobsNext]_jobVars
  PROVE  StraysAreSwallowed'
<1>s. SnapIsPast /\ SnapIsPast'
  BY SnapStep DEF StraysAreSwallowed
<1>1. ASSUME StartPass \/ CountJobs \/ NoMoreJobs \/ EndPass \/ ReturnTable \/ StartPassRaises
      PROVE  StraysAreSwallowed'
  <2>1. running' = running /\ Strays' = Strays
    BY <1>1 DEF Strays, Active, kubeVars,
                StartPass, CountJobs, NoMoreJobs, EndPass, ReturnTable, StartPassRaises
  <2>2. retries' <= retries
    BY <1>1 DEF StartPass, CountJobs, NoMoreJobs, EndPass, ReturnTable, StartPassRaises,
                CallRaises, Swallow, Raise, JobsTypeOK
  <2>3. verdict = "running"
    BY <1>1 DEF Outcome, StartPass, CountJobs, NoMoreJobs, EndPass, ReturnTable, StartPassRaises
  <2> QED BY <1>s, <2>1, <2>2, <2>3, StraysKept
<1>2. ASSUME NEW c \in Commands, StillRunning(c)
      PROVE  StraysAreSwallowed'
  <2>1. Strays' = Strays
    BY <1>2 DEF Strays, Active, kubeVars, StillRunning
  <2> QED BY <1>s, <1>2, <2>1, StraysKept DEF StillRunning, JobsTypeOK
<1>3. ASSUME NEW c \in Commands, JobPassed(c)
      PROVE  StraysAreSwallowed'
  <2>1. c \in cluster => pods[c].done
    BY <1>s, <1>3 DEF JobPassed, SnapIsPast, JobsTypeOK
  <2>2. Strays' \subseteq Strays
    BY <1>3, <2>1 DEF Strays, Active, JobPassed, DeleteJob, NoteFinished, JobsTypeOK
  <2> QED BY <1>s, <1>3, <2>2, StraysKept DEF JobPassed, NoteFinished, JobsTypeOK
<1>4. ASSUME NEW c \in Commands, JobFails(c)
      PROVE  StraysAreSwallowed'
  <2>1. Strays' \subseteq Strays \cup {c} /\ c \in running
    BY <1>4 DEF Strays, Active, JobFails, NoteFinished, kubeVars, JobsTypeOK
  <2> QED BY <1>s, <1>4, <2>1, LastStray DEF JobFails, Raise, NoteFinished
<1>5. ASSUME NEW c \in Commands, CheckJobRaises(c)
      PROVE  StraysAreSwallowed'
  <2>1. /\ Strays' \subseteq Strays \cup {c} /\ c \in running
        /\ \/ running' = running /\ Strays' = Strays
           \/ running' = running \ {c}
    BY <1>5 DEF Strays, Active, CheckJobRaises, NoteFinished, kubeVars, JobsTypeOK
  <2>2. CASE Swallow
    BY <1>s, <2>1, <2>2, OneMoreStray DEF Swallow
  <2>3. CASE Raise("apiError")
    <3>1. retries' = retries /\ verdict' # "running" /\ retries' <= retries
      BY <2>3 DEF Raise, JobsTypeOK
    <3> QED BY <1>s, <2>1, <3>1, StraysKept, LastStray
  <2> QED BY <1>5, <2>2, <2>3 DEF CheckJobRaises, CallRaises
<1>6. ASSUME NEW c \in Commands, AddJob(c) \/ AddJobRaises(c)
      PROVE  StraysAreSwallowed'
  <2>1. /\ verdict = "running" /\ Cardinality(running) < Parallelism
        /\ Cardinality(running) <= Parallelism /\ Cardinality(Strays) <= Swallowed
    BY <1>6, JobsAssumption DEF AddJob, AddJobRaises, Room, Outcome, StraysAreSwallowed
  <2>2. /\ running \in SUBSET Commands /\ running' \in SUBSET Commands
        /\ Strays \in SUBSET Commands /\ Strays' \in SUBSET Commands
    BY DEF JobsTypeOK, Strays
  <2>3. /\ Cardinality(running) \in Nat /\ Cardinality(running') \in Nat
        /\ Cardinality(Strays) \in Nat /\ Cardinality(Strays') \in Nat
        /\ Swallowed \in Nat
    BY <2>2, FewerCommands, CountedTypes
  <2>4. CASE AddJob(c)
    <3>1. running' \subseteq running \cup {c} /\ Strays' \subseteq Strays
      BY <2>4 DEF AddJob, Strays, Active
    <3>2. /\ Cardinality(running') <= Cardinality(running) + 1
          /\ Cardinality(Strays') <= Cardinality(Strays)
      BY <2>2, <3>1, FewerCommands, OneMoreCommand
    <3>3. Swallowed' = Swallowed
      BY <2>4 DEF AddJob, Swallowed
    <3> QED BY <1>s, <2>1, <2>3, <3>2, <3>3, JobsAssumption DEF StraysAreSwallowed
  <2>5. CASE AddJobRaises(c)
    <3>1. running' = running /\ Strays' \subseteq Strays \cup {c}
      BY <2>5 DEF AddJobRaises, Strays, Active
    <3>2. CASE Swallow
      BY <1>s, <2>1, <3>1, <3>2, OneMoreStray DEF Swallow
    <3>3. CASE Raise("apiError")
      <4>1. Cardinality(Strays') <= Cardinality(Strays) + 1
        BY <2>2, <3>1, OneMoreCommand
      <4>2. Swallowed' = Swallowed /\ verdict' # "running"
        BY <3>3 DEF Raise, Swallowed
      <4> QED BY <1>s, <2>1, <2>3, <3>1, <4>1, <4>2, JobsAssumption DEF StraysAreSwallowed
    <3> QED BY <2>5, <3>2, <3>3 DEF AddJobRaises, CallRaises
  <2> QED BY <1>6, <2>4, <2>5
<1>7. ASSUME NEW c \in Commands, PodSucceeds(c) \/ PodDies(c) \/ Meddle(c)
      PROVE  StraysAreSwallowed'
  <2>1. CASE PodSucceeds(c)
    <3>1. Strays' \subseteq Strays
      BY <2>1 DEF PodSucceeds, Strays, Active, loopVars, JobsTypeOK, PodStatus
    <3> QED BY <1>s, <2>1, <3>1, StraysKept DEF PodSucceeds, loopVars, JobsTypeOK
  <2>2. CASE PodDies(c)
    <3>1. Strays' \subseteq Strays
      BY <2>2 DEF PodDies, Strays, Active, loopVars, JobsTypeOK, PodStatus
    <3> QED BY <1>s, <2>2, <3>1, StraysKept DEF PodDies, loopVars, JobsTypeOK
  <2>3. CASE Meddle(c)
    <3>1. Strays' \subseteq Strays
      BY <2>3 DEF Meddle, DeleteJob, Strays, Active, loopVars, JobsTypeOK
    <3> QED BY <1>s, <2>3, <3>1, StraysKept DEF Meddle, loopVars, JobsTypeOK
  <2> QED BY <1>7, <2>1, <2>2, <2>3
<1>8. CASE UNCHANGED jobVars
  <2>1. Strays' = Strays
    BY <1>8 DEF Strays, Active, jobVars, kubeVars, loopVars
  <2> QED BY <1>s, <1>8, <2>1, StraysKept DEF jobVars, loopVars, JobsTypeOK
<1> QED
  BY <1>1, <1>2, <1>3, <1>4, <1>5, <1>6, <1>7, <1>8
  DEF JobsNext, LoopStep, PodStep, Meddling, Ended

(* Only somebody else's deletion takes a running job off the list. *)
LEMMA ListedStep ==
  ASSUME JobsTypeOK, JobsTypeOK', Outcome, RunningIsListed, LostJobMeansMeddled,
         [JobsNext]_jobVars
  PROVE  RunningIsListed' /\ LostJobMeansMeddled'
<1> USE DEF RunningIsListed, LostJobMeansMeddled
<1>1. CASE StartPass
  BY <1>1 DEF StartPass, Raise, kubeVars
<1>2. CASE StartPassRaises
  BY <1>2 DEF StartPassRaises, CallRaises, Swallow, Raise, kubeVars
<1>3. CASE CountJobs
  <2>1. ~meddled => Cardinality(running) <= Cardinality(seen)
    <3>1. ~meddled => running \subseteq seen
      BY <1>3 DEF CountJobs
    <3>2. running \in SUBSET Commands /\ seen \in SUBSET Commands
      BY DEF JobsTypeOK
    <3> QED BY <3>1, <3>2, FewerCommands
  <2>2. Cardinality(running) \in Nat /\ Cardinality(seen) \in Nat
    BY FewerCommands DEF JobsTypeOK
  <2>3. Cardinality(running) > Cardinality(seen) => meddled
    BY <2>1, <2>2 DEF JobsTypeOK
  <2> QED BY <1>3, <2>3 DEF CountJobs, Raise, kubeVars
<1>4. CASE NoMoreJobs \/ EndPass
  BY <1>4 DEF NoMoreJobs, EndPass, kubeVars
<1>5. CASE ReturnTable
  BY <1>5 DEF ReturnTable, CheckAllJobsSucceeded, kubeVars
<1>6. ASSUME NEW c \in Commands,
             StillRunning(c) \/ JobPassed(c) \/ JobFails(c) \/ CheckJobRaises(c)
               \/ AddJob(c) \/ AddJobRaises(c)
      PROVE  RunningIsListed' /\ LostJobMeansMeddled'
  <2>1. CASE StillRunning(c)
    BY <2>1 DEF StillRunning, kubeVars
  <2>2. CASE JobPassed(c)
    BY <2>2 DEF JobPassed, NoteFinished, DeleteJob
  <2>3. CASE JobFails(c)
    BY <2>3 DEF JobFails, NoteFinished, Raise, kubeVars
  <2>4. CASE CheckJobRaises(c)
    BY <2>4 DEF CheckJobRaises, NoteFinished, CallRaises, Swallow, Raise, kubeVars
  <2>5. CASE AddJob(c)
    BY <2>5 DEF AddJob
  <2>6. CASE AddJobRaises(c)
    BY <2>6 DEF AddJobRaises, CallRaises, Swallow, Raise
  <2> QED BY <1>6, <2>1, <2>2, <2>3, <2>4, <2>5, <2>6
<1>7. ASSUME NEW c \in Commands, PodSucceeds(c) \/ PodDies(c) \/ Meddle(c)
      PROVE  RunningIsListed' /\ LostJobMeansMeddled'
  BY <1>7 DEF PodSucceeds, PodDies, Meddle, loopVars
<1>8. CASE UNCHANGED jobVars
  BY <1>8 DEF jobVars, loopVars, kubeVars
<1> QED
  BY <1>1, <1>2, <1>3, <1>4, <1>5, <1>6, <1>7, <1>8
  DEF JobsNext, LoopStep, PodStep, Meddling, Ended

LEMMA JobsStep == JobsInv /\ [JobsNext]_jobVars => JobsInv'
<1> SUFFICES ASSUME JobsInv, [JobsNext]_jobVars
             PROVE  JobsInv'
  OBVIOUS
<1>1. /\ JobsTypeOK /\ RetriesLeft /\ Outcome /\ DropsAreSwallowed
      /\ StraysAreSwallowed /\ RunningIsListed /\ LostJobMeansMeddled
  BY DEF JobsInv
<1>2. JobsTypeOK' /\ RetriesLeft'
  BY <1>1, TypesStep
<1>3. Outcome'
  BY <1>1, OutcomeStep
<1>4. DropsAreSwallowed'
  BY <1>1, <1>2, DropsStep
<1>5. StraysAreSwallowed'
  BY <1>1, <1>2, StraysStep
<1>6. RunningIsListed' /\ LostJobMeansMeddled'
  BY <1>1, <1>2, ListedStep
<1> QED BY <1>2, <1>3, <1>4, <1>5, <1>6 DEF JobsInv

LEMMA JobsStart == JobsInit => JobsInv
<1> SUFFICES ASSUME JobsInit PROVE JobsInv
  OBVIOUS
<1> USE JobsAssumption DEF JobsInit
<1>1. JobsTypeOK
  <2>1. pods \in [Commands -> PodStatus] /\ snap \in [Commands -> PodStatus]
    BY PassTypes
  <2>2. HttpRetries \in 0..HttpRetries
    OBVIOUS
  <2> QED BY <2>1, <2>2 DEF JobsTypeOK
<1>2. RetriesLeft /\ Outcome /\ RunningIsListed /\ LostJobMeansMeddled
  BY DEF RetriesLeft, Outcome, RunningIsListed, LostJobMeansMeddled
<1>3. Dropped = {} /\ Strays = {} /\ Cardinality({}) = 0 /\ Swallowed = 0
  BY FS_EmptySet DEF Dropped, Strays, Swallowed
<1>4. Cardinality(Dropped) = 0 /\ Cardinality(Strays) = 0 /\ Cardinality(running) = 0
  BY <1>3
<1>5. SnapIsPast
  BY DEF SnapIsPast, Fresh
<1>6. DropsAreSwallowed /\ StraysAreSwallowed
  BY <1>3, <1>4, <1>5 DEF DropsAreSwallowed, StraysAreSwallowed
<1> QED BY <1>1, <1>2, <1>6 DEF JobsInv

LEMMA JobsAlways == JobsSpec => []JobsInv
BY JobsStart, JobsStep, PTL DEF JobsSpec

-----------------------------------------------------------------------------

(* The loop's table, its list and the cluster's jobs keep their types; in     *)
(* particular no command is both queued and started.                          *)
THEOREM JobTypesHold == JobsSpec => []JobsTypeOK
BY JobsAlways, InvMeans, PTL

(* For any commands and any number of swallowed exceptions, a mission that    *)
(* succeeds with retries left misses at most one command per exception.       *)
THEOREM SuccessIsHonest == JobsSpec => []SuccessMissesOnlyErrors
BY JobsAlways, InvMeans, PTL

(* For any parallelism, the jobs with pods running exceed it by at most one   *)
(* per swallowed exception.                                                   *)
THEOREM QuotaHolds == JobsSpec => []ActiveWithinQuota
BY JobsAlways, InvMeans, PTL

(* The loop says that a job has disappeared only if somebody else deleted it. *)
THEOREM LostJobsWereDeleted == JobsSpec => []LostJobMeansMeddled
BY JobsAlways, InvMeans, PTL
=============================================================================
