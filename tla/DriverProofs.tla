---------------------------- MODULE DriverProofs ----------------------------
(***************************************************************************)
(* What the driver of a parallel catchup takes away.  A pod the monitor    *)
(* offers for retirement, and a pod the driver deletes, owns no job: for   *)
(* any number of jobs and workers and any faults, as long as a claim under *)
(* way when its pod is marked lands before the next pass.  And the release *)
(* is uninstalled at the end, whichever thread of the driver does it.      *)
(***************************************************************************)
EXTENDS ParallelCatchup, StatusProofs, MissionCleanup

(* A marked worker that owns nothing and is not about to claim stays so: the  *)
(* mark is never removed and keeps it from going back to a claim.             *)
Quiet(w) == w \in retiring /\ wpc[w] # "claim" /\ w \notin HVALS(jobOwners)

QuietStays == \A w \in Workers : Quiet(w) => Quiet(w)'

\* In the reads of a pass no marked worker is about to claim.
ReadsQuiet ==
  mpc \in {"remain", "failed", "progress", "owners"} => \A w \in retiring : wpc[w] # "claim"

\* From the read of job_owners to the marking, marked workers that the pass does
\* not count among the active ones are quiet.
IdleQuiet ==
  mpc \in Requeuing \cup {"reProgress", "reRemain", "ping"} =>
    \A w \in retiring \ (mToPing \cup mUp \cup mDown) : Quiet(w)

\* So are those found retirable, and those published.
OfferedQuiet == \A w \in mRetirable \cup status.retirable : Quiet(w)

QuietInv ==
  /\ TypeInv
  /\ ClaimLandsInTime => ReadsQuiet /\ IdleQuiet /\ OfferedQuiet

(* Nothing a worker does ends the quiet of a worker, or brings a marked       *)
(* worker back to a claim.                                                    *)
LEMMA WorkerKeepsQuiet ==
  ASSUME TypeInv, WorkerNext
  PROVE  /\ QuietStays
         /\ retiring' = retiring
         /\ \A w \in retiring : wpc[w] # "claim" => wpc'[w] # "claim"
<1>1. PICK v \in Workers : WorkerStep(v) \/ WorkerFault(v)
  BY DEF WorkerNext
<1>2. RedisTypeOK /\ WorkerTypeOK
  BY DEF TypeInv, QueueTypeOK
<1>3. retiring' = retiring
  BY <1>1 DEF WorkerStep, WorkerFault, CheckRetiring, ClaimJob, ClaimNothing, ClaimError,
      Catchup, CommitResult, CommitReplyLost, RestartContainer, EvictPod, EvalClaim,
      ResultTransaction, redisVars
<1>4. \A w \in retiring : wpc[w] # "claim" => wpc'[w] # "claim"
  BY <1>1, <1>2 DEF WorkerStep, WorkerFault, CheckRetiring, ClaimJob, ClaimNothing,
      ClaimError, Catchup, CommitResult, CommitReplyLost, RestartContainer, EvictPod,
      RemovePod, Goto, workerVars, WorkerTypeOK, RedisTypeOK
<1>5. ASSUME NEW w \in Workers, Quiet(w)
      PROVE  w \notin HVALS(jobOwners')
  <2>1. CASE UNCHANGED jobOwners
    BY <1>5, <2>1 DEF Quiet
  <2>2. CASE wpc[v] = "claim" /\ EvalClaim(v)
    <3>1. Head(ranges) \in Jobs /\ jobOwners \in [Jobs -> Workers \cup {Nil}]
      BY <1>2, <2>2, EvalClaimTypes DEF RedisTypeOK
    <3>2. HVALS(jobOwners') \subseteq HVALS(jobOwners) \cup {v}
      BY <2>2, <3>1, HashCommands DEF EvalClaim
    <3> QED BY <1>5, <2>2, <3>2 DEF Quiet
  <2>3. CASE wpc[v] = "commit" /\ ResultTransaction(v)
    <3>1. wjob[v] \in Jobs /\ jobOwners \in [Jobs -> Workers \cup {Nil}]
      BY <1>2, <2>3 DEF WorkerTypeOK, RedisTypeOK, Holding
    <3>2. HVALS(jobOwners') \subseteq HVALS(jobOwners)
      BY <2>3, <3>1, HashCommands DEF ResultTransaction
    <3> QED BY <1>5, <3>2 DEF Quiet
  <2> QED BY <1>1, <2>1, <2>2, <2>3
    DEF WorkerStep, WorkerFault, CheckRetiring, ClaimJob, ClaimNothing, ClaimError,
        Catchup, CommitResult, CommitReplyLost, RestartContainer, EvictPod, redisVars
<1> QED BY <1>3, <1>4, <1>5 DEF QuietStays, Quiet

(* The monitor only adds marks and deletes owners. *)
LEMMA MonitorKeepsQuiet ==
  ASSUME TypeInv, MonitorNext
  PROVE  /\ QuietStays
         /\ wpc' = wpc /\ retiring \subseteq retiring'
<1>1. wpc' = wpc
  BY DEF MonitorNext, workerVars
<1>2. RedisTypeOK /\ OrphansLeft
  BY DEF TypeInv, QueueTypeOK
<1>3. retiring \subseteq retiring'
  BY DEF MonitorNext, MonitorStep, MonitorFault, MonitorStart, ReadRemain, ReadFailed,
      ReadProgress, ReadOwners, RequeueLrem, RequeueLpush, RequeueHdel, RereadProgress,
      RereadRemain, PingWorker, MarkSurplus, ConfirmPing, RetryMove, RetryDone, DropOwner,
      Publish, Wake, MonitorError, LremResent, LpushResent, LpushRaises, MonitorRestart,
      redisVars
<1>4. HVALS(jobOwners') \subseteq HVALS(jobOwners)
  <2>1. CASE UNCHANGED jobOwners
    BY <2>1
  <2>2. CASE RequeueHdel
    <3>1. Orphan \in Jobs
      BY <1>2, <2>2, OrphanIsJob DEF TypeInv, OrphansLeft, Requeuing, RequeueHdel
    <3> QED BY <1>2, <2>2, <3>1, HashCommands, WorkersAssumption DEF RedisTypeOK, RequeueHdel
  <2>3. CASE \E j \in Jobs : DropOwner(j)
    BY <1>2, <2>3, HashCommands, WorkersAssumption DEF RedisTypeOK, DropOwner
  <2> QED BY <2>1, <2>2, <2>3
    DEF MonitorNext, MonitorStep, MonitorFault, MonitorStart, ReadRemain, ReadFailed,
      ReadProgress, ReadOwners, RequeueLrem, RequeueLpush, RereadProgress,
      RereadRemain, PingWorker, MarkSurplus, ConfirmPing, RetryMove, RetryDone,
      Publish, Wake, MonitorError, LremResent, LpushResent, LpushRaises, MonitorRestart,
      redisVars
<1> QED BY <1>1, <1>3, <1>4 DEF QuietStays, Quiet

(* No step of the queues breaks the quiet of the pods on offer. *)
LEMMA QuietStep == QuietInv /\ [QueueNext]_queueVars => QuietInv'
<1> SUFFICES ASSUME QuietInv, [QueueNext]_queueVars PROVE QuietInv'
  OBVIOUS
<1>1. TypeInv /\ TypeInv'
  BY TypeStep DEF QuietInv
<1> SUFFICES ASSUME ClaimLandsInTime
             PROVE  ReadsQuiet' /\ IdleQuiet' /\ OfferedQuiet'
  BY <1>1 DEF QuietInv
<1>2. ReadsQuiet /\ IdleQuiet /\ OfferedQuiet
  BY DEF QuietInv
<1>3. /\ mRetirable \subseteq Workers /\ status.retirable \subseteq Workers
      /\ retiring \subseteq Workers /\ retiring' \subseteq Workers
  BY <1>1 DEF TypeInv, QueueTypeOK, MonitorTypeOK, PassTypeOK, Statuses, RedisTypeOK
<1>4. CASE Preload \/ UNCHANGED queueVars
  BY <1>2, <1>4 DEF Preload, queueVars, redisVars, workerVars, monitorVars, passVars,
                    ReadsQuiet, IdleQuiet, OfferedQuiet, Quiet
<1>5. CASE WorkerNext
  <2>1. /\ QuietStays /\ retiring' = retiring
        /\ \A w \in retiring : wpc[w] # "claim" => wpc'[w] # "claim"
    BY <1>1, <1>5, WorkerKeepsQuiet
  <2>2. UNCHANGED monitorVars
    BY <1>5 DEF WorkerNext
  <2>3. ReadsQuiet'
    BY <1>2, <2>1, <2>2 DEF monitorVars, ReadsQuiet
  <2>4. IdleQuiet'
    BY <1>2, <1>3, <2>1, <2>2 DEF monitorVars, passVars, IdleQuiet, QuietStays
  <2>5. OfferedQuiet'
    BY <1>2, <1>3, <2>1, <2>2 DEF monitorVars, passVars, OfferedQuiet, QuietStays
  <2> QED BY <2>3, <2>4, <2>5
<1>6. CASE MonitorNext
  <2>1. QuietStays /\ wpc' = wpc /\ retiring \subseteq retiring'
    BY <1>1, <1>6, MonitorKeepsQuiet
  <2>2. ReadsQuiet'
    BY <1>2, <1>6, <2>1
    DEF MonitorNext, MonitorStep, MonitorFault, MonitorStart, ReadRemain, ReadFailed,
      ReadProgress, ReadOwners, RequeueLrem, RequeueLpush, RequeueHdel, RereadProgress,
      RereadRemain, PingWorker, MarkSurplus, ConfirmPing, RetryMove, RetryDone, DropOwner,
      Publish, Wake, MonitorError, LremResent, LpushResent, LpushRaises, MonitorRestart,
      EndPass, ClaimsLanded, redisVars, ReadsQuiet
  <2>3. IdleQuiet'
    <3>1. CASE ReadOwners
      <4>1. \A w \in retiring \ HVALS(jobOwners) : Quiet(w)
        BY <1>2, <3>1 DEF ReadOwners, ReadsQuiet, Quiet
      <4> QED BY <1>3, <2>1, <3>1, <4>1 DEF ReadOwners, redisVars, IdleQuiet, QuietStays
    <3>2. CASE /\ mpc \in Requeuing \cup {"reProgress", "reRemain", "ping"}
               /\ retiring' = retiring
               /\ mToPing' \cup mUp' \cup mDown' = mToPing \cup mUp \cup mDown
      BY <1>2, <1>3, <2>1, <3>2 DEF IdleQuiet, QuietStays
    <3>3. CASE mpc' \notin Requeuing \cup {"reProgress", "reRemain", "ping"}
      BY <3>3 DEF IdleQuiet
    <3> QED BY <1>6, <3>1, <3>2, <3>3
      DEF MonitorNext, MonitorStep, MonitorFault, MonitorStart, ReadRemain, ReadFailed,
      ReadProgress, RequeueLrem, RequeueLpush, RequeueHdel, RereadProgress,
      RereadRemain, PingWorker, MarkSurplus, ConfirmPing, RetryMove, RetryDone, DropOwner,
      Publish, Wake, MonitorError, LremResent, LpushResent, LpushRaises, MonitorRestart,
      EndPass, redisVars, passVars, Requeuing
  <2>4. OfferedQuiet'
    <3>1. CASE MarkSurplus
      <4>1. mRetirable' = retiring \ (mUp \cup mDown) /\ mToPing = {} /\ UNCHANGED status
        BY <3>1 DEF MarkSurplus, Retirable, Active
      <4>2. \A w \in mRetirable' : Quiet(w)
        BY <1>2, <3>1, <4>1 DEF MarkSurplus, IdleQuiet
      <4> QED BY <1>2, <1>3, <2>1, <4>1, <4>2 DEF OfferedQuiet, QuietStays
    <3>2. CASE (mRetirable' \cup status'.retirable) \subseteq mRetirable \cup status.retirable
      BY <1>2, <1>3, <2>1, <3>2 DEF OfferedQuiet, QuietStays
    <3> QED BY <1>6, <3>1, <3>2
      DEF MonitorNext, MonitorStep, MonitorFault, MonitorStart, ReadRemain, ReadFailed,
      ReadProgress, ReadOwners, RequeueLrem, RequeueLpush, RequeueHdel, RereadProgress,
      RereadRemain, PingWorker, ConfirmPing, RetryMove, RetryDone, DropOwner,
      Publish, Wake, MonitorError, LremResent, LpushResent, LpushRaises, MonitorRestart,
      EndPass, PassReset, InitialStatus, passVars
  <2> QED BY <2>2, <2>3, <2>4
<1> QED BY <1>4, <1>5, <1>6 DEF QueueNext

(* Nothing is on offer in the initial state. *)
LEMMA QuietInit == QueueInit => QuietInv
<1> SUFFICES ASSUME QueueInit PROVE QuietInv
  OBVIOUS
<1>1. TypeInv
  BY InitTypes
<1> QED BY <1>1 DEF QueueInit, MonitorInit, PassInit, InitialStatus, QuietInv, ReadsQuiet,
                 IdleQuiet, OfferedQuiet, Requeuing

(* A pod offered for retirement owns no job and cannot claim one:             *)
(* RetirableIsQuiet for any number of jobs and workers and any faults.        *)
THEOREM OfferedPodsAreQuiet == QueueSpec => []RetirableIsQuiet
<1>1. QuietInv => RetirableIsQuiet
  BY DEF QuietInv, OfferedQuiet, Quiet, RetirableIsQuiet
<1> QED BY <1>1, QuietInit, QuietStep, PTL DEF QueueSpec

-----------------------------------------------------------------------------
(* The mission: the driver joins. *)

(* The driver's counters reach their limits only when the mission ends, or    *)
(* will once the pods of this poll are deleted.                               *)
DriverInv ==
  /\ DriverTypeOK
  /\ toRetire # {} => verdict = "none"
  /\ timeoutLeft = 0 => verdict # "none"
  /\ stalledFor = StallPolls => verdict # "none" \/ (toRetire # {} /\ judgement # "none")

\* The pods being deleted are quiet.
RetiredQuiet == ClaimLandsInTime => \A w \in toRetire : Quiet(w)

MissionInv == QuietInv /\ DriverInv /\ RetiredQuiet

(* Ending the loop body keeps the types of the workers and claims nothing. *)
LEMMA EndBodyTypes ==
  ASSUME WorkerTypeOK, NEW v \in Verdicts, EndBody(v)
  PROVE  /\ WorkerTypeOK'
         /\ \A w \in Workers : wpc[w] # "claim" => wpc'[w] # "claim"
         /\ toRetire' = {} /\ deleted' = {} /\ judgement' = "none" /\ verdict' = v
BY NilAssumption DEF EndBody, WorkerTypeOK, WorkerPCs, Holding, workerVars

(* A step of the driver keeps the types, leaves Redis and the monitor alone,  *)
(* brings no worker to a claim, and retires only what is on offer.            *)
LEMMA DriverStepTypes ==
  ASSUME TypeInv, DriverInv, verdict = "none", DriverNext
  PROVE  /\ WorkerTypeOK' /\ faults' \in 0..MaxFaults /\ DriverInv'
         /\ \A w \in Workers : wpc[w] # "claim" => wpc'[w] # "claim"
         /\ toRetire' \subseteq toRetire \cup status.retirable
<1>1. WorkerTypeOK /\ RedisTypeOK /\ MonitorTypeOK
  BY DEF TypeInv, QueueTypeOK
<1>2. faults' \in 0..MaxFaults
  <2>1. NoFault \/ \E kind \in AllFaultKinds : Fault(kind)
    BY DEF DriverNext, DriverStep, DriverFault, PollFailedJobs, Poll, PollFails, DeletePod,
           ScaledDown, DeleteError, AllFaultKinds
  <2>2. faults' = faults \/ (faults < MaxFaults /\ faults' = faults + 1)
    BY <2>1 DEF Fault, NoFault
  <2> QED BY <1>1, <2>2, FaultAssumption DEF RedisTypeOK
<1>3. Idle => StalledFor \in 0..StallPolls
  BY DriverAssumption DEF Idle, StalledFor, DriverInv, DriverTypeOK
<1>4. Judgement \in Verdicts /\ (StalledFor = StallPolls => Judgement = "failed")
  BY DriverAssumption DEF Judgement, Verdicts
<1>5. DriverTypeOK
  BY DEF DriverInv
<1>6. CASE PollFailedJobs
  <2>1. "failed" \in Verdicts /\ EndBody("failed")
    BY <1>6 DEF PollFailedJobs, Verdicts
  <2>2. /\ WorkerTypeOK' /\ \A w \in Workers : wpc[w] # "claim" => wpc'[w] # "claim"
        /\ toRetire' = {} /\ deleted' = {} /\ judgement' = "none" /\ verdict' = "failed"
    BY <1>1, <2>1, EndBodyTypes
  <2>3. DriverInv'
    BY <1>5, <1>6, <2>2, DriverAssumption DEF PollFailedJobs, DriverInv, DriverTypeOK, Verdicts
  <2> QED BY <1>2, <2>2, <2>3
<1>7. CASE Poll
  <2>1. PICK pods \in ToRetire :
          IF pods = {}
          THEN EndBody(Judgement)
          ELSE /\ toRetire' = pods /\ judgement' = Judgement
               /\ UNCHANGED <<deleted, verdict, workerVars>>
    BY <1>7 DEF Poll
  <2>2. Idle /\ toRetire = {} /\ timeoutLeft' = StatusTimeoutPolls /\ stalledFor' = StalledFor
        /\ UNCHANGED livePods
    BY <1>7 DEF Poll, Idle
  <2>3. pods \subseteq status.retirable /\ pods \subseteq Workers
    BY <1>5 DEF ToRetire, DriverTypeOK
  <2>4. CASE pods = {}
    <3>1. /\ WorkerTypeOK' /\ \A w \in Workers : wpc[w] # "claim" => wpc'[w] # "claim"
          /\ toRetire' = {} /\ deleted' = {} /\ judgement' = "none" /\ verdict' = Judgement
      BY <1>1, <1>4, <2>1, <2>4, EndBodyTypes
    <3>2. DriverInv'
      BY <1>3, <1>4, <1>5, <2>2, <3>1, DriverAssumption DEF DriverInv, DriverTypeOK, Verdicts
    <3> QED BY <1>2, <3>1, <3>2
  <2>5. CASE pods # {}
    <3>1. toRetire' = pods /\ judgement' = Judgement /\ UNCHANGED <<deleted, verdict, workerVars>>
      BY <2>1, <2>5
    <3>2. DriverInv'
      BY <1>3, <1>4, <1>5, <2>2, <2>3, <2>5, <3>1, DriverAssumption
      DEF DriverInv, DriverTypeOK, Verdicts
    <3> QED BY <1>1, <1>2, <2>3, <3>1, <3>2 DEF WorkerTypeOK, workerVars
  <2> QED BY <2>4, <2>5
<1>8. CASE PollFails
  <2>1. PICK v \in {"failed", "none"} : EndBody(v) /\ (timeoutLeft' = 0 => v = "failed")
    BY <1>8 DEF PollFails
  <2>2. /\ WorkerTypeOK' /\ \A w \in Workers : wpc[w] # "claim" => wpc'[w] # "claim"
        /\ toRetire' = {} /\ deleted' = {} /\ judgement' = "none" /\ verdict' = v
    BY <1>1, <2>1, EndBodyTypes DEF Verdicts
  <2>3. DriverInv'
    BY <1>5, <1>8, <2>1, <2>2, DriverAssumption
    DEF PollFails, Idle, DriverInv, DriverTypeOK, Verdicts
  <2> QED BY <1>2, <2>2, <2>3
<1>9. CASE \E w \in Workers : DeletePod(w)
  <2>1. PICK w \in Workers : DeletePod(w)
    BY <1>9
  <2>2. WorkerTypeOK' /\ \A u \in Workers : wpc[u] # "claim" => wpc'[u] # "claim"
    BY <1>1, <2>1, NilAssumption
    DEF DeletePod, RemovePod, Goto, Forget, WorkerTypeOK, WorkerPCs, Holding
  <2>3. DriverInv' /\ toRetire' = toRetire
    BY <1>5, <2>1 DEF DeletePod, DriverInv, DriverTypeOK
  <2> QED BY <1>2, <2>2, <2>3
<1>10. CASE ScaledDown \/ DeleteError
  <2>1. EndBody(judgement) /\ judgement \in Verdicts /\ toRetire # {}
    BY <1>5, <1>10 DEF ScaledDown, DeleteError, DriverTypeOK
  <2>2. /\ WorkerTypeOK' /\ \A w \in Workers : wpc[w] # "claim" => wpc'[w] # "claim"
        /\ toRetire' = {} /\ deleted' = {} /\ judgement' = "none" /\ verdict' = judgement
    BY <1>1, <2>1, EndBodyTypes
  <2>3. DriverInv'
    BY <1>5, <1>10, <2>1, <2>2, DriverAssumption
    DEF ScaledDown, DeleteError, DriverInv, DriverTypeOK, Verdicts
  <2> QED BY <1>2, <2>2, <2>3
<1> QED BY <1>6, <1>7, <1>8, <1>9, <1>10 DEF DriverNext, DriverStep, DriverFault

(* Every step of the mission keeps the invariant. *)
LEMMA MissionStep == MissionInv /\ [Next]_vars => MissionInv'
<1> SUFFICES ASSUME MissionInv, [Next]_vars PROVE MissionInv'
  OBVIOUS
<1>1. QuietInv /\ TypeInv /\ DriverInv /\ RetiredQuiet /\ toRetire \subseteq Workers
  BY DEF MissionInv, QuietInv, DriverInv, DriverTypeOK
<1>2. CASE ClusterNext
  <2>1. QuietInv'
    BY <1>1, <1>2, QuietStep DEF ClusterNext
  <2>2. DriverInv'
    BY <1>1, <1>2 DEF ClusterNext, driverVars, DriverInv, DriverTypeOK
  <2>3. QuietStays
    <3>1. CASE Preload
      BY <3>1 DEF Preload, workerVars, QuietStays, Quiet
    <3> QED BY <1>1, <1>2, <3>1, WorkerKeepsQuiet, MonitorKeepsQuiet DEF ClusterNext, QueueNext
  <2>4. RetiredQuiet'
    BY <1>1, <1>2, <2>3 DEF ClusterNext, driverVars, RetiredQuiet, QuietStays
  <2> QED BY <2>1, <2>2, <2>4 DEF MissionInv
<1>3. CASE DriverNext
  <2>1. verdict = "none"
    BY <1>1, <1>3 DEF DriverNext, DriverStep, DriverFault, PollFailedJobs, Poll, PollFails,
         DeletePod, ScaledDown, DeleteError, Idle, DriverInv, DriverTypeOK
  <2>2. /\ WorkerTypeOK' /\ faults' \in 0..MaxFaults /\ DriverInv'
        /\ \A w \in Workers : wpc[w] # "claim" => wpc'[w] # "claim"
        /\ toRetire' \subseteq toRetire \cup status.retirable
    BY <1>1, <1>3, <2>1, DriverStepTypes
  <2>3. UNCHANGED <<redisVars, monitorVars, preloaded>>
    BY <1>3 DEF DriverNext
  <2>4. TypeInv'
    <3>1. RedisTypeOK'
      BY <1>1, <2>2, <2>3 DEF redisVars, TypeInv, QueueTypeOK, RedisTypeOK
    <3>2. MonitorTypeOK' /\ OrphansLeft' /\ preloaded' \in BOOLEAN
      BY <1>1, <2>3 DEF monitorVars, passVars, TypeInv, QueueTypeOK, MonitorTypeOK,
                        PassTypeOK, OrphansLeft
    <3> QED BY <2>2, <3>1, <3>2 DEF TypeInv, QueueTypeOK
  <2>5. /\ retiring \subseteq Workers /\ mRetirable \subseteq Workers
        /\ status.retirable \subseteq Workers
    BY <1>1 DEF TypeInv, QueueTypeOK, RedisTypeOK, MonitorTypeOK, PassTypeOK, Statuses
  <2>6. QuietStays
    BY <2>2, <2>3 DEF redisVars, QuietStays, Quiet
  <2>7. ClaimLandsInTime => ReadsQuiet' /\ IdleQuiet' /\ OfferedQuiet'
    <3> SUFFICES ASSUME ClaimLandsInTime PROVE ReadsQuiet' /\ IdleQuiet' /\ OfferedQuiet'
      OBVIOUS
    <3>1. ReadsQuiet /\ IdleQuiet /\ OfferedQuiet
      BY <1>1 DEF QuietInv
    <3>2. ReadsQuiet'
      BY <2>2, <2>3, <2>5, <3>1 DEF redisVars, monitorVars, ReadsQuiet
    <3>3. IdleQuiet'
      BY <2>3, <2>5, <2>6, <3>1 DEF redisVars, monitorVars, passVars, IdleQuiet, QuietStays
    <3>4. OfferedQuiet'
      BY <2>3, <2>5, <2>6, <3>1 DEF monitorVars, passVars, OfferedQuiet, QuietStays
    <3> QED BY <3>2, <3>3, <3>4
  <2>8. RetiredQuiet'
    <3> SUFFICES ASSUME ClaimLandsInTime, NEW w \in toRetire'
                 PROVE  Quiet(w)'
      BY DEF RetiredQuiet
    <3>1. w \in Workers /\ Quiet(w)
      BY <1>1, <2>2, <2>5 DEF QuietInv, OfferedQuiet, RetiredQuiet
    <3> QED BY <2>6, <3>1 DEF QuietStays
  <2> QED BY <2>2, <2>4, <2>7, <2>8 DEF MissionInv, QuietInv
<1>4. CASE UNCHANGED vars
  <2>1. [QueueNext]_queueVars
    BY <1>4 DEF vars
  <2>2. QuietInv'
    BY <1>1, <2>1, QuietStep
  <2> QED BY <1>1, <1>4, <2>2
    DEF vars, queueVars, redisVars, workerVars, driverVars, MissionInv, DriverInv,
        DriverTypeOK, RetiredQuiet, Quiet
<1> QED BY <1>2, <1>3, <1>4 DEF Next, Terminated

(* The invariant holds before the first poll. *)
LEMMA MissionStart == Init => MissionInv
<1> SUFFICES ASSUME Init PROVE MissionInv
  OBVIOUS
<1>1. QuietInv
  BY QuietInit DEF Init
<1>2. DriverInv /\ RetiredQuiet
  BY DriverAssumption DEF Init, DriverInit, DriverInv, DriverTypeOK, Verdicts, RetiredQuiet
<1> QED BY <1>1, <1>2 DEF MissionInv

(* Every reachable state of the mission is well typed; in particular no       *)
(* counter of the driver passes its limit.                                    *)
THEOREM MissionTypesHold == Spec => []TypeOK
<1>1. MissionInv => TypeOK
  BY DEF MissionInv, QuietInv, TypeInv, DriverInv, TypeOK
<1> QED BY <1>1, MissionStart, MissionStep, PTL DEF Spec

(* The driver never deletes a pod that owns a job, however old its status:    *)
(* RetireRespectsOwnership for any number of jobs and workers and any faults. *)
THEOREM RetiredPodsOwnNothing == Spec => []RetireRespectsOwnership
<1>1. MissionInv => RetireRespectsOwnership
  BY DEF MissionInv, RetiredQuiet, Quiet, RetireRespectsOwnership
<1> QED BY <1>1, MissionStart, MissionStep, PTL DEF Spec

-----------------------------------------------------------------------------
(* What the queues promise survives the driver: it deletes pods, at the end    *)
(* all of them, but touches neither Redis nor the monitor.                     *)

(* The steps that are the driver's own. *)
LEMMA DriverLeavesQueues ==
  ASSUME MissionInv, [Next]_vars
  PROVE  \/ [QueueNext]_queueVars
         \/ /\ DriverNext /\ verdict = "none"
            /\ UNCHANGED <<redisVars, monitorVars, preloaded>>
<1>1. CASE ClusterNext
  BY <1>1 DEF ClusterNext
<1>2. CASE DriverNext
  <2>1. verdict = "none"
    BY <1>2 DEF DriverNext, DriverStep, DriverFault, PollFailedJobs, Poll, PollFails, DeletePod,
         ScaledDown, DeleteError, Idle, MissionInv, DriverInv, DriverTypeOK
  <2> QED BY <1>2, <2>1 DEF DriverNext
<1>3. CASE UNCHANGED vars
  BY <1>3 DEF vars
<1> QED BY <1>1, <1>2, <1>3 DEF Next, Terminated

(* The invariant behind NoJobLost and CleanSnapshotSound. *)
LEMMA MissionSnapStep ==
  ASSUME MissionInv, SnapInv, [Next]_vars
  PROVE  SnapInv'
<1>1. TypeInv'
  BY MissionStep DEF MissionInv, QuietInv
<1>2. CASE [QueueNext]_queueVars
  BY <1>2, SnapStep
<1>3. CASE UNCHANGED <<redisVars, monitorVars, preloaded>>
  BY <1>1, <1>3
  DEF redisVars, monitorVars, passVars, SnapInv, StartInv, LoadedFirst, RereadKnown, CountsInv,
      JobsKept, RemainBounds, CountsBound, CleanStatus, Accounted, InHand, Orphan, Done, Open
<1> QED BY <1>2, <1>3, DriverLeavesQueues

LEMMA MissionSnapAlways == Spec => [](MissionInv /\ SnapInv)
<1>1. Init => MissionInv /\ SnapInv
  BY MissionStart, SnapInit DEF Init
<1>2. MissionInv /\ SnapInv /\ [Next]_vars => MissionInv' /\ SnapInv'
  BY MissionStep, MissionSnapStep
<1> QED BY <1>1, <1>2, PTL DEF Spec

(* A driver's step that decides for completion is a poll that has seen empty  *)
(* queues: what was decided before does not count, and no other step decides. *)
LEMMA CompletionSeesEmpty ==
  ASSUME DriverNext, verdict = "none",
         "complete" \in {judgement', verdict'} \ {judgement, verdict}
  PROVE  QueuesEmpty
<1>1. CASE PollFailedJobs
  BY <1>1 DEF PollFailedJobs, EndBody
<1>2. CASE Poll
  <2>1. "complete" = Judgement
    BY <1>2 DEF Poll, EndBody
  <2> QED BY <2>1 DEF Judgement
<1>3. CASE PollFails
  BY <1>3 DEF PollFails, EndBody
<1>4. CASE \E w \in Workers : DeletePod(w)
  BY <1>4 DEF DeletePod
<1>5. CASE ScaledDown \/ DeleteError
  BY <1>5 DEF ScaledDown, DeleteError, EndBody
<1> QED BY <1>1, <1>2, <1>3, <1>4, <1>5 DEF DriverNext, DriverStep, DriverFault

(* A mission completes with an open job only on the word of a pass that       *)
(* requeued orphans: CompletesOnlyWhenDone for any number of jobs and workers *)
(* and any faults outside requeue_job.                                        *)
THEOREM CompletionIsEarned == Spec => CompletesOnlyWhenDone
<1>1. ASSUME MissionInv, SnapInv, [Next]_vars, ~status.reread, "requeueError" \notin FaultKinds,
             "complete" \in {judgement', verdict'} \ {judgement, verdict}
      PROVE  Jobs = Done
  <2>1. DriverNext /\ verdict = "none"
    <3>1. judgement' # judgement \/ verdict' # verdict
      BY <1>1
    <3>2. ~ClusterNext /\ ~UNCHANGED vars /\ ~Terminated
      BY <3>1 DEF ClusterNext, Terminated, vars, driverVars
    <3>3. DriverNext
      BY <1>1, <3>2 DEF Next
    <3> QED BY <1>1, <3>3
      DEF DriverNext, DriverStep, DriverFault, PollFailedJobs, Poll, PollFails, DeletePod,
          ScaledDown, DeleteError, Idle, MissionInv, DriverInv, DriverTypeOK
  <2>2. QueuesEmpty
    BY <1>1, <2>1, CompletionSeesEmpty
  <2> QED BY <1>1, <2>2 DEF QueuesEmpty, SnapInv, CountsInv, CleanStatus
<1>2. MissionInv /\ SnapInv /\ [Next]_vars
        => [/\ "complete" \in {judgement', verdict'} \ {judgement, verdict}
            /\ ~status.reread /\ "requeueError" \notin FaultKinds
            => Jobs = Done]_vars
  BY <1>1
<1> QED BY <1>2, MissionSnapAlways, PTL DEF Spec, CompletesOnlyWhenDone

(* No job is lost in a mission whose driver deletes pods: NoJobLost once more. *)
THEOREM MissionLosesNoJob == Spec => []NoJobLost
<1>1. SnapInv => NoJobLost
  BY DEF SnapInv, CountsInv, JobsKept, NoJobLost
<1> QED BY <1>1, MissionSnapAlways, PTL

(* The invariant of the refinement. *)
LEMMA MissionOnceStep ==
  ASSUME NoTornCommand, MissionInv, OnceInv, [Next]_vars
  PROVE  OnceInv'
<1>1. TypeInv'
  BY MissionStep DEF MissionInv, QuietInv
<1>2. CASE [QueueNext]_queueVars
  BY <1>2, OnceStep
<1>3. CASE UNCHANGED <<redisVars, monitorVars, preloaded>>
  BY <1>1, <1>3
  DEF redisVars, monitorVars, passVars, OnceInv, LoadedFirst, RereadKnown, NoneOutBefore,
      EachJobOnce, InHand, Orphan
<1> QED BY <1>2, <1>3, DriverLeavesQueues

(* To the work queue the driver's steps are hands that vanish: one that is    *)
(* retired, or all of them with the release.                                  *)
LEMMA DriverIsWork ==
  ASSUME TypeInv, DriverNext, UNCHANGED <<redisVars, monitorVars, preloaded>>
  PROVE  [WQ!WQNext]_(WQ!wqVars)
<1>1. wjob \in [Workers -> Jobs \cup {Nil}]
  BY DEF TypeInv, QueueTypeOK, WorkerTypeOK
<1>2. /\ UNCHANGED <<ranges, inProgress, succeeded, failed, preloaded>>
      /\ InHand' = InHand /\ Done' = Done
  BY DEF redisVars, monitorVars, passVars, InHand, Orphan, Done
<1>3. ASSUME NEW gone \in SUBSET Workers,
             wjob' = [w \in Workers |-> IF w \in gone THEN Nil ELSE wjob[w]]
      PROVE  WQ!WQNext
  <2>1. WQ!LetGo(gone)
    BY <1>2, <1>3 DEF WQ!LetGo
  <2> QED BY <2>1 DEF WQ!WQNext
<1>4. CASE UNCHANGED wjob
  BY <1>2, <1>4 DEF WQ!wqVars
<1>5. CASE \E w \in Workers : DeletePod(w)
  <2>1. PICK w \in Workers : RemovePod(w)
    BY <1>5 DEF DeletePod
  <2>2. wjob' = [v \in Workers |-> IF v \in {w} THEN Nil ELSE wjob[v]] /\ {w} \in SUBSET Workers
    BY <1>1, <2>1 DEF RemovePod, Forget
  <2> QED BY <1>3, <2>2
<1>6. CASE wjob' = [w \in Workers |-> Nil]
  <2>1. wjob' = [w \in Workers |-> IF w \in Workers THEN Nil ELSE wjob[w]]
    BY <1>6
  <2> QED BY <1>3, <2>1
<1> QED BY <1>4, <1>5, <1>6
  DEF DriverNext, DriverStep, DriverFault, PollFailedJobs, Poll, PollFails, ScaledDown,
      DeleteError, EndBody, workerVars

(* With its driver, too, the mission is a work queue: retiring workers, and   *)
(* uninstalling the release under running ones, moves no job.                 *)
THEOREM MissionIsAWorkQueue == NoTornCommand => (Spec => ImplementsWorkQueue)
<1> SUFFICES ASSUME NoTornCommand PROVE Spec => ImplementsWorkQueue
  OBVIOUS
<1>1. Init => MissionInv /\ OnceInv /\ WQ!WQInit
  BY MissionStart, OnceInit, InitIsWork DEF Init
<1>2. MissionInv /\ OnceInv /\ [Next]_vars => MissionInv' /\ OnceInv'
  BY MissionStep, MissionOnceStep
<1>3. MissionInv /\ OnceInv /\ [Next]_vars => [WQ!WQNext]_(WQ!wqVars)
  BY StepIsWork, DriverIsWork, DriverLeavesQueues DEF OnceInv
<1> QED BY <1>1, <1>2, <1>3, PTL DEF Spec, ImplementsWorkQueue, WQ!WQSpec

-----------------------------------------------------------------------------
(* The release of the first mission: main and the signal handler share         *)
(* toPerformCleanup without a lock.                                            *)

\* Nothing is installed before Install, and then only the mission's release.
InstalledOnce ==
  /\ releases \subseteq {1} /\ helmReleaseName \in {0, 1}
  /\ mainpc \in {"start", "install"} => releases = {}
  /\ mainpc = "start" => helmReleaseName = 0
  /\ mainpc \notin {"start", "exit"} => helmReleaseName = 1
  /\ helmReleaseName = 0 => handlerpc \in {"none", "exit"}

\* A cleared flag means that one of the threads is about to uninstall, or has
\* done so; only a release whose every uninstall failed stays for good.
FlagHonoured ==
  /\ "ok" \in uninstalls => releases = {} /\ mainpc \notin {"start", "install"}
  /\ ~toPerformCleanup /\ mainpc \in {"start", "install"} => handlerpc = "uninstall" \/ uninstalls = {"failed"}
  /\ ~toPerformCleanup /\ releases # {} =>
       mainpc \in {"collect", "uninstall"} \/ handlerpc = "uninstall" \/ uninstalls = {"failed"}
  /\ mainpc \in {"next", "exit"} => releases = {} \/ ~toPerformCleanup
  /\ handlerpc \in {"uninstall", "leave"} => ~toPerformCleanup
  /\ mainpc \in {"collect", "uninstall"} => ~toPerformCleanup

\* The release is named before it is installed.
NamedFirst == mainpc = "install" => helmReleaseName = mission

CleanupInv ==
  /\ CleanupTypeOK
  /\ NamedFirst
  /\ mission = 1 => InstalledOnce /\ FlagHonoured /\ LeakOnlyMidCleanup

LEMMA CleanupStart == CleanupInit => CleanupInv
<1> SUFFICES ASSUME CleanupInit PROVE CleanupInv
  OBVIOUS
<1>1. CleanupTypeOK /\ NamedFirst
  <2>1. toPerformCleanup \in BOOLEAN /\ uninstalls \subseteq {"ok", "failed"}
    BY DEF CleanupInit
  <2>2. mission \in 1..NumMissions /\ helmReleaseName \in 0..NumMissions
    BY CleanupAssumption DEF CleanupInit
  <2> QED BY <2>1, <2>2 DEF CleanupInit, CleanupTypeOK, MainPCs, NamedFirst
<1>2. InstalledOnce
  BY DEF CleanupInit, InstalledOnce
<1>3. FlagHonoured
  BY DEF CleanupInit, FlagHonoured
<1>4. LeakOnlyMidCleanup
  BY DEF CleanupInit, LeakOnlyMidCleanup
<1> QED BY <1>1, <1>2, <1>3, <1>4 DEF CleanupInv

LEMMA CleanupTypes ==
  ASSUME CleanupTypeOK, NamedFirst, [CleanupNext]_cleanupVars
  PROVE  CleanupTypeOK' /\ NamedFirst' /\ (mission' = 1 => mission = 1)
<1> USE CleanupAssumption DEF CleanupTypeOK, NamedFirst, MainPCs
<1>1. CASE StartMission \/ Install \/ InstallRaises
  <2>1. CASE StartMission
    BY <2>1 DEF StartMission
  <2>2. CASE Install
    BY <2>2 DEF Install
  <2>3. CASE InstallRaises
    BY <2>3 DEF InstallRaises
  <2> QED BY <1>1, <2>1, <2>2, <2>3
<1>2. CASE EndLoop \/ MainTest \/ MainFlag \/ MainCollect \/ MainUninstall
  BY <1>2 DEF EndLoop, MainTest, MainFlag, MainCollect, MainUninstall, Uninstall
<1>3. CASE NextMission
  BY <1>3 DEF NextMission
<1>4. CASE HandlerStep
  BY <1>4 DEF HandlerStep, SignalArrives, HandlerTest, HandlerFlag, HandlerUninstall, HandlerExit, Uninstall
<1>5. CASE UNCHANGED cleanupVars
  BY <1>5 DEF cleanupVars
<1> QED BY <1>1, <1>2, <1>3, <1>4, <1>5 DEF CleanupNext, ProcessGone, MainStep

LEMMA CleanupStep ==
  ASSUME CleanupInv, [CleanupNext]_cleanupVars
  PROVE  CleanupInv'
<1>1. CleanupTypeOK /\ CleanupTypeOK' /\ NamedFirst' /\ (mission' = 1 => mission = 1)
  BY CleanupTypes DEF CleanupInv
<1> SUFFICES ASSUME mission = 1, mission' = 1
             PROVE  InstalledOnce' /\ FlagHonoured' /\ LeakOnlyMidCleanup'
  BY <1>1 DEF CleanupInv
<1>2. InstalledOnce /\ FlagHonoured /\ LeakOnlyMidCleanup
  BY DEF CleanupInv
<1> USE DEF CleanupTypeOK, MainPCs, InstalledOnce, FlagHonoured, LeakOnlyMidCleanup, Exited
<1>3. CASE ~Exited /\ MainStep
  <2>1. CASE StartMission
    BY <1>1, <1>2, <1>3, <2>1 DEF StartMission
  <2>2. CASE Install
    BY <1>1, <1>2, <1>3, <2>2 DEF Install
  <2>3. CASE InstallRaises
    BY <1>1, <1>2, <1>3, <2>3 DEF InstallRaises
  <2>4. CASE EndLoop
    BY <1>1, <1>2, <1>3, <2>4 DEF EndLoop
  <2>5. CASE MainTest
    BY <1>1, <1>2, <1>3, <2>5 DEF MainTest
  <2>6. CASE MainFlag
    BY <1>1, <1>2, <1>3, <2>6 DEF MainFlag
  <2>7. CASE MainCollect
    BY <1>1, <1>2, <1>3, <2>7 DEF MainCollect
  <2>8. CASE MainUninstall
    BY <1>1, <1>2, <1>3, <2>8 DEF MainUninstall, Uninstall
  <2>9. CASE NextMission
    <3>1. mainpc = "next" /\ mainpc' = "exit"
          /\ UNCHANGED <<mission, handlerpc, helmReleaseName, toPerformCleanup, releases, uninstalls>>
      BY <1>1, <2>9 DEF NextMission
    <3>2. InstalledOnce'
      BY <1>1, <1>2, <3>1
    <3>3. FlagHonoured'
      BY <1>1, <1>2, <3>1
    <3>4. LeakOnlyMidCleanup'
      BY <1>1, <1>2, <1>3, <3>1
    <3> QED BY <3>2, <3>3, <3>4
  <2> QED BY <1>3, <2>1, <2>2, <2>3, <2>4, <2>5, <2>6, <2>7, <2>8, <2>9 DEF MainStep
<1>4. CASE ~Exited /\ HandlerStep
  <2>1. CASE SignalArrives
    <3>1. InstalledOnce'
      BY <1>1, <1>2, <1>4, <2>1 DEF SignalArrives
    <3>2. FlagHonoured'
      BY <1>1, <1>2, <1>4, <2>1 DEF SignalArrives
    <3>3. LeakOnlyMidCleanup'
      <4>1. handlerpc' = "exit" => helmReleaseName = 0
        BY <2>1 DEF SignalArrives
      <4>2. helmReleaseName = 0 => mainpc = "start"
        BY <1>2, <1>4
      <4>3. mainpc = "start" => releases = {}
        BY <1>2
      <4>4. mainpc' = mainpc /\ releases' = releases /\ mainpc # "exit"
        BY <1>4, <2>1 DEF SignalArrives
      <4> QED BY <4>1, <4>2, <4>3, <4>4
    <3> QED BY <3>1, <3>2, <3>3
  <2>2. CASE HandlerTest
    BY <1>1, <1>2, <1>4, <2>2 DEF HandlerTest
  <2>3. CASE HandlerFlag
    BY <1>1, <1>2, <1>4, <2>3 DEF HandlerFlag
  <2>4. CASE HandlerUninstall
    BY <1>1, <1>2, <1>4, <2>4 DEF HandlerUninstall, Uninstall
  <2>5. CASE HandlerExit
    BY <1>1, <1>2, <1>4, <2>5 DEF HandlerExit
  <2> QED BY <1>4, <2>1, <2>2, <2>3, <2>4, <2>5 DEF HandlerStep
<1>5. CASE UNCHANGED cleanupVars
  BY <1>2, <1>5 DEF cleanupVars
<1> QED BY <1>3, <1>4, <1>5 DEF CleanupNext, ProcessGone

(* The types of the cleanup's state: main never starts a mission that the     *)
(* command line does not name.                                                *)
THEOREM CleanupTypesHold == CleanupSpec => []CleanupTypeOK
<1>1. CleanupInv => CleanupTypeOK
  BY DEF CleanupInv
<1> QED BY <1>1, CleanupStart, CleanupStep, PTL DEF CleanupSpec

(* In the first mission a release outlives the process only if one thread     *)
(* exits in the middle of the other's cleanup, or if every uninstall that was *)
(* run failed: the unlocked test of toPerformCleanup adds no other way,       *)
(* wherever the signal arrives.                                               *)
THEOREM ReleaseLeaksOnlyMidCleanup == CleanupSpec => []LeakOnlyMidCleanup
<1>1. CleanupInv => LeakOnlyMidCleanup
  BY DEF CleanupInv, LeakOnlyMidCleanup
<1> QED BY <1>1, CleanupStart, CleanupStep, PTL DEF CleanupSpec
=============================================================================
