---------------------------- MODULE StatusProofs ----------------------------
(***************************************************************************)
(* What the status and the reports of the monitor are worth, for any       *)
(* number of jobs, workers and faults.  The counts of a pass are stale,    *)
(* but they never miss a job, so an empty status is the truth and marking  *)
(* leaves enough workers; and the reports served with it are complete.     *)
(***************************************************************************)
EXTENDS CatchupMetrics, CatchupQueuesProofs

(* A list has at least as many entries as there are jobs on it. *)
LEMMA JobsOnList ==
  ASSUME NEW s \in Seq(Jobs)
  PROVE  /\ IsFiniteSet(ToSet(s)) /\ Cardinality(ToSet(s)) \in Nat
         /\ Cardinality(ToSet(s)) <= Len(s)
<1>1. s \in [1..Len(s) -> ToSet(s)] /\ \A j \in ToSet(s) : \E i \in 1..Len(s) : s[i] = j
  BY DEF ToSet
<1>2. s \in Surjection(1..Len(s), ToSet(s))
  BY <1>1 DEF Surjection
<1>3. Len(s) \in Nat
  OBVIOUS
<1>4. IsFiniteSet(1..Len(s)) /\ Cardinality(1..Len(s)) = Len(s)
  BY <1>3, FS_Interval
<1> QED BY <1>2, <1>4, FS_Surjection, FS_CardinalityType

(* The jobs still to be done, and their number. *)
Open == Jobs \ Done

(* The number of open jobs is a number, and only falls while Done grows. *)
LEMMA OpenCount ==
  ASSUME Done \subseteq Done'
  PROVE  /\ Cardinality(Open) \in Nat /\ Cardinality(Open') \in Nat
         /\ Cardinality(Open') <= Cardinality(Open)
<1>1. Open' \in SUBSET Open /\ Open \in SUBSET Jobs
  BY DEF Open
<1>2. IsFiniteSet(Open)
  BY <1>1, FS_Subset, JobsAssumption
<1> QED BY <1>1, <1>2, FS_Subset, FS_CardinalityType

-----------------------------------------------------------------------------
(* The inductive invariant. *)

\* Since the first read of the pass ranges has only become shorter.
RemainBounds == mpc \in {"failed", "progress"} => Len(ranges) <= mRemain

\* Once both lists are read, the counts bound the jobs that are open.
AfterReads == {"owners", "ping", "confirm", "retry", "drop", "publish"}

CountsBound ==
  mpc \in AfterReads /\ (mpc = "owners" \/ ~mReread) =>
    Cardinality(Open) <= mRemain + Len(mProgress)

\* What CleanSnapshotSound says of the published status.
CleanStatus ==
  status.remain = 0 /\ status.inProgress = 0 /\ ~status.reread => Jobs = Done

CountsInv == JobsKept /\ RemainBounds /\ CountsBound /\ CleanStatus

StartInv == TypeInv /\ LoadedFirst /\ RereadKnown

SnapInv == StartInv /\ ("requeueError" \notin FaultKinds => CountsInv)

(* When both lists have been read, without a requeue in between, no open job  *)
(* is missing from the counts.                                                *)
LEMMA ReadsMissNothing ==
  ASSUME TypeInv, JobsKept, preloaded, mpc = "progress", mRemain >= Len(ranges)
  PROVE  Cardinality(Open) <= mRemain + Len(inProgress)
<1>1. ranges \in Seq(Jobs) /\ inProgress \in Seq(Jobs) /\ mRemain \in Nat
  BY DEF TypeInv, QueueTypeOK, RedisTypeOK, MonitorTypeOK, PassTypeOK
<1>2. ToSet(InHand) = {}
  BY AccountedTypes
<1>3. Open \in SUBSET (ToSet(ranges) \cup ToSet(inProgress))
  BY <1>2 DEF JobsKept, Accounted, Open
<1>4. /\ IsFiniteSet(ToSet(ranges)) /\ Cardinality(ToSet(ranges)) \in Nat
      /\ Cardinality(ToSet(ranges)) <= Len(ranges)
  BY <1>1, JobsOnList
<1>5. /\ IsFiniteSet(ToSet(inProgress)) /\ Cardinality(ToSet(inProgress)) \in Nat
      /\ Cardinality(ToSet(inProgress)) <= Len(inProgress)
  BY <1>1, JobsOnList
<1> DEFINE both == ToSet(ranges) \cup ToSet(inProgress)
           meet == ToSet(ranges) \cap ToSet(inProgress)
<1>6. meet \in SUBSET ToSet(ranges)
  OBVIOUS
<1>7. IsFiniteSet(meet) /\ Cardinality(meet) \in Nat
  BY <1>4, <1>6, FS_Subset, FS_CardinalityType
<1>8. /\ IsFiniteSet(both)
      /\ Cardinality(both) = Cardinality(ToSet(ranges)) + Cardinality(ToSet(inProgress))
                               - Cardinality(meet)
  BY <1>4, <1>5, FS_Union
<1>9. Cardinality(Open) \in Nat /\ Cardinality(Open) <= Cardinality(both)
  BY <1>3, <1>8, FS_Subset, FS_CardinalityType
<1> HIDE DEF both, meet
<1>10. Len(ranges) \in Nat /\ Len(inProgress) \in Nat
  BY <1>1
<1> QED BY <1>1, <1>4, <1>5, <1>7, <1>8, <1>9, <1>10

(* No step makes the counts of a pass, or a status without orphans, miss an   *)
(* open job.                                                                  *)
LEMMA CountsStep ==
  ASSUME StartInv, CountsInv, [QueueNext]_queueVars, ~TornRequeue
  PROVE  CountsInv'
<1>1. TypeInv' /\ JobsKept'
  BY TypeStep, KeptStep DEF StartInv, CountsInv
<1> SUFFICES RemainBounds' /\ CountsBound' /\ CleanStatus'
  BY <1>1 DEF CountsInv
<1>2. /\ TypeInv /\ JobsKept /\ LoadedFirst /\ RereadKnown
      /\ RemainBounds /\ CountsBound /\ CleanStatus
  BY DEF StartInv, CountsInv
<1>3. Done \subseteq Done' /\ Done' \subseteq Jobs
  BY <1>1, <1>2, DoneGrows DEF TypeInv, QueueTypeOK, RedisTypeOK, Done
<1>4. /\ Cardinality(Open) \in Nat /\ Cardinality(Open') \in Nat
      /\ Cardinality(Open') <= Cardinality(Open)
  BY <1>3, OpenCount
<1>5. ranges \in Seq(Jobs) /\ inProgress \in Seq(Jobs) /\ mProgress \in Seq(Jobs)
      /\ mRemain \in Nat /\ ranges' \in Seq(Jobs)
  BY <1>1, <1>2 DEF TypeInv, QueueTypeOK, RedisTypeOK, MonitorTypeOK, PassTypeOK
<1>6. CASE Preload
  <2>1. mpc = "init" /\ UNCHANGED monitorVars
    BY <1>2, <1>6 DEF Preload, LoadedFirst
  <2> QED BY <1>2, <1>3, <2>1 DEF monitorVars, RemainBounds, CountsBound, AfterReads,
                                   CleanStatus
<1>7. CASE WorkerNext
  <2>1. UNCHANGED monitorVars /\ Len(ranges') <= Len(ranges)
    BY <1>2, <1>7, WorkerShortensRanges
  <2>2. RemainBounds'
    BY <1>2, <1>5, <2>1 DEF monitorVars, passVars, RemainBounds
  <2>3. CountsBound'
    BY <1>2, <1>4, <1>5, <2>1 DEF monitorVars, passVars, CountsBound
  <2>4. CleanStatus'
    BY <1>2, <1>3, <2>1 DEF monitorVars, CleanStatus
  <2> QED BY <2>2, <2>3, <2>4
<1>8. CASE MonitorNext
  <2>1. RemainBounds'
    <3>1. CASE ReadRemain
      BY <1>5, <3>1 DEF ReadRemain, redisVars, RemainBounds
    <3>2. CASE ReadFailed
      BY <1>2, <1>5, <3>2 DEF ReadFailed, redisVars, RemainBounds
    <3>3. CASE mpc' \notin {"failed", "progress"}
      BY <3>3 DEF RemainBounds
    <3> QED BY <1>8, <3>1, <3>2, <3>3
      DEF MonitorNext, MonitorStep, MonitorFault, MonitorStart, ReadProgress, ReadOwners,
          RequeueLrem, RequeueLpush, RequeueHdel, RereadProgress, RereadRemain, PingWorker,
          MarkSurplus, ConfirmPing, RetryMove, RetryDone, DropOwner, Publish, Wake,
          MonitorError, LremResent, LpushResent, LpushRaises, MonitorRestart, EndPass
  <2>2. CountsBound'
    <3>1. CASE ReadProgress
      <4>1. preloaded /\ mpc = "progress" /\ mRemain >= Len(ranges)
        BY <1>2, <1>5, <3>1 DEF ReadProgress, LoadedFirst, RemainBounds
      <4>2. Cardinality(Open) <= mRemain + Len(inProgress)
        BY <1>2, <4>1, ReadsMissNothing
      <4> QED BY <1>4, <1>5, <3>1, <4>2 DEF ReadProgress, redisVars, CountsBound
    <3>2. CASE /\ mpc \in AfterReads /\ (mpc = "owners" \/ ~mReread)
               /\ UNCHANGED <<mRemain, mProgress>>
      BY <1>2, <1>4, <1>5, <3>2 DEF CountsBound
    <3>3. CASE mpc' \notin AfterReads \/ (mpc' # "owners" /\ mReread')
      BY <3>3 DEF CountsBound
    <3> QED BY <1>2, <1>8, <3>1, <3>2, <3>3
      DEF MonitorNext, MonitorStep, MonitorFault, MonitorStart, ReadRemain, ReadFailed,
          ReadOwners,
          RequeueLrem, RequeueLpush, RequeueHdel, RereadProgress, RereadRemain, PingWorker,
          MarkSurplus, ConfirmPing, RetryMove, RetryDone, DropOwner, Publish, Wake,
          MonitorError, LremResent, LpushResent, LpushRaises, MonitorRestart, EndPass,
          AfterReads, RereadKnown, Requeuing, passVars
  <2>3. CleanStatus'
    <3>1. CASE Publish
      <4> SUFFICES ASSUME mRemain = 0, Len(mProgress) = 0, ~mReread
                   PROVE  Jobs = Done'
        BY <3>1 DEF Publish, CleanStatus
      <4>1. Cardinality(Open) <= 0
        BY <1>2, <3>1 DEF Publish, CountsBound, AfterReads
      <4>2. Open = {}
        <5>1. Open \in SUBSET Jobs
          BY DEF Open
        <5>2. IsFiniteSet(Open)
          BY <5>1, FS_Subset, JobsAssumption
        <5> QED BY <1>4, <4>1, <5>2, FS_EmptySet
      <4> QED BY <1>3, <4>2 DEF Open
    <3>2. CASE status' = InitialStatus
      BY <3>2 DEF InitialStatus, CleanStatus
    <3>3. CASE UNCHANGED status
      BY <1>2, <1>3, <3>3 DEF CleanStatus
    <3> QED BY <1>8, <3>1, <3>2, <3>3
      DEF MonitorNext, MonitorStep, MonitorFault, MonitorStart, ReadRemain, ReadFailed,
          ReadProgress, ReadOwners, RequeueLrem, RequeueLpush, RequeueHdel, RereadProgress,
          RereadRemain, PingWorker, MarkSurplus, ConfirmPing, RetryMove, RetryDone,
          DropOwner, Wake, MonitorError, LremResent, LpushResent, LpushRaises,
          MonitorRestart
  <2> QED BY <2>1, <2>2, <2>3
<1>9. CASE UNCHANGED queueVars
  BY <1>2, <1>9 DEF queueVars, redisVars, monitorVars, passVars, RemainBounds, CountsBound,
                    CleanStatus, Open, Done
<1> QED BY <1>6, <1>7, <1>8, <1>9 DEF QueueNext

LEMMA StartStep == StartInv /\ [QueueNext]_queueVars => StartInv'
BY TypeStep, LoadedStep DEF StartInv

LEMMA SnapStep == SnapInv /\ [QueueNext]_queueVars => SnapInv'
BY StartStep, CountsStep, TornIsFault DEF SnapInv

(* The initial state. *)
LEMMA CountsInit == QueueInit => StartInv /\ CountsInv
<1> SUFFICES ASSUME QueueInit PROVE StartInv /\ CountsInv
  OBVIOUS
<1>1. TypeInv
  BY InitTypes
<1>2. mpc = "init" /\ ranges = <<>> /\ status = InitialStatus /\ ~preloaded
  BY DEF QueueInit, MonitorInit, RedisInit
<1> QED BY <1>1, <1>2 DEF StartInv, LoadedFirst, RereadKnown, Requeuing, CountsInv, JobsKept,
             RemainBounds, CountsBound, AfterReads, CleanStatus, InitialStatus

LEMMA SnapInit == QueueInit => SnapInv
BY CountsInit DEF SnapInv

(* An empty status of a pass without orphans is the truth: CleanSnapshotSound *)
(* for any number of jobs, workers and faults outside requeue_job.            *)
THEOREM EmptyStatusIsTrue == QueueSpec => []CleanSnapshotSound
<1>1. SnapInv => CleanSnapshotSound
  BY DEF SnapInv, CountsInv, CleanStatus, CleanSnapshotSound
<1> QED BY <1>1, SnapInit, SnapStep, PTL DEF QueueSpec

-----------------------------------------------------------------------------
(* Marking. *)

(* The cardinality of a disjoint union. *)
LEMMA DisjointUnion ==
  ASSUME NEW A, NEW B, IsFiniteSet(A), IsFiniteSet(B), A \cap B = {}
  PROVE  /\ IsFiniteSet(A \cup B)
         /\ Cardinality(A) \in Nat /\ Cardinality(B) \in Nat
         /\ Cardinality(A \cup B) = Cardinality(A) + Cardinality(B)
<1>1. Cardinality(A) \in Nat /\ Cardinality(B) \in Nat
  BY FS_CardinalityType
<1>2. Cardinality(A \cap B) = 0
  BY FS_EmptySet
<1>3. /\ IsFiniteSet(A \cup B)
      /\ Cardinality(A \cup B) = Cardinality(A) + Cardinality(B) - Cardinality(A \cap B)
  BY FS_Union
<1> QED BY <1>1, <1>2, <1>3

(* However many workers the pass marks, it leaves Keep of them unmarked. *)
LEMMA MarksLeaveKeep ==
  ASSUME TypeInv, NEW S \in Marks, S # {}
  PROVE  /\ Cardinality(Workers \ (retiring \cup S)) \in Nat
         /\ Cardinality(Workers \ (retiring \cup S)) >= Keep
<1> DEFINE Resolved == {w \in Candidates : PodExists(w)}
           Left == Workers \ (retiring \cup S)
<1>1. /\ mUp \subseteq Workers /\ mDown \subseteq Workers /\ retiring \subseteq Workers
      /\ mRemain \in Nat /\ mProgress \in Seq(Jobs)
  BY DEF TypeInv, QueueTypeOK, RedisTypeOK, MonitorTypeOK, PassTypeOK
<1>2. /\ LiveBusy \in SUBSET Workers /\ Resolved \in SUBSET Workers
      /\ LiveBusy \cap Resolved = {}
  BY <1>1 DEF LiveBusy, Candidates, Active
<1>3. IsFiniteSet(LiveBusy) /\ IsFiniteSet(Resolved)
  BY <1>2, FS_Subset, WorkersAssumption
<1>4. S \in SUBSET Resolved /\ Cardinality(S) = MarkCount
  BY DEF Marks
<1>5. IsFiniteSet(S) /\ IsFiniteSet(Resolved \ S)
  <2>1. (Resolved \ S) \in SUBSET Resolved
    OBVIOUS
  <2> QED BY <1>3, <1>4, <2>1, FS_Subset
<1>6. /\ Cardinality(S) \in Nat /\ Cardinality(Resolved \ S) \in Nat
      /\ Cardinality(Resolved) = Cardinality(Resolved \ S) + Cardinality(S)
  <2>1. (Resolved \ S) \cap S = {} /\ (Resolved \ S) \cup S = Resolved
    BY <1>4
  <2>2. /\ Cardinality(Resolved \ S) \in Nat /\ Cardinality(S) \in Nat
        /\ Cardinality((Resolved \ S) \cup S) = Cardinality(Resolved \ S) + Cardinality(S)
    BY <1>5, <2>1, DisjointUnion
  <2> QED BY <2>1, <2>2
<1>7. /\ Cardinality(LiveBusy) \in Nat /\ IsFiniteSet(LiveBusy \cup (Resolved \ S))
      /\ Cardinality(LiveBusy \cup (Resolved \ S))
           = Cardinality(LiveBusy) + Cardinality(Resolved \ S)
  <2>1. LiveBusy \cap (Resolved \ S) = {}
    BY <1>2
  <2> QED BY <1>3, <1>5, <2>1, DisjointUnion
<1>8. (LiveBusy \cup (Resolved \ S)) \in SUBSET Left
  BY <1>2, <1>4 DEF LiveBusy, Candidates
<1>9. /\ Cardinality(Left) \in Nat
      /\ Cardinality(LiveBusy \cup (Resolved \ S)) <= Cardinality(Left)
  <2>1. Left \in SUBSET Workers
    OBVIOUS
  <2>2. IsFiniteSet(Left)
    BY <2>1, FS_Subset, WorkersAssumption
  <2> QED BY <1>8, <2>2, FS_Subset, FS_CardinalityType
<1>10. Keep \in Nat
  BY <1>1, MonitorAssumption DEF Keep, Outstanding
<1>11. Cardinality(S) <= Cardinality(LiveBusy) + Cardinality(Resolved) - Keep
  <2>1. Cardinality(S) # 0
    BY <1>5, FS_EmptySet
  <2>2. Cardinality(Resolved) \in Nat
    BY <1>3, FS_CardinalityType
  <2>3. MarkCount = LET surplus == Cardinality(LiveBusy) + Cardinality(Resolved) - Keep
                    IN  IF surplus < 0 THEN 0
                        ELSE IF surplus > Cardinality(Resolved) THEN Cardinality(Resolved)
                        ELSE surplus
    BY DEF MarkCount
  <2> HIDE DEF Resolved
  <2> QED BY <1>4, <1>7, <1>10, <2>1, <2>2, <2>3
<1> HIDE DEF Resolved, Left
<1>12. Cardinality(Left) >= Keep
  BY <1>6, <1>7, <1>9, <1>10, <1>11
<1> QED BY <1>9, <1>12 DEF Left

(* A pass without orphans leaves as many unmarked workers as there are jobs   *)
(* to be done: MarkingKeepsEnough for any number of jobs, workers and faults  *)
(* outside requeue_job.                                                       *)
THEOREM MarkingLeavesEnough == QueueSpec => MarkingKeepsEnough
<1> DEFINE Enough == Cardinality(Workers \ retiring')
                       >= Smaller(Cardinality(Workers), Cardinality(Jobs \ Done))
<1>1. ASSUME SnapInv, [QueueNext]_queueVars, retiring' # retiring, ~mReread,
             "requeueError" \notin FaultKinds
      PROVE  Enough
  <2>1. MarkSurplus
    BY <1>1 DEF QueueNext, Preload, WorkerNext, WorkerStep, WorkerFault, CheckRetiring,
       ClaimJob, ClaimNothing, ClaimError, Catchup, CommitResult, CommitReplyLost,
       RestartContainer, EvictPod, EvalClaim, ResultTransaction, MonitorNext, MonitorStep,
       MonitorFault, MonitorStart, ReadRemain, ReadFailed, ReadProgress, ReadOwners,
       RequeueLrem, RequeueLpush, RequeueHdel, RereadProgress, RereadRemain, PingWorker,
       ConfirmPing, RetryMove, RetryDone, DropOwner, Publish, Wake, MonitorError,
       LremResent, LpushResent, LpushRaises, MonitorRestart, redisVars, queueVars
  <2>2. PICK S \in Marks : retiring' = retiring \cup S
    BY <2>1 DEF MarkSurplus
  <2>3. S # {}
    BY <1>1, <2>2
  <2>4. Cardinality(Workers \ retiring') \in Nat /\ Cardinality(Workers \ retiring') >= Keep
    BY <1>1, <2>2, <2>3, MarksLeaveKeep DEF SnapInv, StartInv
  <2>5. mRemain \in Nat /\ Len(mProgress) \in Nat
    BY <1>1 DEF SnapInv, StartInv, TypeInv, QueueTypeOK, MonitorTypeOK, PassTypeOK
  <2>6. Cardinality(Open) <= Outstanding
    BY <1>1, <2>1 DEF MarkSurplus, SnapInv, CountsInv, CountsBound, AfterReads, Outstanding
  <2>7. Outstanding \in Nat /\ Outstanding <= Keep /\ Keep \in Nat
    BY <2>5, MonitorAssumption DEF Keep, Outstanding
  <2>8. Cardinality(Open) \in Nat /\ Cardinality(Workers) \in Nat
    <3>1. Open \in SUBSET Jobs
      BY DEF Open
    <3> QED BY <3>1, FS_Subset, FS_CardinalityType, JobsAssumption, WorkersAssumption
  <2> QED BY <2>4, <2>6, <2>7, <2>8 DEF Smaller, Open
<1>2. SnapInv /\ [QueueNext]_queueVars =>
        [retiring' # retiring /\ ~mReread /\ "requeueError" \notin FaultKinds => Enough]_queueVars
  BY <1>1
<1> QED BY <1>2, SnapInit, SnapStep, PTL DEF QueueSpec, MarkingKeepsEnough

-----------------------------------------------------------------------------
(* Reports. *)

\* Every committed job has a report in Redis or with the monitor.
AllReported == Done \subseteq ReportedIn(metricsKey \cup kept)

\* What FinalQueryComplete says of the published status and the reports kept.
FinalReports ==
  /\ status.remain = 0 /\ status.inProgress = 0 /\ ~status.reread
  /\ tail = "none"
  => Jobs \subseteq ReportedIn(kept)

ReportTypes ==
  /\ metricsKey \subseteq Reports /\ kept \subseteq Reports
  /\ tail \in {"none", "spop", "more", "cut"} /\ lossy \subseteq {"pod", "job", "report"}

MetricsInv ==
  /\ StartInv
  /\ ReportTypes
  /\ "report" \notin lossy => AllReported
  /\ lossy \subseteq {"pod"} => CountsInv /\ FinalReports

(* More reports report on more jobs. *)
LEMMA ReportedGrows ==
  /\ \A S, T : S \subseteq T => ReportedIn(S) \subseteq ReportedIn(T)
  /\ \A S, j, w : j \in ReportedIn(S \cup {<<j, w>>})
<1>1. \A S, T : S \subseteq T => ReportedIn(S) \subseteq ReportedIn(T)
  BY DEF ReportedIn
<1>2. ASSUME NEW S, NEW j, NEW w
      PROVE  j \in ReportedIn(S \cup {<<j, w>>})
  <2>1. <<j, w>> \in S \cup {<<j, w>>} /\ <<j, w>>[1] = j
    OBVIOUS
  <2> QED BY <2>1, Zenon DEF ReportedIn
<1> QED BY <1>1, <1>2

(* The HTTP server hands out the reports kept and the status published. *)
LEMMA ServedFromMemory == Served = kept /\ do_GET("/status").body = status
BY DEF Served, do_GET

(* A step of requeue_job that fails moves the monitor and counts as a fault,  *)
(* so it is none of the steps that leave lossy alone.                         *)
LEMMA QuietIsWhole ==
  ASSUME TypeInv, MonitorStep \/ MonitorError \/ UNCHANGED mpc
  PROVE  ~TornRequeue
<1>1. faults \in Nat
  BY FaultAssumption DEF TypeInv, QueueTypeOK, RedisTypeOK
<1>2. TornRequeue => /\ mpc \in {"lrem", "lpush"} /\ mpc' # mpc
                     /\ faults' = faults + 1
                     /\ mpc = "lrem" => mpc' = "hdel"
  BY DEF TornRequeue, LremResent, LpushResent, LpushRaises, MonitorRestart, EndPass, Fault
<1>3. MonitorStep /\ mpc \in {"lrem", "lpush"} => faults' = faults
  BY DEF MonitorStep, MonitorStart, ReadRemain, ReadFailed,
      ReadProgress, ReadOwners, RequeueLrem, RequeueLpush, RequeueHdel, RereadProgress,
      RereadRemain, PingWorker, MarkSurplus, ConfirmPing, RetryMove, RetryDone, DropOwner,
      Publish, Wake, NoFault
<1>4. MonitorError => mpc # "lpush" /\ mpc' = "sleep"
  BY DEF MonitorError, EndPass
<1> QED BY <1>1, <1>2, <1>3, <1>4

(* What a step that touches no queue keeps, even if it counts as a fault. *)
LEMMA QueuesAlone ==
  ASSUME StartInv, UNCHANGED <<redisVars, workerVars, monitorVars, preloaded>>,
         faults' \in 0..MaxFaults
  PROVE  StartInv' /\ Done' = Done /\ status' = status /\ (CountsInv => CountsInv')
<1> USE DEF redisVars, workerVars, monitorVars, passVars
<1>1. StartInv'
  BY DEF StartInv, TypeInv, QueueTypeOK, RedisTypeOK, WorkerTypeOK, MonitorTypeOK, PassTypeOK,
         OrphansLeft, LoadedFirst, RereadKnown
<1>2. JobsKept => JobsKept'
  BY DEF JobsKept, Accounted, Done, InHand, Orphan
<1>3. RemainBounds /\ CountsBound /\ CleanStatus => RemainBounds' /\ CountsBound' /\ CleanStatus'
  BY DEF RemainBounds, CountsBound, CleanStatus, Open, Done
<1> QED BY <1>1, <1>2, <1>3 DEF CountsInv, Done

(* A step of the queues that commits nothing, publishes nothing and touches   *)
(* no report.                                                                 *)
LEMMA QuietMetricsStep ==
  ASSUME MetricsInv, [QueueNext]_queueVars, ~TornRequeue, UNCHANGED reportVars,
         Done' = Done, status' = status
  PROVE  MetricsInv'
<1>1. StartInv'
  BY StartStep DEF MetricsInv
<1>2. CountsInv => CountsInv'
  BY CountsStep DEF MetricsInv
<1>3. (AllReported => AllReported') /\ (FinalReports => FinalReports')
  BY DEF AllReported, FinalReports, reportVars
<1> QED BY <1>1, <1>2, <1>3 DEF MetricsInv, ReportTypes, reportVars

(* A step after which nothing is claimed any more. *)
LEMMA LossyStep ==
  ASSUME MetricsInv, StartInv', ReportTypes', "report" \in lossy'
  PROVE  MetricsInv'
BY DEF MetricsInv

LEMMA MetricsWorkerStep ==
  ASSUME MetricsInv, NEW w \in Workers,
         \/ QuietWorkerStep(w) \/ ReportResult(w)
         \/ QuietWorkerFault(w) \/ ReportReplyLost(w) \/ LossyWorkerFault(w)
  PROVE  MetricsInv'
<1>1. TypeInv /\ StartInv
  BY DEF MetricsInv, StartInv
<1>2. WorkerNext /\ [QueueNext]_queueVars /\ UNCHANGED mpc /\ status' = status
  BY DEF QuietWorkerStep, ReportResult, QuietWorkerFault, ReportReplyLost, LossyWorkerFault,
         WorkerNext, WorkerStep, WorkerFault, QueueNext, monitorVars
<1>3. ~TornRequeue /\ StartInv'
  BY <1>1, <1>2, QuietIsWhole, StartStep
<1>4. CASE QuietWorkerStep(w) \/ QuietWorkerFault(w)
  <2>1. Done' = Done /\ UNCHANGED reportVars
    BY <1>4 DEF QuietWorkerStep, QuietWorkerFault, CheckRetiring, ClaimJob, ClaimNothing,
       ClaimError, Catchup, RestartContainer, EvalClaim, redisVars, Done
  <2> QED BY <1>2, <1>3, <2>1, QuietMetricsStep
<1>5. CASE LossyWorkerFault(w)
  <2>1. Done' = Done
    BY <1>5 DEF LossyWorkerFault, EvictPod, redisVars, Done
  <2>2. /\ AllReported => AllReported'
        /\ FinalReports => FinalReports'
        /\ CountsInv => CountsInv'
    BY <1>1, <1>2, <1>3, <1>5, <2>1, CountsStep
    DEF LossyWorkerFault, AllReported, FinalReports
  <2>3. ReportTypes'
    BY <1>5 DEF LossyWorkerFault, MetricsInv, ReportTypes
  <2> QED BY <1>3, <1>5, <2>2, <2>3 DEF MetricsInv, LossyWorkerFault
<1>6. CASE ReportResult(w) \/ ReportReplyLost(w)
  <2>1. wpc[w] = "commit" /\ ResultTransaction(w) /\ SaddMetrics(w)
    BY <1>6 DEF ReportResult, ReportReplyLost, CommitResult, CommitReplyLost
  <2>2. wjob[w] \in Jobs
    BY <1>1, <2>1 DEF TypeInv, QueueTypeOK, WorkerTypeOK, Holding
  <2>3. ReportTypes'
    BY <2>1, <2>2 DEF MetricsInv, ReportTypes, SaddMetrics, Reports
  <2>4. AllReported => AllReported'
    <3>1. Done' = Done \cup {wjob[w]}
      BY <2>1 DEF ResultTransaction, Done
    <3>2. /\ metricsKey \cup kept \subseteq metricsKey' \cup kept'
          /\ metricsKey' \cup kept' = (metricsKey \cup kept) \cup {<<wjob[w], w>>}
      BY <2>1 DEF SaddMetrics
    <3>3. wjob[w] \in ReportedIn(metricsKey' \cup kept')
      BY <3>2, ReportedGrows
    <3>4. ReportedIn(metricsKey \cup kept) \subseteq ReportedIn(metricsKey' \cup kept')
      BY <3>2, ReportedGrows
    <3> QED BY <3>1, <3>3, <3>4 DEF AllReported
  <2>5. FinalReports => FinalReports'
    BY <1>2, <2>1 DEF FinalReports, SaddMetrics
  <2>6. CountsInv => CountsInv'
    BY <1>1, <1>2, <1>3, CountsStep
  <2> QED BY <1>3, <2>1, <2>3, <2>4, <2>5, <2>6 DEF MetricsInv, SaddMetrics
<1> QED BY <1>4, <1>5, <1>6

LEMMA MetricsMonitorStep ==
  ASSUME MetricsInv,
         \/ QuietMonitorStep \/ QuietMonitorFault \/ LossyMonitorFault
         \/ PublishThenPop \/ WakeUp \/ RestartMonitor
  PROVE  MetricsInv'
<1>1. TypeInv /\ StartInv
  BY DEF MetricsInv, StartInv
<1>2. MonitorNext /\ [QueueNext]_queueVars
  BY DEF QuietMonitorStep, QuietMonitorFault, LossyMonitorFault, PublishThenPop, WakeUp,
         RestartMonitor, MonitorNext, MonitorStep, MonitorFault, QueueNext
<1>3. StartInv'
  BY <1>1, <1>2, StartStep
<1>4. CASE QuietMonitorStep \/ QuietMonitorFault \/ WakeUp
  <2>1. ~TornRequeue
    BY <1>1, <1>4, QuietIsWhole DEF QuietMonitorStep, QuietMonitorFault, WakeUp, MonitorStep
  <2>2. Done' = Done /\ status' = status
    BY <1>4 DEF QuietMonitorStep, QuietMonitorFault, WakeUp, MonitorStep, MonitorStart,
       ReadRemain, ReadFailed, ReadProgress, ReadOwners, RequeueLrem, RequeueLpush,
       RequeueHdel, RereadProgress, RereadRemain, PingWorker, MarkSurplus, ConfirmPing,
       RetryMove, RetryDone, DropOwner, Publish, Wake, MonitorError, redisVars, Done
  <2>3. UNCHANGED reportVars
    BY <1>4 DEF QuietMonitorStep, QuietMonitorFault, WakeUp
  <2> QED BY <1>2, <2>1, <2>2, <2>3, QuietMetricsStep
<1>5. CASE RestartMonitor
  <2>1. "report" \in lossy' /\ ReportTypes'
    BY <1>5 DEF RestartMonitor, MetricsInv, ReportTypes
  <2> QED BY <1>3, <2>1, LossyStep
<1>6. CASE PublishThenPop
  <2>1. ~TornRequeue
    BY <1>1, <1>6, QuietIsWhole DEF PublishThenPop, MonitorStep
  <2>2. CountsInv => CountsInv'
    BY <1>1, <1>2, <2>1, CountsStep
  <2>3. (AllReported => AllReported') /\ FinalReports' /\ ReportTypes'
    BY <1>6 DEF PublishThenPop, Publish, redisVars, Done, AllReported, FinalReports,
                MetricsInv, ReportTypes
  <2> QED BY <1>3, <1>6, <2>2, <2>3 DEF MetricsInv, PublishThenPop
<1>7. CASE LossyMonitorFault
  <2>1. Done' = Done
    BY <1>7 DEF LossyMonitorFault, LremResent, LpushResent, LpushRaises, redisVars, Done
  <2>2. ReportTypes' /\ (AllReported => AllReported') /\ "job" \in lossy'
    BY <1>7, <2>1 DEF LossyMonitorFault, AllReported, MetricsInv, ReportTypes
  <2>3. "report" \notin lossy' => "report" \notin lossy
    BY <1>7 DEF LossyMonitorFault
  <2> QED BY <1>3, <2>2, <2>3 DEF MetricsInv
<1> QED BY <1>4, <1>5, <1>6, <1>7

LEMMA SpopStep ==
  ASSUME MetricsInv, CollectMetrics \/ SpopRaises \/ SpopResent
  PROVE  MetricsInv'
<1>1. UNCHANGED <<redisVars, workerVars, monitorVars, preloaded>> /\ faults' \in 0..MaxFaults
  BY FaultAssumption
  DEF CollectMetrics, SpopRaises, SpopResent, queueVars, Fault, MetricsInv, StartInv, TypeInv,
      QueueTypeOK, RedisTypeOK
<1>2. StartInv' /\ Done' = Done /\ status' = status /\ (CountsInv => CountsInv')
  BY <1>1, QueuesAlone DEF MetricsInv
<1>3. CASE CollectMetrics
  <2>1. PICK new \in Popped :
          /\ metricsKey' = metricsKey \ new /\ kept' = kept \cup new
          /\ tail' = IF new = metricsKey THEN "none" ELSE "more"
    BY <1>3 DEF CollectMetrics
  <2>2. new \subseteq metricsKey
    BY DEF Popped
  <2>3. metricsKey' \cup kept' = metricsKey \cup kept
    BY <2>1, <2>2
  <2>4. AllReported => AllReported'
    BY <1>2, <2>3 DEF AllReported
  <2>5. AllReported /\ CountsInv => FinalReports'
    <3> SUFFICES ASSUME AllReported, CountsInv, tail' = "none",
                        status.remain = 0, status.inProgress = 0, ~status.reread
                 PROVE  Jobs \subseteq ReportedIn(kept')
      BY <1>2 DEF FinalReports
    <3>1. kept' = metricsKey \cup kept
      BY <2>1
    <3>2. Jobs = Done
      BY DEF CountsInv, CleanStatus
    <3> QED BY <3>1, <3>2 DEF AllReported
  <2>6. ReportTypes' /\ lossy' = lossy
    BY <1>3, <2>1, <2>2 DEF CollectMetrics, MetricsInv, ReportTypes
  <2> QED BY <1>2, <2>4, <2>5, <2>6 DEF MetricsInv
<1>4. CASE SpopRaises
  <2>1. (AllReported => AllReported') /\ FinalReports' /\ ReportTypes' /\ lossy' = lossy
    BY <1>2, <1>4 DEF SpopRaises, AllReported, FinalReports, MetricsInv, ReportTypes
  <2> QED BY <1>2, <2>1 DEF MetricsInv
<1>5. CASE SpopResent
  <2>1. "report" \in lossy' /\ ReportTypes'
    BY <1>5 DEF SpopResent, Popped, MetricsInv, ReportTypes
  <2> QED BY <1>2, <2>1, LossyStep
<1> QED BY <1>3, <1>4, <1>5

LEMMA MetricsStep == MetricsInv /\ [MetricsNext]_metricsVars => MetricsInv'
<1> SUFFICES ASSUME MetricsInv, [MetricsNext]_metricsVars PROVE MetricsInv'
  OBVIOUS
<1>1. CASE Preload /\ UNCHANGED reportVars
  <2>1. UNCHANGED mpc /\ Done' = Done /\ status' = status
    BY <1>1 DEF Preload, monitorVars, Done
  <2>2. ~TornRequeue
    BY <2>1, QuietIsWhole DEF MetricsInv, StartInv
  <2> QED BY <1>1, <2>1, <2>2, QuietMetricsStep DEF QueueNext
<1>2. CASE UNCHANGED metricsVars
  <2>1. UNCHANGED queueVars /\ UNCHANGED reportVars
    BY <1>2 DEF metricsVars
  <2>2. UNCHANGED mpc /\ Done' = Done /\ status' = status
    BY <2>1 DEF queueVars, redisVars, monitorVars, Done
  <2>3. ~TornRequeue
    BY <2>2, QuietIsWhole DEF MetricsInv, StartInv
  <2> QED BY <2>1, <2>2, <2>3, QuietMetricsStep
<1> QED BY <1>1, <1>2, MetricsWorkerStep, MetricsMonitorStep, SpopStep DEF MetricsNext

LEMMA MetricsStart == MetricsInit => MetricsInv
<1> SUFFICES ASSUME MetricsInit PROVE MetricsInv
  OBVIOUS
<1>1. StartInv /\ CountsInv /\ Done = {} /\ status = InitialStatus
  BY CountsInit DEF MetricsInit, QueueInit, RedisInit, MonitorInit, Done
<1>2. ReportTypes
  BY DEF MetricsInit, ReportTypes
<1>3. AllReported
  BY <1>1 DEF AllReported
<1>4. status.remain = 1
  BY <1>1 DEF InitialStatus
<1>5. FinalReports
  BY <1>4 DEF FinalReports
<1> QED BY <1>1, <1>2, <1>3, <1>5 DEF MetricsInv

LEMMA MetricsAlways == MetricsSpec => []MetricsInv
<1>1. MetricsInit /\ [][MetricsNext]_metricsVars => []MetricsInv
  BY MetricsStart, MetricsStep, PTL
<1> QED BY <1>1, PTL DEF MetricsSpec

(* The reports in Redis and in the monitor, and the queues under them, keep   *)
(* their types.                                                               *)
THEOREM ReportTypesHold == MetricsSpec => []MetricsTypeOK
<1>1. MetricsInv => MetricsTypeOK
  BY DEF MetricsInv, StartInv, TypeInv, ReportTypes, MetricsTypeOK
<1> QED BY <1>1, MetricsAlways, PTL

(* Until a resent SPOP or a new monitor every committed job has its report in *)
(* Redis or with the monitor, for any number of jobs, workers and faults.     *)
THEOREM NoReportIsLost == MetricsSpec => []NoReportLost
<1>1. MetricsInv => NoReportLost
  BY ServedFromMemory DEF MetricsInv, AllReported, NoReportLost
<1> QED BY <1>1, MetricsAlways, PTL

(* The driver's final query gets a report of every job, for any number of     *)
(* jobs, workers and faults, if the SPOP of that pass took all the reports    *)
(* there were and no requeue was torn.                                        *)
THEOREM FinalQueryIsComplete == MetricsSpec => []FinalQueryComplete
<1>1. MetricsInv => FinalQueryComplete
  BY ServedFromMemory DEF MetricsInv, FinalReports, FinalQueryComplete
<1> QED BY <1>1, MetricsAlways, PTL
=============================================================================
