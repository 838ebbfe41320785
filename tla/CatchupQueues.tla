--------------------------- MODULE CatchupQueues ---------------------------
(***************************************************************************)
(* The part of a parallel-catchup mission that lives in the cluster: the   *)
(* preload job fills Redis, the worker pods drain it, the job monitor      *)
(* watches and repairs.  The driver, which only reads the monitor's status *)
(* and deletes pods, joins in ParallelCatchup.                             *)
(***************************************************************************)
EXTENDS JobMonitor

VARIABLE preloaded  \* the preload job has loaded the ranges

queueVars == <<redisVars, faults, workerVars, monitorVars, preloaded>>

QueueTypeOK ==
  /\ RedisTypeOK
  /\ WorkerTypeOK
  /\ MonitorTypeOK
  /\ preloaded \in BOOLEAN

QueueInit ==
  /\ RedisInit
  /\ WorkerInit
  /\ MonitorInit
  /\ preloaded = FALSE

(* The uniform generator's bulk load: one MULTI/EXEC of RPUSHes, each job key *)
(* once.  If its reply is lost the file is loaded a second time.              *)
Preload ==
  /\ ~preloaded
  /\ preloaded' = TRUE
  /\ \E load \in SetToSeqs(Jobs) :
       \/ ranges' = ranges \o load /\ NoFault
       \/ ranges' = ranges \o load \o load /\ Fault("preloadReply")
  /\ UNCHANGED <<inProgress, succeeded, failed, jobOwners, retiring, workerVars,
                 monitorVars>>

WorkerNext ==
  /\ \E w \in Workers : WorkerStep(w) \/ WorkerFault(w)
  /\ UNCHANGED <<monitorVars, preloaded>>

MonitorNext ==
  /\ MonitorStep \/ MonitorFault
  /\ UNCHANGED <<workerVars, preloaded>>

QueueNext == Preload \/ WorkerNext \/ MonitorNext

QueueSpec == QueueInit /\ [][QueueNext]_queueVars

-----------------------------------------------------------------------------
(* Safety. *)

\* The job requeue_job has taken out of in_progress and not yet pushed to ranges.
InHand == IF mpc = "lpush" THEN <<Orphan>> ELSE <<>>

\* The jobs that are waiting, in progress, in the monitor's hand or committed.
Accounted == ToSet(ranges) \cup ToSet(inProgress) \cup ToSet(InHand) \cup Done

(* A loaded job is waiting, in progress, in the monitor's hand or committed:  *)
(* no claim, commit, requeue, retry, crash or resent command loses one, as    *)
(* long as nothing strikes between the LREM and the LPUSH of requeue_job.     *)
NoJobLost ==
  preloaded /\ "requeueError" \notin FaultKinds => Jobs = Accounted

(* The lists hold no job twice between them, so no two workers claim the same *)
(* entry: requeue_job pushes only what its LREM took, and a claim or a retry  *)
(* moves one entry.                                                           *)
NoDuplicateEntry ==
  {"requeueError", "preloadReply"} \cap FaultKinds = {} =>
    IsInjective(ranges \o InHand \o inProgress)

(* A status that reads "nothing waiting, nothing in progress" is the truth    *)
(* when it comes from a pass without orphans, because that pass reads ranges  *)
(* before in_progress.                                                        *)
CleanSnapshotSound ==
  /\ "requeueError" \notin FaultKinds
  /\ status.remain = 0 /\ status.inProgress = 0 /\ ~status.reread
  => Jobs = Done

(* A pod offered for retirement owns no job and can no longer claim one: it   *)
(* was marked in an earlier pass than the one that found it idle.             *)
RetirableIsQuiet ==
  ClaimLandsInTime =>
    \A w \in status.retirable : w \notin HVALS(jobOwners) /\ wpc[w] # "claim"

Smaller(a, b) == IF a < b THEN a ELSE b

(* When a pass without orphans marks workers, the workers still unmarked are  *)
(* at least as many as the jobs still to be done (or all of them): the counts *)
(* it works with are stale, but only ever too high.                           *)
MarkingKeepsEnough ==
  [][retiring' # retiring /\ ~mReread /\ "requeueError" \notin FaultKinds =>
       Cardinality(Workers \ retiring')
          >= Smaller(Cardinality(Workers), Cardinality(Jobs \ Done))]_queueVars

-----------------------------------------------------------------------------
(* Refinement. *)

WQ == INSTANCE WorkQueue WITH
        Items <- Jobs, Hands <- Workers, None <- Nil,
        filled <- preloaded,
        queued <- ToSet(ranges) \cup ToSet(InHand),
        out <- ToSet(inProgress),
        done <- Done,
        held <- wjob

(* The queues are a work queue: a job is handed out only while it waits, only *)
(* the worker that claimed it commits it, a requeue or a retry takes back     *)
(* only what is in progress, and nothing else in worker.sh or the monitor's   *)
(* passes moves a job, whatever fails between two of their commands.          *)
ImplementsWorkQueue == WQ!WQSpec
=============================================================================
