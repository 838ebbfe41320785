----------------------------- MODULE JobMonitor -----------------------------
(***************************************************************************)
(* job_monitor.py: the loop of update_status_and_metrics, one action per   *)
(* Redis call or ping, so that workers run between any two of them, and    *)
(* the status its HTTP server publishes.                                   *)
(***************************************************************************)
EXTENDS CatchupWorker

CONSTANTS
  MinUnmarked,     \* MIN_UNMARKED_WORKERS
  ClaimLandsInTime \* a claim under way when a pod is marked lands before the
                   \* monitor's next pass, LOGGING_INTERVAL_SECONDS later

ASSUME MonitorAssumption ==
  MinUnmarked \in Nat /\ ClaimLandsInTime \in BOOLEAN

VARIABLES
  mpc,        \* the next call of the monitor's thread
  mRemain,    \* queue_remain_count
  mFailed,    \* jobs_failed is not empty
  mProgress,  \* jobs_in_progress
  mOwned,     \* the jobs that are keys of job_owners
  mOrphans,   \* positions in mProgress of the orphans still to be requeued
  mToPing,    \* workers still to be pinged in the current loop
  mUp,        \* active workers that answered
  mDown,      \* active workers that did not
  mRetirable, \* retirable
  mReread,    \* orphans were found, so the counts were read a second time
  status      \* what GET /status returns

passVars == <<mRemain, mFailed, mProgress, mOwned, mOrphans, mToPing, mUp,
              mDown, mRetirable, mReread>>
monitorVars == <<mpc, passVars, status>>

MonitorPCs == {"init", "remain", "failed", "progress", "owners", "lrem", "lpush",
               "hdel", "reProgress", "reRemain", "ping", "confirm", "retry",
               "drop", "publish", "sleep"}

\* Mutant of InitialStatus: num_remain starts at 0.
InitialStatusZero ==
  [remain |-> 0, failed |-> FALSE, inProgress |-> 0, retirable |-> {},
   up |-> 0, reread |-> FALSE]

\* num_remain is 1 until the first pass has published.
InitialStatus ==
  [remain |-> 1, failed |-> FALSE, inProgress |-> 0, retirable |-> {},
   up |-> 0, reread |-> FALSE]

Statuses ==
  [remain : Nat, failed : BOOLEAN, inProgress : Nat,
   retirable : SUBSET Workers, up : Nat, reread : BOOLEAN]

PassTypeOK ==
  /\ mRemain \in Nat
  /\ mFailed \in BOOLEAN
  /\ mProgress \in Seq(Jobs)
  /\ mOwned \subseteq Jobs
  /\ mOrphans \subseteq DOMAIN mProgress
  /\ mToPing \subseteq Workers
  /\ mUp \subseteq Workers
  /\ mDown \subseteq Workers
  /\ mRetirable \subseteq Workers
  /\ mReread \in BOOLEAN

MonitorTypeOK ==
  /\ mpc \in MonitorPCs
  /\ PassTypeOK
  /\ status \in Statuses

(* The locals of a pass before its first call. *)
PassInit ==
  /\ mRemain = 0 /\ mFailed = FALSE /\ mProgress = <<>> /\ mOwned = {}
  /\ mOrphans = {} /\ mToPing = {} /\ mUp = {} /\ mDown = {}
  /\ mRetirable = {} /\ mReread = FALSE

PassReset ==
  /\ mRemain' = 0 /\ mFailed' = FALSE /\ mProgress' = <<>> /\ mOwned' = {}
  /\ mOrphans' = {} /\ mToPing' = {} /\ mUp' = {} /\ mDown' = {}
  /\ mRetirable' = {} /\ mReread' = FALSE

MonitorInit ==
  /\ mpc = "init"
  /\ PassInit
  /\ status = InitialStatus

(* No claim is still under way from before its pod was marked; true between   *)
(* two passes if ClaimLandsInTime.                                            *)
ClaimsLanded == ClaimLandsInTime => \A w \in retiring : wpc[w] # "claim"

(* The init container lets the monitor start only once ranges is not empty. *)
MonitorStart ==
  /\ mpc = "init"
  /\ ranges # <<>>
  /\ ClaimsLanded
  /\ mpc' = "remain"
  /\ NoFault
  /\ UNCHANGED <<redisVars, passVars, status>>

(* Phase 1: four reads, none of them atomic with the next. *)
ReadRemain ==
  /\ mpc = "remain"
  /\ mRemain' = Len(ranges)
  /\ mpc' = "failed"
  /\ NoFault
  /\ UNCHANGED <<redisVars, mFailed, mProgress, mOwned, mOrphans, mToPing, mUp,
                 mDown, mRetirable, mReread, status>>

ReadFailed ==
  /\ mpc = "failed"
  /\ mFailed' = (failed # {})
  /\ mpc' = "progress"
  /\ NoFault
  /\ UNCHANGED <<redisVars, mRemain, mProgress, mOwned, mOrphans, mToPing, mUp,
                 mDown, mRetirable, mReread, status>>

ReadProgress ==
  /\ mpc = "progress"
  /\ mProgress' = inProgress
  /\ mpc' = "owners"
  /\ NoFault
  /\ UNCHANGED <<redisVars, mRemain, mFailed, mOwned, mOrphans, mToPing, mUp,
                 mDown, mRetirable, mReread, status>>

(* HGETALL; an orphan is a job read as in progress that has no owner now. *)
ReadOwners ==
  /\ mpc = "owners"
  /\ mOwned' = {j \in Jobs : jobOwners[j] # Nil}
  /\ mOrphans' = {i \in DOMAIN mProgress : jobOwners[mProgress[i]] = Nil}
  /\ mReread' = (mOrphans' # {})
  /\ mToPing' = HVALS(jobOwners)
  /\ mpc' = IF mOrphans' # {} THEN "lrem" ELSE "ping"
  /\ NoFault
  /\ UNCHANGED <<redisVars, mRemain, mFailed, mProgress, mUp, mDown, mRetirable,
                 status>>

\* The orphan being requeued: the loop goes from left to right.
Orphan == mProgress[Min(mOrphans)]

(* Phase 1b, requeue_job: LREM; LPUSH if that removed something; HDEL. *)
RequeueLrem ==
  /\ mpc = "lrem"
  /\ inProgress' = LREM(inProgress, Orphan)
  /\ mpc' = IF Orphan \in ToSet(inProgress) THEN "lpush" ELSE "hdel"
  /\ NoFault
  /\ UNCHANGED <<ranges, succeeded, failed, jobOwners, retiring,
                 passVars, status>>

RequeueLpush ==
  /\ mpc = "lpush"
  /\ ranges' = LPUSH(ranges, Orphan)
  /\ mpc' = "hdel"
  /\ NoFault
  /\ UNCHANGED <<inProgress, succeeded, failed, jobOwners, retiring,
                 passVars, status>>

RequeueHdel ==
  /\ mpc = "hdel"
  /\ jobOwners' = HDEL(jobOwners, Orphan)
  /\ mOrphans' = mOrphans \ {Min(mOrphans)}
  /\ mpc' = IF mOrphans' # {} THEN "lrem" ELSE "reProgress"
  /\ NoFault
  /\ UNCHANGED <<ranges, inProgress, succeeded, failed, retiring, mRemain,
                 mFailed, mProgress, mOwned, mToPing, mUp, mDown, mRetirable,
                 mReread, status>>

(* After orphans the counts are read again: in_progress first, then ranges. *)
RereadProgress ==
  /\ mpc = "reProgress"
  /\ mProgress' = inProgress
  /\ mpc' = "reRemain"
  /\ NoFault
  /\ UNCHANGED <<redisVars, mRemain, mFailed, mOwned, mOrphans, mToPing, mUp,
                 mDown, mRetirable, mReread, status>>

RereadRemain ==
  /\ mpc = "reRemain"
  /\ mRemain' = Len(ranges)
  /\ mpc' = "ping"
  /\ NoFault
  /\ UNCHANGED <<redisVars, mFailed, mProgress, mOwned, mOrphans, mToPing, mUp,
                 mDown, mRetirable, mReread, status>>

(* ping_worker: /info answers only while stellar-core catchup runs, and may    *)
(* not answer within 5 seconds even then.                                      *)
Answers(w) == wpc[w] = "run"

(* Phase 2: one ping for each worker that owned a job. *)
PingWorker(w) ==
  /\ mpc = "ping"
  /\ w \in mToPing
  /\ mToPing' = mToPing \ {w}
  /\ \/ Answers(w) /\ mUp' = mUp \cup {w} /\ UNCHANGED mDown
     \/ mDown' = mDown \cup {w} /\ UNCHANGED mUp
  /\ NoFault
  /\ UNCHANGED <<redisVars, mpc, mRemain, mFailed, mProgress, mOwned, mOrphans,
                 mRetirable, mReread, status>>

PodExists(w) == wpc[w] # "gone"

Active == mUp \cup mDown

LiveBusy == Active \ (retiring \cup mDown)

Candidates == Workers \ (Active \cup retiring)

\* Mutant of Outstanding: jobs in progress are not counted.
OutstandingWaiting == mRemain

Outstanding == mRemain + Len(mProgress)

Keep == IF Outstanding > MinUnmarked THEN Outstanding ELSE MinUnmarked

(* How many of the idle workers there are to mark: the slice                  *)
(* unmarked_idle[:max(0, live_busy + unmarked_idle - keep)].                  *)
MarkCount ==
  LET idle    == Cardinality({w \in Candidates : PodExists(w)})
      surplus == Cardinality(LiveBusy) + idle - Keep
  IN  IF surplus < 0 THEN 0 ELSE IF surplus > idle THEN idle ELSE surplus

Marks ==
  IF Cardinality(LiveBusy) + Cardinality(Candidates) > Keep
  THEN {S \in SUBSET {w \in Candidates : PodExists(w)} : Cardinality(S) = MarkCount}
  ELSE {{}}

(* Phase 2b: mark surplus idle workers; those marked by an earlier pass and    *)
(* still idle are retirable.  Only this thread writes retiring, so SMEMBERS,   *)
(* the DNS lookups and SADD are one step.  The code takes a prefix of the      *)
(* sorted names; any choice of that many is allowed here.                      *)
\* Mutant of Retirable: this pass's marks are offered at once.
RetirableAtOnce == retiring' \ Active

Retirable == retiring \ Active

(* Jobs were in progress and no active worker answered. *)
Stuck == mDown # {} /\ mUp = {} /\ mProgress # <<>>

MarkSurplus ==
  /\ mpc = "ping"
  /\ mToPing = {}
  /\ \E S \in Marks : retiring' = retiring \cup S
  /\ mRetirable' = Retirable
  /\ IF Stuck
     THEN mpc' = "confirm" /\ mToPing' = Active
     ELSE mpc' = "publish" /\ UNCHANGED mToPing
  /\ NoFault
  /\ UNCHANGED <<ranges, inProgress, succeeded, failed, jobOwners, mRemain,
                 mFailed, mProgress, mOwned, mOrphans, mUp, mDown, mReread,
                 status>>

(* Phase 3: confirm that every active worker is down, three pings over a       *)
(* minute each; one that answers ends the loop.  A worker that holds a job     *)
(* all the same counts as a fault when it misses them.                         *)
ConfirmPing(w) ==
  /\ mpc = "confirm"
  /\ w \in mToPing
  /\ \/ /\ Answers(w)
        /\ mpc' = "publish"
        /\ mToPing' = {}
        /\ NoFault
     \/ /\ mToPing' = mToPing \ {w}
        /\ mpc' = IF mToPing' = {} THEN "retry" ELSE "confirm"
        /\ IF wjob[w] # Nil THEN Fault("falseDown") ELSE NoFault
  /\ UNCHANGED <<redisVars, mRemain, mFailed, mProgress, mOwned, mOrphans, mUp,
                 mDown, mRetirable, mReread, status>>

\* Mutant of RetryMove: pops from the right what it read from the left.
RetryMoveWrongEnd ==
  /\ mpc = "retry"
  /\ inProgress # <<>>
  /\ ranges' = LPUSH(ranges, Head(inProgress))
  /\ inProgress' = Front(inProgress)
  /\ NoFault
  /\ UNCHANGED <<succeeded, failed, jobOwners, retiring, mpc, passVars, status>>

(* retry_jobs_in_progress: LMOVE in_progress ranges RIGHT LEFT until empty. *)
RetryMove ==
  /\ mpc = "retry"
  /\ inProgress # <<>>
  /\ ranges' = LPUSH(ranges, Last(inProgress))
  /\ inProgress' = Front(inProgress)
  /\ NoFault
  /\ UNCHANGED <<succeeded, failed, jobOwners, retiring, mpc, passVars,
                 status>>

RetryDone ==
  /\ mpc = "retry"
  /\ inProgress = <<>>
  /\ mpc' = "drop"
  /\ NoFault
  /\ UNCHANGED <<redisVars, passVars, status>>

(* HDEL of each job that had an owner in Phase 1. *)
DropOwner(j) ==
  /\ mpc = "drop"
  /\ j \in mOwned
  /\ jobOwners' = HDEL(jobOwners, j)
  /\ mOwned' = mOwned \ {j}
  /\ mpc' = IF mOwned' = {} THEN "publish" ELSE "drop"
  /\ NoFault
  /\ UNCHANGED <<ranges, inProgress, succeeded, failed, retiring, mRemain,
                 mFailed, mProgress, mOrphans, mToPing, mUp, mDown, mRetirable,
                 mReread, status>>

(* The pass is over, and its locals with it; then time.sleep. *)
EndPass == mpc' = "sleep" /\ PassReset

(* Update status under status_lock; what follows (SPOP of the metrics, gauges) *)
(* does not touch the queues.                                                  *)
Publish ==
  /\ mpc = "publish"
  /\ status' = [remain |-> mRemain, failed |-> mFailed, inProgress |-> Len(mProgress),
                retirable |-> mRetirable, up |-> Cardinality(mUp), reread |-> mReread]
  /\ EndPass
  /\ NoFault
  /\ UNCHANGED redisVars

Wake ==
  /\ mpc = "sleep"
  /\ ClaimsLanded
  /\ mpc' = "remain"
  /\ NoFault
  /\ UNCHANGED <<redisVars, passVars, status>>

(* except Exception: a call raised and the pass is dropped.  One that was      *)
(* applied all the same is its own step, and then this one.  Between LREM and  *)
(* LPUSH that is the loss of a job: see LpushRaises.                           *)
MonitorError ==
  /\ mpc \notin {"init", "lpush", "sleep"}
  /\ Fault("monitorError")
  /\ EndPass
  /\ UNCHANGED <<redisVars, status>>

(* The Redis client resends a command whose reply it lost.  LREM: the second   *)
(* one removes nothing, so LPUSH is skipped.                                   *)
LremResent ==
  /\ mpc = "lrem"
  /\ Fault("requeueError")
  /\ inProgress' = LREM(inProgress, Orphan)
  /\ mpc' = "hdel"
  /\ UNCHANGED <<ranges, succeeded, failed, jobOwners, retiring, passVars, status>>

(* LPUSH: it pushes twice, or it raises after its last attempt.                *)
LpushResent ==
  /\ mpc = "lpush"
  /\ Fault("requeueError")
  /\ ranges' = LPUSH(LPUSH(ranges, Orphan), Orphan)
  /\ mpc' = "hdel"
  /\ UNCHANGED <<inProgress, succeeded, failed, jobOwners, retiring, passVars, status>>

LpushRaises ==
  /\ mpc = "lpush"
  /\ Fault("requeueError")
  /\ EndPass
  /\ UNCHANGED <<redisVars, status>>

(* The monitor dies and status, which was in memory, with it.  A rescheduled   *)
(* pod waits in its init container for ranges again; a container restarted in  *)
(* its pod starts its first pass.                                              *)
MonitorRestart ==
  /\ mpc # "init"
  /\ Fault(IF mpc = "lpush" THEN "requeueError" ELSE "monitorRestart")
  /\ mpc' \in {"init", "sleep"}
  /\ PassReset
  /\ status' = InitialStatus
  /\ UNCHANGED redisVars

MonitorStep ==
  \/ MonitorStart
  \/ ReadRemain
  \/ ReadFailed
  \/ ReadProgress
  \/ ReadOwners
  \/ RequeueLrem
  \/ RequeueLpush
  \/ RequeueHdel
  \/ RereadProgress
  \/ RereadRemain
  \/ \E w \in Workers : PingWorker(w)
  \/ MarkSurplus
  \/ \E w \in Workers : ConfirmPing(w)
  \/ RetryMove
  \/ RetryDone
  \/ \E j \in Jobs : DropOwner(j)
  \/ Publish
  \/ Wake

MonitorFault ==
  \/ MonitorError
  \/ LremResent
  \/ LpushResent
  \/ LpushRaises
  \/ MonitorRestart
=============================================================================
