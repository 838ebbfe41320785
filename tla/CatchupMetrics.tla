--------------------------- MODULE CatchupMetrics ---------------------------
(***************************************************************************)
(* The timing reports of a parallel-catchup mission, on top of             *)
(* CatchupQueues: a worker adds one to the Redis set METRICS in its result *)
(* transaction, the monitor pops them at the end of a pass, after it has   *)
(* published the status, and its HTTP server hands them out.               *)
(*                                                                         *)
(* A report names its job and its pod.  Its times are left out: two runs   *)
(* of a job in one pod are taken to have lasted equally long, so that the  *)
(* second adds nothing to the set.                                         *)
(***************************************************************************)
EXTENDS CatchupQueues

CONSTANTS
  SpopCount  \* reports popped in one pass, 1000 in the code

ASSUME MetricsAssumption == SpopCount \in Nat \ {0}

VARIABLES
  metricsKey,  \* SET of reports in Redis
  kept,        \* the reports in metrics['metrics']
  tail,        \* the monitor's thread after publishing: "spop" before it has
               \* popped, "none" if it took all there was, "more" if not, "cut"
               \* if SPOP raised
  lossy        \* what the faults so far may have lost: "pod", "job" or "report"

reportVars == <<metricsKey, kept, tail, lossy>>
metricsVars == <<queueVars, reportVars>>

Reports == Jobs \X Workers

MetricsTypeOK ==
  /\ QueueTypeOK
  /\ metricsKey \subseteq Reports
  /\ kept \subseteq Reports
  /\ tail \in {"none", "spop", "more", "cut"}
  /\ lossy \subseteq {"pod", "job", "report"}

MetricsInit ==
  /\ QueueInit
  /\ metricsKey = {}
  /\ kept = {}
  /\ tail = "none"
  /\ lossy = {}

(* The queues move and no report does. *)
QuietWorkerStep(w) ==
  /\ CheckRetiring(w) \/ ClaimJob(w) \/ ClaimNothing(w) \/ Catchup(w)
  /\ UNCHANGED <<monitorVars, preloaded, reportVars>>

QuietWorkerFault(w) ==
  /\ ClaimError(w) \/ RestartContainer(w)
  /\ UNCHANGED <<monitorVars, preloaded, reportVars>>

(* Faults after which a job may never be committed. *)
LossyWorkerFault(w) ==
  /\ EvictPod(w)
  /\ lossy' = lossy \cup {"pod"}
  /\ UNCHANGED <<monitorVars, preloaded, metricsKey, kept, tail>>

LossyMonitorFault ==
  /\ LremResent \/ LpushResent \/ LpushRaises
  /\ lossy' = lossy \cup {"job"}
  /\ UNCHANGED <<workerVars, preloaded, metricsKey, kept, tail>>

QuietMonitorStep ==
  /\ mpc \notin {"publish", "sleep"}
  /\ MonitorStep
  /\ UNCHANGED <<workerVars, preloaded, reportVars>>

QuietMonitorFault ==
  /\ MonitorError
  /\ UNCHANGED <<workerVars, preloaded, reportVars>>

\* Mutant of SaddMetrics: the report of a failed job is left out.
SaddMetricsIfOk(w) ==
  /\ metricsKey' = metricsKey \cup (IF wok[w] THEN {<<wjob[w], w>>} ELSE {})
  /\ UNCHANGED <<kept, tail, lossy>>

\* Mutant of SaddMetrics: job and pod are swapped.
SaddMetricsSwapped(w) ==
  /\ metricsKey' = metricsKey \cup {<<w, wjob[w]>>}
  /\ UNCHANGED <<kept, tail, lossy>>

(* SADD METRICS, in the result transaction, whatever the outcome of the job. *)
SaddMetrics(w) ==
  /\ metricsKey' = metricsKey \cup {<<wjob[w], w>>}
  /\ UNCHANGED <<kept, tail, lossy>>

ReportResult(w) ==
  /\ CommitResult(w)
  /\ SaddMetrics(w)
  /\ UNCHANGED <<monitorVars, preloaded>>

ReportReplyLost(w) ==
  /\ CommitReplyLost(w)
  /\ SaddMetrics(w)
  /\ UNCHANGED <<monitorVars, preloaded>>

(* The status is published first, the reports are popped after it. *)
PublishThenPop ==
  /\ Publish
  /\ tail' = "spop"
  /\ UNCHANGED <<workerVars, preloaded, metricsKey, kept, lossy>>

\* What SPOP METRICS SpopCount may return: as many as there are, at most SpopCount.
Popped ==
  LET n == Cardinality(metricsKey)
  IN  {S \in SUBSET metricsKey :
         Cardinality(S) = IF n < SpopCount THEN n ELSE SpopCount}

\* Mutant of CollectMetrics: nothing is popped once nothing is in progress.
CollectWhileBusy ==
  /\ tail = "spop"
  /\ \E new \in IF status.inProgress = 0 THEN {{}} ELSE Popped :
       /\ metricsKey' = metricsKey \ new
       /\ kept' = kept \cup new
  /\ tail' = "none"
  /\ UNCHANGED <<queueVars, lossy>>

(* SPOP, then metrics['metrics'].extend(new_metrics) under metrics_lock, then  *)
(* the histograms, which count the full duration also of a report whose        *)
(* tx_apply is "N/A".  Only GETs come between, and a restart loses it all.     *)
CollectMetrics ==
  /\ tail = "spop"
  /\ \E new \in Popped :
       /\ metricsKey' = metricsKey \ new
       /\ kept' = kept \cup new
       /\ tail' = IF new = metricsKey THEN "none" ELSE "more"
  /\ UNCHANGED <<queueVars, lossy>>

(* SPOP raises and is not applied: the rest of the pass is skipped. *)
SpopRaises ==
  /\ tail = "spop"
  /\ Fault("monitorError")
  /\ tail' = "cut"
  /\ UNCHANGED <<redisVars, workerVars, monitorVars, preloaded, metricsKey, kept,
                 lossy>>

(* SPOP is applied, its reply is lost, and the client sends it again: what the *)
(* first one popped is in no hands.                                            *)
SpopResent ==
  /\ tail = "spop"
  /\ Fault("spopReply")
  /\ \E lost \in Popped : metricsKey' = metricsKey \ lost
  /\ lossy' = lossy \cup {"report"}
  /\ UNCHANGED <<redisVars, workerVars, monitorVars, preloaded, kept, tail>>

(* time.sleep is over; it began when the reports were collected. *)
WakeUp ==
  /\ tail # "spop"
  /\ Wake
  /\ UNCHANGED <<workerVars, preloaded, reportVars>>

(* metrics and the histograms are in memory, as status is. *)
RestartMonitor ==
  /\ MonitorRestart
  /\ kept' = {}
  /\ tail' = "none"
  /\ lossy' = lossy \cup {"report"}
  /\ UNCHANGED <<workerVars, preloaded, metricsKey>>

MetricsNext ==
  \/ Preload /\ UNCHANGED reportVars
  \/ \E w \in Workers :
       \/ QuietWorkerStep(w) \/ ReportResult(w)
       \/ QuietWorkerFault(w) \/ ReportReplyLost(w) \/ LossyWorkerFault(w)
  \/ QuietMonitorStep
  \/ QuietMonitorFault
  \/ LossyMonitorFault
  \/ PublishThenPop
  \/ CollectMetrics
  \/ SpopRaises
  \/ SpopResent
  \/ WakeUp
  \/ RestartMonitor

(* Fairness as in ParallelCatchup: scripts and the monitor's thread go on, and *)
(* retry_jobs_in_progress finds in_progress empty sooner or later, its LLEN     *)
(* being milliseconds behind its LMOVE while a worker sleeps and runs a job.    *)
MetricsSpec ==
  /\ MetricsInit /\ [][MetricsNext]_metricsVars
  /\ WF_metricsVars(Preload /\ UNCHANGED reportVars)
  /\ \A w \in Workers : WF_metricsVars(QuietWorkerStep(w) \/ ReportResult(w))
  /\ WF_metricsVars(QuietMonitorStep \/ PublishThenPop \/ CollectMetrics \/ WakeUp)
  /\ SF_metricsVars(RetryDone /\ UNCHANGED <<workerVars, preloaded, reportVars>>)

(* do_GET: a request is answered from memory, under the lock of what it reads, *)
(* and changes nothing.                                                        *)
do_GET(path) ==
  CASE path = "/status"     -> [code |-> 200, body |-> status]
    [] path = "/prometheus" -> [code |-> 200, body |-> kept]
    [] path = "/metrics"    -> [code |-> 200, body |-> kept]
    [] OTHER                -> [code |-> 404, body |-> Nil]

-----------------------------------------------------------------------------

\* The jobs that have a report in S.
ReportedIn(S) == {r[1] : r \in S}

Served == do_GET("/metrics").body

(* Every committed job has a report that is in Redis or among those the       *)
(* monitor serves: an aborted pass, a resent transaction or a worker's        *)
(* restart loses none.  Only a resent SPOP or a new monitor process does.     *)
NoReportLost == "report" \notin lossy => Done \subseteq ReportedIn(metricsKey \cup Served)

(* When GET /status shows empty queues, from a pass without orphans whose     *)
(* SPOP took all the reports there were, GET /metrics has a report of every   *)
(* job: the driver's final query is complete unless it comes between the      *)
(* publishing and the SPOP of a pass, or more than SpopCount were waiting.    *)
FinalQueryComplete ==
  /\ lossy \subseteq {"pod"}
  /\ LET s == do_GET("/status").body
     IN  s.remain = 0 /\ s.inProgress = 0 /\ ~s.reread
  /\ tail = "none"
  => Jobs \subseteq ReportedIn(Served)

\* A worker holds a job whose entry in job_owners is gone: requeue_job's HDEL, or
\* a retry's, came after the claim.  The next pass requeues the job under it.
Disowned == \E w \in Workers : wjob[w] # Nil /\ jobOwners[wjob[w]] = Nil

(* Once the monitor runs, every job is committed and its report served:       *)
(* nothing stays in Redis for good, whatever is retried or cut off, and the   *)
(* workers left unmarked are enough.  With several jobs one of them may be    *)
(* requeued under its worker again and again, and the others wait for ever.   *)
ReportsCollected ==
  \/ mpc # "init" ~> lossy # {} \/ (Jobs = Done /\ Jobs \subseteq ReportedIn(Served))
  \/ Cardinality(Jobs) > 1 /\ []<>Disowned
=============================================================================
