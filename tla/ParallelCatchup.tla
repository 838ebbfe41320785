--------------------------- MODULE ParallelCatchup ---------------------------
(***************************************************************************)
(* A parallel-catchup mission: the queues in the cluster (CatchupQueues)   *)
(* and the driver that polls the monitor, retires surplus workers and ends *)
(* the mission.                                                            *)
(***************************************************************************)
EXTENDS CatchupQueues, MissionDriver

vars == <<queueVars, driverVars>>

TypeOK == QueueTypeOK /\ DriverTypeOK

Init == QueueInit /\ DriverInit

ClusterNext ==
  /\ verdict = "none"
  /\ QueueNext
  /\ UNCHANGED driverVars

DriverNext ==
  /\ DriverStep \/ DriverFault
  /\ UNCHANGED <<redisVars, monitorVars, preloaded>>

(* The mission is over. *)
Terminated == verdict # "none" /\ UNCHANGED vars

Next == ClusterNext \/ DriverNext \/ Terminated

Spec == Init /\ [][Next]_vars

-----------------------------------------------------------------------------
(* Fairness: every pod's script, the monitor's thread and the driver's main    *)
(* thread keep running; a fault, and the answer to a ping, are the choice of   *)
(* the environment.  retry_jobs_in_progress finds in_progress empty            *)
(* sooner or later: its LLEN follows the last LMOVE by milliseconds, while a   *)
(* worker that claims again must first sleep and then run its job.             *)
FairSpec ==
  /\ Spec
  /\ WF_vars(verdict = "none" /\ Preload /\ UNCHANGED driverVars)
  /\ \A w \in Workers :
       WF_vars(verdict = "none" /\ WorkerStep(w)
               /\ UNCHANGED <<monitorVars, preloaded, driverVars>>)
  /\ WF_vars(verdict = "none" /\ MonitorStep
             /\ UNCHANGED <<workerVars, preloaded, driverVars>>)
  /\ SF_vars(verdict = "none" /\ RetryDone
             /\ UNCHANGED <<workerVars, preloaded, driverVars>>)
  /\ WF_vars(DriverStep /\ UNCHANGED <<redisVars, monitorVars, preloaded>>)

-----------------------------------------------------------------------------
(* Safety. *)

(* A pod about to be deleted owns no job, however old the status is that the  *)
(* driver acts on and however long it collects logs.                          *)
RetireRespectsOwnership ==
  ClaimLandsInTime => (toRetire \ deleted) \cap HVALS(jobOwners) = {}

(* "All jobs completed" when the queues read empty                            *)
(* (MissionHistoryPubnetParallelCatchupV2.fs:513): no job is waiting or       *)
(* running when the mission is declared complete.                             *)
CompleteMeansAllDone == verdict = "complete" => Jobs = Done

(* Except on the word of a pass that requeued orphans, the driver decides     *)
(* that the mission is complete only when every job is committed, however old *)
(* the four reads behind the status are by then and however the monitor was   *)
(* cut off or restarted before.                                               *)
CompletesOnlyWhenDone ==
  [][/\ "complete" \in {judgement', verdict'} \ {judgement, verdict}
     /\ ~status.reread /\ "requeueError" \notin FaultKinds
     => Jobs = Done]_vars

(* The monitor's Phase 1 is "authoritative" (job_monitor.py:168): a mission   *)
(* with a failed job is not declared complete.                                *)
CompleteMeansNoFailure == verdict = "complete" => failed = {}

-----------------------------------------------------------------------------
(* Liveness. *)

(* The driver ends every mission, complete or failed: finished, stalled, or   *)
(* without a monitor, it notices.                                             *)
MissionEnds == <>(verdict # "none")
=============================================================================
