---------------------------- MODULE MissionDriver ----------------------------
(***************************************************************************)
(* The poll loop of MissionHistoryPubnetParallelCatchupV2.fs: read the job *)
(* monitor's status, retire workers, fail or complete the mission.         *)
(* Signals and the cleanup they race with are the subject of               *)
(* MissionCleanup; here the cleanup is the end of the mission.             *)
(***************************************************************************)
EXTENDS JobMonitor

CONSTANTS
  MaxRetiredPerPass,  \* maxRetiredPerPass
  StatusTimeoutPolls, \* jobMonitorStatusCheckTimeOutSecs in polls
  StallPolls          \* jobMonitorStallTimeOutSecs in polls

ASSUME DriverAssumption ==
  /\ MaxRetiredPerPass \in Nat \ {0}
  /\ StatusTimeoutPolls \in Nat \ {0}
  /\ StallPolls \in Nat \ {0}

VARIABLES
  toRetire,    \* toRetire of the current poll, {} between polls
  deleted,     \* those of them already deleted
  judgement,   \* what the rest of the loop body does once all are
  livePods,    \* livePods
  timeoutLeft, \* timeoutLeft, in polls
  stalledFor,  \* stalledForSecs, in polls
  verdict      \* how the loop ended

driverVars == <<toRetire, deleted, judgement, livePods, timeoutLeft, stalledFor,
                verdict>>

Verdicts == {"none", "complete", "failed"}

DriverTypeOK ==
  /\ toRetire \subseteq Workers
  /\ deleted \subseteq toRetire
  /\ judgement \in Verdicts
  /\ livePods \subseteq Workers
  /\ timeoutLeft \in 0..StatusTimeoutPolls
  /\ stalledFor \in 0..StallPolls
  /\ verdict \in Verdicts

DriverInit ==
  /\ toRetire = {}
  /\ deleted = {}
  /\ judgement = "none"
  /\ livePods = Workers
  /\ timeoutLeft = StatusTimeoutPolls
  /\ stalledFor = 0
  /\ verdict = "none"

\* Mutant of EndBody: the deletions of this pass are remembered.
EndBodyKeepsDeleted(v) ==
  /\ verdict' = v
  /\ toRetire' = {}
  /\ judgement' = "none"
  /\ UNCHANGED <<deleted, workerVars>>

(* The loop body ends: go round again, or leave the loop (past its end or     *)
(* through the exception handler) and clean up, which uninstalls the release  *)
(* with all its pods.                                                         *)
EndBody(v) ==
  /\ verdict' = v
  /\ toRetire' = {}
  /\ deleted' = {}
  /\ judgement' = "none"
  /\ IF v = "none"
     THEN UNCHANGED workerVars
     ELSE /\ wpc' = [w \in Workers |-> "gone"]
          /\ wjob' = [w \in Workers |-> Nil]
          /\ wok' = [w \in Workers |-> FALSE]

(* Stall detection, then the test for completion. *)
NoLiveWorkers == status.inProgress > 0 /\ status.up = 0

StalledFor == IF NoLiveWorkers THEN stalledFor + 1 ELSE 0

\* Mutant of QueuesEmpty: jobs in progress are not counted.
QueuesEmptyWaiting == status.remain = 0

QueuesEmpty == status.remain = 0 /\ status.inProgress = 0

Judgement ==
  IF StalledFor >= StallPolls THEN "failed"
  ELSE IF QueuesEmpty THEN "complete"
  ELSE "none"

(* toRetire: what the monitor offers and is still live, truncated. *)
ToRetire ==
  LET offered == status.retirable \cap livePods
  IN  IF Cardinality(offered) <= MaxRetiredPerPass
      THEN {offered}
      ELSE {S \in SUBSET offered : Cardinality(S) = MaxRetiredPerPass}

Idle == toRetire = {} /\ verdict = "none"

(* GET /status shows a failed job: the mission fails, whether or not the log  *)
(* of its pod can be dumped.                                                  *)
PollFailedJobs ==
  /\ Idle
  /\ mpc # "init"
  /\ status.failed
  /\ EndBody("failed")
  /\ timeoutLeft' = StatusTimeoutPolls
  /\ NoFault
  /\ UNCHANGED <<livePods, stalledFor>>

(* GET /status shows none: collect the logs of the pods to retire, if any,    *)
(* which precedes their deletion; with none to retire the body runs to its    *)
(* end.  What the body does after the deletions depends on this status alone. *)
Poll ==
  /\ Idle
  /\ mpc # "init"
  /\ ~status.failed
  /\ timeoutLeft' = StatusTimeoutPolls
  /\ stalledFor' = StalledFor
  /\ \E pods \in ToRetire :
       IF pods = {}
       THEN EndBody(Judgement)
       ELSE /\ toRetire' = pods
            /\ judgement' = Judgement
            /\ UNCHANGED <<deleted, verdict, workerVars>>
  /\ NoFault
  /\ UNCHANGED livePods

\* Mutant of PollFails: timeoutLeft is not counted down.
PollFailsForever ==
  /\ Idle
  /\ IF mpc = "init" THEN NoFault ELSE Fault("statusLost")
  /\ EndBody("none")
  /\ UNCHANGED <<livePods, timeoutLeft, stalledFor>>

(* queryJobMonitor returns None: the monitor has not started, or the query is *)
(* lost on the way.                                                           *)
PollFails ==
  /\ Idle
  /\ IF mpc = "init" THEN NoFault ELSE Fault("statusLost")
  /\ timeoutLeft' = timeoutLeft - 1
  /\ EndBody(IF timeoutLeft' = 0 THEN "failed" ELSE "none")
  /\ UNCHANGED <<livePods, stalledFor>>

(* DeleteNamespacedPod; a 404 is the same as success. *)
DeletePod(w) ==
  /\ w \in toRetire \ deleted
  /\ RemovePod(w)
  /\ deleted' = deleted \cup {w}
  /\ NoFault
  /\ UNCHANGED <<toRetire, judgement, livePods, timeoutLeft, stalledFor, verdict>>

(* After the last deletion the pods are struck off and the body goes on. *)
ScaledDown ==
  /\ toRetire # {}
  /\ deleted = toRetire
  /\ livePods' = livePods \ toRetire
  /\ EndBody(judgement)
  /\ NoFault
  /\ UNCHANGED <<timeoutLeft, stalledFor>>

(* Any other error, of a deletion that was applied (DeletePod) or was not: the *)
(* rest of the scale-down is skipped, and livePods keeps the names already     *)
(* deleted.                                                                    *)
DeleteError ==
  /\ toRetire # {}
  /\ Fault("deleteError")
  /\ EndBody(judgement)
  /\ UNCHANGED <<livePods, timeoutLeft, stalledFor>>

DriverStep ==
  \/ PollFailedJobs
  \/ Poll
  \/ PollFails
  \/ \E w \in Workers : DeletePod(w)
  \/ ScaledDown

DriverFault == DeleteError
=============================================================================
