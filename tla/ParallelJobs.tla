---------------------------- MODULE ParallelJobs ----------------------------
(***************************************************************************)
(* RunParallelJobs of StellarJobExec.fs: a loop keeps up to Parallelism    *)
(* Kubernetes jobs running, one per command, until no command is left.     *)
(* Every call to the API server may raise: the loop swallows an            *)
(* HttpRequestException, HttpRetries times; any other exception ends it. A *)
(* job is named by its command: no command is started twice.               *)
(***************************************************************************)
EXTENDS Integers, FiniteSets

CONSTANTS
  Commands,     \* the commands to run
  Parallelism,  \* how many jobs may run at a time
  HttpRetries,  \* exceptions the loop swallows
  MaxFailed,    \* failed pods of a job CheckJob puts up with
  BackoffLimit, \* failed pods after which Kubernetes starts no more
  PodAges,      \* ages, in minutes, a pending pod may have
  MayMeddle     \* whether somebody else may delete one of the jobs

ASSUME JobsAssumption ==
  /\ IsFiniteSet(Commands)
  /\ Parallelism \in Nat \ {0} /\ HttpRetries \in Nat \ {0}
  /\ MaxFailed \in Nat /\ BackoffLimit \in Nat /\ MaxFailed <= BackoffLimit
  /\ PodAges \subseteq Nat /\ PodAges # {}
  /\ MayMeddle \in BOOLEAN

VARIABLES
  todo,      \* commands nextJob has not handed out
  moreJobs,  \* nextJob has not returned None yet
  running,   \* the JobStatusTable's running jobs
  fate,      \* its finished ones: "ok" or "failed", "none" for the others
  seen,      \* running jobs in the list of this pass: jobCount
  snap,      \* their statuses in that list
  toCheck,   \* those still to check
  retries,   \* numOfHttpRetriesAllowed
  jpc,       \* "top" of the loop, "check"ing jobs, "add"ing jobs, "end"
  verdict,   \* how the mission ends
  cluster,   \* the jobs that exist
  pods,      \* what became of each job's pods
  meddled    \* somebody else deleted a job

loopVars == <<todo, moreJobs, running, fate, seen, snap, toCheck, retries, jpc, verdict>>
kubeVars == <<cluster, pods, meddled>>
jobVars == <<loopVars, kubeVars>>

\* Failed pods; whether one ended with an exit code other than 137; whether one
\* succeeded.
PodStatus == [failed : 0..(BackoffLimit + 1), bad : BOOLEAN, done : BOOLEAN]

Fresh == [failed |-> 0, bad |-> FALSE, done |-> FALSE]

JobsTypeOK ==
  /\ todo \subseteq Commands /\ running \subseteq Commands
  /\ todo \cap (running \cup cluster) = {}
  /\ fate \in [Commands -> {"none", "ok", "failed"}]
  /\ \A c \in running \cup todo : fate[c] = "none"
  /\ seen \subseteq Commands /\ toCheck \subseteq running
  /\ snap \in [Commands -> PodStatus]
  /\ moreJobs \in BOOLEAN /\ retries \in 0..HttpRetries
  /\ jpc \in {"top", "check", "add", "end"}
  /\ verdict \in {"running", "success", "jobFailed", "lostJob", "pendingPods", "apiError"}
  /\ cluster \subseteq Commands
  /\ pods \in [Commands -> PodStatus]
  /\ meddled \in BOOLEAN

JobsInit ==
  /\ todo = Commands /\ moreJobs = TRUE
  /\ running = {} /\ fate = [c \in Commands |-> "none"]
  /\ seen = {} /\ toCheck = {} /\ snap = [c \in Commands |-> Fresh]
  /\ retries = HttpRetries /\ jpc = "top" /\ verdict = "running"
  /\ cluster = {} /\ pods = [c \in Commands |-> Fresh] /\ meddled = FALSE

-----------------------------------------------------------------------------
(* The job controller of the cluster. *)

\* The job has a pod running or will get another one.
Active(c) == ~pods[c].done /\ pods[c].failed <= BackoffLimit

PodSucceeds(c) ==
  /\ jpc # "end" /\ c \in cluster /\ Active(c)
  /\ pods' = [pods EXCEPT ![c].done = TRUE]
  /\ UNCHANGED <<loopVars, cluster, meddled>>

PodDies(c) ==
  /\ jpc # "end" /\ c \in cluster /\ Active(c)
  /\ \E bad \in {pods[c].bad, TRUE} :
       pods' = [pods EXCEPT ![c].failed = @ + 1, ![c].bad = bad]
  /\ UNCHANGED <<loopVars, cluster, meddled>>

\* The job and its pods are gone.
DeleteJob(c) ==
  /\ cluster' = cluster \ {c}
  /\ pods' = [pods EXCEPT ![c] = Fresh]

\* Something other than supercluster deletes a job started by this run.
Meddle(c) ==
  /\ jpc # "end" /\ MayMeddle /\ ~meddled
  /\ c \in cluster
  /\ DeleteJob(c)
  /\ meddled' = TRUE
  /\ UNCHANGED loopVars

-----------------------------------------------------------------------------
(* The loop. *)

\* The locals of a pass go out of scope.
ForgetList ==
  /\ seen' = {} /\ toCheck' = {}
  /\ snap' = [c \in Commands |-> Fresh]

\* An exception of type HttpRequestException reaches the loop's handler.
Swallow == retries' = retries - 1 /\ jpc' = "top" /\ ForgetList /\ UNCHANGED verdict

\* Any other exception leaves the loop.
Raise(v) == jpc' = "end" /\ verdict' = v /\ ForgetList /\ UNCHANGED retries

\* A call to the API server raises.
CallRaises == Swallow \/ Raise("apiError")

\* Mutant of LoopCondition: does not wait for the jobs still running.
LoopConditionQueue == moreJobs /\ retries > 0

LoopCondition == (moreJobs \/ running # {}) /\ retries > 0

(* checkPendingPodBuildup compares TimeSpan.Minutes, the minutes of the hour, *)
(* with 120.                                                                  *)
Minutes(age) == age % 60

WaitingTooLong(age) == Minutes(age) > 120

(* Look for pods pending too long, then list the jobs of the namespace. *)
StartPass ==
  /\ jpc = "top" /\ LoopCondition
  /\ \E age \in PodAges :
       IF running # {} /\ WaitingTooLong(age)
       THEN Raise("pendingPods")
       ELSE /\ seen' = running \cap cluster
            /\ toCheck' = running \cap cluster
            /\ snap' = [c \in Commands |-> IF c \in running \cap cluster THEN pods[c] ELSE Fresh]
            /\ jpc' = "check"
            /\ UNCHANGED <<retries, verdict>>
  /\ UNCHANGED <<todo, moreJobs, running, fate, kubeVars>>

StartPassRaises ==
  /\ jpc = "top" /\ LoopCondition
  /\ CallRaises
  /\ UNCHANGED <<todo, moreJobs, running, fate, kubeVars>>

(* CheckJob works on the listed status of a job; only the exit codes of its   *)
(* pods are read anew, and only if a pod failed.                              *)
NonOomFail(c) == snap[c].failed > 0 /\ c \in cluster /\ pods[c].bad

Over(c) == snap[c].done \/ snap[c].failed > MaxFailed \/ NonOomFail(c)

StillRunning(c) ==
  /\ jpc = "check" /\ c \in toCheck
  /\ ~Over(c)
  /\ toCheck' = toCheck \ {c}
  /\ UNCHANGED <<todo, moreJobs, running, fate, seen, snap, retries, jpc, verdict, kubeVars>>

\* Mutant of NoteFinished: the job stays among the running ones.
NoteFinishedKeeps(c, f) ==
  /\ running' = running
  /\ fate' = [fate EXCEPT ![c] = f]

NoteFinished(c, f) ==
  /\ running' = running \ {c}
  /\ fate' = [fate EXCEPT ![c] = f]

\* Mutant of JobPassed: a job stays in the running set until it is gone.
JobPassedStays(c) ==
  /\ jpc = "check" /\ c \in toCheck
  /\ snap[c].done
  /\ toCheck' = toCheck \ {c}
  /\ DeleteJob(c) \/ UNCHANGED <<cluster, pods>>
  /\ UNCHANGED <<todo, moreJobs, running, fate, seen, snap, retries, jpc, verdict, meddled>>

(* FinishJob dumps the logs and deletes the job; an error of the deletion is  *)
(* ignored.                                                                   *)
JobPassed(c) ==
  /\ jpc = "check" /\ c \in toCheck
  /\ snap[c].done
  /\ NoteFinished(c, "ok")
  /\ toCheck' = toCheck \ {c}
  /\ DeleteJob(c) \/ UNCHANGED <<cluster, pods>>
  /\ UNCHANGED <<todo, moreJobs, seen, snap, retries, jpc, verdict, meddled>>

JobFails(c) ==
  /\ jpc = "check" /\ c \in toCheck
  /\ Over(c) /\ ~snap[c].done
  /\ NoteFinished(c, "failed")
  /\ Raise("jobFailed")
  /\ UNCHANGED <<todo, moreJobs, kubeVars>>

(* A call in CheckJob raises: the one for exit codes, or one of those that    *)
(* dump logs or events after NoteFinished.  "Job failed" is then not raised.  *)
CheckJobRaises(c) ==
  /\ jpc = "check" /\ c \in toCheck
  /\ \/ /\ ~snap[c].done /\ snap[c].failed \in 1..MaxFailed
        /\ UNCHANGED <<running, fate>>
     \/ Over(c) /\ NoteFinished(c, IF snap[c].done THEN "ok" ELSE "failed")
  /\ CallRaises
  /\ UNCHANGED <<todo, moreJobs, kubeVars>>

\* Mutant of CountJobs: a job that disappears is not noticed.
CountNothing ==
  /\ jpc = "check" /\ toCheck = {}
  /\ jpc' = "add" /\ ForgetList
  /\ UNCHANGED <<todo, moreJobs, running, fate, retries, verdict, kubeVars>>

(* More running jobs than jobs seen: one has disappeared. *)
CountJobs ==
  /\ jpc = "check" /\ toCheck = {}
  /\ IF Cardinality(running) > Cardinality(seen)
     THEN Raise("lostJob")
     ELSE jpc' = "add" /\ ForgetList /\ UNCHANGED <<retries, verdict>>
  /\ UNCHANGED <<todo, moreJobs, running, fate, kubeVars>>

\* Mutant of Room: one job too many.
RoomForOneMore == Cardinality(running) <= Parallelism /\ moreJobs

Room == Cardinality(running) < Parallelism /\ moreJobs

NoMoreJobs ==
  /\ jpc = "add" /\ Room
  /\ todo = {}
  /\ moreJobs' = FALSE
  /\ UNCHANGED <<todo, running, fate, seen, snap, toCheck, retries, jpc, verdict, kubeVars>>

(* nextJob, StartJobForCmd, NoteRunning. *)
AddJob(c) ==
  /\ jpc = "add" /\ Room
  /\ c \in todo
  /\ todo' = todo \ {c}
  /\ cluster' = cluster \cup {c}
  /\ running' = running \cup {c}
  /\ UNCHANGED <<moreJobs, fate, seen, snap, toCheck, retries, jpc, verdict, pods, meddled>>

(* StartJob raises, with or without having created the job: the command is    *)
(* off the queue and never noted as running.                                  *)
AddJobRaises(c) ==
  /\ jpc = "add" /\ Room
  /\ c \in todo
  /\ todo' = todo \ {c}
  /\ cluster' \in {cluster, cluster \cup {c}}
  /\ CallRaises
  /\ UNCHANGED <<moreJobs, running, fate, pods, meddled>>

\* The pass is over; sleep for a minute.
EndPass ==
  /\ jpc = "add" /\ ~Room
  /\ jpc' = "top"
  /\ UNCHANGED <<todo, moreJobs, running, fate, seen, snap, toCheck, retries, verdict, kubeVars>>

\* Looks at the finished table only.
CheckAllJobsSucceeded ==
  IF \E c \in Commands : fate[c] = "failed" THEN "jobFailed" ELSE "success"

(* The loop ends.  Both asserts after it are compiled out of the documented   *)
(* Release build.                                                             *)
ReturnTable ==
  /\ jpc = "top" /\ ~LoopCondition
  /\ jpc' = "end"
  /\ verdict' = CheckAllJobsSucceeded
  /\ UNCHANGED <<todo, moreJobs, running, fate, seen, snap, toCheck, retries, kubeVars>>

LoopStep ==
  \/ StartPass \/ StartPassRaises \/ CountJobs \/ NoMoreJobs \/ EndPass \/ ReturnTable
  \/ \E c \in Commands :
       StillRunning(c) \/ JobPassed(c) \/ JobFails(c) \/ CheckJobRaises(c)
         \/ AddJob(c) \/ AddJobRaises(c)

PodStep == \E c \in Commands : PodSucceeds(c) \/ PodDies(c)

Meddling == \E c \in Commands : Meddle(c)

Ended == jpc = "end" /\ UNCHANGED jobVars

JobsNext == LoopStep \/ PodStep \/ Meddling \/ Ended

JobsSpec == JobsInit /\ [][JobsNext]_jobVars

(* The loop goes on after its sleeps.  A pod may pend or run for ever. *)
FairJobsSpec == JobsSpec /\ WF_jobVars(LoopStep)

-----------------------------------------------------------------------------

Swallowed == HttpRetries - retries

(* A mission that succeeds while the loop still has retries left has run all  *)
(* its commands with success, but for at most one per swallowed exception:    *)
(* nothing else drops a command between the queue, the running set and the    *)
(* finished table.                                                            *)
SuccessMissesOnlyErrors ==
  verdict = "success" /\ retries > 0 =>
    Cardinality({c \in Commands : fate[c] # "ok"}) <= Swallowed

(* The namespace's quota (StellarJobExec.fs:344): at most Parallelism jobs    *)
(* have pods running, and one more per swallowed exception, whose job runs on *)
(* without being noted.                                                       *)
ActiveWithinQuota ==
  Cardinality({c \in cluster : Active(c)}) <= Parallelism + Swallowed

(* "the only way this condition can be true is if something other than        *)
(* supercluster deletes jobs" (StellarJobExec.fs:255): the loop's own steps,  *)
(* retries and deletions never make a running job miss from the list.         *)
LostJobMeansMeddled == verdict = "lostJob" => meddled

\* The loop counts the job as running, and its pods pend or run for ever.
StaysActive(c) == <>[](c \in running \cap cluster /\ Active(c))

(* The loop ends, with a job deleted behind its back, failing pods and        *)
(* swallowed exceptions too, unless one of the jobs it watches never ends:    *)
(* its own accounting never keeps it going.  For a job whose pods pend for    *)
(* ever there is checkPendingPodBuildup, which was to end the mission early   *)
(* (StellarJobExec.fs:166) and never does.                                    *)
LoopEnds == <>(jpc = "end") \/ \E c \in Commands : StaysActive(c)
=============================================================================
