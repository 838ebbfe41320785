---------------------------- MODULE RedisQueues ----------------------------
(***************************************************************************)
(* The Redis keys that the parts of a parallel-catchup mission share, and  *)
(* the commands they use on them.  Redis itself is external: every command *)
(* (and every MULTI/EXEC block and EVAL script) is one atomic step.        *)
(*                                                                         *)
(* A job key such as "36024000/8320" is an element of Jobs, a pod name an  *)
(* element of Workers.  The metrics key only carries timing reports that  *)
(* nothing else depends on, and is left out.                               *)
(***************************************************************************)
EXTENDS Integers, FiniteSets, SequencesExt

CONSTANTS
  Jobs,        \* job keys the preload job pushes
  Workers,     \* names of the worker pods
  Nil,         \* no job, no owner
  FaultKinds,  \* the kinds of fault the environment may inject
  MaxFaults    \* bound on the number of injected faults

AllFaultKinds ==
  {"restart",        \* a worker container dies and restarts in its pod
   "evict",          \* a worker pod disappears (bare pods are not recreated)
   "claimError",     \* redis-cli fails on the claim; it may have been applied
   "commitReply",    \* the result transaction is applied, redis-cli still fails
   "falseDown",      \* a worker with a job misses all the confirmation pings
   "monitorError",   \* a call of the monitor's pass raises, the pass is cut off
   "requeueError",   \* requeue_job is cut off or resent between LREM and LPUSH
   "spopReply",      \* SPOP of the timing reports is applied, its reply lost
   "monitorRestart", \* the monitor's container restarts or its pod is rescheduled
   "preloadReply",   \* the bulk load is applied, its reply lost, and repeated
   "statusLost",     \* the driver's HTTP query fails
   "deleteError"}    \* a pod deletion fails with something other than 404

ASSUME JobsAssumption   == IsFiniteSet(Jobs) /\ Jobs # {}
ASSUME WorkersAssumption == IsFiniteSet(Workers) /\ Workers # {}
ASSUME NilAssumption    == Nil \notin Jobs /\ Nil \notin Workers
ASSUME FaultAssumption  == FaultKinds \subseteq AllFaultKinds /\ MaxFaults \in Nat

VARIABLES
  ranges,      \* LIST of jobs waiting, claimed from the left
  inProgress,  \* LIST of jobs claimed and not committed
  succeeded,   \* SET of jobs
  failed,      \* SET of "job|pod"; the pod only says whose log to dump, so the jobs
  jobOwners,   \* HASH job -> pod; Nil where there is no field
  retiring,    \* SET of pods that must stop claiming
  faults       \* number of faults injected so far

redisVars == <<ranges, inProgress, succeeded, failed, jobOwners, retiring>>

RedisTypeOK ==
  /\ ranges \in Seq(Jobs)
  /\ inProgress \in Seq(Jobs)
  /\ succeeded \subseteq Jobs
  /\ failed \subseteq Jobs
  /\ jobOwners \in [Jobs -> Workers \cup {Nil}]
  /\ retiring \subseteq Workers
  /\ faults \in 0..MaxFaults

RedisInit ==
  /\ ranges = <<>>
  /\ inProgress = <<>>
  /\ succeeded = {}
  /\ failed = {}
  /\ jobOwners = [j \in Jobs |-> Nil]
  /\ retiring = {}
  /\ faults = 0

(* Commands, as functions of the value of their key. *)
LPUSH(list, job) == <<job>> \o list

\* LREM list -1 job: drop the occurrence nearest the tail, if there is one.
LREM(list, job) ==
  IF job \in ToSet(list)
  THEN RemoveAt(list, CHOOSE i \in DOMAIN list :
                        /\ list[i] = job
                        /\ \A k \in DOMAIN list : list[k] = job => k <= i)
  ELSE list

HSET(hash, job, pod) == [hash EXCEPT ![job] = pod]

HDEL(hash, job) == [hash EXCEPT ![job] = Nil]

HVALS(hash) == {hash[j] : j \in Jobs} \ {Nil}

(* What the mission's outcome is about. *)
Done == succeeded \cup failed

(* A fault of the given kind happens in this step, or none does. *)
Fault(kind) ==
  /\ kind \in FaultKinds
  /\ faults < MaxFaults
  /\ faults' = faults + 1

NoFault == UNCHANGED faults
=============================================================================
