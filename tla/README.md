# A TLA+ model of Stellar Supercluster

Stellar Supercluster runs integration tests of stellar-core ("missions") on a
Kubernetes cluster. This directory models the parts of it whose correctness
depends on the order in which several actors act, checks them with TLC, and
proves the central properties with TLAPS for every number of jobs, workers and
faults. Source paths below are relative to `src/src/`.

## 1. The system

| Part | State it keeps | Operations | Talks to |
|---|---|---|---|
| Redis (parallel catchup) | lists `ranges`, `in_progress`; sets `succeeded`, `failed`, `retiring`, `metrics`; hash `job_owners` | atomic commands, `EVAL`, `MULTI/EXEC` | everybody below |
| Range generators (`MissionParallelCatchup/parallel_catchup_helm/files/*_range_generator.sh`) | loop variables | cut the ledgers into jobs, push them to `ranges` | Redis |
| Worker (`.../files/worker.sh`) | the job it holds | check `retiring`, claim, run stellar-core, commit the result, restart | Redis, pinged by the monitor |
| Job monitor (`MissionParallelCatchup/job_monitor.py`) | counts read in this pass, published `status`, collected reports | read the queues, requeue orphans, ping, mark surplus workers, retry stuck jobs, publish, collect the workers' timing reports, answer `GET` | Redis, workers, driver |
| Driver (`FSLibrary/MissionHistoryPubnetParallelCatchupV2.fs`) | `livePods`, timeouts | poll the status, delete retirable pods, fail or complete the mission | monitor, Kubernetes |
| Cleanup and signal handlers (same file, `App/Program.fs`) | `toPerformCleanup`, `helmReleaseName` | install, uninstall, exit | helm |
| Parallel jobs (`FSLibrary/StellarJobExec.fs`) | job-status table, remaining commands | start, watch, finish Kubernetes jobs | Kubernetes |
| Formations (`FSLibrary/StellarFormation.fs`, `StellarNamespaceContent.fs`, `StellarSupercluster.fs`) | tracked resources, anchor, `disposed` | create, clean up, dispose | Kubernetes |
| Orphan sweep (`FSLibrary/StellarOrphanSweep.fs`) | none | delete what is older than two days | Kubernetes, helm |
| Network benchmark (`FSLibrary/StellarStatefulSets.fs:931-1364`, `BenchmarkDaemonSet.fs`, `scripts/start-benchmark-client.sh`) | StatefulSets and service; files in every pod's `/results` | create, wait, collect, parse, delete; in every pod, test all peers with iperf3 | Kubernetes, kubectl, the parser |
| Benchmark parser (`scripts/parse_benchmark_results.py`) | none | from iperf3 output to totals, warnings and a report | called by the benchmark |
| EKS set-up (`../scripts/eks-init.py`) | none; the cluster's | create the cluster, mount drives, install the ingress, test the DNS | the operator, AWS, DNS |
| Live core sets (`FSLibrary/StellarStatefulSets.fs`) | `networkCfg`, `statefulSets` under `StateLock` | start, stop, wait | Kubernetes, stellar-core |
| Rate limit, throttle retry (`FSLibrary/ApiRateLimit.fs`, `PollRetry.fs`) | time of the last call | sleep, retry on 429 | API server |
| Searches (`FSLibrary/MaxTPSTest.fs`, `MinBlockTimeTest.fs`) | bounds of the search | run a load, narrow the bounds | formations |
| Everything else | - | builds configuration, Kubernetes objects, topologies; copies files | - |

What is hard here, and what no unit test of the repository reaches:

* The monitor looks at Redis through four to six separate reads and then pings
  for a minute, while workers claim and commit. Its decisions (complete,
  requeue, mark, retry) rest on values that are stale when they are used.
* The driver acts on a status up to a minute old, and collects logs for minutes
  before it deletes.
* Containers restart under the same pod name, pods disappear, commands are
  applied although their reply is lost, and passes break off between any two
  calls.
* A worker's check of `retiring` and its claim are two commands.
* `toPerformCleanup` is shared by two threads without a lock.
* The mission must end, every job must get done and its report be collected;
  reports are popped from Redis, so a lost reply loses them.
* The benchmark's driver and its pods are ordered by sleeps only, and the result
  files outlive a container.
* `eks-init.py` is run again after a failure half-way, on a cluster of the same
  name whose predecessor AWS still lists.

`PROJECT.json` lists each hazard at the line where it bites, with the
properties that would catch it.

## 2. Modules

| Module | Models | State and actions |
|---|---|---|
| `RedisQueues` | the shared keys (external), the fault budget | `LPUSH`, `LREM`, `HSET`, `HDEL`, `HVALS` as functions of a key's value |
| `CatchupWorker` | `worker.sh` | one action per Redis call: `CheckRetiring`, `ClaimJob`/`ClaimNothing`/`ClaimError`, `Catchup`, `CommitResult`/`CommitReplyLost`, `RestartContainer`, `EvictPod` |
| `JobMonitor` | `update_status_and_metrics` | one action per Redis call or ping, `mpc` naming the next one; `MonitorError` is the `except` clause, `MonitorRestart` a new process |
| `CatchupQueues` | preload + workers + monitor | composition, and the properties of the queues |
| `WorkQueue` | what the queues promise, without Redis or monitor | items waiting, out and done: `Fill`, `Take`, `Finish`, `TakeBack`, `LetGo` (of one hand, or of several at once) |
| `CatchupMetrics` | `CatchupQueues` + the timing reports, `do_GET` | `SADD` in the result transaction, `PublishThenPop`, `CollectMetrics`, `SpopRaises`, `SpopResent`, `RestartMonitor` |
| `MissionDriver` | the poll loop | `Poll`, `PollFailedJobs`, `PollFails`, `DeletePod`, `ScaledDown`, `DeleteError` |
| `ParallelCatchup` | `CatchupQueues` + `MissionDriver` | the whole mission |
| `MissionCleanup` | install, cleanup, signals | main thread and handler, one action per access to the shared flag |
| `ParallelJobs` | `RunParallelJobs`, `CheckJob`, the job-status table of `StellarJobExec.fs`; jobs and pods of the cluster | one action per call of the loop that can fail: `StartPass`, `StillRunning`, `JobPassed`, `JobFails`, `CheckJobRaises`, `CountJobs`, `AddJob`, `AddJobRaises`, `EndPass`, `ReturnTable`; `PodSucceeds`, `PodDies`, `Meddle` |
| `FormationLifecycle` | `createAnchor`, `MakeFormation`, `MakeEmptyFormation`, `NamespaceContent`, Dispose, signal handlers; the garbage collector | one action per API call of the main thread; `TestDisposed`, `SetDisposed`, `DeleteAnchor`, `DeleteTracked`, `Cleaned` by the main thread or the handler; `Signal`, `Kill`, `Collect` |
| `OrphanSweep` | `FormationLifecycle` + the sweep at the start of later processes, and what a parallel-catchup mission leaked | `ListSets`, `ListPods`, `HelmUninstall`, then per kind `ListKind`, `DeleteItem`, `KindOver`, and the failure of each |
| `RangeGenerator` | both shell generators, `getCatchupRanges` | one action per loop iteration |
| `BenchmarkParser` | `parse_benchmark_results.py` | operators only, named as the script's functions |
| `NetworkBenchmark` | `RunP2PNetworkBenchmark` and the client script in every pod | the driver: `CreateService`, `CreateStatefulSet`, `PodReady`, `PodNotReady`, `Slept`, `ListPods`, `ReadLogs`, `ReadExitCode`, `ReadResults`, `ProcessResults`, `DeleteStatefulSet`, `DeleteService` and their failures; a pod: `ClientAnnounces`, `TestsStart`, `TestSucceeds`, `TestFails`, `ClientFinishes`, `ContainerDies`, `ContainerRestarts` |
| `ClusterInit` | `eks-init.py`, run several times | one action per question and command; the operator, AWS and the DNS as `Rerun`, `DeleteCluster`, `NodeDies`, `NodeReplaced`, `AssignHostname`, `SetRecord`, `Propagate` |
| `MCCatchupQueues`, `MCParallelCatchup`, `MCRangeGenerator`, `MCNetworkBenchmark`, `MCOrphanSweep` | - | symmetry and input sets for TLC |
| `CatchupQueuesProofs` | - | what the list commands do; that no job is lost or on the lists twice; the refinement of `WorkQueue` |
| `StatusProofs` | - | what the monitor's counts are worth when they are used, and its reports |
| `DriverProofs` | - | that offered and deleted pods own nothing; that completion is earned, and what the driver leaves of the queues; when a release is left |
| `ParallelJobsProofs` | - | what a success, the quota and a lost job mean |
| `FormationProofs` | - | that what is left has lost its anchor, and what a sweep leaves of it |
| `RangeGeneratorProofs` | - | what the generators cover |
| `BenchmarkProofs` | - | who tests a pair of nodes, what is read of a pod, what the report makes of it, what is left |
| `ClusterInitProofs` | - | what "ready", a failed count and a passed DNS test mean |

Abstractions. A job key and a pod name are model values. `failed` is the set of
jobs, without the pod whose log is dumped. The pass's counts are kept as the
code keeps them, because what they miss is the point. Two sub-steps are merged
where nothing can come between them or where it makes no difference: `LLEN` and
`LMOVE` of the retry loop (an `LMOVE` on an empty list does nothing), and
`SMEMBERS`, the DNS lookups and `SADD` of Phase 2b (only this thread writes
`retiring`). `to_mark` is a prefix of the sorted names in the code and any set
of that size here. Prometheus gauges and histograms are left out. The seconds of
the driver's timeouts are counted in polls. The bulk load is one transaction; the logarithmic
generator, which pushes one job a second, is modelled in `RangeGenerator` only.

In `ParallelJobs` a job is named by its command, because no command is started
twice, and the status of a job is what `CheckJob` reads of it: failed pods, a bad
exit code, a success. In `FormationLifecycle` one resource stands for each kind
(two for the StatefulSets, whose tracking is the point); the collector deletes a
resource at any time after its anchor is gone. In `OrphanSweep` a sweep concerns
only a process that has ended, because no mission runs for two days, and comes
when everything that process left is old enough; one that comes earlier deletes
nothing. Objects have a kind, and the sweep goes through the kinds in the order
of the code, so that a kind left out of it shows. The release is an arbitrary set
of objects of the chart's kinds, leaked with any of its worker pods missing.
Which of its objects a deletion takes along is left open: a failing call, or a
failing helm, may leave any of them.

In `CatchupMetrics` a report is a job and a pod, without its times. The monitor
pops after it has published and before it sleeps; no Redis call but `SPOP` lies
between, so `tail` says only whether that call has been made and whether it took
all there was. What is served is
a set, because a report served twice is not told apart by the driver.

`BenchmarkParser` computes with whole numbers and rounds means down; a node is
the rank of its name, which is all the comparison of names uses, and the parity
of the XOR of two hashes is that of their sum. Every result carries the peer it
was measured with, which the script does not know, so that a property can
compare the two. The lists the script builds are the entries of another list at
some positions (`Entries`), a value that may be missing is a set with at most one
element (`Present` drops those that are), and a sum is a fold over a set of
positions or peers: none of it is recursive, so that it can be proved about. In
`NetworkBenchmark` a test succeeds, breaks off with some
intervals measured, is refused, or leaves text after its JSON, which glues its
file to the next in the output of `cat`. There is no clock: the driver's sleep
ends at any time. Once the last pod has been read the pods stand still, because
nothing looks at them any more. `ClusterInit` keeps the name, region and domain the same in
every run, which is what makes runs meet; a node of another cluster is in
`Others`.

In `queues_safety` TLC identifies states by `WithoutFigures`, which keeps of the
published status only what a property asks about it. This loses no behaviour: no
action of `CatchupQueues` reads the status; only the driver does, which is not in
that run.

Faults are explicit: every fault action consumes one of `MaxFaults` and is
enabled only if its kind is in `FaultKinds`, so that each configuration says
what it assumes of the cluster.

`ClaimLandsInTime` states the one timing assumption: a worker that read
`retiring` before it was marked has its claim answered before the monitor's
next pass, half a minute later. Without it (set it to FALSE) a pod can be
offered while its claim is on the way, and `RetirableIsQuiet` is void.

## 3. Runs

Passing runs:

| Run | Instance | Shows |
|---|---|---|
| `queues_safety` | 2 jobs, 2 workers, one of {restart, eviction, lost commit reply, aborted pass} | `QueueTypeOK`, `NoJobLost`, `NoDuplicateEntry`, `CleanSnapshotSound`, `RetirableIsQuiet`, `MarkingKeepsEnough`, `ImplementsWorkQueue` |
| `queues_metrics` | 1 job, 2 workers of which one stays unmarked, one report a pop, any one of nine faults, fairness | `MetricsTypeOK`, `NoReportLost`, `FinalQueryComplete`, `ReportsCollected` |
| `mission_driver` | 1 job, 3 workers, two retired in a pass, any two of a resent transaction, a cut-off pass, a restart of the monitor, a lost query or a failed deletion, fairness | `TypeOK`, `RetireRespectsOwnership`, `CompletesOnlyWhenDone`, `MissionEnds` |
| `mission_cleanup` | 3 missions, a signal at any moment, helm commands that fail | `CleanupTypeOK`, `LeakOnlyMidCleanup` |
| `range_generator` | ledgers 0..24, all small parameters | `GenTypeOK`, `UniformCoversRange`, `LogarithmicGapIsLastChunk` |
| `parallel_jobs` | 3 commands on 2 slots, 2 swallowed exceptions, a job deleted by somebody else, the loop fair | `JobsTypeOK`, `SuccessMissesOnlyErrors`, `ActiveWithinQuota`, `LostJobMeansMeddled`, `LoopEnds` |
| `formation_lifecycle` | one resource of each kind, two StatefulSets, 2 failed API calls, a signal, a kill; a leaked release of a worker, the monitor and a secret; sweeps any call of which may fail | `TypeOK`, `LeftoversLoseAnchor`, `SweepLeavesOnlyFailures` |
| `network_benchmark` | 3 nodes on a line, two with equal hashes, 2 polls, 1 fault, the driver fair | `BenchTypeOK`, `ImbalanceMeansMissingPeer`, `PairCreditedOnce`, `OnlyFinishedTests`, `RttOrdered`, `LeftoversAreFaults`, `BenchmarkEnds` |
| `cluster_init` | 3 runs of the script, clusters of 1 or 2 nodes, 2 faults, fairness | `InitTypeOK`, `ReadyMeansMounted`, `MismatchMeansLostNode`, `TestedDnsIsLive`, `DnsTestEnds` |

`ImplementsWorkQueue` is the refinement of `WorkQueue` by `CatchupQueues`: what
waits is on `ranges` or in the monitor's hand, what is out is on `in_progress`,
what is done is in `succeeded` or `failed`, and a worker holds the job its
script knows. A claim is `Take`, a commit (also a resent one, and one of a job
taken back meanwhile) is `Finish`, a requeue or a retry is `TakeBack`, a crash
is `LetGo`, and everything else changes nothing that the abstract queue sees.
The fault kinds that break the queue, an error inside `requeue_job` and a
repeated bulk load, are not in this run. With a driver it is the same: the end of
the mission uninstalls the release under its workers, which is `LetGo` of all
hands at once, and nothing else that the driver does is seen by the abstract
queue. That is proved (`MissionIsAWorkQueue`) and has no run; listed as a property
in `MissionDriver.cfg`, `ImplementsWorkQueue` holds there.

Bounds. Two jobs and two workers are the least at which a claim, a commit and a
requeue of different jobs interleave and a worker can be surplus; one job more
or one worker more adds no new kind of interleaving, and the theorems of
section 5 hold for any number. `MinUnmarked` is 0 or 1 instead of 2 (or the
deployed value) so that marking happens with two workers. The timeouts are two polls, so that both
running out and being reset happen. With more than two faults the fault budget
only repeats a fault that has happened. In `range_generator` the parameters
include segments that divide the range and that do not, no overlap and overlap,
and a start beyond the end. `queues_metrics` pops one report a pass, and a
job that is requeued and run again in another pod makes a second report, so that
there can be more than a batch (`tail` = "more"). With one job and
`MinUnmarked` = 1 one of its two workers is marked, and the other must be enough.
The repeated bulk load, the tenth kind of fault, is left out there for the size
of the state space. Deadlock is not checked there, because everything really
stops when the only unmarked pod is evicted with the job before the monitor's
init container has seen a non-empty `ranges`. In `mission_driver` two of three
pods can be retired in one pass, so that a list can be left half deleted, or
deleted and not struck off `livePods`.

In `network_benchmark` the node in the middle tests both its connections and has
its peers in the reverse order of their names; one fault lets each kind (a failed
call, a broken-off test, a dying container) strike at every point of a run, and
the theorems about the report hold for any number. In `cluster_init` a first run and
two more are what it takes to meet twice what an earlier one left half-done; the
set `Instances` bounds how many EC2 ever gives, and eight are enough for a cluster
of two nodes in each run and for two replaced nodes.

In `parallel_jobs` three commands on two slots make one wait for another; the
code's 20 retries, 2 tolerated and 3 allowed pod failures become 2, 1 and 1: as in
the code a pod may fail and its job still count as running, and what is tolerated
does not exceed what Kubernetes allows. In `formation_lifecycle` every excuse of `Excused` is
needed: leaving any one out gives a counterexample on this instance.

Fairness. Each pod's script and the monitor's thread are loops that sleep and go
on, so weak fairness of their next step is what the kernel's scheduler gives;
the preload job and the driver's main thread likewise. `RetryDone` gets strong
fairness in `ParallelCatchup`: the monitor's `LLEN` follows its `LMOVE` by
milliseconds, and a worker that could refill `in_progress` sleeps ten seconds
and runs a job first. In `ParallelJobs` only the loop is fair, which sleeps and
goes on; pods may pend or run for ever, and `LoopEnds` says what then. Nothing is
assumed of the garbage collector, and a sweep may break off. `CatchupMetrics`
assumes what `ParallelCatchup` does, without a driver. In `NetworkBenchmark` only
the driver is fair: pods need not start, finish or restart. In `ClusterInit` the
script goes on, the operator who asked for the DNS test sets the record and the
DNS spreads it. Answers to pings, faults and signals are never assumed.

Runs that show a disagreement between the code and what the repository says of
it (details under `findings` in `PROJECT.json`):

| Run | The text | What TLC shows |
|---|---|---|
| `mission_incomplete` | "All jobs completed" (driver, line 513) | after an orphan, `in_progress` is re-read before `ranges`; a claim in between hides a job from both, and the mission completes while it runs |
| `mission_misses_failure` | Phase 1 is "authoritative" (`job_monitor.py:168`) | a job that fails between the reads of `failed` and `in_progress` is missed, and the mission completes |
| `benchmark_credit` | "Only the initiating node runs the iperf3 client", "Forward (A->B): Counts as A's send and B's receive" (`parse_benchmark_results.py:11`, `:227`) | every pod tests all its peers, the results come in the order of their file names, and the parser matches them by index to the peers its hash selects: a result is credited to a peer it was not measured with |

Two more texts are contradicted by what a passing run shows:

| Run, property | The text | What TLC shows |
|---|---|---|
| `network_benchmark`, `ImbalanceMeansMissingPeer` | the imbalance warning "may indicate a bug in the benchmark coordination or severe packet loss" (`parse_benchmark_results.py:352`) | both ends of a test are given the sender's figure and `recv_mbps` is never used: no loss makes the totals differ, only a credited peer whose pod was skipped or not named |
| `parallel_jobs`, `LoopEnds` | pods pending for more than 120 minutes make the loop "fail early" (`StellarJobExec.fs:166-170`) | line 218 compares `TimeSpan.Minutes`, at most 59, with 120, so the verdict `pendingPods` is never reached; without its second disjunct `LoopEnds` fails with a pod that pends for ever |

## 4. Observations without a run of their own

* An error or a resent command between the `LREM` and the `LPUSH` of
  `requeue_job` loses the job; `NoJobLost` assumes that it does not happen
  (`"requeueError"` not in `FaultKinds`).
* The comment at `job_monitor.py:229` says of a retry on stale counts: "This is
  harmless: retry_jobs_in_progress() will find an empty in_progress queue". It need
  not: the job the pass saw in progress is committed during the pings, a second
  worker claims a job that was still waiting, the first does not answer between
  two jobs, and the retry moves the second's job back under it. Two jobs, two
  workers and no fault are enough; the job is run twice, nothing is lost.
* `requeue_job` pushes a job back before it deletes its owner. A worker that
  claims the job in between loses its entry to that `HDEL`, so that the next pass
  takes its running job for an orphan and requeues it once more. This can repeat in
  every pass, and the worker takes the same job each time it comes back to the
  head of the list: with several jobs the others can wait for ever. The second
  disjunct of `ReportsCollected` names that run; with one job it is not used.
* `MIN_UNMARKED_WORKERS` = 0 lets a count that was zero by mistake (after an
  orphan) mark the only worker, and the job is never done. With two workers and
  one of them kept, the other marked, the eviction of the one kept leaves the
  waiting jobs to nobody; nothing is in progress, so that the driver's stall
  counter never runs, and the mission does not end. The run with a driver has no
  eviction for this reason.
* The logarithmic generator's last call, "treat the rest with one
  uniform-ranged chunk" (`logarithmic_range_generator.sh:55`), starts after the
  chunk on which its loop stopped; that chunk is in no job.
  `LogarithmicGapIsLastChunk` says exactly what is missed.
* `RunParallelJobs` also returns, without an error, when its swallowed exceptions
  are used up; "make sure we're actually done" (`StellarJobExec.fs:281`) is an
  assert, which the documented Release build leaves out, and the mission succeeds
  with commands never run. `SuccessMissesOnlyErrors` therefore asks for retries
  left.
* A `SPOP` whose reply is lost is sent again, and what the first one popped is
  lost; so is what a monitor that dies had collected. The driver's last query of
  `/metrics` can come between the publishing of a status and the `SPOP` after it,
  or more than 1000 reports can be waiting; then reports are missing from it.
  `NoReportLost` and `FinalQueryComplete` name these cases and exclude all others.
* The benchmark waits `duration + 20` seconds, while a client may take
  `10 + duration + 15`: a run in which a test times out is aborted by the missing
  `exit_code`, or sees the failure, depending on seconds. A client restarted
  after its tests finds the old `exit_code` 0, and its half-written results are
  reported as if complete.
* A benchmark that aborts deletes nothing; its StatefulSets carry the anchor and
  go with the formation.
* In the parser the placeholder -1 for "no traffic" enters the averages of nodes
  that have traffic one way only; `connection_failures` is never counted and
  always reported as 0; `recv_mbps` is never used.
* `eks-init.py` compares the number of nodes only in the run that created the
  cluster, and a node that the node group replaces after the mounting stays
  without its drives although the script said ready; `ReadyMeansMounted` is about
  the nodes found. It reads the load balancer's hostname at once, and fails with a
  `KeyError` when AWS has not assigned one yet.
* A command that `addJob` took from the queue when its create raised is never
  run, and nothing says so: `SuccessMissesOnlyErrors` bounds the loss by the
  number of swallowed exceptions.
* A signal while a formation is being built, up to ten minutes of waiting for
  its proxy included, finds no handler registered and leaves everything to the
  sweep two days later. So does a signal inside Dispose, after it dropped the
  handlers, and an error of the TCP tuning in `MakeEmptyFormation`.
* With every worker pod evicted, a retry moves the jobs back to `ranges`,
  `in_progress` stays empty, the stall counter is reset at every poll, and the
  mission never ends. Adding `"evict"` to `FaultKinds` in `MissionDriver.cfg`
  shows it.
* If the workers claim every job before the monitor's init container looks at
  `ranges`, the monitor never starts and the mission fails as unreachable.
* A worker whose job a retry gave away while it was running can be marked,
  offered and deleted in the middle of its range. It owns nothing by then, so
  `RetireRespectsOwnership` holds and the range is run elsewhere.
* `toPerformCleanup` is cleared by the first mission and never set again: a
  second parallel-catchup mission of one command line leaves its release.
  `LeakOnlyMidCleanup` is therefore about the first mission.
* The sweep finds a leaked release by its worker pods. If none is left, because
  they were evicted, or deleted by a sweep whose helm failed, the pods of the other
  kinds go one by one, but helm's secret and the service account are never deleted.
* A failing `helm uninstall` is only logged, and its caller does not know.
* iperf3 may exit with 0 and leave text after its JSON; the model gives such a
  file the exit code 1, which aborts the run. With code 0 the run would go on with
  that test and the next without a result, as after a container that restarted.
* The comment at line 44 of the driver announces a failure when the monitor's
  status stops advancing; lines 501-508 only warn.

## 5. Proofs

The theorems hold for every value of the constants that the named assumptions of
the modules admit: any finite, non-empty sets of jobs and workers, any fault
budget and kinds of faults, any positive timeouts (`RedisQueues`, `JobMonitor`,
`MissionDriver`, `CatchupMetrics`); any number of missions (`MissionCleanup`); any
finite set of commands, any parallelism and limits with at most as many tolerated
failures as the back-off limit allows (`ParallelJobs`); any resources
and kinds (`FormationLifecycle`, `OrphanSweep`); any non-empty, finite set of nodes, with any hashes and
peers (`BenchmarkParser`, `NetworkBenchmark`: the network configuration has at
least one core set, no node lists a peer twice, and the total of a finished test
is there and not zero); any finite supply of instances and any node counts
(`ClusterInit`); every input of the generators that `InputsAssumption` admits.
Where a theorem speaks of a fair specification it uses only its safety part.

| Theorem | Property | Inductive invariant |
|---|---|---|
| `QueueTypesHold` | `QueueTypeOK` | `TypeInv`: the types, and that the monitor is requeuing exactly while it has orphans left (`OrphansLeft`) |
| `NoJobIsLost` | `NoJobLost` | `JobInv`: `TypeInv` and `JobsKept`, which is inductive given the types |
| `NoJobTwice` | `NoDuplicateEntry` | `OnceInv`, below |
| `QueuesAreAWorkQueue` | `ImplementsWorkQueue` | `OnceInv` |
| `EmptyStatusIsTrue` | `CleanSnapshotSound` | `SnapInv`, below |
| `MarkingLeavesEnough` | `MarkingKeepsEnough` | `SnapInv` |
| `ReportTypesHold` | `MetricsTypeOK` | `MetricsInv`, below |
| `NoReportIsLost` | `NoReportLost` | `MetricsInv` |
| `FinalQueryIsComplete` | `FinalQueryComplete` | `MetricsInv` |
| `OfferedPodsAreQuiet` | `RetirableIsQuiet` | `QuietInv`, below |
| `MissionTypesHold` | `TypeOK` | `DriverInv`: the types, and that a counter at its limit means a verdict |
| `RetiredPodsOwnNothing` | `RetireRespectsOwnership` | `MissionInv`: `QuietInv`, `DriverInv`, and `RetiredQuiet` |
| `CompletionIsEarned` | `CompletesOnlyWhenDone` | `MissionInv` and `SnapInv` |
| `MissionLosesNoJob` | `NoJobLost`, of the whole mission | `SnapInv` |
| `MissionIsAWorkQueue` | `ImplementsWorkQueue`, of the whole mission | `MissionInv` and `OnceInv` |
| `CleanupTypesHold` | `CleanupTypeOK` | `CleanupInv`, below |
| `ReleaseLeaksOnlyMidCleanup` | `LeakOnlyMidCleanup` | `CleanupInv` |
| `JobTypesHold` | `JobsTypeOK` | `JobsInv`, below |
| `SuccessIsHonest` | `SuccessMissesOnlyErrors` | `JobsInv` |
| `QuotaHolds` | `ActiveWithinQuota` | `JobsInv` |
| `LostJobsWereDeleted` | `LostJobMeansMeddled` | `JobsInv` |
| `TypesHold` | `TypeOK` | `LifeInv` until the process ends, `SweepInv` after it, below |
| `LeftoversAreAnchorless` | `LeftoversLoseAnchor` | the same |
| `SweepTriesEverything` | `SweepLeavesOnlyFailures` | `SweepInv` |
| `GenTypesHold` | `GenTypeOK` | `GenInv` |
| `UniformCovers` | `UniformCoversRange` | `GenInv` |
| `LogarithmicGap` | `LogarithmicGapIsLastChunk` | `GenInv` |
| `OneInitiator` | the arithmetic behind `PairCreditedOnce`: of two nodes exactly one initiates | none, by cases on the hashes and the parity of their sum |
| `BenchTypesHold` | `BenchTypeOK` | `BenchInv`, below |
| `LeftoversArePaidFor` | `LeftoversAreFaults` | `BenchInv` |
| `ReadsAreFinal` | the concurrent half of `OnlyFinishedTests`: what is read of a pod whose client has not died is the output of all its tests | `ReadInv`, below |
| `FinishedTestsOnly` | `OnlyFinishedTests` | `ReportInv` and `ReadInv` |
| `ImbalanceIsMissingPeer` | `ImbalanceMeansMissingPeer` | `ReportInv`, below |
| `EachPairCreditedOnce` | `PairCreditedOnce` | `ReportInv` |
| `RttsAreOrdered` | `RttOrdered` | `ReportInv` |
| `InitTypesHold` | `InitTypeOK` | `InitInv`, below |
| `ReadyIsMounted` | `ReadyMeansMounted` | `InitInv` |
| `MismatchIsLostNode` | `MismatchMeansLostNode` | `InitInv` |
| `DnsTestIsSound` | `TestedDnsIsLive` | `InitInv` |

*No job lost.* `TornRequeue` names what can lose a job: a fault between the
`LREM` and the `LPUSH` of `requeue_job`. Every other step of a worker
(`WorkerLosesNothing`) or of the monitor (`MonitorLosesNothing`) keeps `JobsKept`,
that every loaded job is waiting, out, in the monitor's hand or done. The lemmas
about the list commands are stated about the set of jobs on a list, so that no
induction over sequences is needed.

*Once only, and the refinement.* Two lists without repetitions do not make their
concatenation one: `OnceInv` says that neither list repeats a job, that they share
none (`EachJobOnce`) and neither with what the monitor holds between `LREM` and
`LPUSH`, and that nothing is out before the bulk load (`NoneOutBefore`). With it
each step maps to one of `WorkQueue`: a claim takes an item that was waiting and
is out afterwards, because it was on no other list. `NoTornCommand` is a
hypothesis of `QueuesAreAWorkQueue`: a requeue broken in two loses a job, and a
repeated load puts one on the list again after it was taken, neither of which the
abstract queue does.

*Snapshots.* A count says what was on a list when it was read. Neither property
is inductive, because nothing in them speaks of the moments between two reads.
`SnapInv` adds that: from the read of `ranges` to that of `in_progress` the list
has only become shorter (`RemainBounds`), and from then on the two counts bound
the jobs that are not done (`CountsBound`). The step that connects the two, the
read of `in_progress`, uses `JobInv`: every open job is on one of the lists, and
a list has at least as many entries as jobs (`JobsOnList`). All of it is
preserved because a job moves only forward, from `ranges` to `in_progress` to
done, in the order in which the lists are read; only the monitor's own requeues
and retries move one back, and between the reads of a pass without orphans it
does neither (`RereadKnown` tells the passes apart). `LoadedFirst` says that the
monitor starts on loaded queues.

*Reports.* `MetricsInv` is about three things at once: while no report has been
lost, every job that is done has one in Redis or in memory (`AllReported`); while
also no requeue was torn, the counts are worth what `SnapInv` says; then a pass
that published an empty status and popped all there was serves a report of every
job (`FinalReports`). The last holds from `SPOP` on, because an empty status means
that all jobs were done before it (`CleanStatus`), and done jobs stay done.

*Retirement.* A worker is `Quiet` when it is marked, owns nothing and is not
about to claim; nothing ends that (`QuietStays`). A pod is offered when a pass
finds it marked since an earlier pass and without a job. `QuietInv` follows that
through the pass: during the reads no marked worker is about to claim
(`ReadsQuiet`, which is where `ClaimLandsInTime` comes in), from the read of
`job_owners` to the marking the marked workers it does not count as active are
quiet (`IdleQuiet`), and so are the candidates and those in the published status
(`OfferedQuiet`). `RetiredQuiet` carries it over to the driver, which deletes
from a copy of a status that may be older than the monitor's.

*The mission.* The driver writes neither to Redis nor to the monitor
(`DriverLeavesQueues`), so that `SnapInv` and `OnceInv`, proved of the queues
alone, hold of the mission too (`MissionSnapStep`, `MissionOnceStep`); what it
deletes are pods that own nothing (`MissionInv`), and what it uninstalls is
everything. A verdict of completion is decided only by a poll that saw empty
queues (`CompletionSeesEmpty`), and `SnapInv` says what an empty status is worth.
The refinement needs `NoTornCommand`, as that of the queues does.

*Generators.* `UniformInv`: everything above the loop's position is handed out.
`LogarithmicInv`: everything below `startLedger` is, and inside a call of
`generate_uniform` what the call has passed too: `InOuter` between two calls,
`InChunk` inside one, `InRest` inside the last, which starts one past the chunk
that is missed.

*Cleanup.* `FlagHonoured`: a cleared `toPerformCleanup` means that one of the two
threads is about to uninstall, that an uninstall worked, or that every one that
was run failed (the handler's does if it is too early);
and nobody ends the mission with the flag set and a release installed. This is
what the two unlocked tests keep between them: both threads may see TRUE and
uninstall twice, but never both see FALSE with nobody at work. `InstalledOnce`
ties the release and its name to where the main thread is.

*Parallel jobs.* The loop keeps a queue, a set of running jobs and a table, the
cluster has its own jobs, and an exception leaves them apart. `JobsInv` says how
far: the commands that are neither queued nor running and did not succeed
(`Dropped`), and the jobs with pods that the loop does not count (`Strays`), are at
most as many as the exceptions swallowed. A stray and a job counted as finished
too early are told apart by `SnapIsPast`: a job that the list of this pass shows
as succeeded has succeeded for good, so that removing it from `running` frees a
slot that is free. `RunningIsListed` says that the list of a pass contains every
job started before it.

*Formations.* `Course` fixes the order (anchor before everything, an exception
past the cleanup only where the code has none, `KeepData` at the end). While the
process lives, `Watched` says that an anchor that exists is tracked, is on the
list of a thread that is cleaning up, and that once `disposed` is set some thread
is still at it (`SomebodyCleans`): the thread that finds `disposed` set leaves the
work to one that has not gone (`EndsWell`). When the process ends, these give
`LeftoversLoseAnchor`, and afterwards resources only disappear. `SweepInv` follows
a sweep through the kinds: an object of a kind that has been visited is gone or
one of this sweep's calls failed on it (`PassedTried`), an object of the kind being
visited may also be still on the list (`KindTried`), and every kind but helm's own
has its place in the sweep (`KindPlaced`).

*Benchmark.* `LeftIsPaid` counts the StatefulSets the deletion loop has passed by
against the faults, and `LoopsOn` says that a loop has a node left and that there
is something to delete. `ReadInv`: an `exit_code` of a client that has not died is
its last word, and a 0 says that every file is good (`ExitCodeFinal`); the output
is read after it and the files do not change any more (`ReadAfterExit`).

*Report.* `ReportInv`: a client writes files for the peers of its node only
(`OnlyPeersTested`), what was read of a pod is what its files held at some time
(`ReadAsWritten`), and a report is made of everything that was read and of
nothing else (`ReportOfRead`). The rest is about the parser's operators, for
results of any length. A fold over a set is unfolded one element at a time: a sum
satisfies the recursion that takes its smallest part off (`SumExists`,
`SumUnique`), and what is true of every sum is shown of a smallest
counterexample, because the naturals are well founded; the induction is written
out for each fact, so that no theorem takes an operator. With that, the totals
sent and received are the same sum over credited results, grouped once by one end
and once by the other, which gives `ImbalanceIsMissingPeer`; a mean lies between
the least and the greatest value, through all three levels (samples, streams,
nodes), which gives `RttsAreOrdered`; and with `OneInitiator` and the peers
without repetition, of two outputs that are complete exactly one is credited for
a pair, and a node's results, of different peers, are credited at most once each,
which gives `EachPairCreditedOnce`. It does not say that the result credited to a
pair is one of the pair's own two tests: `benchmark_credit` shows that it need not
be, so that of one pair both tests may count and of another none. `FinishedTestsOnly` adds to
`ReadsAreFinal` that the parser counts as many results in the output of a
finished run as there are peers. The assumptions are the code's: the peers of a
node come from a `Set` per node (`StellarNetworkData.fs:187`) or from one
enumeration of all nodes (`StellarStatefulSets.fs:49`), and iperf3 writes the
totals of a test that it finished.

*Cluster set-up.* `Counted`: a run that created the cluster knows how many nodes
run until one dies, first of the cluster, then of the addresses found. `Mounts`:
a node off the list is mounted. `Names`: the resolvers lag behind the record and
the record behind the load balancers, so that a test that sees the latest name
sees the record's.

Only model-checked: liveness (`ReportsCollected`, `MissionEnds`, `LoopEnds`,
`BenchmarkEnds`, `DnsTestEnds`), which rests on fairness and is out
of the proof system's reach. Every safety and action property of a passing run is
a theorem.

## 6. Not modelled, and the plan

Not modelled because there is nothing to check: the builders of configuration
and Kubernetes objects, topology data, log and data dumps, remote commands,
command-line options.

Next, in this order:

1. `MissionCleanup` composed with `OrphanSweep`, which for now starts from any
   leaked release, and `force-clean-namespace`.
2. `LiveCoreSets`: WithLive under `StateLock` against updates of `networkCfg`
   that do not take it.
3. `ThrottleRetry`: the retry budget of `ApiRateLimit.fs` against the client's
   timeout.
4. `BinarySearch`: the searches of `MaxTPSTest.fs` and `MinBlockTimeTest.fs`
   against a threshold, with retries of failed runs.
5. `RangeGenerator` and `CatchupQueues` composed for a streaming preload.
