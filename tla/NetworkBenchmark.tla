--------------------------- MODULE NetworkBenchmark ---------------------------
(***************************************************************************)
(* RunP2PNetworkBenchmark: the driver creates one benchmark pod per node,  *)
(* waits, collects what the clients wrote, has it parsed and deletes what  *)
(* it created.  The clients (start-benchmark-client.sh) run on their own:  *)
(* nothing but time orders the driver after them, and the model has no     *)
(* clock.                                                                  *)
(*                                                                         *)
(* A client container that dies is restarted in its pod, and /results, an  *)
(* emptyDir, keeps what the previous one wrote.                            *)
(***************************************************************************)
EXTENDS BenchmarkParser

CONSTANTS
  GoodEnd,      \* end section of the test of a node to a peer
  BadIntervals, \* intervals of a test that broke off
  MaxAttempts,  \* polls of a pod that is not ready, 30 in the code
  MaxFaults     \* bound on the faults of a run

ASSUME EndAssumption ==
  /\ GoodEnd \in [Nodes \X Nodes -> TestEnd]
  /\ \A t \in Nodes \X Nodes : GoodEnd[t].sum_sent # {} /\ 0 \notin GoodEnd[t].sum_sent
ASSUME IntervalsAssumption == BadIntervals \in TestIntervals
ASSUME BenchAssumption == Nodes # {} /\ MaxAttempts \in Nat \ {0} /\ MaxFaults \in Nat

VARIABLES
  pc,         \* where the driver is
  todo,       \* nodes its current loop has still to visit
  attempts,   \* polls of the current pod
  service,    \* the headless service exists
  sets,       \* nodes whose StatefulSet exists
  client,     \* state of each client container
  files,      \* /results/result-<peer>-bidir.json of each pod
  exitCode,   \* /results/exit_code of each pod
  named,      \* the log just read names the node
  pods,       \* what has been collected
  report,     \* what the parser made of pods: empty before it has run
  faults,     \* faults so far
  restarted   \* pods whose client container has died

driverVars == <<pc, todo, attempts, service, sets, named, pods, report>>
podVars    == <<client, files, exitCode, restarted>>
benchVars  == <<driverVars, podVars, faults>>

FileKinds == {"absent", "empty", "good", "partial", "refused", "garbled"}

ClientStates == {"none", "starting", "waiting", "testing", "done", "terminated", "backoff"}

RunningClient == {"starting", "waiting", "testing", "done"}

PeerSet(n) == ToSet(Peers[n])

NoEnd == [sum_sent |-> {}, sum_sent_bidir_reverse |-> {},
          sum_received_bidir_reverse |-> {}, streams |-> <<>>]

\* What iperf3 writes into the file of node n for peer p.
Json(n, p, kind) ==
  [valid     |-> kind # "garbled",
   error     |-> kind # "good",
   intervals |-> IF kind = "partial" THEN BadIntervals ELSE <<>>,
   end       |-> IF kind = "good" THEN GoodEnd[n, p] ELSE NoEnd]

BenchTypeOK ==
  /\ pc \in {"service", "sets", "ready", "sleep", "list", "logs", "exit_code", "results",
             "parse", "delete", "unservice", "complete", "aborted"}
  /\ todo \subseteq Nodes
  /\ attempts \in 0..MaxAttempts
  /\ service \in BOOLEAN
  /\ sets \subseteq Nodes
  /\ client \in [Nodes -> ClientStates]
  /\ files \in [Nodes -> [Nodes -> FileKinds]]
  /\ exitCode \in [Nodes -> {"none", "0", "1"}]
  /\ named \in BOOLEAN
  /\ DOMAIN pods \subseteq Nodes
  /\ Cardinality(report) <= 1
  /\ faults \in 0..MaxFaults
  /\ restarted \subseteq Nodes

BenchInit ==
  /\ pc = "service"
  /\ todo = {}
  /\ attempts = 0
  /\ service = FALSE
  /\ sets = {}
  /\ client = [n \in Nodes |-> "none"]
  /\ files = [n \in Nodes |-> [p \in Nodes |-> "absent"]]
  /\ exitCode = [n \in Nodes |-> "none"]
  /\ named = FALSE
  /\ pods = <<>>
  /\ report = {}
  /\ faults = 0
  /\ restarted = {}

Fault ==
  /\ faults < MaxFaults
  /\ faults' = faults + 1

-----------------------------------------------------------------------------
(* The pods. *)

\* Kubernetes starts the pod of a StatefulSet, sooner or later or never.
PodStarts(n) ==
  /\ n \in sets
  /\ client[n] = "none"
  /\ client' = [client EXCEPT ![n] = "starting"]
  /\ UNCHANGED <<driverVars, files, exitCode, restarted, faults>>

\* "Node ... running benchmark", then ten seconds of sleep.
ClientAnnounces(n) ==
  /\ client[n] = "starting"
  /\ client' = [client EXCEPT ![n] = "waiting"]
  /\ UNCHANGED <<driverVars, files, exitCode, restarted, faults>>

\* All the tests start at once; the shell truncates their files.
TestsStart(n) ==
  /\ client[n] = "waiting"
  /\ client' = [client EXCEPT ![n] = "testing"]
  /\ files' = [files EXCEPT ![n] = [p \in Nodes |-> IF p \in PeerSet(n) THEN "empty"
                                                    ELSE "absent"]]
  /\ UNCHANGED <<driverVars, exitCode, restarted, faults>>

Tested(n, p, kind) ==
  /\ client[n] = "testing"
  /\ files[n][p] = "empty"
  /\ files' = [files EXCEPT ![n][p] = kind]
  /\ UNCHANGED <<driverVars, client, exitCode, restarted>>

TestSucceeds(n, p) == Tested(n, p, "good") /\ UNCHANGED faults

\* The test breaks off, is refused or timed out, or text follows the JSON in its file.
TestFails(n, p, kind) == Tested(n, p, kind) /\ Fault

\* The client writes exit_code when it has waited for every test, and stays.
ClientFinishes(n) ==
  /\ client[n] = "testing"
  /\ \A p \in PeerSet(n) : files[n][p] # "empty"
  /\ client' = [client EXCEPT ![n] = "done"]
  /\ exitCode' = [exitCode EXCEPT
       ![n] = IF \A p \in PeerSet(n) : files[n][p] = "good" THEN "0" ELSE "1"]
  /\ UNCHANGED <<driverVars, files, restarted, faults>>

\* The container is killed; its tests end and leave their files empty.
ContainerDies(n) ==
  /\ client[n] \in RunningClient
  /\ Fault
  /\ client' = [client EXCEPT ![n] = "terminated"]
  /\ restarted' = restarted \cup {n}
  /\ UNCHANGED <<driverVars, files, exitCode>>

\* The kubelet restarts it, at once or after a back-off in which it is waiting.
BackOff(n) ==
  /\ client[n] = "terminated"
  /\ client' = [client EXCEPT ![n] = "backoff"]
  /\ UNCHANGED <<driverVars, files, exitCode, restarted, faults>>

ContainerRestarts(n) ==
  /\ client[n] \in {"terminated", "backoff"}
  /\ client' = [client EXCEPT ![n] = "starting"]
  /\ UNCHANGED <<driverVars, files, exitCode, restarted, faults>>

PodStep(n) ==
  \/ ClientAnnounces(n)
  \/ TestsStart(n)
  \/ \E p \in PeerSet(n) : TestSucceeds(n, p)
  \/ ClientFinishes(n)

PodNext ==
  \E n \in Nodes :
    \/ PodStarts(n)
    \/ PodStep(n)
    \/ \E p \in PeerSet(n), kind \in {"partial", "refused", "garbled"} : TestFails(n, p, kind)
    \/ ContainerDies(n)
    \/ BackOff(n)
    \/ ContainerRestarts(n)

-----------------------------------------------------------------------------
(* The driver. *)

\* The node a loop visits next.
Current == Min(todo)

\* The exception leaves RunP2PNetworkBenchmark; nothing is deleted.
Abort ==
  /\ pc' = "aborted"
  /\ UNCHANGED <<todo, attempts, service, sets, named, pods, report>>

CreateService ==
  /\ pc = "service"
  /\ service' = TRUE
  /\ todo' = Nodes
  /\ pc' = "sets"
  /\ UNCHANGED <<attempts, sets, named, pods, report, podVars, faults>>

CreateStatefulSet ==
  /\ pc = "sets"
  /\ sets' = sets \cup {Current}
  /\ IF todo = {Current} THEN todo' = Nodes /\ pc' = "ready"
     ELSE todo' = todo \ {Current} /\ pc' = pc
  /\ UNCHANGED <<attempts, service, named, pods, report, podVars, faults>>

\* The call to Kubernetes, or kubectl, fails.
CallFails ==
  /\ pc \in {"service", "sets", "list", "logs", "exit_code", "results"}
  /\ Fault
  /\ Abort
  /\ UNCHANGED podVars

\* Mutant of NextReady: the attempts go on counting from pod to pod.
NextReadyCounting ==
  /\ attempts' = attempts + 1
  /\ todo' = todo \ {Current}
  /\ pc' = IF todo' = {} THEN "sleep" ELSE pc
  /\ UNCHANGED <<service, sets, named, pods, report, podVars>>

NextReady ==
  /\ attempts' = 0
  /\ todo' = todo \ {Current}
  /\ pc' = IF todo' = {} THEN "sleep" ELSE pc
  /\ UNCHANGED <<service, sets, named, pods, report, podVars>>

PodReady ==
  /\ pc = "ready"
  /\ client[Current] \in RunningClient
  /\ NextReady
  /\ UNCHANGED faults

\* Mutant of NotReady: the pod is polled until it is ready.
PollForever ==
  /\ attempts' = IF attempts < MaxAttempts THEN attempts + 1 ELSE attempts
  /\ UNCHANGED <<pc, todo, service, sets, named, pods, report, podVars>>

\* After the last attempt a warning is logged and the pod is waited for no longer.
NotReady ==
  IF attempts + 1 = MaxAttempts THEN NextReady
  ELSE /\ attempts' = attempts + 1
       /\ UNCHANGED <<pc, todo, service, sets, named, pods, report, podVars>>

PodNotReady ==
  /\ pc = "ready"
  /\ client[Current] \notin RunningClient
  /\ NotReady
  /\ UNCHANGED faults

\* ReadNamespacedPod raises.
ReadPodFails ==
  /\ pc = "ready"
  /\ Fault
  /\ NotReady

\* duration + 20 seconds from here, whatever the clients are doing.
Slept ==
  /\ pc = "sleep"
  /\ pc' = "list"
  /\ UNCHANGED <<todo, attempts, service, sets, named, pods, report, podVars, faults>>

\* One listing decides which pods failed and which are read; the others are skipped.
ListPods ==
  /\ pc = "list"
  /\ IF \E n \in Nodes : client[n] = "terminated" THEN Abort
     ELSE /\ todo' = {n \in Nodes : client[n] \in RunningClient}
          /\ pc' = IF todo' = {} THEN "parse" ELSE "logs"
          /\ UNCHANGED <<attempts, service, sets, named, pods, report>>
  /\ UNCHANGED <<podVars, faults>>

\* The log of a container that has died can still be read; it may have said its name.
ReadLogs ==
  /\ pc = "logs"
  /\ named' \in IF client[Current] \in RunningClient
                THEN {client[Current] # "starting"} ELSE BOOLEAN
  /\ pc' = "exit_code"
  /\ UNCHANGED <<todo, attempts, service, sets, pods, report, podVars, faults>>

\* Mutant of ReadExitCode: only a test that failed is noticed.
ReadExitCodeUnlessFailed ==
  /\ pc = "exit_code"
  /\ IF client[Current] \notin RunningClient \/ exitCode[Current] = "1" THEN Abort
     ELSE /\ pc' = "results"
          /\ UNCHANGED <<todo, attempts, service, sets, named, pods, report>>
  /\ UNCHANGED <<podVars, faults>>

\* kubectl exec fails if the container is gone; a missing file reads as empty.
ReadExitCode ==
  /\ pc = "exit_code"
  /\ IF client[Current] \notin RunningClient \/ exitCode[Current] # "0" THEN Abort
     ELSE /\ pc' = "results"
          /\ UNCHANGED <<todo, attempts, service, sets, named, pods, report>>
  /\ UNCHANGED <<podVars, faults>>

\* cat /results/*.json: in the order of the names; an empty file adds nothing.
Concatenated(n, results) ==
  LET written == Ascending({p \in Nodes : results[p] \notin {"absent", "empty"}})
  IN  [i \in DOMAIN written |->
         [peer |-> written[i], json |-> Json(n, written[i], results[written[i]])]]

Output(n) == Concatenated(n, files[n])

ReadResults ==
  /\ pc = "results"
  /\ IF client[Current] \notin RunningClient \/ Output(Current) = <<>> THEN Abort
     ELSE /\ pods' = [n \in DOMAIN pods \cup {Current} |->
                        IF n = Current THEN [named |-> named, output |-> Output(n)]
                        ELSE pods[n]]
          /\ named' = FALSE
          /\ todo' = todo \ {Current}
          /\ pc' = IF todo' = {} THEN "parse" ELSE "logs"
          /\ UNCHANGED <<attempts, service, sets, report>>
  /\ UNCHANGED <<podVars, faults>>

\* The script, on what has been collected.
Parse ==
  \E credits \in {Credits(pods)} :
    \E metrics \in {aggregate_bidirectional_results(pods, credits)} :
      \E results \in {Results(metrics)} :
        report' = {main(credits, metrics, results)}

\* Mutant of ProcessResults: only the pods that were read are deleted.
ProcessDeletesRead ==
  /\ pc = "parse"
  /\ Parse
  /\ todo' = DOMAIN pods
  /\ pc' = IF todo' = {} THEN "unservice" ELSE "delete"
  /\ UNCHANGED <<attempts, service, sets, named, pods, podVars, faults>>

\* The script's report is logged.
ProcessResults ==
  /\ pc = "parse"
  /\ Parse
  /\ todo' = sets
  /\ pc' = "delete"
  /\ UNCHANGED <<attempts, service, sets, named, pods, podVars, faults>>

\* The script exits with an error: logged, and the run goes on without a report.
ScriptFails ==
  /\ pc = "parse"
  /\ Fault
  /\ todo' = sets
  /\ pc' = "delete"
  /\ UNCHANGED <<attempts, service, sets, named, pods, report, podVars>>

\* python3 cannot be started.
NoScript ==
  /\ pc = "parse"
  /\ Fault
  /\ Abort
  /\ UNCHANGED podVars

\* A StatefulSet takes its pod with it.
DeleteStatefulSet ==
  /\ pc = "delete"
  /\ sets' = sets \ {Current}
  /\ client' = [client EXCEPT ![Current] = "none"]
  /\ todo' = todo \ {Current}
  /\ pc' = IF todo' = {} THEN "unservice" ELSE pc
  /\ UNCHANGED <<attempts, service, named, pods, report, files, exitCode, restarted, faults>>

\* A deletion that fails is logged.
DeleteStatefulSetFails ==
  /\ pc = "delete"
  /\ Fault
  /\ todo' = todo \ {Current}
  /\ pc' = IF todo' = {} THEN "unservice" ELSE pc
  /\ UNCHANGED <<attempts, service, sets, named, pods, report, podVars>>

DeleteService ==
  /\ pc = "unservice"
  /\ service' = FALSE
  /\ pc' = "complete"
  /\ UNCHANGED <<todo, attempts, sets, named, pods, report, podVars, faults>>

DeleteServiceFails ==
  /\ pc = "unservice"
  /\ Fault
  /\ pc' = "complete"
  /\ UNCHANGED <<todo, attempts, service, sets, named, pods, report, podVars>>

DriverStep ==
  \/ CreateService
  \/ CreateStatefulSet
  \/ PodReady
  \/ PodNotReady
  \/ Slept
  \/ ListPods
  \/ ReadLogs
  \/ ReadExitCode
  \/ ReadResults
  \/ ProcessResults
  \/ DeleteStatefulSet
  \/ DeleteService

DriverFault ==
  \/ CallFails
  \/ ReadPodFails
  \/ ScriptFails
  \/ NoScript
  \/ DeleteStatefulSetFails
  \/ DeleteServiceFails

BenchOver == pc \in {"complete", "aborted"}

\* Once every pod has been read nothing they do is looked at any more.
Collected == pc \in {"parse", "delete", "unservice"}

BenchNext ==
  \/ ~BenchOver /\ ~Collected /\ PodNext
  \/ DriverStep
  \/ DriverFault
  \/ BenchOver /\ UNCHANGED benchVars

BenchSpec == BenchInit /\ [][BenchNext]_benchVars

(* The driver is a thread that is never blocked; that the pods start, finish   *)
(* or restart is not assumed.                                                  *)
FairBenchSpec == BenchSpec /\ WF_benchVars(DriverStep)

-----------------------------------------------------------------------------
(* Safety. *)

(* Every test counts as much for the one who receives as for the one who      *)
(* sends, so that the totals differ, and validate_network_balance may warn,   *)
(* only when a credited peer has no metrics because its pod was skipped or    *)
(* could not be named.  The warning says "may indicate [...] severe packet    *)
(* loss" (parse_benchmark_results.py:352): whatever the ends of a test        *)
(* measured, both are given the sender's figure, and loss can not cause it.   *)
ImbalanceMeansMissingPeer ==
  \A r \in report :
    r.warning \/ TotalSend(r.metrics) # TotalRecv(r.metrics)
    => \E c \in r.credits : c.to \notin Named(pods)

\* a and b are peers of each other.
Neighbours(a, b) == a \in PeerSet(b) /\ b \in PeerSet(a)

\* Every test of pod n came out well.
CompleteOutput(n) ==
  /\ Len(pods[n].output) = Cardinality(PeerSet(n))
  /\ \A i \in DOMAIN pods[n].output : ~pods[n].output[i].json.error

(* "Each node pair tests only once" (parse_benchmark_results.py:9): although  *)
(* both ends of a connection run a test of it, exactly one result is credited *)
(* to the pair, and no result of a node is credited twice.  It need not be a  *)
(* result of that pair: which test a credit takes its figures from is         *)
(* CreditedToTestedPeer's question.                                           *)
PairCreditedOnce ==
  \A r \in report :
    /\ \A a, b \in Named(pods) :
         a # b /\ Neighbours(a, b) /\ CompleteOutput(a) /\ CompleteOutput(b) =>
           Cardinality({c \in r.credits : {c.from, c.to} = {a, b}}) = 1
    /\ \A c, d \in r.credits : c.from = d.from /\ c.tested = d.tested => c = d

(* Of a pod whose client container has not died, the report has every test,   *)
(* each of them complete: the driver, which waits for a time and not for the  *)
(* clients, aborts when it finds one that is still testing or has failed.  A  *)
(* container that restarts finds the old exit_code, and of it anything may be *)
(* reported.                                                                  *)
OnlyFinishedTests ==
  report # {} => \A n \in DOMAIN pods \ restarted : CompleteOutput(n)

Ordered(rtt) == \A t \in rtt : t.min <= t.mean /\ t.mean <= t.max

(* Minimum, mean and maximum of the round-trip times stay in that order, for  *)
(* a node and for the network, whether they come from the end sections or     *)
(* from the intervals of tests that broke off.                                *)
RttOrdered ==
  \A r \in report : /\ Ordered(r.summary.rtt)
                    /\ \A n \in DOMAIN r.results : Ordered(r.results[n].rtt)

(* A run that ends without an exception has tried to delete everything it     *)
(* created, the StatefulSets of pods it skipped included: what is left is     *)
(* what could not be deleted, one fault each.                                 *)
LeftoversAreFaults ==
  pc = "complete" => Cardinality(sets) + (IF service THEN 1 ELSE 0) <= faults

(* "Forward (A->B): Counts as A's send and B's receive"                       *)
(* (parse_benchmark_results.py:227): a result is credited to the peer it was  *)
(* measured with.                                                             *)
CreditedToTestedPeer == \A r \in report : \A c \in r.credits : c.to = c.tested

-----------------------------------------------------------------------------
(* Liveness. *)

(* The benchmark ends, complete or aborted, also when pods never start or     *)
(* clients never finish.                                                      *)
BenchmarkEnds == <>BenchOver
=============================================================================
