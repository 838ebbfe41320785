----------------------------- MODULE ClusterInit -----------------------------
(***************************************************************************)
(* eks-init.py: the interactive script that creates an EKS cluster, mounts *)
(* the NVMe drives of its nodes, installs the ingress controller and waits *)
(* for the DNS record.  The operator answers its questions, runs it again  *)
(* after a failure and may delete the cluster in between; AWS and the DNS  *)
(* are external.                                                           *)
(*                                                                         *)
(* Cluster name, region, keys and domain are the same in every run; a      *)
(* hostname is the number of the load balancer it was given to.            *)
(***************************************************************************)
EXTENDS Integers, FiniteSets

CONSTANTS
  Instances,   \* EC2 instances the cluster may get, over all runs
  Others,      \* running instances of other clusters, or without tags
  NodeCounts,  \* answers to "Number of nodes"
  MaxRuns,     \* bound on the runs of the script
  MaxFaults    \* bound on failing commands and nodes

ASSUME InitAssumption ==
  /\ IsFiniteSet(Instances) /\ Instances \cap Others = {}
  /\ NodeCounts \subseteq Nat
  /\ MaxRuns \in Nat /\ MaxFaults \in Nat

VARIABLES
  spc,       \* where the script is
  why,       \* the step that made a run fail, or "command" if a command did
  num_nodes, \* the number of nodes asked for in this run: at most one element
  ips,       \* the instances found
  toMount,   \* those not mounted yet in this run
  answers,   \* which of "mount" and "dns" the operator chose in this run
  target,    \* hostname printed for the CNAME record, 0 for none
  exists,    \* a cluster of this name exists
  state,     \* state of each instance
  mounted,   \* instances whose drives are mounted
  balancer,  \* "none", "pending" or "assigned"
  hostname,  \* number of the latest load balancer
  record,    \* target of the CNAME record, 0 for none
  visible,   \* what dig returns
  runs,      \* runs so far
  faults,    \* faults so far
  lost,      \* nodes that have died and not been replaced
  nodeLost   \* a node of the present cluster has died

runVars   == <<num_nodes, ips, toMount, answers, target>>
cloudVars == <<exists, state, mounted, balancer, hostname, lost, nodeLost>>
dnsVars   == <<record, visible>>
initVars  == <<spc, why, runVars, cloudVars, dnsVars, runs, faults>>

Steps == {"start", "create", "list", "check", "askMount", "mount", "askIngress", "repo", "upgrade",
          "emit", "askDns", "dig", "sleep", "ready", "exited"}

InitTypeOK ==
  /\ spc \in Steps
  /\ why \in Steps \cup {"command"}
  /\ num_nodes \subseteq NodeCounts /\ Cardinality(num_nodes) <= 1
  /\ ips \subseteq Instances
  /\ toMount \subseteq ips
  /\ answers \subseteq {"mount", "dns"}
  /\ target \in 0..hostname
  /\ exists \in BOOLEAN
  /\ state \in [Instances -> {"none", "running", "terminated"}]
  /\ mounted \subseteq Instances
  /\ balancer \in {"none", "pending", "assigned"}
  /\ hostname \in Nat
  /\ record \in 0..hostname
  /\ visible \in 0..hostname
  /\ runs \in 0..MaxRuns
  /\ faults \in 0..MaxFaults
  /\ lost \in 0..MaxFaults
  /\ nodeLost \in BOOLEAN

RunInit == num_nodes = {} /\ ips = {} /\ toMount = {} /\ answers = {} /\ target = 0

Init ==
  /\ spc = "start" /\ why = "start"
  /\ RunInit
  /\ exists = FALSE
  /\ state = [i \in Instances |-> "none"]
  /\ mounted = {} /\ balancer = "none" /\ hostname = 0
  /\ record = 0 /\ visible = 0
  /\ runs = 0 /\ faults = 0 /\ lost = 0 /\ nodeLost = FALSE

Fault == faults < MaxFaults /\ faults' = faults + 1

GoTo(next) == spc' = next /\ UNCHANGED why

\* run and run_capture_output exit when their command fails; so does an exception.
Exit == spc' = "exited" /\ why' = spc

-----------------------------------------------------------------------------
(* The script. *)

\* The operator answers yes or no.
prompt_yes_no(yes, no) == yes \/ no

\* The questions up to "Create EKS cluster".
Ask ==
  /\ spc = "start"
  /\ prompt_yes_no(GoTo("create") /\ \E n \in NodeCounts : num_nodes' = {n},
                   GoTo("list") /\ UNCHANGED num_nodes)
  /\ UNCHANGED <<ips, toMount, answers, target, cloudVars, dnsVars, runs, faults>>

\* Instances not given to the cluster yet; AWS itself does not run out of them.
Fresh == {i \in Instances : state[i] = "none"}

\* eksctl returns when the nodes have joined; which instances it gets is all one.
create_cluster ==
  /\ spc = "create"
  /\ ~exists
  /\ exists' = TRUE
  /\ LET fits == {S \in SUBSET Fresh : {Cardinality(S)} = num_nodes}
         new  == CHOOSE S \in fits : TRUE
     IN  /\ fits # {}
         /\ state' = [i \in Instances |-> IF i \in new THEN "running" ELSE state[i]]
  /\ GoTo("list")
  /\ UNCHANGED <<runVars, mounted, balancer, hostname, lost, nodeLost,
                 dnsVars, runs, faults>>

\* There is a cluster of that name, or eksctl gives up and leaves one without nodes.
create_cluster_fails ==
  /\ spc = "create"
  /\ \/ exists /\ UNCHANGED <<exists, faults>>
     \/ ~exists /\ exists' = TRUE /\ Fault
  /\ Exit
  /\ UNCHANGED <<runVars, state, mounted, balancer, hostname, lost, nodeLost,
                 dnsVars, runs>>

\* Mutant of node_is_in_cluster: the state of the instance is not looked at.
TaggedNode(i) == i \in Instances /\ state[i] # "none"

\* Mutant of node_is_in_cluster: the tag is not looked at.
AnyNode(i) == i \in Others \/ state[i] = "running"

\* The instance has the cluster's tag and is running.
node_is_in_cluster(i) == i \in Instances /\ state[i] = "running"

get_node_ips ==
  /\ spc = "list"
  /\ ips' = {i \in Instances \cup Others : node_is_in_cluster(i)}
  /\ GoTo("check")
  /\ UNCHANGED <<num_nodes, toMount, answers, target, cloudVars, dnsVars, runs, faults>>

\* The number is checked only if this run created the cluster.
CheckNumber ==
  /\ spc = "check"
  /\ IF num_nodes \subseteq {Cardinality(ips)} THEN GoTo("askMount") ELSE Exit
  /\ UNCHANGED <<runVars, cloudVars, dnsVars, runs, faults>>

AskMount ==
  /\ spc = "askMount"
  /\ prompt_yes_no(GoTo("mount") /\ answers' = answers \cup {"mount"} /\ toMount' = ips,
                   GoTo("askIngress") /\ UNCHANGED <<answers, toMount>>)
  /\ UNCHANGED <<num_nodes, ips, target, cloudVars, dnsVars, runs, faults>>

\* Mutant of mount_nvme: a node that cannot be reached is skipped.
MountReachable ==
  /\ spc = "mount"
  /\ IF toMount = {} THEN GoTo("askIngress") /\ UNCHANGED <<toMount, mounted>>
     ELSE \E i \in toMount :
            /\ toMount' = toMount \ {i}
            /\ mounted' = IF state[i] = "running" THEN mounted \cup {i} ELSE mounted
            /\ GoTo("mount")
  /\ UNCHANGED <<num_nodes, ips, answers, target, exists, state, balancer, hostname,
                 lost, nodeLost, dnsVars, runs, faults>>

\* ssh to one instance after the other; it fails if the instance is gone.
mount_nvme ==
  /\ spc = "mount"
  /\ IF toMount = {} THEN GoTo("askIngress") /\ UNCHANGED <<toMount, mounted>>
     ELSE \E i \in toMount :
            IF state[i] = "running"
            THEN /\ toMount' = toMount \ {i}
                 /\ mounted' = mounted \cup {i}
                 /\ GoTo("mount")
            ELSE Exit /\ UNCHANGED <<toMount, mounted>>
  /\ UNCHANGED <<num_nodes, ips, answers, target, exists, state, balancer, hostname,
                 lost, nodeLost, dnsVars, runs, faults>>

AskIngress ==
  /\ spc = "askIngress"
  /\ prompt_yes_no(GoTo("repo"), GoTo("emit"))
  /\ UNCHANGED <<runVars, cloudVars, dnsVars, runs, faults>>

HelmRepoAdd ==
  /\ spc = "repo"
  /\ GoTo("upgrade")
  /\ UNCHANGED <<runVars, cloudVars, dnsVars, runs, faults>>

\* helm upgrade --install: the second time nothing changes.
HelmUpgrade ==
  /\ spc = "upgrade"
  /\ IF exists
     THEN /\ balancer' = IF balancer = "none" THEN "pending" ELSE balancer
          /\ GoTo("emit")
     ELSE Exit /\ UNCHANGED balancer
  /\ UNCHANGED <<runVars, exists, state, mounted, hostname, lost, nodeLost, dnsVars, runs, faults>>

\* Without the service kubectl fails; without a hostname in its status the
\* lookup raises KeyError.
emit_dns_instructions ==
  /\ spc = "emit"
  /\ IF balancer = "assigned" THEN target' = hostname /\ GoTo("askDns")
     ELSE Exit /\ UNCHANGED target
  /\ UNCHANGED <<num_nodes, ips, toMount, answers, cloudVars, dnsVars, runs, faults>>

AskDns ==
  /\ spc = "askDns"
  /\ prompt_yes_no(GoTo("dig") /\ answers' = answers \cup {"dns"},
                   GoTo("ready") /\ UNCHANGED answers)
  /\ UNCHANGED <<num_nodes, ips, toMount, target, cloudVars, dnsVars, runs, faults>>

\* Mutant of test_dns_propagation: any record will do.
DigAnyRecord ==
  /\ spc = "dig"
  /\ GoTo(IF visible # 0 THEN "ready" ELSE "sleep")
  /\ UNCHANGED <<runVars, cloudVars, dnsVars, runs, faults>>

\* Mutant of test_dns_propagation: the record, which ends in a dot, is compared
\* for equality.
DigExact ==
  /\ spc = "dig"
  /\ GoTo("sleep")
  /\ UNCHANGED <<runVars, cloudVars, dnsVars, runs, faults>>

\* One dig of the loop.
test_dns_propagation ==
  /\ spc = "dig"
  /\ GoTo(IF visible = target THEN "ready" ELSE "sleep")
  /\ UNCHANGED <<runVars, cloudVars, dnsVars, runs, faults>>

\* DNS_RETRY_INTERVAL_SECONDS later.
DnsRetry ==
  /\ spc = "sleep"
  /\ GoTo("dig")
  /\ UNCHANGED <<runVars, cloudVars, dnsVars, runs, faults>>

\* A command fails that changes nothing then.
CommandFails ==
  /\ spc \in {"list", "mount", "repo", "upgrade", "emit", "dig"}
  /\ Fault
  /\ spc' = "exited" /\ why' = "command"
  /\ UNCHANGED <<runVars, cloudVars, dnsVars, runs>>

ScriptStep ==
  \/ Ask
  \/ create_cluster
  \/ create_cluster_fails
  \/ get_node_ips
  \/ CheckNumber
  \/ AskMount
  \/ mount_nvme
  \/ AskIngress
  \/ HelmRepoAdd
  \/ HelmUpgrade
  \/ emit_dns_instructions
  \/ AskDns
  \/ test_dns_propagation
  \/ DnsRetry

-----------------------------------------------------------------------------
(* The operator, AWS and the DNS. *)

\* The script is run again.
Rerun ==
  /\ spc \in {"ready", "exited"}
  /\ runs < MaxRuns
  /\ runs' = runs + 1
  /\ spc' = "start" /\ why' = "start"
  /\ num_nodes' = {} /\ ips' = {} /\ toMount' = {} /\ answers' = {} /\ target' = 0
  /\ UNCHANGED <<cloudVars, dnsVars, faults>>

\* eksctl delete cluster, between two runs; describe-instances goes on listing
\* the terminated nodes.
DeleteCluster ==
  /\ spc = "start"
  /\ exists
  /\ exists' = FALSE
  /\ state' = [i \in Instances |-> IF state[i] = "running" THEN "terminated" ELSE state[i]]
  /\ balancer' = "none"
  /\ lost' = 0 /\ nodeLost' = FALSE
  /\ UNCHANGED <<spc, why, runVars, mounted, hostname, dnsVars, runs, faults>>

\* A node dies.
NodeDies(i) ==
  /\ state[i] = "running"
  /\ Fault
  /\ state' = [state EXCEPT ![i] = "terminated"]
  /\ lost' = lost + 1 /\ nodeLost' = TRUE
  /\ UNCHANGED <<spc, why, runVars, exists, mounted, balancer, hostname, dnsVars, runs>>

\* The node group replaces it, by an instance whose drives are not mounted.
NodeReplaced ==
  /\ lost > 0 /\ Fresh # {}
  /\ lost' = lost - 1
  /\ state' = [state EXCEPT ![CHOOSE i \in Fresh : TRUE] = "running"]
  /\ UNCHANGED <<spc, why, runVars, exists, mounted, balancer, hostname, nodeLost, dnsVars,
                 runs, faults>>

\* AWS names the load balancer.
AssignHostname ==
  /\ balancer = "pending"
  /\ balancer' = "assigned"
  /\ hostname' = hostname + 1
  /\ UNCHANGED <<spc, why, runVars, exists, state, mounted, lost, nodeLost, dnsVars, runs, faults>>

\* The operator follows the instructions.
SetRecord ==
  /\ spc \in {"askDns", "dig", "sleep"}
  /\ record # target
  /\ record' = target
  /\ UNCHANGED <<spc, why, runVars, cloudVars, visible, runs, faults>>

Propagate ==
  /\ visible # record
  /\ visible' = record
  /\ UNCHANGED <<spc, why, runVars, cloudVars, record, runs, faults>>

Next ==
  \/ ScriptStep
  \/ CommandFails
  \/ Rerun
  \/ DeleteCluster
  \/ \E i \in Instances : NodeDies(i)
  \/ NodeReplaced
  \/ AssignHostname
  \/ SetRecord
  \/ Propagate
  \/ spc \in {"ready", "exited"} /\ UNCHANGED initVars

Spec == Init /\ [][Next]_initVars

(* The script goes on, the operator sets the record and the DNS spreads it.    *)
FairSpec ==
  Spec /\ WF_initVars(ScriptStep) /\ WF_initVars(SetRecord) /\ WF_initVars(Propagate)

-----------------------------------------------------------------------------
(* "Your cluster is ready!" after a run in which the operator had the drives  *)
(* mounted means that every node found in that run is mounted, and that as    *)
(* many were found as the run created, however many runs failed before.       *)
ReadyMeansMounted ==
  spc = "ready" /\ "mount" \in answers =>
    ips \subseteq mounted /\ num_nodes \subseteq {Cardinality(ips)}

(* The check of the number of nodes fails only when a node of the new cluster *)
(* has died: terminated nodes of an earlier cluster of that name, and nodes   *)
(* of other clusters, do not count.                                           *)
MismatchMeansLostNode == why = "check" => nodeLost

(* With "Test DNS propagation" the script ends ready only when the record in  *)
(* the DNS leads to the present load balancer, not to that of a cluster       *)
(* deleted earlier.                                                           *)
TestedDnsIsLive ==
  spc = "ready" /\ "dns" \in answers => record = hostname /\ balancer = "assigned"

(* The DNS test ends once the operator has set the record, although the old   *)
(* one may be seen for a while.                                               *)
DnsTestEnds == spc = "dig" ~> spc \in {"ready", "exited"}
=============================================================================
