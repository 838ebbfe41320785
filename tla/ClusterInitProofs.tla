-------------------------- MODULE ClusterInitProofs --------------------------
(***************************************************************************)
(* Proofs about ClusterInit, for any instances, answers, runs and faults:  *)
(* what the script says at its end is true of the cluster, although nodes  *)
(* die, clusters are deleted and load balancers change between its steps   *)
(* and its runs.                                                           *)
(***************************************************************************)
EXTENDS ClusterInit, FiniteSetTheorems, TLAPS

-----------------------------------------------------------------------------
(* The inductive invariant. *)

Running == {i \in Instances : state[i] = "running"}

\* Only a cluster has nodes, and only its dead nodes are replaced.
NodesOfCluster ==
  /\ ~exists => Running = {}
  /\ lost <= faults
  /\ lost > 0 => nodeLost /\ exists

AfterCheck == Steps \ {"start", "create", "list", "check", "exited"}

\* A run that created the cluster knows how many nodes there are until one dies.
Counted ==
  /\ spc = "start" => num_nodes = {}
  /\ spc = "list" /\ ~nodeLost => num_nodes \subseteq {Cardinality(Running)}
  /\ spc = "check" /\ ~nodeLost => num_nodes \subseteq {Cardinality(ips)}
  /\ spc \in AfterCheck => num_nodes \subseteq {Cardinality(ips)}
  /\ why = "check" => spc = "exited" /\ nodeLost

\* Those that are off the list are mounted, and the list is empty in the end.
Mounts ==
  /\ spc \in {"start", "create", "list", "check", "askMount"} => answers = {} /\ toMount = {}
  /\ spc = "mount" => ips \ toMount \subseteq mounted
  /\ spc \in AfterCheck \ {"askMount", "mount"} /\ "mount" \in answers => ips \subseteq mounted

\* The DNS lags behind the record, and the record behind the load balancers; the
\* one the script tests for is the latest.
Names ==
  /\ visible <= record
  /\ spc \in {"askDns", "dig", "sleep", "ready"} => target = hostname /\ balancer = "assigned"
  /\ spc \notin {"dig", "sleep", "ready", "exited"} => "dns" \notin answers
  /\ spc = "ready" /\ "dns" \in answers => record = hostname

InitInv == InitTypeOK /\ NodesOfCluster /\ Counted /\ Mounts /\ Names

-----------------------------------------------------------------------------
(* Steps.  runVars is what only the script and a new run change, cloudVars     *)
(* what only the cluster does.                                                 *)

LEMMA InitStart == Init => InitInv
  <1> SUFFICES ASSUME Init PROVE InitInv
    OBVIOUS
  <1>1. exists \in BOOLEAN /\ nodeLost \in BOOLEAN /\ ~exists /\ ~nodeLost
    BY DEF Init
  <1>2. Cardinality(num_nodes) <= 1
    BY FS_EmptySet DEF Init, RunInit
  <1>3. state \in [Instances -> {"none", "running", "terminated"}] /\ Running = {}
    BY DEF Init, Running
  <1>4. InitTypeOK
    BY <1>1, <1>2, <1>3, InitAssumption DEF Init, RunInit, InitTypeOK, Steps
  <1>5. NodesOfCluster
    BY <1>1, <1>3 DEF Init, NodesOfCluster
  <1>6. Counted
    BY DEF Init, RunInit, Counted, AfterCheck
  <1>7. Mounts /\ Names
    BY DEF Init, RunInit, Mounts, Names, AfterCheck
  <1> QED BY <1>4, <1>5, <1>6, <1>7 DEF InitInv

LEMMA ScriptTypes ==
  ASSUME InitTypeOK, Mounts, ScriptStep
  PROVE  InitTypeOK'
  <1> USE InitAssumption DEF InitTypeOK, Steps, runVars, cloudVars, dnsVars, GoTo, Exit, prompt_yes_no
  <1>1. CASE Ask
    <2>1. num_nodes' = num_nodes \/ \E n \in NodeCounts : num_nodes' = {n}
      BY <1>1 DEF Ask
    <2>2. ASSUME NEW n \in NodeCounts, num_nodes' = {n} PROVE Cardinality(num_nodes') <= 1
      <3>1. Cardinality(num_nodes') = 1
        BY <2>2, FS_Singleton, Zenon
      <3> QED BY <3>1
    <2> QED BY <1>1, <2>1, <2>2 DEF Ask
  <1>2. CASE create_cluster
    BY <1>2 DEF create_cluster
  <1>3. CASE create_cluster_fails
    <2>1. exists' \in BOOLEAN
      BY <1>3 DEF create_cluster_fails
    <2>2. faults' \in 0..MaxFaults
      BY <1>3 DEF create_cluster_fails, Fault
    <2> QED BY <1>3, <2>1, <2>2 DEF create_cluster_fails
  <1>4. CASE get_node_ips
    <2>1. ips' \subseteq Instances /\ toMount = {}
      BY <1>4 DEF get_node_ips, node_is_in_cluster, Mounts
    <2> QED BY <1>4, <2>1 DEF get_node_ips
  <1>5. CASE CheckNumber
    BY <1>5 DEF CheckNumber
  <1>6. CASE AskMount
    BY <1>6 DEF AskMount
  <1>7. CASE mount_nvme
    BY <1>7 DEF mount_nvme
  <1>8. CASE AskIngress
    BY <1>8 DEF AskIngress
  <1>9. CASE HelmRepoAdd
    BY <1>9 DEF HelmRepoAdd
  <1>10. CASE HelmUpgrade
    BY <1>10 DEF HelmUpgrade
  <1>11. CASE emit_dns_instructions
    BY <1>11 DEF emit_dns_instructions
  <1>12. CASE AskDns
    BY <1>12 DEF AskDns
  <1>13. CASE test_dns_propagation
    BY <1>13 DEF test_dns_propagation
  <1>14. CASE DnsRetry
    BY <1>14 DEF DnsRetry
  <1> QED BY <1>1, <1>2, <1>3, <1>4, <1>5, <1>6, <1>7, <1>8, <1>9, <1>10, <1>11, <1>12, <1>13, <1>14 DEF ScriptStep

LEMMA OutsideTypes ==
  ASSUME InitTypeOK, lost <= faults,
         \/ CommandFails \/ Rerun \/ DeleteCluster \/ NodeReplaced \/ AssignHostname \/ SetRecord
         \/ Propagate \/ \E i \in Instances : NodeDies(i)
  PROVE  InitTypeOK'
  <1> USE InitAssumption DEF InitTypeOK, Steps, runVars, cloudVars, dnsVars
  <1>1. CASE CommandFails
    BY <1>1 DEF CommandFails, Fault
  <1>2. CASE Rerun
    <2>1. Cardinality(num_nodes') <= 1
      BY <1>2, FS_EmptySet DEF Rerun
    <2> QED BY <1>2, <2>1 DEF Rerun
  <1>3. CASE DeleteCluster
    <2>1. state' \in [Instances -> {"none", "running", "terminated"}]
      BY <1>3 DEF DeleteCluster
    <2>2. exists' \in BOOLEAN /\ nodeLost' \in BOOLEAN
      BY <1>3 DEF DeleteCluster
    <2>3. lost' \in 0..MaxFaults
      BY <1>3 DEF DeleteCluster
    <2> QED BY <1>3, <2>1, <2>2, <2>3 DEF DeleteCluster
  <1>4. CASE NodeReplaced
    <2>1. PICK i \in Fresh : state' = [state EXCEPT ![i] = "running"]
      BY <1>4 DEF NodeReplaced
    <2>2. state' \in [Instances -> {"none", "running", "terminated"}]
      BY <2>1 DEF Fresh
    <2> QED BY <1>4, <2>2 DEF NodeReplaced
  <1>5. CASE AssignHostname
    BY <1>5 DEF AssignHostname
  <1>6. CASE SetRecord
    BY <1>6 DEF SetRecord
  <1>7. CASE Propagate
    BY <1>7 DEF Propagate
  <1>8. ASSUME NEW i \in Instances, NodeDies(i) PROVE InitTypeOK'
    BY <1>8 DEF NodeDies, Fault
  <1> QED BY <1>1, <1>2, <1>3, <1>4, <1>5, <1>6, <1>7, <1>8

\* What the script tests for is the present name, and what it sees no newer.
LEMMA StepNames ==
  ASSUME InitTypeOK, Names, [Next]_initVars
  PROVE  Names'
  <1> USE DEF InitTypeOK, Names, Steps, runVars, cloudVars, dnsVars, GoTo, Exit, prompt_yes_no
  <1>1. CASE Ask \/ create_cluster \/ create_cluster_fails \/ get_node_ips \/ CheckNumber
    BY <1>1 DEF Ask, create_cluster, create_cluster_fails, get_node_ips, CheckNumber
  <1>2. CASE AskMount \/ mount_nvme \/ AskIngress \/ HelmRepoAdd \/ HelmUpgrade
    BY <1>2 DEF AskMount, mount_nvme, AskIngress, HelmRepoAdd, HelmUpgrade
  <1>3. CASE emit_dns_instructions \/ AskDns \/ test_dns_propagation \/ DnsRetry
    BY <1>3 DEF emit_dns_instructions, AskDns, test_dns_propagation, DnsRetry
  <1>4. CASE CommandFails \/ Rerun \/ DeleteCluster \/ NodeReplaced
    BY <1>4 DEF CommandFails, Rerun, DeleteCluster, NodeReplaced
  <1>5. CASE AssignHostname \/ SetRecord \/ Propagate
    BY <1>5 DEF AssignHostname, SetRecord, Propagate
  <1>6. ASSUME NEW i \in Instances, NodeDies(i) PROVE Names'
    BY <1>6 DEF NodeDies, Fault
  <1>7. CASE UNCHANGED initVars
    BY <1>7 DEF initVars
  <1> QED BY <1>1, <1>2, <1>3, <1>4, <1>5, <1>6, <1>7 DEF Next, ScriptStep

LEMMA StepMounts ==
  ASSUME InitTypeOK, Mounts, [Next]_initVars
  PROVE  Mounts'
  <1> USE DEF InitTypeOK, Mounts, AfterCheck, Steps, runVars, cloudVars, dnsVars, GoTo, Exit,
          prompt_yes_no
  <1>1. CASE Ask \/ create_cluster \/ create_cluster_fails \/ get_node_ips \/ CheckNumber
    BY <1>1 DEF Ask, create_cluster, create_cluster_fails, get_node_ips, CheckNumber
  <1>2. CASE AskMount \/ mount_nvme \/ AskIngress \/ HelmRepoAdd \/ HelmUpgrade
    BY <1>2 DEF AskMount, mount_nvme, AskIngress, HelmRepoAdd, HelmUpgrade
  <1>3. CASE emit_dns_instructions \/ AskDns \/ test_dns_propagation \/ DnsRetry
    BY <1>3 DEF emit_dns_instructions, AskDns, test_dns_propagation, DnsRetry
  <1>4. CASE CommandFails \/ Rerun \/ DeleteCluster \/ NodeReplaced
    BY <1>4 DEF CommandFails, Rerun, DeleteCluster, NodeReplaced
  <1>5. CASE AssignHostname \/ SetRecord \/ Propagate
    BY <1>5 DEF AssignHostname, SetRecord, Propagate
  <1>6. ASSUME NEW i \in Instances, NodeDies(i) PROVE Mounts'
    BY <1>6 DEF NodeDies, Fault
  <1>7. CASE UNCHANGED initVars
    BY <1>7 DEF initVars
  <1> QED BY <1>1, <1>2, <1>3, <1>4, <1>5, <1>6, <1>7 DEF Next, ScriptStep

LEMMA StepNodes ==
  ASSUME InitTypeOK, NodesOfCluster, [Next]_initVars
  PROVE  NodesOfCluster'
  <1> USE DEF InitTypeOK, NodesOfCluster, Running, runVars, cloudVars, dnsVars, GoTo, Exit,
          prompt_yes_no
  <1>1. CASE Ask \/ get_node_ips \/ CheckNumber
    BY <1>1 DEF Ask, get_node_ips, CheckNumber
  <1>2. CASE create_cluster \/ create_cluster_fails
    BY <1>2 DEF create_cluster, create_cluster_fails, Fault
  <1>3. CASE AskMount \/ mount_nvme \/ AskIngress \/ HelmRepoAdd \/ HelmUpgrade
    BY <1>3 DEF AskMount, mount_nvme, AskIngress, HelmRepoAdd, HelmUpgrade
  <1>4. CASE emit_dns_instructions \/ AskDns \/ test_dns_propagation \/ DnsRetry
    BY <1>4 DEF emit_dns_instructions, AskDns, test_dns_propagation, DnsRetry
  <1>5. CASE CommandFails \/ Rerun \/ DeleteCluster \/ NodeReplaced
    BY <1>5 DEF CommandFails, Rerun, DeleteCluster, NodeReplaced, Fault
  <1>6. CASE AssignHostname \/ SetRecord \/ Propagate
    BY <1>6 DEF AssignHostname, SetRecord, Propagate
  <1>7. ASSUME NEW i \in Instances, NodeDies(i) PROVE NodesOfCluster'
    BY <1>7 DEF NodeDies, Fault
  <1>8. CASE UNCHANGED initVars
    BY <1>8 DEF initVars
  <1> QED BY <1>1, <1>2, <1>3, <1>4, <1>5, <1>6, <1>7, <1>8 DEF Next, ScriptStep

LEMMA StepCounted ==
  ASSUME InitTypeOK, NodesOfCluster, Counted, [Next]_initVars
  PROVE  Counted'
  <1> USE DEF InitTypeOK, NodesOfCluster, Counted, AfterCheck, Steps, Running, runVars, cloudVars,
          dnsVars, GoTo, Exit, prompt_yes_no
  <1>1. CASE Ask \/ create_cluster_fails \/ CheckNumber
    BY <1>1 DEF Ask, create_cluster_fails, CheckNumber
  <1>2. CASE create_cluster
    <2> DEFINE fits == {S \in SUBSET Fresh : {Cardinality(S)} = num_nodes}
    <2>1. PICK S \in fits : state' = [i \in Instances |-> IF i \in S THEN "running" ELSE state[i]]
      BY <1>2 DEF create_cluster
    <2>2. Running = {}
      BY <1>2 DEF create_cluster
    <2>3. Running' = S
      BY <2>1, <2>2 DEF Fresh
    <2>4. Cardinality(Running') = Cardinality(S)
      BY <2>3, Zenon
    <2> QED BY <1>2, <2>1, <2>4 DEF create_cluster
  <1>3. CASE get_node_ips
    <2>1. ips' = Running
      BY <1>3 DEF get_node_ips, node_is_in_cluster
    <2>2. Cardinality(ips') = Cardinality(Running)
      BY <2>1, Zenon
    <2> QED BY <1>3, <2>2 DEF get_node_ips
  <1>4. CASE AskMount \/ mount_nvme \/ AskIngress \/ HelmRepoAdd \/ HelmUpgrade
    BY <1>4 DEF AskMount, mount_nvme, AskIngress, HelmRepoAdd, HelmUpgrade
  <1>5. CASE emit_dns_instructions \/ AskDns \/ test_dns_propagation \/ DnsRetry
    BY <1>5 DEF emit_dns_instructions, AskDns, test_dns_propagation, DnsRetry
  <1>6. CASE CommandFails \/ Rerun \/ DeleteCluster \/ NodeReplaced
    BY <1>6 DEF CommandFails, Rerun, DeleteCluster, NodeReplaced
  <1>7. CASE AssignHostname \/ SetRecord \/ Propagate
    BY <1>7 DEF AssignHostname, SetRecord, Propagate
  <1>8. ASSUME NEW i \in Instances, NodeDies(i) PROVE Counted'
    BY <1>8 DEF NodeDies, Fault
  <1>9. CASE UNCHANGED initVars
    BY <1>9 DEF initVars
  <1> QED BY <1>1, <1>2, <1>3, <1>4, <1>5, <1>6, <1>7, <1>8, <1>9 DEF Next, ScriptStep

LEMMA InitInvHolds == Spec => []InitInv
  <1>1. InitInv /\ [Next]_initVars => InitInv'
    <2> SUFFICES ASSUME InitInv, [Next]_initVars PROVE InitInv'
      OBVIOUS
    <2>1. InitTypeOK'
      <3>1. CASE UNCHANGED initVars
        BY <3>1 DEF initVars, runVars, cloudVars, dnsVars, InitInv, InitTypeOK
      <3> QED BY <3>1, ScriptTypes, OutsideTypes DEF InitInv, NodesOfCluster, Next
    <2> QED BY <2>1, StepNames, StepMounts, StepNodes, StepCounted DEF InitInv
  <1> QED BY <1>1, InitStart, PTL DEF Spec

-----------------------------------------------------------------------------

(* The types of the script's state and of the cluster's. *)
THEOREM InitTypesHold == Spec => []InitTypeOK
  <1>1. InitInv => InitTypeOK
    BY DEF InitInv
  <1> QED BY <1>1, InitInvHolds, PTL

(* The script says that the cluster is ready, after the operator had the      *)
(* drives mounted, only when every node it found is mounted and their number  *)
(* is the one asked for: for any number of nodes, runs and faults.            *)
THEOREM ReadyIsMounted == Spec => []ReadyMeansMounted
  <1>1. InitInv => ReadyMeansMounted
    BY DEF InitInv, Mounts, Counted, AfterCheck, Steps, ReadyMeansMounted
  <1> QED BY <1>1, InitInvHolds, PTL

(* get_node_ips counts the nodes of the new cluster and no others, so that    *)
(* the check fails only after a node has died.                                *)
THEOREM MismatchIsLostNode == Spec => []MismatchMeansLostNode
  <1>1. InitInv => MismatchMeansLostNode
    BY DEF InitInv, Counted, MismatchMeansLostNode
  <1> QED BY <1>1, InitInvHolds, PTL

(* The DNS test ends well only when the record leads to the present load      *)
(* balancer, although the DNS may still show the record of a deleted one.     *)
THEOREM DnsTestIsSound == Spec => []TestedDnsIsLive
  <1>1. InitInv => TestedDnsIsLive
    BY DEF InitInv, Names, TestedDnsIsLive
  <1> QED BY <1>1, InitInvHolds, PTL
=============================================================================
