---------------------------- MODULE MCOrphanSweep ----------------------------
(* One object of most kinds, two StatefulSets, and a release of a worker pod, *)
(* the monitor's Deployment and helm's secret.                                *)
EXTENDS OrphanSweep, TLC

CONSTANTS anchor, svc, s1, s2, route, tuneMap, tuneSet, job, worker, monitor, secret

MCKindOf ==
  [r \in {s1, s2} |-> "StatefulSet"] @@ [r \in {anchor, tuneMap} |-> "ConfigMap"] @@
  svc :> "Service" @@ route :> "HTTPRoute" @@ tuneSet :> "DaemonSet" @@ job :> "Job" @@
  worker :> "Pod" @@ monitor :> "Deployment" @@ secret :> "Secret"
=============================================================================
