----------------------------- MODULE OrphanSweep -----------------------------
(***************************************************************************)
(* The sweep that every process runs before its mission, against what the  *)
(* mission of FormationLifecycle left behind and what parallel-catchup     *)
(* missions leaked: an uninstall of the helm release, if a worker pod      *)
(* shows it, and then one kind of resource after the other.  Errors of     *)
(* single calls are logged and passed over.  Only a sweep that comes when  *)
(* everything left is old enough is modelled; earlier ones delete nothing. *)
(***************************************************************************)
EXTENDS FormationLifecycle, Sequences

CONSTANTS
  Release, \* the objects of a parallel-catchup helm release
  KindOf   \* the kind of every object

\* Mutant of SweptKinds: the sweep leaves the ConfigMaps out.
SweptKindsNoConfigMap == <<"Service", "StatefulSet", "Pod", "Deployment", "Ingress",
                           "HTTPRoute", "Job", "DaemonSet">>

\* In the order of sweepWithCutoff.
SweptKinds == <<"Service", "StatefulSet", "Pod", "Deployment", "ConfigMap", "Ingress",
                "HTTPRoute", "Job", "DaemonSet">>

Objects == Workload \cup {Anchor} \cup Release

ASSUME SweepAssumption ==
  /\ Release \cap (Workload \cup {Anchor}) = {}
  /\ DOMAIN KindOf = Objects
  /\ \A r \in Early : KindOf[r] \in {"Service", "ConfigMap"}
  /\ \A r \in Sets : KindOf[r] = "StatefulSet"
  /\ \A r \in Proxy : KindOf[r] \in {"ConfigMap", "Deployment", "Service", "HTTPRoute"}
  /\ \A r \in {Anchor, TuneMap} : KindOf[r] = "ConfigMap"
  /\ KindOf[TuneSet] = "DaemonSet"
  /\ \A r \in Jobs : KindOf[r] = "Job"
  /\ \A r \in Release : KindOf[r] \in {"Service", "Pod", "Deployment", "ConfigMap", "HTTPRoute",
                                       "Job", "Secret", "ServiceAccount"}

\* The worker pods, by which a sweep knows the release.
Workers == {r \in Release : KindOf[r] = "Pod"}

\* What only helm deletes: the release's secret and service account.
HelmOnly == {r \in Release : KindOf[r] \in {"Secret", "ServiceAccount"}}

VARIABLES
  release,  \* what is there of a leaked helm release
  step,     \* where the sweep is
  visiting, \* the number of the kind it is at
  oldSets,  \* stsItems, listed at the start
  oldPods,  \* the worker pods among podItems
  items,    \* what the list of this kind returned, without what has been tried
  failed    \* what is there of the objects a call of this sweep failed on

sweepVars == <<release, step, visiting, oldSets, oldPods, items, failed>>
allVars == <<lifeVars, sweepVars>>

Left == exists \cup release

SweepTypeOK ==
  /\ release \subseteq Release
  /\ step \in {"none", "pods", "helm", "list", "delete", "over"}
  /\ visiting \in 1..Len(SweptKinds)
  /\ oldSets \subseteq Objects /\ oldPods \subseteq Workers
  /\ items \subseteq Objects /\ failed \subseteq Objects

SweepInit ==
  /\ LifeInit
  /\ release = {} /\ step = "none" /\ visiting = 1
  /\ oldSets = {} /\ oldPods = {} /\ items = {} /\ failed = {}

\* A process knows nothing of the one that left the resources.
NewProcess ==
  /\ ended' = "later"
  /\ anchored' = FALSE /\ empty' = FALSE /\ keepData' = FALSE
  /\ keep' = FALSE /\ registered' = FALSE /\ disposed' = FALSE
  /\ pc' = [t \in Threads |-> "off"]
  /\ errors' = 0 /\ todo' = [t \in Threads |-> {}]
  /\ UNCHANGED <<exists, tracked, made>>

\* A release with all its worker pods, or without those that were deleted.
Leaks == {Release \ gone : gone \in SUBSET Workers}

OfKind(k) == {r \in Left : KindOf[r] = k}

(* A later process lists the StatefulSets.  Meanwhile a release may have been *)
(* leaked.                                                                    *)
ListSets ==
  /\ ~Alive /\ step \in {"none", "over"}
  /\ NewProcess
  /\ release' \in {release} \cup Leaks
  /\ oldSets' = OfKind("StatefulSet")
  /\ step' = "pods"
  /\ visiting' = 1 /\ oldPods' = {} /\ items' = {} /\ failed' = {}

ListPods ==
  /\ step = "pods"
  /\ oldPods' = Workers \cap release
  /\ step' = "helm"
  /\ UNCHANGED <<lifeVars, release, visiting, oldSets, items, failed>>

\* Neither of the two lists is guarded: an error ends the sweep.  One of the
\* StatefulSets comes before anything has changed.
ListPodsRaises ==
  /\ step = "pods"
  /\ step' = "none"
  /\ UNCHANGED <<lifeVars, release, visiting, oldSets, oldPods, items, failed>>

(* helm uninstall of the release an old worker pod belongs to.  RunShellCommand *)
(* never raises and its result is ignored.                                    *)
HelmUninstall ==
  /\ step = "helm"
  /\ \/ oldPods = {} /\ UNCHANGED <<release, failed>>
     \/ oldPods # {} /\ release' = {} /\ UNCHANGED failed
     \/ oldPods # {} /\ release' \in SUBSET release /\ failed' = HelmOnly \cap release'
  /\ step' = "list"
  /\ UNCHANGED <<lifeVars, visiting, oldSets, oldPods, items>>

Kind == SweptKinds[visiting]

(* sweepKind lists the kind; the StatefulSets were listed before. *)
ListKind ==
  /\ step = "list"
  /\ items' = IF Kind = "StatefulSet" THEN oldSets ELSE OfKind(Kind)
  /\ step' = "delete"
  /\ UNCHANGED <<lifeVars, release, visiting, oldSets, oldPods, failed>>

(* The list raises: the kind is skipped. *)
ListKindRaises ==
  /\ step = "list" /\ Kind # "StatefulSet"
  /\ items' = {}
  /\ failed' = failed \cup OfKind(Kind)
  /\ step' = "delete"
  /\ UNCHANGED <<lifeVars, release, visiting, oldSets, oldPods>>

\* Only what is there of Left changes.
LeftBecomes(left) ==
  /\ exists' = exists \cap left /\ release' = release \cap left
  /\ UNCHANGED <<tracked, anchored, made, options, formation, pc, todo, ended, errors>>

DeleteItem(r) ==
  /\ step = "delete" /\ r \in items
  /\ items' = items \ {r}
  /\ \/ LeftBecomes(Left \ {r}) /\ UNCHANGED failed
     \/ LeftBecomes(Left) /\ failed' = failed \cup ({r} \cap Left)
  /\ UNCHANGED <<step, visiting, oldSets, oldPods>>

\* On to the next kind.
KindOver ==
  /\ step = "delete" /\ items = {}
  /\ IF visiting < Len(SweptKinds)
     THEN visiting' = visiting + 1 /\ step' = "list"
     ELSE step' = "over" /\ UNCHANGED visiting
  /\ UNCHANGED <<lifeVars, release, oldSets, oldPods, items, failed>>

SweepStep ==
  \/ ListSets \/ ListPods \/ ListPodsRaises \/ HelmUninstall
  \/ ListKind \/ ListKindRaises \/ KindOver
  \/ \E r \in items : DeleteItem(r)

SweepNext == (LifeNext /\ UNCHANGED sweepVars) \/ SweepStep

SweepSpec == SweepInit /\ [][SweepNext]_allVars

-----------------------------------------------------------------------------

(* The types of the formation's state and of the sweep's. *)
TypeOK == LifeTypeOK /\ SweepTypeOK

(* sweepWithCutoff is to be "a best-effort backstop" for whatever "a          *)
(* mission's normal cleanup" did not get to, in whatever state it was left:   *)
(* after a sweep that went through, everything still there is something one   *)
(* of its own calls failed on, for an error of one call or of one kind takes  *)
(* nothing from the others.  What only helm deletes may be left too, but only *)
(* if the sweep found no worker pod of the release.                           *)
SweepLeavesOnlyFailures ==
  step = "over" =>
    /\ exists \cup (release \ HelmOnly) \subseteq failed
    /\ oldPods # {} => release \subseteq failed
=============================================================================
