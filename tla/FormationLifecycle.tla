------------------------- MODULE FormationLifecycle -------------------------
(***************************************************************************)
(* The Kubernetes resources of one mission: StellarSupercluster.fs creates *)
(* them behind an anchor ConfigMap that owns them all, StellarFormation.fs *)
(* deletes them from Dispose or from a signal handler, the cluster's       *)
(* garbage collector takes what the anchor owned.  Two threads run the     *)
(* same Cleanup: "main" and the signal's "handler".  What a later process  *)
(* does about the rest is OrphanSweep's.                                   *)
(***************************************************************************)
EXTENDS Naturals, FiniteSets

CONSTANTS
  Anchor,     \* the anchor ConfigMap
  Early,      \* Service and ConfigMaps
  Sets,       \* StatefulSets
  Proxy,      \* ConfigMap, Deployment, Service and HTTPRoute of the proxy
  TuneMap,    \* the TCP tuning ConfigMap
  TuneSet,    \* the TCP tuning DaemonSet
  Jobs,       \* jobs the mission starts
  MaxErrors,  \* bound: failed API calls
  MayKill,    \* whether the process may be killed
  MaySignal   \* whether it may get a SIGTERM or SIGINT

Workload == Early \cup Sets \cup Proxy \cup {TuneMap, TuneSet} \cup Jobs

ASSUME LifecycleAssumption ==
  /\ Anchor \notin Workload /\ TuneMap # TuneSet
  /\ MaxErrors \in Nat /\ MayKill \in BOOLEAN /\ MaySignal \in BOOLEAN

VARIABLES
  exists,      \* resources in the namespace
  tracked,     \* NamespaceContent
  anchored,    \* networkCfg.anchorOwnerRef is set
  made,        \* resources the main thread has created
  empty,       \* MakeEmptyFormation instead of MakeFormation
  keepData,    \* --keep-data
  keep,        \* the formation's keepData
  registered,  \* its signal handlers are registered
  disposed,    \* its disposed flag
  pc,          \* where each thread is
  todo,        \* what each thread's Cleanup has still to delete
  ended,       \* how the process ended, "no" while it runs, "later" in the next
  errors       \* failed API calls

Threads == {"main", "handler"}

formation == <<keep, registered, disposed>>
options == <<empty, keepData>>
kube == <<exists, tracked, errors>>
lifeVars == <<exists, tracked, anchored, made, options, formation, pc, todo, ended, errors>>

CleanupPoints == {"test", "set", "anchorDel", "clean", "end"}

LifeTypeOK ==
  /\ exists \subseteq Workload \cup {Anchor} /\ tracked \subseteq Workload \cup {Anchor}
  /\ made \subseteq Workload
  /\ \A b \in {anchored, empty, keepData, keep, registered, disposed} : b \in BOOLEAN
  /\ pc \in [Threads -> CleanupPoints \cup
        {"off", "anchor", "build", "tune", "tuneSet", "ready", "run", "dispose", "raise", "crash"}]
  /\ todo \in [Threads -> SUBSET (Workload \cup {Anchor})]
  /\ ended \in {"no", "return", "crash", "handler", "signal", "killed", "later"}
  /\ errors \in 0..MaxErrors
  /\ registered => anchored
  /\ \A t \in Threads : pc[t] = "clean" \/ todo[t] = {}

LifeInit ==
  /\ exists = {} /\ tracked = {} /\ anchored = FALSE /\ made = {}
  /\ empty \in BOOLEAN /\ keepData \in BOOLEAN
  /\ keep = FALSE /\ registered = FALSE /\ disposed = FALSE
  /\ pc = [main |-> "anchor", handler |-> "off"]
  /\ todo = [t \in Threads |-> {}]
  /\ ended = "no" /\ errors = 0

Alive == ended = "no"

At(t, p) == Alive /\ pc[t] = p

Goto(t, p) == pc' = [pc EXCEPT ![t] = p]

Error == errors < MaxErrors /\ errors' = errors + 1

\* A call that creates r raises, whether or not it created it.
CreateRaises(r) == Error /\ exists' \in {exists, exists \cup {r}} /\ UNCHANGED tracked

\* An exception in MakeFormation is caught; one in MakeEmptyFormation is not.
RaisePoint == IF empty THEN "crash" ELSE "raise"

-----------------------------------------------------------------------------
(* The main thread builds the formation. *)

\* Mutant of CreateAnchor: the anchor is not tracked.
CreateAnchorUntracked ==
  /\ At("main", "anchor")
  /\ exists' = exists \cup {Anchor}
  /\ anchored' = TRUE
  /\ Goto("main", "build")
  /\ UNCHANGED <<tracked, made, options, formation, todo, ended, errors>>

CreateAnchor ==
  /\ At("main", "anchor")
  /\ exists' = exists \cup {Anchor}
  /\ tracked' = tracked \cup {Anchor}
  /\ anchored' = TRUE
  /\ Goto("main", "build")
  /\ UNCHANGED <<made, options, formation, todo, ended, errors>>

CreateAnchorRaises ==
  /\ At("main", "anchor")
  /\ CreateRaises(Anchor)
  /\ Goto("main", "crash")
  /\ UNCHANGED <<anchored, made, options, formation, todo, ended>>

\* The resources of the next kind MakeFormation creates.
NextKind ==
  CASE ~(Early \subseteq made) -> Early
    [] ~(Sets \subseteq made)  -> Sets
    [] OTHER                   -> IF Sets = {} THEN {} ELSE Proxy

ToBuild == IF empty THEN {} ELSE NextKind \ made

(* A resource is tracked as soon as it is created, but for the StatefulSets,  *)
(* which are tracked after the last of them is.                               *)
Build(r) ==
  /\ At("main", "build") /\ r \in ToBuild
  /\ exists' = exists \cup {r}
  /\ made' = made \cup {r}
  /\ tracked' = tracked \cup (IF r \notin Sets THEN {r} ELSE IF Sets \subseteq made' THEN Sets ELSE {})
  /\ UNCHANGED <<anchored, options, formation, pc, todo, ended, errors>>

BuildRaises(r) ==
  /\ At("main", "build") /\ r \in ToBuild
  /\ CreateRaises(r)
  /\ Goto("main", RaisePoint)
  /\ UNCHANGED <<anchored, made, options, formation, todo, ended>>

\* The proxy is not ready in time.
ProxyNotReady ==
  /\ At("main", "build") /\ ToBuild = {} /\ ~empty
  /\ Error
  /\ Goto("main", "raise")
  /\ UNCHANGED <<exists, tracked, anchored, made, options, formation, todo, ended>>

\* The formation object registers its handlers.
Construct ==
  /\ At("main", "build") /\ ToBuild = {}
  /\ registered' = TRUE
  /\ Goto("main", "tune")
  /\ UNCHANGED <<kube, anchored, made, options, keep, disposed, todo, ended>>

(* MaybeDeployTcpTuningDaemonSet.  The DaemonSet is tracked only if deleting  *)
(* it at the end fails.                                                       *)
SkipTuning ==
  /\ At("main", "tune")
  /\ Goto("main", "ready")
  /\ UNCHANGED <<kube, anchored, made, options, formation, todo, ended>>

CreateTuneMap ==
  /\ At("main", "tune")
  /\ exists' = exists \cup {TuneMap} /\ tracked' = tracked \cup {TuneMap}
  /\ Goto("main", "tuneSet")
  /\ UNCHANGED <<anchored, made, options, formation, todo, ended, errors>>

CreateTuneSet ==
  /\ At("main", "tuneSet") /\ TuneSet \notin made
  /\ exists' = exists \cup {TuneSet} /\ made' = made \cup {TuneSet}
  /\ UNCHANGED <<tracked, anchored, options, formation, pc, todo, ended, errors>>

DeleteTuneSet ==
  /\ At("main", "tuneSet") /\ TuneSet \in made
  /\ \/ exists' = exists \ {TuneSet} /\ UNCHANGED <<tracked, errors>>
     \/ Error /\ tracked' = tracked \cup {TuneSet} /\ UNCHANGED exists
  /\ Goto("main", "ready")
  /\ UNCHANGED <<anchored, made, options, formation, todo, ended>>

(* A create of the tuning fails, its nodes are not ready in time, or the      *)
(* replicas of the core sets are not.                                         *)
DeployRaises ==
  /\ \/ At("main", "tune") /\ CreateRaises(TuneMap)
     \/ At("main", "tuneSet") /\ TuneSet \notin made /\ CreateRaises(TuneSet)
     \/ At("main", "tuneSet") /\ TuneSet \in made /\ Error /\ UNCHANGED <<exists, tracked>>
     \/ At("main", "ready") /\ ~empty /\ Error /\ UNCHANGED <<exists, tracked>>
  /\ Goto("main", RaisePoint)
  /\ UNCHANGED <<anchored, made, options, formation, todo, ended>>

Ready ==
  /\ At("main", "ready")
  /\ Goto("main", "run")
  /\ UNCHANGED <<kube, anchored, made, options, formation, todo, ended>>

(* MakeFormation's exception handler: NamespaceContent.Cleanup, or nothing    *)
(* with --keep-data.                                                          *)
HandleRaise ==
  /\ At("main", "raise")
  /\ IF keepData
     THEN Goto("main", "crash") /\ UNCHANGED todo
     ELSE Goto("main", "clean") /\ todo' = [todo EXCEPT !["main"] = tracked]
  /\ UNCHANGED <<kube, anchored, made, options, formation, ended>>

-----------------------------------------------------------------------------
(* The mission. *)

StartJob(r) ==
  /\ At("main", "run") /\ ~empty /\ r \in Jobs \ made
  /\ exists' = exists \cup {r} /\ tracked' = tracked \cup {r} /\ made' = made \cup {r}
  /\ UNCHANGED <<anchored, options, formation, pc, todo, ended, errors>>

\* NamespaceContent.Del forgets the job before it deletes it.
FinishJob(r) ==
  /\ At("main", "run") /\ r \in Jobs \cap made \cap tracked
  /\ tracked' = tracked \ {r}
  /\ \/ exists' = exists \ {r} /\ UNCHANGED errors
     \/ Error /\ UNCHANGED exists
  /\ UNCHANGED <<anchored, made, options, formation, pc, todo, ended>>

\* Raised out of the mission, or swallowed by RunParallelJobs.
StartJobRaises(r) ==
  /\ At("main", "run") /\ ~empty /\ r \in Jobs \ made
  /\ CreateRaises(r)
  /\ made' = made \cup {r}
  /\ \/ keep' = keepData /\ Goto("main", "dispose")
     \/ UNCHANGED <<keep, pc>>
  /\ UNCHANGED <<anchored, options, registered, disposed, todo, ended>>

(* The mission ends.  If it raised and --keep-data is set, KeepData is        *)
(* called; the benchmark on an empty formation never calls it.                *)
MissionOver ==
  /\ At("main", "run")
  /\ keep' \in {keep, keepData /\ ~empty}
  /\ Goto("main", "dispose")
  /\ UNCHANGED <<kube, anchored, made, options, registered, disposed, todo, ended>>

-----------------------------------------------------------------------------
(* Cleanup, by either thread. *)

\* Dispose drops the handlers first.
Dispose ==
  /\ At("main", "dispose")
  /\ registered' = FALSE
  /\ Goto("main", "test")
  /\ UNCHANGED <<kube, anchored, made, options, keep, disposed, todo, ended>>

TestDisposed(t) ==
  /\ At(t, "test")
  /\ Goto(t, IF disposed THEN "end" ELSE "set")
  /\ UNCHANGED <<kube, anchored, made, options, formation, todo, ended>>

SetDisposed(t) ==
  /\ At(t, "set")
  /\ disposed' = TRUE
  /\ Goto(t, IF keep THEN "end" ELSE "anchorDel")
  /\ UNCHANGED <<kube, anchored, made, options, keep, registered, todo, ended>>

(* ForceCleanup deletes the anchor, whose error is ignored, and then what is  *)
(* tracked, which includes the anchor.                                        *)
DeleteAnchor(t) ==
  /\ At(t, "anchorDel")
  /\ \/ exists' = exists \ {Anchor} /\ UNCHANGED errors
     \/ Error /\ UNCHANGED exists
  /\ todo' = [todo EXCEPT ![t] = tracked]
  /\ Goto(t, "clean")
  /\ UNCHANGED <<tracked, anchored, made, options, formation, ended>>

\* The order in which NamespaceContent.Cleanup takes the kinds.
Rank(r) ==
  CASE r \in Early             -> 1
    [] r \in Sets              -> 2
    [] r \in {Anchor, TuneMap} -> 3
    [] r \in Proxy             -> 4
    [] r \in Jobs              -> 5
    [] OTHER                   -> 6

DeleteTracked(t, r) ==
  /\ At(t, "clean") /\ r \in todo[t]
  /\ \A q \in todo[t] : Rank(r) <= Rank(q)
  /\ todo' = [todo EXCEPT ![t] = @ \ {r}]
  /\ \/ exists' = exists \ {r} /\ UNCHANGED errors
     \/ Error /\ UNCHANGED exists
  /\ UNCHANGED <<tracked, anchored, made, options, formation, pc, ended>>

\* Mutant of Cleaned: does not wait until everything is deleted.
CleanedEarly(t) ==
  /\ At(t, "clean")
  /\ tracked' = {}
  /\ Goto(t, "end")
  /\ UNCHANGED <<exists, anchored, made, options, formation, todo, ended, errors>>

\* The sets are emptied: what was added to them meanwhile is forgotten.
Cleaned(t) ==
  /\ At(t, "clean") /\ todo[t] = {}
  /\ tracked' = {}
  /\ Goto(t, "end")
  /\ UNCHANGED <<exists, anchored, made, options, formation, todo, ended, errors>>

-----------------------------------------------------------------------------
(* The end of the process. *)

\* What the process kept in memory is gone.
End(how) ==
  /\ ended' = how
  /\ todo' = [t \in Threads |-> {}] /\ tracked' = {} /\ made' = {}
  /\ UNCHANGED <<exists, errors, anchored, options, formation, pc>>

\* main returns or raises; a handler still at work is cut off.
Return == At("main", "end") /\ End("return")

(* An exception leaves main.  Whether the handlers of ProcessExit run is up   *)
(* to the runtime.                                                            *)
Crash ==
  /\ At("main", "crash")
  /\ \/ End("crash")
     \/ /\ registered /\ pc["handler"] = "off"
        /\ Goto("handler", "test")
        /\ UNCHANGED <<kube, anchored, made, options, formation, todo, ended>>

\* ProcessExit or CancelKeyPress; without a handler the process is gone.
Signal ==
  /\ MaySignal /\ Alive /\ pc["handler"] = "off"
  /\ IF registered
     THEN /\ Goto("handler", "test")
          /\ UNCHANGED <<kube, anchored, made, options, formation, todo, ended>>
     ELSE End("signal")

HandlerExit == At("handler", "end") /\ End("handler")

Kill == MayKill /\ Alive /\ End("killed")

-----------------------------------------------------------------------------
(* The cluster. *)

\* The garbage collector deletes what has no owner left.
Collect(r) ==
  /\ r \in exists \cap Workload /\ Anchor \notin exists
  /\ exists' = exists \ {r}
  /\ UNCHANGED <<tracked, anchored, made, options, formation, pc, todo, ended, errors>>

Gone == ~Alive /\ UNCHANGED lifeVars

Cleaning(t) ==
  \/ TestDisposed(t) \/ SetDisposed(t) \/ DeleteAnchor(t) \/ Cleaned(t)
  \/ \E r \in todo[t] : DeleteTracked(t, r)

MainStep ==
  \/ CreateAnchor \/ CreateAnchorRaises \/ ProxyNotReady \/ Construct
  \/ SkipTuning \/ CreateTuneMap \/ CreateTuneSet \/ DeleteTuneSet \/ DeployRaises
  \/ Ready \/ HandleRaise \/ MissionOver \/ Dispose \/ Return \/ Crash
  \/ \E r \in Workload :
       Build(r) \/ BuildRaises(r) \/ StartJob(r) \/ FinishJob(r) \/ StartJobRaises(r)
  \/ Cleaning("main")

HandlerStep == Cleaning("handler") \/ HandlerExit

LifeNext ==
  \/ MainStep \/ HandlerStep \/ Signal \/ Kill \/ Gone
  \/ \E r \in exists : Collect(r)

LifeSpec == LifeInit /\ [][LifeNext]_lifeVars

-----------------------------------------------------------------------------

\* The thread has claimed the cleanup and not finished it.
Holds(t) == disposed /\ pc[t] \in {"anchorDel", "clean"}

(* The ways in which this code lets a workload outlive its process for longer *)
(* than the garbage collector takes.                                          *)
Excused ==
  \/ ended = "killed"
  \/ ended = "signal"                         \* no handler was registered
  \/ keep \/ (keepData /\ ended = "crash")     \* asked for
  \/ errors > 1
  \/ errors > 0 /\ empty                      \* MakeEmptyFormation has no handler
  \/ ended = "return" /\ Holds("handler")     \* main does not wait for the handler
  \/ ended = "handler" /\ Holds("main")       \* nor the handler for main

(* "Deleting this single anchor at cleanup time lets k8s' built-in GC reap    *)
(* the rest" (StellarSupercluster.fs:239): once the process has ended, a      *)
(* workload left in the namespace has lost its anchor, whichever API call     *)
(* failed and whichever thread cleaned up, except in the cases listed.        *)
LeftoversLoseAnchor ==
  ended \notin {"no", "later"} /\ exists \cap Workload # {} => Anchor \notin exists \/ Excused
=============================================================================
