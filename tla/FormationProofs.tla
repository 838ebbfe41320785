-------------------------- MODULE FormationProofs --------------------------
(***************************************************************************)
(* Proofs about FormationLifecycle and OrphanSweep, for any resources,     *)
(* jobs, releases and number of failed calls: what a mission leaves behind *)
(* has lost its anchor, for the two threads that may clean up are never    *)
(* both content to let the other do it; and a sweep leaves nothing that it *)
(* has not tried to delete.                                                *)
(***************************************************************************)
EXTENDS OrphanSweep, TLAPS

-----------------------------------------------------------------------------
(* The inductive invariant. *)

\* The anchor comes first: without it there is no workload, no handler and no
\* cleanup.
AnchorFirst ==
  /\ pc["main"] = "anchor" => ~anchored
  /\ pc["main"] \notin {"anchor", "crash"} => anchored
  /\ pc["handler"] # "off" \/ disposed => anchored
  /\ ~anchored => exists \subseteq {Anchor}

\* Only an error takes main out of its way, and past the cleanup only where the
\* code has none.
ErrorsNoted ==
  /\ pc["main"] \in {"raise", "crash"} => errors > 0
  /\ pc["main"] = "crash" => ~anchored \/ empty \/ keepData

\* KeepData is called when the mission is over, and never taken back.
KeepLate == keep => pc["main"] \in CleanupPoints \cup {"dispose"}

\* The anchor stays tracked while it exists.
AnchorTracked == anchored /\ Anchor \in exists /\ errors < 2 => Anchor \in tracked

\* A thread in NamespaceContent.Cleanup that has not deleted the anchor yet, and
\* could not at first, has it on its list.
AnchorListed ==
  \A t \in Threads :
    pc[t] = "clean" /\ Anchor \in exists =>
      errors > 0 /\ (errors < 2 => Anchor \in todo[t])

\* Once the cleanup is claimed somebody is at it, until the anchor is gone.
SomebodyCleans ==
  disposed /\ Anchor \in exists /\ ~keep /\ errors < 2 => \E t \in Threads : Holds(t)

Other(t) == IF t = "main" THEN "handler" ELSE "main"

\* A thread that is through leaves an anchor only to the other one.
EndsWell ==
  \A t \in Threads :
    pc[t] = "end" /\ Anchor \in exists => keep \/ errors > 1 \/ Holds(Other(t))

Course == AnchorFirst /\ ErrorsNoted /\ KeepLate

Watched == AnchorTracked /\ AnchorListed /\ SomebodyCleans /\ EndsWell

LifeInv ==
  /\ LifeTypeOK
  /\ Course
  /\ Alive => Watched
  /\ LeftoversLoseAnchor

-----------------------------------------------------------------------------
(* Initial states. *)

LEMMA InitHolds == LifeInit => LifeInv
  <1> SUFFICES ASSUME LifeInit PROVE LifeInv
    OBVIOUS
  <1> DEFINE pcs == CleanupPoints \cup
        {"off", "anchor", "build", "tune", "tuneSet", "ready", "run", "dispose", "raise", "crash"}
  <1>1. pc \in [Threads -> pcs]
    <2>1. pc = [t \in Threads |-> IF t = "main" THEN "anchor" ELSE "off"]
      BY DEF LifeInit, Threads
    <2>2. [t \in Threads |-> IF t = "main" THEN "anchor" ELSE "off"] \in [Threads -> pcs]
      OBVIOUS
    <2> QED BY <2>1, <2>2
  <1>2. LifeTypeOK
    <2>1. \A b \in {anchored, empty, keepData, keep, registered, disposed} : b \in BOOLEAN
      BY DEF LifeInit
    <2>2. todo \in [Threads -> SUBSET (Workload \cup {Anchor})] /\ \A t \in Threads : todo[t] = {}
      BY DEF LifeInit
    <2>3. errors \in 0..MaxErrors /\ ~registered
      BY LifecycleAssumption DEF LifeInit
    <2> QED BY <1>1, <2>1, <2>2, <2>3 DEF LifeInit, LifeTypeOK
  <1>3. Course
    BY DEF LifeInit, Course, AnchorFirst, ErrorsNoted, KeepLate
  <1>4. Watched
    BY DEF LifeInit, Watched, AnchorTracked, AnchorListed, SomebodyCleans, EndsWell, Threads
  <1>5. LeftoversLoseAnchor
    BY DEF LifeInit, LeftoversLoseAnchor, Alive
  <1> QED BY <1>2, <1>3, <1>4, <1>5 DEF LifeInv

-----------------------------------------------------------------------------
(* The steps, sorted by what they do to the formation. *)

\* Main builds the formation, runs the mission and comes to Dispose.
Working ==
  \/ CreateAnchor \/ CreateAnchorRaises \/ ProxyNotReady \/ Construct
  \/ SkipTuning \/ CreateTuneMap \/ CreateTuneSet \/ DeleteTuneSet \/ DeployRaises
  \/ Ready \/ HandleRaise \/ MissionOver \/ Dispose
  \/ \E r \in Workload :
       Build(r) \/ BuildRaises(r) \/ StartJob(r) \/ FinishJob(r) \/ StartJobRaises(r)

\* A signal, or the end of main, starts the handler.
HandlerStarts ==
  /\ Alive /\ registered /\ pc["handler"] = "off"
  /\ Goto("handler", "test")
  /\ UNCHANGED <<kube, anchored, made, options, formation, todo, ended>>

\* Where the process stands when it ends in this way.
EndsAt(how) ==
  \/ how = "return" /\ pc["main"] = "end"
  \/ how = "crash" /\ pc["main"] = "crash"
  \/ how = "handler" /\ pc["handler"] = "end"
  \/ how \in {"signal", "killed"}

ProcessEnds ==
  /\ Alive
  /\ \E how \in {"return", "crash", "handler", "signal", "killed"} : EndsAt(how) /\ End(how)

\* Something is deleted from outside; while the process lives, only without anchor.
Shrinks ==
  /\ \E r \in exists : exists' = exists \ {r}
  /\ Alive => Anchor \notin exists
  /\ UNCHANGED <<tracked, anchored, made, options, formation, pc, todo, ended, errors>>

LEMMA StepKinds ==
  ASSUME [LifeNext]_lifeVars
  PROVE  \/ Working \/ HandlerStarts \/ ProcessEnds \/ Shrinks
         \/ \E t \in Threads : Cleaning(t)
         \/ UNCHANGED lifeVars
  <1>1. CASE MainStep
    <2>1. CASE Return
      BY <2>1 DEF Return, At, ProcessEnds, EndsAt
    <2>2. CASE Crash
      BY <2>2 DEF Crash, At, ProcessEnds, EndsAt, HandlerStarts
    <2> QED BY <1>1, <2>1, <2>2 DEF MainStep, Working, Threads
  <1>2. CASE HandlerStep
    <2>1. CASE HandlerExit
      BY <2>1 DEF HandlerExit, At, ProcessEnds, EndsAt
    <2> QED BY <1>2, <2>1 DEF HandlerStep, Threads
  <1>3. CASE Signal
    BY <1>3 DEF Signal, ProcessEnds, EndsAt, HandlerStarts
  <1>4. CASE Kill
    BY <1>4 DEF Kill, ProcessEnds, EndsAt
  <1>5. CASE Gone
    BY <1>5 DEF Gone
  <1>6. ASSUME NEW r \in exists, Collect(r) PROVE Shrinks
    BY <1>6 DEF Collect, Shrinks
  <1> QED BY <1>1, <1>2, <1>3, <1>4, <1>5, <1>6 DEF LifeNext

-----------------------------------------------------------------------------
(* Typing, and what is true of the course of the program. *)

LEMMA CleaningTypes ==
  ASSUME LifeTypeOK, NEW t \in Threads, Cleaning(t)
  PROVE  LifeTypeOK'
  <1> USE DEF LifeTypeOK, options, formation, kube, At, Goto, CleanupPoints
  <1>1. CASE TestDisposed(t)
    BY <1>1 DEF TestDisposed
  <1>2. CASE SetDisposed(t)
    BY <1>2 DEF SetDisposed
  <1>3. CASE DeleteAnchor(t)
    BY <1>3, LifecycleAssumption DEF DeleteAnchor, Error
  <1>4. CASE Cleaned(t)
    BY <1>4 DEF Cleaned
  <1>5. ASSUME NEW r \in todo[t], DeleteTracked(t, r) PROVE LifeTypeOK'
    BY <1>5, LifecycleAssumption DEF DeleteTracked, Error
  <1> QED BY <1>1, <1>2, <1>3, <1>4, <1>5 DEF Cleaning

LEMMA WorkingTypes ==
  ASSUME LifeTypeOK, Course, Working
  PROVE  LifeTypeOK' /\ Course'
  <1> USE LifecycleAssumption DEF LifeTypeOK, Course, AnchorFirst, ErrorsNoted, KeepLate, Workload,
          options, formation, kube, At, Goto, Threads, CleanupPoints, RaisePoint, Error, CreateRaises
  <1>1. CASE CreateAnchor
    BY <1>1 DEF CreateAnchor
  <1>2. CASE CreateAnchorRaises
    BY <1>2 DEF CreateAnchorRaises
  <1>3. CASE ProxyNotReady
    BY <1>3 DEF ProxyNotReady
  <1>4. CASE Construct
    BY <1>4 DEF Construct
  <1>5. CASE SkipTuning
    BY <1>5 DEF SkipTuning
  <1>6. CASE CreateTuneMap
    BY <1>6 DEF CreateTuneMap
  <1>7. CASE CreateTuneSet
    BY <1>7 DEF CreateTuneSet
  <1>8. CASE DeleteTuneSet
    BY <1>8 DEF DeleteTuneSet
  <1>9. CASE DeployRaises
    BY <1>9 DEF DeployRaises
  <1>10. CASE Ready
    BY <1>10 DEF Ready
  <1>11. CASE HandleRaise
    BY <1>11 DEF HandleRaise
  <1>12. CASE MissionOver
    BY <1>12 DEF MissionOver
  <1>13. CASE Dispose
    BY <1>13 DEF Dispose
  <1>14. ASSUME NEW r \in Workload, Build(r) PROVE LifeTypeOK' /\ Course'
    BY <1>14 DEF Build
  <1>15. ASSUME NEW r \in Workload, BuildRaises(r) PROVE LifeTypeOK' /\ Course'
    BY <1>15 DEF BuildRaises
  <1>16. ASSUME NEW r \in Workload, StartJob(r) PROVE LifeTypeOK' /\ Course'
    BY <1>16 DEF StartJob
  <1>17. ASSUME NEW r \in Workload, FinishJob(r) PROVE LifeTypeOK' /\ Course'
    BY <1>17 DEF FinishJob
  <1>18. ASSUME NEW r \in Workload, StartJobRaises(r) PROVE LifeTypeOK' /\ Course'
    BY <1>18 DEF StartJobRaises
  <1> QED BY <1>1, <1>2, <1>3, <1>4, <1>5, <1>6, <1>7, <1>8, <1>9, <1>10, <1>11, <1>12, <1>13,
             <1>14, <1>15, <1>16, <1>17, <1>18 DEF Working

LEMMA StepTypes ==
  ASSUME LifeTypeOK, Course, [LifeNext]_lifeVars
  PROVE  LifeTypeOK' /\ Course'
  <1> USE DEF LifeTypeOK, Course, AnchorFirst, ErrorsNoted, KeepLate, options, formation, kube
  <1>1. CASE Working
    BY <1>1, WorkingTypes
  <1>2. CASE HandlerStarts
    BY <1>2 DEF HandlerStarts, Goto, CleanupPoints, Threads
  <1>3. CASE ProcessEnds
    BY <1>3 DEF ProcessEnds, EndsAt, End
  <1>4. CASE Shrinks
    BY <1>4 DEF Shrinks
  <1>5. ASSUME NEW t \in Threads, Cleaning(t) PROVE LifeTypeOK' /\ Course'
    <2>1. LifeTypeOK'
      BY <1>5, CleaningTypes
    <2>2. Course'
      BY <1>5, LifecycleAssumption DEF Cleaning, TestDisposed, SetDisposed, DeleteAnchor, Cleaned, DeleteTracked, Error,
           At, Goto, Threads, CleanupPoints
    <2> QED BY <2>1, <2>2
  <1>6. CASE UNCHANGED lifeVars
    BY <1>6 DEF lifeVars
  <1> QED BY <1>1, <1>2, <1>3, <1>4, <1>5, <1>6, StepKinds

-----------------------------------------------------------------------------
(* The anchor while the process lives. *)

LEMMA WorkingWatched ==
  ASSUME LifeTypeOK, Course, Watched, Working
  PROVE  Watched'
  <1> USE LifecycleAssumption DEF LifeTypeOK, Course, AnchorFirst, ErrorsNoted, KeepLate, Watched,
          AnchorTracked, AnchorListed, SomebodyCleans, EndsWell, Holds, Other, Workload, options, formation, kube, At,
          Goto, Threads, CleanupPoints, RaisePoint, Error, CreateRaises
  <1>1. CASE CreateAnchor
    BY <1>1 DEF CreateAnchor
  <1>2. CASE CreateAnchorRaises
    BY <1>2 DEF CreateAnchorRaises
  <1>3. CASE ProxyNotReady
    BY <1>3 DEF ProxyNotReady
  <1>4. CASE Construct
    BY <1>4 DEF Construct
  <1>5. CASE SkipTuning
    BY <1>5 DEF SkipTuning
  <1>6. CASE CreateTuneMap
    BY <1>6 DEF CreateTuneMap
  <1>7. CASE CreateTuneSet
    BY <1>7 DEF CreateTuneSet
  <1>8. CASE DeleteTuneSet
    BY <1>8 DEF DeleteTuneSet
  <1>9. CASE DeployRaises
    BY <1>9 DEF DeployRaises
  <1>10. CASE Ready
    BY <1>10 DEF Ready
  <1>11. CASE HandleRaise
    BY <1>11 DEF HandleRaise
  <1>12. CASE MissionOver
    BY <1>12 DEF MissionOver
  <1>13. CASE Dispose
    BY <1>13 DEF Dispose
  <1>14. ASSUME NEW r \in Workload, Build(r) PROVE Watched'
    BY <1>14 DEF Build
  <1>15. ASSUME NEW r \in Workload, BuildRaises(r) PROVE Watched'
    BY <1>15 DEF BuildRaises
  <1>16. ASSUME NEW r \in Workload, StartJob(r) PROVE Watched'
    BY <1>16 DEF StartJob
  <1>17. ASSUME NEW r \in Workload, FinishJob(r) PROVE Watched'
    BY <1>17 DEF FinishJob
  <1>18. ASSUME NEW r \in Workload, StartJobRaises(r) PROVE Watched'
    BY <1>18 DEF StartJobRaises
  <1> QED BY <1>1, <1>2, <1>3, <1>4, <1>5, <1>6, <1>7, <1>8, <1>9, <1>10, <1>11, <1>12, <1>13,
             <1>14, <1>15, <1>16, <1>17, <1>18 DEF Working

LEMMA CleaningWatched ==
  ASSUME LifeTypeOK, Course, Watched, NEW t \in Threads, Cleaning(t)
  PROVE  Watched'
  <1> USE LifecycleAssumption DEF LifeTypeOK, Course, AnchorFirst, ErrorsNoted, KeepLate, Watched,
          AnchorTracked, AnchorListed, SomebodyCleans, EndsWell, Holds, Other, options, formation, kube, At,
          Goto, Threads, CleanupPoints
  <1>1. CASE TestDisposed(t)
    BY <1>1 DEF TestDisposed
  <1>2. CASE SetDisposed(t)
    BY <1>2 DEF SetDisposed
  <1>3. CASE DeleteAnchor(t)
    BY <1>3 DEF DeleteAnchor, Error
  <1>4. CASE Cleaned(t)
    BY <1>4 DEF Cleaned
  <1>5. ASSUME NEW r \in todo[t], DeleteTracked(t, r) PROVE Watched'
    BY <1>5 DEF DeleteTracked, Error
  <1> QED BY <1>1, <1>2, <1>3, <1>4, <1>5 DEF Cleaning

LEMMA AliveWatched ==
  ASSUME LifeTypeOK, Course, Alive => Watched, [LifeNext]_lifeVars, Alive'
  PROVE  Watched'
  <1> USE DEF options, formation, kube
  <1>1. CASE Working
    <2>1. Alive
      BY <1>1 DEF Working, CreateAnchor, CreateAnchorRaises, ProxyNotReady, Construct, SkipTuning,
           CreateTuneMap, CreateTuneSet, DeleteTuneSet, DeployRaises, Ready, HandleRaise, MissionOver,
           Dispose, Build, BuildRaises, StartJob, FinishJob, StartJobRaises, At
    <2> QED BY <1>1, <2>1, WorkingWatched
  <1>2. CASE HandlerStarts
    BY <1>2 DEF HandlerStarts, Goto, Watched, AnchorTracked, AnchorListed, SomebodyCleans, EndsWell,
         Holds, Other, Threads, LifeTypeOK
  <1>3. CASE ProcessEnds
    BY <1>3 DEF ProcessEnds, End, Alive
  <1>4. CASE Shrinks
    BY <1>4 DEF Shrinks, Alive, Watched, AnchorTracked, AnchorListed, SomebodyCleans, EndsWell, Holds
  <1>5. ASSUME NEW t \in Threads, Cleaning(t) PROVE Watched'
    <2>1. Alive
      BY <1>5 DEF Cleaning, TestDisposed, SetDisposed, DeleteAnchor, Cleaned, DeleteTracked, At
    <2> QED BY <1>5, <2>1, CleaningWatched
  <1>6. CASE UNCHANGED lifeVars
    BY <1>6 DEF lifeVars, Alive, Watched, AnchorTracked, AnchorListed, SomebodyCleans, EndsWell, Holds
  <1> QED BY <1>1, <1>2, <1>3, <1>4, <1>5, <1>6, StepKinds

-----------------------------------------------------------------------------
(* The end of the process. *)

LEMMA EndLeaves ==
  ASSUME LifeTypeOK, Course, Watched, ProcessEnds
  PROVE  LeftoversLoseAnchor'
  <1> USE DEF LeftoversLoseAnchor, Excused, Holds, options, formation
  <1> PICK how \in {"return", "crash", "handler", "signal", "killed"} : EndsAt(how) /\ End(how)
    BY DEF ProcessEnds
  <1>1. /\ ended' = how /\ exists' = exists /\ errors' = errors /\ keep' = keep /\ empty' = empty
        /\ keepData' = keepData /\ disposed' = disposed /\ pc' = pc
    BY DEF End
  <1>2. CASE how = "return"
    BY <1>1, <1>2 DEF EndsAt, Watched, EndsWell, Threads, Other
  <1>3. CASE how = "handler"
    BY <1>1, <1>3 DEF EndsAt, Watched, EndsWell, Threads, Other
  <1>4. CASE how = "crash"
    BY <1>1, <1>4, LifecycleAssumption DEF EndsAt, Course, ErrorsNoted, AnchorFirst
  <1>5. CASE how \in {"signal", "killed"}
    BY <1>1, <1>5
  <1> QED BY <1>2, <1>3, <1>4, <1>5

LEMMA StepLeaves ==
  ASSUME LifeInv, [LifeNext]_lifeVars
  PROVE  LeftoversLoseAnchor'
  <1>1. CASE Alive'
    BY <1>1 DEF LeftoversLoseAnchor, Alive
  <1>2. CASE ProcessEnds
    BY <1>2, EndLeaves DEF LifeInv, ProcessEnds
  <1>3. CASE Shrinks
    BY <1>3 DEF Shrinks, LifeInv, LeftoversLoseAnchor, Excused, Holds, Alive, options, formation
  <1>4. CASE Working \/ HandlerStarts \/ \E t \in Threads : Cleaning(t)
    <2>1. Alive'
      BY <1>4 DEF Working, CreateAnchor, CreateAnchorRaises, ProxyNotReady, Construct, SkipTuning,
           CreateTuneMap, CreateTuneSet, DeleteTuneSet, DeployRaises, Ready, HandleRaise, MissionOver,
           Dispose, Build, BuildRaises, StartJob, FinishJob, StartJobRaises, HandlerStarts,
           Cleaning, TestDisposed, SetDisposed, DeleteAnchor, Cleaned, DeleteTracked, At, Alive
    <2> QED BY <1>1, <2>1
  <1>5. CASE UNCHANGED lifeVars
    BY <1>5 DEF lifeVars, LifeInv, LeftoversLoseAnchor, Excused, Holds, Alive, options, formation
  <1> QED BY <1>1, <1>2, <1>3, <1>4, <1>5, StepKinds

LEMMA LifeStep ==
  ASSUME LifeInv, [LifeNext]_lifeVars
  PROVE  LifeInv'
  BY StepTypes, AliveWatched, StepLeaves DEF LifeInv

-----------------------------------------------------------------------------
(* The sweep. *)

Listing == step \in {"list", "delete", "over"}

\* The kinds the sweep has been through.
KindsPassed == {SweptKinds[i] : i \in {j \in 1..9 : j < visiting \/ step = "over"}}

\* What is left of a kind the sweep has been through is what it failed on.
PassedTried == Listing => \A r \in Left : KindOf[r] \in KindsPassed => r \in failed

\* What is left of the kind it is at is that, or on its list.
KindTried == step = "delete" => \A r \in Left : KindOf[r] = Kind => r \in failed \cup items

\* No StatefulSet comes after the list of them, and nothing else does.
SetsListed ==
  step \notin {"none", "over"} => \A r \in Left : KindOf[r] = "StatefulSet" => r \in oldSets

\* helm has gone wrong where it left its own objects.
HelmTried == Listing /\ oldPods # {} => HelmOnly \cap release \subseteq failed

\* A sweep begins with the first kind.
FromFirst == step \in {"pods", "helm"} => visiting = 1

Tried == PassedTried /\ KindTried /\ SetsListed /\ HelmTried /\ FromFirst

SweepInv ==
  /\ TypeOK
  /\ step = "none" \/ ended = "later"
  /\ ended # "later" => LifeInv
  /\ Tried

LEMMA NineKinds == Len(SweptKinds) = 9
  BY DEF SweptKinds

\* Every kind but helm's own has its place in the sweep.
LEMMA KindPlaced ==
  ASSUME NEW r \in Objects, r \notin HelmOnly
  PROVE  \E i \in 1..9 : SweptKinds[i] = KindOf[r]
  <1> DEFINE kinds == {"Service", "StatefulSet", "Pod", "Deployment", "ConfigMap", "HTTPRoute",
                       "Job", "DaemonSet"}
  <1>1. KindOf[r] \in kinds
    BY SweepAssumption DEF Objects, Workload, HelmOnly
  <1>2. /\ SweptKinds[1] = "Service" /\ SweptKinds[2] = "StatefulSet" /\ SweptKinds[3] = "Pod"
        /\ SweptKinds[4] = "Deployment" /\ SweptKinds[5] = "ConfigMap" /\ SweptKinds[7] = "HTTPRoute"
        /\ SweptKinds[8] = "Job" /\ SweptKinds[9] = "DaemonSet"
    BY DEF SweptKinds
  <1>3. \A i \in {1, 2, 3, 4, 5, 7, 8, 9} : i \in 1..9
    OBVIOUS
  <1> HIDE DEF kinds
  <1> QED BY <1>1, <1>2, <1>3 DEF kinds

LEMMA SweepInitHolds == SweepInit => SweepInv
  <1> SUFFICES ASSUME SweepInit PROVE SweepInv
    OBVIOUS
  <1>1. LifeInv
    BY InitHolds DEF SweepInit
  <1>2. SweepTypeOK
    BY NineKinds DEF SweepInit, SweepTypeOK
  <1>3. Tried
    BY DEF SweepInit, Tried, PassedTried, KindTried, SetsListed, HelmTried, FromFirst, Listing
  <1> QED BY <1>1, <1>2, <1>3 DEF SweepInv, TypeOK, LifeInv, SweepInit

\* Whatever takes resources away, the sweep has tried what is left.
LEMMA TriedStays ==
  ASSUME Tried, exists' \subseteq exists, UNCHANGED sweepVars
  PROVE  Tried'
  BY DEF Tried, PassedTried, KindTried, SetsListed, HelmTried, FromFirst, Listing, KindsPassed, Left, Kind,
     sweepVars

\* In a later process only the garbage collector touches the formation.
LEMMA LaterShrinks ==
  ASSUME [LifeNext]_lifeVars, ended = "later", LifeTypeOK
  PROVE  LifeTypeOK' /\ exists' \subseteq exists /\ ended' = "later"
  <1>1. ~Alive
    BY DEF Alive
  <1>2. CASE Working
    BY <1>1, <1>2 DEF Working, CreateAnchor, CreateAnchorRaises, ProxyNotReady, Construct, SkipTuning,
       CreateTuneMap, CreateTuneSet, DeleteTuneSet, DeployRaises, Ready, HandleRaise, MissionOver,
       Dispose, Build, BuildRaises, StartJob, FinishJob, StartJobRaises, At
  <1>3. CASE HandlerStarts \/ ProcessEnds
    BY <1>1, <1>3 DEF HandlerStarts, ProcessEnds
  <1>4. CASE \E t \in Threads : Cleaning(t)
    BY <1>1, <1>4 DEF Cleaning, TestDisposed, SetDisposed, DeleteAnchor, Cleaned, DeleteTracked, At
  <1>5. CASE Shrinks
    BY <1>5 DEF Shrinks, LifeTypeOK, options, formation
  <1>6. CASE UNCHANGED lifeVars
    BY <1>6 DEF lifeVars, LifeTypeOK, options, formation
  <1> QED BY <1>2, <1>3, <1>4, <1>5, <1>6, StepKinds

LEMMA LifeUnderSweep ==
  ASSUME SweepInv, [LifeNext]_lifeVars, UNCHANGED sweepVars
  PROVE  SweepInv'
  <1>1. SweepTypeOK'
    BY DEF SweepInv, TypeOK, SweepTypeOK, sweepVars
  <1>2. CASE ended = "later"
    <2>1. LifeTypeOK' /\ exists' \subseteq exists /\ ended' = "later"
      BY <1>2, LaterShrinks DEF SweepInv, TypeOK
    <2>2. Tried'
      BY <2>1, TriedStays DEF SweepInv
    <2> QED BY <1>1, <2>1, <2>2 DEF SweepInv, TypeOK
  <1>3. CASE ended # "later"
    <2>1. LifeInv'
      BY <1>3, LifeStep DEF SweepInv
    <2>2. step' = "none"
      BY <1>3 DEF SweepInv, sweepVars
    <2>3. Tried'
      BY <2>2 DEF Tried, PassedTried, KindTried, SetsListed, HelmTried, FromFirst, Listing
    <2> QED BY <1>1, <2>1, <2>2, <2>3 DEF SweepInv, TypeOK, LifeInv
  <1> QED BY <1>2, <1>3

LEMMA ListSetsHolds ==
  ASSUME SweepInv, ListSets
  PROVE  SweepInv'
  <1>1. LifeTypeOK'
    <2>1. pc' \in [Threads -> {"off"}]
      BY DEF ListSets, NewProcess
    <2>2. errors' \in 0..MaxErrors
      BY LifecycleAssumption DEF ListSets, NewProcess
    <2>3. todo' \in [Threads -> SUBSET (Workload \cup {Anchor})] /\ \A t \in Threads : todo'[t] = {}
      BY DEF ListSets, NewProcess
    <2> QED BY <2>1, <2>2, <2>3 DEF ListSets, NewProcess, SweepInv, TypeOK, LifeTypeOK, CleanupPoints
  <1>2. SweepTypeOK'
    BY NineKinds DEF ListSets, NewProcess, SweepInv, TypeOK, SweepTypeOK, LifeTypeOK, Leaks, OfKind, Left, Objects
  <1>3. Tried'
    BY SweepAssumption DEF ListSets, Tried, PassedTried, KindTried, SetsListed, HelmTried, FromFirst, Listing, OfKind, Left, Leaks, NewProcess
  <1> QED BY <1>1, <1>2, <1>3 DEF SweepInv, TypeOK, ListSets, NewProcess

\* A step of a sweep under way is not a step of the mission.
LEMMA UnderWay ==
  ASSUME SweepInv, step # "none", UNCHANGED lifeVars
  PROVE  LifeTypeOK' /\ ended = "later" /\ ended' = "later" /\ Left \subseteq Objects
  BY DEF SweepInv, TypeOK, LifeTypeOK, SweepTypeOK, lifeVars, options, formation, Left, Objects

LEMMA BeforeKindsHolds ==
  ASSUME SweepInv, ListPods \/ ListPodsRaises \/ HelmUninstall
  PROVE  SweepInv'
  <1>1. step # "none" /\ UNCHANGED lifeVars
    BY DEF ListPods, ListPodsRaises, HelmUninstall
  <1>2. LifeTypeOK' /\ ended' = "later" /\ exists' = exists
    BY <1>1, UnderWay DEF lifeVars
  <1> USE DEF SweepInv, TypeOK, SweepTypeOK, Tried, PassedTried, KindTried, SetsListed, HelmTried, FromFirst, Listing
  <1>3. CASE ListPods
    BY <1>2, <1>3 DEF ListPods, Left
  <1>4. CASE ListPodsRaises
    BY <1>2, <1>4 DEF ListPodsRaises
  <1>5. CASE HelmUninstall
    <2>1. release' \subseteq release /\ visiting' = visiting
      BY <1>5 DEF HelmUninstall
    <2>2. SweepTypeOK'
      BY <1>5, <2>1 DEF HelmUninstall, HelmOnly, Objects
    <2>3. PassedTried'
      <3>1. KindsPassed' = {}
        BY <1>5, <2>1 DEF HelmUninstall, KindsPassed
      <3> QED BY <3>1
    <2>4. KindTried' /\ SetsListed' /\ HelmTried' /\ FromFirst'
      BY <1>2, <1>5, <2>1 DEF HelmUninstall, Left
    <2> QED BY <1>2, <2>2, <2>3, <2>4
  <1> QED BY <1>3, <1>4, <1>5

LEMMA ListKindHolds ==
  ASSUME SweepInv, ListKind \/ ListKindRaises
  PROVE  SweepInv'
  <1>1. step = "list" /\ UNCHANGED lifeVars /\ UNCHANGED <<release, visiting, oldSets, oldPods>>
    BY DEF ListKind, ListKindRaises
  <1>2. /\ LifeTypeOK' /\ ended' = "later" /\ Left \subseteq Objects
        /\ Left' = Left /\ Kind' = Kind /\ failed \subseteq failed' /\ step' = "delete"
    BY <1>1, UnderWay DEF lifeVars, Left, Kind, ListKind, ListKindRaises
  <1>3. SweepTypeOK'
    BY <1>1, <1>2 DEF ListKind, ListKindRaises, OfKind, SweepInv, TypeOK, SweepTypeOK
  <1>4. KindTried'
    BY <1>1, <1>2 DEF ListKind, ListKindRaises, KindTried, OfKind, SweepInv, Tried, SetsListed
  <1>5. PassedTried'
    <2>1. KindsPassed' = KindsPassed
      BY <1>1, <1>2 DEF KindsPassed
    <2> QED BY <1>1, <1>2, <2>1 DEF SweepInv, Tried, PassedTried, Listing
  <1>6. SetsListed' /\ HelmTried' /\ FromFirst'
    BY <1>1, <1>2 DEF SweepInv, Tried, SetsListed, HelmTried, FromFirst, Listing
  <1> QED BY <1>2, <1>3, <1>4, <1>5, <1>6 DEF SweepInv, TypeOK, Tried

LEMMA DeleteItemHolds ==
  ASSUME SweepInv, NEW r \in items, DeleteItem(r)
  PROVE  SweepInv'
  <1>1. /\ step = "delete" /\ step' = "delete" /\ items' = items \ {r}
        /\ UNCHANGED <<visiting, oldSets, oldPods, ended>>
    BY DEF DeleteItem, LeftBecomes
  <1>2. /\ exists' \subseteq exists /\ release' \subseteq release /\ failed \subseteq failed'
        /\ r \in Left' => r \in failed'
    BY DEF DeleteItem, LeftBecomes, Left
  <1>3. LifeTypeOK' /\ ended' = "later" /\ Left' \subseteq Left
    <2>1. LifeTypeOK'
      BY DEF DeleteItem, LeftBecomes, SweepInv, TypeOK, LifeTypeOK, options, formation
    <2> QED BY <1>1, <1>2, <2>1 DEF SweepInv, Left
  <1>4. SweepTypeOK'
    BY <1>1, <1>2 DEF DeleteItem, SweepInv, TypeOK, SweepTypeOK
  <1>5. KindsPassed' = KindsPassed /\ Kind' = Kind
    BY <1>1 DEF KindsPassed, Kind
  <1>6. Tried'
    BY <1>1, <1>2, <1>3, <1>5 DEF SweepInv, Tried, PassedTried, KindTried, SetsListed, HelmTried, FromFirst, Listing
  <1> QED BY <1>3, <1>4, <1>6 DEF SweepInv, TypeOK

LEMMA KindOverHolds ==
  ASSUME SweepInv, KindOver
  PROVE  SweepInv'
  <1>1. /\ step = "delete" /\ items = {} /\ step' \in {"list", "over"} /\ UNCHANGED lifeVars
        /\ UNCHANGED <<release, oldSets, oldPods, items, failed>>
    BY DEF KindOver
  <1>2. LifeTypeOK' /\ ended' = "later" /\ Left' = Left
    BY <1>1, UnderWay DEF lifeVars, Left
  <1>3. visiting \in 1..9
    BY NineKinds DEF SweepInv, TypeOK, SweepTypeOK
  <1>4. SweepTypeOK'
    BY <1>1, <1>3, NineKinds DEF KindOver, SweepInv, TypeOK, SweepTypeOK
  <1>5. KindsPassed' \subseteq KindsPassed \cup {Kind}
    <2>1. CASE visiting < 9
      BY <1>1, <1>3, <2>1, NineKinds DEF KindOver, KindsPassed, Kind
    <2>2. CASE visiting = 9
      BY <1>1, <1>3, <2>2, NineKinds DEF KindOver, KindsPassed, Kind
    <2> QED BY <1>3, <2>1, <2>2
  <1>6. Tried'
    BY <1>1, <1>2, <1>5 DEF SweepInv, Tried, PassedTried, KindTried, SetsListed, HelmTried, FromFirst, Listing
  <1> QED BY <1>2, <1>4, <1>6 DEF SweepInv, TypeOK

LEMMA SweepInvHolds == SweepSpec => []SweepInv
  <1>1. SweepInv /\ [SweepNext]_allVars => SweepInv'
    <2> SUFFICES ASSUME SweepInv, [SweepNext]_allVars PROVE SweepInv'
      OBVIOUS
    <2>1. CASE UNCHANGED allVars
      <3>1. UNCHANGED lifeVars /\ UNCHANGED sweepVars
        BY <2>1 DEF allVars
      <3> QED BY <3>1, LifeUnderSweep
    <2>2. CASE LifeNext /\ UNCHANGED sweepVars
      BY <2>2, LifeUnderSweep
    <2>3. CASE SweepStep
      BY <2>3, ListSetsHolds, BeforeKindsHolds, ListKindHolds, DeleteItemHolds, KindOverHolds DEF SweepStep
    <2> QED BY <2>1, <2>2, <2>3 DEF SweepNext
  <1> QED BY <1>1, SweepInitHolds, PTL DEF SweepSpec

-----------------------------------------------------------------------------

(* The types, and with them: the handlers are registered only behind an       *)
(* anchor, and a thread has a list of resources to delete only while it is in *)
(* NamespaceContent.Cleanup.                                                  *)
THEOREM TypesHold == SweepSpec => []TypeOK
  <1>1. SweepInv => TypeOK
    BY DEF SweepInv
  <1> QED BY <1>1, SweepInvHolds, PTL

(* Once the process has ended, a workload it leaves has lost its anchor, so   *)
(* that the garbage collector takes it, except in the ways Excused lists:     *)
(* whichever call fails, wherever a signal finds main, and in whichever order *)
(* Dispose and the handler test, set and clean up.                            *)
THEOREM LeftoversAreAnchorless == SweepSpec => []LeftoversLoseAnchor
  <1>1. SweepInv => LeftoversLoseAnchor
    BY DEF SweepInv, LifeInv, LeftoversLoseAnchor
  <1> QED BY <1>1, SweepInvHolds, PTL

(* After a sweep that went through, what is still there is what one of its    *)
(* calls failed on, or what only helm deletes of a release that no worker pod *)
(* showed: whatever the mission left, and wherever the garbage collector is.  *)
THEOREM SweepTriesEverything == SweepSpec => []SweepLeavesOnlyFailures
  <1>1. SweepInv => SweepLeavesOnlyFailures
    <2> SUFFICES ASSUME SweepInv, step = "over"
                 PROVE  /\ exists \cup (release \ HelmOnly) \subseteq failed
                        /\ oldPods # {} => release \subseteq failed
      BY DEF SweepLeavesOnlyFailures
    <2>1. Left \subseteq Objects /\ exists \cap HelmOnly = {}
      BY SweepAssumption DEF SweepInv, TypeOK, LifeTypeOK, SweepTypeOK, Left, Objects, HelmOnly
    <2>2. \A r \in Left : r \notin HelmOnly => r \in failed
      <3> SUFFICES ASSUME NEW r \in Left, r \notin HelmOnly PROVE r \in failed
        OBVIOUS
      <3>1. KindOf[r] \in KindsPassed
        BY <2>1, KindPlaced DEF KindsPassed
      <3> QED BY <3>1 DEF SweepInv, Tried, PassedTried, Listing
    <2>3. oldPods # {} => HelmOnly \cap release \subseteq failed
      BY DEF SweepInv, Tried, HelmTried, Listing
    <2> QED BY <2>1, <2>2, <2>3 DEF Left
  <1> QED BY <1>1, SweepInvHolds, PTL
=============================================================================
