--------------------------- MODULE MissionCleanup ---------------------------
(***************************************************************************)
(* The life of the helm release of a parallel-catchup mission in the       *)
(* driver's process: the main thread installs it, runs the poll loop and   *)
(* cleans up, once for every mission of the command line; a signal handler *)
(* of the same process may clean up at any moment.  helmReleaseName and    *)
(* toPerformCleanup are module-level and shared by the two threads.        *)
(***************************************************************************)
EXTENDS Integers, FiniteSets

CONSTANTS
  NumMissions,  \* parallel-catchup missions named on the command line
  SignalAllowed \* whether a SIGINT or SIGTERM may arrive

ASSUME CleanupAssumption ==
  NumMissions \in Nat \ {0} /\ SignalAllowed \in BOOLEAN

VARIABLES
  mission,          \* the mission the main thread is running
  mainpc,           \* the main thread
  handlerpc,        \* the signal handler
  helmReleaseName,  \* the release the next helm command is about; 0 before any
  toPerformCleanup,
  releases,         \* the releases that exist in the cluster
  uninstalls        \* how the helm uninstalls run so far went: "ok", "failed"

cleanupVars == <<mission, mainpc, handlerpc, helmReleaseName, toPerformCleanup,
                 releases, uninstalls>>

MainPCs == {"start", "install", "loop", "test", "flag", "collect", "uninstall",
            "next", "exit"}

CleanupTypeOK ==
  /\ mission \in 1..NumMissions
  /\ mainpc \in MainPCs
  /\ handlerpc \in {"none", "test", "flag", "uninstall", "leave", "exit"}
  /\ helmReleaseName \in 0..NumMissions
  /\ toPerformCleanup \in BOOLEAN
  /\ releases \subseteq 1..NumMissions
  /\ uninstalls \subseteq {"ok", "failed"}

CleanupInit ==
  /\ mission = 1
  /\ mainpc = "start"
  /\ handlerpc = "none"
  /\ helmReleaseName = 0
  /\ toPerformCleanup = TRUE
  /\ releases = {}
  /\ uninstalls = {}

(* helm uninstall of the named release.  RunShellCommand only logs a command  *)
(* that fails and both callers ignore its result; a failing helm may have     *)
(* removed the release or not, and fails when there is none.                  *)
Uninstall ==
  \/ /\ helmReleaseName \in releases
     /\ releases' = releases \ {helmReleaseName}
     /\ uninstalls' = uninstalls \cup {"ok"}
  \/ /\ releases' \in {releases, releases \ {helmReleaseName}}
     /\ uninstalls' = uninstalls \cup {"failed"}

\* The process is gone once either thread has left it.
Exited == mainpc = "exit" \/ handlerpc = "exit"

(* Name the release and publish the context to the handlers. *)
StartMission ==
  /\ mainpc = "start"
  /\ helmReleaseName' = mission
  /\ mainpc' = "install"
  /\ UNCHANGED <<mission, handlerpc, toPerformCleanup, releases, uninstalls>>

(* installProject: helm install, whose failure is only logged. *)
Install ==
  /\ mainpc = "install"
  /\ releases' \in {releases, releases \cup {helmReleaseName}}
  /\ mainpc' = "loop"
  /\ UNCHANGED <<mission, handlerpc, helmReleaseName, toPerformCleanup, uninstalls>>

(* GetLatestPubnetLedgerNumber raises: nothing was installed, and the         *)
(* exception ends the process.                                                *)
InstallRaises ==
  /\ mainpc = "install"
  /\ mainpc' = "exit"
  /\ UNCHANGED <<mission, handlerpc, helmReleaseName, toPerformCleanup, releases, uninstalls>>

\* Mutant of EndLoop: the flag is cleared where the loop ends.
EndLoopClearsFlag ==
  /\ mainpc = "loop"
  /\ mainpc' = "flag"
  /\ toPerformCleanup' = FALSE
  /\ UNCHANGED <<mission, handlerpc, helmReleaseName, releases, uninstalls>>

(* The loop ends, with success or through its exception handler. *)
EndLoop ==
  /\ mainpc = "loop"
  /\ mainpc' = "test"
  /\ UNCHANGED <<mission, handlerpc, helmReleaseName, toPerformCleanup, releases, uninstalls>>

(* cleanup false: test the flag, clear it, collect logs, uninstall. *)
MainTest ==
  /\ mainpc = "test"
  /\ mainpc' = IF toPerformCleanup THEN "flag" ELSE "next"
  /\ UNCHANGED <<mission, handlerpc, helmReleaseName, toPerformCleanup, releases, uninstalls>>

MainFlag ==
  /\ mainpc = "flag"
  /\ toPerformCleanup' = FALSE
  /\ mainpc' = "collect"
  /\ UNCHANGED <<mission, handlerpc, helmReleaseName, releases, uninstalls>>

\* Collecting the logs takes long and may fail; the uninstall follows either way.
MainCollect ==
  /\ mainpc = "collect"
  /\ mainpc' = "uninstall"
  /\ UNCHANGED <<mission, handlerpc, helmReleaseName, toPerformCleanup, releases, uninstalls>>

MainUninstall ==
  /\ mainpc = "uninstall"
  /\ Uninstall
  /\ mainpc' = "next"
  /\ UNCHANGED <<mission, handlerpc, helmReleaseName, toPerformCleanup>>

\* Mutant of NextMission: one mission too many.
NextMissionPastEnd ==
  /\ mainpc = "next"
  /\ \/ mission' = mission + 1 /\ mainpc' = "start"
     \/ mainpc' = "exit" /\ UNCHANGED mission
  /\ UNCHANGED <<handlerpc, helmReleaseName, toPerformCleanup, releases, uninstalls>>

(* The exception of a failed mission is raised again and ends the process;    *)
(* after a successful one the next mission starts.  The ProcessExit handler   *)
(* that runs at the end finds toPerformCleanup cleared.                       *)
NextMission ==
  /\ mainpc = "next"
  /\ \/ mission < NumMissions /\ mission' = mission + 1 /\ mainpc' = "start"
     \/ mainpc' = "exit" /\ UNCHANGED mission
  /\ UNCHANGED <<handlerpc, helmReleaseName, toPerformCleanup, releases, uninstalls>>

(* SIGINT or SIGTERM: the handler runs on a thread of its own, next to the    *)
(* main thread.  Before the first mission has published its context there is  *)
(* nothing to clean up.                                                       *)
SignalArrives ==
  /\ SignalAllowed
  /\ handlerpc = "none"
  /\ handlerpc' = IF helmReleaseName = 0 THEN "exit" ELSE "test"
  /\ UNCHANGED <<mission, mainpc, helmReleaseName, toPerformCleanup, releases, uninstalls>>

(* cleanup true: test the flag, clear it, uninstall; then the process exits. *)
HandlerTest ==
  /\ handlerpc = "test"
  /\ handlerpc' = IF toPerformCleanup THEN "flag" ELSE "exit"
  /\ UNCHANGED <<mission, mainpc, helmReleaseName, toPerformCleanup, releases, uninstalls>>

HandlerFlag ==
  /\ handlerpc = "flag"
  /\ toPerformCleanup' = FALSE
  /\ handlerpc' = "uninstall"
  /\ UNCHANGED <<mission, mainpc, helmReleaseName, releases, uninstalls>>

HandlerUninstall ==
  /\ handlerpc = "uninstall"
  /\ Uninstall
  /\ handlerpc' = "leave"
  /\ UNCHANGED <<mission, mainpc, helmReleaseName, toPerformCleanup>>

HandlerExit ==
  /\ handlerpc = "leave"
  /\ handlerpc' = "exit"
  /\ UNCHANGED <<mission, mainpc, helmReleaseName, toPerformCleanup, releases, uninstalls>>

MainStep ==
  \/ StartMission \/ Install \/ InstallRaises \/ EndLoop \/ MainTest \/ MainFlag
  \/ MainCollect \/ MainUninstall \/ NextMission

HandlerStep ==
  \/ SignalArrives \/ HandlerTest \/ HandlerFlag \/ HandlerUninstall \/ HandlerExit

ProcessGone == Exited /\ UNCHANGED cleanupVars

CleanupNext == (~Exited /\ (MainStep \/ HandlerStep)) \/ ProcessGone

CleanupSpec == CleanupInit /\ [][CleanupNext]_cleanupVars

-----------------------------------------------------------------------------

(* In the first mission a release is left behind only if one thread exits     *)
(* while the other is between clearing toPerformCleanup and its helm          *)
(* uninstall, or if uninstalls were run and each of them failed (one before   *)
(* the install always does): testing and clearing the flag without a lock     *)
(* adds no other way, and one uninstall that works is enough.                 *)
LeakOnlyMidCleanup ==
  mission = 1 /\ Exited /\ releases # {} =>
     \/ handlerpc = "exit" /\ mainpc \in {"collect", "uninstall"}
     \/ mainpc = "exit" /\ handlerpc = "uninstall"
     \/ uninstalls = {"failed"}
=============================================================================
