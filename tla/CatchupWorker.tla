--------------------------- MODULE CatchupWorker ---------------------------
(***************************************************************************)
(* worker.sh, the loop each worker pod runs: check that the pod is not     *)
(* retiring, claim a job, run stellar-core on it, commit the result.       *)
(* Pods are bare (catchup_workers.yaml): a container that exits restarts   *)
(* under the same pod name, a pod that goes away does not come back.       *)
(***************************************************************************)
EXTENDS RedisQueues

VARIABLES
  wpc,   \* where the script of a pod stands
  wjob,  \* JOB_KEY of the job it holds, Nil between jobs
  wok    \* stellar-core exited with 0 (meaningful at "commit")

workerVars == <<wpc, wjob, wok>>

\* "check": before SISMEMBER;  "claim": between SISMEMBER and EVAL;
\* "run": stellar-core new-db, then catchup, which serves /info;
\* "commit": before the result transaction;  "gone": the pod does not exist.
WorkerPCs == {"check", "claim", "run", "commit", "gone"}

Holding == {"run", "commit"}

WorkerTypeOK ==
  /\ wpc \in [Workers -> WorkerPCs]
  /\ wjob \in [Workers -> Jobs \cup {Nil}]
  /\ wok \in [Workers -> BOOLEAN]
  /\ \A w \in Workers : wjob[w] # Nil <=> wpc[w] \in Holding

WorkerInit ==
  /\ wpc = [w \in Workers |-> "check"]
  /\ wjob = [w \in Workers |-> Nil]
  /\ wok = [w \in Workers |-> FALSE]

Goto(w, pc) == wpc' = [wpc EXCEPT ![w] = pc]

\* Mutant of Forget: JOB_KEY survives.
ForgetOutcomeOnly(w) == wok' = [wok EXCEPT ![w] = FALSE] /\ UNCHANGED wjob

(* The script starts over, or its pod is gone: what it knew of a job is lost. *)
Forget(w) ==
  /\ wjob' = [wjob EXCEPT ![w] = Nil]
  /\ wok' = [wok EXCEPT ![w] = FALSE]

\* Mutant of CheckRetiring: the check is dropped.
CheckNothing(w) ==
  /\ wpc[w] = "check"
  /\ Goto(w, "claim")
  /\ NoFault
  /\ UNCHANGED <<redisVars, wjob, wok>>

(* SISMEMBER retiring; anything but an explicit 0 sleeps and asks again. *)
CheckRetiring(w) ==
  /\ wpc[w] = "check"
  /\ w \notin retiring
  /\ Goto(w, "claim")
  /\ NoFault
  /\ UNCHANGED <<redisVars, wjob, wok>>

\* Mutant of EvalClaim: the job is copied, not moved.
EvalClaimCopies(w) ==
  /\ ranges # <<>>
  /\ inProgress' = LPUSH(inProgress, Head(ranges))
  /\ jobOwners' = HSET(jobOwners, Head(ranges), w)
  /\ UNCHANGED <<ranges, succeeded, failed, retiring>>

(* CLAIM_SCRIPT: LMOVE ranges in_progress LEFT LEFT and HSET, in one script. *)
EvalClaim(w) ==
  /\ ranges # <<>>
  /\ ranges' = Tail(ranges)
  /\ inProgress' = LPUSH(inProgress, Head(ranges))
  /\ jobOwners' = HSET(jobOwners, Head(ranges), w)
  /\ UNCHANGED <<succeeded, failed, retiring>>

ClaimJob(w) ==
  /\ wpc[w] = "claim"
  /\ EvalClaim(w)
  /\ Goto(w, "run")
  /\ wjob' = [wjob EXCEPT ![w] = Head(ranges)]
  /\ NoFault
  /\ UNCHANGED wok

(* The queue is empty: sleep and start over. *)
ClaimNothing(w) ==
  /\ wpc[w] = "claim"
  /\ ranges = <<>>
  /\ Goto(w, "check")
  /\ NoFault
  /\ UNCHANGED <<redisVars, wjob, wok>>

(* redis-cli fails, or its reply is not a job key: the worker starts over     *)
(* without a job, whether or not the script ran.                              *)
ClaimError(w) ==
  /\ wpc[w] = "claim"
  /\ Fault("claimError")
  /\ EvalClaim(w) \/ UNCHANGED redisVars
  /\ Goto(w, "check")
  /\ UNCHANGED <<wjob, wok>>

(* stellar-core new-db && stellar-core catchup. *)
Catchup(w) ==
  /\ wpc[w] = "run"
  /\ \E ok \in BOOLEAN : wok' = [wok EXCEPT ![w] = ok]
  /\ Goto(w, "commit")
  /\ NoFault
  /\ UNCHANGED <<redisVars, wjob>>

\* Mutant of ResultTransaction: the LREM is left out.
ResultKeepsEntry(w) ==
  /\ IF wok[w]
     THEN succeeded' = succeeded \cup {wjob[w]} /\ UNCHANGED failed
     ELSE failed' = failed \cup {wjob[w]} /\ UNCHANGED succeeded
  /\ jobOwners' = HDEL(jobOwners, wjob[w])
  /\ UNCHANGED <<ranges, inProgress, retiring>>

(* The MULTI/EXEC block: SADD of the outcome, LREM, (metrics,) HDEL. *)
ResultTransaction(w) ==
  /\ IF wok[w]
     THEN succeeded' = succeeded \cup {wjob[w]} /\ UNCHANGED failed
     ELSE failed' = failed \cup {wjob[w]} /\ UNCHANGED succeeded
  /\ inProgress' = LREM(inProgress, wjob[w])
  /\ jobOwners' = HDEL(jobOwners, wjob[w])
  /\ UNCHANGED <<ranges, retiring>>

CommitResult(w) ==
  /\ wpc[w] = "commit"
  /\ ResultTransaction(w)
  /\ Goto(w, "check")
  /\ Forget(w)
  /\ NoFault

(* The transaction ran but redis-cli reports a failure: it will be resent. *)
CommitReplyLost(w) ==
  /\ wpc[w] = "commit"
  /\ Fault("commitReply")
  /\ ResultTransaction(w)
  /\ UNCHANGED workerVars

(* The container dies, or exits with 1 after 30 failed transactions, and is   *)
(* restarted in the same pod: the script forgets its job, Redis does not.     *)
RestartContainer(w) ==
  /\ wpc[w] \notin {"check", "gone"}
  /\ Fault("restart")
  /\ Goto(w, "check")
  /\ Forget(w)
  /\ UNCHANGED redisVars

(* The pod goes away, deleted or evicted. *)
RemovePod(w) ==
  /\ Goto(w, "gone")
  /\ Forget(w)

EvictPod(w) ==
  /\ wpc[w] # "gone"
  /\ Fault("evict")
  /\ RemovePod(w)
  /\ UNCHANGED redisVars

WorkerStep(w) ==
  \/ CheckRetiring(w)
  \/ ClaimJob(w)
  \/ ClaimNothing(w)
  \/ Catchup(w)
  \/ CommitResult(w)

WorkerFault(w) ==
  \/ ClaimError(w)
  \/ CommitReplyLost(w)
  \/ RestartContainer(w)
  \/ EvictPod(w)
=============================================================================
