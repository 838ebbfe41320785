----------------------------- MODULE WorkQueue -----------------------------
(***************************************************************************)
(* What a parallel-catchup mission expects of its queues, without Redis,   *)
(* owners, pings or a monitor: items wait until they are handed out, only  *)
(* who holds an item finishes it, an item that is out may be taken back,   *)
(* and what is finished stays finished.  No item leaves the queue in any   *)
(* other way, so a holder may vanish at any time.                          *)
(***************************************************************************)
CONSTANTS Items, Hands, None

VARIABLES
  filled,  \* the items have been put into the queue
  queued,  \* items that wait to be handed out
  out,     \* items handed out, neither finished nor taken back
  done,    \* items finished
  held     \* the item each hand works on, None without one

wqVars == <<filled, queued, out, done, held>>

WQInit ==
  /\ filled = FALSE
  /\ queued = {} /\ out = {} /\ done = {}
  /\ held = [h \in Hands |-> None]

Fill ==
  /\ ~filled
  /\ filled' = TRUE
  /\ queued' = Items
  /\ UNCHANGED <<out, done, held>>

(* An item goes out; the hand that asked gets it, or the answer is lost. *)
Take(i, h) ==
  /\ i \in queued
  /\ held[h] = None
  /\ queued' = queued \ {i}
  /\ out' = out \cup {i}
  /\ held' \in {held, [held EXCEPT ![h] = i]}
  /\ UNCHANGED <<filled, done>>

(* The hand that holds an item finishes it, even one taken back meanwhile, and *)
(* lets go of it unless it does not learn that it succeeded.                   *)
Finish(h) ==
  /\ held[h] # None
  /\ done' = done \cup {held[h]}
  /\ out' = out \ {held[h]}
  /\ held' \in {held, [held EXCEPT ![h] = None]}
  /\ UNCHANGED <<filled, queued>>

TakeBack(i) ==
  /\ i \in out
  /\ out' = out \ {i}
  /\ queued' = queued \cup {i}
  /\ UNCHANGED <<filled, done, held>>

(* Hands may vanish, several at once, and leave out what they held. *)
LetGo(gone) ==
  /\ held' = [h \in Hands |-> IF h \in gone THEN None ELSE held[h]]
  /\ UNCHANGED <<filled, queued, out, done>>

WQNext ==
  \/ Fill
  \/ \E h \in Hands : Finish(h) \/ \E i \in Items : Take(i, h)
  \/ \E gone \in SUBSET Hands : LetGo(gone)
  \/ \E i \in Items : TakeBack(i)

WQSpec == WQInit /\ [][WQNext]_wqVars
=============================================================================
