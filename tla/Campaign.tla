------------------------------ MODULE Campaign ------------------------------
(***************************************************************************)
(* The campaign path: a worker of the pool reserves a campaign job row,   *)
(* the strategy determiner runs EveryoneStrategy.Dispatch                  *)
(* (src/fakes/campaign_types_repository.go, lines 77-116) inside the      *)
(* worker's Deliver, and the loop then deletes the row.                   *)
(*                                                                         *)
(* Dispatch has three steps that can fail or block:                       *)
(*   1. tokenLoader.Load (lines 97-100);                                  *)
(*   2. allUsers.AllUserGUIDs (lines 103-106);                            *)
(*   3. queue.Enqueue, one delivery job per guid (lines 108-113).         *)
(* Determine (src/testing/fakes/strategy_determiner.go, line 23) returns  *)
(* nothing, so the error Dispatch returns at steps 1 and 2 is dropped,    *)
(* and with it the responses.  The Deliver of a campaign never calls      *)
(* job.Retry, so the loop always deletes the row afterwards.              *)
(*                                                                         *)
(* Every row of Jobs is a campaign addressed to everyone.  The delivery   *)
(* jobs that Dispatch enqueues are counted per campaign and user:         *)
(* nothing of this path reads them back.                                  *)
(***************************************************************************)
EXTENDS Gobble, Naturals

CONSTANTS
    Workers,         \* the goroutines of the worker pool
    PlatformUsers,   \* the guids AllUserGUIDs returns
    MaxCrashes,      \* bound on worker crashes
    CountCap,        \* saturation bound of the delivery counters
    TokenMayFail,    \* whether tokenLoader.Load can return an error
    GUIDsMayFail,    \* whether AllUserGUIDs can return an error
    EnqueueMayFail   \* whether the enqueue of one recipient can fail

ASSUME CampaignAssumption ==
    /\ Workers # {}
    /\ MaxCrashes \in Nat
    /\ CountCap \in Nat \ {0}
    /\ {TokenMayFail, GUIDsMayFail, EnqueueMayFail} \subseteq BOOLEAN

NoJob == 0

VARIABLES
    pc,             \* pc[w]: where worker w is in its loop and in Dispatch
    held,           \* held[w]: the campaign row worker w reserved
    pending,        \* pending[w]: the users of Dispatch not yet enqueued
    deliveries,     \* deliveries[j][u]: delivery jobs enqueued for u by j
    enqueueFailed,  \* enqueueFailed[j][u]: an enqueue for u failed under j
    crashes         \* crashes so far

vars == <<queued, untilActive, retryCount, pc, held, pending, deliveries,
          enqueueFailed, crashes>>

PC == {"idle", "reserved", "loaded", "enqueuing", "done"}

CampaignTypeOK ==
    /\ QueueTypeOK
    /\ pc \in [Workers -> PC]
    /\ held \in [Workers -> Jobs \cup {NoJob}]
    /\ pending \in [Workers -> SUBSET PlatformUsers]
    /\ deliveries \in [Jobs -> [PlatformUsers -> 0..CountCap]]
    /\ enqueueFailed \in [Jobs -> [PlatformUsers -> BOOLEAN]]
    /\ crashes \in 0..MaxCrashes

Init ==
    /\ QueueInit
    /\ pc = [w \in Workers |-> "idle"]
    /\ held = [w \in Workers |-> NoJob]
    /\ pending = [w \in Workers |-> {}]
    /\ deliveries = [j \in Jobs |-> [u \in PlatformUsers |-> 0]]
    /\ enqueueFailed = [j \in Jobs |-> [u \in PlatformUsers |-> FALSE]]
    /\ crashes = 0

\* The worker loop's Reserve of the oldest due row.
WorkReserve(w) ==
    /\ pc[w] = "idle"
    /\ \E j \in Jobs :
         /\ Reserve(j)
         /\ held' = [held EXCEPT ![w] = j]
    /\ pc' = [pc EXCEPT ![w] = "reserved"]
    /\ UNCHANGED <<pending, deliveries, enqueueFailed, crashes>>

\* An idle worker finds no due row and polls again.
Poll(w) ==
    /\ pc[w] = "idle"
    /\ Eligible = {}
    /\ UNCHANGED vars

\* Dispatch builds the options with the everyone endorsement and loads the
\* token; on error it returns, and Determine drops the error.
LoadToken(w) ==
    /\ pc[w] = "reserved"
    /\ \/ pc' = [pc EXCEPT ![w] = "loaded"]
       \/ /\ TokenMayFail
          /\ pc' = [pc EXCEPT ![w] = "done"]
    /\ UNCHANGED <<queued, untilActive, retryCount, held, pending,
                   deliveries, enqueueFailed, crashes>>

\* AllUserGUIDs with the token; on success one User per guid is built,
\* on error Dispatch returns and Determine drops the error.
LoadUserGUIDs(w) ==
    /\ pc[w] = "loaded"
    /\ \/ /\ pc' = [pc EXCEPT ![w] = "enqueuing"]
          /\ pending' = [pending EXCEPT ![w] = PlatformUsers]
       \/ /\ GUIDsMayFail
          /\ pc' = [pc EXCEPT ![w] = "done"]
          /\ UNCHANGED pending
    /\ UNCHANGED <<queued, untilActive, retryCount, held, deliveries,
                   enqueueFailed, crashes>>

\* The delivery counter saturates at CountCap.
Inc(n) == IF n < CountCap THEN n + 1 ELSE n

\* queue.Enqueue enqueues one delivery job per user; a failure is recorded
\* for that recipient and does not stop its siblings.
Enqueue(w) ==
    /\ pc[w] = "enqueuing"
    /\ \E u \in pending[w] :
         /\ pending' = [pending EXCEPT ![w] = @ \ {u}]
         /\ \/ /\ deliveries' = [deliveries EXCEPT ![held[w]][u] = Inc(@)]
               /\ UNCHANGED enqueueFailed
            \/ /\ EnqueueMayFail
               /\ enqueueFailed' = [enqueueFailed EXCEPT ![held[w]][u] = TRUE]
               /\ UNCHANGED deliveries
    /\ UNCHANGED <<queued, untilActive, retryCount, pc, held, crashes>>

\* Mutant: Dispatch returns before Enqueue has gone through every user.
DispatchedEarly(w) ==
    /\ pc[w] = "enqueuing"
    /\ pc' = [pc EXCEPT ![w] = "done"]
    /\ pending' = [pending EXCEPT ![w] = {}]
    /\ UNCHANGED <<queued, untilActive, retryCount, held, deliveries,
                   enqueueFailed, crashes>>

\* Enqueue has returned the responses; Dispatch returns them with a nil
\* error, and Determine drops them.
Dispatched(w) ==
    /\ pc[w] = "enqueuing"
    /\ pending[w] = {}
    /\ pc' = [pc EXCEPT ![w] = "done"]
    /\ UNCHANGED <<queued, untilActive, retryCount, held, pending,
                   deliveries, enqueueFailed, crashes>>

\* Mutant: the loop requeues the campaign instead of deleting it.
FinishRequeues(w) ==
    /\ pc[w] = "done"
    /\ Requeue(held[w], 0, retryCount[held[w]])
    /\ pc' = [pc EXCEPT ![w] = "idle"]
    /\ held' = [held EXCEPT ![w] = NoJob]
    /\ UNCHANGED <<pending, deliveries, enqueueFailed, crashes>>

\* Deliver returned with ShouldRetry false: the loop deletes the row.
Finish(w) ==
    /\ pc[w] = "done"
    /\ Dequeue(held[w])
    /\ pc' = [pc EXCEPT ![w] = "idle"]
    /\ held' = [held EXCEPT ![w] = NoJob]
    /\ UNCHANGED <<pending, deliveries, enqueueFailed, crashes>>

\* A busy worker dies; its row is re-reserved once the lease runs out.
Crash(w) ==
    /\ pc[w] # "idle"
    /\ crashes < MaxCrashes
    /\ crashes' = crashes + 1
    /\ pc' = [pc EXCEPT ![w] = "idle"]
    /\ held' = [held EXCEPT ![w] = NoJob]
    /\ pending' = [pending EXCEPT ![w] = {}]
    /\ UNCHANGED <<queued, untilActive, retryCount, deliveries,
                   enqueueFailed>>

\* Time passes while some row's active_at is still ahead.
Tick ==
    /\ \E j \in queued : untilActive[j] > 0
    /\ Elapse
    /\ UNCHANGED <<pc, held, pending, deliveries, enqueueFailed, crashes>>

Next ==
    \/ \E w \in Workers :
         \/ WorkReserve(w) \/ Poll(w) \/ LoadToken(w) \/ LoadUserGUIDs(w)
         \/ Enqueue(w) \/ Dispatched(w) \/ Finish(w) \/ Crash(w)
    \/ Tick

\* Each worker goroutine keeps running, and time keeps passing.
Fairness ==
    /\ \A w \in Workers :
         /\ WF_vars(WorkReserve(w)) /\ WF_vars(LoadToken(w))
         /\ WF_vars(LoadUserGUIDs(w)) /\ WF_vars(Enqueue(w))
         /\ WF_vars(Dispatched(w)) /\ WF_vars(Finish(w))
    /\ WF_vars(Tick)

Spec == Init /\ [][Next]_vars /\ Fairness

(***************************************************************************)
(* Properties.                                                             *)
(***************************************************************************)

\* spec.md 4.1 and 4.5: a campaign row leaves the queue only after every
\* platform user got a delivery job or had its own enqueue fail.  This
\* must survive a lease that runs out mid-Dispatch and a crash mid-Enqueue;
\* it is lost when Determine drops a token or AllUserGUIDs error.
CampaignReachesEveryone ==
    \A j \in Jobs \ queued :
      \A u \in PlatformUsers : deliveries[j][u] >= 1 \/ enqueueFailed[j][u]

\* Every campaign row is eventually deleted: crashed reservations expire
\* and the Determine path never asks for a retry.
CampaignEventuallyDeleted == \A j \in Jobs : <>(j \notin queued)
=============================================================================
