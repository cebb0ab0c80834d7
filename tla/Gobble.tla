------------------------------- MODULE Gobble -------------------------------
(***************************************************************************)
(* The durable job queue (package gobble).  Its code is not under src/:   *)
(* it is modelled from spec.md section 4.1, and its callers' use of it is *)
(* pinned by the fake queue in src/postal/delivery_worker_test.go.        *)
(*                                                                         *)
(* A job row is present while its id is in `queued`.  Time is kept        *)
(* relative: untilActive[j] is how long until the row's active_at is      *)
(* reached (0: due).  Reserve is the visibility-timeout claim the spec    *)
(* allows: it pushes active_at Lease ahead, so the row is invisible to    *)
(* other reservers until the lease runs out.                               *)
(***************************************************************************)
EXTENDS Naturals

CONSTANTS
    Jobs,    \* ids of the job rows; smaller id = enqueued earlier
    Lease    \* visibility timeout set by Reserve

ASSUME JobsAssumption == Jobs \subseteq Nat \ {0}
ASSUME LeaseAssumption == Lease \in Nat \ {0}

VARIABLES
    queued,       \* ids of the rows still in the jobs table
    untilActive,  \* untilActive[j]: time left until active_at of row j
    retryCount    \* retryCount[j]: the row's retry_count column

qvars == <<queued, untilActive, retryCount>>

QueueTypeOK ==
    /\ queued \subseteq Jobs
    /\ untilActive \in [Jobs -> Nat]
    /\ retryCount \in [Jobs -> Nat]

\* Every job has been enqueued, due now, never retried.
QueueInit ==
    /\ queued = Jobs
    /\ untilActive = [j \in Jobs |-> 0]
    /\ retryCount = [j \in Jobs |-> 0]

\* Rows Reserve may return: present and active_at <= now.
Eligible == {j \in queued : untilActive[j] = 0}

\* Reserve takes the oldest eligible row.
IsOldest(j) == \A k \in Eligible : j <= k

\* Reserve(j): the atomic claim of row j; it becomes invisible for Lease.
Reserve(j) ==
    /\ j \in Eligible
    /\ IsOldest(j)
    /\ untilActive' = [untilActive EXCEPT ![j] = Lease]
    /\ UNCHANGED <<queued, retryCount>>

\* Mutant: the row update bumps retry_count itself, on top of the bump the
\* caller's Retry already made.
RequeueBumps(j, d, rc) ==
    /\ IF j \in queued
         THEN /\ untilActive' = [untilActive EXCEPT ![j] = d]
              /\ retryCount' = [retryCount EXCEPT ![j] = rc + 1]
         ELSE UNCHANGED <<untilActive, retryCount>>
    /\ UNCHANGED queued

\* Requeue(j, d, rc): write back the caller's copy of the job (active_at d
\* from now, retry_count rc).  An update of a deleted row changes nothing.
Requeue(j, d, rc) ==
    /\ IF j \in queued
         THEN /\ untilActive' = [untilActive EXCEPT ![j] = d]
              /\ retryCount' = [retryCount EXCEPT ![j] = rc]
         ELSE UNCHANGED <<untilActive, retryCount>>
    /\ UNCHANGED queued

\* Dequeue(j): delete row j (its active_at no longer counts down).
Dequeue(j) ==
    /\ queued' = queued \ {j}
    /\ untilActive' = [untilActive EXCEPT ![j] = 0]
    /\ UNCHANGED retryCount

\* One unit of time passes for every row.
Elapse ==
    /\ untilActive' = [j \in Jobs |-> IF untilActive[j] > 0
                                         THEN untilActive[j] - 1 ELSE 0]
    /\ UNCHANGED <<queued, retryCount>>
=============================================================================
