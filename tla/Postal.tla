------------------------------- MODULE Postal -------------------------------
(***************************************************************************)
(* The delivery worker pool (package postal) running on the job queue.    *)
(* Each worker loops: reserve a job, Deliver it, then requeue it if the    *)
(* delivery asked for a retry or delete it otherwise.  Deliver runs the   *)
(* pipeline of spec.md 4.2 (decode, campaign forwarding, recipient        *)
(* lookup, suppression, render, connect/send, receipt, status upsert) and  *)
(* the retry policy of 4.3; src/postal/delivery_worker_test.go pins each  *)
(* branch.  A worker's Deliver is split at its suspension points: the     *)
(* outbound send (Deliver) and the persistence writes after it (Record),  *)
(* then the queue write of the worker loop (Finish).                      *)
(***************************************************************************)
EXTENDS Gobble, Naturals, FiniteSets

CONSTANTS
    Workers,               \* worker ids of the pool
    Users,                 \* recipients' user guids
    MaxRetries,            \* the retry ceiling (10 in the code)
    MaxCrashes,            \* bound on worker crashes in one behaviour
    CountCap,              \* saturation bound of the audit counters
    JobKind,               \* JobKind[j]: the payload kind of job j
    JobUser,               \* JobUser[j]: the recipient of delivery job j
    GloballyUnsubscribed,  \* users with a global unsubscribe record
    Unsubscribed,          \* users unsubscribed from this (client, kind)
    KindCritical,          \* the notification kind is registered critical
    EmailOf                \* EmailOf[u]: what the user lookup returns

PayloadKinds == {"delivery", "campaign", "malformed"}
EmailKinds == {"valid", "none", "malformed"}
Status == {"queued", "delivered", "failed", "undeliverable", "unavailable"}

\* The retry delay in minutes for a job retried rc times so far.
Backoff(rc) == 2 ^ rc

ASSUME WorkersAssumption == Workers # {} /\ IsFiniteSet(Workers)
ASSUME MaxRetriesAssumption == MaxRetries \in Nat
ASSUME MaxCrashesAssumption == MaxCrashes \in Nat
ASSUME CountCapAssumption == CountCap \in Nat /\ CountCap > MaxRetries
ASSUME BackoffAssumption == \A n \in 0..MaxRetries : Backoff(n) \in Nat \ {0}
ASSUME EnvironmentAssumption ==
    /\ JobKind \in [Jobs -> PayloadKinds]
    /\ JobUser \in [Jobs -> Users]
    /\ GloballyUnsubscribed \subseteq Users
    /\ Unsubscribed \subseteq Users
    /\ KindCritical \in BOOLEAN
    /\ EmailOf \in [Users -> EmailKinds]

NoJob == 0

VARIABLES
    pc,          \* pc[w]: where worker w is in its loop
    held,        \* held[w]: the job worker w has reserved, or NoJob
    copy,        \* copy[w]: w's in-memory gobble.Job (RetryCount,
                 \*   ActiveAt as time from now, ShouldRetry)
    outcome,     \* outcome[w]: the status w's send stage decided
    halted,      \* halted[w]: Halt has been called on worker w
    status,      \* status[j]: the messages table row of job j
    sends,       \* sends[j]: messages the mail client accepted for j
    receipts,    \* receipts[j]: receipts created for j
    failures,    \* failures[j]: attempts of j that ended in a retry
    determined,  \* determined[j]: Determine calls for campaign job j
    crashes      \* crashes so far

wvars == <<pc, held, copy, outcome, halted>>
gvars == <<status, sends, receipts, failures, determined, crashes>>
vars == <<qvars, wvars, gvars>>

PC == {"idle", "reserved", "sent", "done", "stopped"}
Busy == {"reserved", "sent", "done"}
JobCopy == [rc : Nat, until : Nat, retry : BOOLEAN]
NoCopy == [rc |-> 0, until |-> 0, retry |-> FALSE]

\* Saturating increment of an audit counter.
Inc(n) == IF n < CountCap THEN n + 1 ELSE CountCap

TypeOK ==
    /\ QueueTypeOK
    /\ retryCount \in [Jobs -> 0..MaxRetries]
    /\ pc \in [Workers -> PC]
    /\ held \in [Workers -> Jobs \cup {NoJob}]
    /\ copy \in [Workers -> JobCopy]
    /\ \A w \in Workers : copy[w].rc \in 0..MaxRetries
    /\ outcome \in [Workers -> Status]
    /\ halted \in [Workers -> BOOLEAN]
    /\ status \in [Jobs -> Status]
    /\ sends \in [Jobs -> 0..CountCap]
    /\ receipts \in [Jobs -> 0..CountCap]
    /\ failures \in [Jobs -> 0..CountCap]
    /\ determined \in [Jobs -> 0..CountCap]
    /\ crashes \in 0..MaxCrashes

\* A worker holds a job exactly while it is inside one iteration of its
\* loop: the shape every step of the loop relies on.
HeldWhenBusy ==
    \A w \in Workers : pc[w] \in Busy <=> held[w] \in Jobs

Init ==
    /\ QueueInit
    /\ pc = [w \in Workers |-> "idle"]
    /\ held = [w \in Workers |-> NoJob]
    /\ copy = [w \in Workers |-> NoCopy]
    /\ outcome = [w \in Workers |-> "queued"]
    /\ halted = [w \in Workers |-> FALSE]
    /\ status = [j \in Jobs |-> "queued"]
    /\ sends = [j \in Jobs |-> 0]
    /\ receipts = [j \in Jobs |-> 0]
    /\ failures = [j \in Jobs |-> 0]
    /\ determined = [j \in Jobs |-> 0]
    /\ crashes = 0

-----------------------------------------------------------------------------
(* The retry policy.                                                       *)

\* Mutants of retry: no ceiling; the ceiling one attempt early; ShouldRetry
\* set even at the ceiling.
RetryJobNoCeiling(c) ==
    [rc |-> c.rc + 1, until |-> Backoff(c.rc), retry |-> TRUE]
RetryJobEarlyCeiling(c) ==
    IF c.rc < MaxRetries - 1
      THEN [rc |-> c.rc + 1, until |-> Backoff(c.rc), retry |-> TRUE]
      ELSE c
RetryJobAlwaysRetry(c) ==
    IF c.rc < MaxRetries
      THEN [rc |-> c.rc + 1, until |-> Backoff(c.rc), retry |-> TRUE]
      ELSE [c EXCEPT !.retry = TRUE]

\* DeliveryWorker.retry: below the ceiling, job.Retry(2^RetryCount min)
\* sets ShouldRetry, pushes ActiveAt and bumps RetryCount; at the ceiling
\* the job is left alone, ShouldRetry stays false and the loop deletes it.
RetryJob(c) ==
    IF c.rc < MaxRetries
      THEN [rc |-> c.rc + 1, until |-> Backoff(c.rc), retry |-> TRUE]
      ELSE c

\* Mutant: the global unsubscribe record is never looked up.
UndeliverableIgnoresGlobal(u) ==
    \/ u \in Unsubscribed /\ ~KindCritical
    \/ EmailOf[u] # "valid"

\* The suppression and address checks: undeliverable without a send.  A
\* global or a per-kind unsubscribe stops only a notification that is not
\* critical (the test's "does not send any non-critical notifications" and
\* "registered as critical ... does send the email"); a missing or
\* malformed address stops every one.
Undeliverable(u) ==
    \/ (u \in GloballyUnsubscribed \/ u \in Unsubscribed) /\ ~KindCritical
    \/ EmailOf[u] # "valid"

-----------------------------------------------------------------------------
(* The worker loop (gobble.Worker.Work with DeliveryWorker.Deliver as its  *)
(* callback).                                                               *)

\* The loop receives a reserved job.
WorkReserve(w) ==
    /\ pc[w] = "idle"
    /\ \E j \in Jobs :
         /\ Reserve(j)
         /\ held' = [held EXCEPT ![w] = j]
         /\ copy' = [copy EXCEPT ![w] = [rc |-> retryCount[j],
                                         until |-> 0, retry |-> FALSE]]
    /\ pc' = [pc EXCEPT ![w] = "reserved"]
    /\ UNCHANGED <<outcome, halted, gvars>>

\* Reserve finds nothing due: the worker sleeps and polls again.
Poll(w) ==
    /\ pc[w] = "idle"
    /\ Eligible = {}
    /\ UNCHANGED vars

\* Halt(w): the halt signal is sent to worker w.
Halt(w) ==
    /\ ~halted[w]
    /\ halted' = [halted EXCEPT ![w] = TRUE]
    /\ UNCHANGED <<qvars, pc, held, copy, outcome, gvars>>

\* Between jobs the loop's select sees the halt signal and returns.
Exit(w) ==
    /\ pc[w] = "idle"
    /\ halted[w]
    /\ pc' = [pc EXCEPT ![w] = "stopped"]
    /\ UNCHANGED <<qvars, held, copy, outcome, halted, gvars>>

\* The attempt of w on job j ends in retry(job).
FailAttempt(w, j) ==
    /\ copy' = [copy EXCEPT ![w] = RetryJob(copy[w])]
    /\ failures' = [failures EXCEPT ![j] = Inc(@)]

\* The payload does not decode: retried like a transient failure.
MalformedPayload(w, j) ==
    /\ JobKind[j] = "malformed"
    /\ FailAttempt(w, j)
    /\ pc' = [pc EXCEPT ![w] = "done"]
    /\ UNCHANGED <<outcome, status, sends, receipts, determined>>

\* A campaign job goes whole to StrategyDeterminer.Determine, which
\* returns nothing; no receipt, no message upsert, no retry.
DetermineStrategy(w, j) ==
    /\ JobKind[j] = "campaign"
    /\ determined' = [determined EXCEPT ![j] = Inc(@)]
    /\ pc' = [pc EXCEPT ![w] = "done"]
    /\ UNCHANGED <<copy, outcome, status, sends, receipts, failures>>

\* Loading the zoned UAA token or the user fails: the job is retried.
RecipientLookupFailed(w, j) ==
    /\ JobKind[j] = "delivery"
    /\ FailAttempt(w, j)
    /\ pc' = [pc EXCEPT ![w] = "done"]
    /\ UNCHANGED <<outcome, status, sends, receipts, determined>>

\* Unsubscribed, or no usable address: undeliverable, nothing is sent.
Suppress(w, j) ==
    /\ JobKind[j] = "delivery"
    /\ Undeliverable(JobUser[j])
    /\ outcome' = [outcome EXCEPT ![w] = "undeliverable"]
    /\ pc' = [pc EXCEPT ![w] = "sent"]
    /\ UNCHANGED <<copy, status, sends, receipts, failures, determined>>

\* Render and send: a template that does not pack or a transport send
\* error gives failed, a connect error unavailable (both retried), success
\* delivered.
SendMail(w, j) ==
    /\ JobKind[j] = "delivery"
    /\ ~Undeliverable(JobUser[j])
    /\ \E o \in {"delivered", "failed", "unavailable"} :
         /\ outcome' = [outcome EXCEPT ![w] = o]
         /\ IF o = "delivered"
              THEN /\ sends' = [sends EXCEPT ![j] = Inc(@)]
                   /\ UNCHANGED <<copy, failures>>
              ELSE /\ FailAttempt(w, j)
                   /\ UNCHANGED sends
    /\ pc' = [pc EXCEPT ![w] = "sent"]
    /\ UNCHANGED <<status, receipts, determined>>

\* Deliver up to and including the outbound send.
Deliver(w) ==
    /\ pc[w] = "reserved"
    /\ LET j == held[w] IN
         \/ MalformedPayload(w, j)
         \/ DetermineStrategy(w, j)
         \/ RecipientLookupFailed(w, j)
         \/ Suppress(w, j)
         \/ SendMail(w, j)
    /\ UNCHANGED <<qvars, held, halted, crashes>>

\* Mutant: the receipt is written whatever the send stage decided.
RecordAnyReceipt(w) ==
    /\ pc[w] = "sent"
    /\ LET j == held[w]
           o == outcome[w]
       IN /\ \/ /\ receipts' = [receipts EXCEPT ![j] = Inc(@)]
                /\ UNCHANGED <<copy, failures>>
             \/ /\ o = "delivered"
                /\ FailAttempt(w, j)
                /\ UNCHANGED receipts
          /\ \/ status' = [status EXCEPT ![j] = o]
             \/ UNCHANGED status
    /\ pc' = [pc EXCEPT ![w] = "done"]
    /\ UNCHANGED <<qvars, held, outcome, halted, sends, determined,
                   crashes>>

\* The persistence writes after the send: a receipt for a delivered
\* message (its failure retries the job), then the status upsert, whose
\* failure is only logged.
Record(w) ==
    /\ pc[w] = "sent"
    /\ LET j == held[w]
           o == outcome[w]
       IN /\ \/ /\ o = "delivered"
                /\ receipts' = [receipts EXCEPT ![j] = Inc(@)]
                /\ UNCHANGED <<copy, failures>>
             \/ /\ o = "delivered"
                /\ FailAttempt(w, j)
                /\ UNCHANGED receipts
             \/ /\ o # "delivered"
                /\ UNCHANGED <<copy, failures, receipts>>
          /\ \/ status' = [status EXCEPT ![j] = o]
             \/ UNCHANGED status
    /\ pc' = [pc EXCEPT ![w] = "done"]
    /\ UNCHANGED <<qvars, held, outcome, halted, sends, determined,
                   crashes>>

\* Mutant of the loop's tail: the halt flag is consumed by the iteration.
FinishResetsHalt(w) ==
    /\ pc[w] = "done"
    /\ LET j == held[w] IN
         IF copy[w].retry
           THEN Requeue(j, copy[w].until, copy[w].rc)
           ELSE Dequeue(j)
    /\ pc' = [pc EXCEPT ![w] = "idle"]
    /\ held' = [held EXCEPT ![w] = NoJob]
    /\ copy' = [copy EXCEPT ![w] = NoCopy]
    /\ outcome' = [outcome EXCEPT ![w] = "queued"]
    /\ halted' = [halted EXCEPT ![w] = FALSE]
    /\ UNCHANGED gvars
\* After the callback the loop requeues the job if ShouldRetry, else
\* deletes it.
Finish(w) ==
    /\ pc[w] = "done"
    /\ LET j == held[w] IN
         IF copy[w].retry
           THEN Requeue(j, copy[w].until, copy[w].rc)
           ELSE Dequeue(j)
    /\ pc' = [pc EXCEPT ![w] = "idle"]
    /\ held' = [held EXCEPT ![w] = NoJob]
    /\ copy' = [copy EXCEPT ![w] = NoCopy]
    /\ outcome' = [outcome EXCEPT ![w] = "queued"]
    /\ UNCHANGED <<halted, gvars>>

\* The process dies while w holds a job and comes back with w idle; the
\* row keeps the active_at its reservation gave it.
Crash(w) ==
    /\ crashes < MaxCrashes
    /\ pc[w] \in Busy
    /\ crashes' = crashes + 1
    /\ pc' = [pc EXCEPT ![w] = "idle"]
    /\ held' = [held EXCEPT ![w] = NoJob]
    /\ copy' = [copy EXCEPT ![w] = NoCopy]
    /\ outcome' = [outcome EXCEPT ![w] = "queued"]
    /\ UNCHANGED <<qvars, halted, status, sends, receipts, failures,
                   determined>>

\* One unit of time passes, for the rows and for the workers' copies.
Tick ==
    /\ \/ \E j \in queued : untilActive[j] > 0
       \/ \E w \in Workers : copy[w].until > 0
    /\ Elapse
    /\ copy' = [w \in Workers |->
                  [copy[w] EXCEPT !.until = IF @ > 0 THEN @ - 1 ELSE 0]]
    /\ UNCHANGED <<pc, held, outcome, halted, gvars>>

\* Every worker has returned from its loop.
PoolStopped ==
    /\ \A w \in Workers : pc[w] = "stopped"
    /\ UNCHANGED vars

Next ==
    \/ \E w \in Workers :
         \/ WorkReserve(w) \/ Poll(w) \/ Halt(w) \/ Exit(w)
         \/ Deliver(w) \/ Record(w) \/ Finish(w) \/ Crash(w)
    \/ Tick
    \/ PoolStopped

\* Each worker is a goroutine the runtime keeps scheduling, and time keeps
\* passing; halts and crashes are not promised.
Fairness ==
    /\ \A w \in Workers :
         /\ WF_vars(WorkReserve(w))
         /\ WF_vars(Deliver(w))
         /\ WF_vars(Record(w))
         /\ WF_vars(Finish(w))
         /\ WF_vars(Exit(w))
    /\ WF_vars(Tick)

Spec == Init /\ [][Next]_vars /\ Fairness

\* The work of job j is settled: a campaign was handed to Determine, a
\* delivery was sent or judged undeliverable, or MaxRetries + 1 attempts
\* failed.
Settled(j) ==
    \/ JobKind[j] = "campaign" /\ determined[j] >= 1
    \/ JobKind[j] = "delivery" /\ sends[j] >= 1
    \/ JobKind[j] = "delivery" /\ Undeliverable(JobUser[j])
    \/ failures[j] >= MaxRetries + 1

\* The strengthening under which JobDeletedOnlyWhenSettled is inductive:
\* a worker's RetryCount and the row's retry_count never run ahead of the
\* attempts that failed, and a worker past its send whose copy does not
\* ask for a retry holds a settled job.
CopyBounded(w) == pc[w] \in Busy => copy[w].rc <= failures[held[w]]
CopySettled(w) ==
    pc[w] \in {"sent", "done"} /\ ~copy[w].retry => Settled(held[w])
RetryBoundedByFailures ==
    /\ \A j \in Jobs : retryCount[j] <= failures[j]
    /\ \A w \in Workers : CopyBounded(w)
SettledBeforeDelete == \A w \in Workers : CopySettled(w)

-----------------------------------------------------------------------------
(* Properties.                                                             *)

\* A job row is deleted only once its work is settled: a campaign was
\* handed to Determine, a delivery was sent or judged undeliverable, or
\* MaxRetries + 1 attempts failed.  Covers the retry ceiling of
\* DeliveryWorker.retry together with the loop's requeue-or-delete choice,
\* under crashes and stale copies written back by slow workers.
JobDeletedOnlyWhenSettled ==
    \A j \in Jobs \ queued : Settled(j)

\* Every receipt and every delivered status is backed by a message the
\* mail client accepted, across crashes between the send and the writes
\* and across retried attempts of the same job.
RecordsReflectSends ==
    \A j \in Jobs :
        /\ receipts[j] <= sends[j]
        /\ status[j] = "delivered" => sends[j] >= 1

\* The recipients the DeliveryWorker test says are not mailed: globally
\* unsubscribed from a notification that is not critical (line 640),
\* unsubscribed from a kind that is not registered critical (731-812), or
\* without an email address or with one lacking an @ (654-729).
TestSuppressed(u) ==
    \/ u \in GloballyUnsubscribed /\ ~KindCritical
    \/ u \in Unsubscribed /\ ~KindCritical
    \/ EmailOf[u] \in {"none", "malformed"}

\* The recipients spec.md 8 says are never mailed: globally unsubscribed
\* even for a critical kind ("global unsubscribe beats critical"),
\* unsubscribed from a kind that is not critical, or without an email
\* address of the right form.
SpecSuppressed(u) ==
    \/ u \in GloballyUnsubscribed
    \/ u \in Unsubscribed /\ ~KindCritical
    \/ EmailOf[u] \in {"none", "malformed"}

\* A recipient of the given class is never mailed, gets no receipt and a
\* status of undeliverable at most, whatever the interleaving of retries,
\* crashes and lease races: a worker whose lease ran out still writes the
\* status its own attempt decided.
SuppressionHolds(Suppressed(_)) ==
    \A j \in Jobs :
        JobKind[j] = "delivery" /\ Suppressed(JobUser[j]) =>
            /\ sends[j] = 0
            /\ receipts[j] = 0
            /\ status[j] \in {"queued", "undeliverable"}

\* The unsubscribe and address contexts of the DeliveryWorker test hold
\* for the whole pool.
SuppressionRespected == SuppressionHolds(TestSuppressed)

\* spec.md 8: global unsubscribe beats critical, so a globally unsubscribed
\* user is never mailed, a critical notification included.
SuppressionPerSpec == SuppressionHolds(SpecSuppressed)

\* The strengthening under which RecordsReflectSends is inductive.  The
\* workers between their send and their writes whose send was accepted
\* for job j: each may still write one receipt.
SentDelivered(j) ==
    {w \in Workers : pc[w] = "sent" /\ held[w] = j /\ outcome[w] = "delivered"}

\* Receipts written plus receipts still to be written by workers past an
\* accepted send never exceed the accepted sends of the job (unless the
\* audit counter saturated): two lease holders of one job that both send
\* may both write, a crash between send and write loses one.
ReceiptsCovered ==
    \A j \in Jobs :
        \/ sends[j] = CountCap
        \/ receipts[j] + Cardinality(SentDelivered(j)) <= sends[j]

\* Unless every worker has been halted, every job eventually leaves the
\* queue: no crash, retry or lease race strands a row.
JobsEventuallyRemoved ==
    \A j \in Jobs : <>(j \notin queued \/ \A w \in Workers : halted[w])

\* A halted worker finishes the job it holds and then leaves its loop.
HaltedWorkerStops ==
    \A w \in Workers : halted[w] ~> pc[w] = "stopped"

\* spec.md 4.1: at most one worker holds a given job at a time.
AtMostOneHolder ==
    \A w1, w2 \in Workers :
        w1 # w2 /\ pc[w1] \in Busy /\ pc[w2] \in Busy => held[w1] # held[w2]

\* spec.md 4.3: retry_count only ever grows (by one per reschedule).
RetryCountNeverDecreases ==
    [][\A j \in Jobs : retryCount'[j] >= retryCount[j]]_vars

\* spec.md 3 and 8: a message the transport accepted has a receipt once
\* its job is done with.
SentMessageHasReceipt ==
    \A j \in Jobs :
        j \notin queued /\ sends[j] >= 1 /\ (\A w \in Workers : held[w] # j)
            => receipts[j] >= 1
=============================================================================
