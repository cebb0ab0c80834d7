------------------------- MODULE PostalSettledProofs -------------------------
(***************************************************************************)
(* Proof that the delivery loop deletes a job row only once its work is   *)
(* settled (JobDeletedOnlyWhenSettled), for every pool size, job set,     *)
(* lease and retry ceiling.  The invariant is not inductive alone: a      *)
(* deleting worker must know its job is settled, which rests on the       *)
(* retry counts never running ahead of the failed attempts.               *)
(***************************************************************************)
EXTENDS PostalProofs

SInv == RetryBoundedByFailures /\ SettledBeforeDelete /\ JobDeletedOnlyWhenSettled

\* A saturating counter never goes down, and bumping it from a value at
\* least m (m within the retry ceiling) gives at least m + 1.
LEMMA IncGrows ==
    ASSUME NEW n \in 0..CountCap, NEW m \in 0..MaxRetries, m <= n
    PROVE  Inc(n) >= n /\ Inc(n) >= m + 1
BY CountCapAssumption, MaxRetriesAssumption DEF Inc

\* No step of the pool lowers the audit counters Settled reads.
LEMMA CountersGrow ==
    ASSUME TypeOK, HeldWhenBusy, [Next]_vars, NEW j \in Jobs
    PROVE  /\ determined'[j] >= determined[j]
           /\ sends'[j] >= sends[j]
           /\ failures'[j] >= failures[j]
<1> USE DEF TypeOK, HeldWhenBusy, vars, qvars, wvars, gvars
<1>1. \A n \in 0..CountCap : Inc(n) >= n
  BY CountCapAssumption DEF Inc
<1>2. ASSUME NEW w \in Workers, WorkReserve(w) \/ Poll(w) \/ Halt(w) \/ Exit(w)
      PROVE  /\ determined'[j] >= determined[j]
             /\ sends'[j] >= sends[j]
             /\ failures'[j] >= failures[j]
  BY <1>2 DEF WorkReserve, Poll, Halt, Exit
<1>3. ASSUME NEW w \in Workers, Deliver(w)
      PROVE  /\ determined'[j] >= determined[j]
             /\ sends'[j] >= sends[j]
             /\ failures'[j] >= failures[j]
  BY <1>1, <1>3 DEF Deliver, MalformedPayload, DetermineStrategy,
     RecipientLookupFailed, Suppress, SendMail, FailAttempt, Busy
<1>4. ASSUME NEW w \in Workers, Record(w)
      PROVE  /\ determined'[j] >= determined[j]
             /\ sends'[j] >= sends[j]
             /\ failures'[j] >= failures[j]
  BY <1>1, <1>4 DEF Record, FailAttempt, Busy
<1>5. ASSUME NEW w \in Workers, Finish(w) \/ Crash(w)
      PROVE  /\ determined'[j] >= determined[j]
             /\ sends'[j] >= sends[j]
             /\ failures'[j] >= failures[j]
  BY <1>5 DEF Finish, Crash
<1>. QED BY <1>2, <1>3, <1>4, <1>5 DEF Next, Tick, PoolStopped

\* Once settled, a job stays settled: its kind and recipient are fixed and
\* the counters Settled reads only grow.
LEMMA SettledStays ==
    ASSUME TypeOK, HeldWhenBusy, [Next]_vars, NEW j \in Jobs, Settled(j)
    PROVE  Settled(j)'
<1>1. /\ determined'[j] >= determined[j]
      /\ sends'[j] >= sends[j]
      /\ failures'[j] >= failures[j]
  BY CountersGrow
<1>2. /\ determined[j] \in Nat /\ sends[j] \in Nat /\ failures[j] \in Nat
      /\ determined'[j] \in Nat /\ sends'[j] \in Nat /\ failures'[j] \in Nat
  <2>1. TypeOK'
    BY NextIInv DEF IInv
  <2>. QED BY <2>1 DEF TypeOK
<1>3. CASE JobKind[j] = "campaign" /\ determined[j] >= 1
  BY <1>1, <1>2, <1>3 DEF Settled
<1>4. CASE JobKind[j] = "delivery" /\ sends[j] >= 1
  BY <1>1, <1>2, <1>4 DEF Settled
<1>5. CASE JobKind[j] = "delivery" /\ Undeliverable(JobUser[j])
  BY <1>5 DEF Settled, Undeliverable
<1>6. CASE failures[j] >= MaxRetries + 1
  BY <1>1, <1>2, <1>6, MaxRetriesAssumption DEF Settled
<1>. QED BY <1>3, <1>4, <1>5, <1>6 DEF Settled

\* retry(job) on a busy worker's copy: the copy either asks for a retry or
\* its job has now failed MaxRetries + 1 times, and its RetryCount stays
\* within the failures counted.
LEMMA FailAttemptSettles ==
    ASSUME TypeOK, RetryBoundedByFailures, NEW w \in Workers, pc[w] \in Busy,
           NEW j \in Jobs, j = held[w], FailAttempt(w, j)
    PROVE  /\ copy'[w].retry \/ failures'[j] >= MaxRetries + 1
           /\ copy'[w].rc <= failures'[j]
<1>1. copy[w].rc \in 0..MaxRetries /\ failures[j] \in 0..CountCap
      /\ copy[w].rc <= failures[j]
  BY DEF TypeOK, RetryBoundedByFailures, CopyBounded
<1>2. failures'[j] = Inc(failures[j])
  BY DEF FailAttempt, TypeOK
<1>3. Inc(failures[j]) >= copy[w].rc + 1 /\ Inc(failures[j]) \in 0..CountCap
  BY <1>1, IncGrows, IncType
<1>4. copy'[w] = RetryJob(copy[w])
  BY DEF FailAttempt, TypeOK
<1>5. CASE copy[w].rc < MaxRetries
  BY <1>1, <1>2, <1>3, <1>4, <1>5 DEF RetryJob
<1>6. CASE ~(copy[w].rc < MaxRetries)
  <2>1. copy'[w] = copy[w]
    BY <1>4, <1>6 DEF RetryJob
  <2>2. failures'[j] >= MaxRetries + 1 /\ copy[w].rc <= failures'[j]
    BY <1>1, <1>2, <1>3, <1>6, MaxRetriesAssumption
  <2>. QED BY <2>1, <2>2
<1>. QED BY <1>5, <1>6

\* A worker that a step leaves where it was keeps its copy bounded and
\* settled: only the counters, which grow, can have moved under it.
LEMMA QuietWorker ==
    ASSUME TypeOK, HeldWhenBusy, [Next]_vars, NEW v \in Workers,
           CopyBounded(v), CopySettled(v),
           pc'[v] = pc[v], held'[v] = held[v],
           copy'[v].rc = copy[v].rc, copy'[v].retry = copy[v].retry
    PROVE  CopyBounded(v)' /\ CopySettled(v)'
<1>1. CASE pc[v] \in Busy
  <2>1. held[v] \in Jobs
    BY <1>1 DEF HeldWhenBusy
  <2>2. failures'[held[v]] >= failures[held[v]]
    BY <2>1, CountersGrow
  <2>3. copy[v].rc \in Nat /\ failures[held[v]] \in Nat
        /\ failures'[held[v]] \in Nat
    <3>1. TypeOK'
      BY NextIInv DEF IInv
    <3>. QED BY <2>1, <3>1 DEF TypeOK
  <2>4. CopyBounded(v)'
    BY <1>1, <2>2, <2>3 DEF CopyBounded
  <2>5. CopySettled(v)'
    <3>1. Settled(held[v]) => Settled(held[v])'
      BY <2>1, SettledStays
    <3>. QED BY <3>1 DEF CopySettled
  <2>. QED BY <2>4, <2>5
<1>2. CASE pc[v] \notin Busy
  BY <1>2 DEF CopyBounded, CopySettled, Busy
<1>. QED BY <1>1, <1>2

\* The inductive invariant holds initially: nobody holds a job and every
\* row is still queued.
LEMMA InitSInv == Init => SInv
BY DEF Init, QueueInit, SInv, RetryBoundedByFailures, SettledBeforeDelete,
       JobDeletedOnlyWhenSettled, CopyBounded, CopySettled, Busy

\* Every step keeps the per-worker part of the invariant.
LEMMA NextWorkers ==
    ASSUME TypeOK, HeldWhenBusy, RetryBoundedByFailures, SettledBeforeDelete,
           [Next]_vars, NEW v \in Workers
    PROVE  CopyBounded(v)' /\ CopySettled(v)'
<1> DEFINE Acts(w) == \/ WorkReserve(w) \/ Poll(w) \/ Halt(w) \/ Exit(w)
                     \/ Deliver(w) \/ Record(w) \/ Finish(w) \/ Crash(w)
<1>0. CopyBounded(v) /\ CopySettled(v)
  BY DEF RetryBoundedByFailures, SettledBeforeDelete
<1>1. ASSUME NEW w \in Workers, w # v, Acts(w)
      PROVE  CopyBounded(v)' /\ CopySettled(v)'
  <2>1. pc'[v] = pc[v] /\ held'[v] = held[v] /\ copy'[v] = copy[v]
    BY <1>1 DEF TypeOK, WorkReserve, Poll, Halt, Exit, Deliver,
       MalformedPayload, DetermineStrategy, RecipientLookupFailed, Suppress,
       SendMail, FailAttempt, Record, Finish, Crash, vars, wvars
  <2>. QED BY <1>0, <2>1, QuietWorker
<1>2. ASSUME NEW w \in Workers, w = v, Acts(w)
      PROVE  CopyBounded(v)' /\ CopySettled(v)'
  <2>0. TypeOK'
    BY NextIInv DEF IInv
  <2>1. CASE WorkReserve(w)
    <3>1. PICK j \in Jobs :
            /\ Reserve(j)
            /\ held' = [held EXCEPT ![w] = j]
            /\ copy' = [copy EXCEPT ![w] = [rc |-> retryCount[j],
                                            until |-> 0, retry |-> FALSE]]
      BY <2>1 DEF WorkReserve
    <3>2. pc'[w] = "reserved" /\ failures' = failures
      BY <2>1 DEF WorkReserve, gvars, TypeOK
    <3>3. retryCount[j] <= failures[j]
      BY DEF RetryBoundedByFailures
    <3>. QED BY <1>2, <3>1, <3>2, <3>3 DEF CopyBounded, CopySettled, Busy, TypeOK
  <2>2. CASE Poll(w) \/ Halt(w)
    <3>1. pc'[v] = pc[v] /\ held'[v] = held[v] /\ copy'[v] = copy[v]
      BY <2>2 DEF Poll, Halt, vars, wvars
    <3>. QED BY <1>0, <3>1, QuietWorker
  <2>3. CASE Exit(w) \/ Finish(w) \/ Crash(w)
    <3>1. pc'[w] \in {"idle", "stopped"}
      BY <2>3 DEF Exit, Finish, Crash, TypeOK
    <3>. QED BY <1>2, <3>1 DEF CopyBounded, CopySettled, Busy
  <2>4. CASE Deliver(w)
    <3> DEFINE j == held[w]
    <3>1. j \in Jobs /\ held'[w] = j /\ pc[w] = "reserved"
      BY <2>4 DEF Deliver, HeldWhenBusy, Busy
    <3>2. copy[w].rc <= failures[j]
      BY <1>0, <1>2, <3>1 DEF CopyBounded, Busy
    <3>3. ASSUME FailAttempt(w, j), pc'[w] \in {"sent", "done"}
          PROVE  CopyBounded(v)' /\ CopySettled(v)'
      <4>1. /\ copy'[w].retry \/ failures'[j] >= MaxRetries + 1
            /\ copy'[w].rc <= failures'[j]
        BY <3>1, <3>3, FailAttemptSettles DEF Busy
      <4>2. ~copy'[w].retry => Settled(j)'
        BY <3>1, <4>1 DEF Settled
      <4>. QED BY <1>2, <3>1, <3>3, <4>1, <4>2 DEF CopyBounded, CopySettled
    <3>4. ASSUME copy' = copy, failures' = failures, Settled(j)'
          PROVE  CopyBounded(v)' /\ CopySettled(v)'
      BY <1>2, <3>1, <3>2, <3>4 DEF CopyBounded, CopySettled
    <3>5. \A n \in 0..CountCap : Inc(n) >= 1
      BY CountCapAssumption, MaxRetriesAssumption DEF Inc
    <3>6. CASE MalformedPayload(w, j) \/ RecipientLookupFailed(w, j)
      <4>1. FailAttempt(w, j) /\ pc'[w] = "done"
        BY <3>6 DEF MalformedPayload, RecipientLookupFailed, TypeOK
      <4>. QED BY <3>3, <4>1
    <3>7. CASE DetermineStrategy(w, j)
      <4>1. Settled(j)'
        BY <3>1, <3>5, <3>7 DEF DetermineStrategy, Settled, TypeOK
      <4>. QED BY <3>4, <3>7, <4>1 DEF DetermineStrategy
    <3>8. CASE Suppress(w, j)
      <4>1. Settled(j)'
        BY <3>1, <3>8 DEF Suppress, Settled, Undeliverable
      <4>. QED BY <3>4, <3>8, <4>1 DEF Suppress
    <3>9. CASE SendMail(w, j)
      <4>1. PICK o \in {"delivered", "failed", "unavailable"} :
              IF o = "delivered"
                THEN /\ sends' = [sends EXCEPT ![j] = Inc(@)]
                     /\ UNCHANGED <<copy, failures>>
                ELSE /\ FailAttempt(w, j)
                     /\ UNCHANGED sends
        BY <3>9 DEF SendMail
      <4>2. pc'[w] = "sent"
        BY <3>9 DEF SendMail, TypeOK
      <4>3. CASE o = "delivered"
        <5>1. Settled(j)'
          BY <3>1, <3>5, <3>9, <4>1, <4>3 DEF SendMail, Settled, TypeOK
        <5>. QED BY <3>4, <4>1, <4>3, <5>1
      <4>4. CASE o # "delivered"
        BY <3>3, <4>1, <4>2, <4>4
      <4>. QED BY <4>3, <4>4
    <3>. QED BY <2>4, <3>6, <3>7, <3>8, <3>9 DEF Deliver
  <2>5. CASE Record(w)
    <3> DEFINE j == held[w]
    <3>1. j \in Jobs /\ held'[w] = j /\ pc[w] = "sent" /\ pc'[w] = "done"
      BY <2>5 DEF Record, HeldWhenBusy, Busy, TypeOK
    <3>2. CASE FailAttempt(w, j)
      <4>1. /\ copy'[w].retry \/ failures'[j] >= MaxRetries + 1
            /\ copy'[w].rc <= failures'[j]
        BY <3>1, <3>2, FailAttemptSettles DEF Busy
      <4>2. ~copy'[w].retry => Settled(j)'
        BY <3>1, <4>1 DEF Settled
      <4>. QED BY <1>2, <3>1, <4>1, <4>2 DEF CopyBounded, CopySettled
    <3>3. CASE copy' = copy /\ failures' = failures
      <4>1. copy[w].rc <= failures[j] /\ (~copy[w].retry => Settled(j))
        BY <1>0, <1>2, <3>1 DEF CopyBounded, CopySettled, Busy
      <4>2. Settled(j) => Settled(j)'
        BY <3>1, SettledStays
      <4>. QED BY <1>2, <3>1, <3>3, <4>1, <4>2 DEF CopyBounded, CopySettled
    <3>. QED BY <2>5, <3>2, <3>3 DEF Record
  <2>. QED BY <1>2, <2>1, <2>2, <2>3, <2>4, <2>5
<1>3. CASE Tick \/ PoolStopped \/ UNCHANGED vars
  <2>1. pc'[v] = pc[v] /\ held'[v] = held[v]
        /\ copy'[v].rc = copy[v].rc /\ copy'[v].retry = copy[v].retry
    <3>1. CASE Tick
      <4>1. copy[v] \in JobCopy
        BY DEF TypeOK
      <4>. QED BY <3>1, <4>1 DEF Tick, JobCopy
    <3>2. CASE PoolStopped \/ UNCHANGED vars
      BY <3>2 DEF PoolStopped, vars, wvars
    <3>. QED BY <1>3, <3>1, <3>2
  <2>. QED BY <1>0, <2>1, QuietWorker
<1>. QED BY <1>1, <1>2, <1>3 DEF Next

\* Every step keeps the whole invariant: the loop deletes only the row of a
\* worker whose copy does not ask for a retry, and a requeue writes back a
\* RetryCount already bounded by the failures.
LEMMA NextSInv == IInv /\ SInv /\ [Next]_vars => SInv'
<1> SUFFICES ASSUME TypeOK, HeldWhenBusy, RetryBoundedByFailures,
                    SettledBeforeDelete, JobDeletedOnlyWhenSettled, [Next]_vars
             PROVE  SInv'
  BY DEF IInv, SInv
<1>0. TypeOK'
  BY NextIInv DEF IInv
<1>1. \A v \in Workers : CopyBounded(v)' /\ CopySettled(v)'
  BY NextWorkers
<1>2. CASE \E w \in Workers : Finish(w)
  <2>1. PICK w \in Workers : Finish(w)
    BY <1>2
  <2> DEFINE j == held[w]
  <2>2. j \in Jobs /\ pc[w] = "done" /\ failures' = failures
    BY <2>1 DEF Finish, HeldWhenBusy, Busy, gvars
  <2>3. CASE copy[w].retry
    <3>1. queued' = queued
      BY <2>1, <2>3 DEF Finish, Requeue
    <3>2. \A k \in Jobs : retryCount'[k] <= failures'[k]
      <4>1. copy[w].rc <= failures[j]
        BY <2>2 DEF RetryBoundedByFailures, CopyBounded, Busy
      <4>. QED BY <2>1, <2>2, <2>3, <4>1
           DEF Finish, Requeue, RetryBoundedByFailures, TypeOK
    <3>3. JobDeletedOnlyWhenSettled'
      BY <3>1, SettledStays DEF JobDeletedOnlyWhenSettled, QueueTypeOK, TypeOK
    <3>. QED BY <1>1, <3>2, <3>3 DEF SInv, RetryBoundedByFailures,
             SettledBeforeDelete
  <2>4. CASE ~copy[w].retry
    <3>1. queued' = queued \ {j} /\ retryCount' = retryCount
      BY <2>1, <2>4 DEF Finish, Dequeue
    <3>2. Settled(j)
      BY <2>2, <2>4 DEF SettledBeforeDelete, CopySettled
    <3>3. JobDeletedOnlyWhenSettled'
      BY <2>2, <3>1, <3>2, SettledStays
      DEF JobDeletedOnlyWhenSettled, QueueTypeOK, TypeOK
    <3>. QED BY <1>1, <2>2, <3>1, <3>3 DEF SInv, RetryBoundedByFailures,
             SettledBeforeDelete
  <2>. QED BY <2>3, <2>4
<1>3. CASE ~\E w \in Workers : Finish(w)
  <2>1. queued' = queued /\ retryCount' = retryCount
    BY <1>3 DEF Next, WorkReserve, Reserve, Poll, Halt, Exit, Deliver,
       Record, Crash, Tick, Elapse, PoolStopped, vars, qvars
  <2>2. \A k \in Jobs : failures'[k] >= failures[k]
    BY CountersGrow
  <2>3. \A k \in Jobs : retryCount'[k] <= failures'[k]
    BY <1>0, <2>1, <2>2 DEF RetryBoundedByFailures, TypeOK
  <2>4. JobDeletedOnlyWhenSettled'
    BY <2>1, SettledStays DEF JobDeletedOnlyWhenSettled, QueueTypeOK, TypeOK
  <2>. QED BY <1>1, <2>3, <2>4 DEF SInv, RetryBoundedByFailures,
           SettledBeforeDelete
<1>. QED BY <1>2, <1>3

\* The delivery loop deletes a job row only once its work is settled: the
\* campaign was handed to Determine, the message was sent or found
\* undeliverable, or MaxRetries + 1 attempts failed -- for every pool,
\* lease and ceiling, through crashes, lease races and stale write-backs.
THEOREM DeletedJobsSettled == Spec => []JobDeletedOnlyWhenSettled
<1>1. Init => IInv /\ SInv
  BY InitIInv, InitSInv
<1>2. IInv /\ SInv /\ [Next]_vars => (IInv /\ SInv)'
  BY NextIInv, NextSInv
<1>3. Spec => [](IInv /\ SInv)
  BY <1>1, <1>2, PTL DEF Spec
<1>. QED BY <1>3, PTL DEF SInv

\* Every state of the pool satisfies the invariants of the safety proofs.
LEMMA SpecInvariants == Spec => [](IInv /\ SInv)
<1>1. Init => IInv /\ SInv
  BY InitIInv, InitSInv
<1>2. IInv /\ SInv /\ [Next]_vars => (IInv /\ SInv)'
  BY NextIInv, NextSInv
<1>. QED BY <1>1, <1>2, PTL DEF Spec

\* Neither the row's retry_count nor a worker's in-memory RetryCount ever
\* runs ahead of the attempts of the job that failed, although a slow
\* lease holder writes back a stale count.
THEOREM RetryCountsBounded == Spec => []RetryBoundedByFailures
BY SpecInvariants, PTL DEF SInv
=============================================================================
