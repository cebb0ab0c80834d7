---------------------------- MODULE PostalProofs ----------------------------
(***************************************************************************)
(* Machine-checked proofs about the delivery worker pool of Postal.  The  *)
(* type invariant is not inductive alone: Deliver, Record and Finish use   *)
(* the job a worker holds, so it is proved together with HeldWhenBusy.    *)
(***************************************************************************)
EXTENDS Postal, TLAPS

IInv == TypeOK /\ HeldWhenBusy

\* retry(job) keeps the in-memory job well typed and under the ceiling.
LEMMA RetryJobType ==
    ASSUME NEW c \in JobCopy, c.rc \in 0..MaxRetries
    PROVE  /\ RetryJob(c) \in JobCopy
           /\ RetryJob(c).rc \in 0..MaxRetries
<1>1. CASE c.rc < MaxRetries
  <2>1. Backoff(c.rc) \in Nat
    BY <1>1, BackoffAssumption, MaxRetriesAssumption
  <2>. QED BY <1>1, <2>1, MaxRetriesAssumption DEF RetryJob, JobCopy
<1>2. CASE ~(c.rc < MaxRetries)
  BY <1>2 DEF RetryJob
<1>. QED BY <1>1, <1>2

\* A saturating counter stays within its cap.
LEMMA IncType ==
    ASSUME NEW n \in 0..CountCap
    PROVE  Inc(n) \in 0..CountCap
BY CountCapAssumption DEF Inc

\* A failed attempt keeps the worker copies and the failure counters typed.
LEMMA FailAttemptType ==
    ASSUME TypeOK, NEW w \in Workers, NEW j \in Jobs, FailAttempt(w, j)
    PROVE  /\ copy' \in [Workers -> JobCopy]
           /\ \A v \in Workers : copy'[v].rc \in 0..MaxRetries
           /\ failures' \in [Jobs -> 0..CountCap]
<1>1. RetryJob(copy[w]) \in JobCopy /\ RetryJob(copy[w]).rc \in 0..MaxRetries
  BY RetryJobType DEF TypeOK
<1>2. Inc(failures[j]) \in 0..CountCap
  BY IncType DEF TypeOK
<1>. QED BY <1>1, <1>2 DEF FailAttempt, TypeOK

\* The inductive invariant holds initially.
LEMMA InitIInv == Init => IInv
BY JobsAssumption, MaxRetriesAssumption, CountCapAssumption,
   MaxCrashesAssumption
DEF Init, QueueInit, IInv, TypeOK, QueueTypeOK, HeldWhenBusy, NoCopy,
    JobCopy, Status, PC, Busy, NoJob

\* Every step of the pool keeps the inductive invariant.
LEMMA NextIInv == IInv /\ [Next]_vars => IInv'
<1> SUFFICES ASSUME TypeOK, HeldWhenBusy, [Next]_vars PROVE IInv'
  BY DEF IInv
<1> USE DEF IInv, TypeOK, QueueTypeOK, HeldWhenBusy, vars, qvars, wvars, gvars
<1>1. ASSUME NEW w \in Workers, WorkReserve(w) PROVE IInv'
  <2>1. PICK j \in Jobs : Reserve(j) /\ held' = [held EXCEPT ![w] = j]
                        /\ copy' = [copy EXCEPT ![w] = [rc |-> retryCount[j],
                                         until |-> 0, retry |-> FALSE]]
    BY <1>1 DEF WorkReserve
  <2>2. copy' \in [Workers -> JobCopy]
    BY <2>1 DEF JobCopy
  <2>3. \A v \in Workers : copy'[v].rc \in 0..MaxRetries
    BY <2>1
  <2>4. untilActive' \in [Jobs -> Nat]
    BY <2>1, LeaseAssumption DEF Reserve
  <2>. QED BY <1>1, <2>1, <2>2, <2>3, <2>4
       DEF WorkReserve, Reserve, PC, Busy
<1>2. ASSUME NEW w \in Workers, Poll(w) PROVE IInv'
  BY <1>2 DEF Poll
<1>3. ASSUME NEW w \in Workers, Halt(w) PROVE IInv'
  BY <1>3 DEF Halt
<1>4. ASSUME NEW w \in Workers, Exit(w) PROVE IInv'
  BY <1>4, JobsAssumption DEF Exit, PC, Busy, NoJob
<1>5. ASSUME NEW w \in Workers, Deliver(w) PROVE IInv'
  <2> DEFINE j == held[w]
  <2>1. j \in Jobs
    BY <1>5 DEF Deliver, Busy
  <2>2. CASE MalformedPayload(w, j)
    BY <1>5, <2>1, <2>2, FailAttemptType DEF Deliver, MalformedPayload, PC, Busy
  <2>3. CASE DetermineStrategy(w, j)
    BY <1>5, <2>1, <2>3, IncType DEF Deliver, DetermineStrategy, PC, Busy
  <2>4. CASE RecipientLookupFailed(w, j)
    BY <1>5, <2>1, <2>4, FailAttemptType
    DEF Deliver, RecipientLookupFailed, PC, Busy
  <2>5. CASE Suppress(w, j)
    BY <1>5, <2>1, <2>5 DEF Deliver, Suppress, PC, Busy, Status
  <2>6. CASE SendMail(w, j)
    <3>1. PICK o \in {"delivered", "failed", "unavailable"} :
            /\ outcome' = [outcome EXCEPT ![w] = o]
            /\ IF o = "delivered"
                 THEN /\ sends' = [sends EXCEPT ![j] = Inc(@)]
                      /\ UNCHANGED <<copy, failures>>
                 ELSE /\ FailAttempt(w, j)
                      /\ UNCHANGED sends
      BY <2>6 DEF SendMail
    <3>2. CASE o = "delivered"
      BY <1>5, <2>1, <2>6, <3>1, <3>2, IncType
      DEF Deliver, SendMail, PC, Busy, Status
    <3>3. CASE o # "delivered"
      BY <1>5, <2>1, <2>6, <3>1, <3>3, FailAttemptType
      DEF Deliver, SendMail, PC, Busy, Status
    <3>. QED BY <3>2, <3>3
  <2>. QED BY <1>5, <2>2, <2>3, <2>4, <2>5, <2>6 DEF Deliver
<1>6. ASSUME NEW w \in Workers, Record(w) PROVE IInv'
  <2> DEFINE j == held[w]
             o == outcome[w]
  <2>1. j \in Jobs
    BY <1>6 DEF Record, Busy
  <2>2. status' \in [Jobs -> Status]
    BY <1>6, <2>1 DEF Record
  <2>3. /\ receipts' \in [Jobs -> 0..CountCap]
        /\ copy' \in [Workers -> JobCopy]
        /\ \A v \in Workers : copy'[v].rc \in 0..MaxRetries
        /\ failures' \in [Jobs -> 0..CountCap]
    BY <1>6, <2>1, IncType, FailAttemptType DEF Record
  <2>. QED BY <1>6, <2>2, <2>3 DEF Record, PC, Busy
<1>7. ASSUME NEW w \in Workers, Finish(w) PROVE IInv'
  <2> DEFINE j == held[w]
  <2>1. j \in Jobs
    BY <1>7 DEF Finish, Busy
  <2>2. QueueTypeOK' /\ retryCount' \in [Jobs -> 0..MaxRetries]
    <3>1. CASE copy[w].retry
      <4>1. copy[w].until \in Nat /\ copy[w].rc \in 0..MaxRetries
        BY DEF JobCopy
      <4>. QED BY <1>7, <2>1, <3>1, <4>1 DEF Finish, Requeue
    <3>2. CASE ~copy[w].retry
      BY <1>7, <2>1, <3>2 DEF Finish, Dequeue
    <3>. QED BY <3>1, <3>2
  <2>. QED BY <1>7, <2>2, MaxRetriesAssumption, JobsAssumption
       DEF Finish, NoCopy, NoJob, JobCopy, PC, Busy, Status
<1>8. ASSUME NEW w \in Workers, Crash(w) PROVE IInv'
  BY <1>8, MaxCrashesAssumption, MaxRetriesAssumption, JobsAssumption
  DEF Crash, NoCopy, NoJob, JobCopy, PC, Status, Busy
<1>9. CASE Tick
  <2>1. untilActive' \in [Jobs -> Nat]
    BY <1>9 DEF Tick, Elapse
  <2>2. copy' \in [Workers -> JobCopy]
        /\ \A v \in Workers : copy'[v].rc \in 0..MaxRetries
    <3>1. ASSUME NEW v \in Workers
          PROVE  /\ copy'[v] \in JobCopy
                 /\ copy'[v].rc = copy[v].rc
      <4>1. copy[v] \in JobCopy
        OBVIOUS
      <4>2. copy'[v] = [copy[v] EXCEPT !.until = IF @ > 0 THEN @ - 1 ELSE 0]
        BY <1>9 DEF Tick
      <4>3. copy'[v] = [rc |-> copy[v].rc,
                        until |-> IF copy[v].until > 0
                                    THEN copy[v].until - 1 ELSE 0,
                        retry |-> copy[v].retry]
        BY <4>1, <4>2 DEF JobCopy
      <4>. QED BY <4>1, <4>3 DEF JobCopy
    <3>. QED BY <1>9, <3>1 DEF Tick
  <2>. QED BY <1>9, <2>1, <2>2 DEF Tick, Elapse
<1>10. CASE PoolStopped
  BY <1>10 DEF PoolStopped
<1>11. CASE UNCHANGED vars
  BY <1>11
<1>. QED BY <1>1, <1>2, <1>3, <1>4, <1>5, <1>6, <1>7, <1>8, <1>9, <1>10,
            <1>11 DEF Next

\* Type correctness of the pool: every reachable state is well typed.
THEOREM TypeCorrect == Spec => []TypeOK
<1>1. Spec => []IInv
  BY InitIInv, NextIInv, PTL DEF Spec
<1>. QED BY <1>1, PTL DEF IInv
=============================================================================
