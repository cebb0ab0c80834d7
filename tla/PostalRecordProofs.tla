-------------------------- MODULE PostalRecordProofs --------------------------
(***************************************************************************)
(* Proofs about what the persistence writes after a send leave behind:    *)
(* a suppressed recipient is never mailed and gets no receipt            *)
(* (SuppressionRespected), and every receipt and delivered status is     *)
(* backed by an accepted send (RecordsReflectSends).  Neither invariant   *)
(* is inductive alone, because Record writes what the worker's own send   *)
(* stage decided earlier, after any number of steps of other workers.    *)
(* The strengthenings are therefore about the workers at pc "sent":      *)
(* SuppressedOutcome for the first invariant, and DeliveredBacked with   *)
(* ReceiptsCovered for the second.  ReceiptsCovered counts the receipts  *)
(* those workers may still write.                                        *)
(***************************************************************************)
EXTENDS PostalSettledProofs, FiniteSetTheorems

\* The recipients the DeliveryWorker test protects are among those the
\* suppression and address checks turn away: an EmailOf that is "none"
\* or "malformed" is not "valid".
LEMMA SuppressedUndeliverable ==
    ASSUME NEW u \in Users, TestSuppressed(u)
    PROVE  Undeliverable(u)
BY DEF TestSuppressed, Undeliverable

\* The strengthening under which SuppressionRespected is inductive: a
\* worker that is to write the status of a suppressed recipient's job
\* writes undeliverable, whichever lease race or retry brought it there.
SuppressedOutcome ==
    \A w \in Workers :
        /\ pc[w] = "sent"
        /\ JobKind[held[w]] = "delivery"
        /\ TestSuppressed(JobUser[held[w]])
        => outcome[w] = "undeliverable"

SupInv == SuppressedOutcome /\ SuppressionRespected

\* The suppression invariant holds initially.
LEMMA InitSupInv == Init => SupInv
BY DEF Init, SupInv, SuppressedOutcome, SuppressionRespected, SuppressionHolds

\* Every step keeps the suppression invariant.
LEMMA NextSupInv == IInv /\ SupInv /\ [Next]_vars => SupInv'
<1> SUFFICES ASSUME TypeOK, HeldWhenBusy, SupInv, [Next]_vars PROVE SupInv'
  BY DEF IInv
<1>0. TypeOK'
  BY NextIInv DEF IInv
<1> DEFINE Sup(j) == JobKind[j] = "delivery" /\ TestSuppressed(JobUser[j])
<1> USE DEF SupInv, SuppressedOutcome, SuppressionRespected, SuppressionHolds, TypeOK,
            vars, qvars, wvars, gvars
<1>1. ASSUME NEW w \in Workers, WorkReserve(w) \/ Poll(w) \/ Halt(w) \/ Exit(w)
      PROVE  SupInv'
  BY <1>0, <1>1 DEF WorkReserve, Poll, Halt, Exit
<1>2. ASSUME NEW w \in Workers, Deliver(w) PROVE SupInv'
  <2> DEFINE j == held[w]
  <2>1. j \in Jobs /\ held' = held
    BY <1>2 DEF Deliver, HeldWhenBusy, Busy
  <2>2. CASE MalformedPayload(w, j) \/ DetermineStrategy(w, j)
             \/ RecipientLookupFailed(w, j)
    BY <1>0, <1>2, <2>1, <2>2
    DEF Deliver, MalformedPayload, DetermineStrategy, RecipientLookupFailed
  <2>3. CASE Suppress(w, j)
    BY <1>0, <1>2, <2>1, <2>3 DEF Deliver, Suppress
  <2>4. CASE SendMail(w, j)
    <3>1. ~Sup(j)
      BY <2>1, <2>4, SuppressedUndeliverable, EnvironmentAssumption
      DEF SendMail
    <3>2. \A k \in Jobs \ {j} : sends'[k] = sends[k]
      BY <2>1, <2>4 DEF SendMail
    <3>. QED BY <1>0, <1>2, <2>1, <2>4, <3>1, <3>2 DEF Deliver, SendMail
  <2>. QED BY <1>2, <2>2, <2>3, <2>4 DEF Deliver
<1>3. ASSUME NEW w \in Workers, Record(w) PROVE SupInv'
  <2> DEFINE j == held[w]
  <2>1. j \in Jobs /\ held' = held /\ outcome' = outcome
    BY <1>3 DEF Record, HeldWhenBusy, Busy
  <2>2. CASE Sup(j)
    <3>1. outcome[w] = "undeliverable"
      BY <1>3, <2>1, <2>2 DEF Record
    <3>2. receipts' = receipts
      BY <1>3, <3>1 DEF Record
    <3>3. status' = [status EXCEPT ![j] = "undeliverable"] \/ status' = status
      BY <1>3, <3>1 DEF Record
    <3>. QED BY <1>0, <1>3, <2>1, <3>2, <3>3 DEF Record
  <2>3. CASE ~Sup(j)
    <3>1. \A k \in Jobs \ {j} : receipts'[k] = receipts[k] /\ status'[k] = status[k]
      BY <1>3, <2>1 DEF Record, FailAttempt
    <3>. QED BY <1>0, <1>3, <2>1, <2>3, <3>1 DEF Record
  <2>. QED BY <2>2, <2>3
<1>4. ASSUME NEW w \in Workers, Finish(w) \/ Crash(w) PROVE SupInv'
  BY <1>0, <1>4 DEF Finish, Crash
<1>5. CASE Tick \/ PoolStopped \/ UNCHANGED vars
  BY <1>0, <1>5 DEF Tick, PoolStopped
<1>. QED BY <1>1, <1>2, <1>3, <1>4, <1>5 DEF Next

\* A recipient who is globally or per kind unsubscribed from a kind that
\* is not critical, or without a usable address, is never mailed, gets no
\* receipt and no status but undeliverable, for every pool and job set,
\* through retries, crashes and the lease races of Reserve.
THEOREM SuppressedNeverMailed == Spec => []SuppressionRespected
<1>1. Init => IInv /\ SupInv
  BY InitIInv, InitSupInv
<1>2. IInv /\ SupInv /\ [Next]_vars => (IInv /\ SupInv)'
  BY NextIInv, NextSupInv
<1>. QED BY <1>1, <1>2, PTL DEF Spec, SupInv

-----------------------------------------------------------------------------
(* Receipts and delivered statuses.                                        *)

\* A delivered status in the messages table is backed by an accepted send.
StatusBacked ==
    \A j \in Jobs : status[j] = "delivered" => sends[j] >= 1

\* A worker that is to write a delivered status holds a job whose send
\* was accepted.
DeliveredBacked ==
    \A w \in Workers :
        pc[w] = "sent" /\ outcome[w] = "delivered" => sends[held[w]] >= 1

RInv == DeliveredBacked /\ ReceiptsCovered /\ StatusBacked

\* A set of workers of the pool is finite.
LEMMA WorkerSubsetFinite ==
    ASSUME NEW S \in SUBSET Workers
    PROVE  IsFiniteSet(S) /\ Cardinality(S) \in Nat
BY WorkersAssumption, FS_Subset, FS_CardinalityType

\* Two sets of workers that differ at most in x have cardinalities that
\* differ by x's membership.
LEMMA CardSwap ==
    ASSUME NEW S \in SUBSET Workers, NEW T \in SUBSET Workers, NEW x,
           T \ {x} = S \ {x}
    PROVE  /\ x \notin T => Cardinality(T) <= Cardinality(S)
           /\ x \notin S /\ x \in T => Cardinality(T) = Cardinality(S) + 1
           /\ x \in S /\ x \notin T => Cardinality(T) = Cardinality(S) - 1
<1>1. IsFiniteSet(S) /\ Cardinality(S) \in Nat
      /\ IsFiniteSet(T) /\ Cardinality(T) \in Nat
  BY WorkerSubsetFinite
<1>2. Cardinality(S \ {x}) = IF x \in S THEN Cardinality(S) - 1 ELSE Cardinality(S)
  BY <1>1, FS_RemoveElement
<1>3. Cardinality(T \ {x}) = IF x \in T THEN Cardinality(T) - 1 ELSE Cardinality(T)
  BY <1>1, FS_RemoveElement
<1>. QED BY <1>1, <1>2, <1>3

\* A step that moves no other worker changes SentDelivered(j) at most in
\* the acting worker.
LEMMA SentDeliveredFrame ==
    ASSUME NEW w \in Workers,
           \A v \in Workers \ {w} : /\ pc'[v] = pc[v] /\ held'[v] = held[v]
                                    /\ outcome'[v] = outcome[v],
           NEW j
    PROVE  SentDelivered(j)' \ {w} = SentDelivered(j) \ {w}
BY DEF SentDelivered

\* A step of w that leaves w out of every SentDelivered set, accepts no
\* send, and writes at most the one receipt w was owed keeps the receipts
\* covered.
LEMMA CoverStep ==
    ASSUME TypeOK, TypeOK', ReceiptsCovered, NEW w \in Workers,
           \A v \in Workers \ {w} : /\ pc'[v] = pc[v] /\ held'[v] = held[v]
                                    /\ outcome'[v] = outcome[v],
           \A j \in Jobs : w \notin SentDelivered(j)',
           sends' = sends,
           \A j \in Jobs : \/ receipts'[j] <= receipts[j]
                           \/ w \in SentDelivered(j) /\ receipts'[j] <= receipts[j] + 1
    PROVE  ReceiptsCovered'
<1> SUFFICES ASSUME NEW j \in Jobs
             PROVE  \/ sends'[j] = CountCap
                    \/ receipts'[j] + Cardinality(SentDelivered(j)') <= sends'[j]
  BY DEF ReceiptsCovered
<1>1. SentDelivered(j) \in SUBSET Workers /\ SentDelivered(j)' \in SUBSET Workers
  BY DEF SentDelivered
<1>2. SentDelivered(j)' \ {w} = SentDelivered(j) \ {w}
  BY SentDeliveredFrame
<1>3. /\ Cardinality(SentDelivered(j)') <= Cardinality(SentDelivered(j))
      /\ w \in SentDelivered(j) =>
           Cardinality(SentDelivered(j)') = Cardinality(SentDelivered(j)) - 1
  BY <1>1, <1>2, CardSwap
<1>4. Cardinality(SentDelivered(j)) \in Nat /\ Cardinality(SentDelivered(j)') \in Nat
  BY <1>1, WorkerSubsetFinite
<1>. QED BY <1>3, <1>4 DEF ReceiptsCovered, TypeOK

\* A step of w that moves no other worker, lowers no send count and
\* leaves w backed keeps every delivered outcome backed.
LEMMA BackedStep ==
    ASSUME TypeOK, TypeOK', HeldWhenBusy, DeliveredBacked, NEW w \in Workers,
           \A v \in Workers \ {w} : /\ pc'[v] = pc[v] /\ held'[v] = held[v]
                                    /\ outcome'[v] = outcome[v],
           \A j \in Jobs : sends'[j] >= sends[j],
           pc'[w] = "sent" /\ outcome'[w] = "delivered" => sends'[held'[w]] >= 1
    PROVE  DeliveredBacked'
<1> SUFFICES ASSUME NEW v \in Workers \ {w}, pc'[v] = "sent",
                    outcome'[v] = "delivered"
             PROVE  sends'[held'[v]] >= 1
  BY DEF DeliveredBacked
<1>1. held[v] \in Jobs /\ sends[held[v]] >= 1
  BY DEF HeldWhenBusy, Busy, DeliveredBacked
<1>. QED BY <1>1 DEF TypeOK

\* The receipt and status invariant holds initially.
LEMMA InitRInv == Init => RInv
<1> SUFFICES ASSUME Init PROVE RInv
  OBVIOUS
<1>1. \A j \in Jobs : SentDelivered(j) = {}
  BY DEF Init, SentDelivered
<1>. QED BY <1>1, FS_EmptySet
     DEF Init, RInv, DeliveredBacked, ReceiptsCovered, StatusBacked

\* Every step keeps the receipt and status invariant.
LEMMA NextRInv == IInv /\ RInv /\ [Next]_vars => RInv'
<1> SUFFICES ASSUME TypeOK, HeldWhenBusy, RInv, [Next]_vars PROVE RInv'
  BY DEF IInv
<1>0. TypeOK'
  BY NextIInv DEF IInv
<1>1. \A j \in Jobs : sends'[j] >= sends[j]
  BY CountersGrow
<1> DEFINE Frame(w) ==
      \A v \in Workers \ {w} : /\ pc'[v] = pc[v] /\ held'[v] = held[v]
                               /\ outcome'[v] = outcome[v]
           Left(w) == \A j \in Jobs : w \notin SentDelivered(j)'
           Owed(w) == \A j \in Jobs :
                        \/ receipts'[j] <= receipts[j]
                        \/ w \in SentDelivered(j) /\ receipts'[j] <= receipts[j] + 1
<1> USE DEF RInv, TypeOK, vars, qvars, wvars, gvars
\* The steps that move no worker's pc, job or outcome and write nothing.
<1>2. CASE UNCHANGED <<pc, held, outcome, status, sends, receipts>>
  BY <1>0, <1>2 DEF DeliveredBacked, ReceiptsCovered, StatusBacked,
     SentDelivered
\* A worker step that takes the worker out of every SentDelivered set and
\* accepts no send.
<1>3. ASSUME NEW w \in Workers, Frame(w), Left(w), Owed(w), sends' = sends,
             pc'[w] # "sent",
             \A j \in Jobs : status'[j] # status[j] =>
                 j = held[w] /\ pc[w] = "sent" /\ status'[j] = outcome[w]
      PROVE  RInv'
  <2>1. ReceiptsCovered'
    BY <1>0, <1>3, CoverStep
  <2>2. DeliveredBacked'
    BY <1>0, <1>1, <1>3, BackedStep
  <2>3. StatusBacked'
    BY <1>3 DEF StatusBacked, DeliveredBacked
  <2>. QED BY <2>1, <2>2, <2>3
<1>4. ASSUME NEW w \in Workers, WorkReserve(w) \/ Exit(w) \/ Finish(w) \/ Crash(w)
      PROVE  RInv'
  <2>1. Frame(w) /\ sends' = sends /\ receipts' = receipts /\ status' = status
        /\ pc'[w] \notin {"sent"}
    BY <1>4 DEF WorkReserve, Exit, Finish, Crash
  <2>2. Left(w)
    BY <2>1 DEF SentDelivered
  <2>. QED BY <1>3, <2>1, <2>2
<1>5. ASSUME NEW w \in Workers, Poll(w) \/ Halt(w) PROVE RInv'
  BY <1>2, <1>5 DEF Poll, Halt
<1>6. ASSUME NEW w \in Workers, Deliver(w) PROVE RInv'
  <2> DEFINE j0 == held[w]
  <2>1. j0 \in Jobs /\ held' = held /\ w \notin SentDelivered(j0)
        /\ \A j \in Jobs : w \notin SentDelivered(j)
    BY <1>6 DEF Deliver, HeldWhenBusy, Busy, SentDelivered
  <2>2. Frame(w)
    BY <1>6 DEF Deliver, MalformedPayload, DetermineStrategy,
       RecipientLookupFailed, Suppress, SendMail, FailAttempt
  <2>3. CASE MalformedPayload(w, j0) \/ DetermineStrategy(w, j0)
             \/ RecipientLookupFailed(w, j0) \/ Suppress(w, j0)
    <3>1. sends' = sends /\ receipts' = receipts /\ status' = status
          /\ (pc'[w] = "done" \/ outcome'[w] = "undeliverable")
      BY <2>3 DEF MalformedPayload, DetermineStrategy,
         RecipientLookupFailed, Suppress
    <3>2. Left(w)
      BY <2>1, <3>1 DEF SentDelivered
    <3>3. pc'[w] # "sent" \/ outcome'[w] # "delivered"
      BY <3>1
    <3>4. ReceiptsCovered'
      BY <1>0, <2>1, <2>2, <3>1, <3>2, CoverStep
    <3>5. DeliveredBacked'
      BY <1>0, <1>1, <2>2, <3>3, BackedStep
    <3>6. StatusBacked'
      BY <3>1 DEF StatusBacked
    <3>. QED BY <3>4, <3>5, <3>6
  <2>4. CASE SendMail(w, j0)
    <3>1. PICK o \in {"delivered", "failed", "unavailable"} :
            /\ outcome' = [outcome EXCEPT ![w] = o]
            /\ IF o = "delivered"
                 THEN /\ sends' = [sends EXCEPT ![j0] = Inc(@)]
                      /\ UNCHANGED <<copy, failures>>
                 ELSE /\ FailAttempt(w, j0)
                      /\ UNCHANGED sends
      BY <2>4 DEF SendMail
    <3>2. receipts' = receipts /\ status' = status /\ pc'[w] = "sent"
      BY <2>4 DEF SendMail
    <3>3. CASE o # "delivered"
      <4>1. Left(w) /\ sends' = sends
        BY <3>1, <3>3 DEF SentDelivered, FailAttempt
      <4>2. ReceiptsCovered'
        BY <1>0, <2>1, <2>2, <3>2, <4>1, CoverStep
      <4>3. DeliveredBacked'
        BY <1>0, <1>1, <2>2, <3>1, <3>3, BackedStep
      <4>4. StatusBacked'
        BY <3>2, <4>1 DEF StatusBacked
      <4>. QED BY <4>2, <4>3, <4>4
    <3>4. CASE o = "delivered"
      <4>1. sends' = [sends EXCEPT ![j0] = Inc(@)]
        BY <3>1, <3>4
      <4>2. Inc(sends[j0]) >= 1 /\ Inc(sends[j0]) >= sends[j0]
            /\ (sends[j0] < CountCap => Inc(sends[j0]) = sends[j0] + 1)
            /\ (sends[j0] = CountCap => Inc(sends[j0]) = CountCap)
        BY <2>1, CountCapAssumption, MaxRetriesAssumption DEF Inc
      <4>3. DeliveredBacked'
        <5>1. sends'[j0] >= 1
          BY <2>1, <4>1, <4>2
        <5>. QED BY <1>0, <1>1, <2>1, <2>2, <5>1, BackedStep
      <4>4. ReceiptsCovered'
        <5> SUFFICES ASSUME NEW j \in Jobs
                     PROVE  \/ sends'[j] = CountCap
                            \/ receipts'[j] + Cardinality(SentDelivered(j)') <= sends'[j]
          BY DEF ReceiptsCovered
        <5>1. SentDelivered(j) \in SUBSET Workers
              /\ SentDelivered(j)' \in SUBSET Workers
          BY DEF SentDelivered
        <5>2. SentDelivered(j)' \ {w} = SentDelivered(j) \ {w}
          BY <2>2, SentDeliveredFrame
        <5>3. Cardinality(SentDelivered(j)) \in Nat
              /\ Cardinality(SentDelivered(j)') \in Nat
          BY <5>1, WorkerSubsetFinite
        <5>4. CASE j = j0
          <6>1. w \in SentDelivered(j)'
            BY <2>1, <3>1, <3>2, <3>4, <5>4 DEF SentDelivered
          <6>2. Cardinality(SentDelivered(j)') = Cardinality(SentDelivered(j)) + 1
            BY <2>1, <5>1, <5>2, <5>4, <6>1, CardSwap
          <6>3. sends'[j] = Inc(sends[j])
            BY <2>1, <4>1, <5>4
          <6>4. sends[j] = CountCap \/ receipts[j] + Cardinality(SentDelivered(j)) <= sends[j]
            BY DEF ReceiptsCovered
          <6>5. CASE sends[j] = CountCap
            BY <4>2, <5>4, <6>3, <6>5
          <6>6. CASE sends[j] # CountCap
            <7>0. sends[j] < CountCap /\ Inc(sends[j]) = sends[j] + 1
              BY <4>2, <5>4, <6>6, CountCapAssumption DEF TypeOK
            <7>1. sends'[j] = sends[j] + 1
              BY <6>3, <7>0
            <7>. QED BY <3>2, <5>3, <6>2, <6>4, <6>6, <7>1
          <6>. QED BY <6>5, <6>6
        <5>5. CASE j # j0
          <6>1. w \notin SentDelivered(j)'
            BY <2>1, <5>5 DEF SentDelivered
          <6>2. Cardinality(SentDelivered(j)') <= Cardinality(SentDelivered(j))
            BY <5>1, <5>2, <6>1, CardSwap
          <6>3. sends'[j] = sends[j]
            BY <2>1, <4>1, <5>5
          <6>4. sends[j] = CountCap \/ receipts[j] + Cardinality(SentDelivered(j)) <= sends[j]
            BY DEF ReceiptsCovered
          <6>. QED BY <3>2, <5>3, <6>2, <6>3, <6>4
        <5>. QED BY <5>4, <5>5
      <4>5. StatusBacked'
        BY <1>0, <1>1, <3>2 DEF StatusBacked
      <4>. QED BY <4>3, <4>4, <4>5
    <3>. QED BY <3>3, <3>4
  <2>. QED BY <1>6, <2>3, <2>4 DEF Deliver
<1>7. ASSUME NEW w \in Workers, Record(w) PROVE RInv'
  <2> DEFINE j0 == held[w]
  <2>1. j0 \in Jobs /\ held' = held /\ outcome' = outcome /\ sends' = sends
        /\ pc'[w] = "done"
    BY <1>7 DEF Record, HeldWhenBusy, Busy
  <2>2. Frame(w) /\ Left(w)
    BY <1>7, <2>1 DEF Record, SentDelivered
  <2>3. Owed(w)
    <3> SUFFICES ASSUME NEW j \in Jobs
                 PROVE  \/ receipts'[j] <= receipts[j]
                        \/ w \in SentDelivered(j) /\ receipts'[j] <= receipts[j] + 1
      OBVIOUS
    <3>1. CASE outcome[w] = "delivered" /\ receipts' = [receipts EXCEPT ![j0] = Inc(@)]
      <4>1. Inc(receipts[j0]) <= receipts[j0] + 1
        BY <2>1, CountCapAssumption DEF Inc
      <4>2. w \in SentDelivered(j0)
        BY <1>7, <2>1, <3>1 DEF Record, SentDelivered
      <4>. QED BY <2>1, <3>1, <4>1, <4>2
    <3>2. CASE receipts' = receipts
      BY <3>2
    <3>. QED BY <1>7, <3>1, <3>2 DEF Record, FailAttempt
  <2>4. \A j \in Jobs : status'[j] # status[j] =>
          j = held[w] /\ pc[w] = "sent" /\ status'[j] = outcome[w]
    BY <1>7 DEF Record
  <2>. QED BY <1>3, <2>1, <2>2, <2>3, <2>4
<1>8. CASE Tick \/ PoolStopped
  BY <1>2, <1>8 DEF Tick, PoolStopped
<1>9. CASE UNCHANGED vars
  BY <1>2, <1>9
<1>. QED BY <1>4, <1>5, <1>6, <1>7, <1>8, <1>9 DEF Next

\* Every receipt, and every delivered status in the messages table, is
\* backed by a message the mail client accepted, for every pool and job
\* set: across two lease holders of one job that both send, a crash
\* between a send and its writes, and retried attempts.
THEOREM RecordsBacked == Spec => []RecordsReflectSends
<1>1. Init => IInv /\ RInv
  BY InitIInv, InitRInv
<1>2. IInv /\ RInv /\ [Next]_vars => (IInv /\ RInv)'
  BY NextIInv, NextRInv
<1>3. TypeOK /\ RInv => RecordsReflectSends
  <2> SUFFICES ASSUME TypeOK, RInv, NEW j \in Jobs
               PROVE  receipts[j] <= sends[j] /\ (status[j] = "delivered" => sends[j] >= 1)
    BY DEF RecordsReflectSends
  <2>1. Cardinality(SentDelivered(j)) \in Nat
    BY WorkerSubsetFinite DEF SentDelivered
  <2>. QED BY <2>1 DEF TypeOK, RInv, ReceiptsCovered, StatusBacked
<1>. QED BY <1>1, <1>2, <1>3, PTL DEF Spec, IInv

\* Both parts of the counting argument hold of every behaviour.
LEMMA RInvHolds == Spec => [](IInv /\ RInv)
<1>1. Init => IInv /\ RInv
  BY InitIInv, InitRInv
<1>2. IInv /\ RInv /\ [Next]_vars => (IInv /\ RInv)'
  BY NextIInv, NextRInv
<1>. QED BY <1>1, <1>2, PTL DEF Spec

\* The receipts of a job plus the receipts its workers past an accepted
\* send may still write never outnumber the accepted sends (below the
\* counter's cap): a receipt write that follows a crash or a lost lease
\* has a send of its own to account for it.
THEOREM ReceiptsNeverOutrunSends == Spec => []ReceiptsCovered
BY RInvHolds, PTL DEF RInv
=============================================================================
