--------------------------- MODULE CampaignProofs ---------------------------
(***************************************************************************)
(* Machine-checked proofs about the campaign path of Campaign.  With an   *)
(* identity provider whose token load and AllUserGUIDs succeed, a         *)
(* campaign row is deleted only after its fan-out reached every platform  *)
(* user.  The invariant is not inductive alone: the worker that deletes   *)
(* the row must have enqueued, or failed to enqueue, every user, so the   *)
(* strengthening tracks the users a dispatch has already passed.          *)
(***************************************************************************)
EXTENDS Campaign, TLAPS

\* The identity provider answers every call.
HealthyIdP == ~TokenMayFail /\ ~GUIDsMayFail

Covered(j, u) == deliveries[j][u] >= 1 \/ enqueueFailed[j][u]

\* A busy worker holds a real campaign row.
HeldWhenBusy == \A w \in Workers : pc[w] # "idle" => held[w] \in Jobs

\* A worker in its Enqueue loop, or done, has covered the users it passed.
PassedCovered ==
    \A w \in Workers : pc[w] \in {"enqueuing", "done"} =>
      \A u \in PlatformUsers \ pending[w] : Covered(held[w], u)

\* A worker is done only after the loop went through every user.
DoneAfterLoop == \A w \in Workers : pc[w] = "done" => pending[w] = {}

CInv ==
    /\ CampaignTypeOK
    /\ HeldWhenBusy
    /\ PassedCovered
    /\ DoneAfterLoop
    /\ CampaignReachesEveryone

\* A saturating counter stays within its cap, and is positive after a step.
LEMMA IncFacts ==
    ASSUME NEW n \in 0..CountCap
    PROVE  /\ Inc(n) \in 0..CountCap
           /\ Inc(n) >= 1
BY CampaignAssumption DEF Inc

\* The inductive invariant holds initially.
LEMMA InitCInv == Init => CInv
BY CampaignAssumption, JobsAssumption
DEF Init, QueueInit, CInv, CampaignTypeOK, QueueTypeOK, HeldWhenBusy,
    PassedCovered, DoneAfterLoop, CampaignReachesEveryone, PC, NoJob

\* Enqueue(w) of a busy worker covers the user it takes out of pending[w]
\* and takes back no coverage.
LEMMA EnqueueStep ==
    ASSUME CampaignTypeOK, NEW w \in Workers, held[w] \in Jobs, Enqueue(w)
    PROVE  /\ pending'[w] \subseteq pending[w]
           /\ \A x \in Workers \ {w} : pending'[x] = pending[x]
           /\ \A u \in pending[w] \ pending'[w] : Covered(held[w], u)'
           /\ \A j \in Jobs, u \in PlatformUsers :
                Covered(j, u) => Covered(j, u)'
           /\ pending' \in [Workers -> SUBSET PlatformUsers]
           /\ deliveries' \in [Jobs -> [PlatformUsers -> 0..CountCap]]
           /\ enqueueFailed' \in [Jobs -> [PlatformUsers -> BOOLEAN]]
<1>1. PICK v \in pending[w] :
        /\ pending' = [pending EXCEPT ![w] = @ \ {v}]
        /\ \/ deliveries' = [deliveries EXCEPT ![held[w]][v] = Inc(@)]
              /\ UNCHANGED enqueueFailed
           \/ /\ EnqueueMayFail
              /\ enqueueFailed' = [enqueueFailed EXCEPT ![held[w]][v] = TRUE]
              /\ UNCHANGED deliveries
  BY DEF Enqueue
<1>2. /\ v \in PlatformUsers
      /\ held' = held
      /\ pending'[w] = pending[w] \ {v}
      /\ pending' \in [Workers -> SUBSET PlatformUsers]
      /\ \A x \in Workers \ {w} : pending'[x] = pending[x]
  BY <1>1 DEF CampaignTypeOK, Enqueue
<1>3. \A j \in Jobs, u \in PlatformUsers :
        Inc(deliveries[j][u]) \in 0..CountCap /\ Inc(deliveries[j][u]) >= 1
  BY IncFacts DEF CampaignTypeOK
<1>4. CASE /\ deliveries' = [deliveries EXCEPT ![held[w]][v] = Inc(@)]
           /\ UNCHANGED enqueueFailed
  <2>1. deliveries' \in [Jobs -> [PlatformUsers -> 0..CountCap]]
    BY <1>2, <1>3, <1>4 DEF CampaignTypeOK
  <2>2. deliveries'[held[w]][v] >= 1
    BY <1>2, <1>3, <1>4 DEF CampaignTypeOK
  <2>3. \A j \in Jobs, u \in PlatformUsers :
          deliveries[j][u] >= 1 => deliveries'[j][u] >= 1
    BY <1>2, <1>3, <1>4 DEF CampaignTypeOK
  <2>. QED BY <1>2, <1>4, <2>1, <2>2, <2>3 DEF CampaignTypeOK, Covered
<1>5. CASE /\ enqueueFailed' = [enqueueFailed EXCEPT ![held[w]][v] = TRUE]
           /\ UNCHANGED deliveries
  <2>1. enqueueFailed' \in [Jobs -> [PlatformUsers -> BOOLEAN]]
    BY <1>2, <1>5 DEF CampaignTypeOK
  <2>2. enqueueFailed'[held[w]][v]
    BY <1>2, <1>5 DEF CampaignTypeOK
  <2>3. \A j \in Jobs, u \in PlatformUsers :
          enqueueFailed[j][u] => enqueueFailed'[j][u]
    BY <1>2, <1>5 DEF CampaignTypeOK
  <2>. QED BY <1>2, <1>5, <2>1, <2>2, <2>3 DEF CampaignTypeOK, Covered
<1>. QED BY <1>1, <1>4, <1>5

\* Every step keeps the types.
LEMMA NextType ==
    ASSUME CampaignTypeOK, HeldWhenBusy, [Next]_vars PROVE CampaignTypeOK'
<1> USE DEF CampaignTypeOK, QueueTypeOK
<1>1. ASSUME NEW w \in Workers, WorkReserve(w) PROVE CampaignTypeOK'
  <2>1. PICK j \in Jobs : Reserve(j) /\ held' = [held EXCEPT ![w] = j]
    BY <1>1 DEF WorkReserve
  <2>. QED BY <1>1, <2>1, LeaseAssumption DEF WorkReserve, Reserve, PC
<1>2. ASSUME NEW w \in Workers, LoadToken(w) \/ LoadUserGUIDs(w) \/ Dispatched(w)
      PROVE CampaignTypeOK'
  BY <1>2 DEF LoadToken, LoadUserGUIDs, Dispatched, PC
<1>3. ASSUME NEW w \in Workers, Enqueue(w) PROVE CampaignTypeOK'
  <2>1. held[w] \in Jobs
    BY <1>3 DEF Enqueue, HeldWhenBusy
  <2>2. /\ pending' \in [Workers -> SUBSET PlatformUsers]
        /\ deliveries' \in [Jobs -> [PlatformUsers -> 0..CountCap]]
        /\ enqueueFailed' \in [Jobs -> [PlatformUsers -> BOOLEAN]]
    BY <1>3, <2>1, EnqueueStep
  <2>. QED BY <1>3, <2>2 DEF Enqueue
<1>4. ASSUME NEW w \in Workers, Finish(w) PROVE CampaignTypeOK'
  BY <1>4 DEF Finish, Dequeue, PC, NoJob
<1>5. ASSUME NEW w \in Workers, Crash(w) PROVE CampaignTypeOK'
  BY <1>5, CampaignAssumption DEF Crash, PC, NoJob
<1>6. ASSUME NEW w \in Workers, Poll(w) PROVE CampaignTypeOK'
  BY <1>6 DEF Poll, vars
<1>7. CASE Tick
  BY <1>7 DEF Tick, Elapse
<1>8. CASE UNCHANGED vars
  BY <1>8 DEF vars
<1>. QED BY <1>1, <1>2, <1>3, <1>4, <1>5, <1>6, <1>7, <1>8 DEF Next

\* The typing invariant holds initially.
LEMMA InitType == Init => CampaignTypeOK /\ HeldWhenBusy
BY InitCInv DEF CInv

\* Every step keeps a busy worker holding a campaign row.
LEMMA NextHeld ==
    ASSUME CampaignTypeOK, HeldWhenBusy, [Next]_vars PROVE HeldWhenBusy'
<1> USE DEF HeldWhenBusy, CampaignTypeOK
<1>1. ASSUME NEW w \in Workers, WorkReserve(w) PROVE HeldWhenBusy'
  <2>1. PICK j \in Jobs : Reserve(j) /\ held' = [held EXCEPT ![w] = j]
    BY <1>1 DEF WorkReserve
  <2>. QED BY <1>1, <2>1 DEF WorkReserve
<1>2. ASSUME NEW w \in Workers,
             \/ Poll(w) \/ LoadToken(w) \/ LoadUserGUIDs(w) \/ Enqueue(w)
             \/ Dispatched(w)
      PROVE  HeldWhenBusy'
  BY <1>2 DEF Poll, LoadToken, LoadUserGUIDs, Enqueue, Dispatched, vars
<1>3. ASSUME NEW w \in Workers, Finish(w) \/ Crash(w) PROVE HeldWhenBusy'
  BY <1>3 DEF Finish, Crash
<1>4. CASE Tick \/ UNCHANGED vars
  BY <1>4 DEF Tick, vars
<1>. QED BY <1>1, <1>2, <1>3, <1>4 DEF Next

\* Every reachable state of the campaign path is well typed, whatever the
\* identity provider and the enqueue do: in particular the delivery
\* counters stay within their cap through re-dispatches.
THEOREM CampaignTypeCorrect == Spec => []CampaignTypeOK
<1>1. CampaignTypeOK /\ HeldWhenBusy /\ [Next]_vars
        => (CampaignTypeOK /\ HeldWhenBusy)'
  BY NextType, NextHeld
<1>. QED BY InitType, <1>1, PTL DEF Spec

\* Every step keeps the inductive invariant, given a healthy identity
\* provider.
LEMMA NextCInv == HealthyIdP /\ CInv /\ [Next]_vars => CInv'
<1> SUFFICES ASSUME HealthyIdP, CInv, [Next]_vars PROVE CInv'
  OBVIOUS
<1>0. CampaignTypeOK'
  BY NextType DEF CInv
<1> USE DEF CInv, HeldWhenBusy, PassedCovered, DoneAfterLoop,
            CampaignReachesEveryone, Covered
<1>2. ASSUME NEW w \in Workers, WorkReserve(w) PROVE CInv'
  <2>1. PICK j \in Jobs : Reserve(j) /\ held' = [held EXCEPT ![w] = j]
    BY <1>2 DEF WorkReserve
  <2>. QED BY <1>0, <1>2, <2>1 DEF WorkReserve, Reserve, CampaignTypeOK
<1>3. ASSUME NEW w \in Workers, Poll(w) PROVE CInv'
  BY <1>0, <1>3 DEF Poll, vars
<1>4. ASSUME NEW w \in Workers, LoadToken(w) PROVE CInv'
  BY <1>0, <1>4 DEF LoadToken, HealthyIdP, CampaignTypeOK
<1>5. ASSUME NEW w \in Workers, LoadUserGUIDs(w) PROVE CInv'
  BY <1>0, <1>5 DEF LoadUserGUIDs, HealthyIdP, CampaignTypeOK
<1>6. ASSUME NEW w \in Workers, Enqueue(w) PROVE CInv'
  <2>1. held[w] \in Jobs
    BY <1>6 DEF Enqueue
  <2>2. /\ pending'[w] \subseteq pending[w]
        /\ \A x \in Workers \ {w} : pending'[x] = pending[x]
        /\ \A u \in pending[w] \ pending'[w] : Covered(held[w], u)'
        /\ \A j \in Jobs, u \in PlatformUsers :
             Covered(j, u) => Covered(j, u)'
    BY <1>6, <2>1, EnqueueStep
  <2>3. PassedCovered'
    BY <1>6, <2>1, <2>2 DEF Enqueue, CampaignTypeOK
  <2>4. CampaignReachesEveryone'
    BY <1>6, <2>2 DEF Enqueue
  <2>. QED BY <1>0, <1>6, <2>2, <2>3, <2>4 DEF Enqueue, CampaignTypeOK
<1>7. ASSUME NEW w \in Workers, Dispatched(w) PROVE CInv'
  BY <1>0, <1>7 DEF Dispatched, CampaignTypeOK
<1>8. ASSUME NEW w \in Workers, Finish(w) PROVE CInv'
  <2>1. \A u \in PlatformUsers : Covered(held[w], u)
    BY <1>8 DEF Finish
  <2>2. \A j \in Jobs \ queued' : j \in Jobs \ queued \/ j = held[w]
    BY <1>8 DEF Finish, Dequeue
  <2>3. CampaignReachesEveryone'
    BY <1>8, <2>1, <2>2 DEF Finish
  <2>. QED BY <1>0, <1>8, <2>3 DEF Finish, CampaignTypeOK
<1>9. ASSUME NEW w \in Workers, Crash(w) PROVE CInv'
  BY <1>0, <1>9 DEF Crash, CampaignTypeOK
<1>10. CASE Tick
  BY <1>0, <1>10 DEF Tick, Elapse
<1>11. CASE UNCHANGED vars
  BY <1>0, <1>11 DEF vars
<1>. QED BY <1>2, <1>3, <1>4, <1>5, <1>6, <1>7, <1>8, <1>9, <1>10, <1>11
     DEF Next

\* With an identity provider that answers, the loop deletes a campaign row
\* only after Dispatch enqueued a delivery job for, or recorded a failed
\* enqueue of, every platform user: through lease expiry mid-Dispatch,
\* crashes mid-Enqueue and the other worker's overlapping dispatch.
THEOREM HealthyCampaignReachesEveryone ==
    ASSUME HealthyIdP PROVE Spec => []CampaignReachesEveryone
<1>1. Init => CInv
  BY InitCInv
<1>2. CInv /\ [Next]_vars => CInv'
  BY NextCInv
<1>3. CInv => CampaignReachesEveryone
  BY DEF CInv
<1>. QED BY <1>1, <1>2, <1>3, PTL DEF Spec
=============================================================================
