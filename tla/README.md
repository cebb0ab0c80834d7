# TLA+ verification of the notifications delivery core

This directory holds TLA+ models of the delivery core of the notifications
service, the TLC configurations that model-check them, and TLAPS proofs
about them.

## 1. Inventory of src/

| file | what it is | treatment |
|---|---|---|
| `src/postal/delivery_worker_test.go` (1-940) | Ginkgo spec of `DeliveryWorker`: the work loop, halt, every branch of `Deliver`, retry and backoff. An unrelated acceptance test is appended from line 942, after a separator on line 941. | the source of `Postal` |
| `src/testing/fakes/strategy_determiner.go` | fake `StrategyDeterminer`; `Determine(conn, uaaHost, job)` returns nothing | `DetermineStrategy` |
| `src/fakes/campaign_types_repository.go` | fake repository (1-52), followed by `services.EveryoneStrategy.Dispatch` (53-116) | Dispatch is the source of `Campaign`; the fake is not modelled |
| `src/web/router.go` | the route table and its registration on gorilla mux | the source of `Router` |
| `src/unnamed/part_001`, `part_002` | HTTP handlers `NotifyEmail`, `PreferenceFinder` | not modelled |
| `src/v1/services/notifications_finder_test.go`, `src/web/handlers/preference_finder_test.go`, `src/testing/truncate_tables.go`, `src/unnamed/part_000` | tests of out-of-scope finders and handlers, DB suite helper, env script | not modelled |

The job queue (`gobble`), the worker loop (`gobble.Worker`) and
`DeliveryWorker` itself are not under src/. The spec (spec.md 4.1-4.3)
describes their contract, and the DeliveryWorker test fixes their behaviour
branch by branch. `Postal` is translated from what that test drives and
asserts. The queue's own definitions are modelled from spec.md 4.1 and are
marked `spec_modelled` in PROJECT.json.

## 2. The parts and how they interact

A dispatch (the HTTP layer, out of scope) enqueues jobs in the **job queue**.
A pool of N **delivery workers** run the same loop:
1. reserve the oldest due job;
2. call `Deliver`;
3. requeue the job if `ShouldRetry`, else delete it.

`Deliver` works through these steps:
1. decode the payload;
2. forward a campaign to the **strategy determiner**;
3. otherwise load the zoned token and the user;
4. apply the **suppression** checks;
5. render and send;
6. create a **receipt** and upsert the message status.

Each failure goes through the **retry policy**. Below the ceiling (10 in
the code) it applies `job.Retry(2^RetryCount minutes)`, which bumps
`RetryCount` and sets `ShouldRetry`. At the ceiling it does nothing.

Reserve is a visibility-timeout claim: it pushes `active_at` ahead by the
lease. The worker then works on an in-memory copy of the job, and requeue
writes that copy back to the row.

## 3. Modules

| module | models | state | actions |
|---|---|---|---|
| `Gobble` | the job queue (spec_modelled) | `queued`, `untilActive` (time until active_at), `retryCount` | `Reserve(j)`, `Requeue(j, d, rc)`, `Dequeue(j)`, `Elapse` |
| `Postal` | the worker pool and `Deliver` | `pc`, `held`, `copy` (the worker's gobble.Job: rc, until, retry), `outcome`, `halted`; audit counters `status`, `sends`, `receipts`, `failures`, `determined`, `crashes` | `WorkReserve`, `Poll`, `Halt`, `Exit`, `Deliver`, `Record`, `Finish`, `Crash`, `Tick`, `PoolStopped` |
| `RouteTable` | the abstract promise of the router: keys registered in any order, then each request answered as the key that owns it dictates | `registered`, `last` | `Register(k)`, `Serve` |
| `Campaign` | a campaign row through the pool, `Determine` and `EveryoneStrategy.Dispatch` | `Gobble`'s variables, `pc`, `held`, `pending` (users not yet enqueued), `deliveries`, `enqueueFailed`, `crashes` | `WorkReserve`, `Poll`, `LoadToken`, `LoadUserGUIDs`, `Enqueue`, `Dispatched`, `Finish`, `Crash`, `Tick` |
| `Router` | `NewRouter`'s stacks map and `Routes()` | `remaining` (keys not yet visited), `routes` (the mux, in order), `last` (the last request's outcome) | `RegisterRoute`, `Serve` |
| `MCPostal`, `MCCampaign`, `MCRouter` | the TLC instances | model values for workers, users and guids, job kinds and recipients, request paths and token scopes | |
| `PostalProofs` | TLAPS: type correctness | | |
| `PostalSettledProofs` | TLAPS: deletion only when settled; retry counts bounded by failures | | |
| `CampaignProofs` | TLAPS: a healthy fan-out reaches everyone before the row is deleted; campaign type correctness | | |
| `PostalRecordProofs` | TLAPS: suppressed recipients never mailed; receipts and delivered statuses backed by sends | | |
| `RouterProofs` | TLAPS: the four router invariants, for every route order; `Router` refines `RouteTable` | | |

**Deliver.** `Deliver` is split at its suspension points, where another
worker, a crash or the clock can step in:
- **Deliver** decides the branch up to and including the outbound send. Its
  disjuncts are `MalformedPayload`, `DetermineStrategy`,
  `RecipientLookupFailed`, `Suppress` and `SendMail`. `SendMail` ends in
  delivered, failed or unavailable; failed covers both template pack errors
  and send errors.
- **Record** does the persistence writes. For a delivered message it creates
  the receipt, or the receipt write fails and the job is retried. It then
  upserts the status, or the upsert fails and is only logged.
- **Finish** is the loop's requeue-or-delete.

Every failure branch calls `FailAttempt`, which applies `RetryJob` to the
worker's copy.

**Campaign.** `EveryoneStrategy.Dispatch` runs inside the Deliver of a
campaign job, so each of its calls is a step of the worker:
- `LoadToken` builds the options and calls `tokenLoader.Load` (lines 77-100);
- `LoadUserGUIDs` calls `AllUserGUIDs` and builds one User per guid
  (102-111);
- `Enqueue` is one recipient of `queue.Enqueue` (113), and `Dispatched`
  returns the responses (113-116).

On an error Dispatch returns at once, and `Determine`
(src/testing/fakes/strategy_determiner.go:23) has no result, so the error
reaches nobody. The worker then goes to `Finish`, which deletes the row: a
campaign never calls `job.Retry`. The enqueuer is not under src/. It fails
per recipient without stopping the siblings (spec.md 4.5), which
`enqueueFailed` records.

**Router.** A key such as `"POST /users/{guid}"` is a sequence of tokens
(method, `" "`, segments, `"{guid}"`). `SplitN` is `strings.SplitN(key, "
", 2)` on that sequence. `RegisterRoute` takes the keys in any order: Go's
map iteration order is unspecified. `Serve` takes the first route whose
template and method match, and runs its middlewares in `Use` order until
one rejects. That matching and the scope check of `Mother.Authenticator`
are not under src/. They are modelled from what the code passes them: a
route's path and method, and a list of scopes, of which the token must
carry one.

The stacks map is a function over the six keys `KInfo` ... `KPrefsWrite`,
one `CASE` arm per line of the map literal. The keys are sequences over
`KeyTokens`, the tokens they are made of. `FirstIndex` is the least of
the positions that pass a test, and 0 when there is none. `SplitN` uses it
for the first separator, and `Serve` for the first matching route. These
are the forms the provers can read: they have no TLC `:>`/`@@`, no LAMBDA
and no typing of string literals.

**Audit counters.** `sends`, `receipts`, `failures` and `determined` are
audit counters that the properties read. They saturate at `CountCap` so that
the state space stays finite.

## 4. Runs

All Postal runs use two workers, two jobs, `Lease = 2` and at most one crash.

| run | cfg | checks | result |
|---|---|---|---|
| postal_core | MCPostal.cfg | `TypeOK`, `JobDeletedOnlyWhenSettled`, `RecordsReflectSends` | pass, 2.3M distinct states |
| postal_policy | MCPostalPolicy.cfg | `SuppressionRespected` (kind not critical) | pass, 321K |
| postal_inductive | MCPostalInductive.cfg | `RetryBoundedByFailures`, `ReceiptsCovered` | pass, 2.3M |
| postal_liveness | MCPostalLive.cfg | `JobsEventuallyRemoved`, `HaltedWorkerStops` | pass, 0.7M, about 2.5 min |
| lease_exclusivity | MCPostalHolder.cfg | `AtMostOneHolder` | violated |
| retry_count_monotone | MCPostalRetryCount.cfg | `RetryCountNeverDecreases` | violated |
| receipt_for_sent | MCPostalReceipt.cfg | `SentMessageHasReceipt` | violated |
| suppression_precedence | MCPostalPrecedence.cfg | `SuppressionPerSpec` (kind critical) | violated |
| campaign_fanout | MCCampaign.cfg | `CampaignReachesEveryone` | pass, 38K |
| campaign_faults_liveness | MCCampaignFaults.cfg | `CampaignEventuallyDeleted` | pass, 187K |
| campaign_lost | MCCampaignLost.cfg | `CampaignReachesEveryone` | violated |
| router_table | MCRouter.cfg | `RouterTypeOK`, `MethodRespected`, `WritesNeedWriteScope`, `MatchedRequestsLogged`, `RoutesRefineTable` | pass, 83K, about 1.5 min |

The Campaign runs use two workers, two campaign rows, two platform users,
`Lease = 2` and one crash. `campaign_fanout` uses a healthy identity
provider (only a single enqueue may fail). The other two let the token
load and `AllUserGUIDs` fail. The router run uses every method against
every route's path, a path missing its guid and an unknown path, with
tokens of no scope or of one of the three scopes.

**Suppression.** `Undeliverable` follows the rule of
delivery_worker_test.go, the only description of the check under src/
(`Deliver`'s own source is not under src/):
- a globally unsubscribed user gets no non-critical notification (line
  640);
- a user unsubscribed from the kind gets none unless the kind is critical
  (731-792), and a critical kind is sent (794-812);
- a missing or malformed address is never mailed (654-729).

spec.md 8 says more: a global unsubscribe beats critical. The tests do not
say that, and `suppression_precedence` shows what the model of the tests does
then (see the violations below).

What the properties say:
- **`JobDeletedOnlyWhenSettled`.** A row leaves the queue only in these cases:
  - a campaign was handed to Determine;
  - a delivery was sent, or its recipient is undeliverable;
  - `MaxRetries + 1` attempts failed.

  It exercises the ceiling of `retry` together with crashes and stale
  write-backs.
- **`RecordsReflectSends`.** No receipt and no delivered status exists
  without an accepted send, even when stale workers overlap.
- **`SuppressionRespected`.** Its premise, `TestSuppressed`, is written
  from the tests and not from the model's `Undeliverable`. A recipient the
  tests say is suppressed is never mailed, gets no receipt, and gets no
  status other than undeliverable. The run has a globally unsubscribed user,
  a user with no address and a payload that never decodes (a poison job
  that must still be deleted after the ceiling).
- **`RetryBoundedByFailures`.** A queued row's `retry_count` never exceeds
  the failures recorded for it, through stale write-backs and crashes.
- **`ReceiptsCovered`.** The receipts of a job, together with its sent
  deliveries whose receipt is not yet written, never outnumber its accepted
  sends (until the counter's cap). It strengthens `RecordsReflectSends`
  through crashes and stale workers.
- **The liveness pair.** Every job leaves the queue unless all workers were
  halted, and a halted worker returns from its loop.
- **`CampaignReachesEveryone`.** A deleted campaign row reached every
  platform user with a delivery job or a recorded enqueue failure. It holds
  through a lease expiry mid-Dispatch and a crash mid-Enqueue, and fails
  when the identity provider fails.
- **`CampaignEventuallyDeleted`.** Every campaign row leaves the queue, even
  when the identity provider fails and a worker crashes.
- **The router properties.** For any registration order, these hold:
  - a request reaches a route of its own method and of a template matching
    its path (GET and PATCH share /user_preferences);
  - POST, PUT and PATCH reach their handler only with a write scope;
  - a matched request is logged, the rejected ones included.
- **`RoutesRefineTable`.** `Router` implements `RouteTable` under
  `registered <- ` the names in `routes`. `RouteTable` has no order: its
  answer to a request is `Answer(req)`, read off the stacks map. The owner
  key (`Owner`) is the one whose method and template fit the request. The
  answer is that key's route, logged, and handled exactly when every
  middleware of its stack passes. So the mux's first-match rule gives the
  same answer for every registration order. `Answer` is a function of the
  request, and `RouteTable`'s `Serve` reads it at `last'.req` rather than
  trying every request. This keeps the run within time.

Five violation runs state what spec.md says and show that the behaviour the
code has disagrees (see `findings` in PROJECT.json):
1. **Lease race.** With a visibility timeout, a worker slower than the lease
   still holds its job when a second worker reserves it. spec.md 4.1 asks for
   at most one holder, yet also allows a visibility timeout.
2. **Stale write-back.** Requeue writes back the worker's copy, so after a
   lease race `retry_count` can go down. spec.md 4.3 says it increments by
   one per reschedule.
3. **Lost receipt.** A message is accepted, the receipt write fails and the
   job is at the retry ceiling: the job is deleted with no receipt.
4. **Suppression precedence.** spec.md 8 says a global unsubscribe beats
   critical. The tests limit the global no-send to non-critical kinds, so a
   globally unsubscribed user of a critical kind is mailed: TLC reaches it
   in two steps (reserve, then a delivered send).
5. **Lost campaign.** The token load or `AllUserGUIDs` fails, `Determine`
   drops the error, and the loop deletes a campaign that reached nobody.
   spec.md 4.1 says no job is silently lost, and 4.5 and 7 that such a
   failure is surfaced.

A campaign whose lease runs out during Dispatch is dispatched again, and a
user then gets a second delivery job. spec.md disclaims exactly-once
delivery, so this is not checked as a property.

Each property of a passing run has a mutant in PROJECT.json, a plausible bug
in the code it is about, which TLC catches:
- no retry ceiling;
- the ceiling one attempt early;
- `ShouldRetry` kept at the ceiling;
- a receipt for any outcome, caught by `RecordsReflectSends` and by `ReceiptsCovered`;
- the global unsubscribe never looked up;
- halt consumed by the loop;
- the queue bumping `retry_count` twice;
- Dispatch returning before the enqueue loop ends;
- the loop requeueing a campaign;
- a route without its `Methods` matcher, caught by `MethodRespected` and by `RoutesRefineTable`;
- `PUT /registration` without its authenticator;
- the authenticator before the logger;
- a misspelt scope.

**Bounds.** Two workers are the least that can race on a lease. Two jobs
let a stale worker act on a row the other worker holds, and let oldest-first
reservation matter. The bounds are chosen so that the interesting cases
happen:
- A lease of 2 against Deliver, Record and Finish, which take three steps,
  lets the lease expire mid-job.
- `MaxRetries = 2` lets a job reach the ceiling after a real retry, with
  backoffs of 1 and 2. The liveness run uses 1 to stay within time.
- One crash is enough to strand a reservation.

Symmetry over workers is used in the safety runs only.

**Fairness.** Each worker is a goroutine the scheduler keeps running, so
`WF` holds for its steps `WorkReserve`, `Deliver`, `Record`, `Finish` and
`Exit`. Time keeps passing, so `WF(Tick)`. Halt and Crash are environment
events and get no fairness. The outcome of a send is not fair either: a
transport may fail every time, and the liveness properties hold because of
the ceiling.

## 5. Proofs (TLAPS)

**`PostalProofs`.** It proves `THEOREM TypeCorrect == Spec => []TypeOK`.
`TypeOK` is not inductive by itself, because Deliver, Record and Finish index
the counters by the held job. The proof therefore uses `IInv == TypeOK /\
HeldWhenBusy` ("a worker holds a job exactly while it is busy"), and proves
`Init => IInv` and `IInv /\ [Next]_vars => IInv'` with one step per action.

It rests on these lemmas:
- `RetryJobType` and `IncType`;
- `FailAttemptType`.

**`PostalSettledProofs`.** It proves `THEOREM DeletedJobsSettled == Spec =>
[]JobDeletedOnlyWhenSettled` for every set of workers and jobs, lease and
ceiling. The invariant is not inductive alone: the worker that deletes a job
must know the job is settled. The strengthening `SInv` adds:
- `RetryBoundedByFailures`: the row's retry_count, and the RetryCount of every
  busy worker's copy, are at most the failed attempts of that job. This holds
  even for a stale copy.
- `SettledBeforeDelete`: a worker past its send whose copy has
  `ShouldRetry = FALSE` holds a settled job.

The argument runs in four parts:
1. When the ceiling is reached, `RetryJob` leaves `ShouldRetry` false. The
   first part of the strengthening then gives `MaxRetries + 1` failures
   (lemma `FailAttemptSettles`).
2. Settled is stable, because the counters only grow (`CountersGrow`,
   `SettledStays`).
3. A worker that takes no step keeps its part of the invariant
   (`QuietWorker`).
4. Finish deletes only a row whose copy does not ask for a retry (`NextSInv`).

The module also proves `THEOREM RetryCountsBounded == Spec =>
[]RetryBoundedByFailures`, the first conjunct of `SInv`, which the
postal_inductive run checks. A stale worker's write-back can lower a row's
`retry_count` (the retry_count_monotone violation), but never raise it past
the failures recorded for the job.

**`CampaignProofs`.** It proves `THEOREM HealthyCampaignReachesEveryone ==
ASSUME HealthyIdP PROVE Spec => []CampaignReachesEveryone`. `HealthyIdP`
says that the token load and `AllUserGUIDs` do not fail, and a single
enqueue still may. The invariant is not inductive alone: the worker that
deletes the row must already have covered every user. The strengthening
`CInv` adds three facts:
- `HeldWhenBusy`: a busy worker holds a real row;
- `PassedCovered`: a worker in its Enqueue loop, or done, has covered
  every user no longer in its `pending`;
- `DoneAfterLoop`: a worker is done only with `pending` empty.

It rests on these lemmas:
- `IncFacts`;
- `EnqueueStep`, which says that an Enqueue covers the user it removes and
  takes no coverage back;
- `NextType`.

`NextCInv` has one step per action. Without `HealthyIdP` the theorem is
false: the campaign_lost run is its counterexample. TLC checked `CInv` as
an invariant of the campaign_fanout instance (132K states) before the
proof.

**`PostalRecordProofs`.** It proves two theorems.

`THEOREM SuppressedNeverMailed == Spec => []SuppressionRespected`. The
invariant alone is not inductive. `SendMail` is the step that counts a send,
and the invariant must know that its job was not suppressed. The
strengthening `SupInv` adds `SuppressedOutcome`: a worker past its send
that holds a delivery for a `TestSuppressed` user holds the undeliverable
outcome. `Deliver` takes `SendMail` only when `Undeliverable` is false, and
lemma `SuppressedUndeliverable` shows that `Undeliverable` is true of every
user the tests suppress. The theorem is about the tests' rule; the rule of
spec.md 8 fails it (suppression_precedence).

`THEOREM RecordsBacked == Spec => []RecordsReflectSends`. A receipt is
written one step after the send it follows, by `Record`, and a crash, a
lease race or a retry can fall between the two. The strengthening `RInv`
therefore counts:
- `ReceiptsCovered`: receipts plus the workers in state sent with a
  delivered outcome (`SentDelivered(j)`) are at most `sends[j]`, unless
  `sends[j]` is at its cap;
- `DeliveredBacked`: such a worker's job has at least one send;
- `StatusBacked`: a delivered status has at least one send.

`Record` moves one worker out of `SentDelivered` and adds one receipt. The
lemma `CardSwap` (from `FS_RemoveElement`) keeps the sum equal. `SendMail`
adds a send and at most one member. `SentDeliveredFrame` shows that any
other step leaves the set alone. The proof needs `Workers` finite
(`WorkersAssumption`), which holds because the pool is built with a fixed
number of workers.

The third, `THEOREM ReceiptsNeverOutrunSends == Spec => []ReceiptsCovered`,
states the counting conjunct of `RInv` on its own; the postal_inductive run
checks it.

`CampaignProofs` also proves `CampaignTypeCorrect` (`Spec =>
[]CampaignTypeOK`) from a `HeldWhenBusy` strengthening. No run checks
`CampaignTypeOK`: no plausible bug of the code breaks it, so it is a lemma
of the fan-out proof rather than a property.

**`RouterProofs`.** It proves `RouterTypeCorrect`, `ServedByOwnMethod`,
`WritesAuthenticated` and `MatchedAlwaysLogged`, the four router
invariants, for every set of guids, methods, paths and scopes, and every
order in which Go's map iteration registers the keys. The invariant `TInv`
adds `RoutesBuilt`: every registered route is `MuxRoute` of its name, a
key of the map. `Serve` reads the method, template and stack of
`routes[i]`, so this conjunct carries the argument. The lemmas are:
- `KeyShape` and `SplitKey`: on every key the separator is at position 2
  only, so `SplitN` gives the one-token method and the template;
- `StackShape`: every stack starts with the logger (hence `LoggerRuns`);
- `WriteGuarded`: every POST, PUT or PATCH stack has a write authenticator
  second;
- `MinOfPositions`, from `WFMin` and `NatLessThanWellFounded`: the first
  matching position is a matching position.

TLC checked `RoutesBuilt` on the router_table instance before the proof.

`THEOREM RouterImplementsTable == Spec => RoutesRefineTable` proves that
the router implements `RouteTable` for every registration order. It rests
on these lemmas:
- `KeyHeads`, `OwnsHead` and `OwnerUnique`: no two keys own one request.
  Keys of one method differ in their first path segment, a literal that a
  path must equal. So `Owner` names the unique owner (`OwnerIs`).
- `OwnsMatch`: the route built for a key matches exactly the requests
  the key owns.
- `Visited` (`VisitedHolds`, with `TInv`): `remaining` is the map's keys
  that have no route yet. Once `Routes()` returns, every key has its
  route (`AllRegistered`).

`TableStep` maps each step. `RegisterRoute` maps to `Register` of the
visited key (`NamesAppend`). `Serve` maps to `Serve` with the owner's
answer. If no route matches, no key owns the request, since the owner's
route would match it. Otherwise the first match is the owner, by
uniqueness.

**Assumptions** are declared in `Gobble` and `Postal` and evaluated by TLC
on every run:
- `Jobs \subseteq Nat \ {0}`, `Lease \in Nat \ {0}`;
- `MaxRetries \in Nat`, `MaxCrashes \in Nat`, `CountCap > MaxRetries`;
- the environment's types;
- `WorkersAssumption`: `Workers` is finite and nonempty;
- `BackoffAssumption`: `2^n` is a positive natural for `n <= MaxRetries`. The
  provers cannot derive this about exponentiation, so it is assumed and
  checked by TLC.

TLC checks the proof's strengthening on the core instance in the
postal_inductive run.

**Only model-checked:**
- the liveness properties, since TLAPS does not handle fairness or ENABLED;
- the violation properties;
- `CampaignEventuallyDeleted` (liveness);
- the properties of the violation runs (`SuppressionPerSpec` among them),
  which are false.

Every safety invariant and refinement that a passing run checks is a
theorem. The two campaign results hold under `HealthyIdP`
only, because without it they are false.

## 6. What is not modelled

- The HTTP handlers (`NotifyEmail`, `PreferenceFinder`) are sequential
  request plumbing that spec.md 1 puts out of scope. They keep no state
  between requests.
- The `CampaignTypesRepository` fake (lines 1-52 of
  src/fakes/campaign_types_repository.go) is a test double. It returns
  what a test sets, and nothing modelled calls it.
- The other strategies (user, space, org, email) are not under src/.
- The `Options` fields of Dispatch, apart from the endorsement, are data
  that no property tells apart. The `Router` struct (lines 11-13) only
  holds the map.
- The fakes' argument recording, the test scaffolding and the env script hold
  no system state.
- The encryption helper is a pure function with no interleaving.
- Template and message text, log lines and headers are data that no property
  distinguishes.

## 7. Hazards

PROJECT.json lists each hazard with the properties that cover it:
- the lease race;
- stale write-back;
- receipt failure after a send;
- status upsert failure;
- a crash between send and delete;
- the retry ceiling;
- poison payloads;
- halt while a job is in flight;
- campaign errors swallowed by `Determine`;
- a lease that runs out during `AllUserGUIDs`;
- a crash inside the enqueue loop;
- the map order of `Routes()`.

## 8. Plan for the next sittings

1. **More proofs.** Every safety result of the passing runs is now
   proved. The liveness properties stay with TLC.
2. **Composition.** Feed the delivery jobs that `Campaign` enqueues to the
   `Postal` workers, so that a fan-out and its deliveries are checked
   together.
