# TLA+ specifications of the payout-reconciliation backend

Models, model-checking configurations and machine-checked proofs for the parts
of this repository that move payout instructions and establish what happened to
the money: the **intent engine** (`backend/intents`), the **vault**'s keys
(`backend/vault`), the **relay** (`backend/relay`), which dispatches payouts to
the payment service provider (PSP) and relays events to Kafka, the **payment
truth** of the reconciliation service (`backend/recon/internal/paymenttruth`),
the **evidence** packs (`backend/evidence`) and the **intelligence** service's
counters and actions (`backend/intel`).

    tlc -config MCDispatchMoney.cfg MCDispatch     # model-check a run
    tlapm DispatchProofs.tla                       # check a module's proofs

`PROJECT.json` lists the components, the runs, the source lines behind every
definition, the hazards, and the theorems.

## 1. The system

Ten services share one pattern: a service commits a state change together with a
row of an outbox table, and somebody else takes the row to Kafka. A payout
instruction enters at *edge*, becomes a canonical intent in *intents*, is
tokenized by *vault* and dispatched by *relay*; the PSP's answers come back as
webhooks through *edge* and as API pages through *recon*, which reduces them to
one canonical row per payment, matches settlements and bank credits and closes
the books; *evidence* and *intel* listen.

| Component | State it keeps | Operations | Meets others through | Modelled by |
|---|---|---|---|---|
| dispatch consumer (`relay/services/dispatch_consumer.go`) | per claim: two channels, `order`, `finished`, marked offset | fan out, process, commit in order, drain | Kafka session; calls the dispatch pipeline | `ClaimCommit` |
| dispatch pipeline (`dispatch_loop.go`, `dispatch_repo.go`) | `dispatches` row, `relay_outbox` rows, circuit breaker | Steps 1-5, failure marks | PSP, vault, Postgres | `Dispatch` |
| retry and recovery sweepers | none of their own | select due or stuck rows, query the PSP, resolve | the same rows as the pipeline | `Dispatch` |
| outbox relay workers (`relay/worker`) | leased batch, ack and nack lists | lease, check, publish, ack/nack | upstream HTTP API, Kafka | `OutboxRelay` |
| upstream outbox (`intents/.../outbox_pull_repo.go`) | `outbox` rows with lease | lease, ack, nack | relay workers | `OutboxRelay` |
| failure ledger and replay (`publish_failure_repo.go`, `failure_replay_service.go`) | `relay_publish_failures` | record, begin, publish, complete | workers and operators write the same rows | `OutboxRelay` |
| relay loop (`relay_loop.go`, `relay_outbox_repo.go`) | `relay_outbox` | list, publish, quarantine, mark | dispatch pipeline enqueues, Kafka | `RelayLoop` |
| payment truth (`recon/internal/paymenttruth`) | observation events, `canonical_payments`, `outcome_outbox` | store, read, reduce, link, upsert, announce | webhook consumer, ingest endpoint and backfills run it concurrently | `PaymentTruth` |
| intent engine (`intents/internal/services`, `kafka/consumer.go`, `db`) | `payment_intents`, `outbox`, `business_idempotency_registry`, `tenant_daily_usage`, dead letters, failure receipts, bulk-file rows, run and batch | process an event, ask for tokens, save, approve, account a row, sweep stuck runs | event topic, token enclave, approval API; the relay leases its outbox | `Intents` |
| vault keys (`vault/internal/services/token_service.go`, `keymanager`, `repository`) | `token_encryption_keys`, `token_map`, an advisory lock; per replica a cache of unwrapped keys | tokenize, detokenize, rotate (manual, by age), migrate, retire | replicas share the database, requests of a replica share the cache | `Vault` |
| evidence packs (`evidence/services/evidence_service.go`, `kafka`, `repositories`) | pending leaves, leaf receipts, packs, outbox; queues in memory | collect, promote to the intent, check readiness, seal, archive, recover, replay | three topics, workers, administrators | `Evidence` |
| intelligence consumer (`intel/kafka/consumer.go`, `event_receipt_repo.go`) | offsets, `event_receipts`, local DLQ | fetch, gate, RunOnce, retry, dead-letter, replay | readers of several instances | `IntelEvents` |
| intelligence projections (`projection_service.go`, `projection_repo.go`, `batch_contract_repo.go`) | counters per tenant and day, batch, corridor, source | one handler per event kind | called inside RunOnce | `IntelProjections` |
| intelligence actions (`policy_service.go`, `action_service.go`, `worker/`) | action contracts, decision records, actuation outbox, SLA timers | evaluate, approve, dismiss, expire, deliver, dead-letter, escalate | events, cron, operators, two workers per instance | `IntelActions` |
| backfill jobs and cursors, payout truth, matchers, close, attachment engine (`recon`) | jobs, cursors, leases, matches, reports | | | planned, section 7 |
| edge, router | receipts, idempotency claims, circuit | | | planned or left out, sections 7 and 8 |
| agents, ml, scheduler, console | read models, user interface | | | left out, section 8 |

What is hard in this code, and what the properties are aimed at:

* **Nobody owns a row.** The sweepers' `SELECT ... FOR UPDATE SKIP LOCKED` and
  the relay loop's run outside a transaction, so the locks are gone before the
  rows are used; status updates are often unconditional. A Kafka redelivery, two
  sweepers and several instances work on one row at the same time.
* **Money and database are two systems.** A PSP call may time out and still
  arrive; the process may die between the call and its record.
* **Offsets and leases are given up early or late.** A worker pool finishes out
  of order, an ack is lost, delayed or applied after the lease went to another
  worker, a lease runs out under its holder.
* **Read, compute, write.** The canonical payment is computed from a row read
  several statements before it is written; `FOR UPDATE` protects a row that
  exists and nothing when there is none.
* **One write of several fails**, and the retry finds half of it done. A commit
  succeeds and its answer is lost, and the retry finds all of it done.
* **Checked here, used there.** Registry keys, approvals, readiness and the age of
  a key are read by one statement and relied on several statements later, while
  another partition, operator, worker or replica does the same.
* **Some state is only in memory**: the evidence service's check queues, the
  vault's unwrapped keys. A crash or a race loses it without a trace.

`PROJECT.json` has each of these at its line under `hazards`.

## 2. Modules

Each component module has its state as variables, one action per operation and a
`Spec`; `MC*` modules instantiate it for TLC, `*Proofs` modules hold theorems.

### ClaimCommit - one partition claim
The goroutines of `ConsumeClaim`: the main loop (`mainPc`), the workers and
`commitInOrder` (`order`, `finished`), with the two bounded channels. A message
is *owned* when `processMessage` returned true. A session may end at any point
and the next one starts at any offset not beyond what was marked. Its
specification is `ClaimSpec` (`ClaimInit`, `ClaimNext`, ...), so that one proof
module can extend both the consumer and the pipeline it feeds.

### Dispatch - a payout from message to acknowledgement
A contract's row (`status`, its dispatch id `did`), the set of events enqueued
for it (`outbox`), the consumer's `taken`, and the PSP (`payout` per reference,
`late` requests still under way). A runner is a goroutine `<<instance, role>>`
with role kafka, retry or recovery. `Deliver` .. `InsertDispatch` are Step 1,
`Govern` Step 1.5-2, `Detokenize`, `MarkSent` Step 3, `PSPAccepts` and the
answers Step 4, `Ack` Step 5; `MarkFailedRetryable`, `MarkFailedTerminal` and
`MarkAwaitingProviderSignal` are the failure paths, `FindRetryable`, `FindStuck`,
`QueryByReference`, `RecoverAck`, `RecoverRetry` the sweepers. Every database
write is one transaction with its outbox row and may fail. The PSP keeps at most
one payout per reference, which is how the code uses it (external).

### OutboxRelay, DeliveryContract - lease, publish, settle
`OutboxRelay` composes the workers, the upstream rows and the failure ledger with
its operators. The calls to the upstream may be lost or arrive late (`late`), a
lease may run out while its holder works, workers and operators may die.
`DeliveryContract` is the abstract specification: an event leaves the outbox
settled, and then a copy is on its topic or its failure is on record, or
abandoned, and never comes back. `OutboxRelay` and `RelayLoop` both implement
it, under the mappings given at their `Contract` instances.

### RelayLoop - from relay_outbox to Kafka
Workers that hold the same rows in memory, publish them in `created_at` order,
quarantine the too large ones and mark them; each call may fail and a worker may
die between any two. Its specification is `LoopSpec` (`LoopInit`, `LoopNext`, ...),
so that `DispatchProofs` can extend it beside the pipeline that fills the table.

### PaymentTruth - one row per payment from many observers
A runner's transaction is `Begin`, then for each observation
`InsertObservationEvent`, `GetCanonicalPayment`, `ReducePaymentState` (with
`linkIntent`), `UpsertCanonicalPayment` (with the outbox rows), then `Commit` or
`Rollback`. READ COMMITTED is modelled by `View` (own writes over committed rows)
and `holder` (who has the row's lock): `FOR UPDATE` waits for and locks a
committed row only, an upsert waits for whoever holds the row and overwrites it.
A webhook is a transaction with one observation, a backfill page one with
several. `Rank`, `Supersedes`, `nextStatus` are the reducer.

### Intents - from event to canonical intent
A topic's consumer has one message in hand (`handler`): its step in
`ProcessIncomingIntent` (or `ProcessTokenizeResult` on the result topic), how
often it was called and what it has decided. The checks of an event (schema,
policy, time limits) are its verdict in `About`; what shares a business key, a
client reference or a payee is told apart. `Save` writes the intent, its outbox
row and the registry in one transaction, after the daily limit was reserved in
another; rows of the bulk file are accounted for by separate statements, and the
sweeper gives stuck runs up. When the enclave does not answer, `PublishTokenizeRequest`
hands the work to the asynchronous producer (`buffered`), which sends it in a step of its
own (`SendBuffered`) or drops it; `Restart` loses what is buffered. `undelivered` holds
the events whose request is gone, which the code does not see. The enclave answers a
request, answers twice, or records a failure. Approvals check, reserve and release in separate statements.
Accepted amounts are counted in single units (`AcceptedUnits`: one element per unit
of an accepted intent), so that `WithinLimit` compares a cardinality with the
reserved total. A restart begins at any offset between the committed one and the
position reached.

### Vault - keys, cache and migration
A call (`call`) is a request, a manual rotation or a tick of a worker on one
replica; calls of a replica that ask for the same thing share one flight. The
cache hands out buffers, not copies: a buffer has a number, the newest one is
live and the earlier ones are overwritten (`Bytes`). A token remembers the key it
names and the bytes it was really encrypted under (0 for an overwritten buffer).
Rotation is one transaction behind a transaction-level lock, migration many
statements behind a session-level one that a lost session gives up (`LoseLock`).

### Evidence - leaves to packs
Three consumers store leaves under the intent, the batch or, while nobody knows
the intent, the envelope; each store queues a readiness check in memory. A
worker's transaction (advisory lock, read, draft, archive, activate, outbox) is
a sequence of steps that shows nothing before its commit; deleting the leaves
comes afterwards. Administrators' recoveries and replays seal packs without the
lock.

### IntelProjections, IntelEvents - counting every event once
`IntelProjections` has one operator per event kind: the set of writes (row, field,
amount) its transaction makes, with the scopes and the clamp at zero of the SQL.
`IntelEvents` runs them through `RunOnce`, with the receipt's row locked, around
rebalances, retries, dead letters and replays; `applied` counts commits per
event and is not visible to the code. What the counters are compared with is a set
of single units: `CountedUnits` has one element per unit an event with a PROCESSED
receipt adds, `RowUnits` one per unit of the rows of a kind.

### IntelActions - from policy to actuation
Contracts are identified by their idempotency key; an evaluation reads, then
writes contract, decision record and outbox row in one transaction. Operators
keep what they have read. Both workers of an instance fetch rows without holding
them.

### Abstractions
*Worlds.* `Intents`, `Vault`, `Evidence`, `IntelActions` and the logs of
`IntelEvents` choose in `Init` what the topics hold and which requests are made.
One run then covers many small situations instead of their product.

Time is abstracted: a backoff, lease or ticker may end at any later step, so
results hold for every delay. Payloads, amounts and headers are left out where no
guard reads them; a failed payload check is a set of contracts or events. DLQ
topics get best-effort copies that nothing reads back and are left out. Bounds
(`Max...`) only limit faults, crashes, deliveries and expiries; the proofs hold
for every value of them.

## 3. Runs

| Run | Instance | Shows |
|---|---|---|
| `claim` | 4 messages, 2 workers, channels of 2 and 1, crashes and restarts | no offset is passed that nobody took (`NoMessageSkipped`), the drain never hangs (`DrainCompletes`) |
| `dispatch_money` | 2 Kafka workers on 2 instances, both sweepers, 2 deliveries, 1 crash, 1 failed write, 1 contract | `PaymentAnchored`, `AtMostOnePayout`, `AckedIsHeld` |
| `dispatch_recovery` | 1 relay, 3 contracts (sound, tampered, unrouted), 1 crash, 1 failed write, fair | `TakenIsStored`; `CallsAreResolved`: no dispatch stays SENT, and none waits for ever for a payout the PSP does not hold |
| `outbox_leases` | 2 workers, 2 operators, 3 leases, good and poison event, 2 lost or late calls, 1 crash, 1 expiry | `NothingLost`, `ReplayedIsPublished`, `ContractKept` |
| `outbox_live` | an unrouted, an invalid and a tampered event, 1 crash, 1 fault, fair | `EveryEventLeaves` |
| `relay_loop` | 3 events of 2 dispatches, the second poison, 2 workers, 2 faults, 1 crash, fair | `StatusIsTrue`, `ContractKept`, `Drains` |
| `payment_truth` | 2 runners; webhooks and pages on 2 payments: captured after authorized, two partial refunds, a failed payment retried; intents arriving at any time | `StoredIsAnnounced`, `StatusIsReported`, `StatusIsAnnounced`, `OnlyBlindWritesGoBack` |
| `intel_events` | 15 logs on 2 topics: every event kind in pairs that meet in the same rows, repeated, conflicting and refused messages; 2 readers, 2 faults, fair | `NothingLost`, `CountedOnce`, `CountersMatchReceipts`, `TenantIsSumOfBatches`, counters never below zero (`TypeOK`), `EverythingIsAccounted` |
| `intel_actions` | a policy that needs approval with 2 operators, or a payout that becomes overdue; 2 instances, 3 faults, fair | `OnlyReleasedActions`, `StatusIsTrue`, `EverythingEnds` |
| `evidence` | 6 worlds: a payout with 2 workers, with a recovery, redelivered, corrected, with its batch, and packs of requests only; 1 or 2 faults, fair | `SealedIsWhole`, `LeavesAreKept`, `CompletedIsPacked` |
| `intents` | 8 worlds on 2 partitions: one payment twice, one event twice, the rows of a file, every verdict, a held intent with 2 approvals; 1 or 2 faults, fair | `NothingLost`, `UnflaggedIsUnique`, `WithinLimit`, `EverythingEnds` |
| `vault` | 7 worlds on 2 replicas: first tokens, an old key both see, rotations during tokenization and migration, expiring cache entries; 0 or 1 fault, fair | `KeyLifecycle`, `OneEffectiveRotation`, `TokensMoveForward`, `RetiringEnds` |

The type invariants of `ClaimCommit`, `Dispatch`, `OutboxRelay`, `RelayLoop`,
`PaymentTruth` and `Intents` are theorems (section 5) and not part of a run, and so
are `MarksOneByOne` and `BadNeverPublished`. Those of `Evidence`, `IntelEvents` and
`IntelActions` say more than types (that counters do not become negative, which
attempts a row had when it failed or was dead-lettered); they are theorems as well and
still checked by their runs.
Every safety property of a run is proved for all values of the constants; liveness
is shown by the runs alone.

Why the bounds are enough: every race in the code is between two goroutines over
one row, and the runs have the two meet in every order. Pairs no run has are two
retry or two recovery sweepers and two evaluators of policies; for them there are the
safety proofs, which hold for any number. In `outbox_leases` three leases are those of
two workers and of a late call. One crash and one or two faults put a failure between
any two steps of every path, and a second one finds the state the first left. The channel capacities in `claim` are below the code's
`2*workers` and `4*workers` so that both fill. Two hashes per payment suffice for
repeated idempotency keys, two partial refunds for the only status that may
repeat. In `intents` the daily limit admits one payment and not two, and two
attempts of a handler are the fewest with a retry. In `vault` a tenant's five keys
are more than any world makes. A world holds the two or three calls or messages
that share a row; worlds with more of them would only repeat the pairs. Symmetry
is used over workers, operators, runners and leases in runs without liveness. `CHECK_DEADLOCK
FALSE` stands where the system may come to rest: all events settled and the
budgets used up.

## 4. Fairness

* `claim`: weak fairness of each goroutine; Go runs what can run. Nothing makes a
  claim start or end.
* `dispatch_*`: weak fairness of a runner's next step (each call returns, all
  clients have timeouts); strong fairness of a sweeper taking a due row, because
  the ticker fires for ever and each sweep takes due rows. Which row it takes is
  left open. The batch limit is not modelled: rows no sweep can resolve keep
  their `updated_at` and stay at the front of `ORDER BY updated_at LIMIT
  BatchSize` (`recovery_sweeper.go:220`), so enough of them would starve the
  others.
* `outbox_live`: weak fairness of leasing, of a worker's steps and of a lease
  running out, which only needs the clock.
* `relay_loop`: weak fairness of each worker.
* `intel_events`, `evidence`, `intents`: weak fairness of each consumer's next
  step, of the workers (their queues are drained as long as the process runs), of
  the local DLQ's replay ticker, of the producer's sender, of the enclave's consumer
  and of the run sweeper's ticker.
* `intel_actions`: weak fairness of both workers of an instance, whose tickers
  never stop, and of a backoff that elapses.
* `vault`: weak fairness of every call's next step; workers start again.
* Crashes, faults, expiries, approvals, replays, late requests and redeliveries are never forced.
* `payment_truth` claims no liveness: the database may break a deadlock between
  two pages by rolling one back, over and over.

## 5. Theorems

All are proved with TLAPS for every value of the constants, under the named
assumptions of the module, which TLC evaluates in every run. Each rests on an
inductive invariant that was model-checked first.

The assumptions say that the sets are what they are called, that the no-value
constants (`None`, `NoId`, ...) are not members of them, and that bounds are
natural numbers (`ConstantsAssumption`, `DispatchAssumption`,
`RelayLoopAssumption`, `NoneAssumption`, ...). Where a module chooses a world or
a log in `Init`, they say what one looks like: a log is a sequence of messages
per topic (`LogAssumption`, `EvidenceAssumption`), a call is of a known kind on a
known replica (`VaultAssumption`), a message without leaves is skipped before
anything is stored and therefore not in a log (`EvidenceAssumption`). An event the
intelligence service counts has one of the fourteen kinds, a day, a batch or none and
an amount that is not negative, and the summary of a batch names it, as its handler
demands (`BodyAssumption`); two messages of an event with the same payload hash have
the same payload, because the hash is a SHA-256 over its bytes (`HashAssumption`).

* **DispatchProofs** - `TypeCorrect`, `MoneyIsAnchored`, `OnePayout`,
  `AcksAreReal`, `NothingTakenIsLost`. Besides the properties `IInv` says what a
  runner in each step knows of its row (`Working`, `Referenced`), that a row's
  status and its outbox agree (`Rows`), that all requests for a contract carry
  the row's reference (`OneReference`), and that an answer about to be recorded
  was really given (`AckSeen`). `PaymentAnchored` is not inductive without them:
  another runner may turn the status back unless every step that does so has
  been seen to start from a sent row.

  In the same module, about the consumer in front of the pipeline:
  `ClaimTypeCorrect`, `NeverSkips`, `OneByOne`, from `ClaimIInv`. `order` plus the
  announcements still in the channel is the contiguous block of offsets that
  starts at `marked`; whatever is reported completed is owned. Without the block
  nothing keeps a mark from jumping.
  And about the loop behind it: `LoopTypeCorrect`, `StatusIsTruthful`,
  `KeepsContract`, with `Held`: what a worker between two calls knows of its event
  and no other worker can undo.
* **OutboxRelayProofs** - `TypeCorrect`, `NothingIsLost`, `RefusedStaysOut`,
  `ReplaysAreReal`, `KeepsContract`. `AcksBacked`: what a worker, or a call still
  under way, will acknowledge is already accounted for; `Busy`: what a worker in
  each step knows of its event; `RowsReleased`: a settled row has no lease, so
  no late call can touch it; `ReplayableIsGood`: only failures of sound events
  are open for replay. The refinement shows for each action which contract step,
  or stutter, it is.
* **PaymentTruthProofs** - `TypeCorrect`, `StoredAndAnnounced`,
  `StatusIsFounded`, `StatusIsPublished`, `OnlyBlindGoBack`, and
  `CapturedStaysCaptured` about the reducer alone. `WrittenIsHeld`: an uncommitted
  write has the row's lock; `ReadIsCurrent`: a row that was found stays what the transaction sees until it
  writes; `ReducedFromCurrent` and the lemma `ReducerIsForward` make
  `WrittenIsForward`: an uncommitted write is not behind the committed row unless
  it was made blind; `WrittenIsReported`, `WrittenIsAnnounced` and
  `InsertedIsAnnounced` are the properties as each transaction would leave them
  at commit.
* **IntentsProofs** - `TypeCorrect`, `NothingIsLost`, `UnflaggedAreUnique`,
  `LimitIsKept`. `Marked` is `NothingLost` with what it needs in between: an event
  behind a position has a trace that nothing removes (`Settled`: an intent, a dead
  letter, a failure receipt, an unanswered request, or a request the producer dropped,
  the one exception) or is still with the producer or the enclave: a request leaves
  the producer for the enclave or is dropped, turns into an answer before it leaves
  the enclave, and the answer into an intent or a receipt before its position moves on. `Knows` says what a handler in
  each step has done for its event, because the accounting of a file's row comes
  after the intent and may fail in between. `Registered`: an intent that is not
  flagged is the one the registry names, so there is one of them for each key;
  the check before `Save` is not enough, `Save` asks again. `Covered` makes the limit
  inductive: accepted units, those a handler has reserved and is about to save, and
  those an approval has reserved and is about to accept are together at most
  what is reserved. A handler that dies in between only leaves too much reserved. Intents
  made from answers of the enclave reserve nothing and are not counted (`Accepted`).
* **VaultProofs** - `KeysHaveLifecycle`, `StaleKeysRotateOnce`,
  `TokensOnlyMoveForward`. That the newest key, and no other, is ACTIVE
  (`NewestIsActive`) is not inductive alone: what keeps it is that what a call has
  read some statements ago is still about keys and tokens there are, and that the
  key a migration empties stays older than the newest (`Remembers`). For the
  action property, `Excludes` says that while no session has lost its lock a
  migration is the only one of all replicas, so the key it moves tokens to is
  still the newest: a rotation in between is refused by the same lock.
* **EvidenceProofs** - `TypeCorrect`, `SealedPacksAreWhole`, `LeavesStay`. A pack is
  whole because a worker that has left the readiness check has exactly one leaf of
  every required type in hand (`OneOfEach`), whatever happens to the stored leaves
  meanwhile; `Serving` follows a recovery or replay from its draft to the pack it
  supersedes, and `Sealed` and `OneActive` are what the unique index and the order
  of the statements leave. `LeavesStay` needs that a worker that deletes leaves has
  an ACTIVE pack in its scope (`Working`), and that packs stay ACTIVE (`Grown`):
  the lock is given up before the leaves are deleted.
* **IntelEventsProofs** - `OffsetsPassNothing`, `EventsCountOnce`. `Behind`: the owner
  of a topic has accounted for every message behind it, also those whose own
  commit failed, because a later commit covers them; a reader that lost the topic
  may still be at work, and its commit counts for nothing. `ReceiptsAreTrue` and
  `CountedIsFinal` tie the receipts, which the code sees, to the commits, which it
  does not; `redone` holds the one exception, receipts `markFailed` has overwritten.

  `TypeCorrect`, `CountersAreSums` and `TenantSumsAgree` are about the sums. First,
  for each of the fourteen handlers, its writes are `Consistent`: what it writes to a
  field depends on the field alone (`Sound`), so no two of its statements disagree
  about a counter (`OneWritePerCounter`) and the order in which they run is
  irrelevant, and what is added to the tenant's row is added to the batch's
  (`Mirrors`). Then `ProjectFacts` says what a transaction leaves, recomputed totals
  included, and `Sums` is inductive: counters are natural numbers (`Counters`), every
  leakage total is the sum of its parts (`TotalsFit`; without it a recomputation could
  move one scope's total and not the other's), both scopes have equal sums
  (`SumsAgree`), and a counter is the number of units counted (`CountsFit`). The last
  needs that an event with a PROCESSED receipt is never applied again, and that a
  receipt `markFailed` overwrites without a mark in `redone` counted for nothing.
* **IntelActionsProofs** - `TypeCorrect` (a PENDING row has attempts left, a row is FAILED
  and its action dead-lettered only after the last attempt), `ReleasedActionsOnly`,
  `StatusesAreTrue`. `InFlight`: what a worker is about to mark was really published or
  dead-lettered, and what it is about to dead-letter has no attempts left, although
  another instance holds the same row and marks it in between; `Alarmed`: a timer is marked after its escalation is in the database.

Only model-checked: all liveness (`DrainCompletes`, `CallsAreResolved`,
`EveryEventLeaves`, `Drains`, `EverythingIsAccounted`, the `EverythingEnds` of
`IntelActions` and of `Intents`, `CompletedIsPacked`, `RetiringEnds`), which the
proof system does not cover. Sums over all events and rows are stated as cardinalities
of sets of units, because the laws of a fold over a set need an induction over the
set, which is out of its reach too, while the library has the theorems about
cardinalities.

## 6. Where code and documentation disagree

The models follow the code. What follows is reachable in them although a comment
or document of the repository says otherwise; the properties of section 3 are
what does hold.

* **A dead end of recovery.** For a payout the PSP holds, `resolveViaQuery` writes
  PROVIDER_ACKED with an update that only matches SENT (`dispatch_repo.go:192`),
  so a row in AWAITING_PROVIDER_SIGNAL stays there for ever
  (`recovery_sweeper.go:321`). `:7` names this as a gap it closes. `CallsAreResolved`
  is therefore about requests the PSP does not hold.
* **A retry without a query.** A redelivered message turns AWAITING_PROVIDER_SIGNAL
  into FAILED_RETRYABLE, and the retry sweeper calls the PSP again
  (`dispatch_loop.go:531` against `dispatch_repo.go:205`, "Never retry from this
  state without querying the PSP first"). `OnePayout` shows that the constant
  reference still prevents a second payout, as long as the PSP honours it.
* **A dispatch nobody owns.** One failed write after the offset was given up leaves
  a PENDING row that no sweeper selects (`dispatch_loop.go:443`, `:734`, against
  `:165`).
* **A payment that goes back.** The first two observations of a payment, processed
  at the same time, both find no row; the late `authorized` overwrites a committed
  `captured` (`canonical_payment_store.go:111`; `README.md:199`: "status never walks
  backwards"). `OnlyBlindGoBack` proves that this is the only way: inserting the
  row before locking it, or a rank condition on the upsert, would close it.
* **Two alerts for one payout.** Escalation and BREACHED are two transactions, and the
  escalation's idempotency key holds the seconds overdue: a failure in between
  escalates again under another key (`sla_worker.go:138` against `:120`, "no
  duplicate alerts").
* **A batch pack without its leaves.** `processBatchJob` packs what it reads, not what
  the readiness check has read; a leaf deleted or replaced in between is missing from
  the sealed pack (`evidence_service.go:692` against `:469`).
* **A key that is zeroed in use.** `ttlCache.set` zeroes the entry it overwrites
  (`cache.go:48`); two requests that miss the cache together share the key, and the
  first one's buffer is overwritten while it encrypts. The token can never be read
  (`maneger.go:67` promises "the genuine, usable AES key"), and its key stays
  RETIRING: the exception in `RetiringEnds`.
* **A first key that is not the first.** `EnsureInitialKey` takes every error of
  `GetActiveKey` for a missing key and rotates (`token_service.go:454`, "very first
  encryption key if none exists yet"); two replicas may both bootstrap.
* **A duplicate the outbox does not know.** When the registry turns out to hold the key
  already, `Save` flags the intent, but its outbox row still says VALID
  (`payment_intent_repo.go:247`, `:281`). `UnflaggedIsUnique` is about the intents.
* **A request nobody sends.** When the enclave is down, `PublishTokenizeRequest` counts as
  success once the message is in the asynchronous producer's channel
  (`intents/kafka/producer.go:113`), and the event is marked. The broker's refusal is only
  logged (`:91`) and `Close` does not wait for what is buffered (`:129`): the event has no
  intent, dead letter, receipt or request. `intents/kafka/consumer.go:133` says "only a
  successful durable write earns the mark", and `vault/kafka/producer.go:58` describes this
  behaviour as one its own producer had. `NothingLost` is violated without
  the exception `undelivered`; with it, it shows that this is the only loss.
* **A run that reopens.** `UpsertIngestRun` writes counts another statement has read
  (`db.go:60`, "update run stats atomically"): a slower row can reopen a completed run,
  which the sweeper then gives up.
* **Delivered and dead-lettered.** `FetchPending` locks outside a transaction
  (`outbox_repo.go:109`, "multiple ZPI instances don't double-deliver") and `MarkFailed`
  ignores the status, so a delivered actuation can be dead-lettered as well.

Smaller ones:

* Recording a failure again reopens a ledger row that is being replayed
  (`publish_failure_repo.go:117`), so two operators may replay at once; a replay
  that dies leaves the row REPLAYING for ever.
* A payload mismatch is given up unrecorded when the database is down
  (`dispatch_loop.go:983`).
* An event without route is nacked, not acked as poison (`worker.go:171`), and
  poison is retried like an outage (`retry.go:60` against `processor.go:227`).
* `relay_loop.go` says no two workers process one row and events of a dispatch
  keep their order; locks end with the statement and a failed event is
  overtaken. A quarantined row can still be marked PUBLISHED-or-FAILED by
  whichever worker is last; `StatusIsTrue` shows that either is true.
* `attempt_count` is never incremented, so the retry backoff does not grow
  (`dispatch_loop.go:712`); `amountFromString` truncates (`:890`).
* Headers are stored as a list and replayed as a map, so they are lost
  (`failure_replay_service.go:70`).
* A token inserted by a request that read the key before a rotation is encrypted under a
  key that is RETIRED by then and is not migrated; one unreadable token blocks the
  migration of its key for ever.
* The asynchronous path of the intent engine has no lookup by envelope, no daily limit and
  no batch, and uses another business key; a reservation is not released when `Save` fails; a
  redelivered row of a file is counted twice; the dead letter of a row is written after it
  was accounted for.
* A finality certificate handled before its intent finds no timer to resolve; the timer
  seeded afterwards escalates a payout that is final. An outcome before its dispatch leaves
  the pending counter one too high.
* A readiness check that is queued in memory, or dropped at shutdown ("safely dropped",
  `evidence_service.go:265`), is not queued again: a complete payout stays without its pack
  until another message or an administrator's recovery comes. `CompletedIsPacked` is about
  behaviours without a fault; `LeavesAreKept` shows that the leaves stay.
* A replay of an ACTIVE evidence pack always fails: it activates before it supersedes, and the
  unique index refuses (`evidence_service.go:1254`).
* Backfill: the lease owner is the host name, so two runs on one host share a cursor
  (`backfill_service.go:207`); a Cancel between a run's read and write is overwritten (`:203`).
* A completion that overtakes its announcement leaves a prefix of the claim
  unmarked until the next message; it is redelivered, not lost.

## 7. Plan

Done: the relay's payout path and event paths, payment truth, the intent engine,
the vault's keys, evidence packs, and the intelligence service's counting and
acting, with the proofs of their safety properties. Next, in this order:

1. **Backfill** (`backfill_service.go`, `backfill_store.go`): jobs, cursors and leases,
   composed with `PaymentTruth`, whose batches are its pages: the cursor is never
   ahead of what is stored.
2. **Matchers** (`matcher.go`, `settlement_bank.go`) as pure operators against a
   reference definition: no bank credit proves two settlements.
3. **Payout truth** as an instance of payment truth's protocol, and **edge**: the
   idempotency claim, its release, and webhook receipts.
4. **Composition** of `Dispatch` with `RelayLoop` over `relay_outbox`, and of
   `ClaimCommit` with `Dispatch` over what is taken.

## 8. Not modelled

Key material, hashing and signatures, floating-point and text scoring (attachment
engine, intent scores), derived rates and percentiles, the summaries of the
intelligence service that are recomputed from its counters, language models and
training (agents, ml), user administration (edge), Airflow graphs (scheduler), the
user interface and its simulators, parsers of settlement and bank files, read-only
queries and views, configuration, probes, logging and metrics. These are most of
the repository's lines: they change no state another part relies on, or compute
data no guard depends on. `PROJECT.json` gives the reason for each component.
Liveness under a database that is down for ever, and the row limits of the sweeps,
are outside the bounds.
