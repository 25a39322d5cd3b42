# Formal models of the Veritasor backend

TLA+ specifications of the stateful parts of the Veritasor backend (`src/src/`),
the TLC configurations that check them on small instances, and TLAPS proofs of
the properties that matter most for every value of the constants. Paths below
are relative to `src/src/`; line numbers are given where the code is surprising.

## 1. The system

Businesses connect revenue sources, revenue is normalised into a Merkle root,
and the root is submitted as an attestation to a Soroban contract. The backend
is one Node.js process (several may run side by side) in front of PostgreSQL,
Redis, a Soroban RPC node, Kafka and the providers' HTTP APIs. JavaScript runs
one callback at a time, so the unit of interleaving is the code between two
`await`s that really leave the event loop; concurrency is between requests,
timers, callbacks and processes.

### Components, their state and what makes them hard

| Component | State | Operations | Hard because | Correct when |
|---|---|---|---|---|
| Soroban batching queue | queue, latency and cooldown timers, batch, promises | enqueue, flushNow, drain, doFlush | timers fire during a flush, deferrals are never cancelled | no lost wake-up, every promise settles in bounded time |
| Attestation submission | dedupe marks, transactions, rows, audit log | POST, dedupe, send, poll, save | lost answers, crashes, marks written without waiting | at most one send unless excused, no row without a transaction |
| Soroban RPC client | breaker, shared retry budget, hedge counter | executeSorobanRequest, hedgedRequest | two requests settle one promise in any order | errors only when nothing can answer, no leaked slot |
| Revenue evidence | entries, monthly series, trees and proofs | POST with entries, GET proof | odd levels, two implementations | proofs are complete and sound |
| Revenue fetch and submit | pages, aggregate, item | fetch, hash, submit, record | the list moves while it is paged | every captured payment counts once |
| Kafka intake | committed offset, dead letters | eachMessage, DLT, rebalance | kills and refused commits | nothing is skipped |
| Attestation rows and revocation | status, version, locks | create, revoke, revokeBatch | an on-chain step inside a database transaction | a revocation sticks, a batch is all or nothing |
| Public reads | shared HTTP cache | read, 304, stale-while-revalidate | validators against a changed status | a revocation reaches the readers |
| WebSocket stream | sockets, count per user | connect, close, error, heartbeat | listeners attached after an await | slots are the open sockets |
| Degraded queue and drainer | queue, drains | enqueue, drain | two drains keep indices across awaits | nothing answered "queued" is lost |
| DRR scheduler and adaptive batch size | deficits, order, EWMA | enqueue, dequeueBatch, sample | samples fail, batches shrink to one and stay there | what leaves a queue is in the batch, and a drain of a backlog takes something |
| Submission replay | cursor, keys, budget | scan, dedupe, submit | log grows while it is read | each key once, none lost from the summary |
| Idempotency middleware | entries with TTL and cap, sweeper | lookup, execute, store, sweep, stop | the handler runs between lookup and store | replies are faithful, expired entries go |
| Shutdown and bootstrap | signal flags, deadline, pool, services | signals, performShutdown | repeated signals, failing steps | an orderly exit that comes |
| Health and readiness | probes | shallow, ready, deep | dependencies that hang, a client that is not installed | probes are answered, and truthfully about what they contact |
| Telemetry | SDK, watchers, debounce timer | start, restart, spans | a change during a restart | credentials are those on disk |
| Refresh rotation | used jti rows | refresh | two round trips, lost answers | a consumed token is refused later |
| Token families | families, blacklist | pair, refresh, revoke, sweep | reuse, expiry of records | a reused family is dead |
| Signing keys and secrets | key set, caches | reload, retire, sign, verify | overlapping reloads, providers that fail | no valid token is refused in the grace window |
| Password reset | one token per user | forgot, reset | mail and hash are awaited | the last link works, a used one does not |
| Signup | limiter records, users | signup, sweep | look-up and creation around a hash | one account per address, limits hold |
| Rate limiter and Redis breaker | counters, sorted sets, breaker | admit, probe, fallback | clocks, retries of WATCH, redirections, pruning with another window | windows are bounded |
| Data export | Redis keys | start, status, download | a job nobody waits for | what the user is told is true |
| Users and roles | accounts, requests | patch, promote, approve, delete | two-person workflow with expiry | every change is audited, indexes agree |
| Audit log | hash chain | append, verify, page, anchor, export | random ids, equal timestamps | tampering shows, pages miss nothing |
| SPIFFE identity | SVID, stream, one timer | fetch, refresh, reconnect, stop | late answers on a shared timer, streams given up but not cancelled | renewal goes on |
| mTLS revocation checks | OCSP and CRL caches | check, fill | the list is read twice, a slower check writes later | passes only on fresh evidence |
| Businesses | map and table | create, list, remind | cursors drop microseconds | a walk meets every row |
| Integrations | states, records, tokens | connect, callback, disconnect | records read before an awaited call | one connection per account, dropped ones are revoked |
| Outbound retries | sorted set, local list | canRetry, recordRetry | asking and recording are separate | overshoot below one per caller |
| Outbound webhooks | subscriptions, versions, receipts | create, update, deliver | updates during a delivery | a version names one secret |
| Inbound Razorpay webhook | idempotency store, secrets | receive, retry, sweep, rotate | redelivery against expiry | one handling per window, true answers |
| Indexer rebuild | checkpoint file, cursor, rows | fetch page, upsert, save checkpoint | kills and torn files between row and checkpoint, overlapping runs | the checkpoint is never ahead of the table |
| Database queries | one prepared name per connection | query | each command may get another connection, all calls share the name | a query with parameters runs its own statement |

How they interact: the attestation route runs behind authentication and the
idempotency middleware, builds its evidence and calls `submitAttestation`, which
uses the RPC client (retry budget, breaker) and Redis. `services/attestation/submit.ts`
feeds the batching queue, each of whose items fetches, hashes and submits. Startup
replays failed submissions from the audit log on the budget the RPC client shares;
shutdown stops the sweeper, the consumer, the identity provider and the pool.
Provider calls go through the outbound retry wrapper. The webhook route and the
tokens use secrets that SIGHUP reloads. `PROJECT.json` lists all components with
their status, and every hazard at its line.

## 2. Modules

One module per component: its state, one action per operation or per stretch
between two awaits, and its properties. Names are those of the source.
Definitions ending in `_Something` are mutated forms (section 3); no
specification uses them.

| Module | Code | Abstraction |
|---|---|---|
| `BatchingQueue`, `BatchService` | `services/soroban/batchingQueue.ts`, flush callback of `services/attestation/submit.ts` | relative time that saturates at the compared limits; `Tick` may pass a due timer (the event loop can be late). `BatchService` is the promise to callers: first come first served, one batch at a time, each promise settled once |
| `AttestationSubmission` | `routes/attestations.ts`, `services/soroban/submitAttestation.ts` | a POST is a process; Redis may fail at each access, and a peer without a time-out may stay silent (`Hangs`); `CrashRestart` loses requests and the in-memory audit log; history variables record what excuses a second send |
| `SorobanRpc` | `services/soroban/client.ts`, `retry-budget.ts`, `utils/hedged-request.ts`, `getAttestation.ts` | a leg is one run of `executeSorobanRequest`; reads have a primary and a hedge leg |
| `RevenueEvidence` | `integrateRevenueChecks.ts`, `anomalyDetection.ts`, `services/merkle*` | hashes are free constructors, fractions pairs of integers |
| `RevenueSubmit` | `services/attestation/submit.ts`, `services/revenue/razorpayFetch.ts` | the list of payments is external and moves |
| `RevenueIntake` | `services/revenue/kafkaConsumer.ts` | one partition, external broker with rebalances |
| `AttestationRecords` | `repositories/attestation*.ts`, `services/attestation/revoke*.ts` | row locks and COMMIT of the batch, versions; a batch may fail to get its connection |
| `PublicReads` | `routes/publicAttestations.ts`, `utils/cache*.ts` | a shared cache that follows the directives sent |
| `AttestationStream` | `ws/attestationStream.ts` | registry, counts, heartbeat |
| `DegradedQueue` | `submitAttestation.ts`, `jobs/sorobanAttestationDrainer.ts` | drains keep an index across the await |
| `DrrScheduler` | `drrScheduler.ts`, `adaptiveBatchSize.ts` | items of a tenant are a count, decimals are percentages |
| `SubmissionReplay` | `startup/replayFailedSubmissions.ts` | the log is a sequence that grows while it is paged; an entry is its key and whether it can be used |
| `Idempotency` | `middleware/idempotency.ts` | lookup and decision are one action, the handler runs between `Execute` and `Respond` |
| `Shutdown` | `shutdown.ts`, `index.ts` | each await of `performShutdown` an action |
| `Health` | `routes/health.ts`, `startup/readiness.ts` | a dependency answers, fails or hangs, and changes at any time; `HasSorobanClient` says whether `soroban-client` can be imported |
| `Telemetry` | `tracing.ts` | a credential file is its version |
| `RefreshRotation` | `services/auth/refresh.ts`, `usedTokenStore.ts`, `login.ts` | `has()` and `mark()` are two round trips; the table survives a restart, the users do not |
| `TokenFamilies` | `utils/jwt.ts` | a jti is a number; a refresh under the family's lock is one step |
| `KeyRotation` | `utils/jwks.ts`, `utils/secret-loader.ts` | reloads overlap; provider, disk cache and environment as sources |
| `PasswordReset` | `forgotPassword.ts`, `resetPassword.ts` | one account |
| `Signup` | `services/auth/signup.ts`, `utils/signupRateLimiter.ts`, `utils/abusePrevention.ts` | one action per macrotask; timestamps as pairs of age and number |
| `RateLimiter` | `middleware/rateLimiter.ts`, `redis.ts` | one key; fixed or sliding window, members of the sorted set as pairs of age and number; the memory store is pruned with `CleanupWindow`; the cluster redirects or fails |
| `DataExport` | `services/user/*Export*.ts`, `repositories/dataExportRepository.ts` | each Redis command may fail with or without effect |
| `AdminRoles` | `routes/admin.ts`, `userRepository.ts`, role promotion | a handler is one macrotask; role and email of a user, where a patched role may be empty |
| `AuditLog` | `auditLogRepository.ts`, anchor and export jobs | injective hash, ids in any order; sorted rows are a set with ranks |
| `SvidProvider` | `spiffe/` | fetches on their way, the stream, streams without listeners (`abandoned`), the one timer |
| `MtlsRevocation` | `middleware/mtls*.ts` | evidence by its age and what is left of two documents, two caches, runs of openssl; `section` says whether `config.mtls.revocation` exists |
| `Businesses` | `services/business/`, `jobs/attestationReminder.ts`, `utils/pagination.ts` | timestamps in half milliseconds, cursors in whole ones |
| `Integrations` | `services/integrations/{shopify,razorpay,stripe}/`, routes | a handler that calls a provider is two actions |
| `RetryBudget` | `clientWrapper.ts`, `retryBudget.ts` | one action per round trip; an attempt is the pair of its age and a number |
| `OutboundWebhooks` | `services/webhooks/dispatcher.ts`, subscriptions | a delivery is prepared and posted in two steps; event filters are left out |
| `RazorpayWebhook` | `routes/webhooks-razorpay.ts`, `services/webhooks/` | an arrival up to the first attempt is one step; `saveDeadLetter` always throws and is modelled with that effect |
| `RebuildIndexer` | `../scripts/rebuild-indexer.ts` | a cursor is the number of events before it, a row the event it was written from |
| `PgQuery` | `db/client.ts` | a connection holds the text of `prep_0` or nothing; commands of one query may reach different server connections |

Parts that are independent of each other are run together: an `MC` module
EXTENDS several components and adds a variable `part` that selects, in the
initial state, the component that runs; the others keep their initial state.
The state space is the sum of the components' and not their product, each
component is explored exactly as it would be alone, and the fairness of an idle
one asks nothing, because none of its actions is enabled. Where components
really act on each other (batching and its service, the legs of one RPC client and its
callers, queue and drainer, scheduler and controller, limiter and breaker,
secrets and webhook) they are in one module.

## 3. Runs

| Run | Instance | Shows |
|---|---|---|
| `batching` | 4 items, batches of 2, threshold 3, cooldown longer than latency | no lost wake-up (`WakeupPending`); every promise settles (`EveryItemSettles`); `ImplementsService` |
| `submission` | 2 retries of one attestation and 1 unsigned request, unreliable Redis, 1 crash; 2 hedged reads and 1 submission with 1 hedge slot and budget 1; 3 sockets of 2 users; 2 attestations with one root; entry lists up to 5; 3 payments in pages of 2 | a second send only with an excuse; rows are backed and requests answered unless a peer stays silent; breakers refuse nobody, hedge slots are accounted for and reads settle unless both requests fail; slots of the stream; proofs; exact revenue; revocations reach readers |
| `process` | 3 connections, 3 signals; 1 probe over 4 dependencies without `soroban-client`; 5 requests on 2 keys and a store of 1; 4 failures on pages of 2 with budget 2; 2 credential files | replies faithful and one success per key unless excused; replay once; credentials current; exits orderly and coming; expired entries go; probes answered |
| `accounts` | 3 refresh calls on 3 tokens with a restart; 3 links and 2 resets; 2 signups over 2 client addresses and 2 spellings of one email; 2 limited calls with 3 faults and a window longer than the one the store is pruned with; 2 downloads of 2 tokens | a token consumed before a call began is refused; links; signup; limits and spaced probes; honest exports |
| `integrations` | 2 businesses, 2 shops, expiring states; 2 callers with budget 1; 3 subscriptions with a limit of 1 | one connection per state and account, disconnects revoke; bounded overshoot; subscriptions bounded and versioned |
| `webhook` | 2 events, 2 deliveries, 2 secrets, 3 attempts, clock past the TTL | one handling per window; a 200 only for a handled event, and no signed delivery refused |
| `access` | 1 family with 6 tokens; 2 reload handlers and 2 keys; 3 audit entries in pages of 1; 2 administrators; 3 fetches; 2 checks with one staple and a CRL that is replaced, with and without the config section; 3 rows | the seven promises of section 1 for these parts |
| `records` | 2 rows, 2 requests and 1 batch; 2 tenants with weights 1 and 2, a spike threshold of 3 and the default sensitivity; 3 keys and 2 drains on a queue of 2; 2 consumers with 2 kills; 3 queries of 2 processes, one with parameters, in 4 pool modes; 2 rebuilds, full or dry and filtered, of 3 events in pages of 2 | the six promises of section 1 for these parts |
| `submission_pending` | as `submission`, Redis reliable | **violated**: a retry while the first is pending sends again |
| `rpc_bothfail` | as `submission` | **violated**: hedge fails first, then the primary: the read never settles |
| `refresh_singleuse` | as `accounts` | **violated**: two concurrent calls rotate one token |
| `drr_starvation` | 2 tenants, batches of one | **violated**: the first tenant is served in every batch, the second in none |

The bounds are the smallest at which each branch fires: two actors contend for
every shared resource while a third disturbs them, every counter passes its
limit and the clock every expiry. Deadlock is not checked where the system may
stop (all requests answered, process ended) or where a bound ends the
behaviour; `batching` and `webhook` check it. Model values are symmetric where the
specification treats them alike; no liveness property depends on a symmetric set.

Each property has a mutant, a plausible bug in one definition, that breaks it;
`PROJECT.json` lists them. Several properties are conjunctions of named parts
(`ResetLinksHold`, `FamiliesHold`, `AdministrationHolds`, ...): the parts carry
their own comments in the modules.

### Fairness

Weak fairness, and only of what the platform performs by itself: due timers run
and time passes (`BatchingQueue`), a request whose promise is settled goes on
(`AttestationSubmission`, `SorobanRpc`), the sweeper's interval fires (`Idempotency`), the
deadline timer fires and a finished `performShutdown` is acted upon (`Shutdown`),
a check of a probe times out and the probe goes on (`Health`). Clients, operators,
signals and the ends of connections are never assumed to happen. In `SorobanRpc` every
call ends because `withSorobanTimeout` bounds it. That is not so of everything a
submission waits for: `getTransaction` is handed out unwrapped (`client.ts:740`), and
Redis commands and the insert have no time-out. There the action `Hangs`, which may be
taken instead of the fair step, leaves the request waiting for ever, and what is checked
is that a request ends unless it hung. The starvation run
alone uses strong fairness, of the arrival of fee samples: they are requested
again and again, so that even with a network that keeps answering the
counterexample remains.

## 4. Proofs

The theorems are in five modules that EXTEND the components they are about and
TLAPS; `PROJECT.json` lists them with what each says. They hold for every value of
the constants that meets the assumption named in the component's module
(`ConfigAssumption`, `SubmissionAssumption`, ...): limits, windows and page sizes are
natural numbers (nonzero where a division of work needs it), a value that stands for
"none" is not a member of its set. Two say more about the code: the TTL of the webhook
store covers the tolerance (`TtlCoversWindow`, true of the defaults) and ids are
numbers where the code orders them. TLC evaluates all of them in the runs.

Hardly a property is inductive as it stands. The last column says what the invariant
adds, mostly one kind of fact: what a call read before an `await`, related to the state
after it.

| Theorem | Invariant | What it adds to the property |
|---|---|---|
| **`SubmissionProofs`** | | |
| `SubmissionTypeCorrect`, `AtMostOnce` | `PollsInv`, `DedupeInv` | polls are counted only while attempts are left; per attestation, who is past its dedupe check, what was sent, and which mark or excuse exists |
| `RecordsAreBacked` | `SaveBacked` | a signed request that waits for its confirmation or for the table has sent its transaction |
| `BreakerNeverRefuses` | `RpcInv` | a breaker opens only when its caller has failed, and a failed caller starts nothing; a hedge starts before its primary has ended. Hence the degraded mode of the route cannot start |
| `HedgingIsSafe` | `HedgeInv` | a leg asleep has an attempt left, a timer is armed only while its read is open, and the counter is the number of hedges in flight |
| `StreamCountsRight` | `StreamInv` | a socket waits for its user or has a slot, never both; closed with a slot only if it was closed while waiting |
| `RevenueCountedOnce` | `RevenueInv` | what was collected is what is captured among the first `skip` payments, unless they moved; one transaction, and the record after it |
| `RevocationIsSeen` | `PublicInv` | a cached valid answer is at least as old as the time for which its root has been revoked |
| `MerkleProofsSound` | `EvInv` | what is stored are the leaves of entries under their root, and a leaf that was shown is among them or the text of an inner node |
| `SchedulerNeverStalls` | `DrrInv` | the order has no tenant twice; the batch size stays positive, so that a drainer with a size asks for at least one item. Within a batch: who is exhausted turn by turn, and that what leaves a queue is in the batch |
| **`RecordsProofs`** | | |
| `TypeCorrect`, `NoLostWakeup` | the types | inductive with them: `doFlush` starts a flush or leaves a timer, `checkTriggers` keeps what its caller armed, the `finally` block re-arms |
| `QueueImplementsService` | the same | each action is a step of `BatchService` or a stutter, under `waiting <- queue`, `busy <- flushing` |
| `WaitsAreBounded` | `StallInv` | within the cooldown window the wait is no longer than the window has lasted, and what waits has a timer that is due in time |
| `PromisesSettleOnce` | `PendingInv` | what waits and what is being served are different items, each once and not settled; proved of `BatchService` and carried over by the refinement |
| `IntakeSkipsNothing` | `IntakeInv` | a member that reads, whatever it has lost since, has settled every offset before its own, and its own once it is about to commit |
| `QueriesRunTheirOwn` | `PgInv` | what is on a connection was prepared by a call that can reach it and uses prepared statements; EXECUTE succeeds only between calls without parameters, so the others run nothing before their fallback |
| `RebuildsAreSound` | `RebuildInv` | the page of a run is what lies between where it stands and its next cursor, and what is before has a row or was passed over |
| `RevocationsStick` | `RecordsInv` | a version names one content of a row; what a batch has audited, sent and locked at each stage |
| `QueueLosesNothing` | `QueueInv` | while one drain runs alone its index points at its item; queue and settled together are what was accepted |
| **`AccessProofs`** | | |
| `RotationHolds`, `FailsClosed`, `RotationIsSafe` | `RotationInv` | the token of an ended call is in the table from then on, and a call past `has()` holds no such token |
| `LinksStayDead` | `ResetInv` | the token set last is stored until it is used or cleared; that of a finished reset is not |
| `RevokedFamiliesStayDead` | `FamiliesInv` | a token is blacklisted or on the list its family issued, an exchanged one on the list it consumed, unless the record was lost |
| `RotationLogsNobodyOut` | `KeysInv` | the key a token names is published, or retired for at least what is left of the grace window from the token's issue |
| `RenewalNeverStops` | `RenewalInv` | inductive with the types; an abandoned stream can only end the process |
| `EvidenceIsFresh` | `RevocationInv` | what is left of the life of a cached entry keeps its evidence fresh to the end; what a running check has read of the status and of nextUpdate is no older than its run; of two lists the later one bounds the entry |
| `AdministrationIsSound` | `AdminInv` | the types of accounts, index and requests; the audit of each change is an action property proved from it |
| `ExportsAreHonest` | `ExportInv` | a job about to report completion has stored the archive; a token that delivered one stays marked |
| `WalksMeetEveryRow` | `BizInv` | a row before the cursor has been met once and one after it not yet; the cursor drops microseconds, so rows of its millisecond need the excuse |
| `AuditIsReliable` | `AuditInv` | each hash is made from the one before and equals no other; a row of the start that was not met is past the cursor |
| **`IntegrationsProofs`** | | |
| `WebhookTypes`, `HandledOnce` | store entries | the entry of a handled event stays for as long as the event can be within tolerance |
| `RetriesAreFutile` | | a delivery in backoff carries an event that is too old |
| `AnswersHold`, `RotationIsSafe`, `AnswersAreTrue` | | store entries stand for handled events; Razorpay and the deliveries under way use a known secret |
| `ConnectionsStay` | `ConnectionsInv` | one request at most holds a state, and none that has connected; no two records have one id; a Razorpay request began before every record its business has |
| `SubscriptionsStay` | `SubscriptionsInv` | what is stored and what calls past their count may still insert, together; a delivery was signed under its row's version or an earlier one |
| `OvershootIsBounded` | `BudgetInv` | callers that were told yes and have not recorded yet are accounted for already |
| **`ProcessProofs`** | | |
| `ShutdownIsOrderly` | `ShutdownInv` | what is closed at each phase |
| `TelemetryKeepsUp` | `TelInv` | a file that changed since it was read has a timer set, is excused, or meets a restart that reads it again |
| `HealthyIsTrue` | `HealthInv` | a check that was begun is pending, has failed, or met a dependency that was up during the probe, or is Soroban without its client |
| `RepliesAreIdempotent` | `IdemInv` | a key that is not excused has one handler at a time, and once it has succeeded its response is stored and no handler of it runs |
| `SignupIsGuarded` | `SignupInv` | a record is forgotten only when the attempts it counts have left the window |
| `LimiterIsBounded` | `StoresInv`, `BreakerInv` | sliding: every admission is a member of the sorted set, or in memory of the array while it is younger than both windows; fixed: what was admitted in this window and in the one before, each at most the limit. The breaker's wait and the time since the last probe add up to the reset time at least |
| `ReplayIsSingle` | `ReplayInv` | the list holds the usable keys behind the cursor, then each once; what was sent is the list up to the loop's position |

To be within the prover's reach, ordered data are sets where only the order matters: a
limiter's timestamps are pairs of an age and a number that tells equal ages apart, the
rows of a query are a set with the rank of each row, the n-th of a list of positions is
the one with n-1 before it. The state spaces of the runs are the same as with
sequences. Lemmas that count (the first n elements of an order, pigeonholes, how a set
shrinks when it ages) are stated once at the head of the part that uses them.

Two theorems are about loops over data: the levels of a Merkle tree with the climb of
a verifier, and the rounds of `dequeueBatch` with the turns in each. The loops are
recursive functions (`level`, `current`, `after`, `round`), and what they compute for
every input is proved without an induction principle, by the least number for which it
would fail (`LeastNumber`, `Induction`): first that a function with the recursive
equation exists (`LevelsExist`, `TurnsExist`, ...), then what holds of it step by step.

* Merkle: a level is half as long as the one below, so that n leaves have a level of one
  node among the first n (`TreeShape`); a node joined to its sibling is its parent, an
  odd last one being its own sibling (`PairJoins`), so the proof of a leaf reaches the
  root (`ProofReachesRoot`); a climb along given siblings is injective in its leaf
  (`ClimbInjective`), so no other leaf does (`HexProofsExact`, `ClassProofsExact`); and a
  climb that ends in the root has passed nothing but nodes of the tree, since no entry
  is the text of an inner node (`ClimbPassesNodes`, `AcceptedLeaves`). The hash is
  injective and the texts are free constructors: the theorem is about the trees, not
  about SHA-256.
* Scheduler: a turn with a backlog, room and a weight of at least one takes at least one
  item (`VisitTakes`); during a round the exhausted tenants are those visited with
  nothing left (`InRoundContinues`), so that the filtered order is again the tenants with
  a backlog (`RoundTakes`); a round that begins with room takes something, so the loop
  ends within as many rounds as the model allows, with the batch full or nothing queued
  (`RoundsTake`). `TuneBounded` needs of the settings only what
  `getAdaptiveBatchConfig` and `resolveTierWeights` enforce: positive sizes (in whatever
  order), a smoothing factor between 0 and 1, positive weights.

Only model-checked:

* every liveness property, which is out of the prover's reach: `ShutdownEnds`, and the
  liveness conjuncts of `EveryItemSettles` (promises settle), `SubmissionsHold` (requests
  are answered), `HedgedReadsHold` (reads settle), `IdempotencyHolds` (eviction) and
  `ProbesHold` (answers). The safety conjuncts of the last five are proved
  (`WaitsAreBounded`, `RecordsAreBacked`, `HedgingIsSafe`, `RepliesAreIdempotent`, `HealthyIsTrue`).

Every other property of a passing run is stated by a theorem. Worth proving next: that
a batch of the scheduler holds exactly as many items as were asked for when that many
are queued, which needs sums over the tenants.

## 5. Where code and documentation disagree

The four violated runs are recorded as findings. Seen while modelling, without a
run of their own:

Submission and chain
* the submission route answers 503 "queued for retry" in a branch that is unreachable;
  queued items would carry no signer, and nothing starts the drainer;
* `submitAttestation` of `services/attestation/submit.ts` has no importer, its
  `submitToSoroban` is a placeholder, and it adds amounts of different currencies;
* the replay at startup reads an audit log kept in memory, so it finds nothing;
* `services/attestation/revoke.ts` has no caller and never writes the status; nobody
  purges the CDN, so a revocation waits for max-age plus stale-while-revalidate;
  revoked events are never published on the WebSocket;
* a 304 by If-Modified-Since can keep a body with an old status
  (`routes/publicAttestations.ts:93`); 404s carry no `no-store`, against the comment;
* two overlapping batches can both revoke and audit one attestation;
* `getTransaction` has no time-out, so a silent node keeps a submission for ever
  (`submitAttestation.ts:571`);
* batch revocation calls `db.connect()`, which `PgClient` does not have
  (`revokeBatch.ts:36`): as the code stands every batch fails before `BEGIN`;
* with the default sensitivity a batch size of 1 stays 1, because `Math.round` of less
  than 1.5 is 1 (`adaptiveBatchSize.ts:277`);
* evidence of 5 to 39 entries is always refused by the drift check with its hard-coded
  baseline; the two Merkle implementations give different roots; `[a,b,c]` and
  `[a,b,c,c]` have one root; the texts of inner nodes pass as leaves;
* a consumer group that never committed starts at the end of the log; a failed write
  to the dead-letter topic is swallowed; `running` stays true if connect fails;
* a dry or filtered run of `rebuild-indexer` advances the checkpoint, so that the next
  real run skips those events, and so does a write that failed; within a run the first
  event of an attestation wins; an upsert sets a revoked row back to confirmed.

Accounts and access
* two resets with one token can both hash before either writes, although
  `services/auth/resetPassword.ts:168` says there is "no window where a concurrent
  request could consume the same token";
* `revokeTokenFamily` says "unusable even after a process restart", but the blacklist
  is in memory; `clearExpiredFamilies` forgets consumed jtis of tokens that still live;
* tokens live an hour, retired keys five minutes; overlapping SIGHUPs can leave the
  older secrets; AWS and GSM swallow their errors, so neither failover nor the disk
  cache answers them; lease renewal refers to constants that do not exist;
* the progressive delay of signup is never applied and `blockOnThreshold` never
  passed, against `docs/THREAT_MODEL_SIGNUP_ABUSE.md`; a limited signup sleeps for the
  whole window; `signup.ts:388` speaks of 400 where `routes/auth.ts:47` answers 409;
* the rate limiter keeps its memory fallback for the life of the process, and prunes the
  sliding store with the default 15 minutes for every route (`rateLimiter.ts:403`, `417`):
  a route with a longer window admits more than its limit, though `rateLimiter.ts:23` says
  "every window is exactly `windowMs` wide";
* admin PATCH can give two users one email; an expired role request blocks a new one
  until it is swept or approved; for an account whose role was patched to the empty string
  the `x-user-role` header of the request is believed (`permissions.ts:239`);
* the audit export is NDJSON while `verify-audit-chain` wants an array; deleting the
  newest entry is not detected, against the repository's header; nothing starts the
  anchor and export jobs;
* the configuration builds no `mtls.revocation` (`config/index.ts:236`), so that every
  revocation check throws (`mtlsRevocation.ts:77`) and is answered 503; with it, status
  and nextUpdate of the CRL come from two reads of the file, and an old "good" can be
  cached for the life of the new list;
* `handleMtls` assigns an undeclared variable, so a certificate that passes is answered
  503; `crl_unavailable` is cached for the full TTL; openssl runs without a time-out;
* an answer of a fetch clears a pending reconnect timer, so the SVID stream stays dead
  until a fetch fails; an expired SVID leaves no timer; a reconnection in flight at
  `stop()` reopens the stream; `stopWatch` removes the listeners without cancelling the
  stream, so a later error of it is unhandled and ends the process; the default gRPC loader
  passes the text of the proto to `loadSync`, which wants a file name
  (`workloadApiClient.ts:206`), so that `start()` rejects;
* the IV, salt and signature of a data export are never delivered; a 202, 404 or 500
  wastes the token; a crash leaves the export pending for ever; two overlapping
  downloads both succeed.

Process
* overlapping requests with one idempotency key both execute, against
  `docs/threat-model-idempotency.md:8`;
* with Redis configured the sweeper runs against Redis, while the middleware keeps using
  the in-memory store, whose expired entries then stay until it overflows or they are
  asked for;
* the cleanup hook also runs after a rejected `pool.end()`, although `shutdown.ts:42`
  says it is "called after the DB pool has closed successfully"; a signal between
  `listen` and the registration of handlers kills the process without a drain
  (`index.ts:49`); without mTLS `startServer` calls `listen` twice (`app.ts:266`, `269`);
* without `soroban-client`, which `package.json` does not list, the deep health leaves
  Soroban out and says healthy, although `health.ts:108` says "if not available, mark as
  down";
* `index.ts:19` imports a `pool` that `db/client.ts` does not export; the model takes it to
  be the pool of the client;
* only Redis can make the deep health "degraded", and its probe leaks a connecting
  client on a time-out;
* credential files replaced by rename are never noticed, and a failed restart of the
  SDK leaves no watcher;
* in PgBouncer's "statement" mode the warning says that prepared statements are
  disabled, but only "transaction" disables them; a parameterised EXECUTE always fails
  and falls back; `db` is a Proxy with only a get trap, so `preparedStatementCounter++`
  (`db/client.ts:199`) always reads 0, every statement is called `prep_0`, and a prepared
  query without parameters may run the statement of another (all prepared queries of the
  repositories have parameters).

Integrations and webhooks
* `DELETE /api/integrations/shopify` and `/razorpay` match
  `DELETE /api/integrations/:integrationId`, which neither revokes nor deletes the shop
  token; the generic connect issues a state no callback knows;
* `stripe/store.ts` declares everything twice; the model gives it the meaning of either copy;
  `stripe/callback.ts:10` imports `repositories/IntegrationRepository.js`, which does not
  exist; the model uses `repositories/integration.ts`;
* a call the budget refuses is recorded as a retry all the same;
* a redelivery more than five minutes after `created_at`, also of a handled event, is
  tried three times and answered 500; the idempotency store is lost on restart; dead
  letters are never stored (`deadLetterQueue.ts:425`), though the comment says so;
* receipts always say signature version 1 and every attempt has a new delivery id;
  nothing calls the dispatcher; the migration lacks the `mtls_config` column.

## 6. Not modelled

* Webhook dead letters and their archive: every operation calls `db` as a function, which
  the Proxy is not, the routes import a middleware that does not exist and `admin.ts`
  functions that are not exported. None gets past its first statement.
* Request authentication, HTTP plumbing, the GraphQL resolvers and analytics: stateless
  transformations, or queries over placeholder data.
* Configuration, CDN and mail clients, feature flags, OpenAPI and Pact tools: parsing of
  settings and thin clients.
* Within modelled components: metrics and logging; the Redis store of the idempotency
  middleware with its read batching; the reload of mTLS certificates; `updateProfile`;
  the publishing of stream events; the event filters of outbound webhooks; lease renewal (it throws); `withPgBouncerRetry` and
  `migrate.ts` (no caller); validation of request bodies, formatting of headers, jitter;
  floating-point scores, of which only the decisions over small integers are kept.
