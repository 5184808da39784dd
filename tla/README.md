# Verification of the EMPX swap API

TLA+ models of the parts of the EMPX swap API whose correctness depends on
interleaving, failure or time, with TLC runs on small instances and TLAPS
proofs for all instances. Paths are relative to the repository root.

## 1. The system

An Express server (`src/server.ts`, `src/startup.ts`) on PostgreSQL (through
Prisma) and, if configured, Redis. Every guarded request passes
`apiKeyGuard -> usageLogger -> rateLimiter -> route`; the rate limiter first
takes a token from the key's bucket in Redis, then a credit from the key's quota
in PostgreSQL. `POST /v1/swap/:chainId/execute` adds the two idempotency
middlewares and queues a job in a table; a separate process, the transaction
worker, polls that table and calls the blockchain adapter. The processes share
nothing but the database and Redis. Inside a process a handler runs without
interruption between two `await`s, so the interleaving is that of database and
Redis calls.

| Component | State it keeps | Operations | What makes it correct | Module |
|---|---|---|---|---|
| Swap execution and idempotency (`modules/swap`, `core/middleware/idempotency.ts`, `IdempotencyRepository.ts`, `TransactionQueue.ts`) | `idempotency_keys`, new rows of `pending_transactions`, the handlers in flight | look up a key, queue a job, store the response, answer | a replayed answer is that of its own key; an acknowledged key is never executed again; every request ends | `SwapExecute` |
| Server lifecycle (`startup.ts`) | the process, its open connections | signals, `unhandledRejection`, graceful close, forced exit, container restart | no request is left open for ever | part of `SwapExecute` |
| Transaction worker (`TransactionWorker.ts`, viem adapter) | status of the rows, the batch and the row in hand of each worker | poll, claim, execute, complete, fail | a row is taken up once, sent once at most, and says truly how it ended | `TransactionWorker`, `JobLifecycle`, `SharedJobs` |
| Quota and billing (`quotaService.ts`, `modules/billing`) | one row per key and month, one per key and day | consume a credit, buy credits, report usage | what is granted is counted, and bounded by what was bought or allowed; nobody keeps a connection or waits for ever | `QuotaConsume`, `QuotaPool`, `CreditLedger` |
| Rate limiter (`rateLimiter.ts`) | one bucket per key in Redis, or in memory | admit or refuse | in any window at most burst and refill are admitted, and nobody is refused who keeps to them | `TokenBucket` |
| API keys, guards, whitelists, dashboard (`apiKeyService.ts`, `apiKeyGuard.ts`, `auth.ts`, `modules/auth`, `modules/dashboard`) | `api_keys` | generate, store, revoke, whitelist, check | a revoked key passes no later guard and never comes back; the owner's change is the one stored | `SwapBuild`, without whitelist changes |
| Partners (`modules/partners`) | `partners` | list, get, create, update, delete | wallets are unique; what a client is told was true of the table when its call took effect | `Partners`, `UniqueRegistry` |
| Configuration and seeding (`configService.ts`, `chainAdapterService.ts`, `modules/admin`, `scripts/seed.ts`) | `tiers`, `endpoints`, `tier_endpoint_configs`, `chains`, `tokens`, `chain_tokens`, `chain_adapters` | two seeds, path, tier and quota lookup, list of adapters | what a finished seed has set up is found, whatever other runs do or leave undone, and no row refers to one that is not there | `Catalogue`, `Provisioning` |
| Users and sessions (`modules/user`, `session.ts`) | `users` | register, log in, verify a token | e-mails are unique | left out, see 5 |
| Router, quotes, transaction building (`lib/smartRouter.ts`, `modules/quotes`, `BuildTransactionUseCase.ts`, `FeePolicy.ts`) | none | quote, build | minimums are below quotes by the slippage; value, call and approval agree; the fee is that of the key | `Routing`, `SwapBuild` |
| Tokens and chains, contract client, validation, logging, metrics | none, or observation only | | | left out |

Behaviours that are hard here: a check and the write it guards are always two
database calls (idempotency, quotas, worker); a call that fails may have been
committed; the server is shut down by any rejection nobody awaits; worker and
server die and are restarted at any point; scripts sent to Redis carry the time
they were sent, not the time they run; a quota transaction waits for a second connection
of the pool while it holds one; the seeds write dozens of rows without a
transaction, while requests read them. `PROJECT.json` lists each hazard at its
line with the properties that watch it.

## 2. Modules

**`SwapExecute`** has one action per database call of the handler, with the code
that runs until the next call. `pc` is the await a handler stands at, `idem` and
`jobs` the two tables, `server` the process. `EnqueueError` and `StoreError`
choose whether the failed call was committed. `CheckError` is the lookup whose
rejection reaches `unhandledRejection`: the request hangs and the server starts
closing. `Exit` cuts every open connection. The job id is the request that
created it, which is what makes "the job of this key" expressible. `prior`
records, when a request arrives, which requests with its key were answered 200
by then.

**`TransactionWorker`** has any number of workers. `Batches` are the results
`findMany` may return, ordered by `created_at` with ties free; `Claim`,
`ExecuteOk`/`ExecuteThrow`, `Complete`, `Fail` are `processJob`, their `...Error`
twins the same calls failing. `Faults` and `Outcomes` switch error kinds on. At
this commit the viem adapter throws before it sends anything (`ExecuteThrow`);
`ExecuteOk` is the outcome its interface announces. **`JobLifecycle`** is the
abstract specification: queue, take up, send at most once, and end with the
status that is true. `runs` counts executions by worker and is history only. It is
what one worker whose writes succeed promises, and no more than one: with two, a
finished row can be taken up again. **`SharedJobs`** is what remains with any number
of workers and any faults: a row is read for work while it is pending and is never
pending again, only who has read it sends it, and once, and `completed` is written
by one who has sent it. Its `holds` is what a worker has read and may still send,
`Holds` in `TransactionWorker`: the rest of its batch, and the row in hand until it
is sent.

**`ExecutionPipeline`** composes the two: `Api` is `SwapExecute` with `jobs` read
off the table, `Work` is `TransactionWorker` on the rows, and `Insert`, the one
call that both see, is a joint step. Everything else either process does leaves
the variables of the other alone.

**`QuotaConsume`** is `consumeCredit` for one key in one month and day: one action
per call, under READ COMMITTED. An increment and its commit are one step: until
the commit others read the old value and cannot write. `CreateCollides` is the
unique index refusing the second row of a day, `Abort` and `CommitLost` the two
ways a call fails, both ending in the catch clause. `granted` is history.
**`CreditLedger`** is what the two rows promise together, without handlers: nothing
bought or used is taken back, who is let through has paid in the same step, and no
credit is taken beyond what was bought, or beyond the daily limit, but for a known
margin. `QuotaConsume` implements it with a margin of the handlers less one,
`QuotaPool` with margins that depend on the connections alone.

**`TokenBucket`** is the Lua script, atomic in Redis, and the middleware around it.
Amounts are in sixtieths of a token so that refill is exact. `line` holds the
scripts on their way, each with the second it was sent; a script runs at most
`LATENCY` seconds later. `StartWindow` puts the start of the observed window
anywhere; it only writes history. `full` and `spent` are history too, for the
other direction: when a script last found the bucket full, and the tokens taken
since. Lua's doubles are taken as exact.

**`Routing`** is the pure part of quotes and builds as operators: what a client may
ask (`Ask`), the amounts the simulated adapters may come up with (`QuotesFor`),
and the transaction `buildSwap` makes of a request (`Transaction`). Amounts are
natural numbers in the smallest unit and divided as `BigInt` divides; the random
factors are thousandths from two constant sets, the addresses and the ABI encoding
are left out: what counts of a transaction is the function called, the value, the
amount approved and the fee.

**`SwapBuild`** puts these behind `apiKeyGuard`, the rate limiter and the two
controllers. A request waits three times: for its key's row in the guard, for the
limiter, and, if a build names no fee, for the row again in `getPartnerFee`. In
between keys are created (`Generate`, a prefix that the unique index has not seen)
and revoked (a lookup of the row, or of the caller's own key, then the write), and
the server is recycled. `GuardError` is the lookup that fails: the guard's promise
is rejected, nobody answers, and the process shuts down. `late` records that the
key was revoked before the request arrived. The limiter's own decision is a choice
here; `TokenBucket` and `QuotaConsume` are its models.

**`QuotaPool`** extends `QuotaConsume` with the connections of `lib/prisma.ts`:
`held` says who has one and whether for the transaction or for a lookup, `queue`
who waits, in order. `consumeCredit` opens its transaction on one connection and
then asks `configService`, which uses the global client, so that each lookup waits
for another connection (`AskFor`, `Grant`). The timeouts of Prisma are actions:
`GiveUp` while waiting for the transaction, `Timeout` for a transaction under way,
which is rolled back at once and of which the callback learns at its next
statement (`StatementOfExpired`). The handler's own steps are those of
`QuotaConsume`, conjoined with what they do to the connections; that they remain
steps of `QuotaConsume` is the property `RefinesQuotaConsume`.

**`UniqueRegistry`** is the abstract specification of a table with a unique column:
each call takes effect at one instant and its answer is true of that instant; a
call that answers 500 may have taken effect or not. **`Partners`** has one action
per database call of `modules/partners`: `CheckTaken`/`CheckFree` are the lookup
of the wallet, `Create`, `Update`, `Delete` the write, `WriteRejected` the P2002 and
P2025 that get past the catch clauses because the promise is returned and not
awaited, `Fail`/`FailCommitted` a call that fails without or after its commit.
`Ensure` is `ensurePartners` of the seed script writing into the same table.

**`Catalogue`** is the rest of what the seeds write. A row is its table and key;
`Plan` is what a run of the script or of `admin/seed` writes, `Due` the rows it may
come to next, table after table in the order of `main`; `FailSeed` breaks a run off
at any call; `RefersTo` are the foreign keys of a row. `FindToken`/`WriteToken`/`TokenCollides` are the lookup and the insert of
`ensureTokens`, `ChainMissing` the adapter whose chain nobody has created. Readers
look a quota up in the four calls of `consumeCredit` (`Exact`, `Pattern`, `TierOf`,
`Config`) or list the adapters of a chain. `since` records which runs had reported
success when a reader began. **`Provisioning`** composes both: the script's upsert of
a partner is one step of both modules (`EnsurePartner`), and `SeedRuns` holds what
they share. `Casts` says which actors take part together.

Each module holds, before the actions they alter, a few definitions under the
heading *Deliberate errors*: plausible bugs, none of them part of `Next`, that
show that each property can fail. `MC...` modules give values to the constants;
`...Proofs` modules hold the proofs.

## 3. Runs

| Run | What it shows | Bounds |
|---|---|---|
| `SwapExecute` | answers name jobs of their own key; no request that arrives after a 200 for its key queues a job; every request ends, and none that no code answers is held by a live server | 3 requests on 2 keys: the smallest case with two requests racing on a key, a third arriving later, and a second key to mix up |
| `SwapExecute_reexecution` (violated) | two jobs with one key | 2 requests, 1 key |
| `TransactionWorker_faults` | a worker runs a row once at most; no row stays pending as long as some worker is up again and again; the workers implement `SharedJobs` | 2 workers on 3 rows, of which a batch holds 2, all faults; all rows have one `created_at`, which leaves their order free and so allows every order that others would |
| `TransactionWorker_shared` | without faults no row is left in processing and every row ends, whatever two workers do to each other's rows and however many rows arrive | 2 workers, batches of 2, at most 3 rows that have not ended; `EndlessSpec` of `MCTransactionWorker` gives the name of a row that has ended to a new one, so that rows arrive for ever, and keeps no history of what was sent |
| `TransactionWorker_lifecycle` | one worker that crashes implements `JobLifecycle` | 3 rows, batches of 2 |
| `ExecutionPipeline` | a request repeated after its 200 never reaches the chain; every job named in a 200 answer is taken up, whichever process dies, as long as a worker is up again and again, stays a row of the client's key, and reads `completed` only if it was sent | 2 requests on 1 key, 1 worker, all faults; the parts have their own, larger runs |
| `QuotaConsume_safety` | both quotas are overdrawn by less than the handlers in flight, and so is the limit of each path, which `MCPathQuota` counts apart; the rows implement `CreditLedger` with that margin, so every grant is counted | 3 handlers, three paths (quota 2, 1, none), 1 bought credit, failing calls |
| `QuotaPool` | no connection is kept; the paid credits are overdrawn by less than the connections, the daily quota by less than the connections less one; a handler is answered although all connections wait for each other; the steps are those of `QuotaConsume`, and the rows implement `CreditLedger` with the margins of the pool | 3 handlers on 2 connections, a quota of 2, 1 bought credit, failing calls: the smallest case in which two transactions wait for each other, a third handler waits for them, and one that was timed out meets two that were not |
| `TokenBucket_safety` | the bound on every window, through expiry; only a client is refused that has asked for more than burst and refill since the bucket was last full | 2 tokens, one refilled in 2 s, expiry after 6 s, 16 s, 2 scripts on their way |
| `Provisioning` | partners implement the registry; no row is there without those it refers to; after a successful seed no seeded request goes unlimited and no adapter is missing from a list | four companies: three requests; two requests and two runs of the script; one run of each seed and a reader; two runs of the script and a reader. Two wallets, two endpoints, one of them a pattern, one chain, token and tier. Every actor acts once, so the behaviours end and deadlock is not checked |
| `SwapBuild` | a revoked key is never served again; the fee of a transaction is its key's; a quote's minimum is below its amount by the slippage, no less, and by less than one unit more; value goes to the payable function only | 2 requests sharing 1 key, nine inputs: each route, recipient and fee case once, slippages of 0, 33 and 10000 bps |
| `SwapBuild_native` (violated) | see findings | 1 request |

All handlers, keys, rows and workers are drawn from sets the formulas never name
an element of, and each property relates two of them at most, so that the next
larger instance adds no new kind of interleaving; the proofs remove the bound.

**Fairness.** `SwapExecute`: every call of a handler ends, with a result or an
error, and a process that is closing gets to its timer (`setTimeout` of ten
seconds). No fairness on clients, signals or the restart. `TransactionWorker`:
weak fairness of the steps of `processJob`; strong fairness of `Poll`, because a
worker polls as soon as it starts and so does not die before every poll, and of the
writes that take a row up or mark it failed (`Claim` or `Fail`), because the
database does not refuse all of them for ever. Nothing in the repository restarts a
worker that died (`docker-compose.yml` has no service for it), so `Restart` has no
fairness, and `EveryRowTakenUp` and `PromisesTakenUp` promise nothing should all
workers stay down: their premise is that some worker is up again and again.
`EveryRowSettles` needs the order of the polls: with batches taken in any order,
two rows that keep arriving starve the third. `QuotaPool`: the
database ends every statement it was sent, the pool hands over a free connection
(`pg.Pool` serves its waiting line in order), and the timer of a transaction fires;
nothing is assumed of clients, of purchases or of `maxWait`. `HandlerIsAnswered`
depends on the timer: without `WF(Timeout)` two transactions wait for each other's
connection for ever.

**Findings.** Two of the runs above check a sentence of a document or comment and
refute it: duplicate keys can be executed twice (`SwapExecute_reexecution`); and a
sale of native currency is built without value, and for PULSE with an approval,
unless its route is NOSPLIT (`SwapBuild_native`).

More was met on the way that has no run. The quota check does not fail open:
`consumeCredit` catches every error and refuses (`quotaService.ts:141`, the action
`Abort`), so the limiter's own catch clause with its comment "Fail-open on quota
service failure" (`rateLimiter.ts:201`) is never entered. While Redis fails every
request is let through with no limit at all (`FailOpen`, `rateLimiter.ts:100`),
where `redis.ts:10` says that the limiter falls back to memory. With a pool of one
connection no request is ever granted on a daily quota: its lookups wait for the
connection its own transaction holds until that times out (`QuotaPoolProofs`). An
update of a partner that does not exist answers 500 where `openapi/partners.yaml:188`
says 404, and the loser of a race for a wallet 500 instead of 409 (`WriteRejected`).
`admin/seed` fails on a database on which the script has not run, because it
creates no chains (`ChainMissing`), after it has written the tiers, endpoints and
quotas. Two runs of the script at once may break one of them off at the index of
`tokens`. Every run without `TEST_KEY` adds another pro key. `register` and `login`
answer 500 to everybody (`user/route.ts`, `validate.ts`). The loser of the race to insert the row
of the day is told its quota is exceeded (`CreateCollides`, `quotaService.ts:120`),
and reading one's usage spends a paid credit (`ChargePaid` on the billing path,
`rateLimiter.ts:163`), which `docs/BEHAVIOR_MATRIX.md:26` says it does not. A build
calls the router with a minimum of 0 whatever its slippage (`smartRouter.ts:571`
and `:602`). A build without a recipient, which `openapi/swap.yaml` allows, always
fails: `0xUser` is no address. A slippage of 0 means the default of half a percent
(`GetQuoteUseCase.ts:90`). The seed script turns a revoked `TEST_KEY` back on
(`seed.ts`), the one way a revocation is undone.

Two disagreements are plain constants or sums: the free
tier's burst is 150 in `rateLimiter.ts:15` and 20 in `openapi.yaml:30`, and
`getUsage` subtracts the one daily counter of a key from the sum of all paths'
quotas (`quotaService.ts:233`) while each path compares the same counter with its
own quota, so that requests reported as remaining may be refused everywhere.

## 4. Proofs

Each `...Proofs` module states one inductive invariant (`IInv`, `Inv` or `PInv`; `SInv` for workers without faults), proves that `Init`
implies it and that each action preserves it, and derives the properties.

- `SwapExecuteProofs`: an answer is right because a stored response always names
  a queued job of its key, and so does the job a handler is about to store or
  answer; an acknowledged key stays stored because nothing removes a row. From
  that, a request that arrived after an acknowledgement finds the row, so it never
  reaches `enqueue`. `OnlyShutdownLeavesUnanswered`: a failed lookup hangs its
  request in the same step in which it sends the server closing, and each way the
  process ends empties every await.
- `TransactionWorkerProofs`: a row this worker has run is never pending again, so
  no later poll returns it, and the batch a worker holds contains no row it has
  run or is running. `WorkersShareJobs` is a refinement without assumptions on the
  number of workers or on faults, step by step: a poll is `Read`, because `Batches`
  contains pending rows only; a claim is `TakeUp`; a crash is `LetGo`; and a
  worker writes `completed` only at a point it reaches by sending.
  `NoRowLeftProcessing` shows `ProcessingHasWorker` under the assumption that no
  faults are switched on, by an invariant on where the worker of each such row
  stands. `SingleWorkerKeepsLifecycle` is a refinement, under the
  assumptions `OnlyOneWorker` and `WritesSucceed`: with one worker the row in hand
  is the only one in processing that can still be sent.
- `ExecutionPipelineProofs`: each step of the pipeline is a step of the endpoint or
  invisible to it, because (from the worker's invariant) a worker writes only rows
  that are in the table; and each is a step of the worker or invisible to it. So
  the theorems of both modules, instantiated, hold of the pipeline, and
  `RepeatsAreNeverExecuted` follows from one of each, and so does
  `AnswersAreTrue`: the job of an answer has the client's key by the endpoint's
  invariant, stays in the table because no worker removes a row, and is completed
  only if sent by the worker's. `PipelineSharesJobs` carries `SharedJobs` over to the
  pipeline, where the endpoint is its `Queue`.
- `QuotaConsumeProofs`: the handlers about to charge, plus what is used, stay
  within what was bought plus the handlers in flight less one; the sets of
  handlers are finite and the argument is on their cardinality. `RowsKeepLedger`
  turns this into a refinement of `CreditLedger`: before each increment the handler
  that makes it is one of those about to charge, which gives the guard of
  `TakePaid` or `TakeDaily`; its grant, or the answer that is lost, is the same step.
- `TokenBucketProofs`: `Budget` bounds what was admitted since the window began
  plus what the bucket holds by the capacity plus the refill since the earliest
  time a script of the window can carry. It needs `RefillAssumption`: a bucket is
  full again before it expires (`TTL` 3600 s against two minutes at most for
  every tier of `rateLimiter.ts`), without which expiry would hand out tokens
  early. `RefusalsAreFree` is an action property from the same invariant.
  `RefusalsAreEarned` is the bound from below: until the bucket is next found full
  its level is at least the capacity plus the refill since then less what was spent,
  which each script preserves because it writes the refill it computed even when it
  refuses, and a bucket that expired reads as full.
- `SwapBuildProofs`: a row, once created, is never removed and keeps its tier
  (`RowsSettled`), so a fee that was right stays right and a request that came too
  late stays stopped; together with the arithmetic lemmas on integer division
  (`MinOutBounds`, which bounds a minimum from both sides, and `DefaultIsFiftyBps`:
  995/1000 rounds exactly like 50 basis points) the properties hold for all amounts, prices and factors.

- `ProvisioningProofs`: rows of the catalogue are never removed, a run that has
  reported success has its whole plan in the tables (`DoneIsPresent`), an adapter's
  chain is there with it (part of `ReferencesHold`), and a reader that began after that finds at each of its
  calls what the earlier ones promised (`ReaderAgrees`). The registry is a
  refinement: each handler's last call is the instant at which the abstract call
  takes effect, and the lookup is invisible unless it answers 409, which is true at
  that instant. It needs that a client names no row before it exists and that
  every handler's call is the one it began with (`CallsAgree`). `ReferencesAlwaysHold`
  rests on the order of the tables: whatever a due row refers to is in the run's own
  plan, in a table it comes to before (`PlannedRefersTo`), hence already written,
  by itself and for good; the adapters of `admin/seed`, whose chains are not in its
  plan, are looked up first instead. `LinkAssumption`, that links name known chains,
  is the `continue` of `ensureChainTokens`.
- `QuotaPoolProofs`: every step on the pool is a step of `QuotaConsume` or none
  (`StepRefines`), which brings along all that was proved of it. `Places` says for
  each handler where its connections may be, by where it stands in `consumeCredit`;
  from it follows `NothingLeaks`. The bounds count the transactions that *hold* a
  connection and are about to charge, not the handlers; for the daily quota
  `OneIsLeft` is needed: whoever comes to the row of the day has just held one
  connection more, so at most `POOL - 1` transactions are there at once. They hold
  for any number of handlers and any `POOL`, in particular for the ten connections
  that `pg` opens by default. `PoolKeepsLedger` is the refinement of `CreditLedger`
  with these margins, `POOL - 1` and `POOL - 2`.

`GrantsAreCounted`, `RejectIsFree` and `CompletedWasExecuted` are proved without a
run of their own: the runs check `KeepsLedger`, `RefusalIsEarned` and
`KeepsSharedJobs` in their place, which say more. `PathOverdrawBounded` is about a
history that only its run keeps, and is model-checked only.

Liveness (`EveryRequestEnds`, `EveryRowTakenUp`, `EveryRowSettles`,
`PromisesTakenUp`, `HandlerIsAnswered`) is outside the
prover's reach and is model-checked only.

## 5. Not modelled

Quotes from real contracts: no router is deployed at this commit and
`getRealAdapterQuotes` returns none. Batches of quotes, price impact, and the
tokens inside a route that a client sends. Changes of a key's whitelists; in
`SwapBuild` what they decide is a choice. Tiers are free text, all those without a
fee of their own count as one.

Request validation, ABI encoding, logging and metrics: no state that another part
reads. `request_hash` and `expires_at` are written to `idempotency_keys` and never
read, so they are left out. The content of a job's payload. Clock skew between
servers and the in-memory bucket. Other users of the connection pool: they hold a
connection for one statement and wait for no second one. Users and sessions: no
request reaches their handlers at this commit (section 3). In the catalogue, what
the rows hold: both seeds write the same constants, and `admin/seed` other adapters
than the script. The `token_id` of a chain's token, which the script sets only if the
lookup just before has found it (`seed.ts:244`). `SeededIsLimited` speaks of seeded
methods and paths as they are written: a HEAD request or another case of a path, which
Express routes to the same handlers, has no endpoint in the table. Keys are global: the
idempotency table does not know the API key, so neither does the model.

## 6. Plan

1. Done: execution (endpoint, worker and their composition, one worker and many
   against abstract tables of jobs), quota alone and on the connection pool as a
   ledger of credits, token bucket, quotes and builds against the life of a key,
   partners as a refinement of a unique registry, configuration and both seeds.
2. The whitelists of a key, changed while its requests are under way; the
   in-memory bucket keyed by prefix; a clock per server for the token bucket.
3. The server's own life: listen, drain, disconnect, timer, signals.
4. Users, once their routes can be reached.
