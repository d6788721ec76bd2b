# LLMPool in TLA+

This directory models [LLMPool](../src/README.md), a gateway in Rust between clients of the OpenAI and Anthropic APIs
and a pool of upstreams that serve them. It bills what its clients use. The modules say how the tables, the queues,
the caches and the concurrent handlers behave, TLC checks them on small instances, and TLAPS proves the most important
results for every instance. Paths below are relative to `src/crates/llmpool/src` unless they begin with `src/`.

## 1. The system

Two kinds of processes run from one binary: servers (`server.rs`), which answer clients and administrators, and
deferred workers (`defer/worker.rs`), which handle what servers put into queues. They share PostgreSQL (READ
COMMITTED) and Redis (apalis queues, caches, counters, rate-limit windows). Processes hold no other state, so
everything that can go wrong goes wrong between two SQL statements or Redis commands.

| Component | State it keeps | Operations | Hard about it | What makes it correct |
|---|---|---|---|---|
| Settlement (`defer/tasks/balance_change.rs`, `db/wallet.rs`) | `balance_changes`, `wallets`, `subscriptions`, queue of settle tasks, wallet cache | `settle_balance_change`, one transaction of up to seven statements | at-least-once delivery, up to 4 concurrent handlers (`main.rs:37`), reads without a lock that are written back later, crash around COMMIT | a change is applied once, in full, from one source; no money is lost |
| Money administration (`views/admin_rest_api.rs`) | rows of `balance_changes` | deposit, credit, withdraw: check, insert, push | failure between insert and push, a push whose reply is lost | every queued task names a committed row |
| Subscriptions (`db/subscription.rs`) | `subscriptions` | create, update, cancel, select at settlement, add usage | status changed while a settlement holds what it read | recorded usage never exceeds the quota |
| Event pipeline (`*/session_tracer.rs`, `defer/tasks/*_event.rs`) | `session_events` (UNLOGGED), event queues, hourly counters | add an event; count, price, upsert, charge, commit, push | two handlers of one event, changing prices, a crash of the database, a push after COMMIT | one charge per event, from the version of the prices recorded with it (a batch at its batch prices), pushed once |
| Deferred worker (`defer/worker.rs`, `defer/mod.rs`) | in-flight jobs of each worker | fetch, acknowledge, clean up stale workers, cron | restarts, redelivery | liveness of everything above |
| Authentication (`middlewares/api_auth.rs`) | `api_credentials`, `accounts.is_active`, `apikey:info:*` in Redis | two middlewares, create and delete a key, update an account | cache fill against invalidation, a copy of `is_active` in every key's entry | deletion and deactivation take effect for good |
| Routing (`*/proxy_views/helpers.rs`, `db/llm.rs`, `defer/tasks/upstream_health.rs`) | `llm_upstreams.status`, models | select candidates, try, retry, mark offline, health check, `update_upstream` | marks written long after the failure, read-modify-write of a row by the administrator, a health check that asks another way than requests do | only upstreams with a cause are offline, maintenance holds, what answers the health check comes back |
| Wallet gate (`*/helpers.rs check_wallet_balance`) | none (reads the wallet cache) | read cache, then the database | stale balances | refuses only accounts that owe |
| Rate limiter (`middlewares/rate_limit.rs`) | a sorted set per client address and per token in Redis | read the clock, trim, add, count, expire | five steps that interleave; the clock is read before the first; every failure lets the request pass | no window holds more admitted requests than the maximum; refusals have a cause |
| Catalog (`openai/features.rs`, `anthropic/features.rs`, `db/llm.rs`, `views/admin_rest_api.rs`) | `llm_upstreams`, `llm_models` | register an upstream and its models, probe features, update, tag | check-then-insert without an index, updates that write a whole row back, failures half-way | one row per `api_base`, what is routed was probed, answers are complete |
| Resource mapping (`*/proxy_views/files.rs`, `*/proxy_views/batches.rs`, `openai/proxy_views/responses.rs`, `db/`) | `file_metas`, `batch_metas`, `response_metas` | create, wrap, retrieve, cancel, delete | check-then-insert, one of two systems fails, retrieval bills again | the row of an id names one upstream object, on the upstream that has it |
| Embeddings, images, speech (`openai/proxy_views/`) | none of their own | select, try, retry, mark offline | the same candidate loop, written out again in each file; images marks nothing, speech tries once | those of Routing, which models the loop |
| Lists of models, passthrough, provider clients, configuration, encryption, telemetry, `llmpool-ctl` | none shared | | | not modelled: one request in, one request out |

How they interact: a request passes authentication, the rate limiter and the wallet gate, is routed, and its
`SessionTracer` queues an event for each answer with usage. The event handler charges it by inserting a balance change
and queueing its settle task. Settlement applies the change to a subscription or the wallet and writes the balance to
the cache that the gate reads. Administrators write the same tables. Routing selects among the rows of the catalog, by
the features that probes reported.

## 2. Modules

| Module | What it is |
|---|---|
| `Settlement` | tables, queue, cache and handlers of settlement, with administrators as submitters |
| `SettlementProps` | its properties |
| `SettlementTotals` | properties about sums of changes: exact totals, and what covers a balance |
| `Ledger` | abstract: a change is posted once, in one step, to one source |
| `SettlementProofs`, `SettlementRefinement` | theorems: invariants; then the ledger, the totals and what holds when settlements do not overlap |
| `Submission` | abstract: what settlement relies on from whoever submits changes |
| `EventPipeline`, `EventPipelineProps`, `EventPipelineProofs` | from `SessionTracer::add` to the push of the settle task |
| `Routing`, `RoutingProps`, `RoutingProofs` | requests, marks, health check, updates of upstreams |
| `ApiKeyAuth`, `ApiKeyAuthProps`, `ApiKeyAuthProofs` | the key cache against administration |
| `ResourceMap`, `ResourceMapProps`, `ResourceMapProofs` | files, batches and responses: our ids against the upstreams' objects |
| `RateLimit`, `RateLimitProps`, `RateLimitProofs` | the sliding windows of addresses and tokens |
| `Catalog`, `CatalogProps`, `CatalogProofs` | registration, probing and updates of upstreams and models |
| `MC*` | small instances for TLC |

A definition of a `Props` module states a property; an operator whose comment begins with "Mutant" is a plausible bug,
used to show that a property notices it. `PROJECT.json` maps every definition to its lines.

### Settlement
A worker's `pc` names its next statement. `Fetch` takes a task; `LockChange` is the `SELECT ... FOR UPDATE` of the
balance change (`SkipApplied` the early return); `SelectWallet` reads the wallet without a lock and `InsertWallet`
creates it, waiting for an uncommitted insert of the same account and failing (`InsertConflict`) if that one commits;
`SelectSubscription` takes an active subscription with room (any, where the code orders by `sort_order`);
`UpdateSubscriptionUsage` and `UpdateWallet` take row locks; `Commit` publishes; `SetCache` writes the wallet cache
after it. What a transaction wrote lives in its worker's variables until `Commit`. `StatementFails`,
`LostCommitReply`, `Crash` and `Redeliver` may happen anywhere, up to `MaxFaults`. The handler returns `()` also when
it fails, so a failed task is acknowledged and gone: the model does what the code does. Submitters run
`InsertChange`/`CheckWithdraw`/`InsertWithdraw`, then `Enqueue`, `EnqueueFails` (the push did not happen) or
`LostPushReply` (it did, and only its reply was lost). The last two are answered with the same 500 "failed to enqueue",
but the change of the second is applied.

Abstractions: `window` is `start_at`/`end_at` against NOW(), the start of the transaction; the instant between that
and the SELECT is left out. An INSERT whose reply is lost is not an action of its own, since insert and failed push
reach the same state. Plans are left out: nothing in settlement reads them. The provisioning of a subscription's quota
and window is external: no handler of the code sets them.

### EventPipeline
An event is one pair (`session_id`, `session_index`); redelivery of its job is what repeats it. `Versions` are versions
of a model's row, each with two pairs of prices (`Price`): the regular ones and those for batches. The session event
records the regular prices whatever its usage is (`RecordedPrice`); the charge of a batch is at the batch prices
(`ChargedPrice`), so that charge and session event then differ by more than a version could explain.
`Unpriced` stands for the zero prices used when the model is not found. `Count` increments the counters before the
transaction, `SelectModel` reads the row of the model, `UpsertEvent` takes the lock of the session event, `InsertCharge`
inserts the balance change with the event's request id and `ChargeExists` is its conflict, `Commit` and `Push` follow.
`DatabaseCrash` empties the UNLOGGED table and ends every open transaction. The counter saturates at `CountCap`:
properties only ask whether it is zero.

### Routing
`Select` picks up to `Count` (2 in the code, 1 for speech) of the models the SELECT returned, in any order, which
covers the order by hourly usage. Filters by feature, provider and `is_active` are folded into `Models`. An answer
ends the request; a network error puts a mark into `marking` (the spawned task) and tries the next candidate; an error
status (`Refuse`) only tries the next. A body that cannot be decoded (`Garble`) may mark as well: the Anthropic helpers
return it as `AnthropicError::Connection` (`anthropic/proxy_views/helpers.rs:193`, `257`). `failed` remembers the
upstreams that a request could not reach or that answered so. `ListOffline`, `Reach`, `DoNotReach` and `MarkOnline` are
the cron job. Its call is not that of requests: GET `/models`, with bearer authentication, without the upstream's
proxies, and only a 2xx counts (`defer/tasks/upstream_health.rs:12`). `healthy` are the upstreams that answer it, and
`reachable` those that requests reach; each changes on its own (`TurnHealthy`, `TurnUnhealthy`, `Break`, `Repair`: the
outside world). So an upstream that serves requests but not `/models` stays offline once it is, and
`RecoversEventually` promises nothing for it. `ReadUpstream`, `WriteUpstream` are `update_upstream`, which writes back
every column. Errors inside a stream neither retry nor mark.

### ApiKeyAuth
`Arrive` sends a key whose creation was answered. `Hit`, `Miss` and `CacheFails` are the three results of the cache;
`ReadKey` and `ReadAccount` the two SELECTs; `Fill` the entry of 900 s. `CheckOwner`, `InsertKey`, `CacheKey` create a
key and cache it with the `is_active` that was read first; `DeactivateKey` and `UncacheKey` delete one;
`UpdateAccount` touches no key's entry, because `update_account_by_id` deletes `account:info:*`, which nothing reads.
`expires_at` is in the schema but no code checks or sets it. Refused tokens that match no key change nothing and are
left out, and so are keys without an account, which no handler creates.

### ResourceMap
An object is a pair of upstream and original id, with a `kind` once it was created; `exists` says whether its upstream
still has it. A handler's `local` is what the Rust function keeps in its variables, its `pc` the next await: `resolve`
is the SELECT by our id, `call` the upstream, `insert` the row of a new object, `wrap` and `wrap_insert` the two
statements of `wrap_file`, `trace` the tracer, `mark` the UPDATE of `deleted`, `answer` the end. `CreateUnanswered` is
an object whose creation the handler never learns of; `Refuse` covers every error of the upstream, also of an unknown
id, and `TryNext` the second candidate of a response. `Fail` is a failed statement, a client that disconnected or a
dead server: all drop the handler. `known` are the ids of answered requests, and only those arrive.

`previous` is what an upstream remembers of a response that continues another. `retrieve_response` translates it back
to an id of ours by the original id alone (`db/responses.rs:82`): `Continues` are the rows it may find, of any upstream,
and `Answer` gives one of them to the client, or leaves the original id where there is none. So a client may be given
the id of another upstream's response where two upstreams drew the same original id; no property forbids it.

Cancelling a batch does to the map what retrieving it does. `batch_metas.status`, which nothing reads, the listings,
which return the upstream's own ids, and what only reads a file or a message batch are left out. So is the wrapping of
an output file that is there already in the answer to a batch's creation (`batches.rs:228`): upstreams create batches
that are still to run.

The Anthropic API creates rows in the same way (`UploadFile`, `CreateMessageBatch`), but every later call of it looks
for an upstream that serves the model named `''` and ignores the row's `upstream_id`
(`anthropic/proxy_views/files.rs:100`, `batches.rs:255`). Normally there is no such model and the call ends in 503
(`Unserved`). Where there is one, at an upstream in `Nameless`, uploads go there, and a deletion
(`delete_anthropic_file`) takes the original id from the row and the upstream from the model (`ResolveElsewhere`), so
that it may delete a namesake. `DeletedMeansGone` says exactly that much: the named object or such a namesake is gone.
Message batches are never billed: no code reads their usage.

Other things the code does that no property forbids: each retrieval of a finished batch or response is billed again,
in a session of its own, and batches and retrieved responses give the tracer the id of the upstream as the id of the
model (`batches.rs:176`, `responses.rs:334`); a deleted output file is wrapped again when its batch is retrieved; and
a previous response may be sent to an upstream that did not create it, which refuses it.

### RateLimit
A request is checked against its address and then against its token (`Checks`), each with a limit and a window of its
own. `ReadClock`, `Trim`, `Add`, `Count` and `Refresh` are `now_ms`, ZREMRANGEBYSCORE, ZADD, ZCARD and EXPIRE with the
decision; a refused request stays in the set. `Allow` is a failure of any command but EXPIRE: the request passes this
check and goes on to the next one. `RefreshFails` decides as the code does. `Tick` moves the clock and drops the keys
whose time to live is over; a set that becomes empty goes with its time to live, so an entry that is added to a key
about to expire may be lost before EXPIRE is called, which `Refresh` then calls on nothing. Servers and Redis agree on
the time. A request that a client abandons takes no more steps, which needs no action. `added` and `passed` are
histories of the properties: a request counts as let through when every one of its commands was answered.

### Catalog
Every request to the administration API is a sequence of statements without a transaction. `Register` to `Answer` are
`POST /upstreams`: list the upstream's models, look the row up by `api_base` (`FindRow`, `FindNoRow`), write it back
(`Refresh`) or insert it (`InsertRow`), then for each model in order look it up and insert it, fetch the row again
(`Reload`), amend it (`Amend`), list the models. The provider of a registration has the default "openai" (`Filled`), and
the handler cannot tell a given value from the default: it amends the row if the provider is another one or if tags or
proxies were given, and then always writes the provider, so a registration with tags alone resets the provider of an
upstream that is there; if "openai" alone was given, it amends nothing (`PassOver`). `Test` and `StoreFeatures` probe a
model with the client of its upstream's provider. `ReadUpstream`/`WriteUpstream` and `ReadModel`/`WriteModel` are the
PUTs, which write every column back; `AddTag` and `RemoveTag` are one statement each. `Fail` is a failed statement
anywhere. What a request gives is chosen where it is written, since nothing looks at it before. Rows are never deleted
and keep their `api_base` (`delete_upstream` and `delete_model` of `db/llm.rs` are called by no handler), so a read is
one step with the lookups before it. `price` stands for the columns of a model that a PUT can set; names, keys, proxies
and descriptions are left out. How an error of a probe is read as support is left out: the set `Supported` is whatever
may be reported. The histories `raced`, `lost` and `defaulted` name what the code does not rule out (two inserts of one
`api_base`, an old value written back, the provider's default), so that the properties hold but for these and nothing
else.

## 3. What TLC checks

| Run | Instance | Shows |
|---|---|---|
| `settlement_concurrent` | 3 changes, 2 workers, 1 account, 1 subscription, 1 fault | type invariant; tasks name committed rows and only queued changes are applied; one settler per change; quota; balances and usage are covered by applied changes; no set of transactions waits for one another; settling is atomic and once |
| `settlement_serial` | 2 changes, 1 worker, withdrawals, two quotas, 1 fault | balances and usage are the sums of the applied changes; the cache ends at the latest balance; refinement of `Ledger`; queued changes are applied |
| `event_pipeline` | 1 event, 3 workers, 2 versions of the prices, regular and batch, 2 faults | one charge per event, at the prices its session event was recorded with or, for a batch, at their batch rates; counted before; refinement of `Submission`; usage in the queue becomes a pushed task |
| `routing` | 3 models on 2 upstreams, 1 request at a time, 1 update, 2 faults | offline has a cause, a failure or an answer that could not be decoded; maintenance is stable; upstreams that stay healthy up to the check come back |
| `resource_map` | 2 upstreams with common original ids, one of them nameless, 5 objects that may be created, 4 ids, 2 connections, 1 fault | rows name objects of their kind; deleted means gone; nothing is lost or reachable unbilled; output files are wrapped right |
| `api_key_auth` | 2 keys of 1 account, 2 connections, 1 fault | shut keys stay shut; the cache converges on the tables |
| `rate_limit` | 3 requests of one address, one with a token, limit 1, windows of 2 and 1 ticks, 1 fault | no window over its maximum; entries stay for their window; refusals have a cause |
| `catalog` | 3 requests, 2 rows, 1 `api_base`, 2 model names, 1 tag, 2 providers | one row per `api_base`; what is routed was probed; answers are complete; columns are as asked, but for old values written back and the provider's default |

Runs that end in a counterexample, each a `finding` of `PROJECT.json`:

| Run | The code does | What it contradicts |
|---|---|---|
| `lost_update` | two deposits read one balance, both write: one is lost | `db/wallet.rs:38` "wallet.balance += amount" |
| `wallet_creation_race` | two first changes insert the wallet; the loser's handler returns and its change stays unapplied | `db/wallet.rs:43` "one is created automatically" |
| `deleted_key_cached` | a request that read the key before its deletion caches it after | `redis_utils/caches/api_key.rs:88` "immediately invalidated" |
| `status_write_back` | renaming an upstream undoes the health check's status | `views/admin_rest_api.rs:1277` "Only the provided fields will be updated" |

Section 4 gives, for each of them, a condition on the interleaving under which the documented property holds; it says
what the code lacks. The cache write after COMMIT (`balance_change.rs:129`, "with the latest balance") races in the same
way with two workers: `settlement_serial` checks `CacheIsLatest` with one. And the comment of
`cancel_subscription` (`views/admin_rest_api.rs:2731`) says 'canceled', the code writes 'deactive'; the mutant
`CancelAsCommented` is what the comment says. `src/README.md:8` promises a "retry on a different upstream"; candidates
are cut off by usage (`openai/proxy_views/helpers.rs:240`), so two models of one name on one upstream may both be
picked, and the retry goes to the upstream that failed. `Routing` allows it and no property forbids it.

Why the bounds are enough: every race here is between two handlers of one row, so two workers (or requests) and two or
three tasks show all pairs, with a third change to race the outcome of the first two. One account and one subscription
make every pair of changes meet; no code path joins two accounts. Handlers of different events share nothing but the
prices, so `event_pipeline` has one event, of a batch or not, and a third handler of it instead of a second event. In
`rate_limit` two requests fill a window and the third finds it full, late or early, with a clock that outlasts the
longer window by one tick. In `catalog` two requests race and the third begins from what they left; names are numbers
because an upstream's models are saved in the order of their names. Faults are bounded by `MaxFaults`; they are one
crash, error or lost reply each, and the proofs hold for any number. `resource_map` stops creating objects when the ids
of the instance run out (`IdsLeft`). Its objects are of every kind, so that every table is in use, and each of its
upstreams has an object with an original id of the other's: a file with the id of the other's output and message batch,
and a response with the id of one in the other's chain. So every lookup that forgets the upstream is caught, an
Anthropic deletion finds a namesake, and so does the lookup of a previous response. An output wrapped three times fits.
Symmetry is used only in runs without liveness properties.

Fairness. `Step` of a worker is strongly fair: the runtime polls every future, and PostgreSQL queues the waiters of a
row, so a statement that can run again and again does. A task that is in the queue again and again is fetched (strong
fairness): the broker's list is first in, first out. Cron, spawned marks and statements already sent are weakly fair.
Redis drops entries past their TTL. Clients, administrators, faults and the outside world owe nothing. `RateLimit`,
`Catalog` and `ResourceMap` state no fairness: their properties are about safety. Deadlock is checked except where the
system stops: in `wallet_creation_race`, which ends when both changes are handled, in `rate_limit`, whose clock is
bounded and whose requests end, and in `catalog`, whose requests end.

## 4. What is proved

All theorems hold for every value of the constants, under the named `ASSUME`s of each module only. Each module's type
invariant is proved too (`TypeCorrect`).

- **Settlement** (`SettlementProofs`): `Inv` is the conjunction of `TypeOK`, `TasksNameRows`, `OneSettlerPerChange`
  and `Books` (`RecordedUseWithinLimit`, `AppliedToWallet`, `SessionSound`). None of the last group is inductive
  alone: that usage stays in the quota when it is written rests on what was read (`SessionSound`), which stays true
  because a chosen subscription keeps its account and its quota: an operator provisions a row once. The usage written
  is what was read plus the change's tokens, so it fits although another settlement may have written in between (whose
  usage is then lost, see `lost_update`). From `Inv` follow the invariants and the action property `SettlesOnce`.
  `NoLockCycle` needs one more invariant (`Inserted`: who inserted a wallet is past its first statements) and an order
  of the locks, which are taken as change, wallet insert, subscription, wallet: whoever waits waits for a transaction
  that is further on, so the one furthest on in any set waits for none of it.
- **Settlements of one account that overlap** (`SettlementRefinement`). `BalancesAreBacked` holds with any number of
  workers: what a transaction has read and what it will write stays covered by the changes that are applied, or that it
  is about to apply itself (`Backed`), because applied changes stay applied and belong to one source. The ledger needs
  more. `ReadsApart` says that no two transactions of one account are between their read and their commit at once: the
  lock that the code lacks. Under `[]ReadsApart` reads are still current when they are written back (`ReadsAreCurrent`),
  so every step maps to a step of `Ledger` or a stutter, and `EveryChangeCounts` follows from the ledger's step. Under
  `[]SettlementsApart`, which covers the write of the cache too, `CacheIsLatest` holds; it does not under
  `[]ReadsApart`. One worker is apart from all others, so each of these has a corollary for `OneWorker`, the instance
  of `settlement_serial`. `lost_update` violates the hypothesis.
- **Sums** (in the same module): the totals are sums over the applied changes by the community modules' fold, which is
  recursive. `SumUnfold` and `SumAdd` (one more element adds its value) are proved without an induction theorem: a
  smallest subset on which they fail is a contradiction, and strict inclusion of finite sets is well-founded
  (`SmallestSet`). Only finitely many changes are ever applied, so `Changes` may be infinite.
- **Tasks** (in the same module): `NothingIsDropped` is the safety half of `EnqueuedIsApplied`: without faults a queued
  change is waiting, in hand or applied. It holds under `[]InsertsApart` (an insert of a wallet never meets another one
  that is still open), so for one worker, and for any number where every account has its wallet from the start;
  `wallet_creation_race` violates the hypothesis. `SettlementSubmits` shows that the submitters inside `Settlement`
  refine `Submission`, as the pipeline does.
- **EventPipeline** (`EventPipelineProofs`): `TypeOK /\ OneCharger` is inductive. `ChargeIsRecorded`, `ChargeIsCounted`
  and the refinement of `Submission` rest on it. A commit makes two prices visible, the recorded one at the regular rate
  and the charged one at the rate of the usage; both are of the one version that was read (`PricesOfOneVersion`), and
  that is what `ChargeIsRecorded` keeps. `NothingIsDropped` is the safety half of `UsageIsPushed`: without faults an
  added event is waiting, in hand or recorded, and a charge is pushed or about to be. A second delivery gives up only
  where the charge exists, and that was committed with its session event (`ChargeHasRecord`).
- **Routing** (`RoutingProofs`): `OfflineHasCause` needs that every mark under way names an upstream that has failed a
  call, by no answer or by one that could not be decoded, and that an update holding "offline" read it from a blamed
  one; then it is inductive. `MaintenanceIsStable` follows from `TypeOK`, action by action. `OnlyGivenFields` holds as
  long as no mark, check or other update is about to write the row an update holds (`UpdatesApart`): then what it read
  is current. `status_write_back` violates that.
- **ApiKeyAuth** (`ApiKeyAuthProofs`): `TypeOK` is inductive, and `ShutStaysShut` follows from it step by step.
  `DeletedIsUncached` holds as long as no request that read a key is under way when its deletion is over
  (`ReadersAreGone`), which `deleted_key_cached` violates.
- **ResourceMap** (`ResourceMapProofs`): `Types` adds to `TypeOK` what each handler may rely on (`Fits`). `MapInv`
  adds the map: what a handler found out stays true until it uses it (`Relies`), because rows and kinds never change
  and a new object has no row and no other handler (`OneHolder`); a handler that is about to mark a row addresses what
  the row names or a namesake (`Aims`) and has seen it go. `RowsNameObjects` and `DeletedMeansGone` are parts of it.
  Three more invariants rest on it: `ResultInv`, that the output read for a batch stays its output and the row found
  keeps naming it, gives `ResultIsWrapped`; `KeptInv`, that without faults an object passes from its handler to its
  row, gives `NothingIsLost`; and `BillInv`, that an id a client knows comes from an answer whose handler traced first
  (`Bills`), or was made by it and is no output's (`Origin`), gives `BilledBeforeKnown`.
- **RateLimit** (`RateLimitProofs`): `Order` says which sets a request can be in at its step. `AtMostMax` follows from
  `Bounded`: requests that a key has granted, decided or only counted so far, are at most its limit, because the one
  that counts last counts every earlier one; an entry outside the window cannot re-enter it. `KeptInWindow` follows
  from `Alive` (the time to live covers every request let through, since EXPIRE comes after ZADD and before the
  decision), and `RefusedForCause` from `Cause`.
- **Catalog** (`CatalogProofs`): `Alive` says that what a request will write back is there, under the same `api_base`.
  `OneRowPerBase` needs `MissingOnce`: who is about to insert still finds no row, unless raced. `AnswerIsComplete`
  rests on that and `SavedSoFar`, how far each registration has come with its list; `RoutedIsProbed` on `AllReported`,
  which covers every list of features that an update still holds, and on the providers' features being disjoint;
  `AsAsked` on the same for columns (`Asked`).

The hypotheses of the conditional theorems are satisfied by behaviours in which everything happens, one after the
other; TLC checked each conclusion with its hypothesis as a constraint on instances with two workers, two requests or
two updates before it was proved.

Only model-checked: liveness (`EnqueuedIsApplied`, `UsageIsPushed`, `RecoversEventually`, `CacheConverges`), which
TLAPS cannot prove under fairness. For the first two the theorems about `NothingIsDropped` say where the work is that
must still happen; that it happens is left to TLC.

## 5. Not modelled, and the plan

Left out for good: the lists of models, passthrough, provider clients, encryption, JWT validation, configuration,
telemetry and the command-line client, none of which keeps state that two steps share; listings and reads of the
administration API; plans, which nothing but their own handlers reads. The wallet gate reads the cache or the table
and changes nothing; that it may read either late is what `CacheIsLatest` and `lost_update` are about. The request
path before `SessionTracer::add` is left out: a stream dropped there loses its usage.

Planned, in this order:
1. `Billing`: `EventPipeline` and `Settlement` composed through `Submission`, from an event to the wallet.
2. The composed invariant: what was recorded with a price ends in a balance or a subscription. `PipelineSubmits` and
   `SettlementSubmits` are its two halves so far.
