# Specifications of go-ledger-service

TLA+ models of the multi-tenant ledger in this repository: an HTTP API that
accepts transactions, a worker that settles them against PostgreSQL, and Redis
for idempotency and rate limiting. TLC checks the models on small instances;
TLAPS proves the safety properties that hold, and both refinements, for every
value of the constants. Where the code does not do what its documents say, a run
shows it.

## The system

Three Go processes share one PostgreSQL database and one Redis.

| component | code | state it keeps | operations |
|---|---|---|---|
| submission handler | `internal/http/ledger_api.go` (`handleTransactionPlace`) | none; one goroutine per request | rate limit, `Begin`, replay / wait / 409, insert, cache, `Clear`, respond |
| idempotency store | `internal/idempotency/redis_reference_store.go` | a Redis key per (tenant, reference) with a TTL | SETNX (`Begin`), GET (`Begin`, `Peek`), SET (`MarkCompleted`), DEL (`Clear`) |
| rate limiter | `internal/ratelimiting/redis_sliding_window.go` | a sorted set per tenant | one Lua script |
| transaction service, repository | `internal/service/ledger_transaction_service.go`, `internal/repository/ledger_transaction_repository.go` | `transactions` | insert, lookup by reference, lists |
| worker runtime | `internal/worker/runtime.go` | list of active tenants, bounded channel of jobs | refresh every 15 s, dispatch every 2 s, N workers, shutdown |
| transaction processor | `internal/worker/transaction_processor.go` | `transactions`, `balances`, `ledger_entries` of a tenant's schema | claim, lock, decide, write, commit |
| webhook delivery | `internal/worker/webhook_processor.go` | none that is stored; `tenant_configs` is read | load configuration, attempts, Fibonacci backoff |
| tenant schema | `migrations/0002_init_tenant_schema.sql` | the tables above | CHECKs, indexes, the seeded balance row |
| authentication | `internal/service/tenant_auth_service.go`, `internal/repository/tenant_repository.go` | reads `tenant_accounts`, `tenant_api_keys` | one SELECT in front of every handler |
| administration | `cmd/ledger-admin/main.go` | `tenant_accounts`, `tenant_configs`, `tenant_api_keys`, a schema per tenant | register a tenant in one database transaction of several statements |
| read endpoints | `ledger_api.go`, entry, balance and transaction services and repositories | none | balance, one transaction, a page of a list and its count |
| configuration, openers, HTTP plumbing, entry points | `internal/config`, `internal/db`, `internal/cache`, `internal/http`, `cmd/` | none | start, stop, formatting |

How they interact: the handler asks Redis (limiter, then store) and PostgreSQL
in turn, each call a round trip during which other handlers, the worker and the
clock go on. The API never talks to the worker: it commits a `pending` row. The
dispatcher sends one job per active tenant and tick into the channel; a job
settles at most one pending transaction of its tenant and, in the same
goroutine, tells the tenant's webhook endpoint. The admin process creates the
tenants that both others find in the public schema; an operator suspends them,
revokes keys and changes webhooks with SQL (there is no code for it).

What makes this hard, with the properties that answer it (the full list, line
by line, is under `hazards` in `PROJECT.json`):

* several workers on one balance: lost updates, double settlement, two
  sessions seeding the balance row, order of ledger ids
  (`ReadsAreCurrent`, `LedgerIsChain`, `SettledOnce`, `BooksBalance`), and
  overtaking among pending transactions (`BoundedOvertaking`);
* failures between the statements of a settlement, a lost answer to COMMIT, a
  dead process (`SettledOnce`, `TerminalIsFinal`, `EventuallySettled`);
* concurrent and retried submissions over two stores that are not updated
  together, one of which may forget (`FewOwners`, `RepeatsArePaidFor`,
  `ImplementsReference`, and the violated `NoDuplicates`, `IdenticalReplay`,
  `ReplayWindow`);
* a bounded channel with a dispatcher that does not wait, stale tenant lists,
  closing a channel at shutdown (`GracefulStop`, `NoSendAfterClose`,
  `ShutdownCompletes`, `SuspensionTakesHold`, `OldestServed`);
* time that is read before it is used (`WindowLimit`, `RetryAfterIsEnough`);
* callbacks that outlive a configuration and die with the process
  (`RightEndpoint`, `HonestOutcome`, `TellsTheTruth`, `EveryCallbackEnds`,
  `BusyBounded`);
* lists read page by page, each page and its count in statements of their own,
  while sessions commit (`PassIsComplete`, `MissedWasOvertaken`,
  `SeenIsExplained`);
* registrations of one code that wait for each other inside an INSERT, and fail
  between statements (`OneTenantPerCode`, `WholeTenants`, `AnswersHold`,
  `EveryRegistrationEnds`); tenants suspended between the check of a key and its
  use (`CallsAreExplained`).

## Modules

| module | models | state and actions |
|---|---|---|
| `Settlement` | rows of the tenant schema, `evaluateTransaction`, int64 | operators only |
| `AccountSpec` | nothing in the code: the promise. An account that settles one pending transaction per step, over unbounded integers | `Submit`, `Credit`, `Debit`, `Reject` |
| `Ledger` | the sessions of the transaction processor over one tenant's schema | one action per statement: `Claim`, `MissBalanceRow`, `LockBalance`, `ApplyCompleted`, `WriteStatus`, `Commit`, `Notified`; faults `Abort`, `CommitLost`, `Crash`; the API's `Submit` |
| `Reading` | a client of the read endpoints, composed with `Ledger` (EXTENDS): every step is one of the client's or one of the pool's. The history `late` notes which older rows became visible after which younger ones | `GetTransaction`, `GetBalance`, `StartPass`, `ReadPage`, `ReadCount`, `CountFails`, `Forget`; `Pool` |
| `ReferenceSpec` | nothing in the code: the promise about one reference. A register that gets one transaction per TTL, less `Slack`, and one more for each deceit | `Create`, `Deceive`, `Accept`, `Tick` |
| `Idempotency` | the handlers of several submissions of one reference, the Redis key, the rows, the clock | one action per Redis command or SQL statement; `Settle` by the worker; `Tick`; faults, among them `Restart` of Redis |
| `WorkerRuntime` | the goroutines of the worker process and the channel | `Refresh`, `Dispatch`, `Enqueue`, `EndDispatch`, `Receive`, `Settle`, `EndJob`, `Signal` and the returns |
| `RateLimiter` | the Lua script, the time taken before it, Retry-After | `TakeTime`, `Allow`, `Reject`, `AnswerLost`, `Fails`, `Tick` |
| `Webhook` | `dispatchTransactionWebhookNow` of several workers | `Settle`, `Load`, `Accepted`, `Refused`, `Wake`, `Reconfigure`, faults |
| `Tenants` | registrations of tenants, calls of the API in front of their handlers, the operator's SQL | `Receive`, `InsertAccount`, `Migrate`, `Configure`, `InsertKey`, `Commit`; `Arrive`, `Lookup`, `HandleCall`; suspension, revocation; faults `Abort`, `CommitLost`, `Die`, `LookupFails` |
| `MC*` | small instances | sets, symmetry |
| `Induction` | nothing in the code: induction and recursion over the natural numbers, in a form the provers can use | lemmas |
| `LedgerProofs`, `ReadingProofs`, `IdempotencyProofs`, `WorkerRuntimeProofs`, `RateLimiterProofs`, `WebhookProofs`, `TenantsProofs` | proofs, one module per component | |

`Ledger` implements `AccountSpec`: the refinement mapping is the identity on
`rows`, `balance` and `ledger`, the committed state; everything a session holds
before its commit is a stutter. `Idempotency` implements `ReferenceSpec`: a row is
a transaction created when it was inserted, a submission is bound to the
transaction its 202 names, a deceit is a deceit, and the key, the handlers and every
other failed call are stutters. `WorkerRuntime` abstracts a settlement to one
pending transaction less, `Webhook` and `Idempotency` abstract it to one step;
`Ledger` is what justifies that, since a commit is its only visible step.

### Correspondence with the code

*Ledger.* PostgreSQL's READ COMMITTED is modelled by what the code relies on:
uncommitted writes stay in the session (`newBalance`, `newEntry`, `newRow`);
`FOR UPDATE SKIP LOCKED` picks the oldest pending row without a holder;
`FOR UPDATE` waits for the holder and reads the latest committed balance; the
sequence of ledger ids is not rolled back. A missing `balances` row is possible
because the code handles it, although the migration seeds it. `created_at` is
taken when the insert begins, so rows may become visible in any order. A
transaction of `Txns` is its rank in `(created_at, id)`. The
`default` branch of `evaluateTransaction` is unreachable under the CHECK of
`transactions.type` and is left out. The failure reason is reduced to the
balance it quotes.

*Reading.* A list endpoint is two statements, the page (`ReadPage`) and the count
(`ReadCount`), and READ COMMITTED gives each what is committed when it runs. What
orders a list is kept as a number: the id of a ledger entry, the rank of a
transaction. A client goes through a list with the limit the service normalised
until it has been shown the total it was last told, and repeats a page whose
request failed. How the code's clients page is theirs to choose; this one is the
usual one.

*Idempotency.* All requests carry the same reference of one tenant. A row's
status is `pending` or `settled`, which is all that tells two bodies apart. A
tick is a part of the TTL, and a handler may live through `MaxHandling` of them,
fewer than the TTL has: its calls time out in seconds, the TTL is a day. So the
clock may tick, and the key expire, between any two calls of a handler: between
its SETNX and the insert that takes `created_at`, too. An insert never conflicts:
`migrations/0002_init_tenant_schema.sql:26` and the seed create a plain index on
`reference`, and only a comment (`ledger_transaction_repository.go:420`) names a
unique one. The handler's branch for `ErrTransactionReferenceAlreadyExists`
(`ledger_api.go:367-382`) is therefore unreachable and left out. Faults are
chosen by kind: `redis` (an error, or SETNX applied and sent again), `resend` (DEL
applied and sent again), `database` (an error that is the truth), `lostInsert` (an
error although the row is committed), `crash` (process or client gone), `restart`
(Redis comes back without the key, which its append-only file, flushed every
second, may have lost). After `resend`,
`lostInsert` and `restart` the key is not what the one who has it believes; these
are the `Deceits`, and `deceits` counts them. The branch for a
completed key without a cached response (`ledger_api.go:502`) needs a value this
code never writes and is left out.

*WorkerRuntime.* The channel is a sequence with capacity `QueueSize`. A
tick is `Dispatch`; the sends are single steps between which workers receive and
the signal may come. `SlowJobsOnly` restricts ticks to moments when no worker
could finish at once; it makes a counterexample of `worker_starvation` realistic
and is off elsewhere.

*RateLimiter.* Time is in ticks; `Second` ticks make a second, so that rounding
is visible. `MaxDelay` bounds the time between `time.Now` and the run of the
script; it includes what go-redis spends on retries, which its timeouts (a few
seconds each) bound, well below the minute of the window: hence the assumption
`MaxDelay < Window`.

*Webhook.* `busy` is the longest time a call can have taken, charged when a step
begins. `tries` and `seen` are history variables. An endpoint may get a payload
whose answer is lost.

*Tenants.* A tenant is named by the request that registers it, since its id is a
random UUID. The unique index on `tenant_accounts.code` behaves as PostgreSQL's
do: an INSERT waits for another open transaction with the same code, then
succeeds or is a violation. What a registration has written stays in `tx` until
its commit. 400 stands for every refusal before the database (also 401). The
webhook parameters may be absent, wrong, or given; only a valid combination
reaches the database. A call of the API looks its key up in one statement and
uses the tenant afterwards; `during` is a history variable.

Every module with checked properties also defines named variants of its actions,
marked `Mutant of`: each differs from the original the way a plausible mistake in
the code would, and breaks the property it is listed with in `PROJECT.json`.

## Runs

| run | instance | shows |
|---|---|---|
| `ledger` | 3 transactions, amounts 1 and 2, 2 sessions, 2 faults, any visibility order | the pool's safety, its refinement of the one-step account, and that every accepted transaction of a tenant that is served is settled |
| `ledger_overflow` | largest int64 is 3 | **violated**: a credit wraps and the balance is negative |
| `reading` | 3 transactions, any visibility order, 2 sessions, 1 fault, limits -1 to 2 of at most 1 | growing lists are shown whole; a pending transaction is missed only when a younger one overtook it, and one that is settled has overtaken fewer older visible ones than there are sessions; the ledger explains what was seen before |
| `idempotency` | 3 requests, TTL 3, 7 ticks, handlers of up to 1 tick, 2 faults of six kinds | one handler acts for a reference, and one transaction per TTL less a tick, but for one more for each deceit; the handlers implement the register |
| `idempotency_lost_insert` | 2 requests, 1 lost insert | **violated**: a second transaction for the reference |
| `idempotency_replay` | 2 requests, no fault | **violated**: a replay differs from the original response |
| `idempotency_window` | 3 requests, TTL 3, 4 ticks, 1 crash | **violated**: a transaction is replayed, and its reference not reusable, after the TTL |
| `worker_runtime` | 2 tenants, 2 workers, queue of 2, 1 status change, 1 failed job | shutdown, suspension, no send after close, oldest tenant served |
| `worker_starvation` | 2 tenants, 1 worker, the code's multiplier 8 | **violated**: the younger tenant is never served |
| `rate_limiter` | 4 requests, limit 2, window 3, 6 ticks, 1 fault | the limit in every window, Retry-After suffices |
| `webhook` | 2 transactions, 2 workers, 2 endpoints, 4 attempts, backoff cut off at 2 s, 1 reconfiguration, 1 fault | truthful, one endpoint, bounded, always ended |
| `tenants` | 3 registrations (one code, or two with one and one with another), 1 call, 1 change by the operator, 1 fault | one tenant per code, whole or not at all, answers that hold, registrations that end |

Why these bounds: a lost update, a double claim and a seeding race need two
sessions; three transactions let a third build on what two did. Two faults allow
a failure of the retry of a failure, and a crash after a lost commit. Three
requests fill the roles owner, rival or replayer, and late retry; seven ticks at
TTL 3 let a key expire, a reference be reused and expire again, and two deceits let
all three own it at once. Two tenants and a
queue of two make the queue full in the middle of a dispatch. With a limit of two,
four requests fill the window, go beyond it, and let one come back. Amounts 1 and 2
give debits that are exactly covered, covered, and not covered. In `reading` pages
of one of three items make passes of up to three pages (the theorems are about any
page size), between any two
statements of which items are added or leave. Three registrations let the second
waiter of a code be refused after the first was let go; codes are fixed up to
renaming (`MCTenants!MCInit`), and with more than one of them a third registration
is one nobody waits for.

`CHECK_DEADLOCK FALSE` is set in every run: the systems really stop, when all
transactions are settled, all requests answered, the process has returned, or a
bound (`MaxFaults`, `MaxTime`, `MaxPending`, `MaxChanges`) is used up.

### What the violated runs mean

* `ledger_overflow`: `currentBalance + row.Amount`
  (`transaction_processor.go:156`) is not checked and the column has no CHECK,
  against "Final balance cannot be negative"
  (`scripts/tests/concurrency_overdraw.sh:151`).
* `idempotency_lost_insert`: `Clear` after an ambiguous insert
  (`ledger_api.go:384`), against "return the existing transaction (no duplicate
  processing)" (`docs/Go Take-Home Task.md:71`). A plain unique index on `reference`
  would catch it, but then a reference could never be reused after the TTL.
* `idempotency_replay`: `ledger_api.go:517` answers from the row, with its
  present status, against "identical to the original response" (`docs/Go Take-Home Task.md:72`).
* `idempotency_window`: a replay from the row caches it with a whole TTL of its own
  (`ledger_api.go:523`), against a TTL "after which the same reference can be reused"
  (`docs/Go Take-Home Task.md:75`) and the TTL-based replay window of `README.md:135`
  in the root. `ReplayEnds` proves how long it can really take: less than twice the TTL and a
  handler's life.
* `worker_starvation`: `runtime.go:245` drops the rest of the list and the next
  tick starts at its head. It needs a tenant whose jobs are slow (a webhook that
  does not answer) and keeps coming.

### Fairness

`Ledger!FairSpec`: weak fairness of what a session with a job does next
(`Proceed`): each statement ends by the 10 s timeout, a webhook attempt by its own.
Faults are not fair and are bounded, which stands for "they stop some day". Weak
fairness is enough since a session that waits for the balance row is woken when
its holder ends, and no new one can take it for ever: pending transactions are
finite. Nothing is assumed of who gets a job. `runtime.go:240-248` drops the rest of
the tenants when the queue is full and the next tick starts at the head, so a
tenant may get none (`worker_starvation`). `EventuallySettled` is therefore
conditional: *if* the tenant is served (`TenantServed`: while it has a pending row
that nobody holds, some session claims one some day), *then* whatever it accepted is
settled. `OldestServed` of the `worker_runtime` run is what the dispatcher does give: it
serves the oldest active tenant.

`WorkerRuntime!FairSpec`: weak fairness of refresh (a query that succeeds some
day), of the dispatch loop, of each worker and of `run`'s return; strong
fairness of `DispatcherReturns`, because `ctx.Done()` is ready in each `select`
and Go chooses among ready cases at random. Submissions, status changes and the
signal are not fair.

`Webhook!FairSpec`: weak fairness of each call's steps, which all end by a
timeout or a timer.

`Tenants!FairSpec` (and `MCTenants!MCSpec`): weak fairness of each registration's
statements. The code sets no deadline for them (`cmd/ledger-admin/main.go:190` uses
the context of the request): that they end rests on the database and the
connection alone. An INSERT that waits for another registration is enabled when
that one ends. Receiving a request, calls and
changes are not fair.

## Proofs

`LedgerProofs`, for any transactions, amounts, sessions, faults and MaxInt:

* `Invariance`: `IInv` is inductive. `SettledOnce` and `LedgerIsChain` alone are
  not: that a commit keeps them depends on what the session has staged. `IInv`
  adds `LocksOK` (a session in a transaction holds one pending row, no two the
  same; the balance row has one holder), `ReadsAreCurrent`, `StagedOK` (what is
  staged is what `evaluateTransaction` says of the claimed row and the balance
  read), `IdsOK` (a staged entry has an id above every committed one),
  `BalanceRowOK` and `RowsOK`. There is one lemma per conjunct; `StoreSteps`
  says that only `Submit` and `Install` (of `Commit` and `CommitLost`) touch the
  committed state, and `InstallFacts` what they make of it.
* `TypeCorrect`, `NoStaleRead`, `Chain`, `ExactlyOnce` follow from it, and the
  action property `Finality` from it and one step.
* `Refinement`: while `NoOverflow` holds, `Spec` implements `AccountSpec`.
  `Install` is `Credit`, `Debit` or `Reject` of the claimed row with the committed
  balance, because of `ReadsAreCurrent` and `StagedOK`; other steps stutter.
* `Solvency`: while `NoOverflow` holds, the balance is never negative.
* `TheBooksBalance`: while `NoOverflow` holds, the balance is what the completed
  transactions add up to (`BooksBalance`). The sum is a recursive function
  (`Booked`) up to a number, so the inductive form (`Balanced`) speaks of every
  number above the completed transactions: an unbounded set of them has no greatest
  one to start from. `StepAdds` says that a step changes one row and adds to the
  balance what that row adds, or neither; `AddingTotals` what that does to the sums.
* `OnlyWrapped`, with no assumption: the balance differs from that sum by a multiple
  of 2^64 (`Width`). A credit that wraps is the only way the books can be wrong.
* `RoomForAll`: `NoOverflow` is an assumption and not a fact (`ledger_overflow`
  shows what happens without it), but a tenant with at most N transactions of at
  most A each satisfies it when N * A fits in an int64. It follows from the inductive
  invariant and the books.

`ReadingProofs`, for any limits, and for any transactions, sessions and faults of
the pool, whose invariant it takes from `LedgerProofs` (the endpoints only read:
`EndpointsOnlyRead`). `ReadingIInv` adds to what the pool keeps: what a pass has yet
to show is at or after the offset of its next page, or was overtaken (`Ahead`); what
explains the client's earlier answers was in the ledger when the pass began
(`SeenOK`). The offset an item is at (`Rank`) is a cardinality: in a list that only
grows no rank falls (`RankGrows`); the pending list comes newest first, so an item's rank falls
only when a younger one is settled, which is what `MissedWasOvertaken` allows.
`Completeness`, `OnlyOvertakenIsMissed` and `SeenExplained` follow.
`Overtaking` proves `BoundedOvertaking` for finitely many sessions. Its invariant `FewOlder` says
it of every transaction that is settled or claimed: what `claimPendingTransaction` passes
over is held, so it injects into the other sessions; a row that is older but became
visible later is none that was overtaken, and `late` keeps these apart.

`IdempotencyProofs`, for any number of requests, any TTL, any life of a handler shorter
than that, and any faults of all six kinds. The key is a lock only as long as nobody
lies about it, so the invariant is a balance. What can still go wrong is `Debt`: owners
that have yet to insert or to clear the key (`Acting`), repeats so far, and one more
while the newest transaction is `Fresh`, too young to be followed. What pays for it is
`Credit`: the deceits so far, and one for a key that is `Sound`, which outlives every
owner's need of it and the freshness of the newest row. `ChargesOK` says that neither the owners nor the debt exceed
the credit. A SETNX that succeeds adds an owner and makes the key sound; an insert turns an
acting owner into a fresh row, or a fresh row into a repeat; `Clear` gives up an owner
with the key; a tick that ends the key finds nobody who needs it; a deceit pays for what it
does. `LockHolds` (`FewOwners`) and `RepeatsBounded` (`RepeatsArePaidFor`) follow, and
`AtMostOnce`: without the three kinds of deceit, two transactions of a reference are a TTL
less a handler's life apart, however handlers race, die and fail. `ReplayEnds` is
proved from what a key (`YoungKey`) and a handler (`YoungHeld`) may hold. `Refinement`:
an insert is `Create` because of the repeats that are paid for, a 202 is `Accept` because
of what the handler holds, deceits are `Deceive`, and other steps stutter.

`WorkerRuntimeProofs`, for any finite tenants and workers and any multiplier:
`IInv` (a worker returns only after the channel is closed and empty, and closed
means that the dispatcher has returned) gives `Graceful` and `NoPanic`;
`TypeCorrect` is part of it.

`TenantsProofs`, for any requests, codes, calls, changes and faults: `IInv` says how
far a registration is and what its transaction holds (`Progress`), that the row of
an open transaction keeps every other of its code away (`Alone`), and that a call
under way has seen the state its tenant is in (`Witnessed`). `UniqueCodes` needs
`Alone`: without the wait inside the INSERT two open transactions could both
commit. `AllOrNothing`, `HonestAnswers`, `Explained` and `TypeCorrect` follow from
it; one lemma says how a step may change the committed tenants.

`WebhookProofs`, for any transactions, workers, endpoints, attempts, changes and
faults: `IInv` says that a call is about one settled transaction that no other call
is about (`CallsOwn`), what has not been settled has not been told of
(`Unsettled`), and that the attempt number, the endpoint and what was sent agree
(`Attempts`). Each action of a call either ends it (`EndedStep`) or moves it on
(`MovedStep`). `Truthful`, `OneEndpoint` and `Honest` follow. `busy` has an invariant
of its own, `Clocked`, which needs nothing of `IInv`: what a call has taken is its
requests and backoffs so far. `LoopValues` shows that the loop of
`fibonacciRetryBackoff` (`Loop`) computes the Fibonacci numbers cut off at the longest
duration, for every attempt, and `TimeIsBounded` that a callback takes its requests and
the sum of those (`BusyBounded`); with `IInv` it gives `TypeCorrect`.

`RateLimiterProofs`, for any requests, limit, window, faults and any delay shorter than
the window: `WindowLimit` is not inductive, since a grant is not an entry. `IInv` adds
that a script that has not run is younger than `MaxDelay` (`Timed`); that the set has
at most `Limit` entries, each with the time of its request (`Sized`); that whoever was
let in less than a window minus the delay ago still has an entry, whatever the scripts
with later times have trimmed, and the key has not expired (`Remembered`): so the grants
of a window inject into the entries; and that a 429 was computed from an entry
that leaves by then, as long as nobody else is let in (`Waiting`). `WindowIsLimited`,
`RetryAfterSuffices` and `TypeCorrect` follow.

`Induction` is what the proofs about sums and backoffs rest on. The induction theorems
of the library take an operator as a parameter, which the provers cannot instantiate;
`Least` and `Every` say the same of sets, a set of numbers with 0 and every next one
being all of them. A recursive function can be unfolded only where it is known to
exist, and `Recursion` gives that, from a start and a step.

Only model-checked: liveness (`EventuallySettled`, `ShutdownCompletes`,
`SuspensionTakesHold`, `OldestServed`, `EveryCallbackEnds`, `EveryRegistrationEnds`),
which is outside the prover's reach, and the violations, which are about small
instances. Every invariant and action property and both refinements that the
passing runs check are theorems. The assumptions on constants are the `ASSUME`s of the
modules; TLC evaluates them in each run.

## Not modelled

Configuration, openers of the database and the cache, HTTP envelopes, tenant
context, schema names, packaging and demo data: no state of their own, read once
at start, or pure I/O. Left out of modelled parts: clocks that disagree between
API processes or step back, the time a server session outlives a dead client with
its locks, the payload of a submission (a replay does not look whether the payload
is the same), `expires_at` of a key, `processed_at` and `updated_at`, the template
of a tenant's migration, and the health endpoints.

## Plan

1. Done: `Settlement`, `AccountSpec`, `Ledger`, `Reading`; `ReferenceSpec`,
   `Idempotency`; `WorkerRuntime`; `RateLimiter`; `Webhook`; `Tenants`; the proofs
   listed above.
2. Left to model: a composition of dispatcher, sessions and callbacks for two
   tenants, in which a callback keeps a session from its queue.
3. Left to prove: for the composition of 2, that it implements its parts; that the
   properties of `Ledger` follow from those of `AccountSpec` through the refinement.
