# AgentOn in TLA+

A verification development of AgentOn, its backend (`app/`), its dashboard
(`web/js`) and its seed script: which state the components keep, which steps their
handlers take, and what holds however those steps interleave, fail, are repeated
or are cut off by a restart or an exception.

    tlasany Instances.tla                                          parse
    tlc -workers 2 -config MCBillingMock.cfg MCBilling.tla         check
    tlapm InstancesProofs.tla                                      prove

## The system

AgentOn rents out automation agents. A renter recharges a wallet, orders an
agent template, pays the order from the wallet, turns it into an instance,
starts the instance and has it execute tasks; a scheduler in the same process
renews or expires rentals.

| Component | State | Operations | Interacts with | What is hard | What makes it correct |
|---|---|---|---|---|---|
| billing (`app/billing`) | `Wallet`, `Transaction`, `Order`, `PendingRecharge` rows | get wallet, settings, recharge, hosted checkout and its webhook, order, pay, meter, renew | payment provider (awaits and webhooks), instances | reads and commits of several requests interleave, webhooks repeat, the process dies between charge and credit | balance = sum of the ledger, an order is paid once, a session is credited once, only metered usage overdraws |
| payment providers (`app/billing/providers`) | none on our side | `charge`, `create_checkout_session`, `parse_webhook` | billing | I/O in the middle of a handler | money taken is money credited |
| instances (`app/instances`) | `AgentInstance` rows | create, start, pause, stop, release, execute | billing (wallet debits), engine (awaits a connector), scheduler | status and fail streak are read before an await and written after it | the lifecycle table, three failures in a row pause, every metered run is charged once |
| scheduler (`app/instances/scheduler.py`) | none but its position in a tick | `tick_once`, `_handle_expiry` | instances, billing; runs on the event loop | works through a list selected earlier; a renewal has two commits | due rentals are renewed or expired, a charge extends |
| engine (`app/engine`) | connector registry, `_bootstrapped`; an execution's request and answer | `get_connector`, `run`, `verify` | instances, external APIs | first use by several threads; answers that are lost, late or untrue | a registered task type is found, what is recorded as done was done, and once |
| cli runner (`app/engine/cli_runner.py`) | a claude process | spawn, read, kill, wait | engine | a process that hangs, a timeout that races its exit | somebody waits for every process |
| platforms (`app/platforms`) | `PlatformConnection` rows | authorize, callback, disconnect, `inject_credentials` | OAuth providers, instances | callbacks race disconnects and each other, browsers repeat them | a stored token belongs to the renter and the account stored with it, and once removed stays removed |
| marketplace, auth | `AgentTemplate`, `User` rows | publish, list; register, log in | everyone | check, then insert | slugs and e-mail addresses are unique, and belong to whoever was told so |
| seed script (`scripts/seed_demo_data.py`) | a transaction | `seed` | the marketplace's table, from another process | killed half-way, conflicting slugs, the write lock | all sample agents or none |
| common | none | `paginate`, `atomic_write_text` | marketplace | page sizes at the boundary, rows added between pages | whoever reads all pages sees everything once |
| database (`app/db.py`) | sessions, connection pool | session per request | everyone | connections are held across awaits and while waiting for threads | everyone is served some time |
| web dashboard (`web/js`) | address, page, token, requests under way | router, views | the HTTP API | answers out of order, a late 401, redirects | the tab comes to rest on a page that fits address and token |

### How the program is scheduled

The models rest on how FastAPI runs the code:

* `def` handlers run on a pool of threads. Their database reads and commits
  interleave with everything (`Threads`).
* `async def` handlers and `run_scheduler_forever` are coroutines of one event
  loop (`Tasks`, `Scheduler`). Their database calls are synchronous, so between
  two `await`s no other coroutine runs, but a thread may commit.
* There is one server process; it may be killed and started again at any step.
* A commit is atomic, reads see what is committed (SQLite, or PostgreSQL at READ
  COMMITTED), there are no row locks and no version columns, and the ORM writes
  absolute values of the attributes that differ from what it loaded.

## Modules

| Module | What it is |
|---|---|
| `Accounts` | abstract specification: what billing promises of wallets, without requests, reads and commits: who is charged for which order, at which price, and when. With `Direct` false (the Stripe provider) money comes in by one `Settle` per checkout session only |
| `Billing` | `app/billing`: every endpoint as an arriving request, a read and a commit, per worker |
| `Instances` | EXTENDS `Billing`: `app/instances`, the scheduler, the clock and faults on top of billing |
| `Platforms` | `app/platforms`: authorizations, callbacks, disconnects, credentials of tasks |
| `Connectors` | `app/engine`: what lies between a task's await and its result: requests, answers, verification, the claude process |
| `Executions` | abstract specification: what the engine promises to whoever awaits an execution: one lasting result, at most one act, success only after a look |
| `Catalog` | registry, `app/marketplace`, `app/auth`, pagination and the seed script: check-then-insert, a lazy bootstrap, one writer from outside |
| `Server` | event loop, worker threads and connection pool under everything else |
| `Dashboard` | a tab of `web/js`: address, router, token, answers |
| `MC...` | instances for TLC; the `.cfg` files are named after them |
| `...Proofs` | theorems and their proofs |

The modules divide the program along the state that is shared. `Instances` composes
with `Billing`, since both write wallets in one transaction. `Instances` takes from
`Connectors` the three outcomes of an execution (`Executions` says what they mean), from `Platforms` the credentials,
from `Catalog` the templates and the registered connector, and `Server` is what makes
each of their steps come about: its requests are those of all the others, without
what they do to the tables.

Operators commented *Mutant* are slightly wrong versions of the definition that
follows them: the errors the properties are there to notice. No specification
uses them.

### Billing

`req[w]` is the request of worker `w`: its operation, the statement it has
reached (`pc`), the user, the order or session it refers to, the amount and the
balance it has `seen`. `pc` is `"select"` (about to look for the wallet),
`"insert"` (found none), `"await"` (waiting for the provider) or `"commit"`.
A handler that returns early replies. `wallets`, `balance`, `autoRenew`, `orders`
and `sessions` are the tables. The ledger, which is append-only, is kept as its
sums and counts: `ledger`, `credited`, `payments`, `usages`, `credits`.

* `SetBalance` writes `seen + delta`, not `balance + delta`. This is where
  updates are lost.
* `HoldsLoop` says when a coroutine has the event loop. The mock provider's
  `charge` awaits nothing, so its `recharge` keeps the loop from the read to
  the commit; `"stripe"` refuses `charge` and offers hosted checkout. These are the
  two providers of `providers/__init__.py`.
* `shared` is history: the users who ever had two wallet requests in flight.
* `StripeWebhook` is enabled again and again until the session is COMPLETED: a
  delivery may be repeated, delayed or cut off by `Crash` or `StatementFails`. A delivery that finds
  a COMPLETED session changes nothing and is not a step.
* `Crash` drops the requests of all workers, `StatementFails` that of one: a statement,
  the commit included, raises (locked database, exhausted pool), `get_session` rolls
  back and the handler answers 500. Both are `faults`. A `session.refresh` that raises
  after the commit leaves the tables as the commit step does.
* `CheckoutCreated` is one step from the provider's answer to the commit of the
  `PendingRecharge`: the URL is returned after it only, so nobody can pay a session that
  has no row.
* `MeterConsumption` and `HandleExpiry` are the calls from `app/instances`.

### Instances

`inst[o]` is the `AgentInstance` row of order `o` (`order_id` is UNIQUE),
`job[w]` the operation worker `w` runs on one, with what it has read, `tick` the
scheduler's position. `job` and `req` of a worker belong together: while
`execute_instance_task` meters a run, `req[w]` is the debit.

* `Transition` reads and asserts; `TransitionCommit` writes.
* `Execute` reads up to the await. `JobRaises` (the connector, or a statement of the
  endpoint, raises), `RunFails`, `RunSucceeds` and
  `RunMetered` are what comes after it. `ClearStreak` writes 0 only where what
  was read was not 0, as the ORM does.
* `RunMetered`, `RunWallet`, `RunDebited`: the debit and the instance's own
  changes are committed together. `BillingFails`: the debit raises, and the run, which
  took place, is answered 500 and never charged.
* `TickBegin` selects the due RUNNING instances once; `TickNext`, `TickWallet`,
  and `TickCharge` then `TickExtend`, or `TickExpire`, handle them one by one.
  Coroutines wait (`MyTurn`), threads do not.
* `TickFails`: any statement of a tick raises, those between the two commits of a renewal
  included. `run_scheduler_forever` logs it (lines 58-61), the tick ends where it stands, and
  the due instances it has not reached wait for the next one, as does the instance whose
  renewal is charged and not extended: it is still due, and is charged again.
* `mixed` is history: the instances that ever had two operations in flight.
* An illegal transition is a `ValueError` nobody catches: the renter sees status
  500 and nothing changes, so it is not a step.

### Platforms

`flow[f]` is one authorization: who started it and for which provider (what
the signed `state` carries, with the code verifier) and, after consent, which
account of the platform granted it. The redirect carries the code and the state of
the same flow. A token is named after the flow that brought it, and so is the
uuid of a row after the flow that inserted it. `conn[u][p]` is the
`PlatformConnection` row, `job[w]` the request of a worker with the `row` it has
read, `stored` is history: the flows whose token was ever stored.

* `Callback`, `ExchangeCode`, `FetchUserId`: the two awaits of `twitter_callback`
  and `discord_callback`. The platform exchanges a code once, so a repeated
  callback ends in `CallFails`.
* `FetchUserId` goes on to the read of `upsert_connection`; until
  `UpsertCommit` the coroutine has the event loop (`HoldsLoop`), so only
  `DeleteCommit`, on a thread, comes in between. Then the UPDATE matches no row and
  the callback answers 500 (`UpsertFails`).
* `Upserted` writes an account only where it differs from the one that was
  read, as the ORM does.
* `InjectCredentials` reads what a task runs with until `RunEnds`; what the renter
  passes with the task (`Given`) wins.
* That `OneInserter` holds rests on the one process of the `Dockerfile` and on
  `upsert_connection` having no `await`; the mutant `HoldsLoopNever` shows what is
  lost without.

### Connectors

`run[r]` is an execution: its target (follow that account, post that text), how far it
is, the answer it has got, its result. `wire[r]` counts its action requests that have
not reached the platform, `applied[r]` those it carried out; `there` is what holds on
the platform at the moment, for the targets somebody asks about, and `held`, history,
the executions whose target has held since they began. `proc[r]` is the claude
process.

* `Send`, then `Acknowledge`, `Reject`, `RejectBody` or `CallFails`: `run` of every
  connector. `Verify` and `Query`: `verify` of the two that have one.
* `Handle`: the platform receives a request, perhaps after its sender has given up,
  acts or not, and answers as it pleases. `OwnerDoes` and `OwnerUndoes`: people use
  the same accounts.
* `CallFails` is enabled from the first moment on: a connection may be refused at
  once. `webvisit` and `platform_register` catch `httpx.HTTPError`, the X and Discord
  connectors do not, and then `execute` answers 500.
* `Spawn`, `ReadOutput`, `CliTimesOut`, `Reap`: `run_claude_prompt`.
* An execution is lost with its server; a restart is in `Instances`.

### Catalog

`req[r]` is a request on a thread: publish, register or execute, the statement it has
reached, and its answer. `bootstrapped` and `registry` are the globals of
`registry.py`. `owner` says who inserted the row with a slug or an e-mail address,
`place` its position in the list. `seed` and `draft` are the script and its
uncommitted rows, `browse` and `shown` a client that reads page after page.

* `CheckBootstrapped` and `SetBootstrapped` are two steps: a thread switch may come
  between. `RegisterAll` is over when every connector is there.
* `SelectKey`, then `InsertRow` or `InsertFails`: the UNIQUE constraint, or the write
  lock that the script holds for longer than five seconds.
* `SeedSlug`: the session flushes the row it was last given before the next SELECT, so
  the script takes the write lock with its second new row. `SeedFails` is a conflict at
  the flush, or the death of the script.
* A list without ORDER BY comes in the order of the rows' insertion, as SQLite scans a
  table; nothing in the code deletes or deactivates a template.

### Server

`pc[t]` is where a request or the scheduler is, `conn` who has a connection, `wants` who
waits for one, `left` a bound on the commits and awaits to come, `loop` who is on the
event loop.

* `Arrive`, `TakeThread`, `UserKnown`: `get_current_user` runs on a thread, and its
  session, which the endpoint shares, then has a connection, which it keeps while the
  request waits for a thread for its endpoint.
* `Execute` and `Checkout`: a thread that waits for a connection blocks itself only, a
  coroutine or the scheduler blocks the loop. `PoolTimeout`: after 30 seconds the pool
  raises.
* `Close` is the end of `get_session`. FastAPI runs it in a thread outside the limit of
  the others, so it needs none of `Threads`.
* `TickFails`: an exception in a tick is logged, the session is closed, and the next
  tick comes.

Circular waits do arise: connections held by requests that wait for a thread, all
threads (and the loop) waiting for connections. Only the timeout of the pool ends them,
as the mutant `PoolWaits` shows.

### Dashboard

`hash` is the address, `events` the `hashchange` events to be handled, `page` the view
that is mounted, `token` the one in `localStorage`, `calls` the number of requests under
way by purpose and token, `accepted` the tokens that the server still takes.

* `Resolve` is `resolve()` up to its await: a redirect or a mount. An assignment of the
  same address causes no event (`Assign`).
* `Answer`: requests end in any order, with success, an error, or, if their token is
  not accepted, a 401, which clears the token of that moment (`Unauthorized`).
* `dialog`: the dialogs of the marketplace lie over whatever page comes next, so renting may
  be pressed on any page after it.
* `Then`: renting is three calls, registering two, each with the token of its moment.
* The marketplace asks for nothing that needs a user, so an expired token is noticed
  through the greeting (`me`), or the next click.

`MCBilling` and `MCInstances` also say what was left out of the data: users, ids and
sessions are model values, unit prices are 1 and 2 cents, orders are for 2 units (so that
an order's amount and a unit price differ), a rental lasts one clock unit.

## Runs

Bounds are constants: `MaxRequests` (requests started), `MaxFaults`
(restarts and statements that raise, together), `MaxOps` (operations on instances), `MaxTime`. The properties concern two
overlapping requests, one fault, and a third failure; the bounds allow each
of these with requests to spare. The runs of `Billing` and `Instances` have
`CHECK_DEADLOCK FALSE`, since a system that has used up its bounded requests stops,
and so has `Dashboard`, where a tab that the user leaves alone rests. Symmetry is used in runs without
liveness properties only.

| Run | Shows | Properties |
|---|---|---|
| `BillingMock` | 2 users, an order, 2 threads and a coroutine, 4 requests, a fault | `IInv`, `SoleWriterExact`, `NegativeOnlyByMetering`, `PaidOrderHasPayment`, `KeepsPromise` |
| `BillingStripe` | 2 sessions, 2 coroutines: repeated and overlapping deliveries, a fault, fairness | `CreditedOnce`, `CapturedIsCredited`, `KeepsPromise`, `PaidEventuallyCredited`, `EveryRequestEnds` |
| `Instances` | 2 instances, hourly or metered, a thread and 2 coroutines, the scheduler, 3 operations, 2 clock units, a fault | `RentalInv`, `StreakCounts`, `RunsBilled`, `SoleOperatorLegal`, `SoleOperatorServed` |
| `InstancesLive` | from an empty database, with hosted checkout, either template, fairness | `OwnerHasWallet`, `RenewalExtends`, `RunsBilling`, `JobsEnd`, `DueIsHandled` |
| `Platforms` | 2 users, a provider, 3 authorizations, 2 accounts, 2 threads, 2 coroutines, restarts | `PlatformsInv`, `RowsGranted`, `TasksGranted`, `OneInserter`, `TokenNeverReturns` |
| `Connectors` | 2 executions, a target of each sort of connector, fairness | `ConnectorsInv`, `DoneWasSeen`, `ActsOnce`, `KeepsResults`, `ExecutionsEnd` |
| `Catalog` | 2 requests, 2 slugs (both sample agents), an e-mail address, a task type with a connector and one without, page sizes 0 and 3 against a limit of 2, restarts, fairness | `CatalogInv`, `SeedAllOrNothing`, `PagesComplete`, `DeniedOnlyWhileLoading`, `RequestsAnswered` |
| `Server` | 2 requests on threads, a coroutine, one thread, one connection, a commit or await each, the scheduler, fairness | `ServerInv`, `RequestsServed`, `TicksGoOn` |
| `Dashboard` | 2 tokens, 3 clicks, fairness | `DashboardInv`, `ComesToRest` |

The newer modules need few bounds. `Connectors` has none: an execution sends one
request, and two executions of one target are enough for one to see what the other has
done. `Catalog` has none but its sets: a request is answered once, while the script, the
client and the server start any number of times; both slugs are sample agents and the
largest page holds two, so that requests, script and pages get in each other's way. In
`Server` the smallest pool and the smallest number of threads give the most waiting;
`MaxRounds = 1` lets a request give its connection back once and ask again. In
`Dashboard` three clicks suffice for signing in, leaving and signing in again with answers
under way. `Connectors`, `Catalog` and `Server` are checked for deadlock.

`Platforms` needs no bound but its sets: each authorization is used once, and three of
them are enough for two overlapping callbacks on top of an existing connection.
A callback may be repeated, a connection removed and the server restarted any number of
times. Providers never mix, so one is enough.

Most runs of `Instances` start in `FundedInit`: the renter has recharged, ordered
and paid, and has started some of the instances, one request after the other. It is
a state the system reaches, except that its request counter is reset and
`autoRenew` is any value the renter may have chosen; `InstancesLive` starts from
the empty database instead.

`NegativeOnlyByMetering` holds in spite of lost updates, because a payment or a
renewal writes a balance it has seen covered. `SoleWriterExact`, `StreakCounts`,
`SoleOperatorLegal` and `SoleOperatorServed` say precisely under which condition the
documented properties hold; the runs below say that without it they do not.

### What the docs say and the code does not do

Each of these runs ends in a counterexample, and `PROJECT.json` quotes the text.

| Run | The docs, a docstring or a test | What happens |
|---|---|---|
| `BillingLedgerExact` | the balance "should always equal the sum of that wallet's transactions" | two overlapping requests of one renter lose an update |
| `InstancesLifecycleLegal` | every transition is asserted | the scheduler and the auto-pause assert nothing, and the others assert a stale row |
| `InstancesChargedIsExtended` | the scheduler charges and extends | a restart, or a statement that raises, between the two commits |

More consequences can be read off the models and have no run of their own:

* `PayOrder`: two payments of one order that overlap both find it PENDING, and the order
  is paid twice; `PaidOrderHasPayment` says that this takes an overlap.
* `CountRun`: executions that overlap count their failures from the same streak, so the
  third in a row does not pause; `StreakCounts` says that this takes an overlap.
* `TickBegin` never selects a metered instance, and nothing else looks at the balance: it
  runs on when its renter's balance is negative, against the docstring
  `app/billing/service.py` 145-148.
* `InsertConflict`: two first requests of a renter both find no wallet, and the
  second INSERT answers 500. The wallet page sends two requests at once
  (`web/js/views/wallet.js`, line 45).
* `TickNext` does not look at the status again: an instance that its renter stops
  or pauses after the SELECT is charged for a renewal. `SoleOperatorServed` says
  that this takes an overlap.
* `TickFails` and `Restart` after `TickCharge`: the renewal is charged again at the next tick,
  as often as that happens. `RenewalExtends` says that each such charge takes a fault.
* `BillingFails`: a metered run whose debit raises is free; `RunsBilled` says that this takes
  a fault.
* `TickBegin` selects RUNNING instances only: a rental that is paused when its time
  is over does not expire. `DueIsHandled` therefore speaks of RUNNING ones.
* `Acknowledge`: likes, retweets, posts, visits and registrations are done, and billed,
  when the platform says so; `verify.py` 7-11 wants a separate look for anything billable.
  `DoneWasSeen` therefore speaks of follows and joins.
* `Query`: a follow beyond the first 1000 accounts of the list is a failure, though done.
* `ActsOnce` is about one execution. A renter who sees a 500 and executes again may post
  twice, for the first post may have gone through.
* `Lookup`: while the registry is being filled a publication may answer 409, and an
  execution 500, for a task type that has a connector.
* `InsertFails`: whoever loses the race for a slug or an e-mail address is answered 500,
  not 409.
* `BrowseAgents` uses the clamped page size, while the `Page` it returns repeats the one
  that was asked for. `list_transactions` clamps nothing.
* `Unauthorized`: a late 401 clears the token of a later log-in. The tab comes to rest all
  the same, on the login page.
* `SignedIn` on top of a token assigns an address that may be there already: the views
  that are mounted, and the greeting, stay those of the user before.

### Fairness

`Fairness` and `RentalFairness` ask for weak fairness of threads (a pool thread
that has work gets on), strong fairness of coroutines (their ready queue is first
in first out, so one that is ready again and again gets its turn), and strong
fairness of webhook deliveries (Stripe repeats one until it is acknowledged).
An awaited provider or connector answers: its HTTP client has a timeout. A tick
starts again and again (`asyncio.sleep` ends) and, once begun, gets on or raises. No renter
is assumed to do anything. Nothing has to fail either (`BillingFails` and `TickFails` are
under no fairness), but faults are bounded, so what is shown to happen some time happens
unless statements of the same tick, delivery or request go on raising for ever.

* `Connectors`: timers fire and answers that have come are read (weak fairness of each
  execution), a killed process dies. Platforms and running processes owe nothing. The 15
  seconds of httpx limit each read and not the whole answer, so an answer is taken to come
  whole or not at all.
* `Catalog`: threads get on (weak fairness of each request). Nothing is asked of the
  script, which may hang with the write lock: SQLite gives up after five seconds.
* `Server`: whoever runs gets on (weak fairness), and the loop, first in first out, takes
  what is ready again and again (strong fairness of `Served` and `TickBegins`). The
  number of requests is finite: starvation by an endless stream of them is not ruled out.
* `Dashboard`: events are handled and requests end, somehow (weak fairness).

## Proofs

The theorems about `Billing` and `Instances` hold for any number of users, orders, sessions, threads and
coroutines, any bounds, and any integer price; `BillingAssumption` and
`InstancesAssumption` are all that is assumed: ids are distinct, quantities
and recharges are positive (the handlers refuse others), and a rental has a duration.

Every safety property of the runs, invariant or action property, is a theorem. The liveness
properties are not, fairness being beyond the prover; what they rest on besides fairness is.

### Safety

`BillingProofs` shows that `IInv` is inductive (`InitIInv`, `NextIInv`,
`Invariant`). The safety properties are not inductive by themselves:

* `CreditedOnce` needs that between two awaits one coroutine runs (`LoopInv`), so
  no two deliveries are both past the COMPLETED test, and that the session a
  webhook has read is still pending (`RequestInv`).
* `NegativeOnlyByMetering` needs that what a request has seen is not negative
  either (`NonNegativeInv`), and that a payment or renewal about to commit has
  seen enough (`RequestInv`).
* `SoleWriterExact` needs that the one request of a user outside `shared` has seen
  the balance as it still is (`SoleWriterInv`).
* `PaidOrderHasPayment` needs that such a request found its order PENDING.
* `CapturedIsCredited` speaks of sums over sessions and workers. `CreditInv` keeps them
  as what is still to be credited, the `Claims` of a user, and counts these in `Cents`: a
  claim of n cents is n elements of a set, so the sum is a cardinality, and each step adds
  the elements of one claim or takes them away. No fault forgets the claim of a session;
  it may forget that of a direct charge.
* That a renewal costs what the order did, and usage the unit price, needs `PriceInv`: what
  a request read of its order before the await is still true after it.

The steps of `Next` are first sorted into a few shapes (`NextCases`,
`AdvanceCases`: a request arrives, passes on, loads, replies, or commits), so each
conjunct has one step per shape. `PromiseTheorem` maps each shape to a step of
`Accounts` or a stutter. `AccountsProofs` shows what that is worth: `Kept` and `BySession`
follow from `Accounts`, without any assumption, and `BySessionTheorem` carries the latter
over to `Billing`: on Stripe no cent is credited but with a session that becomes COMPLETED.

`InstancesProofs` shows that every rental step is a step of `Billing` or none
(`RentalBillingStep`), whence `RentalSpec => Spec` (`BillingTheorem`): all that is
proved of `Billing` holds of the rental system, which therefore keeps the promise of
`Accounts` (`RentalPromise`). `RentalInv` is inductive relative
to `IInv` (`RentalInvariant`). Its heart is `Sole(o)`: the only operator of an
instance outside `mixed` has read it as it still is. From it follow
`StreakTheorem`, and for each step `LegalTheorem` and `ServedTheorem`;
`OwnerTheorem` and `RenewalTheorem` are conjuncts. `RunsTheorem` counts the runs that await
their debit (`Metering`, `MeterInv`). `UninterruptedTheorem` shows that the documented
`ChargedIsExtended`, which a run refutes, holds as long as the server is not restarted and
no statement raises; `RenewalTheorem` bounds what is lost otherwise by the number of faults.

`PlatformsProofs` shows that `PlatformsInv` is inductive, one lemma for each of
its parts. The two central ones are `TokenInv` (a token that is on its way is
on its way once and was never stored) and `LoopInv` (one upsert at a time, and the
row it has read is still there as it was, or has been deleted), from which
`InsertsOnce` follows and, with `TableChanges`, `RowsAreGranted`,
`TasksAreGranted` and `TokensNeverReturn`. `PlatformsAssumption` says that model
values are distinct and that threads are not coroutines.

`ConnectorsProofs`: `DoneWasSeen` is a conjunct of `ConnectorsInv` once it is known that an
answer `"listed"` came while the target was there (`RunInv`, `HeldInv`), and
`ActsOnce` one about the sum of what is under way and what was carried out. `FinalTheorem`
says that what comes late changes no result. `ResultsTheorem` maps each step to one of
`Executions` or to a stutter: a request that is handled after its execution is over is
still an `Act`, and a `Finish` with success needs what `DoneWasSeen` says of the state
after it.

`CatalogProofs`: one lemma for each part of `CatalogInv`. `RegistryInv` (a registry that is
begun and not complete has a request that fills it) gives `DeniedTheorem`. `SeedInv` says
where each sample agent is: yet to come, in the draft, or there. `PlaceInv` says that
positions have no gaps, so that an empty page is the end of the list; with `PageInv` it
gives `PagesCompleteTheorem`. The step that adds the draft to the table is the hard one.

`ServerProofs`: the four parts of `ServerInv` are inductive together; the bound on
connections counts them with the theorems on cardinalities.

`DashboardProofs`: `FitsAtRest` is inductive, since every change of address or token has an
event follow it, except where the page fits already. `DashboardAssumption`,
`ServerAssumption`, `CatalogAssumption` and `ConnectorsAssumption` say that model values
are distinct and bounds natural.

### What the liveness properties rest on

That something happens at last needs fairness, which is for TLC. That nothing goes round in
a circle, and that nobody is ever without a next step, are safety properties, and those
that are not obvious are theorems:

| Property | Theorem | Says |
|---|---|---|
| `EveryRequestEnds` | `BillingProofs!ProgressTheorem` | at most four steps of its own lie before a request's end, and no step of another one puts it back |
| `JobsEnd`, `DueIsHandled` | `InstancesProofs!ReadyTheorem` | whatever an operation or a tick under way needs for its next step is there, the wallet row and the event loop included |
| | `InstancesProofs!NearerTheorem` | no step puts it back, and a tick takes up no instance twice |
| `ExecutionsEnd` | `ConnectorsProofs!NearerTheorem`, `ProcessInv` | two steps of its own, and the process it waits for after the timeout is killed or has exited |
| `RequestsAnswered` | `CatalogProofs!NearerTheorem` | from the registry to the table to the answer, never back |
| `RequestsServed` | `ServerProofs!NoCircleTheorem` | while a request is unanswered, somebody can go on, or the pool is exhausted and its timeout runs |
| | `ServerProofs!NearerTheorem` | a request has at most `4 * MaxRounds + 20` steps of its own |
| `ComesToRest` | `DashboardProofs!RedirectTheorem` | an event costs at most two calls of `resolve` |

Only model-checked: the liveness properties themselves, and of course the counterexamples.

## Not modelled

* Who may do what: authentication, ownership checks (404, 403), signature
  verification of webhooks. Every request of the models is one the checks let pass.
* Templates are a constant of `Billing` and `Instances`: nothing in the code edits or
  deactivates one, and `Catalog` publishes them.
* The lifetime of OAuth states and tokens, scopes, refresh tokens (stored and never
  used), encryption, and the list of connections.
* Log-in (`authenticate_user`), which changes nothing; passwords; search and categories.
* Timestamps other than the `expires_at` of an instance, descriptions, messages, low-balance flag.
* In `Platforms`, a statement that raises other than where `CallFails` and `UpsertFails` say so:
  what is not committed is rolled back, as with a restart, but of one request only.
  `Billing` and `Instances` have such statements anywhere, `Catalog` on the UNIQUE constraint
  and the write lock, `Server` on an empty pool and in a tick.
* `proc.kill()` may itself raise if the process has just exited (`cli_runner.py`, line 53). The
  execution then ends with 500 and nobody waits for a process that is gone.
* Redirects: `webvisit` follows them, so one visit may be several GETs. `ActsOnce` is about the
  request the execution sends.
* A payment that the provider reports and nobody made: only paid sessions are delivered.
* In `Dashboard`, a 200 that comes late for a token that has expired since. It can as well have
  come before the expiry, unless a 401 for the same token came in between; then at most the
  end of renting sends the tab to the instances, from where it is redirected to the login page.
* PostgreSQL (`docker-compose.yml`) in `Catalog`: writers wait there for each other's unique
  keys and not for a lock of the whole database, and a list without ORDER BY has no
  promised order.
* `atomic_write_text`, which nothing calls.
* What the dashboard's views show, and more than one tab: searches whose answers come in
  the other order, what is typed into forms. A late answer writes into elements of the page that was
  left, or, in `wallet.js`, finds none and shows a toast.

## Plan

1. done: `Accounts`, `Billing`, `Instances`, `Platforms`, and their proofs.
2. done: `Connectors`, `Catalog`, `Server`, `Dashboard`, and their proofs.
3. done: `CapturedIsCredited` and `RunsBilled` as inductive invariants, and what the
   liveness properties rest on.
4. done: `Executions`, which `Connectors` implements.
5. Views of the dashboard: what is shown against what was asked for last.
