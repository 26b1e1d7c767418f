------------------------------ MODULE Billing ------------------------------
(***************************************************************************)
(* app/billing: wallets, the Transaction ledger, rental orders and hosted  *)
(* checkout recharges, as the handlers of app/billing/router.py run them.  *)
(*                                                                         *)
(* A worker is one request in flight.  Sync handlers run on the server's   *)
(* thread pool (Threads) and interleave with everything.  Async handlers   *)
(* (Tasks) and the instance scheduler share one event loop: the stretch of *)
(* such a handler between two awaits is never interleaved with another     *)
(* coroutine, yet threads may commit in the middle of it.                  *)
(*                                                                         *)
(* A handler reads rows in one step and commits in a later one.  The ORM   *)
(* writes the ABSOLUTE value it computed from what it read ("seen"), and   *)
(* only if it differs from what it read; a commit is one atomic step.      *)
(***************************************************************************)
EXTENDS Integers, FiniteSets

CONSTANTS
    Users,          \* user ids
    Templates,      \* agent templates on offer
    Metered,        \* templates priced per token or package
    Price,          \* base_price_cents of a template; the code accepts any integer
    Quantities,     \* order quantities
    Orders,         \* order ids
    Sessions,       \* checkout session ids of the payment provider
    Amounts,        \* recharge amounts
    Threads,        \* workers of the thread pool
    Tasks,          \* coroutines of the event loop
    Scheduler,      \* the coroutine of run_scheduler_forever
    None,
    Provider,       \* PAYMENT_PROVIDER: "mock" or "stripe"
    MaxRequests,    \* bound: requests started, not counting webhook deliveries and renewals
    MaxFaults       \* bound: restarts of the server process, and statements that raise

ASSUME BillingAssumption ==
    /\ Metered \subseteq Templates
    /\ Price \in [Templates -> Int]
    /\ Quantities \subseteq Nat \ {0}
    /\ Amounts \subseteq Nat \ {0}
    /\ Threads \cap Tasks = {}
    /\ Scheduler \notin Threads \cup Tasks
    /\ None \notin Users \cup Templates \cup Orders \cup Sessions
    /\ Provider \in {"mock", "stripe"}
    /\ MaxRequests \in Nat
    /\ MaxFaults \in Nat

Workers == Threads \cup Tasks \cup {Scheduler}

VARIABLES
    \* tables
    wallets,        \* users with a Wallet row
    balance,        \* balance_cents
    autoRenew,      \* users with auto_renew_enabled
    orders,         \* Order rows
    sessions,       \* PendingRecharge rows, and whether the renter paid on the hosted page
    ledger,         \* sum of the user's Transaction rows
    credited,       \* sum of the user's Transaction rows of kind RECHARGE
    payments,       \* number of ORDER_PAYMENT rows pay_order wrote for the order
    usages,         \* number of CONSUMPTION rows of the order's instance
    credits,        \* number of Transaction rows that reference the session
    \* the server process
    req,            \* the request each worker runs
    \* outside the server, and history
    captured,       \* money the payment provider took from the user
    shared,         \* users who have had two wallet requests in flight at once
    issued,         \* requests started so far, see MaxRequests
    faults          \* restarts and raising statements so far, see MaxFaults

walletVars  == <<wallets, balance, autoRenew>>
rowVars     == <<ledger, credited, payments, usages, credits>>
boundVars   == <<issued, faults>>
vars == <<walletVars, orders, sessions, rowVars, req, captured, shared, boundVars>>

-----------------------------------------------------------------------------
\* Records.

NoOrder   == [status |-> "none", user |-> None, template |-> None, quantity |-> 0, amount |-> 0]
NoSession == [status |-> "none", user |-> None, amount |-> 0, paid |-> FALSE]
Idle      == [op |-> "none", pc |-> "idle", user |-> None, ref |-> None, amount |-> 0, seen |-> 0]

At(w, op, pc) == req[w].op = op /\ req[w].pc = pc

\* A coroutine holds the event loop except while it is idle or awaits the
\* provider.
HoldsLoop(w) == w \notin Threads /\ req[w].pc \in {"select", "insert", "commit"}

LoopFree == \A w \in Workers : ~ HoldsLoop(w)

InFlight(u) == \E w \in Workers : req[w].user = u /\ req[w].op # "checkout"

\* The UPDATE of balance_cents that the ORM emits for a row read as "seen".
SetBalance(u, seen, delta) ==
    balance' = IF delta = 0 THEN balance ELSE [balance EXCEPT ![u] = seen + delta]

Record(u, amount) == ledger' = [ledger EXCEPT ![u] = @ + amount]

Reply(w) == req' = [req EXCEPT ![w] = Idle]

Goto(w, pc) == req' = [req EXCEPT ![w].pc = pc]

-----------------------------------------------------------------------------
\* Requests arrive.

Begin(w, op, u, ref, amount) ==
    /\ req[w] = Idle
    /\ w \notin Threads => LoopFree
    /\ req' = [req EXCEPT ![w] = [op |-> op, pc |-> "select", user |-> u,
                                  ref |-> ref, amount |-> amount, seen |-> 0]]
    /\ shared' = IF InFlight(u) THEN shared \cup {u} ELSE shared
    /\ UNCHANGED <<walletVars, orders, sessions, rowVars, captured, faults>>

Counted == issued < MaxRequests /\ issued' = issued + 1

\* GET /billing/wallet and GET /billing/transactions.
GetWallet(w, u) == w \in Threads /\ Counted /\ Begin(w, "get", u, None, 0)

\* PATCH /billing/wallet/settings, either value of the flag.
SetAutoRenew(w, u, op) ==
    w \in Threads /\ op \in {"auto_on", "auto_off"} /\ Counted /\ Begin(w, op, u, None, 0)

\* Mutant: pay_order without the 409 for an order that is not PENDING.
PayOrderAnyStatus(w, o) ==
    /\ w \in Threads
    /\ orders[o].status # "none"
    /\ Counted
    /\ Begin(w, "pay", orders[o].user, o, orders[o].amount)

\* POST /billing/orders/{id}/pay: reads the order and checks that it is PENDING.
PayOrder(w, o) ==
    /\ w \in Threads
    /\ orders[o].status = "pending"
    /\ Counted
    /\ Begin(w, "pay", orders[o].user, o, orders[o].amount)

\* POST /billing/wallet/recharge.
Recharge(w, u, amount) == w \in Tasks /\ Counted /\ Begin(w, "recharge", u, None, amount)

\* execute_instance_task after a successful run of a metered instance; its
\* instance has the order's id.
MeterConsumption(w, o) ==
    /\ w \in Tasks
    /\ orders[o].status = "paid"
    /\ orders[o].template \in Metered
    /\ Counted
    /\ Begin(w, "meter", orders[o].user, o, Price[orders[o].template])

\* The scheduler reaches an expired time-based instance; the renewal costs
\* unit price times quantity, the order's amount.
HandleExpiry(w, o) ==
    /\ w = Scheduler
    /\ orders[o].status = "paid"
    /\ orders[o].template \notin Metered
    /\ UNCHANGED issued
    /\ Begin(w, "renew", orders[o].user, o, orders[o].amount)

\* POST /billing/wallet/recharge/checkout: awaits the provider at once and never
\* touches the wallet.
RechargeCheckout(w, u, amount) ==
    /\ w \in Tasks
    /\ Provider = "stripe"
    /\ req[w] = Idle
    /\ LoopFree
    /\ Counted
    /\ req' = [req EXCEPT ![w] = [op |-> "checkout", pc |-> "await", user |-> u,
                                  ref |-> None, amount |-> amount, seen |-> 0]]
    /\ UNCHANGED <<walletVars, orders, sessions, rowVars, captured, shared, faults>>

\* Mutant: a webhook that skips the COMPLETED test, and one for unpaid sessions.
StripeWebhookAgain(w, s) ==
    /\ w \in Tasks
    /\ Provider = "stripe"
    /\ sessions[s].paid
    /\ UNCHANGED issued
    /\ Begin(w, "webhook", sessions[s].user, s, sessions[s].amount)

StripeWebhookUnpaid(w, s) ==
    /\ w \in Tasks
    /\ Provider = "stripe"
    /\ sessions[s].status = "pending"
    /\ UNCHANGED issued
    /\ Begin(w, "webhook", sessions[s].user, s, sessions[s].amount)

\* A verified checkout.session.completed delivery.  The provider repeats it at
\* will; without a row, or with a COMPLETED one, the handler changes nothing.
StripeWebhook(w, s) ==
    /\ w \in Tasks
    /\ Provider = "stripe"
    /\ sessions[s].paid
    /\ sessions[s].status = "pending"
    /\ UNCHANGED issued
    /\ Begin(w, "webhook", sessions[s].user, s, sessions[s].amount)

\* POST /billing/orders: one read of the template and one INSERT.
CreateOrder(u, o, t, q) ==
    /\ orders[o] = NoOrder
    /\ orders' = [orders EXCEPT ![o] = [status |-> "pending", user |-> u, template |-> t,
                                        quantity |-> q, amount |-> Price[t] * q]]
    /\ UNCHANGED <<walletVars, sessions, rowVars, req, captured, shared, boundVars>>

-----------------------------------------------------------------------------
\* get_or_create_wallet.

WalletMissing(w) ==
    /\ req[w].pc = "select"
    /\ req[w].user \notin wallets
    /\ Goto(w, "insert")
    /\ UNCHANGED <<walletVars, orders, sessions, rowVars, captured, shared, boundVars>>

\* INSERT, commit; refresh then selects the row again.
InsertWallet(w) ==
    /\ req[w].pc = "insert"
    /\ req[w].user \notin wallets
    /\ wallets' = wallets \cup {req[w].user}
    /\ Goto(w, "select")
    /\ UNCHANGED <<balance, autoRenew, orders, sessions, rowVars, captured, shared, boundVars>>

\* Mutant: the INSERT is retried without selecting the row again.
InsertRetried(w) ==
    /\ req[w].pc = "insert"
    /\ req[w].user \in wallets
    /\ Goto(w, "insert")
    /\ UNCHANGED <<walletVars, orders, sessions, rowVars, captured, shared, boundVars>>

\* user_id is UNIQUE: somebody else inserted first, IntegrityError, status 500.
InsertConflict(w) ==
    /\ req[w].pc = "insert"
    /\ req[w].user \in wallets
    /\ Reply(w)
    /\ UNCHANGED <<walletVars, orders, sessions, rowVars, captured, shared, boundVars>>

\* Mutant: the handler goes on with the balance of a new row.
LoadNew(w, pc) == req' = [req EXCEPT ![w].pc = pc]

\* The row is found: the handler goes on at pc with the balance it has seen.
Load(w, pc) == req' = [req EXCEPT ![w].pc = pc, ![w].seen = balance[req[w].user]]

Loaded(w, op) ==
    /\ At(w, op, "select")
    /\ req[w].user \in wallets
    /\ UNCHANGED <<walletVars, orders, sessions, rowVars, captured, shared, boundVars>>

GetLoaded(w) == Loaded(w, "get") /\ Reply(w)

\* An unchanged flag is not written.
AutoLoaded(w, op) ==
    /\ Loaded(w, op)
    /\ IF (req[w].user \in autoRenew) = (op = "auto_on") THEN Reply(w) ELSE Load(w, "commit")

\* Mutant: no 402.
PayLoadedUncovered(w) == Loaded(w, "pay") /\ Load(w, "commit")

\* 402 unless the balance covers the order.
PayLoaded(w) ==
    /\ Loaded(w, "pay")
    /\ IF balance[req[w].user] < req[w].amount THEN Reply(w) ELSE Load(w, "commit")

\* Mutant: the charge comes before get_or_create_wallet.
RechargeChargedFirst(w) ==
    /\ Provider = "mock"
    /\ At(w, "recharge", "select")
    /\ IF req[w].user \in wallets THEN Load(w, "commit") ELSE Goto(w, "insert")
    /\ captured' = [captured EXCEPT ![req[w].user] = @ + req[w].amount]
    /\ UNCHANGED <<walletVars, orders, sessions, rowVars, shared, boundVars>>

\* await provider.charge(...).  The mock returns without suspending, Stripe
\* always raises PaymentFailedError (409).
RechargeCharged(w) ==
    /\ Provider = "mock"
    /\ At(w, "recharge", "select")
    /\ req[w].user \in wallets
    /\ Load(w, "commit")
    /\ captured' = [captured EXCEPT ![req[w].user] = @ + req[w].amount]
    /\ UNCHANGED <<walletVars, orders, sessions, rowVars, shared, boundVars>>

RechargeRefused(w) == Provider = "stripe" /\ Loaded(w, "recharge") /\ Reply(w)

\* Mutant: the delivery is acknowledged, the credit forgotten.
WebhookDropped(w) == Loaded(w, "webhook") /\ Reply(w)

WebhookLoaded(w) == Loaded(w, "webhook") /\ Load(w, "commit")

MeterLoaded(w) == Loaded(w, "meter") /\ Load(w, "commit")

\* Mutant: renewal looks at the flag only.
RenewLoadedUncovered(w) ==
    /\ Loaded(w, "renew")
    /\ IF req[w].user \in autoRenew THEN Load(w, "commit") ELSE Reply(w)

\* Renewal only with the flag set and a balance that covers it; otherwise the
\* instance expires and billing is not touched.
RenewLoaded(w) ==
    /\ Loaded(w, "renew")
    /\ IF req[w].user \in autoRenew /\ balance[req[w].user] >= req[w].amount
       THEN Load(w, "commit")
       ELSE Reply(w)

-----------------------------------------------------------------------------
\* Answers of the payment provider.

\* Stripe refuses the checkout session or does not answer in time, or the INSERT
\* that follows its answer raises: 500.
ProviderFails(w) ==
    /\ At(w, "checkout", "await")
    /\ LoopFree
    /\ Reply(w)
    /\ UNCHANGED <<walletVars, orders, sessions, rowVars, captured, shared, boundVars>>

\* The session exists: its PendingRecharge row is inserted, the URL returned.
CheckoutCreated(w, s) ==
    /\ At(w, "checkout", "await")
    /\ LoopFree
    /\ sessions[s] = NoSession
    /\ sessions' = [sessions EXCEPT ![s] = [status |-> "pending", user |-> req[w].user,
                                            amount |-> req[w].amount, paid |-> FALSE]]
    /\ Reply(w)
    /\ UNCHANGED <<walletVars, orders, rowVars, captured, shared, boundVars>>

\* The renter pays on the hosted page.
RenterPays(s) ==
    /\ sessions[s].status = "pending"
    /\ ~ sessions[s].paid
    /\ sessions' = [sessions EXCEPT ![s].paid = TRUE]
    /\ captured' = [captured EXCEPT ![sessions[s].user] = @ + sessions[s].amount]
    /\ UNCHANGED <<walletVars, orders, rowVars, req, shared, boundVars>>

-----------------------------------------------------------------------------
\* Commits.

AutoCommit(w, op) ==
    /\ At(w, op, "commit")
    /\ autoRenew' = IF op = "auto_on" THEN autoRenew \cup {req[w].user}
                                      ELSE autoRenew \ {req[w].user}
    /\ Reply(w)
    /\ UNCHANGED <<wallets, balance, orders, sessions, rowVars, captured, shared, boundVars>>

\* Every other commit moves money: balance_cents and one Transaction row.
Move(w, delta) ==
    /\ req[w].pc = "commit"
    /\ SetBalance(req[w].user, req[w].seen, delta)
    /\ Record(req[w].user, delta)
    /\ Reply(w)
    /\ UNCHANGED <<wallets, autoRenew, captured, shared, boundVars>>

PayCommit(w) ==
    /\ req[w].op = "pay"
    /\ Move(w, - req[w].amount)
    /\ orders' = [orders EXCEPT ![req[w].ref].status = "paid"]
    /\ payments' = [payments EXCEPT ![req[w].ref] = @ + 1]
    /\ UNCHANGED <<sessions, credited, usages, credits>>

RechargeCommit(w) ==
    /\ req[w].op = "recharge"
    /\ Move(w, req[w].amount)
    /\ credited' = [credited EXCEPT ![req[w].user] = @ + req[w].amount]
    /\ UNCHANGED <<orders, sessions, payments, usages, credits>>

WebhookCommit(w) ==
    /\ req[w].op = "webhook"
    /\ Move(w, req[w].amount)
    /\ credited' = [credited EXCEPT ![req[w].user] = @ + req[w].amount]
    /\ credits' = [credits EXCEPT ![req[w].ref] = @ + 1]
    /\ sessions' = [sessions EXCEPT ![req[w].ref].status = "completed"]
    /\ UNCHANGED <<orders, payments, usages>>

\* _debit, called by meter_consumption and by charge_for_renewal.
MeterCommit(w) ==
    /\ req[w].op = "meter"
    /\ Move(w, - req[w].amount)
    /\ usages' = [usages EXCEPT ![req[w].ref] = @ + 1]
    /\ UNCHANGED <<orders, sessions, credited, payments, credits>>

RenewCommit(w) ==
    /\ req[w].op = "renew"
    /\ Move(w, - req[w].amount)
    /\ UNCHANGED <<orders, sessions, credited, payments, usages, credits>>

-----------------------------------------------------------------------------
\* Faults.

\* The tables survive, the requests of the dropped workers do not.
Faulted(dropped) ==
    /\ faults < MaxFaults
    /\ faults' = faults + 1
    /\ req' = [w \in Workers |-> IF w \in dropped THEN Idle ELSE req[w]]
    /\ UNCHANGED <<walletVars, orders, sessions, rowVars, captured, shared, issued>>

\* The server process dies and restarts.
Crash == Faulted(Workers)

\* A statement of w raises, a commit included: the database stays locked, the
\* pool is exhausted.  The transaction is rolled back, the handler answers 500.
\* An idle worker stands for a statement outside billing (see Instances).
StatementFails(w) == req[w].pc # "await" /\ Faulted({w})

-----------------------------------------------------------------------------

Init ==
    /\ wallets = {}
    /\ balance = [u \in Users |-> 0]
    /\ autoRenew = {}
    /\ orders = [o \in Orders |-> NoOrder]
    /\ sessions = [s \in Sessions |-> NoSession]
    /\ ledger = [u \in Users |-> 0]
    /\ credited = [u \in Users |-> 0]
    /\ payments = [o \in Orders |-> 0]
    /\ usages = [o \in Orders |-> 0]
    /\ credits = [s \in Sessions |-> 0]
    /\ req = [w \in Workers |-> Idle]
    /\ captured = [u \in Users |-> 0]
    /\ shared = {}
    /\ issued = 0
    /\ faults = 0

\* A renter's request arrives at w.
RenterRequest(w) ==
    \/ \E u \in Users : GetWallet(w, u)
    \/ \E u \in Users, op \in {"auto_on", "auto_off"} : SetAutoRenew(w, u, op)
    \/ \E u \in Users, amount \in Amounts : Recharge(w, u, amount)
    \/ \E u \in Users, amount \in Amounts : RechargeCheckout(w, u, amount)
    \/ \E o \in Orders : PayOrder(w, o)

\* A request arrives at w, or the instances module needs billing.
Arrive(w) ==
    \/ RenterRequest(w)
    \/ \E o \in Orders : MeterConsumption(w, o)
    \/ \E o \in Orders : HandleExpiry(w, o)

\* The request w runs gets on.
Advance(w) ==
    \/ WalletMissing(w)
    \/ InsertWallet(w)
    \/ InsertConflict(w)
    \/ GetLoaded(w)
    \/ \E op \in {"auto_on", "auto_off"} : AutoLoaded(w, op)
    \/ PayLoaded(w)
    \/ RechargeCharged(w)
    \/ RechargeRefused(w)
    \/ WebhookLoaded(w)
    \/ MeterLoaded(w)
    \/ RenewLoaded(w)
    \/ ProviderFails(w)
    \/ \E s \in Sessions : CheckoutCreated(w, s)
    \/ \E op \in {"auto_on", "auto_off"} : AutoCommit(w, op)
    \/ PayCommit(w)
    \/ RechargeCommit(w)
    \/ WebhookCommit(w)
    \/ MeterCommit(w)
    \/ RenewCommit(w)

Next ==
    \/ \E w \in Workers : Arrive(w) \/ Advance(w)
    \/ \E w \in Workers, s \in Sessions : StripeWebhook(w, s)
    \/ \E u \in Users, o \in Orders, t \in Templates, q \in Quantities : CreateOrder(u, o, t, q)
    \/ \E s \in Sessions : RenterPays(s)
    \/ Crash
    \/ \E w \in Workers : StatementFails(w)

Spec == Init /\ [][Next]_vars

\* The thread pool runs what it was given, the event loop's ready queue is
\* first in first out, provider calls end (their HTTP client times out), and
\* Stripe repeats a delivery until it is acknowledged.
Fairness ==
    /\ \A w \in Threads : WF_vars(Advance(w))
    /\ \A w \in Workers \ Threads : SF_vars(Advance(w))
    /\ \A s \in Sessions : SF_vars(\E w \in Tasks : StripeWebhook(w, s))

FairSpec == Spec /\ Fairness

-----------------------------------------------------------------------------
\* Properties.

Requests == [op : {"none", "get", "auto_on", "auto_off", "pay", "recharge", "checkout",
                   "webhook", "meter", "renew"},
             pc : {"idle", "select", "insert", "await", "commit"},
             user : Users \cup {None},
             ref : Orders \cup Sessions \cup {None},
             amount : Int,
             seen : Int]

OrderRecords == [status : {"none", "pending", "paid"}, user : Users \cup {None},
                 template : Templates \cup {None}, quantity : Nat, amount : Int]

SessionRecords == [status : {"none", "pending", "completed"}, user : Users \cup {None},
                   amount : Nat, paid : BOOLEAN]

\* The type invariant.
TypeOK ==
    /\ wallets \subseteq Users
    /\ balance \in [Users -> Int]
    /\ autoRenew \subseteq Users
    /\ orders \in [Orders -> OrderRecords]
    /\ sessions \in [Sessions -> SessionRecords]
    /\ ledger \in [Users -> Int]
    /\ credited \in [Users -> Nat]
    /\ payments \in [Orders -> Nat]
    /\ usages \in [Orders -> Nat]
    /\ credits \in [Sessions -> Nat]
    /\ req \in [Workers -> Requests]
    /\ captured \in [Users -> Nat]
    /\ shared \subseteq Users
    /\ issued \in 0 .. MaxRequests
    /\ faults \in 0 .. MaxFaults

\* ARCHITECTURE.md, append-only ledger: the balance is the sum of the wallet's
\* transactions.  Requests of one user that overlap lose updates.
LedgerExact == \A u \in Users : balance[u] = ledger[u]

\* What does hold: as long as no two wallet requests of a user were ever in
\* flight at once, whatever other users, restarts and failures do, that user's
\* balance is the sum of the ledger.
SoleWriterExact == \A u \in Users \ shared : balance[u] = ledger[u]

\* charge_for_renewal: a renewal "should never be allowed to go negative", and
\* pay_order answers 402 instead.  Even with lost updates, only metered usage
\* takes a balance below zero.
NegativeOnlyByMetering ==
    \A u \in Users : balance[u] < 0 => \E o \in Orders : orders[o].user = u /\ usages[o] > 0

\* complete_pending_recharge: however often the provider delivers the event and
\* wherever it fails, a session is credited once if COMPLETED, else never.
CreditedOnce ==
    \A s \in Sessions : credits[s] = IF sessions[s].status = "completed" THEN 1 ELSE 0

\* pay_order: an order is paid exactly if the ledger holds a payment for it, and
\* holds exactly one unless its renter had overlapping requests.
PaidOrderHasPayment ==
    \A o \in Orders :
        /\ orders[o].status = "paid" <=> payments[o] > 0
        /\ payments[o] > 1 => orders[o].user \in shared

\* Nothing of u is under way: no request, no paid session waiting to be credited.
Settled(u) ==
    /\ \A w \in Workers : req[w].user # u
    /\ \A s \in Sessions : sessions[s].user = u /\ sessions[s].paid => sessions[s].status = "completed"

\* The wallet is never credited with money the provider did not take, and once
\* nothing is under way all money taken is credited, unless the server died or a
\* statement raised between the charge and the commit.
CapturedIsCredited ==
    \A u \in Users :
        /\ credited[u] <= captured[u]
        /\ Settled(u) /\ (faults = 0 \/ Provider = "stripe") => credited[u] = captured[u]

\* A session the renter paid is eventually credited: deliveries are repeated,
\* whatever fails in between, as long as it does not fail for ever.
PaidEventuallyCredited ==
    \A s \in Sessions : sessions[s].paid ~> sessions[s].status = "completed"

\* No request waits for ever, on the event loop or on the database.
EveryRequestEnds == \A w \in Workers : req[w] # Idle ~> req[w] = Idle

\* Billing keeps the promise of Accounts: every step is one of its steps or
\* changes nothing it speaks of.
Promise == INSTANCE Accounts WITH
    bill      <- [o \in Orders |-> [user |-> orders[o].user, template |-> orders[o].template,
                                    quantity |-> orders[o].quantity]],
    paid      <- {o \in Orders : orders[o].status = "paid"},
    settled   <- {s \in Sessions : sessions[s].status = "completed"},
    metered   <- {u \in Users : \E o \in Orders : orders[o].user = u /\ usages[o] > 0},
    contested <- shared,
    Direct    <- Provider # "stripe"

KeepsPromise == Promise!Spec

-----------------------------------------------------------------------------
\* The inductive invariant behind the safety properties (BillingProofs).

\* A request of a user carries what it read when it began.  A pay or renew
\* request commits only what it has seen covered; a webhook's session waits for
\* its credit.
RequestInv ==
    \A w \in Workers :
        LET r == req[w] IN
        /\ r.op = "none" => r = Idle
        /\ r.op # "none" => r.user \in Users
        /\ r.op \in {"pay", "meter", "renew"} =>
              r.ref \in Orders /\ orders[r.ref].user = r.user
        /\ r.op \in {"pay", "renew"} /\ r.pc = "commit" => r.seen >= r.amount
        /\ r.op = "recharge" /\ r.pc = "commit" => Provider # "stripe"
        /\ r.op \in {"recharge", "webhook", "checkout"} => r.amount >= 0
        /\ r.op = "webhook" =>
              /\ w \notin Threads
              /\ r.pc \in {"select", "insert", "commit"}
              /\ r.ref \in Sessions
              /\ sessions[r.ref].status = "pending"
              /\ sessions[r.ref].paid
              /\ sessions[r.ref].user = r.user /\ sessions[r.ref].amount = r.amount

\* An Order or PendingRecharge row belongs to a user.
RowInv ==
    /\ \A o \in Orders : orders[o].status # "none" => orders[o].user \in Users
    /\ \A s \in Sessions : sessions[s].status # "none" => sessions[s].user \in Users

\* Between two awaits the event loop runs one coroutine.
LoopInv == \A v, w \in Workers : HoldsLoop(v) /\ HoldsLoop(w) => v = w

\* Without metered usage neither the balance nor what a request has seen of it
\* is negative.
NonNegativeInv ==
    \A u \in Users :
        \/ \E o \in Orders : orders[o].user = u /\ usages[o] > 0
        \/ balance[u] >= 0 /\ \A w \in Workers : req[w].user = u => req[w].seen >= 0

\* A user whose requests never overlapped has at most one, and it has seen the
\* balance as it still is.
SoleWriterInv ==
    \A u \in Users \ shared :
        /\ balance[u] = ledger[u]
        /\ \A v, w \in Workers :
              req[v].user = u /\ req[v].op # "checkout" /\ req[w].user = u /\ req[w].op # "checkout"
                 => v = w
        /\ \A w \in Workers :
              /\ req[w].user = u /\ req[w].op # "checkout" /\ req[w].pc = "commit"
                    => req[w].seen = balance[u]
              /\ req[w].user = u /\ req[w].op = "pay" => orders[req[w].ref].status = "pending"

\* An order that does not exist has no usage, and a payment request's order exists.
PaymentInv ==
    /\ \A o \in Orders : orders[o].status = "none" => orders[o] = NoOrder /\ usages[o] = 0
    /\ \A w \in Workers : req[w].op = "pay" => orders[req[w].ref].status \in {"pending", "paid"}

\* An order's amount is its price, a request charges what its order costs, and what
\* a request has checked of its order stays true.
PriceInv ==
    /\ \A o \in Orders : orders[o].status # "none" =>
          /\ orders[o].template \in Templates
          /\ orders[o].amount = Price[orders[o].template] * orders[o].quantity
    /\ \A w \in Workers :
          LET o == req[w].ref IN
          /\ req[w].op \in {"pay", "renew"} => req[w].amount = orders[o].amount
          /\ req[w].op = "meter" => req[w].amount = Price[orders[o].template]
          /\ req[w].op \in {"meter", "renew"} =>
                /\ orders[o].status = "paid"
                /\ orders[o].template \in Metered <=> req[w].op = "meter"

\* What the provider has taken from u and billing still has to credit: a paid
\* session that waits for its webhook, a charge that is about to be committed.
Claims(u) ==
    {<<"session", s, sessions[s].amount>> :
        s \in {x \in Sessions : sessions[x].user = u /\ sessions[x].paid /\ sessions[x].status = "pending"}}
    \cup
    {<<"charge", w, req[w].amount>> :
        w \in {x \in Workers : At(x, "recharge", "commit") /\ req[x].user = u}}

\* The claims, cent by cent: their sum is the number of cents.
Cents(claims) == UNION {{c} \X (1 .. c[3]) : c \in claims}

\* What was taken is credited or claimed, unless a fault made billing forget a
\* claim.  No fault forgets a session.
CreditInv ==
    \A u \in Users :
        /\ IsFiniteSet(Cents(Claims(u)))
        /\ credited[u] + Cardinality(Cents(Claims(u))) <= captured[u]
        /\ faults = 0 \/ Provider = "stripe" =>
              credited[u] + Cardinality(Cents(Claims(u))) = captured[u]

IInv ==
    /\ TypeOK
    /\ RequestInv
    /\ RowInv
    /\ LoopInv
    /\ NonNegativeInv
    /\ SoleWriterInv
    /\ CreditedOnce
    /\ PaymentInv
    /\ PaidOrderHasPayment
    /\ PriceInv
    /\ CreditInv

=============================================================================
