----------------------------- MODULE Instances -----------------------------
(***************************************************************************)
(* app/instances on top of app/billing: a paid order becomes an instance,  *)
(* the renter starts, pauses, stops, releases and executes it, and the     *)
(* scheduler renews or expires it.                                         *)
(*                                                                         *)
(* start, pause, stop and release read the row, check the transition and   *)
(* commit on a thread.  execute is a coroutine: it reads the row, awaits   *)
(* the connector and then writes what follows from the row it has read,    *)
(* metered usage in the same transaction as the debit.  A scheduler tick   *)
(* runs on the event loop without an await: coroutines wait for its end,   *)
(* threads commit between its steps.                                       *)
(*                                                                         *)
(* Every step that concerns a wallet is a step of Billing.                 *)
(***************************************************************************)
EXTENDS Billing

CONSTANTS
    Duration,       \* TIME_BASED_DURATIONS, in clock units, of a template that is not metered
    MaxOps,         \* bound: transitions and executions the renters ask for
    MaxTime         \* bound: the clock

MaxFailStreak == 3

ASSUME InstancesAssumption ==
    /\ Duration \in [Templates \ Metered -> Nat \ {0}]
    /\ MaxOps \in Nat /\ MaxOps <= MaxRequests
    /\ MaxTime \in Nat

VARIABLES
    inst,           \* AgentInstance row of the order
    job,            \* the instance request each worker runs
    tick,           \* tick_once of the scheduler
    now,            \* the clock
    \* history
    mixed,          \* instances that have had two operations in flight at once
    fails,          \* failed executions since the last successful one
    runs,           \* successful executions
    renewals,       \* renewals charged
    extended,       \* renewals that moved expires_at
    asked           \* operations asked for so far, see MaxOps

historyVars == <<fails, runs, renewals, extended>>
rentalVars  == <<inst, job, tick, now, mixed, historyVars, asked>>
allVars     == <<vars, rentalVars>>

-----------------------------------------------------------------------------

\* _ALLOWED_TRANSITIONS; "none" stands for the row that is not there yet.
Allowed ==
    [none     |-> {"created"},
     created  |-> {"running", "released"},
     running  |-> {"paused", "stopped", "expired"},
     paused   |-> {"running", "stopped", "expired"},
     stopped  |-> {"released"},
     expired  |-> {"released"},
     released |-> {}]

\* What the endpoints start, pause, stop and release aim at.
Targets == {"running", "paused", "stopped", "released"}

NoInstance == [status |-> "none", expires |-> 0, streak |-> 0]
NoJob      == [op |-> "none", order |-> None, target |-> "none", streak |-> 0]
NoTick     == [pc |-> "idle", due |-> {}, cur |-> None, at |-> 0]

IsMetered(o) == orders[o].template \in Metered

\* now + unit_duration * quantity.
Expiry(o, t) == t + Duration[orders[o].template] * orders[o].quantity

Due(o) == ~ IsMetered(o) /\ inst[o].expires <= now

HasJob(o) == \E w \in Workers : job[w].order = o

Busy(o) == HasJob(o) \/ o \in tick.due \/ tick.cur = o

\* A coroutine gets the event loop.
MyTurn == tick.pc = "idle" /\ LoopFree

-----------------------------------------------------------------------------
\* Requests of the renter.

\* Mutant: the order need not be paid.
CreateUnpaid(o) ==
    /\ orders[o] # NoOrder
    /\ inst[o] = NoInstance
    /\ inst' = [inst EXCEPT ![o].status = "created"]
    /\ UNCHANGED <<vars, job, tick, now, mixed, historyVars, asked>>

\* POST /instances.  The order_id is UNIQUE: of two that race one inserts, the
\* other answers 409 or 500.
CreateInstance(o) ==
    /\ orders[o].status = "paid"
    /\ inst[o] = NoInstance
    /\ inst' = [inst EXCEPT ![o] = [status |-> "created", streak |-> 0,
                                    expires |-> IF IsMetered(o) THEN 0 ELSE Expiry(o, now)]]
    /\ UNCHANGED <<vars, job, tick, now, mixed, historyVars, asked>>

\* A worker takes an operation on the instance of o.
Take(w, o, op, target) ==
    /\ req[w] = Idle
    /\ job[w] = NoJob
    /\ asked < MaxOps
    /\ asked' = asked + 1
    /\ job' = [job EXCEPT ![w] = [op |-> op, order |-> o, target |-> target,
                                  streak |-> inst[o].streak]]
    /\ mixed' = IF Busy(o) THEN mixed \cup {o} ELSE mixed
    /\ UNCHANGED <<vars, inst, tick, now, historyVars>>

\* Mutant: the transition is not asserted.
TransitionUnchecked(w, o, target) ==
    /\ w \in Threads
    /\ inst[o].status # "none"
    /\ Take(w, o, "move", target)

\* start, pause, stop, release: the row is read, the transition is legal.
Transition(w, o, target) ==
    /\ w \in Threads
    /\ target \in Targets \cap Allowed[inst[o].status]
    /\ Take(w, o, "move", target)

Finish(w) == job' = [job EXCEPT ![w] = NoJob]

TransitionCommit(w) ==
    /\ job[w].op = "move"
    /\ inst' = [inst EXCEPT ![job[w].order].status = job[w].target]
    /\ Finish(w)
    /\ UNCHANGED <<vars, tick, now, mixed, historyVars, asked>>

\* execute_instance_task up to the await.
Execute(w, o) ==
    /\ w \in Tasks
    /\ MyTurn
    /\ inst[o].status = "running"
    /\ Take(w, o, "run", "none")

Ran(w, op) == job[w].op = op /\ tick.pc = "idle"

\* The connector raises, or a statement of the operation does: 500, nothing is
\* written, and fails and runs do not count it.  The statements that follow a
\* successful metered run raise in BillingFails.
JobRaises(w) ==
    /\ job[w].op = "move" \/ (Ran(w, "run") /\ LoopFree)
    /\ Finish(w)
    /\ UNCHANGED <<vars, inst, tick, now, mixed, historyVars, asked>>

\* The streak grows from what was read before the await; the third failure
\* pauses, whatever the status has become.
RunFails(w) ==
    /\ Ran(w, "run")
    /\ LoopFree
    /\ LET o == job[w].order
           streak == job[w].streak + 1
       IN
       /\ inst' = [inst EXCEPT ![o].streak = streak,
                               ![o].status = IF streak >= MaxFailStreak THEN "paused" ELSE @]
       /\ fails' = [fails EXCEPT ![o] = @ + 1]
    /\ Finish(w)
    /\ UNCHANGED <<vars, tick, now, mixed, runs, renewals, extended, asked>>

\* Mutant: a success takes one failure off the streak.
ClearDown(w) ==
    LET o == job[w].order IN
    /\ inst' = [inst EXCEPT ![o].streak = job[w].streak - 1]
    /\ fails' = [fails EXCEPT ![o] = 0]

\* fail_streak = 0, which the ORM writes unless it was 0 when read.
ClearStreak(w) ==
    LET o == job[w].order IN
    /\ inst' = [inst EXCEPT ![o].streak = IF job[w].streak = 0 THEN @ ELSE 0]
    /\ fails' = [fails EXCEPT ![o] = 0]

CountRun(w) == runs' = [runs EXCEPT ![job[w].order] = @ + 1]

\* Mutant: TOKEN or PACKAGE is missing from the units that are metered.
RunUnmetered(w) ==
    /\ Ran(w, "run")
    /\ LoopFree
    /\ ClearStreak(w)
    /\ CountRun(w)
    /\ Finish(w)
    /\ UNCHANGED <<vars, tick, now, mixed, renewals, extended, asked>>

RunSucceeds(w) ==
    /\ Ran(w, "run")
    /\ ~ IsMetered(job[w].order)
    /\ LoopFree
    /\ ClearStreak(w)
    /\ CountRun(w)
    /\ Finish(w)
    /\ UNCHANGED <<vars, tick, now, mixed, renewals, extended, asked>>

\* meter_consumption begins; its commit writes the instance as well.
RunMetered(w) ==
    /\ Ran(w, "run")
    /\ MeterConsumption(w, job[w].order)
    /\ CountRun(w)
    /\ job' = [job EXCEPT ![w].op = "meter"]
    /\ UNCHANGED <<inst, tick, now, mixed, fails, renewals, extended, asked>>

\* Who has paid an order has a wallet: get_or_create_wallet finds it.
RunWallet(w) ==
    /\ Ran(w, "meter")
    /\ MeterLoaded(w)
    /\ UNCHANGED rentalVars

RunDebited(w) ==
    /\ Ran(w, "meter")
    /\ MeterCommit(w)
    /\ ClearStreak(w)
    /\ Finish(w)
    /\ UNCHANGED <<tick, now, mixed, runs, renewals, extended, asked>>

-----------------------------------------------------------------------------
\* tick_once.

\* Mutant: the status is missing from the SELECT.
TickBeginAny ==
    LET due == {o \in Orders : inst[o].status # "none" /\ Due(o)} IN
    /\ MyTurn
    /\ due # {}
    /\ tick' = [pc |-> "next", due |-> due, cur |-> None, at |-> now]
    /\ mixed' = mixed \cup {o \in due : HasJob(o)}
    /\ UNCHANGED <<vars, inst, job, now, historyVars, asked>>

\* The expired RUNNING instances are selected once, at the beginning.
TickBegin ==
    LET due == {o \in Orders : inst[o].status = "running" /\ Due(o)} IN
    /\ MyTurn
    /\ due # {}
    /\ tick' = [pc |-> "next", due |-> due, cur |-> None, at |-> now]
    /\ mixed' = mixed \cup {o \in due : HasJob(o)}
    /\ UNCHANGED <<vars, inst, job, now, historyVars, asked>>

\* _handle_expiry of the next instance: no second look at its status.
TickNext(o) ==
    /\ tick.pc = "next"
    /\ o \in tick.due
    /\ HandleExpiry(Scheduler, o)
    /\ tick' = [tick EXCEPT !.pc = "wallet", !.due = @ \ {o}, !.cur = o]
    /\ UNCHANGED <<inst, job, now, mixed, historyVars, asked>>

\* Mutant: the charge without the balance test.
TickWalletUncovered ==
    /\ tick.pc = "wallet"
    /\ Loaded(Scheduler, "renew")
    /\ Load(Scheduler, "commit")
    /\ tick' = [tick EXCEPT !.pc = "charge"]
    /\ UNCHANGED <<inst, job, now, mixed, historyVars, asked>>

TickWallet ==
    /\ tick.pc = "wallet"
    /\ RenewLoaded(Scheduler)
    /\ tick' = [tick EXCEPT !.pc = IF req'[Scheduler] = Idle THEN "expire" ELSE "charge"]
    /\ UNCHANGED <<inst, job, now, mixed, historyVars, asked>>

\* Mutant: the loop does not end.
IterateForever == tick' = [tick EXCEPT !.pc = "next", !.cur = None]

\* The next instance, or the end of the tick.
Iterate == tick' = IF tick.due = {} THEN NoTick ELSE [tick EXCEPT !.pc = "next", !.cur = None]

\* Mutant: the extension is forgotten.
TickChargeOnly ==
    /\ tick.pc = "charge"
    /\ RenewCommit(Scheduler)
    /\ renewals' = [renewals EXCEPT ![tick.cur] = @ + 1]
    /\ Iterate
    /\ UNCHANGED <<inst, job, now, mixed, fails, runs, extended, asked>>

TickCharge ==
    /\ tick.pc = "charge"
    /\ RenewCommit(Scheduler)
    /\ renewals' = [renewals EXCEPT ![tick.cur] = @ + 1]
    /\ tick' = [tick EXCEPT !.pc = "extend"]
    /\ UNCHANGED <<inst, job, now, mixed, fails, runs, extended, asked>>

\* The charge is committed by now; expires_at has a commit of its own.
TickExtend ==
    /\ tick.pc = "extend"
    /\ inst' = [inst EXCEPT ![tick.cur].expires = Expiry(tick.cur, tick.at)]
    /\ extended' = [extended EXCEPT ![tick.cur] = @ + 1]
    /\ Iterate
    /\ UNCHANGED <<vars, job, now, mixed, fails, runs, renewals, asked>>

\* Mutant: EXPIRED is not written.
TickExpireLost ==
    /\ tick.pc = "expire"
    /\ Iterate
    /\ UNCHANGED <<vars, inst, job, now, mixed, historyVars, asked>>

TickExpire ==
    /\ tick.pc = "expire"
    /\ inst' = [inst EXCEPT ![tick.cur].status = "expired"]
    /\ Iterate
    /\ UNCHANGED <<vars, job, now, mixed, historyVars, asked>>

\* Any statement of the tick raises, the ones between the two commits of a renewal
\* included.  run_scheduler_forever logs it; who is still due waits for the next
\* tick.
TickFails ==
    /\ tick.pc # "idle"
    /\ StatementFails(Scheduler)
    /\ tick' = NoTick
    /\ UNCHANGED <<inst, job, now, mixed, historyVars, asked>>

-----------------------------------------------------------------------------
\* Billing on its own, time and restarts.

\* Room is kept for the metering of the executions still to come.
BillingRequest(w) ==
    /\ job[w] = NoJob
    /\ w \in Threads \/ tick.pc = "idle"
    /\ \/ issued < MaxRequests - MaxOps /\ RenterRequest(w)
       \/ \E s \in Sessions : StripeWebhook(w, s)
    /\ UNCHANGED rentalVars

BillingAdvance(w) ==
    /\ job[w] = NoJob
    /\ w \in Threads \/ (w \in Tasks /\ tick.pc = "idle")
    /\ Advance(w)
    /\ UNCHANGED rentalVars

\* A billing statement raises, the debit of a metered run included: the run is
\* done, answered with 500 and never charged.
BillingFails(w) ==
    /\ req[w] # Idle
    /\ job[w].op \in {"none", "meter"}
    /\ w \in Threads \/ (w \in Tasks /\ tick.pc = "idle")
    /\ StatementFails(w)
    /\ Finish(w)
    /\ UNCHANGED <<inst, tick, now, mixed, historyVars, asked>>

PlaceOrder ==
    /\ \E u \in Users, o \in Orders, t \in Templates, q \in Quantities : CreateOrder(u, o, t, q)
    /\ UNCHANGED rentalVars

PayOnPage == (\E s \in Sessions : RenterPays(s)) /\ UNCHANGED rentalVars

ClockAdvances ==
    /\ now < MaxTime
    /\ now' = now + 1
    /\ UNCHANGED <<vars, inst, job, tick, mixed, historyVars, asked>>

\* A restart forgets requests and the tick under way.
Restart ==
    /\ Crash
    /\ job' = [w \in Workers |-> NoJob]
    /\ tick' = NoTick
    /\ UNCHANGED <<inst, now, mixed, historyVars, asked>>

-----------------------------------------------------------------------------

NothingUnderWay ==
    /\ job = [w \in Workers |-> NoJob]
    /\ tick = NoTick
    /\ now = 0
    /\ mixed = {}
    /\ fails = [o \in Orders |-> 0]
    /\ runs = [o \in Orders |-> 0]
    /\ renewals = [o \in Orders |-> 0]
    /\ extended = [o \in Orders |-> 0]
    /\ asked = 0

RentalInit ==
    /\ Init
    /\ inst = [o \in Orders |-> NoInstance]
    /\ NothingUnderWay

JobAdvance(w) ==
    \/ TransitionCommit(w)
    \/ JobRaises(w)
    \/ RunFails(w)
    \/ RunSucceeds(w)
    \/ RunMetered(w)
    \/ RunWallet(w)
    \/ RunDebited(w)

TickAdvance ==
    \/ \E o \in Orders : TickNext(o)
    \/ TickWallet
    \/ TickCharge
    \/ TickExtend
    \/ TickExpire

RentalNext ==
    \/ \E o \in Orders : CreateInstance(o)
    \/ \E w \in Workers, o \in Orders, target \in Targets : Transition(w, o, target)
    \/ \E w \in Workers, o \in Orders : Execute(w, o)
    \/ \E w \in Workers : JobAdvance(w) \/ BillingRequest(w) \/ BillingAdvance(w)
    \/ \E w \in Workers : BillingFails(w)
    \/ TickBegin
    \/ TickAdvance
    \/ TickFails
    \/ PlaceOrder
    \/ PayOnPage
    \/ ClockAdvances
    \/ Restart

RentalSpec == RentalInit /\ [][RentalNext]_allVars

\* As in Billing; a connector's HTTP client times out, and asyncio.sleep ends.
\* Nothing has to fail: BillingFails and TickFails are under no fairness.
RentalFairness ==
    /\ \A w \in Threads : WF_allVars(JobAdvance(w) \/ BillingAdvance(w))
    /\ \A w \in Tasks : SF_allVars(JobAdvance(w) \/ BillingAdvance(w))
    /\ SF_allVars(TickBegin)
    /\ WF_allVars(TickAdvance)

FairRentalSpec == RentalSpec /\ RentalFairness

-----------------------------------------------------------------------------
\* Properties.

InstanceRecords == [status : DOMAIN Allowed, expires : Nat, streak : Nat]

JobRecords == [op : {"none", "move", "run", "meter"}, order : Orders \cup {None},
               target : Targets \cup {"none"}, streak : Nat]

TickRecords == [pc : {"idle", "next", "wallet", "charge", "extend", "expire"},
                due : SUBSET Orders, cur : Orders \cup {None}, at : Nat]

\* The type invariant.
RentalTypeOK ==
    /\ inst \in [Orders -> InstanceRecords]
    /\ job \in [Workers -> JobRecords]
    /\ tick \in TickRecords
    /\ now \in 0 .. MaxTime
    /\ mixed \subseteq Orders
    /\ fails \in [Orders -> Nat]
    /\ runs \in [Orders -> Nat]
    /\ renewals \in [Orders -> Nat]
    /\ extended \in [Orders -> Nat]
    /\ asked \in 0 .. MaxOps

Follows(o) == inst'[o].status # inst[o].status => inst'[o].status \in Allowed[inst[o].status]

\* REQUIREMENTS.md, the lifecycle: no instance ever leaves the table of allowed
\* transitions.  The scheduler and the auto-pause write a status unasserted.
LifecycleLegal == [][\A o \in Orders : Follows(o)]_allVars

\* What does hold, the scheduler's expiry and the auto-pause included: an
\* instance whose operations never overlapped follows the table.
SoleOperatorLegal == [][\A o \in Orders \ mixed' : Follows(o)]_allVars

\* What does hold: without overlap the streak is the number of failures in a
\* row, across pauses and restarts of the server.
StreakCounts == \A o \in Orders \ mixed : inst[o].streak = fails[o]

\* What does hold: without overlap a renewal is charged, and a task done, only
\* while the instance is RUNNING.
SoleOperatorServed ==
    [][\A o \in Orders \ mixed' :
          renewals'[o] > renewals[o] \/ runs'[o] > runs[o] => inst[o].status = "running"]_allVars

\* 1 if the renewal of o has been charged and its extension is under way.
Extending(o) == IF tick.pc = "extend" /\ tick.cur = o THEN 1 ELSE 0

\* _handle_expiry: no expires_at moves without a charge of its own, and every
\* charge without its extension is the one under way or takes a fault of its own:
\* a restart, or a statement of the tick that raises between the two commits.
RenewalExtends ==
    \A o \in Orders :
        /\ extended[o] + Extending(o) <= renewals[o]
        /\ renewals[o] <= extended[o] + Extending(o) + faults

\* REQUIREMENTS.md, auto-renewal: the scheduler charges and extends expires_at.
ChargedIsExtended == tick.pc = "idle" => renewals = extended

\* The executions of o that succeeded and await their debit.
Metering(o) == {w \in Tasks : job[w].op = "meter" /\ job[w].order = o}

\* execute_instance_task: each successful run of a metered instance is charged
\* once, unless a restart or a raising statement comes in between; no usage is
\* charged without a run.
RunsBilled ==
    \A o \in Orders : IsMetered(o) =>
        /\ usages[o] <= runs[o]
        /\ faults = 0 => runs[o] = usages[o] + Cardinality(Metering(o))

\* An instance belongs to a paid order, and its renter has a wallet: metering
\* and renewal never have to insert one, so a debit and the instance's own
\* update stay one transaction.
OwnerHasWallet ==
    \A o \in Orders :
        /\ inst[o].status # "none" => orders[o].status = "paid"
        /\ orders[o].status = "paid" => orders[o].user \in wallets

\* Every operation on an instance ends, and so does every tick.
JobsEnd ==
    /\ \A w \in Workers : job[w] # NoJob ~> job[w] = NoJob
    /\ tick.pc # "idle" ~> tick.pc = "idle"

\* A RUNNING rental whose time is over is eventually expired, extended, or no
\* longer RUNNING for another reason.
DueIsHandled ==
    \A o \in Orders : inst[o].status = "running" /\ Due(o) ~> ~ (inst[o].status = "running" /\ Due(o))

\* app/billing is run as Billing describes: whatever holds there holds here.
RunsBilling == Spec

-----------------------------------------------------------------------------
\* The inductive invariant behind the safety properties (InstancesProofs).

\* An order is paid from a wallet, which stays.
PayerInv ==
    /\ \A w \in Workers : At(w, "pay", "commit") => req[w].user \in wallets
    /\ \A o \in Orders : orders[o].status = "paid" => orders[o].user \in wallets

\* An instance belongs to a paid order.
OrderInv == \A o \in Orders : inst[o].status # "none" => orders[o].status = "paid"

\* A job works on an instance.
JobInv ==
    \A w \in Workers :
        /\ job[w].op = "none" => job[w] = NoJob
        /\ job[w].op # "none" =>
              /\ job[w].order \in Orders
              /\ inst[job[w].order].status # "none"
        /\ job[w].op = "move" => job[w].target \in Targets

\* A tick works on instances of time-based orders, one after the other.
TickInv ==
    /\ tick.pc = "idle" => tick = NoTick
    /\ tick.pc \in {"wallet", "charge", "extend", "expire"} => tick.cur \in Orders
    /\ tick.cur \notin tick.due
    /\ \A o \in Orders :
          o \in tick.due \/ tick.cur = o => inst[o].status # "none" /\ ~ IsMetered(o)

\* The instance of o has at most one operator, which has read it as it still is,
\* and its streak counts its failures in a row.
Sole(o) ==
    /\ inst[o].streak = fails[o]
    /\ \A v, w \in Workers : job[v].order = o /\ job[w].order = o => v = w
    /\ o \in tick.due \/ tick.cur = o => inst[o].status = "running" /\ ~ HasJob(o)
    /\ \A w \in Workers : job[w].order = o =>
          /\ job[w].op = "move" => job[w].target \in Allowed[inst[o].status]
          /\ job[w].op \in {"run", "meter"} =>
                inst[o].status = "running" /\ job[w].streak = inst[o].streak

SoleOperatorInv == \A o \in Orders \ mixed : Sole(o)

\* Metering runs as a billing request of the execution's own, and nowhere else; a
\* run is charged, about to be, or forgotten by a fault.
MeterInv ==
    /\ \A w \in Workers :
          /\ job[w].op \in {"run", "meter"} => w \in Tasks
          /\ job[w].op = "meter" <=> req[w].op = "meter"
          /\ job[w].op = "meter" => req[w].ref = job[w].order
    /\ \A o \in Orders :
          /\ inst[o].status = "none" => runs[o] = 0
          /\ IsFiniteSet(Metering(o))
          /\ usages[o] + Cardinality(Metering(o)) <= runs[o]
          /\ IsMetered(o) /\ faults = 0 => usages[o] + Cardinality(Metering(o)) = runs[o]

\* Whoever is at work can go on: a job has no other request to wait for, metering
\* finds its wallet, and the scheduler runs the renewal its tick is at and no other;
\* a tick never begins in the middle of a coroutine's stretch.
TurnInv ==
    /\ \A w \in Workers :
          /\ job[w].op \in {"move", "run"} => req[w] = Idle
          /\ job[w].op = "meter" => req[w].pc \in {"select", "commit"}
    /\ job[Scheduler] = NoJob
    /\ tick.pc = "wallet" => At(Scheduler, "renew", "select") /\ req[Scheduler].ref = tick.cur
    /\ tick.pc = "charge" => At(Scheduler, "renew", "commit") /\ req[Scheduler].ref = tick.cur
    /\ tick.pc \notin {"wallet", "charge"} => req[Scheduler] = Idle
    /\ tick.pc = "next" => tick.due # {}
    /\ tick.pc # "idle" => \A w \in Tasks : ~ HoldsLoop(w)

RentalInv ==
    /\ RentalTypeOK
    /\ PayerInv
    /\ OrderInv
    /\ JobInv
    /\ TickInv
    /\ SoleOperatorInv
    /\ RenewalExtends
    /\ MeterInv
    /\ TurnInv

=============================================================================
