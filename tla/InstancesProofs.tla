-------------------------- MODULE InstancesProofs --------------------------
(***************************************************************************)
(* Proofs about Instances, for every number of renters, orders, workers,   *)
(* any prices, durations and bounds.                                       *)
(*                                                                         *)
(* First every step is shown to be a step of Billing or none, so that      *)
(* whatever BillingProofs shows holds of the rental system.  RentalInv,    *)
(* defined at the end of Instances, is then shown inductive: RentalCases   *)
(* sorts the steps, each conjunct has a lemma with one step per kind.      *)
(***************************************************************************)
EXTENDS Instances, BillingProofs

\* What an operation on an instance, a tick or the renter's own requests do to
\* wallets, orders and the ledger, Billing describes.
LEMMA RentalBillingStep ==
  ASSUME JobInv, [RentalNext]_allVars
  PROVE  [Next]_vars
<1> USE DEF Workers
<1>1. ASSUME NEW o \in Orders, CreateInstance(o) PROVE UNCHANGED vars
  BY <1>1 DEF CreateInstance
<1>2. ASSUME NEW w \in Workers, NEW o \in Orders, NEW target \in Targets, Transition(w, o, target)
      PROVE UNCHANGED vars
  BY <1>2 DEF Transition, Take
<1>3. ASSUME NEW w \in Workers, NEW o \in Orders, Execute(w, o) PROVE UNCHANGED vars
  BY <1>3 DEF Execute, Take
<1>4. ASSUME NEW w \in Workers, JobAdvance(w) PROVE [Next]_vars
  <2>1. CASE TransitionCommit(w) BY <2>1 DEF TransitionCommit
  <2>2. CASE JobRaises(w) BY <2>2 DEF JobRaises
  <2>3. CASE RunFails(w) BY <2>3 DEF RunFails
  <2>4. CASE RunSucceeds(w) BY <2>4 DEF RunSucceeds
  <2>5. CASE RunMetered(w)
    <3>1. job[w].order \in Orders BY <2>5 DEF RunMetered, Ran, JobInv
    <3> QED BY <2>5, <3>1 DEF RunMetered, Next, Arrive
  <2>6. CASE RunWallet(w) BY <2>6 DEF RunWallet, Next, Advance
  <2>7. CASE RunDebited(w) BY <2>7 DEF RunDebited, Next, Advance
  <2> QED BY <1>4, <2>1, <2>2, <2>3, <2>4, <2>5, <2>6, <2>7 DEF JobAdvance
<1>5. ASSUME TickAdvance PROVE [Next]_vars
  <2>1. ASSUME NEW o \in Orders, TickNext(o) PROVE Next
    BY <2>1 DEF TickNext, Next, Arrive
  <2>2. CASE TickWallet BY <2>2 DEF TickWallet, Next, Advance
  <2>3. CASE TickCharge BY <2>3 DEF TickCharge, Next, Advance
  <2>4. CASE TickExtend BY <2>4 DEF TickExtend
  <2>5. CASE TickExpire BY <2>5 DEF TickExpire
  <2> QED BY <1>5, <2>1, <2>2, <2>3, <2>4, <2>5 DEF TickAdvance
<1>6. ASSUME NEW w \in Workers, BillingRequest(w) PROVE Next
  BY <1>6 DEF BillingRequest, Next, Arrive
<1>7. ASSUME NEW w \in Workers, BillingAdvance(w) PROVE Next
  BY <1>7 DEF BillingAdvance, Next
<1>8. CASE TickBegin BY <1>8 DEF TickBegin
<1>9. CASE PlaceOrder BY <1>9 DEF PlaceOrder, Next
<1>10. CASE PayOnPage BY <1>10 DEF PayOnPage, Next
<1>11. CASE ClockAdvances BY <1>11 DEF ClockAdvances
<1>12. CASE Restart BY <1>12 DEF Restart, Next
<1>13. ASSUME NEW w \in Workers, BillingFails(w) PROVE Next BY <1>13 DEF BillingFails, Next
<1>14. CASE TickFails BY <1>14 DEF TickFails, Next
<1>15. CASE UNCHANGED allVars BY <1>15 DEF allVars
<1> QED
  BY <1>1, <1>2, <1>3, <1>4, <1>5, <1>6, <1>7, <1>8, <1>9, <1>10, <1>11, <1>12, <1>13, <1>14, <1>15
  DEF RentalNext

-----------------------------------------------------------------------------
\* An order once made keeps its renter, template and quantity, a paid one stays
\* paid.
LEMMA OrdersStep ==
  ASSUME IInv, [Next]_vars, NEW o \in Orders, orders[o].status # "none"
  PROVE  /\ orders'[o].user = orders[o].user
         /\ orders'[o].template = orders[o].template
         /\ orders'[o].quantity = orders[o].quantity
         /\ orders'[o].status # "none"
         /\ orders[o].status = "paid" => orders'[o].status = "paid"
<1>1. ASSUME NEW u \in Users, NEW t \in Templates, NEW q \in Quantities PROVE ~ CreateOrder(u, o, t, q)
  BY DEF CreateOrder, NoOrder
<1>2. /\ orders'[o].user = orders[o].user
      /\ orders'[o].template = orders[o].template
      /\ orders'[o].quantity = orders[o].quantity
      /\ orders'[o].status \in {orders[o].status, "paid"}
  BY <1>1, OrderKept DEF IInv
<1> QED BY <1>2

\* PayerInv is preserved: a payment goes on only once its renter's wallet is found,
\* and wallets are never deleted.
LEMMA PayerStep ==
  ASSUME IInv, PayerInv, [Next]_vars
  PROVE  PayerInv'
<1> USE DEF walletVars, rowVars, IInv, PayerInv, At
<1>a. orders \in [Orders -> OrderRecords] /\ req \in [Workers -> Requests] BY DEF TypeOK
<1>1. ASSUME NEW w \in Workers, NEW r \in Requests, Arrives(w, r) PROVE PayerInv'
  BY <1>1, <1>a DEF Arrives
<1>2. ASSUME NEW w \in Workers, NEW pc \in PCs, Passes(w, pc) PROVE PayerInv'
  BY <1>2, <1>a DEF Passes, Goto, Kept, Rows
<1>3. ASSUME NEW w \in Workers, NEW pc \in PCs, Loads(w, pc) PROVE PayerInv'
  BY <1>3, <1>a DEF Loads, Load, Kept, Rows
<1>4. ASSUME NEW w \in Workers, Replies(w) PROVE PayerInv'
  BY <1>4, <1>a DEF Replies, Reply, Kept, Rows, Idle
<1>5. ASSUME NEW w \in Workers, NEW s \in Sessions, CheckoutCreated(w, s) PROVE PayerInv'
  BY <1>5, <1>a DEF CheckoutCreated, Reply, Idle
<1>6. ASSUME NEW w \in Workers, PayCommit(w) PROVE PayerInv'
  <2>1. /\ req[w].pc = "commit" /\ req[w].user \in wallets
        /\ orders[req[w].ref].status # "none" /\ orders[req[w].ref].user = req[w].user
    BY <1>6 DEF PayCommit, Move, RequestInv, PaymentInv
  <2>2. wallets' = wallets /\ req' = [req EXCEPT ![w] = Idle]
    BY <1>6 DEF PayCommit, Move, Reply
  <2>3. orders' = [orders EXCEPT ![req[w].ref].status = "paid"] BY <1>6 DEF PayCommit
  <2>4. ASSUME NEW o \in Orders, orders'[o].status = "paid" PROVE orders'[o].user \in wallets
    <3>1. CASE o = req[w].ref
      <4>1. orders'[o] = [orders[o] EXCEPT !.status = "paid"] BY <2>3, <3>1, <1>a
      <4>2. orders[o] \in OrderRecords BY <1>a
      <4>3. orders'[o].user = orders[o].user
        BY <4>1, <4>2 DEF OrderRecords
      <4> QED BY <4>3, <2>1, <3>1
    <3>2. CASE o # req[w].ref
      <4>1. orders'[o] = orders[o] BY <2>3, <3>2, <1>a
      <4> QED BY <4>1, <2>4
    <3> QED BY <3>1, <3>2
  <2> QED BY <2>2, <2>4, <1>a DEF Idle
<1>7. ASSUME NEW w \in Workers,
             RechargeCommit(w) \/ WebhookCommit(w) \/ MeterCommit(w) \/ RenewCommit(w)
      PROVE  PayerInv'
  BY <1>7, <1>a DEF RechargeCommit, WebhookCommit, MeterCommit, RenewCommit, Move, Reply, Idle
<1>8. ASSUME NEW u \in Users, NEW o \in Orders, NEW t \in Templates, NEW q \in Quantities,
             CreateOrder(u, o, t, q)
      PROVE  PayerInv'
  BY <1>8, <1>a DEF CreateOrder, NoOrder
<1>9. ASSUME NEW s \in Sessions, RenterPays(s) PROVE PayerInv'
  BY <1>9, <1>a DEF RenterPays
<1>10. CASE AnyFault BY <1>10, <1>a DEF AnyFault, Faulted, Idle
<1>11. CASE UNCHANGED vars BY <1>11, <1>a DEF vars
<1>12. ASSUME NEW w \in Workers, Advance(w) PROVE PayerInv'
  BY <1>12, AdvanceCases, <1>2, <1>3, <1>4, <1>5, <1>6, <1>7
<1> QED BY NextCases, <1>1, <1>8, <1>9, <1>10, <1>11, <1>12


\* Faults are counted and never forgotten.
LEMMA FaultsStep ==
  ASSUME IInv, [Next]_vars
  PROVE  faults \in Nat /\ faults' \in Nat /\ faults' >= faults
<1> USE DEF boundVars, IInv
<1>a. faults \in Nat BY BillingAssumption DEF TypeOK
<1>1. ASSUME NEW w \in Workers, NEW r \in Requests, Arrives(w, r) PROVE faults' = faults
  BY <1>1 DEF Arrives
<1>2. ASSUME NEW w \in Workers, Advance(w) PROVE faults' = faults
  BY <1>2, AdvanceCases DEF Passes, Loads, Replies, Kept, CheckoutCreated, PayCommit,
     RechargeCommit, WebhookCommit, MeterCommit, RenewCommit, Move
<1>3. ASSUME NEW u \in Users, NEW o \in Orders, NEW t \in Templates, NEW q \in Quantities,
             CreateOrder(u, o, t, q)
      PROVE  faults' = faults
  BY <1>3 DEF CreateOrder
<1>4. ASSUME NEW s \in Sessions, RenterPays(s) PROVE faults' = faults
  BY <1>4 DEF RenterPays
<1>5. CASE AnyFault BY <1>5, <1>a DEF AnyFault, Faulted
<1>6. CASE UNCHANGED vars BY <1>6, <1>a DEF vars
<1> QED BY NextCases, <1>a, <1>1, <1>2, <1>3, <1>4, <1>5, <1>6

-----------------------------------------------------------------------------
(* The steps of RentalNext, by what they do to instances, jobs and the tick. *)

\* Neither an instance nor an operation on one gets on.
Rests == UNCHANGED <<inst, job, tick, mixed, historyVars, asked>> /\ now' \in 0 .. MaxTime

\* An execution ends in success.
Succeeds(w) ==
    /\ job[w].op \in {"run", "meter"}
    /\ ClearStreak(w)
    /\ Finish(w)
    /\ runs' \in [Orders -> Nat]
    /\ UNCHANGED <<tick, now, mixed, renewals, extended, asked>>

\* An operation ends and writes nothing: it raises, or its debit does.
Drops(w) ==
    /\ job[w].op # "none"
    /\ Finish(w)
    /\ UNCHANGED <<inst, tick, now, mixed, historyVars, asked>>

\* A fault ends the tick: it raises, or the server restarts.
Cut ==
    /\ faults' = faults + 1
    /\ tick' = NoTick
    /\ job' \in {job, [w \in Workers |-> NoJob]}
    /\ UNCHANGED <<inst, now, mixed, historyVars, asked>>

JobStarts ==
    \/ \E w \in Workers, o \in Orders, target \in Targets : Transition(w, o, target)
    \/ \E w \in Workers, o \in Orders : Execute(w, o)

JobSteps(w) ==
    TransitionCommit(w) \/ Drops(w) \/ RunFails(w) \/ Succeeds(w) \/ RunMetered(w)

\* Steps of the renter's billing requests, of the clock and of reading a wallet
\* rest; both ways to succeed do the same to the instance.
LEMMA RentalCases ==
  ASSUME RentalTypeOK, JobInv, [RentalNext]_allVars
  PROVE  \/ Rests
         \/ \E o \in Orders : CreateInstance(o)
         \/ JobStarts
         \/ \E w \in Workers : JobSteps(w)
         \/ TickBegin
         \/ TickAdvance
         \/ Cut
<1> USE DEF rentalVars, historyVars
<1>a. now \in 0 .. MaxTime BY DEF RentalTypeOK
<1>b. ASSUME UNCHANGED rentalVars PROVE Rests BY <1>a, <1>b DEF Rests
<1>1. ASSUME NEW w \in Workers, JobAdvance(w) PROVE JobSteps(w) \/ Rests
  <2>1. CASE RunSucceeds(w)
    <3>1. job[w].order \in Orders BY <2>1 DEF RunSucceeds, Ran, JobInv
    <3>2. runs' \in [Orders -> Nat] BY <2>1, <3>1 DEF RunSucceeds, CountRun, RentalTypeOK
    <3> QED BY <2>1, <3>2 DEF RunSucceeds, Ran, Succeeds, JobSteps
  <2>2. CASE RunDebited(w)
    <3>1. runs' \in [Orders -> Nat] BY <2>2 DEF RunDebited, RentalTypeOK
    <3> QED BY <2>2, <3>1 DEF RunDebited, Ran, Succeeds, JobSteps
  <2>3. CASE RunWallet(w) BY <2>3, <1>b DEF RunWallet
  <2>4. CASE JobRaises(w) BY <2>4 DEF JobRaises, Ran, Drops, JobSteps
  <2> QED BY <1>1, <2>1, <2>2, <2>3, <2>4 DEF JobAdvance, JobSteps
<1>2. ASSUME NEW w \in Workers, BillingRequest(w) \/ BillingAdvance(w) PROVE Rests
  BY <1>2, <1>b DEF BillingRequest, BillingAdvance
<1>3. CASE PlaceOrder \/ PayOnPage BY <1>3, <1>b DEF PlaceOrder, PayOnPage
<1>4. CASE ClockAdvances
  BY <1>4, <1>a, InstancesAssumption DEF ClockAdvances, Rests
<1>5. CASE UNCHANGED allVars BY <1>5, <1>b DEF allVars
<1>6. ASSUME NEW w \in Workers, BillingFails(w) PROVE JobSteps(w) \/ Rests
  <2>1. CASE job[w].op = "none"
    <3>1. job[w] = NoJob /\ job \in [Workers -> JobRecords] BY <2>1 DEF JobInv, RentalTypeOK
    <3>2. job' = job BY <1>6, <3>1 DEF BillingFails, Finish
    <3> QED BY <1>6, <3>2, <1>b DEF BillingFails
  <2>2. CASE job[w].op # "none" BY <1>6, <2>2 DEF BillingFails, Drops, JobSteps
  <2> QED BY <2>1, <2>2
<1>7. CASE TickFails BY <1>7 DEF TickFails, StatementFails, Faulted, Cut
<1>8. CASE Restart BY <1>8 DEF Restart, Crash, Faulted, Cut
<1> QED BY <1>1, <1>2, <1>3, <1>4, <1>5, <1>6, <1>7, <1>8 DEF RentalNext, JobStarts

\* Finishing or advancing a job keeps it a job.
LEMMA JobTypes ==
  ASSUME RentalTypeOK, JobInv, NEW w \in Workers
  PROVE  /\ job[w] \in JobRecords
         /\ [job EXCEPT ![w] = NoJob] \in [Workers -> JobRecords]
         /\ [job EXCEPT ![w].op = "meter"] \in [Workers -> JobRecords]
<1>1. job \in [Workers -> JobRecords] /\ job[w] \in JobRecords BY DEF RentalTypeOK
<1>2. NoJob \in JobRecords BY DEF NoJob, JobRecords
<1>3. [job[w] EXCEPT !.op = "meter"] \in JobRecords BY <1>1 DEF JobRecords
<1>4. [job EXCEPT ![w].op = "meter"] = [job EXCEPT ![w] = [job[w] EXCEPT !.op = "meter"]] OBVIOUS
<1> QED BY <1>1, <1>2, <1>3, <1>4
-----------------------------------------------------------------------------
(* One lemma per conjunct of RentalInv. *)

\* Jobs stay on instances that exist.
LEMMA JobStep ==
  ASSUME RentalTypeOK, JobInv, TickInv, [RentalNext]_allVars
  PROVE  JobInv'
<1> USE DEF JobInv
<1>a. /\ job \in [Workers -> JobRecords]
      /\ inst \in [Orders -> InstanceRecords]
  BY DEF RentalTypeOK
<1>1. CASE Rests BY <1>1 DEF Rests
<1>2. ASSUME NEW o \in Orders, CreateInstance(o) PROVE JobInv'
  BY <1>2, <1>a DEF CreateInstance
<1>3. CASE JobStarts
  <2>1. ASSUME NEW w \in Workers, NEW o \in Orders, NEW op \in {"move", "run"}, NEW target,
               Take(w, o, op, target), inst[o].status # "none", op = "move" => target \in Targets
        PROVE  JobInv'
    BY <2>1, <1>a DEF Take
  <2>2. ASSUME NEW o \in Orders, NEW target \in Targets, target \in Allowed[inst[o].status]
        PROVE  inst[o].status # "none"
    BY <2>2 DEF Allowed, Targets
  <2> QED BY <1>3, <2>1, <2>2 DEF JobStarts, Transition, Execute
<1>4. ASSUME NEW w \in Workers, TransitionCommit(w) PROVE JobInv'
  <2>1. job[w].target \in Targets /\ job[w].target # "none" /\ job[w].order \in Orders
    BY <1>4 DEF TransitionCommit, Targets
  <2> QED BY <1>4, <2>1, <1>a DEF TransitionCommit, Finish, NoJob
<1>5. ASSUME NEW w \in Workers, Drops(w) PROVE JobInv'
  BY <1>5, <1>a DEF Drops, Finish, NoJob
<1>6. ASSUME NEW w \in Workers, RunFails(w) PROVE JobInv'
  BY <1>6, <1>a DEF RunFails, Finish, NoJob
<1>7. ASSUME NEW w \in Workers, Succeeds(w) PROVE JobInv'
  BY <1>7, <1>a DEF Succeeds, ClearStreak, Finish, NoJob
<1>8. ASSUME NEW w \in Workers, RunMetered(w) PROVE JobInv'
  BY <1>8, <1>a DEF RunMetered, Ran, JobRecords
<1>9. CASE TickBegin BY <1>9 DEF TickBegin
<1>10. CASE TickAdvance
  <2>1. CASE UNCHANGED <<inst, job>> BY <2>1
  <2>2. CASE TickExtend BY <2>2, <1>a DEF TickExtend, TickInv
  <2>3. CASE TickExpire BY <2>3, <1>a DEF TickExpire, TickInv
  <2> QED BY <1>10, <2>1, <2>2, <2>3 DEF TickAdvance, TickNext, TickWallet, TickCharge
<1>11. CASE Cut BY <1>11 DEF Cut, NoJob
<1> QED BY RentalCases, <1>1, <1>2, <1>3, <1>4, <1>5, <1>6, <1>7, <1>8, <1>9, <1>10, <1>11 DEF JobSteps
\* No step but CreateInstance brings an instance into being, and none removes one.
LEMMA ExistsStep ==
  ASSUME RentalTypeOK, JobInv, TickInv, [RentalNext]_allVars, NEW o \in Orders
  PROVE  /\ inst[o].status # "none" => inst'[o].status # "none"
         /\ inst'[o].status # "none" => inst[o].status # "none" \/ orders[o].status = "paid"
<1> DEFINE Goal == /\ inst[o].status # "none" => inst'[o].status # "none"
                   /\ inst'[o].status # "none" => inst[o].status # "none" \/ orders[o].status = "paid"
<1>a. /\ job \in [Workers -> JobRecords]
      /\ inst \in [Orders -> InstanceRecords]
  BY DEF RentalTypeOK
<1>1. ASSUME NEW p \in Orders, CreateInstance(p) PROVE Goal
  BY <1>1, <1>a DEF CreateInstance
<1>2. ASSUME NEW w \in Workers, TransitionCommit(w) PROVE Goal
  <2>1. /\ job[w].target # "none" /\ job[w].order \in Orders
        /\ inst[job[w].order].status # "none"
    BY <1>2 DEF TransitionCommit, Targets, JobInv
  <2> QED BY <1>2, <2>1, <1>a DEF TransitionCommit
<1>3. ASSUME NEW w \in Workers, RunFails(w) PROVE Goal
  <2>1. inst[job[w].order].status # "none" BY <1>3 DEF RunFails, Ran, JobInv
  <2> QED BY <1>3, <2>1, <1>a DEF RunFails
<1>4. ASSUME NEW w \in Workers, Succeeds(w) PROVE Goal
  BY <1>4, <1>a DEF Succeeds, ClearStreak
<1>5. CASE TickAdvance
  <2>1. CASE inst' = inst BY <2>1
  <2>2. CASE TickExtend BY <2>2, <1>a DEF TickExtend
  <2>3. CASE TickExpire
    <3>1. tick.cur \in Orders /\ inst[tick.cur].status # "none" BY <2>3 DEF TickExpire, TickInv
    <3> QED BY <2>3, <3>1, <1>a DEF TickExpire
  <2> QED BY <1>5, <2>1, <2>2, <2>3 DEF TickAdvance, TickNext, TickWallet, TickCharge
<1>6. CASE inst' = inst BY <1>6
<1> QED
  BY RentalCases, <1>1, <1>2, <1>3, <1>4, <1>5, <1>6
  DEF JobSteps, Rests, JobStarts, Transition, Execute, Take, Drops, RunMetered, TickBegin, Cut

\* Only a paid order's instance is ever created, and a paid order stays paid.
LEMMA OrderStep ==
  ASSUME IInv, RentalTypeOK, JobInv, TickInv, OrderInv, [RentalNext]_allVars
  PROVE  OrderInv'
<1>1. [Next]_vars BY RentalBillingStep
<1>2. ASSUME NEW o \in Orders, inst'[o].status # "none" PROVE orders'[o].status = "paid"
  <2>1. orders[o].status = "paid" BY <1>2, ExistsStep DEF OrderInv
  <2> QED BY <1>1, <2>1, OrdersStep
<1> QED BY <1>2 DEF OrderInv

\* A tick works through what it has selected, and the instances stay what they are.
LEMMA TickStep ==
  ASSUME IInv, RentalTypeOK, JobInv, TickInv, OrderInv, [RentalNext]_allVars
  PROVE  TickInv'
<1>a. tick \in TickRecords BY DEF RentalTypeOK
<1>b. [Next]_vars BY RentalBillingStep
<1>c. ASSUME NEW o \in Orders, inst[o].status # "none", ~ IsMetered(o)
      PROVE  inst'[o].status # "none" /\ ~ IsMetered(o)'
  <2>1. inst'[o].status # "none" BY <1>c, ExistsStep
  <2>2. orders'[o].template = orders[o].template BY <1>b, <1>c, OrdersStep DEF OrderInv
  <2> QED BY <1>c, <2>1, <2>2 DEF IsMetered
<1>1. CASE tick' = tick BY <1>1, <1>c DEF TickInv
<1>2. CASE TickBegin
  <2>1. tick'.cur = None /\ tick'.pc = "next" BY <1>2 DEF TickBegin
  <2>2. \A o \in tick'.due : o \in Orders /\ inst[o].status # "none" /\ ~ IsMetered(o)
    BY <1>2 DEF TickBegin, Due
  <2>3. None \notin Orders BY BillingAssumption
  <2> QED BY <2>1, <2>2, <2>3, <1>c DEF TickInv
<1>3. ASSUME NEW o \in Orders, TickNext(o) PROVE TickInv'
  <2>1. tick'.pc = "wallet" /\ tick'.cur = o /\ tick'.due = tick.due \ {o} /\ o \in tick.due
    BY <1>3, <1>a DEF TickNext, TickRecords
  <2> QED BY <2>1, <1>c DEF TickInv
<1>4. CASE TickWallet
  <2>1. tick'.cur = tick.cur /\ tick'.due = tick.due /\ tick'.pc \in {"expire", "charge"} /\ tick.pc = "wallet"
    BY <1>4, <1>a DEF TickWallet, TickRecords
  <2> QED BY <2>1, <1>c DEF TickInv
<1>5. CASE TickCharge
  <2>1. tick'.cur = tick.cur /\ tick'.due = tick.due /\ tick'.pc = "extend" /\ tick.pc = "charge"
    BY <1>5, <1>a DEF TickCharge, TickRecords
  <2> QED BY <2>1, <1>c DEF TickInv
<1>6. CASE Iterate
  <2>1. CASE tick' = NoTick
    BY <2>1, BillingAssumption DEF TickInv, NoTick
  <2>2. CASE tick' # NoTick
    <3>1. tick'.pc = "next" /\ tick'.cur = None /\ tick'.due = tick.due
      BY <1>6, <2>2, <1>a DEF Iterate, TickRecords
    <3> QED BY <3>1, <1>a, <1>c, BillingAssumption DEF TickInv, TickRecords
  <2> QED BY <2>1, <2>2
<1>7. CASE tick' = NoTick BY <1>7, BillingAssumption DEF TickInv, NoTick
<1> QED
  BY RentalCases, <1>1, <1>2, <1>3, <1>4, <1>5, <1>6, <1>7
  DEF JobSteps, Rests, CreateInstance, JobStarts, Transition, Execute, Take, TransitionCommit,
      Drops, RunFails, Succeeds, RunMetered, TickAdvance, TickExtend, TickExpire, Cut

\* A renewal is charged before it is extended, and whatever comes between is a fault.
LEMMA RenewalStep ==
  ASSUME IInv, RentalTypeOK, JobInv, TickInv, RenewalExtends, [RentalNext]_allVars
  PROVE  RenewalExtends'
<1>a. /\ renewals \in [Orders -> Nat] /\ extended \in [Orders -> Nat]
      /\ tick \in TickRecords
  BY DEF RentalTypeOK
<1>b. faults \in Nat /\ faults' \in Nat /\ faults' >= faults
  BY RentalBillingStep, FaultsStep
<1>c. ASSUME NEW o \in Orders
      PROVE  /\ renewals[o] \in Nat /\ extended[o] \in Nat /\ Extending(o) \in {0, 1}
             /\ extended[o] + Extending(o) <= renewals[o]
             /\ renewals[o] <= extended[o] + Extending(o) + faults
  BY <1>a DEF Extending, RenewalExtends
<1>d. SUFFICES ASSUME NEW o \in Orders
               PROVE  /\ extended'[o] + Extending(o)' <= renewals'[o]
                      /\ renewals'[o] <= extended'[o] + Extending(o)' + faults'
  BY DEF RenewalExtends
<1>1. CASE UNCHANGED <<renewals, extended>> /\ Extending(o)' = Extending(o)
  BY <1>1, <1>b, <1>c
<1>2. CASE TickCharge
  <2>1. tick'.pc = "extend" /\ tick'.cur = tick.cur /\ tick.pc = "charge"
    BY <1>2, <1>a DEF TickCharge, TickRecords
  <2>2. renewals' = [renewals EXCEPT ![tick.cur] = @ + 1] /\ extended' = extended
    BY <1>2 DEF TickCharge
  <2>3. CASE o = tick.cur
    <3>1. Extending(o) = 0 /\ Extending(o)' = 1 BY <2>1, <2>3 DEF Extending
    <3>2. renewals'[o] = renewals[o] + 1 BY <2>2, <2>3, <1>a
    <3> QED BY <3>1, <3>2, <2>2, <1>b, <1>c
  <2>4. CASE o # tick.cur
    <3>1. Extending(o) = 0 /\ Extending(o)' = 0 BY <2>1, <2>4 DEF Extending
    <3>2. renewals'[o] = renewals[o] BY <2>2, <2>4, <1>a
    <3> QED BY <3>1, <3>2, <2>2, <1>b, <1>c
  <2> QED BY <2>3, <2>4
<1>3. CASE TickExtend
  <2>1. tick.pc = "extend" /\ tick'.pc # "extend"
    BY <1>3, <1>a DEF TickExtend, Iterate, NoTick, TickRecords
  <2>2. extended' = [extended EXCEPT ![tick.cur] = @ + 1] /\ renewals' = renewals
    BY <1>3 DEF TickExtend
  <2>3. Extending(o)' = 0 BY <2>1 DEF Extending
  <2>4. CASE o = tick.cur
    <3>1. Extending(o) = 1 BY <2>1, <2>4 DEF Extending
    <3>2. extended'[o] = extended[o] + 1 BY <2>2, <2>4, <1>a
    <3> QED BY <3>1, <3>2, <2>2, <2>3, <1>b, <1>c
  <2>5. CASE o # tick.cur
    <3>1. Extending(o) = 0 BY <2>1, <2>5 DEF Extending
    <3>2. extended'[o] = extended[o] BY <2>2, <2>5, <1>a
    <3> QED BY <3>1, <3>2, <2>2, <2>3, <1>b, <1>c
  <2> QED BY <2>4, <2>5
<1>4. CASE Cut
  <2>1. faults' = faults + 1 /\ UNCHANGED <<renewals, extended>> /\ tick'.pc = "idle"
    BY <1>4 DEF Cut, NoTick, historyVars
  <2>2. Extending(o)' = 0 BY <2>1 DEF Extending
  <2> QED BY <2>1, <2>2, <1>b, <1>c
<1>5. CASE UNCHANGED <<renewals, extended>> /\ tick.pc # "extend" /\ tick'.pc # "extend"
  BY <1>5, <1>1 DEF Extending
<1>6. CASE UNCHANGED <<renewals, extended, tick>>
  BY <1>6, <1>1 DEF Extending
<1>7. CASE TickBegin
  BY <1>7, <1>5 DEF TickBegin, MyTurn, historyVars
<1>8. CASE TickExpire
  BY <1>8, <1>5, <1>a DEF TickExpire, Iterate, NoTick, TickRecords, historyVars
<1>9. CASE TickWallet
  BY <1>9, <1>5, <1>a DEF TickWallet, TickRecords, historyVars
<1>10. ASSUME NEW p \in Orders, TickNext(p)
       PROVE  UNCHANGED <<renewals, extended>> /\ tick.pc # "extend" /\ tick'.pc # "extend"
  BY <1>10, <1>a DEF TickNext, TickRecords, historyVars
<1> QED
  BY RentalCases, <1>2, <1>3, <1>4, <1>5, <1>6, <1>7, <1>8, <1>9, <1>10
  DEF JobSteps, Rests, CreateInstance, JobStarts, Transition, Execute, Take, TransitionCommit,
      Drops, RunFails, Succeeds, RunMetered, TickAdvance, historyVars
\* Without overlap the operator of an instance finds it as it has read it: whoever
\* begins while another is at work adds the instance to "mixed".
LEMMA SoleStep ==
  ASSUME RentalTypeOK, JobInv, TickInv, SoleOperatorInv, [RentalNext]_allVars
  PROVE  SoleOperatorInv'
<1> USE DEF HasJob
<1>a. /\ job \in [Workers -> JobRecords]
      /\ inst \in [Orders -> InstanceRecords]
      /\ fails \in [Orders -> Nat]
      /\ tick \in TickRecords
      /\ None \notin Orders
  BY BillingAssumption DEF RentalTypeOK
<1>b. \A w \in Workers : job[w].order \in Orders => job[w].op # "none"
  BY <1>a DEF JobInv, NoJob
<1>c. mixed \subseteq mixed'
  BY RentalCases DEF Rests, CreateInstance, JobStarts, JobSteps, Transition, Execute, Take,
     TransitionCommit, Drops, RunFails, Succeeds, RunMetered, TickBegin, TickAdvance,
     TickNext, TickWallet, TickCharge, TickExtend, TickExpire, Cut
<1> SUFFICES ASSUME NEW o \in Orders, o \notin mixed', Sole(o) PROVE Sole(o)'
  BY <1>c DEF SoleOperatorInv
<1>1. CASE UNCHANGED <<inst, job, fails>> /\ tick'.due \subseteq tick.due /\ tick'.cur \in {tick.cur, None} \cup tick.due
  BY <1>1, <1>a DEF Sole
<1>2. ASSUME NEW p \in Orders, CreateInstance(p) PROVE Sole(o)'
  <2>1. CASE o = p
    <3>1. inst[o].status = "none" /\ inst[o].streak = 0 BY <1>2, <2>1 DEF CreateInstance, NoInstance
    <3>2. \A w \in Workers : job[w].order # o BY <3>1, <1>b DEF JobInv
    <3>3. ~ (o \in tick.due \/ tick.cur = o) BY <3>1 DEF TickInv
    <3>4. inst'[o].streak = 0 BY <1>2, <2>1, <1>a DEF CreateInstance
    <3> QED BY <1>2, <3>1, <3>2, <3>3, <3>4 DEF CreateInstance, Sole, historyVars
  <2>2. CASE o # p
    <3>1. inst'[o] = inst[o] BY <1>2, <2>2, <1>a DEF CreateInstance
    <3> QED BY <1>2, <3>1 DEF CreateInstance, Sole, historyVars
  <2> QED BY <2>1, <2>2
<1>3. ASSUME NEW w \in Workers, NEW p \in Orders, NEW op, NEW target, Take(w, p, op, target),
             \/ op = "move" /\ target \in Allowed[inst[p].status]
             \/ op = "run" /\ inst[p].status = "running"
      PROVE  Sole(o)'
  <2>1. /\ job' = [job EXCEPT ![w] = [op |-> op, order |-> p, target |-> target, streak |-> inst[p].streak]]
        /\ UNCHANGED <<inst, tick, fails>>
        /\ mixed' = IF Busy(p) THEN mixed \cup {p} ELSE mixed
    BY <1>3 DEF Take, historyVars
  <2>2. CASE o = p
    <3>1. ~ Busy(o) BY <2>1, <2>2
    <3>2. \A v \in Workers : job'[v].order = o => v = w BY <2>1, <3>1, <1>a DEF Busy
    <3>3. job'[w] = [op |-> op, order |-> p, target |-> target, streak |-> inst[p].streak]
      BY <2>1, <1>a
    <3> QED BY <1>3, <2>1, <2>2, <3>1, <3>2, <3>3 DEF Busy, Sole
  <2>3. CASE o # p
    <3>1. \A v \in Workers : job'[v].order = o => job'[v] = job[v] BY <2>1, <2>3, <1>a
    <3> QED BY <2>1, <3>1 DEF Sole
  <2> QED BY <2>2, <2>3
<1>4. CASE JobStarts BY <1>3, <1>4 DEF JobStarts, Transition, Execute
<1>5. ASSUME NEW w \in Workers, Finish(w), tick' = tick,
             job[w].order = o \/ (inst'[o] = inst[o] /\ fails'[o] = fails[o]),
             inst'[o].streak = fails'[o]
      PROVE  Sole(o)'
  <2>1. \A v \in Workers : job'[v].order = o => job'[v] = job[v] /\ v # w
    BY <1>5, <1>a DEF Finish, NoJob
  <2>2. CASE job[w].order = o
    <3>1. \A v \in Workers : job'[v].order # o BY <2>1, <2>2 DEF Sole
    <3>2. ~ (o \in tick.due \/ tick.cur = o) BY <2>2 DEF Sole
    <3> QED BY <1>5, <3>1, <3>2 DEF Sole
  <2>3. CASE job[w].order # o
    <3> QED BY <1>5, <2>1, <2>3 DEF Sole
  <2> QED BY <2>2, <2>3
<1>6. ASSUME NEW w \in Workers, TransitionCommit(w) PROVE Sole(o)'
  <2>1. inst'[o].streak = inst[o].streak /\ (job[w].order # o => inst'[o] = inst[o])
    BY <1>6, <1>a DEF TransitionCommit, InstanceRecords
  <2> QED BY <1>5, <1>6, <2>1 DEF TransitionCommit, Sole, historyVars
<1>7. ASSUME NEW w \in Workers, Drops(w) PROVE Sole(o)'
  BY <1>5, <1>7 DEF Drops, Sole, historyVars
<1>8. ASSUME NEW w \in Workers, RunFails(w) PROVE Sole(o)'
  <2>1. CASE job[w].order = o
    <3>1. job[w].streak = inst[o].streak BY <1>8, <2>1 DEF RunFails, Ran, Sole
    <3>2. inst'[o].streak = job[w].streak + 1 /\ fails'[o] = fails[o] + 1
      BY <1>8, <2>1, <1>a DEF RunFails
    <3> QED BY <1>5, <1>8, <2>1, <3>1, <3>2 DEF RunFails, Sole
  <2>2. CASE job[w].order # o
    <3>1. inst'[o] = inst[o] /\ fails'[o] = fails[o] BY <1>8, <2>2, <1>a DEF RunFails
    <3> QED BY <1>5, <1>8, <3>1 DEF RunFails, Sole
  <2> QED BY <2>1, <2>2
<1>9. ASSUME NEW w \in Workers, Succeeds(w) PROVE Sole(o)'
  <2>1. CASE job[w].order = o
    <3>1. job[w].streak = inst[o].streak BY <1>9, <2>1 DEF Succeeds, Sole
    <3>2. inst'[o].streak = 0 /\ fails'[o] = 0
      BY <1>9, <2>1, <3>1, <1>a DEF Succeeds, ClearStreak
    <3> QED BY <1>5, <1>9, <2>1, <3>2 DEF Succeeds
  <2>2. CASE job[w].order # o
    <3>1. inst'[o] = inst[o] /\ fails'[o] = fails[o] BY <1>9, <2>2, <1>a DEF Succeeds, ClearStreak
    <3> QED BY <1>5, <1>9, <3>1 DEF Succeeds, Sole
  <2> QED BY <2>1, <2>2
<1>10. ASSUME NEW w \in Workers, RunMetered(w) PROVE Sole(o)'
  <2>1. \A v \in Workers :
           /\ job'[v].order = job[v].order /\ job'[v].streak = job[v].streak
           /\ job'[v].target = job[v].target
           /\ job'[v].op = IF v = w THEN "meter" ELSE job[v].op
    BY <1>10, <1>a DEF RunMetered, JobRecords
  <2>2. job[w].op = "run" BY <1>10 DEF RunMetered, Ran
  <2> QED BY <1>10, <2>1, <2>2 DEF RunMetered, Sole
<1>11. CASE TickBegin
  <2>1. tick'.cur = None /\ tick'.due = {p \in Orders : inst[p].status = "running" /\ Due(p)}
    BY <1>11 DEF TickBegin
  <2>2. o \in tick'.due => ~ HasJob(o) BY <1>11, <2>1 DEF TickBegin
  <2> QED BY <1>11, <2>1, <2>2, <1>a DEF TickBegin, Sole, historyVars
<1>12. ASSUME NEW p \in Orders, TickNext(p) PROVE Sole(o)'
  BY <1>12, <1>1, <1>a DEF TickNext, TickRecords, historyVars
<1>13. CASE TickWallet BY <1>13, <1>1, <1>a DEF TickWallet, TickRecords, historyVars
<1>14. CASE TickCharge BY <1>14, <1>1, <1>a DEF TickCharge, TickRecords
<1>15. ASSUME Iterate PROVE tick'.due \subseteq tick.due /\ tick'.cur = None
  BY <1>15, <1>a DEF Iterate, NoTick, TickRecords
<1>16. ASSUME Iterate, UNCHANGED <<job, fails>>, inst'[o].streak = inst[o].streak,
              tick.cur \in Orders, tick.cur # o => inst'[o] = inst[o]
       PROVE  Sole(o)'
  <2>1. CASE tick.cur = o
    <3>1. ~ HasJob(o) /\ o \notin tick'.due /\ tick'.cur # o
      BY <1>15, <1>16, <2>1, <1>a DEF Sole, TickInv
    <3> QED BY <1>16, <3>1 DEF Sole
  <2>2. CASE tick.cur # o BY <1>15, <1>16, <2>2, <1>a DEF Sole
  <2> QED BY <2>1, <2>2
<1>17. CASE TickExtend
  <2>1. inst'[o].streak = inst[o].streak /\ (tick.cur # o => inst'[o] = inst[o])
    BY <1>17, <1>a DEF TickExtend, InstanceRecords
  <2> QED BY <1>16, <1>17, <2>1 DEF TickExtend, TickInv
<1>18. CASE TickExpire
  <2>1. inst'[o].streak = inst[o].streak /\ (tick.cur # o => inst'[o] = inst[o])
    BY <1>18, <1>a DEF TickExpire, InstanceRecords
  <2> QED BY <1>16, <1>18, <2>1 DEF TickExpire, TickInv, historyVars
<1>19. CASE Cut
  <2>1. tick'.due = {} /\ tick'.cur = None BY <1>19 DEF Cut, NoTick
  <2>2. CASE job' = job BY <1>1, <1>19, <2>1, <2>2 DEF Cut, historyVars
  <2>3. CASE job' # job
    <3>1. \A w \in Workers : job'[w].order = None BY <1>19, <2>3 DEF Cut, NoJob
    <3> QED BY <1>19, <2>1, <3>1, <1>a DEF Cut, Sole, historyVars
  <2> QED BY <2>2, <2>3
<1>20. CASE Rests BY <1>20, <1>1 DEF Rests, historyVars
<1> QED
  BY RentalCases, <1>2, <1>4, <1>6, <1>7, <1>8, <1>9, <1>10, <1>11, <1>12, <1>13, <1>14,
     <1>17, <1>18, <1>19, <1>20 DEF JobSteps, TickAdvance
\* Changing one field of an instance leaves it an instance.
LEMMA InstanceTypes ==
  ASSUME RentalTypeOK, NEW o \in Orders
  PROVE  /\ \A x \in DOMAIN Allowed : [inst EXCEPT ![o].status = x] \in [Orders -> InstanceRecords]
         /\ \A n \in Nat : [inst EXCEPT ![o].expires = n] \in [Orders -> InstanceRecords]
         /\ \A n \in Nat : [inst EXCEPT ![o].streak = n] \in [Orders -> InstanceRecords]
         /\ \A x \in DOMAIN Allowed, n \in Nat :
               [inst EXCEPT ![o].streak = n, ![o].status = x] \in [Orders -> InstanceRecords]
<1>a. inst \in [Orders -> InstanceRecords] /\ inst[o] \in InstanceRecords BY DEF RentalTypeOK
<1> DEFINE Put(r) == [inst EXCEPT ![o] = r]
<1>b. \A r \in InstanceRecords : Put(r) \in [Orders -> InstanceRecords] BY <1>a
<1>1. ASSUME NEW x \in DOMAIN Allowed PROVE [inst EXCEPT ![o].status = x] \in [Orders -> InstanceRecords]
  <2>1. [inst[o] EXCEPT !.status = x] \in InstanceRecords BY <1>a DEF InstanceRecords
  <2>2. [inst EXCEPT ![o].status = x] = Put([inst[o] EXCEPT !.status = x]) OBVIOUS
  <2> QED BY <2>1, <2>2, <1>b
<1>2. ASSUME NEW n \in Nat PROVE [inst EXCEPT ![o].expires = n] \in [Orders -> InstanceRecords]
  <2>1. [inst[o] EXCEPT !.expires = n] \in InstanceRecords BY <1>a DEF InstanceRecords
  <2>2. [inst EXCEPT ![o].expires = n] = Put([inst[o] EXCEPT !.expires = n]) OBVIOUS
  <2> QED BY <2>1, <2>2, <1>b
<1>3. ASSUME NEW n \in Nat PROVE [inst EXCEPT ![o].streak = n] \in [Orders -> InstanceRecords]
  <2>1. [inst[o] EXCEPT !.streak = n] \in InstanceRecords BY <1>a DEF InstanceRecords
  <2>2. [inst EXCEPT ![o].streak = n] = Put([inst[o] EXCEPT !.streak = n]) OBVIOUS
  <2> QED BY <2>1, <2>2, <1>b
<1>4. ASSUME NEW x \in DOMAIN Allowed, NEW n \in Nat
      PROVE  [inst EXCEPT ![o].streak = n, ![o].status = x] \in [Orders -> InstanceRecords]
  <2>1. [inst[o] EXCEPT !.streak = n, !.status = x] \in InstanceRecords BY <1>a DEF InstanceRecords
  <2>2. [inst EXCEPT ![o].streak = n, ![o].status = x] = Put([inst[o] EXCEPT !.streak = n, !.status = x])
    OBVIOUS
  <2> QED BY <2>1, <2>2, <1>b
<1> QED BY <1>1, <1>2, <1>3, <1>4

\* The end of a paid period is a point in time.
LEMMA ExpiryType ==
  ASSUME TypeOK, PriceInv, NEW o \in Orders, orders[o].status # "none", ~ IsMetered(o), NEW t \in Nat
  PROVE  Expiry(o, t) \in Nat
<1>1. orders[o] \in OrderRecords BY DEF TypeOK
<1>2. orders[o].quantity \in Nat BY <1>1 DEF OrderRecords
<1>3. orders[o].template \in Templates \ Metered BY DEF PriceInv, IsMetered
<1>4. Duration[orders[o].template] \in Nat BY <1>3, InstancesAssumption
<1> QED BY <1>2, <1>4 DEF Expiry

\* RentalTypeOK is preserved.
LEMMA RentalTypeStep ==
  ASSUME IInv, RentalInv, [RentalNext]_allVars
  PROVE  RentalTypeOK'
<1> USE DEF RentalInv, historyVars
<1>a. /\ job \in [Workers -> JobRecords] /\ inst \in [Orders -> InstanceRecords]
      /\ tick \in TickRecords /\ now \in 0 .. MaxTime /\ mixed \subseteq Orders
      /\ fails \in [Orders -> Nat] /\ runs \in [Orders -> Nat]
      /\ renewals \in [Orders -> Nat] /\ extended \in [Orders -> Nat]
      /\ asked \in 0 .. MaxOps
  BY DEF RentalTypeOK
<1>b. MaxOps \in Nat /\ MaxTime \in Nat BY InstancesAssumption
<1>c. DOMAIN Allowed = {"none", "created", "running", "paused", "stopped", "expired", "released"}
  BY DEF Allowed
<1>d. NoTick \in TickRecords BY DEF NoTick, TickRecords
<1>1. CASE Rests BY <1>1 DEF Rests, RentalTypeOK
<1>2. ASSUME NEW o \in Orders, CreateInstance(o) PROVE RentalTypeOK'
  <2> DEFINE r == [status |-> "created", streak |-> 0, expires |-> IF IsMetered(o) THEN 0 ELSE Expiry(o, now)]
  <2>1. IsMetered(o) \/ Expiry(o, now) \in Nat
    BY <1>2, <1>a, <1>b, ExpiryType DEF CreateInstance, IInv
  <2>2. r \in InstanceRecords BY <2>1, <1>c DEF InstanceRecords
  <2>3. inst' = [inst EXCEPT ![o] = r] BY <1>2 DEF CreateInstance
  <2>4. inst' \in [Orders -> InstanceRecords] BY <2>2, <2>3, <1>a
  <2> QED BY <1>2, <2>4 DEF CreateInstance, RentalTypeOK
<1>3. ASSUME NEW w \in Workers, NEW o \in Orders, NEW op \in {"move", "run"},
             NEW target \in Targets \cup {"none"}, Take(w, o, op, target)
      PROVE  RentalTypeOK'
  <2>1. inst[o].streak \in Nat BY <1>a DEF InstanceRecords
  <2>2. [op |-> op, order |-> o, target |-> target, streak |-> inst[o].streak] \in JobRecords
    BY <2>1 DEF JobRecords
  <2>3. job' \in [Workers -> JobRecords] BY <1>3, <2>2, <1>a DEF Take
  <2>4. asked' \in 0 .. MaxOps BY <1>3, <1>a, <1>b DEF Take
  <2>5. mixed' \subseteq Orders BY <1>3, <1>a DEF Take
  <2> QED BY <1>3, <2>3, <2>4, <2>5, <1>a DEF Take, RentalTypeOK
<1>4. CASE JobStarts BY <1>3, <1>4 DEF JobStarts, Transition, Execute
<1>5. ASSUME NEW w \in Workers, JobSteps(w) PROVE RentalTypeOK'
  <2>a. job[w].op # "none" /\ job[w].order \in Orders /\ job[w] \in JobRecords
    BY <1>5, JobTypes DEF JobSteps, TransitionCommit, Drops, RunFails, Succeeds, RunMetered, Ran, JobInv
  <2>b. job[w].streak \in Nat BY <2>a DEF JobRecords
  <2>c. Finish(w) => job' \in [Workers -> JobRecords] BY JobTypes DEF Finish
  <2>1. CASE TransitionCommit(w)
    <3>1. job[w].target \in DOMAIN Allowed BY <2>1, <1>c DEF TransitionCommit, JobInv, Targets
    <3>2. inst' \in [Orders -> InstanceRecords] BY <2>1, <2>a, <3>1, InstanceTypes DEF TransitionCommit
    <3> QED BY <2>1, <2>c, <3>2, <1>a DEF TransitionCommit, RentalTypeOK
  <2>2. CASE Drops(w) BY <2>2, <2>c, <1>a DEF Drops, RentalTypeOK
  <2>3. CASE RunFails(w)
    <3> DEFINE o == job[w].order
               n == job[w].streak + 1
               x == IF n >= MaxFailStreak THEN "paused" ELSE inst[o].status
    <3>1. n \in Nat /\ x \in DOMAIN Allowed BY <2>a, <2>b, <1>a, <1>c DEF InstanceRecords
    <3>2. inst' = [inst EXCEPT ![o].streak = n, ![o].status = x] BY <2>3 DEF RunFails
    <3>3. inst' \in [Orders -> InstanceRecords] BY <2>a, <3>1, <3>2, InstanceTypes
    <3>4. fails' \in [Orders -> Nat] BY <2>3, <2>a, <1>a DEF RunFails
    <3> QED BY <2>3, <2>c, <3>3, <3>4, <1>a DEF RunFails, RentalTypeOK
  <2>4. CASE Succeeds(w)
    <3> DEFINE o == job[w].order
               n == IF job[w].streak = 0 THEN inst[o].streak ELSE 0
    <3>1. n \in Nat BY <2>a, <1>a DEF InstanceRecords
    <3>2. inst' = [inst EXCEPT ![o].streak = n] BY <2>4 DEF Succeeds, ClearStreak
    <3>3. inst' \in [Orders -> InstanceRecords] BY <2>a, <3>1, <3>2, InstanceTypes
    <3>4. fails' \in [Orders -> Nat] BY <2>4, <2>a, <1>a DEF Succeeds, ClearStreak
    <3> QED BY <2>4, <2>c, <3>3, <3>4, <1>a DEF Succeeds, RentalTypeOK
  <2>5. CASE RunMetered(w)
    <3>1. job' \in [Workers -> JobRecords] BY <2>5, JobTypes DEF RunMetered
    <3>2. runs' \in [Orders -> Nat] BY <2>5, <2>a, <1>a DEF RunMetered, CountRun
    <3> QED BY <2>5, <3>1, <3>2, <1>a DEF RunMetered, RentalTypeOK
  <2> QED BY <1>5, <2>1, <2>2, <2>3, <2>4, <2>5 DEF JobSteps
<1>6. CASE TickBegin
  <2>1. tick' \in TickRecords /\ mixed' \subseteq Orders
    BY <1>6, <1>a, <1>b DEF TickBegin, TickRecords
  <2> QED BY <1>6, <2>1, <1>a DEF TickBegin, RentalTypeOK
<1>7. ASSUME NEW o \in Orders, TickNext(o) PROVE RentalTypeOK'
  <2>1. tick' \in TickRecords BY <1>7, <1>a DEF TickNext, TickRecords
  <2> QED BY <1>7, <2>1, <1>a DEF TickNext, RentalTypeOK
<1>8. CASE TickWallet
  <2>1. tick' \in TickRecords BY <1>8, <1>a DEF TickWallet, TickRecords
  <2> QED BY <1>8, <2>1, <1>a DEF TickWallet, RentalTypeOK
<1>9. CASE TickCharge
  <2>1. tick' \in TickRecords BY <1>9, <1>a DEF TickCharge, TickRecords
  <2>2. renewals' \in [Orders -> Nat] BY <1>9, <1>a DEF TickCharge, TickInv
  <2> QED BY <1>9, <2>1, <2>2, <1>a DEF TickCharge, RentalTypeOK
<1>10. ASSUME Iterate PROVE tick' \in TickRecords
  BY <1>10, <1>a, <1>d DEF Iterate, TickRecords
<1>11. CASE TickExtend
  <2>1. tick.cur \in Orders /\ inst[tick.cur].status # "none" /\ ~ IsMetered(tick.cur)
    BY <1>11 DEF TickExtend, TickInv
  <2>2. Expiry(tick.cur, tick.at) \in Nat
    BY <2>1, <1>a, ExpiryType DEF TickRecords, OrderInv, IInv
  <2>3. inst' \in [Orders -> InstanceRecords] BY <1>11, <2>1, <2>2, InstanceTypes DEF TickExtend
  <2>4. extended' \in [Orders -> Nat] BY <1>11, <2>1, <1>a DEF TickExtend
  <2> QED BY <1>11, <1>10, <2>3, <2>4, <1>a DEF TickExtend, RentalTypeOK
<1>12. CASE TickExpire
  <2>1. tick.cur \in Orders BY <1>12 DEF TickExpire, TickInv
  <2>2. inst' \in [Orders -> InstanceRecords] BY <1>12, <2>1, <1>c, InstanceTypes DEF TickExpire
  <2> QED BY <1>12, <1>10, <2>2, <1>a DEF TickExpire, RentalTypeOK
<1>13. CASE Cut
  <2>1. job' \in [Workers -> JobRecords] BY <1>13, <1>a DEF Cut, NoJob, JobRecords
  <2> QED BY <1>13, <2>1, <1>a, <1>d DEF Cut, RentalTypeOK
<1> QED
  BY RentalCases, <1>1, <1>2, <1>4, <1>5, <1>6, <1>7, <1>8, <1>9, <1>11, <1>12, <1>13 DEF TickAdvance
-----------------------------------------------------------------------------
(* Metered runs. *)

\* A billing request that is not metering stays none, and books no usage.
LEMMA AdvanceUnmetered ==
  ASSUME TypeOK, RequestInv, NEW w \in Workers, Advance(w), req[w].op # "meter"
  PROVE  /\ UNCHANGED <<usages, faults>>
         /\ req'[w].op # "meter"
         /\ \A v \in Workers \ {w} : req'[v] = req[v]
<1> USE DEF rowVars, boundVars
<1>a. req \in [Workers -> Requests] /\ req[w] \in Requests BY DEF TypeOK
<1>b. ASSUME NEW r \in Requests, req' = [req EXCEPT ![w] = r], r.op # "meter"
      PROVE  req'[w].op # "meter" /\ \A v \in Workers \ {w} : req'[v] = req[v]
  BY <1>a, <1>b
<1>c. Idle \in Requests /\ Idle.op # "meter" BY DEF Idle, Requests
<1>1. ASSUME NEW pc \in PCs, Passes(w, pc)
      PROVE  UNCHANGED <<usages, faults>> /\ req' = [req EXCEPT ![w].pc = pc]
  BY <1>1 DEF Passes, Goto, Kept, Rows
<1>2. ASSUME NEW pc \in PCs, Loads(w, pc)
      PROVE  /\ UNCHANGED <<usages, faults>>
             /\ req' = [req EXCEPT ![w].pc = pc, ![w].seen = balance[req[w].user]]
  BY <1>2 DEF Loads, Load, Kept, Rows
<1>3. ASSUME \/ Replies(w)
             \/ \E s \in Sessions : CheckoutCreated(w, s)
             \/ PayCommit(w) \/ RechargeCommit(w) \/ WebhookCommit(w) \/ RenewCommit(w)
      PROVE  UNCHANGED <<usages, faults>> /\ req' = [req EXCEPT ![w] = Idle]
  BY <1>3 DEF Replies, Kept, Rows, CheckoutCreated, PayCommit, RechargeCommit, WebhookCommit,
     RenewCommit, Move, Reply
<1>4. ~ MeterCommit(w) BY DEF MeterCommit
<1>5. ASSUME NEW pc \in PCs, Passes(w, pc) \/ Loads(w, pc)
      PROVE  /\ UNCHANGED <<usages, faults>>
             /\ req'[w].op = req[w].op /\ \A v \in Workers \ {w} : req'[v] = req[v]
  <2>1. UNCHANGED <<usages, faults>> BY <1>1, <1>2, <1>5
  <2>2. CASE req' = [req EXCEPT ![w].pc = pc]
    BY <2>1, <2>2, <1>a DEF Requests
  <2>3. CASE req' = [req EXCEPT ![w].pc = pc, ![w].seen = balance[req[w].user]]
    BY <2>1, <2>3, <1>a DEF Requests
  <2> QED BY <1>1, <1>2, <1>5, <2>2, <2>3
<1> QED BY AdvanceCases, <1>b, <1>c, <1>3, <1>4, <1>5

\* No request a renter sends, and no delivery, is metering.
LEMMA RequestUnmetered ==
  ASSUME TypeOK, NEW w \in Workers, RenterRequest(w) \/ \E s \in Sessions : StripeWebhook(w, s)
  PROVE  /\ UNCHANGED <<usages, faults>>
         /\ req[w] = Idle /\ req'[w].op # "meter"
         /\ \A v \in Workers \ {w} : req'[v] = req[v]
<1>1. ASSUME NEW op, NEW u, NEW ref, NEW amount, Begin(w, op, u, ref, amount), op # "meter"
      PROVE  /\ UNCHANGED <<usages, faults>>
             /\ req[w] = Idle /\ req'[w].op # "meter"
             /\ \A v \in Workers \ {w} : req'[v] = req[v]
  BY <1>1 DEF Begin, TypeOK, rowVars
<1>2. ASSUME NEW u \in Users, NEW amount \in Amounts, RechargeCheckout(w, u, amount)
      PROVE  /\ UNCHANGED <<usages, faults>>
             /\ req[w] = Idle /\ req'[w].op # "meter"
             /\ \A v \in Workers \ {w} : req'[v] = req[v]
  BY <1>2 DEF RechargeCheckout, TypeOK, rowVars, boundVars
<1> QED
  BY <1>1, <1>2 DEF RenterRequest, GetWallet, SetAutoRenew, Recharge, PayOrder, StripeWebhook

\* A step that begins or ends no metering, and counts no run.
Unmetered ==
    /\ UNCHANGED <<runs, usages, faults>>
    /\ \A w \in Workers :
          /\ req'[w].op = "meter" <=> req[w].op = "meter"
          /\ req[w].op = "meter" => req'[w].ref = req[w].ref
          /\ \/ job'[w] = job[w]
             \/ /\ job[w].op # "meter" /\ job'[w].op # "meter"
                /\ job'[w].op = "run" => w \in Tasks

\* A fault, which makes the server forget what some workers were about to do.
Forgets ==
    /\ faults' = faults + 1
    /\ UNCHANGED <<inst, runs, usages>>
    /\ \A w \in Workers :
          \/ job'[w] = job[w] /\ req'[w] = req[w]
          \/ job'[w] \in {job[w], NoJob} /\ job'[w].op # "meter" /\ req'[w] = Idle

\* Only an execution that succeeded, its debit and a fault do otherwise.
LEMMA MeterCases ==
  ASSUME IInv, RentalTypeOK, JobInv, MeterInv, [RentalNext]_allVars
  PROVE  \/ Unmetered
         \/ \E w \in Workers : RunSucceeds(w) \/ RunMetered(w) \/ RunDebited(w)
         \/ Forgets
<1> USE DEF rentalVars, historyVars, rowVars, boundVars
<1>a. job \in [Workers -> JobRecords] /\ req \in [Workers -> Requests]
  BY DEF RentalTypeOK, IInv, TypeOK
<1>b. NoJob.op = "none" BY DEF NoJob
<1>c. ASSUME UNCHANGED <<runs, usages, faults, req, job>> PROVE Unmetered
  BY <1>c DEF Unmetered
<1>d. ASSUME NEW w \in Workers, UNCHANGED <<runs, vars>>, Finish(w), job[w].op # "meter"
      PROVE  Unmetered
  BY <1>d, <1>a, <1>b DEF Unmetered, Finish, vars
<1>1. ASSUME NEW w \in Workers, NEW o \in Orders, NEW op \in {"move", "run"}, NEW target,
             Take(w, o, op, target), op = "run" => w \in Tasks
      PROVE  Unmetered
  <2>1. /\ job' = [job EXCEPT ![w] = [op |-> op, order |-> o, target |-> target,
                                      streak |-> inst[o].streak]]
        /\ UNCHANGED <<runs, vars>> /\ job[w].op # "meter"
    BY <1>1, <1>b DEF Take
  <2> QED BY <1>1, <2>1, <1>a DEF Unmetered, vars
<1>2. ASSUME NEW w \in Workers, JobAdvance(w)
      PROVE  Unmetered \/ RunSucceeds(w) \/ RunMetered(w) \/ RunDebited(w)
  <2>1. CASE TransitionCommit(w) BY <2>1, <1>d DEF TransitionCommit
  <2>2. CASE JobRaises(w) BY <2>2, <1>d DEF JobRaises, Ran
  <2>3. CASE RunFails(w) BY <2>3, <1>d DEF RunFails, Ran
  <2>4. CASE RunWallet(w)
    <3>1. req' = [req EXCEPT ![w].pc = "commit", ![w].seen = balance[req[w].user]]
      BY <2>4 DEF RunWallet, MeterLoaded, Load
    <3>2. UNCHANGED <<runs, usages, faults, job>> BY <2>4 DEF RunWallet, MeterLoaded, Loaded
    <3>3. \A v \in Workers : req'[v].op = req[v].op /\ req'[v].ref = req[v].ref
      BY <3>1, <1>a DEF Requests
    <3> QED BY <3>2, <3>3 DEF Unmetered
  <2> QED BY <1>2, <2>1, <2>2, <2>3, <2>4 DEF JobAdvance
<1>3. ASSUME NEW w \in Workers, BillingRequest(w) \/ BillingAdvance(w) PROVE Unmetered
  <2>1. job[w].op # "meter" /\ UNCHANGED <<runs, job>>
    BY <1>3, <1>b DEF BillingRequest, BillingAdvance
  <2>2. req[w].op # "meter" BY <2>1 DEF MeterInv
  <2>3. /\ UNCHANGED <<usages, faults>> /\ req'[w].op # "meter"
        /\ \A v \in Workers \ {w} : req'[v] = req[v]
    BY <1>3, <2>2, AdvanceUnmetered, RequestUnmetered DEF BillingRequest, BillingAdvance, IInv
  <2> QED BY <2>1, <2>2, <2>3 DEF Unmetered
<1>4. ASSUME NEW o \in Orders, TickNext(o) PROVE Unmetered
  <2>1. /\ UNCHANGED <<runs, job, usages, faults>> /\ req[Scheduler] = Idle
        /\ req' = [req EXCEPT ![Scheduler] = [op |-> "renew", pc |-> "select",
              user |-> orders[o].user, ref |-> o, amount |-> orders[o].amount, seen |-> 0]]
    BY <1>4 DEF TickNext, HandleExpiry, Begin
  <2> QED BY <2>1, <1>a DEF Unmetered, Idle, Workers
<1>5. CASE TickWallet \/ TickCharge
  <2>1. UNCHANGED <<runs, job>> BY <1>5 DEF TickWallet, TickCharge
  <2>2. Scheduler \in Workers /\ Advance(Scheduler) /\ req[Scheduler].op # "meter"
    BY <1>5 DEF TickWallet, TickCharge, RenewLoaded, RenewCommit, Loaded, At, Advance, Workers
  <2>3. /\ UNCHANGED <<usages, faults>> /\ req'[Scheduler].op # "meter"
        /\ \A v \in Workers \ {Scheduler} : req'[v] = req[v]
    BY <2>2, AdvanceUnmetered DEF IInv
  <2> QED BY <2>1, <2>2, <2>3 DEF Unmetered
<1>6. CASE PlaceOrder BY <1>6, <1>c DEF PlaceOrder, CreateOrder
<1>7. CASE PayOnPage BY <1>7, <1>c DEF PayOnPage, RenterPays
<1>8. CASE UNCHANGED <<runs, job, vars>> BY <1>8, <1>c DEF vars
<1>9. ASSUME NEW w \in Workers, NEW o \in Orders,
             Execute(w, o) \/ \E target \in Targets : Transition(w, o, target)
      PROVE  Unmetered
  BY <1>9, <1>1 DEF Transition, Execute
<1>10. CASE TickAdvance
  BY <1>4, <1>5, <1>8, <1>10 DEF TickAdvance, TickExtend, TickExpire
<1>11. ASSUME \/ \E o \in Orders : CreateInstance(o)
              \/ TickBegin \/ ClockAdvances \/ UNCHANGED allVars
       PROVE  Unmetered
  <2>1. UNCHANGED <<runs, job, vars>>
    BY <1>11 DEF CreateInstance, TickBegin, ClockAdvances, allVars
  <2> QED BY <2>1, <1>c DEF vars
<1>12. ASSUME NEW w \in Workers, BillingFails(w) PROVE Forgets
  <2>1. /\ faults' = faults + 1 /\ UNCHANGED <<inst, runs, usages>>
        /\ job' = [job EXCEPT ![w] = NoJob]
        /\ req' = [v \in Workers |-> IF v \in {w} THEN Idle ELSE req[v]]
    BY <1>12 DEF BillingFails, StatementFails, Faulted, Finish
  <2> QED BY <2>1, <1>a, <1>b DEF Forgets
<1>13. CASE TickFails
  <2>1. /\ faults' = faults + 1 /\ UNCHANGED <<inst, runs, usages, job>>
        /\ req' = [v \in Workers |-> IF v \in {Scheduler} THEN Idle ELSE req[v]]
    BY <1>13 DEF TickFails, StatementFails, Faulted
  <2>2. job[Scheduler].op # "meter" BY BillingAssumption DEF MeterInv, Workers
  <2> QED BY <2>1, <2>2 DEF Forgets
<1>14. CASE Restart
  <2>1. /\ faults' = faults + 1 /\ UNCHANGED <<inst, runs, usages>>
        /\ job' = [w \in Workers |-> NoJob]
        /\ req' = [v \in Workers |-> IF v \in Workers THEN Idle ELSE req[v]]
    BY <1>14 DEF Restart, Crash, Faulted
  <2> QED BY <2>1, <1>b DEF Forgets
<1> QED BY <1>2, <1>3, <1>6, <1>7, <1>9, <1>10, <1>11, <1>12, <1>13, <1>14 DEF RentalNext

\* Usages plus pending debits do not exceed the runs, and equal them if "exact".
Tallied(pending, charged, ran, exact) ==
    /\ IsFiniteSet(pending)
    /\ charged + Cardinality(pending) <= ran
    /\ exact => charged + Cardinality(pending) = ran

LEMMA TalliedRun ==
  ASSUME NEW S, NEW w, NEW a \in Nat, NEW b \in Nat, NEW exact, Tallied(S, a, b, exact), w \notin S
  PROVE  Tallied(S \cup {w}, a, b + 1, exact)
<1>1. Cardinality(S) \in Nat BY FS_CardinalityType DEF Tallied
<1>2. IsFiniteSet(S \cup {w}) /\ Cardinality(S \cup {w}) = Cardinality(S) + 1
  BY FS_AddElement DEF Tallied
<1> QED BY <1>1, <1>2 DEF Tallied

LEMMA TalliedDebit ==
  ASSUME NEW S, NEW w, NEW a \in Nat, NEW b \in Nat, NEW exact, Tallied(S, a, b, exact), w \in S
  PROVE  Tallied(S \ {w}, a + 1, b, exact)
<1>1. Cardinality(S) \in Nat BY FS_CardinalityType DEF Tallied
<1>2. IsFiniteSet(S \ {w}) /\ Cardinality(S \ {w}) = Cardinality(S) - 1
  BY FS_RemoveElement DEF Tallied
<1> QED BY <1>1, <1>2 DEF Tallied

\* Where a debit may be forgotten, or a run is not metered, the tally is a bound.
LEMMA TalliedForgotten ==
  ASSUME NEW S, NEW T \in SUBSET S, NEW a \in Nat, NEW b \in Nat, NEW exact, Tallied(S, a, b, exact)
  PROVE  Tallied(T, a, b, FALSE) /\ Tallied(S, a, b + 1, FALSE)
<1>1. Cardinality(S) \in Nat BY FS_CardinalityType DEF Tallied
<1>2. IsFiniteSet(T) /\ Cardinality(T) <= Cardinality(S) BY FS_Subset DEF Tallied
<1>3. Cardinality(T) \in Nat BY <1>2, FS_CardinalityType
<1> QED BY <1>1, <1>2, <1>3 DEF Tallied

LEMMA TalliedNone ==
  ASSUME NEW S, NEW a \in Nat, NEW b \in Nat, NEW exact, Tallied(S, a, b, exact), b = 0
  PROVE  Tallied(S, a, b, TRUE)
<1>1. Cardinality(S) \in Nat BY FS_CardinalityType DEF Tallied
<1> QED BY <1>1 DEF Tallied

\* MeterInv is preserved: a run is counted as its metering begins, the usage as
\* it ends.
LEMMA MeterStep ==
  ASSUME IInv, RentalTypeOK, JobInv, TickInv, OrderInv, MeterInv, [RentalNext]_allVars
  PROVE  MeterInv'
<1> DEFINE Exactly(o) == IsMetered(o) /\ faults = 0
           Now(o) == Tallied(Metering(o), usages[o], runs[o], Exactly(o))
           Next1(o) == /\ inst'[o].status = "none" => runs'[o] = 0
                       /\ Now(o)'
           Jobs == \A w \in Workers :
                     /\ job[w].op \in {"run", "meter"} => w \in Tasks
                     /\ job[w].op = "meter" <=> req[w].op = "meter"
                     /\ job[w].op = "meter" => req[w].ref = job[w].order
<1>a. /\ job \in [Workers -> JobRecords] /\ req \in [Workers -> Requests]
      /\ runs \in [Orders -> Nat] /\ usages \in [Orders -> Nat] /\ faults \in Nat
  BY BillingAssumption DEF RentalTypeOK, IInv, TypeOK
<1>b. NoJob.op = "none" /\ Idle.op = "none" BY DEF NoJob, Idle
<1>c. Jobs /\ \A o \in Orders : Now(o) /\ (inst[o].status = "none" => runs[o] = 0)
  BY DEF MeterInv, Tallied
<1>d. SUFFICES Jobs' /\ \A o \in Orders : Next1(o)
  BY DEF MeterInv, Tallied
<1>e. [Next]_vars BY RentalBillingStep
<1>f. ASSUME NEW o \in Orders, runs'[o] = runs[o] PROVE inst'[o].status = "none" => runs'[o] = 0
  BY <1>c, <1>f, ExistsStep
\* A metered order stays metered, unless its instance is not there yet.
<1>g. ASSUME NEW o \in Orders, faults' = faults, inst[o].status # "none"
      PROVE  Exactly(o)' = Exactly(o)
  <2>1. orders'[o].template = orders[o].template BY <1>e, <1>g, OrdersStep DEF OrderInv
  <2> QED BY <1>g, <2>1 DEF IsMetered
<1>h. ASSUME NEW o \in Orders, Metering(o)' = Metering(o),
             usages'[o] = usages[o], runs'[o] = runs[o], faults' = faults
      PROVE  Next1(o)
  <2>1. CASE inst[o].status # "none" BY <1>c, <1>f, <1>g, <1>h, <2>1
  <2>2. CASE inst[o].status = "none"
    <3>1. Tallied(Metering(o), usages[o], runs[o], TRUE)
      BY <1>a, <1>c, <2>2, TalliedNone
    <3> QED BY <1>f, <1>h, <3>1 DEF Tallied
  <2> QED BY <2>1, <2>2
<1> HIDE DEF Now, Exactly
<1>1. CASE Unmetered
  <2>1. Jobs' BY <1>1, <1>c DEF Unmetered
  <2>2. ASSUME NEW o \in Orders PROVE Next1(o)
    <3>1. Metering(o)' = Metering(o) BY <1>1 DEF Unmetered, Metering, Workers
    <3> QED BY <1>1, <1>h, <3>1 DEF Unmetered
  <2> QED BY <2>1, <2>2
<1>2. ASSUME NEW w \in Workers, RunSucceeds(w), NEW p \in Orders, p = job[w].order
      PROVE  Jobs' /\ \A o \in Orders : Next1(o)
  <2>1. /\ job[w].op = "run" /\ job[w].order = p /\ inst[p].status # "none" /\ ~ IsMetered(p)
        /\ UNCHANGED vars /\ job' = [job EXCEPT ![w] = NoJob]
        /\ runs' = [runs EXCEPT ![p] = @ + 1]
    BY <1>2 DEF RunSucceeds, Ran, JobInv, Finish, CountRun
  <2>2. UNCHANGED <<req, usages, faults>> BY <2>1 DEF vars, rowVars, boundVars
  <2>3. Jobs' BY <2>1, <2>2, <1>a, <1>b, <1>c
  <2>4. ASSUME NEW o \in Orders PROVE Metering(o)' = Metering(o)
    BY <2>1, <1>a, <1>b DEF Metering, Workers
  <2>5. ASSUME NEW o \in Orders, o # p PROVE Next1(o)
    BY <2>1, <2>2, <2>4, <2>5, <1>a, <1>h
  <2>6. Next1(p)
    <3>1. inst'[p].status # "none" BY <2>1, ExistsStep
    <3>2. Exactly(p)' = FALSE BY <2>1 DEF Exactly, IsMetered, vars
    <3>3. Tallied(Metering(p), usages[p], runs[p] + 1, FALSE)
      BY <2>1, <1>a, <1>c, TalliedForgotten DEF Now
    <3>4. runs'[p] = runs[p] + 1 BY <2>1, <1>a
    <3> QED BY <3>1, <3>2, <3>3, <3>4, <2>1, <2>2, <2>4 DEF Now
  <2> QED BY <2>3, <2>5, <2>6
<1>3. ASSUME NEW w \in Workers, RunMetered(w), NEW p \in Orders, p = job[w].order
      PROVE  Jobs' /\ \A o \in Orders : Next1(o)
  <2>1. /\ job[w].op = "run" /\ job[w].order = p /\ inst[p].status # "none"
        /\ job' = [job EXCEPT ![w].op = "meter"]
        /\ runs' = [runs EXCEPT ![p] = @ + 1]
    BY <1>3 DEF RunMetered, Ran, JobInv, CountRun
  <2>2. /\ UNCHANGED <<usages, faults>> /\ w \in Tasks
        /\ req' = [req EXCEPT ![w] = [op |-> "meter", pc |-> "select", user |-> orders[p].user,
                         ref |-> p, amount |-> Price[orders[p].template], seen |-> 0]]
    BY <1>3 DEF RunMetered, MeterConsumption, Begin, rowVars
  <2>3. req'[w].op = "meter" /\ req'[w].ref = p /\ \A v \in Workers \ {w} : req'[v] = req[v]
    BY <2>2, <1>a
  <2>4. job'[w].op = "meter" /\ job'[w].order = p /\ \A v \in Workers \ {w} : job'[v] = job[v]
    <3>1. job[w] \in JobRecords BY <1>a
    <3>2. job'[w] = [job[w] EXCEPT !.op = "meter"] BY <2>1, <1>a
    <3>3. job'[w].op = "meter" /\ job'[w].order = job[w].order BY <3>1, <3>2 DEF JobRecords
    <3> QED BY <2>1, <3>3, <1>a
  <2>5. Jobs' BY <2>2, <2>3, <2>4, <1>c
  <2>6. ASSUME NEW o \in Orders, o # p PROVE Next1(o)
    <3>1. Metering(o)' = Metering(o) BY <2>1, <2>4, <2>6 DEF Metering, Workers
    <3> QED BY <2>1, <2>2, <2>6, <3>1, <1>a, <1>h
  <2>7. Next1(p)
    <3>1. Metering(p)' = Metering(p) \cup {w} /\ w \notin Metering(p)
      BY <2>1, <2>2, <2>4 DEF Metering, Workers
    <3>2. inst'[p].status # "none" BY <2>1, ExistsStep
    <3>3. Exactly(p)' = Exactly(p) BY <2>1, <2>2, <1>g
    <3>4. Tallied(Metering(p) \cup {w}, usages[p], runs[p] + 1, Exactly(p))
      BY <2>1, <3>1, <1>a, <1>c, TalliedRun DEF Now
    <3>5. runs'[p] = runs[p] + 1 BY <2>1, <1>a
    <3> QED BY <3>1, <3>2, <3>3, <3>4, <3>5, <2>1, <2>2 DEF Now
  <2> QED BY <2>5, <2>6, <2>7
<1>4. ASSUME NEW w \in Workers, RunDebited(w), NEW p \in Orders, p = job[w].order
      PROVE  Jobs' /\ \A o \in Orders : Next1(o)
  <2>1. /\ job[w].op = "meter" /\ job[w].order = p /\ inst[p].status # "none"
        /\ job' = [job EXCEPT ![w] = NoJob]
        /\ runs' = runs
    BY <1>4 DEF RunDebited, Ran, JobInv, Finish
  <2>2. w \in Tasks /\ req[w].ref = p BY <2>1, <1>c
  <2>3. /\ faults' = faults /\ req' = [req EXCEPT ![w] = Idle]
        /\ usages' = [usages EXCEPT ![p] = @ + 1]
    BY <1>4, <2>2 DEF RunDebited, MeterCommit, Move, Reply, boundVars
  <2>4. Jobs' BY <2>1, <2>3, <1>a, <1>b, <1>c
  <2>5. ASSUME NEW o \in Orders, o # p PROVE Next1(o)
    <3>1. Metering(o)' = Metering(o) BY <2>1, <2>5, <1>a, <1>b DEF Metering, Workers
    <3> QED BY <2>1, <2>3, <2>5, <3>1, <1>a, <1>h
  <2>6. Next1(p)
    <3>1. Metering(p)' = Metering(p) \ {w} /\ w \in Metering(p)
      BY <2>1, <2>2, <1>a, <1>b DEF Metering, Workers
    <3>2. inst'[p].status # "none" BY <2>1, ExistsStep
    <3>3. Exactly(p)' = Exactly(p) BY <2>1, <2>3, <1>g
    <3>4. Tallied(Metering(p) \ {w}, usages[p] + 1, runs[p], Exactly(p))
      BY <2>1, <3>1, <1>a, <1>c, TalliedDebit DEF Now
    <3>5. usages'[p] = usages[p] + 1 BY <2>1, <2>3, <1>a
    <3> QED BY <3>1, <3>2, <3>3, <3>4, <3>5, <2>1 DEF Now
  <2> QED BY <2>4, <2>5, <2>6
<1>5. CASE Forgets
  <2>1. faults' = faults + 1 /\ UNCHANGED <<usages, runs, inst>> BY <1>5 DEF Forgets
  <2>2. Jobs' BY <1>5, <1>b, <1>c DEF Forgets
  <2>3. ASSUME NEW o \in Orders PROVE Next1(o)
    <3>1. Metering(o)' \in SUBSET Metering(o) BY <1>5 DEF Forgets, Metering, Workers
    <3>2. Exactly(o)' = FALSE BY <2>1, <1>a DEF Exactly
    <3>3. Tallied(Metering(o)', usages[o], runs[o], FALSE)
      BY <3>1, <1>a, <1>c, TalliedForgotten DEF Now
    <3> QED BY <2>1, <3>2, <3>3, <1>f DEF Now
  <2> QED BY <2>2, <2>3
<1>6. ASSUME NEW w \in Workers, RunSucceeds(w) \/ RunMetered(w) \/ RunDebited(w)
      PROVE  job[w].order \in Orders
  BY <1>6 DEF RunSucceeds, RunMetered, RunDebited, Ran, JobInv
<1> QED BY MeterCases, <1>1, <1>2, <1>3, <1>4, <1>5, <1>6

-----------------------------------------------------------------------------
(* Turns. *)

\* TurnInv is preserved: a request changes by steps of its own worker, the
\* scheduler's only by its tick, and no coroutine moves during a tick.
LEMMA TurnStep ==
  ASSUME IInv, RentalTypeOK, PayerInv, JobInv, TickInv, OrderInv, MeterInv, TurnInv,
         [RentalNext]_allVars
  PROVE  TurnInv'
<1> DEFINE JobTurn(w) == /\ job[w].op \in {"move", "run"} => req[w] = Idle
                         /\ job[w].op = "meter" => req[w].pc \in {"select", "commit"}
           TickTurn ==
             /\ tick.pc = "wallet" => At(Scheduler, "renew", "select") /\ req[Scheduler].ref = tick.cur
             /\ tick.pc = "charge" => At(Scheduler, "renew", "commit") /\ req[Scheduler].ref = tick.cur
             /\ tick.pc \notin {"wallet", "charge"} => req[Scheduler] = Idle
             /\ tick.pc = "next" => tick.due # {}
           LoopTurn == tick.pc # "idle" => \A w \in Tasks : ~ HoldsLoop(w)
<1>a. /\ job \in [Workers -> JobRecords] /\ req \in [Workers -> Requests] /\ tick \in TickRecords
      /\ Scheduler \notin Threads /\ Scheduler \notin Tasks /\ Threads \cap Tasks = {}
      /\ Scheduler \in Workers /\ Tasks \subseteq Workers
  BY BillingAssumption DEF RentalTypeOK, IInv, TypeOK, Workers
<1>b. (\A w \in Workers : JobTurn(w)) /\ job[Scheduler] = NoJob /\ TickTurn /\ LoopTurn
  BY DEF TurnInv
<1>c. SUFFICES (\A w \in Workers : JobTurn(w)') /\ job'[Scheduler] = NoJob /\ TickTurn' /\ LoopTurn'
  BY DEF TurnInv
<1>d. NoJob.op = "none" /\ Idle.pc = "idle" BY DEF NoJob, Idle
<1> DEFINE Goal == (\A w \in Workers : JobTurn(w)') /\ job'[Scheduler] = NoJob /\ TickTurn' /\ LoopTurn'
\* A step of a worker other than the scheduler.
<1>e. ASSUME NEW w \in Workers, w # Scheduler, tick' = tick, JobTurn(w)',
             \A v \in Workers \ {w} : req'[v] = req[v] /\ job'[v] = job[v],
             w \in Threads \/ tick.pc = "idle" \/ req'[w] = req[w]
      PROVE  Goal
  <2>1. \A v \in Workers : JobTurn(v)' BY <1>b, <1>e
  <2>2. job'[Scheduler] = NoJob /\ TickTurn' BY <1>a, <1>b, <1>e DEF At
  <2>3. LoopTurn' BY <1>a, <1>b, <1>e DEF HoldsLoop
  <2> QED BY <2>1, <2>2, <2>3
\* A step of the tick.
<1>f. ASSUME job' = job, tick.pc # "idle", TickTurn',
             \A v \in Workers \ {Scheduler} : req'[v] = req[v]
      PROVE  Goal
  <2>1. \A v \in Workers : JobTurn(v)' BY <1>b, <1>d, <1>f
  <2>2. LoopTurn' BY <1>a, <1>b, <1>f DEF HoldsLoop
  <2> QED BY <1>b, <1>f, <2>1, <2>2
<1>g. ASSUME UNCHANGED <<req, job, tick>> PROVE Goal
  BY <1>b, <1>g DEF At, HoldsLoop
<1>1. ASSUME NEW w \in Workers, NEW o \in Orders, NEW op \in {"move", "run"}, NEW target,
             Take(w, o, op, target), w # Scheduler
      PROVE  Goal
  <2>1. /\ req[w] = Idle /\ req' = req /\ tick' = tick
        /\ job' = [job EXCEPT ![w] = [op |-> op, order |-> o, target |-> target,
                                      streak |-> inst[o].streak]]
    BY <1>1 DEF Take, vars
  <2>2. job'[w].op = op /\ \A v \in Workers \ {w} : job'[v] = job[v] BY <2>1, <1>a
  <2>3. JobTurn(w)' BY <2>1, <2>2
  <2> HIDE DEF JobTurn, Goal
  <2> QED BY <1>1, <1>e, <2>1, <2>2, <2>3
<1>2. ASSUME NEW w \in Workers, NEW o \in Orders,
             Execute(w, o) \/ \E target \in Targets : Transition(w, o, target)
      PROVE  Goal
  <2>1. w # Scheduler BY <1>2, <1>a DEF Execute, Transition
  <2> HIDE DEF Goal
  <2> QED BY <1>1, <1>2, <2>1 DEF Execute, Transition
<1>3. ASSUME NEW w \in Workers, Finish(w), UNCHANGED <<req, tick>>, job[w].op # "none" PROVE Goal
  <2>1. w # Scheduler BY <1>3, <1>b, <1>d
  <2>2. job'[w] = NoJob /\ \A v \in Workers \ {w} : job'[v] = job[v] BY <1>3, <1>a DEF Finish
  <2>3. JobTurn(w)' BY <2>2, <1>d
  <2> HIDE DEF JobTurn, Goal
  <2> QED BY <1>3, <1>e, <2>1, <2>2, <2>3
<1>4. ASSUME NEW w \in Workers, RunMetered(w) PROVE Goal
  <2>1. /\ w \in Tasks /\ tick.pc = "idle" /\ tick' = tick
        /\ req'[w].pc = "select" /\ \A v \in Workers \ {w} : req'[v] = req[v]
    BY <1>4, <1>a DEF RunMetered, Ran, MeterConsumption, Begin
  <2>2. job'[w].op = "meter" /\ \A v \in Workers \ {w} : job'[v] = job[v]
    BY <1>4, <1>a DEF RunMetered, JobRecords
  <2>3. JobTurn(w)' BY <2>1, <2>2
  <2>4. w # Scheduler BY <2>1, <1>a
  <2> HIDE DEF JobTurn, Goal
  <2> QED BY <1>e, <2>1, <2>2, <2>3, <2>4
<1>5. ASSUME NEW w \in Workers, RunWallet(w) PROVE Goal
  <2>1. /\ job[w].op = "meter" /\ tick.pc = "idle" /\ UNCHANGED <<tick, job>>
        /\ req' = [req EXCEPT ![w].pc = "commit", ![w].seen = balance[req[w].user]]
    BY <1>5 DEF RunWallet, Ran, MeterLoaded, Load, rentalVars
  <2>2. req'[w].pc = "commit" /\ \A v \in Workers \ {w} : req'[v] = req[v]
    BY <2>1, <1>a DEF Requests
  <2>3. JobTurn(w)' BY <2>1, <2>2
  <2>4. w # Scheduler BY <2>1, <1>b, <1>d
  <2> HIDE DEF JobTurn, Goal
  <2> QED BY <1>e, <2>1, <2>2, <2>3, <2>4
<1>6. ASSUME NEW w \in Workers, RunDebited(w) PROVE Goal
  <2>1. /\ job[w].op = "meter" /\ tick.pc = "idle" /\ tick' = tick
        /\ job' = [job EXCEPT ![w] = NoJob] /\ req' = [req EXCEPT ![w] = Idle]
    BY <1>6 DEF RunDebited, Ran, MeterCommit, Move, Reply, Finish
  <2>2. /\ job'[w] = NoJob
        /\ \A v \in Workers \ {w} : req'[v] = req[v] /\ job'[v] = job[v]
    BY <2>1, <1>a
  <2>3. JobTurn(w)' BY <2>2, <1>d
  <2>4. w # Scheduler BY <2>1, <1>b, <1>d
  <2> HIDE DEF JobTurn, Goal
  <2> QED BY <1>e, <2>1, <2>2, <2>3, <2>4
<1>7. ASSUME NEW w \in Workers, BillingRequest(w) \/ BillingAdvance(w) PROVE Goal
  <2>1. job[w] = NoJob /\ UNCHANGED <<job, tick>> /\ (w \in Threads \/ tick.pc = "idle")
    BY <1>7 DEF BillingRequest, BillingAdvance, rentalVars
  <2>2. req[w].op # "meter" BY <2>1, <1>d DEF MeterInv
  <2>3. \A v \in Workers \ {w} : req'[v] = req[v]
    BY <1>7, <2>2, AdvanceUnmetered, RequestUnmetered DEF BillingRequest, BillingAdvance, IInv
  <2>4. w # Scheduler
    BY <1>7, <1>a DEF BillingRequest, BillingAdvance, RenterRequest, GetWallet, SetAutoRenew,
       Recharge, RechargeCheckout, PayOrder, StripeWebhook
  <2>5. JobTurn(w)' BY <2>1, <1>d
  <2> HIDE DEF JobTurn, Goal
  <2> QED BY <1>e, <2>1, <2>3, <2>4, <2>5
<1>8. ASSUME TickBegin PROVE Goal
  <2>1. /\ UNCHANGED <<req, job>> /\ tick.pc = "idle" /\ LoopFree
        /\ tick'.pc = "next" /\ tick'.due # {}
    BY <1>8 DEF TickBegin, MyTurn, vars
  <2>2. LoopTurn' BY <2>1, <1>a DEF LoopFree, HoldsLoop
  <2> QED BY <1>b, <2>1, <2>2
<1>9. ASSUME NEW o \in Orders, TickNext(o) PROVE Goal
  <2>1. /\ tick.pc = "next" /\ tick'.pc = "wallet" /\ tick'.cur = o /\ job' = job
        /\ req' = [req EXCEPT ![Scheduler] = [op |-> "renew", pc |-> "select",
              user |-> orders[o].user, ref |-> o, amount |-> orders[o].amount, seen |-> 0]]
    BY <1>9, <1>a DEF TickNext, HandleExpiry, Begin, TickRecords
  <2>2. /\ \A v \in Workers \ {Scheduler} : req'[v] = req[v]
        /\ req'[Scheduler].op = "renew" /\ req'[Scheduler].pc = "select" /\ req'[Scheduler].ref = o
    BY <2>1, <1>a
  <2>3. TickTurn' BY <2>1, <2>2 DEF At
  <2> HIDE DEF TickTurn, Goal
  <2> QED BY <1>f, <2>1, <2>2, <2>3
<1>10. ASSUME TickWallet PROVE Goal
  <2>1. /\ tick.pc = "wallet" /\ job' = job /\ tick'.cur = tick.cur
        /\ tick'.pc = IF req'[Scheduler] = Idle THEN "expire" ELSE "charge"
    BY <1>10, <1>a DEF TickWallet, TickRecords
  <2>2. At(Scheduler, "renew", "select") /\ req[Scheduler].ref = tick.cur BY <2>1, <1>b
  <2>3. \/ req' = [req EXCEPT ![Scheduler] = Idle]
        \/ req' = [req EXCEPT ![Scheduler].pc = "commit",
                              ![Scheduler].seen = balance[req[Scheduler].user]]
    BY <1>10 DEF TickWallet, RenewLoaded, Reply, Load
  <2>4. /\ \A v \in Workers \ {Scheduler} : req'[v] = req[v]
        /\ \/ req'[Scheduler] = Idle
           \/ /\ req'[Scheduler].op = "renew" /\ req'[Scheduler].pc = "commit"
              /\ req'[Scheduler].ref = tick.cur
    BY <2>2, <2>3, <1>a DEF Requests, At
  <2>5. TickTurn' BY <2>1, <2>4 DEF At, Idle
  <2> HIDE DEF TickTurn, Goal
  <2> QED BY <1>f, <2>1, <2>4, <2>5
<1>11. ASSUME TickCharge PROVE Goal
  <2>1. /\ tick.pc = "charge" /\ job' = job /\ tick'.pc = "extend"
        /\ req' = [req EXCEPT ![Scheduler] = Idle]
    BY <1>11, <1>a DEF TickCharge, RenewCommit, Move, Reply, TickRecords
  <2>2. req'[Scheduler] = Idle /\ \A v \in Workers \ {Scheduler} : req'[v] = req[v]
    BY <2>1, <1>a
  <2>3. TickTurn' BY <2>1, <2>2
  <2> HIDE DEF TickTurn, Goal
  <2> QED BY <1>f, <2>1, <2>2, <2>3
<1>12. ASSUME TickExtend \/ TickExpire PROVE Goal
  <2>1. tick.pc \in {"extend", "expire"} /\ UNCHANGED <<req, job>> /\ Iterate
    BY <1>12 DEF TickExtend, TickExpire, vars
  <2>2. req[Scheduler] = Idle BY <2>1, <1>b
  <2>3. tick'.pc = "idle" \/ (tick'.pc = "next" /\ tick'.due = tick.due /\ tick.due # {})
    BY <2>1, <1>a DEF Iterate, NoTick, TickRecords
  <2>4. TickTurn' BY <2>1, <2>2, <2>3
  <2> HIDE DEF TickTurn, Goal
  <2> QED BY <1>f, <2>1, <2>4
<1>13. ASSUME Restart PROVE Goal
  <2>1. /\ job' = [w \in Workers |-> NoJob] /\ tick'.pc = "idle"
        /\ \A w \in Workers : req'[w] = Idle
    BY <1>13 DEF Restart, Crash, Faulted, NoTick
  <2> QED BY <2>1, <1>a, <1>d
<1>14. ASSUME \/ \E o \in Orders : CreateInstance(o)
              \/ PlaceOrder \/ PayOnPage \/ ClockAdvances \/ UNCHANGED allVars
       PROVE  Goal
  <2>1. UNCHANGED <<req, job, tick>>
    BY <1>14 DEF CreateInstance, PlaceOrder, CreateOrder, PayOnPage, RenterPays, ClockAdvances,
       allVars, rentalVars, vars
  <2> QED BY <2>1, <1>g
<1>15. ASSUME NEW w \in Workers, JobAdvance(w) PROVE Goal
  <2>1. ASSUME TransitionCommit(w) \/ JobRaises(w) \/ RunFails(w) \/ RunSucceeds(w)
        PROVE  Finish(w) /\ UNCHANGED <<req, tick>> /\ job[w].op # "none"
    BY <2>1 DEF TransitionCommit, JobRaises, RunFails, RunSucceeds, Ran, vars
  <2> HIDE DEF Goal
  <2> QED BY <1>15, <2>1, <1>3, <1>4, <1>5, <1>6 DEF JobAdvance
<1>16. ASSUME NEW w \in Workers, BillingFails(w) PROVE Goal
  <2>1. /\ tick' = tick /\ (w \in Threads \/ tick.pc = "idle") /\ w # Scheduler
        /\ job' = [job EXCEPT ![w] = NoJob]
        /\ req' = [v \in Workers |-> IF v \in {w} THEN Idle ELSE req[v]]
    BY <1>16, <1>a DEF BillingFails, StatementFails, Faulted, Finish
  <2>2. job'[w] = NoJob /\ \A v \in Workers \ {w} : req'[v] = req[v] /\ job'[v] = job[v]
    BY <2>1, <1>a
  <2>3. JobTurn(w)' BY <2>2, <1>d
  <2> HIDE DEF JobTurn, Goal
  <2> QED BY <1>e, <2>1, <2>2, <2>3
<1>17. ASSUME TickFails PROVE Goal
  <2>1. /\ tick.pc # "idle" /\ tick'.pc = "idle" /\ job' = job
        /\ req' = [v \in Workers |-> IF v \in {Scheduler} THEN Idle ELSE req[v]]
    BY <1>17 DEF TickFails, StatementFails, Faulted, NoTick
  <2>2. req'[Scheduler] = Idle /\ \A v \in Workers \ {Scheduler} : req'[v] = req[v]
    BY <2>1, <1>a
  <2>3. TickTurn' BY <2>1, <2>2
  <2> HIDE DEF TickTurn, Goal
  <2> QED BY <1>f, <2>1, <2>2, <2>3
<1> HIDE DEF Goal
<1>18. Goal
  BY <1>2, <1>7, <1>8, <1>9, <1>10, <1>11, <1>12, <1>13, <1>14, <1>15, <1>16, <1>17
  DEF RentalNext, TickAdvance
<1> QED BY <1>18 DEF Goal

-----------------------------------------------------------------------------
(* The theorems. *)

\* Nothing is rented, nothing runs.
LEMMA RentalInitInv == RentalInit => IInv /\ RentalInv
<1> SUFFICES ASSUME RentalInit PROVE IInv /\ RentalInv
  OBVIOUS
<1> USE DEF RentalInit, NothingUnderWay
<1>1. IInv BY InitIInv
<1>2. RentalTypeOK
  <2>1. NoInstance \in InstanceRecords BY DEF NoInstance, InstanceRecords, Allowed
  <2>2. NoJob \in JobRecords /\ NoTick \in TickRecords BY DEF NoJob, JobRecords, NoTick, TickRecords
  <2> QED BY <2>1, <2>2, InstancesAssumption DEF RentalTypeOK
<1>3. PayerInv BY DEF PayerInv, Init, NoOrder, At, Idle
<1>4. OrderInv BY DEF OrderInv, NoInstance
<1>5. JobInv BY DEF JobInv, NoJob
<1>6. TickInv BY BillingAssumption DEF TickInv, NoTick
<1>7. SoleOperatorInv BY BillingAssumption DEF SoleOperatorInv, Sole, NoInstance, NoJob, NoTick
<1>8. RenewalExtends BY DEF RenewalExtends, Extending, NoTick, Init
<1>9. MeterInv
  <2>1. \A o \in Orders : Metering(o) = {} BY DEF Metering, NoJob, Workers
  <2>2. IsFiniteSet({}) /\ Cardinality({}) = 0 BY FS_EmptySet
  <2> QED BY <2>1, <2>2 DEF MeterInv, Init, Idle, NoJob
<1>10. TurnInv BY DEF TurnInv, NoJob, NoTick, Init, Workers
<1> QED BY <1>1, <1>2, <1>3, <1>4, <1>5, <1>6, <1>7, <1>8, <1>9, <1>10 DEF RentalInv

\* RentalInv is inductive, given that Billing's invariant is.
LEMMA RentalNextInv == IInv /\ RentalInv /\ [RentalNext]_allVars => (IInv /\ RentalInv)'
<1> SUFFICES ASSUME IInv, RentalInv, [RentalNext]_allVars PROVE (IInv /\ RentalInv)'
  OBVIOUS
<1> USE DEF RentalInv
<1>1. [Next]_vars BY RentalBillingStep
<1>2. IInv' BY <1>1, NextIInv
<1>3. RentalTypeOK' BY RentalTypeStep
<1>4. PayerInv' BY <1>1, PayerStep
<1>5. OrderInv' BY OrderStep
<1>6. JobInv' BY JobStep
<1>7. TickInv' BY TickStep
<1>8. SoleOperatorInv' BY SoleStep
<1>9. RenewalExtends' BY RenewalStep
<1>10. MeterInv' BY MeterStep
<1>11. TurnInv' BY TurnStep
<1> QED BY <1>2, <1>3, <1>4, <1>5, <1>6, <1>7, <1>8, <1>9, <1>10, <1>11

\* Billing's invariant and the rental invariant hold of every rental system.
THEOREM RentalInvariant == RentalSpec => [](IInv /\ RentalInv)
  BY RentalInitInv, RentalNextInv, PTL DEF RentalSpec

\* app/instances and the scheduler use app/billing as Billing describes it, so all
\* that BillingProofs shows of Spec holds of the rental system.
THEOREM BillingTheorem == RentalSpec => RunsBilling
<1>1. RentalInit => Init BY DEF RentalInit
<1>2. RentalInv /\ [RentalNext]_allVars => [Next]_vars BY RentalBillingStep DEF RentalInv
<1>3. RentalSpec => []RentalInv BY RentalInvariant, PTL
<1> QED BY <1>1, <1>2, <1>3, PTL DEF RentalSpec, RunsBilling, Spec

\* Only paid orders have instances, and whoever paid has a wallet: metering and
\* renewal find it.
THEOREM OwnerTheorem == RentalSpec => []OwnerHasWallet
<1>1. RentalInv => OwnerHasWallet BY DEF RentalInv, OrderInv, PayerInv, OwnerHasWallet
<1> QED BY <1>1, RentalInvariant, PTL

\* expires_at never moves for free.  A renewal charged moves it once, or a fault came
\* between its two commits: every charge that is not extended, but for the one under
\* way, takes a restart or a raising statement of its own.
THEOREM RenewalTheorem == RentalSpec => []RenewalExtends
<1>1. RentalInv => RenewalExtends BY DEF RentalInv
<1> QED BY <1>1, RentalInvariant, PTL

\* Nothing is debited that has not run, and as long as neither the server restarts
\* nor a statement raises every successful run of a metered instance is debited once.
THEOREM RunsTheorem == RentalSpec => []RunsBilled
<1>1. IInv /\ RentalInv => RunsBilled
  <2> SUFFICES ASSUME IInv, RentalInv, NEW o \in Orders, IsMetered(o)
               PROVE  /\ usages[o] <= runs[o]
                      /\ faults = 0 => runs[o] = usages[o] + Cardinality(Metering(o))
    BY DEF RunsBilled
  <2>1. usages[o] \in Nat /\ runs[o] \in Nat BY DEF IInv, TypeOK, RentalInv, RentalTypeOK
  <2>2. /\ IsFiniteSet(Metering(o)) /\ usages[o] + Cardinality(Metering(o)) <= runs[o]
        /\ faults = 0 => usages[o] + Cardinality(Metering(o)) = runs[o]
    BY DEF RentalInv, MeterInv
  <2>3. Cardinality(Metering(o)) \in Nat BY <2>2, FS_CardinalityType
  <2> QED BY <2>1, <2>2, <2>3
<1> QED BY <1>1, RentalInvariant, PTL

\* Without overlap fail_streak counts the failures in a row.
THEOREM StreakTheorem == RentalSpec => []StreakCounts
<1>1. RentalInv => StreakCounts BY DEF RentalInv, SoleOperatorInv, Sole, StreakCounts
<1> QED BY <1>1, RentalInvariant, PTL

-----------------------------------------------------------------------------
(* What an instance's operations do when they do not overlap. *)

\* Overlap is not forgotten, so the operator of an instance outside mixed' has
\* been alone with it.
LEMMA SoleNow ==
  ASSUME RentalTypeOK, JobInv, SoleOperatorInv, [RentalNext]_allVars, NEW o \in Orders, o \notin mixed'
  PROVE  Sole(o)
<1>1. mixed \subseteq mixed'
  BY RentalCases DEF Rests, CreateInstance, JobStarts, JobSteps, Transition, Execute, Take,
     TransitionCommit, Drops, RunFails, Succeeds, RunMetered, TickBegin, TickAdvance,
     TickNext, TickWallet, TickCharge, TickExtend, TickExpire, Cut
<1> QED BY <1>1 DEF SoleOperatorInv

\* Such an instance changes status along the table.
LEMMA LegalStep ==
  ASSUME RentalInv, [RentalNext]_allVars, NEW o \in Orders, o \notin mixed'
  PROVE  Follows(o)
<1> USE DEF RentalInv
<1>a. inst \in [Orders -> InstanceRecords] /\ job \in [Workers -> JobRecords] BY DEF RentalTypeOK
<1>b. Sole(o) BY SoleNow
<1>1. CASE inst'[o].status = inst[o].status BY <1>1 DEF Follows
<1>2. ASSUME NEW p \in Orders, CreateInstance(p) PROVE Follows(o)
  <2>1. CASE o = p
    <3>1. inst[o].status = "none" /\ inst'[o].status = "created"
      BY <1>2, <2>1, <1>a DEF CreateInstance, NoInstance
    <3> QED BY <3>1 DEF Follows, Allowed
  <2>2. CASE o # p BY <1>1, <1>2, <2>2, <1>a DEF CreateInstance
  <2> QED BY <2>1, <2>2
<1>3. ASSUME NEW w \in Workers, TransitionCommit(w) PROVE Follows(o)
  <2>1. CASE job[w].order = o
    <3>1. job[w].target \in Allowed[inst[o].status] BY <1>3, <2>1, <1>b DEF TransitionCommit, Sole
    <3>2. inst'[o].status = job[w].target BY <1>3, <2>1, <1>a DEF TransitionCommit, InstanceRecords
    <3> QED BY <3>1, <3>2 DEF Follows
  <2>2. CASE job[w].order # o BY <1>1, <1>3, <2>2, <1>a DEF TransitionCommit
  <2> QED BY <2>1, <2>2
<1>4. ASSUME NEW w \in Workers, RunFails(w) PROVE Follows(o)
  <2>1. CASE job[w].order = o
    <3>1. inst[o].status = "running" BY <1>4, <2>1, <1>b DEF RunFails, Ran, Sole
    <3>2. inst'[o].status \in {"paused", inst[o].status}
      BY <1>4, <2>1, <1>a DEF RunFails, InstanceRecords
    <3> QED BY <3>1, <3>2 DEF Follows, Allowed
  <2>2. CASE job[w].order # o BY <1>1, <1>4, <2>2, <1>a DEF RunFails
  <2> QED BY <2>1, <2>2
<1>5. ASSUME NEW w \in Workers, Succeeds(w) PROVE inst'[o].status = inst[o].status
  BY <1>5, <1>a DEF Succeeds, ClearStreak, InstanceRecords
<1>6. CASE TickExtend
  <2>1. inst'[o].status = inst[o].status BY <1>6, <1>a DEF TickExtend, InstanceRecords
  <2> QED BY <2>1, <1>1
<1>7. CASE TickExpire
  <2>1. CASE tick.cur = o
    <3>1. inst[o].status = "running" BY <2>1, <1>b DEF Sole
    <3>2. inst'[o].status = "expired" BY <1>7, <2>1, <1>a DEF TickExpire, InstanceRecords
    <3> QED BY <3>1, <3>2 DEF Follows, Allowed
  <2>2. CASE tick.cur # o BY <1>1, <1>7, <2>2, <1>a DEF TickExpire
  <2> QED BY <2>1, <2>2
<1>8. CASE inst' = inst BY <1>1, <1>8
<1> QED
  BY RentalCases, <1>1, <1>2, <1>3, <1>4, <1>5, <1>6, <1>7, <1>8
  DEF Rests, JobStarts, Transition, Execute, Take, JobSteps, Drops, RunMetered, TickBegin,
      TickAdvance, TickNext, TickWallet, TickCharge, Cut

\* A renewal of it is charged, and a run of it counted, only while it is RUNNING.
LEMMA ServedStep ==
  ASSUME RentalInv, [RentalNext]_allVars, NEW o \in Orders, o \notin mixed',
         renewals'[o] > renewals[o] \/ runs'[o] > runs[o]
  PROVE  inst[o].status = "running"
<1> USE DEF RentalInv
<1>a. runs \in [Orders -> Nat] /\ renewals \in [Orders -> Nat] BY DEF RentalTypeOK
<1>b. Sole(o) BY SoleNow
<1>c. ~ UNCHANGED <<runs, renewals>> BY <1>a
<1>1. ASSUME NEW w \in Workers, JobAdvance(w) PROVE inst[o].status = "running"
  <2>1. UNCHANGED renewals
    BY <1>1 DEF JobAdvance, TransitionCommit, JobRaises, RunFails, RunSucceeds, RunMetered,
       RunWallet, RunDebited, rentalVars, historyVars
  <2>2. CASE UNCHANGED runs BY <2>1, <2>2, <1>c
  <2>3. CASE job[w].op = "run" /\ CountRun(w)
    <3>1. job[w].order = o BY <2>1, <2>3, <1>a DEF CountRun
    <3> QED BY <2>3, <3>1, <1>b DEF Sole
  <2> QED
    BY <1>1, <2>2, <2>3 DEF JobAdvance, TransitionCommit, JobRaises, RunFails, RunSucceeds,
       RunMetered, RunWallet, RunDebited, Ran, rentalVars, historyVars
<1>2. CASE TickCharge
  <2>1. UNCHANGED runs /\ renewals' = [renewals EXCEPT ![tick.cur] = @ + 1] BY <1>2 DEF TickCharge
  <2>2. tick.cur = o BY <2>1, <1>a
  <2> QED BY <2>2, <1>b DEF Sole
<1>3. CASE UNCHANGED <<runs, renewals>> BY <1>3, <1>c
<1>4. ASSUME NEW w \in Workers, BillingRequest(w) \/ BillingAdvance(w) PROVE UNCHANGED <<runs, renewals>>
  BY <1>4 DEF BillingRequest, BillingAdvance, rentalVars, historyVars
<1>5. ASSUME NEW w \in Workers, NEW p \in Orders, NEW target, Transition(w, p, target) \/ Execute(w, p)
      PROVE  UNCHANGED <<runs, renewals>>
  BY <1>5 DEF Transition, Execute, Take, historyVars
<1>6. ASSUME NEW w \in Workers, BillingFails(w) PROVE UNCHANGED <<runs, renewals>>
  BY <1>6 DEF BillingFails, historyVars
<1> QED
  BY <1>1, <1>2, <1>3, <1>4, <1>5, <1>6
  DEF RentalNext, CreateInstance, TickBegin, TickAdvance, TickNext, TickWallet, TickExtend,
      TickExpire, TickFails, PlaceOrder, PayOnPage, ClockAdvances, Restart, allVars, rentalVars, historyVars

\* Whatever the renters and the scheduler do, an instance whose operations never
\* overlapped follows the table of allowed transitions.
THEOREM LegalTheorem == RentalSpec => SoleOperatorLegal
<1>1. RentalInv /\ [RentalNext]_allVars => [\A o \in Orders \ mixed' : Follows(o)]_allVars
  BY LegalStep
<1> QED BY <1>1, RentalInvariant, PTL DEF RentalSpec, SoleOperatorLegal

\* Without overlap a renewal is charged, and a task done, only while the instance
\* is RUNNING.
THEOREM ServedTheorem == RentalSpec => SoleOperatorServed
<1>1. RentalInv /\ [RentalNext]_allVars =>
        [\A o \in Orders \ mixed' :
            renewals'[o] > renewals[o] \/ runs'[o] > runs[o] => inst[o].status = "running"]_allVars
  BY ServedStep
<1> QED BY <1>1, RentalInvariant, PTL DEF RentalSpec, SoleOperatorServed

-----------------------------------------------------------------------------
(* What app/instances inherits from app/billing. *)

\* Wallets, orders and the ledger keep the promise of Accounts while instances run,
\* are renewed and metered.
THEOREM RentalPromise == RentalSpec => KeepsPromise
  BY BillingTheorem, PromiseTheorem, PTL DEF RunsBilling

\* As long as neither the server restarts nor a statement raises, every renewal charged
\* has been extended whenever no tick is under way: nothing else leaves the gap that
\* ChargedIsExtended has, neither overlap nor threads that commit during the tick.
THEOREM UninterruptedTheorem == RentalSpec => [](faults = 0 => ChargedIsExtended)
<1>1. RentalInv => (faults = 0 => ChargedIsExtended)
  <2> SUFFICES ASSUME RentalInv, faults = 0, tick.pc = "idle" PROVE renewals = extended
    BY DEF ChargedIsExtended
  <2>1. renewals \in [Orders -> Nat] /\ extended \in [Orders -> Nat]
    BY DEF RentalInv, RentalTypeOK
  <2>2. ASSUME NEW o \in Orders PROVE renewals[o] = extended[o]
    <3>1. Extending(o) = 0 BY DEF Extending
    <3>2. extended[o] + 0 <= renewals[o] /\ renewals[o] <= extended[o] + 0 + 0
      BY <3>1 DEF RentalInv, RenewalExtends
    <3> QED BY <2>1, <3>2
  <2> QED BY <2>1, <2>2
<1> QED BY <1>1, RentalInvariant, PTL

-----------------------------------------------------------------------------
(* What JobsEnd rests on besides fairness: an operation or a tick that is under *)
(* way has its next step ready, and each of its steps brings it nearer the end. *)

\* The guards of the steps of w's job: an execution waits for its turn on the loop,
\* a debit for nothing.
JobReady(w) ==
    \/ job[w].op = "move"
    \/ job[w].op = "run" /\ req[w] = Idle /\ orders[job[w].order].status = "paid"
    \/ /\ job[w].op = "meter" /\ tick.pc = "idle"
       /\ At(w, "meter", "commit") \/ (At(w, "meter", "select") /\ req[w].user \in wallets)

\* The guards of the steps of a tick.
TickReady ==
    \/ /\ tick.pc = "next" /\ tick.due # {} /\ req[Scheduler] = Idle /\ LoopFree
       /\ \A o \in tick.due : orders[o].status = "paid" /\ orders[o].template \notin Metered
    \/ tick.pc = "wallet" /\ At(Scheduler, "renew", "select") /\ req[Scheduler].user \in wallets
    \/ tick.pc = "charge" /\ At(Scheduler, "renew", "commit")
    \/ tick.pc \in {"extend", "expire"} /\ tick.cur \in Orders

\* No operation is ever stuck half done, and no tick waits for what another request
\* holds, whatever races, lost updates and faults came before.
THEOREM ReadyTheorem ==
  RentalSpec => [](/\ \A w \in Workers : job[w] # NoJob => JobReady(w)
                   /\ tick # NoTick => TickReady)
<1> DEFINE Ready == /\ \A w \in Workers : job[w] # NoJob => JobReady(w)
                    /\ tick # NoTick => TickReady
<1>1. IInv /\ RentalInv => Ready
  <2> SUFFICES ASSUME IInv, RentalInv PROVE Ready
    OBVIOUS
  <2> USE DEF RentalInv
  <2>a. /\ job \in [Workers -> JobRecords] /\ req \in [Workers -> Requests] /\ tick \in TickRecords
        /\ Threads \cap Tasks = {} /\ Scheduler \in Workers
    BY BillingAssumption DEF RentalTypeOK, IInv, TypeOK, Workers
\* A metering or renewing request's user has paid, hence has a wallet.
  <2>b. ASSUME NEW w \in Workers, req[w].op \in {"meter", "renew"} PROVE req[w].user \in wallets
    BY <2>b DEF IInv, RequestInv, PriceInv, PayerInv
  <2>1. ASSUME NEW w \in Workers, job[w] # NoJob PROVE JobReady(w)
    <3>1. job[w].op \in {"move", "run", "meter"} /\ job[w].order \in Orders
      BY <2>1, <2>a DEF JobInv, JobRecords
    <3>2. CASE job[w].op = "move" BY <3>2 DEF JobReady
    <3>3. CASE job[w].op = "run" BY <3>1, <3>3 DEF JobReady, TurnInv, JobInv, OrderInv
    <3>4. CASE job[w].op = "meter"
      <4>1. req[w].op = "meter" /\ req[w].pc \in {"select", "commit"} /\ w \in Tasks
        BY <3>4 DEF MeterInv, TurnInv
      <4>2. HoldsLoop(w) BY <4>1, <2>a DEF HoldsLoop
      <4>3. tick.pc = "idle" BY <4>1, <4>2 DEF TurnInv
      <4> QED BY <3>4, <4>1, <4>3, <2>b DEF JobReady, At
    <3> QED BY <3>1, <3>2, <3>3, <3>4
  <2>2. ASSUME tick # NoTick PROVE TickReady
    <3>1. tick.pc \in {"next", "wallet", "charge", "extend", "expire"}
      BY <2>2, <2>a DEF TickInv, TickRecords
    <3>2. CASE tick.pc = "next"
      <4>1. tick.due # {} /\ req[Scheduler] = Idle /\ \A w \in Tasks : ~ HoldsLoop(w)
        BY <3>2 DEF TurnInv
      <4>2. LoopFree BY <4>1 DEF LoopFree, HoldsLoop, Workers, Idle
      <4>3. \A o \in tick.due : orders[o].status = "paid" /\ orders[o].template \notin Metered
        BY <2>a DEF TickInv, OrderInv, IsMetered, TickRecords
      <4> QED BY <3>2, <4>1, <4>2, <4>3 DEF TickReady
    <3>3. CASE tick.pc = "wallet" BY <3>3, <2>a, <2>b DEF TurnInv, At, TickReady
    <3>4. CASE tick.pc = "charge" BY <3>4 DEF TurnInv, TickReady
    <3>5. CASE tick.pc \in {"extend", "expire"} BY <3>5 DEF TickInv, TickReady
    <3> QED BY <3>1, <3>2, <3>3, <3>4, <3>5
  <2> QED BY <2>1, <2>2
<1> QED BY <1>1, RentalInvariant, PTL

\* An operation ends, goes on from its run to the debit, or stays as it is.
JobNearer(w) ==
    \/ job'[w] \in {job[w], NoJob}
    \/ job[w].op = "run" /\ job'[w] = [job[w] EXCEPT !.op = "meter"]

\* How far the instance at hand is from the end of _handle_expiry.
Stage ==
    CASE tick.pc = "wallet" -> 3
      [] tick.pc = "charge" -> 2
      [] tick.pc \in {"extend", "expire"} -> 1
      [] OTHER -> 0

\* A tick ends, has fewer instances before it, or gets on with the one at hand.
TickNearer ==
    \/ tick' = NoTick
    \/ tick'.due \subseteq tick.due /\ tick'.due # tick.due
    \/ tick'.due = tick.due /\ Stage' < Stage

LEMMA JobNearerStep ==
  ASSUME RentalTypeOK, JobInv, [RentalNext]_allVars, NEW w \in Workers, job[w] # NoJob
  PROVE  JobNearer(w)
<1>a. job \in [Workers -> JobRecords] BY DEF RentalTypeOK
<1>1. ASSUME job'[w] = job[w] PROVE JobNearer(w) BY <1>1 DEF JobNearer
<1>2. ASSUME NEW v \in Workers, Finish(v) PROVE JobNearer(w)
  <2>1. CASE v = w BY <1>2, <2>1, <1>a DEF Finish, JobNearer
  <2>2. CASE v # w BY <1>1, <1>2, <2>2, <1>a DEF Finish
  <2> QED BY <2>1, <2>2
<1>3. ASSUME NEW v \in Workers, NEW o \in Orders, NEW op, NEW target, Take(v, o, op, target)
      PROVE  JobNearer(w)
  <2>1. v # w BY <1>3 DEF Take
  <2> QED BY <1>1, <1>3, <2>1, <1>a DEF Take
<1>4. ASSUME NEW v \in Workers, RunMetered(v) PROVE JobNearer(w)
  <2>1. job[v].op = "run" /\ job' = [job EXCEPT ![v].op = "meter"] BY <1>4 DEF RunMetered, Ran
  <2>2. CASE v = w
    <3>1. job'[w] = [job[w] EXCEPT !.op = "meter"] BY <2>1, <2>2, <1>a
    <3> QED BY <2>1, <2>2, <3>1 DEF JobNearer
  <2>3. CASE v # w BY <1>1, <2>1, <2>3, <1>a
  <2> QED BY <2>2, <2>3
<1>5. CASE Cut BY <1>1, <1>5 DEF Cut, JobNearer
<1>6. CASE job' = job BY <1>1, <1>6
<1> QED
  BY RentalCases, <1>2, <1>3, <1>4, <1>5, <1>6
  DEF Rests, CreateInstance, JobStarts, Transition, Execute, JobSteps, TransitionCommit, Drops,
      RunFails, Succeeds, TickBegin, TickAdvance, TickNext, TickWallet, TickCharge, TickExtend,
      TickExpire

LEMMA TickNearerStep ==
  ASSUME RentalTypeOK, JobInv, TickInv, [RentalNext]_allVars, tick # NoTick, tick' # tick
  PROVE  TickNearer
<1>a. tick \in TickRecords BY DEF RentalTypeOK
<1>b. tick.pc # "idle" BY DEF TickInv
<1>1. ASSUME NEW o \in Orders, TickNext(o) PROVE TickNearer
  <2>1. o \in tick.due /\ tick'.due = tick.due \ {o}
    BY <1>1, <1>a DEF TickNext, TickRecords
  <2> QED BY <2>1 DEF TickNearer
<1>2. CASE TickWallet
  <2>1. tick.pc = "wallet" /\ tick'.pc \in {"charge", "expire"} /\ tick'.due = tick.due
    BY <1>2, <1>a DEF TickWallet, TickRecords
  <2>2. Stage = 3 BY <2>1 DEF Stage
  <2>3. Stage' \in {1, 2} BY <2>1 DEF Stage
  <2> QED BY <2>1, <2>2, <2>3 DEF TickNearer
<1>3. CASE TickCharge
  <2>1. tick.pc = "charge" /\ tick'.pc = "extend" /\ tick'.due = tick.due
    BY <1>3, <1>a DEF TickCharge, TickRecords
  <2>2. Stage = 2 BY <2>1 DEF Stage
  <2>3. Stage' = 1 BY <2>1 DEF Stage
  <2> QED BY <2>1, <2>2, <2>3 DEF TickNearer
<1>4. CASE TickExtend \/ TickExpire
  <2>1. tick.pc \in {"extend", "expire"} /\ Iterate BY <1>4 DEF TickExtend, TickExpire
  <2>2. CASE tick' = NoTick BY <2>2 DEF TickNearer
  <2>3. CASE tick' # NoTick
    <3>1. tick'.pc = "next" /\ tick'.due = tick.due BY <2>1, <2>3, <1>a DEF Iterate, TickRecords
    <3>2. Stage = 1 BY <2>1 DEF Stage
    <3>3. Stage' = 0 BY <3>1 DEF Stage
    <3> QED BY <3>1, <3>2, <3>3 DEF TickNearer
  <2> QED BY <2>2, <2>3
<1>5. CASE Cut BY <1>5 DEF Cut, TickNearer
<1>6. CASE TickBegin BY <1>6, <1>b DEF TickBegin, MyTurn
<1> QED
  BY RentalCases, <1>1, <1>2, <1>3, <1>4, <1>5, <1>6
  DEF Rests, CreateInstance, JobStarts, Transition, Execute, Take, JobSteps, TransitionCommit,
      Drops, RunFails, Succeeds, RunMetered, TickAdvance

\* No operation on an instance goes back, and no tick takes up an instance twice.
THEOREM NearerTheorem ==
  RentalSpec => [][/\ \A w \in Workers : job[w] # NoJob => JobNearer(w)
                   /\ tick # NoTick /\ tick' # tick => TickNearer]_allVars
<1>1. RentalInv /\ [RentalNext]_allVars =>
        [/\ \A w \in Workers : job[w] # NoJob => JobNearer(w)
         /\ tick # NoTick /\ tick' # tick => TickNearer]_allVars
  BY JobNearerStep, TickNearerStep DEF RentalInv
<1> QED BY <1>1, RentalInvariant, PTL DEF RentalSpec

=============================================================================
