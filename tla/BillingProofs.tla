--------------------------- MODULE BillingProofs ---------------------------
(***************************************************************************)
(* Proofs about Billing, for every number of users, orders, sessions and   *)
(* workers, every provider, any prices and any bounds.                     *)
(*                                                                         *)
(* IInv, defined at the end of Billing, is shown inductive: the steps of   *)
(* Next are first sorted by what they do (ArriveCases, AdvanceCases), then *)
(* each conjunct of IInv has a lemma with one step per kind of step.  The  *)
(* properties follow from IInv, and so does the refinement of Accounts.    *)
(***************************************************************************)
EXTENDS Billing, FiniteSetTheorems, TLAPS

PCs == {"idle", "select", "insert", "await", "commit"}

\* Advancing, loading or answering a request keeps it a request.
LEMMA ReqTypes ==
  ASSUME req \in [Workers -> Requests], NEW w \in Workers
  PROVE  /\ req[w] \in Requests
         /\ \A pc \in PCs : [req EXCEPT ![w].pc = pc] \in [Workers -> Requests]
         /\ \A pc \in PCs, n \in Int :
               [req EXCEPT ![w].pc = pc, ![w].seen = n] \in [Workers -> Requests]
         /\ [req EXCEPT ![w] = Idle] \in [Workers -> Requests]
<1>1. req[w] \in Requests OBVIOUS
<1>2. \A pc \in PCs : [req[w] EXCEPT !.pc = pc] \in Requests BY <1>1 DEF Requests, PCs
<1>3. \A pc \in PCs, n \in Int : [req[w] EXCEPT !.pc = pc, !.seen = n] \in Requests BY <1>1 DEF Requests, PCs
<1>4. Idle \in Requests BY DEF Idle, Requests
<1>5. ASSUME NEW pc \in PCs, NEW n \in Int 
      PROVE [req EXCEPT ![w].pc = pc, ![w].seen = n] \in [Workers -> Requests]
  <2>1. [req EXCEPT ![w].pc = pc, ![w].seen = n] = [req EXCEPT ![w] = [req[w] EXCEPT !.pc = pc, !.seen = n]] OBVIOUS
  <2>2. QED BY <2>1, <1>3
<1>6. ASSUME NEW pc \in PCs
      PROVE [req EXCEPT ![w].pc = pc] \in [Workers -> Requests]
  <2>1. [req EXCEPT ![w].pc = pc] = [req EXCEPT ![w] = [req[w] EXCEPT !.pc = pc]] OBVIOUS
  <2>2. QED BY <2>1, <1>2
<1> QED BY <1>1, <1>4, <1>5, <1>6

-----------------------------------------------------------------------------
(* The steps of Next, by what they do to the rows the invariants speak of. *)

Rows == <<balance, orders, sessions, rowVars>>

\* A request r arrives at w.
Arrives(w, r) ==
    /\ req[w] = Idle
    /\ w \notin Threads => LoopFree
    /\ req' = [req EXCEPT ![w] = r]
    /\ r \in Requests
    /\ r.op # "none" /\ r.user \in Users /\ r.seen = 0
    /\ r.pc = IF r.op = "checkout" THEN "await" ELSE "select"
    /\ r.op \in {"pay", "meter", "renew"} => r.ref \in Orders /\ orders[r.ref].user = r.user
    /\ r.op = "pay" => orders[r.ref].status = "pending"
    /\ r.op \in {"pay", "renew"} => r.amount = orders[r.ref].amount
    /\ r.op = "meter" => r.amount = Price[orders[r.ref].template]
    /\ r.op \in {"meter", "renew"} =>
          /\ orders[r.ref].status = "paid"
          /\ orders[r.ref].template \in Metered <=> r.op = "meter"
    /\ r.op \in {"recharge", "webhook", "checkout"} => r.amount >= 0
    /\ r.op = "webhook" =>
          /\ w \notin Threads /\ r.ref \in Sessions
          /\ sessions[r.ref].status = "pending" /\ sessions[r.ref].paid
          /\ sessions[r.ref].user = r.user /\ sessions[r.ref].amount = r.amount
    /\ shared' = IF r.op # "checkout" /\ InFlight(r.user) THEN shared \cup {r.user} ELSE shared
    /\ UNCHANGED <<walletVars, orders, sessions, rowVars, captured, faults>>
    /\ issued' \in 0 .. MaxRequests

\* A request that arrives, from the renter, the scheduler or the payment provider,
\* starts at an idle worker with the rows it names in the state its handler checked.
LEMMA ArriveCases ==
  ASSUME TypeOK, RowInv, NEW w \in Workers,
         Arrive(w) \/ \E s \in Sessions : StripeWebhook(w, s)
  PROVE  \E r \in Requests : Arrives(w, r)
<1> DEFINE R(op, u, ref, amount) == [op |-> op, pc |-> "select", user |-> u,
                                     ref |-> ref, amount |-> amount, seen |-> 0]
<1> USE BillingAssumption DEF TypeOK, OrderRecords, SessionRecords
<1>0. Counted => issued' \in 0 .. MaxRequests
  BY DEF Counted
<1>1. ASSUME NEW u \in Users, GetWallet(w, u) PROVE Arrives(w, R("get", u, None, 0))
  BY <1>0, <1>1 DEF GetWallet, Begin, Arrives, Requests
<1>2. ASSUME NEW u \in Users, NEW op \in {"auto_on", "auto_off"}, SetAutoRenew(w, u, op)
      PROVE  Arrives(w, R(op, u, None, 0))
  BY <1>0, <1>2 DEF SetAutoRenew, Begin, Arrives, Requests
<1>3. ASSUME NEW u \in Users, NEW amount \in Amounts, Recharge(w, u, amount)
      PROVE  Arrives(w, R("recharge", u, None, amount))
  BY <1>0, <1>3 DEF Recharge, Begin, Arrives, Requests
<1>4. ASSUME NEW u \in Users, NEW amount \in Amounts, RechargeCheckout(w, u, amount)
      PROVE  Arrives(w, [op |-> "checkout", pc |-> "await", user |-> u,
                         ref |-> None, amount |-> amount, seen |-> 0])
  BY <1>0, <1>4 DEF RechargeCheckout, Arrives, Requests
<1>5. ASSUME NEW o \in Orders, PayOrder(w, o)
      PROVE  Arrives(w, R("pay", orders[o].user, o, orders[o].amount))
  BY <1>0, <1>5 DEF PayOrder, Begin, Arrives, Requests, RowInv
<1>6. ASSUME NEW o \in Orders, MeterConsumption(w, o)
      PROVE  Arrives(w, R("meter", orders[o].user, o, Price[orders[o].template]))
  BY <1>0, <1>6 DEF MeterConsumption, Begin, Arrives, Requests, RowInv
<1>7. ASSUME NEW o \in Orders, HandleExpiry(w, o)
      PROVE  Arrives(w, R("renew", orders[o].user, o, orders[o].amount))
  BY <1>0, <1>7 DEF HandleExpiry, Begin, Arrives, Requests, RowInv
<1>8. ASSUME NEW s \in Sessions, StripeWebhook(w, s)
      PROVE  Arrives(w, R("webhook", sessions[s].user, s, sessions[s].amount))
  BY <1>8 DEF StripeWebhook, Begin, Arrives, Requests, RowInv
<1>9. \A r : Arrives(w, r) => \E q \in Requests : Arrives(w, q)
  BY DEF Arrives
<1> HIDE DEF R
<1>10. CASE \E s \in Sessions : StripeWebhook(w, s)
  BY <1>8, <1>9, <1>10
<1>11. CASE Arrive(w)
  <2>1. CASE \E u \in Users : GetWallet(w, u) BY <1>1, <1>9, <2>1
  <2>2. CASE \E u \in Users, op \in {"auto_on", "auto_off"} : SetAutoRenew(w, u, op)
    BY <1>2, <1>9, <2>2
  <2>3. CASE \E u \in Users, amount \in Amounts : Recharge(w, u, amount) BY <1>3, <1>9, <2>3
  <2>4. CASE \E u \in Users, amount \in Amounts : RechargeCheckout(w, u, amount)
    BY <1>4, <1>9, <2>4
  <2>5. CASE \E o \in Orders : PayOrder(w, o) BY <1>5, <1>9, <2>5
  <2>6. CASE \E o \in Orders : MeterConsumption(w, o) BY <1>6, <1>9, <2>6
  <2>7. CASE \E o \in Orders : HandleExpiry(w, o) BY <1>7, <1>9, <2>7
  <2> QED BY <1>11, <2>1, <2>2, <2>3, <2>4, <2>5, <2>6, <2>7 DEF Arrive, RenterRequest
<1> QED BY <1>10, <1>11

\* No row but a Wallet row is touched, and none of those deleted.
Kept == UNCHANGED <<Rows, shared, faults>> /\ wallets \subseteq wallets'

\* w finds no wallet, or inserts it.
Passes(w, pc) ==
    /\ req[w].user \notin wallets
    /\ \/ req[w].pc = "select" /\ pc = "insert"
       \/ req[w].pc = "insert" /\ pc = "select" /\ req[w].user \in wallets'
    /\ Goto(w, pc)
    /\ UNCHANGED captured
    /\ Kept

\* w has read its wallet; a direct recharge has charged by now.
Loads(w, pc) ==
    /\ req[w].pc = "select"
    /\ req[w].user \in wallets
    /\ pc = "commit"
    /\ req[w].op \in {"pay", "renew"} => balance[req[w].user] >= req[w].amount
    /\ req[w].op = "recharge" => Provider # "stripe"
    /\ Load(w, pc)
    /\ captured' = IF req[w].op = "recharge"
                   THEN [captured EXCEPT ![req[w].user] = @ + req[w].amount]
                   ELSE captured
    /\ Kept

\* w answers without moving money.
Replies(w) == ~ At(w, "recharge", "commit") /\ Reply(w) /\ UNCHANGED captured /\ Kept

\* Every other step of a request changes only how far it is, loads the wallet,
\* answers, inserts a checkout session, or is one of the five commits that move money.
LEMMA AdvanceCases ==
  ASSUME TypeOK, RequestInv, NEW w \in Workers, Advance(w)
  PROVE  \/ \E pc \in PCs : Passes(w, pc)
         \/ \E pc \in PCs : Loads(w, pc)
         \/ Replies(w)
         \/ \E s \in Sessions : CheckoutCreated(w, s)
         \/ PayCommit(w)
         \/ RechargeCommit(w)
         \/ WebhookCommit(w)
         \/ MeterCommit(w)
         \/ RenewCommit(w)
<1> USE DEF Kept, Rows, rowVars, walletVars, boundVars, Loaded, At
<1>1. CASE WalletMissing(w)
  <2>1. Passes(w, "insert") BY <1>1 DEF WalletMissing, Passes
  <2> QED BY <2>1 DEF PCs
<1>2. CASE InsertWallet(w)
  <2>1. Passes(w, "select") BY <1>2 DEF InsertWallet, Passes
  <2> QED BY <2>1 DEF PCs
<1>3. CASE InsertConflict(w) BY <1>3 DEF InsertConflict, Replies
<1>4. CASE GetLoaded(w) BY <1>4 DEF GetLoaded, Replies
<1>5. ASSUME NEW op \in {"auto_on", "auto_off"}, AutoLoaded(w, op)
      PROVE  Replies(w) \/ Loads(w, "commit")
  BY <1>5 DEF AutoLoaded, Replies, Loads
<1>6. CASE PayLoaded(w)
  <2>1. Replies(w) \/ Loads(w, "commit")
    <3>1. req[w].user \in wallets /\ req[w].op = "pay" BY <1>6 DEF PayLoaded
    <3>2. balance[req[w].user] \in Int /\ req[w].amount \in Int
      BY <3>1, ReqTypes DEF TypeOK, Requests
    <3> QED BY <1>6, <3>2 DEF PayLoaded, Replies, Loads
  <2> QED BY <2>1 DEF PCs
<1>7. CASE RechargeCharged(w)
  <2>1. Loads(w, "commit") BY <1>7 DEF RechargeCharged, Loads
  <2> QED BY <2>1 DEF PCs
<1>8. CASE RechargeRefused(w) BY <1>8 DEF RechargeRefused, Replies
<1>9. CASE WebhookLoaded(w)
  <2>1. Loads(w, "commit") BY <1>9 DEF WebhookLoaded, Loads
  <2> QED BY <2>1 DEF PCs
<1>10. CASE MeterLoaded(w)
  <2>1. Loads(w, "commit") BY <1>10 DEF MeterLoaded, Loads
  <2> QED BY <2>1 DEF PCs
<1>11. CASE RenewLoaded(w)
  <2>1. Replies(w) \/ Loads(w, "commit") BY <1>11 DEF RenewLoaded, Replies, Loads
  <2> QED BY <2>1 DEF PCs
<1>12. CASE ProviderFails(w) BY <1>12 DEF ProviderFails, Replies
<1>13. ASSUME NEW op \in {"auto_on", "auto_off"}, AutoCommit(w, op)
       PROVE  Replies(w)
  BY <1>13 DEF AutoCommit, Replies
<1>14. "commit" \in PCs BY DEF PCs
<1> QED
  BY <1>1, <1>2, <1>3, <1>4, <1>5, <1>6, <1>7, <1>8, <1>9, <1>10, <1>11,
     <1>12, <1>13, <1>14 DEF Advance

-----------------------------------------------------------------------------
(* Type correctness. *)

\* A commit that moves money keeps the types of what it writes.
LEMMA MoveTypes ==
  ASSUME TypeOK, NEW w \in Workers, NEW delta \in Int, Move(w, delta), req[w].user \in Users
  PROVE  /\ balance' \in [Users -> Int] /\ ledger' \in [Users -> Int]
         /\ req' \in [Workers -> Requests]
         /\ UNCHANGED <<wallets, autoRenew, captured, shared, issued, faults>>
<1>0. req[w] \in Requests BY ReqTypes DEF TypeOK
<1>1. req[w].seen + delta \in Int BY <1>0 DEF Requests
<1>2. balance' \in [Users -> Int] BY <1>1 DEF TypeOK, Move, SetBalance
<1>3. ledger' \in [Users -> Int] BY DEF TypeOK, Move, Record
<1>4. req' \in [Workers -> Requests] BY ReqTypes DEF TypeOK, Move, Reply
<1> QED
  BY <1>2, <1>3, <1>4 DEF Move, boundVars

\* A step of a request in flight preserves the type invariant.
LEMMA AdvanceTypes ==
  ASSUME TypeOK, RequestInv, NEW w \in Workers, Advance(w)
  PROVE  TypeOK'
<1>a. req \in [Workers -> Requests] /\ req[w] \in Requests
  BY ReqTypes DEF TypeOK
<1>b. /\ req[w].amount \in Int /\ req[w].seen \in Int
      /\ req[w].user \in wallets => balance[req[w].user] \in Int
  BY <1>a DEF Requests, TypeOK
<1>c. /\ req[w].op # "none" => req[w].user \in Users
      /\ req[w].pc # "idle" => req[w].op # "none"
      /\ req[w].op \in {"recharge", "webhook", "checkout"} => req[w].amount \in Nat
  BY <1>b DEF RequestInv, Idle
<1>d. /\ "select" \in PCs /\ "insert" \in PCs /\ "await" \in PCs /\ "commit" \in PCs
  BY DEF PCs
<1>e. /\ \A pc \in PCs : Goto(w, pc) => req' \in [Workers -> Requests]
      /\ Reply(w) => req' \in [Workers -> Requests]
      /\ \A pc \in PCs : req[w].user \in wallets /\ Load(w, pc) => req' \in [Workers -> Requests]
  <2>1. ASSUME NEW pc \in PCs, Goto(w, pc) PROVE req' \in [Workers -> Requests]
    BY <2>1, <1>a, ReqTypes DEF Goto
  <2>2. ASSUME Reply(w) PROVE req' \in [Workers -> Requests]
    BY <2>2, <1>a, ReqTypes DEF Reply
  <2>3. ASSUME NEW pc \in PCs, req[w].user \in wallets, Load(w, pc)
        PROVE  req' \in [Workers -> Requests]
    <3>1. balance[req[w].user] \in Int BY <2>3, <1>b
    <3> QED BY <2>3, <3>1, <1>a, ReqTypes DEF Load
  <2> QED BY <2>1, <2>2, <2>3
<1>1. CASE WalletMissing(w) BY <1>1, <1>d, <1>e DEF WalletMissing, TypeOK, walletVars, rowVars, boundVars
<1>2. CASE InsertWallet(w)
  <2>1. req[w].user \in Users BY <1>2, <1>c DEF InsertWallet
  <2> QED BY <1>2, <2>1, <1>d, <1>e DEF InsertWallet, TypeOK, rowVars, boundVars
<1>3. CASE InsertConflict(w) BY <1>3, <1>e DEF InsertConflict, TypeOK, walletVars, rowVars, boundVars
<1>f. ASSUME NEW op, Loaded(w, op),
             Reply(w) \/ Load(w, "commit")
      PROVE  TypeOK'
  BY <1>f, <1>d, <1>e DEF Loaded, TypeOK, walletVars, rowVars, boundVars
<1>4. CASE GetLoaded(w) BY <1>4, <1>f DEF GetLoaded
<1>5. ASSUME NEW op \in {"auto_on", "auto_off"}, AutoLoaded(w, op) PROVE TypeOK'
  BY <1>5, <1>f DEF AutoLoaded
<1>6. CASE PayLoaded(w) BY <1>6, <1>f DEF PayLoaded
<1>g. ASSUME req[w].user \in Users, req[w].amount \in Nat
      PROVE  /\ [captured EXCEPT ![req[w].user] = @ + req[w].amount] \in [Users -> Nat]
             /\ [credited EXCEPT ![req[w].user] = @ + req[w].amount] \in [Users -> Nat]
  BY <1>g DEF TypeOK
<1>7. CASE RechargeCharged(w)
  <2>1. captured' \in [Users -> Nat] BY <1>7, <1>c, <1>g DEF RechargeCharged, At
  <2>2. req' \in [Workers -> Requests] BY <1>7, <1>d, <1>e DEF RechargeCharged
  <2> QED BY <1>7, <2>1, <2>2 DEF RechargeCharged, TypeOK, walletVars, rowVars, boundVars
<1>8. CASE RechargeRefused(w) BY <1>8, <1>f DEF RechargeRefused
<1>9. CASE WebhookLoaded(w) BY <1>9, <1>f DEF WebhookLoaded
<1>10. CASE MeterLoaded(w) BY <1>10, <1>f DEF MeterLoaded
<1>11. CASE RenewLoaded(w) BY <1>11, <1>f DEF RenewLoaded
<1>12. CASE ProviderFails(w) BY <1>12, <1>e DEF ProviderFails, TypeOK, walletVars, rowVars, boundVars
<1>13. ASSUME NEW s \in Sessions, CheckoutCreated(w, s) PROVE TypeOK'
  <2>1. req[w].amount \in Nat /\ req[w].user \in Users BY <1>13, <1>c DEF CheckoutCreated, At
  <2>2. sessions' \in [Sessions -> SessionRecords]
    BY <1>13, <2>1 DEF CheckoutCreated, TypeOK, SessionRecords
  <2> QED BY <1>13, <1>e, <2>2 DEF CheckoutCreated, TypeOK, walletVars, rowVars, boundVars
<1>14. ASSUME NEW op \in {"auto_on", "auto_off"}, AutoCommit(w, op) PROVE TypeOK'
  <2>1. req[w].user \in Users BY <1>14, <1>c DEF AutoCommit, At
  <2> QED BY <1>14, <2>1, <1>e DEF AutoCommit, TypeOK, rowVars, boundVars
<1>15. CASE PayCommit(w)
  <2>1. req[w].user \in Users /\ req[w].ref \in Orders BY <1>15, <1>c DEF PayCommit, RequestInv
  <2>2. payments' \in [Orders -> Nat] BY <1>15, <2>1 DEF PayCommit, TypeOK
  <2>3. orders' \in [Orders -> OrderRecords]
    <3>1. orders[req[w].ref] \in OrderRecords BY <2>1 DEF TypeOK
    <3>2. [orders[req[w].ref] EXCEPT !.status = "paid"] \in OrderRecords BY <3>1 DEF OrderRecords
    <3>3. orders' = [orders EXCEPT ![req[w].ref].status = "paid"]
      BY <1>15 DEF PayCommit
    <3> QED BY <2>1, <3>2, <3>3 DEF TypeOK
  <2>4. Move(w, - req[w].amount) /\ - req[w].amount \in Int BY <1>15, <1>b DEF PayCommit
  <2> QED BY <1>15, <2>1, <2>2, <2>3, <2>4, MoveTypes DEF PayCommit, TypeOK
<1>16. CASE RechargeCommit(w)
  <2>1. req[w].user \in Users /\ req[w].amount \in Nat BY <1>16, <1>c DEF RechargeCommit
  <2>2. credited' \in [Users -> Nat] BY <1>16, <2>1, <1>g DEF RechargeCommit
  <2>3. Move(w, req[w].amount) /\ req[w].amount \in Int BY <1>16, <1>b DEF RechargeCommit
  <2> QED BY <1>16, <2>1, <2>2, <2>3, MoveTypes DEF RechargeCommit, TypeOK
<1>17. CASE WebhookCommit(w)
  <2>1. req[w].user \in Users /\ req[w].amount \in Nat /\ req[w].ref \in Sessions
    BY <1>17, <1>c DEF WebhookCommit, RequestInv
  <2>2. sessions' \in [Sessions -> SessionRecords]
    <3>1. sessions[req[w].ref] \in SessionRecords BY <2>1 DEF TypeOK
    <3>2. [sessions[req[w].ref] EXCEPT !.status = "completed"] \in SessionRecords
      BY <3>1 DEF SessionRecords
    <3>3. sessions' = [sessions EXCEPT ![req[w].ref].status = "completed"]
      BY <1>17 DEF WebhookCommit
    <3> QED BY <2>1, <3>2, <3>3 DEF TypeOK
  <2>3. credits' \in [Sessions -> Nat] BY <1>17, <2>1 DEF WebhookCommit, TypeOK
  <2>4. credited' \in [Users -> Nat] BY <1>17, <2>1, <1>g DEF WebhookCommit
  <2>5. Move(w, req[w].amount) /\ req[w].amount \in Int BY <1>17, <1>b DEF WebhookCommit
  <2> QED BY <1>17, <2>1, <2>2, <2>3, <2>4, <2>5, MoveTypes DEF WebhookCommit, TypeOK
<1>18. CASE MeterCommit(w)
  <2>1. req[w].user \in Users /\ req[w].ref \in Orders BY <1>18, <1>c DEF MeterCommit, RequestInv
  <2>2. usages' \in [Orders -> Nat] BY <1>18, <2>1 DEF MeterCommit, TypeOK
  <2>3. Move(w, - req[w].amount) /\ - req[w].amount \in Int BY <1>18, <1>b DEF MeterCommit
  <2> QED BY <1>18, <2>1, <2>2, <2>3, MoveTypes DEF MeterCommit, TypeOK
<1>19. CASE RenewCommit(w)
  <2>1. req[w].user \in Users BY <1>19, <1>c DEF RenewCommit
  <2>2. Move(w, - req[w].amount) /\ - req[w].amount \in Int BY <1>19, <1>b DEF RenewCommit
  <2> QED BY <1>19, <2>1, <2>2, MoveTypes DEF RenewCommit, TypeOK
<1> QED
  BY <1>1, <1>2, <1>3, <1>4, <1>5, <1>6, <1>7, <1>8, <1>9, <1>10, <1>11,
     <1>12, <1>13, <1>14, <1>15, <1>16, <1>17, <1>18, <1>19 DEF Advance

\* A restart, or a statement that raises.
AnyFault == \E dropped \in SUBSET Workers : Faulted(dropped)

\* So does every other step.
LEMMA OtherTypes ==
  ASSUME TypeOK, RowInv,
         \/ \E w \in Workers, r \in Requests : Arrives(w, r)
         \/ \E u \in Users, o \in Orders, t \in Templates, q \in Quantities : CreateOrder(u, o, t, q)
         \/ \E s \in Sessions : RenterPays(s)
         \/ AnyFault
         \/ UNCHANGED vars
  PROVE  TypeOK'
<1> USE BillingAssumption
<1>1. ASSUME NEW w \in Workers, NEW r \in Requests, Arrives(w, r) PROVE TypeOK'
  <2>1. req' \in [Workers -> Requests] BY <1>1 DEF Arrives, TypeOK
  <2>2. shared' \subseteq Users BY <1>1 DEF Arrives, TypeOK
  <2> QED BY <1>1, <2>1, <2>2 DEF Arrives, TypeOK, walletVars, rowVars
<1>2. ASSUME NEW u \in Users, NEW o \in Orders, NEW t \in Templates, NEW q \in Quantities,
             CreateOrder(u, o, t, q)
      PROVE  TypeOK'
  <2>1. Price[t] * q \in Int /\ q \in Nat OBVIOUS
  <2>2. orders' \in [Orders -> OrderRecords] BY <1>2, <2>1 DEF CreateOrder, TypeOK, OrderRecords
  <2> QED BY <1>2, <2>2 DEF CreateOrder, TypeOK, walletVars, rowVars, boundVars
<1>3. ASSUME NEW s \in Sessions, RenterPays(s) PROVE TypeOK'
  <2>1. sessions[s] \in SessionRecords BY DEF TypeOK
  <2>2. sessions[s].user \in Users /\ sessions[s].amount \in Nat
    BY <1>3, <2>1 DEF RenterPays, RowInv, SessionRecords
  <2>3. [sessions[s] EXCEPT !.paid = TRUE] \in SessionRecords BY <2>1 DEF SessionRecords
  <2>4. sessions' = [sessions EXCEPT ![s].paid = TRUE] BY <1>3 DEF RenterPays
  <2>5. sessions' \in [Sessions -> SessionRecords] BY <2>3, <2>4 DEF TypeOK
  <2>6. captured' \in [Users -> Nat] BY <1>3, <2>2 DEF RenterPays, TypeOK
  <2> QED BY <1>3, <2>5, <2>6 DEF RenterPays, TypeOK, walletVars, rowVars, boundVars
<1>4. ASSUME NEW dropped \in SUBSET Workers, Faulted(dropped) PROVE TypeOK'
  <2>1. Idle \in Requests BY DEF Idle, Requests
  <2>2. faults' \in 0 .. MaxFaults BY <1>4 DEF Faulted, TypeOK
  <2>3. req' \in [Workers -> Requests] BY <1>4, <2>1 DEF Faulted, TypeOK
  <2> QED BY <1>4, <2>2, <2>3 DEF Faulted, TypeOK, walletVars, rowVars
<1>5. CASE UNCHANGED vars
  BY <1>5 DEF vars, TypeOK, walletVars, rowVars, boundVars
<1> QED BY <1>1, <1>2, <1>3, <1>4, <1>5 DEF AnyFault

\* The steps of Next, sorted.
LEMMA NextCases ==
  ASSUME TypeOK, RowInv, [Next]_vars
  PROVE  \/ \E w \in Workers, r \in Requests : Arrives(w, r)
         \/ \E w \in Workers : Advance(w)
         \/ \E u \in Users, o \in Orders, t \in Templates, q \in Quantities : CreateOrder(u, o, t, q)
         \/ \E s \in Sessions : RenterPays(s)
         \/ AnyFault
         \/ UNCHANGED vars
<1>1. CASE Next
  <2>1. ASSUME NEW w \in Workers, Arrive(w) \/ \E s \in Sessions : StripeWebhook(w, s)
        PROVE  \E r \in Requests : Arrives(w, r)
    BY <2>1, ArriveCases
  <2>2. ASSUME NEW w \in Workers, StatementFails(w) PROVE AnyFault
    BY <2>2 DEF StatementFails, AnyFault
  <2>3. CASE Crash BY <2>3 DEF Crash, AnyFault
  <2> QED BY <1>1, <2>1, <2>2, <2>3 DEF Next
<1> QED BY <1>1

-----------------------------------------------------------------------------
(* RequestInv and RowInv. *)

\* RequestInv is preserved: what a request has checked stays true until it commits.
\* For a webhook this rests on LoopInv: no other delivery can commit in between.
LEMMA RequestStep ==
  ASSUME TypeOK, RequestInv, RowInv, LoopInv, [Next]_vars
  PROVE  RequestInv' 
<1> USE BillingAssumption DEF RequestInv
<1>a. req \in [Workers -> Requests] BY DEF TypeOK
<1>1. ASSUME NEW w \in Workers, NEW r \in Requests, Arrives(w, r) PROVE RequestInv'
  BY <1>1, <1>a DEF Arrives
<1>2. ASSUME NEW w \in Workers, NEW pc \in PCs, Passes(w, pc) PROVE RequestInv'
  BY <1>2, <1>a DEF Passes, At, Goto, Kept, Rows, Idle
<1>3. ASSUME NEW w \in Workers, NEW pc \in PCs, Loads(w, pc) PROVE RequestInv'
  BY <1>3, <1>a DEF Loads, Load, Kept, Rows, Idle
<1>4. ASSUME NEW w \in Workers, Replies(w) PROVE RequestInv'
  BY <1>4, <1>a DEF Replies, Reply, Kept, Rows, Idle
<1>5. ASSUME NEW w \in Workers, NEW s \in Sessions, CheckoutCreated(w, s) PROVE RequestInv'
  BY <1>5, <1>a DEF CheckoutCreated, Reply, Idle, NoSession, TypeOK
<1>6. ASSUME NEW w \in Workers, PayCommit(w) PROVE RequestInv'
  BY <1>6, <1>a DEF PayCommit, Move, Reply, Idle, TypeOK
<1>7. ASSUME NEW w \in Workers, RechargeCommit(w) PROVE RequestInv'
  BY <1>7, <1>a DEF RechargeCommit, Move, Reply, Idle
<1>8. ASSUME NEW w \in Workers, WebhookCommit(w) PROVE RequestInv'
  <2>1. ASSUME NEW v \in Workers, req[v].op = "webhook" PROVE v = w
    BY <2>1, <1>8 DEF WebhookCommit, Move, LoopInv, HoldsLoop, At
  <2> QED BY <1>8, <2>1, <1>a DEF WebhookCommit, Move, Reply, Idle, TypeOK
<1>9. ASSUME NEW w \in Workers, MeterCommit(w) PROVE RequestInv'
  BY <1>9, <1>a DEF MeterCommit, Move, Reply, Idle
<1>10. ASSUME NEW w \in Workers, RenewCommit(w) PROVE RequestInv'
  BY <1>10, <1>a DEF RenewCommit, Move, Reply, Idle
<1>11. ASSUME NEW u \in Users, NEW o \in Orders, NEW t \in Templates, NEW q \in Quantities,
              CreateOrder(u, o, t, q)
       PROVE  RequestInv'
  BY <1>11, <1>a DEF CreateOrder, NoOrder, TypeOK
<1>12. ASSUME NEW s \in Sessions, RenterPays(s) PROVE RequestInv'
  BY <1>12, <1>a DEF RenterPays, TypeOK
<1>13. CASE AnyFault BY <1>13, <1>a DEF AnyFault, Faulted, Idle
<1>14. CASE UNCHANGED vars BY <1>14 DEF vars
<1>15. ASSUME NEW w \in Workers, Advance(w) PROVE RequestInv'
  BY <1>15, AdvanceCases, <1>2, <1>3, <1>4, <1>5, <1>6, <1>7, <1>8, <1>9, <1>10
<1> QED BY NextCases, <1>1, <1>11, <1>12, <1>13, <1>14, <1>15

\* RowInv is preserved.
LEMMA RowStep ==
  ASSUME TypeOK, RequestInv, RowInv, [Next]_vars
  PROVE  RowInv'
<1> USE BillingAssumption DEF RowInv
<1>a. req \in [Workers -> Requests] BY DEF TypeOK
<1>1. ASSUME NEW w \in Workers, NEW r \in Requests, Arrives(w, r) PROVE RowInv'
  BY <1>1, <1>a DEF Arrives
<1>2. ASSUME NEW w \in Workers, NEW pc \in PCs, Passes(w, pc) PROVE RowInv'
  BY <1>2, <1>a DEF Passes, Kept, Rows, rowVars
<1>3. ASSUME NEW w \in Workers, NEW pc \in PCs, Loads(w, pc) PROVE RowInv'
  BY <1>3, <1>a DEF Loads, Kept, Rows, rowVars
<1>4. ASSUME NEW w \in Workers, Replies(w) PROVE RowInv'
  BY <1>4, <1>a DEF Replies, Kept, Rows, rowVars
<1>5. ASSUME NEW w \in Workers, NEW s \in Sessions, CheckoutCreated(w, s) PROVE RowInv'
  BY <1>5, <1>a DEF CheckoutCreated, RequestInv, At, TypeOK
<1>6. ASSUME NEW w \in Workers, PayCommit(w) PROVE RowInv'
  BY <1>6, <1>a DEF PayCommit, RequestInv, TypeOK
<1>7. ASSUME NEW w \in Workers, RechargeCommit(w) PROVE RowInv'
  BY <1>7, <1>a DEF RechargeCommit, Move
<1>8. ASSUME NEW w \in Workers, WebhookCommit(w) PROVE RowInv'
  BY <1>8, <1>a DEF WebhookCommit, RequestInv, TypeOK
<1>9. ASSUME NEW w \in Workers, MeterCommit(w) PROVE RowInv'
  BY <1>9, <1>a DEF MeterCommit, Move
<1>10. ASSUME NEW w \in Workers, RenewCommit(w) PROVE RowInv'
  BY <1>10, <1>a DEF RenewCommit, Move
<1>11. ASSUME NEW u \in Users, NEW o \in Orders, NEW t \in Templates, NEW q \in Quantities,
              CreateOrder(u, o, t, q)
       PROVE RowInv'
  BY <1>11, <1>a DEF CreateOrder, walletVars, rowVars, TypeOK
<1>12. ASSUME NEW s \in Sessions, RenterPays(s) PROVE RowInv'
  BY <1>12, <1>a DEF RenterPays, walletVars, rowVars, TypeOK
<1>13. CASE AnyFault
  BY <1>13, <1>a DEF AnyFault, Faulted, Idle, walletVars, rowVars
<1>14. CASE UNCHANGED vars
  BY <1>14, <1>a DEF vars, walletVars, rowVars
<1>15. ASSUME NEW w \in Workers, Advance(w) PROVE RowInv'
  BY <1>15, AdvanceCases, <1>2, <1>3, <1>4, <1>5, <1>6, <1>7, <1>8, <1>9, <1>10
<1> QED BY NextCases, <1>1, <1>11, <1>12, <1>13, <1>14, <1>15

\* LoopInv is preserved: a coroutine starts or resumes only on a free event loop.
LEMMA LoopStep ==
  ASSUME TypeOK, RequestInv, RowInv, LoopInv, [Next]_vars
  PROVE  LoopInv'
<1> USE DEF LoopInv, HoldsLoop, At, Idle
<1>a. req \in [Workers -> Requests] BY DEF TypeOK
<1>1. ASSUME NEW w \in Workers, NEW r \in Requests, Arrives(w, r) PROVE LoopInv'
  BY <1>1, <1>a DEF Arrives, LoopFree
<1>2. ASSUME NEW w \in Workers, NEW pc \in PCs, Passes(w, pc) PROVE LoopInv'
  BY <1>2, <1>a DEF Passes, Goto
<1>3. ASSUME NEW w \in Workers, NEW pc \in PCs, Loads(w, pc) PROVE LoopInv'
  BY <1>3, <1>a DEF Loads, Load
<1>4. ASSUME NEW w \in Workers, Replies(w) PROVE LoopInv'
  BY <1>4, <1>a DEF Replies, Reply
<1>5. ASSUME NEW w \in Workers, NEW s \in Sessions, CheckoutCreated(w, s) PROVE LoopInv'
  BY <1>5, <1>a DEF CheckoutCreated, Reply
<1>6. ASSUME NEW w \in Workers, PayCommit(w) PROVE LoopInv'
  BY <1>6, <1>a DEF PayCommit, Move, Reply
<1>7. ASSUME NEW w \in Workers, RechargeCommit(w) PROVE LoopInv'
  BY <1>7, <1>a DEF RechargeCommit, Move, Reply
<1>8. ASSUME NEW w \in Workers, WebhookCommit(w) PROVE LoopInv'
  BY <1>8, <1>a DEF WebhookCommit, Move, Reply
<1>9. ASSUME NEW w \in Workers, MeterCommit(w) PROVE LoopInv'
  BY <1>9, <1>a DEF MeterCommit, Move, Reply
<1>10. ASSUME NEW w \in Workers, RenewCommit(w) PROVE LoopInv'
  BY <1>10, <1>a DEF RenewCommit, Move, Reply
<1>11. ASSUME NEW u \in Users, NEW o \in Orders, NEW t \in Templates, NEW q \in Quantities,
              CreateOrder(u, o, t, q)
       PROVE LoopInv'
  BY <1>11, <1>a DEF CreateOrder
<1>12. ASSUME NEW s \in Sessions, RenterPays(s) PROVE LoopInv'
  BY <1>12, <1>a DEF RenterPays
<1>13. CASE AnyFault
  BY <1>13, <1>a DEF AnyFault, Faulted, Idle
<1>14. CASE UNCHANGED vars
  BY <1>14, <1>a DEF vars
<1>15. ASSUME NEW w \in Workers, Advance(w) PROVE LoopInv'
  BY <1>15, AdvanceCases, <1>2, <1>3, <1>4, <1>5, <1>6, <1>7, <1>8, <1>9, <1>10
<1> QED BY NextCases, <1>1, <1>11, <1>12, <1>13, <1>14, <1>15

\* CreditedOnce is preserved: a webhook commits only while its session is pending.
LEMMA CreditedStep ==
  ASSUME TypeOK, RequestInv, RowInv, LoopInv, CreditedOnce, [Next]_vars
  PROVE  CreditedOnce'
<1> USE DEF CreditedOnce
<1>a. req \in [Workers -> Requests] BY DEF TypeOK
<1>1. ASSUME NEW w \in Workers, NEW r \in Requests, Arrives(w, r) PROVE CreditedOnce'
  BY <1>1, <1>a DEF Arrives, walletVars, rowVars
<1>2. ASSUME NEW w \in Workers, NEW pc \in PCs, Passes(w, pc) PROVE CreditedOnce'
  BY <1>2, <1>a DEF Passes, Kept, Rows, rowVars
<1>3. ASSUME NEW w \in Workers, NEW pc \in PCs, Loads(w, pc) PROVE CreditedOnce'
  BY <1>3, <1>a DEF Loads, Kept, Rows, rowVars
<1>4. ASSUME NEW w \in Workers, Replies(w) PROVE CreditedOnce'
  BY <1>4, <1>a DEF Replies, Kept, Rows, rowVars
<1>5. ASSUME NEW w \in Workers, NEW s \in Sessions, CheckoutCreated(w, s) PROVE CreditedOnce'
  BY <1>5, <1>a DEF CheckoutCreated, Reply, rowVars, walletVars, NoSession, TypeOK
<1>6. ASSUME NEW w \in Workers, PayCommit(w) PROVE CreditedOnce'
  BY <1>6, <1>a DEF PayCommit, Move, Reply
<1>7. ASSUME NEW w \in Workers, RechargeCommit(w) PROVE CreditedOnce'
  BY <1>7, <1>a DEF RechargeCommit, Move, Reply
<1>8. ASSUME NEW w \in Workers, WebhookCommit(w) PROVE CreditedOnce'
  BY <1>8, <1>a DEF WebhookCommit, Move, Reply, RequestInv, TypeOK
<1>9. ASSUME NEW w \in Workers, MeterCommit(w) PROVE CreditedOnce'
  BY <1>9, <1>a DEF MeterCommit, Move, Reply
<1>10. ASSUME NEW w \in Workers, RenewCommit(w) PROVE CreditedOnce'
  BY <1>10, <1>a DEF RenewCommit, Move, Reply
<1>11. ASSUME NEW u \in Users, NEW o \in Orders, NEW t \in Templates, NEW q \in Quantities,
              CreateOrder(u, o, t, q)
       PROVE CreditedOnce'
  BY <1>11, <1>a DEF CreateOrder, walletVars, rowVars
<1>12. ASSUME NEW s \in Sessions, RenterPays(s) PROVE CreditedOnce'
  BY <1>12, <1>a DEF RenterPays, walletVars, rowVars, TypeOK
<1>13. CASE AnyFault
  BY <1>13, <1>a DEF AnyFault, Faulted, Idle, walletVars, rowVars
<1>14. CASE UNCHANGED vars
  BY <1>14, <1>a DEF vars, walletVars, rowVars
<1>15. ASSUME NEW w \in Workers, Advance(w) PROVE CreditedOnce'
  BY <1>15, AdvanceCases, <1>2, <1>3, <1>4, <1>5, <1>6, <1>7, <1>8, <1>9, <1>10
<1> QED BY NextCases, <1>1, <1>11, <1>12, <1>13, <1>14, <1>15

\* PaymentInv is preserved.
LEMMA PaymentStep ==
  ASSUME TypeOK, RequestInv, RowInv, PaymentInv, [Next]_vars
  PROVE  PaymentInv'
<1> USE DEF PaymentInv
<1>a. req \in [Workers -> Requests] BY DEF TypeOK
<1>1. ASSUME NEW w \in Workers, NEW r \in Requests, Arrives(w, r) PROVE PaymentInv'
  BY <1>1, <1>a DEF Arrives, walletVars, rowVars
<1>2. ASSUME NEW w \in Workers, NEW pc \in PCs, Passes(w, pc) PROVE PaymentInv'
  BY <1>2, <1>a DEF Passes, Goto, Kept, Rows, rowVars
<1>3. ASSUME NEW w \in Workers, NEW pc \in PCs, Loads(w, pc) PROVE PaymentInv'
  BY <1>3, <1>a DEF Loads, Load, Kept, Rows, rowVars
<1>4. ASSUME NEW w \in Workers, Replies(w) PROVE PaymentInv'
  BY <1>4, <1>a DEF Replies, Reply, Kept, Rows, rowVars, Idle
<1>5. ASSUME NEW w \in Workers, NEW s \in Sessions, CheckoutCreated(w, s) PROVE PaymentInv'
  BY <1>5, <1>a DEF CheckoutCreated, Reply, rowVars, walletVars, Idle
<1>6. ASSUME NEW w \in Workers, PayCommit(w) PROVE PaymentInv'
  BY <1>6, <1>a DEF PayCommit, Move, Reply, RequestInv, TypeOK, Idle
<1>7. ASSUME NEW w \in Workers, RechargeCommit(w) PROVE PaymentInv'
  BY <1>7, <1>a DEF RechargeCommit, Move, Reply, Idle
<1>8. ASSUME NEW w \in Workers, WebhookCommit(w) PROVE PaymentInv'
  BY <1>8, <1>a DEF WebhookCommit, Move, Reply, Idle
<1>9. ASSUME NEW w \in Workers, MeterCommit(w) PROVE PaymentInv'
  BY <1>9, <1>a, BillingAssumption DEF MeterCommit, Move, Reply, RequestInv, TypeOK, NoOrder, Idle
<1>10. ASSUME NEW w \in Workers, RenewCommit(w) PROVE PaymentInv'
  BY <1>10, <1>a DEF RenewCommit, Move, Reply, Idle
<1>11. ASSUME NEW u \in Users, NEW o \in Orders, NEW t \in Templates, NEW q \in Quantities,
              CreateOrder(u, o, t, q)
       PROVE PaymentInv'
  BY <1>11, <1>a DEF CreateOrder, walletVars, rowVars, NoOrder, TypeOK
<1>12. ASSUME NEW s \in Sessions, RenterPays(s) PROVE PaymentInv'
  BY <1>12, <1>a DEF RenterPays, walletVars, rowVars
<1>13. CASE AnyFault
  BY <1>13, <1>a DEF AnyFault, Faulted, Idle, walletVars, rowVars
<1>14. CASE UNCHANGED vars
  BY <1>14, <1>a DEF vars, walletVars, rowVars
<1>15. ASSUME NEW w \in Workers, Advance(w) PROVE PaymentInv'
  BY <1>15, AdvanceCases, <1>2, <1>3, <1>4, <1>5, <1>6, <1>7, <1>8, <1>9, <1>10
<1> QED BY NextCases, <1>1, <1>11, <1>12, <1>13, <1>14, <1>15

\* NonNegativeInv is preserved: a payment and a renewal are covered by what they
\* have seen, and what they have seen is not negative before any metered usage.
LEMMA NonNegativeStep ==
  ASSUME TypeOK, RequestInv, RowInv, LoopInv, NonNegativeInv, [Next]_vars
  PROVE  NonNegativeInv'
<1> USE BillingAssumption DEF NonNegativeInv
<1>a. req \in [Workers -> Requests] BY DEF TypeOK
<1>1. ASSUME NEW w \in Workers, NEW r \in Requests, Arrives(w, r) PROVE NonNegativeInv'
  BY <1>1, <1>a DEF Arrives, walletVars, rowVars
<1>2. ASSUME NEW w \in Workers, NEW pc \in PCs, Passes(w, pc) PROVE NonNegativeInv'
  BY <1>2, <1>a DEF Passes, Goto, Kept, Rows, rowVars, RequestInv, TypeOK, Requests, Idle
<1>3. ASSUME NEW w \in Workers, NEW pc \in PCs, Loads(w, pc) PROVE NonNegativeInv'
  BY <1>3, <1>a DEF Loads, Load, Kept, Rows, rowVars, RequestInv, TypeOK, Requests, Idle
<1>4. ASSUME NEW w \in Workers, Replies(w) PROVE NonNegativeInv'
  BY <1>4, <1>a DEF Replies, Reply, Kept, Rows, rowVars, RequestInv, TypeOK, Requests, Idle
<1>5. ASSUME NEW w \in Workers, NEW s \in Sessions, CheckoutCreated(w, s) PROVE NonNegativeInv'
  BY <1>5, <1>a DEF CheckoutCreated, Reply, rowVars, walletVars, RequestInv, TypeOK, Requests, Idle
<1>6. ASSUME NEW w \in Workers, PayCommit(w) PROVE NonNegativeInv'
  BY <1>6, <1>a DEF PayCommit, Move, SetBalance, Record, Reply, RequestInv, TypeOK, Requests, Idle
<1>7. ASSUME NEW w \in Workers, RechargeCommit(w) PROVE NonNegativeInv'
  BY <1>7, <1>a DEF RechargeCommit, Move, SetBalance, Record, Reply, RequestInv, TypeOK, Requests, Idle
<1>8. ASSUME NEW w \in Workers, WebhookCommit(w) PROVE NonNegativeInv'
  BY <1>8, <1>a DEF WebhookCommit, Move, SetBalance, Record, Reply, RequestInv, TypeOK, Requests, Idle
<1>9. ASSUME NEW w \in Workers, MeterCommit(w) PROVE NonNegativeInv'
  BY <1>9, <1>a DEF MeterCommit, Move, SetBalance, Record, Reply, RequestInv, TypeOK, Requests, Idle
<1>10. ASSUME NEW w \in Workers, RenewCommit(w) PROVE NonNegativeInv'
  BY <1>10, <1>a DEF RenewCommit, Move, SetBalance, Record, Reply, RequestInv, TypeOK, Requests, Idle
<1>11. ASSUME NEW u \in Users, NEW o \in Orders, NEW t \in Templates, NEW q \in Quantities,
              CreateOrder(u, o, t, q)
       PROVE NonNegativeInv'
  BY <1>11, <1>a DEF CreateOrder, walletVars, rowVars, NoOrder, TypeOK
<1>12. ASSUME NEW s \in Sessions, RenterPays(s) PROVE NonNegativeInv'
  BY <1>12, <1>a DEF RenterPays, rowVars, walletVars
<1>13. CASE AnyFault
  BY <1>13, <1>a DEF AnyFault, Faulted, Idle, walletVars, rowVars
<1>14. CASE UNCHANGED vars
  BY <1>14, <1>a DEF vars, walletVars, rowVars
<1>15. ASSUME NEW w \in Workers, Advance(w) PROVE NonNegativeInv'
  BY <1>15, AdvanceCases, <1>2, <1>3, <1>4, <1>5, <1>6, <1>7, <1>8, <1>9, <1>10
<1> QED BY NextCases, <1>1, <1>11, <1>12, <1>13, <1>14, <1>15

\* SoleWriterInv is preserved: the only request of a user commits on top of the
\* balance it has seen.
LEMMA SoleWriterStep ==
  ASSUME TypeOK, RequestInv, RowInv, LoopInv, SoleWriterInv, [Next]_vars
  PROVE  SoleWriterInv'
<1> USE BillingAssumption DEF SoleWriterInv
<1>a. req \in [Workers -> Requests] BY DEF TypeOK
<1>1. ASSUME NEW w \in Workers, NEW r \in Requests, Arrives(w, r) PROVE SoleWriterInv'
  BY <1>1, <1>a DEF Arrives, walletVars, rowVars, InFlight, Idle, TypeOK
<1>2. ASSUME NEW w \in Workers, NEW pc \in PCs, Passes(w, pc) PROVE SoleWriterInv'
  BY <1>2, <1>a DEF Passes, Goto, Kept, Rows, rowVars, Idle, At
<1>3. ASSUME NEW w \in Workers, NEW pc \in PCs, Loads(w, pc) PROVE SoleWriterInv'
  BY <1>3, <1>a DEF Loads, Load, Kept, Rows, rowVars, Idle, At
<1>4. ASSUME NEW w \in Workers, Replies(w) PROVE SoleWriterInv'
  BY <1>4, <1>a DEF Replies, Reply, Kept, Rows, rowVars, Idle, At
<1>5. ASSUME NEW w \in Workers, NEW s \in Sessions, CheckoutCreated(w, s) PROVE SoleWriterInv'
  BY <1>5, <1>a DEF CheckoutCreated, Reply, rowVars, walletVars, RequestInv, TypeOK, Requests, Idle, At
<1>6. ASSUME NEW w \in Workers, PayCommit(w) PROVE SoleWriterInv'
  BY <1>6, <1>a DEF PayCommit, Move, SetBalance, Record, Reply, RequestInv, TypeOK, Requests, Idle, At
<1>7. ASSUME NEW w \in Workers, RechargeCommit(w) PROVE SoleWriterInv'
  BY <1>7, <1>a DEF RechargeCommit, Move, SetBalance, Record, Reply, RequestInv, TypeOK, Requests, Idle, At
<1>8. ASSUME NEW w \in Workers, WebhookCommit(w) PROVE SoleWriterInv'
  BY <1>8, <1>a DEF WebhookCommit, Move, SetBalance, Record, Reply, RequestInv, TypeOK, Requests, Idle, At
<1>9. ASSUME NEW w \in Workers, MeterCommit(w) PROVE SoleWriterInv'
  BY <1>9, <1>a DEF MeterCommit, Move, SetBalance, Record, Reply, RequestInv, TypeOK, Requests, Idle, At
<1>10. ASSUME NEW w \in Workers, RenewCommit(w) PROVE SoleWriterInv'
  BY <1>10, <1>a DEF RenewCommit, Move, SetBalance, Record, Reply, RequestInv, TypeOK, Requests, Idle, At
<1>11. ASSUME NEW u \in Users, NEW o \in Orders, NEW t \in Templates, NEW q \in Quantities,
              CreateOrder(u, o, t, q)
       PROVE SoleWriterInv'
  BY <1>11, <1>a DEF CreateOrder, walletVars, rowVars, NoOrder, TypeOK
<1>12. ASSUME NEW s \in Sessions, RenterPays(s) PROVE SoleWriterInv'
  BY <1>12, <1>a DEF RenterPays, walletVars, rowVars
<1>13. CASE AnyFault
  BY <1>13, <1>a DEF AnyFault, Faulted, Idle, walletVars, rowVars
<1>14. CASE UNCHANGED vars
  BY <1>14, <1>a DEF vars, walletVars, rowVars
<1>15. ASSUME NEW w \in Workers, Advance(w) PROVE SoleWriterInv'
  BY <1>15, AdvanceCases, <1>2, <1>3, <1>4, <1>5, <1>6, <1>7, <1>8, <1>9, <1>10
<1> QED BY NextCases, <1>1, <1>11, <1>12, <1>13, <1>14, <1>15

\* PaidOrderHasPayment is preserved: the only payment request of a user finds its
\* order still pending.
LEMMA PaidOrderStep ==
  ASSUME TypeOK, RequestInv, RowInv, PaymentInv, SoleWriterInv, PaidOrderHasPayment, [Next]_vars
  PROVE  PaidOrderHasPayment'
<1> USE DEF PaidOrderHasPayment
<1>a. req \in [Workers -> Requests] BY DEF TypeOK
<1>1. ASSUME NEW w \in Workers, NEW r \in Requests, Arrives(w, r) PROVE PaidOrderHasPayment'
  BY <1>1, <1>a DEF Arrives, walletVars, rowVars
<1>2. ASSUME NEW w \in Workers, NEW pc \in PCs, Passes(w, pc) PROVE PaidOrderHasPayment'
  BY <1>2, <1>a DEF Passes, Kept, Rows, rowVars
<1>3. ASSUME NEW w \in Workers, NEW pc \in PCs, Loads(w, pc) PROVE PaidOrderHasPayment'
  BY <1>3, <1>a DEF Loads, Kept, Rows, rowVars
<1>4. ASSUME NEW w \in Workers, Replies(w) PROVE PaidOrderHasPayment'
  BY <1>4, <1>a DEF Replies, Kept, Rows, rowVars
<1>5. ASSUME NEW w \in Workers, NEW s \in Sessions, CheckoutCreated(w, s) PROVE PaidOrderHasPayment'
  BY <1>5, <1>a DEF CheckoutCreated, Reply, rowVars, walletVars
<1>6. ASSUME NEW w \in Workers, PayCommit(w) PROVE PaidOrderHasPayment'
  BY <1>6, <1>a DEF PayCommit, Move, Reply, RequestInv, TypeOK, SoleWriterInv
<1>7. ASSUME NEW w \in Workers, RechargeCommit(w) PROVE PaidOrderHasPayment'
  BY <1>7, <1>a DEF RechargeCommit, Move, Reply
<1>8. ASSUME NEW w \in Workers, WebhookCommit(w) PROVE PaidOrderHasPayment'
  BY <1>8, <1>a DEF WebhookCommit, Move, Reply
<1>9. ASSUME NEW w \in Workers, MeterCommit(w) PROVE PaidOrderHasPayment'
  BY <1>9, <1>a DEF MeterCommit, Move, Reply
<1>10. ASSUME NEW w \in Workers, RenewCommit(w) PROVE PaidOrderHasPayment'
  BY <1>10, <1>a DEF RenewCommit, Move, Reply
<1>11. ASSUME NEW u \in Users, NEW o \in Orders, NEW t \in Templates, NEW q \in Quantities,
              CreateOrder(u, o, t, q)
       PROVE PaidOrderHasPayment'
  BY <1>11, <1>a DEF CreateOrder, walletVars, rowVars, NoOrder, TypeOK
<1>12. ASSUME NEW s \in Sessions, RenterPays(s) PROVE PaidOrderHasPayment'
  BY <1>12, <1>a DEF RenterPays, walletVars, rowVars
<1>13. CASE AnyFault
  BY <1>13, <1>a DEF AnyFault, Faulted, Idle, walletVars, rowVars
<1>14. CASE UNCHANGED vars
  BY <1>14, <1>a DEF vars, walletVars, rowVars
<1>15. ASSUME NEW w \in Workers, Advance(w) PROVE PaidOrderHasPayment'
  BY <1>15, AdvanceCases, <1>2, <1>3, <1>4, <1>5, <1>6, <1>7, <1>8, <1>9, <1>10
<1> QED BY NextCases, <1>1, <1>11, <1>12, <1>13, <1>14, <1>15

-----------------------------------------------------------------------------
(* PriceInv. *)

\* An order once made keeps its renter, template, quantity and price, and a paid one
\* stays paid; only CreateOrder makes one.
LEMMA OrderKept ==
  ASSUME TypeOK, RequestInv, RowInv, [Next]_vars, NEW o \in Orders
  PROVE  \/ \E u \in Users, t \in Templates, q \in Quantities : CreateOrder(u, o, t, q)
         \/ /\ orders'[o].user = orders[o].user
            /\ orders'[o].template = orders[o].template
            /\ orders'[o].quantity = orders[o].quantity
            /\ orders'[o].amount = orders[o].amount
            /\ orders'[o].status \in {orders[o].status, "paid"}
            /\ orders[o].status = "none" /\ orders'[o].status = "paid" =>
                  \E w \in Workers : PayCommit(w) /\ req[w].ref = o
<1> DEFINE Same == /\ orders'[o].user = orders[o].user
                   /\ orders'[o].template = orders[o].template
                   /\ orders'[o].quantity = orders[o].quantity
                   /\ orders'[o].amount = orders[o].amount
                   /\ orders'[o].status \in {orders[o].status, "paid"}
                   /\ orders[o].status = "none" /\ orders'[o].status = "paid" =>
                         \E w \in Workers : PayCommit(w) /\ req[w].ref = o
<1>a. orders \in [Orders -> OrderRecords] /\ orders[o] \in OrderRecords BY DEF TypeOK
<1>b. ASSUME orders'[o] = orders[o] PROVE Same BY <1>b
<1>1. ASSUME NEW w \in Workers, NEW r \in Requests, Arrives(w, r) PROVE Same
  BY <1>1, <1>b DEF Arrives
<1>2. ASSUME NEW w \in Workers, Advance(w), ~ PayCommit(w) PROVE Same
  BY <1>2, <1>b, AdvanceCases DEF Passes, Loads, Replies, Kept, Rows, CheckoutCreated, RechargeCommit,
     WebhookCommit, MeterCommit, RenewCommit
<1>3. ASSUME NEW w \in Workers, PayCommit(w) PROVE Same
  <2>1. orders' = [orders EXCEPT ![req[w].ref].status = "paid"] BY <1>3 DEF PayCommit
  <2>2. CASE o = req[w].ref
    <3>1. orders'[o] = [orders[o] EXCEPT !.status = "paid"] BY <2>1, <2>2, <1>a
    <3> QED BY <3>1, <2>2, <1>3, <1>a DEF OrderRecords
  <2>3. CASE o # req[w].ref BY <2>1, <2>3, <1>a, <1>b
  <2> QED BY <2>2, <2>3
<1>4. ASSUME NEW u \in Users, NEW p \in Orders, NEW t \in Templates, NEW q \in Quantities,
             CreateOrder(u, p, t, q), p # o
      PROVE  Same
  BY <1>4, <1>a, <1>b DEF CreateOrder
<1>5. ASSUME NEW s \in Sessions, RenterPays(s) PROVE Same BY <1>5, <1>b DEF RenterPays
<1>6. ASSUME AnyFault PROVE Same BY <1>6, <1>b DEF AnyFault, Faulted
<1>7. ASSUME UNCHANGED vars PROVE Same BY <1>7, <1>b DEF vars
<1> DEFINE Made == \E u \in Users, t \in Templates, q \in Quantities : CreateOrder(u, o, t, q)
<1> SUFFICES Made \/ Same OBVIOUS
<1>8. ASSUME NEW u \in Users, NEW p \in Orders, NEW t \in Templates, NEW q \in Quantities,
             CreateOrder(u, p, t, q)
      PROVE  Made \/ Same
  <2>1. CASE p = o BY <1>8, <2>1
  <2>2. CASE p # o BY <1>4, <1>8, <2>2
  <2> QED BY <2>1, <2>2
<1> HIDE DEF Same, Made
<1>9. ASSUME NEW w \in Workers, Advance(w) PROVE Same BY <1>2, <1>3, <1>9
<1> QED BY NextCases, <1>1, <1>5, <1>6, <1>7, <1>8, <1>9

\* A request keeps its order and its amount until it is answered.
LEMMA RequestKept ==
  ASSUME TypeOK, RequestInv, RowInv, [Next]_vars, NEW w \in Workers
  PROVE  \/ req'[w] = Idle
         \/ \E r \in Requests : Arrives(w, r) /\ req'[w] = r
         \/ /\ req'[w].op = req[w].op /\ req'[w].ref = req[w].ref
            /\ req'[w].amount = req[w].amount /\ req'[w].user = req[w].user
<1> DEFINE Goal == \/ req'[w] = Idle
                   \/ \E r \in Requests : Arrives(w, r) /\ req'[w] = r
                   \/ /\ req'[w].op = req[w].op /\ req'[w].ref = req[w].ref
                      /\ req'[w].amount = req[w].amount /\ req'[w].user = req[w].user
<1>a. req \in [Workers -> Requests] /\ req[w] \in Requests BY DEF TypeOK
<1>b. ASSUME req'[w] = req[w] PROVE Goal BY <1>b
<1>1. ASSUME NEW v \in Workers, NEW r \in Requests, Arrives(v, r) PROVE Goal
  <2>1. CASE v = w BY <1>1, <2>1, <1>a DEF Arrives
  <2>2. CASE v # w BY <1>1, <2>2, <1>a, <1>b DEF Arrives
  <2> QED BY <2>1, <2>2
<1>2. ASSUME NEW v \in Workers, NEW pc \in PCs, Passes(v, pc) PROVE Goal
  <2>1. req' = [req EXCEPT ![v].pc = pc] BY <1>2 DEF Passes, Goto
  <2> QED BY <2>1, <1>a DEF Requests
<1>3. ASSUME NEW v \in Workers, NEW pc \in PCs, Loads(v, pc) PROVE Goal
  <2>1. req' = [req EXCEPT ![v].pc = pc, ![v].seen = balance[req[v].user]]
    BY <1>3 DEF Loads, Load
  <2> QED BY <2>1, <1>a DEF Requests
<1>4. ASSUME NEW v \in Workers, req' = [req EXCEPT ![v] = Idle] PROVE Goal
  BY <1>4, <1>a, <1>b
<1>5. ASSUME NEW v \in Workers, Advance(v) PROVE Goal
  BY <1>5, AdvanceCases, <1>2, <1>3, <1>4 DEF Replies, CheckoutCreated, PayCommit, RechargeCommit,
     WebhookCommit, MeterCommit, RenewCommit, Move, Reply
<1>6. CASE AnyFault BY <1>6, <1>b DEF AnyFault, Faulted
<1>7. ASSUME req' = req PROVE Goal BY <1>7
<1> HIDE DEF Goal
<1> QED BY NextCases, <1>1, <1>5, <1>6, <1>7 DEF CreateOrder, RenterPays, vars, Goal

\* PriceInv is preserved.
LEMMA PriceStep ==
  ASSUME TypeOK, RequestInv, RowInv, PaymentInv, PriceInv, [Next]_vars
  PROVE  PriceInv'
<1> DEFINE Priced(o) == /\ orders[o].template \in Templates
                        /\ orders[o].amount = Price[orders[o].template] * orders[o].quantity
           Right(r) == LET o == r.ref IN
             /\ r.op \in {"pay", "renew"} => r.amount = orders[o].amount
             /\ r.op = "meter" => r.amount = Price[orders[o].template]
             /\ r.op \in {"meter", "renew"} =>
                   /\ orders[o].status = "paid"
                   /\ orders[o].template \in Metered <=> r.op = "meter"
<1>a. orders \in [Orders -> OrderRecords] BY DEF TypeOK
<1>1. ASSUME NEW o \in Orders, orders'[o].status # "none" PROVE Priced(o)'
  <2>1. ASSUME NEW u \in Users, NEW t \in Templates, NEW q \in Quantities, CreateOrder(u, o, t, q)
        PROVE  Priced(o)'
    <3>1. orders'[o] = [status |-> "pending", user |-> u, template |-> t, quantity |-> q,
                        amount |-> Price[t] * q]
      BY <2>1, <1>a DEF CreateOrder
    <3> QED BY <3>1
  <2>2. ASSUME orders[o].status # "none", orders'[o].template = orders[o].template,
               orders'[o].quantity = orders[o].quantity, orders'[o].amount = orders[o].amount
        PROVE  Priced(o)'
    BY <2>2 DEF PriceInv
  <2>3. ~ \E w \in Workers : PayCommit(w) /\ req[w].ref = o /\ orders[o].status = "none"
    BY DEF PayCommit, PaymentInv
  <2> QED BY <1>1, <2>1, <2>2, <2>3, OrderKept
<1>2. ASSUME NEW o \in Orders, orders[o].status # "none"
      PROVE  /\ orders'[o].template = orders[o].template /\ orders'[o].amount = orders[o].amount
             /\ orders[o].status = "paid" => orders'[o].status = "paid"
  BY <1>2, OrderKept DEF CreateOrder, NoOrder
<1>3. ASSUME NEW w \in Workers PROVE Right(req[w])'
  <2>1. CASE req'[w] = Idle BY <2>1 DEF Idle
  <2>2. ASSUME NEW r \in Requests, Arrives(w, r), req'[w] = r PROVE Right(req[w])'
    <3>1. orders' = orders BY <2>2 DEF Arrives
    <3> QED BY <2>2, <3>1 DEF Arrives
  <2>3. CASE /\ req'[w].op = req[w].op /\ req'[w].ref = req[w].ref
             /\ req'[w].amount = req[w].amount
    <3>1. CASE req[w].op \notin {"pay", "meter", "renew"} BY <2>3, <3>1
    <3>2. CASE req[w].op \in {"pay", "meter", "renew"}
      <4> DEFINE o == req[w].ref
      <4>1. o \in Orders /\ orders[o].status # "none"
        BY <3>2 DEF RequestInv, PaymentInv, PriceInv
      <4>2. Right(req[w]) BY DEF PriceInv
      <4> QED BY <2>3, <4>1, <4>2, <1>2
    <3> QED BY <3>1, <3>2
  <2> QED BY <2>1, <2>2, <2>3, RequestKept
<1> QED BY <1>1, <1>3 DEF PriceInv

-----------------------------------------------------------------------------
(* CreditInv.  Sums of amounts are numbers of cents, so the theorems on        *)
(* cardinalities serve for them.                                               *)

\* A claim counts for its amount.
LEMMA ClaimCents ==
  ASSUME NEW c, c[3] \in Nat
  PROVE  /\ IsFiniteSet({c} \X (1 .. c[3]))
         /\ Cardinality({c} \X (1 .. c[3])) = c[3]
<1> DEFINE n == c[3]
<1>1. IsFiniteSet({c}) /\ Cardinality({c}) = 1 BY FS_Singleton
<1> HIDE DEF n
<1>2. n \in Nat BY DEF n
<1>3. IsFiniteSet(1 .. n) /\ Cardinality(1 .. n) = n BY <1>2, FS_Interval
<1>4. /\ IsFiniteSet({c} \X (1 .. n))
      /\ Cardinality({c} \X (1 .. n)) = Cardinality({c}) * Cardinality(1 .. n)
  BY <1>1, <1>3, FS_Product
<1> QED BY <1>1, <1>2, <1>3, <1>4 DEF n

\* Without claims there are no cents.
LEMMA NoCents == IsFiniteSet(Cents({})) /\ Cardinality(Cents({})) = 0
<1>1. Cents({}) = {} BY DEF Cents
<1> QED BY <1>1, FS_EmptySet

\* A claim that is made adds its amount.
LEMMA CentsAdd ==
  ASSUME NEW C, NEW c, c \notin C, c[3] \in Nat, IsFiniteSet(Cents(C))
  PROVE  /\ IsFiniteSet(Cents(C \cup {c}))
         /\ Cardinality(Cents(C \cup {c})) = Cardinality(Cents(C)) + c[3]
         /\ Cardinality(Cents(C)) \in Nat
<1> DEFINE new == {c} \X (1 .. c[3])
<1>1. IsFiniteSet(new) /\ Cardinality(new) = c[3] BY ClaimCents
<1>2. Cents(C \cup {c}) = Cents(C) \cup new BY DEF Cents
<1>3. Cents(C) \cap new = {} BY DEF Cents
<1> HIDE DEF new
<1>4. /\ IsFiniteSet(Cents(C) \cup new)
      /\ Cardinality(Cents(C) \cup new) =
            Cardinality(Cents(C)) + Cardinality(new) - Cardinality(Cents(C) \cap new)
  BY <1>1, FS_Union
<1>5. Cardinality(Cents(C) \cap new) = 0 BY <1>3, FS_EmptySet
<1>6. Cardinality(Cents(C)) \in Nat BY FS_CardinalityType
<1>7. Cardinality(Cents(C)) + c[3] - 0 = Cardinality(Cents(C)) + c[3] BY <1>6
<1> QED BY <1>1, <1>2, <1>4, <1>5, <1>6, <1>7

\* A claim that is settled takes its amount away.
LEMMA CentsRemove ==
  ASSUME NEW C, NEW c, c \in C, c[3] \in Nat, IsFiniteSet(Cents(C))
  PROVE  /\ IsFiniteSet(Cents(C \ {c}))
         /\ Cardinality(Cents(C)) = Cardinality(Cents(C \ {c})) + c[3]
         /\ Cardinality(Cents(C \ {c})) \in Nat
<1>1. Cents(C \ {c}) \subseteq Cents(C) BY DEF Cents
<1>2. IsFiniteSet(Cents(C \ {c})) BY <1>1, FS_Subset
<1>3. (C \ {c}) \cup {c} = C OBVIOUS
<1>4. Cardinality(Cents((C \ {c}) \cup {c})) = Cardinality(Cents(C \ {c})) + c[3]
  BY <1>2, CentsAdd
<1>5. Cardinality(Cents(C \ {c})) \in Nat BY <1>2, FS_CardinalityType
<1> QED BY <1>2, <1>3, <1>4, <1>5

\* Claims that are forgotten leave fewer cents.
LEMMA CentsForget ==
  ASSUME NEW C, NEW D \in SUBSET C, IsFiniteSet(Cents(C))
  PROVE  /\ IsFiniteSet(Cents(D))
         /\ Cardinality(Cents(D)) <= Cardinality(Cents(C))
         /\ Cardinality(Cents(C)) \in Nat
         /\ Cardinality(Cents(D)) \in Nat
<1>1. Cents(D) \subseteq Cents(C) BY DEF Cents
<1>2. IsFiniteSet(Cents(D)) /\ Cardinality(Cents(D)) <= Cardinality(Cents(C)) BY <1>1, FS_Subset
<1> QED BY <1>2, FS_CardinalityType

\* The account of a user: what was taken is credited or claimed, to the cent if
\* "exact".
Balanced(claims, in, taken, exact) ==
    /\ IsFiniteSet(Cents(claims))
    /\ in + Cardinality(Cents(claims)) <= taken
    /\ exact => in + Cardinality(Cents(claims)) = taken

\* Money that is taken is claimed at once.
LEMMA ClaimMade ==
  ASSUME NEW C, NEW c, c \notin C, NEW n \in Nat, c[3] = n,
         NEW in \in Nat, NEW taken \in Nat, NEW exact, Balanced(C, in, taken, exact)
  PROVE  Balanced(C \cup {c}, in, taken + n, exact)
<1> DEFINE before == Cardinality(Cents(C))
           after == Cardinality(Cents(C \cup {c}))
<1>1. IsFiniteSet(Cents(C \cup {c})) /\ after = before + n /\ before \in Nat
  BY CentsAdd DEF Balanced
<1>2. in + before <= taken /\ (exact => in + before = taken) BY DEF Balanced
<1> HIDE DEF before, after
<1>3. in + after <= taken + n /\ (exact => in + after = taken + n) BY <1>1, <1>2
<1> QED BY <1>1, <1>3 DEF Balanced, after

\* A claim that is settled is credited by its amount.
LEMMA ClaimSettled ==
  ASSUME NEW C, NEW c \in C, NEW n \in Nat, c[3] = n,
         NEW in \in Nat, NEW taken \in Nat, NEW exact, Balanced(C, in, taken, exact)
  PROVE  Balanced(C \ {c}, in + n, taken, exact)
<1> DEFINE before == Cardinality(Cents(C))
           after == Cardinality(Cents(C \ {c}))
<1>1. IsFiniteSet(Cents(C \ {c})) /\ before = after + n /\ after \in Nat
  BY CentsRemove DEF Balanced
<1>2. in + before <= taken /\ (exact => in + before = taken) BY DEF Balanced
<1> HIDE DEF before, after
<1>3. in + n + after <= taken /\ (exact => in + n + after = taken) BY <1>1, <1>2
<1> QED BY <1>1, <1>3 DEF Balanced, after

\* A claim that is forgotten is money lost to the user, never one to the platform.
LEMMA ClaimForgotten ==
  ASSUME NEW C, NEW D \in SUBSET C,
         NEW in \in Nat, NEW taken \in Nat, NEW exact, Balanced(C, in, taken, exact)
  PROVE  Balanced(D, in, taken, FALSE)
<1> DEFINE before == Cardinality(Cents(C))
           after == Cardinality(Cents(D))
<1>1. IsFiniteSet(Cents(D)) /\ after <= before /\ before \in Nat /\ after \in Nat
  BY CentsForget DEF Balanced
<1>2. in + before <= taken BY DEF Balanced
<1> HIDE DEF before, after
<1>3. in + after <= taken BY <1>1, <1>2
<1> QED BY <1>1, <1>3 DEF Balanced, after

Exact == faults = 0 \/ Provider = "stripe"

SessionClaim(s) == <<"session", s, sessions[s].amount>>
ChargeClaim(w) == <<"charge", w, req[w].amount>>

\* Claims come and go with their sessions and requests.
LEMMA ClaimsElements ==
  ASSUME NEW u
  PROVE  \A c : c \in Claims(u) <=>
            \/ \E s \in Sessions :
                  /\ c = SessionClaim(s)
                  /\ sessions[s].user = u /\ sessions[s].paid /\ sessions[s].status = "pending"
            \/ \E w \in Workers :
                  /\ c = ChargeClaim(w)
                  /\ At(w, "recharge", "commit") /\ req[w].user = u
BY DEF Claims, SessionClaim, ChargeClaim

\* CreditInv is preserved.
LEMMA CreditStep ==
  ASSUME TypeOK, RequestInv, RowInv, LoopInv, CreditInv, [Next]_vars
  PROVE  CreditInv'
<1>a. /\ req \in [Workers -> Requests] /\ sessions \in [Sessions -> SessionRecords]
      /\ credited \in [Users -> Nat] /\ captured \in [Users -> Nat] /\ faults \in Nat
  BY BillingAssumption DEF TypeOK
<1>b. \A u \in Users : Balanced(Claims(u), credited[u], captured[u], Exact)
  BY DEF CreditInv, Balanced, Exact
<1>c. SUFFICES ASSUME NEW u \in Users
               PROVE  Balanced(Claims(u)', credited'[u], captured'[u], Exact')
  BY DEF CreditInv, Balanced, Exact
<1> DEFINE Goal == Balanced(Claims(u)', credited'[u], captured'[u], Exact')
<1>d. credited[u] \in Nat /\ captured[u] \in Nat BY <1>a
<1>e. ASSUME Claims(u)' = Claims(u), UNCHANGED <<credited, captured, faults>> PROVE Goal
  BY <1>b, <1>e DEF Exact
<1> SUFFICES Goal OBVIOUS
<1> HIDE DEF Goal
<1>f. ASSUME UNCHANGED sessions, UNCHANGED <<credited, captured, faults>>,
             \A w \in Workers :
                \/ req'[w] = req[w]
                \/ ~ At(w, "recharge", "commit") /\ ~ At(w, "recharge", "commit")'
      PROVE  Goal
  <2>1. Claims(u)' = Claims(u) BY <1>f DEF Claims, At
  <2> QED BY <1>e, <1>f, <2>1
<1>1. ASSUME NEW w \in Workers, NEW r \in Requests, Arrives(w, r) PROVE Goal
  <2>1. req' = [req EXCEPT ![w] = r] /\ r.pc # "commit" /\ req[w] = Idle BY <1>1 DEF Arrives
  <2>2. ~ At(w, "recharge", "commit") /\ ~ At(w, "recharge", "commit")'
    BY <2>1, <1>a DEF At, Idle
  <2> QED BY <1>1, <1>f, <1>a, <2>1, <2>2 DEF Arrives, rowVars
<1>2. ASSUME NEW w \in Workers, NEW pc \in PCs, Passes(w, pc) PROVE Goal
  <2>1. ~ At(w, "recharge", "commit") /\ ~ At(w, "recharge", "commit")'
    BY <1>2, <1>a DEF Passes, Goto, At
  <2> QED BY <1>2, <1>f, <1>a, <2>1 DEF Passes, Goto, Kept, Rows, rowVars
<1>3. ASSUME NEW w \in Workers, NEW pc \in PCs, Loads(w, pc), req[w].op # "recharge" PROVE Goal
  <2>1. ~ At(w, "recharge", "commit") /\ ~ At(w, "recharge", "commit")'
    BY <1>3, <1>a DEF Loads, Load, At, Requests
  <2> QED BY <1>3, <1>f, <1>a, <2>1 DEF Loads, Load, Kept, Rows, rowVars
<1>4. ASSUME NEW w \in Workers, Replies(w) PROVE Goal
  <2>1. ~ At(w, "recharge", "commit") /\ ~ At(w, "recharge", "commit")'
    BY <1>4, <1>a DEF Replies, Reply, Idle, At
  <2> QED BY <1>4, <1>f, <1>a, <2>1 DEF Replies, Reply, Kept, Rows, rowVars
<1>5. ASSUME NEW w \in Workers, PayCommit(w) \/ MeterCommit(w) \/ RenewCommit(w) PROVE Goal
  <2>1. ~ At(w, "recharge", "commit") /\ ~ At(w, "recharge", "commit")'
    BY <1>5, <1>a DEF PayCommit, MeterCommit, RenewCommit, Move, Reply, Idle, At
  <2> QED BY <1>5, <1>f, <1>a, <2>1 DEF PayCommit, MeterCommit, RenewCommit, Move, Reply, boundVars
<1>6. ASSUME NEW w \in Workers, NEW pc \in PCs, Loads(w, pc), req[w].op = "recharge" PROVE Goal
  <2> DEFINE c == ChargeClaim(w)
             n == req[w].amount
  <2>1. req[w] \in Requests /\ req[w].pc = "select" /\ req[w].user \in Users /\ n \in Nat
    BY <1>6, <1>a DEF Loads, RequestInv, Requests
  <2>2. /\ req' = [req EXCEPT ![w].pc = "commit", ![w].seen = balance[req[w].user]]
        /\ UNCHANGED <<sessions, credited, faults>>
        /\ captured' = [captured EXCEPT ![req[w].user] = @ + n]
    BY <1>6 DEF Loads, Load, Kept, Rows, rowVars
  <2>3. /\ At(w, "recharge", "commit")' /\ req'[w].user = req[w].user /\ ChargeClaim(w)' = c
        /\ ~ At(w, "recharge", "commit")
    BY <1>6, <1>a, <2>1, <2>2 DEF At, ChargeClaim, Requests
  <2>4. \A v \in Workers : v # w => req'[v] = req[v] BY <2>2, <1>a
  <2>5. c[3] = n BY DEF ChargeClaim
  <2>6. CASE req[w].user = u
    <3>1. c \notin Claims(u)
      BY <2>3, ClaimsElements DEF ChargeClaim, SessionClaim
    <3>2. Claims(u)' = Claims(u) \cup {c}
      <4> DEFINE W == {x \in Workers : At(x, "recharge", "commit") /\ req[x].user = u}
      <4>1. W' = W \cup {w} BY <2>3, <2>4, <2>6 DEF At
      <4>2. \A x \in W : req'[x].amount = req[x].amount BY <2>3, <2>4
      <4>3. req'[w].amount = n BY <2>3 DEF ChargeClaim
      <4>4. c = <<"charge", w, n>> BY DEF ChargeClaim
      <4> DEFINE P == {<<"session", s, sessions[s].amount>> : s \in {x \in Sessions :
                 sessions[x].user = u /\ sessions[x].paid /\ sessions[x].status = "pending"}}
      <4>5. Claims(u) = P \cup {<<"charge", x, req[x].amount>> : x \in W} BY DEF Claims
      <4>6. Claims(u)' = P' \cup {<<"charge", x, req'[x].amount>> : x \in W'} BY DEF Claims
      <4>7. P' = P BY <2>2
      <4> HIDE DEF W, P, c, n
      <4>8. {<<"charge", x, req'[x].amount>> : x \in W \cup {w}}
              = {<<"charge", x, req[x].amount>> : x \in W} \cup {<<"charge", w, n>>}
        BY <4>2, <4>3
      <4> QED BY <4>1, <4>4, <4>5, <4>6, <4>7, <4>8
    <3>3. captured'[u] = captured[u] + n /\ credited'[u] = credited[u] /\ Exact' = Exact
      BY <2>2, <2>6, <1>a DEF Exact
    <3> HIDE DEF c, n
    <3>4. Balanced(Claims(u) \cup {c}, credited[u], captured[u] + n, Exact)
      BY <3>1, <2>1, <2>5, <1>b, <1>d, ClaimMade
    <3> QED BY <3>2, <3>3, <3>4 DEF Goal
  <2>7. CASE req[w].user # u
    <3> HIDE DEF c, n
    <3>1. Claims(u)' = Claims(u)
      <4> DEFINE W == {x \in Workers : At(x, "recharge", "commit") /\ req[x].user = u}
      <4>1. W' = W BY <2>3, <2>4, <2>7 DEF At
      <4>2. \A x \in W : req'[x].amount = req[x].amount BY <2>3, <2>4
      <4>3. sessions' = sessions BY <2>2
      <4> QED BY <4>1, <4>2, <4>3 DEF Claims
    <3>2. captured'[u] = captured[u] /\ credited'[u] = credited[u] /\ Exact' = Exact
      BY <2>2, <2>7, <1>a DEF Exact
    <3> QED BY <3>1, <3>2, <1>b DEF Goal
  <2> QED BY <2>6, <2>7
<1>7. ASSUME NEW w \in Workers, RechargeCommit(w) PROVE Goal
  <2> DEFINE c == ChargeClaim(w)
             n == req[w].amount
  <2>1. At(w, "recharge", "commit") /\ req[w].user \in Users /\ n \in Nat
    BY <1>7, <1>a DEF RechargeCommit, Move, At, RequestInv, Requests
  <2>2. /\ req' = [req EXCEPT ![w] = Idle]
        /\ UNCHANGED <<sessions, captured, faults>>
        /\ credited' = [credited EXCEPT ![req[w].user] = @ + n]
    BY <1>7 DEF RechargeCommit, Move, Reply, boundVars
  <2>3. ~ At(w, "recharge", "commit")' BY <2>2, <1>a DEF At, Idle
  <2>4. \A v \in Workers : v # w => req'[v] = req[v] BY <2>2, <1>a
  <2>5. c[3] = n BY DEF ChargeClaim
  <2>6. CASE req[w].user = u
    <3>1. c \in Claims(u) BY <2>1, <2>6, ClaimsElements
    <3>2. Claims(u)' = Claims(u) \ {c}
      <4>1. \A v \in Workers : v # w => <<"charge", v, req[v].amount>> # c BY DEF ChargeClaim
      <4>2. \A s \in Sessions : <<"session", s, sessions[s].amount>> # c BY DEF ChargeClaim
      <4> QED BY <2>2, <2>3, <2>4, <4>1, <4>2 DEF Claims, ChargeClaim, At
    <3>3. captured'[u] = captured[u] /\ credited'[u] = credited[u] + n /\ Exact' = Exact
      BY <2>2, <2>6, <1>a DEF Exact
    <3> HIDE DEF c, n
    <3>4. Balanced(Claims(u) \ {c}, credited[u] + n, captured[u], Exact)
      BY <3>1, <2>1, <2>5, <1>b, <1>d, ClaimSettled
    <3> QED BY <3>2, <3>3, <3>4 DEF Goal
  <2>7. CASE req[w].user # u
    <3>1. Claims(u)' = Claims(u) BY <2>2, <2>3, <2>4, <2>7 DEF Claims, At
    <3>2. captured'[u] = captured[u] /\ credited'[u] = credited[u] /\ Exact' = Exact
      BY <2>2, <2>7, <1>a DEF Exact
    <3> QED BY <3>1, <3>2, <1>b DEF Goal
  <2> QED BY <2>6, <2>7
<1>8. ASSUME NEW w \in Workers, WebhookCommit(w) PROVE Goal
  <2> DEFINE s == req[w].ref
             c == SessionClaim(s)
             n == req[w].amount
  <2>1. /\ ~ At(w, "recharge", "commit") /\ s \in Sessions /\ req[w].user \in Users
        /\ sessions[s].status = "pending" /\ sessions[s].paid /\ sessions[s].user = req[w].user
        /\ sessions[s].amount = n /\ n \in Nat
    BY <1>8, <1>a DEF WebhookCommit, At, RequestInv, SessionRecords
  <2>2. /\ req' = [req EXCEPT ![w] = Idle]
        /\ UNCHANGED <<captured, faults>>
        /\ sessions' = [sessions EXCEPT ![s].status = "completed"]
        /\ credited' = [credited EXCEPT ![req[w].user] = @ + n]
    BY <1>8 DEF WebhookCommit, Move, Reply, boundVars
  <2>3. ~ At(w, "recharge", "commit")' BY <2>2, <1>a DEF At, Idle
  <2>4. \A v \in Workers : v # w => req'[v] = req[v] BY <2>2, <1>a
  <2>5. c[3] = n BY <2>1 DEF SessionClaim
  <2>6. \A x \in Sessions : x # s => sessions'[x] = sessions[x] BY <2>2, <1>a
  <2>7. sessions'[s].status = "completed" BY <2>1, <2>2, <1>a DEF SessionRecords
  <2>8. CASE req[w].user = u
    <3>1. c \in Claims(u) BY <2>1, <2>8, ClaimsElements
    <3>2. Claims(u)' = Claims(u) \ {c}
      <4>1. \A v \in Workers : <<"charge", v, req[v].amount>> # c BY DEF SessionClaim
      <4>2. \A x \in Sessions : x # s => <<"session", x, sessions[x].amount>> # c
        BY DEF SessionClaim
      <4> HIDE DEF s
      <4> QED BY <2>1, <2>3, <2>4, <2>6, <2>7, <4>1, <4>2 DEF Claims, SessionClaim, At
    <3>3. captured'[u] = captured[u] /\ credited'[u] = credited[u] + n /\ Exact' = Exact
      BY <2>2, <2>8, <1>a DEF Exact
    <3> HIDE DEF c, n
    <3>4. Balanced(Claims(u) \ {c}, credited[u] + n, captured[u], Exact)
      BY <3>1, <2>1, <2>5, <1>b, <1>d, ClaimSettled
    <3> QED BY <3>2, <3>3, <3>4 DEF Goal
  <2>9. CASE req[w].user # u
    <3>1. sessions'[s].user = sessions[s].user BY <2>1, <2>2, <1>a DEF SessionRecords
    <3> HIDE DEF s
    <3>2. Claims(u)' = Claims(u) BY <2>1, <2>3, <2>4, <2>6, <2>9, <3>1 DEF Claims, At
    <3>3. captured'[u] = captured[u] /\ credited'[u] = credited[u] /\ Exact' = Exact
      BY <2>2, <2>9, <1>a DEF Exact
    <3> QED BY <3>2, <3>3, <1>b DEF Goal
  <2> QED BY <2>8, <2>9
<1>9. ASSUME NEW s \in Sessions, RenterPays(s) PROVE Goal
  <2> DEFINE c == SessionClaim(s)
             n == sessions[s].amount
  <2>1. /\ sessions[s].status = "pending" /\ ~ sessions[s].paid
        /\ sessions[s].user \in Users /\ n \in Nat
    BY <1>9, <1>a DEF RenterPays, RowInv, SessionRecords
  <2>2. /\ UNCHANGED <<req, credited, faults>>
        /\ sessions' = [sessions EXCEPT ![s].paid = TRUE]
        /\ captured' = [captured EXCEPT ![sessions[s].user] = @ + n]
    BY <1>9 DEF RenterPays, rowVars, boundVars
  <2>3. /\ sessions'[s].paid /\ sessions'[s].status = "pending"
        /\ sessions'[s].user = sessions[s].user /\ sessions'[s].amount = n
    BY <2>1, <2>2, <1>a DEF SessionRecords
  <2>4. \A x \in Sessions : x # s => sessions'[x] = sessions[x] BY <2>2, <1>a
  <2>5. c[3] = n BY DEF SessionClaim
  <2>6. CASE sessions[s].user = u
    <3>1. c \notin Claims(u) BY <2>1, ClaimsElements DEF ChargeClaim, SessionClaim
    <3>2. Claims(u)' = Claims(u) \cup {c}
      BY <2>2, <2>3, <2>4, <2>6 DEF Claims, SessionClaim, At
    <3>3. captured'[u] = captured[u] + n /\ credited'[u] = credited[u] /\ Exact' = Exact
      BY <2>2, <2>6, <1>a DEF Exact
    <3> HIDE DEF c, n
    <3>4. Balanced(Claims(u) \cup {c}, credited[u], captured[u] + n, Exact)
      BY <3>1, <2>1, <2>5, <1>b, <1>d, ClaimMade
    <3> QED BY <3>2, <3>3, <3>4 DEF Goal
  <2>7. CASE sessions[s].user # u
    <3>1. Claims(u)' = Claims(u) BY <2>2, <2>3, <2>4, <2>7 DEF Claims, At
    <3>2. captured'[u] = captured[u] /\ credited'[u] = credited[u] /\ Exact' = Exact
      BY <2>2, <2>7, <1>a DEF Exact
    <3> QED BY <3>1, <3>2, <1>b DEF Goal
  <2> QED BY <2>6, <2>7
<1>10. ASSUME NEW w \in Workers, NEW s \in Sessions, CheckoutCreated(w, s) PROVE Goal
  <2>1. /\ ~ At(w, "recharge", "commit") /\ sessions[s].status = "none"
        /\ req' = [req EXCEPT ![w] = Idle] /\ UNCHANGED <<credited, captured, faults>>
        /\ sessions' = [sessions EXCEPT ![s] = [status |-> "pending", user |-> req[w].user,
                                                amount |-> req[w].amount, paid |-> FALSE]]
    BY <1>10 DEF CheckoutCreated, At, Reply, NoSession, rowVars, boundVars
  <2>2. ~ At(w, "recharge", "commit")' /\ (\A v \in Workers : v # w => req'[v] = req[v])
    BY <2>1, <1>a DEF At, Idle
  <2>3. ~ sessions'[s].paid /\ \A x \in Sessions : x # s => sessions'[x] = sessions[x]
    BY <2>1, <1>a
  <2>4. Claims(u)' = Claims(u) BY <2>1, <2>2, <2>3 DEF Claims, At
  <2> QED BY <1>e, <2>1, <2>4
<1>11. ASSUME NEW v \in Users, NEW o \in Orders, NEW t \in Templates, NEW q \in Quantities,
              CreateOrder(v, o, t, q)
       PROVE  Goal
  BY <1>11, <1>f DEF CreateOrder, rowVars, boundVars
<1>12. ASSUME NEW dropped \in SUBSET Workers, Faulted(dropped) PROVE Goal
  <2>1. /\ UNCHANGED <<sessions, credited, captured>> /\ faults' = faults + 1
        /\ req' = [w \in Workers |-> IF w \in dropped THEN Idle ELSE req[w]]
    BY <1>12 DEF Faulted, rowVars
  <2>2. \A w \in Workers : At(w, "recharge", "commit")' => req'[w] = req[w] BY <2>1 DEF At, Idle
  <2> DEFINE W == {x \in Workers : At(x, "recharge", "commit") /\ req[x].user = u}
  <2>3. CASE Provider = "stripe"
    <3>1. \A w \in Workers : ~ At(w, "recharge", "commit") BY <2>3 DEF RequestInv, At
    <3>2. Claims(u)' = Claims(u)
      <4>1. W = {} /\ W' = {} BY <2>2, <3>1 DEF At
      <4>2. sessions' = sessions BY <2>1
      <4> QED BY <4>1, <4>2 DEF Claims
    <3> QED BY <2>1, <2>3, <3>2, <1>b DEF Goal, Exact
  <2>4. CASE Provider # "stripe"
    <3>1. Claims(u)' \in SUBSET Claims(u)
      <4>1. \A w \in W' : w \in W /\ req'[w] = req[w] BY <2>2 DEF At
      <4>2. sessions' = sessions BY <2>1
      <4> QED BY <4>1, <4>2 DEF Claims
    <3>2. Exact' = FALSE BY <2>1, <2>4, <1>a DEF Exact
    <3>3. Balanced(Claims(u)', credited[u], captured[u], FALSE)
      BY <3>1, <1>b, <1>d, ClaimForgotten
    <3> QED BY <2>1, <3>2, <3>3 DEF Goal
  <2> QED BY <2>3, <2>4
<1>13. CASE UNCHANGED vars
  <2>1. UNCHANGED sessions /\ UNCHANGED <<credited, captured, faults>> /\ UNCHANGED req
    BY <1>13 DEF vars, rowVars, boundVars
  <2> QED BY <1>f, <2>1
<1>14. ASSUME NEW w \in Workers, Advance(w) PROVE Goal
  BY <1>14, AdvanceCases, <1>2, <1>3, <1>4, <1>5, <1>6, <1>7, <1>8, <1>10
<1> QED BY NextCases, <1>1, <1>9, <1>11, <1>12, <1>13, <1>14 DEF AnyFault

-----------------------------------------------------------------------------
(* The invariant and what follows from it. *)

\* An empty database and idle workers satisfy the invariant.
LEMMA InitIInv == Init => IInv
<1> SUFFICES ASSUME Init PROVE IInv
  OBVIOUS
<1> USE BillingAssumption DEF Init
<1>1. TypeOK
  BY DEF TypeOK, OrderRecords, SessionRecords, NoOrder, NoSession, Requests, Idle
<1>2. RequestInv /\ LoopInv /\ RowInv
  BY DEF RequestInv, LoopInv, RowInv, HoldsLoop, Idle, NoOrder, NoSession
<1>3. NonNegativeInv /\ SoleWriterInv
  BY DEF NonNegativeInv, SoleWriterInv, Idle
<1>4. CreditedOnce /\ PaymentInv /\ PaidOrderHasPayment
  BY DEF CreditedOnce, PaymentInv, PaidOrderHasPayment, Idle, NoOrder, NoSession
<1>5. CreditInv
  <2>1. \A u \in Users : Claims(u) = {} BY DEF Claims, At, Idle, NoSession
  <2>2. \A u \in Users : IsFiniteSet(Cents(Claims(u))) /\ Cardinality(Cents(Claims(u))) = 0
    BY <2>1, NoCents
  <2> QED BY <2>2 DEF CreditInv
<1>6. PriceInv BY DEF PriceInv, Idle, NoOrder
<1> QED BY <1>1, <1>2, <1>3, <1>4, <1>5, <1>6 DEF IInv

\* The invariant is inductive.
LEMMA NextIInv == IInv /\ [Next]_vars => IInv'
<1> SUFFICES ASSUME IInv, [Next]_vars PROVE IInv'
  OBVIOUS
<1> USE DEF IInv
<1>1. TypeOK'
  <2>1. ASSUME NEW w \in Workers, Advance(w) PROVE TypeOK'
    BY <2>1, AdvanceTypes
  <2> QED BY <2>1, NextCases, OtherTypes
<1>2. RequestInv' /\ RowInv' /\ LoopInv' BY RequestStep, RowStep, LoopStep
<1>3. NonNegativeInv' /\ SoleWriterInv' BY NonNegativeStep, SoleWriterStep
<1>4. CreditedOnce' /\ PaymentInv' /\ PaidOrderHasPayment'
  BY CreditedStep, PaymentStep, PaidOrderStep
<1>5. CreditInv' BY CreditStep
<1>6. PriceInv' BY PriceStep
<1> QED BY <1>1, <1>2, <1>3, <1>4, <1>5, <1>6

\* The inductive invariant holds in every reachable state.
THEOREM Invariant == Spec => []IInv
  BY InitIInv, NextIInv, PTL DEF Spec

\* Every row and every request keeps its type, and the counters their bounds.
THEOREM TypeCorrect == Spec => []TypeOK
<1>1. IInv => TypeOK BY DEF IInv
<1> QED BY <1>1, Invariant, PTL

\* A user whose wallet requests never overlapped has the balance the ledger says,
\* whatever other users, failed charges and statements, repeated webhooks and restarts do.
THEOREM SoleWriterTheorem == Spec => []SoleWriterExact
<1>1. IInv => SoleWriterExact BY DEF IInv, SoleWriterInv, SoleWriterExact
<1> QED BY <1>1, Invariant, PTL

\* No payment and no renewal overdraws a wallet, even where updates are lost: a
\* negative balance belongs to a user with metered usage.
THEOREM NegativeTheorem == Spec => []NegativeOnlyByMetering
<1>1. IInv => NegativeOnlyByMetering
  BY DEF IInv, TypeOK, NonNegativeInv, NegativeOnlyByMetering
<1> QED BY <1>1, Invariant, PTL

\* complete_pending_recharge credits a checkout session exactly once if it is
\* COMPLETED and never otherwise, for any number of deliveries and faults.
THEOREM CreditedTheorem == Spec => []CreditedOnce
<1>1. IInv => CreditedOnce BY DEF IInv
<1> QED BY <1>1, Invariant, PTL

\* pay_order: an order is PAID exactly if a payment is on the ledger, and one only
\* unless its renter had overlapping requests.
THEOREM PaymentTheorem == Spec => []PaidOrderHasPayment
<1>1. IInv => PaidOrderHasPayment BY DEF IInv
<1> QED BY <1>1, Invariant, PTL

\* A wallet is never credited with money the provider did not take.  Once nothing of
\* a user is under way, all that was taken is credited: always where money comes in
\* by hosted checkout, unless a restart or a raising statement came in between where it
\* is charged directly.
THEOREM CapturedTheorem == Spec => []CapturedIsCredited
<1>1. IInv => CapturedIsCredited
  <2> SUFFICES ASSUME IInv, NEW u \in Users
               PROVE  /\ credited[u] <= captured[u]
                      /\ Settled(u) /\ (faults = 0 \/ Provider = "stripe") => credited[u] = captured[u]
    BY DEF CapturedIsCredited
  <2> DEFINE n == Cardinality(Cents(Claims(u)))
  <2>1. credited[u] \in Nat /\ captured[u] \in Nat BY DEF IInv, TypeOK
  <2>2. IsFiniteSet(Cents(Claims(u))) BY DEF IInv, CreditInv
  <2>3. n \in Nat BY <2>2, FS_CardinalityType
  <2>4. /\ credited[u] + n <= captured[u]
        /\ faults = 0 \/ Provider = "stripe" => credited[u] + n = captured[u]
    BY DEF IInv, CreditInv
  <2>5. ASSUME Settled(u) PROVE n = 0
    <3>1. Claims(u) = {} BY <2>5 DEF Settled, Claims
    <3> QED BY <3>1, NoCents
  <2> HIDE DEF n
  <2> QED BY <2>1, <2>3, <2>4, <2>5
<1> QED BY <1>1, Invariant, PTL

-----------------------------------------------------------------------------
(* Billing implements Accounts. *)

PaidOrders == {o \in Orders : orders[o].status = "paid"}
SettledSessions == {s \in Sessions : sessions[s].status = "completed"}
MeteredUsers == {u \in Users : \E o \in Orders : orders[o].user = u /\ usages[o] > 0}
Bills == [o \in Orders |-> [user |-> orders[o].user, template |-> orders[o].template,
                            quantity |-> orders[o].quantity]]

\* Every step but CreateOrder leaves what is ordered alone.
LEMMA BillsKept ==
  ASSUME IInv, [Next]_vars,
         ~ \E u \in Users, o \in Orders, t \in Templates, q \in Quantities : CreateOrder(u, o, t, q)
  PROVE  Bills' = Bills
<1>1. ASSUME NEW o \in Orders
      PROVE  /\ orders'[o].user = orders[o].user /\ orders'[o].template = orders[o].template
             /\ orders'[o].quantity = orders[o].quantity
  BY OrderKept DEF IInv
<1> QED BY <1>1 DEF Bills

\* A commit that moves delta, as Accounts sees it.
LEMMA MovePromise ==
  ASSUME IInv, NEW w \in Workers, NEW delta \in Int, Move(w, delta), req[w].op \notin {"none", "checkout"}
  PROVE  /\ req[w].user \in Users
         /\ Promise!Move(req[w].user, delta)
         /\ ledger'[req[w].user] = ledger[req[w].user] + delta
         /\ req[w].user \notin shared /\ req[w].seen + delta >= 0 => balance'[req[w].user] >= 0
<1> DEFINE u == req[w].user
<1>1. u \in Users BY DEF IInv, RequestInv
<1>2. req[w] \in Requests BY ReqTypes DEF IInv, TypeOK
<1>3. req[w].seen \in Int BY <1>2 DEF Requests
<1>4. balance' \in [Users -> Int] /\ ledger' \in [Users -> Int]
  BY <1>1, MoveTypes DEF IInv
<1>5. ledger' = [ledger EXCEPT ![u] = @ + delta] BY DEF Move, Record
<1>6. balance' = IF delta = 0 THEN balance ELSE [balance EXCEPT ![u] = req[w].seen + delta]
  BY DEF Move, SetBalance
<1>7. u \notin shared => req[w].seen = balance[u]
  BY <1>1 DEF IInv, SoleWriterInv, Move
<1> HIDE DEF u
<1>8. Promise!Move(u, delta)
  BY <1>1, <1>3, <1>4, <1>5, <1>6, <1>7 DEF Promise!Move, IInv, TypeOK
<1>9. ledger'[u] = ledger[u] + delta BY <1>1, <1>5 DEF IInv, TypeOK
<1>10. u \notin shared /\ req[w].seen + delta >= 0 => balance'[u] >= 0
  BY <1>1, <1>3, <1>6, <1>7 DEF IInv, TypeOK
<1> QED BY <1>1, <1>8, <1>9, <1>10 DEF u

\* A commit that credits a wallet is a deposit of the request's amount.
LEMMA DepositPromise ==
  ASSUME IInv, NEW w \in Workers, Move(w, req[w].amount), req[w].op \in {"recharge", "webhook"},
         credited' = [credited EXCEPT ![req[w].user] = @ + req[w].amount]
  PROVE  Promise!Deposit(req[w].user)
<1> DEFINE u == req[w].user
           n == req[w].amount
<1>1. n \in Nat /\ u \in Users
  <2>1. req[w] \in Requests BY ReqTypes DEF IInv, TypeOK
  <2>2. n \in Int BY <2>1 DEF Requests
  <2> QED BY <2>2 DEF IInv, RequestInv
<1>2. Promise!Move(u, n) /\ ledger'[u] = ledger[u] + n BY <1>1, MovePromise
<1>3. ledger[u] \in Int BY <1>1 DEF IInv, TypeOK
<1> HIDE DEF u, n
<1>4. ledger'[u] - ledger[u] = n BY <1>1, <1>2, <1>3
<1>5. credited' = [credited EXCEPT ![u] = @ + n] BY DEF u, n
<1>6. n >= 0 BY <1>1
<1>7. Promise!Deposit(u) BY <1>2, <1>4, <1>5, <1>6 DEF Promise!Deposit
<1> QED BY <1>7 DEF u

\* A commit for an order charges its renter what Accounts says it costs.
LEMMA ChargePromise ==
  ASSUME IInv, NEW w \in Workers, req[w].op \in {"pay", "meter", "renew"},
         Move(w, - req[w].amount), UNCHANGED credited
  PROVE  LET o == req[w].ref
             u == req[w].user
         IN  /\ o \in Orders /\ u \in Users /\ u = Bills[o].user /\ Bills[o] # Promise!NoBill
             /\ req[w].op \in {"pay", "renew"} =>
                   Promise!Charge(u, Price[Bills[o].template] * Bills[o].quantity)
             /\ req[w].op = "meter" => Promise!Charge(u, Price[Bills[o].template])
             /\ u \notin shared /\ req[w].seen >= req[w].amount => balance'[u] >= 0
<1> DEFINE o == req[w].ref
           u == req[w].user
           n == req[w].amount
<1>1. /\ o \in Orders /\ u \in Users /\ orders[o].user = u /\ orders[o].status # "none"
  BY DEF IInv, RequestInv, PaymentInv, PriceInv
<1>2. n \in Int /\ req[w].seen \in Int
  <2>1. req[w] \in Requests BY ReqTypes DEF IInv, TypeOK
  <2> QED BY <2>1 DEF Requests
<1>3. /\ Bills[o].user = orders[o].user /\ Bills[o].template = orders[o].template
      /\ Bills[o].quantity = orders[o].quantity
  BY <1>1 DEF Bills
<1>4. Bills[o] # Promise!NoBill
  BY <1>1, <1>3, BillingAssumption DEF Promise!NoBill
<1>5. /\ req[w].op \in {"pay", "renew"} => n = Price[Bills[o].template] * Bills[o].quantity
      /\ req[w].op = "meter" => n = Price[Bills[o].template]
  BY <1>1, <1>3 DEF IInv, PriceInv
<1>6. - n \in Int BY <1>2
<1>7. Promise!Move(u, - n) /\ (u \notin shared /\ req[w].seen + (- n) >= 0 => balance'[u] >= 0)
  BY <1>6, MovePromise
<1> HIDE DEF n
<1>8. Promise!Charge(u, n) BY <1>7 DEF Promise!Charge
<1>9. u \notin shared /\ req[w].seen >= n => balance'[u] >= 0 BY <1>2, <1>7
<1> QED BY <1>1, <1>3, <1>4, <1>5, <1>8, <1>9 DEF n

\* Every step of Billing is a step of Accounts or leaves its variables alone.
LEMMA StepPromise ==
  ASSUME IInv, [Next]_vars
  PROVE  [Promise!Next]_(Promise!vars)
<1> USE DEF Promise!vars
<1>a. /\ TypeOK /\ RequestInv /\ RowInv /\ req \in [Workers -> Requests]
      /\ \A w \in Workers : req[w].amount \in Int /\ req[w].seen \in Int
  BY DEF IInv, TypeOK, Requests
<1>b. ASSUME Kept PROVE UNCHANGED Promise!vars
  BY <1>b DEF Kept, Rows, rowVars
<1>1. ASSUME NEW w \in Workers, NEW r \in Requests, Arrives(w, r) PROVE [Promise!Next]_(Promise!vars)
  <2>1. r.user \in Users /\ UNCHANGED <<balance, orders, sessions, ledger, credited, usages>>
    BY <1>1 DEF Arrives, walletVars, rowVars
  <2>2. CASE shared' = shared BY <2>1, <2>2
  <2>3. CASE shared' = shared \cup {r.user}
    <3>1. Promise!Contend(r.user) BY <2>1, <2>3 DEF Promise!Contend
    <3> QED BY <2>1, <3>1 DEF Promise!Next
  <2> QED BY <1>1, <2>2, <2>3 DEF Arrives
<1>2. ASSUME NEW w \in Workers, NEW pc \in PCs, Passes(w, pc) PROVE UNCHANGED Promise!vars
  BY <1>2, <1>b DEF Passes
<1>3. ASSUME NEW w \in Workers, NEW pc \in PCs, Loads(w, pc) PROVE UNCHANGED Promise!vars
  BY <1>3, <1>b DEF Loads
<1>4. ASSUME NEW w \in Workers, Replies(w) PROVE UNCHANGED Promise!vars
  BY <1>4, <1>b DEF Replies
<1>5. ASSUME NEW w \in Workers, NEW s \in Sessions, CheckoutCreated(w, s) PROVE UNCHANGED Promise!vars
  <2>1. SettledSessions' = SettledSessions
    BY <1>5, <1>a DEF CheckoutCreated, SettledSessions, NoSession, TypeOK
  <2> QED BY <1>5, <2>1 DEF CheckoutCreated, walletVars, rowVars, SettledSessions
<1>c. ASSUME NEW w \in Workers,
             PayCommit(w) \/ RechargeCommit(w) \/ WebhookCommit(w) \/ MeterCommit(w) \/ RenewCommit(w)
      PROVE  Bills' = Bills
  <2>1. req' # req BY <1>c, <1>a DEF PayCommit, RechargeCommit, WebhookCommit, MeterCommit,
     RenewCommit, Move, Reply, Idle
  <2> QED BY <2>1, BillsKept DEF CreateOrder
<1>6. ASSUME NEW w \in Workers, PayCommit(w) PROVE Promise!Next
  <2>1. /\ req[w].op = "pay" /\ req[w].pc = "commit"
        /\ Move(w, - req[w].amount) /\ UNCHANGED credited
        /\ UNCHANGED <<sessions, usages, shared>>
    BY <1>6 DEF PayCommit, Move
  <2>2. PICK o \in Orders, u \in Users : o = req[w].ref /\ u = req[w].user
    BY <2>1, ChargePromise
  <2>3. Promise!Purchase(o, u)
    BY <2>1, <2>2, <1>a, ChargePromise
    DEF RequestInv, Promise!Purchase, Promise!Cost, Bills
  <2>5. o \notin PaidOrders \/ u \in shared
    BY <2>1, <2>2 DEF IInv, SoleWriterInv, PaidOrders
  <2>6. PaidOrders' = PaidOrders \cup {o}
    BY <1>6, <1>a, <2>2 DEF PayCommit, PaidOrders, TypeOK
  <2>7. UNCHANGED <<MeteredUsers, SettledSessions, Bills>>
    <3>1. \A p \in Orders : orders'[p].user = orders[p].user BY <1>6, <1>c DEF Bills
    <3> QED BY <2>1, <3>1, <1>6, <1>c DEF MeteredUsers, SettledSessions
  <2>8. Promise!Pay(o, u)
    BY <2>1, <2>3, <2>5, <2>6, <2>7 DEF Promise!Pay, PaidOrders, SettledSessions, MeteredUsers, Bills
  <2> QED BY <2>8 DEF Promise!Next
<1>7. ASSUME NEW w \in Workers, RechargeCommit(w) PROVE Promise!Next
  <2>1. PICK u \in Users : u = req[w].user BY <1>7, <1>a DEF RechargeCommit, RequestInv
  <2>2. Promise!Deposit(u) BY <1>7, <2>1, DepositPromise DEF RechargeCommit
  <2>3. Promise!Recharge(u)
    BY <1>7, <1>a, <2>2 DEF RechargeCommit, Move, RequestInv, Promise!Recharge
  <2> QED BY <2>3 DEF Promise!Next
<1>8. ASSUME NEW w \in Workers, WebhookCommit(w) PROVE Promise!Next
  <2>1. PICK u \in Users : u = req[w].user BY <1>8, <1>a DEF WebhookCommit, RequestInv
  <2>2. Promise!Deposit(u) BY <1>8, <2>1, DepositPromise DEF WebhookCommit
  <2>3. PICK s \in Sessions : s = req[w].ref /\ s \notin SettledSessions
    BY <1>8, <1>a DEF WebhookCommit, RequestInv, SettledSessions
  <2>4. SettledSessions' = SettledSessions \cup {s}
    BY <1>8, <1>a, <2>3 DEF WebhookCommit, SettledSessions, TypeOK
  <2>5. Promise!Settle(s, u)
    BY <1>8, <2>2, <2>3, <2>4 DEF WebhookCommit, Move, Promise!Settle, SettledSessions
  <2> QED BY <2>5 DEF Promise!Next
<1>9. ASSUME NEW w \in Workers, MeterCommit(w) PROVE Promise!Next
  <2>1. /\ req[w].op = "meter" /\ Move(w, - req[w].amount) /\ UNCHANGED credited
        /\ UNCHANGED <<orders, sessions, shared>>
    BY <1>9 DEF MeterCommit, Move
  <2>2. PICK o \in Orders, u \in Users : o = req[w].ref /\ u = req[w].user
    BY <2>1, ChargePromise
  <2>3. Promise!Charge(u, Price[Bills[o].template]) /\ u = Bills[o].user
    BY <2>1, <2>2, ChargePromise
  <2>4. MeteredUsers' = MeteredUsers \cup {u}
    <3>1. orders[o].user = u BY <2>2, <2>3 DEF Bills
    <3> QED BY <1>9, <1>a, <2>2, <3>1 DEF MeterCommit, MeteredUsers, TypeOK
  <2>5. o \in PaidOrders /\ Bills[o].template \in Metered
    BY <2>1, <2>2 DEF IInv, PriceInv, PaidOrders, Bills
  <2>6. Promise!Use(o, u)
    BY <2>1, <2>3, <2>4, <2>5 DEF Promise!Use, MeteredUsers, PaidOrders, Bills
  <2> QED BY <2>6 DEF Promise!Next
<1>10. ASSUME NEW w \in Workers, RenewCommit(w) PROVE Promise!Next
  <2>1. /\ req[w].op = "renew" /\ req[w].pc = "commit"
        /\ Move(w, - req[w].amount) /\ UNCHANGED credited
        /\ UNCHANGED <<orders, sessions, usages, shared>>
    BY <1>10 DEF RenewCommit, Move
  <2>2. PICK o \in Orders, u \in Users : o = req[w].ref /\ u = req[w].user
    BY <2>1, ChargePromise
  <2>3. Promise!Purchase(o, u)
    BY <2>1, <2>2, <1>a, ChargePromise
    DEF RequestInv, Promise!Purchase, Promise!Cost, Bills
  <2>4. o \in PaidOrders /\ Bills[o].template \notin Metered
    BY <2>1, <2>2 DEF IInv, PriceInv, PaidOrders, Bills
  <2>5. Promise!Renew(o, u)
    BY <2>1, <2>3, <2>4 DEF Promise!Renew, PaidOrders, Bills
  <2> QED BY <2>5 DEF Promise!Next
<1>11. ASSUME NEW u \in Users, NEW o \in Orders, NEW t \in Templates, NEW q \in Quantities,
              CreateOrder(u, o, t, q)
       PROVE  Promise!Next
  <2>1. PaidOrders' = PaidOrders
    BY <1>11, <1>a DEF CreateOrder, NoOrder, PaidOrders, TypeOK
  <2>2. MeteredUsers' = MeteredUsers
    BY <1>11, <1>a DEF CreateOrder, NoOrder, MeteredUsers, TypeOK, rowVars, IInv, PaymentInv
  <2>3. Bills' = [Bills EXCEPT ![o] = [user |-> u, template |-> t, quantity |-> q]]
    BY <1>11, <1>a DEF CreateOrder, Bills, TypeOK
  <2>4. Bills[o] = Promise!NoBill
    BY <1>11 DEF CreateOrder, Bills, NoOrder, Promise!NoBill
  <2>5. Promise!Place(o, u, t, q)
    BY <1>11, <2>1, <2>2, <2>3, <2>4
    DEF CreateOrder, walletVars, rowVars, PaidOrders, MeteredUsers, Bills, Promise!Place
  <2> QED BY <2>5 DEF Promise!Next
<1>12. ASSUME NEW s \in Sessions, RenterPays(s) PROVE UNCHANGED Promise!vars
  <2>1. SettledSessions' = SettledSessions
    BY <1>12, <1>a DEF RenterPays, SettledSessions, TypeOK
  <2> QED BY <1>12, <2>1 DEF RenterPays, walletVars, rowVars, SettledSessions
<1>13. CASE AnyFault BY <1>13 DEF AnyFault, Faulted, walletVars, rowVars
<1>14. CASE UNCHANGED vars BY <1>14 DEF vars, walletVars, rowVars
<1>15. ASSUME NEW w \in Workers, Advance(w) PROVE [Promise!Next]_(Promise!vars)
  BY <1>15, <1>a, AdvanceCases, <1>2, <1>3, <1>4, <1>5, <1>6, <1>7, <1>8, <1>9, <1>10
<1> QED BY NextCases, <1>a, <1>1, <1>11, <1>12, <1>13, <1>14, <1>15

\* Billing implements Accounts.
THEOREM PromiseTheorem == Spec => KeepsPromise
<1>1. Init => Promise!Init
  BY DEF Init, Promise!Init, Promise!NoBill, NoOrder, NoSession
<1>2. IInv /\ [Next]_vars => [Promise!Next]_(Promise!vars)
  BY StepPromise
<1> QED BY <1>1, <1>2, Invariant, PTL DEF Spec, KeepsPromise, Promise!Spec

\* stripe_provider.py, which refuses direct charges: a renter's money comes in with a
\* checkout session that becomes COMPLETED in the same commit, and with nothing else,
\* whatever is delivered twice, late or to a server that has been restarted.
THEOREM BySessionTheorem == Provider = "stripe" /\ Spec => Promise!BySession
<1> DEFINE By == \A u \in Users : credited'[u] # credited[u]
                    => \E s \in Sessions \ SettledSessions : SettledSessions' = SettledSessions \cup {s}
<1>1. ASSUME Provider = "stripe", [Promise!Next]_(Promise!vars) PROVE By
  BY <1>1 DEF Promise!Next, Promise!Place, Promise!Recharge, Promise!Settle, Promise!Pay, Promise!Renew,
     Promise!Use, Promise!Purchase, Promise!Charge, Promise!Contend, Promise!vars, SettledSessions
<1>2. IInv /\ [Next]_vars /\ Provider = "stripe" => [By]_(Promise!vars)
  BY <1>1, StepPromise
<1> HIDE DEF By
<1>3. Spec /\ Provider = "stripe" => [][By]_(Promise!vars)
  <2>1. CASE Provider = "stripe"
    <3>1. IInv /\ [Next]_vars => [By]_(Promise!vars) BY <1>2, <2>1
    <3> QED BY <3>1, Invariant, PTL DEF Spec
  <2>2. CASE ~ (Provider = "stripe") BY <2>2, PTL
  <2> QED BY <2>1, <2>2
<1> QED BY <1>3 DEF By, Promise!BySession, SettledSessions

-----------------------------------------------------------------------------
(* A request gets nearer to its answer and never back, which is what           *)
(* EveryRequestEnds rests on besides fairness.                                 *)

\* The most steps a request may still need: select, insert, select again, commit.
StepsLeft(w) ==
    IF req[w].pc = "select" THEN IF req[w].user \in wallets THEN 2 ELSE 4
    ELSE IF req[w].pc = "insert" THEN 3
    ELSE IF req[w] = Idle THEN 0 ELSE 1

\* A step ends w's request, brings it nearer, or leaves it as it was.
Nearer(w) ==
    \/ req'[w] = Idle
    \/ StepsLeft(w)' < StepsLeft(w)
    \/ req'[w] = req[w] /\ StepsLeft(w)' <= StepsLeft(w)

\* Wallets are never deleted.
LEMMA WalletsKept ==
  ASSUME TypeOK, RequestInv, RowInv, [Next]_vars
  PROVE  wallets \subseteq wallets'
<1> USE DEF walletVars
<1>1. ASSUME NEW w \in Workers, NEW r \in Requests, Arrives(w, r) PROVE wallets' = wallets
  BY <1>1 DEF Arrives
<1>2. ASSUME NEW w \in Workers, Advance(w) PROVE wallets \subseteq wallets'
  BY <1>2, AdvanceCases DEF Passes, Loads, Replies, Kept, CheckoutCreated, PayCommit,
     RechargeCommit, WebhookCommit, MeterCommit, RenewCommit, Move
<1>3. ASSUME NEW u \in Users, NEW o \in Orders, NEW t \in Templates, NEW q \in Quantities,
             CreateOrder(u, o, t, q)
      PROVE  wallets' = wallets
  BY <1>3 DEF CreateOrder
<1>4. ASSUME NEW s \in Sessions, RenterPays(s) PROVE wallets' = wallets
  BY <1>4 DEF RenterPays
<1> QED BY NextCases, <1>1, <1>2, <1>3, <1>4 DEF AnyFault, Faulted, vars

\* However requests race for a wallet, none of them starts over.
LEMMA NearerStep ==
  ASSUME TypeOK, RequestInv, RowInv, [Next]_vars, NEW w \in Workers, req[w] # Idle
  PROVE  Nearer(w)
<1>a. req \in [Workers -> Requests] /\ req[w] \in Requests BY DEF TypeOK
<1>b. wallets \subseteq wallets' BY WalletsKept
<1>c. ASSUME req'[w] = req[w] PROVE Nearer(w) BY <1>b, <1>c DEF Nearer, StepsLeft
<1>1. ASSUME NEW v \in Workers, NEW r \in Requests, Arrives(v, r) PROVE req'[w] = req[w]
  BY <1>1, <1>a DEF Arrives
<1>2. ASSUME NEW v \in Workers, NEW pc \in PCs, Passes(v, pc) PROVE Nearer(w)
  <2>1. req' = [req EXCEPT ![v].pc = pc] BY <1>2 DEF Passes, Goto
  <2>2. CASE v # w BY <2>1, <2>2, <1>a, <1>c
  <2>3. CASE v = w
    <3>1. req'[w].pc = pc /\ req'[w].user = req[w].user BY <2>1, <2>3, <1>a DEF Requests
    <3>2. CASE req[w].pc = "select"
      <4>1. StepsLeft(w) = 4 /\ StepsLeft(w)' = 3
        BY <1>2, <2>3, <3>1, <3>2 DEF Passes, StepsLeft
      <4> QED BY <4>1 DEF Nearer
    <3>3. CASE req[w].pc = "insert"
      <4>1. StepsLeft(w) = 3 /\ StepsLeft(w)' = 2
        BY <1>2, <2>3, <3>1, <3>3 DEF Passes, StepsLeft
      <4> QED BY <4>1 DEF Nearer
    <3> QED BY <1>2, <2>3, <3>2, <3>3 DEF Passes
  <2> QED BY <2>2, <2>3
<1>3. ASSUME NEW v \in Workers, NEW pc \in PCs, Loads(v, pc) PROVE Nearer(w)
  <2>1. req' = [req EXCEPT ![v].pc = "commit", ![v].seen = balance[req[v].user]]
    BY <1>3 DEF Loads, Load
  <2>2. CASE v # w BY <2>1, <2>2, <1>a, <1>c
  <2>3. CASE v = w
    <3>1. req'[w].pc = "commit" BY <2>1, <2>3, <1>a DEF Requests
    <3>2. StepsLeft(w) = 2 BY <1>3, <2>3 DEF Loads, StepsLeft
    <3>3. StepsLeft(w)' \in {0, 1} BY <3>1 DEF StepsLeft
    <3> QED BY <3>2, <3>3 DEF Nearer
  <2> QED BY <2>2, <2>3
<1>4. ASSUME NEW v \in Workers, req' = [req EXCEPT ![v] = Idle] PROVE Nearer(w)
  <2>1. CASE v = w BY <1>4, <2>1, <1>a DEF Nearer
  <2>2. CASE v # w BY <1>4, <2>2, <1>a, <1>c
  <2> QED BY <2>1, <2>2
<1>5. ASSUME NEW v \in Workers, Advance(v) PROVE Nearer(w)
  BY <1>5, AdvanceCases, <1>2, <1>3, <1>4 DEF Replies, CheckoutCreated, PayCommit, RechargeCommit,
     WebhookCommit, MeterCommit, RenewCommit, Move, Reply
<1>6. ASSUME AnyFault PROVE Nearer(w)
  <2>1. req'[w] = Idle \/ req'[w] = req[w] BY <1>6 DEF AnyFault, Faulted
  <2> QED BY <2>1, <1>c DEF Nearer
<1>7. ASSUME NEW u \in Users, NEW o \in Orders, NEW t \in Templates, NEW q \in Quantities,
             CreateOrder(u, o, t, q)
      PROVE  req'[w] = req[w]
  BY <1>7 DEF CreateOrder
<1>8. ASSUME NEW s \in Sessions, RenterPays(s) PROVE req'[w] = req[w] BY <1>8 DEF RenterPays
<1>9. ASSUME UNCHANGED vars PROVE req'[w] = req[w] BY <1>9 DEF vars
<1> QED BY NextCases, <1>c, <1>1, <1>5, <1>6, <1>7, <1>8, <1>9

\* get_or_create_wallet and what follows: no request is answered after more than
\* four steps of its own, and no step of another one puts it back.
THEOREM ProgressTheorem ==
  Spec => [][\A w \in Workers : req[w] # Idle => Nearer(w)]_vars
<1>1. IInv /\ [Next]_vars => [\A w \in Workers : req[w] # Idle => Nearer(w)]_vars
  BY NearerStep DEF IInv
<1> QED BY <1>1, Invariant, PTL DEF Spec

=============================================================================
