------------------------------ MODULE Accounts ------------------------------
(***************************************************************************)
(* What app/billing promises of a set of wallets, without requests, reads  *)
(* and commits: money moves in single steps, each recorded in the ledger,  *)
(* an order is paid once and at its own price, a renewal costs the same    *)
(* again, usage costs the unit price, a checkout session is credited once, *)
(* nothing else pays money in unless direct charges exist, and nothing but *)
(* metered usage overdraws a balance.                                      *)
(*                                                                         *)
(* The balance is promised to every user who is not "contested".  Once two *)
(* wallet requests of a user have overlapped, that user's balance may be   *)
(* anything and an order may be paid again; the ledger still gets what     *)
(* was charged, sessions are still credited once, and other users are not  *)
(* affected.                                                               *)
(***************************************************************************)
EXTENDS Integers

CONSTANTS
    Users, Templates, Metered, Price, Quantities, Orders, Sessions, None,
    Direct      \* money can come in without a checkout session

VARIABLES
    balance,    \* balance of a user's wallet
    ledger,     \* sum of the moves recorded for it
    credited,   \* the part of that sum that was paid in
    bill,       \* who ordered what
    paid,       \* orders that have been paid
    settled,    \* checkout sessions that have been credited
    metered,    \* users who were charged for usage
    contested   \* users whose requests have overlapped

vars == <<balance, ledger, credited, bill, paid, settled, metered, contested>>

NoBill == [user |-> None, template |-> None, quantity |-> 0]

Cost(o) == Price[bill[o].template] * bill[o].quantity

\* One recorded move of u's money, and of nobody else's.
Move(u, delta) ==
    /\ balance' \in [Users -> Int]
    /\ ledger' \in [Users -> Int]
    /\ ledger' = [ledger EXCEPT ![u] = @ + delta]
    /\ \A v \in Users \ {u} : balance'[v] = balance[v]
    /\ u \notin contested => balance'[u] = balance[u] + delta

Deposit(u) ==
    LET n == ledger'[u] - ledger[u] IN
    /\ n >= 0
    /\ Move(u, n)
    /\ credited' = [credited EXCEPT ![u] = @ + n]

Charge(u, n) == Move(u, - n) /\ UNCHANGED credited

\* The balance covers what an order costs.
Purchase(o, u) ==
    /\ bill[o] # NoBill /\ u = bill[o].user
    /\ Charge(u, Cost(o))
    /\ u \notin contested => balance'[u] >= 0

Place(o, u, t, q) ==
    /\ bill[o] = NoBill
    /\ bill' = [bill EXCEPT ![o] = [user |-> u, template |-> t, quantity |-> q]]
    /\ UNCHANGED <<balance, ledger, credited, paid, settled, metered, contested>>

Recharge(u) == Direct /\ Deposit(u) /\ UNCHANGED <<bill, paid, settled, metered, contested>>

Settle(s, u) ==
    /\ s \notin settled
    /\ settled' = settled \cup {s}
    /\ Deposit(u)
    /\ UNCHANGED <<bill, paid, metered, contested>>

Pay(o, u) ==
    /\ o \notin paid \/ u \in contested
    /\ paid' = paid \cup {o}
    /\ Purchase(o, u)
    /\ UNCHANGED <<bill, settled, metered, contested>>

Renew(o, u) ==
    /\ o \in paid
    /\ bill[o].template \notin Metered
    /\ Purchase(o, u)
    /\ UNCHANGED <<bill, paid, settled, metered, contested>>

Use(o, u) ==
    /\ o \in paid
    /\ bill[o].template \in Metered /\ u = bill[o].user
    /\ Charge(u, Price[bill[o].template])
    /\ metered' = metered \cup {u}
    /\ UNCHANGED <<bill, paid, settled, contested>>

Contend(u) ==
    /\ contested' = contested \cup {u}
    /\ UNCHANGED <<balance, ledger, credited, bill, paid, settled, metered>>

Init ==
    /\ balance = [u \in Users |-> 0]
    /\ ledger = [u \in Users |-> 0]
    /\ credited = [u \in Users |-> 0]
    /\ bill = [o \in Orders |-> NoBill]
    /\ paid = {}
    /\ settled = {}
    /\ metered = {}
    /\ contested = {}

Next ==
    \E u \in Users :
        \/ \E o \in Orders, t \in Templates, q \in Quantities : Place(o, u, t, q)
        \/ Recharge(u)
        \/ \E s \in Sessions : Settle(s, u)
        \/ \E o \in Orders : Pay(o, u) \/ Renew(o, u) \/ Use(o, u)
        \/ Contend(u)

Spec == Init /\ [][Next]_vars

-----------------------------------------------------------------------------
\* What follows for a user (AccountsProofs).

TypeOK ==
    /\ balance \in [Users -> Int]
    /\ ledger \in [Users -> Int]
    /\ bill \in [Orders -> [user : Users \cup {None}, template : Templates \cup {None},
                            quantity : Quantities \cup {0}]]
    /\ paid \subseteq Orders
    /\ settled \subseteq Sessions
    /\ contested \subseteq Users

\* A wallet that only one request at a time has worked on shows what its ledger
\* adds up to, and is overdrawn by usage or not at all; what is paid was ordered.
Kept ==
    /\ \A u \in Users \ contested : balance[u] = ledger[u] /\ (balance[u] < 0 => u \in metered)
    /\ \A o \in paid : bill[o] # NoBill

\* Money comes in with a checkout session, and with each session once.
BySession ==
    [][\A u \in Users : credited'[u] # credited[u]
          => \E s \in Sessions \ settled : settled' = settled \cup {s}]_vars
=============================================================================
