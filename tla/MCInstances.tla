---------------------------- MODULE MCInstances ----------------------------
(* Instances of the module Instances for TLC: one renter, who has recharged, *)
(* has paid every order and has started some instances when the behaviour    *)
(* starts, or has done nothing yet (RentalSpec).                             *)
EXTENDS Instances, FiniteSetsExt, TLC

CONSTANTS
    hourly, metered,
    Offered,        \* templates on offer
    Funds           \* what is left of the recharges

MCMetered == Offered \cap {metered}
MCPrice == [t \in Offered |-> IF t = metered THEN 1 ELSE 2]
MCQuantities == {1}
MCAmounts == {4}
MCDuration == [t \in Offered \ {metered} |-> 1]

\* A state of RentalSpec for some recharged amount: the renter recharged, ordered, paid and started, one
\* request after the other, with the clock at 0.
Paid(o, t) == [status |-> "paid", user |-> CHOOSE u \in Users : TRUE, template |-> t,
               quantity |-> 1, amount |-> MCPrice[t]]
Started(o) == [status |-> "running", streak |-> 0,
               expires |-> IF IsMetered(o) THEN 0 ELSE Expiry(o, 0)]
Spent(u) == MapThenSumSet(LAMBDA o : orders[o].amount, {o \in Orders : orders[o].user = u})

FundedInit ==
    /\ wallets = Users
    /\ balance = [u \in Users |-> Funds]
    /\ autoRenew \in SUBSET Users
    /\ \E offer \in [Orders -> Offered] : orders = [o \in Orders |-> Paid(o, offer[o])]
    /\ sessions = [s \in Sessions |-> NoSession]
    /\ ledger = balance
    /\ credited = [u \in Users |-> Funds + Spent(u)]
    /\ payments = [o \in Orders |-> 1]
    /\ usages = [o \in Orders |-> 0]
    /\ credits = [s \in Sessions |-> 0]
    /\ req = [w \in Workers |-> Idle]
    /\ captured = credited
    /\ shared = {}
    /\ issued = 0
    /\ faults = 0
    /\ \E started \in SUBSET Orders :
          inst = [o \in Orders |-> IF o \in started THEN Started(o) ELSE NoInstance]
    /\ NothingUnderWay

FundedSpec == FundedInit /\ [][RentalNext]_allVars

Symmetry == Permutations(Threads) \cup Permutations(Tasks) \cup Permutations(Orders)
=============================================================================
