----------------------------- MODULE MCBilling -----------------------------
(* Instances of Billing for TLC: one template rented by the hour, one metered;
   what an order costs differs from the unit price. *)
EXTENDS Billing, TLC

CONSTANTS hourly, metered

MCTemplates == {hourly, metered}
MCMetered == {metered}
MCPrice == hourly :> 1 @@ metered :> 2
MCQuantities == {2}
MCAmounts == {4}

\* Threads, coroutines, users and orders are interchangeable.
WorkerSymmetry == Permutations(Threads) \cup Permutations(Tasks)
Symmetry == WorkerSymmetry \cup Permutations(Orders) \cup Permutations(Users) \cup Permutations(Sessions)
=============================================================================
