---------------------------- MODULE MCPlatforms ----------------------------
(* The instance of Platforms that TLC checks. *)
EXTENDS Platforms, TLC

Symmetry ==
    Permutations(Users) \cup Permutations(Flows) \cup Permutations(Accounts)
        \cup Permutations(Threads) \cup Permutations(Tasks)
=============================================================================
