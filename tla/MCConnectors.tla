---------------------------- MODULE MCConnectors ----------------------------
(* Instances of Connectors for TLC: one target of each sort of connector. *)
EXTENDS Connectors, TLC

CONSTANTS account, guild, text, page, brief

MCTargets == {account, guild, text, page, brief}
MCKind == account :> "follow" @@ guild :> "join" @@ text :> "post" @@ page :> "visit" @@ brief :> "ai"
=============================================================================
