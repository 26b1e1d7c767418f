----------------------------- MODULE MCCatalog -----------------------------
(* Instances of Catalog for TLC: one connector and a task type without one. *)
EXTENDS Catalog, TLC

CONSTANTS visit, dance

MCTypes == {visit}
MCTypesAsked == {visit, dance}
MCSizes == {0, 3}
=============================================================================
