---------------------------- MODULE MCProvision ----------------------------
(* The whole catalog on every platform, for TLC.                            *)
EXTENDS Catalog, Coverage

(* TLC evaluates a definition without parameters once, but not one that a   *)
(* configuration gives for a constant: those are second names.              *)
AllRecipes == Catalog
AllPlans   == PlanTable
Shipment   == ShipTable
Nothing    == {}
=============================================================================
