---------------------------- MODULE MCWarehouse ----------------------------
(* Small instance of Warehouse: two materials nothing tells apart, one     *)
(* order of up to two lines, one recipe, two suppliers who may share a     *)
(* chat; at most two requests at a time.                                   *)
EXTENDS Warehouse, TLC

CONSTANTS ribbon, tape, s1, s2, t1

MCMaterial == {ribbon, tape}
MCRecipe == ribbon :> 0 @@ tape :> 0
MCOpening == ribbon :> 0 @@ tape :> 0
MCLinked == s1 :> t1 @@ s2 :> NoChat
Symmetric == Permutations(Client) \cup Permutations(MCMaterial)
=============================================================================
