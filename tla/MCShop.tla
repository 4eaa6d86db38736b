-------------------------------- MODULE MCShop --------------------------------
(* Small instance of Shop: one thing in two colours, one without colours. *)
EXTENDS Shop, TLC

CONSTANTS ribbon, lace, red, blue

MCProduct == {ribbon, lace}
MCColours == ribbon :> <<red, blue>> @@ lace :> <<>>
OrderSymmetry == Permutations(Order)
=============================================================================
