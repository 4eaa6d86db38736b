--------------------------- MODULE MCAssignments ---------------------------
(* Small instances of Assignments: every kit takes one ribbon. *)
EXTENDS Assignments, TLC

CONSTANTS ribbon, w1, a1, a2, r1, r2

MCRecipe == ribbon :> 1
MCOpening == ribbon :> 2
MCAssignedTo == [a \in Asg |-> w1]
MCAsker == [r \in Request |-> w1]
MCLengths == {0, 900, 901}      \* nothing, a whole kit, and a centimetre more
ClientSymmetry == Permutations(Client)
=============================================================================
