-------------------------- MODULE MaterialCustody --------------------------
(***************************************************************************)
(* What the handoff, the pickup and the cancellation promise together: the *)
(* kit of an assignment is one thing.  It is taken off the shelf whole,    *)
(* goes to the worker at most once, and ends once - used, back on the      *)
(* shelf, or lost - and nothing brings it back from there.  Beside the     *)
(* kits only a person who counts or receives stock changes the shelf, and  *)
(* nothing else changes what the workers have at home.                     *)
(***************************************************************************)
EXTENDS Integers

CONSTANTS Worker, Asg, Material, AssignedTo, Recipe

VARIABLES shelf,        \* what is in the warehouse
          home,         \* what each worker has at home
          stocked,      \* net quantity received and counted by hand
          kits,         \* how many kits an assignment was prepared with
          place         \* where its material is

vars == <<shelf, home, stocked, kits, place>>

Init == /\ stocked \in [Material -> Nat]
        /\ shelf = stocked
        /\ home = [w \in Worker |-> [m \in Material |-> 0]]
        /\ kits = [a \in Asg |-> 0]
        /\ place = [a \in Asg |-> "nowhere"]

(* The kit of a goes from one place to another: a direction is 1 for in,   *)
(* -1 for out.                                                             *)
Move(a, from, to, shelfDirection, homeDirection) ==
  /\ place[a] = from
  /\ place' = [place EXCEPT ![a] = to]
  /\ shelf' = [m \in Material |-> shelf[m] + shelfDirection * kits'[a] * Recipe[m]]
  /\ home' = [home EXCEPT ![AssignedTo[a]] =
                [m \in Material |-> @[m] + homeDirection * kits'[a] * Recipe[m]]]
  /\ \A m \in Material : shelf'[m] >= 0
  /\ UNCHANGED stocked

Prepare(a, n) == /\ kits' = [kits EXCEPT ![a] = n]
                 /\ Move(a, "nowhere", "prepared", -1, 0)
Receive(a) == UNCHANGED kits /\ Move(a, "prepared", "worker", 0, 1)
Use(a) == UNCHANGED kits /\ Move(a, "worker", "used", 0, -1)
Lose(a) == UNCHANGED kits /\ Move(a, "worker", "lost", 0, -1)
Unpack(a) == UNCHANGED kits /\ Move(a, "prepared", "returned", 1, 0)
TakeBack(a) == UNCHANGED kits /\ Move(a, "worker", "returned", 1, -1)

Restock == /\ stocked' \in [Material -> Int]
           /\ shelf' = [m \in Material |-> shelf[m] + stocked'[m] - stocked[m]]
           /\ \A m \in Material : shelf'[m] >= 0
           /\ UNCHANGED <<home, kits, place>>

Next == \/ \E a \in Asg : \/ \E n \in 1..3 : Prepare(a, n)
                          \/ Receive(a) \/ Use(a) \/ Lose(a) \/ Unpack(a) \/ TakeBack(a)
        \/ Restock

Spec == Init /\ [][Next]_vars
=============================================================================
