-------------------------------- MODULE Stock --------------------------------
(***************************************************************************)
(* The warehouse: append-only stock_movements, and the two balance tables  *)
(* kept in the same transactions, stock_balances (the shelf) and           *)
(* worker_material_balances (what each worker has at home).                *)
(*                                                                         *)
(* Movements are kept as totals per source (an assignment, or NoAsg for    *)
(* the manual ones), material and type: everything the code reads back     *)
(* from them is a sum.                                                     *)
(***************************************************************************)
EXTENDS Integers, FiniteSets, Functions, Workers, Handlers

CONSTANTS Material,
          NoAsg,        \* the source of movements that belong to no assignment
          Recipe,       \* Recipe[m]: quantity of m in one kit, 0 if not an ingredient
          Opening,      \* Opening[m]: stock received before the model starts
          MaxManual     \* bound: total quantity of m booked by hand, per type

ASSUME StockAssumption == /\ NoAsg \notin Asg
                          /\ Recipe \in [Material -> Nat]
                          /\ Opening \in [Material -> Nat]
                          /\ MaxManual \in Nat

VARIABLES shelf,        \* stock_balances.quantity
          home,         \* worker_material_balances.quantity
          moved,        \* totals of stock_movements.quantity
          material      \* "listed", "hidden" (deletedAt set) or "erased"

stockVars == <<shelf, home, moved, material>>

Source == Asg \cup {NoAsg}
MovementType == {"RECEIPT", "ISSUE_TO_KIT", "ISSUE_TO_WORKER", "RETURN_FROM_WORKER",
                 "CONSUMPTION", "WRITE_OFF", "ADJUSTMENT_IN", "ADJUSTMENT_OUT"}
NothingMoved == [t \in MovementType |-> 0]

StockInit ==
  /\ shelf = Opening
  /\ home = [w \in Worker |-> [m \in Material |-> 0]]
  /\ moved = [s \in Source |-> [m \in Material |->
                IF s = NoAsg THEN [NothingMoved EXCEPT !["RECEIPT"] = Opening[m]]
                             ELSE NothingMoved]]
  /\ material = [m \in Material |-> "listed"]

(* One stock_movements row: its type, magnitude and the two signed deltas. *)
Movement(type, quantity, warehouseDelta, workerDelta) ==
  [type |-> type, quantity |-> quantity, warehouse |-> warehouseDelta, worker |-> workerDelta]
NoMovement == Movement("RECEIPT", 0, 0, 0)

(***************************************************************************)
(* recordMovement for every material of one transaction: moves[m] is the   *)
(* row written for m (NoMovement if none) and w the worker it names.  The  *)
(* balances are locked first, so the non-negative checks read fresh rows;  *)
(* one failing check rolls the whole transaction back.                     *)
(***************************************************************************)
Enough(w, moves) == \A m \in Material : /\ shelf[m] + moves[m].warehouse >= 0
                                         /\ home[w][m] + moves[m].worker >= 0

RecordMovements(source, w, moves) ==
  /\ \A m \in Material : moves[m].quantity > 0 => material[m] # "erased"
  /\ Enough(w, moves)
  /\ shelf' = [m \in Material |-> shelf[m] + moves[m].warehouse]
  /\ home' = [home EXCEPT ![w] = [m \in Material |-> home[w][m] + moves[m].worker]]
  /\ moved' = [moved EXCEPT ![source] = [m \in Material |->
                 [moved[source][m] EXCEPT ![moves[m].type] = @ + moves[m].quantity]]]

(* A manual movement of one material names no worker: any w serves. *)
RecordManual(m, movement) ==
  /\ moved[NoAsg][m][movement.type] + movement.quantity <= MaxManual
  /\ \E w \in Worker :
       RecordMovements(NoAsg, w, [x \in Material |-> IF x = m THEN movement ELSE NoMovement])

(* Sum of workerDelta over an assignment's movements of m: what she holds. *)
HeldFor(a, m) == moved[a][m]["ISSUE_TO_WORKER"] - moved[a][m]["CONSUMPTION"]
                 - moved[a][m]["RETURN_FROM_WORKER"] - moved[a][m]["WRITE_OFF"]

-----------------------------------------------------------------------------
Receipt(m, q) ==
  /\ RecordManual(m, Movement("RECEIPT", q, q, 0))
  /\ UNCHANGED <<material, inflight>>

AdjustIn(m, q) ==
  /\ RecordManual(m, Movement("ADJUSTMENT_IN", q, q, 0))
  /\ UNCHANGED <<material, inflight>>

AdjustOutAdds(m, q) ==                  \* mutant: the sign is lost
  /\ RecordManual(m, Movement("ADJUSTMENT_OUT", q, q, 0))
  /\ UNCHANGED <<material, inflight>>
AdjustOut(m, q) ==
  /\ RecordManual(m, Movement("ADJUSTMENT_OUT", q, -q, 0))
  /\ UNCHANGED <<material, inflight>>

WriteOff(m, q) ==
  /\ RecordManual(m, Movement("WRITE_OFF", q, -q, 0))
  /\ UNCHANGED <<material, inflight>>

(* Kit ingredients of `count` kits, as the movements that take them off the shelf. *)
IssueToKit(count) ==
  [m \in Material |-> IF Recipe[m] = 0 THEN NoMovement
                      ELSE Movement("ISSUE_TO_KIT", Recipe[m] * count, -(Recipe[m] * count), 0)]

(* KitsService.assemble: a printed batch, not tied to an assignment. *)
Assemble(count) ==
  /\ \E m \in Material : Recipe[m] > 0
  /\ \A m \in Material : moved[NoAsg][m]["ISSUE_TO_KIT"] + Recipe[m] * count <= MaxManual
  /\ \E w \in Worker : RecordMovements(NoAsg, w, IssueToKit(count))
  /\ UNCHANGED <<material, inflight>>

(* MaterialsService.remove, before its transaction: refused while a worker *)
(* holds it or a live recipe names it; remembers what is on the shelf.     *)
RemoveMaterialBegin(c, m) ==
  /\ material[m] = "listed"
  /\ Recipe[m] = 0
  /\ \A w \in Worker : home[w][m] = 0
  /\ Start(c, [op |-> "removeMaterial", mat |-> m, left |-> shelf[m]])
  /\ UNCHANGED stockVars

HasReceipts(m) == \E s \in Source : moved'[s][m]["RECEIPT"] > 0   \* mutant: receipts only
HasHistory(m) == \E s \in Source, t \in MovementType : moved'[s][m][t] > 0

RemoveMaterialCommit(c) ==
  /\ Running(c, "removeMaterial")
  /\ LET m == inflight[c].mat
         left == inflight[c].left
     IN /\ material[m] # "erased"
        /\ IF left > 0 THEN RecordManual(m, Movement("WRITE_OFF", left, -left, 0))
                       ELSE UNCHANGED <<shelf, home, moved>>
        /\ material' = [material EXCEPT ![m] = IF HasHistory(m) THEN "hidden" ELSE "erased"]
  /\ Finish(c)

AbandonStock(c) == Abandon(c) /\ UNCHANGED stockVars

(* What the office books while works go on.  The materials of a work are   *)
(* in a live recipe, so their removal is refused: it is left to Warehouse. *)
StockNext ==
  \/ \E m \in Material, q \in 1..MaxManual :
       Receipt(m, q) \/ AdjustIn(m, q) \/ AdjustOut(m, q) \/ WriteOff(m, q)
  \/ Assemble(1)
  \/ \E c \in Client : AbandonStock(c)

-----------------------------------------------------------------------------
StockTypeOK ==
  /\ shelf \in [Material -> Nat]
  /\ home \in [Worker -> [Material -> Nat]]
  /\ moved \in [Source -> [Material -> [MovementType -> Nat]]]
  /\ material \in [Material -> {"listed", "hidden", "erased"}]

(* What each movement type does to the shelf, by its meaning. *)
ShelfTotal(s, m) == moved[s][m]["RECEIPT"] + moved[s][m]["RETURN_FROM_WORKER"]
                    + moved[s][m]["ADJUSTMENT_IN"] - moved[s][m]["ISSUE_TO_KIT"]
                    - moved[s][m]["ADJUSTMENT_OUT"]
                    - (IF s = NoAsg THEN moved[s][m]["WRITE_OFF"] ELSE 0)

(* The view stock_balance_mismatches stays empty: the shelf is what the    *)
(* movements say, each type read by what it means for the warehouse.       *)
ShelfMatchesMovements ==
  \A m \in Material : shelf[m] = SumFunction([s \in Source |-> ShelfTotal(s, m)])

(* A material may be erased only if nothing was ever moved: the append-    *)
(* only movement trail of MaterialsService.remove stays whole.             *)
ErasedHasNoTrail ==
  \A m \in Material : material[m] = "erased" =>
    /\ shelf[m] = 0
    /\ \A s \in Source, t \in MovementType : moved[s][m][t] = 0

(* A removed material has nothing left on the shelf ("what is left on the  *)
(* shelf is written off first", materials.service.ts remove).              *)
RemovedIsEmpty == \A m \in Material : material[m] # "listed" => shelf[m] = 0
=============================================================================
