---------------------------- MODULE Assignments ----------------------------
(***************************************************************************)
(* A work assignment from the prepared kit to the paid work: the order     *)
(* itself, its two deliveries, the two-sided QR handoff, progress, pickup, *)
(* acceptance and cancellation, over the stock, the money ledger and the   *)
(* job requests it moves in the same transactions.                         *)
(*                                                                         *)
(* A handler that checks the assignment before its transaction has a Begin *)
(* step (the checks, on what it loaded) and a Commit step (the whole       *)
(* transaction).  A transaction is a single step: what it decides from its *)
(* own reads, it reads under the assignment's row lock (taken explicitly,  *)
(* or by an UPDATE of the row), and what it only writes needs no order.    *)
(*                                                                         *)
(* Every worker owns a fixed pool of assignment ids (AssignedTo).          *)
(***************************************************************************)
EXTENDS Stock, WorkerLedger, JobRequests

CONSTANTS AssignedTo,   \* AssignedTo[a]: the worker of assignment a
          NoRequest,    \* the assignment answers no job request
          KitCounts,    \* how many kits one assignment may have: 1..3
          Lengths,      \* lengths of ribbon a person may enter, in cm
          ReportId,     \* clientIds of the progress reports a phone sends
          MaxHandoffs,  \* bound: QR handoffs started per assignment
          MaxPickups    \* bound: pickup deliveries per assignment

ASSUME AssignmentAssumption ==
  /\ AssignedTo \in [Asg -> Worker]
  /\ NoRequest \notin Request
  /\ KitCounts \subseteq 1..3
  /\ Lengths \subseteq Nat
  /\ MaxHandoffs \in Nat /\ MaxPickups \in Nat

VARIABLES work,         \* work_assignments
          qrLive,       \* the assignment's QR exists and is not revoked
          dropoff,      \* the DELIVERY_TO_WORKER delivery
          pickups,      \* the PICKUP_FROM_WORKER deliveries, oldest first
          handoffs,     \* assignment_handoffs, oldest first
          progressed    \* clientIds of its work_progress rows

workVars == <<work, qrLive, dropoff, pickups, handoffs, progressed>>
assignmentVars == <<workVars, stockVars, ledgerVars, jobVars, inflight>>

NoWork == [status |-> "NONE", req |-> NoRequest, kits |-> 0, reported |-> 0, delivered |-> 0,
           accepted |-> 0, defective |-> 0, rate |-> 0, pay |-> 0]

AssignmentInit ==
  /\ work = [a \in Asg |-> NoWork]
  /\ qrLive = [a \in Asg |-> FALSE]
  /\ dropoff = [a \in Asg |-> "NONE"]
  /\ pickups = [a \in Asg |-> <<>>]
  /\ handoffs = [a \in Asg |-> <<>>]
  /\ progressed = [a \in Asg |-> {}]
  /\ StockInit /\ LedgerInit /\ JobInit /\ HandlersInit

Status(a) == work[a].status
PlannedCm(a) == work[a].kits * KitCm
KitQuantity(a, m) == work[a].kits * Recipe[m]
IsActive(w) == workerStatus[w] = "ACTIVE"

(* Metres a worker may report or declare ready. *)
WithinPlanUnchecked(a, cm) == TRUE      \* mutant: the upper bound is forgotten
WithinPlan(a, cm) == cm <= PlannedCm(a)

(* What transactions do to the deliveries and handoffs of one assignment. *)
PickupRequestedOnce(ds) == IF ds = <<>> THEN <<"PENDING">> ELSE ds  \* mutant: only the first time
PickupRequested(ds) == Append(ds, "PENDING")

Completed(ds, i) == [ds EXCEPT ![i] = "COMPLETED"]

CancelledNothing(ds) == ds              \* mutant: deliveries stay open
PendingCancelled(ds) == [i \in DOMAIN ds |-> IF ds[i] = "PENDING" THEN "CANCELLED" ELSE ds[i]]

Awaiting(a) == {i \in DOMAIN handoffs[a] : handoffs[a][i].state = "AWAITING_WORKER"}
NothingExpired(a) == handoffs[a]        \* mutant: the open handoff stays open
OpenExpired(a) ==
  [i \in DOMAIN handoffs[a] |-> IF i \in Awaiting(a) THEN [handoffs[a][i] EXCEPT !.state = "EXPIRED"]
                                ELSE handoffs[a][i]]

AsgBegin(c, handler) ==
  /\ Start(c, handler)
  /\ UNCHANGED <<workVars, stockVars, ledgerVars, jobVars>>

-----------------------------------------------------------------------------
(* create: the worker, the kit and the request are checked first; then one *)
(* transaction answers the request, takes the kit off the shelf and makes  *)
(* the QR and the delivery.                                                *)
CreateBegin(c, w, r, kits) ==
  /\ IsActive(w)
  /\ \E m \in Material : Recipe[m] > 0
  /\ r # NoRequest => Asker[r] = w /\ request[r] = "PENDING"
  /\ AsgBegin(c, [op |-> "create", worker |-> w, req |-> r, kits |-> kits])

CreateCommit(c) ==
  /\ Running(c, "create")
  /\ LET made == inflight[c]
     IN \E a \in Asg :
          /\ AssignedTo[a] = made.worker
          /\ Status(a) = "NONE"
          /\ IF made.req = NoRequest THEN UNCHANGED jobVars ELSE Fulfil(made.req)
          /\ RecordMovements(a, made.worker, IssueToKit(made.kits))
          /\ qrLive' = [qrLive EXCEPT ![a] = TRUE]
          /\ dropoff' = [dropoff EXCEPT ![a] = "PENDING"]
          /\ work' = [work EXCEPT ![a] = [NoWork EXCEPT !.status = "READY_TO_DELIVER",
                                                        !.req = made.req, !.kits = made.kits]]
  /\ Finish(c)
  /\ UNCHANGED <<pickups, handoffs, progressed, material, ledgerVars>>

-----------------------------------------------------------------------------
(* startHandoff: decided under the assignment's row lock.  A repeated scan *)
(* of an open handoff changes nothing; a lapsed one is expired first.      *)
NewHandoff == [state |-> "AWAITING_WORKER", lapsed |-> FALSE, scanned |-> FALSE]

StartHandoff(a) ==
  /\ Status(a) = "READY_TO_DELIVER"
  /\ qrLive[a]
  /\ IsActive(AssignedTo[a])
  /\ Len(handoffs[a]) < MaxHandoffs
  /\ \A i \in Awaiting(a) : handoffs[a][i].lapsed
  /\ handoffs' = [handoffs EXCEPT ![a] = Append(OpenExpired(a), NewHandoff)]
  /\ UNCHANGED <<work, qrLive, dropoff, pickups, progressed,
                 stockVars, ledgerVars, jobVars, inflight>>

(* HANDOFF_TTL_MINUTES pass: expiresAt is behind us. *)
HandoffLapses(a) ==
  /\ \E i \in Awaiting(a) : /\ ~handoffs[a][i].lapsed
                            /\ handoffs' = [handoffs EXCEPT ![a][i].lapsed = TRUE]
  /\ UNCHANGED <<work, qrLive, dropoff, pickups, progressed,
                 stockVars, ledgerVars, jobVars, inflight>>

(* scanHandoff: the worker scans the same QR; checked, then stamped. *)
ScanBegin(c, a, i) ==
  /\ qrLive[a]
  /\ IsActive(AssignedTo[a])
  /\ Status(a) = "READY_TO_DELIVER"
  /\ i \in Awaiting(a)
  /\ ~handoffs[a][i].lapsed
  /\ ~handoffs[a][i].scanned
  /\ AsgBegin(c, [op |-> "scan", asg |-> a, handoff |-> i])

ScanCommit(c) ==
  /\ Running(c, "scan")
  /\ handoffs' = [handoffs EXCEPT ![inflight[c].asg][inflight[c].handoff].scanned = TRUE]
  /\ Finish(c)
  /\ UNCHANGED <<work, qrLive, dropoff, pickups, progressed, stockVars, ledgerVars, jobVars>>

(* One movement per material with something to move. *)
MoveKit(type, quantity(_), toShelf, toHome) ==
  [m \in Material |-> IF quantity(m) > 0
                        THEN Movement(type, quantity(m), toShelf * quantity(m), toHome * quantity(m))
                        ELSE NoMovement]

(* What confirmHandoff reads again under the assignment's row lock.  A     *)
(* handoff already confirmed answers the repeated tap and changes nothing. *)
CanReceiveUnread(a, i) == IsActive(AssignedTo[a])   \* mutant: nothing is read again
CanReceive(a, i) == /\ i \in Awaiting(a)
                    /\ ~handoffs[a][i].lapsed
                    /\ Status(a) = "READY_TO_DELIVER"
                    /\ IsActive(AssignedTo[a])
                    /\ qrLive[a]

(* confirmHandoff: the only place where custody moves to the worker. *)
ConfirmHandoff(a, i) ==
  /\ CanReceive(a, i)
  /\ RecordMovements(a, AssignedTo[a],
       MoveKit("ISSUE_TO_WORKER", LAMBDA m : KitQuantity(a, m), 0, 1))
  /\ handoffs' = [handoffs EXCEPT ![a][i].state = "CONFIRMED", ![a][i].scanned = TRUE]
  /\ dropoff' = [dropoff EXCEPT ![a] = IF @ = "PENDING" THEN "COMPLETED" ELSE @]
  /\ work' = [work EXCEPT ![a].status = "IN_PROGRESS"]
  /\ UNCHANGED <<qrLive, pickups, progressed, material, ledgerVars, jobVars, inflight>>

HandoffProblem(a, i) ==
  /\ i \in Awaiting(a)
  /\ handoffs' = [handoffs EXCEPT ![a][i].state = "PROBLEM", ![a][i].scanned = TRUE]
  /\ UNCHANGED <<work, qrLive, dropoff, pickups, progressed,
                 stockVars, ledgerVars, jobVars, inflight>>

-----------------------------------------------------------------------------
(* reportProgress: a report is known by its clientId; the unique index on  *)
(* (assignmentId, clientId) refuses the second of two concurrent ones.     *)
ProgressBegin(c, a, cm, id) ==
  /\ Status(a) = "IN_PROGRESS"
  /\ WithinPlan(a, cm)
  /\ id \notin progressed[a]
  /\ AsgBegin(c, [op |-> "progress", asg |-> a, cm |-> cm, id |-> id])

ProgressCommit(c) ==
  /\ Running(c, "progress")
  /\ LET a == inflight[c].asg
     IN /\ inflight[c].id \notin progressed[a]
        /\ progressed' = [progressed EXCEPT ![a] = @ \cup {inflight[c].id}]
        /\ work' = [work EXCEPT ![a].reported = inflight[c].cm]
  /\ Finish(c)
  /\ UNCHANGED <<qrLive, dropoff, pickups, handoffs, stockVars, ledgerVars, jobVars>>

(* readyForPickup: IN_PROGRESS is checked before the transaction only. *)
ReadyBegin(c, a, cm) ==
  /\ Status(a) = "IN_PROGRESS"
  /\ WithinPlan(a, cm)
  /\ AsgBegin(c, [op |-> "ready", asg |-> a, cm |-> cm])

ReadyCommit(c) ==
  /\ Running(c, "ready")
  /\ LET a == inflight[c].asg
     IN /\ Len(pickups[a]) < MaxPickups
        /\ work' = [work EXCEPT ![a].status = "READY_FOR_PICKUP", ![a].reported = inflight[c].cm]
        /\ pickups' = [pickups EXCEPT ![a] = PickupRequested(@)]
  /\ Finish(c)
  /\ UNCHANGED <<qrLive, dropoff, handoffs, progressed, stockVars, ledgerVars, jobVars>>

(* The deliveries are loaded newest first: the last pending one is taken. *)
NewestPending(a, i) ==
  /\ i \in DOMAIN pickups[a]
  /\ pickups[a][i] = "PENDING"
  /\ \A j \in DOMAIN pickups[a] : pickups[a][j] = "PENDING" => j <= i

ReportedLength(a) == work[a].reported

(* The row's CHECK work_assignments_meters_consistent. *)
MetersConsistent(row) == row.accepted + row.defective <= row.delivered

(* completePickup: remembers the delivery and the reported metres it       *)
(* loaded; the transaction writes them back, and what the worker held for  *)
(* this work is consumed.                                                  *)
PickupBegin(c, a, i) ==
  /\ Status(a) = "READY_FOR_PICKUP"
  /\ NewestPending(a, i)
  /\ AsgBegin(c, [op |-> "pickup", asg |-> a, delivery |-> i, cm |-> ReportedLength(a)])

PickupCommit(c) ==
  /\ Running(c, "pickup")
  /\ LET a == inflight[c].asg
         row == [work[a] EXCEPT !.status = "UNDER_REVIEW", !.delivered = inflight[c].cm]
     IN /\ MetersConsistent(row)
        /\ work' = [work EXCEPT ![a] = row]
        /\ pickups' = [pickups EXCEPT ![a] = Completed(@, inflight[c].delivery)]
        /\ RecordMovements(a, AssignedTo[a],
             MoveKit("CONSUMPTION", LAMBDA m : HeldFor(a, m), 0, -1))
  /\ Finish(c)
  /\ UNCHANGED <<qrLive, dropoff, handoffs, progressed, material, ledgerVars, jobVars>>

-----------------------------------------------------------------------------
(* accept: the quality check.  What is neither accepted nor defective goes *)
(* to rework; the worker earns at the price of this moment.                *)
Verdict(accepted, brought) == IF accepted >= brought THEN "COMPLETED"
                              ELSE IF accepted > 0 THEN "PARTIALLY_ACCEPTED"
                              ELSE "REWORK_REQUIRED"

(* The four lengths (accepted, defective, rework, brought) may miss each   *)
(* other by a centimetre; the row's CHECK knows no such tolerance.         *)
ToleranceCm == 1

AcceptBegin(c, a, brought, accepted, defective) ==
  /\ Status(a) = "UNDER_REVIEW"
  /\ accepted <= brought
  /\ accepted + defective <= brought + ToleranceCm
  /\ AsgBegin(c, [op |-> "accept", asg |-> a, accepted |-> accepted, defective |-> defective,
                  verdict |-> Verdict(accepted, brought)])

AcceptCommit(c) ==
  /\ Running(c, "accept")
  /\ LET a == inflight[c].asg
         accepted == inflight[c].accepted
         paid == IF accepted > 0
                   THEN [work[a] EXCEPT !.rate = CurrentRate,
                                        !.pay = EarningFor(CurrentRate, accepted)]
                   ELSE work[a]
         row == [paid EXCEPT !.accepted = accepted, !.defective = inflight[c].defective,
                             !.status = inflight[c].verdict]
     IN /\ MetersConsistent(row)
        /\ work' = [work EXCEPT ![a] = row]
        /\ EarnFor(AssignedTo[a], a, accepted)
  /\ Finish(c)
  /\ UNCHANGED <<qrLive, dropoff, pickups, handoffs, progressed, stockVars, jobVars>>

-----------------------------------------------------------------------------
(* cancel, decided under the assignment's row lock: what she holds comes   *)
(* back or is written off; a kit still prepared goes back on the shelf if  *)
(* it is returned, and leaves no movement if it is not.                    *)
ForEach(a, movement(_, _)) == [m \in Material |-> movement(KitQuantity(a, m), HeldFor(a, m))]
TakenBack(held) == Movement("RETURN_FROM_WORKER", held, held, -held)
WrittenOff(held) == Movement("WRITE_OFF", held, 0, -held)
Unpacked(kit) == Movement("ADJUSTMENT_IN", kit, kit, 0)

CancelKitOnShelf(a, returned) ==        \* mutant: what she holds is forgotten
  ForEach(a, LAMBDA kit, held : IF kit > 0 /\ returned /\ Status(a) = "READY_TO_DELIVER"
                                  THEN Unpacked(kit) ELSE NoMovement)
CancelKitAtHome(a, returned) ==         \* mutant: returned, yet still booked at her home
  ForEach(a, LAMBDA kit, held : IF held > 0 THEN Movement("RETURN_FROM_WORKER", held, held, 0)
                                ELSE NoMovement)
CancelKit(a, returned) ==
  ForEach(a, LAMBDA kit, held :
    IF kit > 0 /\ held > 0 THEN IF returned THEN TakenBack(held) ELSE WrittenOff(held)
    ELSE IF kit > 0 /\ returned /\ Status(a) = "READY_TO_DELIVER" THEN Unpacked(kit)
    ELSE NoMovement)

Cancellable == {"READY_TO_DELIVER", "IN_PROGRESS", "READY_FOR_PICKUP"}

Cancel(a, returned) ==
  /\ Status(a) \in Cancellable
  /\ RecordMovements(a, AssignedTo[a], CancelKit(a, returned))
  /\ dropoff' = [dropoff EXCEPT ![a] = IF @ = "PENDING" THEN "CANCELLED" ELSE @]
  /\ pickups' = [pickups EXCEPT ![a] = PendingCancelled(@)]
  /\ handoffs' = [handoffs EXCEPT ![a] = OpenExpired(a)]
  /\ qrLive' = [qrLive EXCEPT ![a] = FALSE]
  /\ work' = [work EXCEPT ![a].status = "CANCELLED"]
  /\ UNCHANGED <<progressed, material, ledgerVars, jobVars, inflight>>

-----------------------------------------------------------------------------
WorkStep(c) ==
  \/ \E w \in Worker, r \in Request \cup {NoRequest}, k \in KitCounts : CreateBegin(c, w, r, k)
  \/ CreateCommit(c)
  \/ \E a \in Asg : \/ \E i \in DOMAIN handoffs[a] : ScanBegin(c, a, i)
                    \/ \E i \in DOMAIN pickups[a] : PickupBegin(c, a, i)
                    \/ \E cm \in Lengths : ReadyBegin(c, a, cm)
                    \/ \E cm \in Lengths, id \in ReportId : ProgressBegin(c, a, cm, id)
                    \/ \E brought, accepted, defective \in Lengths :
                         AcceptBegin(c, a, brought, accepted, defective)
  \/ ScanCommit(c) \/ ProgressCommit(c) \/ ReadyCommit(c) \/ PickupCommit(c) \/ AcceptCommit(c)

LockedStep(a) ==
  \/ StartHandoff(a) \/ HandoffLapses(a)
  \/ \E i \in DOMAIN handoffs[a] : ConfirmHandoff(a, i) \/ HandoffProblem(a, i)
  \/ \E returned \in BOOLEAN : Cancel(a, returned)

AssignmentNext ==
  \/ \E c \in Client : WorkStep(c)
  \/ \E a \in Asg : LockedStep(a)
  \/ (\E c \in Client : JobStep(c)) /\ UNCHANGED <<workVars, stockVars, ledgerVars>>
  \/ LedgerNext /\ UNCHANGED <<workVars, stockVars, jobVars, inflight>>
  \/ StockNext /\ UNCHANGED <<workVars, ledgerVars, jobVars>>

AssignmentSpec == AssignmentInit /\ [][AssignmentNext]_assignmentVars

-----------------------------------------------------------------------------
AssignmentStatus == {"NONE", "READY_TO_DELIVER", "IN_PROGRESS", "READY_FOR_PICKUP",
                     "UNDER_REVIEW", "PARTIALLY_ACCEPTED", "REWORK_REQUIRED",
                     "COMPLETED", "CANCELLED"}
Final == {"COMPLETED", "CANCELLED"}
DeliveryStatus == {"PENDING", "COMPLETED", "CANCELLED"}
HandoffState == {"AWAITING_WORKER", "CONFIRMED", "PROBLEM", "EXPIRED"}
Confirmed(a) == {i \in DOMAIN handoffs[a] : handoffs[a][i].state = "CONFIRMED"}

(* Every column holds a value its table admits. *)
AssignmentTypeOK ==
  /\ work \in [Asg -> [status : AssignmentStatus, req : Request \cup {NoRequest},
                       kits : Nat, reported : Nat, delivered : Nat,
                       accepted : Nat, defective : Nat, rate : Nat, pay : Nat]]
  /\ qrLive \in [Asg -> BOOLEAN]
  /\ dropoff \in [Asg -> DeliveryStatus \cup {"NONE"}]
  /\ pickups \in [Asg -> Seq(DeliveryStatus)]
  /\ handoffs \in [Asg -> Seq([state : HandoffState, lapsed : BOOLEAN, scanned : BOOLEAN])]
  /\ progressed \in [Asg -> SUBSET ReportId]
  /\ StockTypeOK /\ LedgerTypeOK /\ JobTypeOK

(* Custody follows the work: nothing before she confirms, the whole kit    *)
(* while she sews, nothing once it is handed back or cancelled - whatever  *)
(* handlers were in flight.  A work brought back to READY_FOR_PICKUP by a  *)
(* late handler may find her hands empty, never half full.                 *)
CustodyFollowsStatus ==
  \A a \in Asg, m \in Material :
    /\ Status(a) = "IN_PROGRESS" => HeldFor(a, m) = KitQuantity(a, m)
    /\ Status(a) = "READY_FOR_PICKUP" => HeldFor(a, m) \in {0, KitQuantity(a, m)}
    /\ Status(a) \notin {"IN_PROGRESS", "READY_FOR_PICKUP"} => HeldFor(a, m) = 0

(* Custody moves to the worker once, and only with her confirmation: the   *)
(* kit's movements to her are there exactly when a handoff is CONFIRMED.   *)
OneReceipt ==
  \A a \in Asg : \A m \in Material :
    moved[a][m]["ISSUE_TO_WORKER"] = IF Confirmed(a) = {} THEN 0 ELSE KitQuantity(a, m)

(* An open handoff belongs to a kit that still waits for delivery under a  *)
(* living QR, and there is one of it (assignment_handoffs_one_awaiting);   *)
(* no kit is received twice (assignment_handoffs_one_confirmed).           *)
OpenHandoffIsCurrent ==
  \A a \in Asg :
    /\ \A i \in Awaiting(a) : Status(a) = "READY_TO_DELIVER" /\ qrLive[a] /\ i = Len(handoffs[a])
    /\ \A i, j \in Confirmed(a) : i = j
    /\ Confirmed(a) # {} => dropoff[a] = "COMPLETED"

(* Work that waits for pickup can be picked up: completePickup needs a     *)
(* pending delivery or the assignment is stuck.                            *)
PickupIsPossible ==
  \A a \in Asg : Status(a) = "READY_FOR_PICKUP" => \E i \in DOMAIN pickups[a] : pickups[a][i] = "PENDING"

(* Cancelling closes everything the work had open: QR, handoff, deliveries *)
(* and custody, and no late handler reopens one while it stays cancelled.  *)
CancelledIsClosed ==
  \A a \in Asg : Status(a) = "CANCELLED" =>
    /\ ~qrLive[a] /\ Awaiting(a) = {}
    /\ dropoff[a] # "PENDING"
    /\ \A i \in DOMAIN pickups[a] : pickups[a][i] # "PENDING"
    /\ \A m \in Material : HeldFor(a, m) = 0

(* Nobody is paid for more ribbon than her kits had: what is reported,     *)
(* brought back and judged stays within the plan, also when a late report  *)
(* or a late pickup overwrites what was there.                             *)
MetersWithinPlan ==
  \A a \in Asg : /\ work[a].accepted + work[a].defective <= work[a].delivered
                 /\ work[a].delivered <= PlannedCm(a)
                 /\ work[a].reported <= PlannedCm(a)

(* A job request is prepared once: two assignments never answer the same.  *)
RequestPreparedOnce ==
  \A a, b \in Asg : work[a].req = work[b].req /\ work[a].req # NoRequest => a = b

(* The refinement to MaterialCustody: where the movements of a say its kit is. *)
Place(a) ==
  LET Some(type) == \E m \in Material : moved[a][m][type] > 0
  IN IF ~Some("ISSUE_TO_KIT") THEN "nowhere"
     ELSE IF Some("CONSUMPTION") THEN "used"
     ELSE IF Some("RETURN_FROM_WORKER") \/ Some("ADJUSTMENT_IN") THEN "returned"
     ELSE IF Some("WRITE_OFF") THEN "lost"
     ELSE IF Some("ISSUE_TO_WORKER") THEN "worker"
     ELSE "prepared"

Custody == INSTANCE MaterialCustody WITH stocked <- [m \in Material |-> ShelfTotal(NoAsg, m)],
                                         kits <- [a \in Asg |-> work[a].kits],
                                         place <- [a \in Asg |-> Place(a)]

(* However handlers overlap, assignments move material the way             *)
(* MaterialCustody promises.                                               *)
CustodyKept == Custody!Spec

-----------------------------------------------------------------------------
(* What an acceptance pays.                                                *)
EarningRows(a) == {i \in DOMAIN rows[AssignedTo[a]] :
                     LET row == rows[AssignedTo[a]][i] IN row.type = "EARNING" /\ row.cause = a}

(* The pay shown on a work is the amount of the newest entry written for   *)
(* it, at whatever price it was accepted and however many acceptances got  *)
(* through: the work and her ledger never tell different sums              *)
(* (acceptance, assignments.service.ts:421-424).                           *)
PaidAsSettled ==
  \A a \in Asg : work[a].pay > 0 =>
    \E i \in EarningRows(a) :
      /\ rows[AssignedTo[a]][i].amount = work[a].pay
      /\ \A j \in EarningRows(a) : j <= i

(* Accepted work is paid once ("never recalculated later"): the code does  *)
(* not see to it, for a second acceptance may have checked the status      *)
(* before the first one wrote it.                                          *)
PaidOnce == \A a \in Asg : \A i, j \in EarningRows(a) : i = j

-----------------------------------------------------------------------------
(* How a status goes.  ASSIGNMENT_MACHINE; one transaction may pass        *)
(* through a status.                                                       *)
AssignmentMachine ==
  {<<"DRAFT", "READY_TO_DELIVER">>, <<"DRAFT", "CANCELLED">>,
   <<"READY_TO_DELIVER", "DELIVERED">>, <<"READY_TO_DELIVER", "CANCELLED">>,
   <<"DELIVERED", "IN_PROGRESS">>, <<"IN_PROGRESS", "READY_FOR_PICKUP">>,
   <<"READY_FOR_PICKUP", "IN_PROGRESS">>, <<"READY_FOR_PICKUP", "PICKED_UP">>,
   <<"PICKED_UP", "UNDER_REVIEW">>, <<"UNDER_REVIEW", "ACCEPTED">>,
   <<"UNDER_REVIEW", "PARTIALLY_ACCEPTED">>, <<"UNDER_REVIEW", "REWORK_REQUIRED">>,
   <<"PARTIALLY_ACCEPTED", "COMPLETED">>, <<"PARTIALLY_ACCEPTED", "REWORK_REQUIRED">>,
   <<"ACCEPTED", "COMPLETED">>, <<"REWORK_REQUIRED", "IN_PROGRESS">>}
Legal(s, t) == \/ <<s, t>> \in AssignmentMachine
               \/ \E p \in {"DELIVERED", "PICKED_UP", "ACCEPTED"} :
                    {<<s, p>>, <<p, t>>} \subseteq AssignmentMachine

(* COMPLETED and CANCELLED have no way out in ASSIGNMENT_MACHINE; a late   *)
(* commit finds one.                                                       *)
FinalIsFinal ==
  [][\A a \in Asg : Status(a) \in Final => Status(a)' = Status(a)]_work

(* Work enters the review with a pickup that is completed by that very     *)
(* step; of two staff members who complete it at once the second does not. *)
PickupCompletedOnce ==
  [][\A a \in Asg : Status(a) # "UNDER_REVIEW" /\ Status(a)' = "UNDER_REVIEW"
       => \E i \in DOMAIN pickups[a] : pickups[a][i] # "COMPLETED" /\ pickups'[a][i] = "COMPLETED"]_work

(* "No other transitions exist" (BUSINESS-RULES.md). *)
StatusFollowsMachine ==
  [][\A a \in Asg : Status(a) # "NONE" /\ Status(a)' # Status(a) => Legal(Status(a), Status(a)')]_work

(* A cancelled kit is back on the shelf or written off (the comments of    *)
(* cancel); the stock trail says where every kit went.                     *)
CancelledKitIsBooked ==
  \A a \in Asg, m \in Material : Status(a) = "CANCELLED" =>
    moved[a][m]["ADJUSTMENT_IN"] + moved[a][m]["RETURN_FROM_WORKER"] + moved[a][m]["WRITE_OFF"]
      = KitQuantity(a, m)
=============================================================================
