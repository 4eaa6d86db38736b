# Diamora in TLA+

Diamora runs a workshop of home seamstresses: kits of material are prepared in a
warehouse, handed to a worker against a QR scanned by both sides, sewn at home,
picked up, checked and paid per 9 m kit.  The code is a NestJS API over PostgreSQL
(`apps/api`), a worker container (Telegram bots, outbox, timers), a Flutter app with
an offline queue (`apps/mobile`), a web panel (`apps/web`) and shared rules
(`packages/shared`).  These modules model the part of it where state is kept and
where several actors meet.

## 1. Inventory

| Component (source) | State | Operations | What is hard | What makes it correct |
|---|---|---|---|---|
| Assignments (`assignments.service.ts`) | `work_assignments`, deliveries, `assignment_handoffs`, QR, progress, inspections | create, startHandoff, scan, confirm, problem, progress, ready, pickup, accept, cancel | most handlers check a row loaded *before* their transaction; three of them never check again | custody moves once and follows the status; a cancelled work is closed; the pay shown is the pay booked; work is paid once (promised, not kept when acceptances overlap) |
| Stock (`stock`) | `stock_movements` (append-only), `stock_balances`, `worker_material_balances` | receipt, adjust, write-off, movements of everybody else | balances kept beside the movements they sum up | balance = movements; no trail is erased |
| Recipes, purchases, suppliers (`kits`, `materials`, `purchases`, `supplier-bot`) | kit templates, labels, purchase orders and lines, chats of suppliers | create, update, assemble, remove; order, change, send by the bot, receive; link, answer | every check comes before its transaction | the shelf agrees with what was booked on it; the supplier was told what stands in the order; a live recipe is whole; goods come once (promised, not kept when receipts overlap) |
| Money ledger and price (`ledger`, `pay-rate`, `progress` bonus job) | `worker_ledger_transactions`, `worker_profiles.balance`, `pay_rate_changes` | earnFor, payout, bonus, change price | concurrent entries, a bonus job restarted half-way | one chain of rows ending in the balance; a key pays once |
| Job requests (`job-requests`) | `worker_job_requests` | request, withdraw, reject, fulfil | answers of several people to one request | one assignment per request |
| Phone queue + idempotency (`offline_queue.dart`, `idempotency.interceptor.ts`) | rows on the phone, `idempotency_keys` | live try, save, flush, claim/replay/complete/release a key | lost requests and answers, crash between commit and `complete`, retry beside the original | one key counts once; "done" is true; order kept; the queue drains |
| Telegram outbox (`worker/outbox.ts`) | `notifications` rows | claim with lease, send, mark, give up | overlapping ticks, leases that end too early, crashes, lost answers | deliveries counted, login codes wiped, every message ends |
| Deadlines, reminders, holidays (`app-notifier.ts`, `manager-tools.ts`) | in-app notices by dedupe key, `staff_reminders`, `awayUntil`, `homeManagerId` | tick, ring, endHolidays; reminders; goAway, comeBack, assignManager | jobs that overlap themselves and requests, act on a snapshot, die between two writes | every cover ends; what is overdue is told to whoever answers for it; a reminder rings |
| Sessions (`auth`, `auth-core`, `users`) | `user_sessions`, the five-second cache of principals, Telegram logins, accounts | login, refresh with grace, poll, sign out, revoke, suspend, change password | compare-and-set rotation, lost answers, reuse, a cache beside the table | a lost answer is forgiven, a token has one heir, revoked is final, a revoked session is trusted no longer than the cache time |
| Workers, invitations, decisions, collateral (`workers`, `decisions`, `collateral`) | `worker_profiles`, logins, invitations, `worker_collaterals` | invite, accept, approve, reject, remove, collateral received/returned | decisions on a row read before; phones shared with staff | whoever waits can be approved, whoever left a collateral is not erased (both promised, not kept) |
| Registration bot (`registration.service.ts`, `shared/src/registration.ts`) | drafts of the questionnaire | its dialogue, buttons of old messages | a correction, an old button, an invitation in the middle | the summary is complete; no worker is held in it |
| Customer orders and shop bot (`orders`, `shop-flow`) | `client_orders`, drafts in memory | the dialogue, confirm, decide, follow | the bot dies between an order and its draft; old buttons; two ways to tell a step | an order is whole, made once; the customer heard the last step (promised, not kept when requests overlap) |
| Chat (`chat.service.ts`, `chat.tsx`) | rooms, members, messages, uploads in parts, scheduled messages | send, retry, upload, schedule, withdraw, post; found, join, add, remove, leave, make admin | retries over lost answers; the posting job beside a withdrawal; roles changed beside leaving | posted once; a withdrawn message is never sent; a group or channel has one owner |
| Users, permissions | accounts (in Sessions), phones of staff (in People) | create, suspend, edit | see Sessions | see Sessions |
| Realtime, presence, push, owner alerts; audit, files, catalogue, goals, insights, reports, location; web and mobile screens | Redis channels; rows written by single statements, or only read | - | - | left out, section 6 |

`PROJECT.json` lists the hazards, each at its line, with the properties that would
catch it going wrong, or a note why none does.

## 2. Modules and how they correspond to the code

```
Workers --+-- WorkerLedger -+
Handlers -+-- JobRequests --+
          |                 +---- Assignments --(refines)-- MaterialCustody
          +-- Stock --------+         +-- AssignmentsProofs
          |     +-- Warehouse ------- WarehouseProofs   (which AssignmentsProofs extends)
          +-- Sessions -------------- SessionsProofs
          +-- People -- Registration - RegistrationProofs    (People also extends Workers)
          +-- ChatRoom -- Chat ------ ChatProofs
          +-- Shop ------------------ ShopProofs
          +-- Timers --+
              Outbox --+------------- WorkerContainerProofs
OfflineSync ------------------------- OfflineSyncProofs
```

An arrow is `EXTENDS`.  Components that share state are composed; the others are
separate state machines.

* **Workers**: the workers and the ids of their assignments.
* **Handlers**: requests being served.  A NestJS method reads first and opens
  `prisma.$transaction` later; what it read before is a snapshot that may be stale.
  Such a handler is two actions, `XBegin` (the checks on what it loaded, remembered in
  `inflight`) and `XCommit` (the whole transaction).  A handler that decides under its
  own row lock (startHandoff, confirmHandoff, cancel, ledger entries, balances, every
  message of the registration bot) is one action.  PostgreSQL runs at READ COMMITTED; a
  transaction is one step where its decisions read only rows it locked or rows no other
  writer changes.  Those that read and write without a lock (`JobRequestsService.reject`,
  goAway, comeBack, the refresh of a session) take two steps or more.  A transaction
  that a CHECK, a foreign key or a unique index refuses is a commit that is not enabled.
  `Abandon` is a handler that never commits.
* **Stock**: `RecordMovements` is `recordMovement` for all materials of one
  transaction.  Movements are kept as totals per source, material and type, which is
  all the code reads back (`SUM`, existence).  `ShelfMatchesMovements` adds them up with
  `SumFunction`.
* **Warehouse**: recipes with their labels, orders with their lines and the chats of
  suppliers, over the shelf of `Stock`.  Lines that name the same material are one
  quantity per material; a receipt may enter a line twice, and each entry is booked, while
  the line shows the last (`Came`, `Corrected`).  An entry of nothing is not among the
  inputs: the API lets it in and skips the booking, but the CHECK on the line
  (`20261001200000_purchases/migration.sql:40`) refuses it and the receipt rolls back.
  `edition` stands for the ids of the lines, which are new when lines are replaced;
  `crossed` is a ghost that tells what happened one request at a time from what two of
  them did across each other.
* **WorkerLedger**: `ApplyEntry` is `applyEntry`; `EarningFor` is the exact half-up
  rounding; a row keeps its cause (assignment, bonus key, cash or forced payout).
* **JobRequests**: worker status and requests; `OnePendingIndex` is the partial
  unique index, `Fulfil` the compare-and-set inside `create`.
* **Assignments**: all handlers of `assignments.service.ts` that change state, over
  the modules above, in one state machine.  Lengths are centimetres.  The due date is in
  Timers; notes, photos and comments are left out.
* **MaterialCustody**: the abstract promise (a kit goes from the shelf to the worker
  at most once and ends once).  `Assignments` implements it under the mapping `Place`,
  which reads the place of a kit off its movements (`CustodyKept`).
* **OfflineSync**: one phone, the live try of a screen, the queue, requests in
  flight, the interceptor, and just enough of the handlers (their checks, their commit,
  the `clientId` and CONFIRMED short cuts).  A flush keeps the set of rows it loaded;
  rows are numbered as they were saved, so the next one to send is the least (`Oldest`).
* **Outbox**: ticks that overlap.  A row is due, claimed (attempt counted, lease
  taken), sent, marked by id.  The lease ending under a live tick is an `overrun`.
* **Timers**: `tick`, `ring` and `endHolidays` run in the slots of Handlers, beside
  requests and beside themselves, because `setInterval` does not wait.  A notice is its
  dedupe key in `bell`.  `renewed` and `missed` are ghosts: a manager whose next holiday
  was ended by the end of the last one, and reminders marked as told that were not.
  Clock, works and deadlines are as small as the job reads them: one work per worker.
* **Sessions**: login, Telegram logins, refresh rotation, sign-out, suspension, password,
  and the five-second cache of principals.  `Tick` is the clock: it takes `CacheTicks`
  of them for a cached principal to lapse, counted from when the request that put it there
  began (`left`), and `since` counts them from a revocation.  Clients are not trusted: any
  token that was ever minted may be presented at any time.
* **People**: profiles, logins, the chat for alerts of a staff member, collateral,
  invitations and decisions of the office.
  **Registration** adds the questionnaire: `advance` as one operator per step.  A phone that
  is known is not asked again (`Diverted`, registration.service.ts:137): the code looks at
  `returnToConfirm` as it was before the press, so a phone to be corrected from the menu
  goes on to the place the first time.
* **ChatRoom** (a direct chat, a group, or a channel of chosen people: who is in it, owner,
  admins, and who may write once only the admins do) and **Chat** (sends with a `clientId` for
  all their tries, uploads in parts, scheduled messages and the job that posts them).
* **Shop**: the shop bot's drafts (in the memory of one process), orders, and the two
  ways a customer hears of a step.  `InOrder` lists ticked colours as the catalog does; the
  colours of a product differ from each other (unique index on model and colour, unique
  names of colours).

## 3. Runs

| Run | Instance | Shows |
|---|---|---|
| `stock` | two materials, one order of up to two lines, one recipe, two suppliers who may share a chat, two requests at a time (four in a behaviour), manual totals up to 2 | `ShelfMatchesMovements`, `ErasedHasNoTrail`, `ToldAsOrdered`, `RecipesStayWhole` |
| `assignments_race` | one assignment, two overlapping handlers, two handoffs, two pickups, two prices | custody against status, one receipt, open handoff is current, pickup possible, cancelled is closed, metres within plan, `PaidAsSettled`, `LedgerChain`, and `CustodyKept`, whatever overlaps |
| `assignments_requests` | two assignments of two kits, two requests, two overlapping handlers, worker paused/archived/restored, manual stock, payouts, a bonus | `RequestPreparedOnce`, `LedgerChain` |
| `offline_sync` | three actions (receive, report, ready), two request slots, two faults | `KeyCountsOnce`, `DoneIsTrue`, `QueueKeepsOrder`; and `QueueDrains` (liveness) |
| `worker_container` | the outbox with a login code and a notice, two ticks, two attempts, one fault, one overrun; the other timers with one worker, two managers, one reminder, two jobs or requests at a time, one that dies, two days | `DeliveriesAreCounted`, `CodesAreWiped`, `CoverHasHoliday`; and the liveness of `EveryMessageEnds`, `CoverEnds`, `OverdueIsTold`, `ReminderRings` |
| `sessions` | one account on one install, two sessions, three tokens, one Telegram login, two passwords, two requests at a time, crashes, a cache of one tick | `LostAnswerIsForgiven`, `OneHeir`, `TrustEndsInTime`, `RevokedIsFinal` |
| `chat` | three people; a direct chat with a text, a file of two parts and a scheduled text; a group or channel that is managed and left while a scheduled text waits; requests die | `PostedOnce`, `SentIsPosted`, `WithdrawnIsNeverSent`, `OneOwner` |
| `registration` | one worker, two Telegram accounts of which one answers, two phones, one invitation, one photo | `SummaryIsComplete`, `WorkersAreNotAsked` |
| `shop` | one chat, two products (one in two colours), two drafts, two orders, one request of the staff at a time | `OrderIsWhole`, `OrderedOnce` |

Three runs end in a counterexample on purpose; each shows where the code departs from
what it says of itself (quoted in `PROJECT.json`, "findings"):

| Run | Counterexample |
|---|---|
| `two_acceptances` | two overlapping acceptances both pay |
| `invited_never_approved` | `acceptInvite` makes the login of every worker it invites; one who still needs an approval can never get it, because the approval refuses whoever has a user with her phone |
| `received_twice` | two overlapping receipts of one order are both booked on the shelf |

### Stated, and not run

Some statements stand in the modules without a run of their own.

* The code violates them; put into a cfg (with two requests at once for the shop and the
  registration), TLC finds each within seconds or minutes:
  `PickupCompletedOnce` and `FinalIsFinal` (two staff members complete one pickup; a
  ready, pickup or accept in flight moves a cancelled work on), `StatusFollowsMachine`
  (cancel from IN_PROGRESS), `CancelledKitIsBooked` (a prepared kit cancelled as spoiled
  is off the shelf and in no trail), `AnswerIsFinal` (a withdrawal overwrites FULFILLED),
  `RemovedIsEmpty` (stock received during a removal), `ActionCountsOnce` (the live try
  and the queue use two keys), `RefusalIsFinal` (the 409 of a request still being served
  is shown as a refusal while the server completes it), `SentOnce` (a tick slower than
  its lease), `OldPasswordIsGone` (a login that has compared the old password goes on),
  `LastStepHeard` (two updates of one order, or an update and `follow`, tell what is old),
  and `HeldIsNeverErased` (a collateral received between the check of a removal and its
  transaction is erased with the worker).  Where one overlap of the kind is a run above,
  or nothing in the repository claims the contrary, they have no run of their own.
* They are proved, and checking them too would say little more: `AssignmentTypeOK`,
  `BonusPaidOnce`, `OnePendingRequest`, `PassOnce`, `LabelKeepsRecipe`, `BalanceIsSum`
  (it follows from `LedgerChain`), `MarkedWasTold` (what is safe about `ReminderRings`).
* They follow from a unique index or from a run: `OneHandlerPerKey`, the type
  invariants of Warehouse and Shop.

### Bounds, and why they are enough

* Two handlers in flight (`Client`): every disagreement found needs two; a third
  only repeats what a second can do, because a commit reads and writes one row set.
  `registration` and `shop` have one, beside the messages of the bots, which run outside
  the slots: their properties are about the dialogue and what the office does around it,
  and a second slot multiplies the states past what a run can hold.  The theorems of
  section 4 hold for any number.
* One assignment for races inside it; two where assignments meet (shelf, request,
  worker balance).  A worker is paused or archived only in `assignments_requests`: beside two
  prices it is past what a run can hold.  It only closes guards: of create, startHandoff, scan and
  confirm, and the last of these reads it in its own transaction.  The theorems hold with it.
  Two handoffs and two pickups: one is superseded, one is open.
* Lengths 0, one kit, one kit and a centimetre: nothing, everything, too much - and
  within the tolerance of `accept`, whose three lengths need not add up to the centimetre.
* Three tokens: one before, one current, one of a race.  Two sessions: one replaces the
  other.  A cache of one tick: the request that read a session, the revocation and the tick
  already come in every order.  One account: rows of others are touched by nothing a request names.
* The scenes of `worker_container` (messages, reminders, holidays, deadlines, tomorrow)
  start the other timers with nothing left to do: they share no state, so their product
  would only multiply the interleavings.
* `MaxManual`, `MaxRows`, `MaxChanges`, `MaxRequests`, `MaxMessages`, `MaxDrafts`,
  `MaxPassword`, `MaxMoves` bound what people do; `MaxFaults`, `MaxOverruns`,
  `MaxMishaps` what goes wrong; `LastDay` the clock.  Each is named in the guard it
  bounds.
* `HandoffLapses`, `BecomesDue` and `Dawn` are the clock: any moment may be the one
  after the deadline.

### Fairness

Two runs assume any.  `FairSyncSpec`: the 45 s timer starts a flush whenever something
is queued, a flush goes on, the server serves what it received, an answer arrives or the
client's timeout ends the wait; nothing is said of what the worker does, and faults are
finite.  `worker_container` assumes `OutboxFairness` (a lease or back-off that belongs to
no running tick runs out, a running tick goes on, and a message that is due again and
again is claimed: a timer of 2 s, oldest first with `LIMIT 20`) and `TimersFairness`
(`setInterval` of `worker.ts` starts each job again and again, so it is strong: slots are
taken by others in between; what has begun goes on; the days pass).  Nobody is assumed to
press a button, to give a worker to anyone, or to come back by himself.

### Why `CHECK_DEADLOCK FALSE`

Every instance ends when its bounded pool of assignments, orders, faults or messages is
used.

## 4. Proofs

`AssignmentsProofs` proves of the ledger by itself, for any workers, prices, payouts and
bonus keys:
`LedgerIsSound`: `LedgerSpec => [](LedgerTypeOK /\ LedgerChain /\ DebtIsForced /\
BonusPaidOnce)`.  The conjunction is inductive.  The argument goes through one lemma,
`ApplyEntryKeepsLedger`: appending a row that carries the new balance keeps the chain;
it can end in debt only if it is forced; and it repeats no bonus key.  `Payout`,
`Bonus` and `EarnForKeepsLedger` (acceptance, with half-up rounding) are its three
uses.  Assumptions: the named ones on the constants; in particular bonus keys are
neither assignment ids nor the words "cash" and "forced".

It proves about `AssignmentSpec`, for any number of workers, works,
materials, kits, request slots, handoffs and pickups:

| Theorem | Property |
|---|---|
| `TypesHold` | `AssignmentTypeOK` |
| `CustodyFollows` | `CustodyFollowsStatus` |
| `KitIsReceivedOnce` | `OneReceipt` |
| `HandoffIsCurrent` | `OpenHandoffIsCurrent` |
| `PickupStaysPossible` | `PickupIsPossible` |
| `CancelledStaysClosed` | `CancelledIsClosed` |
| `MetersStayWithinPlan` | `MetersWithinPlan` |
| `LedgerIsSoundUnderWork` | `LedgerChain`, `DebtIsForced`, `BonusPaidOnce` |
| `RequestsAreSafe` | `OnePendingRequest`, `RequestPreparedOnce` |
| `ShelfIsTheSumUnderWork` | `ShelfMatchesMovements` |
| `CustodyIsKept` | `CustodyKept`: `Assignments` implements `MaterialCustody` |
| `BalanceIsTheSumUnderWork` | `BalanceIsSum` |
| `PayIsSettled` | `PaidAsSettled` |

None of them is inductive by itself, because a commit does not check again what its
begin checked.  The inductive invariant `Inv` has four parts: `TypeInv` (the tables,
and what each slot remembers), `LedgerInv`, `Sound(a)` for every work at rest, and
`LateOK` for every handler in flight: a late progress, ready or pickup finds a work
that has begun and whose plan is the one it was checked against; a late acceptance finds
a work that is not being sewn and of which she holds nothing.  Every step has to leave
that true for everybody else's handlers; `Forward` is what it has to respect: begun work
stays begun, its kits stay the same, a work that has left IN_PROGRESS does not return
there, and hands that were emptied stay empty.  So `ready` may move a cancelled work on
(`FinalIsFinal` is violated so), yet it can only find empty hands: that is why
`CustodyFollowsStatus` allows 0 under READY_FOR_PICKUP, and why no race gives material
back twice.  There is one lemma per action; `SameKeepsSound` and `OneWorkChanges` take
care of the works an action does not touch, `BeginKeepsInv`, `CommitKeepsInv`,
`LockedKeepsInv` and `QuietStep` of the slots.  `RequestsAreSafe` adds `RequestsSound`
(a request some work answers is neither unused nor pending), on top of `Inv`.

**The refinement.**  `CustodyIsKept` is `AssignmentSpec => CustodyKept`: under the mapping
`Place`, which reads the place of a kit off its movements, the initial states are initial
states of `MaterialCustody` and every step is one of its steps or a stutter.  `Inv` does not
say enough about movements for that, so `KitInv` goes with it:

* `KitWhole(a)`: the types of movement a work has left (its trail) are one of `Trails`:
  none; on the shelf of prepared kits; from there back into stock; at her home; or home and
  one end - used, returned or written off.  Each movement of a trail is the whole kit, for
  every material.  And the status agrees: nothing moved exactly if there is no work, the
  kit is prepared while it waits, and it has been handed over in every status after that
  but CANCELLED.
* `Remembered(h)`: a progress, ready, pickup or acceptance that comes late is about a kit
  that was handed over; trails only grow, so it still was when it commits.

`Place` looks only at the trail (`PlaceOfTrail`), so what has to be known of a step is the
one type of movement it adds: the kit prepared (create), handed over (confirm), used up
(pickup), taken back or written off (cancel).  What she holds is the kit exactly between
`ISSUE_TO_WORKER` and the end of the kit (`HeldByTrail`), so a late pickup of a cancelled work
finds nothing to use up and is a stutter, as are all steps that change a status only.  Manual
bookings are the abstract `Restock`.

**What an acceptance pays.**  Two acceptances that overlap both pay (`two_acceptances`), so
`PaidOnce` is no theorem.  What is left of it is `PayIsSettled`: the pay a work shows is the
amount of the newest row written for it.  Each acceptance writes both in one transaction, and
rows are only ever appended, so a step keeps it if every other row it adds has another cause
(`AcceptSettles`, `SettledStays`).

**The balance as a sum.**  `LedgerChain` says that each row carries on from the one before;
`BalanceIsSum`, that the balance is the sum of all amounts, which is what the view
`ledger_balance_mismatches` compares.  The second follows from the first (`ChainIsSum`): the
first row up to which sum and chain would differ cannot exist, because `TakeAny` in
`WarehouseProofs` lets a sum give up its newest term.  It needs no hypothesis on overlaps: a
work may be paid twice, but never into a balance its rows do not add up to.

**The shelf.**  `ShelfIsTheSum` and `ErasedLeavesNothing` (below) are proved where the
shelf lives, in Warehouse, and once more under all of assignments.

Assumptions: `AssignmentAssumption`, `StockAssumption`, `LedgerAssumption`,
`JobRequestAssumption` - the constants have their types, `NoAsg` and `NoRequest` are
nobody's.  The modules below likewise assume only what their named ASSUME says.

The other proof modules follow the same plan: a type invariant, what each request in
flight still knows, and the property; one lemma per action or family of actions.

| Module | Theorems (property) | The strengthening, and why it is needed |
|---|---|---|
| `SessionsProofs` | `SessionTypes`, `LostAnswersAreForgiven` (`LostAnswerIsForgiven`), `HeirsAreUnique` (`OneHeir`), `PassesAreSpentOnce` (`PassOnce`), `RevocationIsFinal` (`RevokedIsFinal`), `TrustIsBounded` (`TrustEndsInTime`) | a rotation acts on a row it read before: it is only as good as what cannot change behind it.  Tokens are minted once and sessions stay (`Grows`); a token that was handed out for another is where the rows say it is (`Ancestry`); a Telegram login is open, in one request, or in one session (`OnePlace`); what the cache holds was true of a session that exists (`CacheOK`); the ticks a cached principal, or a request about to cache one, has left and those since the revocation are together no more than the cache time (`TimeInv`) |
| `ChatProofs` | `NothingIsPostedTwice`, `WhatLeftIsPosted`, `WithdrawnStaysUnsent`, `GroupHasOneOwner` | follows a send from the request to the row, and a scheduled one from the claim; the room needs that members are each there once |
| `RegistrationProofs` | `PeopleTypes`, `NothingIsMissing` (`SummaryIsComplete`), `NoWorkerIsAsked` (`WorkersAreNotAsked`) | `Sound(d)`: what has been answered by the time each question is asked, also when it is asked again from the summary, or passed over because the phone is known; a worker's row and the end of her draft come in one step |
| `ShopProofs` | `OrdersAreMadeOnce` (`OrderedOnce`), `OrdersAreWhole` (`OrderIsWhole`) | every draft has a number of its own, and an order keeps the number of a draft that is gone or just being ended (`ShopInv`); what has been answered by the time a draft asks its question, colours ticked in the catalog's order (`WholeInv`) |
| `WarehouseProofs` | `SupplierWasToldRight`, `RecipesAreKeptWhole`, `LabelsKeepRecipes`, `ShelfIsTheSum` (`ShelfMatchesMovements`), `ErasedLeavesNothing` (`ErasedHasNoTrail`) | what a request read stays true until its commit as long as nobody crosses it (`Fresh`), and two requests that touch one thing have crossed (`Apart`).  For the shelf: balance and sum agree, an erased material has no movement from any source, quantities are whole numbers (`ShelfInv`) |
| `OfflineSyncProofs` | `KeysCountOnce` (`KeyCountsOnce`), `HandlersAreAlone` (`OneHandlerPerKey`), `DoneHasHappened` (`DoneIsTrue`), `QueueIsOrdered` (`QueueKeepsOrder`) | whoever is in a handler has his key pending (`KeysGuard`); what a handler has checked is not yet done, what it answers or stores has happened, and the status shows which effects there have been (`WorkInv`); the phone waits for a request with its own key (`PhoneInv`); what a flush has not loaded was saved later (`OrderInv`) |
| `WorkerContainerProofs` | `DeliveriesCounted` (`DeliveriesAreCounted`), `CodesWiped` (`CodesAreWiped`), `TimersTypes`, `CoversHaveHolidays` (`CoverHasHoliday`), `MarkedRemindersWereTold` (`MarkedWasTold`) | a tick that claimed a row and has not sent it is a delivery still to come: what was delivered and what may still be are counted together (`DeliveriesToCome`).  A return writes the workers it found when it began; until it ends those who wait for him can only become fewer, unless he leaves again, which outdates it (`HandlerOK`).  What a ring has told and not marked is in the bell or among the missed (`RingInv`) |

Two hypotheses are worth knowing:

* `ShelfIsTheSum` and `ShelfIsTheSumUnderWork` (and `ErasedLeavesNothing`, which is proved
  with them) take `Asg` to be finite: a sum over infinitely many works has no value, and a
  database holds finitely many.  That the sum of a function changes by what one of its values
  changes is not an induction over data: the sum is unfolded where it is recursive, and the
  smallest set on which the claim would fail is led to a contradiction (`LeastSubset`,
  `SumOfOneChange`), because the induction theorems of the library take an operator as a
  parameter.
* `SupplierWasToldRight`, `RecipesAreKeptWhole` and `LabelsKeepRecipes` speak of orders and
  recipes that no two requests had in hand at a time, as their properties do; what crosses
  can break all three (`received_twice` is one case of it).

Only model-checked: liveness, which is out of the prover's reach (`QueueDrains`,
`EveryMessageEnds`, `CoverEnds`, `OverdueIsTold`, `ReminderRings`).  Every other property of
the passing runs is proved.

## 5. Plan

1. *(done)* Workers, Handlers, Stock, JobRequests, WorkerLedger, Assignments,
   MaterialCustody; OfflineSync; Outbox; proofs of the ledger and of Assignments.
2. *(done)* Sessions; People and Registration; Shop; ChatRoom and Chat; Warehouse;
   Timers; with their runs and proofs.
3. *(left)* The login of a worker beside her status (archive and restore,
   `workers.service.ts:115`): `users.setStatus` reopens the login of an archived worker by
   itself, so the promise to be checked has to be agreed on first.
4. *(left)* **LockOrder**: the row locks of accept, pickup, cancel and kit assembly in the
   order they are taken; who may wait for whom.
5. *(left)* Reactions, polls, pins, edits and read marks of the chat; the notices that
   follow events.
6. *(done)* Proofs: the refinement to `MaterialCustody` step by step; the sums of `Stock`;
   `Outbox`; `OfflineSync`; the rest of `Shop`.
7. *(done)* Proofs: the pay a work shows; the time a revoked session is trusted; the ledger
   as a sum; what a reminder promises.

## 6. Not modelled

* Permissions and manager scoping: every action is one its actor may take.  Audit rows:
  written in the same transaction and read by nothing.
* Realtime events and presence: published after commit, hints to screens that reload; no
  service reads them.  Push and owner alerts: best effort, no state.  Of AppNotifier the
  deadline notices and reminders are modelled; notices that follow an event are single
  inserts without retry, summaries and forecasts only read and tell.
* The rest of the chat: the company chat and channels of an automatic audience (nobody joins
  or leaves them), pins, edits, forwards, search, hiding and saved messages, and the
  marks each member keeps.  Reactions, votes and read marks do meet (`PROJECT.json` lists
  the hazard at `chat.service.ts:668`): two overlapping votes of one person can leave two
  answers in a single-answer poll, and `deliver` can set the last message of a room back.
  What could be promised there holds only for one request of a person at a time, and then
  by the shape of a single statement.
* Goals, the percentages of the bonus, insights, reports, location: computed from rows,
  they keep none.  Catalogue and files: rows written by single statements.
* Web and mobile screens: presentation, but for the two parts that hold state of their
  own, the offline queue of the phone and the sending of the chat.
* In Warehouse: prices, names, the isActive switch of a material, an order without a
  supplier (it can only be sent by hand), an entry of nothing in a receipt (it rolls back).
  In Timers:
  plain notices without a key (covers), more than one work of a worker, managers who are
  deactivated or erased; the checks of goAway and its first read are one step.
* Texts, photos, prices of materials.  The database is trusted to do what PostgreSQL does.
