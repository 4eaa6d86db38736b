------------------------------ MODULE Warehouse ------------------------------
(***************************************************************************)
(* What the office does to the shelf besides booking it by hand: kit       *)
(* recipes and the batches assembled from them (kits.service.ts), orders   *)
(* to suppliers and their arrival (purchases.service.ts), and the answers  *)
(* suppliers give in the bot (supplier-bot.ts).  Nearly every service      *)
(* method here checks first and opens its transaction afterwards.          *)
(*                                                                         *)
(* Prices, names, notes and the isActive switch of a material are left     *)
(* out.  The recipe of Stock is empty in this module: recipes are data.    *)
(***************************************************************************)
EXTENDS Stock, Sequences

CONSTANTS Purchase,     \* purchase_orders
          Kit,          \* material_kit_templates
          Supplier,     \* suppliers
          Chat,         \* Telegram chats suppliers write from
          NoChat,
          Linked,       \* Linked[s]: the chat s is connected to at the start, or NoChat
          MaxLines,     \* bound: lines of one order, and entries of one receipt
          MaxQuantity,  \* bound: quantity on one line of an order
          MaxRequests   \* bound: requests begun in one behaviour

ASSUME WarehouseAssumption == /\ NoChat \notin Chat
                              /\ Linked \in [Supplier -> Chat \cup {NoChat}]
                              /\ MaxLines \in Nat
                              /\ MaxQuantity \in Nat
                              /\ MaxRequests \in Nat

VARIABLES purchase, received, kit, label, supplier, served, crossed

(* purchase   the order, its lines and the last message sent by the bot    *)
(* received   history: how many receipts put the goods of an order on the  *)
(*            shelf                                                        *)
(* kit        the recipe; label: the KIT QR printed for its last batch     *)
(* served     how many requests were begun                                 *)
(* crossed    history: what overlapping requests have worked on            *)
officeVars == <<purchase, received, kit, label, supplier>>
warehouseVars == <<stockVars, inflight, officeVars, served, crossed>>

(* The lines of an order, each with its material: two may name the same.   *)
(* A quantity is never 0 (purchase_order_items_quantity_pos: a receipt of  *)
(* "0", which the schema of the request lets through, rolls back).         *)
NoLines == <<>>
UpToMany(n, row) == UNION {[1..k -> row] : k \in 1..n}
Lines == UpToMany(MaxLines, [mat : Material, quantity : 1..MaxQuantity])
Named(lines) == {lines[i].mat : i \in DOMAIN lines}

(* The entries of a receipt: what came of a line, which may differ from    *)
(* the order; an entry may name a line again.                              *)
Arrivals == UpToMany(MaxLines, [line : 1..MaxLines, quantity : 1..(MaxQuantity + 1)])
Listed(ms) == \A m \in ms : material[m] = "listed"
Exist(ms) == \A m \in ms : material[m] # "erased"      \* the foreign keys

NoPurchase == [status |-> "none", lines |-> NoLines, edition |-> 0, told |-> NoLines,
               reply |-> "none", supplier |-> "none"]
NoKit == [state |-> "none", items |-> {}, active |-> TRUE]

WarehouseInit ==
  /\ StockInit /\ HandlersInit
  /\ purchase = [p \in Purchase |-> NoPurchase]
  /\ received = [p \in Purchase |-> 0]
  /\ kit = [k \in Kit |-> NoKit]
  /\ label = [k \in Kit |-> "none"]
  /\ supplier = [s \in Supplier |-> [chat |-> Linked[s], link |-> FALSE]]
  /\ served = 0
  /\ crossed = {}

(***************************************************************************)
(* One request more.  It crosses a request in flight when both work on the *)
(* same order, recipe or material; history remembers on what.              *)
(***************************************************************************)
Touched(handler) == IF handler.op = "removeMaterial" THEN {handler.mat}
                    ELSE IF handler.op = "idle" THEN {} ELSE handler.touches

Crossing(touches) ==
  LET met == {c \in Client : Touched(inflight[c]) \cap touches # {}}
  IN IF met = {} THEN {} ELSE touches \cup UNION {Touched(inflight[c]) : c \in met}

Serve(touches) == /\ served < MaxRequests
                  /\ served' = served + 1
                  /\ crossed' = crossed \cup Crossing(touches)

Served == UNCHANGED <<served, crossed>>

(* The row of order p becomes `row`; the recipe k becomes `row`.           *)
PurchaseBecomes(p, row) == purchase' = [purchase EXCEPT ![p] = row]
KitBecomes(k, row) == kit' = [kit EXCEPT ![k] = row]

Open(p) == purchase[p].status \in {"DRAFT", "ORDERED"}

(* What a receipt brings of each material, over all its entries.           *)
Came(lines, arrival) ==
  [m \in Material |-> SumFunction([e \in DOMAIN arrival |->
     IF lines[arrival[e].line].mat = m THEN arrival[e].quantity ELSE 0])]

(* The lines after it: of the entries that name a line, the last counts.   *)
Entries(arrival, i) == {e \in DOMAIN arrival : arrival[e].line = i}
Corrected(lines, arrival) ==
  [i \in DOMAIN lines |->
     IF Entries(arrival, i) = {} THEN lines[i]
     ELSE [lines[i] EXCEPT !.quantity =
             arrival[CHOOSE e \in Entries(arrival, i) :
                       \A f \in Entries(arrival, i) : f <= e].quantity]]

-----------------------------------------------------------------------------
(* Orders to suppliers.                                                    *)

CreatePurchaseBegin(c, p, s, lines) ==
  /\ purchase[p].status = "none"
  /\ Listed(Named(lines))
  /\ Start(c, [op |-> "createPurchase", touches |-> {p}, p |-> p, s |-> s, lines |-> lines])
  /\ Serve({p})
  /\ UNCHANGED <<stockVars, officeVars>>

CreatePurchaseCommit(c) ==
  /\ Running(c, "createPurchase")
  /\ LET h == inflight[c]
     IN /\ purchase[h.p].status = "none"       \* nextCode: every order is a new row
        /\ Exist(Named(h.lines))
        /\ PurchaseBecomes(h.p, [NoPurchase EXCEPT !.status = "DRAFT", !.lines = h.lines,
                                                   !.supplier = h.s])
  /\ Finish(c) /\ Served
  /\ UNCHANGED <<stockVars, received, kit, label, supplier>>

(* The patch: a new status or "same", new lines or NoLines.                *)
LinesNeverFrozen(p) == FALSE                    \* mutant: lines change after sending
LinesFrozen(p) == purchase[p].status # "DRAFT"
UpdatePurchaseBegin(c, p, status, lines) ==
  /\ Open(p)
  /\ lines # NoLines => ~LinesFrozen(p) /\ Listed(Named(lines))
  /\ Start(c, [op |-> "updatePurchase", touches |-> {p}, p |-> p,
               status |-> status, lines |-> lines])
  /\ Serve({p})
  /\ UNCHANGED <<stockVars, officeVars>>

UpdatePurchaseCommit(c) ==
  /\ Running(c, "updatePurchase")
  /\ LET h == inflight[c]
         o == purchase[h.p]
     IN /\ Exist(Named(h.lines))
        /\ PurchaseBecomes(h.p,
             [o EXCEPT !.status = IF h.status = "same" THEN o.status ELSE h.status,
                       !.lines = IF h.lines = NoLines THEN o.lines ELSE h.lines,
                       !.edition = IF h.lines = NoLines THEN o.edition ELSE o.edition + 1])
  /\ Finish(c) /\ Served
  /\ UNCHANGED <<stockVars, received, kit, label, supplier>>

(* The message is composed from the lines read here; it reaches the outbox *)
(* with the transaction, for the chat the supplier had.                    *)
SendByBotBegin(c, p) ==
  /\ Open(p)
  /\ supplier[purchase[p].supplier].chat # NoChat
  /\ Start(c, [op |-> "sendByBot", touches |-> {p}, p |-> p, lines |-> purchase[p].lines])
  /\ Serve({p})
  /\ UNCHANGED <<stockVars, officeVars>>

SendByBotCommit(c) ==
  /\ Running(c, "sendByBot")
  /\ LET h == inflight[c]
     IN PurchaseBecomes(h.p, [purchase[h.p] EXCEPT !.status = "ORDERED", !.told = h.lines,
                                                   !.reply = "none"])
  /\ Finish(c) /\ Served
  /\ UNCHANGED <<stockVars, received, kit, label, supplier>>

Receivable(p) == Open(p)
ReceiveBegin(c, p, arrival) ==
  /\ Receivable(p)
  /\ \A e \in DOMAIN arrival : arrival[e].line \in DOMAIN purchase[p].lines
  /\ Start(c, [op |-> "receive", touches |-> {p}, p |-> p, arrival |-> arrival,
               came |-> Came(purchase[p].lines, arrival), edition |-> purchase[p].edition])
  /\ Serve({p})
  /\ UNCHANGED <<stockVars, officeVars>>

(* One RECEIPT per entry, and the line takes what came.  A line that was   *)
(* replaced since then is no longer there, and nothing is booked.          *)
ReceiveCommit(c) ==
  /\ Running(c, "receive")
  /\ LET h == inflight[c]
         Arrived(m) == IF h.came[m] > 0 THEN Movement("RECEIPT", h.came[m], h.came[m], 0)
                                        ELSE NoMovement
     IN /\ purchase[h.p].edition = h.edition
        /\ \E w \in Worker : RecordMovements(NoAsg, w, [m \in Material |-> Arrived(m)])
        /\ received' = [received EXCEPT ![h.p] = received[h.p] + 1]
        /\ PurchaseBecomes(h.p, [purchase[h.p] EXCEPT !.status = "RECEIVED",
                               !.lines = Corrected(purchase[h.p].lines, h.arrival)])
  /\ Finish(c) /\ Served
  /\ UNCHANGED <<material, kit, label, supplier>>

-----------------------------------------------------------------------------
(* Suppliers in the bot.                                                   *)

BotLink(s) ==
  /\ supplier' = [supplier EXCEPT ![s].link = TRUE]
  /\ Serve({})
  /\ UNCHANGED <<stockVars, inflight, purchase, received, kit, label>>

BotUnlink(s) ==
  /\ supplier' = [supplier EXCEPT ![s] = [chat |-> NoChat, link |-> FALSE]]
  /\ Serve({})
  /\ UNCHANGED <<stockVars, inflight, purchase, received, kit, label>>

CompleteLinkBegin(c, s, chat) ==
  /\ supplier[s].link
  /\ Start(c, [op |-> "completeLink", touches |-> {}, s |-> s, chat |-> chat])
  /\ Serve({})
  /\ UNCHANGED <<stockVars, officeVars>>

(* One chat belongs to one supplier: linking it again moves it.            *)
CompleteLinkCommit(c) ==
  /\ Running(c, "completeLink")
  /\ LET h == inflight[c]
     IN supplier' = [s \in Supplier |->
          IF s = h.s THEN [chat |-> h.chat, link |-> FALSE]
          ELSE [supplier[s] EXCEPT !.chat = IF @ = h.chat THEN NoChat ELSE @]]
  /\ Finish(c) /\ Served
  /\ UNCHANGED <<stockVars, purchase, received, kit, label>>

(* A button under a message that was sent: only the supplier of the order  *)
(* may answer it, and not once it is cancelled.                            *)
ReplyBegin(c, chat, p, reply) ==
  /\ purchase[p].told # NoLines
  /\ supplier[purchase[p].supplier].chat = chat
  /\ purchase[p].status # "CANCELLED"
  /\ purchase[p].reply # reply
  /\ Start(c, [op |-> "reply", touches |-> {}, p |-> p, reply |-> reply])
  /\ Serve({})
  /\ UNCHANGED <<stockVars, officeVars>>

ReplyCommit(c) ==
  /\ Running(c, "reply")
  /\ LET h == inflight[c]
     IN PurchaseBecomes(h.p, [purchase[h.p] EXCEPT !.reply = h.reply])
  /\ Finish(c) /\ Served
  /\ UNCHANGED <<stockVars, received, kit, label, supplier>>

-----------------------------------------------------------------------------
(* Kit recipes.                                                            *)

Live(k) == kit[k].state = "live"
CreateKitBegin(c, k, items) ==
  /\ kit[k].state = "none"
  /\ Listed(items)
  /\ Start(c, [op |-> "createKit", touches |-> {k} \cup items, k |-> k, items |-> items])
  /\ Serve({k} \cup items)
  /\ UNCHANGED <<stockVars, officeVars>>

CreateKitCommit(c) ==
  /\ Running(c, "createKit")
  /\ LET h == inflight[c]
     IN /\ kit[h.k].state = "none"
        /\ Exist(h.items)
        /\ KitBecomes(h.k, [state |-> "live", items |-> h.items, active |-> TRUE])
  /\ Finish(c) /\ Served
  /\ UNCHANGED <<stockVars, purchase, received, label, supplier>>

(* items = {} leaves the ingredients as they are.                          *)
UpdateKitBegin(c, k, active, items) ==
  /\ Live(k)
  /\ Listed(items)
  /\ Start(c, [op |-> "updateKit", touches |-> {k} \cup items, k |-> k,
               active |-> active, items |-> items])
  /\ Serve({k} \cup items)
  /\ UNCHANGED <<stockVars, officeVars>>

UpdateKitCommit(c) ==
  /\ Running(c, "updateKit")
  /\ LET h == inflight[c]
     IN /\ kit[h.k].state # "erased"
        /\ Exist(h.items)
        /\ KitBecomes(h.k, [state |-> kit[h.k].state, active |-> h.active,
                            items |-> IF h.items = {} THEN kit[h.k].items ELSE h.items])
  /\ Finish(c) /\ Served
  /\ UNCHANGED <<stockVars, purchase, received, label, supplier>>

AssembleKitBegin(c, k) ==
  /\ Live(k) /\ kit[k].active /\ kit[k].items # {}
  /\ Start(c, [op |-> "assemble", touches |-> {k}, k |-> k, items |-> kit[k].items])
  /\ Serve({k})
  /\ UNCHANGED <<stockVars, officeVars>>

(* One kit off the shelf, and a printed KIT QR that names the recipe.      *)
AssembleKitCommit(c) ==
  /\ Running(c, "assemble")
  /\ LET h == inflight[c]
         Taken(m) == IF m \in h.items THEN Movement("ISSUE_TO_KIT", 1, -1, 0) ELSE NoMovement
     IN /\ \E w \in Worker : RecordMovements(NoAsg, w, [m \in Material |-> Taken(m)])
        /\ kit[h.k].state # "erased"            \* foreign key of qr_entities
        /\ label' = [label EXCEPT ![h.k] = "printed"]
  /\ Finish(c) /\ Served
  /\ UNCHANGED <<material, purchase, received, kit, supplier>>

Used(k) == label[k] # "none"
RemoveKitBegin(c, k) ==
  /\ Live(k)
  /\ Start(c, [op |-> "removeKit", touches |-> {k}, k |-> k, used |-> Used(k)])
  /\ Serve({k})
  /\ UNCHANGED <<stockVars, officeVars>>

(* Erased, the recipe leaves its printed labels without one (SET NULL).    *)
RemoveKitCommit(c) ==
  /\ Running(c, "removeKit")
  /\ LET h == inflight[c]
     IN /\ kit[h.k].state # "erased"
        /\ IF h.used
           THEN /\ KitBecomes(h.k, [state |-> "hidden", items |-> kit[h.k].items,
                                    active |-> FALSE])
                /\ UNCHANGED label
           ELSE /\ KitBecomes(h.k, [state |-> "erased", items |-> {}, active |-> TRUE])
                /\ label' = [label EXCEPT ![h.k] = IF label[h.k] = "printed" THEN "orphan"
                                                   ELSE label[h.k]]
  /\ Finish(c) /\ Served
  /\ UNCHANGED <<stockVars, purchase, received, supplier>>

-----------------------------------------------------------------------------
(* Materials: removal as in Stock, now with recipes and orders that may    *)
(* name the material.                                                      *)

InNoKit(m) == FALSE                             \* mutant: recipes are not looked at
InLiveKit(m) == \E k \in Kit : Live(k) /\ m \in kit[k].items
RemoveBegin(c, m) ==
  /\ RemoveMaterialBegin(c, m)
  /\ ~InLiveKit(m)
  /\ Serve({m})
  /\ UNCHANGED officeVars

Spared(k, m) == [kit[k] EXCEPT !.items = kit[k].items \ {m}]
RemoveCommit(c) ==
  /\ RemoveMaterialCommit(c)
  /\ LET m == inflight[c].mat
         erased == material'[m] = "erased"
     IN /\ erased => \A p \in Purchase : m \notin Named(purchase[p].lines)  \* RESTRICT
        /\ kit' = IF erased THEN [k \in Kit |-> Spared(k, m)] ELSE kit
  /\ Served
  /\ UNCHANGED <<purchase, received, label, supplier>>

BookByHand ==
  /\ \E m \in Material, q \in 1..MaxManual :
       Receipt(m, q) \/ AdjustIn(m, q) \/ AdjustOut(m, q) \/ WriteOff(m, q)
  /\ Serve({})
  /\ UNCHANGED officeVars

GiveUp(c) == AbandonStock(c) /\ Served /\ UNCHANGED officeVars

WarehouseNext ==
  \/ BookByHand
  \/ \E c \in Client :
       \/ \E p \in Purchase, s \in Supplier, lines \in Lines : CreatePurchaseBegin(c, p, s, lines)
       \/ CreatePurchaseCommit(c)
       \/ \E p \in Purchase, status \in {"same", "ORDERED", "CANCELLED"},
             lines \in Lines \cup {NoLines} : UpdatePurchaseBegin(c, p, status, lines)
       \/ UpdatePurchaseCommit(c)
       \/ \E p \in Purchase : SendByBotBegin(c, p)
       \/ SendByBotCommit(c)
       \/ \E p \in Purchase, arrival \in Arrivals : ReceiveBegin(c, p, arrival)
       \/ ReceiveCommit(c)
  \/ \E s \in Supplier : BotLink(s) \/ BotUnlink(s)
  \/ \E c \in Client :
       \/ \E s \in Supplier, chat \in Chat : CompleteLinkBegin(c, s, chat)
       \/ CompleteLinkCommit(c)
       \/ \E chat \in Chat, p \in Purchase, reply \in {"ACCEPTED", "UNAVAILABLE"} :
            ReplyBegin(c, chat, p, reply)
       \/ ReplyCommit(c)
  \/ \E c \in Client :
       \/ \E k \in Kit, items \in (SUBSET Material) \ {{}} : CreateKitBegin(c, k, items)
       \/ CreateKitCommit(c)
       \/ \E k \in Kit, active \in BOOLEAN, items \in SUBSET Material :
            UpdateKitBegin(c, k, active, items)
       \/ UpdateKitCommit(c)
       \/ \E k \in Kit : AssembleKitBegin(c, k) \/ RemoveKitBegin(c, k)
       \/ AssembleKitCommit(c)
       \/ RemoveKitCommit(c)
  \/ \E c \in Client :
       \/ \E m \in Material : RemoveBegin(c, m)
       \/ RemoveCommit(c)
       \/ GiveUp(c)

WarehouseSpec == WarehouseInit /\ [][WarehouseNext]_warehouseVars

-----------------------------------------------------------------------------
OrderLines == Seq([mat : Material, quantity : Nat \ {0}])
WarehouseTypeOK ==
  /\ StockTypeOK
  /\ purchase \in [Purchase -> [status : {"none", "DRAFT", "ORDERED", "RECEIVED", "CANCELLED"},
                                lines : OrderLines, edition : Nat, told : OrderLines,
                                reply : {"none", "ACCEPTED", "UNAVAILABLE"},
                                supplier : Supplier \cup {"none"}]]
  /\ received \in [Purchase -> Nat]
  /\ kit \in [Kit -> [state : {"none", "live", "hidden", "erased"},
                      items : SUBSET Material, active : BOOLEAN]]
  /\ label \in [Kit -> {"none", "printed", "orphan"}]
  /\ supplier \in [Supplier -> [chat : Chat \cup {NoChat}, link : BOOLEAN]]

(* The goods of an order go on the shelf by one receipt: «On the shelf: a  *)
(* RECEIPT per line (what really came) ... Once.» (purchases.service.ts    *)
(* receive).  The code looks at the status before its transaction and not  *)
(* in it: two receipts that overlap both book, and the property is broken. *)
ReceivedOnce == \A p \in Purchase : received[p] <= 1

(* What the supplier was told is what is ordered: the lines of an order    *)
(* that went out stay those of the last message until the goods come.      *)
ToldAsOrdered ==
  \A p \in Purchase \ crossed :
    purchase[p].told # NoLines /\ purchase[p].status # "RECEIVED"
      => purchase[p].told = purchase[p].lines

(* A live recipe names only materials that are in stock-keeping: a removal *)
(* is refused while a recipe needs the material, a recipe while it is      *)
(* removed ("those would silently break", materials.service.ts remove).    *)
RecipesStayWhole ==
  \A k \in Kit \ crossed :
    Live(k) => kit[k].items # {} /\ \A m \in kit[k].items : material[m] = "listed"

(* A printed KIT QR keeps its recipe: one that was used is hidden, never   *)
(* erased ("so old work and printed labels still read right").             *)
LabelKeepsRecipe ==
  \A k \in Kit \ crossed :
    label[k] # "none" => kit[k].state \in {"live", "hidden"}
=============================================================================
