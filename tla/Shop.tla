-------------------------------- MODULE Shop --------------------------------
(***************************************************************************)
(* Customer orders.  A customer answers the shop bot step by step; the     *)
(* draft is kept in the memory of the one process that runs the bot and is *)
(* gone when it restarts.  Orders also come from the site and the panel;   *)
(* staff moves them on while the customer's chat hears about it.           *)
(*                                                                         *)
(* grammY hands the bot its updates one after another: between the row of  *)
(* an order and the end of its draft no other update is handled, yet the   *)
(* process may die.  Metres, names and phones are left out: each is asked  *)
(* once and only copied.                                                   *)
(***************************************************************************)
EXTENDS Naturals, Sequences, FiniteSets, Handlers

CONSTANTS Chat,         \* customers' chats with the shop bot
          Product, Colour,
          Colours,      \* Colours[p]: the colours of p in the catalog's order
          Order,        \* ids of orders: a bound on how many are made
          Status,       \* NEW, CONFIRMED, CANCELLED (and IN_WORK, DONE)
          Unchosen,     \* no product, no chat, no status told
          MaxDrafts     \* bound: orders begun in the bot

\* The colours of a product differ: unique (modelId, colorId), unique name.
ASSUME ShopAssumption == /\ Colours \in [Product -> Seq(Colour)]
                         /\ \A p \in Product : \A i, j \in DOMAIN Colours[p] :
                              Colours[p][i] = Colours[p][j] => i = j
                         /\ {"NEW", "CONFIRMED", "CANCELLED"} \subseteq Status
                         /\ Unchosen \notin Product \cup Chat \cup Status
                         /\ MaxDrafts \in Nat

VARIABLES published,    \* products in the catalog
          draft,        \* drafts (ShopFlow): of each chat
          begun,        \* how many orders were begun in the bot: numbers the drafts
          sending,      \* the chat whose order is stored and its draft not yet deleted
          order         \* client_orders

shopVars == <<published, draft, begun, sending, order>>

NoDraft == [step |-> "none", number |-> 0, product |-> Unchosen, picked |-> <<>>,
            lines |-> <<>>, called |-> FALSE, phoned |-> FALSE]
NoOrder == [status |-> Unchosen, draft |-> 0, product |-> Unchosen, lines |-> <<>>,
            chat |-> Unchosen, heard |-> Unchosen]

ShopInit == /\ published = Product
            /\ draft = [c \in Chat |-> NoDraft]
            /\ begun = 0
            /\ sending = Unchosen
            /\ order = [o \in Order |-> NoOrder]

Exists(o) == order[o] # NoOrder
Following(h) == Running(h, "follow")
BotIsFree == sending = Unchosen /\ \A h \in Client : ~Following(h)
\* No update of the shop bot is half done, nothing but the draft is touched.
InTheBot == BotIsFree /\ UNCHANGED <<published, sending, order, inflight>>
Precedes(p, x, y) ==
  \E i, j \in DOMAIN Colours[p] : i < j /\ Colours[p][i] = x /\ Colours[p][j] = y
Keeps(c, d) == draft' = [draft EXCEPT ![c] = d]
At(c, step) == draft[c].step = step
\* The colours that are ticked, as the catalog orders them: one list.
InOrder(p, chosen) ==
  {s \in UNION {[1..n -> chosen] : n \in 0..Len(Colours[p])} :
     /\ {s[i] : i \in DOMAIN s} = chosen
     /\ \A i, j \in DOMAIN s : i < j => Precedes(p, s[i], s[j])}
Ticked(d) == {d.picked[i] : i \in DOMAIN d.picked}

-----------------------------------------------------------------------------
(*                       ShopFlow: one chat, one draft                     *)

\* «Заказать», also pressed under an old message: whatever was begun is over.
StartOrder(c) ==
  /\ published # {} /\ begun < MaxDrafts
  /\ begun' = begun + 1
  /\ Keeps(c, [NoDraft EXCEPT !.step = "product", !.number = begun'])
  /\ InTheBot

\* /start, /cancel, «Отмена», or an hour without an answer.
Forget(c) == draft[c] # NoDraft /\ Keeps(c, NoDraft) /\ InTheBot /\ UNCHANGED begun

ChosenKeeps(d, p) ==                                        \* mutant: what was ticked stays
  [d EXCEPT !.step = IF Colours[p] = <<>> THEN "qty" ELSE "color", !.product = p, !.lines = <<>>]
Chosen(d, p) ==
  [NoDraft EXCEPT !.step = IF Colours[p] = <<>> THEN "qty" ELSE "color",
                  !.number = d.number, !.product = p]

\* The button of a product works at every step of a living draft.
ChooseProduct(c, p) == /\ draft[c] # NoDraft /\ p \in published
                       /\ Keeps(c, Chosen(draft[c], p))
                       /\ InTheBot /\ UNCHANGED begun

Toggled(chosen, x) == IF x \in chosen THEN chosen \ {x} ELSE chosen \cup {x}

\* A button names its colour by position, in the list of this draft.
TickColour(c, i) ==
  /\ At(c, "color") /\ i \in DOMAIN Colours[draft[c].product]
  /\ LET p == draft[c].product
     IN \E list \in InOrder(p, Toggled(Ticked(draft[c]), Colours[p][i])) :
          Keeps(c, [draft[c] EXCEPT !.picked = list])
  /\ InTheBot /\ UNCHANGED begun

\* «Ещё не знаю».
AnyColour(c) == /\ At(c, "color")
                /\ Keeps(c, [draft[c] EXCEPT !.picked = <<>>, !.lines = <<>>, !.step = "qty"])
                /\ InTheBot /\ UNCHANGED begun

ColoursDone(c) == /\ At(c, "color") /\ draft[c].picked # <<>>
                  /\ Keeps(c, [draft[c] EXCEPT !.lines = <<>>, !.step = "qty"])
                  /\ InTheBot /\ UNCHANGED begun

NextLine(d) == Append(d.lines, d.picked[Len(d.lines) + 1])
Measured(d) ==
  IF d.picked = <<>> THEN [d EXCEPT !.step = "name"]
  ELSE [d EXCEPT !.lines = NextLine(d),
                 !.step = IF Len(NextLine(d)) < Len(d.picked) THEN "qty" ELSE "name"]

\* Metres for one colour (or for the whole), typed or skipped.
GiveQuantity(c) == At(c, "qty") /\ Keeps(c, Measured(draft[c])) /\ InTheBot /\ UNCHANGED begun

GiveName(c) == /\ At(c, "name")
               /\ Keeps(c, [draft[c] EXCEPT !.called = TRUE, !.step = "phone"])
               /\ InTheBot /\ UNCHANGED begun

\* «Это я»: name and phone of the last order this chat follows.
ItIsMe(c) == /\ At(c, "name") /\ \E o \in Order : Exists(o) /\ order[o].chat = c
             /\ Keeps(c, [draft[c] EXCEPT !.called = TRUE, !.phoned = TRUE, !.step = "confirm"])
             /\ InTheBot /\ UNCHANGED begun

GivePhone(c) == /\ At(c, "phone")
                /\ Keeps(c, [draft[c] EXCEPT !.phoned = TRUE, !.step = "confirm"])
                /\ InTheBot /\ UNCHANGED begun

-----------------------------------------------------------------------------
(*                              The orders                                 *)

Create(o, row) == ~Exists(o) /\ order' = [order EXCEPT ![o] = row]

\* «Отправить заказ», first half: create.  Refused if the product was hidden
\* meanwhile; the draft then stays and the customer gets no answer.
Confirm(c, o) ==
  /\ BotIsFree /\ At(c, "confirm") /\ draft[c].product \in published
  /\ Create(o, [status |-> "NEW", draft |-> draft[c].number, product |-> draft[c].product,
                lines |-> draft[c].lines, chat |-> c, heard |-> "NEW"])
  /\ sending' = c
  /\ UNCHANGED <<published, draft, begun, inflight>>

KeepsDraft == UNCHANGED draft                               \* mutant: the draft stays
DropsDraft == Keeps(sending, NoDraft)

\* Second half: the draft is deleted, the customer thanked.
Confirmed == /\ sending # Unchosen
             /\ DropsDraft
             /\ sending' = Unchosen
             /\ UNCHANGED <<published, begun, order, inflight>>

\* An order of the site or the panel: nobody follows it in the bot yet.
CreateElsewhere(o) ==
  /\ Create(o, [NoOrder EXCEPT !.status = "NEW"])
  /\ UNCHANGED <<published, draft, begun, sending, inflight>>

\* «Следить в Telegram»: the chat is told how things stand as the order was
\* read, and is entered by a second statement.
FollowBegin(h, c, o) ==
  /\ BotIsFree /\ Exists(o) /\ order[o].draft = 0
  /\ Start(h, [op |-> "follow", order |-> o, chat |-> c, told |-> order[o].status])
  /\ Keeps(c, NoDraft)
  /\ UNCHANGED <<published, begun, sending, order>>

FollowCommit(h) ==
  /\ Following(h)
  /\ order' = [order EXCEPT ![inflight[h].order] =
                 [@ EXCEPT !.chat = inflight[h].chat, !.heard = inflight[h].told]]
  /\ Finish(h)
  /\ UNCHANGED <<published, draft, begun, sending>>

\* The owner's buttons: only while the order is new - as decide reads it.
\* They reach the other bot, which handles one update at a time as well.
ByButton(h) == Running(h, "decide") \/ (Running(h, "update") /\ inflight[h].button)

Decide(h, o, to) ==
  /\ \A g \in Client : ~ByButton(g)
  /\ Exists(o) /\ order[o].status = "NEW" /\ to \in {"CONFIRMED", "CANCELLED"}
  /\ Start(h, [op |-> "decide", order |-> o, to |-> to])
  /\ UNCHANGED shopVars

\* update reads the order once more, before its transaction; a note alone
\* (to = Unchosen) leaves the status as it will be found.
Reads(o, to, button) == [op |-> "update", order |-> o, to |-> to, button |-> button,
                         before |-> order[o].status]

UpdateBegin(h, o, to) ==
  /\ Exists(o)
  /\ Start(h, Reads(o, to, FALSE))
  /\ UNCHANGED shopVars

DecideGoesOn(h) ==
  /\ Running(h, "decide")
  /\ inflight' = [inflight EXCEPT ![h] = Reads(inflight[h].order, inflight[h].to, TRUE)]
  /\ UNCHANGED shopVars

\* STEP_TEXT: the step is told if the status is another than the one read before.
Told(to, before, chat) == to \notin {"NEW", before} /\ chat # Unchosen

Moved(row, to, before) ==
  [row EXCEPT !.status = to, !.heard = IF Told(to, before, row.chat) THEN to ELSE row.heard]

UpdateCommit(h) ==
  /\ Running(h, "update")
  /\ LET o == inflight[h].order
         to == IF inflight[h].to = Unchosen THEN order[o].status ELSE inflight[h].to
     IN order' = [order EXCEPT ![o] = Moved(order[o], to, inflight[h].before)]
  /\ Finish(h)
  /\ UNCHANGED <<published, draft, begun, sending>>

Publish(p) == /\ published' = (published \cup {p})
              /\ p \notin published
              /\ UNCHANGED <<draft, begun, sending, order, inflight>>
Hide(p) == /\ p \in published /\ published' = published \ {p}
           /\ UNCHANGED <<draft, begun, sending, order, inflight>>

\* The process of the bot dies, or is replaced by a deploy: drafts are lost,
\* the update it was handling will come once more.
Dies == /\ draft' = [c \in Chat |-> NoDraft]
        /\ sending' = Unchosen
        /\ inflight' = [h \in Client |-> IF Following(h) THEN NoHandler ELSE inflight[h]]
        /\ UNCHANGED <<published, begun, order>>

AbandonShop(h) == Abandon(h) /\ UNCHANGED shopVars

Answer(c) ==
  \/ StartOrder(c) \/ Forget(c) \/ AnyColour(c) \/ ColoursDone(c)
  \/ GiveQuantity(c) \/ GiveName(c) \/ ItIsMe(c) \/ GivePhone(c)
  \/ \E p \in Product : ChooseProduct(c, p)
  \/ \E i \in 1..Cardinality(Colour) : TickColour(c, i)
  \/ \E o \in Order : Confirm(c, o)

Serve(h) ==
  \/ \E o \in Order : \/ \E c \in Chat : FollowBegin(h, c, o)
                      \/ \E to \in Status : Decide(h, o, to)
                      \/ \E to \in Status \cup {Unchosen} : UpdateBegin(h, o, to)
  \/ FollowCommit(h) \/ DecideGoesOn(h) \/ UpdateCommit(h) \/ AbandonShop(h)

ShopNext ==
  \/ \E c \in Chat : Answer(c)
  \/ Confirmed \/ Dies
  \/ \E h \in Client : Serve(h)
  \/ \E o \in Order : CreateElsewhere(o)
  \/ \E p \in Product : Publish(p) \/ Hide(p)

ShopStart == ShopInit /\ HandlersInit

ShopSpec == ShopStart /\ [][ShopNext]_<<shopVars, inflight>>

-----------------------------------------------------------------------------
Made == {o \in Order : order[o].draft # 0}
InCatalogOrder(p, lines) == \E chosen \in SUBSET Colour : lines \in InOrder(p, chosen)

ShopTypeOK ==
  /\ published \subseteq Product /\ begun \in Nat /\ sending \in Chat \cup {Unchosen}
  /\ \A c \in Chat : draft[c].product \in Product \cup {Unchosen}
  /\ \A o \in Order : order[o].chat \in Chat \cup {Unchosen}

(* What the customer is shown and what is stored is what she picked: every *)
(* ticked colour of that product once, in the catalog's order, with a name *)
(* and a phone - whichever buttons of older messages she presses.          *)
OrderIsWhole ==
  /\ \A c \in Chat : draft[c].step \in {"name", "phone", "confirm"} =>
       /\ draft[c].lines = draft[c].picked
       /\ draft[c].step = "confirm" => draft[c].called /\ draft[c].phoned
  /\ \A o \in Made : InCatalogOrder(order[o].product, order[o].lines)

(* "never twice" (orders.spec.ts): what was begun once is ordered at most  *)
(* once, also when the process dies between the order and its answer.      *)
OrderedOnce == \A o, n \in Made : order[o].draft = order[n].draft => o = n

(* "a customer with the bot hears about each step" (orders.service.ts:40): *)
(* with no request under way she was last told how her order stands, but   *)
(* for one set back to NEW.  The code does not keep it, so no run checks   *)
(* it: a step that commits between the two reads of another update, or     *)
(* between the two statements of follow, is not told.                      *)
LastStepHeard ==
  inflight = [h \in Client |-> NoHandler] =>
    \A o \in Order : order[o].chat # Unchosen /\ order[o].status # "NEW" =>
      order[o].heard = order[o].status
=============================================================================
