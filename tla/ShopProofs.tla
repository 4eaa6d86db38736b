----------------------------- MODULE ShopProofs -----------------------------
(***************************************************************************)
(* Proofs about Shop, for any chats, products and orders: an order is made *)
(* once and is whole, whatever overlaps.                                   *)
(***************************************************************************)
EXTENDS Shop, TLAPS

(* Every living draft has a number of its own; an order keeps the number   *)
(* of its draft, which no draft has any more unless it is being ended.     *)
Numbered ==
  /\ begun \in Nat
  /\ DOMAIN draft = Chat /\ DOMAIN order = Order
  /\ sending \in Chat \cup {Unchosen}
  /\ \A c \in Chat : /\ "number" \in DOMAIN draft[c]
                     /\ draft[c].number \in 0..begun
                     /\ draft[c].number = 0 => draft[c] = NoDraft
  /\ \A o \in Order : "draft" \in DOMAIN order[o] /\ order[o].draft \in 0..begun
  /\ \A c, d \in Chat : draft[c].number # 0 /\ draft[c].number = draft[d].number => c = d
  /\ \A c \in Chat, o \in Made : draft[c].number = order[o].draft => sending = c

ShopInv == Numbered /\ OrderedOnce

-----------------------------------------------------------------------------
(* What the bot keeps of one chat: it begins a draft under the next number *)
(* (StartOrder), goes on with the one it has, or forgets it.               *)
LEMMA DraftChanges ==
  ASSUME ShopInv, NEW c \in Chat, NEW d, draft' = [draft EXCEPT ![c] = d],
         UNCHANGED <<order, sending>>, "number" \in DOMAIN d,
         \/ d = NoDraft /\ begun' = begun
         \/ d.number = draft[c].number /\ draft[c].number # 0 /\ begun' = begun
         \/ d.number = begun + 1 /\ begun' = begun + 1
  PROVE  ShopInv'
<1>1. NoDraft.number = 0 /\ "number" \in DOMAIN NoDraft  BY DEF NoDraft
<1>2. begun \in Nat /\ begun' \in Nat  BY DEF ShopInv, Numbered
<1>3. /\ draft'[c] = d
      /\ \A e \in Chat : e # c => draft'[e] = draft[e]
      /\ DOMAIN draft' = Chat
  BY DEF ShopInv, Numbered
<1>4. d.number \in 0..begun' /\ (d.number = 0 => d = NoDraft)
  BY <1>1, <1>2 DEF ShopInv, Numbered
<1>5. \A e \in Chat : e # c /\ d.number # 0 => draft[e].number # d.number
  BY <1>1, <1>2 DEF ShopInv, Numbered
<1>6. \A o \in Made : d.number = order[o].draft => sending = c
  BY <1>1, <1>2 DEF ShopInv, Numbered, Made
<1>7. Made' = Made /\ OrderedOnce'  BY DEF ShopInv, Made, OrderedOnce
<1> QED  BY <1>2, <1>3, <1>4, <1>5, <1>6, <1>7 DEF ShopInv, Numbered

(* What staff, the site and the panel do to orders never touches the       *)
(* number of the draft an order was made from (UpdateCommit, FollowCommit, *)
(* CreateElsewhere).                                                       *)
LEMMA OrderKeepsItsDraft ==
  ASSUME ShopInv, UNCHANGED <<draft, begun, sending>>, NEW o, NEW row,
         o \in Order => "draft" \in DOMAIN row /\ row.draft = order[o].draft,
         order' = [order EXCEPT ![o] = row]
  PROVE  ShopInv'
<1>1. /\ DOMAIN order' = Order
      /\ \A n \in Order : "draft" \in DOMAIN order'[n] /\ order'[n].draft = order[n].draft
  BY DEF ShopInv, Numbered
<1>2. Made' = Made  BY <1>1 DEF Made
<1>3. OrderedOnce'  BY <1>1, <1>2 DEF ShopInv, OrderedOnce, Made
<1> QED  BY <1>1, <1>2, <1>3 DEF ShopInv, Numbered, Made

(* A step that leaves drafts and orders alone leaves the invariant.        *)
LEMMA NothingOrdered ==
  ASSUME ShopInv, UNCHANGED <<draft, begun, sending, order>>
  PROVE  ShopInv'
BY DEF ShopInv, Numbered, OrderedOnce, Made

-----------------------------------------------------------------------------
(* Every answer of a customer to the bot (ShopFlow.handle, callback).      *)
LEMMA AnswerKeeps ==
  ASSUME ShopInv, NEW c \in Chat, Answer(c)
  PROVE  ShopInv'
<1>1. NoDraft.number = 0 /\ "number" \in DOMAIN NoDraft /\ NoDraft.step = "none"  BY DEF NoDraft
<1>2. draft[c].step # "none" => draft[c].number # 0  BY <1>1 DEF ShopInv, Numbered
<1>3. CASE StartOrder(c)
  <2> DEFINE d == [NoDraft EXCEPT !.step = "product", !.number = begun']
  <2>1. "number" \in DOMAIN d /\ d.number = begun'  BY DEF NoDraft
  <2>2. /\ draft' = [draft EXCEPT ![c] = d] /\ begun' = begun + 1
        /\ UNCHANGED <<order, sending>>
    BY <1>3 DEF StartOrder, Keeps, InTheBot
  <2> HIDE DEF d
  <2> QED  BY <2>1, <2>2, DraftChanges
<1>4. CASE Forget(c)
  BY <1>1, <1>4, DraftChanges DEF Forget, Keeps, InTheBot
<1>5. ASSUME NEW p \in Product, ChooseProduct(c, p)  PROVE ShopInv'
  <2>1. "number" \in DOMAIN Chosen(draft[c], p) /\ Chosen(draft[c], p).number = draft[c].number
    BY DEF Chosen, NoDraft
  <2>2. draft[c].number # 0  BY <1>5 DEF ChooseProduct, ShopInv, Numbered
  <2>3. draft' = [draft EXCEPT ![c] = Chosen(draft[c], p)] /\ UNCHANGED <<order, sending, begun>>
    BY <1>5 DEF ChooseProduct, Keeps, InTheBot
  <2> QED  BY <2>1, <2>2, <2>3, DraftChanges
<1>6. ASSUME NEW d, draft' = [draft EXCEPT ![c] = d], UNCHANGED <<order, sending, begun>>,
             draft[c].step # "none", "number" \in DOMAIN d, d.number = draft[c].number
      PROVE  ShopInv'
  BY <1>2, <1>6, DraftChanges
<1>7. "number" \in DOMAIN draft[c]  BY DEF ShopInv, Numbered
<1>8. ASSUME NEW i \in Nat, TickColour(c, i)  PROVE ShopInv'
  <2>1. PICK list : draft' = [draft EXCEPT ![c] = [draft[c] EXCEPT !.picked = list]]
    BY <1>8 DEF TickColour, Keeps
  <2>2. draft[c].step = "color" /\ UNCHANGED <<order, sending, begun>>
    BY <1>8 DEF TickColour, At, InTheBot
  <2> QED  BY <2>1, <2>2, <1>6, <1>7
<1>9. CASE AnyColour(c)
  BY <1>9, <1>6, <1>7 DEF AnyColour, At, Keeps, InTheBot
<1>10. CASE ColoursDone(c)
  BY <1>10, <1>6, <1>7 DEF ColoursDone, At, Keeps, InTheBot
<1>11. CASE GiveQuantity(c)
  <2>1. "number" \in DOMAIN Measured(draft[c]) /\ Measured(draft[c]).number = draft[c].number
    BY <1>7 DEF Measured
  <2>2. /\ draft' = [draft EXCEPT ![c] = Measured(draft[c])]
        /\ draft[c].step = "qty" /\ UNCHANGED <<order, sending, begun>>
    BY <1>11 DEF GiveQuantity, At, Keeps, InTheBot
  <2> QED  BY <2>1, <2>2, <1>6
<1>12. CASE GiveName(c)
  BY <1>12, <1>6, <1>7 DEF GiveName, At, Keeps, InTheBot
<1>13. CASE ItIsMe(c)
  BY <1>13, <1>6, <1>7 DEF ItIsMe, At, Keeps, InTheBot
<1>14. CASE GivePhone(c)
  BY <1>14, <1>6, <1>7 DEF GivePhone, At, Keeps, InTheBot
<1>15. ASSUME NEW o \in Order, Confirm(c, o)  PROVE ShopInv'
  <2> DEFINE row == [status |-> "NEW", draft |-> draft[c].number, product |-> draft[c].product,
                     lines |-> draft[c].lines, chat |-> c, heard |-> "NEW"]
  <2>1. row.draft = draft[c].number /\ "draft" \in DOMAIN row  OBVIOUS
  <2>2. /\ order' = [order EXCEPT ![o] = row] /\ order[o].draft = 0
        /\ sending = Unchosen /\ sending' = c /\ UNCHANGED <<draft, begun>>
        /\ draft[c].step = "confirm"
    BY <1>15 DEF Confirm, Create, Exists, NoOrder, BotIsFree, At
  <2> HIDE DEF row
  <2>3. draft[c].number # 0 /\ Unchosen \notin Chat  BY <1>2, <2>2, ShopAssumption
  <2>4. \A n \in Made : order[n].draft # draft[c].number
    BY <2>2, <2>3 DEF ShopInv, Numbered
  <2>5. /\ DOMAIN order' = Order /\ order'[o] = row
        /\ \A n \in Order : n # o => order'[n] = order[n]
    BY <2>2 DEF ShopInv, Numbered
  <2>6. Made' = Made \cup {o}  BY <2>1, <2>3, <2>5 DEF Made
  <2>7. OrderedOnce'  BY <2>1, <2>2, <2>4, <2>5, <2>6 DEF ShopInv, OrderedOnce, Made
  <2>8. \A e \in Chat, n \in Made' : draft[e].number = order'[n].draft => sending' = e
    <3> TAKE e \in Chat, n \in Made'
    <3>1. CASE n = o  BY <3>1, <2>1, <2>2, <2>3, <2>5 DEF ShopInv, Numbered
    <3>2. CASE n # o
      BY <3>2, <2>2, <2>3, <2>5, <2>6 DEF ShopInv, Numbered
    <3> QED  BY <3>1, <3>2
  <2> QED  BY <2>1, <2>2, <2>5, <2>7, <2>8 DEF ShopInv, Numbered
<1> QED
  BY <1>3, <1>4, <1>5, <1>8, <1>9, <1>10, <1>11, <1>12, <1>13, <1>14, <1>15 DEF Answer

(* The end of a draft whose order is stored, and the death of the bot.     *)
LEMMA DraftsEnd ==
  ASSUME ShopInv, Confirmed \/ Dies
  PROVE  ShopInv'
<1>1. NoDraft.number = 0 /\ "number" \in DOMAIN NoDraft  BY DEF NoDraft
<1>2. Made' = Made /\ OrderedOnce'
  BY DEF Confirmed, Dies, Made, ShopInv, OrderedOnce
<1>3. CASE Confirmed
  <2>1. /\ sending \in Chat /\ sending' = Unchosen /\ UNCHANGED <<begun, order>>
        /\ draft' = [draft EXCEPT ![sending] = NoDraft]
    BY <1>3 DEF Confirmed, DropsDraft, Keeps, ShopInv, Numbered
  <2>2. /\ DOMAIN draft' = Chat /\ draft'[sending] = NoDraft
        /\ \A c \in Chat : c # sending => draft'[c] = draft[c]
    BY <2>1 DEF ShopInv, Numbered
  <2>3. \A c \in Chat, o \in Made : draft'[c].number = order[o].draft => FALSE
    BY <1>1, <2>1, <2>2 DEF ShopInv, Numbered, Made
  <2> QED  BY <1>1, <1>2, <2>1, <2>2, <2>3 DEF ShopInv, Numbered
<1>4. CASE Dies
  <2>1. /\ DOMAIN draft' = Chat /\ \A c \in Chat : draft'[c] = NoDraft
        /\ sending' = Unchosen /\ UNCHANGED <<begun, order>>
    BY <1>4 DEF Dies
  <2> QED  BY <1>1, <1>2, <2>1 DEF ShopInv, Numbered, Made
<1> QED  BY <1>3, <1>4

(* Every request about orders: following, deciding, updating.              *)
LEMMA ServeKeeps ==
  ASSUME ShopInv, NEW h \in Client, Serve(h)
  PROVE  ShopInv'
<1>1. ASSUME NEW c \in Chat, NEW o \in Order, FollowBegin(h, c, o)  PROVE ShopInv'
  <2>1. NoDraft.number = 0 /\ "number" \in DOMAIN NoDraft  BY DEF NoDraft
  <2>2. /\ draft' = [draft EXCEPT ![c] = NoDraft]
        /\ begun' = begun /\ UNCHANGED <<order, sending>>
    BY <1>1 DEF FollowBegin, Keeps
  <2> QED  BY <2>1, <2>2, DraftChanges
<1>2. CASE FollowCommit(h)
  <2> DEFINE o == inflight[h].order
             row == [order[o] EXCEPT !.chat = inflight[h].chat, !.heard = inflight[h].told]
  <2>1. o \in Order => "draft" \in DOMAIN row /\ row.draft = order[o].draft
    BY DEF ShopInv, Numbered
  <2>2. order' = [order EXCEPT ![o] = row] /\ UNCHANGED <<draft, begun, sending>>
    BY <1>2, Zenon DEF FollowCommit
  <2> HIDE DEF o, row
  <2> QED  BY <2>1, <2>2, OrderKeepsItsDraft
<1>3. CASE UpdateCommit(h)
  <2> DEFINE o == inflight[h].order
             to == IF inflight[h].to = Unchosen THEN order[o].status ELSE inflight[h].to
             row == Moved(order[o], to, inflight[h].before)
  <2>1. o \in Order => "draft" \in DOMAIN row /\ row.draft = order[o].draft
    BY DEF ShopInv, Numbered, Moved
  <2>2. order' = [order EXCEPT ![o] = row] /\ UNCHANGED <<draft, begun, sending>>
    BY <1>3, Zenon DEF UpdateCommit
  <2> HIDE DEF o, to, row
  <2> QED  BY <2>1, <2>2, OrderKeepsItsDraft
<1>4. ASSUME NEW o \in Order, NEW to, Decide(h, o, to) \/ UpdateBegin(h, o, to)  PROVE ShopInv'
  BY <1>4, NothingOrdered DEF Decide, UpdateBegin, shopVars
<1>5. CASE DecideGoesOn(h) \/ AbandonShop(h)
  BY <1>5, NothingOrdered DEF DecideGoesOn, AbandonShop, shopVars
<1> QED  BY <1>1, <1>2, <1>3, <1>4, <1>5 DEF Serve

(* Nobody has a draft and nothing is ordered when the shop opens.          *)
LEMMA ShopOpens ==
  ASSUME ShopInit
  PROVE  ShopInv
<1>1. NoDraft.number = 0 /\ "number" \in DOMAIN NoDraft  BY DEF NoDraft
<1>2. NoOrder.draft = 0 /\ "draft" \in DOMAIN NoOrder  BY DEF NoOrder
<1>3. /\ begun = 0 /\ sending = Unchosen
      /\ DOMAIN draft = Chat /\ \A c \in Chat : draft[c] = NoDraft
      /\ DOMAIN order = Order /\ \A o \in Order : order[o] = NoOrder
  BY DEF ShopInit
<1>4. Made = {}  BY <1>2, <1>3 DEF Made
<1> QED  BY <1>1, <1>2, <1>3, <1>4 DEF ShopInv, Numbered, OrderedOnce

(* Every step of the shop, of staff and of the bot's process.              *)
LEMMA ShopStepKeeps ==
  ASSUME ShopInv, [ShopNext]_<<shopVars, inflight>>
  PROVE  ShopInv'
<1>1. CASE UNCHANGED <<shopVars, inflight>>
  BY <1>1, NothingOrdered DEF shopVars
<1>2. ASSUME NEW o \in Order, CreateElsewhere(o)  PROVE ShopInv'
  <2> DEFINE row == [NoOrder EXCEPT !.status = "NEW"]
  <2>1. "draft" \in DOMAIN row /\ row.draft = 0  BY DEF NoOrder
  <2>2. order' = [order EXCEPT ![o] = row] /\ UNCHANGED <<draft, begun, sending>>
    BY <1>2 DEF CreateElsewhere, Create
  <2>3. order[o].draft = 0  BY <1>2 DEF CreateElsewhere, Create, Exists, NoOrder
  <2> HIDE DEF row
  <2> QED  BY <2>1, <2>2, <2>3, OrderKeepsItsDraft
<1>3. ASSUME NEW p \in Product, Publish(p) \/ Hide(p)  PROVE ShopInv'
  BY <1>3, NothingOrdered DEF Publish, Hide
<1> QED  BY <1>1, <1>2, <1>3, AnswerKeeps, DraftsEnd, ServeKeeps DEF ShopNext

(* What was begun once in the bot is ordered at most once: the draft ends  *)
(* with its order before the bot handles another update, and a restart     *)
(* between the two forgets every draft (ShopFlow, OrdersService.create).   *)
THEOREM OrdersAreMadeOnce == ShopSpec => []OrderedOnce
<1>1. ShopStart => ShopInv  BY ShopOpens DEF ShopStart
<1>2. ShopInv /\ [ShopNext]_<<shopVars, inflight>> => ShopInv'  BY ShopStepKeeps
<1>3. ShopInv => OrderedOnce  BY DEF ShopInv
<1> QED  BY <1>1, <1>2, <1>3, PTL DEF ShopSpec

-----------------------------------------------------------------------------
(*                       What is ordered is what was picked                *)

Draft == [step : {"none", "product", "color", "qty", "name", "phone", "confirm"},
          number : Nat, product : Product \cup {Unchosen},
          picked : Seq(Colour), lines : Seq(Colour), called : BOOLEAN, phoned : BOOLEAN]

(* Metres were given for the first colours, and one is still asked for.    *)
Priced(d) == /\ d.picked = <<>> => d.lines = <<>>
             /\ d.picked # <<>> => Len(d.lines) < Len(d.picked)
             /\ \A i \in 1..Len(d.lines) : d.lines[i] = d.picked[i]

(* What a draft holds at each of its steps.                                *)
Sound(d) ==
  /\ d \in Draft
  /\ d.step \notin {"none", "product"} =>
       d.product \in Product /\ d.picked \in InOrder(d.product, Ticked(d))
  /\ d.step = "color" => d.lines = <<>>
  /\ d.step = "qty" => Priced(d)
  /\ d.step \in {"name", "phone", "confirm"} => d.lines = d.picked
  /\ d.step = "phone" => d.called
  /\ d.step = "confirm" => d.called /\ d.phoned

WholeInv ==
  /\ begun \in Nat
  /\ DOMAIN draft = Chat /\ DOMAIN order = Order /\ sending \in Chat \cup {Unchosen}
  /\ \A c \in Chat : Sound(draft[c])
  /\ \A o \in Made : InCatalogOrder(order[o].product, order[o].lines)

(* An empty list lists no colours; any list is one of colours.             *)
LEMMA NothingTicked ==
  ASSUME NEW p \in Product
  PROVE  <<>> \in InOrder(p, {})
<1>1. <<>> \in [1..0 -> {}] /\ 0 \in 0..Len(Colours[p])
  BY ShopAssumption
<1>2. {<<>>[i] : i \in DOMAIN <<>>} = {}  OBVIOUS
<1> QED  BY <1>1, <1>2 DEF InOrder

(* What the catalog's order makes of some colours is a list of exactly     *)
(* these colours (draft.colors.filter).                                    *)
LEMMA ListsAreOfColours ==
  ASSUME NEW p \in Product, NEW chosen \in SUBSET Colour, NEW s \in InOrder(p, chosen)
  PROVE  s \in Seq(Colour) /\ {s[i] : i \in DOMAIN s} = chosen
<1>1. PICK n \in 0..Len(Colours[p]) : s \in [1..n -> chosen]  BY DEF InOrder
<1>2. n \in Nat  BY <1>1, ShopAssumption
<1>3. s \in Seq(chosen)  BY <1>1, <1>2
<1>4. s \in Seq(Colour)  BY <1>1, <1>2, <1>3
<1> QED  BY <1>4 DEF InOrder

(* No draft, no order and a new draft are what they look like.             *)
LEMMA Beginnings ==
  /\ Sound(NoDraft) /\ NoDraft.step = "none" /\ NoOrder.draft = 0
  /\ \A n \in Nat : Sound([NoDraft EXCEPT !.step = "product", !.number = n])
<1>1. NoDraft \in Draft  BY DEF NoDraft, Draft
<1>2. NoDraft.step = "none"  BY DEF NoDraft
<1>3. ASSUME NEW n \in Nat  PROVE Sound([NoDraft EXCEPT !.step = "product", !.number = n])
  <2> DEFINE d == [NoDraft EXCEPT !.step = "product", !.number = n]
  <2>1. d \in Draft  BY <1>1 DEF Draft
  <2>2. d.step = "product"  BY DEF NoDraft
  <2> HIDE DEF d
  <2>3. Sound(d)  BY <2>1, <2>2 DEF Sound
  <2> QED  BY <2>3 DEF d
<1> QED  BY <1>1, <1>2, <1>3 DEF Sound, NoOrder

(* A chat whose draft is replaced by a sound one, orders left alone.       *)
LEMMA SoundDraft ==
  ASSUME WholeInv, NEW c \in Chat, NEW d, Sound(d),
         draft' = [draft EXCEPT ![c] = d], begun' \in Nat, UNCHANGED <<order, sending>>
  PROVE  WholeInv'
<1>1. DOMAIN draft' = Chat /\ \A e \in Chat : draft'[e] = IF e = c THEN d ELSE draft[e]
  BY DEF WholeInv
<1>2. \A e \in Chat : Sound(draft'[e])  BY <1>1 DEF WholeInv
<1>3. Made' = Made  BY DEF Made
<1> QED  BY <1>1, <1>2, <1>3 DEF WholeInv

(* The answer of one product's button is a sound draft (callback: sh:p).   *)
LEMMA ChosenIsSound ==
  ASSUME NEW d \in Draft, NEW p \in Product
  PROVE  Sound(Chosen(d, p))
<1> DEFINE e == Chosen(d, p)
<1>1. /\ e.step = IF Colours[p] = <<>> THEN "qty" ELSE "color"
      /\ e.product = p /\ e.picked = <<>> /\ e.lines = <<>>
  BY DEF Chosen, NoDraft
<1>2. d.number \in Nat  BY DEF Draft
<1>3. NoDraft \in Draft  BY Beginnings DEF Sound
<1>4. e \in Draft  BY <1>2, <1>3 DEF Chosen, Draft
<1> HIDE DEF e
<1>5. Ticked(e) = {}  BY <1>1 DEF Ticked
<1>6. Priced(e)  BY <1>1 DEF Priced
<1>7. e.picked \in InOrder(p, {})  BY <1>1, NothingTicked
<1>8. Sound(e)  BY <1>1, <1>4, <1>5, <1>6, <1>7 DEF Sound
<1> QED  BY <1>8 DEF e

(* Metres for the next colour leave a sound draft: the last one makes the  *)
(* lines the colours that were picked (setQty).                            *)
LEMMA MeasuredIsSound ==
  ASSUME NEW d, Sound(d), d.step = "qty"
  PROVE  Sound(Measured(d))
<1>1. /\ d \in Draft /\ d.picked \in Seq(Colour) /\ d.lines \in Seq(Colour)
      /\ d.product \in Product /\ d.picked \in InOrder(d.product, Ticked(d)) /\ Priced(d)
  BY DEF Sound, Draft
<1>2. CASE d.picked = <<>>
  <2> DEFINE e == [d EXCEPT !.step = "name"]
  <2>1. e \in Draft /\ e.step = "name" /\ e.product = d.product
        /\ e.picked = d.picked /\ e.lines = d.lines
    BY <1>1 DEF Draft
  <2>2. Measured(d) = e  BY <1>2 DEF Measured
  <2>3. d.lines = d.picked  BY <1>1, <1>2 DEF Priced
  <2> HIDE DEF e
  <2>4. Ticked(e) = Ticked(d)  BY <2>1 DEF Ticked
  <2> QED  BY <1>1, <2>1, <2>2, <2>3, <2>4 DEF Sound
<1>3. CASE d.picked # <<>>
  <2> DEFINE more == NextLine(d)
             step == IF Len(more) < Len(d.picked) THEN "qty" ELSE "name"
             e == [d EXCEPT !.lines = more, !.step = step]
  <2>1. Len(d.lines) < Len(d.picked) /\ \A i \in 1..Len(d.lines) : d.lines[i] = d.picked[i]
    BY <1>1, <1>3 DEF Priced
  <2>2. d.picked[Len(d.lines) + 1] \in Colour  BY <1>1, <2>1
  <2>3. /\ more \in Seq(Colour) /\ Len(more) = Len(d.lines) + 1
        /\ \A i \in 1..Len(more) : more[i] = d.picked[i]
    BY <1>1, <2>1, <2>2 DEF NextLine
  <2> HIDE DEF more
  <2>4. /\ e \in Draft /\ e.step = step /\ e.product = d.product
        /\ e.picked = d.picked /\ e.lines = more
    BY <1>1, <2>3 DEF Draft
  <2>5. Measured(d) = e  BY <1>3 DEF Measured, more
  <2> HIDE DEF e
  <2>6. Ticked(e) = Ticked(d)  BY <2>4 DEF Ticked
  <2>7. CASE Len(more) < Len(d.picked)
    <3>1. Priced(e)  BY <1>3, <2>3, <2>4, <2>7 DEF Priced
    <3> QED  BY <1>1, <2>4, <2>5, <2>6, <2>7, <3>1 DEF Sound
  <2>8. CASE ~(Len(more) < Len(d.picked))
    <3>1. Len(more) = Len(d.picked)  BY <1>1, <2>1, <2>3, <2>8
    <3>2. more = d.picked  BY <1>1, <2>3, <3>1
    <3> QED  BY <1>1, <2>4, <2>5, <2>6, <2>8, <3>2 DEF Sound
  <2> QED  BY <2>7, <2>8
<1> QED  BY <1>2, <1>3

(* Once the colours have their metres, only the name, the phone and the    *)
(* step change.                                                            *)
LEMMA LastAnswers ==
  ASSUME NEW d, Sound(d), d.step \in {"name", "phone"}, NEW e \in Draft,
         e.product = d.product, e.picked = d.picked, e.lines = d.lines,
         \/ e.step = "phone" /\ e.called
         \/ e.step = "confirm" /\ e.called /\ e.phoned
  PROVE  Sound(e)
<1>1. Ticked(e) = Ticked(d)  BY DEF Ticked
<1>2. /\ d.product \in Product /\ d.picked \in InOrder(d.product, Ticked(d))
      /\ d.lines = d.picked
  BY DEF Sound
<1> QED  BY <1>1, <1>2 DEF Sound

(* A colour is ticked or unticked, in the list of the draft's own product  *)
(* (callback: sh:c).                                                       *)
LEMMA TickIsSound ==
  ASSUME NEW d, Sound(d), d.step = "color", NEW i \in DOMAIN Colours[d.product],
         NEW list \in InOrder(d.product, Toggled(Ticked(d), Colours[d.product][i]))
  PROVE  Sound([d EXCEPT !.picked = list])
<1> DEFINE p == d.product
           chosen == Toggled(Ticked(d), Colours[p][i])
           e == [d EXCEPT !.picked = list]
<1>1. d \in Draft /\ p \in Product /\ d.lines = <<>>  BY DEF Sound
<1>2. Ticked(d) \subseteq Colour  BY <1>1 DEF Ticked, Draft
<1>3. Colours[p][i] \in Colour  BY <1>1, ShopAssumption
<1>4. chosen \in SUBSET Colour  BY <1>2, <1>3 DEF Toggled
<1>5. list \in Seq(Colour) /\ {list[k] : k \in DOMAIN list} = chosen
  BY <1>1, <1>4, ListsAreOfColours
<1>6. /\ e \in Draft /\ e.step = "color" /\ e.product = p
      /\ e.picked = list /\ e.lines = <<>>
  BY <1>1, <1>5 DEF Draft
<1>7. list \in InOrder(p, chosen)  OBVIOUS
<1> HIDE DEF e
<1>8. Ticked(e) = chosen  BY <1>5, <1>6 DEF Ticked
<1>9. Sound(e)  BY <1>1, <1>6, <1>7, <1>8 DEF Sound
<1> QED  BY <1>9 DEF e

(* Every answer of a customer leaves her draft sound, and stores what it   *)
(* holds (ShopFlow.callback, handle).                                      *)
LEMMA AnswerIsWhole ==
  ASSUME WholeInv, NEW c \in Chat, Answer(c)
  PROVE  WholeInv'
<1> DEFINE d == draft[c]
<1>1. /\ Sound(d) /\ d \in Draft /\ d.product \in Product \cup {Unchosen}
      /\ d.picked \in Seq(Colour) /\ d.lines \in Seq(Colour) /\ begun \in Nat
  BY DEF WholeInv, Sound, Draft
<1>2. ASSUME NEW e, Sound(e), draft' = [draft EXCEPT ![c] = e],
             UNCHANGED <<order, sending, begun>>
      PROVE  WholeInv'
  BY <1>1, <1>2, SoundDraft
<1>3. CASE StartOrder(c)
  <2>1. /\ draft' = [draft EXCEPT ![c] = [NoDraft EXCEPT !.step = "product", !.number = begun']]
        /\ begun' \in Nat /\ UNCHANGED <<order, sending>>
    BY <1>1, <1>3 DEF StartOrder, Keeps, InTheBot
  <2> QED  BY <2>1, Beginnings, SoundDraft
<1>4. CASE Forget(c)
  BY <1>2, <1>4, Beginnings DEF Forget, Keeps, InTheBot
<1>5. ASSUME NEW p \in Product, ChooseProduct(c, p)  PROVE WholeInv'
  BY <1>1, <1>2, <1>5, ChosenIsSound DEF ChooseProduct, Keeps, InTheBot
<1>6. ASSUME NEW i \in Nat, TickColour(c, i)  PROVE WholeInv'
  <2>1. PICK list \in InOrder(d.product, Toggled(Ticked(d), Colours[d.product][i])) :
          draft' = [draft EXCEPT ![c] = [d EXCEPT !.picked = list]]
    BY <1>6 DEF TickColour, Keeps
  <2>2. d.step = "color" /\ i \in DOMAIN Colours[d.product] /\ UNCHANGED <<order, sending, begun>>
    BY <1>6 DEF TickColour, At, InTheBot
  <2>3. Sound([d EXCEPT !.picked = list])  BY <1>1, <2>2, TickIsSound
  <2> QED  BY <1>2, <2>1, <2>2, <2>3
<1>7. CASE AnyColour(c)
  <2> DEFINE e == [d EXCEPT !.picked = <<>>, !.lines = <<>>, !.step = "qty"]
  <2>1. d.step = "color" /\ draft' = [draft EXCEPT ![c] = e] /\ UNCHANGED <<order, sending, begun>>
    BY <1>7 DEF AnyColour, At, Keeps, InTheBot
  <2>2. /\ e \in Draft /\ e.step = "qty" /\ e.product = d.product
        /\ e.picked = <<>> /\ e.lines = <<>>
    <3>1. <<>> \in Seq(Colour)  OBVIOUS
    <3> QED  BY <1>1, <3>1 DEF Draft
  <2>3. d.product \in Product  BY <1>1, <2>1 DEF Sound
  <2> HIDE DEF e
  <2>4. Ticked(e) = {} /\ Priced(e)  BY <2>2 DEF Ticked, Priced
  <2>5. Sound(e)  BY <2>2, <2>3, <2>4, NothingTicked DEF Sound
  <2> QED  BY <1>2, <2>1, <2>5
<1>8. CASE ColoursDone(c)
  <2> DEFINE e == [d EXCEPT !.lines = <<>>, !.step = "qty"]
  <2>1. /\ d.step = "color" /\ d.picked # <<>>
        /\ draft' = [draft EXCEPT ![c] = e] /\ UNCHANGED <<order, sending, begun>>
    BY <1>8 DEF ColoursDone, At, Keeps, InTheBot
  <2>2. /\ e \in Draft /\ e.step = "qty" /\ e.product = d.product
        /\ e.picked = d.picked /\ e.lines = <<>>
    <3>1. <<>> \in Seq(Colour)  OBVIOUS
    <3> QED  BY <1>1, <3>1 DEF Draft
  <2>3. d.product \in Product /\ d.picked \in InOrder(d.product, Ticked(d))
    BY <1>1, <2>1 DEF Sound
  <2>4. Len(d.picked) > 0  BY <1>1, <2>1
  <2> HIDE DEF e
  <2>5. Ticked(e) = Ticked(d) /\ Priced(e)  BY <2>1, <2>2, <2>4 DEF Ticked, Priced
  <2>6. Sound(e)  BY <2>2, <2>3, <2>5 DEF Sound
  <2> QED  BY <1>2, <2>1, <2>6
<1>9. CASE GiveQuantity(c)
  BY <1>1, <1>2, <1>9, MeasuredIsSound DEF GiveQuantity, At, Keeps, InTheBot
<1>10. CASE GiveName(c)
  <2> DEFINE e == [d EXCEPT !.called = TRUE, !.step = "phone"]
  <2>1. d.step = "name" /\ draft' = [draft EXCEPT ![c] = e] /\ UNCHANGED <<order, sending, begun>>
    BY <1>10 DEF GiveName, At, Keeps, InTheBot
  <2>2. /\ e \in Draft /\ e.step = "phone" /\ e.called /\ e.product = d.product
        /\ e.picked = d.picked /\ e.lines = d.lines
    BY <1>1 DEF Draft
  <2> HIDE DEF e
  <2> QED  BY <1>1, <1>2, <2>1, <2>2, LastAnswers
<1>11. CASE ItIsMe(c)
  <2> DEFINE e == [d EXCEPT !.called = TRUE, !.phoned = TRUE, !.step = "confirm"]
  <2>1. d.step = "name" /\ draft' = [draft EXCEPT ![c] = e] /\ UNCHANGED <<order, sending, begun>>
    BY <1>11 DEF ItIsMe, At, Keeps, InTheBot
  <2>2. /\ e \in Draft /\ e.step = "confirm" /\ e.called /\ e.phoned
        /\ e.product = d.product /\ e.picked = d.picked /\ e.lines = d.lines
    BY <1>1 DEF Draft
  <2> HIDE DEF e
  <2> QED  BY <1>1, <1>2, <2>1, <2>2, LastAnswers
<1>12. CASE GivePhone(c)
  <2> DEFINE e == [d EXCEPT !.phoned = TRUE, !.step = "confirm"]
  <2>1. d.step = "phone" /\ draft' = [draft EXCEPT ![c] = e] /\ UNCHANGED <<order, sending, begun>>
    BY <1>12 DEF GivePhone, At, Keeps, InTheBot
  <2>2. /\ e \in Draft /\ e.step = "confirm" /\ e.phoned /\ e.called = d.called
        /\ e.product = d.product /\ e.picked = d.picked /\ e.lines = d.lines
    BY <1>1 DEF Draft
  <2>3. d.called  BY <1>1, <2>1 DEF Sound
  <2> HIDE DEF e
  <2> QED  BY <1>1, <1>2, <2>1, <2>2, <2>3, LastAnswers
<1>13. ASSUME NEW o \in Order, Confirm(c, o)  PROVE WholeInv'
  <2> DEFINE row == [status |-> "NEW", draft |-> d.number, product |-> d.product,
                     lines |-> d.lines, chat |-> c, heard |-> "NEW"]
  <2>1. /\ order' = [order EXCEPT ![o] = row] /\ sending' = c /\ UNCHANGED <<draft, begun>>
        /\ d.step = "confirm"
    BY <1>13 DEF Confirm, Create, At
  <2>2. row.product = d.product /\ row.lines = d.lines  OBVIOUS
  <2> HIDE DEF row
  <2>3. d.product \in Product /\ d.lines \in InOrder(d.product, Ticked(d))
    BY <1>1, <2>1 DEF Sound
  <2>4. Ticked(d) \in SUBSET Colour  BY <1>1 DEF Ticked
  <2>5. InCatalogOrder(row.product, row.lines)  BY <2>2, <2>3, <2>4 DEF InCatalogOrder
  <2>6. DOMAIN order' = Order /\ order'[o] = row /\ \A n \in Order : n # o => order'[n] = order[n]
    BY <2>1 DEF WholeInv
  <2>7. \A n \in Made' : InCatalogOrder(order'[n].product, order'[n].lines)
    BY <2>5, <2>6 DEF WholeInv, Made
  <2> QED  BY <2>1, <2>6, <2>7 DEF WholeInv
<1> QED
  BY <1>3, <1>4, <1>5, <1>6, <1>7, <1>8, <1>9, <1>10, <1>11, <1>12, <1>13 DEF Answer

(* What staff, the site and the panel do to orders changes no line of one  *)
(* that was made in the bot.                                               *)
LEMMA OrderKeepsItsLines ==
  ASSUME WholeInv, UNCHANGED <<draft, begun, sending>>, NEW o, NEW row,
         o \in Order => \/ row.draft = 0
                        \/ /\ row.draft = order[o].draft
                           /\ row.product = order[o].product /\ row.lines = order[o].lines,
         order' = [order EXCEPT ![o] = row]
  PROVE  WholeInv'
<1>1. DOMAIN order' = Order /\ \A n \in Order : order'[n] = IF n = o THEN row ELSE order[n]
  BY DEF WholeInv
<1>2. \A n \in Made' : InCatalogOrder(order'[n].product, order'[n].lines)
  BY <1>1 DEF WholeInv, Made
<1> QED  BY <1>1, <1>2 DEF WholeInv

(* A step that leaves drafts and orders alone.                             *)
LEMMA NothingPicked ==
  ASSUME WholeInv, UNCHANGED <<draft, begun, sending, order>>
  PROVE  WholeInv'
BY DEF WholeInv, Made

(* Every step of staff about an order, and of the customer who follows it. *)
LEMMA ServeIsWhole ==
  ASSUME WholeInv, NEW h \in Client, Serve(h)
  PROVE  WholeInv'
<1>1. ASSUME NEW c \in Chat, NEW o \in Order, FollowBegin(h, c, o)  PROVE WholeInv'
  <2>1. draft' = [draft EXCEPT ![c] = NoDraft] /\ UNCHANGED <<begun, order, sending>>
    BY <1>1 DEF FollowBegin, Keeps
  <2> QED  BY <2>1, Beginnings, SoundDraft DEF WholeInv
<1>2. CASE FollowCommit(h)
  <2> DEFINE o == inflight[h].order
             row == [order[o] EXCEPT !.chat = inflight[h].chat, !.heard = inflight[h].told]
  <2>1. row.draft = order[o].draft /\ row.product = order[o].product /\ row.lines = order[o].lines
    OBVIOUS
  <2>2. order' = [order EXCEPT ![o] = row] /\ UNCHANGED <<draft, begun, sending>>
    BY <1>2, Zenon DEF FollowCommit
  <2> HIDE DEF o, row
  <2> QED  BY <2>1, <2>2, OrderKeepsItsLines
<1>3. CASE UpdateCommit(h)
  <2> DEFINE o == inflight[h].order
             to == IF inflight[h].to = Unchosen THEN order[o].status ELSE inflight[h].to
             row == Moved(order[o], to, inflight[h].before)
  <2>1. row.draft = order[o].draft /\ row.product = order[o].product /\ row.lines = order[o].lines
    BY DEF Moved
  <2>2. order' = [order EXCEPT ![o] = row] /\ UNCHANGED <<draft, begun, sending>>
    BY <1>3, Zenon DEF UpdateCommit
  <2> HIDE DEF o, to, row
  <2> QED  BY <2>1, <2>2, OrderKeepsItsLines
<1>4. ASSUME NEW o \in Order, NEW to, Decide(h, o, to) \/ UpdateBegin(h, o, to)
      PROVE  WholeInv'
  BY <1>4, NothingPicked DEF Decide, UpdateBegin, shopVars
<1>5. CASE DecideGoesOn(h) \/ AbandonShop(h)
  BY <1>5, NothingPicked DEF DecideGoesOn, AbandonShop, shopVars
<1> QED  BY <1>1, <1>2, <1>3, <1>4, <1>5 DEF Serve

(* Every step of the shop.                                                 *)
LEMMA WholeStepKeeps ==
  ASSUME WholeInv, [ShopNext]_<<shopVars, inflight>>
  PROVE  WholeInv'
<1>1. CASE UNCHANGED <<shopVars, inflight>>
  BY <1>1, NothingPicked DEF shopVars
<1>2. ASSUME NEW o \in Order, CreateElsewhere(o)  PROVE WholeInv'
  <2> DEFINE row == [NoOrder EXCEPT !.status = "NEW"]
  <2>1. row.draft = 0  BY DEF NoOrder
  <2>2. order' = [order EXCEPT ![o] = row] /\ UNCHANGED <<draft, begun, sending>>
    BY <1>2 DEF CreateElsewhere, Create
  <2> HIDE DEF row
  <2> QED  BY <2>1, <2>2, OrderKeepsItsLines
<1>3. ASSUME NEW p \in Product, Publish(p) \/ Hide(p)  PROVE WholeInv'
  BY <1>3, NothingPicked DEF Publish, Hide
<1>4. CASE Confirmed
  <2>1. /\ sending \in Chat /\ draft' = [draft EXCEPT ![sending] = NoDraft]
        /\ sending' = Unchosen /\ UNCHANGED <<begun, order>>
    BY <1>4 DEF Confirmed, DropsDraft, Keeps, WholeInv
  <2>2. DOMAIN draft' = Chat /\ \A c \in Chat : Sound(draft'[c])
    BY <2>1, Beginnings DEF WholeInv
  <2> QED  BY <2>1, <2>2 DEF WholeInv, Made
<1>5. CASE Dies
  <2>1. DOMAIN draft' = Chat /\ \A c \in Chat : Sound(draft'[c])
    BY <1>5, Beginnings DEF Dies
  <2> QED  BY <1>5, <2>1 DEF Dies, WholeInv, Made
<1> QED  BY <1>1, <1>2, <1>3, <1>4, <1>5, AnswerIsWhole, ServeIsWhole DEF ShopNext

(* Nobody has a draft and nothing is ordered when the shop opens.          *)
LEMMA WholeInitially ==
  ASSUME ShopInit
  PROVE  WholeInv
<1>1. /\ begun = 0 /\ sending = Unchosen
      /\ DOMAIN draft = Chat /\ \A c \in Chat : draft[c] = NoDraft
      /\ DOMAIN order = Order /\ \A o \in Order : order[o] = NoOrder
  BY DEF ShopInit
<1>2. Made = {}  BY <1>1, Beginnings DEF Made
<1> QED  BY <1>1, <1>2, Beginnings DEF WholeInv

(* What the customer is shown and what is stored is what she picked, with  *)
(* a name and a phone, whichever buttons of older messages she presses and *)
(* whenever the process dies (ShopFlow.callback, setQty).                  *)
THEOREM OrdersAreWhole == ShopSpec => []OrderIsWhole
<1>1. ShopStart => WholeInv  BY WholeInitially DEF ShopStart
<1>2. WholeInv /\ [ShopNext]_<<shopVars, inflight>> => WholeInv'  BY WholeStepKeeps
<1>3. WholeInv => OrderIsWhole  BY DEF WholeInv, OrderIsWhole, Sound
<1> QED  BY <1>1, <1>2, <1>3, PTL DEF ShopSpec
=============================================================================
