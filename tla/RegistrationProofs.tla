------------------------- MODULE RegistrationProofs -------------------------
(***************************************************************************)
(* Proofs about Registration.  The invariant says what every question may  *)
(* rely on (Sound), that only strangers have a questionnaire, and what a   *)
(* request of the staff still knows when it commits.                       *)
(***************************************************************************)
EXTENDS Registration, TLAPS

Basics(d) == {"name", "place"} \subseteq d.have /\ d.phone # Nobody

\* What has been answered by the time the bot asks a question.
Sound(d) ==
    /\ d.files = d.count
    /\ d.step \in {"CONFIRM", "EDIT_MENU", "SECONDARY_PHONE", "NOTE"} => ~Missing(d)
    /\ d.step \in {"NAME", "PHONE", "LOCATION"} /\ d.back => ~Missing(d)
    /\ d.step \in {"PHONE", "LOCATION"} => "name" \in d.have
    /\ d.step = "LOCATION" => d.phone # Nobody
    /\ d.step \in {"COLLATERAL_TYPE", "COLLATERAL_AMOUNT", "COLLATERAL_DESCRIPTION",
                   "COLLATERAL_PHOTOS"} => Basics(d)
    /\ d.step = "COLLATERAL_AMOUNT" => d.type = "MONEY"
    /\ d.step \in {"COLLATERAL_DESCRIPTION", "COLLATERAL_PHOTOS"} => d.type = "ITEM"
    /\ d.step = "COLLATERAL_PHOTOS" => "description" \in d.have

(* The first question needs no answer yet.                                 *)
LEMMA InitialSound ==
    /\ Initial \in Draft /\ Sound(Initial)
    /\ [Initial EXCEPT !.login = TRUE] \in Draft /\ Sound([Initial EXCEPT !.login = TRUE])
    /\ \A phone \in Phone : /\ [Initial EXCEPT !.phone = phone] \in Draft
                            /\ Sound([Initial EXCEPT !.phone = phone])
<1>1. /\ Initial \in Draft /\ Initial.step = "NAME" /\ ~Initial.back
      /\ Initial.files = Initial.count
  BY RegistrationAssumption DEF Initial, Draft, Steps
<1>2. ASSUME NEW d \in Draft, d.step = "NAME", ~d.back, d.files = d.count PROVE Sound(d)
  BY <1>2 DEF Sound
<1>3. PICK d : d = [Initial EXCEPT !.login = TRUE] OBVIOUS
<1>4. d \in Draft /\ d.step = "NAME" /\ ~d.back /\ d.files = d.count BY <1>1, <1>3 DEF Draft
<1>5. ASSUME NEW phone \in Phone, NEW e, e = [Initial EXCEPT !.phone = phone]
      PROVE  e \in Draft /\ Sound(e)
  <2>1. e \in Draft /\ e.step = "NAME" /\ ~e.back /\ e.files = e.count BY <1>1, <1>5 DEF Draft
  <2> QED BY <1>2, <2>1
<1> QED BY <1>1, <1>2, <1>3, <1>4, <1>5

(* A field that is filled in leads on, or back to a complete summary.      *)
LEMMA NameSound ==
    ASSUME NEW d \in Draft, Sound(d), d.step = "NAME",
           NEW next, next = Diverted(d, "PHONE")
    PROVE  After(With(d, "name"), next) \in Draft /\ Sound(After(With(d, "name"), next))
<1>1. PICK e : e = With(d, "name") OBVIOUS
<1>2. /\ e \in Draft /\ "name" \in e.have /\ d.have \subseteq e.have
      /\ e.step = d.step /\ e.back = d.back /\ e.phone = d.phone /\ e.type = d.type
      /\ e.count = d.count /\ e.files = d.files
  BY <1>1 DEF With, Draft
<1>3. PICK f : f = After(e, next) OBVIOUS
<1>4. /\ f \in Draft /\ f.step = (IF e.back THEN "CONFIRM" ELSE next) /\ f.back = FALSE
      /\ f.have = e.have /\ f.phone = e.phone /\ f.type = e.type
      /\ f.count = e.count /\ f.files = e.files
  BY <1>2, <1>3 DEF After, Draft, Steps, Diverted
<1>5. ~Missing(d) => ~Missing(f) BY <1>2, <1>4 DEF Missing
<1>6. Sound(f) BY <1>2, <1>4, <1>5 DEF Sound, Diverted
<1> QED BY <1>1, <1>3, <1>4, <1>6

(* The phone, asked or asked anew.                                         *)
LEMMA PhoneSound ==
    ASSUME NEW d \in Draft, Sound(d), d.step = "PHONE", NEW phone \in Phone,
           NEW f, f = After([d EXCEPT !.phone = phone], "LOCATION")
    PROVE  f \in Draft /\ Sound(f)
<1>1. PICK e : e = [d EXCEPT !.phone = phone] OBVIOUS
<1>2. /\ e \in Draft /\ e.phone = phone /\ e.have = d.have /\ e.step = d.step /\ e.back = d.back
      /\ e.type = d.type /\ e.count = d.count /\ e.files = d.files
  BY <1>1 DEF Draft
<1>3. /\ f \in Draft /\ f.step = (IF e.back THEN "CONFIRM" ELSE "LOCATION") /\ f.back = FALSE
      /\ f.have = e.have /\ f.phone = e.phone /\ f.type = e.type
      /\ f.count = e.count /\ f.files = e.files
  BY <1>1, <1>2 DEF After, Draft, Steps
<1>4. phone # Nobody BY PeopleAssumption
<1>5. ~Missing(d) => ~Missing(f) BY <1>2, <1>3, <1>4 DEF Missing
<1> QED BY <1>2, <1>3, <1>4, <1>5 DEF Sound

(* A second phone is only edited.                                          *)
LEMMA SecondarySound ==
    ASSUME NEW d \in Draft, Sound(d), d.step = "SECONDARY_PHONE", NEW f, f = After(d, "LOCATION")
    PROVE  f \in Draft /\ Sound(f)
<1>1. /\ f \in Draft /\ f.step = (IF d.back THEN "CONFIRM" ELSE "LOCATION") /\ f.back = FALSE
      /\ f.have = d.have /\ f.phone = d.phone /\ f.type = d.type
      /\ f.count = d.count /\ f.files = d.files
  BY DEF After, Draft, Steps
<1>2. ~Missing(f) /\ "name" \in f.have /\ f.phone # Nobody BY <1>1 DEF Sound, Missing
<1> QED BY <1>1, <1>2 DEF Sound

(* Where she lives: the last of the basics.                                *)
LEMMA PlaceSound ==
    ASSUME NEW d \in Draft, Sound(d), d.step = "LOCATION",
           NEW f, f = After(With(d, "place"), "COLLATERAL_TYPE")
    PROVE  f \in Draft /\ Sound(f)
<1>1. PICK e : e = With(d, "place") OBVIOUS
<1>2. /\ e \in Draft /\ e.have = d.have \cup {"place"}
      /\ e.step = d.step /\ e.back = d.back /\ e.phone = d.phone /\ e.type = d.type
      /\ e.count = d.count /\ e.files = d.files
  BY <1>1 DEF With, Draft
<1>3. /\ f \in Draft /\ f.step = (IF e.back THEN "CONFIRM" ELSE "COLLATERAL_TYPE") /\ f.back = FALSE
      /\ f.have = e.have /\ f.phone = e.phone /\ f.type = e.type
      /\ f.count = e.count /\ f.files = e.files
  BY <1>1, <1>2 DEF After, Draft, Steps
<1>4. ~Missing(d) => ~Missing(f) BY <1>2, <1>3 DEF Missing
<1>5. Basics(f) BY <1>2, <1>3 DEF Sound, Basics
<1> QED BY <1>2, <1>3, <1>4, <1>5 DEF Sound

(* Another kind of collateral starts afresh.                               *)
LEMMA CollateralSound ==
    ASSUME NEW d \in Draft, Sound(d), d.step = "COLLATERAL_TYPE",
           NEW f, f = To(Money(d), "COLLATERAL_AMOUNT") \/ f = To(Item(d), "COLLATERAL_DESCRIPTION")
    PROVE  f \in Draft /\ Sound(f)
<1>0. 0 \in 0 .. MaxPhotos BY RegistrationAssumption
<1>1. CASE f = To(Money(d), "COLLATERAL_AMOUNT")
  <2>1. PICK e : e = Money(d) OBVIOUS
  <2>2. /\ e \in Draft /\ e.type = "MONEY" /\ e.have = d.have \ {"description"} /\ e.phone = d.phone
        /\ e.count = e.files
    BY <1>0, <2>1 DEF Money, Draft
  <2>3. /\ f \in Draft /\ f.step = "COLLATERAL_AMOUNT" /\ f.type = "MONEY" /\ f.have = e.have
        /\ f.phone = e.phone /\ f.count = f.files
    BY <1>1, <2>1, <2>2 DEF To, Draft, Steps
  <2> QED BY <2>2, <2>3 DEF Sound, Basics
<1>2. CASE f = To(Item(d), "COLLATERAL_DESCRIPTION")
  <2>1. PICK e : e = Item(d) OBVIOUS
  <2>2. /\ e \in Draft /\ e.type = "ITEM" /\ e.have = d.have \ {"amount"} /\ e.phone = d.phone
        /\ e.count = e.files
    BY <1>0, <2>1 DEF Item, Draft, Sound
  <2>3. /\ f \in Draft /\ f.step = "COLLATERAL_DESCRIPTION" /\ f.type = "ITEM" /\ f.have = e.have
        /\ f.phone = e.phone /\ f.count = f.files
    BY <1>2, <2>1, <2>2 DEF To, Draft, Steps
  <2> QED BY <2>2, <2>3 DEF Sound, Basics
<1> QED BY <1>1, <1>2

(* Money needs its amount, a thing its description.                        *)
LEMMA AmountSound ==
    ASSUME NEW d \in Draft, Sound(d), NEW f,
           \/ d.step = "COLLATERAL_AMOUNT" /\ f = To(With(d, "amount"), "CONFIRM")
           \/ d.step = "COLLATERAL_DESCRIPTION" /\ f = To(With(d, "description"), "COLLATERAL_PHOTOS")
    PROVE  f \in Draft /\ Sound(f)
<1>1. CASE d.step = "COLLATERAL_AMOUNT" /\ f = To(With(d, "amount"), "CONFIRM")
  <2>1. PICK e : e = With(d, "amount") OBVIOUS
  <2>2. /\ e \in Draft /\ e.have = d.have \cup {"amount"} /\ e.type = d.type /\ e.phone = d.phone
        /\ e.count = e.files
    BY <2>1 DEF With, Draft, Sound
  <2>3. /\ f \in Draft /\ f.step = "CONFIRM" /\ f.type = e.type /\ f.have = e.have
        /\ f.phone = e.phone /\ f.count = f.files
    BY <1>1, <2>1, <2>2 DEF To, Draft, Steps
  <2> QED BY <1>1, <2>2, <2>3 DEF Sound, Basics, Missing
<1>2. CASE d.step = "COLLATERAL_DESCRIPTION" /\ f = To(With(d, "description"), "COLLATERAL_PHOTOS")
  <2>1. PICK e : e = With(d, "description") OBVIOUS
  <2>2. /\ e \in Draft /\ e.have = d.have \cup {"description"} /\ e.type = d.type
        /\ e.phone = d.phone /\ e.count = e.files
    BY <2>1 DEF With, Draft, Sound
  <2>3. /\ f \in Draft /\ f.step = "COLLATERAL_PHOTOS" /\ f.type = e.type /\ f.have = e.have
        /\ f.phone = e.phone /\ f.count = f.files
    BY <1>2, <2>1, <2>2 DEF To, Draft, Steps
  <2> QED BY <1>2, <2>2, <2>3 DEF Sound, Basics
<1> QED BY <1>1, <1>2

(* And its photos, one at least.                                           *)
LEMMA PhotoSound ==
    ASSUME NEW d \in Draft, Sound(d), d.step = "COLLATERAL_PHOTOS", NEW f,
           \/ Fits(d) /\ f = [d EXCEPT !.count = d.count + 1, !.files = d.files + 1]
           \/ d.count >= 1 /\ f = To(d, "CONFIRM")
    PROVE  f \in Draft /\ Sound(f)
<1>0. d.count \in 0 .. MaxPhotos /\ MaxPhotos \in Nat /\ d.files = d.count
  BY RegistrationAssumption DEF Draft, Sound
<1>1. CASE Fits(d) /\ f = [d EXCEPT !.count = d.count + 1, !.files = d.files + 1]
  <2>1. d.count + 1 \in 0 .. MaxPhotos /\ d.files + 1 \in 0 .. MaxPhotos BY <1>0, <1>1 DEF Fits
  <2>2. /\ f \in Draft /\ f.step = d.step /\ f.type = d.type /\ f.have = d.have /\ f.phone = d.phone
        /\ f.count = f.files
    BY <1>0, <1>1, <2>1 DEF Draft
  <2> QED BY <2>2 DEF Sound, Basics
<1>2. CASE d.count >= 1 /\ f = To(d, "CONFIRM")
  <2>1. /\ f \in Draft /\ f.step = "CONFIRM" /\ f.type = d.type /\ f.have = d.have
        /\ f.phone = d.phone /\ f.count = d.count /\ f.files = d.files
    BY <1>2 DEF To, Draft, Steps
  <2>2. ~Missing(f) BY <1>0, <1>2, <2>1 DEF Sound, Basics, Missing
  <2> QED BY <1>0, <2>1, <2>2 DEF Sound
<1> QED BY <1>1, <1>2

(* From the summary, complete, one field is edited at a time.              *)
LEMMA SummarySound ==
    ASSUME NEW d \in Draft, Sound(d), d.step \in {"CONFIRM", "EDIT_MENU", "NOTE"}, NEW f,
           \/ f = To(d, "CONFIRM") \/ f = To(d, "EDIT_MENU")
           \/ \E step \in {"NAME", "PHONE", "SECONDARY_PHONE", "LOCATION", "COLLATERAL_TYPE", "NOTE"} :
                 f = [d EXCEPT !.step = step, !.back = TRUE]
    PROVE  f \in Draft /\ Sound(f)
<1>1. /\ f \in Draft /\ f.have = d.have /\ f.phone = d.phone /\ f.type = d.type
      /\ f.count = d.count /\ f.files = d.files
      /\ f.step \in {"CONFIRM", "EDIT_MENU", "NAME", "PHONE", "SECONDARY_PHONE", "LOCATION",
                     "COLLATERAL_TYPE", "NOTE"}
  BY DEF To, Draft, Steps
<1>2. ~Missing(f) BY <1>1 DEF Sound, Missing
<1>3. Basics(f) /\ f.count = f.files BY <1>1, <1>2 DEF Missing, Basics, Sound
<1> QED BY <1>1, <1>2, <1>3 DEF Sound, Basics
-----------------------------------------------------------------------------
Rows == {w \in Worker : profile[w] # NoRow}
Links == {i \in Invite : invitation[i] # NoRow}

\* What a request knows of the rows it will change.
HandlerOK(h, rows, links) ==
    /\ h.op = "invite" => /\ h.invite \in Invite /\ h.phone \in Phone /\ h.needsApproval \in BOOLEAN
                          /\ h.old \subseteq links
    /\ h.op = "accept" => h.telegram \in Telegram /\ h.invite \in links
    /\ h.op = "approve" => h.worker \in rows
    /\ h.op = "update" => /\ h.worker \in Worker /\ h.phone \in Phone \cup {Nobody}
                          /\ h.status \in {"ACTIVE", "PAUSED", "ARCHIVED", "same"}
    /\ h.op = "remove" => h.worker \in Worker
    /\ h.op = "hire" => h.phone \in Phone

HandlersOK == /\ DOMAIN inflight = Client
              /\ \A c \in Client : HandlerOK(inflight[c], Rows, Links)

\* A questionnaire is sound, and no worker has one.
DraftsOK == \A t \in Telegram : draft[t] # NoRow => Sound(draft[t]) /\ OfTelegram(t) = {}

\* Only a worker leaves collateral.
CollateralOK == \A w \in Worker : profile[w] = NoRow => collateral[w] = "none"

Inv == PeopleTypeOK /\ DraftsOK /\ CollateralOK /\ HandlersOK

(* A step that respects what requests know, and gives slot c a handler     *)
(* that is right, leaves all of them right.                                *)
LEMMA HandlerKept ==
    ASSUME HandlersOK, NEW c \in Client, NEW h, inflight' = [inflight EXCEPT ![c] = h],
           \A d \in Client \ {c} : Running(d, "approve") => inflight[d].worker \in Rows',
           Links \subseteq Links',
           HandlerOK(h, Rows', Links')
    PROVE  HandlersOK'
<1>1. PICK rows : rows = Rows' OBVIOUS
<1>2. PICK links : links = Links' OBVIOUS
<1>4. ASSUME NEW d \in Client, d # c PROVE HandlerOK(inflight[d], rows, links)
  <2>1. HandlerOK(inflight[d], Rows, Links) BY DEF HandlersOK
  <2> QED BY <1>1, <1>2, <1>4, <2>1 DEF HandlerOK, Running
<1>5. \A d \in Client : HandlerOK(inflight'[d], rows, links)
  BY <1>1, <1>2, <1>4 DEF HandlersOK
<1> QED BY <1>1, <1>2, <1>5 DEF HandlersOK

(* So does a step that is no request's.                                    *)
LEMMA HandlersRespected ==
    ASSUME HandlersOK, UNCHANGED inflight,
           \A d \in Client : Running(d, "approve") => inflight[d].worker \in Rows',
           Links \subseteq Links'
    PROVE  HandlersOK'
<1>1. PICK rows : rows = Rows' OBVIOUS
<1>2. PICK links : links = Links' OBVIOUS
<1>4. ASSUME NEW d \in Client PROVE HandlerOK(inflight[d], rows, links)
  <2>1. HandlerOK(inflight[d], Rows, Links) BY DEF HandlersOK
  <2> QED BY <1>1, <1>2, <1>4, <2>1 DEF HandlerOK, Running
<1> QED BY <1>1, <1>2, <1>4 DEF HandlersOK

(* What requests know is true before the step.                             *)
LEMMA Remembered ==
    ASSUME HandlersOK
    PROVE  \A d \in Client : Running(d, "approve") => inflight[d].worker \in Rows
BY DEF HandlersOK, HandlerOK, Running

(* A request that only starts changes no row.                              *)
LEMMA Starts ==
    ASSUME Inv, NEW c \in Client, NEW h, Start(c, h), HandlerOK(h, Rows, Links),
           UNCHANGED peopleVars
    PROVE  Inv'
<1>1. Rows' = Rows /\ Links' = Links BY DEF Rows, Links, peopleVars
<1>2. HandlersOK' BY <1>1, Remembered, HandlerKept DEF Inv, Start
<1> QED BY <1>2 DEF Inv, PeopleTypeOK, DraftsOK, CollateralOK, OfTelegram, peopleVars

(* So does one that ends without a trace.                                  *)
LEMMA Ends ==
    ASSUME HandlersOK, NEW c \in Client, Finish(c),
           \A d \in Client \ {c} : Running(d, "approve") => inflight[d].worker \in Rows',
           Links \subseteq Links'
    PROVE  HandlersOK'
<1>1. HandlerOK(NoHandler, Rows', Links') BY DEF HandlerOK, NoHandler
<1> QED BY <1>1, HandlerKept DEF Finish

(* A row changes, and keeps the Telegram account it had or loses it: still *)
(* only strangers are asked.                                               *)
LEMMA RowChanges ==
    ASSUME Inv, NEW w \in Worker, NEW r \in Profile \cup {NoRow}, profile' = [profile EXCEPT ![w] = r],
           \/ r = NoRow \/ r.telegram = Nobody
           \/ profile[w] # NoRow /\ r.telegram = profile[w].telegram,
           UNCHANGED draft
    PROVE  /\ profile' \in [Worker -> Profile \cup {NoRow}]
           /\ draft' \in [Telegram -> Draft \cup {NoRow}]
           /\ DraftsOK'
<1>1. /\ profile \in [Worker -> Profile \cup {NoRow}] /\ draft \in [Telegram -> Draft \cup {NoRow}]
      /\ DraftsOK
  BY DEF Inv, PeopleTypeOK
<1>2. ASSUME NEW x \in Telegram, draft[x] # NoRow PROVE OfTelegram(x)' = {}
  <2>1. OfTelegram(x) = {} BY <1>1, <1>2 DEF DraftsOK
  <2>2. x # Nobody BY PeopleAssumption
  <2> QED BY <1>1, <2>1, <2>2 DEF OfTelegram
<1>3. DraftsOK' BY <1>1, <1>2 DEF DraftsOK
<1> QED BY <1>1, <1>3

(* A row goes, and a questionnaire with it.                                *)
LEMMA RowGoes ==
    ASSUME Inv, NEW w \in Worker, NEW r \in Profile \cup {NoRow}, profile' = [profile EXCEPT ![w] = r],
           r = NoRow \/ r.telegram = Nobody, NEW t, draft' = Forgotten(t)
    PROVE  /\ profile' \in [Worker -> Profile \cup {NoRow}]
           /\ draft' \in [Telegram -> Draft \cup {NoRow}]
           /\ DraftsOK'
<1>1. /\ profile \in [Worker -> Profile \cup {NoRow}] /\ draft \in [Telegram -> Draft \cup {NoRow}]
      /\ DraftsOK
  BY DEF Inv, PeopleTypeOK
<1>2. draft' \in [Telegram -> Draft \cup {NoRow}]
      /\ \A x \in Telegram : draft'[x] # NoRow => draft'[x] = draft[x]
  BY <1>1 DEF Forgotten
<1>3. ASSUME NEW x \in Telegram, draft'[x] # NoRow
      PROVE  Sound(draft'[x]) /\ OfTelegram(x)' = {}
  <2>1. draft[x] # NoRow /\ draft'[x] = draft[x] BY <1>2, <1>3
  <2>2. Sound(draft[x]) /\ OfTelegram(x) = {} BY <1>1, <2>1 DEF DraftsOK
  <2>3. x # Nobody BY PeopleAssumption
  <2>4. OfTelegram(x)' = {} BY <1>1, <2>2, <2>3 DEF OfTelegram
  <2> QED BY <2>1, <2>2, <2>4
<1>4. DraftsOK' BY <1>3 DEF DraftsOK
<1> QED BY <1>1, <1>2, <1>4

(* A row is made for a Telegram account whose questionnaire is over.       *)
LEMMA RowMade ==
    ASSUME Inv, NEW w \in Worker, NEW r \in Profile, profile' = [profile EXCEPT ![w] = r],
           profile[w] = NoRow, draft' = Forgotten(r.telegram)
    PROVE  /\ profile' \in [Worker -> Profile \cup {NoRow}]
           /\ draft' \in [Telegram -> Draft \cup {NoRow}]
           /\ DraftsOK'
<1>1. /\ profile \in [Worker -> Profile \cup {NoRow}] /\ draft \in [Telegram -> Draft \cup {NoRow}]
      /\ DraftsOK
  BY DEF Inv, PeopleTypeOK
<1>2. ASSUME NEW x \in Telegram, draft'[x] # NoRow
      PROVE  Sound(draft'[x]) /\ OfTelegram(x)' = {}
  <2>1. x # r.telegram /\ draft'[x] = draft[x] BY <1>1, <1>2 DEF Forgotten
  <2>2. Sound(draft[x]) /\ OfTelegram(x) = {} BY <1>1, <1>2, <2>1 DEF DraftsOK
  <2>3. OfTelegram(x)' = {} BY <1>1, <2>1, <2>2 DEF OfTelegram
  <2> QED BY <2>1, <2>2, <2>3
<1>3. DraftsOK' BY <1>2 DEF DraftsOK
<1> QED BY <1>1, <1>3 DEF Forgotten
-----------------------------------------------------------------------------
(* An answer to a stranger: the questionnaire stays sound.                 *)
LEMMA Answered ==
    ASSUME Inv, NEW t \in Telegram, Stranger(t), NEW d \in Draft, Sound(d), Answers(t, d), OnlyDraft
    PROVE  Inv'
<1>1. draft' \in [Telegram -> Draft \cup {NoRow}] BY DEF Inv, PeopleTypeOK, Answers
<1>2. PeopleTypeOK' BY <1>1 DEF Inv, PeopleTypeOK, OnlyDraft
<1>3. \A x \in Telegram : OfTelegram(x)' = OfTelegram(x) BY DEF OfTelegram, OnlyDraft
<1>4. DraftsOK' BY <1>3 DEF Inv, PeopleTypeOK, DraftsOK, Answers, OnlyDraft, Stranger
<1>5. Rows' = Rows /\ Links' = Links BY DEF Rows, Links, OnlyDraft
<1>6. HandlersOK' BY <1>5, Remembered, HandlersRespected DEF Inv, OnlyDraft
<1> QED BY <1>2, <1>4, <1>6 DEF Inv, CollateralOK, OnlyDraft

(* Every question of the bot is answered with the next sound one.          *)
LEMMA QuestionStep ==
    ASSUME Inv, NEW t \in Telegram, Stranger(t),
           \/ Welcome(t) \/ LoginCheck(t)
           \/ \E phone \in Phone : SharePhone(t, phone)
           \/ GiveName(t) \/ GiveSecondary(t) \/ SharePlace(t)
           \/ ChooseCollateral(t) \/ GiveAmount(t) \/ Describe(t) \/ SendPhoto(t) \/ PhotosDone(t)
           \/ GiveNote(t) \/ Edit(t)
    PROVE  Inv'
<1> DEFINE d == draft[t]
<1>0. ASSUME draft[t] # NoRow PROVE draft[t] \in Draft /\ Sound(draft[t])
  BY <1>0 DEF Inv, PeopleTypeOK, DraftsOK
<1>1. CASE Welcome(t) BY <1>1, InitialSound, Answered DEF Welcome
<1>2. CASE LoginCheck(t)
  <2>1. PICK e : e = [Initial EXCEPT !.login = TRUE] OBVIOUS
  <2> QED BY <1>2, <2>1, InitialSound, Answered DEF LoginCheck
<1>3. ASSUME NEW phone \in Phone, SharePhone(t, phone) PROVE Inv'
  <2>1. d \in Draft /\ Sound(d) /\ d.step = "PHONE" BY <1>0, <1>3 DEF SharePhone, Asked
  <2>2. PICK f : f = After([d EXCEPT !.phone = phone], "LOCATION") OBVIOUS
  <2> HIDE DEF d
  <2>3. f \in Draft /\ Sound(f) BY <2>1, <2>2, PhoneSound
  <2>4. Answers(t, f) /\ OnlyDraft BY <1>3, <2>2 DEF SharePhone, d
  <2> QED BY <2>3, <2>4, Answered
<1>4. CASE GiveName(t)
  <2>1. d \in Draft /\ Sound(d) /\ d.step = "NAME" BY <1>0, <1>4 DEF GiveName, Asked
  <2>2. PICK next : next = Diverted(d, "PHONE") OBVIOUS
  <2>3. PICK f : f = After(With(d, "name"), next) OBVIOUS
  <2> HIDE DEF d
  <2>4. f \in Draft /\ Sound(f) BY <2>1, <2>2, <2>3, NameSound
  <2>5. Answers(t, f) /\ OnlyDraft BY <1>4, <2>2, <2>3 DEF GiveName, d
  <2> QED BY <2>4, <2>5, Answered
<1>5. CASE GiveSecondary(t)
  <2>1. d \in Draft /\ Sound(d) /\ d.step = "SECONDARY_PHONE" BY <1>0, <1>5 DEF GiveSecondary, Asked
  <2>2. PICK f : f = After(d, "LOCATION") OBVIOUS
  <2> HIDE DEF d
  <2>3. f \in Draft /\ Sound(f) BY <2>1, <2>2, SecondarySound
  <2>4. Answers(t, f) /\ OnlyDraft BY <1>5, <2>2 DEF GiveSecondary, d
  <2> QED BY <2>3, <2>4, Answered
<1>6. CASE SharePlace(t)
  <2>1. d \in Draft /\ Sound(d) /\ d.step = "LOCATION" BY <1>0, <1>6 DEF SharePlace, Asked
  <2>2. PICK f : f = After(With(d, "place"), "COLLATERAL_TYPE") OBVIOUS
  <2> HIDE DEF d
  <2>3. f \in Draft /\ Sound(f) BY <2>1, <2>2, PlaceSound
  <2>4. Answers(t, f) /\ OnlyDraft BY <1>6, <2>2 DEF SharePlace, d
  <2> QED BY <2>3, <2>4, Answered
<1>7. CASE ChooseCollateral(t)
  <2>1. d \in Draft /\ Sound(d) /\ d.step = "COLLATERAL_TYPE" BY <1>0, <1>7 DEF ChooseCollateral, Asked
  <2>2. PICK f : /\ f = To(Money(d), "COLLATERAL_AMOUNT") \/ f = To(Item(d), "COLLATERAL_DESCRIPTION")
                 /\ Answers(t, f)
    BY <1>7 DEF ChooseCollateral
  <2>3. OnlyDraft BY <1>7 DEF ChooseCollateral
  <2> HIDE DEF d
  <2>4. f \in Draft /\ Sound(f) BY <2>1, <2>2, CollateralSound
  <2> QED BY <2>2, <2>3, <2>4, Answered
<1>8. CASE GiveAmount(t) \/ Describe(t)
  <2>1. d \in Draft /\ Sound(d) BY <1>0, <1>8 DEF GiveAmount, Describe, Asked
  <2>2. PICK f : /\ \/ d.step = "COLLATERAL_AMOUNT" /\ f = To(With(d, "amount"), "CONFIRM")
                    \/ d.step = "COLLATERAL_DESCRIPTION"
                       /\ f = To(With(d, "description"), "COLLATERAL_PHOTOS")
                 /\ Answers(t, f)
    BY <1>8 DEF GiveAmount, Describe, Asked
  <2>3. OnlyDraft BY <1>8 DEF GiveAmount, Describe
  <2> HIDE DEF d
  <2>4. f \in Draft /\ Sound(f) BY <2>1, <2>2, AmountSound
  <2> QED BY <2>2, <2>3, <2>4, Answered
<1>9. CASE SendPhoto(t) \/ PhotosDone(t)
  <2>1. d \in Draft /\ Sound(d) /\ d.step = "COLLATERAL_PHOTOS"
    BY <1>0, <1>9 DEF SendPhoto, PhotosDone, Asked
  <2>2. PICK f : /\ \/ Fits(d) /\ f = [d EXCEPT !.count = d.count + 1, !.files = d.files + 1]
                    \/ d.count >= 1 /\ f = To(d, "CONFIRM")
                 /\ Answers(t, f)
    BY <1>9 DEF SendPhoto, PhotosDone
  <2>3. OnlyDraft BY <1>9 DEF SendPhoto, PhotosDone
  <2> HIDE DEF d
  <2>4. f \in Draft /\ Sound(f) BY <2>1, <2>2, PhotoSound
  <2> QED BY <2>2, <2>3, <2>4, Answered
<1>10. CASE GiveNote(t) \/ Edit(t)
  <2>1. d \in Draft /\ Sound(d) /\ d.step \in {"CONFIRM", "EDIT_MENU", "NOTE"}
    BY <1>0, <1>10 DEF GiveNote, Edit, Asked
  <2>2. PICK f : /\ \/ f = To(d, "CONFIRM") \/ f = To(d, "EDIT_MENU")
                    \/ \E step \in {"NAME", "PHONE", "SECONDARY_PHONE", "LOCATION", "COLLATERAL_TYPE",
                                    "NOTE"} : f = [d EXCEPT !.step = step, !.back = TRUE]
                 /\ Answers(t, f)
    BY <1>10 DEF GiveNote, Edit, Diverted
  <2>3. OnlyDraft BY <1>10 DEF GiveNote, Edit
  <2> HIDE DEF d
  <2>4. f \in Draft /\ Sound(f) BY <2>1, <2>2, SummarySound
  <2> QED BY <2>2, <2>3, <2>4, Answered
<1> QED BY <1>1, <1>2, <1>3, <1>4, <1>5, <1>6, <1>7, <1>8, <1>9, <1>10

(* The questionnaire ends: it is dropped, answered by a link to the staff, *)
(* or becomes a worker who waits.                                          *)
LEMMA BotEnds ==
    ASSUME Inv, NEW t \in Telegram, Stranger(t),
           \/ Cancelled(t) \/ Submit(t) \/ \E phone \in Phone : LoginByPhone(t, phone)
    PROVE  Inv'
<1>0. PeopleTypeOK /\ DraftsOK /\ CollateralOK /\ HandlersOK BY DEF Inv
<1>1. CASE Cancelled(t)
  <2>1. draft' \in [Telegram -> Draft \cup {NoRow}]
        /\ \A x \in Telegram : draft'[x] # NoRow => draft'[x] = draft[x]
    BY <1>0, <1>1 DEF PeopleTypeOK, Cancelled, Forgotten
  <2>2. \A x \in Telegram : OfTelegram(x)' = OfTelegram(x) BY <1>1 DEF OfTelegram, Cancelled, OnlyDraft
  <2>3. DraftsOK' BY <1>0, <1>1, <2>1, <2>2 DEF DraftsOK, Cancelled, OnlyDraft
  <2>4. Rows' = Rows /\ Links' = Links BY <1>1 DEF Rows, Links, Cancelled, OnlyDraft
  <2>5. HandlersOK' BY <1>0, <1>1, <2>4, Remembered, HandlersRespected DEF Cancelled, OnlyDraft
  <2> QED BY <1>0, <1>1, <2>1, <2>3, <2>5 DEF Inv, PeopleTypeOK, CollateralOK, Cancelled, OnlyDraft
<1>2. ASSUME NEW phone \in Phone, LoginByPhone(t, phone) PROVE Inv'
  <2>1. UNCHANGED <<profile, login, staff, collateral, invitation, work, alerts, inflight>>
    BY <1>2 DEF LoginByPhone
  <2>2. \A x \in Telegram : OfTelegram(x)' = OfTelegram(x) BY <2>1 DEF OfTelegram
  <2>3. Rows' = Rows /\ Links' = Links BY <2>1 DEF Rows, Links
  <2>4. HandlersOK' BY <1>0, <2>1, <2>3, Remembered, HandlersRespected
  <2>5. /\ draft' \in [Telegram -> Draft \cup {NoRow}] /\ linked' \in [Telegram -> Phone \cup {Nobody}]
        /\ DraftsOK'
    <3>1. CASE draft' = Forgotten(t) /\ linked' \in {linked, [linked EXCEPT ![t] = phone]}
      BY <1>0, <2>2, <3>1 DEF PeopleTypeOK, DraftsOK, Forgotten
    <3>2. CASE Answers(t, [Initial EXCEPT !.phone = phone]) /\ linked' = linked
      <4>1. PICK e : e = [Initial EXCEPT !.phone = phone] OBVIOUS
      <4>2. e \in Draft /\ Sound(e) BY <4>1, InitialSound
      <4> QED BY <1>0, <2>2, <3>2, <4>1, <4>2 DEF PeopleTypeOK, DraftsOK, Answers, Stranger
    <3> QED BY <1>2, <3>1, <3>2 DEF LoginByPhone
  <2> QED BY <1>0, <2>1, <2>4, <2>5 DEF Inv, PeopleTypeOK, CollateralOK
<1>3. CASE Submit(t)
  <2>1. draft[t] \in Draft /\ Sound(draft[t]) /\ draft[t].step = "CONFIRM" /\ ~Missing(draft[t])
    BY <1>0, <1>3 DEF Submit, Asked, PeopleTypeOK, DraftsOK
  <2>2. CASE Taken(draft[t].phone)
    <3>1. PICK f : f = [draft[t] EXCEPT !.step = "PHONE", !.back = TRUE] OBVIOUS
    <3>2. f \in Draft /\ Sound(f) BY <2>1, <3>1, SummarySound
    <3>3. Answers(t, f) /\ OnlyDraft BY <1>3, <2>2, <3>1 DEF Submit, OnlyDraft
    <3> QED BY <3>2, <3>3, Answered
  <2>3. CASE ~Taken(draft[t].phone)
    <3>1. PICK w \in Worker : /\ Unused(w)
                              /\ profile' = [profile EXCEPT ![w] =
                                               Row(t, draft[t].phone, "PENDING_APPROVAL")]
                              /\ collateral' = [collateral EXCEPT ![w] = "PENDING"]
                              /\ draft' = Forgotten(t)
      BY <1>3, <2>3 DEF Submit
    <3>2. PICK r : r = Row(t, draft[t].phone, "PENDING_APPROVAL") OBVIOUS
    <3>3. r \in Profile /\ r.telegram = t BY <2>1, <3>2 DEF Row, Profile, Draft
    <3>4. UNCHANGED <<login, staff, invitation, work, linked, alerts, inflight>> BY <1>3 DEF Submit
    <3>5. /\ profile' = [profile EXCEPT ![w] = r] /\ profile[w] = NoRow
      BY <3>1, <3>2 DEF Unused
    <3>6. /\ profile' \in [Worker -> Profile \cup {NoRow}]
          /\ draft' \in [Telegram -> Draft \cup {NoRow}] /\ DraftsOK'
      BY <3>1, <3>3, <3>4, <3>5, RowMade
    <3>7. PeopleTypeOK' BY <1>0, <3>1, <3>4, <3>6 DEF PeopleTypeOK
    <3>8. r # NoRow BY <3>3, PeopleAssumption
    <3>9. CollateralOK' BY <1>0, <3>1, <3>5, <3>8 DEF CollateralOK, PeopleTypeOK
    <3>10. Rows \subseteq Rows' /\ Links' = Links
      BY <1>0, <3>1, <3>4, <3>5, <3>8 DEF Rows, Links, PeopleTypeOK
    <3>11. HandlersOK' BY <1>0, <3>4, <3>10, Remembered, HandlersRespected
    <3> QED BY <3>6, <3>7, <3>9, <3>11 DEF Inv
  <2> QED BY <2>2, <2>3
<1> QED BY <1>1, <1>2, <1>3
-----------------------------------------------------------------------------
(* A request of the staff, or of a link, begins.                           *)
LEMMA BeginStep ==
    ASSUME Inv, NEW c \in Client,
           \/ \E i \in Invite, p \in Phone, n \in BOOLEAN : InviteBegin(c, i, p, n)
           \/ \E w \in Worker :
                \/ RemoveBegin(c, w)
                \/ \E received \in BOOLEAN : ApproveBegin(c, w, received)
                \/ \E p \in Phone \cup {Nobody}, s \in {"ACTIVE", "PAUSED", "ARCHIVED", "same"} :
                      UpdateBegin(c, w, p, s)
           \/ \E p \in Phone : HireBegin(c, p) \/ \E from \in Phone : RenumberBegin(c, from, p)
           \/ \E t \in Telegram, i \in Invite : AcceptBegin(c, t, i)
    PROVE  Inv'
<1>1. ASSUME NEW i \in Invite, NEW p \in Phone, NEW n \in BOOLEAN, InviteBegin(c, i, p, n) PROVE Inv'
  <2>1. PICK h : h = [op |-> "invite", invite |-> i, phone |-> p, needsApproval |-> n,
                      old |-> {j \in Invite : /\ invitation[j] # NoRow /\ invitation[j].phone = p
                                              /\ ~invitation[j].used /\ ~invitation[j].revoked}]
    OBVIOUS
  <2>2. Start(c, h) /\ UNCHANGED peopleVars BY <1>1, <2>1 DEF InviteBegin
  <2>3. HandlerOK(h, Rows, Links) BY <2>1 DEF HandlerOK, Links
  <2> QED BY <2>2, <2>3, Starts
<1>2. ASSUME NEW w \in Worker, RemoveBegin(c, w) PROVE Inv'
  <2>1. PICK h : h = [op |-> "remove", worker |-> w, telegram |-> profile[w].telegram,
                      history |-> work[w] # "never", hadLogin |-> login[w] # NoLogin]
    OBVIOUS
  <2>2. Start(c, h) /\ UNCHANGED peopleVars /\ collateral[w] # "HELD"
    BY <1>2, <2>1 DEF RemoveBegin, Removable
  <2>3. HandlerOK(h, Rows, Links) BY <2>1, <2>2 DEF HandlerOK
  <2> QED BY <2>2, <2>3, Starts
<1>3. ASSUME NEW w \in Worker, NEW received \in BOOLEAN, ApproveBegin(c, w, received) PROVE Inv'
  <2>1. PICK h : h = [op |-> "approve", worker |-> w,
                      received |-> received /\ collateral[w] = "PENDING"]
    OBVIOUS
  <2>2. Start(c, h) /\ UNCHANGED peopleVars /\ profile[w] # NoRow BY <1>3, <2>1 DEF ApproveBegin
  <2>3. HandlerOK(h, Rows, Links) BY <2>1, <2>2 DEF HandlerOK, Rows
  <2> QED BY <2>2, <2>3, Starts
<1>4. ASSUME NEW w \in Worker, NEW p \in Phone \cup {Nobody},
             NEW s \in {"ACTIVE", "PAUSED", "ARCHIVED", "same"}, UpdateBegin(c, w, p, s)
      PROVE  Inv'
  <2>1. PICK h : h = [op |-> "update", worker |-> w, phone |-> p, status |-> s,
                      hadLogin |-> login[w] # NoLogin]
    OBVIOUS
  <2>2. Start(c, h) /\ UNCHANGED peopleVars BY <1>4, <2>1 DEF UpdateBegin
  <2>3. HandlerOK(h, Rows, Links) BY <2>1 DEF HandlerOK
  <2> QED BY <2>2, <2>3, Starts
<1>5. ASSUME NEW p \in Phone, NEW from \in Phone \cup {Nobody},
             Start(c, [op |-> "hire", phone |-> p, from |-> from]), UNCHANGED peopleVars
      PROVE  Inv'
  <2>1. PICK h : h = [op |-> "hire", phone |-> p, from |-> from] OBVIOUS
  <2>2. HandlerOK(h, Rows, Links) BY <2>1 DEF HandlerOK
  <2> QED BY <1>5, <2>1, <2>2, Starts
<1>6. ASSUME NEW t \in Telegram, NEW i \in Invite, AcceptBegin(c, t, i) PROVE Inv'
  <2>1. PICK h : h = [op |-> "accept", telegram |-> t, invite |-> i] OBVIOUS
  <2>2. Start(c, h) /\ UNCHANGED peopleVars /\ invitation[i] # NoRow
    BY <1>6, <2>1 DEF AcceptBegin, Open
  <2>3. HandlerOK(h, Rows, Links) BY <2>1, <2>2 DEF HandlerOK, Links
  <2> QED BY <2>2, <2>3, Starts
<1> QED BY <1>1, <1>2, <1>3, <1>4, <1>5, <1>6 DEF HireBegin, RenumberBegin

(* Invitations come and go; nobody else is touched.                        *)
LEMMA InvitationStep ==
    ASSUME Inv, \/ \E c \in Client : InviteCommit(c)
                \/ \E i \in Invite : RevokeInvite(i)
    PROVE  Inv'
<1>0. PeopleTypeOK /\ DraftsOK /\ CollateralOK /\ HandlersOK BY DEF Inv
<1>1. UNCHANGED <<profile, login, staff, collateral, work, draft, linked, alerts>>
  BY DEF InviteCommit, RevokeInvite
<1>2. \A t \in Telegram : OfTelegram(t)' = OfTelegram(t) BY <1>1 DEF OfTelegram
<1>3. DraftsOK' BY <1>0, <1>1, <1>2 DEF DraftsOK
<1>4. Rows' = Rows BY <1>1 DEF Rows
<1>5. ASSUME NEW c \in Client, InviteCommit(c)
      PROVE  invitation' \in [Invite -> Invitation \cup {NoRow}] /\ HandlersOK'
  <2>1. PICK h : h = inflight[c] OBVIOUS
  <2>2. h.invite \in Invite /\ h.phone \in Phone /\ h.needsApproval \in BOOLEAN /\ h.old \subseteq Links
    BY <1>0, <1>5, <2>1 DEF HandlersOK, HandlerOK, InviteCommit, Running
  <2>3. PICK row : row = [phone |-> h.phone, needsApproval |-> h.needsApproval,
                          used |-> FALSE, revoked |-> FALSE]
    OBVIOUS
  <2>4. row \in Invitation /\ row # NoRow
    <3>1. row \in Invitation BY <2>2, <2>3 DEF Invitation
    <3> QED BY <3>1, PeopleAssumption
  <2>5. \A i \in Links : /\ [invitation[i] EXCEPT !.revoked = TRUE] \in Invitation
                         /\ [invitation[i] EXCEPT !.revoked = TRUE] # NoRow
    BY <1>0, PeopleAssumption DEF PeopleTypeOK, Links, Invitation
  <2>6. invitation' = [i \in Invite |-> IF i = h.invite THEN row
                                        ELSE IF i \in h.old THEN [invitation[i] EXCEPT !.revoked = TRUE]
                                        ELSE invitation[i]]
    BY <1>5, <2>1, <2>3 DEF InviteCommit
  <2>7. invitation' \in [Invite -> Invitation \cup {NoRow}] /\ Links \subseteq Links'
    BY <1>0, <2>2, <2>4, <2>5, <2>6 DEF PeopleTypeOK, Links
  <2>8. HandlersOK' BY <1>0, <1>4, <1>5, <2>7, Remembered, Ends DEF InviteCommit
  <2> QED BY <2>7, <2>8
<1>6. ASSUME NEW i \in Invite, RevokeInvite(i)
      PROVE  invitation' \in [Invite -> Invitation \cup {NoRow}] /\ HandlersOK'
  <2>1. PICK row : row = [invitation[i] EXCEPT !.revoked = TRUE] OBVIOUS
  <2>2. invitation' = [invitation EXCEPT ![i] = row] BY <1>6, <2>1, Zenon DEF RevokeInvite
  <2>3. row \in Invitation /\ row # NoRow
    <3>1. invitation[i] \in Invitation BY <1>0, <1>6 DEF PeopleTypeOK, RevokeInvite
    <3>2. row \in Invitation BY <2>1, <3>1 DEF Invitation
    <3> QED BY <3>2, PeopleAssumption
  <2>4. invitation' \in [Invite -> Invitation \cup {NoRow}] /\ Links \subseteq Links'
    BY <1>0, <2>2, <2>3 DEF PeopleTypeOK, Links
  <2>5. HandlersOK' BY <1>0, <1>4, <1>6, <2>4, Remembered, HandlersRespected DEF RevokeInvite
  <2> QED BY <2>4, <2>5
<1> QED BY <1>0, <1>1, <1>3, <1>5, <1>6 DEF Inv, PeopleTypeOK, CollateralOK

(* An invitation is used up: a worker, her login, no questionnaire.        *)
LEMMA AcceptStep ==
    ASSUME Inv, NEW c \in Client, AcceptCommit(c)
    PROVE  Inv'
<1>0. PeopleTypeOK /\ DraftsOK /\ CollateralOK /\ HandlersOK BY DEF Inv
<1>1. PICK t \in Telegram, i \in Links : t = inflight[c].telegram /\ i = inflight[c].invite
  BY <1>0 DEF HandlersOK, HandlerOK, AcceptCommit, Running
<1>2. invitation[i] \in Invitation BY <1>0, <1>1 DEF PeopleTypeOK, Links
<1>3. PICK status \in {"PENDING_APPROVAL", "ACTIVE"} :
          status = IF invitation[i].needsApproval THEN "PENDING_APPROVAL" ELSE "ACTIVE"
  OBVIOUS
<1>4. PICK r : r = Row(t, invitation[i].phone, status) OBVIOUS
<1>5. r \in Profile /\ r.telegram = t /\ r # NoRow
  <2>1. invitation[i].phone \in Phone BY <1>2 DEF Invitation
  <2>2. r \in Profile /\ r.telegram = t BY <1>4, <2>1 DEF Row, Profile
  <2> QED BY <2>2, PeopleAssumption
<1>6. PICK w \in Worker : /\ profile[w] = NoRow /\ profile' = [profile EXCEPT ![w] = r]
                          /\ login' = [login EXCEPT ![w] = invitation[i].phone]
  BY <1>1, <1>3, <1>4 DEF AcceptCommit, Unused
<1>7. PICK row : row = [invitation[i] EXCEPT !.used = TRUE] OBVIOUS
<1>8. invitation' = [invitation EXCEPT ![i] = row] BY <1>1, <1>7, Zenon DEF AcceptCommit
<1>9. row \in Invitation /\ row # NoRow BY <1>2, <1>7, PeopleAssumption DEF Invitation
<1>10. draft' = Forgotten(t) /\ UNCHANGED <<staff, collateral, work, linked, alerts>> /\ Finish(c)
  BY <1>1 DEF AcceptCommit
<1>11. /\ profile' \in [Worker -> Profile \cup {NoRow}]
       /\ draft' \in [Telegram -> Draft \cup {NoRow}] /\ DraftsOK'
  BY <1>5, <1>6, <1>10, RowMade
<1>12. login' \in [Worker -> Phone \cup {Nobody, NoLogin}]
  BY <1>0, <1>2, <1>6 DEF PeopleTypeOK, Invitation
<1>13. invitation' \in [Invite -> Invitation \cup {NoRow}] /\ Links \subseteq Links'
  BY <1>0, <1>8, <1>9 DEF PeopleTypeOK, Links
<1>14. CollateralOK' BY <1>0, <1>5, <1>6, <1>10 DEF CollateralOK, PeopleTypeOK
<1>15. Rows \subseteq Rows' BY <1>0, <1>5, <1>6, <1>10 DEF Rows, PeopleTypeOK
<1>16. HandlersOK' BY <1>0, <1>10, <1>13, <1>15, Remembered, Ends
<1> QED BY <1>0, <1>10, <1>11, <1>12, <1>13, <1>14, <1>16 DEF Inv, PeopleTypeOK

(* Who is approved gets a login, and what she brought is held.             *)
LEMMA ApproveStep ==
    ASSUME Inv, NEW c \in Client, ApproveCommit(c)
    PROVE  Inv'
<1>0. PeopleTypeOK /\ DraftsOK /\ CollateralOK /\ HandlersOK BY DEF Inv
<1>1. PICK w \in Rows : w = inflight[c].worker
  BY <1>0 DEF HandlersOK, HandlerOK, ApproveCommit, Running
<1>2. w \in Worker /\ profile[w] \in Profile BY <1>0, <1>1 DEF PeopleTypeOK, Rows
<1>3. PICK r : r = [profile[w] EXCEPT !.status = "ACTIVE"] OBVIOUS
<1>4. r \in Profile /\ r.telegram = profile[w].telegram /\ r # NoRow
  BY <1>2, <1>3, PeopleAssumption DEF Profile
<1>5. profile' = [profile EXCEPT ![w] = r] BY <1>1, <1>3, Zenon DEF ApproveCommit
<1>6. login' = [login EXCEPT ![w] = profile[w].phone] BY <1>1 DEF ApproveCommit
<1>7. UNCHANGED <<staff, invitation, work, draft, linked, alerts>> /\ Finish(c) BY DEF ApproveCommit
<1>8. /\ profile' \in [Worker -> Profile \cup {NoRow}] /\ draft' \in [Telegram -> Draft \cup {NoRow}]
      /\ DraftsOK'
  <2>1. profile[w] # NoRow BY <1>1 DEF Rows
  <2> QED BY <1>2, <1>4, <1>5, <1>7, <2>1, RowChanges
<1>9. login' \in [Worker -> Phone \cup {Nobody, NoLogin}] BY <1>0, <1>2, <1>6 DEF PeopleTypeOK, Profile
<1>10. Rows' = Rows /\ Links' = Links
  BY <1>0, <1>1, <1>2, <1>4, <1>5, <1>7 DEF Rows, Links, PeopleTypeOK
<1>11. collateral' \in [Worker -> {"none", "PENDING", "HELD", "RETURNED"}] /\ CollateralOK'
  <2>1. collateral' = [collateral EXCEPT ![w] = "HELD"] \/ UNCHANGED collateral
    BY <1>1 DEF ApproveCommit
  <2>2. \A x \in Worker : profile'[x] = NoRow => profile[x] = NoRow /\ x # w
    BY <1>0, <1>2, <1>4, <1>5 DEF PeopleTypeOK
  <2> QED BY <1>0, <2>1, <2>2 DEF CollateralOK, PeopleTypeOK
<1>12. HandlersOK' BY <1>0, <1>7, <1>10, Remembered, Ends
<1> QED BY <1>0, <1>7, <1>8, <1>9, <1>11, <1>12 DEF Inv, PeopleTypeOK

(* A row whose approval nobody holds changes, and is not made nameless.    *)
LEMMA RejectStep ==
    ASSUME Inv, NEW w \in Worker, Reject(w)
    PROVE  Inv'
<1>0. PeopleTypeOK /\ DraftsOK /\ CollateralOK /\ HandlersOK BY DEF Inv
<1>1. profile[w] \in Profile /\ profile[w] # NoRow BY <1>0 DEF PeopleTypeOK, Reject
<1>2. PICK r : r = [profile[w] EXCEPT !.status = "REJECTED"] OBVIOUS
<1>3. r \in Profile /\ r.telegram = profile[w].telegram BY <1>1, <1>2 DEF Profile
<1>4. r # NoRow BY <1>3, PeopleAssumption
<1>5. profile' = [profile EXCEPT ![w] = r] BY <1>2, Zenon DEF Reject
<1>6. UNCHANGED <<login, staff, collateral, invitation, work, draft, linked, alerts, inflight>>
  BY DEF Reject
<1>7. /\ profile' \in [Worker -> Profile \cup {NoRow}] /\ draft' \in [Telegram -> Draft \cup {NoRow}]
      /\ DraftsOK'
  BY <1>1, <1>3, <1>5, <1>6, RowChanges
<1>8. Rows' = Rows /\ Links' = Links
  BY <1>0, <1>1, <1>4, <1>5, <1>6 DEF Rows, Links, PeopleTypeOK
<1>9. HandlersOK' BY <1>0, <1>6, <1>8, Remembered, HandlersRespected
<1>10. CollateralOK' BY <1>0, <1>1, <1>4, <1>5, <1>6 DEF CollateralOK, PeopleTypeOK
<1> QED BY <1>0, <1>6, <1>7, <1>9, <1>10 DEF Inv, PeopleTypeOK

(* What the card of a worker says changes, her Telegram account does not.  *)
LEMMA UpdateStep ==
    ASSUME Inv, NEW c \in Client, UpdateCommit(c)
    PROVE  Inv'
<1>0. PeopleTypeOK /\ DraftsOK /\ CollateralOK /\ HandlersOK BY DEF Inv
<1>1. PICK h : h = inflight[c] OBVIOUS
<1>2. /\ h.worker \in Worker /\ h.phone \in Phone \cup {Nobody}
      /\ h.status \in {"ACTIVE", "PAUSED", "ARCHIVED", "same"}
  BY <1>0, <1>1 DEF HandlersOK, HandlerOK, UpdateCommit, Running
<1>3. PICK w \in Worker : w = h.worker BY <1>2
<1>4. profile[w] \in Profile /\ profile[w] # NoRow
  BY <1>0, <1>1, <1>3 DEF PeopleTypeOK, UpdateCommit
<1>5. PICK r : r = Patched(profile[w], h) OBVIOUS
<1>6. r \in Profile /\ r.telegram = profile[w].telegram BY <1>2, <1>4, <1>5 DEF Profile, Patched
<1>7. r # NoRow BY <1>6, PeopleAssumption
<1>8. profile' = [profile EXCEPT ![w] = r] BY <1>1, <1>3, <1>5 DEF UpdateCommit
<1>9. login' = IF h.hadLogin /\ h.phone # Nobody THEN [login EXCEPT ![w] = h.phone] ELSE login
  BY <1>1, <1>3 DEF UpdateCommit
<1>10. UNCHANGED <<staff, collateral, invitation, work, draft, linked, alerts>> /\ Finish(c)
  BY DEF UpdateCommit
<1>11. /\ profile' \in [Worker -> Profile \cup {NoRow}] /\ draft' \in [Telegram -> Draft \cup {NoRow}]
       /\ DraftsOK'
  BY <1>4, <1>6, <1>8, <1>10, RowChanges
<1>12. Rows' = Rows /\ Links' = Links
  BY <1>0, <1>4, <1>7, <1>8, <1>10 DEF Rows, Links, PeopleTypeOK
<1>13. HandlersOK' BY <1>0, <1>10, <1>12, Remembered, Ends
<1>14. CollateralOK' BY <1>0, <1>4, <1>7, <1>8, <1>10 DEF CollateralOK, PeopleTypeOK
<1>15. login' \in [Worker -> Phone \cup {Nobody, NoLogin}] BY <1>0, <1>2, <1>9 DEF PeopleTypeOK
<1> QED BY <1>0, <1>10, <1>11, <1>13, <1>14, <1>15 DEF Inv, PeopleTypeOK

(* A worker is removed: her row is free of approvals, and what she left    *)
(* goes with her.                                                          *)
LEMMA RemoveStep ==
    ASSUME Inv, NEW c \in Client, RemoveCommit(c)
    PROVE  Inv'
<1>0. PeopleTypeOK /\ DraftsOK /\ CollateralOK /\ HandlersOK BY DEF Inv
<1>1. PICK h : h = inflight[c] OBVIOUS
<1>2. h.worker \in Worker BY <1>0, <1>1 DEF HandlersOK, HandlerOK, RemoveCommit, Running
<1>3. PICK w \in Worker : w = h.worker BY <1>2
<1>4. PICK gone : gone = [telegram |-> Nobody, phone |-> Nobody, status |-> "ARCHIVED", gone |-> TRUE]
  OBVIOUS
<1>5. gone \in Profile /\ gone.telegram = Nobody BY <1>4 DEF Profile
<1>6. gone # NoRow BY <1>5, PeopleAssumption
<1>7. PICK r : r = IF h.history THEN gone ELSE NoRow OBVIOUS
<1>8. profile' = [profile EXCEPT ![w] = r] BY <1>1, <1>3, <1>4, <1>7 DEF RemoveCommit
<1>9. /\ ~Locked(w) /\ profile[w] # NoRow
      /\ login' \in {login, [login EXCEPT ![w] = Nobody], [login EXCEPT ![w] = NoLogin]}
      /\ collateral' = [collateral EXCEPT ![w] = "none"]
      /\ draft' = Forgotten(h.telegram)
  BY <1>1, <1>3 DEF RemoveCommit
<1>10. UNCHANGED <<staff, invitation, work, linked, alerts>> /\ Finish(c) BY DEF RemoveCommit
<1>11. r \in Profile \cup {NoRow} /\ (r = NoRow \/ r.telegram = Nobody) BY <1>5, <1>7
<1>12. /\ profile' \in [Worker -> Profile \cup {NoRow}] /\ draft' \in [Telegram -> Draft \cup {NoRow}]
       /\ DraftsOK'
  BY <1>8, <1>9, <1>10, <1>11, RowGoes
<1>13. \A d \in Client : Running(d, "approve") => inflight[d].worker \in Rows'
  <2>1. \A d \in Client : Running(d, "approve") => inflight[d].worker # w BY <1>9 DEF Locked
  <2> QED BY <1>0, <1>8, <2>1, Remembered DEF Rows, PeopleTypeOK
<1>14. Links' = Links
  BY <1>0, <1>9, <1>10 DEF Links, PeopleTypeOK
<1>15. HandlersOK' BY <1>0, <1>10, <1>13, <1>14, Remembered, Ends
<1>16. CollateralOK' BY <1>0, <1>8, <1>9 DEF CollateralOK, PeopleTypeOK
<1>17. /\ login' \in [Worker -> Phone \cup {Nobody, NoLogin}]
       /\ collateral' \in [Worker -> {"none", "PENDING", "HELD", "RETURNED"}]
  BY <1>0, <1>9 DEF PeopleTypeOK
<1> QED BY <1>0, <1>10, <1>12, <1>15, <1>16, <1>17 DEF Inv, PeopleTypeOK

(* Collateral comes and goes.                                              *)
LEMMA CollateralStep ==
    ASSUME Inv, NEW w \in Worker, Receive(w) \/ Return(w)
    PROVE  Inv'
<1>0. PeopleTypeOK /\ DraftsOK /\ CollateralOK /\ HandlersOK BY DEF Inv
<1>1. UNCHANGED <<profile, login, staff, invitation, work, draft, linked, alerts, inflight>>
  BY DEF Receive, Return
<1>2. \A x \in Telegram : OfTelegram(x)' = OfTelegram(x) BY <1>1 DEF OfTelegram
<1>3. DraftsOK' BY <1>0, <1>1, <1>2 DEF DraftsOK
<1>4. Rows' = Rows /\ Links' = Links BY <1>1 DEF Rows, Links
<1>5. PICK to \in {"HELD", "RETURNED"} : /\ collateral' = [collateral EXCEPT ![w] = to]
                                         /\ collateral[w] \in {"PENDING", "HELD"}
  BY DEF Receive, Return
<1>6. CollateralOK' BY <1>0, <1>1, <1>5 DEF CollateralOK, PeopleTypeOK
<1>8. HandlersOK' BY <1>0, <1>1, <1>4, HandlersRespected, Remembered
<1>9. collateral' \in [Worker -> {"none", "PENDING", "HELD", "RETURNED"}]
  BY <1>0, <1>5 DEF PeopleTypeOK
<1> QED BY <1>0, <1>1, <1>3, <1>6, <1>8, <1>9 DEF Inv, PeopleTypeOK

(* The accounts of the staff: a new phone, another one, or none, and the   *)
(* chats that are linked to them.                                          *)
LEMMA StaffStep ==
    ASSUME Inv, \/ \E c \in Client : HireCommit(c) \/ Gives(c)
                \/ \E p \in Phone : \/ Dismiss(p)
                                    \/ \E t \in Telegram \cup {Nobody} : LinkAlerts(p, t)
                                    \/ \E t \in Telegram : SignIn(t, p)
                \/ \E w \in Worker : Works(w) \/ Finishes(w)
    PROVE  Inv'
<1>0. PeopleTypeOK /\ DraftsOK /\ CollateralOK /\ HandlersOK BY DEF Inv
<1>1. UNCHANGED <<profile, login, collateral, invitation, draft>>
  BY DEF HireCommit, Gives, Dismiss, LinkAlerts, SignIn, Works, Finishes, peopleVars
<1>2. \A x \in Telegram : OfTelegram(x)' = OfTelegram(x) BY <1>1 DEF OfTelegram
<1>3. Rows' = Rows /\ Links' = Links BY <1>1 DEF Rows, Links
<1>4. HandlersOK'
  <2>1. ASSUME NEW c \in Client, Finish(c) PROVE HandlersOK' BY <1>0, <1>3, <2>1, Remembered, Ends
  <2>2. ASSUME UNCHANGED inflight PROVE HandlersOK'
    BY <1>0, <1>3, <2>2, Remembered, HandlersRespected
  <2> QED BY <2>1, <2>2 DEF HireCommit, Gives, Abandon, Dismiss, LinkAlerts, SignIn, Works, Finishes
<1> DEFINE StaffOK == /\ staff \subseteq Phone /\ linked \in [Telegram -> Phone \cup {Nobody}]
                      /\ alerts \in [Phone -> Telegram \cup {Nobody}]
<1>5. StaffOK'
  <2>0. StaffOK BY <1>0 DEF PeopleTypeOK
  <2>1. ASSUME NEW c \in Client, HireCommit(c) PROVE StaffOK'
    <3>1. PICK h : h = inflight[c] OBVIOUS
    <3>2. h.phone \in Phone BY <1>0, <2>1, <3>1 DEF HandlersOK, HandlerOK, HireCommit, Running
    <3>3. /\ h.from # Nobody => h.from \in staff
          /\ staff' = (staff \ {h.from}) \cup {h.phone}
          /\ linked' = [t \in Telegram |-> IF linked[t] \in staff /\ linked[t] = h.from
                                           THEN h.phone ELSE linked[t]]
          /\ alerts' = IF h.from = Nobody THEN alerts
                       ELSE [alerts EXCEPT ![h.from] = Nobody, ![h.phone] = alerts[h.from]]
      BY <2>1, <3>1 DEF HireCommit
    <3>4. alerts' \in [Phone -> Telegram \cup {Nobody}] BY <2>0, <3>2, <3>3
    <3> QED BY <2>0, <3>2, <3>3, <3>4
  <2>2. ASSUME NEW p \in Phone, Dismiss(p) PROVE StaffOK' BY <2>0, <2>2 DEF Dismiss
  <2>3. ASSUME NEW p \in Phone, NEW t \in Telegram \cup {Nobody}, LinkAlerts(p, t) PROVE StaffOK'
    BY <2>0, <2>3 DEF LinkAlerts
  <2>4. ASSUME NEW p \in Phone, NEW t \in Telegram, SignIn(t, p) PROVE StaffOK'
    BY <2>0, <2>4 DEF SignIn
  <2>5. ASSUME UNCHANGED <<staff, linked, alerts>> PROVE StaffOK' BY <2>0, <2>5
  <2> QED BY <2>1, <2>2, <2>3, <2>4, <2>5 DEF Gives, Works, Finishes, peopleVars
<1>6. DraftsOK' BY <1>0, <1>1, <1>2 DEF DraftsOK
<1> QED BY <1>0, <1>1, <1>4, <1>5, <1>6 DEF Inv, PeopleTypeOK, CollateralOK
-----------------------------------------------------------------------------
(* Nobody works here at first.                                             *)
LEMMA InvInit ==
    ASSUME PeopleInit, HandlersInit
    PROVE  Inv
<1>1. PeopleTypeOK BY DEF PeopleInit, PeopleTypeOK
<1>2. DraftsOK /\ CollateralOK BY DEF PeopleInit, DraftsOK, CollateralOK
<1>3. HandlersOK BY DEF HandlersInit, HandlersOK, HandlerOK, NoHandler
<1> QED BY <1>1, <1>2, <1>3 DEF Inv

(* Every step keeps the invariant.                                         *)
LEMMA InvNext ==
    ASSUME Inv, [RegistrationNext]_<<peopleVars, inflight>>
    PROVE  Inv'
<1>1. CASE StaffNext
  BY <1>1, BeginStep, InvitationStep, ApproveStep, RejectStep, UpdateStep, RemoveStep,
     CollateralStep, StaffStep DEF StaffNext
<1>2. ASSUME NEW t \in Bot, Stranger(t), Message(t) PROVE Inv'
  <2>1. t \in Telegram BY RegistrationAssumption
  <2> QED BY <1>2, <2>1, QuestionStep, BotEnds DEF Message
<1>3. ASSUME NEW c \in Client, \/ AcceptCommit(c)
                               \/ \E t \in Telegram, i \in Invite : AcceptBegin(c, t, i)
      PROVE  Inv'
  BY <1>3, AcceptStep, BeginStep
<1>4. CASE UNCHANGED <<peopleVars, inflight>>
  <2>1. Rows' = Rows /\ Links' = Links BY <1>4 DEF Rows, Links, peopleVars
  <2>2. HandlersOK' BY <1>4, <2>1, Remembered, HandlersRespected DEF Inv
  <2> QED BY <1>4, <2>2 DEF Inv, PeopleTypeOK, DraftsOK, CollateralOK, OfTelegram, peopleVars
<1> QED BY <1>1, <1>2, <1>3, <1>4 DEF RegistrationNext

(* The invariant of the registration.                                      *)
LEMMA InvHolds == RegistrationSpec => []Inv
<1>1. RegistrationInit => Inv BY InvInit DEF RegistrationInit
<1>2. Inv /\ [RegistrationNext]_<<peopleVars, inflight>> => Inv' BY InvNext
<1> QED BY <1>1, <1>2, PTL DEF RegistrationSpec

(* Rows hold what the schema lets them hold.                               *)
THEOREM PeopleTypes == RegistrationSpec => []PeopleTypeOK
<1>1. Inv => PeopleTypeOK BY DEF Inv
<1> QED BY <1>1, InvHolds, PTL

(* The summary misses nothing, and counts the photos that are stored, on   *)
(* every way through the questionnaire (registration.ts:191-206).          *)
THEOREM NothingIsMissing == RegistrationSpec => []SummaryIsComplete
<1>1. Inv => SummaryIsComplete BY DEF Inv, DraftsOK, Sound, SummaryIsComplete
<1> QED BY <1>1, InvHolds, PTL

(* No questionnaire is open for an account that became a worker            *)
(* (registration.service.ts:65,211).                                       *)
THEOREM NoWorkerIsAsked == RegistrationSpec => []WorkersAreNotAsked
<1>1. Inv => WorkersAreNotAsked BY DEF Inv, DraftsOK, WorkersAreNotAsked
<1> QED BY <1>1, InvHolds, PTL
=============================================================================
