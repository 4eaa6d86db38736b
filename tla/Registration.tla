---------------------------- MODULE Registration ----------------------------
(***************************************************************************)
(* The registration bot: RegistrationService (registration.service.ts) and *)
(* the questionnaire it drives, the pure machine advance of                *)
(* packages/shared/src/registration.ts, over the people of People.         *)
(*                                                                         *)
(* Every message is one transaction under a lock on the Telegram account.  *)
(* A message the machine rejects changes nothing and is left out.          *)
(***************************************************************************)
EXTENDS Naturals, People

CONSTANTS Bot,          \* bound: the Telegram accounts that answer the questionnaire
          MaxPhotos     \* MAX_PHOTOS

Steps == {"NAME", "PHONE", "SECONDARY_PHONE", "LOCATION", "COLLATERAL_TYPE", "COLLATERAL_AMOUNT",
          "COLLATERAL_DESCRIPTION", "COLLATERAL_PHOTOS", "NOTE", "CONFIRM", "EDIT_MENU"}

\* RegState and photoFileIds; back is returnToConfirm, files the photos that are stored.
Draft == [step : Steps, login : BOOLEAN, back : BOOLEAN, type : {"none", "MONEY", "ITEM"},
          have : SUBSET {"name", "place", "amount", "description"}, phone : Phone \cup {Nobody},
          count : 0 .. MaxPhotos, files : 0 .. MaxPhotos]

ASSUME RegistrationAssumption ==
    Bot \subseteq Telegram /\ MaxPhotos \in Nat \ {0} /\ NoRow \notin Draft

Initial == [step |-> "NAME", login |-> FALSE, back |-> FALSE, type |-> "none",
            have |-> {}, phone |-> Nobody, count |-> 0, files |-> 0]

\* isMissing
Missing(d) ==
    \/ ~({"name", "place"} \subseteq d.have) \/ d.phone = Nobody \/ d.type = "none"
    \/ d.type = "MONEY" /\ "amount" \notin d.have
    \/ d.type = "ITEM" /\ ("description" \notin d.have \/ d.count < 1)

Answers(t, d) == draft' = [draft EXCEPT ![t] = d]
OnlyDraft == UNCHANGED <<profile, login, staff, collateral, invitation, work, linked, alerts, inflight>>

(***************************************************************************)
(*                     Before and beside the questions                     *)
(***************************************************************************)
Welcome(t) == /\ Answers(t, Initial)
              /\ OnlyDraft

\* «Войти через Telegram» by an account nobody knows: first the phone.
LoginCheck(t) == /\ Answers(t, [Initial EXCEPT !.login = TRUE])
                 /\ OnlyDraft

Cancelled(t) == /\ draft' = Forgotten(t)
                /\ OnlyDraft

\* loginByPhone: a member of staff is linked, a worker's phone refused, a new one kept.
LoginByPhone(t, phone) ==
    /\ draft[t] # NoRow /\ draft[t].login
    /\ \/ /\ phone \in staff
          /\ draft' = Forgotten(t)
          /\ linked' = IF \E o \in Telegram : linked[o] = phone THEN linked
                       ELSE [linked EXCEPT ![t] = phone]
       \/ /\ phone \notin staff /\ Taken(phone)
          /\ draft' = Forgotten(t)
          /\ UNCHANGED linked
       \/ /\ ~Taken(phone)
          /\ Answers(t, [Initial EXCEPT !.phone = phone])
          /\ UNCHANGED linked
    /\ UNCHANGED <<profile, login, staff, collateral, invitation, work, alerts, inflight>>

(***************************************************************************)
(*                             The questions                               *)
(***************************************************************************)
Asked(t, step) == draft[t] # NoRow /\ ~draft[t].login /\ draft[t].step = step

\* Where a filled-in field leads: on, or back to the summary it was edited from.
After(d, next) == [d EXCEPT !.step = IF d.back THEN "CONFIRM" ELSE next, !.back = FALSE]
To(d, next) == [d EXCEPT !.step = next]
With(d, field) == [d EXCEPT !.have = @ \cup {field}]

\* A phone that is known is not asked a second time, not even by its own button of
\* the menu: only a draft that was on its way back before the press goes there.
Diverted(d, step) == IF step = "PHONE" /\ d.phone # Nobody /\ ~d.back THEN "LOCATION" ELSE step

GiveName(t) ==
    /\ Asked(t, "NAME")
    /\ Answers(t, After(With(draft[t], "name"), Diverted(draft[t], "PHONE")))
    /\ OnlyDraft

SharePhone(t, phone) ==
    /\ Asked(t, "PHONE")
    /\ Answers(t, After([draft[t] EXCEPT !.phone = phone], "LOCATION"))
    /\ OnlyDraft

GiveSecondary(t) ==
    /\ Asked(t, "SECONDARY_PHONE")
    /\ Answers(t, After(draft[t], "LOCATION"))
    /\ OnlyDraft

SharePlace(t) ==
    /\ Asked(t, "LOCATION")
    /\ Answers(t, After(With(draft[t], "place"), "COLLATERAL_TYPE"))
    /\ OnlyDraft

\* Mutant: the photos of the thing are not thrown away with it.
MoneyInstead(d) == [d EXCEPT !.type = "MONEY", !.have = @ \ {"description"}, !.count = 0]

Money(d) == [d EXCEPT !.type = "MONEY", !.have = @ \ {"description"}, !.count = 0, !.files = 0]
Item(d) == IF d.type = "ITEM" THEN [d EXCEPT !.have = @ \ {"amount"}]
           ELSE [d EXCEPT !.type = "ITEM", !.have = @ \ {"amount"}, !.count = 0, !.files = 0]

ChooseCollateral(t) ==
    /\ Asked(t, "COLLATERAL_TYPE")
    /\ \/ Answers(t, To(Money(draft[t]), "COLLATERAL_AMOUNT"))
       \/ Answers(t, To(Item(draft[t]), "COLLATERAL_DESCRIPTION"))
    /\ OnlyDraft

GiveAmount(t) ==
    /\ Asked(t, "COLLATERAL_AMOUNT")
    /\ Answers(t, To(With(draft[t], "amount"), "CONFIRM"))
    /\ OnlyDraft

Describe(t) ==
    /\ Asked(t, "COLLATERAL_DESCRIPTION")
    /\ Answers(t, To(With(draft[t], "description"), "COLLATERAL_PHOTOS"))
    /\ OnlyDraft

Fits(d) == d.count < MaxPhotos

\* A photo that cannot be downloaded or stored leaves the draft as it was.
SendPhoto(t) ==
    /\ Asked(t, "COLLATERAL_PHOTOS") /\ Fits(draft[t])
    /\ Answers(t, [draft[t] EXCEPT !.count = @ + 1, !.files = @ + 1])
    /\ OnlyDraft

PhotosDone(t) ==
    /\ Asked(t, "COLLATERAL_PHOTOS") /\ draft[t].count >= 1
    /\ Answers(t, To(draft[t], "CONFIRM"))
    /\ OnlyDraft

GiveNote(t) ==
    /\ Asked(t, "NOTE")
    /\ Answers(t, To(draft[t], "CONFIRM"))
    /\ OnlyDraft

Edit(t) ==
    /\ \/ Asked(t, "CONFIRM") /\ Answers(t, To(draft[t], "EDIT_MENU"))
       \/ Asked(t, "EDIT_MENU") /\ Answers(t, To(draft[t], "CONFIRM"))
       \/ /\ Asked(t, "EDIT_MENU")
          /\ \E step \in {"NAME", "PHONE", "SECONDARY_PHONE", "LOCATION", "COLLATERAL_TYPE", "NOTE"} :
                Answers(t, [draft[t] EXCEPT !.step = Diverted(draft[t], step), !.back = TRUE])
    /\ OnlyDraft

\* finalize: a phone that is taken is asked anew, everything else kept.
Submit(t) ==
    /\ Asked(t, "CONFIRM") /\ ~Missing(draft[t])
    /\ IF Taken(draft[t].phone)
       THEN /\ Answers(t, [draft[t] EXCEPT !.step = "PHONE", !.back = TRUE])
            /\ UNCHANGED <<profile, collateral>>
       ELSE /\ \E w \in Worker :
                  /\ Unused(w)
                  /\ profile' = [profile EXCEPT ![w] = Row(t, draft[t].phone, "PENDING_APPROVAL")]
                  /\ collateral' = [collateral EXCEPT ![w] = "PENDING"]
            /\ draft' = Forgotten(t)
    /\ UNCHANGED <<login, staff, invitation, work, linked, alerts, inflight>>

-----------------------------------------------------------------------------
Message(t) ==
    \/ Welcome(t) \/ LoginCheck(t) \/ Cancelled(t)
    \/ \E phone \in Phone : LoginByPhone(t, phone) \/ SharePhone(t, phone)
    \/ GiveName(t) \/ GiveSecondary(t) \/ SharePlace(t)
    \/ ChooseCollateral(t) \/ GiveAmount(t) \/ Describe(t) \/ SendPhoto(t) \/ PhotosDone(t)
    \/ GiveNote(t) \/ Edit(t) \/ Submit(t)

RegistrationNext ==
    \/ StaffNext
    \/ \E t \in Bot : Stranger(t) /\ Message(t)
    \/ \E c \in Client : \/ AcceptCommit(c)
                         \/ \E t \in Telegram, i \in Invite : AcceptBegin(c, t, i)

RegistrationInit == PeopleInit /\ HandlersInit

RegistrationSpec == RegistrationInit /\ [][RegistrationNext]_<<peopleVars, inflight>>
-----------------------------------------------------------------------------
(***************************************************************************)
(* Rows hold what the schema lets them hold.                               *)
(***************************************************************************)
PeopleTypeOK ==
    /\ profile \in [Worker -> Profile \cup {NoRow}]
    /\ login \in [Worker -> Phone \cup {Nobody, NoLogin}]
    /\ staff \subseteq Phone
    /\ collateral \in [Worker -> {"none", "PENDING", "HELD", "RETURNED"}]
    /\ invitation \in [Invite -> Invitation \cup {NoRow}]
    /\ draft \in [Telegram -> Draft \cup {NoRow}]
    /\ linked \in [Telegram -> Phone \cup {Nobody}]
    /\ alerts \in [Phone -> Telegram \cup {Nobody}]

(***************************************************************************)
(* The summary is shown only when nothing is missing, so «Подтвердить» is  *)
(* never refused, and the photos counted are the photos that are stored -  *)
(* whatever was answered, edited, started again or thrown away on the way  *)
(* (registration.ts:191-206).                                              *)
(***************************************************************************)
SummaryIsComplete ==
    \A t \in Telegram : draft[t] # NoRow =>
        /\ draft[t].step \in {"CONFIRM", "EDIT_MENU"} => ~Missing(draft[t])
        /\ draft[t].files = draft[t].count

(***************************************************************************)
(* No questionnaire is open for an account that became a worker, by an     *)
(* answer, an invitation or a second try of either: whatever it is sent    *)
(* next makes her no second row (registration.service.ts:65,211).          *)
(***************************************************************************)
WorkersAreNotAsked ==
    \A t \in Telegram : draft[t] # NoRow => OfTelegram(t) = {}

(***************************************************************************)
(* «her collateral is her property / money in the company's hands: it must *)
(* be handed back (and recorded) before she goes» (workers.service.ts:227):*)
(* the record of a collateral that is held never disappears.  The code     *)
(* does not keep this: the collateral is asked about before the            *)
(* transaction that erases it, and may be received in between.             *)
(***************************************************************************)
HeldIsNeverErased ==
    [][\A w \in Worker : collateral[w] = "HELD" =>
          collateral'[w] \in {"HELD", "RETURNED"}]_<<peopleVars, inflight>>

(***************************************************************************)
(* «an admin still approves her (and her collateral), as for a bot         *)
(* registration» (registration.service.ts:200): whoever waits for an       *)
(* approval can be approved.  The code does not keep this: a manager's     *)
(* invitation has already made the login that approve wants to make.       *)
(***************************************************************************)
WaitingCanBeApproved ==
    \A w \in Worker : Known(w) /\ profile[w].status = "PENDING_APPROVAL" => Approvable(w)
=============================================================================
