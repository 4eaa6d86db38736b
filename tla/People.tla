------------------------------- MODULE People -------------------------------
(***************************************************************************)
(* Who works here: worker_profiles and the logins that belong to them, the *)
(* collateral they leave, and the invitations by which staff brings them   *)
(* in (workers.service.ts, decisions.ts, collateral.service.ts, and        *)
(* acceptInvite of registration.service.ts), beside the accounts of the    *)
(* staff (users.service.ts), which share the phone numbers.                *)
(***************************************************************************)
EXTENDS Workers, Handlers

CONSTANTS Telegram,   \* Telegram accounts
          Phone,
          Invite,     \* bound: worker_invitations
          Nobody,     \* the Telegram id and the phone an erased row is given
          NoLogin, NoRow

VARIABLES profile,    \* WorkerProfile
          login,      \* the phone of the User of a worker
          staff,      \* the phones of the other users
          collateral, \* WorkerCollateral.status, "none" without a row
          invitation, \* WorkerInvitation
          work,       \* what Assignments knows of her: "never", "open", "done"
          draft,      \* RegistrationDraft of a Telegram account: the bot's module fills it in
          linked,     \* User.telegramUserId: the phone of the member of staff it belongs to
          alerts      \* User.alertChatId, by her phone: whose private chat gets the alerts

peopleVars == <<profile, login, staff, collateral, invitation, work, draft, linked, alerts>>

Profile == [telegram : Telegram \cup {Nobody}, phone : Phone \cup {Nobody},
            status : {"PENDING_APPROVAL", "ACTIVE", "PAUSED", "REJECTED", "ARCHIVED"}, gone : BOOLEAN]
Invitation == [phone : Phone, needsApproval : BOOLEAN, used : BOOLEAN, revoked : BOOLEAN]

ASSUME PeopleAssumption ==
    /\ Nobody \notin Telegram \cup Phone /\ NoLogin \notin Phone \cup {Nobody}
    /\ NoRow \notin Profile \cup Invitation

PeopleInit ==
    /\ profile = [w \in Worker |-> NoRow]
    /\ login = [w \in Worker |-> NoLogin]
    /\ staff = {}
    /\ collateral = [w \in Worker |-> "none"]
    /\ invitation = [i \in Invite |-> NoRow]
    /\ work = [w \in Worker |-> "never"]
    /\ draft = [t \in Telegram |-> NoRow]
    /\ linked = [t \in Telegram |-> Nobody]
    /\ alerts = [p \in Phone |-> Nobody]

Known(w) == profile[w] # NoRow /\ ~profile[w].gone
WorkerPhones == {profile[w].phone : w \in {x \in Worker : profile[x] # NoRow}}
LoginPhones == {login[w] : w \in {x \in Worker : login[x] # NoLogin}}
UserPhones == staff \cup LoginPhones
Taken(phone) == phone \in WorkerPhones \cup UserPhones
OfTelegram(t) == {w \in Worker : profile[w] # NoRow /\ profile[w].telegram = t}
Unused(w) == profile[w] = NoRow /\ login[w] = NoLogin    \* an id for the next row

Row(t, phone, status) == [telegram |-> t, phone |-> phone, status |-> status, gone |-> FALSE]

\* A Telegram account nobody knows, and whose messages no transaction is handling.
Stranger(t) == /\ OfTelegram(t) = {} /\ linked[t] = Nobody /\ \A p \in staff : alerts[p] # t
               /\ \A c \in Client : Running(c, "accept") => inflight[c].telegram # t
\* Mutant: the questionnaire is left where it was.
NotForgotten(t) == draft

Forgotten(t) == [draft EXCEPT ![t] = NoRow]

\* lockRow of a profile, held by a transaction of two steps.
Locked(w) == \E c \in Client : Running(c, "approve") /\ inflight[c].worker = w

(***************************************************************************)
(*                              Invitations                                *)
(***************************************************************************)
\* createInvite: the phone is free; the open links for it are found, then replaced.
InviteBegin(c, i, phone, needsApproval) ==
    /\ invitation[i] = NoRow /\ ~Taken(phone)
    /\ Start(c, [op |-> "invite", invite |-> i, phone |-> phone, needsApproval |-> needsApproval,
                 old |-> {j \in Invite : /\ invitation[j] # NoRow /\ invitation[j].phone = phone
                                         /\ ~invitation[j].used /\ ~invitation[j].revoked}])
    /\ UNCHANGED peopleVars

InviteCommit(c) ==
    /\ Running(c, "invite")
    /\ LET h == inflight[c] IN
       /\ invitation[h.invite] = NoRow
       /\ invitation' = [i \in Invite |->
             IF i = h.invite THEN [phone |-> h.phone, needsApproval |-> h.needsApproval,
                                   used |-> FALSE, revoked |-> FALSE]
             ELSE IF i \in h.old THEN [invitation[i] EXCEPT !.revoked = TRUE]
             ELSE invitation[i]]
    /\ Finish(c)
    /\ UNCHANGED <<profile, login, staff, collateral, work, draft, linked, alerts>>

\* revokeInvite, whose look at the link may be older than the link's use.
RevokeInvite(i) ==
    /\ invitation[i] # NoRow /\ ~invitation[i].revoked
    /\ invitation' = [invitation EXCEPT ![i].revoked = TRUE]
    /\ UNCHANGED <<profile, login, staff, collateral, work, draft, linked, alerts, inflight>>

Open(i) == invitation[i] # NoRow /\ ~invitation[i].used /\ ~invitation[i].revoked

\* acceptInvite, under a lock on the Telegram account that opens the link.
AcceptBegin(c, t, i) ==
    /\ Stranger(t) /\ Open(i) /\ ~Taken(invitation[i].phone)
    /\ Start(c, [op |-> "accept", telegram |-> t, invite |-> i])
    /\ UNCHANGED peopleVars

\* The unique indexes on the phones of users and of worker_profiles.
FreePhone(phone) == phone \notin UserPhones /\ phone \notin WorkerPhones

AcceptCommit(c) ==
    /\ Running(c, "accept")
    /\ LET i == inflight[c].invite
           phone == invitation[i].phone
       IN /\ FreePhone(phone)
          /\ \E w \in Worker :
                /\ Unused(w)
                /\ profile' = [profile EXCEPT ![w] = Row(inflight[c].telegram, phone,
                                 IF invitation[i].needsApproval THEN "PENDING_APPROVAL" ELSE "ACTIVE")]
                /\ login' = [login EXCEPT ![w] = phone]
          /\ invitation' = [invitation EXCEPT ![i].used = TRUE]
          /\ draft' = Forgotten(inflight[c].telegram)
    /\ Finish(c)
    /\ UNCHANGED <<staff, collateral, work, linked, alerts>>

(***************************************************************************)
(*                        Approving and rejecting                          *)
(***************************************************************************)
\* WORKER_MACHINE
Follows(from, to) ==
    <<from, to>> \in {<<"PENDING_APPROVAL", "ACTIVE">>, <<"PENDING_APPROVAL", "REJECTED">>,
                      <<"ACTIVE", "PAUSED">>, <<"ACTIVE", "ARCHIVED">>, <<"PAUSED", "ACTIVE">>,
                      <<"PAUSED", "ARCHIVED">>, <<"ARCHIVED", "ACTIVE">>}

\* No user has her phone yet; an erased row was given a phone of its own.
Approvable(w) == IF profile[w].gone THEN login[w] = NoLogin ELSE profile[w].phone \notin UserPhones

\* Her row is locked, her collateral read but not locked.
ApproveBegin(c, w, received) ==
    /\ profile[w] # NoRow /\ ~Locked(w)
    /\ Follows(profile[w].status, "ACTIVE") /\ Approvable(w)
    /\ Start(c, [op |-> "approve", worker |-> w,
                 received |-> received /\ collateral[w] = "PENDING"])
    /\ UNCHANGED peopleVars

ApproveCommit(c) ==
    /\ Running(c, "approve")
    /\ LET w == inflight[c].worker IN
       /\ Approvable(w)
       /\ login' = [login EXCEPT ![w] = profile[w].phone]
       /\ profile' = [profile EXCEPT ![w].status = "ACTIVE"]
       /\ collateral' = IF inflight[c].received THEN [collateral EXCEPT ![w] = "HELD"] ELSE collateral
    /\ Finish(c)
    /\ UNCHANGED <<staff, invitation, work, draft, linked, alerts>>

Reject(w) ==
    /\ profile[w] # NoRow /\ ~Locked(w)
    /\ Follows(profile[w].status, "REJECTED")
    /\ profile' = [profile EXCEPT ![w].status = "REJECTED"]
    /\ UNCHANGED <<login, staff, collateral, invitation, work, draft, linked, alerts, inflight>>

(***************************************************************************)
(*                            The worker's card                            *)
(***************************************************************************)
\* update: checks and status machine on a row that was read before the transaction.
\* (Nobody for a phone and "same" for a status that the patch does not name.)
UpdateBegin(c, w, phone, status) ==
    /\ Known(w)
    /\ phone # Nobody => /\ phone \notin WorkerPhones
                         /\ login[w] # NoLogin => phone \notin UserPhones
    /\ status # "same" => Follows(profile[w].status, status)
    /\ Start(c, [op |-> "update", worker |-> w, phone |-> phone, status |-> status,
                 hadLogin |-> login[w] # NoLogin])
    /\ UNCHANGED peopleVars

Patched(row, h) == [row EXCEPT !.phone = IF h.phone # Nobody THEN h.phone ELSE @,
                               !.status = IF h.status # "same" THEN h.status ELSE @]

UpdateCommit(c) ==
    /\ Running(c, "update")
    /\ LET h == inflight[c]
           w == h.worker
           asked == h.phone # Nobody
           others == Worker \ {w}
       IN /\ profile[w] # NoRow /\ ~Locked(w)
          /\ h.hadLogin => login[w] # NoLogin
          /\ asked => /\ \A o \in others : profile[o] # NoRow => profile[o].phone # h.phone
                      /\ h.hadLogin => /\ h.phone \notin staff
                                       /\ \A o \in others : login[o] # NoLogin => login[o] # h.phone
          /\ profile' = [profile EXCEPT ![w] = Patched(profile[w], h)]
          /\ login' = IF h.hadLogin /\ asked THEN [login EXCEPT ![w] = h.phone] ELSE login
    /\ Finish(c)
    /\ UNCHANGED <<staff, collateral, invitation, work, draft, linked, alerts>>

\* Collateral, under the lock of its own row.
Receive(w) ==
    /\ collateral[w] = "PENDING"
    /\ collateral' = [collateral EXCEPT ![w] = "HELD"]
    /\ UNCHANGED <<profile, login, staff, invitation, work, draft, linked, alerts, inflight>>

Return(w) ==
    /\ collateral[w] = "HELD"
    /\ collateral' = [collateral EXCEPT ![w] = "RETURNED"]
    /\ UNCHANGED <<profile, login, staff, invitation, work, draft, linked, alerts, inflight>>

(***************************************************************************)
(* remove: refused while she has open work or her collateral is held; a    *)
(* worker with history is made nameless, one without is erased, by what    *)
(* was read before the transaction.                                        *)
(***************************************************************************)
Removable(w) == Known(w) /\ work[w] # "open" /\ collateral[w] # "HELD"

RemoveBegin(c, w) ==
    /\ Removable(w)
    /\ Start(c, [op |-> "remove", worker |-> w, telegram |-> profile[w].telegram,
                 history |-> work[w] # "never", hadLogin |-> login[w] # NoLogin])
    /\ UNCHANGED peopleVars

\* A row that work, or money, has come to refer to is not erased: the foreign key.
RemoveCommit(c) ==
    /\ Running(c, "remove")
    /\ LET w == inflight[c].worker
           history == inflight[c].history
       IN /\ profile[w] # NoRow /\ ~Locked(w)
          /\ history \/ work[w] = "never"
          /\ profile' = [profile EXCEPT ![w] =
                IF history THEN [telegram |-> Nobody, phone |-> Nobody, status |-> "ARCHIVED", gone |-> TRUE]
                ELSE NoRow]
          /\ login' = IF ~inflight[c].hadLogin THEN login
                      ELSE [login EXCEPT ![w] = IF history THEN Nobody ELSE NoLogin]
          /\ collateral' = [collateral EXCEPT ![w] = "none"]
          /\ draft' = Forgotten(inflight[c].telegram)
    /\ Finish(c)
    /\ UNCHANGED <<staff, invitation, work, linked, alerts>>

(***************************************************************************)
(*                       Accounts of the staff                             *)
(***************************************************************************)
\* users.create: both tables are asked; only users has the last word.
HireBegin(c, phone) ==
    /\ ~Taken(phone)
    /\ Start(c, [op |-> "hire", phone |-> phone, from |-> Nobody])
    /\ UNCHANGED peopleVars

\* users.update of a phone: the workers are not asked.
RenumberBegin(c, from, phone) ==
    /\ from \in staff /\ phone \notin UserPhones
    /\ Start(c, [op |-> "hire", phone |-> phone, from |-> from])
    /\ UNCHANGED peopleVars

HireCommit(c) ==
    /\ Running(c, "hire")
    /\ inflight[c].phone \notin UserPhones
    /\ inflight[c].from # Nobody => inflight[c].from \in staff
    /\ staff' = (staff \ {inflight[c].from}) \cup {inflight[c].phone}
    /\ linked' = [t \in Telegram |-> IF linked[t] \in staff /\ linked[t] = inflight[c].from
                                     THEN inflight[c].phone ELSE linked[t]]
    /\ alerts' = IF inflight[c].from = Nobody THEN alerts
                 ELSE [alerts EXCEPT ![inflight[c].from] = Nobody,
                                     ![inflight[c].phone] = alerts[inflight[c].from]]
    /\ Finish(c)
    /\ UNCHANGED <<profile, login, collateral, invitation, work, draft>>

Dismiss(phone) ==
    /\ phone \in staff
    /\ staff' = staff \ {phone}
    /\ linked' = [t \in Telegram |-> IF linked[t] = phone THEN Nobody ELSE linked[t]]
    /\ alerts' = [alerts EXCEPT ![phone] = Nobody]
    /\ UNCHANGED <<profile, login, collateral, invitation, work, draft, inflight>>

\* completeLink, with no lock on the account, whatever it is in the middle of; and unlink.
LinkAlerts(phone, t) ==
    /\ phone \in staff
    /\ alerts' = [alerts EXCEPT ![phone] = t]
    /\ UNCHANGED <<profile, login, staff, collateral, invitation, work, draft, linked, inflight>>

\* existingStaff: «Войти через Telegram» by an account known by its alerts only so far.
SignIn(t, phone) ==
    /\ phone \in staff /\ alerts[phone] = t
    /\ linked[t] = Nobody /\ \A o \in Telegram : linked[o] # phone
    /\ \A c \in Client : Running(c, "accept") => inflight[c].telegram # t
    /\ linked' = [linked EXCEPT ![t] = phone]
    /\ UNCHANGED <<profile, login, staff, collateral, invitation, work, draft, alerts, inflight>>

\* Assignments gives her work, and she finishes it.
Works(w) ==
    /\ Known(w) /\ profile[w].status = "ACTIVE" /\ work[w] # "open"
    /\ work' = [work EXCEPT ![w] = "open"]
    /\ UNCHANGED <<profile, login, staff, collateral, invitation, draft, linked, alerts, inflight>>

Finishes(w) ==
    /\ work[w] = "open"
    /\ work' = [work EXCEPT ![w] = "done"]
    /\ UNCHANGED <<profile, login, staff, collateral, invitation, draft, linked, alerts, inflight>>

\* A transaction is refused by an index or a key, or dies.
Gives(c) == Abandon(c) /\ UNCHANGED peopleVars

-----------------------------------------------------------------------------
\* What staff does (the bot's part is in the module of the bot).
StaffNext ==
    \/ \E c \in Client :
          \/ InviteCommit(c) \/ ApproveCommit(c) \/ UpdateCommit(c)
          \/ RemoveCommit(c) \/ HireCommit(c) \/ Gives(c)
          \/ \E i \in Invite, p \in Phone, n \in BOOLEAN : InviteBegin(c, i, p, n)
          \/ \E w \in Worker :
                \/ RemoveBegin(c, w)
                \/ \E received \in BOOLEAN : ApproveBegin(c, w, received)
                \/ \E p \in Phone \cup {Nobody}, s \in {"ACTIVE", "PAUSED", "ARCHIVED", "same"} :
                      (p # Nobody \/ s # "same") /\ UpdateBegin(c, w, p, s)
          \/ \E p \in Phone : HireBegin(c, p) \/ \E from \in Phone : RenumberBegin(c, from, p)
    \/ \E w \in Worker : Reject(w) \/ Receive(w) \/ Return(w) \/ Works(w) \/ Finishes(w)
    \/ \E i \in Invite : RevokeInvite(i)
    \/ \E p \in Phone : \/ Dismiss(p)
                        \/ \E t \in Telegram \cup {Nobody} : LinkAlerts(p, t)
                        \/ \E t \in Telegram : SignIn(t, p)
=============================================================================
