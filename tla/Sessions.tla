------------------------------ MODULE Sessions ------------------------------
(***************************************************************************)
(* Who is signed in: AuthService (auth.service.ts), the five-second cache  *)
(* of principals in SessionAuthService (auth-core.ts), and what the        *)
(* accounts screen does to them (users.service.ts).                        *)
(*                                                                         *)
(* A session holds the hash of its current refresh token and of the one    *)
(* before.  Clients are not trusted: any token that was ever minted may be *)
(* presented at any time, by its owner, by a retry that was delayed, or by *)
(* a thief.                                                                *)
(***************************************************************************)
EXTENDS Naturals, FiniteSets, Handlers

CONSTANTS Account, Install, Session, Token,
          Pass,          \* Telegram logins: an app's ticket or a browser's session
          MaxPassword,   \* bound: how often a password is changed
          CacheTicks,    \* CACHE_MS, in ticks of the clock
          MayCrash,      \* whether the process may die
          NoSession, NoToken

ASSUME SessionsAssumption ==
    /\ NoSession \notin Session /\ NoToken \notin Token /\ "none" \notin Account
    /\ MaxPassword \in Nat \ {0} /\ CacheTicks \in Nat \ {0}

VARIABLES account,   \* User: status and the version of the password
          pass,      \* TelegramLoginSession / TelegramHandoffTicket
          session,   \* UserSession
          minted,    \* ghost: from which request each refresh token came
          cache,     \* SessionAuthService.cache: for how long yet a principal is remembered
          since      \* ghost: for how long a session has been revoked or suspended

authVars == <<account, pass, session, minted, cache, since>>
sessionsVars == <<authVars, inflight>>

NotMinted == [session |-> NoSession]
Mint == [session : Session, presented : Token \cup {NoToken}, fresh : BOOLEAN]

NoRow == [user |-> "none"]
Row == [user : Account, install : Install, current : Token,
        previous : Token \cup {NoToken}, revoked : BOOLEAN, grace : BOOLEAN,
        password : Nat, pass : SUBSET Pass]

Exists(s) == session[s] # NoRow
Live(s) == Exists(s) /\ ~session[s].revoked
LiveOf(u) == {s \in Session : Live(s) /\ session[s].user = u}
Active(u) == account[u].status = "ACTIVE"

\* Neither revoked nor of a disabled account: what refresh asks of the row it read.
Usable(s) == Live(s) /\ Active(session[s].user)

SessionsInit ==
    /\ account = [u \in Account |-> [status |-> "ACTIVE", password |-> 1]]
    /\ pass \in [Pass -> [user : Account, install : Install, web : BOOLEAN, spent : {FALSE}]]
    /\ session = [s \in Session |-> NoRow]
    /\ minted = [t \in Token |-> NotMinted]
    /\ cache = [s \in Session |-> 0]
    /\ since = [s \in Session |-> 0]
    /\ HandlersInit

(***************************************************************************)
(*                               Signing in                                *)
(***************************************************************************)
\* The account and its hash are loaded, then the password is verified against them.
\* (A wrong password or a disabled account leaves nothing behind but an attempt.)
LoginBegin(c, u, i) ==
    /\ Active(u)
    /\ Start(c, [op |-> "verify", user |-> u, install |-> i, password |-> account[u].password])
    /\ UNCHANGED authVars

\* What createSession is called with.
SignIn(c, u, i, password, passes) ==
    inflight' = [inflight EXCEPT ![c] = [op |-> "signin", user |-> u, install |-> i,
                                         password |-> password, pass |-> passes]]

LoginSucceeds(c) ==
    /\ Running(c, "verify")
    /\ SignIn(c, inflight[c].user, inflight[c].install, inflight[c].password, {})
    /\ UNCHANGED authVars

\* An app brings back the ticket of the bot's button: spent by compare-and-set,
\* then the CURRENT status of the account decides.
ExchangeTicket(c, p) ==
    /\ ~pass[p].web /\ ~pass[p].spent
    /\ Start(c, [op |-> "exchanged", pass |-> p])
    /\ pass' = [pass EXCEPT ![p].spent = TRUE]
    /\ UNCHANGED <<account, session, minted, cache, since>>

TicketLogin(c) ==
    /\ Running(c, "exchanged")
    /\ LET p == inflight[c].pass IN
       IF Active(pass[p].user)
       THEN SignIn(c, pass[p].user, pass[p].install, 0, {p})
       ELSE Finish(c)
    /\ UNCHANGED authVars

\* A browser tab polls: the account is loaded first, then the login is spent.
PollBegin(c, p) ==
    /\ pass[p].web /\ ~pass[p].spent
    /\ Start(c, [op |-> "poll", pass |-> p, status |-> account[pass[p].user].status])
    /\ UNCHANGED authVars

Spendable(p) == ~pass[p].spent

PollSpend(c) ==
    /\ Running(c, "poll")
    /\ LET p == inflight[c].pass IN
       /\ pass' = [pass EXCEPT ![p].spent = TRUE]
       /\ IF Spendable(p) /\ inflight[c].status = "ACTIVE"
          THEN SignIn(c, pass[p].user, pass[p].install, 0, {p})
          ELSE Finish(c)
    /\ UNCHANGED <<account, session, minted, cache, since>>

(***************************************************************************)
(* createSession: in one transaction, find the live sessions of this       *)
(* install, revoke them, forget their principals, create the new one.  The *)
(* cache is emptied before the commit, and two logins do not see each      *)
(* other's new session.                                                    *)
(***************************************************************************)
Forget(ids) == [s \in Session |-> IF s \in ids THEN 0 ELSE cache[s]]
Revoked(ids) == [s \in Session |-> IF s \in ids /\ Exists(s)
                                   THEN [session[s] EXCEPT !.revoked = TRUE]
                                   ELSE session[s]]

FindStale(c) ==
    /\ Running(c, "signin")
    /\ LET h == inflight[c]
           stale == {s \in LiveOf(h.user) : session[s].install = h.install}
       IN /\ cache' = Forget(stale)
          /\ inflight' = [inflight EXCEPT ![c] = [op |-> "create", user |-> h.user,
                            install |-> h.install, password |-> h.password,
                            pass |-> h.pass, stale |-> stale]]
    /\ UNCHANGED <<account, pass, session, minted, since>>

NewSession == CHOOSE s \in Session : ~Exists(s)
NewToken == CHOOSE t \in Token : minted[t] = NotMinted

CreateSession(c) ==
    /\ Running(c, "create")
    /\ \E s \in Session : ~Exists(s)
    /\ \E t \in Token : minted[t] = NotMinted
    /\ LET h == inflight[c] IN
       /\ session' = [Revoked(h.stale) EXCEPT ![NewSession] =
                        [user |-> h.user, install |-> h.install, current |-> NewToken,
                         previous |-> NoToken, revoked |-> FALSE, grace |-> FALSE,
                         password |-> h.password, pass |-> h.pass]]
       /\ minted' = [minted EXCEPT ![NewToken] =
                        [session |-> NewSession, presented |-> NoToken, fresh |-> TRUE]]
    /\ Finish(c)
    /\ UNCHANGED <<account, pass, cache, since>>

(***************************************************************************)
(* refresh: the row is read by its current or its previous hash; a         *)
(* rotated token that comes back outside the grace window is taken for     *)
(* theft; otherwise the token is swapped by compare-and-set, and a lost    *)
(* race is tried once more.                                                *)
(***************************************************************************)
Presents(s, t) == t = session[s].current \/ t = session[s].previous
Forgiven(s, t) == t = session[s].current \/ session[s].grace

RefreshRead(c, t, again) ==
    \E s \in Session :
        /\ Usable(s) /\ Presents(s, t)
        /\ inflight' = [inflight EXCEPT ![c] =
              IF Forgiven(s, t)
              THEN [op |-> "rotate", session |-> s, token |-> t, again |-> again,
                    current |-> session[s].current, previous |-> session[s].previous]
              ELSE [op |-> "revoke", ids |-> {s}, refreshed |-> {}]]

RefreshBegin(c, t) == /\ inflight[c] = NoHandler
                      /\ RefreshRead(c, t, FALSE)
                      /\ UNCHANGED authVars

IsCurrent(h) == h.token = h.current

\* Mutant: the update compares the token but not revokedAt.
SwapsRevoked(h) == session[h.session].current = h.current

\* Mutant: an update by id, without the compare.
SwapsAnyway(h) == ~session[h.session].revoked

\* WHERE id, refreshTokenHash as it was read, revokedAt IS NULL
Swaps(h) == session[h.session].current = h.current /\ ~session[h.session].revoked

\* Mutant: every rotation moves the current token to the previous one.
PreviousCurrent(h) == h.current

\* previousRefreshTokenHash: the token that was presented stays good for the grace window.
Previous(h) == IF IsCurrent(h) THEN h.current ELSE h.previous

Rotate(c) ==
    /\ Running(c, "rotate")
    /\ Swaps(inflight[c])
    /\ \E t \in Token : minted[t] = NotMinted
    /\ LET h == inflight[c] IN
       /\ session' = [session EXCEPT ![h.session] =
                        [@ EXCEPT !.current = NewToken, !.previous = Previous(h), !.grace = TRUE]]
       /\ minted' = [minted EXCEPT ![NewToken] =
                        [session |-> h.session, presented |-> h.token, fresh |-> IsCurrent(h)]]
    /\ Finish(c)
    /\ UNCHANGED <<account, pass, cache, since>>

RotateLost(c) ==
    /\ Running(c, "rotate")
    /\ ~Swaps(inflight[c])
    /\ IF inflight[c].again THEN Finish(c)
       ELSE \/ RefreshRead(c, inflight[c].token, TRUE)
            \/ /\ ~\E s \in Session : Usable(s) /\ Presents(s, inflight[c].token)
               /\ Finish(c)
    /\ UNCHANGED authVars

GraceEnds(s) ==
    /\ Exists(s) /\ session[s].grace
    /\ session' = [session EXCEPT ![s].grace = FALSE]
    /\ UNCHANGED <<account, pass, minted, cache, since, inflight>>

(***************************************************************************)
(*                              Signing out                                *)
(***************************************************************************)
\* revokeById, and the second half of revokeAllOf: write, then forget.
RevokeWrite(c) ==
    /\ Running(c, "revoke")
    /\ session' = Revoked(inflight[c].ids)
    /\ inflight' = [inflight EXCEPT ![c] = [op |-> "forget", ids |-> inflight[c].ids,
                                         refreshed |-> inflight[c].refreshed]]
    /\ UNCHANGED <<account, pass, minted, cache, since>>

\* refreshUser: after a change of status whatever is still live is read anew.
Refreshed(users) == UNION {LiveOf(u) : u \in users}

RevokeForget(c) ==
    /\ Running(c, "forget")
    /\ cache' = Forget(inflight[c].ids \cup Refreshed(inflight[c].refreshed))
    /\ Finish(c)
    /\ UNCHANGED <<account, pass, session, minted, since>>

\* The first half of revokeAllOf, logoutAll, changeOwnPassword: find what is live.
FindLive(c) ==
    /\ Running(c, "findlive")
    /\ inflight' = [inflight EXCEPT ![c] = [op |-> "revoke",
                      ids |-> LiveOf(inflight[c].user) \ inflight[c].keep,
                      refreshed |-> inflight[c].refreshed]]
    /\ UNCHANGED authVars

RevokeAll(c, u, keep, refreshed) ==
    Start(c, [op |-> "findlive", user |-> u, keep |-> keep, refreshed |-> refreshed])

\* A request of session s passed JwtAuthGuard.
Accepted(s) == cache[s] > 0

Logout(c, s) == /\ Accepted(s)
                /\ Start(c, [op |-> "revoke", ids |-> {s}, refreshed |-> {}])
                /\ UNCHANGED authVars

LogoutAll(c, s) == /\ Accepted(s)
                   /\ RevokeAll(c, session[s].user, {}, {})
                   /\ UNCHANGED authVars

RevokeOwn(c, s, other) ==
    /\ Accepted(s) /\ other \in LiveOf(session[s].user)
    /\ Start(c, [op |-> "revoke", ids |-> {other}, refreshed |-> {}])
    /\ UNCHANGED authVars

NewPassword(u) == /\ account[u].password < MaxPassword
                  /\ account' = [account EXCEPT ![u].password = @ + 1]

ChangeOwnPassword(c, s) ==
    /\ Accepted(s)
    /\ NewPassword(session[s].user)
    /\ session' = [session EXCEPT ![s].password = account[session[s].user].password + 1]
    /\ RevokeAll(c, session[s].user, {s}, {})
    /\ UNCHANGED <<pass, minted, cache, since>>

ResetPassword(c, u) ==
    /\ NewPassword(u)
    /\ RevokeAll(c, u, {}, {})
    /\ UNCHANGED <<pass, session, minted, cache, since>>

\* setStatus; the role screen (changeRole) revokes the same way.
Suspend(c, u) ==
    /\ account' = [account EXCEPT ![u].status = "SUSPENDED"]
    /\ RevokeAll(c, u, {}, {u})
    /\ UNCHANGED <<pass, session, minted, cache, since>>

Reactivate(u) ==
    /\ account' = [account EXCEPT ![u].status = "ACTIVE"]
    /\ cache' = Forget(LiveOf(u))
    /\ since' = [s \in Session |-> IF s \in LiveOf(u) THEN 0 ELSE since[s]]
    /\ UNCHANGED <<pass, session, minted, inflight>>

(***************************************************************************)
(*                   The guard of every other request                      *)
(***************************************************************************)
Valid(s) == Live(s) /\ Active(session[s].user)

\* A miss reads the database and remembers what it found, whatever happened to
\* the session since.  (A remembered refusal reads like a miss; it is left out.)
ResolveRead(c, s) ==
    /\ ~Accepted(s) /\ Valid(s)
    /\ Start(c, [op |-> "resolve", session |-> s, left |-> CacheTicks])
    /\ UNCHANGED authVars

\* Mutant: the five seconds are counted from the answer of the database.
LeftFromAnswer(h) == CacheTicks

\* now + CACHE_MS, of the now before the read.
Left(h) == h.left

ResolveCache(c) ==
    /\ Running(c, "resolve")
    /\ cache' = [cache EXCEPT ![inflight[c].session] = Left(inflight[c])]
    /\ Finish(c)
    /\ UNCHANGED <<account, pass, session, minted, since>>

Later(n) == IF n = 0 THEN 0 ELSE n - 1

\* The clock, for what is remembered and for what is about to be.
Tick ==
    /\ cache' = [s \in Session |-> Later(cache[s])]
    /\ since' = [s \in Session |-> IF Exists(s) /\ ~Usable(s) /\ since[s] < CacheTicks
                                   THEN since[s] + 1 ELSE since[s]]
    /\ inflight' = [c \in Client |-> IF Running(c, "resolve")
                                     THEN [inflight[c] EXCEPT !.left = Later(@)]
                                     ELSE inflight[c]]
    /\ UNCHANGED <<account, pass, session, minted>>

\* The process dies: what it was doing is gone, and so is its memory.
Crash == /\ MayCrash
         /\ inflight' = [c \in Client |-> NoHandler]
         /\ cache' = [s \in Session |-> 0]
         /\ UNCHANGED <<account, pass, session, minted, since>>

-----------------------------------------------------------------------------
Step(c) ==
    \/ LoginSucceeds(c) \/ TicketLogin(c) \/ PollSpend(c)
    \/ FindStale(c) \/ CreateSession(c)
    \/ Rotate(c) \/ RotateLost(c)
    \/ FindLive(c) \/ RevokeWrite(c) \/ RevokeForget(c)
    \/ ResolveCache(c)

SessionsNext ==
    \/ \E c \in Client : Step(c)
    \/ \E c \in Client, u \in Account, i \in Install : LoginBegin(c, u, i)
    \/ \E c \in Client, p \in Pass : ExchangeTicket(c, p) \/ PollBegin(c, p)
    \/ \E c \in Client, t \in Token : RefreshBegin(c, t)
    \/ \E c \in Client, s \in Session :
          \/ Logout(c, s) \/ LogoutAll(c, s) \/ ChangeOwnPassword(c, s) \/ ResolveRead(c, s)
          \/ \E other \in Session : RevokeOwn(c, s, other)
    \/ \E c \in Client, u \in Account : ResetPassword(c, u) \/ Suspend(c, u)
    \/ \E u \in Account : Reactivate(u)
    \/ \E s \in Session : GraceEnds(s)
    \/ Tick
    \/ Crash

SessionsSpec == SessionsInit /\ [][SessionsNext]_sessionsVars
-----------------------------------------------------------------------------
(***************************************************************************)
(* Rows hold what the schema lets them hold, and a token was minted in     *)
(* answer to none (a login) or to a token that exists: refresh never       *)
(* accepts a string it did not hand out.                                   *)
(***************************************************************************)
SessionTypeOK ==
    /\ account \in [Account -> [status : {"ACTIVE", "SUSPENDED"}, password : 1 .. MaxPassword]]
    /\ pass \in [Pass -> [user : Account, install : Install, web : BOOLEAN, spent : BOOLEAN]]
    /\ session \in [Session -> Row \cup {NoRow}]
    /\ minted \in [Token -> Mint \cup {NotMinted}]
    /\ cache \in [Session -> 0 .. CacheTicks]
    /\ since \in [Session -> 0 .. CacheTicks]
    /\ \A t \in Token : minted[t] # NotMinted =>
          minted[t].presented \in {NoToken} \cup {p \in Token : minted[p] # NotMinted}

(***************************************************************************)
(* The promise of the grace window, auth.service.ts:187: the token whose   *)
(* answer was lost is still known.  Whatever retries overlapped, the token *)
(* before the current one is the very one that was presented to get it.    *)
(***************************************************************************)
LostAnswerIsForgiven ==
    \A s \in Session : Exists(s) =>
        /\ minted[session[s].current].session = s
        /\ session[s].previous = minted[session[s].current].presented

(***************************************************************************)
(* Rotation: of all requests that present a token while it is current,     *)
(* however they overlap, one gets an heir; the others must take the grace  *)
(* path, which is what makes a reuse visible (auth.service.ts:200).        *)
(***************************************************************************)
OneHeir ==
    \A t1, t2 \in Token :
        /\ minted[t1] # NotMinted /\ minted[t1].fresh /\ minted[t1].presented # NoToken
        /\ minted[t2] # NotMinted /\ minted[t2].fresh
        /\ minted[t1].presented = minted[t2].presented
        => t1 = t2

(***************************************************************************)
(* «One login per session» (auth.service.ts:113): what was started once in *)
(* Telegram signs in once, however many tabs poll or tickets come back.    *)
(***************************************************************************)
PassOnce ==
    \A p \in Pass, s1, s2 \in Session :
        /\ Exists(s1) /\ Exists(s2) /\ p \in session[s1].pass /\ p \in session[s2].pass
        => s1 = s2

(***************************************************************************)
(* A revoked session is over: no refresh that had already read its row     *)
(* gives it a new token (the compare-and-set of auth.service.ts:197).      *)
(***************************************************************************)
RevokedIsFinal ==
    [][\A s \in Session : Exists(s) /\ session[s].revoked =>
          /\ session'[s].revoked
          /\ session'[s].current = session[s].current]_sessionsVars

(***************************************************************************)
(* auth-core.ts:24, «revocations/suspensions apply at once; 5 s cache»:    *)
(* once a session has been revoked or suspended for those five seconds     *)
(* nobody is let in by what is remembered of it, not even when a request   *)
(* that read its row before brings its answer into the cache only now.     *)
(***************************************************************************)
TrustEndsInTime ==
    \A s \in Session : since[s] = CacheTicks => ~Accepted(s)

(***************************************************************************)
(* «The person is signed out everywhere» (users.service.ts:165): when      *)
(* nothing is under way, no living session was opened with a password that *)
(* is not hers any more.  (The session she changed it from counts as       *)
(* opened with the new one.)  The code does not keep this: a login that    *)
(* verified the old password before the reset creates its session after    *)
(* the sessions to revoke were found.                                      *)
(***************************************************************************)
OldPasswordIsGone ==
    (\A c \in Client : inflight[c] = NoHandler) =>
        \A s \in Session : Live(s) /\ session[s].pass = {} =>
            session[s].password = account[session[s].user].password
=============================================================================
