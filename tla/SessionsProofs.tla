--------------------------- MODULE SessionsProofs ---------------------------
(***************************************************************************)
(* What holds of Sessions for any number of accounts, sessions, tokens and *)
(* requests under way.                                                     *)
(*                                                                         *)
(* The inductive invariant Inv joins the types of the tables, what every   *)
(* request remembers (HandlerOK; of a rotation, that the row it read was   *)
(* the row of its token), the ancestry of the tokens (Ancestry) and where  *)
(* a Telegram login went (OnePlace).  A row read before is only as good as *)
(* what cannot change behind it: tokens are minted once and sessions stay  *)
(* (Grows).                                                                *)
(***************************************************************************)
EXTENDS Sessions, TLAPS

Minted(t) == minted[t] # NotMinted
Known == {s \in Session : Exists(s)}

\* A guard that waits for the answer of the database.
Lookup(known) == [op : {"resolve"}, session : known, left : 0 .. CacheTicks]

\* What a request remembers between two of its steps, of sessions that are
\* known and of tokens that were minted.
HandlerOK(h, known, mint) ==
    /\ h.op \in {"verify", "signin", "create"} =>
          h.user \in Account /\ h.install \in Install /\ h.password \in Nat
    /\ h.op \in {"signin", "create"} => h.pass \subseteq Pass
    /\ h.op = "create" => h.stale \subseteq Session
    /\ h.op \in {"exchanged", "poll"} => h.pass \in Pass
    /\ h.op = "rotate" =>
          /\ h.session \in known
          /\ h.token \in Token /\ mint[h.token] # NotMinted
          /\ h.current \in Token /\ h.previous \in Token \cup {NoToken}
          /\ h.token = h.current \/ h.token = h.previous
          /\ mint[h.current].session = h.session
          /\ mint[h.current].presented = h.previous
    /\ h.op \in {"revoke", "forget"} => h.ids \subseteq Session /\ h.refreshed \subseteq Account
    /\ h.op = "findlive" => h.user \in Account /\ h.refreshed \subseteq Account
    /\ h.op = "resolve" => h \in Lookup(known)

HandlersOK == /\ DOMAIN inflight = Client
              /\ \A c \in Client : HandlerOK(inflight[c], Known, minted)

\* Who came after whom: the current token tells the one before, and what was
\* rotated while it was current is current nowhere.
Ancestry ==
    /\ LostAnswerIsForgiven /\ OneHeir
    /\ \A t \in Token : Minted(t) /\ minted[t].fresh /\ minted[t].presented # NoToken =>
          \A s \in Session : Exists(s) => session[s].current # minted[t].presented

\* A request that has spent login p and not yet created its session.
Carries(c, p) == \/ inflight[c].op = "exchanged" /\ inflight[c].pass = p
                 \/ inflight[c].op \in {"signin", "create"} /\ p \in inflight[c].pass
Opened(s, p) == Exists(s) /\ p \in session[s].pass

\* A login is with one request, or with one session, and then it is spent.
OnePlace ==
    \A p \in Pass :
        /\ \A c \in Client : Carries(c, p) =>
              /\ pass[p].spent
              /\ \A d \in Client : Carries(d, p) => c = d
              /\ \A s \in Session : ~Opened(s, p)
        /\ \A s \in Session : Opened(s, p) =>
              /\ pass[p].spent
              /\ \A r \in Session : Opened(r, p) => r = s

\* The principals that are remembered are those of sessions.
CacheOK == \A s \in Session : Accepted(s) => Exists(s)

Inv == SessionTypeOK /\ HandlersOK /\ CacheOK /\ Ancestry /\ OnePlace

\* Nothing that a request may have read is taken back.
Grows == /\ \A s \in Session : Exists(s) => Exists(s)'
         /\ \A t \in Token : Minted(t) => minted'[t] = minted[t]

\* Memory only fades: of no session more is remembered than before.
Fades == /\ cache' \in [Session -> 0 .. CacheTicks] /\ since' \in [Session -> 0 .. CacheTicks]
         /\ \A s \in Session : cache'[s] <= cache[s]

\* A row with some of its columns changed, but not its tokens and its login.
SameTokens ==
    /\ minted' = minted
    /\ \A s \in Session : /\ Exists(s)' <=> Exists(s)
                          /\ Exists(s) => /\ session'[s].current = session[s].current
                                          /\ session'[s].previous = session[s].previous
                                          /\ session'[s].pass = session[s].pass

-----------------------------------------------------------------------------
(* A row that exists has the columns of the table; none of them is NoRow.  *)
LEMMA RowFacts ==
    ASSUME SessionTypeOK, NEW s \in Session, Exists(s)
    PROVE  /\ session[s] \in Row
           /\ session[s].user \in Account /\ session[s].install \in Install
           /\ session[s].current \in Token /\ session[s].previous \in Token \cup {NoToken}
           /\ session[s].revoked \in BOOLEAN /\ session[s].grace \in BOOLEAN
           /\ session[s].password \in Nat /\ session[s].pass \subseteq Pass
<1>1. session[s] \in Row BY DEF SessionTypeOK, Exists
<1> QED BY <1>1 DEF Row

(* A token that was minted for a session is minted.                        *)
LEMMA MintFacts ==
    ASSUME SessionTypeOK, NEW t \in Token
    PROVE  /\ minted[t].session \in Session => Minted(t)
           /\ Minted(t) => /\ minted[t].session \in Session
                           /\ minted[t].presented \in Token \cup {NoToken}
                           /\ minted[t].fresh \in BOOLEAN
                           /\ minted[t].presented \in Token => Minted(minted[t].presented)
<1>1. Minted(t) => minted[t] \in Mint BY DEF SessionTypeOK, Minted
<1>2. Minted(t) => (minted[t].presented \in Token => Minted(minted[t].presented))
  BY SessionsAssumption DEF SessionTypeOK, Minted
<1>3. ~Minted(t) => minted[t].session = NoSession BY DEF Minted, NotMinted
<1> QED BY <1>1, <1>2, <1>3, SessionsAssumption DEF Mint

(* What a request remembers stays good while nothing is taken back.        *)
LEMMA GrowsKeepsHandler ==
    ASSUME SessionTypeOK, Grows, NEW h, HandlerOK(h, Known, minted)
    PROVE  HandlerOK(h, Known', minted')
<1>1. Known \subseteq Known' /\ Lookup(Known) \subseteq Lookup(Known') BY DEF Known, Grows, Lookup
<1>2. h.op = "rotate" => /\ Minted(h.current) /\ Minted(h.token)
                         /\ h.current \in Token /\ h.token \in Token
  BY MintFacts DEF HandlerOK, Known, Minted
<1>3. h.op = "rotate" => /\ minted'[h.current] = minted[h.current]
                         /\ minted'[h.token] = minted[h.token]
  BY <1>2 DEF Grows
<1> QED BY <1>1, <1>3 DEF HandlerOK

(* One slot changes; what the other slots remember stays good.             *)
LEMMA SlotKeepsHandlers ==
    ASSUME HandlersOK, Grows, SessionTypeOK, NEW c \in Client, NEW h,
           inflight' = [inflight EXCEPT ![c] = h], HandlerOK(h, Known', minted')
    PROVE  HandlersOK'
<1>1. ASSUME NEW d \in Client, d # c PROVE HandlerOK(inflight'[d], Known', minted')
  BY <1>1, GrowsKeepsHandler DEF HandlersOK
<1> QED BY <1>1 DEF HandlersOK

(* A request that ends, or a process that dies, remembers nothing.         *)
LEMMA IdleOK == \A known, mint : HandlerOK(NoHandler, known, mint)
BY DEF HandlerOK, NoHandler

(* Where no token changes hands the ancestry stays what it was.            *)
LEMMA SameTokensKeepAncestry ==
    ASSUME Ancestry, SameTokens, SessionTypeOK
    PROVE  Ancestry' /\ Grows
<1>1. LostAnswerIsForgiven' BY DEF Ancestry, LostAnswerIsForgiven, SameTokens
<1>2. OneHeir' BY DEF Ancestry, OneHeir, SameTokens
<1> QED BY <1>1, <1>2 DEF Ancestry, SameTokens, Minted, Grows

(* A login stays in its place while nobody new carries it.                 *)
LEMMA NoNewCarrier ==
    ASSUME OnePlace, SameTokens,
           \A p \in Pass : pass[p].spent => pass'[p].spent,
           \A c \in Client, p \in Pass : Carries(c, p)' => Carries(c, p)
    PROVE  OnePlace'
<1>1. \A s \in Session, p \in Pass : Opened(s, p)' <=> Opened(s, p) BY DEF Opened, SameTokens
<1> QED BY <1>1 DEF OnePlace

(* A step that changes no token: one slot goes on to h, and carries no     *)
(* login that it did not carry before.                                     *)
LEMMA ColumnsStep ==
    ASSUME Inv, SameTokens, SessionTypeOK', CacheOK', NEW c \in Client, NEW h,
           inflight' = [inflight EXCEPT ![c] = h], HandlerOK(h, Known, minted),
           \A p \in Pass : pass[p].spent => pass'[p].spent,
           \A p \in Pass : Carries(c, p)' => Carries(c, p)
    PROVE  Inv'
<1>1. Ancestry' /\ Grows BY SameTokensKeepAncestry DEF Inv
<1>2. Known' = Known /\ minted' = minted BY DEF SameTokens, Known
<1>3. HandlersOK' BY <1>1, <1>2, SlotKeepsHandlers DEF Inv
<1>4. \A d \in Client, p \in Pass : Carries(d, p)' => Carries(d, p)
  BY DEF Carries, Inv, HandlersOK
<1>5. OnePlace' BY <1>4, NoNewCarrier DEF Inv
<1> QED BY <1>1, <1>3, <1>5 DEF Inv

(* A step that changes no token and in which requests go on only by ending.*)
LEMMA IdleStep ==
    ASSUME Inv, SameTokens, SessionTypeOK', CacheOK', UNCHANGED pass, DOMAIN inflight' = Client,
           \A c \in Client : inflight'[c] = inflight[c] \/ inflight'[c] = NoHandler
    PROVE  Inv'
<1>1. Ancestry' BY SameTokensKeepAncestry DEF Inv
<1>2. Known' = Known /\ minted' = minted BY DEF SameTokens, Known
<1>3. HandlersOK' BY <1>2, IdleOK DEF HandlersOK, Inv
<1>4. \A d \in Client, p \in Pass : Carries(d, p)' => Carries(d, p)
  BY DEF Carries, NoHandler
<1>5. OnePlace' BY <1>4, NoNewCarrier DEF Inv
<1> QED BY <1>1, <1>3, <1>5 DEF Inv

(* Most steps change no row of the table at all.                           *)
LEMMA SameRows ==
    ASSUME UNCHANGED <<session, minted>>
    PROVE  /\ SameTokens
           /\ \A s \in Session : Exists(s)' <=> Exists(s)
           /\ SessionTypeOK /\ CacheOK /\ (Fades \/ UNCHANGED cache) => CacheOK'
<1>1. SameTokens /\ \A s \in Session : Exists(s)' <=> Exists(s) BY DEF SameTokens, Exists
<1>2. SessionTypeOK /\ CacheOK /\ (Fades \/ UNCHANGED cache) => CacheOK'
  BY <1>1, SessionsAssumption DEF CacheOK, Accepted, Fades, SessionTypeOK
<1> QED BY <1>1, <1>2

(* Forgetting is a way of fading.                                          *)
LEMMA ForgetFades ==
    ASSUME SessionTypeOK, NEW ids, cache' = Forget(ids), since' \in [Session -> 0 .. CacheTicks]
    PROVE  Fades
BY SessionsAssumption DEF SessionTypeOK, Forget, Fades

(* The types stay when only requests and the cache change.                 *)
LEMMA SameTables ==
    ASSUME SessionTypeOK, UNCHANGED <<account, pass, session, minted>>,
           Fades \/ UNCHANGED <<cache, since>>
    PROVE  SessionTypeOK'
BY DEF SessionTypeOK, Fades

(* A request begins to work on h, nothing else changes.                    *)
LEMMA BeginStep ==
    ASSUME Inv, NEW c \in Client, NEW h, Start(c, h), HandlerOK(h, Known, minted),
           h.op \notin {"exchanged", "signin", "create"}, UNCHANGED authVars
    PROVE  Inv'
<1>1. SameTokens /\ CacheOK' BY SameRows DEF authVars, Inv
<1>2. SessionTypeOK' BY SameTables DEF authVars, Inv, SessionTypeOK
<1>3. \A p \in Pass : ~Carries(c, p)' BY DEF Start, Carries, Inv, HandlersOK
<1> QED BY <1>1, <1>2, <1>3, ColumnsStep DEF Start, authVars
-----------------------------------------------------------------------------
(* Signing in up to the session.                                           *)
LEMMA LoginSteps ==
    ASSUME Inv, NEW c \in Client
    PROVE  /\ \A u \in Account, i \in Install : LoginBegin(c, u, i) => Inv'
           /\ LoginSucceeds(c) => Inv'
           /\ FindStale(c) => Inv'
<1>1. ASSUME NEW u \in Account, NEW i \in Install, LoginBegin(c, u, i) PROVE Inv'
  <2>1. PICK h : h = [op |-> "verify", user |-> u, install |-> i, password |-> account[u].password]
    OBVIOUS
  <2>2. account[u].password \in Nat BY SessionsAssumption DEF Inv, SessionTypeOK
  <2>3. HandlerOK(h, Known, minted) BY <2>1, <2>2 DEF HandlerOK
  <2> QED BY <1>1, <2>1, <2>3, BeginStep DEF LoginBegin
<1>2. ASSUME LoginSucceeds(c) PROVE Inv'
  <2> DEFINE g == inflight[c]
  <2>1. PICK h : h = [op |-> "signin", user |-> g.user, install |-> g.install,
                      password |-> g.password, pass |-> {}]
    OBVIOUS
  <2>2. HandlerOK(g, Known, minted) /\ g.op = "verify"
    BY <1>2 DEF LoginSucceeds, Running, Inv, HandlersOK
  <2>3. HandlerOK(h, Known, minted) BY <2>1, <2>2 DEF HandlerOK
  <2>4. inflight' = [inflight EXCEPT ![c] = h] BY <1>2, <2>1 DEF LoginSucceeds, SignIn
  <2>5. \A p \in Pass : ~Carries(c, p)' BY <2>1, <2>4 DEF Carries, Inv, HandlersOK
  <2>6. SameTokens /\ CacheOK' /\ SessionTypeOK' /\ pass' = pass
    BY <1>2, SameRows, SameTables DEF LoginSucceeds, authVars, Inv, SessionTypeOK
  <2> QED BY <2>3, <2>4, <2>5, <2>6, ColumnsStep
<1>3. ASSUME FindStale(c) PROVE Inv'
  <2> DEFINE g == inflight[c]
             stale == {s \in LiveOf(g.user) : session[s].install = g.install}
  <2>1. PICK h : h = [op |-> "create", user |-> g.user, install |-> g.install,
                      password |-> g.password, pass |-> g.pass, stale |-> stale]
    OBVIOUS
  <2>2. HandlerOK(g, Known, minted) /\ g.op = "signin"
    BY <1>3 DEF FindStale, Running, Inv, HandlersOK
  <2>3. stale \subseteq Session BY DEF LiveOf
  <2>4. HandlerOK(h, Known, minted) BY <2>1, <2>2, <2>3 DEF HandlerOK
  <2>5. inflight' = [inflight EXCEPT ![c] = h] BY <1>3, <2>1 DEF FindStale
  <2>6. \A p \in Pass : Carries(c, p)' => Carries(c, p)
    BY <2>1, <2>2, <2>5 DEF Carries, Inv, HandlersOK
  <2>7. Fades BY <1>3, ForgetFades DEF FindStale, Inv, SessionTypeOK
  <2>8. SameTokens /\ CacheOK' /\ SessionTypeOK' /\ pass' = pass
    BY <1>3, <2>7, SameRows, SameTables DEF FindStale, Inv, SessionTypeOK
  <2> QED BY <2>4, <2>5, <2>6, <2>8, ColumnsStep
<1> QED BY <1>1, <1>2, <1>3

(* A login from Telegram: once it is spent, one request carries it.        *)
LEMMA SpendStep ==
    ASSUME Inv, NEW c \in Client, NEW p \in Pass, ~pass[p].spent, NEW h,
           inflight' = [inflight EXCEPT ![c] = h], HandlerOK(h, Known, minted),
           pass' = [pass EXCEPT ![p].spent = TRUE], UNCHANGED <<account, session, minted, cache, since>>,
           \A q \in Pass : Carries(c, q)' => q = p
    PROVE  Inv'
<1>1. SameTokens /\ CacheOK' BY SameRows DEF Inv
<1>2. Ancestry' /\ Grows BY <1>1, SameTokensKeepAncestry DEF Inv
<1>3. HandlersOK' BY <1>1, <1>2, SlotKeepsHandlers DEF Inv, SameTokens, Known
<1> DEFINE Login == [user : Account, install : Install, web : BOOLEAN, spent : BOOLEAN]
<1>4. pass \in [Pass -> Login] BY DEF Inv, SessionTypeOK
<1>5. PICK spent : spent = [pass[p] EXCEPT !.spent = TRUE] OBVIOUS
<1>6. spent \in Login /\ spent.spent BY <1>4, <1>5
<1>7. pass' = [pass EXCEPT ![p] = spent] BY <1>5, Zenon
<1>8. pass' \in [Pass -> Login] BY <1>4, <1>6, <1>7
<1>9. SessionTypeOK' BY <1>8 DEF Inv, SessionTypeOK
<1>10. \A q \in Pass : pass'[q].spent <=> pass[q].spent \/ q = p BY <1>4, <1>6, <1>7
<1>11. \A d \in Client, q \in Pass : Carries(d, q)' => Carries(d, q) \/ (d = c /\ q = p)
  BY DEF Carries, Inv, HandlersOK
<1>12. \A s \in Session, q \in Pass : Opened(s, q)' <=> Opened(s, q)
  BY <1>1 DEF Opened, SameTokens
<1>13. /\ \A d \in Client : ~Carries(d, p)
       /\ \A s \in Session : ~Opened(s, p)
  BY DEF Inv, OnePlace
<1>14. OnePlace' BY <1>10, <1>11, <1>12, <1>13 DEF Inv, OnePlace
<1> QED BY <1>1, <1>2, <1>3, <1>9, <1>14 DEF Inv

(* What a Telegram login calls createSession with.                         *)
LEMMA SignInOK ==
    ASSUME NEW p \in Pass, NEW u \in Account, NEW i \in Install
    PROVE  HandlerOK([op |-> "signin", user |-> u, install |-> i, password |-> 0, pass |-> {p}],
                     Known, minted)
<1>1. PICK h : h = [op |-> "signin", user |-> u, install |-> i, password |-> 0, pass |-> {p}]
  OBVIOUS
<1>2. HandlerOK(h, Known, minted) BY <1>1 DEF HandlerOK
<1> QED BY <1>1, <1>2

(* The app's ticket and the browser's poll.                                *)
LEMMA PassSteps ==
    ASSUME Inv, NEW c \in Client
    PROVE  /\ \A p \in Pass : ExchangeTicket(c, p) \/ PollBegin(c, p) => Inv'
           /\ TicketLogin(c) => Inv'
           /\ PollSpend(c) => Inv'
<1>0. ASSUME NEW p \in Pass
      PROVE  /\ pass[p].user \in Account /\ pass[p].install \in Install
             /\ account[pass[p].user].status \in {"ACTIVE", "SUSPENDED"}
  BY DEF Inv, SessionTypeOK
<1>1. ASSUME NEW p \in Pass, ExchangeTicket(c, p) PROVE Inv'
  <2>1. PICK h : h = [op |-> "exchanged", pass |-> p] OBVIOUS
  <2>2. HandlerOK(h, Known, minted) BY <2>1 DEF HandlerOK
  <2>3. inflight' = [inflight EXCEPT ![c] = h] BY <1>1, <2>1 DEF ExchangeTicket, Start
  <2>4. \A q \in Pass : Carries(c, q)' => q = p BY <2>1, <2>3 DEF Carries, Inv, HandlersOK
  <2> QED BY <1>1, <2>2, <2>3, <2>4, SpendStep DEF ExchangeTicket
<1>2. ASSUME NEW p \in Pass, PollBegin(c, p) PROVE Inv'
  <2>1. PICK h : h = [op |-> "poll", pass |-> p, status |-> account[pass[p].user].status]
    OBVIOUS
  <2>2. HandlerOK(h, Known, minted) BY <2>1 DEF HandlerOK
  <2> QED BY <1>2, <2>1, <2>2, BeginStep DEF PollBegin
<1>3. ASSUME TicketLogin(c) PROVE Inv'
  <2>0. HandlerOK(inflight[c], Known, minted) /\ inflight[c].op = "exchanged"
    BY <1>3 DEF TicketLogin, Running, Inv, HandlersOK
  <2>1. PICK p \in Pass : p = inflight[c].pass BY <2>0 DEF HandlerOK
  <2>2. PICK h : /\ inflight' = [inflight EXCEPT ![c] = h]
                 /\ \/ h = [op |-> "signin", user |-> pass[p].user, install |-> pass[p].install,
                             password |-> 0, pass |-> {p}]
                    \/ h = NoHandler
    BY <1>3, <2>1 DEF TicketLogin, SignIn, Finish
  <2>3. HandlerOK(h, Known, minted) BY <1>0, <2>2, IdleOK, SignInOK
  <2>4. \A q \in Pass : Carries(c, q)' => Carries(c, q)
    BY <2>0, <2>1, <2>2 DEF Carries, Inv, HandlersOK, NoHandler
  <2>5. SameTokens /\ CacheOK' /\ SessionTypeOK' /\ pass' = pass
    BY <1>3, SameRows, SameTables DEF TicketLogin, authVars, Inv, SessionTypeOK
  <2> QED BY <2>2, <2>3, <2>4, <2>5, ColumnsStep
<1>4. ASSUME PollSpend(c) PROVE Inv'
  <2>0. HandlerOK(inflight[c], Known, minted) /\ inflight[c].op = "poll"
    BY <1>4 DEF PollSpend, Running, Inv, HandlersOK
  <2>1. PICK p \in Pass : p = inflight[c].pass BY <2>0 DEF HandlerOK
  <2>2. PICK h : /\ inflight' = [inflight EXCEPT ![c] = h]
                 /\ \/ /\ ~pass[p].spent
                       /\ h = [op |-> "signin", user |-> pass[p].user, install |-> pass[p].install,
                               password |-> 0, pass |-> {p}]
                    \/ h = NoHandler
    BY <1>4, <2>1 DEF PollSpend, Spendable, SignIn, Finish
  <2>3. HandlerOK(h, Known, minted) BY <1>0, <2>2, IdleOK, SignInOK
  <2>4. \A q \in Pass : Carries(c, q)' => q = p /\ ~pass[p].spent
    BY <2>2 DEF Carries, Inv, HandlersOK, NoHandler
  <2>5. CASE ~pass[p].spent
    BY <1>4, <2>1, <2>2, <2>3, <2>4, <2>5, SpendStep DEF PollSpend
  <2>6. CASE pass[p].spent
    <3>1. pass' = [pass EXCEPT ![p].spent = TRUE] BY <1>4, <2>1 DEF PollSpend
    <3>2. pass \in [Pass -> [user : Account, install : Install, web : BOOLEAN, spent : BOOLEAN]]
      BY DEF Inv, SessionTypeOK
    <3>3. [pass[p] EXCEPT !.spent = TRUE] = pass[p] BY <2>6, <3>2
    <3>4. pass' = [pass EXCEPT ![p] = pass[p]] BY <3>1, <3>3, Zenon
    <3>5. pass' = pass BY <3>2, <3>4
    <3>6. SameTokens /\ CacheOK' /\ SessionTypeOK'
      BY <1>4, <3>5, SameRows, SameTables DEF PollSpend, Inv, SessionTypeOK
    <3>7. \A q \in Pass : ~Carries(c, q)' BY <2>4, <2>6
    <3> QED BY <2>2, <2>3, <3>5, <3>6, <3>7, ColumnsStep
  <2> QED BY <2>5, <2>6
<1> QED BY <1>1, <1>2, <1>3, <1>4
-----------------------------------------------------------------------------
(* Whoever presents a token finds a row whose tokens are of one descent.   *)
LEMMA RefreshReadOK ==
    ASSUME Inv, NEW c \in Client, NEW t \in Token, NEW again \in BOOLEAN, RefreshRead(c, t, again)
    PROVE  \E h : /\ inflight' = [inflight EXCEPT ![c] = h]
                  /\ HandlerOK(h, Known, minted)
                  /\ h.op \in {"rotate", "revoke"}
<1>1. PICK s \in Session :
          /\ Usable(s) /\ Presents(s, t)
          /\ inflight' = [inflight EXCEPT ![c] =
                IF Forgiven(s, t)
                THEN [op |-> "rotate", session |-> s, token |-> t, again |-> again,
                      current |-> session[s].current, previous |-> session[s].previous]
                ELSE [op |-> "revoke", ids |-> {s}, refreshed |-> {}]]
  BY DEF RefreshRead
<1>2. Exists(s) /\ s \in Known BY <1>1 DEF Usable, Live, Known
<1>3. /\ session[s].current \in Token /\ session[s].previous \in Token \cup {NoToken}
  BY <1>2, RowFacts DEF Inv
<1>4. /\ minted[session[s].current].session = s
      /\ minted[session[s].current].presented = session[s].previous
  BY <1>2 DEF Inv, Ancestry, LostAnswerIsForgiven
<1>5. Minted(session[s].current) BY <1>3, <1>4, MintFacts DEF Inv
<1>6. Minted(t) BY <1>1, <1>3, <1>4, <1>5, MintFacts DEF Inv, Presents
<1>7. CASE Forgiven(s, t)
  <2>1. PICK h : h = [op |-> "rotate", session |-> s, token |-> t, again |-> again,
                      current |-> session[s].current, previous |-> session[s].previous]
    OBVIOUS
  <2>2. HandlerOK(h, Known, minted)
    BY <1>1, <1>2, <1>3, <1>4, <1>6, <2>1 DEF HandlerOK, Minted, Presents
  <2>3. inflight' = [inflight EXCEPT ![c] = h] BY <1>1, <1>7, <2>1
  <2>4. h.op = "rotate" BY <2>1
  <2> QED BY <2>2, <2>3, <2>4
<1>8. CASE ~Forgiven(s, t)
  <2>1. PICK h : h = [op |-> "revoke", ids |-> {s}, refreshed |-> {}] OBVIOUS
  <2>2. HandlerOK(h, Known, minted) BY <2>1 DEF HandlerOK
  <2>3. inflight' = [inflight EXCEPT ![c] = h] BY <1>1, <1>8, <2>1
  <2>4. h.op = "revoke" BY <2>1
  <2> QED BY <2>2, <2>3, <2>4
<1> QED BY <1>7, <1>8

(* Reading a row for a refresh, the first time and the second.             *)
LEMMA RefreshSteps ==
    ASSUME Inv, NEW c \in Client
    PROVE  /\ \A t \in Token : RefreshBegin(c, t) => Inv'
           /\ RotateLost(c) => Inv'
<1>0. ASSUME UNCHANGED authVars PROVE SameTokens /\ CacheOK' /\ SessionTypeOK' /\ pass' = pass
  BY <1>0, SameRows, SameTables DEF authVars, Inv, SessionTypeOK
<1>1. ASSUME UNCHANGED authVars, NEW h, inflight' = [inflight EXCEPT ![c] = h],
             HandlerOK(h, Known, minted), h.op \in {"rotate", "revoke", "idle"}
      PROVE  Inv'
  <2>1. \A p \in Pass : ~Carries(c, p)' BY <1>1 DEF Carries, Inv, HandlersOK
  <2> QED BY <1>0, <1>1, <2>1, ColumnsStep
<1>2. ASSUME NEW t \in Token, RefreshBegin(c, t) PROVE Inv'
  BY <1>1, <1>2, RefreshReadOK DEF RefreshBegin
<1>3. ASSUME RotateLost(c) PROVE Inv'
  <2>1. inflight[c].token \in Token BY <1>3 DEF RotateLost, Running, Inv, HandlersOK, HandlerOK
  <2>2. CASE RefreshRead(c, inflight[c].token, TRUE)
    BY <1>1, <1>3, <2>1, <2>2, RefreshReadOK DEF RotateLost
  <2>3. CASE Finish(c)
    <3>1. HandlerOK(NoHandler, Known, minted) /\ NoHandler.op = "idle" BY IdleOK DEF NoHandler
    <3> QED BY <1>1, <1>3, <2>3, <3>1 DEF RotateLost, Finish
  <2> QED BY <1>3, <2>2, <2>3 DEF RotateLost
<1> QED BY <1>2, <1>3
-----------------------------------------------------------------------------
(* What signing out, a new password or a suspension does to rows: it       *)
(* changes columns of theirs that are neither token nor login.             *)
LEMMA ColumnChange ==
    ASSUME SessionTypeOK, NEW s \in Session, Exists(s), NEW n,
           \/ n = [session[s] EXCEPT !.revoked = TRUE]
           \/ n = [session[s] EXCEPT !.grace = FALSE]
           \/ \E v \in Nat : n = [session[s] EXCEPT !.password = v]
    PROVE  /\ n \in Row /\ n # NoRow
           /\ n.current = session[s].current /\ n.previous = session[s].previous
           /\ n.pass = session[s].pass
<1>1. session[s] \in Row BY RowFacts
<1>2. n \in Row BY <1>1 DEF Row
<1>3. n.user \in Account BY <1>2 DEF Row
<1>4. n # NoRow BY <1>3, SessionsAssumption DEF NoRow
<1> QED BY <1>1, <1>2, <1>4 DEF Row

(* The table after such a change of some rows.                             *)
LEMMA ColumnsChange ==
    ASSUME SessionTypeOK, UNCHANGED minted, DOMAIN session' = Session,
           \A s \in Session :
              \/ session'[s] = session[s]
              \/ /\ Exists(s)
                 /\ \/ session'[s] = [session[s] EXCEPT !.revoked = TRUE]
                    \/ session'[s] = [session[s] EXCEPT !.grace = FALSE]
                    \/ \E v \in Nat : session'[s] = [session[s] EXCEPT !.password = v],
           session' = [s \in Session |-> session'[s]]
    PROVE  SameTokens /\ session' \in [Session -> Row \cup {NoRow}]
<1>1. ASSUME NEW s \in Session
      PROVE  /\ session'[s] \in Row \cup {NoRow}
             /\ Exists(s)' <=> Exists(s)
             /\ Exists(s) => /\ session'[s].current = session[s].current
                             /\ session'[s].previous = session[s].previous
                             /\ session'[s].pass = session[s].pass
  BY <1>1, ColumnChange DEF Exists, SessionTypeOK
<1> QED BY <1>1 DEF SameTokens

(* Requests that begin to sign somebody out.                               *)
LEMMA SignOutBegins ==
    ASSUME Inv, NEW c \in Client, NEW s \in Session, NEW other \in Session,
           Logout(c, s) \/ LogoutAll(c, s) \/ RevokeOwn(c, s, other) \/ ResolveRead(c, s)
    PROVE  Inv'
<1>1. CASE Logout(c, s)
  <2>1. PICK h : h = [op |-> "revoke", ids |-> {s}, refreshed |-> {}] OBVIOUS
  <2>2. HandlerOK(h, Known, minted) BY <2>1 DEF HandlerOK
  <2> QED BY <1>1, <2>1, <2>2, BeginStep DEF Logout
<1>2. CASE LogoutAll(c, s)
  <2>1. PICK h : h = [op |-> "findlive", user |-> session[s].user, keep |-> {}, refreshed |-> {}]
    OBVIOUS
  <2>2. session[s].user \in Account BY <1>2, RowFacts DEF LogoutAll, Inv, CacheOK
  <2>3. HandlerOK(h, Known, minted) BY <2>1, <2>2 DEF HandlerOK
  <2> QED BY <1>2, <2>1, <2>3, BeginStep DEF LogoutAll, RevokeAll
<1>3. CASE RevokeOwn(c, s, other)
  <2>1. PICK h : h = [op |-> "revoke", ids |-> {other}, refreshed |-> {}] OBVIOUS
  <2>2. HandlerOK(h, Known, minted) BY <2>1 DEF HandlerOK
  <2> QED BY <1>3, <2>1, <2>2, BeginStep DEF RevokeOwn
<1>4. CASE ResolveRead(c, s)
  <2>1. PICK h : h = [op |-> "resolve", session |-> s, left |-> CacheTicks] OBVIOUS
  <2>2. s \in Known BY <1>4 DEF ResolveRead, Valid, Live, Known
  <2>3. HandlerOK(h, Known, minted) BY <2>1, <2>2, SessionsAssumption DEF HandlerOK, Lookup
  <2> QED BY <1>4, <2>1, <2>3, BeginStep DEF ResolveRead
<1> QED BY <1>1, <1>2, <1>3, <1>4

(* What they do next, and what the guard remembers.                        *)
LEMMA SignOutSteps ==
    ASSUME Inv, NEW c \in Client, FindLive(c) \/ RevokeWrite(c) \/ RevokeForget(c) \/ ResolveCache(c)
    PROVE  Inv'
<1> DEFINE g == inflight[c]
<1>0. HandlerOK(g, Known, minted) BY DEF Inv, HandlersOK
<1>1. CASE FindLive(c)
  <2>1. PICK h : h = [op |-> "revoke", ids |-> LiveOf(g.user) \ g.keep, refreshed |-> g.refreshed]
    OBVIOUS
  <2>2. LiveOf(g.user) \subseteq Session BY DEF LiveOf
  <2>3. HandlerOK(h, Known, minted) BY <1>0, <1>1, <2>1, <2>2 DEF HandlerOK, FindLive, Running
  <2>4. inflight' = [inflight EXCEPT ![c] = h] BY <1>1, <2>1 DEF FindLive
  <2>5. \A p \in Pass : ~Carries(c, p)' BY <2>1, <2>4 DEF Carries, Inv, HandlersOK
  <2>6. SameTokens /\ CacheOK' /\ SessionTypeOK' /\ pass' = pass
    BY <1>1, SameRows, SameTables DEF FindLive, authVars, Inv, SessionTypeOK
  <2> QED BY <2>3, <2>4, <2>5, <2>6, ColumnsStep
<1>2. CASE RevokeWrite(c)
  <2>1. PICK h : h = [op |-> "forget", ids |-> g.ids, refreshed |-> g.refreshed] OBVIOUS
  <2>2. HandlerOK(h, Known, minted) BY <1>0, <1>2, <2>1 DEF HandlerOK, RevokeWrite, Running
  <2>3. inflight' = [inflight EXCEPT ![c] = h] BY <1>2, <2>1 DEF RevokeWrite
  <2>4. \A p \in Pass : ~Carries(c, p)' BY <2>1, <2>3 DEF Carries, Inv, HandlersOK
  <2>5. SameTokens /\ session' \in [Session -> Row \cup {NoRow}]
    BY <1>2, ColumnsChange DEF RevokeWrite, Revoked, Inv
  <2>6. SessionTypeOK' BY <1>2, <2>5 DEF RevokeWrite, Inv, SessionTypeOK
  <2>7. CacheOK' BY <1>2, <2>5 DEF RevokeWrite, SameTokens, CacheOK, Accepted, Inv, SessionTypeOK
  <2> QED BY <1>2, <2>2, <2>3, <2>4, <2>5, <2>6, <2>7, ColumnsStep DEF RevokeWrite
<1>3. CASE RevokeForget(c)
  <2>1. Fades BY <1>3, ForgetFades DEF RevokeForget, Inv, SessionTypeOK
  <2>2. SameTokens /\ CacheOK' /\ SessionTypeOK' /\ pass' = pass
    BY <1>3, <2>1, SameRows, SameTables DEF RevokeForget, Inv, SessionTypeOK
  <2> QED BY <1>3, <2>2, IdleStep DEF RevokeForget, Finish, Inv, HandlersOK
<1>4. CASE ResolveCache(c)
  <2>1. g.session \in Session /\ Exists(g.session)
    BY <1>0, <1>4 DEF HandlerOK, Lookup, Known, ResolveCache, Running
  <2>2. g.left \in 0 .. CacheTicks BY <1>0, <1>4 DEF HandlerOK, Lookup, ResolveCache, Running
  <2>3. cache' = [cache EXCEPT ![g.session] = g.left] BY <1>4 DEF ResolveCache, Left
  <2>4. SameTokens /\ pass' = pass /\ \A s \in Session : Exists(s)' <=> Exists(s)
    BY <1>4, SameRows DEF ResolveCache
  <2>5. SessionTypeOK' BY <1>4, <2>1, <2>2, <2>3 DEF ResolveCache, Inv, SessionTypeOK
  <2>6. CacheOK' BY <2>1, <2>3, <2>4 DEF CacheOK, Accepted, Inv, SessionTypeOK
  <2> QED BY <1>4, <2>4, <2>5, <2>6, IdleStep DEF ResolveCache, Finish, Inv, HandlersOK
<1> QED BY <1>1, <1>2, <1>3, <1>4

(* What happens to an account: a new password, a suspension and its end.   *)
LEMMA AccountTypes ==
    ASSUME Inv, NEW u \in Account,
           \/ \E c \in Client : ResetPassword(c, u) \/ Suspend(c, u)
           \/ Reactivate(u)
    PROVE  /\ SessionTypeOK' /\ SameTokens /\ CacheOK'
           /\ UNCHANGED pass
<1> DEFINE User == [status : {"ACTIVE", "SUSPENDED"}, password : 1 .. MaxPassword]
<1>1. account \in [Account -> User] BY DEF Inv, SessionTypeOK
<1>2. account' \in [Account -> User]
  <2>1. account[u] \in User BY <1>1
  <2>2. ASSUME NewPassword(u) PROVE account' \in [Account -> User]
    <3>1. PICK n : n = [account[u] EXCEPT !.password = account[u].password + 1] OBVIOUS
    <3>2. n \in User BY <2>1, <2>2, <3>1, SessionsAssumption DEF NewPassword
    <3>3. account' = [account EXCEPT ![u] = n] BY <2>2, <3>1, Zenon DEF NewPassword
    <3> QED BY <1>1, <3>2, <3>3
  <2>3. ASSUME NEW st \in {"ACTIVE", "SUSPENDED"}, account' = [account EXCEPT ![u].status = st]
        PROVE  account' \in [Account -> User]
    <3>1. PICK n : n = [account[u] EXCEPT !.status = st] OBVIOUS
    <3>2. n \in User BY <2>1, <3>1
    <3>3. account' = [account EXCEPT ![u] = n] BY <2>3, <3>1, Zenon
    <3> QED BY <1>1, <3>2, <3>3
  <2> QED BY <2>2, <2>3 DEF ResetPassword, Suspend, Reactivate
<1>3. UNCHANGED <<pass, session, minted>> BY DEF ResetPassword, Suspend, Reactivate
<1>4. Fades \/ UNCHANGED <<cache, since>>
  <2>1. CASE Reactivate(u)
    <3>1. since' \in [Session -> 0 .. CacheTicks]
      BY <2>1, SessionsAssumption DEF Reactivate, Inv, SessionTypeOK
    <3> QED BY <2>1, <3>1, ForgetFades DEF Reactivate, Inv
  <2>2. CASE \E c \in Client : ResetPassword(c, u) \/ Suspend(c, u)
    BY <2>2 DEF ResetPassword, Suspend
  <2> QED BY <2>1, <2>2
<1>5. SessionTypeOK' BY <1>2, <1>3, <1>4 DEF Inv, SessionTypeOK, Fades
<1> QED BY <1>3, <1>4, <1>5, SameRows DEF Inv

(* ... and the request that does it.                                       *)
LEMMA AccountSteps ==
    ASSUME Inv, NEW u \in Account
    PROVE  /\ \A c \in Client : ResetPassword(c, u) \/ Suspend(c, u) => Inv'
           /\ Reactivate(u) => Inv'
<1>1. ASSUME NEW c \in Client, ResetPassword(c, u) \/ Suspend(c, u) PROVE Inv'
  <2>1. PICK h : /\ Start(c, h)
                 /\ \/ h = [op |-> "findlive", user |-> u, keep |-> {}, refreshed |-> {}]
                    \/ h = [op |-> "findlive", user |-> u, keep |-> {}, refreshed |-> {u}]
    BY <1>1 DEF ResetPassword, Suspend, RevokeAll
  <2>2. HandlerOK(h, Known, minted) BY <2>1 DEF HandlerOK
  <2>3. inflight' = [inflight EXCEPT ![c] = h] /\ h.op = "findlive" BY <2>1 DEF Start
  <2>4. \A p \in Pass : ~Carries(c, p)' BY <2>3 DEF Carries, Inv, HandlersOK
  <2>5. SessionTypeOK' /\ SameTokens /\ CacheOK' /\ UNCHANGED pass BY <1>1, AccountTypes
  <2> QED BY <2>2, <2>3, <2>4, <2>5, ColumnsStep
<1>2. ASSUME Reactivate(u) PROVE Inv'
  <2>1. SessionTypeOK' /\ SameTokens /\ CacheOK' /\ UNCHANGED pass BY <1>2, AccountTypes
  <2> QED BY <1>2, <2>1, IdleStep DEF Reactivate, Inv, HandlersOK
<1> QED BY <1>1, <1>2

(* She changes her own password: the session she does it from goes on.     *)
LEMMA ChangePasswordStep ==
    ASSUME Inv, NEW c \in Client, NEW s \in Session, ChangeOwnPassword(c, s)
    PROVE  Inv'
<1>1. Exists(s) BY DEF ChangeOwnPassword, Inv, CacheOK
<1> DEFINE u == session[s].user
           User == [status : {"ACTIVE", "SUSPENDED"}, password : 1 .. MaxPassword]
<1>2. u \in Account BY <1>1, RowFacts DEF Inv
<1>3. account \in [Account -> User] /\ account[u] \in User BY <1>2 DEF Inv, SessionTypeOK
<1>4. account' \in [Account -> User]
  <2>1. PICK n : n = [account[u] EXCEPT !.password = account[u].password + 1] OBVIOUS
  <2>2. n \in User BY <1>3, <2>1, SessionsAssumption DEF ChangeOwnPassword, NewPassword
  <2>3. account' = [account EXCEPT ![u] = n] BY <2>1, Zenon DEF ChangeOwnPassword, NewPassword
  <2> QED BY <1>3, <2>2, <2>3
<1>5. SameTokens /\ session' \in [Session -> Row \cup {NoRow}]
  <2>1. PICK n : n = [session[s] EXCEPT !.password = account[u].password + 1] OBVIOUS
  <2>2. session' = [session EXCEPT ![s] = n] BY <2>1, Zenon DEF ChangeOwnPassword
  <2>3. account[u].password + 1 \in Nat BY <1>3, SessionsAssumption
  <2>4. session'[s] = [session[s] EXCEPT !.password = account[u].password + 1]
    BY <2>1, <2>2 DEF Inv, SessionTypeOK
  <2>5. \A r \in Session : r # s => session'[r] = session[r] BY <2>2 DEF Inv, SessionTypeOK
  <2>6. DOMAIN session' = Session /\ session' = [r \in Session |-> session'[r]]
    BY <2>2 DEF Inv, SessionTypeOK
  <2>7. UNCHANGED minted /\ SessionTypeOK BY DEF ChangeOwnPassword, Inv
  <2> QED BY <1>1, <2>3, <2>4, <2>5, <2>6, <2>7, ColumnsChange
<1>6. UNCHANGED <<pass, minted, cache, since>> BY DEF ChangeOwnPassword
<1>7. SessionTypeOK' BY <1>4, <1>5, <1>6 DEF Inv, SessionTypeOK
<1>8. CacheOK' BY <1>5, <1>6 DEF SameTokens, CacheOK, Accepted, Inv, SessionTypeOK
<1>9. PICK h : h = [op |-> "findlive", user |-> u, keep |-> {s}, refreshed |-> {}] OBVIOUS
<1>10. HandlerOK(h, Known, minted) BY <1>2, <1>9 DEF HandlerOK
<1>11. inflight' = [inflight EXCEPT ![c] = h] BY <1>9 DEF ChangeOwnPassword, RevokeAll, Start
<1>12. \A p \in Pass : ~Carries(c, p)' BY <1>9, <1>11 DEF Carries, Inv, HandlersOK
<1> QED BY <1>5, <1>6, <1>7, <1>8, <1>10, <1>11, <1>12, ColumnsStep

(* The clock and the crash.                                                *)
LEMMA TimeSteps ==
    ASSUME Inv
    PROVE  /\ \A s \in Session : GraceEnds(s) => Inv'
           /\ Tick => Inv'
           /\ Crash => Inv'
<1>1. ASSUME NEW s \in Session, GraceEnds(s) PROVE Inv'
  <2>1. PICK n : n = [session[s] EXCEPT !.grace = FALSE] OBVIOUS
  <2>2. session' = [session EXCEPT ![s] = n] BY <1>1, <2>1, Zenon DEF GraceEnds
  <2>3. session'[s] = [session[s] EXCEPT !.grace = FALSE] BY <2>1, <2>2 DEF Inv, SessionTypeOK
  <2>4. \A r \in Session : r # s => session'[r] = session[r] BY <2>2 DEF Inv, SessionTypeOK
  <2>5. DOMAIN session' = Session /\ session' = [r \in Session |-> session'[r]]
    BY <2>2 DEF Inv, SessionTypeOK
  <2>6. UNCHANGED <<account, pass, minted, cache, since, inflight>> /\ SessionTypeOK /\ Exists(s)
    BY <1>1 DEF GraceEnds, Inv
  <2>7. SameTokens /\ session' \in [Session -> Row \cup {NoRow}]
    BY <2>3, <2>4, <2>5, <2>6, ColumnsChange
  <2>8. SessionTypeOK' BY <2>6, <2>7 DEF Inv, SessionTypeOK
  <2>9. CacheOK' BY <2>6, <2>7 DEF SameTokens, CacheOK, Accepted, Inv, SessionTypeOK
  <2> QED BY <2>6, <2>7, <2>8, <2>9, IdleStep DEF Inv, HandlersOK
<1>2. ASSUME Tick PROVE Inv'
  <2>1. UNCHANGED <<account, pass, session, minted>> BY <1>2 DEF Tick
  <2>2. Fades
    <3>1. cache \in [Session -> 0 .. CacheTicks] /\ since \in [Session -> 0 .. CacheTicks]
      BY DEF Inv, SessionTypeOK
    <3>2. \A n \in 0 .. CacheTicks : Later(n) \in 0 .. CacheTicks /\ Later(n) <= n
      BY SessionsAssumption DEF Later
    <3>3. \A s \in Session : cache'[s] \in 0 .. CacheTicks /\ cache'[s] <= cache[s]
      BY <1>2, <3>1, <3>2 DEF Tick
    <3>4. cache' \in [Session -> 0 .. CacheTicks] BY <1>2, <3>3 DEF Tick
    <3>5. \A s \in Session : since'[s] \in 0 .. CacheTicks
      BY <1>2, <3>1, SessionsAssumption DEF Tick
    <3>6. since' \in [Session -> 0 .. CacheTicks] BY <1>2, <3>5 DEF Tick
    <3> QED BY <3>3, <3>4, <3>6 DEF Fades
  <2>3. SameTokens /\ CacheOK' /\ SessionTypeOK' BY <2>1, <2>2, SameRows, SameTables DEF Inv
  <2>4. Ancestry' BY <2>3, SameTokensKeepAncestry DEF Inv
  <2>5. Known' = Known /\ minted' = minted BY <2>3 DEF SameTokens, Known
  <2>6. ASSUME NEW c \in Client
        PROVE  /\ HandlerOK(inflight'[c], Known, minted)
               /\ \A p \in Pass : Carries(c, p)' => Carries(c, p)
    <3>1. HandlerOK(inflight[c], Known, minted) BY DEF Inv, HandlersOK
    <3>2. CASE ~Running(c, "resolve")
      <4>1. inflight'[c] = inflight[c] BY <1>2, <3>2 DEF Tick
      <4> QED BY <3>1, <4>1 DEF Carries
    <3>3. CASE Running(c, "resolve")
      <4>1. PICK h : h = [inflight[c] EXCEPT !.left = Later(inflight[c].left)] OBVIOUS
      <4>2. inflight'[c] = h BY <1>2, <3>3, <4>1 DEF Tick
      <4>3. inflight[c] \in Lookup(Known) BY <3>1, <3>3 DEF Running, HandlerOK
      <4>4. Later(inflight[c].left) \in 0 .. CacheTicks
        BY <4>3, SessionsAssumption DEF Lookup, Later
      <4>5. h \in Lookup(Known) BY <4>1, <4>3, <4>4 DEF Lookup
      <4>6. h.op = "resolve" BY <4>5 DEF Lookup
      <4>7. HandlerOK(h, Known, minted) BY <4>5, <4>6 DEF HandlerOK
      <4>8. \A p \in Pass : ~Carries(c, p)' BY <4>2, <4>6 DEF Carries
      <4> QED BY <4>2, <4>7, <4>8
    <3> QED BY <3>2, <3>3
  <2>7. HandlersOK' BY <1>2, <2>5, <2>6 DEF Tick, HandlersOK
  <2>8. OnePlace' BY <2>1, <2>3, <2>6, NoNewCarrier DEF Inv
  <2> QED BY <2>3, <2>4, <2>7, <2>8 DEF Inv
<1>3. ASSUME Crash PROVE Inv'
  <2>1. UNCHANGED <<account, pass, session, minted>> BY <1>3 DEF Crash
  <2>2. Fades BY <1>3, SessionsAssumption DEF Crash, Fades, Inv, SessionTypeOK
  <2>3. SameTokens /\ CacheOK' /\ SessionTypeOK' BY <2>1, <2>2, SameRows, SameTables DEF Inv
  <2> QED BY <1>3, <2>1, <2>3, IdleStep DEF Crash, Inv, HandlersOK
<1> QED BY <1>1, <1>2, <1>3
-----------------------------------------------------------------------------
(* What minting a token for a session comes to: the table stays typed, and *)
(* nothing minted before changes.                                          *)
TokenMinted(s, presented, fresh) ==
    /\ NewToken \in Token /\ ~Minted(NewToken)
    /\ \A t \in Token : t # NewToken => minted'[t] = minted[t]
    /\ minted'[NewToken].session = s /\ minted'[NewToken].presented = presented
    /\ minted'[NewToken].fresh = fresh /\ minted'[NewToken] # NotMinted
    /\ minted' \in [Token -> Mint \cup {NotMinted}]
    /\ \A t \in Token : minted'[t] # NotMinted =>
          minted'[t].presented \in {NoToken} \cup {p \in Token : minted'[p] # NotMinted}

(* A token minted for a session: the table of the mint stays typed, and    *)
(* nothing minted before changes.                                          *)
LEMMA MintStep ==
    ASSUME SessionTypeOK, \E t \in Token : minted[t] = NotMinted, NEW s \in Session,
           NEW presented \in Token \cup {NoToken}, presented \in Token => Minted(presented),
           NEW fresh \in BOOLEAN,
           minted' = [minted EXCEPT ![NewToken] =
                        [session |-> s, presented |-> presented, fresh |-> fresh]]
    PROVE  TokenMinted(s, presented, fresh)
<1>1. NewToken \in Token /\ ~Minted(NewToken) BY DEF NewToken, Minted
<1>2. PICK m : m = [session |-> s, presented |-> presented, fresh |-> fresh] OBVIOUS
<1>3. m \in Mint /\ m.session = s /\ m.presented = presented /\ m.fresh = fresh BY <1>2 DEF Mint
<1>4. m # NotMinted BY <1>3, SessionsAssumption DEF NotMinted
<1>5. minted' = [minted EXCEPT ![NewToken] = m] BY <1>2
<1>6. minted \in [Token -> Mint \cup {NotMinted}] BY DEF SessionTypeOK
<1>7. minted'[NewToken] = m /\ \A t \in Token : t # NewToken => minted'[t] = minted[t]
  BY <1>1, <1>5, <1>6
<1>8. minted' \in [Token -> Mint \cup {NotMinted}] BY <1>1, <1>3, <1>5, <1>6
<1>9. ASSUME NEW t \in Token, minted'[t] # NotMinted
      PROVE  minted'[t].presented \in {NoToken} \cup {p \in Token : minted'[p] # NotMinted}
  <2>1. CASE t = NewToken
    <3>1. presented \in Token => minted'[presented] # NotMinted
      BY <1>1, <1>7 DEF Minted
    <3> QED BY <1>3, <1>7, <2>1, <3>1
  <2>2. CASE t # NewToken
    <3>1. minted[t].presented \in {NoToken} \cup {p \in Token : minted[p] # NotMinted}
      BY <1>7, <1>9, <2>2 DEF SessionTypeOK
    <3> QED BY <1>1, <1>7, <2>2, <3>1 DEF Minted
  <2> QED BY <2>1, <2>2
<1> QED BY <1>1, <1>3, <1>4, <1>7, <1>8, <1>9 DEF TokenMinted

(* A new session gets a token of its own and carries the login away.       *)
LEMMA CreateStep ==
    ASSUME Inv, NEW c \in Client, CreateSession(c)
    PROVE  Inv'
<1> DEFINE h == inflight[c]
<1>sess. PICK s : s = NewSession OBVIOUS
<1>0. HandlerOK(h, Known, minted) /\ h.op = "create"
  BY DEF CreateSession, Running, Inv, HandlersOK
<1>1. s \in Session /\ ~Exists(s) BY <1>sess DEF CreateSession, NewSession
<1>2. /\ h.user \in Account /\ h.install \in Install /\ h.password \in Nat
      /\ h.pass \subseteq Pass /\ h.stale \subseteq Session
  BY <1>0 DEF HandlerOK
<1>3. minted' = [minted EXCEPT ![NewToken] = [session |-> s, presented |-> NoToken, fresh |-> TRUE]]
  BY <1>sess DEF CreateSession
<1>4. /\ NewToken \in Token /\ ~Minted(NewToken)
      /\ \A t \in Token : t # NewToken => minted'[t] = minted[t]
      /\ minted'[NewToken].session = s /\ minted'[NewToken].presented = NoToken
      /\ minted'[NewToken] # NotMinted
      /\ minted' \in [Token -> Mint \cup {NotMinted}]
      /\ \A t \in Token : minted'[t] # NotMinted =>
            minted'[t].presented \in {NoToken} \cup {p \in Token : minted'[p] # NotMinted}
  BY <1>1, <1>3, MintStep, SessionsAssumption DEF CreateSession, Inv, TokenMinted
<1>5. PICK n : n = [user |-> h.user, install |-> h.install, current |-> NewToken,
                    previous |-> NoToken, revoked |-> FALSE, grace |-> FALSE,
                    password |-> h.password, pass |-> h.pass]
  OBVIOUS
<1>6. /\ n \in Row /\ n # NoRow
      /\ n.current = NewToken /\ n.previous = NoToken /\ n.pass = h.pass
  <2>1. n \in Row BY <1>2, <1>4, <1>5 DEF Row
  <2>2. n.user \in Account BY <1>2, <1>5
  <2> QED BY <1>5, <2>1, <2>2, SessionsAssumption DEF NoRow
<1> DEFINE old == Revoked(h.stale)
<1>7. old = [r \in Session |-> IF r \in h.stale /\ Exists(r) THEN [session[r] EXCEPT !.revoked = TRUE]
                                                           ELSE session[r]]
  BY DEF Revoked
<1>8. session' = [old EXCEPT ![s] = n] BY <1>sess, <1>5 DEF CreateSession
<1>9. session'[s] = n /\ \A r \in Session : r # s => session'[r] = old[r] BY <1>1, <1>7, <1>8
<1>10. ASSUME NEW r \in Session, r # s
       PROVE  /\ session'[r] \in Row \cup {NoRow}
              /\ Exists(r)' <=> Exists(r)
              /\ Exists(r) => /\ session'[r].current = session[r].current
                              /\ session'[r].previous = session[r].previous
                              /\ session'[r].pass = session[r].pass
  <2>1. session'[r] = IF r \in h.stale /\ Exists(r) THEN [session[r] EXCEPT !.revoked = TRUE]
                                                     ELSE session[r]
    BY <1>7, <1>9, <1>10
  <2>2. CASE r \in h.stale /\ Exists(r) BY <2>1, <2>2, ColumnChange DEF Inv, Exists
  <2>3. CASE ~(r \in h.stale /\ Exists(r)) BY <2>1, <2>3 DEF Inv, SessionTypeOK, Exists
  <2> QED BY <2>2, <2>3
<1>11. Exists(s)' BY <1>6, <1>9 DEF Exists
<1>12. session' \in [Session -> Row \cup {NoRow}] BY <1>1, <1>6, <1>7, <1>8, <1>9, <1>10
<1>13. UNCHANGED <<account, pass, cache, since>> /\ inflight' = [inflight EXCEPT ![c] = NoHandler]
  BY DEF CreateSession, Finish
<1>14. SessionTypeOK' BY <1>4, <1>12, <1>13 DEF Inv, SessionTypeOK
<1>15. Grows BY <1>4, <1>10, <1>11 DEF Grows
<1>16. HandlersOK' BY <1>13, <1>14, <1>15, IdleOK, SlotKeepsHandlers DEF Inv
<1>17. CacheOK' BY <1>13, <1>15 DEF Inv, CacheOK, Accepted, Grows, SessionTypeOK
<1> HIDE DEF h, old
<1>18. LostAnswerIsForgiven'
  <2> SUFFICES ASSUME NEW r \in Session, Exists(r)'
               PROVE  /\ minted'[session'[r].current].session = r
                      /\ session'[r].previous = minted'[session'[r].current].presented
    BY DEF LostAnswerIsForgiven
  <2>1. CASE r = s BY <1>4, <1>6, <1>9, <2>1
  <2>2. CASE r # s
    <3>1. Exists(r) BY <1>10, <2>2
    <3>2. session[r].current \in Token BY <3>1, RowFacts DEF Inv
    <3>3. minted[session[r].current].session = r /\ session[r].previous = minted[session[r].current].presented
      BY <3>1 DEF Inv, Ancestry, LostAnswerIsForgiven
    <3>4. session[r].current # NewToken BY <1>4, <3>2, <3>3, MintFacts DEF Inv
    <3> QED BY <1>4, <1>10, <2>2, <3>1, <3>2, <3>3, <3>4
  <2> QED BY <2>1, <2>2
<1>19. OneHeir' BY <1>4 DEF Inv, Ancestry, OneHeir
<1>20. Ancestry'
  <2> SUFFICES ASSUME NEW t \in Token, minted'[t] # NotMinted, minted'[t].fresh,
                      minted'[t].presented # NoToken, NEW r \in Session, Exists(r)'
               PROVE  session'[r].current # minted'[t].presented
    BY <1>18, <1>19 DEF Ancestry, Minted
  <2>1. t # NewToken /\ minted'[t] = minted[t] /\ Minted(t) BY <1>4 DEF Minted
  <2>2. minted[t].presented \in Token /\ Minted(minted[t].presented) BY <2>1, MintFacts DEF Inv
  <2>3. CASE r = s BY <1>4, <1>6, <1>9, <2>1, <2>2, <2>3
  <2>4. CASE r # s BY <1>10, <2>1, <2>4 DEF Inv, Ancestry
  <2> QED BY <2>3, <2>4
<1>21. OnePlace'
  <2>1. \A p \in Pass, d \in Client : Carries(d, p)' <=> Carries(d, p) /\ d # c
    BY <1>13 DEF Carries, Inv, HandlersOK, NoHandler
  <2>2. \A p \in Pass : p \in h.pass <=> Carries(c, p) BY <1>0 DEF Carries, h
  <2>3. \A p \in Pass, r \in Session : Opened(r, p)' <=> Opened(r, p) \/ (r = s /\ p \in h.pass)
    BY <1>1, <1>6, <1>9, <1>10, <1>11 DEF Opened
  <2> QED BY <1>1, <1>13, <2>1, <2>2, <2>3 DEF Inv, OnePlace
<1> QED BY <1>14, <1>16, <1>17, <1>20, <1>21 DEF Inv

(* A rotation that won: the compare-and-set makes the row it read the row  *)
(* it writes, so the new token descends from the one that was presented.   *)
LEMMA RotateStep ==
    ASSUME Inv, NEW c \in Client, Rotate(c)
    PROVE  Inv'
<1>1. PICK h : h = inflight[c] OBVIOUS
<1>2. HandlerOK(h, Known, minted) /\ h.op = "rotate" BY <1>1 DEF Rotate, Running, Inv, HandlersOK
<1>3. PICK s : s = h.session OBVIOUS
<1>4. /\ s \in Session /\ Exists(s)
      /\ h.token \in Token /\ Minted(h.token)
      /\ h.current \in Token /\ h.previous \in Token \cup {NoToken}
      /\ h.token = h.current \/ h.token = h.previous
      /\ minted[h.current].session = s /\ minted[h.current].presented = h.previous
  BY <1>2, <1>3 DEF HandlerOK, Known, Minted
<1>5. session[s].current = h.current BY <1>1, <1>3 DEF Rotate, Swaps
<1>6. PICK old : old = session[s] OBVIOUS
<1>7. old \in Row /\ old.pass \subseteq Pass /\ old.user \in Account BY <1>4, <1>6, RowFacts DEF Inv
<1>8. Previous(h) = h.token BY <1>4 DEF Previous, IsCurrent
<1>9. minted' = [minted EXCEPT ![NewToken] =
                   [session |-> s, presented |-> h.token, fresh |-> IsCurrent(h)]]
  BY <1>1, <1>3 DEF Rotate
<1>10. PICK fresh \in BOOLEAN : fresh = IsCurrent(h) BY DEF IsCurrent
<1>11. PICK new : new = NewToken OBVIOUS
<1>mint. /\ minted' = [minted EXCEPT ![NewToken] = [session |-> s, presented |-> h.token, fresh |-> fresh]]
      /\ \E t \in Token : minted[t] = NotMinted
      /\ SessionTypeOK
  BY <1>9, <1>10, Zenon DEF Rotate, Inv
<1>12. /\ new \in Token /\ ~Minted(new)
       /\ \A t \in Token : t # new => minted'[t] = minted[t]
       /\ minted'[new].session = s /\ minted'[new].presented = h.token
       /\ minted'[new].fresh = fresh /\ minted'[new] # NotMinted
       /\ minted' \in [Token -> Mint \cup {NotMinted}]
       /\ \A t \in Token : minted'[t] # NotMinted =>
             minted'[t].presented \in {NoToken} \cup {p \in Token : minted'[p] # NotMinted}
  <2>1. PICK t : t = h.token OBVIOUS
  <2>2. /\ t \in Token \cup {NoToken} /\ (t \in Token => Minted(t))
        /\ minted' = [minted EXCEPT ![NewToken] = [session |-> s, presented |-> t, fresh |-> fresh]]
    BY <1>4, <1>mint, <2>1
  <2>3. s \in Session /\ fresh \in BOOLEAN BY <1>4
  <2>4. TokenMinted(s, t, fresh)
    BY <1>mint, <2>2, <2>3, MintStep
  <2> QED BY <1>11, <2>1, <2>4 DEF TokenMinted
<1>13. PICK n1 : n1 = [old EXCEPT !.current = new] OBVIOUS
<1>14. PICK n2 : n2 = [n1 EXCEPT !.previous = h.token] OBVIOUS
<1>15. PICK n : n = [n2 EXCEPT !.grace = TRUE] OBVIOUS
<1>16. n1 \in Row /\ n1.current = new /\ n1.pass = old.pass /\ n1.user = old.user
  BY <1>7, <1>12, <1>13 DEF Row
<1>17. n2 \in Row /\ n2.current = new /\ n2.previous = h.token /\ n2.pass = old.pass /\ n2.user = old.user
  BY <1>4, <1>14, <1>16 DEF Row
<1>18. n \in Row /\ n.current = new /\ n.previous = h.token /\ n.pass = old.pass /\ n.user = old.user
  BY <1>15, <1>17 DEF Row
<1>19. n # NoRow BY <1>7, <1>18, SessionsAssumption DEF NoRow
<1>20. session' = [session EXCEPT ![s] = n]
  <2>1. session' = [session EXCEPT ![s] =
                      [@ EXCEPT !.current = new, !.previous = h.token, !.grace = TRUE]]
    BY <1>1, <1>3, <1>8, <1>11 DEF Rotate
  <2>2. n = [old EXCEPT !.current = new, !.previous = h.token, !.grace = TRUE]
    BY <1>13, <1>14, <1>15, Zenon
  <2> QED BY <1>6, <2>1, <2>2, Zenon
<1>21. session'[s] = n /\ \A r \in Session : r # s => session'[r] = session[r]
  BY <1>4, <1>20 DEF Inv, SessionTypeOK
<1>22. session' \in [Session -> Row \cup {NoRow}] BY <1>4, <1>18, <1>20 DEF Inv, SessionTypeOK
<1>23. \A r \in Session : Exists(r)' <=> Exists(r) BY <1>4, <1>19, <1>21 DEF Exists
<1>24. UNCHANGED <<account, pass, cache, since>> /\ inflight' = [inflight EXCEPT ![c] = NoHandler]
  BY DEF Rotate, Finish
<1>25. SessionTypeOK' BY <1>12, <1>22, <1>24 DEF Inv, SessionTypeOK
<1>26. Grows BY <1>12, <1>23 DEF Grows
<1>27. HandlersOK' BY <1>24, <1>26, IdleOK, SlotKeepsHandlers DEF Inv
<1>28. CacheOK' BY <1>23, <1>24 DEF Inv, CacheOK, Accepted, SessionTypeOK
<1>29. LostAnswerIsForgiven'
  <2> SUFFICES ASSUME NEW r \in Session, Exists(r)'
               PROVE  /\ minted'[session'[r].current].session = r
                      /\ session'[r].previous = minted'[session'[r].current].presented
    BY DEF LostAnswerIsForgiven
  <2>1. CASE r = s BY <1>12, <1>18, <1>21, <2>1
  <2>2. CASE r # s
    <3>1. Exists(r) /\ session'[r] = session[r] BY <1>21, <1>23, <2>2
    <3>2. session[r].current \in Token BY <3>1, RowFacts DEF Inv
    <3>3. minted[session[r].current].session = r /\ session[r].previous = minted[session[r].current].presented
      BY <3>1 DEF Inv, Ancestry, LostAnswerIsForgiven
    <3>4. session[r].current # new BY <1>12, <3>2, <3>3, MintFacts DEF Inv
    <3> QED BY <1>12, <3>1, <3>2, <3>3, <3>4
  <2> QED BY <2>1, <2>2
<1>30. Exists(s) /\ session[s].current = h.current BY <1>4, <1>5
<1>31. OneHeir'
  <2> SUFFICES ASSUME NEW t1 \in Token, NEW t2 \in Token,
                      minted'[t1] # NotMinted, minted'[t1].fresh, minted'[t1].presented # NoToken,
                      minted'[t2] # NotMinted, minted'[t2].fresh,
                      minted'[t1].presented = minted'[t2].presented
               PROVE  t1 = t2
    BY DEF OneHeir
  <2>1. ASSUME NEW t \in Token, t # new, minted'[t] # NotMinted, minted'[t].fresh,
               minted'[t].presented # NoToken, fresh
        PROVE  minted'[t].presented # h.token
    <3>1. minted'[t] = minted[t] /\ Minted(t) BY <1>12, <2>1 DEF Minted
    <3>2. session[s].current # minted[t].presented BY <1>30, <1>4, <2>1, <3>1 DEF Inv, Ancestry
    <3>3. h.token = h.current BY <1>10, <2>1 DEF IsCurrent
    <3> QED BY <1>30, <3>1, <3>2, <3>3
  <2>2. CASE t1 = new \/ t2 = new BY <1>4, <1>12, <2>1, <2>2
  <2>3. CASE t1 # new /\ t2 # new BY <1>12, <2>3 DEF Inv, Ancestry, OneHeir, Minted
  <2> QED BY <2>2, <2>3
<1>32. Ancestry'
  <2> SUFFICES ASSUME NEW t \in Token, minted'[t] # NotMinted, minted'[t].fresh,
                      minted'[t].presented # NoToken, NEW r \in Session, Exists(r)'
               PROVE  session'[r].current # minted'[t].presented
    BY <1>29, <1>31 DEF Ancestry, Minted
  <2>1. minted'[t].presented \in Token /\ Minted(minted'[t].presented)
    BY <1>4, <1>12, MintFacts DEF Inv, Minted
  <2>2. CASE r = s BY <1>12, <1>18, <1>21, <2>1, <2>2
  <2>3. CASE r # s /\ t # new
    <3>1. minted'[t] = minted[t] /\ Minted(t) BY <1>12, <2>3 DEF Minted
    <3> QED BY <1>21, <1>23, <2>3, <3>1 DEF Inv, Ancestry
  <2>4. CASE r # s /\ t = new
    <3>1. h.token = h.current BY <1>10, <1>12, <2>4 DEF IsCurrent
    <3>2. Exists(r) /\ session'[r] = session[r] BY <1>21, <1>23, <2>4
    <3>3. minted[session[r].current].session = r BY <3>2 DEF Inv, Ancestry, LostAnswerIsForgiven
    <3>4. session[r].current # h.current BY <1>4, <2>4, <3>3
    <3> QED BY <1>12, <2>4, <3>1, <3>2, <3>4
  <2> QED BY <2>2, <2>3, <2>4
<1>33. OnePlace'
  <2>1. \A p \in Pass, d \in Client : Carries(d, p)' => Carries(d, p)
    BY <1>24 DEF Carries, Inv, HandlersOK, NoHandler
  <2>2. \A p \in Pass, r \in Session : Opened(r, p)' <=> Opened(r, p)
    BY <1>4, <1>6, <1>18, <1>21, <1>23 DEF Opened
  <2> QED BY <1>24, <2>1, <2>2 DEF Inv, OnePlace
<1> QED BY <1>25, <1>27, <1>28, <1>32, <1>33 DEF Inv
-----------------------------------------------------------------------------
(* Nobody is signed in at first.                                           *)
LEMMA InitInv == SessionsInit => Inv
<1> SUFFICES ASSUME SessionsInit PROVE Inv OBVIOUS
<1>1. \A s \in Session : ~Exists(s) BY DEF SessionsInit, Exists
<1>2. \A t \in Token : ~Minted(t) /\ minted[t] = NotMinted BY DEF SessionsInit, Minted
<1>3. inflight = [c \in Client |-> NoHandler] BY DEF SessionsInit, HandlersInit
<1>4. SessionTypeOK
  <2>1. 1 \in 1 .. MaxPassword BY SessionsAssumption
  <2>2. account \in [Account -> [status : {"ACTIVE", "SUSPENDED"}, password : 1 .. MaxPassword]]
    BY <2>1 DEF SessionsInit
  <2>3. cache \in [Session -> 0 .. CacheTicks] /\ since \in [Session -> 0 .. CacheTicks]
    BY SessionsAssumption DEF SessionsInit
  <2> QED BY <2>2, <2>3, <1>2 DEF SessionsInit, SessionTypeOK
<1>5. HandlersOK BY <1>3, IdleOK DEF HandlersOK
<1>6. CacheOK BY DEF SessionsInit, CacheOK, Accepted
<1>7. Ancestry BY <1>1, <1>2 DEF Ancestry, LostAnswerIsForgiven, OneHeir, Minted
<1>8. OnePlace BY <1>1, <1>3 DEF OnePlace, Opened, Carries, NoHandler
<1> QED BY <1>4, <1>5, <1>6, <1>7, <1>8 DEF Inv

(* Every step of every request keeps it.                                   *)
LEMMA NextInv == Inv /\ [SessionsNext]_sessionsVars => Inv'
<1> SUFFICES ASSUME Inv, [SessionsNext]_sessionsVars PROVE Inv' OBVIOUS
<1>1. ASSUME NEW c \in Client, Step(c) PROVE Inv'
  BY <1>1, LoginSteps, PassSteps, RefreshSteps, SignOutSteps, CreateStep, RotateStep DEF Step
<1>2. ASSUME NEW c \in Client, NEW u \in Account, NEW i \in Install, LoginBegin(c, u, i) PROVE Inv'
  BY <1>2, LoginSteps
<1>3. ASSUME NEW c \in Client, NEW p \in Pass, ExchangeTicket(c, p) \/ PollBegin(c, p) PROVE Inv'
  BY <1>3, PassSteps
<1>4. ASSUME NEW c \in Client, NEW t \in Token, RefreshBegin(c, t) PROVE Inv'
  BY <1>4, RefreshSteps
<1>5. ASSUME NEW c \in Client, NEW s \in Session,
             \/ Logout(c, s) \/ LogoutAll(c, s) \/ ChangeOwnPassword(c, s) \/ ResolveRead(c, s)
             \/ \E other \in Session : RevokeOwn(c, s, other)
      PROVE  Inv'
  BY <1>5, SignOutBegins, ChangePasswordStep
<1>6. ASSUME NEW c \in Client, NEW u \in Account, ResetPassword(c, u) \/ Suspend(c, u) PROVE Inv'
  BY <1>6, AccountSteps
<1>7. ASSUME NEW u \in Account, Reactivate(u) PROVE Inv'
  BY <1>7, AccountSteps
<1>8. CASE \E s \in Session : GraceEnds(s) BY <1>8, TimeSteps
<1>9. CASE Tick \/ Crash BY <1>9, TimeSteps
<1>10. CASE UNCHANGED sessionsVars
  <2>1. UNCHANGED <<account, pass, session, minted, cache, since, inflight>> BY <1>10 DEF sessionsVars, authVars
  <2>2. SameTokens /\ CacheOK' /\ SessionTypeOK'
    BY <2>1, SameRows, SameTables DEF Inv, SessionTypeOK
  <2> QED BY <2>1, <2>2, IdleStep DEF Inv, HandlersOK
<1> QED
  BY <1>1, <1>2, <1>3, <1>4, <1>5, <1>6, <1>7, <1>8, <1>9, <1>10 DEF SessionsNext

(* The invariant holds for ever.                                           *)
LEMMA InvHolds == SessionsSpec => []Inv
BY InitInv, NextInv, PTL DEF SessionsSpec

(* Rows hold what the schema lets them hold, and every token came from     *)
(* a login or from a token that exists (schema.prisma, UserSession).       *)
THEOREM SessionTypes == SessionsSpec => []SessionTypeOK
<1>1. Inv => SessionTypeOK BY DEF Inv
<1> QED BY <1>1, InvHolds, PTL

(* The token before the current one is the one that was presented to get   *)
(* it: a lost answer is forgiven, whichever retries overlapped             *)
(* (auth.service.ts:187).                                                  *)
THEOREM LostAnswersAreForgiven == SessionsSpec => []LostAnswerIsForgiven
<1>1. Inv => LostAnswerIsForgiven BY DEF Inv, Ancestry
<1> QED BY <1>1, InvHolds, PTL

(* However many requests present a current token, one gets an heir         *)
(* (auth.service.ts:197).                                                  *)
THEOREM HeirsAreUnique == SessionsSpec => []OneHeir
<1>1. Inv => OneHeir BY DEF Inv, Ancestry
<1> QED BY <1>1, InvHolds, PTL

(* A login started in Telegram opens one session, however many tabs poll   *)
(* for it and however often its ticket comes back (auth.service.ts:113).   *)
THEOREM PassesAreSpentOnce == SessionsSpec => []PassOnce
<1>1. Inv => PassOnce BY DEF Inv, OnePlace, PassOnce, Opened
<1> QED BY <1>1, InvHolds, PTL

\* What becomes of a row in a step: it stays its user's, and a revoked one keeps
\* its token and stays revoked.
RowStays(s) ==
    /\ session'[s] \in Row /\ session'[s].user = session[s].user
    /\ session[s].revoked => session'[s].revoked /\ session'[s].current = session[s].current

(* A revoked row is never rotated or revived (auth.service.ts:197).        *)
LEMMA RowsStay ==
    ASSUME Inv, [SessionsNext]_sessionsVars, NEW s \in Session, Exists(s)
    PROVE  RowStays(s)
<1>0. session \in [Session -> Row \cup {NoRow}] /\ session[s] \in Row
  BY RowFacts DEF Inv, SessionTypeOK
<1>1. ASSUME session'[s] = session[s] PROVE RowStays(s) BY <1>0, <1>1 DEF RowStays
<1>2. ASSUME session'[s] = [session[s] EXCEPT !.revoked = TRUE] PROVE RowStays(s)
  BY <1>0, <1>2 DEF RowStays, Row
<1>3. ASSUME NEW c \in Client, CreateSession(c) PROVE RowStays(s)
  <2>1. PICK n, r : /\ r = NewSession
                    /\ session' = [Revoked(inflight[c].stale) EXCEPT ![r] = n]
    BY <1>3 DEF CreateSession
  <2>2. s # NewSession BY <1>3 DEF CreateSession, NewSession
  <2>3. session'[s] = Revoked(inflight[c].stale)[s] BY <2>1, <2>2 DEF Revoked
  <2> QED BY <1>1, <1>2, <2>3 DEF Revoked
<1>4. ASSUME NEW c \in Client, Rotate(c) PROVE RowStays(s)
  <2>1. PICK h : h = inflight[c] OBVIOUS
  <2>2. PICK r : r = h.session OBVIOUS
  <2>3. ~session[r].revoked BY <1>4, <2>1, <2>2 DEF Rotate, Swaps
  <2>4. /\ HandlerOK(h, Known, minted) /\ h.op = "rotate"
        /\ \E t \in Token : minted[t] = NotMinted
    BY <1>4, <2>1 DEF Rotate, Running, Inv, HandlersOK
  <2>5. NewToken \in Token /\ Previous(h) \in Token \cup {NoToken}
    BY <2>4 DEF NewToken, Previous, IsCurrent, HandlerOK
  <2>6. PICK t1, t2 : t1 = NewToken /\ t2 = Previous(h) OBVIOUS
  <2>7. PICK old : old = session[r] OBVIOUS
  <2>8. PICK n1 : n1 = [old EXCEPT !.current = t1] OBVIOUS
  <2>9. PICK n2 : n2 = [n1 EXCEPT !.previous = t2] OBVIOUS
  <2>10. PICK n : n = [n2 EXCEPT !.grace = TRUE] OBVIOUS
  <2>11. session' = [session EXCEPT ![r] = n]
    <3>1. session' = [session EXCEPT ![r] =
                        [@ EXCEPT !.current = t1, !.previous = t2, !.grace = TRUE]]
      BY <1>4, <2>1, <2>2, <2>6 DEF Rotate
    <3>2. n = [old EXCEPT !.current = t1, !.previous = t2, !.grace = TRUE]
      BY <2>8, <2>9, <2>10, Zenon
    <3> QED BY <2>7, <3>1, <3>2, Zenon
  <2>12. CASE r = s
    <3>1. old \in Row BY <1>0, <2>7, <2>12
    <3>2. n1 \in Row /\ n1.user = old.user BY <2>5, <2>6, <2>8, <3>1 DEF Row
    <3>3. n2 \in Row /\ n2.user = old.user BY <2>5, <2>6, <2>9, <3>2 DEF Row
    <3>4. n \in Row /\ n.user = old.user BY <2>10, <3>3 DEF Row
    <3>5. session'[s] = n BY <1>0, <2>11, <2>12
    <3> QED BY <2>3, <2>7, <2>12, <3>4, <3>5 DEF RowStays
  <2>13. CASE r # s BY <1>0, <1>1, <2>11, <2>13
  <2> QED BY <2>12, <2>13
<1>5. ASSUME NEW c \in Client, RevokeWrite(c) PROVE RowStays(s)
  BY <1>1, <1>2, <1>5 DEF RevokeWrite, Revoked
<1>6. ASSUME NEW c \in Client, NEW r \in Session, ChangeOwnPassword(c, r) PROVE RowStays(s)
  <2>1. PICK v : v = account[session[r].user].password + 1 OBVIOUS
  <2>2. PICK n : n = [session[r] EXCEPT !.password = v] OBVIOUS
  <2>3. session' = [session EXCEPT ![r] = n] BY <1>6, <2>1, <2>2, Zenon DEF ChangeOwnPassword
  <2>4. CASE r = s
    <3>1. session[s].user \in Account BY <1>0 DEF Row
    <3>2. v \in Nat BY <2>1, <2>4, <3>1, SessionsAssumption DEF Inv, SessionTypeOK
    <3>3. /\ n \in Row /\ n.user = session[s].user /\ n.revoked = session[s].revoked
          /\ n.current = session[s].current
      BY <1>0, <2>2, <2>4, <3>2 DEF Row
    <3>4. session'[s] = n BY <1>0, <2>3, <2>4
    <3> QED BY <3>3, <3>4 DEF RowStays
  <2>5. CASE r # s BY <1>0, <1>1, <2>3, <2>5
  <2> QED BY <2>4, <2>5
<1>7. ASSUME NEW r \in Session, GraceEnds(r) PROVE RowStays(s)
  <2>1. PICK n : n = [session[r] EXCEPT !.grace = FALSE] OBVIOUS
  <2>2. session' = [session EXCEPT ![r] = n] BY <1>7, <2>1, Zenon DEF GraceEnds
  <2>3. CASE r = s
    <3>1. /\ n \in Row /\ n.user = session[s].user /\ n.revoked = session[s].revoked
          /\ n.current = session[s].current
      BY <1>0, <2>1, <2>3 DEF Row
    <3>2. session'[s] = n BY <1>0, <2>2, <2>3
    <3> QED BY <3>1, <3>2 DEF RowStays
  <2>4. CASE r # s BY <1>0, <1>1, <2>2, <2>4
  <2> QED BY <2>3, <2>4
<1>8. \/ session' = session
      \/ \E c \in Client : CreateSession(c) \/ Rotate(c) \/ RevokeWrite(c)
      \/ \E c \in Client, r \in Session : ChangeOwnPassword(c, r)
      \/ \E r \in Session : GraceEnds(r)
  <2>1. ASSUME NEW c \in Client, Step(c)
        PROVE  session' = session \/ CreateSession(c) \/ Rotate(c) \/ RevokeWrite(c)
    BY <2>1 DEF Step, LoginSucceeds, TicketLogin, PollSpend, FindStale, RotateLost, FindLive,
                RevokeForget, ResolveCache, authVars
  <2>2. ASSUME NEW c \in Client, NEW r \in Session,
               \/ Logout(c, r) \/ LogoutAll(c, r) \/ ResolveRead(c, r)
               \/ \E other \in Session : RevokeOwn(c, r, other)
        PROVE  session' = session
    BY <2>2 DEF Logout, LogoutAll, ResolveRead, RevokeOwn, authVars
  <2>3. ASSUME \/ \E c \in Client, u \in Account, i \in Install : LoginBegin(c, u, i)
               \/ \E c \in Client, p \in Pass : ExchangeTicket(c, p) \/ PollBegin(c, p)
               \/ \E c \in Client, t \in Token : RefreshBegin(c, t)
               \/ \E c \in Client, u \in Account : ResetPassword(c, u) \/ Suspend(c, u)
               \/ \E u \in Account : Reactivate(u)
               \/ Tick
               \/ Crash
               \/ UNCHANGED sessionsVars
        PROVE  session' = session
    BY <2>3 DEF LoginBegin, ExchangeTicket, PollBegin, RefreshBegin, ResetPassword, Suspend,
                Reactivate, Tick, Crash, authVars, sessionsVars
  <2> QED BY <2>1, <2>2, <2>3 DEF SessionsNext
<1> QED BY <1>1, <1>3, <1>4, <1>5, <1>6, <1>7, <1>8

(* A revoked session is over for good: no request that had read its row    *)
(* before gives it a new token (auth.service.ts:197).                      *)
THEOREM RevocationIsFinal == SessionsSpec => RevokedIsFinal
<1>1. Inv /\ [SessionsNext]_sessionsVars =>
        [\A s \in Session : Exists(s) /\ session[s].revoked =>
            /\ session'[s].revoked
            /\ session'[s].current = session[s].current]_sessionsVars
  BY RowsStay DEF RowStays
<1> QED BY <1>1, InvHolds, PTL DEF SessionsSpec, RevokedIsFinal
-----------------------------------------------------------------------------
-----------------------------------------------------------------------------
(***************************************************************************)
(* Time: a session that has been of no use for some ticks is remembered    *)
(* for at most the ticks that are left of the five seconds, and so is what *)
(* a guard that read its row before is about to remember (the `now' of     *)
(* auth-core.ts:33 is that of before the read).                            *)
(***************************************************************************)
TimeInv ==
    /\ \A s \in Session : since[s] > 0 => Exists(s) /\ ~Usable(s)
    /\ \A s \in Session : Exists(s) /\ ~Usable(s) => cache[s] + since[s] <= CacheTicks
    /\ \A c \in Client : Running(c, "resolve") =>
          \/ Usable(inflight[c].session)
          \/ inflight[c].left + since[inflight[c].session] <= CacheTicks

\* What every step but the clock leaves as it was, or better.
KeepsTime ==
    /\ \A s \in Session : since'[s] = since[s] \/ since'[s] = 0
    /\ \A s \in Session : Exists(s) /\ ~Usable(s) /\ Usable(s)' => since'[s] = 0
    /\ \A s \in Session : Exists(s) => Exists(s)'

NoNewMemory == \A s \in Session : cache'[s] <= cache[s]

NoNewLookup ==
    \A c \in Client : Running(c, "resolve")' =>
        inflight'[c] = inflight[c] \/ (Usable(inflight[c].session))'

(* A lookup under way is of a session that exists.                         *)
LEMMA LookupFacts ==
    ASSUME Inv, NEW c \in Client, Running(c, "resolve")
    PROVE  /\ inflight[c].session \in Session /\ Exists(inflight[c].session)
           /\ inflight[c].left \in 0 .. CacheTicks
BY DEF Inv, HandlersOK, HandlerOK, Lookup, Known, Running

(* A step that keeps time keeps the bounds.                                *)
LEMMA TimeStays ==
    ASSUME Inv, Inv', TimeInv, KeepsTime, NoNewLookup,
           \A s \in Session : \/ cache'[s] <= cache[s]
                              \/ Usable(s)
                              \/ cache'[s] + since[s] <= CacheTicks
    PROVE  TimeInv'
<1>1. /\ \A s \in Session : cache[s] \in 0 .. CacheTicks /\ since[s] \in 0 .. CacheTicks
      /\ \A s \in Session : cache'[s] \in 0 .. CacheTicks /\ since'[s] \in 0 .. CacheTicks
  BY DEF Inv, SessionTypeOK
<1>2. CacheTicks \in Nat BY SessionsAssumption
<1>3. ASSUME NEW s \in Session, since'[s] > 0 PROVE (Exists(s) /\ ~Usable(s))'
  BY <1>1, <1>2, <1>3 DEF KeepsTime, TimeInv
<1>4. ASSUME NEW s \in Session, Exists(s)', ~Usable(s)' PROVE cache'[s] + since'[s] <= CacheTicks
  <2>1. CASE ~Exists(s) \/ Usable(s)
    <3>1. since[s] = 0 BY <1>1, <1>2, <2>1 DEF TimeInv
    <3>2. since'[s] = 0 BY <3>1 DEF KeepsTime
    <3> QED BY <1>1, <1>2, <3>2
  <2>2. CASE Exists(s) /\ ~Usable(s)
    <3>1. cache[s] + since[s] <= CacheTicks BY <2>2 DEF TimeInv
    <3>2. since'[s] <= since[s] BY <1>1, <1>2 DEF KeepsTime
    <3>3. cache'[s] <= cache[s] \/ cache'[s] + since[s] <= CacheTicks BY <2>2
    <3> QED BY <1>1, <1>2, <3>1, <3>2, <3>3
  <2> QED BY <2>1, <2>2
<1>5. ASSUME NEW c \in Client, Running(c, "resolve")', ~(Usable(inflight[c].session))'
      PROVE  inflight'[c].left + since'[inflight'[c].session] <= CacheTicks
  <2>1. inflight'[c] = inflight[c] /\ Running(c, "resolve") BY <1>5 DEF NoNewLookup, Running
  <2>2. PICK s \in Session : s = inflight[c].session /\ Exists(s) BY <2>1, LookupFacts
  <2>3. inflight[c].left \in 0 .. CacheTicks BY <2>1, LookupFacts
  <2>4. CASE Usable(s)
    <3>1. since[s] = 0 BY <1>1, <1>2, <2>4 DEF TimeInv
    <3>2. since'[s] = 0 BY <3>1 DEF KeepsTime
    <3> QED BY <1>1, <1>2, <2>1, <2>2, <2>3, <3>2
  <2>5. CASE ~Usable(s)
    <3>1. inflight[c].left + since[s] <= CacheTicks BY <2>1, <2>2, <2>5 DEF TimeInv
    <3>2. since'[s] <= since[s] BY <1>1, <1>2 DEF KeepsTime
    <3> QED BY <1>1, <1>2, <2>1, <2>2, <2>3, <3>1, <3>2
  <2> QED BY <2>4, <2>5
<1> QED BY <1>3, <1>4, <1>5 DEF TimeInv

(* The clock takes from what is remembered what it adds to the time since. *)
LEMMA TickKeepsTime ==
    ASSUME Inv, TimeInv, Tick
    PROVE  TimeInv'
<1>1. \A s \in Session : cache[s] \in 0 .. CacheTicks /\ since[s] \in 0 .. CacheTicks
  BY DEF Inv, SessionTypeOK
<1>2. CacheTicks \in Nat BY SessionsAssumption
<1>3. \A s \in Session : (Exists(s)' <=> Exists(s)) /\ (Usable(s)' <=> Usable(s))
  BY DEF Tick, Exists, Usable, Live, Active
<1>4. \A s \in Session : /\ cache'[s] = Later(cache[s])
                         /\ since'[s] = IF Exists(s) /\ ~Usable(s) /\ since[s] < CacheTicks
                                        THEN since[s] + 1 ELSE since[s]
  BY DEF Tick
<1>5. ASSUME NEW n \in 0 .. CacheTicks, NEW s \in Session, n + since[s] <= CacheTicks
      PROVE  Later(n) + since'[s] <= CacheTicks
  BY <1>1, <1>2, <1>4, <1>5 DEF Later
<1>6. ASSUME NEW s \in Session, since'[s] > 0 PROVE Exists(s) /\ ~Usable(s)
  BY <1>1, <1>4, <1>6 DEF TimeInv
<1>7. ASSUME NEW s \in Session, Exists(s), ~Usable(s) PROVE cache'[s] + since'[s] <= CacheTicks
  BY <1>1, <1>4, <1>5, <1>7 DEF TimeInv
<1>8. ASSUME NEW c \in Client, Running(c, "resolve")'
      PROVE  \/ Usable(inflight'[c].session)
             \/ inflight'[c].left + since'[inflight'[c].session] <= CacheTicks
  <2>1. Running(c, "resolve") BY <1>8 DEF Tick, Running
  <2>2. PICK g : g = inflight[c] OBVIOUS
  <2>3. PICK h : h = [g EXCEPT !.left = Later(g.left)] OBVIOUS
  <2>4. inflight'[c] = h BY <2>1, <2>2, <2>3 DEF Tick
  <2>5. g \in Lookup(Known) BY <2>1, <2>2 DEF Inv, HandlersOK, HandlerOK, Running
  <2>6. /\ g.session \in Session /\ g.left \in 0 .. CacheTicks
        /\ h.session = g.session /\ h.left = Later(g.left)
    BY <2>3, <2>5 DEF Lookup, Known
  <2>7. Usable(g.session) \/ g.left + since[g.session] <= CacheTicks
    BY <2>1, <2>2 DEF TimeInv
  <2> QED BY <1>5, <2>4, <2>6, <2>7
<1>9. \A c \in Client : Running(c, "resolve")' => inflight'[c].session \in Session
  <2>1. SUFFICES ASSUME NEW c \in Client, Running(c, "resolve")'
                 PROVE  inflight'[c].session \in Session
    OBVIOUS
  <2>2. Inv' BY TimeSteps
  <2> QED BY <2>1, <2>2 DEF Inv, HandlersOK, HandlerOK, Lookup, Known, Running
<1>10. ASSUME NEW c \in Client, Running(c, "resolve")'
       PROVE  (\/ Usable(inflight[c].session)
               \/ inflight[c].left + since[inflight[c].session] <= CacheTicks)'
  <2>1. PICK s \in Session : s = inflight'[c].session BY <1>9, <1>10
  <2>2. Usable(s)' <=> Usable(s) BY <1>3
  <2>3. CASE Usable(s)
    <3>1. Usable(s)' BY <2>2, <2>3
    <3>2. (Usable(inflight[c].session))' BY <2>1, <3>1 DEF Usable, Live, Exists, Active
    <3> QED BY <3>2
  <2>4. CASE ~Usable(s) BY <1>8, <1>10, <2>1, <2>4
  <2> QED BY <2>3, <2>4
<1> QED BY <1>3, <1>6, <1>7, <1>10 DEF TimeInv
(* The slot that goes on does not become a lookup.                         *)
LEMMA QuietSlot ==
    ASSUME Inv, NEW c \in Client, NEW h, inflight' = [inflight EXCEPT ![c] = h], h.op # "resolve"
    PROVE  NoNewLookup
BY DEF NoNewLookup, Running, Inv, HandlersOK

(* ... nor does a request that begins with something else.                 *)
LEMMA QuietSteps ==
    ASSUME Inv, NEW c \in Client, Step(c)
    PROVE  NoNewLookup
<1>0. DOMAIN inflight = Client BY DEF Inv, HandlersOK
<1>1. ASSUME Finish(c) PROVE NoNewLookup
  <2>1. NoHandler.op # "resolve" BY DEF NoHandler
  <2> QED BY <1>1, <2>1, QuietSlot DEF Finish
<1>2. ASSUME NEW u, NEW i, NEW w, NEW ps, SignIn(c, u, i, w, ps) PROVE NoNewLookup
  <2>1. PICK h : h = [op |-> "signin", user |-> u, install |-> i, password |-> w, pass |-> ps]
    OBVIOUS
  <2>2. inflight' = [inflight EXCEPT ![c] = h] /\ h.op # "resolve" BY <1>2, <2>1 DEF SignIn
  <2> QED BY <2>2, QuietSlot
<1>3. CASE LoginSucceeds(c) \/ TicketLogin(c) \/ PollSpend(c)
  BY <1>1, <1>2, <1>3 DEF LoginSucceeds, TicketLogin, PollSpend
<1>4. CASE CreateSession(c) \/ Rotate(c) \/ RevokeForget(c) \/ ResolveCache(c)
  BY <1>1, <1>4 DEF CreateSession, Rotate, RevokeForget, ResolveCache
<1>5. CASE FindStale(c) \/ FindLive(c) \/ RevokeWrite(c)
  <2>1. PICK h : h = inflight'[c] OBVIOUS
  <2>2. inflight' = [inflight EXCEPT ![c] = h] /\ h.op # "resolve"
    BY <1>0, <1>5, <2>1 DEF FindStale, FindLive, RevokeWrite
  <2> QED BY <2>2, QuietSlot
<1>6. CASE RotateLost(c)
  <2>1. inflight[c].token \in Token BY <1>6 DEF RotateLost, Running, Inv, HandlersOK, HandlerOK
  <2>2. CASE RefreshRead(c, inflight[c].token, TRUE)
    <3>1. PICK h : inflight' = [inflight EXCEPT ![c] = h] /\ h.op \in {"rotate", "revoke"}
      BY <2>1, <2>2, RefreshReadOK
    <3> QED BY <3>1, QuietSlot
  <2> QED BY <1>1, <1>6, <2>2 DEF RotateLost
<1> QED BY <1>3, <1>4, <1>5, <1>6 DEF Step

(* A request that begins: a lookup begins only for a session of use.       *)
LEMMA QuietBegins ==
    ASSUME Inv, NEW c \in Client,
           \/ \E u \in Account, i \in Install : LoginBegin(c, u, i)
           \/ \E p \in Pass : ExchangeTicket(c, p) \/ PollBegin(c, p)
           \/ \E t \in Token : RefreshBegin(c, t)
           \/ \E s \in Session : \/ Logout(c, s) \/ LogoutAll(c, s) \/ ChangeOwnPassword(c, s)
                                 \/ ResolveRead(c, s)
                                 \/ \E other \in Session : RevokeOwn(c, s, other)
           \/ \E u \in Account : ResetPassword(c, u) \/ Suspend(c, u)
    PROVE  NoNewLookup
<1>0. DOMAIN inflight = Client BY DEF Inv, HandlersOK
<1>1. ASSUME NEW t \in Token, RefreshBegin(c, t) PROVE NoNewLookup
  <2>1. PICK h : inflight' = [inflight EXCEPT ![c] = h] /\ h.op \in {"rotate", "revoke"}
    BY <1>1, RefreshReadOK DEF RefreshBegin
  <2> QED BY <2>1, QuietSlot
<1>2. ASSUME NEW s \in Session, ResolveRead(c, s) PROVE NoNewLookup
  <2>1. PICK h : h = [op |-> "resolve", session |-> s, left |-> CacheTicks] OBVIOUS
  <2>2. inflight' = [inflight EXCEPT ![c] = h] /\ h.session = s
    BY <1>2, <2>1 DEF ResolveRead, Start
  <2>3. Usable(s)' BY <1>2 DEF ResolveRead, Valid, authVars, Usable, Live, Exists, Active
  <2>4. inflight'[c].session = s BY <1>0, <2>2
  <2>5. (Usable(inflight[c].session))' BY <2>3, <2>4 DEF Usable, Live, Exists, Active
  <2>6. \A d \in Client : d # c => inflight'[d] = inflight[d] BY <1>0, <2>2
  <2> QED BY <2>5, <2>6 DEF NoNewLookup
<1>3. CASE \/ \E u \in Account, i \in Install : LoginBegin(c, u, i)
           \/ \E p \in Pass : ExchangeTicket(c, p) \/ PollBegin(c, p)
           \/ \E s \in Session : \/ Logout(c, s) \/ LogoutAll(c, s) \/ ChangeOwnPassword(c, s)
                                 \/ \E other \in Session : RevokeOwn(c, s, other)
           \/ \E u \in Account : ResetPassword(c, u) \/ Suspend(c, u)
  <2>1. PICK h : h = inflight'[c] OBVIOUS
  <2>2. inflight' = [inflight EXCEPT ![c] = h] /\ h.op # "resolve"
    BY <1>0, <1>3, <2>1 DEF LoginBegin, ExchangeTicket, PollBegin, Logout, LogoutAll,
         ChangeOwnPassword, RevokeOwn, ResetPassword, Suspend, RevokeAll, Start
  <2> QED BY <2>2, QuietSlot
<1> QED BY <1>1, <1>2, <1>3
(* Only the end of a suspension makes a session of use again, and it sets  *)
(* the time since back.                                                    *)
LEMMA StepsKeepTime ==
    ASSUME Inv, [SessionsNext]_sessionsVars, ~Tick
    PROVE  KeepsTime
<1>1. ASSUME NEW s \in Session, Exists(s)
      PROVE  /\ Exists(s)' /\ session'[s].user = session[s].user
             /\ Live(s)' => Live(s)
  <2>1. RowStays(s) BY <1>1, RowsStay
  <2>2. session'[s].user \in Account BY <2>1 DEF RowStays, Row
  <2>3. session'[s] # NoRow BY <2>2, SessionsAssumption DEF NoRow
  <2> QED BY <1>1, <2>1, <2>3 DEF RowStays, Exists, Live
<1>2. ASSUME NEW u \in Account, Reactivate(u) PROVE KeepsTime
  <2>1. since' = [s \in Session |-> IF s \in LiveOf(u) THEN 0 ELSE since[s]] BY <1>2 DEF Reactivate
  <2>2. \A v \in Account : v # u => account'[v] = account[v]
    BY <1>2 DEF Reactivate, Inv, SessionTypeOK
  <2>3. ASSUME NEW s \in Session, Exists(s), ~Usable(s), Usable(s)' PROVE s \in LiveOf(u)
    <3>1. Live(s) BY <1>1, <2>3 DEF Usable
    <3>2. session[s].user \in Account BY <2>3, RowFacts DEF Inv
    <3>3. account'[session[s].user].status = "ACTIVE" BY <1>1, <2>3 DEF Usable, Active
    <3>4. session[s].user = u BY <2>2, <2>3, <3>1, <3>2, <3>3 DEF Usable, Active
    <3> QED BY <3>1, <3>4 DEF LiveOf
  <2> QED BY <1>1, <2>1, <2>3 DEF KeepsTime, Inv, SessionTypeOK
<1>3. ASSUME since' = since,
             \A u \in Account : account'[u].status = "ACTIVE" => account[u].status = "ACTIVE"
      PROVE  KeepsTime
  <2>1. ASSUME NEW s \in Session, Exists(s), Usable(s)' PROVE Usable(s)
    <3>1. session[s].user \in Account BY <2>1, RowFacts DEF Inv
    <3> QED BY <1>1, <1>3, <2>1, <3>1 DEF Usable, Active
  <2> QED BY <1>1, <1>3, <2>1 DEF KeepsTime
<1>4. ASSUME NEW u \in Account, NewPassword(u) PROVE \A v \in Account : account'[v].status = account[v].status
  <2>1. PICK n : n = [account[u] EXCEPT !.password = account[u].password + 1] OBVIOUS
  <2>2. account' = [account EXCEPT ![u] = n] BY <1>4, <2>1, Zenon DEF NewPassword
  <2>3. n.status = account[u].status BY <2>1 DEF Inv, SessionTypeOK
  <2> QED BY <2>2, <2>3 DEF Inv, SessionTypeOK
<1>5. ASSUME NEW c \in Client, NEW u \in Account, Suspend(c, u) PROVE KeepsTime
  <2>1. PICK n : n = [account[u] EXCEPT !.status = "SUSPENDED"] OBVIOUS
  <2>2. account' = [account EXCEPT ![u] = n] BY <1>5, <2>1, Zenon DEF Suspend
  <2>3. n.status = "SUSPENDED" BY <2>1 DEF Inv, SessionTypeOK
  <2>4. \A v \in Account : account'[v].status = "ACTIVE" => account[v].status = "ACTIVE"
    BY <2>2, <2>3 DEF Inv, SessionTypeOK
  <2> QED BY <1>3, <1>5, <2>4 DEF Suspend
<1>6. ASSUME NEW c \in Client, NEW u \in Account, ResetPassword(c, u) PROVE KeepsTime
  BY <1>3, <1>4, <1>6 DEF ResetPassword
<1>7. ASSUME NEW c \in Client, NEW r \in Session, ChangeOwnPassword(c, r) PROVE KeepsTime
  <2>1. session[r].user \in Account
    BY <1>7, RowFacts DEF ChangeOwnPassword, Inv, CacheOK
  <2> QED BY <1>3, <1>4, <1>7, <2>1 DEF ChangeOwnPassword
<1>8. ASSUME UNCHANGED <<account, since>> PROVE KeepsTime BY <1>3, <1>8
<1>9. ASSUME NEW c \in Client, Step(c) PROVE UNCHANGED <<account, since>>
  BY <1>9 DEF Step, LoginSucceeds, TicketLogin, PollSpend, FindStale, CreateSession, Rotate,
              RotateLost, FindLive, RevokeWrite, RevokeForget, ResolveCache, authVars
<1>10. ASSUME \/ \E c \in Client, u \in Account, i \in Install : LoginBegin(c, u, i)
              \/ \E c \in Client, p \in Pass : ExchangeTicket(c, p) \/ PollBegin(c, p)
              \/ \E c \in Client, t \in Token : RefreshBegin(c, t)
              \/ \E c \in Client, s \in Session :
                    \/ Logout(c, s) \/ LogoutAll(c, s) \/ ResolveRead(c, s)
                    \/ \E other \in Session : RevokeOwn(c, s, other)
              \/ \E s \in Session : GraceEnds(s)
              \/ Crash \/ UNCHANGED sessionsVars
       PROVE  UNCHANGED <<account, since>>
  BY <1>10 DEF LoginBegin, ExchangeTicket, PollBegin, RefreshBegin, Logout, LogoutAll,
               ResolveRead, RevokeOwn, GraceEnds, Crash, authVars, sessionsVars
<1> QED BY <1>2, <1>5, <1>6, <1>7, <1>8, <1>9, <1>10 DEF SessionsNext

(* Only an answer of the database adds to what is remembered.              *)
LEMMA StepsFade ==
    ASSUME Inv, [SessionsNext]_sessionsVars, ~Tick
    PROVE  NoNewMemory \/ \E c \in Client : ResolveCache(c)
<1>0. \A s \in Session : cache[s] \in 0 .. CacheTicks BY DEF Inv, SessionTypeOK
<1>1. ASSUME NEW ids, cache' = Forget(ids) PROVE NoNewMemory
  BY <1>0, <1>1, SessionsAssumption DEF Forget, NoNewMemory
<1>2. ASSUME cache' = cache PROVE NoNewMemory BY <1>0, <1>2, SessionsAssumption DEF NoNewMemory
<1>3. ASSUME NEW c \in Client, Step(c), ~ResolveCache(c) PROVE NoNewMemory
  <2>1. CASE FindStale(c) BY <1>1, <2>1 DEF FindStale
  <2>2. CASE RevokeForget(c) BY <1>1, <2>2 DEF RevokeForget
  <2>3. CASE \/ LoginSucceeds(c) \/ TicketLogin(c) \/ PollSpend(c) \/ CreateSession(c)
             \/ Rotate(c) \/ RotateLost(c) \/ FindLive(c) \/ RevokeWrite(c)
    BY <1>2, <2>3 DEF LoginSucceeds, TicketLogin, PollSpend, CreateSession, Rotate, RotateLost,
                      FindLive, RevokeWrite, authVars
  <2> QED BY <1>3, <2>1, <2>2, <2>3 DEF Step
<1>4. ASSUME \/ \E c \in Client, u \in Account, i \in Install : LoginBegin(c, u, i)
             \/ \E c \in Client, p \in Pass : ExchangeTicket(c, p) \/ PollBegin(c, p)
             \/ \E c \in Client, t \in Token : RefreshBegin(c, t)
             \/ \E c \in Client, s \in Session :
                   \/ Logout(c, s) \/ LogoutAll(c, s) \/ ChangeOwnPassword(c, s) \/ ResolveRead(c, s)
                   \/ \E other \in Session : RevokeOwn(c, s, other)
             \/ \E c \in Client, u \in Account : ResetPassword(c, u) \/ Suspend(c, u)
             \/ \E s \in Session : GraceEnds(s)
             \/ UNCHANGED sessionsVars
      PROVE  cache' = cache
  BY <1>4 DEF LoginBegin, ExchangeTicket, PollBegin, RefreshBegin, Logout, LogoutAll,
              ChangeOwnPassword, ResolveRead, RevokeOwn, ResetPassword, Suspend, GraceEnds,
              authVars, sessionsVars
<1>5. ASSUME NEW u \in Account, Reactivate(u) PROVE NoNewMemory BY <1>1, <1>5 DEF Reactivate
<1>6. CASE Crash BY <1>0, <1>6, SessionsAssumption DEF Crash, NoNewMemory
<1> QED BY <1>2, <1>3, <1>4, <1>5, <1>6 DEF SessionsNext

(* No step but that of a guard begins a lookup.                            *)
LEMMA StepsLookUp ==
    ASSUME Inv, [SessionsNext]_sessionsVars, ~Tick
    PROVE  NoNewLookup
<1>1. ASSUME \/ \E u \in Account : Reactivate(u)
             \/ \E s \in Session : GraceEnds(s)
             \/ Crash \/ UNCHANGED sessionsVars
      PROVE  NoNewLookup
  <2>1. \A c \in Client : inflight'[c] = inflight[c] \/ inflight'[c] = NoHandler
    BY <1>1 DEF Reactivate, GraceEnds, Crash, sessionsVars
  <2> QED BY <2>1 DEF NoNewLookup, Running, NoHandler
<1> QED BY <1>1, QuietSteps, QuietBegins DEF SessionsNext

(* The bounds hold at every time.                                          *)
LEMMA NextTime == Inv /\ TimeInv /\ [SessionsNext]_sessionsVars => TimeInv'
<1> SUFFICES ASSUME Inv, TimeInv, [SessionsNext]_sessionsVars PROVE TimeInv' OBVIOUS
<1>1. CASE Tick BY <1>1, TickKeepsTime
<1>2. CASE ~Tick
  <2>1. Inv' BY NextInv
  <2>2. KeepsTime /\ NoNewLookup BY <1>2, StepsKeepTime, StepsLookUp
  <2>3. \A s \in Session : cache[s] \in 0 .. CacheTicks BY DEF Inv, SessionTypeOK
  <2>4. CASE NoNewMemory BY <2>1, <2>2, <2>4, TimeStays DEF NoNewMemory
  <2>5. ASSUME NEW c \in Client, ResolveCache(c) PROVE TimeInv'
    <3>1. PICK g \in Lookup(Known) : g = inflight[c]
      BY <2>5 DEF ResolveCache, Running, Inv, HandlersOK, HandlerOK
    <3>2. cache' = [cache EXCEPT ![g.session] = g.left] BY <2>5, <3>1 DEF ResolveCache, Left
    <3>3. Usable(g.session) \/ g.left + since[g.session] <= CacheTicks
      BY <2>5, <3>1 DEF TimeInv, ResolveCache
    <3>4. \A s \in Session : \/ cache'[s] <= cache[s]
                             \/ Usable(s)
                             \/ cache'[s] + since[s] <= CacheTicks
      BY <2>3, <3>2, <3>3, SessionsAssumption DEF Inv, SessionTypeOK
    <3> QED BY <2>1, <2>2, <3>4, TimeStays
  <2> QED BY <1>2, <2>4, <2>5, StepsFade
<1> QED BY <1>1, <1>2

(* A session that has been revoked or suspended for five seconds is let in *)
(* by nobody's memory, not even by an answer that is late                  *)
(* (auth-core.ts:24, 33, 45).                                              *)
THEOREM TrustIsBounded == SessionsSpec => []TrustEndsInTime
<1>1. SessionsInit => TimeInv
  <2>1. CacheTicks \in Nat BY SessionsAssumption
  <2> QED BY <2>1 DEF SessionsInit, TimeInv, Exists, HandlersInit, NoHandler, Running
<1>2. Inv /\ TimeInv => TrustEndsInTime
  <2> SUFFICES ASSUME Inv, TimeInv, NEW s \in Session, since[s] = CacheTicks PROVE ~Accepted(s)
    BY DEF TrustEndsInTime
  <2>1. cache[s] \in 0 .. CacheTicks /\ CacheTicks \in Nat \ {0}
    BY SessionsAssumption DEF Inv, SessionTypeOK
  <2>2. cache[s] + since[s] <= CacheTicks BY <2>1 DEF TimeInv
  <2> QED BY <2>1, <2>2 DEF Accepted
<1> QED BY <1>1, <1>2, NextTime, InvHolds, PTL DEF SessionsSpec
=============================================================================
