------------------------- MODULE OfflineSyncProofs -------------------------
(***************************************************************************)
(* What a worker does on her phone, proved for any number of actions,      *)
(* requests on their way, losses, timeouts and crashes: a key counts once, *)
(* «done» is true, and the queue keeps the order she worked in.            *)
(*                                                                         *)
(* The inductive invariant follows the three places that remember: the key *)
(* row says who is inside a handler (KeysGuard); the status and the        *)
(* effects say what a handler may still find (WorkInv); the phone knows    *)
(* which request it waits for (PhoneInv) and in which order its rows came  *)
(* to be (OrderInv).                                                       *)
(***************************************************************************)
EXTENDS OfflineSync, FiniteSetTheorems, TLAPS

Inside(s) == req[s].stage \in InHandler

\* A request belongs to one of the keys, and the key row knows of it.
KeysGuard ==
    /\ \A s \in Slot : req[s].stage # "free" => req[s].key \in Key
    /\ \A s \in Slot : Inside(s) => keyRow[req[s].key] = "pending"
    /\ OneHandlerPerKey

Received == \E k \in Key : KindOf(k) = "receive" /\ effects[k] > 0

\* What she asked with k has happened.
Happened(k) == effects[k] > 0 \/ (KindOf(k) = "receive" /\ Received)

StatusOK ==
    /\ status \in {"READY_TO_DELIVER", "IN_PROGRESS", "READY_FOR_PICKUP", "CANCELLED"}
    /\ status \in {"IN_PROGRESS", "READY_FOR_PICKUP"} => Received

\* The status tells which effects there have been.
EffectsOK ==
    /\ KeyCountsOnce
    /\ \A k \in Key : effects[k] > 0 =>
          /\ KindOf(k) = "receive" => status # "READY_TO_DELIVER"
          /\ KindOf(k) = "ready" => status \notin {"READY_TO_DELIVER", "IN_PROGRESS"}

\* What a handler that has checked will commit, and an answer has told.
HandlersOK ==
    /\ \A s \in Slot : req[s].stage = "checked" /\ KindOf(req[s].key) # "receive" =>
                           effects[req[s].key] = 0 /\ Received
    /\ \A s \in Slot : req[s].stage = "committed" => Happened(req[s].key)
    /\ \A s \in Slot : req[s].stage = "answered" /\ req[s].answer = "ok" => Happened(req[s].key)
    /\ \A k \in Key : keyRow[k] = "done" => Happened(k)

WorkInv == StatusOK /\ EffectsOK /\ HandlersOK

\* Each wait is for a request with the key of what is waited for.
PhoneInv ==
    /\ live # NoLive => live.act \in Act /\ phase[live.act] = "trying"
    /\ live.slot # NoSlot => /\ live.act \in Act /\ req[live.slot].stage # "free"
                             /\ req[live.slot].key = <<live.act, "live">>
    /\ flush.slot # NoSlot => /\ flush.todo # {} /\ req[flush.slot].stage # "free"
                              /\ req[flush.slot].key = <<Oldest, "queue">>
    /\ DoneIsTrue

\* She works in order, and what the queue has not loaded came later.
OrderInv ==
    /\ \A a, b \in Act : a < b /\ phase[b] # "undone" => phase[a] # "undone"
    /\ live # NoLive => \A b \in Act : b > live.act => phase[b] = "undone"
    /\ flush.todo \subseteq Queued
    /\ \A a \in Queued \ flush.todo, b \in flush.todo : b < a

SyncInv == SyncTypeOK /\ KeysGuard /\ WorkInv /\ PhoneInv /\ OrderInv

ReqRow == [key : Key \cup {NoReq.key},
           stage : InHandler \cup {"free", "sent", "answered", "lost"},
           answer : {"none", "ok", "refused", "conflict", "error"}]

-----------------------------------------------------------------------------
(* The oldest row exists, and no other is older.                           *)
LEMMA MinIsLeast ==
  ASSUME NEW S \in SUBSET Nat, S # {}
  PROVE  Min(S) \in S /\ \A y \in S : Min(S) <= y
<1> DEFINE Less == {ss \in Nat \X Nat : ss[1] < ss[2]}
<1>1. IsWellFoundedOn(Less, Nat) BY NatLessThanWellFounded DEF OpToRel
<1>2. \A x, y \in Nat : <<x, y>> \in Less <=> x < y OBVIOUS
<1> HIDE DEF Less
<1>3. \E x \in S : \A y \in S : ~(<<y, x>> \in Less) BY <1>1, WFMin
<1>4. \E x \in S : \A y \in S : x <= y
    <2>1. PICK x \in S : \A y \in S : ~(<<y, x>> \in Less) BY <1>3
    <2>2. ASSUME NEW y \in S PROVE x <= y
        <3>1. x \in Nat /\ y \in Nat /\ ~(y < x) BY <1>2, <2>1
        <3> QED BY <3>1
    <2> QED BY <2>2
<1> QED BY <1>4 DEF Min

\* The kind of a key is the kind of its action.
LEMMA KindTypes ==
  ASSUME NEW k \in Key
  PROVE  KindOf(k) \in {"receive", "progress", "ready"}
BY SyncAssumption DEF Key, KindOf

(* The row to send is one of those loaded. *)
LEMMA OldestIsLoaded ==
  ASSUME SyncTypeOK, flush.todo # {}
  PROVE  /\ Oldest \in flush.todo /\ Oldest \in Act
         /\ \A a \in flush.todo : Oldest <= a
<1>1. flush.todo \in SUBSET Act BY DEF SyncTypeOK
<1>2. flush.todo \in SUBSET Nat BY <1>1, SyncAssumption
<1> QED BY <1>1, <1>2, MinIsLeast DEF Oldest

-----------------------------------------------------------------------------
(* One request moves on: it may enter a handler only under a free key, and *)
(* only the handler of a key touches the key row.                          *)
LEMMA KeysStayGuarded ==
  ASSUME SyncInv, NEW s \in Slot, NEW r \in ReqRow, req' = [req EXCEPT ![s] = r],
         r.stage # "free" => r.key \in Key,
         r.stage \in InHandler => r.key = req[s].key /\ keyRow'[r.key] = "pending",
         r.stage \in InHandler => Inside(s) \/ keyRow[r.key] = "none",
         \A k \in Key : \/ keyRow'[k] = keyRow[k]
                        \/ keyRow[k] = "none"
                        \/ Inside(s) /\ k = req[s].key
  PROVE  KeysGuard'
<1>1. req'[s] = r /\ \A t \in Slot \ {s} : req'[t] = req[t]
    BY DEF SyncInv, SyncTypeOK
<1>2. \A t \in Slot : req'[t].stage # "free" => req'[t].key \in Key
    BY <1>1 DEF SyncInv, KeysGuard
<1>3. ASSUME NEW t \in Slot \ {s}, Inside(t)
      PROVE  keyRow'[req[t].key] = "pending" /\ (r.stage \in InHandler => r.key # req[t].key)
    <2>1. keyRow[req[t].key] = "pending" /\ req[t].key \in Key
        BY <1>3 DEF SyncInv, KeysGuard, Inside, InHandler
    <2>2. Inside(s) => req[s].key # req[t].key
        BY <1>3 DEF SyncInv, KeysGuard, OneHandlerPerKey, Inside
    <2> QED BY <2>1, <2>2
<1>4. ASSUME NEW t \in Slot, req'[t].stage \in InHandler
      PROVE  keyRow'[req'[t].key] = "pending"
    <2>1. CASE t = s BY <1>1, <1>4, <2>1
    <2>2. CASE t # s
        <3>1. req'[t] = req[t] /\ Inside(t) BY <1>1, <1>4, <2>2 DEF Inside
        <3> QED BY <1>3, <2>2, <3>1
    <2> QED BY <2>1, <2>2
<1>5. OneHandlerPerKey'
    <2> SUFFICES ASSUME NEW t \in Slot, NEW u \in Slot, t # u,
                        req'[t].stage \in InHandler, req'[u].stage \in InHandler,
                        req'[t].key = req'[u].key
                 PROVE  FALSE
        BY DEF OneHandlerPerKey, InHandler
    <2>1. CASE t # s /\ u # s
        BY <1>1, <2>1 DEF SyncInv, KeysGuard, OneHandlerPerKey
    <2>2. CASE t = s BY <1>1, <1>3, <2>2 DEF Inside
    <2>3. CASE u = s BY <1>1, <1>3, <2>3 DEF Inside
    <2> QED BY <2>1, <2>2, <2>3
<1> QED BY <1>2, <1>4, <1>5 DEF KeysGuard, Inside, InHandler

(* A request moves on without touching the work: what it now stands for    *)
(* has happened.                                                           *)
LEMMA WorkUntouched ==
  ASSUME SyncInv, NEW s \in Slot, NEW r \in ReqRow, req' = [req EXCEPT ![s] = r],
         UNCHANGED <<status, effects>>,
         r.stage = "checked" /\ KindOf(r.key) # "receive" => effects[r.key] = 0 /\ Received,
         r.stage = "committed" => Happened(r.key),
         r.stage = "answered" /\ r.answer = "ok" => Happened(r.key),
         \A k \in Key : keyRow'[k] = "done" => keyRow[k] = "done" \/ Happened(k)
  PROVE  WorkInv'
<1>1. req'[s] = r /\ \A t \in Slot \ {s} : req'[t] = req[t]
    BY DEF SyncInv, SyncTypeOK
<1>2. Received' <=> Received BY DEF Received
<1>4. StatusOK' /\ EffectsOK'
    BY <1>2 DEF SyncInv, WorkInv, StatusOK, EffectsOK, KeyCountsOnce
<1>5. \A t \in Slot :
        /\ req'[t].stage = "checked" /\ KindOf(req'[t].key) # "receive" =>
               effects'[req'[t].key] = 0 /\ Received'
        /\ req'[t].stage = "committed" => Happened(req'[t].key)
        /\ req'[t].stage = "answered" /\ req'[t].answer = "ok" => Happened(req'[t].key)
    BY <1>1, <1>2 DEF SyncInv, WorkInv, HandlersOK
<1>6. \A k \in Key : keyRow'[k] = "done" => Happened(k)
    BY DEF SyncInv, WorkInv, HandlersOK
<1>7. HandlersOK'
    BY <1>2, <1>5, <1>6 DEF HandlersOK, Happened
<1> QED BY <1>4, <1>7 DEF WorkInv

(* The phone waits on: nothing it waits for is taken away.                 *)
LEMMA PhoneStays ==
  ASSUME SyncInv, UNCHANGED phoneVars,
         \A k \in Key : effects[k] > 0 => effects'[k] > 0,
         \A t \in Slot : Awaited(t) => req'[t].stage # "free" /\ req'[t].key = req[t].key
  PROVE  PhoneInv' /\ OrderInv'
<1>1. phase' = phase /\ live' = live /\ flush' = flush BY DEF phoneVars
<1>2. Oldest' = Oldest BY <1>1 DEF Oldest
<1>3. live.slot \in Slot \cup {NoSlot} /\ flush.slot \in Slot \cup {NoSlot}
    BY DEF SyncInv, SyncTypeOK
<1>4. live.slot # NoSlot => req'[live.slot].stage # "free" /\ req'[live.slot].key = <<live.act, "live">>
    BY <1>3 DEF Awaited, SyncInv, PhoneInv
<1>5. flush.slot # NoSlot => req'[flush.slot].stage # "free" /\ req'[flush.slot].key = <<Oldest, "queue">>
    BY <1>3 DEF Awaited, SyncInv, PhoneInv
<1>6. DoneIsTrue'
    <2>1. \A a \in Act : <<a, "live">> \in Key /\ <<a, "queue">> \in Key BY DEF Key
    <2> QED BY <1>1, <2>1 DEF SyncInv, PhoneInv, DoneIsTrue
<1>7. PhoneInv' BY <1>1, <1>2, <1>4, <1>5, <1>6 DEF SyncInv, PhoneInv
<1>8. OrderInv' BY <1>1 DEF SyncInv, OrderInv, Queued
<1> QED BY <1>7, <1>8

(* One request moves on at the server, the work stays as it is.            *)
LEMMA OneRequestMoves ==
  ASSUME SyncInv, NEW s \in Slot, NEW r \in ReqRow, req' = [req EXCEPT ![s] = r],
         req[s].stage # "free", UNCHANGED <<phoneVars, status, effects>>,
         r.stage # "free" => r.key = req[s].key,
         Awaited(s) => r.stage # "free",
         keyRow' \in [Key -> {"none", "pending", "done"}],
         r.stage \in InHandler => keyRow'[r.key] = "pending",
         r.stage \in InHandler => Inside(s) \/ keyRow[r.key] = "none",
         \A k \in Key : \/ keyRow'[k] = keyRow[k]
                        \/ keyRow[k] = "none"
                        \/ Inside(s) /\ k = req[s].key,
         r.stage = "checked" /\ KindOf(r.key) # "receive" => effects[r.key] = 0 /\ Received,
         r.stage = "committed" => Happened(r.key),
         r.stage = "answered" /\ r.answer = "ok" => Happened(r.key),
         \A k \in Key : keyRow'[k] = "done" => keyRow[k] = "done" \/ Happened(k)
  PROVE  SyncInv'
<1>1. req \in [Slot -> ReqRow] BY DEF SyncInv, SyncTypeOK, ReqRow
<1>2. req' \in [Slot -> ReqRow] BY <1>1
<1>3. SyncTypeOK' BY <1>2 DEF SyncInv, SyncTypeOK, ReqRow, phoneVars, InHandler
<1>4. req[s].key \in Key BY DEF SyncInv, KeysGuard
<1>5. KeysGuard'
    <2>1. r.stage \in InHandler => r.key = req[s].key /\ keyRow'[r.key] = "pending"
        BY DEF InHandler
    <2>2. r.stage # "free" => r.key \in Key BY <1>4
    <2> QED BY <2>1, <2>2, KeysStayGuarded
<1>6. WorkInv' BY WorkUntouched
<1>7. \A t \in Slot : Awaited(t) => req'[t].stage # "free" /\ req'[t].key = req[t].key
    <2>1. \A t \in Slot : Awaited(t) => req[t].stage # "free"
        BY SyncAssumption DEF Awaited, SyncInv, PhoneInv
    <2>2. \A t \in Slot : req'[t] = IF t = s THEN r ELSE req[t] BY <1>1
    <2> QED BY <2>1, <2>2
<1>8. PhoneInv' /\ OrderInv' BY <1>7, PhoneStays
<1> QED BY <1>3, <1>5, <1>6, <1>8 DEF SyncInv

(* A request that only moves to another stage. *)
LEMMA StageRow ==
  ASSUME SyncInv, NEW s \in Slot, NEW stage \in InHandler, Stage(s, stage)
  PROVE  \E r \in ReqRow : /\ req' = [req EXCEPT ![s] = r]
                           /\ r.stage = stage /\ r.key = req[s].key
<1> DEFINE r == [req[s] EXCEPT !.stage = stage]
<1>1. req \in [Slot -> ReqRow] BY DEF SyncInv, SyncTypeOK, ReqRow
<1>2. req[s] \in ReqRow BY <1>1
<1>3. r \in ReqRow /\ r.stage = stage /\ r.key = req[s].key
    BY <1>2 DEF ReqRow
<1>4. req' = [req EXCEPT ![s] = r] BY <1>1 DEF Stage
<1> HIDE DEF r
<1> QED BY <1>3, <1>4

(* What the answer leaves in the slot. *)
LEMMA AnsweredRow ==
  ASSUME SyncInv, NEW s \in Slot, NEW answer \in {"ok", "refused", "conflict", "error"},
         Answered(s, answer)
  PROVE  \E r \in ReqRow : /\ req' = [req EXCEPT ![s] = r]
                           /\ r.stage \in {"free", "answered"}
                           /\ r.stage # "free" => r.key = req[s].key /\ r.answer = answer
                           /\ Awaited(s) => r.stage # "free"
<1> DEFINE r == IF Awaited(s) THEN [req[s] EXCEPT !.stage = "answered", !.answer = answer] ELSE NoReq
<1>1. req \in [Slot -> ReqRow] BY DEF SyncInv, SyncTypeOK, ReqRow
<1>2. req[s] \in ReqRow BY <1>1
<1>3. r \in ReqRow /\ r.stage \in {"free", "answered"}
      /\ (r.stage # "free" => r.key = req[s].key /\ r.answer = answer)
      /\ (Awaited(s) => r.stage # "free")
    BY <1>2 DEF ReqRow, NoReq
<1>4. req' = [req EXCEPT ![s] = r] BY DEF Answered
<1> HIDE DEF r
<1> QED BY <1>3, <1>4

(* An answer that may free the key ends the handler. *)
LEMMA AnswerKeeps ==
  ASSUME SyncInv, NEW s \in Slot, NEW answer \in {"ok", "refused", "conflict", "error"},
         Answered(s, answer), req[s].stage # "free",
         UNCHANGED <<phoneVars, status, effects>>,
         answer = "ok" => Happened(req[s].key),
         \/ keyRow' = keyRow
         \/ /\ Inside(s)
            /\ \E mark \in {"none", "done"} : /\ keyRow' = [keyRow EXCEPT ![req[s].key] = mark]
                                              /\ mark = "done" => Happened(req[s].key)
  PROVE  SyncInv'
<1>1. PICK r \in ReqRow : /\ req' = [req EXCEPT ![s] = r]
                          /\ r.stage \in {"free", "answered"}
                          /\ r.stage # "free" => r.key = req[s].key /\ r.answer = answer
                          /\ Awaited(s) => r.stage # "free"
    BY AnsweredRow
<1>2. r.stage \notin InHandler /\ r.stage # "checked" /\ r.stage # "committed"
    BY <1>1 DEF InHandler
<1>3. keyRow \in [Key -> {"none", "pending", "done"}] BY DEF SyncInv, SyncTypeOK
<1>4. req[s].key \in Key BY DEF SyncInv, KeysGuard
<1>5. keyRow' \in [Key -> {"none", "pending", "done"}] BY <1>3
<1>6. \A k \in Key : \/ keyRow'[k] = keyRow[k]
                     \/ keyRow[k] = "none"
                     \/ Inside(s) /\ k = req[s].key
    BY <1>3
<1>7. \A k \in Key : keyRow'[k] = "done" => keyRow[k] = "done" \/ Happened(k)
    BY <1>3, <1>4
<1>8. r.stage = "answered" /\ r.answer = "ok" => Happened(r.key) BY <1>1
<1> QED BY <1>1, <1>2, <1>5, <1>6, <1>7, <1>8, OneRequestMoves

\* The claim of a key, fresh, taken over or answered from what is stored.
LEMMA ClaimKeeps == ASSUME SyncInv, NEW s \in Slot, Claim(s) PROVE SyncInv'
<1> DEFINE k == req[s].key
<1>1. req[s].stage = "sent" /\ UNCHANGED <<phoneVars, status, effects>> BY DEF Claim
<1>2. k \in Key BY <1>1 DEF SyncInv, KeysGuard
<1>3. keyRow \in [Key -> {"none", "pending", "done"}] BY DEF SyncInv, SyncTypeOK
<1>4. CASE keyRow[k] = "none"
    <2>1. keyRow' = [keyRow EXCEPT ![k] = "pending"] /\ Stage(s, "claimed") BY <1>4 DEF Claim
    <2>2. PICK r \in ReqRow : req' = [req EXCEPT ![s] = r] /\ r.stage = "claimed" /\ r.key = k
        BY <2>1, StageRow DEF InHandler
    <2>3. keyRow' \in [Key -> {"none", "pending", "done"}] /\ keyRow'[k] = "pending"
          /\ \A j \in Key : j # k => keyRow'[j] = keyRow[j]
        BY <1>2, <1>3, <2>1
    <2> HIDE DEF k
    <2> QED BY <1>1, <1>4, <2>2, <2>3, OneRequestMoves DEF k
<1>5. CASE keyRow[k] # "none"
    <2>1. Answered(s, Replay(keyRow[k])) /\ keyRow' = keyRow BY <1>5 DEF Claim, AfterReplay
    <2>2. Replay(keyRow[k]) \in {"ok", "conflict"} BY DEF Replay
    <2>3. Replay(keyRow[k]) = "ok" => Happened(k)
        BY <1>2 DEF Replay, SyncInv, WorkInv, HandlersOK
    <2> QED BY <1>1, <2>1, <2>2, <2>3, AnswerKeeps
<1> QED BY <1>4, <1>5

\* A refusal ends a request and gives its key back; nothing was written.
LEMMA RefuseKeeps == ASSUME SyncInv, NEW s \in Slot, Refuse(s) \/ CommitRefused(s) PROVE SyncInv'
<1>1. /\ Inside(s) /\ req[s].stage # "free" /\ Answered(s, "refused")
      /\ keyRow' = [keyRow EXCEPT ![req[s].key] = "none"]
      /\ UNCHANGED <<phoneVars, status, effects>>
    BY DEF Refuse, CommitRefused, Inside, InHandler
<1> QED BY <1>1, AnswerKeeps

\* A fault of the server gives the key back, whether the effect was committed or not.
LEMMA ServerErrorKeeps == ASSUME SyncInv, NEW s \in Slot, ServerError(s) PROVE SyncInv'
<1>1. /\ Inside(s) /\ req[s].stage # "free" /\ Answered(s, "error")
      /\ keyRow' = [keyRow EXCEPT ![req[s].key] = "none"]
      /\ UNCHANGED <<phoneVars, status, effects>>
    BY DEF ServerError, Inside, InHandler
<1> QED BY <1>1, AnswerKeeps

\* The answer stored, the request is over; its effect has happened already.
LEMMA CompleteKeeps == ASSUME SyncInv, NEW s \in Slot, Complete(s) PROVE SyncInv'
<1>1. /\ Inside(s) /\ req[s].stage # "free" /\ Answered(s, "ok")
      /\ keyRow' = [keyRow EXCEPT ![req[s].key] = "done"]
      /\ UNCHANGED <<phoneVars, status, effects>>
    BY DEF Complete, Inside, InHandler
<1>2. Happened(req[s].key) BY DEF Complete, SyncInv, WorkInv, HandlersOK
<1> QED BY <1>1, <1>2, AnswerKeeps

(* Nothing more to do: what was asked has happened before. *)
LEMMA AlreadyDoneKeeps == ASSUME SyncInv, NEW s \in Slot, AlreadyDone(s) PROVE SyncInv'
<1> DEFINE k == req[s].key
<1>1. /\ req[s].stage = "claimed" /\ Known(k) /\ Stage(s, "committed")
      /\ UNCHANGED <<phoneVars, keyRow, status, effects>>
    BY DEF AlreadyDone, serverVars
<1>2. Inside(s) /\ keyRow[k] = "pending" /\ k \in Key
    BY <1>1 DEF SyncInv, KeysGuard, Inside, InHandler
<1>3. Happened(k)
    BY <1>1 DEF Known, Happened, SyncInv, WorkInv, StatusOK
<1>4. PICK r \in ReqRow : req' = [req EXCEPT ![s] = r] /\ r.stage = "committed" /\ r.key = k
    BY <1>1, StageRow DEF InHandler
<1>5. keyRow' \in [Key -> {"none", "pending", "done"}] BY <1>1 DEF SyncInv, SyncTypeOK
<1> HIDE DEF k
<1> QED BY <1>1, <1>2, <1>3, <1>4, <1>5, OneRequestMoves DEF k

(* What the handler has checked holds until it commits: its key is its own *)
(* and the effects of a key come from its handlers alone.                  *)
LEMMA CheckKeeps == ASSUME SyncInv, NEW s \in Slot, Check(s) PROVE SyncInv'
<1> DEFINE k == req[s].key
<1>1. /\ req[s].stage = "claimed" /\ Allowed(k) /\ ~Known(k) /\ Stage(s, "checked")
      /\ UNCHANGED <<phoneVars, keyRow, status, effects>>
    BY DEF Check, serverVars
<1>2. Inside(s) /\ keyRow[k] = "pending" /\ k \in Key
    BY <1>1 DEF SyncInv, KeysGuard, Inside, InHandler
<1>3. effects[k] \in Nat BY <1>2 DEF SyncInv, SyncTypeOK
<1>4. KindOf(k) # "receive" => effects[k] = 0 /\ Received
    <2> SUFFICES ASSUME KindOf(k) # "receive" PROVE effects[k] = 0 /\ Received
        OBVIOUS
    <2>1. status = "IN_PROGRESS" BY <1>1 DEF Allowed
    <2>2. Received BY <2>1 DEF SyncInv, WorkInv, StatusOK
    <2>3. CASE KindOf(k) = "progress" BY <1>1, <1>3, <2>2, <2>3 DEF Known
    <2>4. CASE KindOf(k) = "ready"
        <3>1. ~(effects[k] > 0) BY <1>2, <2>1, <2>4 DEF SyncInv, WorkInv, EffectsOK
        <3> QED BY <1>3, <2>2, <3>1
    <2> QED BY <1>2, <2>3, <2>4, KindTypes
<1>5. PICK r \in ReqRow : req' = [req EXCEPT ![s] = r] /\ r.stage = "checked" /\ r.key = k
    BY <1>1, StageRow DEF InHandler
<1>6. keyRow' \in [Key -> {"none", "pending", "done"}] BY <1>1 DEF SyncInv, SyncTypeOK
<1> HIDE DEF k
<1> QED BY <1>1, <1>2, <1>4, <1>5, <1>6, OneRequestMoves DEF k

\* A request whose answer is lost leaves a waiting row where it was.
LEMMA LostRow ==
  ASSUME SyncInv, NEW s \in Slot
  PROVE  /\ Lost(req[s], s) \in ReqRow /\ Lost(req[s], s).stage \in {"free", "lost"}
         /\ Lost(req[s], s).stage # "free" => Lost(req[s], s).key = req[s].key
         /\ Awaited(s) => Lost(req[s], s).stage # "free"
<1>1. req \in [Slot -> ReqRow] BY DEF SyncInv, SyncTypeOK, ReqRow
<1>2. req[s] \in ReqRow BY <1>1
<1> QED BY <1>2 DEF Lost, ReqRow, NoReq

\* A request lost on its way there or back moves the phone only.
LEMMA DropKeeps == ASSUME SyncInv, NEW s \in Slot, Drop(s) PROVE SyncInv'
<1> DEFINE r == Lost(req[s], s)
<1>1. r \in ReqRow /\ r.stage \in {"free", "lost"} /\ (r.stage # "free" => r.key = req[s].key)
      /\ (Awaited(s) => r.stage # "free")
    BY LostRow
<1>2. req' = [req EXCEPT ![s] = r] /\ req[s].stage # "free"
      /\ UNCHANGED <<phoneVars, keyRow, status, effects>>
    BY DEF Drop, serverVars
<1>3. keyRow' \in [Key -> {"none", "pending", "done"}] BY <1>2 DEF SyncInv, SyncTypeOK
<1>4. r.stage \notin InHandler /\ r.stage # "checked" /\ r.stage # "committed" /\ r.stage # "answered"
    BY <1>1 DEF InHandler
<1> HIDE DEF r
<1> QED BY <1>1, <1>2, <1>3, <1>4, OneRequestMoves

(* The transaction: the one place where the work changes.                  *)
LEMMA CommitKeeps == ASSUME SyncInv, NEW s \in Slot, Commit(s) PROVE SyncInv'
<1> DEFINE k == req[s].key
<1>1. /\ req[s].stage = "checked" /\ Stage(s, "committed")
      /\ effects' = [effects EXCEPT ![k] = @ + 1]
      /\ UNCHANGED <<phoneVars, keyRow>>
    BY DEF Commit
<1>2. Inside(s) /\ keyRow[k] = "pending" /\ k \in Key
    BY <1>1 DEF SyncInv, KeysGuard, Inside, InHandler
<1>3. effects \in [Key -> Nat] /\ status \in {"READY_TO_DELIVER", "IN_PROGRESS", "READY_FOR_PICKUP", "CANCELLED"}
    BY DEF SyncInv, SyncTypeOK, WorkInv, StatusOK
<1>4. effects[k] = 0
    <2>1. CASE KindOf(k) = "receive"
        <3>1. status = "READY_TO_DELIVER" BY <2>1 DEF Commit, Allowed
        <3>2. ~(effects[k] > 0) BY <1>2, <2>1, <3>1 DEF SyncInv, WorkInv, EffectsOK
        <3> QED BY <1>2, <1>3, <3>2
    <2>2. CASE KindOf(k) # "receive" BY <1>1, <2>2 DEF SyncInv, WorkInv, HandlersOK
    <2> QED BY <2>1, <2>2
<1>5. effects' \in [Key -> Nat] /\ effects'[k] = 1 /\ \A j \in Key : j # k => effects'[j] = effects[j]
    BY <1>1, <1>2, <1>3, <1>4
<1>6. status' = CASE KindOf(k) = "receive" -> "IN_PROGRESS"
                  [] KindOf(k) = "ready" -> "READY_FOR_PICKUP"
                  [] OTHER -> status
    BY DEF Commit
<1>7. PICK r \in ReqRow : req' = [req EXCEPT ![s] = r] /\ r.stage = "committed" /\ r.key = k
    BY <1>1, StageRow DEF InHandler
<1>8. req \in [Slot -> ReqRow] BY DEF SyncInv, SyncTypeOK, ReqRow
<1>9. req' \in [Slot -> ReqRow] /\ \A t \in Slot : req'[t] = IF t = s THEN r ELSE req[t]
    BY <1>7, <1>8
<1> HIDE DEF k
<1>10. SyncTypeOK' BY <1>1, <1>5, <1>9 DEF SyncInv, SyncTypeOK, ReqRow, phoneVars, InHandler
<1>11. KeysGuard' BY <1>1, <1>2, <1>7, KeysStayGuarded DEF k
<1>12. \A j \in Key : effects[j] > 0 => effects'[j] > 0 BY <1>3, <1>4, <1>5
<1>13. Received => Received' BY <1>12 DEF Received
<1>14. KindOf(k) = "receive" => Received' BY <1>2, <1>5 DEF Received
<1>15. KindOf(k) # "receive" => Received BY <1>1 DEF SyncInv, WorkInv, HandlersOK, k
<1>16. KindOf(k) \in {"receive", "progress", "ready"} BY <1>2, KindTypes
<1>17. StatusOK' BY <1>3, <1>6, <1>13, <1>14, <1>15, <1>16 DEF StatusOK
<1>18. EffectsOK'
    <2>1. KeyCountsOnce' BY <1>5 DEF SyncInv, WorkInv, EffectsOK, KeyCountsOnce
    <2>2. ASSUME NEW j \in Key, effects'[j] > 0
          PROVE  /\ KindOf(j) = "receive" => status' # "READY_TO_DELIVER"
                 /\ KindOf(j) = "ready" => status' \notin {"READY_TO_DELIVER", "IN_PROGRESS"}
        <3>1. CASE j = k
            <4>1. CASE KindOf(k) = "receive" BY <1>6, <3>1, <4>1
            <4>2. CASE KindOf(k) = "ready" BY <1>6, <3>1, <4>2
            <4>3. CASE KindOf(k) = "progress" BY <3>1, <4>3
            <4> QED BY <1>16, <4>1, <4>2, <4>3
        <3>2. CASE j # k
            <4>1. effects[j] > 0 BY <1>5, <2>2, <3>2
            <4>2. /\ KindOf(j) = "receive" => status # "READY_TO_DELIVER"
                  /\ KindOf(j) = "ready" => status \notin {"READY_TO_DELIVER", "IN_PROGRESS"}
                BY <4>1 DEF SyncInv, WorkInv, EffectsOK
            <4>3. KindOf(k) = "receive" => status = "READY_TO_DELIVER"
                BY DEF Commit, Allowed, k
            <4>4. CASE KindOf(k) = "receive" BY <1>6, <4>2, <4>3, <4>4
            <4>5. CASE KindOf(k) = "ready" BY <1>6, <4>5
            <4>6. CASE KindOf(k) = "progress" BY <1>6, <4>2, <4>6
            <4> QED BY <1>16, <4>4, <4>5, <4>6
        <3> QED BY <3>1, <3>2
    <2> QED BY <2>1, <2>2 DEF EffectsOK
<1>19. \A j \in Key : Happened(j) => Happened(j)' BY <1>12, <1>13 DEF Happened
<1>20. HandlersOK'
    <2>1. ASSUME NEW t \in Slot, req'[t].stage = "checked", KindOf(req'[t].key) # "receive"
          PROVE  effects'[req'[t].key] = 0 /\ Received'
        <3>1. t # s /\ req'[t] = req[t] BY <1>7, <1>9, <2>1
        <3>2. req[t].key # k
            BY <1>2, <2>1, <3>1 DEF SyncInv, KeysGuard, OneHandlerPerKey, Inside, InHandler, k
        <3>3. effects[req[t].key] = 0 /\ Received
            BY <2>1, <3>1 DEF SyncInv, WorkInv, HandlersOK
        <3>4. req[t].key \in Key BY <2>1, <3>1 DEF SyncInv, KeysGuard
        <3> QED BY <1>5, <1>13, <3>1, <3>2, <3>3, <3>4
    <2>2. ASSUME NEW t \in Slot,
                 req'[t].stage = "committed" \/ (req'[t].stage = "answered" /\ req'[t].answer = "ok")
          PROVE  effects'[req'[t].key] > 0 \/ (KindOf(req'[t].key) = "receive" /\ Received')
        <3>1. CASE t = s BY <1>5, <1>7, <1>9, <3>1
        <3>2. CASE t # s
            <4>1. req'[t] = req[t] BY <1>9, <3>2
            <4>2. Happened(req[t].key) /\ req[t].key \in Key
                BY <2>2, <4>1 DEF SyncInv, WorkInv, HandlersOK, KeysGuard
            <4> QED BY <1>12, <1>13, <4>1, <4>2 DEF Happened
        <3> QED BY <3>1, <3>2
    <2>3. \A j \in Key : keyRow'[j] = "done" => Happened(j)'
        BY <1>1, <1>19 DEF SyncInv, WorkInv, HandlersOK
    <2> QED BY <2>1, <2>2, <2>3 DEF HandlersOK, Happened
<1>21. WorkInv' BY <1>17, <1>18, <1>20 DEF WorkInv
<1>22. PhoneInv' /\ OrderInv'
    <2>1. \A t \in Slot : Awaited(t) => req'[t].stage # "free" /\ req'[t].key = req[t].key
        <3>1. \A t \in Slot : Awaited(t) => req[t].stage # "free"
            BY SyncAssumption DEF Awaited, SyncInv, PhoneInv
        <3> QED BY <1>7, <1>9, <3>1 DEF k
    <2> QED BY <1>1, <1>12, <2>1, PhoneStays
<1> QED BY <1>10, <1>11, <1>21, <1>22 DEF SyncInv

(* The API process dies: what it served is gone, the key rows stay. *)
LEMMA CrashKeeps == ASSUME SyncInv, Crash PROVE SyncInv'
<1> DEFINE dies(s) == req[s].stage \in InHandler \cup {"sent"}
<1>1. req' = [s \in Slot |-> IF dies(s) THEN Lost(req[s], s) ELSE req[s]]
      /\ UNCHANGED <<phoneVars, keyRow, status, effects>>
    BY DEF Crash, serverVars
<1>2. req \in [Slot -> ReqRow] BY DEF SyncInv, SyncTypeOK, ReqRow
<1>3. ASSUME NEW s \in Slot
      PROVE  /\ req'[s] \in ReqRow /\ req'[s].stage \notin InHandler
             /\ req'[s].stage # "free" => req'[s].key = req[s].key /\ req[s].stage # "free"
             /\ req'[s].stage \in {"checked", "committed"} => FALSE
             /\ req'[s].stage = "answered" => req'[s] = req[s]
             /\ Awaited(s) => req'[s].stage # "free" /\ req'[s].key = req[s].key
    <2>1. CASE dies(s)
        <3>1. req'[s] = Lost(req[s], s) BY <1>1, <2>1
        <3>2. req[s].stage # "free" BY <2>1 DEF InHandler
        <3> HIDE DEF dies
        <3> QED BY <3>1, <3>2, LostRow DEF InHandler
    <2>2. CASE ~dies(s)
        <3>1. req'[s] = req[s] /\ req[s] \in ReqRow BY <1>1, <1>2, <2>2
        <3>2. req[s].stage \notin InHandler BY <2>2
        <3>3. Awaited(s) => req[s].stage # "free" BY SyncAssumption DEF Awaited, SyncInv, PhoneInv
        <3> HIDE DEF dies
        <3> QED BY <3>1, <3>2, <3>3 DEF InHandler
    <2> QED BY <2>1, <2>2
<1>4. req' \in [Slot -> ReqRow] BY <1>1, <1>3
<1>5. SyncTypeOK' BY <1>1, <1>4 DEF SyncInv, SyncTypeOK, ReqRow, phoneVars, InHandler
<1>6. KeysGuard' BY <1>3 DEF SyncInv, KeysGuard, OneHandlerPerKey, Inside, InHandler
<1>7. WorkInv'
    <2>1. StatusOK' /\ EffectsOK'
        BY <1>1 DEF SyncInv, WorkInv, StatusOK, EffectsOK, KeyCountsOnce, Received
    <2>2. \A s \in Slot : req'[s].stage = "answered" /\ req'[s].answer = "ok" => Happened(req[s].key)
        BY <1>3 DEF SyncInv, WorkInv, HandlersOK
    <2>3. HandlersOK'
        BY <1>1, <1>3, <2>2 DEF SyncInv, WorkInv, HandlersOK, Happened, Received
    <2> QED BY <2>1, <2>3 DEF WorkInv
<1>8. PhoneInv' /\ OrderInv'
    <2>1. \A k \in Key : effects[k] > 0 => effects'[k] > 0 BY <1>1
    <2> QED BY <1>1, <1>3, <2>1, PhoneStays
<1> QED BY <1>5, <1>6, <1>7, <1>8 DEF SyncInv

(* Cancelled work is never received again. *)
LEMMA StaffCancelsKeeps == ASSUME SyncInv, StaffCancels PROVE SyncInv'
<1>1. status' = "CANCELLED" /\ UNCHANGED <<phoneVars, req, keyRow, effects>>
    BY DEF StaffCancels
<1>2. SyncTypeOK' BY <1>1 DEF SyncInv, SyncTypeOK, phoneVars
<1>3. KeysGuard' BY <1>1 DEF SyncInv, KeysGuard, OneHandlerPerKey, Inside
<1>4. WorkInv'
    BY <1>1 DEF SyncInv, WorkInv, StatusOK, EffectsOK, HandlersOK, KeyCountsOnce, Received, Happened
<1>5. PhoneInv' /\ OrderInv'
    <2>1. \A k \in Key : effects[k] > 0 => effects'[k] > 0 BY <1>1
    <2>2. \A t \in Slot : Awaited(t) => req'[t].stage # "free" /\ req'[t].key = req[t].key
        BY <1>1, SyncAssumption DEF Awaited, SyncInv, PhoneInv
    <2> QED BY <1>1, <2>1, <2>2, PhoneStays
<1> QED BY <1>2, <1>3, <1>4, <1>5 DEF SyncInv

-----------------------------------------------------------------------------
(* The screen's try ends: nothing she did later is on the phone yet.       *)
LEMMA LiveEndsKeeps ==
  ASSUME SyncInv, NEW s \in Slot, NEW answer, live.slot = s, LiveEnds(answer),
         answer = "ok" => Happened(req[s].key), UNCHANGED effects,
         \A t \in Slot \ {s} : req'[t] = req[t]
  PROVE  PhoneInv' /\ OrderInv'
         /\ phase' \in [Act -> {"undone", "trying", "queued", "done", "told", "refused", "dismissed"}]
         /\ live' \in [act : Act \cup {0}, slot : Slot \cup {NoSlot}]
         /\ flush' \in [todo : SUBSET Act, slot : Slot \cup {NoSlot}]
<1> DEFINE a == live.act
           X == IF answer = "ok" THEN "done"
                ELSE IF answer \in Retryable /\ Kind[live.act] # "receive" THEN "queued"
                ELSE "told"
<1>1. live # NoLive /\ live.slot # NoSlot BY SyncAssumption DEF NoLive
<1>2. a \in Act /\ phase[a] = "trying" /\ req[s].key = <<a, "live">>
    BY <1>1 DEF SyncInv, PhoneInv
<1>3. phase \in [Act -> {"undone", "trying", "queued", "done", "told", "refused", "dismissed"}]
      /\ flush \in [todo : SUBSET Act, slot : Slot \cup {NoSlot}]
    BY DEF SyncInv, SyncTypeOK
<1>4. phase' = [phase EXCEPT ![a] = X] /\ live' = NoLive /\ flush' = flush
    BY DEF LiveEnds
<1>5. X \in {"done", "queued", "told"} /\ (X = "done" => answer = "ok") OBVIOUS
<1> HIDE DEF X
<1>6. phase' \in [Act -> {"undone", "trying", "queued", "done", "told", "refused", "dismissed"}]
      /\ \A b \in Act : phase'[b] = IF b = a THEN X ELSE phase[b]
    BY <1>2, <1>3, <1>4, <1>5
<1>7. live' \in [act : Act \cup {0}, slot : Slot \cup {NoSlot}] /\ live'.slot = NoSlot
    BY <1>4 DEF NoLive
<1>8. flush.slot # NoSlot => flush.slot # s /\ flush.slot \in Slot
    <2>1. flush.slot # NoSlot => req[flush.slot].key = <<Oldest, "queue">>
        BY DEF SyncInv, PhoneInv
    <2> QED BY <1>2, <1>3, <2>1
<1>9. flush'.slot # NoSlot => /\ flush'.todo # {} /\ req'[flush'.slot].stage # "free"
                              /\ req'[flush'.slot].key = <<Oldest, "queue">>'
    BY <1>4, <1>8 DEF SyncInv, PhoneInv, Oldest
<1>10. X = "done" => \/ effects[<<a, "live">>] > 0
                     \/ Kind[a] = "receive" /\ Received
    BY <1>2, <1>5 DEF Happened, KindOf
<1>11. DoneIsTrue'
    BY <1>6, <1>10 DEF SyncInv, PhoneInv, DoneIsTrue, Received
<1>12. PhoneInv' BY <1>4, <1>7, <1>9, <1>11 DEF PhoneInv
<1>13. \A b \in Act : phase'[b] # "undone" <=> phase[b] # "undone"
    BY <1>2, <1>5, <1>6
<1>14. Queued' \subseteq Queued \cup {a} /\ flush.todo \subseteq Queued' /\ a \notin flush.todo
    BY <1>2, <1>6 DEF Queued, SyncInv, OrderInv
<1>15. \A b \in flush.todo : b < a
    <2> SUFFICES ASSUME NEW b \in flush.todo PROVE b < a
        OBVIOUS
    <2>1. b \in Act /\ phase[b] = "queued" BY DEF SyncInv, OrderInv, Queued
    <2>2. ~(b > a) BY <1>1, <2>1 DEF SyncInv, OrderInv
    <2>3. b # a BY <1>2, <2>1
    <2>4. a \in Nat /\ b \in Nat BY <1>2, <2>1, SyncAssumption
    <2> QED BY <2>2, <2>3, <2>4
<1>16. OrderInv'
    <2>1. \A b, d \in Act : b < d /\ phase'[d] # "undone" => phase'[b] # "undone"
        BY <1>13 DEF SyncInv, OrderInv
    <2>2. \A d \in Queued' \ flush'.todo, b \in flush'.todo : b < d
        BY <1>4, <1>14, <1>15 DEF SyncInv, OrderInv
    <2> HIDE DEF a
    <2> QED BY <1>4, <1>14, <2>1, <2>2 DEF OrderInv
<1> QED BY <1>3, <1>4, <1>6, <1>7, <1>12, <1>16

(* The queue learns what became of its oldest row. *)
LEMMA FlushEndsKeeps ==
  ASSUME SyncInv, NEW s \in Slot, NEW answer, flush.slot = s, FlushEnds(answer),
         answer = "ok" => Happened(req[s].key), UNCHANGED effects,
         \A t \in Slot \ {s} : req'[t] = req[t]
  PROVE  PhoneInv' /\ OrderInv'
         /\ phase' \in [Act -> {"undone", "trying", "queued", "done", "told", "refused", "dismissed"}]
         /\ live' \in [act : Act \cup {0}, slot : Slot \cup {NoSlot}]
         /\ flush' \in [todo : SUBSET Act, slot : Slot \cup {NoSlot}]
<1>1. flush.slot # NoSlot BY SyncAssumption
<1>2. flush.todo # {} /\ req[s].key = <<Oldest, "queue">> BY <1>1 DEF SyncInv, PhoneInv
<1>3. PICK old \in flush.todo : old = Oldest /\ old \in Act
    BY <1>2, OldestIsLoaded DEF SyncInv
<1> DEFINE X == RowAfter(answer)
<1>4. phase \in [Act -> {"undone", "trying", "queued", "done", "told", "refused", "dismissed"}]
      /\ live \in [act : Act \cup {0}, slot : Slot \cup {NoSlot}]
      /\ flush \in [todo : SUBSET Act, slot : Slot \cup {NoSlot}]
    BY DEF SyncInv, SyncTypeOK
<1>5. phase' = [phase EXCEPT ![old] = X] /\ live' = live BY <1>3 DEF FlushEnds
<1>6. X \in {"done", "queued", "refused"} /\ (X = "done" => answer = "ok")
      /\ (answer \notin Retryable => X # "queued") /\ (answer \in Retryable => X = "queued")
    BY DEF RowAfter, Retryable
<1> HIDE DEF X
<1>7. flush' = FlushAfter(answer) BY DEF FlushEnds
<1>8. flush' \in [todo : SUBSET Act, slot : Slot \cup {NoSlot}] /\ flush'.slot = NoSlot
      /\ flush'.todo = IF answer \in Retryable THEN {} ELSE flush.todo \ {old}
    <2>1. CASE answer \in Retryable BY <1>7, <2>1 DEF FlushAfter, NoFlush
    <2>2. CASE answer \notin Retryable
        <3>1. flush' = [flush EXCEPT !.todo = flush.todo \ {old}, !.slot = NoSlot]
            BY <1>3, <1>7, <2>2 DEF FlushAfter
        <3> QED BY <1>4, <2>2, <3>1
    <2> QED BY <2>1, <2>2
<1>9. phase[old] = "queued" BY DEF SyncInv, OrderInv, Queued
<1>10. phase' \in [Act -> {"undone", "trying", "queued", "done", "told", "refused", "dismissed"}]
       /\ \A b \in Act : phase'[b] = IF b = old THEN X ELSE phase[b]
    BY <1>3, <1>4, <1>5, <1>6
<1>11. live.slot # NoSlot => live.slot # s /\ live.slot \in Slot
    <2>1. live.slot # NoSlot => req[live.slot].key = <<live.act, "live">>
        BY DEF SyncInv, PhoneInv
    <2> QED BY <1>2, <1>4, <2>1
<1>12. live'.slot # NoSlot => /\ live'.act \in Act /\ req'[live'.slot].stage # "free"
                              /\ req'[live'.slot].key = <<live'.act, "live">>
    BY <1>5, <1>11 DEF SyncInv, PhoneInv
<1>13. live' # NoLive => live'.act \in Act /\ phase'[live'.act] = "trying"
    BY <1>5, <1>9, <1>10 DEF SyncInv, PhoneInv
<1>14. X = "done" => \/ effects[<<old, "queue">>] > 0
                     \/ Kind[old] = "receive" /\ Received
    BY <1>2, <1>3, <1>6 DEF Happened, KindOf
<1>15. DoneIsTrue'
    BY <1>10, <1>14 DEF SyncInv, PhoneInv, DoneIsTrue, Received
<1>16. PhoneInv' BY <1>8, <1>12, <1>13, <1>15 DEF PhoneInv
<1>17. \A b \in Act : phase'[b] # "undone" <=> phase[b] # "undone"
    BY <1>6, <1>9, <1>10
<1>18. flush'.todo \subseteq Queued' /\ Queued' \ flush'.todo \subseteq Act
       /\ (answer \notin Retryable => Queued' \ flush'.todo \subseteq Queued \ flush.todo)
    BY <1>6, <1>8, <1>10 DEF Queued, SyncInv, OrderInv
<1>19. OrderInv'
    <2>1. \A b, d \in Act : b < d /\ phase'[d] # "undone" => phase'[b] # "undone"
        BY <1>17 DEF SyncInv, OrderInv
    <2>2. live' # NoLive => \A b \in Act : b > live'.act => phase'[b] = "undone"
        BY <1>5, <1>17 DEF SyncInv, OrderInv
    <2>3. \A d \in Queued' \ flush'.todo, b \in flush'.todo : b < d
        BY <1>8, <1>18 DEF SyncInv, OrderInv
    <2> QED BY <1>18, <2>1, <2>2, <2>3 DEF OrderInv
<1> QED BY <1>4, <1>5, <1>8, <1>10, <1>16, <1>19

(* An answer arrives, or the phone stops waiting for it.                   *)
LEMMA EndsKeep ==
  ASSUME SyncInv, NEW s \in Slot, NEW answer, Ends(s, answer), NEW r \in ReqRow,
         req' = [req EXCEPT ![s] = r], r = NoReq \/ r = req[s],
         answer = "ok" => Happened(req[s].key), UNCHANGED serverVars
  PROVE  SyncInv'
<1>1. req \in [Slot -> ReqRow] BY DEF SyncInv, SyncTypeOK, ReqRow
<1>2. req' \in [Slot -> ReqRow] /\ \A t \in Slot \ {s} : req'[t] = req[t] BY <1>1
<1>3. keyRow' = keyRow /\ status' = status /\ effects' = effects BY DEF serverVars
<1>4. /\ PhoneInv' /\ OrderInv'
      /\ phase' \in [Act -> {"undone", "trying", "queued", "done", "told", "refused", "dismissed"}]
      /\ live' \in [act : Act \cup {0}, slot : Slot \cup {NoSlot}]
      /\ flush' \in [todo : SUBSET Act, slot : Slot \cup {NoSlot}]
    BY <1>2, <1>3, LiveEndsKeeps, FlushEndsKeeps DEF Ends
<1>5. SyncTypeOK' BY <1>2, <1>3, <1>4 DEF SyncInv, SyncTypeOK, ReqRow, InHandler
<1>6. KeysGuard'
    <2>1. r.stage # "free" => r.key \in Key BY DEF SyncInv, KeysGuard, NoReq
    <2>2. r.stage \in InHandler => Inside(s) /\ r.key = req[s].key /\ keyRow'[r.key] = "pending"
        BY <1>3 DEF SyncInv, KeysGuard, NoReq, Inside, InHandler
    <2> QED BY <1>3, <2>1, <2>2, KeysStayGuarded
<1>7. WorkInv'
    <2>1. r.stage = "checked" /\ KindOf(r.key) # "receive" => effects[r.key] = 0 /\ Received
        BY DEF SyncInv, WorkInv, HandlersOK, NoReq
    <2>2. r.stage = "committed" => Happened(r.key)
        BY DEF SyncInv, WorkInv, HandlersOK, NoReq
    <2>3. r.stage = "answered" /\ r.answer = "ok" => Happened(r.key)
        BY DEF SyncInv, WorkInv, HandlersOK, NoReq
    <2> QED BY <1>3, <2>1, <2>2, <2>3, WorkUntouched
<1> QED BY <1>4, <1>5, <1>6, <1>7 DEF SyncInv

\* Whoever waits for a request learns what the server said, and no more.
LEMMA AwaitEnds ==
  ASSUME SyncInv, NEW s \in Slot, Deliver(s) \/ TimesOut(s) \/ GivesUp(s)
  PROVE  SyncInv'
<1>1. req \in [Slot -> ReqRow] BY DEF SyncInv, SyncTypeOK, ReqRow
<1>2. NoReq \in ReqRow BY DEF NoReq, ReqRow
<1>3. CASE Deliver(s)
    <2>1. req[s].answer = "ok" => Happened(req[s].key)
        BY <1>3 DEF Deliver, SyncInv, WorkInv, HandlersOK
    <2> QED BY <1>2, <1>3, <2>1, EndsKeep DEF Deliver
<1>4. CASE GivesUp(s)
    <2>1. "error" = "ok" => Happened(req[s].key) OBVIOUS
    <2>2. Ends(s, "error") /\ req' = [req EXCEPT ![s] = NoReq] /\ UNCHANGED serverVars
        BY <1>4 DEF GivesUp
    <2> QED BY <1>2, <2>1, <2>2, EndsKeep
<1>5. CASE TimesOut(s)
    <2> DEFINE r == IF req[s].stage = "answered" THEN NoReq ELSE req[s]
    <2>1. r \in ReqRow /\ (r = NoReq \/ r = req[s]) BY <1>1, <1>2
    <2>2. req' = [req EXCEPT ![s] = r] /\ Ends(s, "error") /\ UNCHANGED serverVars
        BY <1>5 DEF TimesOut
    <2>3. "error" = "ok" => Happened(req[s].key) OBVIOUS
    <2> HIDE DEF r
    <2> QED BY <2>1, <2>2, <2>3, EndsKeep
<1> QED BY <1>3, <1>4, <1>5

-----------------------------------------------------------------------------
(* A request leaves the phone in a free slot. *)
LEMMA SentRow ==
  ASSUME SyncInv, NEW s \in Slot, NEW k \in Key, Sent(s, k)
  PROVE  /\ req[s].stage = "free" /\ req' \in [Slot -> ReqRow]
         /\ req'[s].stage = "sent" /\ req'[s].key = k
         /\ \A t \in Slot \ {s} : req'[t] = req[t]
<1>1. req \in [Slot -> ReqRow] BY DEF SyncInv, SyncTypeOK, ReqRow
<1> DEFINE r == [NoReq EXCEPT !.key = k, !.stage = "sent"]
<1>2. r \in ReqRow /\ r.stage = "sent" /\ r.key = k BY DEF NoReq, ReqRow
<1>3. req[s].stage = "free" /\ req' = [req EXCEPT ![s] = r] BY DEF Sent
<1> HIDE DEF r
<1> QED BY <1>1, <1>2, <1>3

\* Sending a request changes nothing the server has stored.
LEMMA SentKeepsServer ==
  ASSUME SyncInv, NEW s \in Slot, NEW k \in Key, Sent(s, k), UNCHANGED serverVars
  PROVE  KeysGuard' /\ WorkInv'
<1>1. PICK r \in ReqRow : r.stage = "sent" /\ r.key = k /\ req' = [req EXCEPT ![s] = r]
    <2> DEFINE r == [NoReq EXCEPT !.key = k, !.stage = "sent"]
    <2>1. r \in ReqRow /\ r.stage = "sent" /\ r.key = k BY DEF NoReq, ReqRow
    <2>2. req' = [req EXCEPT ![s] = r] BY DEF Sent
    <2> HIDE DEF r
    <2> QED BY <2>1, <2>2
<1>2. keyRow' = keyRow /\ status' = status /\ effects' = effects BY DEF serverVars
<1>3. r.stage \notin InHandler /\ r.stage # "checked" /\ r.stage # "committed" /\ r.stage # "answered"
    BY <1>1 DEF InHandler
<1>4. KeysGuard' BY <1>1, <1>2, <1>3, KeysStayGuarded
<1>5. WorkInv' BY <1>1, <1>2, <1>3, WorkUntouched
<1> QED BY <1>4, <1>5

(* She does the next thing: all before it has been tried or saved. *)
LEMMA DoKeeps == ASSUME SyncInv, NEW a \in Act, Do(a) PROVE SyncInv'
<1>1. PICK s \in Slot : Sent(s, <<a, "live">>) /\ live' = [act |-> a, slot |-> s]
    BY DEF Do
<1>2. <<a, "live">> \in Key BY DEF Key
<1>3. /\ live = NoLive /\ phase[a] = "undone" /\ \A b \in Act : b < a => phase[b] # "undone"
      /\ phase' = [phase EXCEPT ![a] = "trying"] /\ flush' = flush /\ UNCHANGED serverVars
    BY DEF Do, IsNext
<1>4. /\ req[s].stage = "free" /\ req' \in [Slot -> ReqRow]
      /\ req'[s].stage = "sent" /\ req'[s].key = <<a, "live">>
      /\ \A t \in Slot \ {s} : req'[t] = req[t]
    BY <1>1, <1>2, SentRow
<1>5. KeysGuard' /\ WorkInv' BY <1>1, <1>2, <1>3, SentKeepsServer
<1>6. phase \in [Act -> {"undone", "trying", "queued", "done", "told", "refused", "dismissed"}]
      /\ flush \in [todo : SUBSET Act, slot : Slot \cup {NoSlot}]
    BY DEF SyncInv, SyncTypeOK
<1>7. phase' \in [Act -> {"undone", "trying", "queued", "done", "told", "refused", "dismissed"}]
      /\ \A b \in Act : phase'[b] = IF b = a THEN "trying" ELSE phase[b]
    BY <1>3, <1>6
<1>8. live'.act = a /\ live'.slot = s /\ live' \in [act : Act \cup {0}, slot : Slot \cup {NoSlot}]
    BY <1>1
<1>9. SyncTypeOK'
    BY <1>3, <1>4, <1>6, <1>7, <1>8 DEF SyncInv, SyncTypeOK, ReqRow, InHandler, serverVars
<1>10. flush'.slot # NoSlot => /\ flush'.todo # {} /\ req'[flush'.slot].stage # "free"
                               /\ req'[flush'.slot].key = <<Oldest, "queue">>'
    <2>1. flush.slot # NoSlot => flush.slot \in Slot /\ flush.slot # s
        BY <1>4, <1>6 DEF SyncInv, PhoneInv
    <2> QED BY <1>3, <1>4, <2>1 DEF SyncInv, PhoneInv, Oldest
<1>11. DoneIsTrue'
    BY <1>3, <1>7 DEF SyncInv, PhoneInv, DoneIsTrue, serverVars
<1>12. PhoneInv' BY <1>4, <1>7, <1>8, <1>10, <1>11 DEF PhoneInv
<1>13. Queued' = Queued BY <1>3, <1>7 DEF Queued
<1>14. OrderInv'
    <2>1. \A b, d \in Act : b < d /\ phase'[d] # "undone" => phase'[b] # "undone"
        BY <1>3, <1>7 DEF SyncInv, OrderInv
    <2>2. \A b \in Act : b > a => phase'[b] = "undone"
        <3> SUFFICES ASSUME NEW b \in Act, b > a PROVE phase'[b] = "undone"
            OBVIOUS
        <3>1. a \in Nat /\ b \in Nat BY SyncAssumption
        <3>2. b # a /\ a < b BY <3>1
        <3>3. phase[b] = "undone" BY <1>3, <3>2 DEF SyncInv, OrderInv
        <3> QED BY <1>7, <3>2, <3>3
    <2> QED BY <1>3, <1>8, <1>13, <2>1, <2>2 DEF SyncInv, OrderInv
<1> QED BY <1>5, <1>9, <1>12, <1>14 DEF SyncInv

(* A step of the phone that touches one row and nothing it waits for. *)
LEMMA RowMoves ==
  ASSUME SyncInv, NEW a \in Act, NEW X \in {"queued", "dismissed"},
         phase' = [phase EXCEPT ![a] = X],
         phase[a] \notin {"queued", "trying"},
         UNCHANGED <<live, flush, req, serverVars>>
  PROVE  /\ SyncTypeOK' /\ KeysGuard' /\ WorkInv' /\ PhoneInv'
         /\ \A b \in Act : phase'[b] = IF b = a THEN X ELSE phase[b]
<1>1. phase \in [Act -> {"undone", "trying", "queued", "done", "told", "refused", "dismissed"}]
    BY DEF SyncInv, SyncTypeOK
<1>2. phase' \in [Act -> {"undone", "trying", "queued", "done", "told", "refused", "dismissed"}]
      /\ \A b \in Act : phase'[b] = IF b = a THEN X ELSE phase[b]
    BY <1>1
<1>3. SyncTypeOK' BY <1>2 DEF SyncInv, SyncTypeOK, serverVars
<1>4. KeysGuard' BY DEF SyncInv, KeysGuard, OneHandlerPerKey, Inside, serverVars
<1>5. WorkInv'
    BY DEF SyncInv, WorkInv, StatusOK, EffectsOK, HandlersOK, KeyCountsOnce, Received, Happened, serverVars
<1>6. PhoneInv'
    <2>1. DoneIsTrue' BY <1>2 DEF SyncInv, PhoneInv, DoneIsTrue, serverVars
    <2>2. Oldest' = Oldest BY DEF Oldest
    <2> QED BY <1>2, <2>1, <2>2 DEF SyncInv, PhoneInv
<1> QED BY <1>2, <1>3, <1>4, <1>5, <1>6

\* A scan is saved behind everything already saved.
LEMMA SaveScanKeeps == ASSUME SyncInv, NEW a \in Act, SaveScan(a) PROVE SyncInv'
<1>1. /\ live = NoLive /\ phase[a] = "undone" /\ \A b \in Act : b < a => phase[b] # "undone"
      /\ phase' = [phase EXCEPT ![a] = "queued"]
      /\ UNCHANGED <<live, flush, req, serverVars>>
    BY DEF SaveScan, IsNext
<1>2. /\ SyncTypeOK' /\ KeysGuard' /\ WorkInv' /\ PhoneInv'
      /\ \A b \in Act : phase'[b] = IF b = a THEN "queued" ELSE phase[b]
    BY <1>1, RowMoves
<1>3. Queued' = Queued \cup {a} BY <1>2 DEF Queued
<1>4. \A b \in flush.todo : b < a
    <2> SUFFICES ASSUME NEW b \in flush.todo PROVE b < a
        OBVIOUS
    <2>1. b \in Act /\ phase[b] = "queued" BY DEF SyncInv, OrderInv, Queued
    <2>2. ~(a < b) BY <1>1, <2>1 DEF SyncInv, OrderInv
    <2>3. a \in Nat /\ b \in Nat /\ a # b BY <1>1, <2>1, SyncAssumption
    <2> QED BY <2>2, <2>3
<1>5. OrderInv'
    <2>1. \A b, d \in Act : b < d /\ phase'[d] # "undone" => phase'[b] # "undone"
        BY <1>1, <1>2 DEF SyncInv, OrderInv
    <2>2. \A d \in Queued' \ flush'.todo, b \in flush'.todo : b < d
        BY <1>1, <1>3, <1>4 DEF SyncInv, OrderInv
    <2> QED BY <1>1, <1>3, <2>1, <2>2 DEF SyncInv, OrderInv
<1> QED BY <1>2, <1>5 DEF SyncInv

\* Only a row the server refused may be dismissed.
LEMMA DismissKeeps == ASSUME SyncInv, NEW a \in Act, Dismiss(a) PROVE SyncInv'
<1>1. /\ phase[a] = "refused" /\ phase' = [phase EXCEPT ![a] = "dismissed"]
      /\ UNCHANGED <<live, flush, req, serverVars>>
    BY DEF Dismiss
<1>2. /\ SyncTypeOK' /\ KeysGuard' /\ WorkInv' /\ PhoneInv'
      /\ \A b \in Act : phase'[b] = IF b = a THEN "dismissed" ELSE phase[b]
    BY <1>1, RowMoves
<1>3. Queued' = Queued BY <1>1, <1>2 DEF Queued
<1>4. OrderInv' BY <1>1, <1>2, <1>3 DEF SyncInv, OrderInv
<1> QED BY <1>2, <1>4 DEF SyncInv

(* The queue loads all its rows. *)
LEMMA FlushStartKeeps == ASSUME SyncInv, FlushStart PROVE SyncInv'
<1>1. /\ flush' = [todo |-> Queued, slot |-> NoSlot]
      /\ UNCHANGED <<phase, live, req, serverVars>>
    BY DEF FlushStart
<1>2. Queued \subseteq Act /\ Queued' = Queued BY <1>1 DEF Queued
<1>3. SyncTypeOK' BY <1>1, <1>2 DEF SyncInv, SyncTypeOK, serverVars
<1>4. KeysGuard' BY <1>1 DEF SyncInv, KeysGuard, OneHandlerPerKey, Inside, serverVars
<1>5. WorkInv'
    BY <1>1 DEF SyncInv, WorkInv, StatusOK, EffectsOK, HandlersOK, KeyCountsOnce, Received, Happened, serverVars
<1>6. PhoneInv'
    BY <1>1 DEF SyncInv, PhoneInv, DoneIsTrue, serverVars
<1>7. OrderInv' BY <1>1, <1>2 DEF SyncInv, OrderInv
<1> QED BY <1>3, <1>4, <1>5, <1>6, <1>7 DEF SyncInv

\* A run of the queue sends its oldest row, in a free slot.
LEMMA FlushSendKeeps == ASSUME SyncInv, FlushSend PROVE SyncInv'
<1>1. PICK s \in Slot : Sent(s, <<Oldest, "queue">>) /\ flush' = [flush EXCEPT !.slot = s]
    BY DEF FlushSend
<1>2. flush.todo # {} /\ flush.slot = NoSlot /\ UNCHANGED <<phase, live, serverVars>>
    BY DEF FlushSend
<1>3. Oldest \in Act BY <1>2, OldestIsLoaded DEF SyncInv
<1>4. <<Oldest, "queue">> \in Key BY <1>3 DEF Key
<1>5. /\ req[s].stage = "free" /\ req' \in [Slot -> ReqRow]
      /\ req'[s].stage = "sent" /\ req'[s].key = <<Oldest, "queue">>
      /\ \A t \in Slot \ {s} : req'[t] = req[t]
    BY <1>1, <1>4, SentRow
<1>6. KeysGuard' /\ WorkInv' BY <1>1, <1>2, <1>4, SentKeepsServer
<1>7. flush \in [todo : SUBSET Act, slot : Slot \cup {NoSlot}]
      /\ live \in [act : Act \cup {0}, slot : Slot \cup {NoSlot}]
    BY DEF SyncInv, SyncTypeOK
<1>8. flush' \in [todo : SUBSET Act, slot : Slot \cup {NoSlot}]
      /\ flush'.todo = flush.todo /\ flush'.slot = s
    BY <1>1, <1>7
<1>9. Oldest' = Oldest BY <1>8 DEF Oldest
<1>10. SyncTypeOK'
    BY <1>2, <1>5, <1>8 DEF SyncInv, SyncTypeOK, ReqRow, InHandler, serverVars
<1>11. live.slot # NoSlot => live.slot \in Slot /\ live.slot # s
    BY <1>5, <1>7 DEF SyncInv, PhoneInv
<1>12. DoneIsTrue' BY <1>2 DEF SyncInv, PhoneInv, DoneIsTrue, serverVars
<1>13. PhoneInv'
    BY <1>2, <1>5, <1>8, <1>9, <1>11, <1>12 DEF SyncInv, PhoneInv
<1>14. OrderInv' BY <1>2, <1>8 DEF SyncInv, OrderInv, Queued
<1> QED BY <1>6, <1>10, <1>13, <1>14 DEF SyncInv

-----------------------------------------------------------------------------
(* Nothing done, nothing sent. *)
LEMMA SyncStarts == ASSUME SyncInit PROVE SyncInv
<1>1. \A k \in Key : effects[k] = 0 /\ keyRow[k] = "none" BY DEF SyncInit
<1>2. \A s \in Slot : req[s] = NoReq BY DEF SyncInit
<1>3. \A a \in Act : phase[a] = "undone" BY DEF SyncInit
<1>4. SyncTypeOK
    BY DEF SyncInit, SyncTypeOK, NoLive, NoFlush, NoReq, InHandler
<1>5. KeysGuard
    BY <1>2 DEF KeysGuard, OneHandlerPerKey, Inside, InHandler, NoReq
<1>6. WorkInv
    BY <1>1, <1>2 DEF SyncInit, WorkInv, StatusOK, EffectsOK, HandlersOK, KeyCountsOnce, NoReq
<1>7. PhoneInv
    BY <1>3 DEF SyncInit, PhoneInv, DoneIsTrue, NoLive, NoFlush
<1>8. OrderInv
    BY <1>3 DEF SyncInit, OrderInv, Queued, NoFlush
<1> QED BY <1>4, <1>5, <1>6, <1>7, <1>8 DEF SyncInv

(* Every step of the phone, the network and the server. *)
LEMMA SyncStepKeeps == SyncInv /\ [SyncNext]_syncVars => SyncInv'
<1> SUFFICES ASSUME SyncInv, [SyncNext]_syncVars PROVE SyncInv'
    OBVIOUS
<1>1. ASSUME NEW a \in Act, Do(a) \/ SaveScan(a) \/ Dismiss(a) PROVE SyncInv'
    BY <1>1, DoKeeps, SaveScanKeeps, DismissKeeps
<1>2. CASE FlushStart \/ FlushSend
    BY <1>2, FlushStartKeeps, FlushSendKeeps
<1>3. ASSUME NEW s \in Slot, Deliver(s) \/ GivesUp(s) \/ TimesOut(s) PROVE SyncInv'
    BY <1>3, AwaitEnds
<1>4. ASSUME NEW s \in Slot, Serve(s) PROVE SyncInv'
    BY <1>4, ClaimKeeps, RefuseKeeps, AlreadyDoneKeeps, CheckKeeps, CommitKeeps, CompleteKeeps DEF Serve
<1>5. ASSUME NEW s \in Slot, ServerError(s) \/ Drop(s) PROVE SyncInv'
    BY <1>5, ServerErrorKeeps, DropKeeps
<1>6. CASE Crash \/ StaffCancels
    BY <1>6, CrashKeeps, StaffCancelsKeeps
<1>7. CASE UNCHANGED syncVars
    <2>1. UNCHANGED <<phase, live, flush, req, keyRow, status, effects>>
        BY <1>7 DEF syncVars, phoneVars, serverVars
    <2>2. SyncTypeOK' /\ KeysGuard'
        BY <2>1 DEF SyncInv, SyncTypeOK, KeysGuard, OneHandlerPerKey, Inside
    <2>3. WorkInv'
        BY <2>1 DEF SyncInv, WorkInv, StatusOK, EffectsOK, HandlersOK, KeyCountsOnce, Received, Happened
    <2>4. Oldest' = Oldest BY <2>1 DEF Oldest
    <2>5. PhoneInv' /\ OrderInv'
        BY <2>1, <2>4 DEF SyncInv, PhoneInv, OrderInv, DoneIsTrue, Queued
    <2> QED BY <2>2, <2>3, <2>5 DEF SyncInv
<1> QED BY <1>1, <1>2, <1>3, <1>4, <1>5, <1>6, <1>7 DEF SyncNext

\* The inductive invariant holds of every reachable state.
LEMMA SyncInvariant == SyncSpec => []SyncInv
<1>1. SyncInit => SyncInv BY SyncStarts
<1> QED BY <1>1, SyncStepKeeps, PTL DEF SyncSpec

(***************************************************************************)
(* However often a request with one key is sent, answered, lost or tried   *)
(* again, and whatever became of its key row, it changes the assignment at *)
(* most once.                                                              *)
(***************************************************************************)
THEOREM KeysCountOnce == SyncSpec => []KeyCountsOnce
<1>1. SyncInv => KeyCountsOnce BY DEF SyncInv, WorkInv, EffectsOK
<1> QED BY <1>1, SyncInvariant, PTL

(***************************************************************************)
(* Two requests with one key are never inside handlers at the same time.   *)
(***************************************************************************)
THEOREM HandlersAreAlone == SyncSpec => []OneHandlerPerKey
<1>1. SyncInv => OneHandlerPerKey BY DEF SyncInv, KeysGuard
<1> QED BY <1>1, SyncInvariant, PTL

(***************************************************************************)
(* What the phone shows as done has happened on the server.                *)
(***************************************************************************)
THEOREM DoneHasHappened == SyncSpec => []DoneIsTrue
<1>1. SyncInv => DoneIsTrue BY DEF SyncInv, PhoneInv
<1> QED BY <1>1, SyncInvariant, PTL

(***************************************************************************)
(* The queue sends in the order she worked, also while she goes on working *)
(* and while runs of it break off.                                         *)
(***************************************************************************)
THEOREM QueueIsOrdered == SyncSpec => []QueueKeepsOrder
<1>1. SyncInv => QueueKeepsOrder
    <2> SUFFICES ASSUME SyncInv, flush.slot # NoSlot, NEW a \in Queued PROVE Oldest <= a
        BY DEF QueueKeepsOrder
    <2>1. flush.todo # {} BY DEF SyncInv, PhoneInv
    <2>2. Oldest \in flush.todo /\ Oldest \in Act /\ \A b \in flush.todo : Oldest <= b
        BY <2>1, OldestIsLoaded DEF SyncInv
    <2>3. CASE a \in flush.todo BY <2>2, <2>3
    <2>4. CASE a \notin flush.todo
        <3>1. Oldest < a BY <2>2, <2>4 DEF SyncInv, OrderInv
        <3>2. Oldest \in Nat /\ a \in Nat BY <2>2, SyncAssumption DEF Queued
        <3> QED BY <3>1, <3>2
    <2> QED BY <2>3, <2>4
<1> QED BY <1>1, SyncInvariant, PTL
=============================================================================
