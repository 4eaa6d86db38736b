----------------------------- MODULE OfflineSync -----------------------------
(***************************************************************************)
(* What a worker does on her phone reaches the server over a network that  *)
(* loses requests and answers: the live try of a screen, the offline queue *)
(* that takes over when it fails, and the IdempotencyInterceptor that both *)
(* pass.  One phone, one assignment; the actions are numbered in the order *)
(* she does them.                                                          *)
(***************************************************************************)
EXTENDS Integers, FiniteSetsExt

CONSTANTS Act,          \* 1..n: what she does, in this order
          Kind,         \* Kind[a]: "receive", "progress" or "ready"
          Slot,         \* bound: requests at the server at once
          NoSlot,
          MaxFaults     \* bound: losses, timeouts, crashes and server errors

ASSUME SyncAssumption == /\ Act \subseteq Nat \ {0} /\ IsFiniteSet(Act)
                         /\ Kind \in [Act -> {"receive", "progress", "ready"}]
                         /\ NoSlot \notin Slot
                         /\ MaxFaults \in Nat

VARIABLES phase,        \* phase[a]: where action a is on the phone
          live,         \* the screen's own try: action (0: none) and request
          flush,        \* the queue's run: rows still to send, and request
          req,          \* requests on their way, being served, or answered
          keyRow,       \* idempotency_keys: "none", "pending" (statusCode null), "done"
          status,       \* the assignment
          effects,      \* effects[k]: how often a request with key k changed it
          faults

phoneVars == <<phase, live, flush>>
serverVars == <<keyRow, status, effects>>
syncVars == <<phoneVars, req, serverVars, faults>>

(* The screen makes a key of its own, the queue another one when it saves. *)
Key == Act \X {"live", "queue"}
KindOf(k) == Kind[k[1]]

NoLive == [act |-> 0, slot |-> NoSlot]
NoFlush == [todo |-> {}, slot |-> NoSlot]
NoReq == [key |-> <<0, "live">>, stage |-> "free", answer |-> "none"]

SyncInit == /\ phase = [a \in Act |-> "undone"]
            /\ live = NoLive /\ flush = NoFlush
            /\ req = [s \in Slot |-> NoReq]
            /\ keyRow = [k \in Key |-> "none"]
            /\ status = "READY_TO_DELIVER"
            /\ effects = [k \in Key |-> 0]
            /\ faults = 0

Sent(s, k) == /\ req[s].stage = "free"
              /\ req' = [req EXCEPT ![s] = [NoReq EXCEPT !.key = k, !.stage = "sent"]]
Fault == faults < MaxFaults /\ faults' = faults + 1

Awaited(s) == live.slot = s \/ flush.slot = s
InHandler == {"claimed", "checked", "committed"}

-----------------------------------------------------------------------------
(* The phone.  isRetryable: no connection, a timeout, a 5xx; every 4xx,    *)
(* the 409 of a request still being processed included, is a refusal.      *)
RetryableConflict == {"error", "conflict"}      \* mutant: a 409 is tried again
Retryable == {"error"}

IsNext(a) == /\ live = NoLive
             /\ phase[a] = "undone" /\ \A b \in Act : b < a => phase[b] # "undone"

Do(a) == /\ IsNext(a)
         /\ \E s \in Slot : Sent(s, <<a, "live">>) /\ live' = [act |-> a, slot |-> s]
         /\ phase' = [phase EXCEPT ![a] = "trying"]
         /\ UNCHANGED <<flush, serverVars, faults>>

(* A kit whose QR could not be looked up is received later, by the queue. *)
SaveScan(a) == /\ IsNext(a)
               /\ Kind[a] = "receive"
               /\ phase' = [phase EXCEPT ![a] = "queued"]
               /\ UNCHANGED <<live, flush, req, serverVars, faults>>

(* The screen's try ends: an error the server meant is shown, anything     *)
(* else is saved in the queue under a new key.  A confirmation of receipt  *)
(* is never saved, the screen shows every error of it.                     *)
LiveEnds(answer) ==
  /\ phase' = [phase EXCEPT ![live.act] =
                 IF answer = "ok" THEN "done"
                 ELSE IF answer \in Retryable /\ Kind[live.act] # "receive" THEN "queued"
                 ELSE "told"]
  /\ live' = NoLive
  /\ UNCHANGED flush

Queued == {a \in Act : phase[a] = "queued"}

(* flush: one run at a time; it works on the rows it loaded, in the order  *)
(* they were saved in - the order she worked in.                           *)
Oldest == Min(flush.todo)
FlushStart == /\ flush = NoFlush
              /\ Queued # {}
              /\ flush' = [todo |-> Queued, slot |-> NoSlot]
              /\ UNCHANGED <<phase, live, req, serverVars, faults>>

FlushSend == /\ flush.todo # {} /\ flush.slot = NoSlot
             /\ \E s \in Slot : /\ Sent(s, <<Oldest, "queue">>)
                                /\ flush' = [flush EXCEPT !.slot = s]
             /\ UNCHANGED <<phase, live, serverVars, faults>>

FlushGoesOn(answer) ==                  \* mutant: no break at a network problem
  [flush EXCEPT !.todo = @ \ {Oldest}, !.slot = NoSlot]
FlushAfter(answer) ==
  IF answer \in Retryable THEN NoFlush ELSE [flush EXCEPT !.todo = @ \ {Oldest}, !.slot = NoSlot]

RowAfter(answer) ==
  IF answer = "ok" THEN "done" ELSE IF answer \in Retryable THEN "queued" ELSE "refused"

FlushEnds(answer) ==
  /\ phase' = [phase EXCEPT ![Oldest] = RowAfter(answer)]
  /\ flush' = FlushAfter(answer)
  /\ UNCHANGED live

(* Whoever waits for request s learns its fate. *)
Ends(s, answer) == \/ live.slot = s /\ LiveEnds(answer)
                   \/ flush.slot = s /\ FlushEnds(answer)

Deliver(s) == /\ req[s].stage = "answered" /\ Ends(s, req[s].answer)
              /\ req' = [req EXCEPT ![s] = NoReq]
              /\ UNCHANGED <<serverVars, faults>>

(* The phone stops waiting while the server goes on, or loses the answer. *)
TimesOut(s) == /\ Awaited(s) /\ req[s].stage # "lost" /\ Ends(s, "error")
               /\ req' = [req EXCEPT ![s] = IF @.stage = "answered" THEN NoReq ELSE @]
               /\ Fault
               /\ UNCHANGED serverVars

(* The request never arrived, or died with the server. *)
GivesUp(s) == /\ req[s].stage = "lost" /\ Ends(s, "error")
              /\ req' = [req EXCEPT ![s] = NoReq]
              /\ UNCHANGED <<serverVars, faults>>

(* The banner offers what was refused for dismissal. *)
Dismiss(a) == /\ phase[a] = "refused"
              /\ phase' = [phase EXCEPT ![a] = "dismissed"]
              /\ UNCHANGED <<live, flush, req, serverVars, faults>>

-----------------------------------------------------------------------------
(* The server. *)
Stage(s, stage) == req' = [req EXCEPT ![s].stage = stage]
Answered(s, answer) ==
  req' = [req EXCEPT ![s] = IF Awaited(s) THEN [@ EXCEPT !.stage = "answered", !.answer = answer]
                            ELSE NoReq]

(* claim: the unique (userId, key) decides who runs; the others replay the *)
(* stored result or are told that the original is still being processed.   *)
ReplayPending(row) == "ok"              \* mutant: a pending key is replayed as if it were done
Replay(row) == IF row = "done" THEN "ok" ELSE "conflict"

AfterReplay(k) == UNCHANGED keyRow

Claim(s) ==
  /\ req[s].stage = "sent"
  /\ LET k == req[s].key
     IN IF keyRow[k] = "none"
          THEN keyRow' = [keyRow EXCEPT ![k] = "pending"] /\ Stage(s, "claimed")
          ELSE Answered(s, Replay(keyRow[k])) /\ AfterReplay(k)
  /\ UNCHANGED <<phoneVars, status, effects, faults>>

(* Nothing more to do: the same clientId is in work_progress already, or   *)
(* the handoff is already CONFIRMED.                                       *)
KnownNever(k) == KindOf(k) = "receive" /\ status \notin {"READY_TO_DELIVER", "CANCELLED"}  \* mutant: no clientId
Known(k) == \/ KindOf(k) = "progress" /\ effects[k] > 0
            \/ KindOf(k) = "receive" /\ status \notin {"READY_TO_DELIVER", "CANCELLED"}

Allowed(k) == status = IF KindOf(k) = "receive" THEN "READY_TO_DELIVER" ELSE "IN_PROGRESS"

(* The handler checks what it loaded and refuses ... *)
Refuse(s) == /\ req[s].stage = "claimed"
             /\ ~Allowed(req[s].key)
             /\ KindOf(req[s].key) = "receive" => ~Known(req[s].key)
             /\ keyRow' = [keyRow EXCEPT ![req[s].key] = "none"]
             /\ Answered(s, "refused")
             /\ UNCHANGED <<phoneVars, status, effects, faults>>

(* ... or finds that it was done before ... *)
AlreadyDone(s) == /\ req[s].stage = "claimed"
                  /\ KindOf(req[s].key) = "progress" => Allowed(req[s].key)
                  /\ Known(req[s].key)
                  /\ Stage(s, "committed")
                  /\ UNCHANGED <<phoneVars, serverVars, faults>>

(* ... or goes on to its transaction, which does not check again. *)
Check(s) == /\ req[s].stage = "claimed"
            /\ Allowed(req[s].key) /\ ~Known(req[s].key)
            /\ Stage(s, "checked")
            /\ UNCHANGED <<phoneVars, serverVars, faults>>

Commit(s) ==
  /\ req[s].stage = "checked"
  /\ KindOf(req[s].key) = "receive" => Allowed(req[s].key)     \* read again under the row lock
  /\ effects' = [effects EXCEPT ![req[s].key] = @ + 1]
  /\ status' = CASE KindOf(req[s].key) = "receive" -> "IN_PROGRESS"
                 [] KindOf(req[s].key) = "ready" -> "READY_FOR_PICKUP"
                 [] OTHER -> status
  /\ Stage(s, "committed")
  /\ UNCHANGED <<phoneVars, keyRow, faults>>

Complete(s) == /\ req[s].stage = "committed"
               /\ keyRow' = [keyRow EXCEPT ![req[s].key] = "done"]
               /\ Answered(s, "ok")
               /\ UNCHANGED <<phoneVars, status, effects, faults>>

(* The handler fails, or complete does after the commit: catchError        *)
(* releases the key either way and a 5xx is answered.                      *)
ServerError(s) == /\ req[s].stage \in InHandler
                  /\ keyRow' = [keyRow EXCEPT ![req[s].key] = "none"]
                  /\ Answered(s, "error")
                  /\ Fault
                  /\ UNCHANGED <<phoneVars, status, effects>>

(* A transaction that finds its rows changed rolls back: a 4xx. *)
CommitRefused(s) == /\ req[s].stage = "checked"
                    /\ KindOf(req[s].key) = "receive" /\ ~Allowed(req[s].key)
                    /\ keyRow' = [keyRow EXCEPT ![req[s].key] = "none"]
                    /\ Answered(s, "refused")
                    /\ UNCHANGED <<phoneVars, status, effects, faults>>

Lost(r, s) == IF Awaited(s) THEN [r EXCEPT !.stage = "lost"] ELSE NoReq

Drop(s) == /\ req[s].stage = "sent"
           /\ req' = [req EXCEPT ![s] = Lost(@, s)]
           /\ Fault
           /\ UNCHANGED <<phoneVars, serverVars>>

(* The API process dies: what it was serving is gone, claimed keys stay. *)
Crash == /\ \E s \in Slot : req[s].stage \in InHandler
         /\ req' = [s \in Slot |-> IF req[s].stage \in InHandler \cup {"sent"} THEN Lost(req[s], s)
                                   ELSE req[s]]
         /\ Fault
         /\ UNCHANGED <<phoneVars, serverVars>>

(* Staff cancels the work meanwhile. *)
StaffCancels == /\ status \in {"READY_TO_DELIVER", "IN_PROGRESS", "READY_FOR_PICKUP"}
                /\ status' = "CANCELLED"
                /\ UNCHANGED <<phoneVars, req, keyRow, effects, faults>>

Serve(s) == Claim(s) \/ Refuse(s) \/ AlreadyDone(s) \/ Check(s) \/ Commit(s) \/ CommitRefused(s)
            \/ Complete(s)

SyncNext ==
  \/ \E a \in Act : Do(a) \/ SaveScan(a) \/ Dismiss(a)
  \/ FlushStart \/ FlushSend
  \/ \E s \in Slot : \/ Deliver(s) \/ GivesUp(s) \/ TimesOut(s)
                     \/ Serve(s) \/ ServerError(s) \/ Drop(s)
  \/ Crash \/ StaffCancels

SyncSpec == SyncInit /\ [][SyncNext]_syncVars

(* The timer of 45 s starts the flush again and again, the server serves   *)
(* what it received, and the phone's own timeouts end a lost request.      *)
SyncFairness == /\ WF_syncVars(FlushStart) /\ WF_syncVars(FlushSend)
                /\ \A s \in Slot : /\ WF_syncVars(Deliver(s)) /\ WF_syncVars(GivesUp(s))
                                   /\ WF_syncVars(Serve(s))

FairSyncSpec == SyncSpec /\ SyncFairness

-----------------------------------------------------------------------------
SyncTypeOK ==
  /\ phase \in [Act -> {"undone", "trying", "queued", "done", "told", "refused", "dismissed"}]
  /\ live \in [act : Act \cup {0}, slot : Slot \cup {NoSlot}]
  /\ flush \in [todo : SUBSET Act, slot : Slot \cup {NoSlot}]
  /\ req \in [Slot -> [key : Key \cup {NoReq.key},
                       stage : InHandler \cup {"free", "sent", "answered", "lost"},
                       answer : {"none", "ok", "refused", "conflict", "error"}]]
  /\ keyRow \in [Key -> {"none", "pending", "done"}]
  /\ effects \in [Key -> Nat]

(* At most one request per key is inside a handler: the others wait for    *)
(* the outcome, they never run beside it.                                  *)
OneHandlerPerKey ==
  \A s, t \in Slot :
    {req[s].stage, req[t].stage} \subseteq InHandler /\ req[s].key = req[t].key => s = t

(* However often a key is sent, and however the key row was lost or        *)
(* released on the way, it changes the assignment at most once.            *)
KeyCountsOnce == \A k \in Key : effects[k] <= 1

(* What the phone takes for sent has happened: «done» on the phone means   *)
(* that the work was received, the metres recorded, the pickup requested.  *)
DoneIsTrue ==
  \A a \in Act : phase[a] = "done" =>
    \/ \E way \in {"live", "queue"} : effects[<<a, way>>] > 0
    \/ Kind[a] = "receive" /\ \E k \in Key : KindOf(k) = "receive" /\ effects[k] > 0

(* The queue sends in the order she worked: nothing older is still waiting *)
(* when a row goes out.                                                    *)
QueueKeepsOrder ==
  flush.slot # NoSlot => \A a \in Queued : Oldest <= a

(* Every action saved on the phone is settled: sent or refused, and it     *)
(* never blocks the ones behind it.                                        *)
QueueDrains == \A a \in Act : phase[a] = "queued" ~> phase[a] # "queued"

(* "an answer lost on the way back never counts it twice"                  *)
(* (offline_queue.dart): one thing she did changes the assignment once.    *)
ActionCountsOnce ==
  \A a \in Act : effects[<<a, "live">>] + effects[<<a, "queue">>] <= 1

(* "the server saying no - retrying would never help": what is refused for *)
(* good is not stored as a success under the very same key.                *)
RefusalIsFinal ==
  \A a \in Act : phase[a] = "refused" => keyRow[<<a, "queue">>] # "done"
=============================================================================
