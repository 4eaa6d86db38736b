-------------------------------- MODULE Chat --------------------------------
(***************************************************************************)
(* What is written in a conversation: chat_messages, as people send them   *)
(* from the web panel (chat.tsx), over a network that loses answers, now,  *)
(* in parts, or later.                                                     *)
(*                                                                         *)
(* Every send has an id of its own, clientId, for all its tries; Sender    *)
(* and Way say whose it is and how it goes.  What others see of it - the   *)
(* order of the chats, who has read what, notifications - is left out.     *)
(***************************************************************************)
EXTENDS Naturals, ChatRoom

CONSTANTS Send, Sender, Way, Part,
          Offered,     \* bound: the sets of sends tried together in a chat of each kind
          MaxMessages, \* bound on the length of the chat
          MayDie       \* whether what is under way may die half-way

ASSUME ChatAssumption ==
    /\ Sender \in [Send -> Person]
    /\ Way \in [Send -> {"text", "parts", "later"}]
    /\ Offered \in [{"DIRECT", "GROUP", "CHANNEL"} -> SUBSET SUBSET Send]
    /\ MaxMessages \in Nat

VARIABLES log,        \* ChatMessage, in the order of the inserts
          bubble,     \* the pending messages on the screen of the sender
          later,      \* ChatScheduledMessage
          upload      \* the parts in the upload directory, if there is one

messageVars == <<log, bubble, later, upload>>
chatVars == <<roomVars, messageVars, inflight>>

NoDir == [open |-> FALSE, parts |-> {}]

ChatInit ==
    /\ RoomInit
    /\ HandlersInit
    /\ log = <<>>
    /\ \E tried \in Offered[kind] :
          /\ bubble = [k \in Send |-> IF k \in tried /\ Way[k] # "later" THEN "draft" ELSE "none"]
          /\ later = [k \in Send |-> IF k \in tried /\ Way[k] = "later" THEN "draft" ELSE "none"]
    /\ upload = [k \in Send |-> NoDir]

Posted(k) == \E i \in DOMAIN log : log[i] = k
Goes(c, op) == inflight' = [inflight EXCEPT ![c] =
                              [op |-> op, send |-> inflight[c].send, due |-> inflight[c].due]]

(***************************************************************************)
(*          A send is asked for: by a bubble, or by the timer              *)
(***************************************************************************)
\* Mutant: an upload that is under way is taken for a message that was sent.
AnswerOrResume(k) == IF Posted(k) \/ upload[k].open THEN "answer" ELSE "create"

\* sendText, sendFile, completeUpload: a retried send is the same message, not a second one.
AnswerOrCreate(k) == IF Posted(k) THEN "answer" ELSE "create"

Post(c, k) ==
    /\ Way[k] = "text" /\ bubble[k] \in {"draft", "failed"}
    /\ CanWrite(Sender[k])
    /\ bubble' = [bubble EXCEPT ![k] = "sending"]
    /\ Start(c, [op |-> AnswerOrCreate(k), send |-> k, due |-> {}])
    /\ UNCHANGED <<roomVars, log, later, upload>>

\* startUpload: begin, or take up where it stopped.
StartUpload(k) ==
    /\ Way[k] = "parts" /\ bubble[k] \in {"draft", "failed"}
    /\ CanWrite(Sender[k])
    /\ IF Posted(k) THEN /\ bubble' = [bubble EXCEPT ![k] = "gone"]
                         /\ UNCHANGED upload
                    ELSE /\ bubble' = [bubble EXCEPT ![k] = "uploading"]
                         /\ upload' = [upload EXCEPT ![k].open = TRUE]
    /\ UNCHANGED <<roomVars, log, later, inflight>>

PutPart(k, part) ==
    /\ bubble[k] = "uploading" /\ upload[k].open
    /\ upload' = [upload EXCEPT ![k].parts = @ \cup {part}]
    /\ UNCHANGED <<roomVars, log, bubble, later, inflight>>

Cleared(k) == [upload EXCEPT ![k] = NoDir]

CompleteUpload(c, k) ==
    /\ bubble[k] = "uploading" /\ upload[k].open
    /\ Posted(k) \/ (upload[k].parts = Part /\ CanWrite(Sender[k]))
    /\ bubble' = [bubble EXCEPT ![k] = "sending"]
    /\ upload' = IF Posted(k) THEN Cleared(k) ELSE upload
    /\ Start(c, [op |-> AnswerOrCreate(k), send |-> k, due |-> {}])
    /\ UNCHANGED <<roomVars, log, later>>

\* «Отправить позже»
Schedule(k) ==
    /\ later[k] = "draft" /\ CanWrite(Sender[k])
    /\ later' = [later EXCEPT ![k] = "waiting"]
    /\ UNCHANGED <<roomVars, log, bubble, upload, inflight>>

Unschedule(k) ==
    /\ later[k] = "waiting"
    /\ later' = [later EXCEPT ![k] = "withdrawn"]
    /\ UNCHANGED <<roomVars, log, bubble, upload, inflight>>

\* sendDue: the rows are read once; two runs of the timer may overlap.
SendDue(c) ==
    /\ \E k \in Send : later[k] = "waiting"
    /\ Start(c, [op |-> "due", send |-> CHOOSE k \in Send : TRUE,
                 due |-> {k \in Send : later[k] = "waiting"}])
    /\ UNCHANGED <<roomVars, messageVars>>

\* Mutant: the count of the claim is not looked at.
ClaimsAnything(k) == TRUE

\* «another tick took it», or it was withdrawn
Claims(k) == later[k] = "waiting"

ClaimDue(c, k) ==
    /\ Running(c, "due") /\ k \in inflight[c].due
    /\ IF Claims(k) /\ CanWrite(Sender[k])
       THEN inflight' = [inflight EXCEPT ![c] = [op |-> AnswerOrCreate(k), send |-> k,
                                              due |-> inflight[c].due \ {k}]]
       ELSE inflight' = [inflight EXCEPT ![c] = [op |-> "due", send |-> inflight[c].send,
                                              due |-> inflight[c].due \ {k}]]
    /\ later' = IF later[k] = "waiting" THEN [later EXCEPT ![k] = "claimed"] ELSE later
    /\ UNCHANGED <<roomVars, log, bubble, upload>>

(***************************************************************************)
(*                    It is stored, then delivered                         *)
(***************************************************************************)
\* Mutant: the unique index on sender and clientId is missing.
NoIndex(k) == TRUE

Unposted(k) == ~Posted(k)

\* The row is stamped and inserted; of a file, the parts are read first.
Create(c) ==
    /\ Running(c, "create")
    /\ LET k == inflight[c].send IN
       /\ Unposted(k)
       /\ Way[k] = "parts" => upload[k].parts = Part
       /\ Len(log) < MaxMessages
       /\ log' = Append(log, k)
       /\ inflight' = [inflight EXCEPT ![c] = [op |-> "deliver", send |-> k,
                                            due |-> inflight[c].due]]
    /\ UNCHANGED <<roomVars, bubble, later, upload>>

\* The index refuses it, or a part is gone: what is left of the upload is thrown away.
CreateFails(c) ==
    /\ Running(c, "create")
    /\ LET k == inflight[c].send IN
       /\ Posted(k) \/ (Way[k] = "parts" /\ upload[k].parts # Part)
       /\ upload' = Cleared(k)
       /\ IF Way[k] = "later" THEN Goes(c, "due") ELSE Finish(c)
    /\ UNCHANGED <<roomVars, log, bubble, later>>

\* deliver: the others are told; the parts of a file are thrown away.
Deliver(c) ==
    /\ Running(c, "deliver")
    /\ upload' = Cleared(inflight[c].send)
    /\ Goes(c, IF Way[inflight[c].send] = "later" THEN "due" ELSE "answer")
    /\ UNCHANGED <<roomVars, log, bubble, later>>

\* The last row of a run of the timer.
DueEnds(c) ==
    /\ Running(c, "due") /\ inflight[c].due = {}
    /\ Finish(c)
    /\ UNCHANGED <<roomVars, messageVars>>

(***************************************************************************)
(*                     What becomes of the bubble                          *)
(***************************************************************************)
\* (Of an earlier try, too, while a later one is on its way: it says the same.)
Answer(c) ==
    /\ Running(c, "answer") /\ Way[inflight[c].send] # "later"
    /\ bubble' = [bubble EXCEPT ![inflight[c].send] = IF @ = "sending" THEN "gone" ELSE @]
    /\ Finish(c)
    /\ UNCHANGED <<roomVars, log, later, upload>>

\* The connection breaks; the request, if it got there, goes on.
SendFails(k) ==
    /\ bubble[k] \in {"sending", "uploading"}
    /\ bubble' = [bubble EXCEPT ![k] = "failed"]
    /\ UNCHANGED <<roomVars, log, later, upload, inflight>>

\* ✕, shown until the send fails; what already asked to be completed goes on.
Cancel(k) ==
    /\ Way[k] = "parts" /\ bubble[k] \in {"uploading", "sending"}
    /\ bubble' = [bubble EXCEPT ![k] = "cancelled"]
    /\ UNCHANGED <<roomVars, log, later, upload, inflight>>

\* Unfinished uploads are thrown away after a day.
SweepUploads(k) ==
    /\ upload[k].open /\ bubble[k] \in {"failed", "cancelled"}
    /\ upload' = Cleared(k)
    /\ UNCHANGED <<roomVars, log, bubble, later, inflight>>

\* A request or a run of the timer dies half-way.
Dies(c) == MayDie /\ Abandon(c) /\ UNCHANGED <<roomVars, messageVars>>

-----------------------------------------------------------------------------
ChatNext ==
    \/ RoomNext /\ UNCHANGED messageVars
    \/ \E c \in Client :
          \/ SendDue(c) \/ Create(c) \/ CreateFails(c) \/ Deliver(c) \/ DueEnds(c)
          \/ Answer(c) \/ Dies(c)
          \/ \E k \in Send : Post(c, k) \/ CompleteUpload(c, k) \/ ClaimDue(c, k)
    \/ \E k \in Send :
          \/ StartUpload(k) \/ Schedule(k) \/ Unschedule(k) \/ SendFails(k) \/ Cancel(k)
          \/ SweepUploads(k)
          \/ \E part \in Part : PutPart(k, part)

ChatSpec == ChatInit /\ [][ChatNext]_chatVars
-----------------------------------------------------------------------------
(***************************************************************************)
(* «A retried send never posts it twice» (schema.prisma:1415): one clientId*)
(* is one message, whichever of its tries, its uploads or its timers       *)
(* overlap or die half-way.                                                *)
(***************************************************************************)
PostedOnce ==
    \A i, j \in DOMAIN log : log[i] = log[j] => i = j

(***************************************************************************)
(* A bubble leaves the screen as sent only when the message is in the chat *)
(* (chat.tsx:607), whatever answers were lost on the way.                  *)
(***************************************************************************)
SentIsPosted == \A k \in Send : bubble[k] = "gone" => Posted(k)

(***************************************************************************)
(* A message that was withdrawn before its time is not sent, not even by a *)
(* run of the timer that had already read it (chat.service.ts:750).        *)
(***************************************************************************)
WithdrawnIsNeverSent ==
    \A k \in Send : later[k] = "withdrawn" =>
        /\ ~Posted(k)
        /\ \A c \in Client : ~(Running(c, "create") /\ inflight[c].send = k)
=============================================================================
