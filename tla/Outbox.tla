------------------------------- MODULE Outbox -------------------------------
(***************************************************************************)
(* The outbox of Telegram messages: rows of notifications, delivered by    *)
(* ticks of the worker container.  A timer starts a tick every two seconds *)
(* whether or not the one before has ended, and containers may overlap     *)
(* during a deploy: any number of ticks run side by side.                  *)
(***************************************************************************)
EXTENDS Integers, FiniteSets

CONSTANTS Note,         \* messages
          Sensitive,    \* those of type login_code: the body is wiped
          Tick,         \* bound: ticks that run side by side
          Batch,        \* rows one tick claims at most
          MaxAttempts,  \* 5
          MaxFaults,    \* bound: crashes, and errors after Telegram delivered
          MaxOverruns   \* bound: leases that end while their tick still works

ASSUME OutboxAssumption == /\ Sensitive \subseteq Note /\ IsFiniteSet(Note)
                           /\ Batch \in Nat \ {0} /\ MaxAttempts \in Nat \ {0}
                           /\ MaxFaults \in Nat /\ MaxOverruns \in Nat

VARIABLES note,         \* the rows: status, attempts, due (nextAttemptAt <= now), body
          tick,         \* tick[t]: the rows it claimed, as it read them, not yet handled;
                        \* the one whose send has ended (at most one), and how
          delivered,    \* how often Telegram showed the message
          faults, overruns

outboxVars == <<note, tick, delivered, faults, overruns>>

Idle == [claimed |-> {}, inHand |-> {}, result |-> "none"]

OutboxInit ==
  /\ note = [n \in Note |-> [status |-> "PENDING", attempts |-> 0, due |-> TRUE, body |-> TRUE]]
  /\ tick = [t \in Tick |-> Idle]
  /\ delivered = [n \in Note |-> 0]
  /\ faults = 0 /\ overruns = 0

DueUnderLimit == {n \in Note : /\ note[n].status = "PENDING" /\ note[n].due
                                /\ note[n].attempts < MaxAttempts}  \* mutant: the limit is in the query
Due == {n \in Note : note[n].status = "PENDING" /\ note[n].due}
HeldBy(t) == {row.id : row \in tick[t].claimed}
Held(n) == \E t \in Tick : n \in HeldBy(t)

(* The claim: one UPDATE over the due rows nobody else has locked (SKIP    *)
(* LOCKED), oldest first; it counts the attempt and takes a lease of 60 s. *)
UncountedRow(row) == [row EXCEPT !.due = FALSE]                     \* mutant: counted on success only
ClaimedRow(row) == [row EXCEPT !.attempts = @ + 1, !.due = FALSE]

Claim(t, batch) ==
  /\ tick[t] = Idle
  /\ batch \subseteq Due /\ batch # {} /\ Cardinality(batch) <= Batch
  /\ note' = [n \in Note |-> IF n \in batch THEN ClaimedRow(note[n]) ELSE note[n]]
  /\ tick' = [tick EXCEPT ![t].claimed =
                 {[id |-> n, attempts |-> note'[n].attempts, body |-> note[n].body] : n \in batch}]
  /\ UNCHANGED <<delivered, faults, overruns>>

(* The rows are sent one by one, each marked before the next is sent. *)
SendEnds(t, row, result) ==
  /\ tick[t].inHand = {} /\ row \in tick[t].claimed
  /\ tick' = [tick EXCEPT ![t].inHand = {row}, ![t].result = result]

Send(t, row) == /\ row.body
                /\ SendEnds(t, row, "sent")
                /\ delivered' = [delivered EXCEPT ![row.id] = @ + 1]
                /\ UNCHANGED <<note, faults, overruns>>

SendFails(t, row) == /\ SendEnds(t, row, "failed")
                     /\ UNCHANGED <<note, delivered, faults, overruns>>

(* Telegram shows the message, yet the answer is lost. *)
SendUnanswered(t, row) == /\ row.body
                          /\ SendEnds(t, row, "failed")
                          /\ delivered' = [delivered EXCEPT ![row.id] = @ + 1]
                          /\ faults < MaxFaults /\ faults' = faults + 1
                          /\ UNCHANGED <<note, overruns>>

Handled(t) == tick' = [tick EXCEPT ![t] = [Idle EXCEPT !.claimed = tick[t].claimed \ tick[t].inHand]]

GivesUp(attempts) == attempts >= MaxAttempts

KeepsFailedBody(n, final) == note[n].body           \* mutant: only what was sent is wiped
KeepsBody(n, final) == note[n].body /\ (final => n \notin Sensitive)

(* Both updates go by the id alone: whatever the row became meanwhile. *)
MarkSent(t) ==
  /\ tick[t].result = "sent"
  /\ \E row \in tick[t].inHand :
       note' = [note EXCEPT ![row.id].status = "SENT", ![row.id].body = @ /\ row.id \notin Sensitive]
  /\ Handled(t)
  /\ UNCHANGED <<delivered, faults, overruns>>

MarkFailed(t) ==
  /\ tick[t].result = "failed"
  /\ \E row \in tick[t].inHand :
       note' = [note EXCEPT ![row.id] =
                  [@ EXCEPT !.status = IF GivesUp(row.attempts) THEN "FAILED" ELSE "PENDING",
                            !.due = FALSE,
                            !.body = KeepsBody(row.id, GivesUp(row.attempts))]]
  /\ Handled(t)
  /\ UNCHANGED <<delivered, faults, overruns>>

(* nextAttemptAt passes: the back-off of a failed row, or the lease of a   *)
(* claimed one - that of a tick which died, or which is still at work.     *)
BecomesDue(n) ==
  /\ note[n].status = "PENDING" /\ ~note[n].due
  /\ note' = [note EXCEPT ![n].due = TRUE]
  /\ IF Held(n) THEN overruns < MaxOverruns /\ overruns' = overruns + 1 ELSE UNCHANGED overruns
  /\ UNCHANGED <<tick, delivered, faults>>

Crash(t) == /\ tick[t] # Idle
            /\ tick' = [tick EXCEPT ![t] = Idle]
            /\ faults < MaxFaults /\ faults' = faults + 1
            /\ UNCHANGED <<note, delivered, overruns>>

Work(t) == (\E row \in tick[t].claimed : Send(t, row) \/ SendFails(t, row)) \/ MarkSent(t) \/ MarkFailed(t)

OutboxNext ==
  \/ \E t \in Tick : \/ \E batch \in SUBSET Due : Claim(t, batch)
                     \/ Work(t)
                     \/ \E row \in tick[t].claimed : SendUnanswered(t, row)
                     \/ Crash(t)
  \/ \E n \in Note : BecomesDue(n)

OutboxSpec == OutboxInit /\ [][OutboxNext]_outboxVars

(* The timer claims what is due, a tick that runs goes on, time passes. *)
OutboxFairness ==
  /\ \A n \in Note : /\ WF_outboxVars(BecomesDue(n) /\ ~Held(n))
                     /\ SF_outboxVars(\E t \in Tick, batch \in SUBSET Due : n \in batch /\ Claim(t, batch))
  /\ \A t \in Tick : WF_outboxVars(Work(t))

FairOutboxSpec == OutboxSpec /\ OutboxFairness

-----------------------------------------------------------------------------
(* A message never reaches the chat more often than attempts are counted   *)
(* on its row - with crashes, lost answers and overrun leases.             *)
DeliveriesAreCounted == \A n \in Note : delivered[n] <= note[n].attempts

(* "Sensitive bodies are wiped from the database once delivered", and when *)
(* the outbox gives up on them, whatever other ticks do to the row.        *)
CodesAreWiped ==
  \A n \in Sensitive : note[n].status \in {"SENT", "FAILED"} => ~note[n].body

(* Every message is sent or given up. *)
EveryMessageEnds == \A n \in Note : <>[](note[n].status \in {"SENT", "FAILED"})

(* "nothing is sent twice", "two bot instances ticking at the same time    *)
(* never send the same message twice" (outbox.spec.ts).                    *)
SentOnce == \A n \in Note : delivered[n] <= 1
=============================================================================
