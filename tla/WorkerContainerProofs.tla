------------------------ MODULE WorkerContainerProofs ------------------------
(***************************************************************************)
(* The worker container, proved for any number of messages, ticks,         *)
(* managers and workers.                                                   *)
(*                                                                         *)
(* Outbox: a tick that holds a row it has not sent yet is a delivery still *)
(* to come, so what was delivered and what is still to come are counted    *)
(* together against the attempts of the row.                               *)
(*                                                                         *)
(* Timers: no worker is left with a substitute of a manager who is back.   *)
(* A return acts on the workers it found when it began.  What makes it     *)
(* safe is that they can only become fewer until it ends - unless he goes  *)
(* on holiday again meanwhile, which the ghost early remembers.            *)
(***************************************************************************)
EXTENDS Outbox, Timers, FiniteSetTheorems, TLAPS

NoteRow == [status : {"PENDING", "SENT", "FAILED"}, attempts : Nat, due : BOOLEAN, body : BOOLEAN]
Read == [id : Note, attempts : Nat, body : BOOLEAN]
TickState == [claimed : SUBSET Read, inHand : SUBSET Read, result : {"none", "sent", "failed"}]

OutboxTypeOK == /\ note \in [Note -> NoteRow]
                /\ tick \in [Tick -> TickState]
                /\ delivered \in [Note -> Nat]

\* What tick t may still send, and the ticks that may still send n.
Unsent(t) == {row.id : row \in tick[t].claimed \ tick[t].inHand}
MaySend(n) == {t \in Tick : n \in Unsent(t)}

OneRowPerMessage ==
  \A t \in Tick : \A r1, r2 \in tick[t].claimed : r1.id = r2.id => r1 = r2

DeliveriesToCome ==
  \A n \in Note : /\ IsFiniteSet(MaySend(n))
                  /\ delivered[n] + Cardinality(MaySend(n)) <= note[n].attempts

OutboxInv == OutboxTypeOK /\ OneRowPerMessage /\ DeliveriesToCome /\ CodesAreWiped

-----------------------------------------------------------------------------
(* Nothing is sent, no attempt is counted, no tick claims more: the count  *)
(* still covers what was delivered.                                        *)
LEMMA FewerToSend ==
  ASSUME OutboxInv, OutboxTypeOK', delivered' = delivered,
         \A n \in Note : note'[n].attempts = note[n].attempts,
         \A t \in Tick : Unsent(t)' \subseteq Unsent(t)
  PROVE  DeliveriesToCome'
<1> SUFFICES ASSUME NEW n \in Note
             PROVE  /\ IsFiniteSet(MaySend(n)')
                    /\ delivered'[n] + Cardinality(MaySend(n)') <= note'[n].attempts
    BY DEF DeliveriesToCome, MaySend, Unsent
<1> DEFINE Now == MaySend(n)   Then == MaySend(n)'
<1>1. IsFiniteSet(Now) /\ delivered[n] + Cardinality(Now) <= note[n].attempts
    BY DEF OutboxInv, DeliveriesToCome
<1>2. Then \subseteq Now BY DEF MaySend
<1>3. delivered[n] \in Nat /\ note[n].attempts \in Nat
    BY DEF OutboxInv, OutboxTypeOK, NoteRow
<1> HIDE DEF Now, Then
<1>4. IsFiniteSet(Then) /\ Cardinality(Then) <= Cardinality(Now)
    BY <1>1, <1>2, FS_Subset
<1>5. Cardinality(Then) \in Nat /\ Cardinality(Now) \in Nat
    BY <1>1, <1>4, FS_CardinalityType
<1> QED BY <1>1, <1>3, <1>4, <1>5 DEF Now, Then

(* A tick sends a row it holds: one delivery more, one to come less.       *)
LEMMA OneLessToSend ==
  ASSUME OutboxInv, OutboxTypeOK', NEW t \in Tick, NEW row \in tick[t].claimed,
         row \notin tick[t].inHand,
         delivered' = [delivered EXCEPT ![row.id] = @ + 1], note' = note,
         \A u \in Tick : Unsent(u)' \subseteq IF u = t THEN Unsent(t) \ {row.id} ELSE Unsent(u)
  PROVE  DeliveriesToCome'
<1> SUFFICES ASSUME NEW n \in Note
             PROVE  /\ IsFiniteSet(MaySend(n)')
                    /\ delivered'[n] + Cardinality(MaySend(n)') <= note'[n].attempts
    BY DEF DeliveriesToCome, MaySend, Unsent
<1> DEFINE Now == MaySend(n)   Then == MaySend(n)'
<1>1. IsFiniteSet(Now) /\ delivered[n] + Cardinality(Now) <= note[n].attempts
    BY DEF OutboxInv, DeliveriesToCome
<1>2. delivered[n] \in Nat /\ note[n].attempts \in Nat /\ row.id \in Note
    BY DEF OutboxInv, OutboxTypeOK, NoteRow, TickState, Read
<1>3. Then \subseteq IF n = row.id THEN Now \ {t} ELSE Now
    BY DEF MaySend
<1>4. n = row.id => t \in Now
    BY DEF MaySend, Unsent
<1>5. delivered'[n] = IF n = row.id THEN delivered[n] + 1 ELSE delivered[n]
    BY <1>2 DEF OutboxInv, OutboxTypeOK
<1>6. note'[n] = note[n] OBVIOUS
<1> HIDE DEF Now, Then
<1>7. IsFiniteSet(Now \ {t})
      /\ Cardinality(Now \ {t}) = IF t \in Now THEN Cardinality(Now) - 1 ELSE Cardinality(Now)
    BY <1>1, FS_RemoveElement
<1>8. Cardinality(Now) \in Nat BY <1>1, FS_CardinalityType
<1>9. CASE n = row.id
    <2>1. IsFiniteSet(Then) /\ Cardinality(Then) <= Cardinality(Now \ {t})
        BY <1>3, <1>7, <1>9, FS_Subset
    <2>2. Cardinality(Then) \in Nat BY <2>1, FS_CardinalityType
    <2>3. Cardinality(Now \ {t}) = Cardinality(Now) - 1 BY <1>4, <1>7, <1>9
    <2> QED BY <1>1, <1>2, <1>5, <1>6, <1>8, <1>9, <2>1, <2>2, <2>3 DEF Now, Then
<1>10. CASE n # row.id
    <2>1. IsFiniteSet(Then) /\ Cardinality(Then) <= Cardinality(Now)
        BY <1>1, <1>3, <1>10, FS_Subset
    <2>2. Cardinality(Then) \in Nat BY <2>1, FS_CardinalityType
    <2> QED BY <1>1, <1>2, <1>5, <1>6, <1>8, <1>10, <2>1, <2>2 DEF Now, Then
<1> QED BY <1>9, <1>10
(* Nobody holds anything at the start. *)
LEMMA OutboxStarts == ASSUME OutboxInit PROVE OutboxInv
<1>1. OutboxTypeOK
    BY DEF OutboxInit, OutboxTypeOK, NoteRow, Idle, TickState
<1>2. OneRowPerMessage BY DEF OutboxInit, OneRowPerMessage, Idle
<1>3. CodesAreWiped BY OutboxAssumption DEF OutboxInit, CodesAreWiped
<1>4. \A n \in Note : MaySend(n) = {} BY DEF MaySend, Unsent, OutboxInit, Idle
<1>5. DeliveriesToCome
    <2> SUFFICES ASSUME NEW n \in Note
                 PROVE  /\ IsFiniteSet(MaySend(n))
                        /\ delivered[n] + Cardinality(MaySend(n)) <= note[n].attempts
        BY DEF DeliveriesToCome
    <2>1. IsFiniteSet(MaySend(n)) /\ Cardinality(MaySend(n)) = 0 BY <1>4, FS_EmptySet
    <2>2. delivered[n] = 0 /\ note[n].attempts = 0 BY DEF OutboxInit
    <2> QED BY <2>1, <2>2
<1> QED BY <1>1, <1>2, <1>3, <1>5 DEF OutboxInv

\* What a claim writes in a row, field by field.
LEMMA ClaimedRowFields ==
  ASSUME NEW row \in NoteRow
  PROVE  /\ ClaimedRow(row) \in NoteRow
         /\ ClaimedRow(row).attempts = row.attempts + 1 /\ ClaimedRow(row).status = row.status
<1>1. row.attempts + 1 \in Nat BY DEF NoteRow
<1> QED BY <1>1 DEF ClaimedRow, NoteRow

(* The claim counts an attempt for each delivery it makes possible. *)
LEMMA ClaimKeeps ==
  ASSUME OutboxInv, NEW t \in Tick, NEW batch \in SUBSET Due, Claim(t, batch)
  PROVE  OutboxInv'
<1> DEFINE New == {[id |-> n, attempts |-> note'[n].attempts, body |-> note[n].body] : n \in batch}
<1>1. batch \subseteq Note BY DEF Due
<1>2. \A n \in Note : note[n] \in NoteRow BY DEF OutboxInv, OutboxTypeOK
<1>3. \A n \in Note : note'[n] = IF n \in batch THEN ClaimedRow(note[n]) ELSE note[n]
    BY DEF Claim
<1>4. \A n \in Note : /\ ClaimedRow(note[n]) \in NoteRow
                       /\ ClaimedRow(note[n]).attempts = note[n].attempts + 1
                       /\ ClaimedRow(note[n]).status = note[n].status
    BY <1>2, ClaimedRowFields
<1>5. note' \in [Note -> NoteRow]
    <2>1. \A n \in Note : note'[n] \in NoteRow BY <1>2, <1>3, <1>4
    <2> QED BY <2>1 DEF Claim
<1>6. New \in SUBSET Read BY <1>1, <1>2, <1>5 DEF NoteRow, Read
<1>7. tick[t].claimed = {} /\ tick[t].inHand = {} /\ tick[t].result = "none" BY DEF Claim, Idle
<1>8. /\ tick' \in [Tick -> TickState]
      /\ tick'[t].claimed = New /\ tick'[t].inHand = {}
      /\ \A u \in Tick \ {t} : tick'[u] = tick[u]
    <2>1. tick \in [Tick -> TickState] BY DEF OutboxInv, OutboxTypeOK
    <2>2. tick' = [tick EXCEPT ![t].claimed = New] BY DEF Claim
    <2> HIDE DEF New
    <2> QED BY <1>6, <1>7, <2>1, <2>2 DEF TickState
<1>9. OutboxTypeOK' BY <1>5, <1>8 DEF Claim, OutboxInv, OutboxTypeOK
<1>10. OneRowPerMessage'
    BY <1>8 DEF OneRowPerMessage, OutboxInv
<1>11. CodesAreWiped'
    <2>1. \A n \in batch : note[n].status = "PENDING" BY DEF Due
    <2>2. \A n \in Note : note'[n].status \in {"SENT", "FAILED"} => note'[n] = note[n]
        BY <1>3, <1>4, <2>1
    <2> QED BY <2>2, OutboxAssumption DEF OutboxInv, CodesAreWiped
<1>12. DeliveriesToCome'
    <2> SUFFICES ASSUME NEW n \in Note
                 PROVE  /\ IsFiniteSet(MaySend(n)')
                        /\ delivered'[n] + Cardinality(MaySend(n)') <= note'[n].attempts
        BY DEF DeliveriesToCome, MaySend, Unsent
    <2> DEFINE Now == MaySend(n)   Then == MaySend(n)'
    <2>1. IsFiniteSet(Now) /\ delivered[n] + Cardinality(Now) <= note[n].attempts
        BY DEF OutboxInv, DeliveriesToCome
    <2>2. delivered[n] \in Nat /\ note[n].attempts \in Nat
        BY DEF OutboxInv, OutboxTypeOK, NoteRow
    <2>3. t \notin Now BY <1>7 DEF MaySend, Unsent
    <2>4. \A u \in Tick \ {t} : Unsent(u)' = Unsent(u) BY <1>8 DEF Unsent
    <2>5. Unsent(t)' = batch
        <3>1. {row.id : row \in New} = batch
            <4>1. \A row \in New : row.id \in batch OBVIOUS
            <4>2. ASSUME NEW k \in batch PROVE \E row \in New : row.id = k
                <5> DEFINE mine == [id |-> k, attempts |-> note'[k].attempts, body |-> note[k].body]
                <5>1. mine \in New /\ mine.id = k OBVIOUS
                <5> QED BY <5>1
            <4> HIDE DEF New
            <4> QED BY <4>1, <4>2
        <3> HIDE DEF New
        <3>2. Unsent(t)' = {row.id : row \in New \ {}} BY <1>8 DEF Unsent
        <3> QED BY <3>1, <3>2
    <2>6. Then = IF n \in batch THEN Now \cup {t} ELSE Now
        BY <2>3, <2>4, <2>5 DEF MaySend
    <2>7. note'[n].attempts = IF n \in batch THEN note[n].attempts + 1 ELSE note[n].attempts
        BY <1>3, <1>4
    <2>8. delivered'[n] = delivered[n] BY DEF Claim
    <2> HIDE DEF Now, Then
    <2>9. IsFiniteSet(Now \cup {t}) /\ Cardinality(Now \cup {t}) = Cardinality(Now) + 1
        BY <2>1, <2>3, FS_AddElement
    <2>10. Cardinality(Now) \in Nat BY <2>1, FS_CardinalityType
    <2> QED BY <2>1, <2>2, <2>6, <2>7, <2>8, <2>9, <2>10 DEF Now, Then
<1> QED BY <1>9, <1>10, <1>11, <1>12 DEF OutboxInv

(* The row whose send has ended is in hand, and no longer to be sent.      *)
LEMMA SendEndsKeeps ==
  ASSUME OutboxInv, NEW t \in Tick, NEW row \in tick[t].claimed, NEW result \in {"sent", "failed"},
         SendEnds(t, row, result)
  PROVE  /\ row \notin tick[t].inHand /\ row \in Read
         /\ tick' \in [Tick -> TickState] /\ OneRowPerMessage'
         /\ \A u \in Tick : Unsent(u)' \subseteq IF u = t THEN Unsent(t) \ {row.id} ELSE Unsent(u)
<1>1. tick \in [Tick -> TickState] BY DEF OutboxInv, OutboxTypeOK
<1>2. row \in Read BY <1>1 DEF TickState
<1>3. /\ tick' \in [Tick -> TickState]
      /\ tick'[t].claimed = tick[t].claimed /\ tick'[t].inHand = {row} /\ tick[t].inHand = {}
      /\ \A u \in Tick \ {t} : tick'[u] = tick[u]
    BY <1>1, <1>2 DEF SendEnds, TickState
<1>4. OneRowPerMessage' BY <1>3 DEF OutboxInv, OneRowPerMessage
<1>5. Unsent(t)' \subseteq Unsent(t) \ {row.id}
    BY <1>3 DEF Unsent, OutboxInv, OneRowPerMessage
<1> QED BY <1>2, <1>3, <1>4, <1>5 DEF Unsent

(* Whatever a send leads to, the attempt of the claim has paid for it.     *)
LEMMA SendsKeep ==
  ASSUME OutboxInv, NEW t \in Tick, NEW row \in tick[t].claimed,
         Send(t, row) \/ SendFails(t, row) \/ SendUnanswered(t, row)
  PROVE  OutboxInv'
<1>1. PICK result \in {"sent", "failed"} : SendEnds(t, row, result)
    BY DEF Send, SendFails, SendUnanswered
<1>2. note' = note BY DEF Send, SendFails, SendUnanswered
<1>3. CodesAreWiped' BY <1>2 DEF OutboxInv, CodesAreWiped
<1>4. /\ row \notin tick[t].inHand /\ row \in Read
      /\ tick' \in [Tick -> TickState] /\ OneRowPerMessage'
      /\ \A u \in Tick : Unsent(u)' \subseteq IF u = t THEN Unsent(t) \ {row.id} ELSE Unsent(u)
    BY <1>1, SendEndsKeeps
<1>5. CASE delivered' = [delivered EXCEPT ![row.id] = @ + 1]
    <2>1. OutboxTypeOK' BY <1>2, <1>4, <1>5 DEF OutboxInv, OutboxTypeOK, Read
    <2>2. DeliveriesToCome' BY <1>2, <1>4, <1>5, <2>1, OneLessToSend
    <2> QED BY <1>3, <1>4, <2>1, <2>2 DEF OutboxInv
<1>6. CASE delivered' = delivered
    <2>1. OutboxTypeOK' BY <1>2, <1>4, <1>6 DEF OutboxInv, OutboxTypeOK
    <2>2. \A u \in Tick : Unsent(u)' \subseteq Unsent(u) BY <1>4
    <2>3. \A n \in Note : note'[n].attempts = note[n].attempts BY <1>2
    <2>4. DeliveriesToCome' BY <1>6, <2>1, <2>2, <2>3, FewerToSend
    <2> QED BY <1>3, <1>4, <2>1, <2>4 DEF OutboxInv
<1> QED BY <1>5, <1>6 DEF Send, SendFails, SendUnanswered

(* A tick puts away the row in its hand. *)
LEMMA HandledKeeps ==
  ASSUME OutboxInv, NEW t \in Tick, Handled(t)
  PROVE  /\ tick' \in [Tick -> TickState] /\ OneRowPerMessage'
         /\ \A u \in Tick : Unsent(u)' \subseteq Unsent(u)
<1>1. tick \in [Tick -> TickState] BY DEF OutboxInv, OutboxTypeOK
<1>2. /\ tick'[t] = [claimed |-> tick[t].claimed \ tick[t].inHand, inHand |-> {}, result |-> "none"]
      /\ \A u \in Tick \ {t} : tick'[u] = tick[u]
    BY <1>1 DEF Handled, Idle
<1>3. tick'[t] \in TickState
    <2>1. tick[t] \in TickState BY <1>1
    <2> QED BY <1>2, <2>1 DEF TickState
<1>4. tick' \in [Tick -> TickState] BY <1>1, <1>3 DEF Handled
<1>5. OneRowPerMessage' BY <1>2 DEF OutboxInv, OneRowPerMessage
<1> QED BY <1>2, <1>4, <1>5 DEF Unsent

(* What the two updates make of a row: a code that has reached its end is  *)
(* wiped, and no attempt is forgotten.                                     *)
LEMMA MarkedRow ==
  ASSUME OutboxInv, NEW n \in Note, NEW row \in NoteRow, note' = [note EXCEPT ![n] = row],
         row.attempts = note[n].attempts,
         n \in Sensitive /\ row.status \in {"SENT", "FAILED"} => ~row.body
  PROVE  /\ note' \in [Note -> NoteRow] /\ CodesAreWiped'
         /\ \A k \in Note : note'[k].attempts = note[k].attempts
<1>1. note \in [Note -> NoteRow] BY DEF OutboxInv, OutboxTypeOK
<1>2. note' \in [Note -> NoteRow] /\ \A k \in Note : note'[k] = IF k = n THEN row ELSE note[k]
    BY <1>1
<1> QED BY <1>2, OutboxAssumption DEF OutboxInv, CodesAreWiped

(* Both marks go by the id alone, and may come after those of other ticks. *)
LEMMA MarksKeep ==
  ASSUME OutboxInv, NEW t \in Tick, MarkSent(t) \/ MarkFailed(t)
  PROVE  OutboxInv'
<1>1. PICK row \in tick[t].inHand :
        \/ note' = [note EXCEPT ![row.id].status = "SENT", ![row.id].body = @ /\ row.id \notin Sensitive]
        \/ note' = [note EXCEPT ![row.id] =
                      [@ EXCEPT !.status = IF GivesUp(row.attempts) THEN "FAILED" ELSE "PENDING",
                                !.due = FALSE,
                                !.body = KeepsBody(row.id, GivesUp(row.attempts))]]
    BY DEF MarkSent, MarkFailed
<1>2. row.id \in Note /\ note \in [Note -> NoteRow]
    BY DEF OutboxInv, OutboxTypeOK, TickState, Read
<1> DEFINE n == row.id   final == GivesUp(row.attempts)   now == note'[n]
<1>3. note[n] \in NoteRow BY <1>2
<1> DEFINE Marked == /\ note' \in [Note -> NoteRow] /\ CodesAreWiped'
                     /\ \A k \in Note : note'[k].attempts = note[k].attempts
<1>4. ASSUME note' = [note EXCEPT ![n].status = "SENT", ![n].body = @ /\ n \notin Sensitive]
      PROVE  Marked
    <2>1. /\ now \in NoteRow /\ now.attempts = note[n].attempts
          /\ n \in Sensitive => ~now.body
        BY <1>2, <1>3, <1>4 DEF NoteRow
    <2>2. note' = [note EXCEPT ![n] = now] BY <1>2, <1>4
    <2> HIDE DEF now
    <2> QED BY <1>2, <2>1, <2>2, MarkedRow
<1>5. ASSUME note' = [note EXCEPT ![n] =
                      [@ EXCEPT !.status = IF final THEN "FAILED" ELSE "PENDING",
                                !.due = FALSE, !.body = KeepsBody(n, final)]]
      PROVE  Marked
    <2>1. KeepsBody(n, final) \in BOOLEAN /\ (n \in Sensitive /\ final => ~KeepsBody(n, final))
        BY DEF KeepsBody
    <2>2. /\ now \in NoteRow /\ now.attempts = note[n].attempts
          /\ now.status = IF final THEN "FAILED" ELSE "PENDING"
          /\ now.body = KeepsBody(n, final)
        BY <1>2, <1>3, <1>5, <2>1 DEF NoteRow
    <2>3. note' = [note EXCEPT ![n] = now] BY <1>2, <1>5
    <2> HIDE DEF now
    <2> QED BY <1>2, <2>1, <2>2, <2>3, MarkedRow
<1>9. Marked
    BY <1>1, <1>4, <1>5
<1>10. Handled(t) /\ delivered' = delivered BY DEF MarkSent, MarkFailed
<1>11. /\ tick' \in [Tick -> TickState] /\ OneRowPerMessage'
       /\ \A u \in Tick : Unsent(u)' \subseteq Unsent(u)
    BY <1>10, HandledKeeps
<1>12. OutboxTypeOK' BY <1>9, <1>10, <1>11 DEF OutboxInv, OutboxTypeOK
<1>13. DeliveriesToCome' BY <1>9, <1>10, <1>11, <1>12, FewerToSend
<1> QED BY <1>9, <1>11, <1>12, <1>13 DEF OutboxInv

(* Time passes, whoever still works on the row. *)
LEMMA BecomesDueKeeps ==
  ASSUME OutboxInv, NEW n \in Note, BecomesDue(n)
  PROVE  OutboxInv'
<1>1. note \in [Note -> NoteRow] BY DEF OutboxInv, OutboxTypeOK
<1>2. note' \in [Note -> NoteRow]
      /\ \A k \in Note : /\ note'[k].attempts = note[k].attempts
                         /\ note'[k].status = note[k].status /\ note'[k].body = note[k].body
    BY <1>1 DEF BecomesDue, NoteRow
<1>3. tick' = tick /\ delivered' = delivered BY DEF BecomesDue
<1>4. OutboxTypeOK' BY <1>2, <1>3 DEF OutboxInv, OutboxTypeOK
<1>5. \A u \in Tick : Unsent(u)' = Unsent(u) BY <1>3 DEF Unsent
<1>6. DeliveriesToCome' BY <1>2, <1>3, <1>4, <1>5, FewerToSend
<1>7. CodesAreWiped' BY <1>2, OutboxAssumption DEF OutboxInv, CodesAreWiped
<1>8. OneRowPerMessage' BY <1>3 DEF OutboxInv, OneRowPerMessage
<1> QED BY <1>4, <1>6, <1>7, <1>8 DEF OutboxInv

(* A tick that dies sends nothing more; the attempts it counted stay.      *)
LEMMA CrashKeeps ==
  ASSUME OutboxInv, NEW t \in Tick, Crash(t)
  PROVE  OutboxInv'
<1>1. tick \in [Tick -> TickState] BY DEF OutboxInv, OutboxTypeOK
<1>2. Idle \in TickState BY DEF Idle, TickState
<1>3. /\ tick' \in [Tick -> TickState] /\ tick'[t] = Idle
      /\ \A u \in Tick \ {t} : tick'[u] = tick[u]
    BY <1>1, <1>2 DEF Crash
<1>4. note' = note /\ delivered' = delivered BY DEF Crash
<1>5. OutboxTypeOK' BY <1>3, <1>4 DEF OutboxInv, OutboxTypeOK
<1>6. \A u \in Tick : Unsent(u)' \subseteq Unsent(u) BY <1>3 DEF Unsent, Idle
<1>7. \A n \in Note : note'[n].attempts = note[n].attempts BY <1>4
<1>8. DeliveriesToCome' BY <1>4, <1>5, <1>6, <1>7, FewerToSend
<1>9. CodesAreWiped' /\ OneRowPerMessage'
    BY <1>3, <1>4 DEF OutboxInv, CodesAreWiped, OneRowPerMessage, Idle
<1> QED BY <1>5, <1>8, <1>9 DEF OutboxInv

(* Every step of the outbox. *)
LEMMA OutboxStepKeeps == OutboxInv /\ [OutboxNext]_outboxVars => OutboxInv'
<1> SUFFICES ASSUME OutboxInv, [OutboxNext]_outboxVars PROVE OutboxInv'
    OBVIOUS
<1>1. ASSUME NEW t \in Tick, NEW batch \in SUBSET Due, Claim(t, batch) PROVE OutboxInv'
    BY <1>1, ClaimKeeps
<1>2. ASSUME NEW t \in Tick, Work(t) PROVE OutboxInv'
    BY <1>2, SendsKeep, MarksKeep DEF Work
<1>3. ASSUME NEW t \in Tick, NEW row \in tick[t].claimed, SendUnanswered(t, row) PROVE OutboxInv'
    BY <1>3, SendsKeep
<1>4. ASSUME NEW t \in Tick, Crash(t) PROVE OutboxInv'
    BY <1>4, CrashKeeps
<1>5. ASSUME NEW n \in Note, BecomesDue(n) PROVE OutboxInv'
    BY <1>5, BecomesDueKeeps
<1>6. CASE UNCHANGED outboxVars
    BY <1>6 DEF outboxVars, OutboxInv, OutboxTypeOK, OneRowPerMessage, DeliveriesToCome, MaySend,
                Unsent, CodesAreWiped
<1> QED BY <1>1, <1>2, <1>3, <1>4, <1>5, <1>6 DEF OutboxNext

\* The inductive invariant of the outbox holds of every reachable state.
LEMMA OutboxInvariant == OutboxSpec => []OutboxInv
<1>1. OutboxInit => OutboxInv BY OutboxStarts
<1> QED BY <1>1, OutboxStepKeeps, PTL DEF OutboxSpec

(***************************************************************************)
(* A message never reaches the chat more often than attempts are counted   *)
(* on its row: for any number of ticks and containers, whatever crashes,   *)
(* answers lost and leases overrun.                                        *)
(***************************************************************************)
THEOREM DeliveriesCounted == OutboxSpec => []DeliveriesAreCounted
<1>1. OutboxInv => DeliveriesAreCounted
    <2> SUFFICES ASSUME OutboxInv, NEW n \in Note PROVE delivered[n] <= note[n].attempts
        BY DEF DeliveriesAreCounted
    <2>1. /\ IsFiniteSet(MaySend(n)) /\ delivered[n] + Cardinality(MaySend(n)) <= note[n].attempts
          /\ delivered[n] \in Nat /\ note[n].attempts \in Nat
        BY DEF OutboxInv, DeliveriesToCome, OutboxTypeOK, NoteRow
    <2>2. Cardinality(MaySend(n)) \in Nat BY <2>1, FS_CardinalityType
    <2> QED BY <2>1, <2>2
<1> QED BY <1>1, OutboxInvariant, PTL

(***************************************************************************)
(* The body of a code is gone once its row is SENT or FAILED, in whatever  *)
(* order two ticks mark the row they both hold.                            *)
(***************************************************************************)
THEOREM CodesWiped == OutboxSpec => []CodesAreWiped
<1>1. OutboxInv => CodesAreWiped BY DEF OutboxInv
<1> QED BY <1>1, OutboxInvariant, PTL

-----------------------------------------------------------------------------
(* The timers. *)
Lists == [op : {"holidays"}, todo : SUBSET Manager]
Leaves == [op : {"leave"}, manager : Manager, sub : Manager, until : Day, workers : SUBSET Worker]
Returns == [op : {"back"}, manager : Manager, rest : SUBSET Manager, early : BOOLEAN,
            workers : SUBSET Worker]

\* Those who wait for m to come back.
Waiting(m) == {w \in Worker : home[w] = m}

HandlerOK(h) ==
    /\ "op" \in DOMAIN h
    /\ h.op = "holidays" => h \in Lists
    /\ h.op = "leave" => h \in Leaves
    /\ h.op = "back" => h \in Returns /\ (h.early \/ Waiting(h.manager) \subseteq h.workers)

HandlersOK ==
    /\ inflight = [c \in Client |-> inflight[c]]
    /\ \A c \in Client : HandlerOK(inflight[c])

Inv == TimersTypeOK /\ HandlersOK /\ CoverHasHoliday

-----------------------------------------------------------------------------
\* The first state.
LEMMA InitIsGood == ASSUME TimersInit PROVE Inv
<1>1. TimersTypeOK
    <2>1. 0 \in Day
        BY TimersAssumption DEF Day
    <2>2. reminder \in [Reminder -> [state : {"unwritten", "there", "deleted"}, at : Day,
                                    done : BOOLEAN, notified : BOOLEAN]]
        <3> DEFINE Rows == [state : {"unwritten", "there", "deleted"}, at : Day,
                            done : BOOLEAN, notified : BOOLEAN]
        <3>1. Unwritten \in Rows
            BY <2>1 DEF Unwritten
        <3>2. Deleted \in Rows
            BY <3>1 DEF Deleted
        <3> HIDE DEF Rows
        <3>3. reminder \in [Reminder -> Rows]
            BY <3>1, <3>2 DEF TimersInit
        <3> QED BY <3>3 DEF Rows
    <2>3. away \in [Manager -> Day \cup {None}] /\ home \in [Worker -> Manager \cup {None}]
        BY DEF TimersInit
    <2>4. team \subseteq Manager /\ manager \in [Worker -> Manager \cup {None}]
        BY DEF TimersInit
    <2> QED BY <2>2, <2>3, <2>4 DEF TimersInit, TimersTypeOK
<1>2. HandlersOK BY DEF TimersInit, HandlersInit, HandlersOK, HandlerOK, NoHandler
<1>3. CoverHasHoliday BY DEF TimersInit, CoverHasHoliday
<1> QED BY <1>1, <1>2, <1>3 DEF Inv

\* A step that leaves the covers alone, and one slot with a sound handler.
LEMMA OneSlotMoves ==
    ASSUME Inv, UNCHANGED covers, TimersTypeOK', NEW c \in Client, NEW h,
           inflight' = [inflight EXCEPT ![c] = h], HandlerOK(h)
    PROVE  Inv'
<1>1. ASSUME NEW d \in Client PROVE HandlerOK(inflight[d])'
    <2>1. inflight'[d] = IF d = c THEN h ELSE inflight[d]
        BY DEF Inv, HandlersOK
    <2>2. HandlerOK(IF d = c THEN h ELSE inflight[d])
        BY DEF Inv, HandlersOK
    <2> QED BY <2>1, <2>2 DEF HandlerOK, Waiting, Lists, Leaves, Returns, Day, covers
<1>2. inflight' = [d \in Client |-> inflight'[d]]
    BY DEF Inv, HandlersOK
<1>3. CoverHasHoliday'
    BY DEF Inv, CoverHasHoliday, covers
<1> QED BY <1>1, <1>2, <1>3 DEF Inv, HandlersOK

\* A step that leaves covers and handlers alone.
LEMMA NoSlotMoves ==
    ASSUME Inv, UNCHANGED <<covers, inflight>>, TimersTypeOK'
    PROVE  Inv'
<1>1. HandlersOK'
    BY DEF Inv, HandlersOK, HandlerOK, Waiting, Lists, Leaves, Returns, Day, covers
<1>2. CoverHasHoliday'
    BY DEF Inv, CoverHasHoliday, covers
<1> QED BY <1>1, <1>2 DEF Inv

\* He goes on holiday: his returns that are on their way become outdated.
LEMMA LeaveIsGood == ASSUME Inv, NEW c \in Client, LeaveCommit(c) PROVE Inv'
<1> DEFINE h == inflight[c]
<1>0. /\ h \in Leaves
      /\ manager' = [w \in Worker |-> IF w \in h.workers THEN h.sub ELSE manager[w]]
      /\ home' = [w \in Worker |-> IF w \in h.workers THEN h.manager ELSE home[w]]
      /\ away' = [away EXCEPT ![h.manager] = h.until]
      /\ inflight' = [d \in Client |-> IF d = c THEN NoHandler
                                       ELSE Outdated(inflight[d], h.manager)]
      /\ UNCHANGED <<calendar, notices, bounds, renewed>>
    BY DEF LeaveCommit, Running, Inv, HandlersOK, HandlerOK
<1> HIDE DEF h
<1>1. TimersTypeOK'
    BY <1>0 DEF Inv, TimersTypeOK, Leaves, calendar, notices
<1>2. \A d \in Client : HandlerOK(inflight[d])
    BY DEF Inv, HandlersOK
<1>3. ASSUME NEW d \in Client PROVE HandlerOK(inflight[d])'
    <2>1. CASE d = c
        BY <1>0, <2>1 DEF HandlerOK, NoHandler
    <2>2. CASE d # c /\ inflight[d].op = "back" /\ inflight[d].manager = h.manager
        <3>1. inflight'[d] = [inflight[d] EXCEPT !.early = TRUE]
            BY <1>0, <2>2 DEF Outdated
        <3>2. inflight[d] \in Returns
            BY <1>2, <2>2 DEF HandlerOK
        <3>3. inflight'[d] \in Returns /\ inflight'[d].early /\ inflight'[d].op = "back"
            BY <3>1, <3>2 DEF Returns
        <3> QED BY <3>3 DEF HandlerOK, Returns
    <2>3. CASE d # c /\ ~(inflight[d].op = "back" /\ inflight[d].manager = h.manager)
        <3>1. inflight'[d] = inflight[d]
            BY <1>0, <2>3 DEF Outdated
        <3>2. inflight[d].op = "back" =>
                {w \in Worker : home'[w] = inflight[d].manager} \subseteq Waiting(inflight[d].manager)
            BY <1>0, <2>3 DEF Waiting, Leaves
        <3> QED BY <1>2, <3>1, <3>2 DEF HandlerOK, Waiting, Lists, Leaves, Returns, Day
    <2> QED BY <2>1, <2>2, <2>3
<1>4. CoverHasHoliday'
    <2>1. h.until # None
        BY <1>0, TimersAssumption DEF Leaves, Day
    <2>2. ASSUME NEW w \in Worker, home'[w] # None
          PROVE  away'[home'[w]] # None \/ home'[w] \in renewed'
        BY <1>0, <2>1, <2>2 DEF Inv, CoverHasHoliday, TimersTypeOK, Leaves
    <2> QED BY <2>2 DEF CoverHasHoliday
<1> QED BY <1>0, <1>1, <1>3, <1>4 DEF Inv, HandlersOK

\* He comes back: whoever waited for him is his again.
LEMMA BackIsGood == ASSUME Inv, NEW c \in Client, BackCommit(c) PROVE Inv'
<1> DEFINE h == inflight[c]
<1>0. /\ h \in Returns /\ (h.early \/ Waiting(h.manager) \subseteq h.workers)
      /\ manager' = [w \in Worker |-> IF w \in h.workers THEN h.manager ELSE manager[w]]
      /\ home' = [w \in Worker |-> IF w \in h.workers THEN None ELSE home[w]]
      /\ away' = [away EXCEPT ![h.manager] = None]
      /\ renewed' = IF h.early THEN renewed \cup {h.manager} ELSE renewed \ {h.manager}
      /\ inflight' = [inflight EXCEPT ![c] = ListOf(h.rest)]
      /\ UNCHANGED <<calendar, notices, bounds>>
    BY DEF BackCommit, Running, Inv, HandlersOK, HandlerOK, Becomes, HomeWiped
<1> HIDE DEF h
<1>1. TimersTypeOK'
    BY <1>0 DEF Inv, TimersTypeOK, Returns, calendar, notices
<1>2. \A d \in Client : HandlerOK(inflight[d])
    BY DEF Inv, HandlersOK
<1>3. ASSUME NEW d \in Client PROVE HandlerOK(inflight[d])'
    <2>1. CASE d = c
        BY <1>0, <2>1 DEF HandlerOK, NoHandler, ListOf, Lists, Returns, Inv, HandlersOK
    <2>2. CASE d # c
        <3>1. inflight'[d] = inflight[d]
            BY <1>0, <2>2 DEF Inv, HandlersOK
        <3>2. inflight[d].op = "back" =>
                {w \in Worker : home'[w] = inflight[d].manager} \subseteq Waiting(inflight[d].manager)
            <4>1. inflight[d].op = "back" => inflight[d].manager \in Manager
                BY <1>2 DEF HandlerOK, Returns
            <4> QED BY <1>0, <4>1, TimersAssumption DEF Waiting
        <3> QED BY <1>2, <3>1, <3>2 DEF HandlerOK, Waiting, Lists, Leaves, Returns, Day
    <2> QED BY <2>1, <2>2
<1>4. CoverHasHoliday'
    <2>1. ASSUME NEW w \in Worker, home'[w] # None
          PROVE  away'[home'[w]] # None \/ home'[w] \in renewed'
        <3>1. w \notin h.workers /\ home'[w] = home[w]
            BY <1>0, <2>1
        <3>2. home[w] \in Manager /\ (away[home[w]] # None \/ home[w] \in renewed)
            BY <2>1, <3>1 DEF Inv, CoverHasHoliday, TimersTypeOK
        <3>3. CASE home[w] = h.manager
            BY <1>0, <3>1, <3>3 DEF Waiting
        <3>4. CASE home[w] # h.manager
            BY <1>0, <3>1, <3>2, <3>4 DEF Inv, TimersTypeOK
        <3> QED BY <3>3, <3>4
    <2> QED BY <2>1 DEF CoverHasHoliday
<1>5. inflight' = [d \in Client |-> inflight'[d]]
    BY <1>0 DEF Inv, HandlersOK
<1> QED BY <1>1, <1>3, <1>4, <1>5 DEF Inv, HandlersOK

\* A worker given to a manager for good waits for nobody.
LEMMA AssignIsGood ==
    ASSUME Inv, NEW w \in Worker, NEW m \in Manager \cup {None}, AssignManager(w, m)
    PROVE  Inv'
<1>0. /\ manager' = [manager EXCEPT ![w] = m] /\ home' = [home EXCEPT ![w] = None]
      /\ UNCHANGED <<calendar, notices, bounds, away, renewed, inflight>>
    BY DEF AssignManager
<1>1. TimersTypeOK'
    BY <1>0 DEF Inv, TimersTypeOK, calendar, notices
<1>2. ASSUME NEW d \in Client PROVE HandlerOK(inflight[d])'
    <2>1. HandlerOK(inflight[d])
        BY DEF Inv, HandlersOK
    <2>2. inflight[d].op = "back" =>
            {v \in Worker : home'[v] = inflight[d].manager} \subseteq Waiting(inflight[d].manager)
        <3>1. inflight[d].op = "back" => inflight[d].manager \in Manager
            BY <2>1 DEF HandlerOK, Returns
        <3> QED BY <1>0, <3>1, TimersAssumption DEF Waiting, Inv, TimersTypeOK
    <2> QED BY <1>0, <2>1, <2>2 DEF HandlerOK, Waiting, Lists, Leaves, Returns, Day
<1>3. CoverHasHoliday'
    BY <1>0 DEF Inv, CoverHasHoliday, TimersTypeOK
<1> QED BY <1>0, <1>1, <1>2, <1>3 DEF Inv, HandlersOK

-----------------------------------------------------------------------------
(***************************************************************************)
(* The steps that leave the covers alone.                                  *)
(***************************************************************************)

\* A job that goes on with what is left of its list, or ends.
LEMMA TickIsGood ==
    ASSUME Inv, NEW c \in Client, TickBegin(c) \/ TickTells(c) \/ Dies(c)
    PROVE  Inv'
<1>1. TimersTypeOK'
    BY DEF Inv, TimersTypeOK, TickBegin, TickTells, Dies, calendar, covers, notices
<1>2. UNCHANGED covers
    BY DEF TickBegin, TickTells, Dies
<1>3. PICK h : inflight' = [inflight EXCEPT ![c] = h] /\ HandlerOK(h)
    <2>1. CASE TickBegin(c)
        <3> DEFINE h == [op |-> "tick", todo |-> Announced \ bell]
        <3>1. HandlerOK(h)
            BY DEF HandlerOK
        <3>2. inflight' = [inflight EXCEPT ![c] = h]
            BY <2>1 DEF TickBegin, Start
        <3> QED BY <3>1, <3>2
    <2>2. CASE TickTells(c)
        <3>1. HandlerOK(inflight[c]) /\ inflight[c].op = "tick"
            BY <2>2 DEF Inv, HandlersOK, TickTells, Running
        <3>2. PICK n : inflight' = [inflight EXCEPT ![c] = Rest(c, n)]
            BY <2>2 DEF TickTells, Becomes
        <3>3. HandlerOK(Rest(c, n))
            BY <3>1 DEF HandlerOK, Rest, NoHandler
        <3> QED BY <3>2, <3>3
    <2>3. CASE Dies(c)
        <3>1. HandlerOK(NoHandler)
            BY DEF HandlerOK, NoHandler
        <3>2. inflight' = [inflight EXCEPT ![c] = NoHandler]
            BY <2>3 DEF Dies, Abandon, Finish
        <3> QED BY <3>1, <3>2
    <2> QED BY <2>1, <2>2, <2>3
<1> QED BY <1>1, <1>2, <1>3, OneSlotMoves

\* Reminders and their job touch no cover.
LEMMA RingIsGood ==
    ASSUME Inv, NEW c \in Client, RingBegin(c) \/ RingTells(c) \/ RingMarks(c)
    PROVE  Inv'
<1>1. TimersTypeOK'
    <2>1. CASE RingBegin(c) \/ RingTells(c)
        BY <2>1 DEF Inv, TimersTypeOK, RingBegin, RingTells, calendar, covers, notices
    <2>2. CASE RingMarks(c)
        <3>1. /\ \/ UNCHANGED reminder
                 \/ \E r : There(r) /\ reminder' = [reminder EXCEPT ![r].notified = TRUE]
              /\ UNCHANGED <<calendar, covers>>
            BY <2>2 DEF RingMarks
        <3>2. UNCHANGED reminder => TimersTypeOK'
            BY <3>1 DEF Inv, TimersTypeOK, calendar, covers
        <3>3. ASSUME NEW r, There(r), reminder' = [reminder EXCEPT ![r].notified = TRUE]
              PROVE  TimersTypeOK'
            BY <3>1, <3>3 DEF Inv, TimersTypeOK, calendar, covers
        <3> QED BY <3>1, <3>2, <3>3
    <2> QED BY <2>1, <2>2
<1>2. UNCHANGED covers
    BY DEF RingBegin, RingTells, RingMarks
<1>3. PICK h : inflight' = [inflight EXCEPT ![c] = h] /\ HandlerOK(h)
    <2>1. CASE RingBegin(c)
        <3> DEFINE h == [op |-> "ring", told |-> {},
                         todo |-> {<<r, reminder[r].at>> : r \in {x \in Reminder : Rings(x)}}]
        <3>1. HandlerOK(h)
            BY DEF HandlerOK
        <3>2. inflight' = [inflight EXCEPT ![c] = h]
            BY <2>1 DEF RingBegin, Start
        <3> QED BY <3>1, <3>2
    <2>2. CASE RingTells(c)
        <3>1. HandlerOK(inflight[c]) /\ inflight[c].op = "ring"
            BY <2>2 DEF Inv, HandlersOK, RingTells, Running
        <3>2. PICK n : inflight' = [inflight EXCEPT ![c] =
                          [inflight[c] EXCEPT !.told = {n}, !.todo = inflight[c].todo \ {n}]]
            BY <2>2 DEF RingTells, Becomes
        <3>3. HandlerOK([inflight[c] EXCEPT !.told = {n}, !.todo = inflight[c].todo \ {n}])
            BY <3>1 DEF HandlerOK
        <3> QED BY <3>2, <3>3
    <2>3. CASE RingMarks(c)
        <3>1. HandlerOK(inflight[c]) /\ inflight[c].op = "ring"
            BY <2>3 DEF Inv, HandlersOK, RingMarks, Running
        <3>2. \/ inflight' = [inflight EXCEPT ![c] = NoHandler]
              \/ inflight' = [inflight EXCEPT ![c] = [inflight[c] EXCEPT !.told = {}]]
            BY <2>3 DEF RingMarks, Becomes, Finish
        <3>3. HandlerOK(NoHandler) /\ HandlerOK([inflight[c] EXCEPT !.told = {}])
            BY <3>1 DEF HandlerOK, NoHandler
        <3> QED BY <3>2, <3>3
    <2> QED BY <2>1, <2>2, <2>3
<1> QED BY <1>1, <1>2, <1>3, OneSlotMoves

\* A holiday or a return that begins knows everyone it is about.
LEMMA HolidayBeginsGood ==
    ASSUME Inv, NEW c \in Client,
           \/ HolidaysBegin(c) \/ HolidayNext(c)
           \/ \E m \in Manager : ReturnBegin(c, m)
           \/ \E m, sub \in Manager, until \in Day : LeaveBegin(c, m, sub, until)
    PROVE  Inv'
<1>1. TimersTypeOK'
    BY DEF Inv, TimersTypeOK, HolidaysBegin, HolidayNext, ReturnBegin, LeaveBegin,
           calendar, covers, notices
<1>2. UNCHANGED covers
    BY DEF HolidaysBegin, HolidayNext, ReturnBegin, LeaveBegin
<1>3. \A m \in Manager, rest \in SUBSET Manager : HandlerOK(Back(m, rest)) /\ HandlerOK(ListOf(rest))
    BY DEF HandlerOK, Back, ListOf, Lists, Returns, Waiting, NoHandler
<1>4. PICK h : inflight' = [inflight EXCEPT ![c] = h] /\ HandlerOK(h)
    <2>1. CASE HolidaysBegin(c)
        <3> DEFINE h == [op |-> "holidays", todo |-> Ended]
        <3>1. HandlerOK(h)
            BY DEF HandlerOK, Ended, Lists
        <3>2. inflight' = [inflight EXCEPT ![c] = h]
            BY <2>1 DEF HolidaysBegin, Start
        <3> QED BY <3>1, <3>2
    <2>2. CASE HolidayNext(c)
        <3>1. inflight[c] \in Lists
            BY <2>2 DEF Inv, HandlersOK, HandlerOK, HolidayNext, Running
        <3>2. PICK m \in inflight[c].todo :
                 inflight' = [inflight EXCEPT ![c] =
                     IF away[m] = None THEN ListOf(inflight[c].todo \ {m})
                                       ELSE Back(m, inflight[c].todo \ {m})]
            BY <2>2 DEF HolidayNext, Becomes
        <3>3. m \in Manager /\ inflight[c].todo \ {m} \in SUBSET Manager
            BY <3>1, <3>2 DEF Lists
        <3> QED BY <1>3, <3>2, <3>3
    <2>3. CASE \E m \in Manager : ReturnBegin(c, m)
        BY <1>3, <2>3 DEF ReturnBegin, Start
    <2>4. CASE \E m, sub \in Manager, until \in Day : LeaveBegin(c, m, sub, until)
        <3>1. PICK m, sub \in Manager, until \in Day : LeaveBegin(c, m, sub, until)
            BY <2>4
        <3> DEFINE h == [op |-> "leave", manager |-> m, sub |-> sub, until |-> until,
                         workers |-> {w \in Worker : manager[w] = m /\ home[w] = None}]
        <3>2. HandlerOK(h)
            BY DEF HandlerOK, Leaves
        <3>3. inflight' = [inflight EXCEPT ![c] = h]
            BY <3>1 DEF LeaveBegin, Start
        <3> QED BY <3>2, <3>3
    <2> QED BY <2>1, <2>2, <2>3, <2>4
<1> QED BY <1>1, <1>2, <1>4, OneSlotMoves

\* Reminders, deadlines and the clock touch neither covers nor handlers.
LEMMA OfficeIsGood ==
    ASSUME Inv,
           \/ \E r \in Reminder, at \in Day : AddReminder(r, at)
           \/ \E r \in Reminder, done \in BOOLEAN : PatchReminder(r, done)
           \/ \E r \in Reminder : DeleteReminder(r)
           \/ \E w \in Worker, day \in Day : MoveDeadline(w, day)
           \/ \E w \in Worker : EndWork(w)
           \/ Dawn
    PROVE  Inv'
<1>1. UNCHANGED <<covers, inflight>>
    BY DEF AddReminder, PatchReminder, DeleteReminder, MoveDeadline, EndWork, Dawn
<1>2. TimersTypeOK'
    <2>1. ASSUME NEW r \in Reminder, NEW at \in Day, AddReminder(r, at) PROVE TimersTypeOK'
        BY <2>1 DEF AddReminder, Inv, TimersTypeOK, calendar, covers
    <2>2. ASSUME NEW r \in Reminder, NEW done \in BOOLEAN, PatchReminder(r, done)
          PROVE  TimersTypeOK'
        <3> DEFINE Rows == [state : {"unwritten", "there", "deleted"}, at : Day,
                            done : BOOLEAN, notified : BOOLEAN]
        <3>1. reminder[r] \in Rows
            BY DEF Inv, TimersTypeOK
        <3>2. PICK row \in Rows : reminder' = [reminder EXCEPT ![r] = row]
            <4>1. CASE reminder' = [reminder EXCEPT ![r].done = done]
                BY <3>1, <4>1
            <4>2. CASE \E at \in Day : reminder' =
                          [reminder EXCEPT ![r] = MovedTo([@ EXCEPT !.done = done], at)]
                BY <3>1, <4>2 DEF MovedTo
            <4> QED BY <2>2, <4>1, <4>2 DEF PatchReminder
        <3>3. reminder' \in [Reminder -> Rows]
            BY <3>2 DEF Inv, TimersTypeOK
        <3> QED BY <2>2, <3>3 DEF PatchReminder, Inv, TimersTypeOK, calendar, covers
    <2>3. ASSUME NEW r \in Reminder, DeleteReminder(r) PROVE TimersTypeOK'
        BY <2>3 DEF DeleteReminder, Inv, TimersTypeOK, calendar, covers
    <2>4. ASSUME NEW w \in Worker, NEW day \in Day, MoveDeadline(w, day) PROVE TimersTypeOK'
        BY <2>4 DEF MoveDeadline, Inv, TimersTypeOK, covers, notices
    <2>5. ASSUME NEW w \in Worker, EndWork(w) PROVE TimersTypeOK'
        BY <2>5 DEF EndWork, Inv, TimersTypeOK, covers, notices
    <2>6. ASSUME Dawn PROVE TimersTypeOK'
        BY <2>6, TimersAssumption DEF Dawn, Inv, TimersTypeOK, covers, notices, Day
    <2> QED BY <2>1, <2>2, <2>3, <2>4, <2>5, <2>6
<1> QED BY <1>1, <1>2, NoSlotMoves

-----------------------------------------------------------------------------
\* Every step keeps the invariant.
LEMMA StepIsGood == ASSUME Inv, [TimersNext]_timersVars PROVE Inv'
<1>1. CASE UNCHANGED timersVars
    <2>1. TimersTypeOK' /\ UNCHANGED <<covers, inflight>>
        BY <1>1 DEF timersVars, Inv, TimersTypeOK, calendar, covers, notices
    <2> QED BY <2>1, NoSlotMoves
<1>2. ASSUME NEW c \in Client, LeaveCommit(c) PROVE Inv'
    BY <1>2, LeaveIsGood
<1>3. ASSUME NEW c \in Client, BackCommit(c) PROVE Inv'
    BY <1>3, BackIsGood
<1>4. ASSUME NEW c \in Client, TickBegin(c) \/ TickTells(c) \/ Dies(c) PROVE Inv'
    BY <1>4, TickIsGood
<1>5. ASSUME NEW c \in Client, RingBegin(c) \/ RingTells(c) \/ RingMarks(c) PROVE Inv'
    BY <1>5, RingIsGood
<1>6. ASSUME NEW c \in Client,
             \/ HolidaysBegin(c) \/ HolidayNext(c)
             \/ \E m \in Manager : ReturnBegin(c, m)
             \/ \E m, sub \in Manager, until \in Day : LeaveBegin(c, m, sub, until)
      PROVE  Inv'
    BY <1>6, HolidayBeginsGood
<1>7. ASSUME NEW w \in Worker, NEW m \in Manager \cup {None}, AssignManager(w, m) PROVE Inv'
    BY <1>7, AssignIsGood
<1>8. ASSUME \/ \E r \in Reminder, at \in Day : AddReminder(r, at)
             \/ \E r \in Reminder, done \in BOOLEAN : PatchReminder(r, done)
             \/ \E r \in Reminder : DeleteReminder(r)
             \/ \E w \in Worker, day \in Day : MoveDeadline(w, day)
             \/ \E w \in Worker : EndWork(w)
             \/ Dawn
      PROVE  Inv'
    BY <1>8, OfficeIsGood
<1> QED BY <1>1, <1>2, <1>3, <1>4, <1>5, <1>6, <1>7, <1>8 DEF TimersNext, GoesOn

\* The inductive invariant holds in every state that can be reached.
LEMMA AlwaysGood == TimersSpec => []Inv
<1>1. TimersInit => Inv BY InitIsGood
<1>2. Inv /\ [TimersNext]_timersVars => Inv' BY StepIsGood
<1> QED BY <1>1, <1>2, PTL DEF TimersSpec

(***************************************************************************)
(* The rows of workers, managers, works and reminders keep their types.    *)
(***************************************************************************)
THEOREM TimersTypes == TimersSpec => []TimersTypeOK
<1>1. Inv => TimersTypeOK BY DEF Inv
<1> QED BY <1>1, AlwaysGood, PTL

(***************************************************************************)
(* Nobody waits for a manager who is back: comeBack, endHolidays, goAway   *)
(* and assignManager overlap as they like, unless the return from one      *)
(* holiday was overtaken by the next.                                      *)
(***************************************************************************)
THEOREM CoversHaveHolidays == TimersSpec => []CoverHasHoliday
<1>1. Inv => CoverHasHoliday BY DEF Inv
<1> QED BY <1>1, AlwaysGood, PTL

-----------------------------------------------------------------------------
\* A ring in flight: what it still has to tell, and what it told and has not marked.
Notices == Reminder \X Day
RingState == [op : {"ring"}, told : SUBSET Notices, todo : SUBSET Notices]
RingOK(h) == h.op = "ring" => /\ h \in RingState
                              /\ \A n \in h.told : ToldFor(n[1], n[2])
RingInv == /\ \A c \in Client : RingOK(inflight[c])
           /\ MarkedWasTold

\* What was told stays told, so only the slot that moves has to be looked at.
LEMMA RingSlot ==
    ASSUME Inv, RingInv, bell \subseteq bell', missed \subseteq missed', MarkedWasTold',
           NEW c \in Client, NEW h, RingOK(h)',
           inflight' = [inflight EXCEPT ![c] = h]
    PROVE  RingInv'
<1>1. ASSUME NEW d \in Client PROVE RingOK(inflight[d])'
    <2>1. inflight'[d] = IF d = c THEN h ELSE inflight[d]
        BY DEF Inv, HandlersOK
    <2>2. PICK g : g = inflight[d] OBVIOUS
    <2>3. RingOK(g) BY <2>2 DEF RingInv
    <2>4. RingOK(g)'
        BY <2>3 DEF RingOK, ToldFor, RingState, Notices, Day
    <2>5. CASE d = c BY <2>1, <2>5 DEF RingOK, ToldFor, RingState, Notices, Day
    <2>6. CASE d # c BY <2>1, <2>2, <2>4, <2>6 DEF RingOK, ToldFor, RingState, Notices, Day
    <2> QED BY <2>5, <2>6
<1> QED BY <1>1 DEF RingInv

\* A step of something else: no notice, and no ring that was not there.
LEMMA OthersRing ==
    ASSUME RingInv, bell \subseteq bell', UNCHANGED <<reminder, missed>>,
           NEW H, inflight' = H,
           \A c \in Client : H[c] = inflight[c] \/ H[c].op # "ring"
    PROVE  RingInv'
<1>1. ASSUME NEW c \in Client PROVE RingOK(inflight[c])'
    <2>1. PICK h : h = H[c] OBVIOUS
    <2>2. h = inflight'[c] BY <2>1
    <2>3. RingOK(h)'
        <3>1. CASE h.op # "ring" BY <3>1 DEF RingOK
        <3>2. CASE H[c] = inflight[c]
            <4>1. RingOK(h) BY <2>1, <3>2 DEF RingInv
            <4> QED BY <4>1 DEF RingOK, ToldFor, RingState, Notices, Day
        <3> QED BY <2>1, <3>1, <3>2
    <2> QED BY <2>2, <2>3 DEF RingOK, ToldFor, RingState, Notices, Day
<1>2. MarkedWasTold'
    BY DEF RingInv, MarkedWasTold, ToldFor
<1> QED BY <1>1, <1>2 DEF RingInv

\* A ring begins with what is due, and has told nothing yet.
LEMMA RingBeginTells ==
    ASSUME Inv, RingInv, NEW c \in Client, RingBegin(c) PROVE RingInv'
<1>1. PICK due : due = {<<r, reminder[r].at>> : r \in {x \in Reminder : Rings(x)}} OBVIOUS
<1>2. PICK h : h = [op |-> "ring", told |-> {}, todo |-> due] OBVIOUS
<1>3. RingOK(h)'
    <2>1. due \subseteq Notices
        BY <1>1 DEF Inv, TimersTypeOK, Notices
    <2>2. h \in RingState /\ h.told = {}
        BY <1>2, <2>1 DEF RingState
    <2> QED BY <2>2 DEF RingOK, RingState, Notices, Day
<1>4. UNCHANGED <<reminder, bell, missed>>
    BY DEF RingBegin, notices
<1>5. MarkedWasTold'
    BY <1>4 DEF RingInv, MarkedWasTold, ToldFor
<1>6. inflight' = [inflight EXCEPT ![c] = h]
    BY <1>1, <1>2 DEF RingBegin, Start
<1> QED BY <1>3, <1>4, <1>5, <1>6, RingSlot

\* What it has in hand is in the bell then, or among the missed.
LEMMA RingTellsTells ==
    ASSUME Inv, RingInv, NEW c \in Client, RingTells(c) PROVE RingInv'
<1>1. PICK g : g = inflight[c] OBVIOUS
<1>2. g \in RingState
    BY <1>1 DEF RingInv, RingOK, RingTells, Running
<1>3. PICK n \in g.todo :
          /\ inflight' = [inflight EXCEPT ![c] = [g EXCEPT !.told = {n}, !.todo = g.todo \ {n}]]
          /\ \/ bell' = bell \cup {<<"rem", n[1], n[2]>>} /\ UNCHANGED missed
             \/ UNCHANGED bell /\ missed' = missed \cup {n}
    BY <1>1 DEF RingTells, Becomes
<1>4. n \in Notices /\ n = <<n[1], n[2]>>
    BY <1>2, <1>3 DEF RingState, Notices
<1>5. ToldFor(n[1], n[2])'
    BY <1>3, <1>4 DEF ToldFor
<1>6. PICK h : h = [g EXCEPT !.told = {n}, !.todo = g.todo \ {n}] OBVIOUS
<1>7. h \in RingState /\ h.told = {n}
    BY <1>2, <1>4, <1>6 DEF RingState
<1>8. RingOK(h)'
    BY <1>5, <1>7 DEF RingOK, RingState, Notices, Day
<1>9. bell \subseteq bell' /\ missed \subseteq missed' /\ UNCHANGED reminder
    BY <1>3 DEF RingTells
<1>10. MarkedWasTold'
    BY <1>9 DEF RingInv, MarkedWasTold, ToldFor
<1> QED BY <1>3, <1>6, <1>8, <1>9, <1>10, RingSlot

\* It marks what it told; a time it was moved to meanwhile counts as missed.
LEMMA RingMarksTold ==
    ASSUME Inv, RingInv, NEW c \in Client, RingMarks(c) PROVE RingInv'
<1>1. PICK g : g = inflight[c] OBVIOUS
<1>2. g \in RingState /\ \A n \in g.told : ToldFor(n[1], n[2])
    BY <1>1 DEF RingInv, RingOK, RingMarks, Running
<1>3. PICK n \in g.told :
          IF There(n[1])
          THEN /\ reminder' = [reminder EXCEPT ![n[1]].notified = TRUE]
               /\ missed' = IF reminder[n[1]].at = n[2] THEN missed
                            ELSE missed \cup {<<n[1], reminder[n[1]].at>>}
               /\ Becomes(c, IF g.todo = {} THEN NoHandler ELSE [g EXCEPT !.told = {}])
          ELSE Finish(c) /\ UNCHANGED <<reminder, missed>>
    BY <1>1 DEF RingMarks
<1>4. n[1] \in Reminder
    BY <1>2, <1>3 DEF RingState, Notices
<1>5. UNCHANGED bell /\ missed \subseteq missed'
    BY <1>3 DEF RingMarks
<1>6. PICK h : inflight' = [inflight EXCEPT ![c] = h] /\ RingOK(h)'
    <2>1. RingOK(NoHandler)' BY DEF RingOK, NoHandler
    <2>2. PICK k : k = [g EXCEPT !.told = {}] OBVIOUS
    <2>3. k \in RingState /\ k.told = {} BY <1>2, <2>2 DEF RingState
    <2>4. RingOK(k)' BY <2>3 DEF RingOK, RingState, Notices, Day
    <2>5. inflight' = [inflight EXCEPT ![c] = NoHandler] \/ inflight' = [inflight EXCEPT ![c] = k]
        BY <1>3, <2>2 DEF Becomes, Finish
    <2> QED BY <2>1, <2>4, <2>5
<1>7. MarkedWasTold'
    <2> SUFFICES ASSUME NEW r \in Reminder, reminder'[r].notified
                 PROVE  ToldFor(r, reminder[r].at)'
        BY DEF MarkedWasTold
    <2>1. CASE There(n[1]) /\ r = n[1]
        <3>1. reminder'[r].at = reminder[r].at
            BY <1>3, <2>1 DEF Inv, TimersTypeOK
        <3>2. ToldFor(r, n[2]) BY <1>2, <1>3, <2>1
        <3> QED BY <1>3, <1>5, <2>1, <3>1, <3>2 DEF ToldFor
    <2>2. CASE ~(There(n[1]) /\ r = n[1])
        <3>1. reminder'[r] = reminder[r]
            BY <1>3, <2>2 DEF Inv, TimersTypeOK
        <3> QED BY <1>5, <3>1 DEF RingInv, MarkedWasTold, ToldFor
    <2> QED BY <2>1, <2>2
<1> QED BY <1>5, <1>6, <1>7, RingSlot

\* Written, moved or deleted: who moves a reminder unmarks it.
LEMMA RowsKeepTold ==
    ASSUME Inv, RingInv, NEW r \in Reminder,
           \/ DeleteReminder(r)
           \/ \E at \in Day : AddReminder(r, at)
           \/ \E done \in BOOLEAN : PatchReminder(r, done)
    PROVE  RingInv'
<1>1. UNCHANGED <<bell, missed, inflight>>
    BY DEF DeleteReminder, AddReminder, PatchReminder
<1>2. /\ \A s \in Reminder : s # r => reminder'[s] = reminder[s]
      /\ reminder'[r].notified
            => reminder[r].notified /\ reminder'[r].at = reminder[r].at
    <2>1. CASE DeleteReminder(r)
        BY <2>1 DEF DeleteReminder, Inv, TimersTypeOK
    <2>2. ASSUME NEW at \in Day, AddReminder(r, at)
          PROVE  ~reminder'[r].notified /\ \A s \in Reminder : s # r => reminder'[s] = reminder[s]
        <3>1. PICK row : row = reminder[r] OBVIOUS
        <3>2. row = Unwritten BY <2>2, <3>1 DEF AddReminder
        <3>3. PICK new : new = [row EXCEPT !.state = "there", !.at = at] OBVIOUS
        <3>4. ~new.notified BY <3>2, <3>3 DEF Unwritten
        <3>5. reminder'[r] = new BY <2>2, <3>1, <3>3 DEF AddReminder, Inv, TimersTypeOK
        <3>6. \A s \in Reminder : s # r => reminder'[s] = reminder[s]
            BY <2>2 DEF AddReminder, Inv, TimersTypeOK
        <3> QED BY <3>4, <3>5, <3>6
    <2>3. ASSUME NEW done \in BOOLEAN, PatchReminder(r, done)
          PROVE  /\ \A s \in Reminder : s # r => reminder'[s] = reminder[s]
                 /\ \/ reminder'[r] = [reminder[r] EXCEPT !.done = done]
                    \/ ~reminder'[r].notified
        <3>1. CASE reminder' = [reminder EXCEPT ![r].done = done]
            BY <3>1 DEF Inv, TimersTypeOK
        <3>2. ASSUME NEW at \in Day,
                     reminder' = [reminder EXCEPT ![r] = MovedTo([@ EXCEPT !.done = done], at)]
              PROVE  ~reminder'[r].notified /\ \A s \in Reminder : s # r => reminder'[s] = reminder[s]
            <4>1. PICK row : row = [reminder[r] EXCEPT !.done = done] OBVIOUS
            <4>2. "notified" \in DOMAIN row BY <4>1 DEF Inv, TimersTypeOK
            <4>3. PICK new : new = MovedTo(row, at) OBVIOUS
            <4>4. ~new.notified BY <4>2, <4>3 DEF MovedTo
            <4>5. reminder' = [reminder EXCEPT ![r] = new] BY <3>2, <4>1, <4>3
            <4> QED BY <4>4, <4>5 DEF Inv, TimersTypeOK
        <3> QED BY <2>3, <3>1, <3>2 DEF PatchReminder
    <2>4. \A done \in BOOLEAN : reminder'[r] = [reminder[r] EXCEPT !.done = done]
              => reminder'[r].notified = reminder[r].notified /\ reminder'[r].at = reminder[r].at
        BY DEF Inv, TimersTypeOK
    <2> QED BY <2>1, <2>2, <2>3, <2>4
<1>3. MarkedWasTold'
    BY <1>1, <1>2 DEF RingInv, MarkedWasTold, ToldFor
<1>4. \A c \in Client : RingOK(inflight[c])'
    BY <1>1 DEF RingInv, RingOK, ToldFor, RingState, Notices, Day
<1> QED BY <1>3, <1>4 DEF RingInv

\* Every step keeps it.
LEMMA RingStep ==
    ASSUME Inv, RingInv, [TimersNext]_timersVars PROVE RingInv'
<1> DEFINE H == inflight'
<1>1. inflight = [c \in Client |-> inflight[c]] BY DEF Inv, HandlersOK
<1>2. CASE UNCHANGED timersVars
    BY <1>2, OthersRing DEF timersVars, notices
<1>3. ASSUME NEW c \in Client, NEW h, h.op # "ring", UNCHANGED notices,
             inflight' = [inflight EXCEPT ![c] = h]
      PROVE  RingInv'
    <2>1. \A d \in Client : inflight'[d] = inflight[d] \/ inflight'[d].op # "ring"
        BY <1>1, <1>3
    <2> QED BY <1>3, <2>1, OthersRing DEF notices
<1>4. ASSUME NEW c \in Client, GoesOn(c) PROVE RingInv'
    <2>1. CASE TickTells(c)
        <3>1. PICK n : Becomes(c, Rest(c, n)) BY <2>1 DEF TickTells
        <3>2. PICK h : h = Rest(c, n) OBVIOUS
        <3>3. h.op # "ring"
            BY <2>1, <3>2 DEF TickTells, Running, Rest, NoHandler
        <3>4. \A d \in Client : inflight'[d] = inflight[d] \/ inflight'[d].op # "ring"
            BY <1>1, <3>1, <3>2, <3>3 DEF Becomes
        <3>5. bell \subseteq bell' /\ UNCHANGED <<reminder, missed>>
            BY <2>1 DEF TickTells
        <3> QED BY <3>4, <3>5, OthersRing
    <2>2. CASE LeaveCommit(c)
        <3>1. \A d \in Client : inflight'[d] = inflight[d] \/ inflight'[d].op # "ring"
            <4> TAKE d \in Client
            <4>1. PICK g : g = inflight[d] OBVIOUS
            <4>2. PICK m : m = inflight[c].manager OBVIOUS
            <4>3. inflight'[d] = IF d = c THEN NoHandler ELSE Outdated(g, m)
                BY <2>2, <4>1, <4>2 DEF LeaveCommit
            <4>4. Outdated(g, m) = g \/ Outdated(g, m).op # "ring"
                BY DEF Outdated
            <4> QED BY <4>1, <4>3, <4>4 DEF NoHandler
        <3> QED BY <2>2, <3>1, OthersRing DEF LeaveCommit, notices
    <2>3. CASE HolidayNext(c)
        <3>1. PICK h : h.op # "ring" /\ inflight' = [inflight EXCEPT ![c] = h]
            BY <2>3 DEF HolidayNext, Becomes, ListOf, Back, NoHandler
        <3> QED BY <1>3, <2>3, <3>1 DEF HolidayNext
    <2>4. CASE BackCommit(c)
        <3>1. PICK h : h.op # "ring" /\ inflight' = [inflight EXCEPT ![c] = h]
            <4>1. PICK rest : Becomes(c, ListOf(rest)) BY <2>4 DEF BackCommit
            <4>2. PICK h : h = ListOf(rest) OBVIOUS
            <4>3. h.op # "ring" BY <4>2 DEF ListOf, NoHandler
            <4> QED BY <4>1, <4>2, <4>3 DEF Becomes
        <3> QED BY <1>3, <2>4, <3>1 DEF BackCommit
    <2> QED BY <1>4, <2>1, <2>2, <2>3, <2>4, RingTellsTells, RingMarksTold DEF GoesOn
<1>5. ASSUME NEW c \in Client,
             \/ TickBegin(c) \/ HolidaysBegin(c) \/ Dies(c)
             \/ \E m \in Manager :
                   \/ ReturnBegin(c, m)
                   \/ \E sub \in Manager, until \in Day : LeaveBegin(c, m, sub, until)
      PROVE  RingInv'
    <2>1. UNCHANGED notices
        BY <1>5 DEF TickBegin, HolidaysBegin, Dies, ReturnBegin, LeaveBegin
    <2>2. PICK h : h.op # "ring" /\ inflight' = [inflight EXCEPT ![c] = h]
        BY <1>5 DEF TickBegin, HolidaysBegin, Dies, ReturnBegin, LeaveBegin, Start, Back,
                    Abandon, Finish, NoHandler
    <2> QED BY <1>3, <2>1, <2>2
<1>6. ASSUME NEW w \in Worker,
             \/ EndWork(w)
             \/ \E m \in Manager \cup {None} : AssignManager(w, m)
             \/ \E day \in Day : MoveDeadline(w, day)
      PROVE  RingInv'
    <2>1. UNCHANGED <<notices, inflight>> BY <1>6 DEF EndWork, AssignManager, MoveDeadline
    <2> QED BY <2>1, OthersRing DEF notices
<1>7. CASE Dawn
    <2>1. UNCHANGED <<notices, inflight>> BY <1>7 DEF Dawn
    <2> QED BY <2>1, OthersRing DEF notices
<1> QED BY <1>2, <1>4, <1>5, <1>6, <1>7, RingBeginTells, RowsKeepTold DEF TimersNext

(***************************************************************************)
(* A reminder marked as told was told for the time it is set to, unless    *)
(* its notice was refused or it was moved in the hands of ring: jobs that  *)
(* overlap, die half-way, or meet a patch never mark one unheard.          *)
(***************************************************************************)
THEOREM MarkedRemindersWereTold == TimersSpec => []MarkedWasTold
<1>1. TimersInit => RingInv
    <2> SUFFICES ASSUME TimersInit PROVE RingInv OBVIOUS
    <2>1. \A c \in Client : RingOK(inflight[c])
        BY DEF TimersInit, HandlersInit, RingOK, NoHandler
    <2>2. \A r \in Reminder : ~reminder[r].notified
        BY DEF TimersInit, Unwritten, Deleted
    <2> QED BY <2>1, <2>2 DEF RingInv, MarkedWasTold
<1>2. Inv /\ RingInv /\ [TimersNext]_timersVars => RingInv' BY RingStep
<1>3. RingInv => MarkedWasTold BY DEF RingInv
<1> QED BY <1>1, <1>2, <1>3, AlwaysGood, PTL DEF TimersSpec
=============================================================================
