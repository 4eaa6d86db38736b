----------------------------- MODULE ChatProofs -----------------------------
(***************************************************************************)
(* Proofs about Chat and the room it is in.  The room's invariant is       *)
(* OneOwner with the types it needs; that of the messages follows a send   *)
(* from the request that asks for it to the row, and a scheduled one from  *)
(* the claim.                                                              *)
(***************************************************************************)
EXTENDS Chat, SequenceTheorems, TLAPS

\* What a request remembers of the room it changes.
RoomHandlersOK == /\ DOMAIN inflight = Client
                  /\ \A c \in Client : Running(c, "update") => inflight[c].change \in Change

RoomInv ==
    /\ kind \in {"DIRECT", "GROUP", "CHANNEL"}
    /\ members \in Seq(Person)
    /\ owner \subseteq Person /\ admins \subseteq Person
    /\ unattended \in BOOLEAN
    /\ OneOwner
    /\ RoomHandlersOK

(* Taking a member out of the room leaves the others, each once.           *)
LEMMA WithoutOK ==
    ASSUME RoomInv, NEW u \in Person
    PROVE  /\ Without(u) \in Seq(Person)
           /\ \A v : (\E i \in DOMAIN Without(u) : Without(u)[i] = v) <=> IsMember(v) /\ v # u
           /\ \A i, j \in DOMAIN Without(u) : Without(u)[i] = Without(u)[j] => i = j
<1>1. members \in Seq(Person) /\ \A i, j \in DOMAIN members : members[i] = members[j] => i = j
  BY DEF RoomInv, OneOwner
<1>2. CASE ~IsMember(u)
  BY <1>1, <1>2 DEF Without, IsMember
<1>3. CASE IsMember(u)
  <2>1. PICK k \in DOMAIN members : members[k] = u /\ Without(u) = SubSeq(members, 1, k - 1)
                                                      \o SubSeq(members, k + 1, Len(members))
    BY <1>3 DEF Without, Place, IsMember
  <2>2. k \in 1 .. Len(members) /\ Len(members) \in Nat BY <1>1
  <2>3. PICK left : left = SubSeq(members, 1, k - 1) OBVIOUS
  <2>4. PICK right : right = SubSeq(members, k + 1, Len(members)) OBVIOUS
  <2>5. left \in Seq(Person) /\ Len(left) = k - 1 /\ \A i \in 1 .. k - 1 : left[i] = members[i]
    BY <1>1, <2>2, <2>3, SubSeqProperties
  <2>6. /\ right \in Seq(Person) /\ Len(right) = Len(members) - k
        /\ \A i \in 1 .. Len(members) - k : right[i] = members[k + i]
    BY <1>1, <2>2, <2>4, SubSeqProperties
  <2>7. PICK w : w = left \o right OBVIOUS
  <2>8. /\ w \in Seq(Person) /\ Len(w) = Len(members) - 1
        /\ \A i \in 1 .. Len(members) - 1 : w[i] = IF i <= k - 1 THEN left[i] ELSE right[i - (k - 1)]
    BY <2>2, <2>5, <2>6, <2>7, ConcatProperties
  <2>9. \A i \in 1 .. Len(members) - 1 : w[i] = IF i < k THEN members[i] ELSE members[i + 1]
    <3>1. ASSUME NEW i \in 1 .. Len(members) - 1, i < k PROVE w[i] = members[i]
      BY <2>2, <2>5, <2>8, <3>1
    <3>2. ASSUME NEW i \in 1 .. Len(members) - 1, ~(i < k) PROVE w[i] = members[i + 1]
      <4>1. i - (k - 1) \in 1 .. Len(members) - k /\ k + (i - (k - 1)) = i + 1 BY <2>2, <3>2
      <4>2. w[i] = right[i - (k - 1)] BY <2>2, <2>8, <3>2
      <4> QED BY <2>6, <4>1, <4>2
    <3> QED BY <3>1, <3>2
  <2>10. DOMAIN w = 1 .. Len(members) - 1 BY <2>8
  <2>11. \A i, j \in DOMAIN w : w[i] = w[j] => i = j
    <3>1. PICK at \in [1 .. Len(members) - 1 -> 1 .. Len(members)] :
            \A i \in 1 .. Len(members) - 1 : at[i] = IF i < k THEN i ELSE i + 1
      <4>1. [i \in 1 .. Len(members) - 1 |-> IF i < k THEN i ELSE i + 1]
              \in [1 .. Len(members) - 1 -> 1 .. Len(members)]
        BY <2>2
      <4> QED BY <4>1
    <3>2. \A i \in 1 .. Len(members) - 1 : w[i] = members[at[i]] BY <2>9, <3>1
    <3>3. \A i, j \in 1 .. Len(members) - 1 : at[i] = at[j] => i = j BY <2>2, <3>1
    <3>4. \A i, j \in 1 .. Len(members) : members[i] = members[j] => i = j BY <1>1
    <3> QED BY <2>10, <3>1, <3>2, <3>3, <3>4
  <2>12. ASSUME NEW i \in DOMAIN w PROVE IsMember(w[i]) /\ w[i] # u
    <3>1. i \in 1 .. Len(members) - 1 BY <2>10, <2>12
    <3>2. PICK j \in 1 .. Len(members) : j # k /\ w[i] = members[j]
      BY <2>2, <2>9, <3>1
    <3>3. members[j] # members[k] BY <1>1, <2>2, <3>2
    <3>4. j \in DOMAIN members BY <1>1, <3>2
    <3> QED BY <2>1, <3>2, <3>3, <3>4 DEF IsMember
  <2>13. ASSUME NEW v, IsMember(v), v # u PROVE \E i \in DOMAIN w : w[i] = v
    <3>1. PICK j \in 1 .. Len(members) : members[j] = v BY <1>1, <2>13 DEF IsMember
    <3>2. CASE j < k
      <4>1. j \in 1 .. Len(members) - 1 /\ w[j] = v BY <2>2, <2>9, <3>1, <3>2
      <4> QED BY <2>10, <4>1
    <3>3. CASE j > k
      <4>1. j - 1 \in 1 .. Len(members) - 1 /\ ~(j - 1 < k) /\ (j - 1) + 1 = j
        BY <2>2, <3>1, <3>3
      <4>2. w[j - 1] = v BY <2>9, <3>1, <4>1
      <4> QED BY <2>10, <4>1, <4>2
    <3> QED BY <2>1, <2>2, <2>13, <3>1, <3>2, <3>3
  <2>14. Without(u) = w BY <2>1, <2>3, <2>4, <2>7
  <2>15. \A v : (\E i \in DOMAIN w : w[i] = v) <=> IsMember(v) /\ v # u BY <2>12, <2>13
  <2> QED BY <2>8, <2>11, <2>14, <2>15
<1> QED BY <1>2, <1>3

(* Every step of the room leaves it well-formed.                           *)
LEMMA RoomStep ==
    ASSUME RoomInv, RoomNext
    PROVE  RoomInv'
<1>0. /\ kind \in {"DIRECT", "GROUP", "CHANNEL"} /\ members \in Seq(Person)
      /\ owner \subseteq Person /\ admins \subseteq Person /\ unattended \in BOOLEAN
      /\ OneOwner /\ RoomHandlersOK
  BY DEF RoomInv
<1>1. ASSUME NEW c \in Client, NEW u \in Person, NEW change \in Change, UpdateBegin(c, u, change)
      PROVE  RoomInv'
  <2>1. PICK h : h = [op |-> "update", change |-> change] OBVIOUS
  <2>2. inflight' = [inflight EXCEPT ![c] = h] /\ h.change \in Change
    BY <1>1, <2>1 DEF UpdateBegin, Start
  <2>3. RoomHandlersOK' BY <1>0, <2>2 DEF RoomHandlersOK, Running
  <2> QED BY <1>0, <1>1, <2>3 DEF RoomInv, UpdateBegin, roomVars, OneOwner, IsMember
<1>2. ASSUME NEW c \in Client, UpdateCommit(c) PROVE RoomInv'
  <2>1. RoomHandlersOK'
    BY <1>0, <1>2 DEF RoomHandlersOK, Running, UpdateCommit, Finish, NoHandler
  <2>2. PICK who : who = inflight[c].change.who OBVIOUS
  <2>7. inflight[c].change.what # "write" => who \in Person
    BY <1>0, <1>2, <2>2 DEF RoomHandlersOK, UpdateCommit, Change
  <2>3. kind' = kind /\ unattended' = unattended BY <1>2 DEF UpdateCommit
  <2>4. CASE /\ who \in Person /\ members' = Joined(who) /\ owner' = owner
             /\ admins' \in {admins, admins \cup {who}}
    <3>1. /\ members' \in Seq(Person)
          /\ \A i, j \in DOMAIN members' : members'[i] = members'[j] => i = j
          /\ \A v : IsMember(v)' <=> IsMember(v) \/ v = who
      <4>1. CASE IsMember(who) BY <1>0, <2>4, <4>1 DEF Joined, OneOwner, IsMember
      <4>2. CASE ~IsMember(who)
        <5>1. members' = Append(members, who) BY <2>4, <4>2 DEF Joined
        <5>2. /\ members' \in Seq(Person) /\ Len(members') = Len(members) + 1
              /\ \A i \in 1 .. Len(members) : members'[i] = members[i]
              /\ members'[Len(members) + 1] = who
          BY <1>0, <2>4, <5>1
        <5>3. DOMAIN members' = 1 .. Len(members) + 1 /\ DOMAIN members = 1 .. Len(members)
              /\ Len(members) \in Nat
          BY <1>0, <5>2
        <5>4. \A i \in 1 .. Len(members) : members[i] # who BY <4>2, <5>3 DEF IsMember
        <5>5. \A i, j \in DOMAIN members' : members'[i] = members'[j] => i = j
          BY <1>0, <5>2, <5>3, <5>4 DEF OneOwner
        <5>6. \A v : IsMember(v)' <=> IsMember(v) \/ v = who
          BY <5>2, <5>3 DEF IsMember
        <5> QED BY <5>2, <5>5, <5>6
      <4> QED BY <4>1, <4>2
    <3> QED BY <1>0, <2>1, <2>3, <2>4, <3>1 DEF RoomInv, OneOwner
  <2>5. CASE /\ who \in Person \ owner /\ members' = Without(who)
             /\ owner' = owner \ {who} /\ admins' = admins \ {who}
    <3>1. /\ members' \in Seq(Person)
          /\ \A i, j \in DOMAIN members' : members'[i] = members'[j] => i = j
          /\ \A v : IsMember(v)' <=> IsMember(v) /\ v # who
      BY <2>5, WithoutOK DEF IsMember
    <3> QED BY <1>0, <2>1, <2>3, <2>5, <3>1 DEF RoomInv, OneOwner
  <2>6. CASE admins' \subseteq admins /\ members' = members /\ owner' = owner
    BY <1>0, <2>1, <2>3, <2>6 DEF RoomInv, OneOwner, IsMember
  <2> QED BY <1>2, <2>2, <2>4, <2>5, <2>6, <2>7 DEF UpdateCommit, Dismisses
<1>3. ASSUME NEW u \in Person, Leave(u) PROVE RoomInv'
  <2>1. RoomHandlersOK' BY <1>0, <1>3 DEF RoomHandlersOK, Running, Leave
  <2>2. /\ members' \in Seq(Person)
        /\ \A i, j \in DOMAIN members' : members'[i] = members'[j] => i = j
        /\ \A v : IsMember(v)' <=> IsMember(v) /\ v # u
    BY <1>3, WithoutOK DEF IsMember, Leave
  <2>3. admins' = admins \ {u} /\ kind' = kind /\ members' = Without(u)
        /\ unattended' = (unattended \/ Without(u) = <<>>)
    BY <1>3 DEF Leave
  <2>4. CASE Succeeds(u)
    <3>1. members' # <<>> /\ u \in owner BY <2>3, <2>4 DEF Succeeds
    <3>2. PICK next : next = Head(members') OBVIOUS
    <3>3. Len(members') \in Nat \ {0} /\ DOMAIN members' = 1 .. Len(members') /\ next = members'[1]
      BY <2>2, <3>1, <3>2
    <3>4. next \in Person /\ IsMember(next)' BY <2>2, <3>3 DEF IsMember
    <3>5. owner' = (owner \ {u}) \cup {next} BY <1>3, <2>3, <2>4, <3>2 DEF Leave
    <3>6. kind # "DIRECT" /\ ~unattended' => owner' = {next}
      BY <1>0, <2>3, <3>1, <3>5 DEF OneOwner
    <3>7. \A v \in owner' \cup admins' : IsMember(v)'
      BY <1>0, <2>2, <2>3, <3>4, <3>5 DEF OneOwner
    <3>8. OneOwner' BY <2>2, <2>3, <3>4, <3>6, <3>7 DEF OneOwner
    <3>9. owner' \subseteq Person /\ admins' \subseteq Person /\ unattended' \in BOOLEAN
      BY <1>0, <2>3, <3>4, <3>5
    <3> QED BY <1>0, <2>1, <2>2, <2>3, <3>8, <3>9 DEF RoomInv
  <2>5. CASE ~Succeeds(u)
    <3>1. owner' = owner \ {u} BY <1>3, <2>5 DEF Leave
    <3>2. u \notin owner \/ unattended' BY <2>3, <2>5 DEF Succeeds
    <3> QED BY <1>0, <2>1, <2>2, <2>3, <3>1, <3>2 DEF RoomInv, OneOwner
  <2> QED BY <2>4, <2>5
<1>4. ASSUME NEW u \in Person, AccountGone(u) PROVE RoomInv'
  <2>1. RoomHandlersOK' BY <1>0, <1>4 DEF RoomHandlersOK, Running, AccountGone
  <2>2. /\ members' \in Seq(Person)
        /\ \A i, j \in DOMAIN members' : members'[i] = members'[j] => i = j
        /\ \A v : IsMember(v)' <=> IsMember(v) /\ v # u
    BY <1>4, WithoutOK DEF IsMember, AccountGone
  <2>3. /\ owner' = owner \ {u} /\ admins' = admins \ {u} /\ kind' = kind
        /\ unattended' = (unattended \/ u \in owner)
    BY <1>4 DEF AccountGone
  <2>4. kind # "DIRECT" /\ ~unattended' => \E v \in Person : owner' = {v}
    <3>1. SUFFICES ASSUME kind # "DIRECT", ~unattended' PROVE \E v \in Person : owner' = {v}
      OBVIOUS
    <3>2. u \notin owner /\ ~unattended BY <1>0, <2>3, <3>1
    <3> QED BY <1>0, <2>3, <3>1, <3>2 DEF OneOwner
  <2>5. OneOwner' BY <1>0, <2>2, <2>3, <2>4 DEF OneOwner
  <2> QED BY <1>0, <2>1, <2>2, <2>3, <2>5 DEF RoomInv
<1> QED BY <1>1, <1>2, <1>3, <1>4 DEF RoomNext
-----------------------------------------------------------------------------
Posts == {k \in Send : Posted(k)}
Claimed == {k \in Send : later[k] = "claimed"}

\* What a request, or a run of the timer, remembers of the send it is about.
SendHandlerOK(h, posts, claimed) ==
    /\ h.op \in {"create", "deliver", "answer", "due"} =>
          h.send \in Send /\ h.due \subseteq {k \in Send : Way[k] = "later"}
    /\ h.op = "create" /\ Way[h.send] = "later" => h.send \in claimed
    /\ h.op \in {"deliver", "answer"} => h.send \in posts

SendHandlersOK == /\ DOMAIN inflight = Client
                  /\ \A c \in Client : SendHandlerOK(inflight[c], Posts, Claimed)

\* Where the sends stand: those of a bubble, and those of the timer.
SendsOK ==
    /\ DOMAIN bubble = Send /\ DOMAIN later = Send
    /\ \A k \in Send : /\ bubble[k] # "none" => Way[k] # "later"
                       /\ later[k] # "none" => Way[k] = "later"
    /\ SentIsPosted
    /\ \A k \in Send : Way[k] = "later" /\ Posted(k) => later[k] = "claimed"

LogOK == log \in Seq(Send) /\ PostedOnce

MessageInv == LogOK /\ SendsOK /\ SendHandlersOK

\* What a step of a message does to what requests rely on: rows stay, and so do claims.
Keeps == Posts \subseteq Posts' /\ Claimed \subseteq Claimed'

(* A step that hands slot c a handler that is right keeps all of them right. *)
LEMMA HandlerKept ==
    ASSUME SendHandlersOK, Keeps, NEW c \in Client, NEW h, inflight' = [inflight EXCEPT ![c] = h],
           SendHandlerOK(h, Posts', Claimed')
    PROVE  SendHandlersOK'
<1>1. PICK posts : posts = Posts' OBVIOUS
<1>2. PICK claimed : claimed = Claimed' OBVIOUS
<1>3. \A d \in Client : SendHandlerOK(inflight'[d], posts, claimed)
  BY <1>1, <1>2 DEF SendHandlersOK, SendHandlerOK, Keeps
<1> QED BY <1>1, <1>2, <1>3 DEF SendHandlersOK

(* A slot that is done remembers nothing.                                  *)
LEMMA SlotFreed ==
    ASSUME SendHandlersOK, Keeps, NEW c \in Client, Finish(c)
    PROVE  SendHandlersOK'
<1>1. SendHandlerOK(NoHandler, Posts', Claimed') BY DEF SendHandlerOK, NoHandler
<1> QED BY <1>1, HandlerKept DEF Finish

(* A send that is answered or created is remembered rightly.               *)
LEMMA AskedRightly ==
    ASSUME SendsOK, NEW k \in Send, NEW due \in SUBSET {x \in Send : Way[x] = "later"},
           Posts' = Posts, Way[k] = "later" => k \in Claimed', NEW h,
           h = [op |-> AnswerOrCreate(k), send |-> k, due |-> due]
    PROVE  SendHandlerOK(h, Posts', Claimed')
BY DEF SendHandlerOK, AnswerOrCreate, Posts

(* Slot c goes on with the same send, under another name.                  *)
LEMMA GoesOn ==
    ASSUME SendHandlersOK, Keeps, NEW c \in Client, NEW op \in {"due", "answer", "deliver"},
           inflight[c].op \in {"create", "deliver"}, Goes(c, op),
           op # "due" => inflight[c].send \in Posts'
    PROVE  SendHandlersOK'
<1>1. PICK h : h = [op |-> op, send |-> inflight[c].send, due |-> inflight[c].due] OBVIOUS
<1>2. inflight' = [inflight EXCEPT ![c] = h] BY <1>1 DEF Goes
<1>3. h.op = op /\ h.send = inflight[c].send /\ h.due = inflight[c].due BY <1>1
<1>4. SendHandlerOK(h, Posts', Claimed') BY <1>3 DEF SendHandlersOK, SendHandlerOK
<1> QED BY <1>2, <1>4, HandlerKept

(* What changes neither rows nor claims nor bubbles keeps the sends right.  *)
LEMMA Untouched ==
    ASSUME LogOK, SendsOK, UNCHANGED <<log, bubble, later>>
    PROVE  LogOK' /\ SendsOK' /\ Keeps /\ Posts' = Posts /\ Claimed' = Claimed
BY DEF LogOK, SendsOK, Keeps, Posts, Claimed, PostedOnce, SentIsPosted, Posted

(* A bubble moves on: nothing is posted by it, and only an answer about a  *)
(* row makes it leave.                                                     *)
LEMMA BubbleMoves ==
    ASSUME LogOK, SendsOK, NEW k \in Send, NEW to, bubble[k] # "none" \/ to = "none",
           bubble' = [bubble EXCEPT ![k] = to], to = "gone" => Posted(k), UNCHANGED <<log, later>>
    PROVE  LogOK' /\ SendsOK' /\ Keeps /\ Posts' = Posts /\ Claimed' = Claimed
BY DEF LogOK, SendsOK, Keeps, Posts, Claimed, PostedOnce, SentIsPosted, Posted

(* A scheduled send moves on; once it is claimed it stays so.              *)
LEMMA TimerMoves ==
    ASSUME LogOK, SendsOK, NEW k \in Send, later[k] \in {"draft", "waiting"}, NEW to,
           later' = [later EXCEPT ![k] = to], UNCHANGED <<log, bubble>>
    PROVE  LogOK' /\ SendsOK' /\ Keeps /\ Posts' = Posts
<1>1. Posts' = Posts BY DEF Posts, Posted
<1>2. Claimed \subseteq Claimed' BY DEF Claimed, SendsOK
<1>3. ~(Way[k] = "later" /\ Posted(k)) /\ Way[k] = "later" BY DEF SendsOK
<1>4. SendsOK' BY <1>3 DEF SendsOK, SentIsPosted, Posted
<1> QED BY <1>1, <1>2, <1>4 DEF LogOK, PostedOnce, Keeps

(* The requests of people, and the timer.                                  *)
LEMMA AskStep ==
    ASSUME MessageInv, NEW c \in Client, NEW k \in Send, Post(c, k) \/ CompleteUpload(c, k)
    PROVE  MessageInv'
<1>0. LogOK /\ SendsOK /\ SendHandlersOK BY DEF MessageInv
<1>1. /\ bubble[k] # "none" /\ bubble' = [bubble EXCEPT ![k] = "sending"] /\ UNCHANGED <<log, later>>
      /\ Start(c, [op |-> AnswerOrCreate(k), send |-> k, due |-> {}])
  BY DEF Post, CompleteUpload
<1>2. PICK to : to = "sending" OBVIOUS
<1>3. LogOK' /\ SendsOK' /\ Keeps /\ Posts' = Posts /\ Claimed' = Claimed
  BY <1>0, <1>1, <1>2, BubbleMoves
<1>4. PICK h : h = [op |-> AnswerOrCreate(k), send |-> k, due |-> {}] OBVIOUS
<1>5. Way[k] # "later" BY <1>0, <1>1 DEF SendsOK
<1>6. SendHandlerOK(h, Posts', Claimed') BY <1>0, <1>3, <1>4, <1>5, AskedRightly
<1>7. SendHandlersOK' BY <1>0, <1>1, <1>3, <1>4, <1>6, HandlerKept DEF Start
<1> QED BY <1>3, <1>7 DEF MessageInv

(* A run of the timer reads what is due and claims it, one by one.         *)
LEMMA DueStep ==
    ASSUME MessageInv, NEW c \in Client,
           SendDue(c) \/ DueEnds(c) \/ \E k \in Send : ClaimDue(c, k)
    PROVE  MessageInv'
<1>0. LogOK /\ SendsOK /\ SendHandlersOK BY DEF MessageInv
<1>1. CASE SendDue(c)
  <2>1. LogOK' /\ SendsOK' /\ Keeps /\ Posts' = Posts /\ Claimed' = Claimed
    BY <1>0, <1>1, Untouched DEF SendDue, messageVars
  <2>2. PICK any \in Send : any = CHOOSE k \in Send : TRUE BY <1>1 DEF SendDue
  <2>3. PICK h : h = [op |-> "due", send |-> any, due |-> {k \in Send : later[k] = "waiting"}]
    OBVIOUS
  <2>4. inflight' = [inflight EXCEPT ![c] = h] BY <1>1, <2>2, <2>3 DEF SendDue, Start
  <2>5. SendHandlerOK(h, Posts', Claimed') BY <1>0, <2>3 DEF SendHandlerOK, SendsOK
  <2> QED BY <1>0, <2>1, <2>4, <2>5, HandlerKept DEF MessageInv
<1>2. CASE DueEnds(c)
  <2>1. LogOK' /\ SendsOK' /\ Keeps BY <1>0, <1>2, Untouched DEF DueEnds, messageVars
  <2> QED BY <1>0, <1>2, <2>1, SlotFreed DEF MessageInv, DueEnds
<1>3. ASSUME NEW k \in Send, ClaimDue(c, k) PROVE MessageInv'
  <2>1. /\ inflight[c].op = "due" /\ Way[k] = "later"
        /\ inflight[c].send \in Send
        /\ inflight[c].due \ {k} \in SUBSET {x \in Send : Way[x] = "later"}
    BY <1>0, <1>3 DEF ClaimDue, Running, SendHandlersOK, SendHandlerOK
  <2>2. LogOK' /\ SendsOK' /\ Keeps /\ Posts' = Posts
    <3>1. CASE later[k] = "waiting"
      <4>1. PICK to : to = "claimed" OBVIOUS
      <4>2. later' = [later EXCEPT ![k] = to] /\ UNCHANGED <<log, bubble>>
        BY <1>3, <3>1, <4>1 DEF ClaimDue
      <4> QED BY <1>0, <3>1, <4>2, TimerMoves
    <3>2. CASE later[k] # "waiting" BY <1>0, <1>3, <3>2, Untouched DEF ClaimDue
    <3> QED BY <3>1, <3>2
  <2>3. CASE Claims(k) /\ CanWrite(Sender[k])
    <3>1. PICK h : h = [op |-> AnswerOrCreate(k), send |-> k, due |-> inflight[c].due \ {k}] OBVIOUS
    <3>2. inflight' = [inflight EXCEPT ![c] = h] /\ later' = [later EXCEPT ![k] = "claimed"]
      BY <1>3, <2>3, <3>1 DEF ClaimDue, Claims
    <3>3. k \in Claimed' BY <1>0, <3>2 DEF Claimed, SendsOK
    <3>4. SendHandlerOK(h, Posts', Claimed') BY <1>0, <2>1, <2>2, <3>1, <3>3, AskedRightly
    <3> QED BY <1>0, <2>2, <3>2, <3>4, HandlerKept DEF MessageInv
  <2>4. CASE ~(Claims(k) /\ CanWrite(Sender[k]))
    <3>1. PICK h : h = [op |-> "due", send |-> inflight[c].send, due |-> inflight[c].due \ {k}] OBVIOUS
    <3>2. inflight' = [inflight EXCEPT ![c] = h] BY <1>3, <2>4, <3>1 DEF ClaimDue
    <3>3. SendHandlerOK(h, Posts', Claimed') BY <2>1, <3>1 DEF SendHandlerOK
    <3> QED BY <1>0, <2>2, <3>2, <3>3, HandlerKept DEF MessageInv
  <2> QED BY <2>3, <2>4
<1> QED BY <1>1, <1>2, <1>3

(* The row is inserted, delivered and answered; or it never is.            *)
LEMMA StoreStep ==
    ASSUME MessageInv, NEW c \in Client,
           Create(c) \/ CreateFails(c) \/ Deliver(c) \/ Answer(c) \/ Dies(c)
    PROVE  MessageInv'
<1>0. LogOK /\ SendsOK /\ SendHandlersOK /\ SendHandlerOK(inflight[c], Posts, Claimed)
  BY DEF MessageInv, SendHandlersOK
<1>1. CASE Create(c)
  <2>1. PICK k \in Send : /\ k = inflight[c].send /\ inflight[c].op = "create" /\ Unposted(k)
                          /\ log' = Append(log, k)
                          /\ inflight[c].due \subseteq {x \in Send : Way[x] = "later"}
                          /\ Way[k] = "later" => later[k] = "claimed"
    BY <1>0, <1>1 DEF Create, Running, SendHandlerOK, Claimed
  <2>2. UNCHANGED <<bubble, later>> BY <1>1 DEF Create
  <2>3. /\ log \in Seq(Send) /\ log' \in Seq(Send) /\ Len(log') = Len(log) + 1
        /\ \A i \in 1 .. Len(log) : log'[i] = log[i]
        /\ log'[Len(log) + 1] = k
    BY <1>0, <2>1 DEF LogOK
  <2>4. DOMAIN log = 1 .. Len(log) /\ DOMAIN log' = 1 .. Len(log) + 1 /\ Len(log) \in Nat BY <2>3
  <2>5. \A i \in 1 .. Len(log) : log[i] # k BY <2>1, <2>4 DEF Unposted, Posted
  <2>6. LogOK' BY <1>0, <2>3, <2>4, <2>5 DEF LogOK, PostedOnce
  <2>7. \A x \in Send : Posted(x)' <=> Posted(x) \/ x = k BY <2>3, <2>4 DEF Posted
  <2>8. SendsOK' BY <1>0, <2>1, <2>2, <2>7 DEF SendsOK, SentIsPosted
  <2>9. Keeps /\ k \in Posts' BY <2>2, <2>7 DEF Keeps, Posts, Claimed
  <2>10. PICK h : h = [op |-> "deliver", send |-> k, due |-> inflight[c].due] OBVIOUS
  <2>11. inflight' = [inflight EXCEPT ![c] = h] BY <1>1, <2>1, <2>10 DEF Create
  <2>12. SendHandlerOK(h, Posts', Claimed') BY <2>1, <2>9, <2>10 DEF SendHandlerOK
  <2> QED BY <1>0, <2>6, <2>8, <2>9, <2>11, <2>12, HandlerKept DEF MessageInv
<1>2. CASE CreateFails(c)
  <2>1. LogOK' /\ SendsOK' /\ Keeps BY <1>0, <1>2, Untouched DEF CreateFails
  <2>2. inflight[c].op = "create" BY <1>2 DEF CreateFails, Running
  <2>3. CASE Goes(c, "due") BY <1>0, <2>1, <2>2, <2>3, GoesOn DEF MessageInv
  <2>4. CASE Finish(c) BY <1>0, <2>1, <2>4, SlotFreed DEF MessageInv
  <2> QED BY <1>2, <2>3, <2>4 DEF CreateFails
<1>3. CASE Deliver(c)
  <2>1. LogOK' /\ SendsOK' /\ Keeps BY <1>0, <1>3, Untouched DEF Deliver
  <2>2. inflight[c].op = "deliver" /\ inflight[c].send \in Posts'
    BY <1>0, <1>3, <2>1 DEF Deliver, Running, SendHandlerOK, Keeps
  <2>3. CASE Goes(c, "due") BY <1>0, <2>1, <2>2, <2>3, GoesOn DEF MessageInv
  <2>4. CASE Goes(c, "answer") BY <1>0, <2>1, <2>2, <2>4, GoesOn DEF MessageInv
  <2> QED BY <1>3, <2>3, <2>4 DEF Deliver
<1>4. CASE Answer(c)
  <2>1. PICK k \in Send : k = inflight[c].send /\ Posted(k)
    BY <1>0, <1>4 DEF Answer, Running, SendHandlerOK, Posts
  <2>2. PICK to : to = IF bubble[k] = "sending" THEN "gone" ELSE bubble[k] OBVIOUS
  <2>3. bubble' = [bubble EXCEPT ![k] = to] /\ UNCHANGED <<log, later>>
    BY <1>4, <2>1, <2>2 DEF Answer
  <2>4. LogOK' /\ SendsOK' /\ Keeps BY <1>0, <2>1, <2>2, <2>3, BubbleMoves
  <2> QED BY <1>0, <1>4, <2>4, SlotFreed DEF MessageInv, Answer
<1>5. CASE Dies(c)
  <2>1. LogOK' /\ SendsOK' /\ Keeps BY <1>0, <1>5, Untouched DEF Dies, messageVars
  <2> QED BY <1>0, <1>5, <2>1, SlotFreed DEF MessageInv, Dies, Abandon
<1> QED BY <1>1, <1>2, <1>3, <1>4, <1>5

(* What happens outside the requests: parts, failures, ✕, the sweep.       *)
LEMMA BesideStep ==
    ASSUME MessageInv, NEW k \in Send,
           \/ StartUpload(k) \/ Schedule(k) \/ Unschedule(k) \/ SendFails(k) \/ Cancel(k)
           \/ SweepUploads(k) \/ \E part \in Part : PutPart(k, part)
    PROVE  MessageInv'
<1>0. LogOK /\ SendsOK /\ SendHandlersOK BY DEF MessageInv
<1>1. LogOK' /\ SendsOK' /\ Keeps
  <2>1. CASE Schedule(k) \/ Unschedule(k)
    <3>1. PICK to : later' = [later EXCEPT ![k] = to] BY <2>1 DEF Schedule, Unschedule
    <3> QED BY <1>0, <2>1, <3>1, TimerMoves DEF Schedule, Unschedule
  <2>2. CASE StartUpload(k) \/ SendFails(k) \/ Cancel(k)
    <3>1. PICK to : bubble' = [bubble EXCEPT ![k] = to] /\ (to = "gone" => Posted(k))
      BY <2>2 DEF StartUpload, SendFails, Cancel
    <3>2. bubble[k] # "none" /\ UNCHANGED <<log, later>> BY <2>2 DEF StartUpload, SendFails, Cancel
    <3> QED BY <1>0, <3>1, <3>2, BubbleMoves
  <2>3. CASE SweepUploads(k) \/ \E part \in Part : PutPart(k, part)
    BY <1>0, <2>3, Untouched DEF SweepUploads, PutPart
  <2> QED BY <2>1, <2>2, <2>3
<1>2. inflight' = inflight
  BY DEF StartUpload, Schedule, Unschedule, SendFails, Cancel, SweepUploads, PutPart
<1>3. SendHandlersOK'
  <2>1. PICK posts : posts = Posts' OBVIOUS
  <2>2. PICK claimed : claimed = Claimed' OBVIOUS
  <2>3. \A d \in Client : SendHandlerOK(inflight[d], posts, claimed)
    BY <1>0, <1>1, <2>1, <2>2 DEF SendHandlersOK, SendHandlerOK, Keeps
  <2> QED BY <1>0, <1>2, <2>1, <2>2, <2>3 DEF SendHandlersOK
<1> QED BY <1>1, <1>3 DEF MessageInv

(* A change of the room is not about a message.                            *)
LEMMA RoomKeepsMessages ==
    ASSUME MessageInv, RoomNext, UNCHANGED messageVars
    PROVE  MessageInv'
<1>0. LogOK /\ SendsOK /\ SendHandlersOK BY DEF MessageInv
<1>1. LogOK' /\ SendsOK' /\ Keeps /\ Posts' = Posts /\ Claimed' = Claimed
  BY <1>0, Untouched DEF messageVars
<1>2. ASSUME NEW c \in Client, NEW u \in Person, NEW change \in Change, UpdateBegin(c, u, change)
      PROVE  SendHandlersOK'
  <2>1. PICK h : h = [op |-> "update", change |-> change] OBVIOUS
  <2>2. inflight' = [inflight EXCEPT ![c] = h] BY <1>2, <2>1 DEF UpdateBegin, Start
  <2>3. SendHandlerOK(h, Posts', Claimed') BY <2>1 DEF SendHandlerOK
  <2> QED BY <1>0, <1>1, <2>2, <2>3, HandlerKept
<1>3. ASSUME NEW c \in Client, UpdateCommit(c) PROVE SendHandlersOK'
  BY <1>0, <1>1, <1>3, SlotFreed DEF UpdateCommit
<1>4. ASSUME inflight' = inflight PROVE SendHandlersOK'
  BY <1>0, <1>1, <1>4 DEF SendHandlersOK
<1> QED BY <1>1, <1>2, <1>3, <1>4 DEF RoomNext, MessageInv, Leave, AccountGone

(* What people send does not change who is in the room.                    *)
LEMMA MessagesKeepRoom ==
    ASSUME RoomInv, UNCHANGED roomVars,
           \/ UNCHANGED inflight
           \/ \E c \in Client : \E h : inflight' = [inflight EXCEPT ![c] = h] /\ h.op # "update"
    PROVE  RoomInv'
<1>1. RoomHandlersOK' BY DEF RoomInv, RoomHandlersOK, Running
<1> QED BY <1>1 DEF RoomInv, OneOwner, IsMember, roomVars

Inv == RoomInv /\ MessageInv

(* The room and the messages start well, in a chat of any kind.            *)
LEMMA InvInit ==
    ASSUME ChatInit
    PROVE  Inv
<1>1. RoomHandlersOK /\ SendHandlersOK
  BY DEF ChatInit, HandlersInit, RoomHandlersOK, SendHandlersOK, SendHandlerOK, NoHandler, Running
<1>2. /\ DOMAIN members = {1, 2} /\ members[1] \in Person /\ members[2] \in Person
      /\ members[1] # members[2] /\ members \in Seq(Person)
  <2>1. members \in [{1, 2} -> Person] /\ members[1] # members[2] BY DEF ChatInit, RoomInit
  <2>2. {1, 2} = 1 .. 2 OBVIOUS
  <2>3. members \in [1 .. 2 -> Person] BY <2>1, <2>2
  <2>4. <<members[1], members[2]>> \in Seq(Person) BY <2>1
  <2>5. <<members[1], members[2]>> = [i \in 1 .. 2 |-> members[i]] OBVIOUS
  <2>6. [i \in 1 .. 2 |-> members[i]] = members BY <2>3
  <2>7. members \in Seq(Person) BY <2>4, <2>5, <2>6
  <2> QED BY <2>1, <2>7
<1>3. /\ kind \in {"DIRECT", "GROUP", "CHANNEL"} /\ unattended = FALSE
      /\ owner = IF kind = "DIRECT" THEN {} ELSE {members[1]}
      /\ admins = IF kind = "CHANNEL" THEN {members[1]} ELSE {}
  BY DEF ChatInit, RoomInit
<1>4. RoomInv BY <1>1, <1>2, <1>3 DEF RoomInv, OneOwner, IsMember
<1>5. LogOK /\ \A k \in Send : ~Posted(k) BY DEF ChatInit, LogOK, PostedOnce, Posted
<1>6. SendsOK BY <1>5 DEF ChatInit, SendsOK, SentIsPosted
<1> QED BY <1>1, <1>4, <1>5, <1>6 DEF Inv, MessageInv

(* Every step of the chat keeps both.                                      *)
LEMMA InvNext ==
    ASSUME Inv, [ChatNext]_chatVars
    PROVE  Inv'
<1>0. RoomInv /\ MessageInv BY DEF Inv
<1>1. CASE RoomNext /\ UNCHANGED messageVars BY <1>0, <1>1, RoomStep, RoomKeepsMessages DEF Inv
<1>2. ASSUME NEW c \in Client,
             \/ SendDue(c) \/ Create(c) \/ CreateFails(c) \/ Deliver(c) \/ DueEnds(c)
             \/ Answer(c) \/ Dies(c)
             \/ \E k \in Send : Post(c, k) \/ CompleteUpload(c, k) \/ ClaimDue(c, k)
      PROVE  Inv'
  <2>1. MessageInv' BY <1>0, <1>2, AskStep, DueStep, StoreStep
  <2>2. UNCHANGED roomVars
    BY <1>2 DEF SendDue, Create, CreateFails, Deliver, DueEnds, Answer, Dies, Post, CompleteUpload,
                ClaimDue
  <2>3. PICK h : h = inflight'[c] OBVIOUS
  <2>4. inflight' = [inflight EXCEPT ![c] = h] /\ h.op # "update"
    BY <1>0, <1>2, <2>3 DEF SendDue, Create, CreateFails, Deliver, DueEnds, Answer, Dies, Post,
       CompleteUpload, ClaimDue, Start, Goes, Finish, Abandon, NoHandler, AnswerOrCreate, RoomInv,
       RoomHandlersOK
  <2>5. RoomInv' BY <1>0, <2>2, <2>4, MessagesKeepRoom
  <2> QED BY <2>1, <2>5 DEF Inv
<1>3. ASSUME NEW k \in Send,
             \/ StartUpload(k) \/ Schedule(k) \/ Unschedule(k) \/ SendFails(k) \/ Cancel(k)
             \/ SweepUploads(k) \/ \E part \in Part : PutPart(k, part)
      PROVE  Inv'
  <2>1. UNCHANGED <<roomVars, inflight>>
    BY <1>3 DEF StartUpload, Schedule, Unschedule, SendFails, Cancel, SweepUploads, PutPart
  <2>2. RoomInv' BY <1>0, <2>1, MessagesKeepRoom
  <2> QED BY <1>0, <1>3, <2>2, BesideStep DEF Inv
<1>4. CASE UNCHANGED chatVars
  <2>1. /\ UNCHANGED roomVars /\ UNCHANGED inflight /\ UNCHANGED messageVars BY <1>4 DEF chatVars
  <2>2. LogOK' /\ SendsOK' /\ Posts' = Posts /\ Claimed' = Claimed
    BY <1>0, <2>1, Untouched DEF MessageInv, messageVars
  <2>3. SendHandlersOK' BY <1>0, <2>1, <2>2 DEF MessageInv, SendHandlersOK
  <2> QED BY <1>0, <2>1, <2>2, <2>3, MessagesKeepRoom DEF Inv, MessageInv
<1> QED BY <1>1, <1>2, <1>3, <1>4 DEF ChatNext

(* The invariant of the room and its messages.                             *)
LEMMA InvHolds == ChatSpec => []Inv
BY InvInit, InvNext, PTL DEF ChatSpec

(* «A retried send never posts it twice» (schema.prisma:1415), for any     *)
(* number of sends, tries, parts and timers.                               *)
THEOREM NothingIsPostedTwice == ChatSpec => []PostedOnce
<1>1. Inv => PostedOnce BY DEF Inv, MessageInv, LogOK
<1> QED BY <1>1, InvHolds, PTL

(* A bubble that left the screen as sent is a message in the chat.         *)
THEOREM WhatLeftIsPosted == ChatSpec => []SentIsPosted
<1>1. Inv => SentIsPosted BY DEF Inv, MessageInv, SendsOK
<1> QED BY <1>1, InvHolds, PTL

(* A message withdrawn before its time is never sent (chat.service.ts:750).*)
THEOREM WithdrawnStaysUnsent == ChatSpec => []WithdrawnIsNeverSent
<1>1. Inv => WithdrawnIsNeverSent
  BY DEF Inv, MessageInv, SendsOK, SendHandlersOK, SendHandlerOK, WithdrawnIsNeverSent, Running,
         Claimed
<1> QED BY <1>1, InvHolds, PTL

(* A group or a channel has one owner for as long as it is not emptied or  *)
(* orphaned.                                                               *)
THEOREM GroupHasOneOwner == ChatSpec => []OneOwner
<1>1. Inv => OneOwner BY DEF Inv, RoomInv
<1> QED BY <1>1, InvHolds, PTL
=============================================================================
