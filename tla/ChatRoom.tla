------------------------------ MODULE ChatRoom ------------------------------
(***************************************************************************)
(* One conversation and who is in it: chat_rooms and chat_members, as      *)
(* ChatService (chat.service.ts) changes them.  A direct chat has its two  *)
(* people for good; a group is joined, managed and left, and so is a       *)
(* channel of chosen people (audience CUSTOM), where only admins post.     *)
(* (Channels everyone of a role is in, and the company's chat: left out.)  *)
(***************************************************************************)
EXTENDS Sequences, Naturals, FiniteSets, Handlers

CONSTANTS Person,
          Administrator,     \* those whose role is ADMIN or SUPER_ADMIN
          SuperAdministrator \* those whose role is SUPER_ADMIN

ASSUME ChatRoomAssumption ==
    SuperAdministrator \subseteq Administrator /\ Administrator \subseteq Person

VARIABLES kind,       \* ChatRoom.kind
          members,    \* ChatMember, in the order of joinedAt
          owner,      \* ChatMember.isOwner
          admins,     \* ChatMember.isAdmin
          onlyAdminsWrite, \* ChatRoom.onlyAdminsWrite
          unattended  \* ghost: it lost its owner other than by leave

roomVars == <<kind, members, owner, admins, onlyAdminsWrite, unattended>>

IsMember(u) == \E i \in DOMAIN members : members[i] = u
Place(u) == CHOOSE i \in DOMAIN members : members[i] = u
Without(u) ==
    IF IsMember(u)
    THEN SubSeq(members, 1, Place(u) - 1) \o SubSeq(members, Place(u) + 1, Len(members))
    ELSE members
Joined(u) == IF IsMember(u) THEN members ELSE Append(members, u)

\* createGroup, createChannel and direct: the first member creates it.
RoomInit ==
    /\ kind \in {"DIRECT", "GROUP", "CHANNEL"}
    /\ members \in {s \in [{1, 2} -> Person] : s[1] # s[2]}
    /\ kind = "CHANNEL" => members[1] \in Administrator
    /\ owner = IF kind = "DIRECT" THEN {} ELSE {members[1]}
    /\ admins = IF kind = "CHANNEL" THEN {members[1]} ELSE {}
    /\ onlyAdminsWrite = FALSE
    /\ unattended = FALSE

\* writable: a member, who in a channel, or a group that says so, is one of those that post.
CanWrite(u) ==
    /\ IsMember(u)
    /\ kind = "CHANNEL" => u \in owner \cup admins \cup SuperAdministrator
    /\ kind = "GROUP" /\ onlyAdminsWrite => u \in owner \cup admins \cup Administrator

CanManage(u) == kind # "DIRECT" /\ IsMember(u) /\ u \in owner \cup admins \cup Administrator
ChoosesAdmins(u) == u \in owner \cup Administrator

\* One change per call; the code applies a list of each kind, in one transaction.
Change == [what : {"add", "remove", "admin", "unadmin"}, who : Person]
            \cup [what : {"write"}, onlyAdmins : BOOLEAN]

UpdateBegin(c, u, change) ==
    /\ CanManage(u)
    /\ change.what \in {"admin", "unadmin"} => ChoosesAdmins(u)
    /\ change.what = "remove" => change.who # u
    /\ Start(c, [op |-> "update", change |-> change])
    /\ UNCHANGED roomVars

\* Mutant: whoever manages the group may be dismissed, its owner too.
DismissesAnyone(u) == TRUE

\* deleteMany and updateMany ask for isOwner: false again, on the row they lock.
Dismisses(u) == u \notin owner

UpdateCommit(c) ==
    /\ Running(c, "update")
    /\ LET what == inflight[c].change.what
           who == inflight[c].change.who
       IN \/ /\ what = "add"
             /\ members' = Joined(who)
             /\ UNCHANGED <<owner, admins, onlyAdminsWrite>>
          \/ /\ what = "remove" /\ Dismisses(who)
             /\ members' = Without(who)
             /\ owner' = owner \ {who}
             /\ admins' = admins \ {who}
             /\ UNCHANGED onlyAdminsWrite
          \/ /\ what = "admin"
             /\ members' = Joined(who)
             /\ admins' = admins \cup {who}
             /\ UNCHANGED <<owner, onlyAdminsWrite>>
          \/ /\ what = "unadmin" /\ Dismisses(who)
             /\ admins' = admins \ {who}
             /\ UNCHANGED <<members, owner, onlyAdminsWrite>>
          \/ /\ what = "write"
             /\ onlyAdminsWrite' = IF kind = "GROUP" THEN inflight[c].change.onlyAdmins
                                                     ELSE onlyAdminsWrite
             /\ UNCHANGED <<members, owner, admins>>
    /\ Finish(c)
    /\ UNCHANGED <<kind, unattended>>

\* «The owner leaving hands the group to the longest-standing member.»
Succeeds(u) == u \in owner /\ Without(u) # <<>>

\* One transaction under the row it deletes; a successor who is gone makes it fail.
Leave(u) ==
    /\ kind # "DIRECT" /\ IsMember(u)
    /\ members' = Without(u)
    /\ owner' = IF Succeeds(u) THEN (owner \ {u}) \cup {Head(Without(u))} ELSE owner \ {u}
    /\ admins' = admins \ {u}
    /\ unattended' = (unattended \/ Without(u) = <<>>)
    /\ UNCHANGED <<kind, onlyAdminsWrite, inflight>>

\* An account is deleted: its memberships go with it, and nobody is handed the group.
AccountGone(u) ==
    /\ kind # "DIRECT" /\ IsMember(u)
    /\ members' = Without(u)
    /\ owner' = owner \ {u}
    /\ admins' = admins \ {u}
    /\ unattended' = (unattended \/ u \in owner)
    /\ UNCHANGED <<kind, onlyAdminsWrite, inflight>>

RoomNext ==
    \/ \E c \in Client, u \in Person, change \in Change : UpdateBegin(c, u, change)
    \/ \E c \in Client : UpdateCommit(c)
    \/ \E u \in Person : Leave(u) \/ AccountGone(u)
-----------------------------------------------------------------------------
(***************************************************************************)
(* A group or a channel is never ownerless and never has two owners,       *)
(* however its owner, her successor and those who manage it overlap        *)
(* (chat.service.ts:513), as long as it was not emptied or its owner's     *)
(* account deleted.                                                        *)
(***************************************************************************)
OneOwner ==
    /\ \A i, j \in DOMAIN members : members[i] = members[j] => i = j
    /\ \A u \in owner \cup admins : IsMember(u)
    /\ kind # "DIRECT" /\ ~unattended => \E u \in Person : owner = {u}
=============================================================================
