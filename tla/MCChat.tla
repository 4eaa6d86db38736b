------------------------------- MODULE MCChat -------------------------------
(***************************************************************************)
(* Three people and three ways to send.  In a direct chat a text that is   *)
(* retried, a file in parts and a scheduled text overlap; a group or a     *)
(* channel is joined, managed and left while a scheduled text waits.       *)
(***************************************************************************)
EXTENDS Chat, TLC

CONSTANTS ann, bob, eve, text, file, timed

SenderOf == (text :> ann) @@ (file :> bob) @@ (timed :> ann)
WayOf == (text :> "text") @@ (file :> "parts") @@ (timed :> "later")
OfferedIn == [room \in {"DIRECT", "GROUP", "CHANNEL"} |->
                IF room = "DIRECT" THEN {Send} ELSE {{timed}}]

\* The slots that serve requests are interchangeable.
AnySlot == Permutations(Client)
=============================================================================
