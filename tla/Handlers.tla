------------------------------ MODULE Handlers ------------------------------
(***************************************************************************)
(* Requests being served by the API.  A NestJS service method reads the    *)
(* database first and only then opens prisma.$transaction; whatever it     *)
(* read before the transaction is a snapshot that other requests may make  *)
(* stale.  A handler that uses such a snapshot takes two steps here: one   *)
(* that reads (Start) and one that is the whole transaction (Finish).      *)
(* A handler that decides everything under its own row lock is one step.   *)
(***************************************************************************)
CONSTANT Client     \* request slots: how many requests the API serves at once

VARIABLE inflight   \* inflight[c]: what slot c remembers between its two steps

NoHandler == [op |-> "idle"]

HandlersInit == inflight = [c \in Client |-> NoHandler]

Start(c, handler) == /\ inflight[c] = NoHandler
                     /\ inflight' = [inflight EXCEPT ![c] = handler]

Running(c, op) == inflight[c].op = op

Finish(c) == inflight' = [inflight EXCEPT ![c] = NoHandler]

(***************************************************************************)
(* The transaction never commits: the process dies, a CHECK or a unique    *)
(* index refuses it, PostgreSQL breaks a deadlock.  It leaves no trace.    *)
(***************************************************************************)
Abandon(c) == /\ inflight[c] # NoHandler
              /\ Finish(c)
=============================================================================
