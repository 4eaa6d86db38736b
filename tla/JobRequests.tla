---------------------------- MODULE JobRequests ----------------------------
(***************************************************************************)
(* Workers and the work they ask for: worker_profiles.status and           *)
(* worker_job_requests.  Every worker owns a fixed pool of request ids     *)
(* (Asker); an id not yet used is "NONE".                                  *)
(***************************************************************************)
EXTENDS Workers, Handlers

CONSTANTS Request,
          Asker,        \* Asker[r]: the worker whose request r is
          Managed       \* bound: the workers whose status staff may change

ASSUME JobRequestAssumption == Asker \in [Request -> Worker] /\ Managed \subseteq Worker

VARIABLES workerStatus, \* worker_profiles.status
          request       \* worker_job_requests.status

jobVars == <<workerStatus, request>>

WorkerStatus == {"ACTIVE", "PAUSED", "ARCHIVED"}
RequestStatus == {"NONE", "PENDING", "FULFILLED", "REJECTED", "CANCELLED"}

JobInit == /\ workerStatus = [w \in Worker |-> "ACTIVE"]
           /\ request = [r \in Request |-> "NONE"]

(* WORKER_MACHINE, from the approval on. *)
WorkerMachine == {<<"ACTIVE", "PAUSED">>, <<"ACTIVE", "ARCHIVED">>, <<"PAUSED", "ACTIVE">>,
                  <<"PAUSED", "ARCHIVED">>, <<"ARCHIVED", "ACTIVE">>}

(* WorkersService.update: the transition is checked on a row loaded before *)
(* the transaction; the transaction writes the new status whatever it is.  *)
SetStatusBegin(c, w, status) ==
  /\ <<workerStatus[w], status>> \in WorkerMachine
  /\ Start(c, [op |-> "setStatus", worker |-> w, status |-> status])
  /\ UNCHANGED jobVars

SetStatusCommit(c) ==
  /\ Running(c, "setStatus")
  /\ workerStatus' = [workerStatus EXCEPT ![inflight[c].worker] = inflight[c].status]
  /\ Finish(c)
  /\ UNCHANGED request

HasPending(w) == \E r \in Request : Asker[r] = w /\ request[r] = "PENDING"

(* «Заказать эту работу»: the checks, then the insert, which the partial   *)
(* unique index worker_job_requests_one_pending may refuse.                *)
RequestBegin(c, r) ==
  /\ request[r] = "NONE"
  /\ workerStatus[Asker[r]] = "ACTIVE"
  /\ ~HasPending(Asker[r])
  /\ Start(c, [op |-> "request", req |-> r])
  /\ UNCHANGED jobVars

NoIndex(w) == TRUE                      \* mutant: the partial unique index is missing
OnePendingIndex(w) == ~HasPending(w)

RequestCommit(c) ==
  /\ Running(c, "request")
  /\ LET r == inflight[c].req
     IN /\ request[r] = "NONE"
        /\ OnePendingIndex(Asker[r])
        /\ request' = [request EXCEPT ![r] = "PENDING"]
  /\ Finish(c)
  /\ UNCHANGED workerStatus

(* The worker withdraws: PENDING is checked before the transaction only. *)
WithdrawBegin(c, r) ==
  /\ request[r] = "PENDING"
  /\ Start(c, [op |-> "withdraw", req |-> r])
  /\ UNCHANGED jobVars

WithdrawCommit(c) ==
  /\ Running(c, "withdraw")
  /\ request' = [request EXCEPT ![inflight[c].req] = "CANCELLED"]
  /\ Finish(c)
  /\ UNCHANGED workerStatus

(* Staff declines.  One transaction, in two steps: under the worker's row  *)
(* lock the request is read again and, a moment later, written; an answer  *)
(* that does not need that row (WithdrawCommit) fits in between.           *)
Rejecting(w) == \E d \in Client : Running(d, "reject") /\ Asker[inflight[d].req] = w

RejectBegin(c, r) ==
  /\ request[r] = "PENDING"
  /\ ~Rejecting(Asker[r])
  /\ Start(c, [op |-> "reject", req |-> r])
  /\ UNCHANGED jobVars

RejectCommit(c) ==
  /\ Running(c, "reject")
  /\ request' = [request EXCEPT ![inflight[c].req] = "REJECTED"]
  /\ Finish(c)
  /\ UNCHANGED workerStatus

(* AssignmentsService.create answers the request inside its transaction:   *)
(* a compare-and-set, so one request is never prepared twice.  The row of  *)
(* the assignment was inserted before: its foreign key waits for whoever   *)
(* holds the worker's row.                                                 *)
FulfilAny(r) == request' = [request EXCEPT ![r] = "FULFILLED"] /\ UNCHANGED workerStatus  \* mutant: no compare
Fulfil(r) ==
  /\ ~Rejecting(Asker[r])
  /\ request[r] = "PENDING"
  /\ request' = [request EXCEPT ![r] = "FULFILLED"]
  /\ UNCHANGED workerStatus

JobStep(c) ==
  \/ \E r \in Request : RequestBegin(c, r) \/ WithdrawBegin(c, r) \/ RejectBegin(c, r)
  \/ \E w \in Managed, s \in WorkerStatus : SetStatusBegin(c, w, s)
  \/ RequestCommit(c) \/ WithdrawCommit(c) \/ RejectCommit(c) \/ SetStatusCommit(c)

-----------------------------------------------------------------------------
JobTypeOK == /\ workerStatus \in [Worker -> WorkerStatus]
             /\ request \in [Request -> RequestStatus]

(* A worker never has two requests waiting, however often she taps: the    *)
(* rule the index worker_job_requests_one_pending keeps.                   *)
OnePendingRequest ==
  \A r, s \in Request :
    Asker[r] = Asker[s] /\ request[r] = "PENDING" /\ request[s] = "PENDING" => r = s

(* An answered request keeps its answer: FULFILLED, REJECTED and CANCELLED *)
(* have no way out in JOB_REQUEST_MACHINE.                                 *)
AnswerIsFinal ==
  [][\A r \in Request : request[r] \in {"FULFILLED", "REJECTED", "CANCELLED"}
       => request'[r] = request[r]]_request
=============================================================================
