-------------------------- MODULE MCWorkerContainer --------------------------
(***************************************************************************)
(* The worker container: the outbox and the other timers share no state,   *)
(* so each scene is about one of them while the others have nothing to do. *)
(***************************************************************************)
EXTENDS Outbox, Timers

\* Everything in the outbox was sent long ago.
Delivered ==
    /\ note = [n \in Note |-> [status |-> "SENT", attempts |-> 1, due |-> FALSE, body |-> FALSE]]
    /\ tick = [t \in Tick |-> Idle]
    /\ delivered = [n \in Note |-> 1]
    /\ faults = MaxFaults /\ overruns = MaxOverruns

WorksDone == \A w \in Worker : ~work[w].open /\ work[w].due = 0
NoReminders == reminder = [r \in Reminder |-> Deleted]
NobodyLeft == team = {} /\ moves = MaxMoves /\ mishaps = MaxMishaps

Messages == OutboxInit /\ WorksDone /\ NoReminders /\ NobodyLeft /\ clock = LastDay

Reminders == /\ Delivered /\ WorksDone /\ team = {}
             /\ reminder = [r \in Reminder |-> Unwritten]
             /\ clock = 0 /\ moves = 0 /\ mishaps = 0

Holidays == /\ Delivered /\ WorksDone /\ NoReminders /\ team = Manager
            /\ clock = 0 /\ moves = MaxMoves /\ mishaps = 0

Deadlines == /\ Delivered /\ NoReminders /\ team = Manager
             /\ \A w \in Worker : work[w].open /\ manager[w] # None
             /\ clock = LastDay /\ moves = 0 /\ mishaps = 0

Tomorrow == /\ Delivered /\ NoReminders /\ team = {}
            /\ \A w \in Worker : work[w].open
            /\ clock = 0 /\ moves = 0 /\ mishaps = 0

ContainerInit == TimersInit /\ (Messages \/ Reminders \/ Holidays \/ Deadlines \/ Tomorrow)

ContainerNext == \/ OutboxNext /\ UNCHANGED timersVars
                 \/ TimersNext /\ UNCHANGED outboxVars

ContainerSpec == /\ ContainerInit /\ [][ContainerNext]_<<outboxVars, timersVars>>
                 /\ OutboxFairness /\ TimersFairness
=============================================================================
