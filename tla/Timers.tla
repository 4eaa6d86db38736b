------------------------------- MODULE Timers -------------------------------
(***************************************************************************)
(* The timers of the worker container beside the requests they meet:       *)
(* deadlines of works told in the app (AppNotifier.tick), reminders that   *)
(* ring and holidays that end (ManagerTicks), against managers who go on   *)
(* holiday, come back, write and move their reminders (ManagerTools), and  *)
(* an office that gives workers to other managers.                         *)
(*                                                                         *)
(* setInterval starts a job whether or not the last one has ended, and two *)
(* containers overlap during a deploy: jobs run in the slots of Handlers,  *)
(* beside requests and beside themselves.  A job acts on what it read when *)
(* it began.                                                               *)
(***************************************************************************)
EXTENDS Naturals, Handlers

CONSTANTS Worker, Manager,
          Boss,         \* staff who see the works of every worker
          Reminder,     \* bound: staff_reminders
          LastDay,      \* bound: the clock stops there
          MaxMoves,     \* bound: deadlines and reminders moved
          MaxMishaps,    \* bound: jobs that die, notices that cannot be written
          None          \* NULL

ASSUME TimersAssumption ==
    /\ LastDay \in Nat /\ MaxMoves \in Nat /\ MaxMishaps \in Nat
    /\ None \notin Manager \cup Nat

VARIABLES clock,        \* the day
          team,         \* the managers there are
          work,         \* a work of each worker: still being made?, dueAt
          manager,      \* assignedManagerId
          home,         \* homeManagerId: her own manager while he is on holiday
          away,         \* User.awayUntil
          reminder,     \* StaffReminder
          bell,         \* notifications of channel APP, by their dedupeKey
          renewed,      \* ghost: managers whose next holiday was ended by the end of the last
          missed,       \* ghost: reminders marked as told that were not
          moves, mishaps

calendar == <<clock, team, work>>
covers == <<manager, home, away, renewed>>
notices == <<reminder, bell, missed>>
bounds == <<moves, mishaps>>
timersVars == <<calendar, covers, notices, bounds, inflight>>

Day == 0 .. LastDay
Unwritten == [state |-> "unwritten", at |-> 0, done |-> FALSE, notified |-> FALSE]
Deleted == [Unwritten EXCEPT !.state = "deleted"]

TimersInit ==
    /\ clock \in Day
    /\ team \in SUBSET Manager
    /\ work \in [Worker -> [open : BOOLEAN, due : Day]]
    /\ manager \in [Worker -> team \cup {None}]
    /\ home = [w \in Worker |-> None]
    /\ away = [m \in Manager |-> None]
    /\ reminder \in [Reminder -> {Unwritten, Deleted}]
    /\ bell = {} /\ renewed = {} /\ missed = {}
    /\ moves \in 0 .. MaxMoves /\ mishaps \in 0 .. MaxMishaps
    /\ HandlersInit

Becomes(c, handler) == inflight' = [inflight EXCEPT ![c] = handler]
Mishap == mishaps < MaxMishaps /\ mishaps' = mishaps + 1
Move == moves < MaxMoves /\ moves' = moves + 1

(***************************************************************************)
(* Deadlines (AppNotifier.tick).  A notice is a row under a unique key of  *)
(* its kind, what it is about and whom it tells: a second one is refused.  *)
(***************************************************************************)
Overdue(w) == work[w].open /\ work[w].due < clock
DueOn(day) == {w \in Worker : work[w].open /\ work[w].due = day}

\* Mutant: told once, not once to each.
ToldAtAll(w) == IF \E u \in Boss \cup Manager : <<"overdue", w, u>> \in bell THEN {}
                ELSE (Boss \cup {manager[w]}) \ {None}

\* staffFor
Responsible(w) == (Boss \cup {manager[w]}) \ {None}

Announced == {<<"due1", w, w>> : w \in DueOn(clock + 1)}
             \cup {<<"due0", w, w>> : w \in DueOn(clock)}
             \cup UNION {{<<"overdue", w, u>> : u \in Responsible(w)} :
                             w \in {x \in Worker : Overdue(x)}}

\* A tick that has nothing new to tell changes nothing.
TickBegin(c) ==
    /\ Announced \ bell # {}
    /\ Start(c, [op |-> "tick", todo |-> Announced \ bell])
    /\ UNCHANGED <<calendar, covers, notices, bounds>>

Rest(c, n) == IF inflight[c].todo = {n} THEN NoHandler
              ELSE [inflight[c] EXCEPT !.todo = @ \ {n}]

\* An error is logged, and the next notice tried.
TickTells(c) ==
    /\ Running(c, "tick")
    /\ \E n \in inflight[c].todo :
          /\ Becomes(c, Rest(c, n))
          /\ \/ bell' = bell \cup {n} /\ UNCHANGED mishaps
             \/ UNCHANGED bell /\ Mishap
    /\ UNCHANGED <<calendar, covers, reminder, missed, moves>>

(***************************************************************************)
(* Reminders (ManagerTicks.ring).                                          *)
(***************************************************************************)
There(r) == reminder[r].state = "there"
Rings(r) == /\ There(r) /\ ~reminder[r].done
            /\ ~reminder[r].notified /\ reminder[r].at <= clock

RingBegin(c) ==
    /\ \E r \in Reminder : Rings(r)
    /\ Start(c, [op |-> "ring", told |-> {},
                 todo |-> {<<r, reminder[r].at>> : r \in {x \in Reminder : Rings(x)}}])
    /\ UNCHANGED <<calendar, covers, notices, bounds>>

RingTells(c) ==
    /\ Running(c, "ring") /\ inflight[c].told = {}
    /\ \E n \in inflight[c].todo :
          /\ Becomes(c, [inflight[c] EXCEPT !.told = {n}, !.todo = @ \ {n}])
          /\ \/ bell' = bell \cup {<<"rem", n[1], n[2]>>} /\ UNCHANGED <<mishaps, missed>>
             \/ UNCHANGED bell /\ Mishap /\ missed' = missed \cup {n}
    /\ UNCHANGED <<calendar, covers, reminder, moves>>

\* Marked by its id, whatever became of it; one that is gone ends the job.
RingMarks(c) ==
    /\ Running(c, "ring")
    /\ \E n \in inflight[c].told :
          LET r == n[1] IN
          IF There(r)
          THEN /\ reminder' = [reminder EXCEPT ![r].notified = TRUE]
               /\ missed' = IF reminder[r].at = n[2] THEN missed
                            ELSE missed \cup {<<r, reminder[r].at>>}
               /\ Becomes(c, IF inflight[c].todo = {} THEN NoHandler
                             ELSE [inflight[c] EXCEPT !.told = {}])
          ELSE Finish(c) /\ UNCHANGED <<reminder, missed>>
    /\ UNCHANGED <<calendar, covers, bounds, bell>>

AddReminder(r, at) ==
    /\ reminder[r] = Unwritten
    /\ reminder' = [reminder EXCEPT ![r].state = "there", ![r].at = at]
    /\ UNCHANGED <<calendar, covers, bounds, bell, missed, inflight>>

\* Mutant: moved, but still marked as told.
MovedSilently(row, at) == [row EXCEPT !.at = at]

MovedTo(row, at) == [row EXCEPT !.at = at, !.notified = FALSE]

\* patchReminder: done or not, and perhaps another time.
PatchReminder(r, done) ==
    /\ There(r)
    /\ \/ /\ reminder' = [reminder EXCEPT ![r].done = done]
          /\ UNCHANGED moves
       \/ /\ \E at \in Day :
                reminder' = [reminder EXCEPT ![r] = MovedTo([@ EXCEPT !.done = done], at)]
          /\ Move
    /\ UNCHANGED <<calendar, covers, bell, missed, mishaps, inflight>>

DeleteReminder(r) ==
    /\ There(r)
    /\ reminder' = [reminder EXCEPT ![r].state = "deleted"]
    /\ UNCHANGED <<calendar, covers, bounds, bell, missed, inflight>>

(***************************************************************************)
(* Holidays.  goAway and comeBack read and write in transactions that lock *)
(* nothing between the two.                                                *)
(***************************************************************************)
LeaveBegin(c, m, sub, until) ==
    /\ {m, sub} \subseteq team /\ sub # m
    /\ away[sub] = None /\ away[m] = None /\ until > clock
    /\ Start(c, [op |-> "leave", manager |-> m, sub |-> sub, until |-> until,
                 workers |-> {w \in Worker : manager[w] = m /\ home[w] = None}])
    /\ UNCHANGED <<calendar, covers, notices, bounds>>

\* Ghost: the returns from an earlier holiday that are still on their way.
Outdated(h, m) == IF h.op = "back" /\ h.manager = m THEN [h EXCEPT !.early = TRUE] ELSE h

LeaveCommit(c) ==
    /\ Running(c, "leave")
    /\ LET h == inflight[c] IN
       /\ manager' = [w \in Worker |-> IF w \in h.workers THEN h.sub ELSE manager[w]]
       /\ home' = [w \in Worker |-> IF w \in h.workers THEN h.manager ELSE home[w]]
       /\ away' = [away EXCEPT ![h.manager] = h.until]
       /\ inflight' = [d \in Client |-> IF d = c THEN NoHandler
                                        ELSE Outdated(inflight[d], h.manager)]
    /\ UNCHANGED <<calendar, notices, bounds, renewed>>

\* Mutant: a holiday ends the day after.
EndedBefore == {m \in Manager : away[m] # None /\ away[m] < clock}

Ended == {m \in Manager : away[m] # None /\ away[m] <= clock}

\* endHolidays: the managers are listed, then brought back one by one.
HolidaysBegin(c) ==
    /\ Ended # {}
    /\ Start(c, [op |-> "holidays", todo |-> Ended])
    /\ UNCHANGED <<calendar, covers, notices, bounds>>

Back(m, rest) == [op |-> "back", manager |-> m, rest |-> rest, early |-> FALSE,
                  workers |-> {w \in Worker : home[w] = m}]
ListOf(rest) == IF rest = {} THEN NoHandler ELSE [op |-> "holidays", todo |-> rest]

\* comeBack asks whether he is away, not until when.
HolidayNext(c) ==
    /\ Running(c, "holidays")
    /\ \E m \in inflight[c].todo :
          LET rest == inflight[c].todo \ {m} IN
          Becomes(c, IF away[m] = None THEN ListOf(rest) ELSE Back(m, rest))
    /\ UNCHANGED <<calendar, covers, notices, bounds>>

\* «Я вернулся»
ReturnBegin(c, m) ==
    /\ away[m] # None
    /\ Start(c, Back(m, {}))
    /\ UNCHANGED <<calendar, covers, notices, bounds>>

\* Mutant: who her own manager was is not wiped.
HomeKept(workers) == home

HomeWiped(workers) == [w \in Worker |-> IF w \in workers THEN None ELSE home[w]]

BackCommit(c) ==
    /\ Running(c, "back")
    /\ LET h == inflight[c] IN
       /\ manager' = [w \in Worker |-> IF w \in h.workers THEN h.manager ELSE manager[w]]
       /\ home' = HomeWiped(h.workers)
       /\ away' = [away EXCEPT ![h.manager] = None]
       /\ renewed' = IF h.early THEN renewed \cup {h.manager} ELSE renewed \ {h.manager}
       /\ Becomes(c, ListOf(h.rest))
    /\ UNCHANGED <<calendar, notices, bounds>>

(***************************************************************************)
(* The office, the clock, and what goes wrong.                             *)
(***************************************************************************)
AssignManager(w, m) ==
    /\ m \in team \cup {None}
    /\ <<manager[w], home[w]>> # <<m, None>>
    /\ manager' = [manager EXCEPT ![w] = m]
    /\ home' = [home EXCEPT ![w] = None]
    /\ UNCHANGED <<calendar, notices, bounds, away, renewed, inflight>>

MoveDeadline(w, day) ==
    /\ work[w].open /\ Move
    /\ work' = [work EXCEPT ![w].due = day]
    /\ UNCHANGED <<covers, notices, clock, team, mishaps, inflight>>

EndWork(w) ==
    /\ work[w].open
    /\ work' = [work EXCEPT ![w].open = FALSE]
    /\ UNCHANGED <<covers, notices, bounds, clock, team, inflight>>

Dawn ==
    /\ clock < LastDay /\ clock' = clock + 1
    /\ UNCHANGED <<covers, notices, bounds, team, work, inflight>>

\* The process dies in the middle of a job or a request.
Dies(c) ==
    /\ Abandon(c) /\ Mishap
    /\ UNCHANGED <<calendar, covers, notices, moves>>

GoesOn(c) ==
    \/ TickTells(c) \/ RingTells(c) \/ RingMarks(c)
    \/ LeaveCommit(c) \/ HolidayNext(c) \/ BackCommit(c)

TimersNext ==
    \/ \E c \in Client :
          \/ TickBegin(c) \/ RingBegin(c) \/ HolidaysBegin(c)
          \/ GoesOn(c) \/ Dies(c)
          \/ \E m \in Manager :
                \/ ReturnBegin(c, m)
                \/ \E sub \in Manager, until \in Day : LeaveBegin(c, m, sub, until)
    \/ \E r \in Reminder :
          \/ DeleteReminder(r)
          \/ \E at \in Day : AddReminder(r, at)
          \/ \E done \in BOOLEAN : PatchReminder(r, done)
    \/ \E w \in Worker :
          \/ EndWork(w)
          \/ \E m \in Manager \cup {None} : AssignManager(w, m)
          \/ \E day \in Day : MoveDeadline(w, day)
    \/ Dawn

TimersSpec == TimersInit /\ [][TimersNext]_timersVars

(* setInterval starts each job again and again, what began goes on, and    *)
(* the days pass.                                                          *)
TimersFairness ==
    /\ SF_timersVars(\E c \in Client : TickBegin(c))
    /\ SF_timersVars(\E c \in Client : RingBegin(c))
    /\ SF_timersVars(\E c \in Client : HolidaysBegin(c))
    /\ \A c \in Client : WF_timersVars(GoesOn(c))
    /\ WF_timersVars(Dawn)

FairTimersSpec == TimersSpec /\ TimersFairness
-----------------------------------------------------------------------------
(***************************************************************************)
(* Rows hold what the schema lets them hold.                               *)
(***************************************************************************)
TimersTypeOK ==
    /\ clock \in Day /\ team \subseteq Manager
    /\ work \in [Worker -> [open : BOOLEAN, due : Day]]
    /\ manager \in [Worker -> Manager \cup {None}]
    /\ home \in [Worker -> Manager \cup {None}]
    /\ away \in [Manager -> Day \cup {None}]
    /\ reminder \in [Reminder -> [state : {"unwritten", "there", "deleted"}, at : Day,
                                  done : BOOLEAN, notified : BOOLEAN]]
    /\ renewed \subseteq Manager

(***************************************************************************)
(* homeManagerId is «her own manager while that manager is on holiday»     *)
(* (schema.prisma:287): nobody waits for a manager who is back already,    *)
(* whatever holidays, returns, jobs and assignments overlap, unless the    *)
(* return from one holiday was overtaken by the beginning of the next.     *)
(***************************************************************************)
CoverHasHoliday ==
    \A w \in Worker : home[w] # None => away[home[w]] # None \/ home[w] \in renewed

(***************************************************************************)
(* Workers under a substitute «come back by themselves»                    *)
(* (manager-tools.ts:84): when the date has passed, with no one pressing a *)
(* button, through jobs that die, unless an early return crossed the next  *)
(* holiday (ManagerTicks.endHolidays).                                     *)
(***************************************************************************)
CoverEnds ==
    \A w \in Worker, m \in Manager : home[w] = m ~> (home[w] # m \/ m \in renewed)

(***************************************************************************)
(* A work that stays overdue is told to whoever looks after the worker     *)
(* then: her manager, his substitute, the one she was given to since       *)
(* (AppNotifier.tick, staffFor).                                           *)
(***************************************************************************)
OverdueIsTold ==
    \A w \in Worker, m \in Manager :
        Overdue(w) /\ manager[w] = m
            ~> (<<"overdue", w, m>> \in bell \/ ~Overdue(w) \/ manager[w] # m)

(***************************************************************************)
(* A reminder marked as told was told, for the time it is set to now,      *)
(* unless missed says otherwise: ring marks by id, after a notice that may *)
(* have been for an earlier time, or beside another ring, a patch and a    *)
(* delete (ManagerTicks.ring, patchReminder).                              *)
(***************************************************************************)
ToldFor(r, at) == <<"rem", r, at>> \in bell \/ <<r, at>> \in missed

MarkedWasTold ==
    \A r \in Reminder : reminder[r].notified => ToldFor(r, reminder[r].at)

(***************************************************************************)
(* A reminder rings when its time comes, also the time it was moved to,    *)
(* through jobs that die between the notice and its mark - unless its      *)
(* notice could not be written, or it was moved while the job had it in    *)
(* hand (ManagerTicks.ring).                                               *)
(***************************************************************************)
ReminderRings ==
    \A r \in Reminder, day \in Day :
        (There(r) /\ ~reminder[r].done /\ reminder[r].at = day /\ day <= clock)
            ~> (\/ <<"rem", r, day>> \in bell \/ <<r, day>> \in missed
                \/ ~There(r) \/ reminder[r].done \/ reminder[r].at # day)
=============================================================================
