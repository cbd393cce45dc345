-------------------------- MODULE ScheduledUpdates --------------------------
(***************************************************************************)
(* The scheduled price updates: the triggers of the queued jobs, the timer *)
(* callback of bot/handlers.py with the checks and the claim it makes in   *)
(* services/scheduler_service.py, and the message it sends.                *)
(*                                                                         *)
(* Several processes may run at once (a new one is started before the old  *)
(* one has gone); they share Redis and nothing else.  Inside a process a   *)
(* callback runs some time after the scheduler dispatched it, and awaits   *)
(* the claim and the message: at each of these points the schedule may be  *)
(* replaced, the clock may go on and the process may die.                  *)
(*                                                                         *)
(* Time is a number of instants; Wall gives what the clock on the wall of  *)
(* a zone shows, with the fold of Python's datetime: 1 for the second pass *)
(* over an hour repeated in autumn.                                        *)
(***************************************************************************)
EXTENDS Schedules

CONSTANTS
    Procs,         \* processes of the bot
    Generations,   \* the identifiers uuid4() draws from
    Plans,         \* the schedules that are ever registered
    Horizon,       \* the last instant
    Wall           \* Wall[zone][t]: the local day, time of day and fold

Instants == 0 .. Horizon

WallClock == [day : Int, time : MinutesOfDay, fold : {0, 1}]

ASSUME UpdatesAssumption ==
    /\ Horizon \in Nat
    /\ Plans \subseteq ScheduleConfig
    /\ Wall \in [Zones -> [Instants -> WallClock]]
    /\ None \notin Generations \cup Plans

VARIABLES
    now,          \* the current instant
    up,           \* per process: is it running?
    jobs,         \* per process: the price-update jobs in its job queue
    active,       \* per process: _active_schedule
    generation,   \* per process: _active_schedule_generation
    settled,      \* history, per process: was it registered before this instant?
    due,          \* per process: jobs to dispatch at this instant
    calls,        \* the callbacks under way
    claims,       \* the occurrence keys in Redis
    sends         \* history: the messages sent for each occurrence

procVars == <<up, jobs, active, generation, settled>>
vars == <<now, up, jobs, active, generation, settled, due, calls, claims, sends>>

(***************************************************************************)
(* Occurrences.                                                            *)
(***************************************************************************)

\* The key in Redis, stocker:schedule:sent:<zone>:<day>:<time>.
KeyAt(s, t) == <<s.zone, Wall[s.zone][t].day, Wall[s.zone][t].time>>
Keys == { KeyAt(s, t) : s \in Plans, t \in Instants }

\* DSTSafeCronTrigger: a trigger fires at the wall-clock minutes of its expression
\* and skips the repeated ones; a minute that does not exist is no instant.
Fires(j, t) ==
    LET wall == Wall[j.schedule.zone][t] IN
    wall.fold = 0 /\ FiresAt(j.kind, j.schedule, wall.time)

Dispatched(p, j) ==
    [proc |-> p, job |-> j, stage |-> "dispatched", schedule |-> None, at |-> 0]

PlannedJob == { j \in Job(Generations) : j.schedule \in Plans }

CallType ==
    [proc : Procs, job : PlannedJob, stage : {"dispatched"}, schedule : {None}, at : {0}]
    \cup [proc : Procs, job : PlannedJob, stage : {"claim", "send"}, schedule : Plans, at : Instants]

TypeOK ==
    /\ now \in Instants
    /\ up \in [Procs -> BOOLEAN]
    /\ jobs \in [Procs -> SUBSET PlannedJob]
    /\ active \in [Procs -> Plans \cup {None}]
    /\ generation \in [Procs -> Generations \cup {None}]
    /\ settled \in [Procs -> BOOLEAN]
    /\ due \in [Procs -> SUBSET PlannedJob]
    /\ calls \subseteq CallType
    /\ claims \subseteq Keys
    /\ sends \in [Keys -> Nat]

Init ==
    /\ now = 0
    /\ up = [p \in Procs |-> FALSE]
    /\ jobs = [p \in Procs |-> {}]
    /\ active = [p \in Procs |-> None]
    /\ generation = [p \in Procs |-> None]
    /\ settled = [p \in Procs |-> FALSE]
    /\ due = [p \in Procs |-> {}]
    /\ calls = {}
    /\ claims = {}
    /\ sends = [k \in Keys |-> 0]

(***************************************************************************)
(* The scheduler.                                                          *)
(***************************************************************************)

\* The clock goes on; what was due and was not dispatched has missed its second of
\* grace.
Tick ==
    /\ now < Horizon
    /\ now' = now + 1
    /\ due' = [p \in Procs |-> { j \in jobs[p] : Fires(j, now + 1) }]
    /\ settled' = [p \in Procs |-> active[p] # None]
    /\ UNCHANGED <<up, jobs, active, generation, calls, claims, sends>>

\* A due job is started unless its previous callback still runs (max_instances).
Dispatch(p, j) ==
    /\ j \in due[p]
    /\ due' = [due EXCEPT ![p] = @ \ {j}]
    /\ calls' = IF \E c \in calls : c.proc = p /\ c.job = j
                THEN calls ELSE calls \cup {Dispatched(p, j)}
    /\ UNCHANGED <<now, procVars, claims, sends>>

(***************************************************************************)
(* The callback.                                                           *)
(***************************************************************************)

Continue(c, d) == calls' = (calls \ {c}) \cup {d}
Return(c) == calls' = calls \ {c}

Occurrence(c) == KeyAt(c.schedule, c.at)

Accepts_AnyGeneration(c) ==
    LET schedule == active[c.proc]
        wall == Wall[schedule.zone][now]
    IN  /\ generation[c.proc] # None
        /\ wall.fold = 0
        /\ IF c.job.kind = "cron"
           THEN IsRecurringBoundary(wall.time, schedule.frequency)
           ELSE /\ wall.time = schedule.start
                /\ ~IsRecurringBoundary(schedule.start, schedule.frequency)

Accepts_AnyMinute(c) ==
    /\ generation[c.proc] # None
    /\ c.job.generation = generation[c.proc]
    /\ Wall[active[c.proc].zone][now].fold = 0

\* schedule_for_callback: the generation of the callback's job is the active one, and
\* the local minute is one for which that kind of job is there.
Accepts(c) ==
    LET schedule == active[c.proc]
        wall == Wall[schedule.zone][now]
    IN  /\ generation[c.proc] # None
        /\ c.job.generation = generation[c.proc]
        /\ wall.fold = 0
        /\ IF c.job.kind = "cron"
           THEN IsRecurringBoundary(wall.time, schedule.frequency)
           ELSE /\ wall.time = schedule.start
                /\ ~IsRecurringBoundary(schedule.start, schedule.frequency)

\* should_run_scheduled_update
InActiveWindow(c) ==
    LET schedule == active[c.proc] IN
    InWindow(Wall[schedule.zone][now].time, schedule)

\* The callback keeps the schedule it was accepted for, and the time.
Claiming(c) ==
    [proc |-> c.proc, job |-> c.job, stage |-> "claim", schedule |-> active[c.proc], at |-> now]

TimerStart_WithoutSchedule(c) ==
    /\ c.stage = "dispatched"
    /\ IF Accepts(c) /\ InActiveWindow(c)
       THEN Continue(c, [Claiming(c) EXCEPT !.schedule = None])
       ELSE Return(c)
    /\ UNCHANGED <<now, procVars, due, claims, sends>>

\* timer() up to its first await: it reads the clock and checks that the callback
\* belongs to the active schedule and to one of its minutes.
TimerStart(c) ==
    /\ c.stage = "dispatched"
    /\ IF Accepts(c) /\ InActiveWindow(c)
       THEN Continue(c, Claiming(c))
       ELSE Return(c)
    /\ UNCHANGED <<now, procVars, due, claims, sends>>

Claim_WithoutNX(c) ==
    /\ c.stage = "claim"
    /\ claims' = claims \cup {Occurrence(c)}
    /\ Continue(c, [c EXCEPT !.stage = "send"])
    /\ UNCHANGED <<now, procVars, due, sends>>

\* claim_scheduled_update: the second pass over an hour is skipped before Redis is
\* asked; SET NX makes the first claim of an occurrence the only one.
Claim(c) ==
    LET first == Wall[c.schedule.zone][c.at].fold = 0
    IN  /\ c.stage = "claim"
        /\ claims' = IF first THEN claims \cup {Occurrence(c)} ELSE claims
        /\ IF first /\ Occurrence(c) \notin claims
           THEN Continue(c, [c EXCEPT !.stage = "send"])
           ELSE Return(c)
        /\ UNCHANGED <<now, procVars, due, sends>>

\* An error instead of an answer, after or before the claim was executed: the
\* callback fails closed.
ClaimError(c) ==
    /\ c.stage = "claim"
    /\ claims' \in {claims, claims \cup {Occurrence(c)}}
    /\ Return(c)
    /\ UNCHANGED <<now, procVars, due, sends>>

\* send_price_update: one message, with a price or with an error text, whether or not
\* the answer of Telegram arrives.
Send(c) ==
    /\ c.stage = "send"
    /\ sends' = [sends EXCEPT ![Occurrence(c)] = @ + 1]
    /\ Return(c)
    /\ UNCHANGED <<now, procVars, due, claims>>

SendError_ReleasingClaim(c) ==
    /\ c.stage = "send"
    /\ claims' = claims \ {Occurrence(c)}
    /\ Return(c)
    /\ UNCHANGED <<now, procVars, due, sends>>

\* The provider's call raises or Telegram refuses the message: the callback ends, and
\* nothing is sent again.
SendError(c) ==
    /\ c.stage = "send"
    /\ Return(c)
    /\ UNCHANGED <<now, procVars, due, claims, sends>>

(***************************************************************************)
(* The process and its schedule, as ReplaceSchedule has it.                *)
(***************************************************************************)

Fresh(p, g) ==
    /\ g \in Generations
    /\ g # generation[p]
    /\ \A j \in jobs[p] : j.generation # g
    /\ \A c \in calls : c.proc = p => c.job.generation # g

\* The jobs of a schedule are registered; they fire strictly later.
Register(p, s) ==
    /\ \E g \in Generations :
          /\ Fresh(p, g)
          /\ jobs' = [jobs EXCEPT ![p] = JobsFor(s, g)]
          /\ generation' = [generation EXCEPT ![p] = g]
    /\ active' = [active EXCEPT ![p] = s]
    /\ settled' = [settled EXCEPT ![p] = FALSE]
    /\ due' = [due EXCEPT ![p] = {}]

Start(p) ==
    /\ ~up[p]
    /\ up' = [up EXCEPT ![p] = TRUE]
    /\ \E s \in Plans : Register(p, s)
    /\ UNCHANGED <<now, calls, claims, sends>>

\* A change replaces the schedule, or fails and restores the one of before.
Reschedule(p) ==
    /\ up[p]
    /\ \E s \in Plans : Register(p, s)
    /\ UNCHANGED <<now, up, calls, claims, sends>>

\* A change and its rollback failed: no schedule is active, but jobs may be left,
\* old ones that are still due or new ones that could not be removed again.
Leftovers(p) ==
    (SUBSET jobs[p]) \cup
    UNION { SUBSET JobsFor(s, g) : s \in Plans, g \in { h \in Generations : Fresh(p, h) } }

LoseSchedule(p) ==
    /\ up[p]
    /\ \E left \in Leftovers(p) :
          /\ jobs' = [jobs EXCEPT ![p] = left]
          /\ due' = [due EXCEPT ![p] = @ \cap left]
    /\ active' = [active EXCEPT ![p] = None]
    /\ generation' = [generation EXCEPT ![p] = None]
    /\ settled' = [settled EXCEPT ![p] = FALSE]
    /\ UNCHANGED <<now, up, calls, claims, sends>>

Crash(p) ==
    /\ up[p]
    /\ up' = [up EXCEPT ![p] = FALSE]
    /\ jobs' = [jobs EXCEPT ![p] = {}]
    /\ active' = [active EXCEPT ![p] = None]
    /\ generation' = [generation EXCEPT ![p] = None]
    /\ due' = [due EXCEPT ![p] = {}]
    /\ calls' = { c \in calls : c.proc # p }
    /\ settled' = [settled EXCEPT ![p] = FALSE]
    /\ UNCHANGED <<now, claims, sends>>

Step(c) == TimerStart(c) \/ Claim(c) \/ ClaimError(c) \/ Send(c) \/ SendError(c)

Next ==
    \/ Tick
    \/ \E p \in Procs : \/ \E j \in due[p] : Dispatch(p, j)
                        \/ Start(p) \/ Reschedule(p) \/ LoseSchedule(p) \/ Crash(p)
    \/ \E c \in calls : Step(c)

Spec == Init /\ [][Next]_vars

(***************************************************************************)
(* Nothing fails and every callback ends within its minute.                *)
(***************************************************************************)
PromptNext ==
    \/ Tick /\ calls = {} /\ \A p \in Procs : due[p] = {}
    \/ \E p \in Procs : \/ \E j \in due[p] : Dispatch(p, j)
                        \/ Start(p) \/ Reschedule(p)
    \/ \E c \in calls : TimerStart(c) \/ Claim(c) \/ Send(c)

PromptSpec == Init /\ [][PromptNext]_vars

(***************************************************************************)
(* The sequence of a day, as the specification of the feature gives it     *)
(* (docs/specs/007, sections 1, 3 and 5): the start of the window, then    *)
(* the wall-clock boundaries up to its end, over midnight if need be, and  *)
(* of a repeated hour only the first pass.                                 *)
(***************************************************************************)
IsBoundary(time, f) ==
    \E hour \in 0 .. 23, k \in 0 .. (60 \div f) - 1 : time = 60 * hour + k * f

Prescribed(s, wall) ==
    /\ wall.fold = 0
    /\ (wall.time - s.start) % 1440 <= (s.end - s.start) % 1440
    /\ wall.time = s.start \/ IsBoundary(wall.time, s.frequency)

(***************************************************************************)
(* Properties.                                                             *)
(***************************************************************************)

\* No local day and minute of a zone gets two scheduled updates, whatever processes
\* overlap, schedules change and callbacks run late.
AtMostOnce == \A k \in Keys : sends[k] <= 1

\* A callback that is about to claim or to send does so for a minute that its
\* schedule prescribes, however late it started.
OnlyPrescribed ==
    \A c \in calls : c.stage # "dispatched" =>
        Prescribed(c.schedule, Wall[c.schedule.zone][c.at])

\* The occurrences that a plan prescribes at an instant.
Due == [t \in Instants |->
    { KeyAt(s, t) : s \in { plan \in Plans : Prescribed(plan, Wall[plan.zone][t]) } }]

\* Redis and the messages, without the processes: each occurrence is claimed once, when
\* a schedule prescribes it and not before its minute, and is sent by its claim, once or
\* never; neither an error nor the death of a process gives a claim back.
Delivered == INSTANCE Deliveries WITH
    Occurrences <- Keys

ImplementsDeliveries == Delivered!DeliverySpec

\* A callback goes on to its claim only if its job is still queued and was registered
\* for the very schedule that is active: one that was dispatched before its job was
\* replaced, removed or left behind by a failed replacement ends without a message.
\* The code compares generations; it looks neither into the queue nor at the trigger.
StaleCallbacksEnd ==
    [][\A c \in calls, d \in calls' \ calls :
          c.stage = "dispatched" /\ d.stage = "claim" /\ d.proc = c.proc /\ d.job = c.job
              => c.job \in jobs[c.proc] /\ c.job.schedule = active[c.proc]]_vars

\* When nothing fails, every minute that the schedule of a running process prescribes
\* gets its update, from the minute after the schedule was registered: no occurrence
\* falls between the two jobs, none is lost to another process or to DST.
NoneMissed ==
    [][now' # now =>
          \A p \in Procs :
              settled[p]
              /\ Prescribed(active[p], Wall[active[p].zone][now])
                  => sends[KeyAt(active[p], now)] = 1]_vars

=============================================================================
