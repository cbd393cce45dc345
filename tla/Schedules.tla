----------------------------- MODULE Schedules -----------------------------
(***************************************************************************)
(* The data of the price-update schedule: what a valid schedule is, which  *)
(* jobs it needs and which wall-clock minutes lie in its daily window.     *)
(* Translated from services/schedule_rules.py and from the data types of   *)
(* services/scheduler_service.py.                                          *)
(*                                                                         *)
(* A time of day is its minute of the day: "HH:MM" is 60 * HH + MM, the    *)
(* order of two times is the order of the numbers.                         *)
(***************************************************************************)
EXTENDS Integers

CONSTANTS
    Frequencies,   \* the frequencies requests can name, all of them supported
    Times,         \* the times of day requests can name
    Zones,         \* the time zones requests can name
    None           \* Python's None: no schedule, no generation, no value

SupportedFrequencies == {1, 5, 10, 15, 30, 60}
MinutesOfDay == 0 .. 1439

\* A valid schedule: its two times differ.
ScheduleConfig ==
    { s \in [frequency : Frequencies, start : Times, end : Times, zone : Zones] :
        s.start # s.end }

ASSUME SchedulesAssumption ==
    /\ Frequencies \subseteq SupportedFrequencies
    /\ Times \subseteq MinutesOfDay
    /\ None \notin ScheduleConfig
    /\ None \notin Frequencies \cup Times \cup Zones

(***************************************************************************)
(* The recurring job fires at the minutes of the hour of its cron          *)
(* expression "*", "0" or "*" "/" f; the opening job fires once a day, at  *)
(* the start of the window.                                                *)
(***************************************************************************)
CronMinutes(f) ==
    CASE f = 1  -> 0 .. 59
      [] f = 60 -> {0}
      [] OTHER  -> { m \in 0 .. 59 : \E k \in 0 .. 59 : m = k * f }

\* The test on the wall-clock time by which callbacks are accepted.
IsRecurringBoundary(time, f) == (time % 60) % f = 0

\* The minutes of the daily window, both ends included; a window whose start is
\* after its end spans midnight.
InWindow(time, s) ==
    IF s.start < s.end THEN s.start <= time /\ time <= s.end
                       ELSE s.start <= time \/ time <= s.end

(***************************************************************************)
(* The jobs of a schedule.  The opening job is there only when the start   *)
(* of the window is not one of the recurring minutes.  A job remembers its *)
(* kind, the schedule its trigger was built from and the generation it     *)
(* was registered under.                                                   *)
(***************************************************************************)
Kinds == {"open", "cron"}

JobKinds_RecurringOnly(s) == {"cron"}

JobKinds(s) ==
    IF IsRecurringBoundary(s.start, s.frequency) THEN {"cron"} ELSE Kinds

Job(generations) == [kind : Kinds, schedule : ScheduleConfig, generation : generations]

JobsFor(s, g) ==
    { [kind |-> k, schedule |-> s, generation |-> g] : k \in JobKinds(s) }

\* The minutes of the day at which a job's trigger fires, DST aside.
FiresAt(kind, s, time) ==
    IF kind = "cron" THEN time % 60 \in CronMinutes(s.frequency) ELSE time = s.start

=============================================================================
