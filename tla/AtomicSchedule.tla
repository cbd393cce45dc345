--------------------------- MODULE AtomicSchedule ---------------------------
(***************************************************************************)
(* What settings_service.apply_schedule_change promises (its docstring: "one*)
(* atomic schedule change"): the change its caller asked for takes effect  *)
(* in the process and in Redis together, or in neither, or the caller is   *)
(* told that the rollback is incomplete.  A process that dies during a     *)
(* change starts again with the schedule of before or with one asked for.  *)
(***************************************************************************)
EXTENDS Schedules

CONSTANTS Callers, Requests

VARIABLES
    up,          \* is the process running?
    effective,   \* the schedule the process uses, or will use when it starts
    stored,      \* the schedule a start would load
    request,     \* what each caller has asked for and is not answered yet
    reply,       \* the answer to each caller's last change
    incomplete   \* has a rollback been reported incomplete since the last
                 \* change that succeeded, or the last start?

atomicVars == <<up, effective, stored, request, reply, incomplete>>

KeepOr(value, default) == IF value = None THEN default ELSE value

\* The schedule a request asks for.
Merge(s, r) ==
    [frequency |-> KeepOr(r.frequency, s.frequency), start |-> KeepOr(r.start, s.start),
     end |-> KeepOr(r.end, s.end), zone |-> KeepOr(r.zone, s.zone)]

\* The schedules that the callers who wait for an answer ask for.
Pending == { c \in Callers : reply[c] = "pending" }

Asked(callers) == { Merge(effective, request[c]) : c \in callers } \cap ScheduleConfig

AtomicInit ==
    /\ up = FALSE
    /\ stored \in ScheduleConfig
    /\ effective = stored
    /\ request = [c \in Callers |-> None]
    /\ reply = [c \in Callers |-> "none"]
    /\ incomplete = FALSE

Ask(c) ==
    /\ up
    /\ c \notin Pending
    /\ \E r \in Requests : request' = [request EXCEPT ![c] = r]
    /\ reply' = [reply EXCEPT ![c] = "pending"]
    /\ UNCHANGED <<up, effective, stored, incomplete>>

Answer(c, answer) ==
    /\ up
    /\ c \in Pending
    /\ request' = [request EXCEPT ![c] = None]
    /\ reply' = [reply EXCEPT ![c] = answer]
    /\ UNCHANGED up

Apply(c) ==
    /\ Answer(c, "changed")
    /\ effective' \in Asked({c})
    /\ stored' = effective'
    /\ incomplete' = FALSE

Refuse(c) ==
    /\ Answer(c, "rejected") \/ Answer(c, "update_failed")
    /\ UNCHANGED <<effective, stored, incomplete>>

Spoil(c) ==
    /\ Answer(c, "rollback_failed")
    /\ stored' \in {stored} \cup Asked({c})
    /\ incomplete' = TRUE
    /\ UNCHANGED effective

Die ==
    /\ up
    /\ up' = FALSE
    /\ stored' \in {stored} \cup Asked(Pending)
    /\ effective' = stored'
    /\ request' = [c \in Callers |-> None]
    /\ reply' = [c \in Callers |-> "none"]
    /\ incomplete' = FALSE

Revive ==
    /\ ~up
    /\ up' = TRUE
    /\ UNCHANGED <<effective, stored, request, reply, incomplete>>

AtomicNext ==
    \/ \E c \in Callers : Ask(c) \/ Apply(c) \/ Refuse(c) \/ Spoil(c)
    \/ Die
    \/ Revive

AtomicSpec == AtomicInit /\ [][AtomicNext]_atomicVars

=============================================================================
