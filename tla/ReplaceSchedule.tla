-------------------------- MODULE ReplaceSchedule --------------------------
(***************************************************************************)
(* What scheduler_service.schedule_price_update promises its callers: a    *)
(* replacement of the price-update jobs seen as one step.  The function    *)
(* is synchronous and the program has one event loop, so nothing else in   *)
(* the process sees it half done.  It ends in one of three ways:           *)
(*                                                                         *)
(*   Replaced   the candidate's jobs, all of them, are the queued jobs     *)
(*              and its generation is the current one;                     *)
(*   Restored   an error was raised, the rollback schedule's jobs are the  *)
(*              queued ones, under a generation of their own;              *)
(*   Lost       an error was raised and no schedule is active; what is     *)
(*              still queued belongs to a generation nobody accepts.       *)
(*                                                                         *)
(* SchedulerService implements this module step by step and SettingsService*)
(* uses its actions as the outcomes of the call it makes.                  *)
(***************************************************************************)
EXTENDS Schedules

CONSTANT Generations   \* the identifiers uuid4() draws from

ASSUME GenerationsAssumption == None \notin Generations

VARIABLES
    jobs,         \* the price-update jobs in the job queue
    active,       \* _active_schedule
    generation,   \* _active_schedule_generation
    health,       \* _schedule_state
    outcome       \* how the last call ended

serviceVars == <<jobs, active, generation, health, outcome>>

Outcomes == {"none", "scheduled", "registration_error", "rollback_error"}

ServiceTypeOK ==
    /\ jobs \subseteq Job(Generations)
    /\ active \in ScheduleConfig \cup {None}
    /\ generation \in Generations \cup {None}
    /\ health \in {"active", "degraded"}
    /\ outcome \in Outcomes

\* The state of the module when the process starts.
ServiceInit ==
    /\ jobs = {}
    /\ active = None
    /\ generation = None
    /\ health = "active"
    /\ outcome = "none"

\* uuid4(): an identifier that nothing refers to any more may stand for one
\* never used, so that a finite set of identifiers is enough.
Fresh(g) ==
    /\ g \in Generations
    /\ g # generation
    /\ \A j \in jobs : j.generation # g

EffectiveRollback(rollback) == IF rollback = None THEN active ELSE rollback

Published_SameGeneration(schedule, result) ==
    \E g \in Generations :
        /\ IF generation = None THEN Fresh(g) ELSE g = generation
        /\ jobs' = JobsFor(schedule, g)
        /\ active' = schedule
        /\ generation' = g
        /\ health' = "active"
        /\ outcome' = result

Published(schedule, result) ==
    \E g \in Generations :
        /\ Fresh(g)
        /\ jobs' = JobsFor(schedule, g)
        /\ active' = schedule
        /\ generation' = g
        /\ health' = "active"
        /\ outcome' = result

Replaced(candidate) == Published(candidate, "scheduled")

Restored(rollback) ==
    /\ EffectiveRollback(rollback) # None
    /\ Published(EffectiveRollback(rollback), "registration_error")

\* Some jobs of one generation may be left: those of before the call, or those
\* of the candidate or of the rollback schedule, when removing them failed.
Leftover(candidate, rollback) ==
    \/ jobs' \in SUBSET jobs
    \/ \E s \in {candidate, EffectiveRollback(rollback)}, g \in Generations :
          /\ s # None /\ Fresh(g)
          /\ jobs' \in SUBSET JobsFor(s, g)

Lost_Silently(candidate, rollback) ==
    /\ Leftover(candidate, rollback)
    /\ active' = None
    /\ generation' = None
    /\ outcome' \in {"registration_error", "rollback_error"}
    /\ outcome' = "registration_error" =>
           EffectiveRollback(rollback) = None /\ jobs' = {}
    /\ UNCHANGED health

Lost(candidate, rollback) ==
    /\ Leftover(candidate, rollback)
    /\ active' = None
    /\ generation' = None
    /\ health' = "degraded"
    /\ outcome' \in {"registration_error", "rollback_error"}
    /\ outcome' = "registration_error" =>
           EffectiveRollback(rollback) = None /\ jobs' = {}

\* schedule_price_update(..., schedule=candidate, rollback_schedule=rollback)
SchedulePriceUpdate(candidate, rollback) ==
    \/ Replaced(candidate)
    \/ Restored(rollback)
    \/ Lost(candidate, rollback)

\* reschedule_price_update: refused when there is nothing to roll back to.
RefusedWithoutRollback(rollback) ==
    /\ EffectiveRollback(rollback) = None
    /\ outcome' = "registration_error"
    /\ UNCHANGED <<jobs, active, generation, health>>

\* claim_scheduled_update: a claim that fails in Redis marks the service degraded.
ClaimFailed ==
    /\ health' = "degraded"
    /\ UNCHANGED <<jobs, active, generation, outcome>>

\* schedule_price_update without a job queue, as at a start without one.
WithoutJobQueue ==
    /\ active = None /\ jobs = {}
    /\ health' = "degraded"
    /\ outcome' = "registration_error"
    /\ UNCHANGED <<jobs, active, generation>>

ServiceNext ==
    \/ \E candidate \in ScheduleConfig, rollback \in ScheduleConfig \cup {None} :
           SchedulePriceUpdate(candidate, rollback)
    \/ RefusedWithoutRollback(None)
    \/ ClaimFailed
    \/ WithoutJobQueue

ServiceSpec == ServiceInit /\ [][ServiceNext]_serviceVars

=============================================================================
