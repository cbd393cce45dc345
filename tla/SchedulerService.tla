-------------------------- MODULE SchedulerService --------------------------
(***************************************************************************)
(* services/scheduler_service.py, the replacement of the price-update jobs *)
(* step by step: the current generation is invalidated, the old jobs are   *)
(* removed, the candidate's are registered, and every failure leads to a   *)
(* clean-up and to the registration of the rollback schedule.  Each call   *)
(* into the job queue can fail: a removal for some of the jobs, and a      *)
(* registration after some of them.                                        *)
(*                                                                         *)
(* "stage" is where the running call of schedule_price_update is; the      *)
(* stages of one call are steps of their own although no other coroutine   *)
(* runs between them, so that the order of the code is in the model.       *)
(***************************************************************************)
EXTENDS Schedules

CONSTANT Generations

ASSUME GenerationsAssumption == None \notin Generations

VARIABLES jobs, active, generation, health, outcome,
    stage,   \* "idle", or the step the call is about to make
    call     \* the local variables of the call

serviceVars == <<jobs, active, generation, health, outcome>>
vars == <<jobs, active, generation, health, outcome, stage, call>>

Stages == {"idle", "remove", "register", "cleanup", "restore", "discard"}

NoCall == [candidate |-> None, rollback |-> None, id |-> None,
           queued |-> {}, replaced |-> None]

\* "queued" and "replaced" are history: the jobs and the generation the call
\* found.  No step reads them.
Call == [candidate : ScheduleConfig, rollback : ScheduleConfig \cup {None},
         id : Generations, queued : SUBSET Job(Generations),
         replaced : Generations \cup {None}]

TypeOK ==
    /\ jobs \subseteq Job(Generations)
    /\ active \in ScheduleConfig \cup {None}
    /\ generation \in Generations \cup {None}
    /\ health \in {"active", "degraded"}
    /\ outcome \in {"none", "scheduled", "registration_error", "rollback_error"}
    /\ stage \in Stages
    /\ IF stage = "idle" THEN call = NoCall ELSE call \in Call
    /\ stage \in {"restore", "discard"} => call.rollback # None

Init ==
    /\ jobs = {}
    /\ active = None
    /\ generation = None
    /\ health = "active"
    /\ outcome = "none"
    /\ stage = "idle"
    /\ call = NoCall

(***************************************************************************)
(* The job queue.                                                          *)
(***************************************************************************)

\* remove_price_update_jobs: every job is tried; a job may stay only if an error
\* is raised, and an error may be raised although no job stays.
Removals ==
    { r \in [left : SUBSET jobs, raised : BOOLEAN] : r.left # {} => r.raised }

\* _register_job_specs: in order, the recurring job last; the registration that
\* raises may or may not have queued its job.
Registrations(schedule, g) ==
    { r \in [added : SUBSET JobsFor(schedule, g), raised : BOOLEAN] :
        /\ ~r.raised => r.added = JobsFor(schedule, g)
        /\ (\E j \in r.added : j.kind = "cron") => r.added = JobsFor(schedule, g) }

Fresh(g) ==
    /\ g \in Generations
    /\ g # generation
    /\ \A j \in jobs \cup call.queued : j.generation # g
    /\ g # call.replaced

(***************************************************************************)
(* The ends of a call.                                                     *)
(***************************************************************************)

\* _publish_active_schedule
Publish(schedule, result) ==
    /\ active' = schedule
    /\ generation' = call.id
    /\ health' = "active"
    /\ outcome' = result
    /\ stage' = "idle"
    /\ call' = NoCall

FailDegraded_Silently(result) ==
    /\ active' = None
    /\ generation' = None
    /\ outcome' = result
    /\ stage' = "idle"
    /\ call' = NoCall
    /\ UNCHANGED health

\* _fail_degraded
FailDegraded(result) ==
    /\ active' = None
    /\ generation' = None
    /\ health' = "degraded"
    /\ outcome' = result
    /\ stage' = "idle"
    /\ call' = NoCall

(***************************************************************************)
(* schedule_price_update and _restore_previous_schedule.                   *)
(***************************************************************************)

Begin_KeepingGeneration(candidate, rollback) ==
    /\ stage = "idle"
    /\ \E g \in Generations :
          /\ Fresh(g)
          /\ call' = [candidate |-> candidate,
                      rollback |-> IF rollback = None THEN active ELSE rollback,
                      id |-> g, queued |-> jobs, replaced |-> generation]
    /\ stage' = "remove"
    /\ UNCHANGED <<jobs, active, generation, health, outcome>>

\* The call begins: jobs are planned, then the current generation is invalidated.
Begin(candidate, rollback) ==
    /\ stage = "idle"
    /\ \E g \in Generations :
          /\ Fresh(g)
          /\ call' = [candidate |-> candidate,
                      rollback |-> IF rollback = None THEN active ELSE rollback,
                      id |-> g, queued |-> jobs, replaced |-> generation]
    /\ generation' = None
    /\ stage' = "remove"
    /\ UNCHANGED <<jobs, active, health, outcome>>

Remove_IgnoringErrors ==
    /\ stage = "remove"
    /\ \E r \in Removals : jobs' = r.left
    /\ stage' = "register"
    /\ UNCHANGED <<active, generation, health, outcome, call>>

Remove ==
    /\ stage = "remove"
    /\ \E r \in Removals :
          /\ jobs' = r.left
          /\ stage' = IF r.raised THEN "cleanup" ELSE "register"
    /\ UNCHANGED <<active, generation, health, outcome, call>>

RegisterCandidate ==
    /\ stage = "register"
    /\ \E r \in Registrations(call.candidate, call.id) :
          /\ jobs' = jobs \cup r.added
          /\ IF r.raised
             THEN /\ stage' = "cleanup"
                  /\ UNCHANGED <<active, generation, health, outcome, call>>
             ELSE Publish(call.candidate, "scheduled")

Cleanup_WithoutRollback ==
    /\ stage = "cleanup"
    /\ \E r \in Removals :
          /\ jobs' = r.left
          /\ \/ r.raised /\ FailDegraded("rollback_error")
             \/ /\ ~r.raised
                /\ \E g \in Generations : Fresh(g) /\ call' = [call EXCEPT !.id = g]
                /\ stage' = "restore"
                /\ UNCHANGED <<active, generation, health, outcome>>

Cleanup_IgnoringErrors ==
    /\ stage = "cleanup"
    /\ \E r \in Removals :
          /\ jobs' = r.left
          /\ \/ call.rollback = None /\ FailDegraded("registration_error")
             \/ /\ call.rollback # None
                /\ \E g \in Generations : Fresh(g) /\ call' = [call EXCEPT !.id = g]
                /\ stage' = "restore"
                /\ UNCHANGED <<active, generation, health, outcome>>

Cleanup ==
    /\ stage = "cleanup"
    /\ \E r \in Removals :
          /\ jobs' = r.left
          /\ \/ r.raised /\ FailDegraded("rollback_error")
             \/ /\ ~r.raised /\ call.rollback = None
                /\ FailDegraded("registration_error")
             \/ /\ ~r.raised /\ call.rollback # None
                /\ \E g \in Generations : Fresh(g) /\ call' = [call EXCEPT !.id = g]
                /\ stage' = "restore"
                /\ UNCHANGED <<active, generation, health, outcome>>

RegisterRollback ==
    /\ stage = "restore"
    /\ \E r \in Registrations(call.rollback, call.id) :
          /\ jobs' = jobs \cup r.added
          /\ IF r.raised
             THEN /\ stage' = "discard"
                  /\ UNCHANGED <<active, generation, health, outcome, call>>
             ELSE Publish(call.rollback, "registration_error")

\* The last removal: its own errors are logged and dropped.
Discard ==
    /\ stage = "discard"
    /\ \E r \in Removals : jobs' = r.left
    /\ FailDegraded("rollback_error")

\* reschedule_price_update without a schedule to roll back to.
RefuseReschedule ==
    /\ stage = "idle"
    /\ active = None
    /\ outcome' = "registration_error"
    /\ UNCHANGED <<jobs, active, generation, health, stage, call>>

\* schedule_price_update in a process that has no job queue: nothing was ever
\* registered in it.
WithoutJobQueue ==
    /\ stage = "idle"
    /\ active = None /\ jobs = {}
    /\ health' = "degraded"
    /\ outcome' = "registration_error"
    /\ UNCHANGED <<jobs, active, generation, stage, call>>

\* claim_scheduled_update, when Redis fails.
ClaimFailed ==
    /\ stage = "idle"
    /\ health' = "degraded"
    /\ UNCHANGED <<jobs, active, generation, outcome, stage, call>>

Next ==
    \/ \E candidate \in ScheduleConfig, rollback \in ScheduleConfig \cup {None} :
           Begin(candidate, rollback)
    \/ Remove
    \/ RegisterCandidate
    \/ Cleanup
    \/ RegisterRollback
    \/ Discard
    \/ RefuseReschedule
    \/ WithoutJobQueue
    \/ ClaimFailed

Spec == Init /\ [][Next]_vars

(***************************************************************************)
(* Properties.                                                             *)
(***************************************************************************)

\* Whenever a generation is current, at any step of any call, the queued jobs
\* are exactly the jobs of the active schedule under that generation: no job of
\* it is missing and no job of a failed or replaced registration is among them
\* (schedule_for_callback accepts a callback by its generation alone).
QueueMatchesPublished ==
    generation # None => jobs = JobsFor(active, generation)

\* However many removals and registrations failed before, the queued jobs are
\* all of one generation: a new schedule is never registered beside old jobs.
OneGenerationQueued ==
    \A j, k \in jobs : j.generation = k.generation

\* A schedule is never lost silently: no step leads to "no schedule is active, the
\* state reads active" (what /config_status shows) except from the same state,
\* the one of a process that has not registered anything yet.
LossIsReported ==
    [][active' = None /\ health' = "active" => active = None /\ health = "active"]_vars

\* The replacement step by step is the replacement in one step: a call that is
\* under way is seen as not yet made.
Atomic == INSTANCE ReplaceSchedule WITH
    jobs <- IF stage = "idle" THEN jobs ELSE call.queued,
    generation <- IF stage = "idle" THEN generation ELSE call.replaced

ImplementsReplaceSchedule == Atomic!ServiceSpec

=============================================================================
