------------------------ MODULE SettingsDriveUpdates ------------------------
(***************************************************************************)
(* SettingsService and ScheduledUpdates together.  ScheduledUpdates lets   *)
(* the schedule of a process start, be replaced, be lost and die at any    *)
(* moment; here these four are what the settings service, with the         *)
(* scheduler service under it, does to its process.  So what is shown of   *)
(* the updates under every such behaviour holds for those the changes of   *)
(* the settings produce.                                                   *)
(***************************************************************************)
EXTENDS SettingsService

\* The process as ScheduledUpdates sees it at one instant, between the callbacks,
\* which leave the schedule alone.
Process == {"bot"}
AtProcess(value) == [p \in Process |-> value]

Updates == INSTANCE ScheduledUpdates WITH
    Procs <- Process,
    Plans <- ScheduleConfig,
    Horizon <- 0,
    Wall <- [z \in Zones |-> [t \in {0} |-> [day |-> 0, time |-> 0, fold |-> 0]]],
    now <- 0,
    up <- AtProcess(up),
    jobs <- AtProcess(jobs),
    active <- AtProcess(active),
    generation <- AtProcess(generation),
    settled <- AtProcess(FALSE),
    due <- AtProcess({}),
    calls <- {},
    claims <- {},
    sends <- [k \in { <<s.zone, 0, 0>> : s \in ScheduleConfig } |-> 0]

\* Every step of a change, a start or a crash is, for the updates, a start, a replaced
\* or lost schedule, a crash or nothing: jobs of two schedules are never queued at
\* once and a schedule is never active without the jobs of its own generation.
SettingsDriveUpdates == Updates!Spec

=============================================================================
