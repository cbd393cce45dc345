------------------------- MODULE SettingsBesideLoad -------------------------
(***************************************************************************)
(* SettingsService and ConfigLoad together.  ConfigLoad reads the settings *)
(* beside another process that snapshots, stores, commits or undoes one    *)
(* schedule at a time, dies and starts; here that process is the whole     *)
(* settings service, with its lock, its callers and the scheduler service  *)
(* under it.  So a load is what ConfigLoad shows of it beside every change *)
(* the service makes.                                                      *)
(***************************************************************************)
EXTENDS SettingsService

Sending == {"persist", "activate", "compensate", "restore"}

\* The change under way as Redis sees it.
WriterStage(step) ==
    CASE step = "persist" -> "persist"
      [] step \in {"activate", "restore"} -> "written"
      [] step = "compensate" -> "undo"

Change(stage, candidate, before) ==
    [stage |-> stage, candidate |-> candidate, snapshot |-> before]

ServiceAsWriter ==
    IF ~up THEN Change("down", None, None)
    ELSE IF lock # None /\ pc[lock] \in Sending
         THEN Change(WriterStage(pc[lock]), Candidate(lock), snapshot[lock])
         ELSE Change("idle", None, None)

\* The schedule that the service relies on Redis to keep.
Kept == IF up /\ ~incomplete /\ StoredRaw.frequency # None THEN memory ELSE None

\* The process that loads is idle here: this is about the steps of the writer.
Beside == INSTANCE ConfigLoad WITH
    Candidates <- ScheduleConfig,
    writer <- ServiceAsWriter,
    committed <- Kept,
    stage <- "idle",
    read <- [frequency |-> None, legacy |-> None, start |-> None, end |-> None],
    loaded <- None,
    seen <- {},
    undone <- FALSE,
    quiet <- TRUE

\* To a process that loads its settings the service is the writer of ConfigLoad: its
\* changes reach Redis one at a time, each stored whole, committed or put back, or
\* reported as incomplete, and never touch what an earlier one committed otherwise.
SettingsWriteOneByOne == Beside!Spec

=============================================================================
