----------------------------- MODULE ConfigLoad -----------------------------
(***************************************************************************)
(* config.get_dynamic_settings read by read, and the migration of the      *)
(* legacy interval, in a process that starts while another one still runs  *)
(* and changes the schedule (settings_service.apply_schedule_change: a     *)
(* snapshot, a transaction, and the snapshot written back when something   *)
(* fails).  The two share Redis and nothing else: the lock of the writer   *)
(* is one of its process.  The other process may die in a change, as the   *)
(* one that a deployment replaces does, and start again.                   *)
(*                                                                         *)
(* SettingsService takes the whole of it as one step; this module is about *)
(* when that is right.                                                     *)
(***************************************************************************)
EXTENDS PersistedSettings

CONSTANTS
    Candidates,   \* the schedules that the other process changes to
    InitialRaw    \* what Redis may hold at first

ASSUME LoadAssumption ==
    /\ Candidates \subseteq ScheduleConfig
    /\ InitialRaw \subseteq Raw

VARIABLES
    raw,        \* the five keys in Redis
    stage,      \* the next call that the starting process makes
    read,       \* what it has read: [frequency, legacy, start, end]
    loaded,     \* the schedule it has loaded
    writer,     \* the other process: its stage, candidate and snapshot
    committed,  \* history: the schedule that the other process has stored: that of its
                \* last change that succeeded, or the one it found when it started
    seen,       \* history: what Redis has held since the load began
    undone,     \* history: has a change been undone since then?
    quiet       \* history: has nobody else written since then?

vars == <<raw, stage, read, loaded, writer, committed, seen, undone, quiet>>
loadVars == <<stage, read, loaded>>
pastVars == <<seen, undone, quiet>>

Stages == {"idle", "frequency", "legacy", "migrate", "reread", "start", "end", "zone", "done"}
Read == [frequency : Frequencies \cup {None}, legacy : LegacyValues \cup {None},
         start : Times \cup {None, Corrupt}, end : Times \cup {None, Corrupt}]
Unread == [frequency |-> None, legacy |-> None, start |-> None, end |-> None]

Writer == [stage : {"down", "idle", "persist", "written", "undo"},
           candidate : Candidates \cup {None}, snapshot : Raw \cup {None}]
NoChange == [stage |-> "idle", candidate |-> None, snapshot |-> None]
Down == [NoChange EXCEPT !.stage = "down"]

TypeOK ==
    /\ raw \in Raw
    /\ stage \in Stages
    /\ read \in Read
    /\ loaded \in ScheduleConfig \cup {None}
    /\ writer \in Writer
    /\ committed \in ScheduleConfig \cup {None}
    /\ seen \subseteq Raw
    /\ undone \in BOOLEAN
    /\ quiet \in BOOLEAN

Init ==
    /\ raw \in InitialRaw
    /\ stage = "idle"
    /\ read = Unread
    /\ loaded = None
    /\ writer \in {NoChange, Down}
    /\ committed = None
    /\ seen = {}
    /\ undone = FALSE
    /\ quiet = TRUE

(***************************************************************************)
(* The starting process.                                                   *)
(***************************************************************************)

OrElse(value, default) == IF Valid(value) THEN value ELSE default

Begin ==
    /\ stage \in {"idle", "done"}
    /\ stage' = "frequency"
    /\ read' = Unread
    /\ loaded' = None
    /\ seen' = {raw}
    /\ undone' = FALSE
    /\ quiet' = TRUE
    /\ UNCHANGED <<raw, writer, committed>>

\* What every call of the load leaves alone.
Reads ==
    /\ UNCHANGED <<raw, writer, committed, undone, quiet>>
    /\ seen' = seen \cup {raw}

\* The canonical frequency; without one the legacy interval is read.
ReadFrequency ==
    /\ stage = "frequency"
    /\ IF raw.frequency = None
       THEN stage' = "legacy" /\ UNCHANGED read
       ELSE /\ stage' = "start"
            /\ read' = [read EXCEPT !.frequency = OrElse(raw.frequency, Env.frequency)]
    /\ UNCHANGED loaded
    /\ Reads

ReadLegacy_Seconds ==
    /\ stage = "legacy"
    /\ IF raw.legacy \in Frequencies
       THEN stage' = "migrate" /\ read' = [read EXCEPT !.legacy = 60 * raw.legacy]
       ELSE /\ stage' = "start"
            /\ read' = [read EXCEPT !.frequency = Env.frequency]
    /\ UNCHANGED loaded
    /\ Reads

ReadLegacy ==
    /\ stage = "legacy"
    /\ IF Valid(raw.legacy)
       THEN stage' = "migrate" /\ read' = [read EXCEPT !.legacy = raw.legacy]
       ELSE /\ stage' = "start"
            /\ read' = [read EXCEPT !.frequency = Env.frequency]
    /\ UNCHANGED loaded
    /\ Reads

Migrate_WithoutStoring ==
    /\ stage = "migrate"
    /\ IF raw.frequency = None
       THEN /\ stage' = "start"
            /\ read' = [read EXCEPT !.frequency = read.legacy \div 60]
       ELSE stage' = "reread" /\ UNCHANGED read
    /\ UNCHANGED loaded
    /\ Reads

Migrate_WithoutNX ==
    /\ stage = "migrate"
    /\ raw' = [raw EXCEPT !.frequency = read.legacy \div 60]
    /\ stage' = "start"
    /\ read' = [read EXCEPT !.frequency = read.legacy \div 60]
    /\ seen' = seen \cup {raw'}
    /\ UNCHANGED <<loaded, writer, committed, undone, quiet>>

\* SET NX: the interval becomes the canonical frequency unless there is one by now.
Migrate ==
    /\ stage = "migrate"
    /\ IF raw.frequency = None
       THEN /\ raw' = [raw EXCEPT !.frequency = read.legacy \div 60]
            /\ stage' = "start"
            /\ read' = [read EXCEPT !.frequency = read.legacy \div 60]
       ELSE stage' = "reread" /\ UNCHANGED <<raw, read>>
    /\ seen' = seen \cup {raw'}
    /\ UNCHANGED <<loaded, writer, committed, undone, quiet>>

\* The canonical frequency that was there is read.
Reread ==
    /\ stage = "reread"
    /\ stage' = "start"
    /\ read' = [read EXCEPT !.frequency = OrElse(raw.frequency, Env.frequency)]
    /\ UNCHANGED loaded
    /\ Reads

ReadStart ==
    /\ stage = "start"
    /\ stage' = "end"
    /\ read' = [read EXCEPT !.start = raw.start]
    /\ UNCHANGED loaded
    /\ Reads

ReadEnd ==
    /\ stage = "end"
    /\ stage' = "zone"
    /\ read' = [read EXCEPT !.end = raw.end]
    /\ UNCHANGED loaded
    /\ Reads

Window_Unvalidated ==
    LET start == IF read.start = None THEN Env.start ELSE read.start
        end   == IF read.end = None THEN Env.end ELSE read.end
    IN  IF Valid(start) /\ Valid(end)
        THEN <<start, end>> ELSE <<Env.start, Env.end>>

Window ==
    LET start == IF read.start = None THEN Env.start ELSE read.start
        end   == IF read.end = None THEN Env.end ELSE read.end
    IN  IF Valid(start) /\ Valid(end) /\ start # end
        THEN <<start, end>> ELSE <<Env.start, Env.end>>

\* The window is validated as a pair, the zone is read, and all becomes effective.
ReadZone ==
    /\ stage = "zone"
    /\ stage' = "done"
    /\ loaded' = [frequency |-> read.frequency, start |-> Window[1], end |-> Window[2],
                  zone |-> OrElse(raw.zone, Env.zone)]
    /\ UNCHANGED read
    /\ Reads

\* An error of Redis ends the process; that of the migration may come after it.
LoadFails ==
    /\ stage \notin {"idle", "done"}
    /\ raw' \in {raw} \cup (IF stage = "migrate" /\ raw.frequency = None
                            THEN {[raw EXCEPT !.frequency = read.legacy \div 60]} ELSE {})
    /\ stage' = "idle"
    /\ read' = Unread
    /\ UNCHANGED <<loaded, writer, committed, pastVars>>

(***************************************************************************)
(* The process that still runs.                                            *)
(***************************************************************************)

\* The starting process may be between two of its calls.
Loading == stage \notin {"idle", "done"}
Past(undo) ==
    /\ seen' = IF Loading THEN seen \cup {raw'} ELSE seen
    /\ undone' = (undone \/ (Loading /\ undo))
    /\ quiet' = (quiet /\ (Loading => raw' = raw))

WriterSnapshot ==
    /\ writer.stage = "idle"
    /\ \E s \in Candidates :
          writer' = [stage |-> "persist", candidate |-> s, snapshot |-> raw]
    /\ UNCHANGED <<raw, loadVars, committed, pastVars>>

WriterPersist ==
    /\ writer.stage = "persist"
    /\ raw' = Persisted(writer.candidate)
    /\ writer' = [writer EXCEPT !.stage = "written"]
    /\ Past(FALSE)
    /\ UNCHANGED <<loadVars, committed>>

WriterError ==
    /\ writer.stage = "persist"
    /\ raw' \in {raw, Persisted(writer.candidate)}
    /\ writer' = [writer EXCEPT !.stage = "undo"]
    /\ Past(FALSE)
    /\ UNCHANGED <<loadVars, committed>>

\* The jobs are registered: the change is answered with success ...
WriterCommit ==
    /\ writer.stage = "written"
    /\ writer' = NoChange
    /\ committed' = writer.candidate
    /\ UNCHANGED <<raw, loadVars, pastVars>>

\* ... or they are not, and the snapshot is written back.
WriterUndo ==
    /\ writer.stage \in {"written", "undo"}
    /\ raw' = writer.snapshot
    /\ writer' = NoChange
    /\ Past(TRUE)
    /\ UNCHANGED <<loadVars, committed>>

\* That fails as well: the change is answered as incomplete, and Redis has either.
WriterUndoError ==
    /\ writer.stage \in {"written", "undo"}
    /\ raw' \in {raw, writer.snapshot}
    /\ writer' = NoChange
    /\ committed' = None
    /\ Past(TRUE)
    /\ UNCHANGED loadVars

\* The other process dies; of a transaction that it had sent nothing more is known.
WriterCrash ==
    /\ writer.stage # "down"
    /\ raw' \in {raw} \cup
           CASE writer.stage = "idle" -> {}
             [] writer.stage = "persist" -> {Persisted(writer.candidate)}
             [] writer.stage \in {"written", "undo"} -> {writer.snapshot}
    /\ writer' = Down
    /\ committed' = None
    /\ Past(writer.stage \in {"written", "undo"})
    /\ UNCHANGED loadVars

\* It starts again, or dies at that; its own load is one step here.
WriterStart ==
    /\ writer.stage = "down"
    /\ raw' = Migrated(raw)
    /\ \/ /\ writer' = NoChange
          /\ committed' = IF raw'.frequency = None THEN None ELSE Load(raw)
       \/ UNCHANGED <<writer, committed>>
    /\ Past(FALSE)
    /\ UNCHANGED loadVars

Next ==
    \/ Begin \/ ReadFrequency \/ ReadLegacy \/ Migrate \/ Reread
    \/ ReadStart \/ ReadEnd \/ ReadZone \/ LoadFails
    \/ WriterSnapshot \/ WriterPersist \/ WriterError \/ WriterCommit \/ WriterUndo
    \/ WriterUndoError \/ WriterCrash \/ WriterStart

Spec == Init /\ [][Next]_vars

(***************************************************************************)
(* Properties.                                                             *)
(***************************************************************************)

\* When nobody else writes, reading key by key and migrating is the one step that
\* SettingsService.Start takes it for: it ends with what the keys meant at its
\* beginning, leaves them with that meaning, and leaves nothing to migrate.
QuietLoadIsAtomic ==
    [][stage = "zone" /\ stage' = "done" /\ quiet =>
          (\A r \in seen : Load(r) = loaded') /\ Migrated(raw) = raw]_vars

\* A change that was answered with success is what Redis holds until the next one
\* succeeds: the migration of another process, begun before it, does not overwrite it
\* (tests/test_config.py, line 71), nor a schedule that its process found stored.
ChangesSurviveMigration ==
    committed # None /\ writer.stage \in {"idle", "persist"} => Load(raw) = committed

\* The frequency that is loaded was in effect in Redis at some time during the load,
\* although it is put together from up to four calls between which another process
\* changes, undoes and migrates it.  There is one exception: the migration gives way to
\* a frequency that is undone before it is read, and the environment's is taken, which
\* Redis may never have meant: the interval that was read first is back.
FrequencyWasInEffect ==
    stage = "done" =>
        \/ \E r \in seen : Load(r).frequency = loaded.frequency
        \/ undone /\ read.legacy # None /\ loaded.frequency = Env.frequency

=============================================================================
