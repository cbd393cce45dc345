-------------------------- MODULE ConfigLoad_proofs --------------------------
(***************************************************************************)
(* For every environment, every content of Redis and every candidate: a    *)
(* load beside no writer is atomic, the frequency that is loaded was in    *)
(* effect, and a change that succeeded outlives the migration of a process *)
(* that starts, whenever the process that changes them dies and starts.    *)
(***************************************************************************)
EXTENDS ConfigLoad, PersistedSettings_proofs, TLAPS

ReadInv ==
    /\ stage \in {"migrate", "reread"} => read.legacy # None
    /\ stage \in {"start", "end", "zone"} => read.frequency # None

WriterInv ==
    writer.stage \notin {"down", "idle"} => writer.candidate # None /\ writer.snapshot # None

\* What a load has read beside no writer is still there.
QuietInv ==
    quiet =>
        /\ stage \notin {"idle", "done"} => \A r \in seen : Load(r) = Load(raw)
        /\ stage \in {"legacy", "migrate"} => raw.frequency = None
        /\ stage = "migrate" => read.legacy = raw.legacy /\ Valid(raw.legacy)
        /\ stage # "reread"
        /\ stage \in {"start", "end", "zone"} =>
              read.frequency = Load(raw).frequency /\ Migrated(raw) = raw
        /\ stage \in {"end", "zone"} => read.start = raw.start
        /\ stage = "zone" => read.end = raw.end

\* Once a change has succeeded there is a canonical frequency, and no migration.
CommitInv ==
    /\ writer.stage = "down" => committed = None
    /\ writer.stage = "written" => raw = Persisted(writer.candidate)
    /\ committed # None =>
          /\ raw.frequency # None
          /\ writer.stage \in {"idle", "persist"} => Load(raw) = committed
          /\ writer.stage # "idle" =>
                writer.snapshot.frequency # None /\ Load(writer.snapshot) = committed

\* A frequency that Redis has no more was not there either when the change under way
\* took its snapshot: what is undone then is no frequency.
SnapshotInv ==
    raw.frequency = None /\ writer.snapshot # None => writer.snapshot.frequency = None

\* Without a frequency the legacy interval tells what the keys mean.
Legible(r) == r.frequency = None \/ Valid(r.legacy)

\* The exception: the migration gave way to a frequency that was undone.
GaveWay == undone /\ read.legacy # None /\ read.frequency = Env.frequency

\* What a load has read so far was in effect in a state it has seen; a frequency that
\* appeared after it was missed came with a legacy interval, and so does one that is
\* written back.
SeenInv ==
    /\ Loading => raw \in seen
    /\ stage = "legacy" =>
          Legible(raw) /\ (writer.snapshot # None => Legible(writer.snapshot))
    /\ stage = "reread" => undone \/ raw.frequency # None
    /\ stage \in {"start", "end", "zone"} =>
          GaveWay \/ \E r \in seen : Load(r).frequency = read.frequency

IInv ==
    /\ TypeOK /\ ReadInv /\ WriterInv /\ QuietInv /\ CommitInv
    /\ SnapshotInv /\ SeenInv /\ FrequencyWasInEffect

\* The records of this module, field by field.
LEMMA Fields ==
    /\ NoChange \in Writer /\ NoChange.stage = "idle" /\ Unread \in Read
    /\ Down \in Writer /\ Down.stage = "down"
    /\ \A w \in Writer :
          /\ w.candidate # None => w.candidate \in ScheduleConfig /\ w.candidate \in Candidates
          /\ w.snapshot # None => w.snapshot \in Raw
    /\ \A r \in Read :
          /\ r.frequency \in Frequencies \cup {None} /\ r.legacy \in LegacyValues \cup {None}
          /\ r.start \in Times \cup {None, Corrupt} /\ r.end \in Times \cup {None, Corrupt}
    /\ \A r \in Raw :
          /\ r.frequency \in Frequencies \cup {None, Corrupt}
          /\ r.legacy \in LegacyValues \cup {None, Corrupt}
          /\ r.start \in Times \cup {None, Corrupt} /\ r.end \in Times \cup {None, Corrupt}
          /\ r.zone \in Zones \cup {None, Corrupt}
  BY LoadAssumption DEF NoChange, Down, Writer, Unread, Read, Raw

LEMMA EnvFields ==
    /\ Env.frequency \in Frequencies /\ Env.start \in Times /\ Env.end \in Times
    /\ Env.zone \in Zones /\ Env.start # Env.end
    /\ None \notin Frequencies \cup LegacyValues
  BY PersistedAssumption, SchedulesAssumption DEF ScheduleConfig

\* SET NX stores what the migration of the keys would.
LEMMA MigrateRaw ==
    ASSUME NEW r \in Raw, NEW v \in LegacyValues, r.frequency = None
    PROVE  /\ [r EXCEPT !.frequency = v \div 60] \in Raw
           /\ [r EXCEPT !.frequency = v \div 60].frequency # None
           /\ r.legacy = v => [r EXCEPT !.frequency = v \div 60] = Migrated(r)
           /\ Migrated([r EXCEPT !.frequency = v \div 60]) = [r EXCEPT !.frequency = v \div 60]
<1>1. v \div 60 \in Frequencies
  BY LegacyDivision
<1>2. [r EXCEPT !.frequency = v \div 60] \in Raw /\ v \div 60 # None
  BY <1>1, EnvFields DEF Raw
<1>3. [r EXCEPT !.frequency = v \div 60].frequency = v \div 60
  BY DEF Raw
<1>4. r.legacy = v => Valid(r.legacy)
  BY PersistedAssumption DEF Valid
<1> QED BY <1>2, <1>3, <1>4 DEF Migrated

LEMMA InitInv == Init => IInv
<1> SUFFICES ASSUME Init PROVE IInv
  OBVIOUS
<1>1. raw \in Raw
  BY LoadAssumption, LoadIsValid DEF Init
<1>2. TypeOK
  BY <1>1, Fields DEF Init, TypeOK, Stages
<1>3. ReadInv /\ WriterInv /\ QuietInv /\ CommitInv
  BY Fields DEF Init, ReadInv, WriterInv, QuietInv, CommitInv
<1>4. SnapshotInv /\ SeenInv /\ FrequencyWasInEffect
  BY Fields DEF Init, SnapshotInv, SeenInv, Loading, FrequencyWasInEffect, NoChange, Down
<1> QED BY <1>2, <1>3, <1>4 DEF IInv

(***************************************************************************)
(* Types.                                                                  *)
(***************************************************************************)

\* The types of what the other process leaves alone.
LEMMA LoadTypeStep ==
    ASSUME TypeOK, ReadInv,
           \/ Begin \/ ReadFrequency \/ ReadLegacy \/ Migrate \/ Reread
           \/ ReadStart \/ ReadEnd \/ ReadZone \/ LoadFails
    PROVE  TypeOK' /\ ReadInv'
<1> USE Fields, EnvFields DEF TypeOK, Stages, Valid, OrElse
<1>1. CASE Begin
  BY <1>1 DEF Begin, ReadInv
<1>2. CASE ReadFrequency
  <2>1. read' \in Read
    BY <1>2 DEF ReadFrequency, Read
  <2>2. ReadInv'
    BY <1>2 DEF ReadFrequency, ReadInv, Read
  <2> QED BY <1>2, <2>1, <2>2 DEF ReadFrequency, Reads
<1>3. CASE ReadLegacy
  <2>1. read' \in Read
    BY <1>3 DEF ReadLegacy, Read
  <2>2. ReadInv'
    BY <1>3 DEF ReadLegacy, ReadInv, Read
  <2> QED BY <1>3, <2>1, <2>2 DEF ReadLegacy, Reads
<1>4. CASE Migrate
  <2>1. read.legacy \in LegacyValues /\ read.legacy \div 60 \in Frequencies
    BY <1>4, LegacyDivision DEF Migrate, ReadInv
  <2>2. raw' \in Raw
    BY <1>4, <2>1, MigrateRaw DEF Migrate
  <2>3. read' \in Read
    BY <1>4, <2>1 DEF Migrate, Read
  <2>4. ReadInv'
    BY <1>4, <2>1 DEF Migrate, ReadInv, Read
  <2> QED BY <1>4, <2>2, <2>3, <2>4 DEF Migrate
<1>5. CASE Reread
  <2>1. read' \in Read
    BY <1>5 DEF Reread, Read
  <2>2. ReadInv'
    BY <1>5 DEF Reread, ReadInv, Read
  <2> QED BY <1>5, <2>1, <2>2 DEF Reread, Reads
<1>6. CASE ReadStart
  <2>1. read' \in Read /\ read'.frequency = read.frequency
    BY <1>6 DEF ReadStart, Read
  <2> QED BY <1>6, <2>1 DEF ReadStart, Reads, ReadInv
<1>7. CASE ReadEnd
  <2>1. read' \in Read /\ read'.frequency = read.frequency
    BY <1>7 DEF ReadEnd, Read
  <2> QED BY <1>7, <2>1 DEF ReadEnd, Reads, ReadInv
<1>8. CASE ReadZone
  <2>1. read.frequency \in Frequencies
    BY <1>8 DEF ReadZone, ReadInv
  <2>2. Window[1] \in Times /\ Window[2] \in Times /\ Window[1] # Window[2]
    BY DEF Window
  <2>3. loaded' \in ScheduleConfig
    BY <1>8, <2>1, <2>2 DEF ReadZone, ScheduleConfig
  <2> QED BY <1>8, <2>3 DEF ReadZone, Reads, ReadInv
<1>9. CASE LoadFails
  <2>1. raw' \in Raw
    BY <1>9, MigrateRaw DEF LoadFails, ReadInv
  <2> QED BY <1>9, <2>1 DEF LoadFails, pastVars, ReadInv
<1> QED
  BY <1>1, <1>2, <1>3, <1>4, <1>5, <1>6, <1>7, <1>8, <1>9

LEMMA WriterTypeStep ==
    ASSUME TypeOK, WriterInv,
           WriterSnapshot \/ WriterPersist \/ WriterError \/ WriterCommit \/ WriterUndo
               \/ WriterUndoError \/ WriterCrash \/ WriterStart
    PROVE  TypeOK' /\ WriterInv' /\ UNCHANGED <<stage, read, loaded>>
<1> USE Fields DEF TypeOK, WriterInv, loadVars, pastVars
<1>1. CASE WriterSnapshot
  <2>1. PICK s \in Candidates :
           writer' = [stage |-> "persist", candidate |-> s, snapshot |-> raw]
    BY <1>1 DEF WriterSnapshot
  <2>2. writer' \in Writer /\ s # None /\ raw # None
    BY <2>1, PersistedAssumption, LoadAssumption, SchedulesAssumption DEF Writer
  <2> QED BY <1>1, <2>1, <2>2 DEF WriterSnapshot
<1>2. CASE WriterPersist \/ WriterError
  <2>1. /\ writer.candidate \in ScheduleConfig /\ writer.candidate # None
        /\ writer.snapshot # None
    BY <1>2 DEF WriterPersist, WriterError
  <2>2. raw' \in Raw
    BY <1>2, <2>1, PersistedRoundTrip DEF WriterPersist, WriterError
  <2>3. writer' \in Writer /\ writer'.candidate # None /\ writer'.snapshot # None
    BY <1>2, <2>1 DEF WriterPersist, WriterError, Writer
  <2> QED BY <1>2, <2>2, <2>3 DEF WriterPersist, WriterError, Past
<1>3. CASE WriterCommit
  BY <1>3 DEF WriterCommit
<1>4. CASE WriterUndo
  BY <1>4 DEF WriterUndo, Past
<1>5. CASE WriterUndoError
  <2>1. raw' \in Raw
    BY <1>5 DEF WriterUndoError
  <2> QED BY <1>5, <2>1, LoadIsValid DEF WriterUndoError, Past
<1>6. CASE WriterCrash
  <2>1. raw' \in Raw
    BY <1>6, PersistedRoundTrip DEF WriterCrash, Writer
  <2> QED BY <1>6, <2>1 DEF WriterCrash, Past
<1>7. CASE WriterStart
  <2>1. raw' \in Raw /\ Load(raw) \in ScheduleConfig
    BY <1>7, MigrationKeepsSettings, LoadIsValid DEF WriterStart
  <2> QED BY <1>7, <2>1 DEF WriterStart, Past
<1> QED
  BY <1>1, <1>2, <1>3, <1>4, <1>5, <1>6, <1>7

(***************************************************************************)
(* A load beside no writer.                                                *)
(***************************************************************************)

LEMMA QuietStep ==
    ASSUME TypeOK, ReadInv, QuietInv, [Next]_vars
    PROVE  QuietInv'
<1> USE Fields, EnvFields DEF TypeOK
<1>1. CASE Begin
  BY <1>1 DEF Begin, QuietInv
<1>2. CASE ReadFrequency
  BY <1>2 DEF ReadFrequency, Reads, QuietInv, Read, Load, Migrated, OrElse, Valid
<1>3. CASE ReadLegacy
  BY <1>3 DEF ReadLegacy, Reads, QuietInv, Read, Load, Migrated, Valid
<1>4. CASE Migrate
  <2>1. CASE quiet
    <3>1. /\ raw.frequency = None /\ Valid(raw.legacy) /\ read.legacy = raw.legacy
          /\ \A r \in seen : Load(r) = Load(raw)
      BY <1>4, <2>1 DEF Migrate, QuietInv
    <3>2. raw' = Migrated(raw) /\ Migrated(raw') = raw'
      BY <1>4, <3>1, MigrateRaw DEF Migrate, Valid
    <3>3. Load(raw') = Load(raw) /\ raw' \in Raw
      BY <3>2, MigrationKeepsSettings
    <3>4. read'.frequency = Load(raw).frequency
      BY <1>4, <3>1, PersistedAssumption DEF Migrate, Load, Read, Valid
    <3>5. stage' = "start" /\ seen' = seen \cup {raw'}
      BY <1>4, <3>1 DEF Migrate
    <3> QED BY <3>1, <3>2, <3>3, <3>4, <3>5 DEF QuietInv
  <2> QED BY <1>4, <2>1 DEF Migrate, QuietInv
<1>5. CASE Reread
  BY <1>5 DEF Reread, Reads, QuietInv
<1>6. CASE ReadStart
  BY <1>6 DEF ReadStart, Reads, QuietInv, Read
<1>7. CASE ReadEnd
  BY <1>7 DEF ReadEnd, Reads, QuietInv, Read
<1>8. CASE ReadZone
  BY <1>8 DEF ReadZone, Reads, QuietInv
<1>9. CASE LoadFails
  BY <1>9 DEF LoadFails, pastVars, QuietInv
<1>10. CASE \/ WriterPersist \/ WriterError \/ WriterUndo \/ WriterUndoError
            \/ WriterCrash \/ WriterStart
  <2>1. /\ quiet' = (quiet /\ (Loading => raw' = raw)) /\ UNCHANGED <<stage, read>>
        /\ seen' = IF Loading THEN seen \cup {raw'} ELSE seen
    BY <1>10 DEF WriterPersist, WriterError, WriterUndo, WriterUndoError, WriterCrash,
                 WriterStart, Past, loadVars
  <2>2. CASE Loading
    BY <2>1, <2>2 DEF QuietInv
  <2>3. CASE ~Loading
    BY <2>1, <2>3 DEF QuietInv, Loading
  <2> QED BY <2>2, <2>3
<1>11. CASE WriterSnapshot \/ WriterCommit \/ UNCHANGED vars
  BY <1>11 DEF WriterSnapshot, WriterCommit, vars, loadVars, pastVars, QuietInv
<1> QED
  BY <1>1, <1>2, <1>3, <1>4, <1>5, <1>6, <1>7, <1>8, <1>9, <1>10, <1>11 DEF Next

(***************************************************************************)
(* Changes that succeeded.                                                 *)
(***************************************************************************)

LEMMA PersistedFrequency ==
    ASSUME NEW s \in ScheduleConfig
    PROVE  Persisted(s).frequency # None
  BY EnvFields DEF Persisted, ScheduleConfig

LEMMA CommitStep ==
    ASSUME TypeOK, ReadInv, WriterInv, CommitInv, [Next]_vars
    PROVE  CommitInv'
<1> USE Fields, EnvFields DEF TypeOK
<1>1. CASE UNCHANGED <<raw, writer, committed>>
  BY <1>1 DEF CommitInv
<1>2. ASSUME raw.frequency = None, stage = "migrate",
             raw' = [raw EXCEPT !.frequency = read.legacy \div 60],
             UNCHANGED <<writer, committed>>
      PROVE  CommitInv'
  <2>1. committed = None
    BY <1>2 DEF CommitInv
  <2>2. writer.stage # "written"
    BY <1>2, PersistedFrequency DEF CommitInv, WriterInv
  <2> QED BY <1>2, <2>1, <2>2 DEF CommitInv
<1>3. CASE Migrate \/ LoadFails
  BY <1>1, <1>2, <1>3 DEF Migrate, LoadFails
<1>4. CASE WriterSnapshot
  <2>1. UNCHANGED <<raw, committed>>
    BY <1>4 DEF WriterSnapshot
  <2>2. writer.stage = "idle" /\ writer'.stage = "persist" /\ writer'.snapshot = raw
    BY <1>4 DEF WriterSnapshot
  <2> QED BY <2>1, <2>2 DEF CommitInv
<1>5. CASE WriterPersist \/ WriterError
  <2>1. /\ writer.stage = "persist" /\ writer'.stage \in {"written", "undo"}
        /\ writer'.candidate = writer.candidate /\ writer'.snapshot = writer.snapshot
        /\ UNCHANGED committed
        /\ raw' \in {raw, Persisted(writer.candidate)}
        /\ writer'.stage = "written" => raw' = Persisted(writer.candidate)
    BY <1>5 DEF WriterPersist, WriterError, Writer
  <2>2. Persisted(writer.candidate).frequency # None
    BY <2>1, PersistedFrequency DEF WriterInv
  <2> QED BY <2>1, <2>2 DEF CommitInv
<1>6. CASE WriterCommit
  <2>1. /\ raw = Persisted(writer.candidate) /\ writer.candidate \in ScheduleConfig
        /\ UNCHANGED raw /\ writer' = NoChange /\ committed' = writer.candidate
    BY <1>6 DEF WriterCommit, CommitInv, WriterInv
  <2>2. Load(raw) = writer.candidate /\ raw.frequency # None
    BY <2>1, PersistedRoundTrip, PersistedFrequency
  <2> QED BY <2>1, <2>2 DEF CommitInv
<1>7. CASE WriterUndo
  BY <1>7 DEF WriterUndo, CommitInv
<1>8. CASE WriterUndoError \/ WriterCrash
  BY <1>8 DEF WriterUndoError, WriterCrash, CommitInv
<1>10. CASE WriterStart
  <2>1. raw' = Migrated(raw) /\ Load(raw') = Load(raw) /\ writer.stage = "down"
    BY <1>10, MigrationKeepsSettings DEF WriterStart
  <2>2. \/ /\ writer' = NoChange
           /\ committed' = IF raw'.frequency = None THEN None ELSE Load(raw)
        \/ UNCHANGED <<writer, committed>>
    BY <1>10 DEF WriterStart
  <2> QED BY <2>1, <2>2 DEF CommitInv
<1>9. CASE \/ Begin \/ ReadFrequency \/ ReadLegacy \/ Reread \/ ReadStart \/ ReadEnd \/ ReadZone
           \/ UNCHANGED vars
  <2>1. UNCHANGED <<raw, writer, committed>>
    BY <1>9 DEF Begin, ReadFrequency, ReadLegacy, Reread, ReadStart, ReadEnd, ReadZone, Reads, vars
  <2> QED BY <1>1, <2>1
<1> QED
  BY <1>3, <1>4, <1>5, <1>6, <1>7, <1>8, <1>9, <1>10 DEF Next

(***************************************************************************)
(* Each setting that is loaded was stored.                                 *)
(***************************************************************************)

\* A frequency that is read, or the environment's for it, is what the keys mean.
LEMMA FrequencyMeaning ==
    ASSUME NEW r \in Raw
    PROVE  /\ r.frequency # None => Load(r).frequency = OrElse(r.frequency, Env.frequency)
           /\ r.frequency = None /\ ~Valid(r.legacy) => Load(r).frequency = Env.frequency
  BY DEF Load, OrElse, Valid

LEMMA SnapshotStep ==
    ASSUME TypeOK, TypeOK', ReadInv, WriterInv, SnapshotInv, [Next]_vars
    PROVE  SnapshotInv'
<1> USE Fields DEF TypeOK
<1>0. NoChange.snapshot = None /\ Down.snapshot = None
  BY DEF NoChange, Down
<1>1. CASE Migrate \/ LoadFails \/ WriterStart
  <2>1. raw' = raw \/ raw'.frequency # None
    <3>1. \A v \in LegacyValues : [raw EXCEPT !.frequency = v \div 60].frequency # None
      BY LegacyDivision, EnvFields DEF Raw
    <3>2. CASE Migrate
      BY <3>1, <3>2 DEF Migrate, ReadInv, Read
    <3>3. CASE LoadFails
      BY <3>1, <3>3 DEF LoadFails, ReadInv, Read
    <3>4. CASE WriterStart
      <4>1. Valid(raw.legacy) => raw.legacy \in LegacyValues
        BY DEF Raw, Valid
      <4> QED BY <3>1, <3>4, <4>1 DEF WriterStart, Migrated
    <3> QED BY <1>1, <3>2, <3>3, <3>4
  <2>2. writer' = writer \/ writer'.snapshot = None
    BY <1>0, <1>1 DEF Migrate, LoadFails, WriterStart
  <2> QED BY <2>1, <2>2 DEF SnapshotInv
<1>2. CASE WriterSnapshot
  BY <1>2 DEF WriterSnapshot, SnapshotInv
<1>3. CASE WriterPersist \/ WriterError
  <2>1. writer'.snapshot = writer.snapshot
    BY <1>3 DEF WriterPersist, WriterError, Writer
  <2>2. raw' = raw \/ raw'.frequency # None
    BY <1>3, PersistedFrequency, PersistedAssumption, EnvFields
    DEF WriterPersist, WriterError, WriterInv, Persisted, ScheduleConfig
  <2> QED BY <2>1, <2>2 DEF SnapshotInv
<1>4. CASE WriterCommit \/ WriterUndo \/ WriterUndoError \/ WriterCrash
  BY <1>0, <1>4 DEF WriterCommit, WriterUndo, WriterUndoError, WriterCrash, SnapshotInv
<1>5. CASE \/ Begin \/ ReadFrequency \/ ReadLegacy \/ Reread
           \/ ReadStart \/ ReadEnd \/ ReadZone \/ UNCHANGED vars
  BY <1>5 DEF Begin, ReadFrequency, ReadLegacy, Reread, ReadStart, ReadEnd, ReadZone,
              Reads, vars, SnapshotInv
<1> QED BY <1>1, <1>2, <1>3, <1>4, <1>5 DEF Next

LEMMA SeenStep ==
    ASSUME TypeOK, TypeOK', ReadInv, WriterInv, SnapshotInv, SeenInv, FrequencyWasInEffect,
           [Next]_vars
    PROVE  SeenInv' /\ FrequencyWasInEffect'
<1> USE Fields, EnvFields DEF TypeOK, Loading
<1>1. CASE Begin
  BY <1>1 DEF Begin, SeenInv, FrequencyWasInEffect
<1>2. CASE ReadFrequency
  <2>1. /\ stage = "frequency" /\ raw \in seen' /\ UNCHANGED <<raw, writer, undone>>
        /\ \/ raw.frequency = None /\ stage' = "legacy"
           \/ /\ raw.frequency # None /\ stage' = "start"
              /\ read'.frequency = OrElse(raw.frequency, Env.frequency)
    BY <1>2 DEF ReadFrequency, Reads, Read
  <2> QED BY <2>1, FrequencyMeaning DEF SeenInv, SnapshotInv, Legible, FrequencyWasInEffect
<1>3. CASE ReadLegacy
  <2>1. /\ stage = "legacy" /\ raw \in seen' /\ UNCHANGED <<raw, undone>>
        /\ \/ stage' = "migrate"
           \/ ~Valid(raw.legacy) /\ stage' = "start" /\ read'.frequency = Env.frequency
    BY <1>3 DEF ReadLegacy, Reads, Read
  <2> QED BY <2>1, FrequencyMeaning DEF SeenInv, Legible, FrequencyWasInEffect
<1>4. CASE Migrate
  <2>1. CASE raw.frequency = None
    <3>1. read.legacy \in LegacyValues /\ read.legacy \div 60 \in Frequencies
      BY <1>4, LegacyDivision DEF Migrate, ReadInv, Read
    <3>2. /\ stage' = "start" /\ seen' = seen \cup {raw'} /\ UNCHANGED undone
          /\ raw'.frequency = read.legacy \div 60 /\ read'.frequency = read.legacy \div 60
      BY <1>4, <2>1 DEF Migrate, Raw, Read
    <3>3. Load(raw').frequency = read'.frequency
      BY <3>1, <3>2, PersistedAssumption DEF Load, Valid
    <3> QED BY <3>2, <3>3 DEF SeenInv, FrequencyWasInEffect
  <2>2. CASE raw.frequency # None
    BY <1>4, <2>2 DEF Migrate, SeenInv, FrequencyWasInEffect
  <2> QED BY <2>1, <2>2
<1>5. CASE Reread
  <2>1. /\ stage = "reread" /\ stage' = "start" /\ raw \in seen' /\ UNCHANGED <<raw, undone>>
        /\ read'.frequency = OrElse(raw.frequency, Env.frequency) /\ read'.legacy = read.legacy
    BY <1>5 DEF Reread, Reads, Read
  <2>2. CASE raw.frequency = None
    BY <2>1, <2>2 DEF SeenInv, GaveWay, ReadInv, OrElse, Valid, FrequencyWasInEffect
  <2>3. CASE raw.frequency # None
    BY <2>1, <2>3, FrequencyMeaning DEF SeenInv, FrequencyWasInEffect
  <2> QED BY <2>2, <2>3
<1>6. CASE ReadStart \/ ReadEnd
  <2>1. /\ stage \in {"start", "end"} /\ stage' \in {"end", "zone"}
        /\ seen \subseteq seen' /\ raw \in seen' /\ UNCHANGED <<raw, undone>>
        /\ read'.frequency = read.frequency /\ read'.legacy = read.legacy
    BY <1>6 DEF ReadStart, ReadEnd, Reads, Read
  <2> QED BY <2>1 DEF SeenInv, GaveWay, FrequencyWasInEffect
<1>7. CASE ReadZone
  <2>1. /\ stage = "zone" /\ stage' = "done" /\ seen \subseteq seen'
        /\ UNCHANGED <<read, undone>>
        /\ loaded'.frequency = read.frequency
    BY <1>7 DEF ReadZone, Reads
  <2> QED BY <2>1 DEF SeenInv, GaveWay, FrequencyWasInEffect
<1>8. CASE LoadFails
  BY <1>8 DEF LoadFails, SeenInv, FrequencyWasInEffect
<1>9. CASE \/ WriterPersist \/ WriterError
           \/ WriterCrash /\ writer.stage \in {"idle", "persist"}
  <2>1. PICK s \in ScheduleConfig : raw' \in {raw, Persisted(s)}
    BY <1>9, PersistedAssumption DEF WriterPersist, WriterError, WriterCrash, WriterInv
  <2>2. Persisted(s).frequency # None /\ Valid(Persisted(s).legacy)
    BY <2>1, PersistedFrequency, PersistedAssumption
       DEF Persisted, ScheduleConfig, LegacyValues, Valid
  <2>3. /\ UNCHANGED <<stage, read, loaded, undone>>
        /\ seen' = IF Loading THEN seen \cup {raw'} ELSE seen
    BY <1>9 DEF WriterPersist, WriterError, WriterCrash, Past, loadVars
  <2>4. writer'.snapshot \in {writer.snapshot, None}
    BY <1>9 DEF WriterPersist, WriterError, WriterCrash, Writer, Down, NoChange
  <2>5. SeenInv'
    BY <2>1, <2>2, <2>3, <2>4 DEF SeenInv, GaveWay, Legible
  <2> QED BY <2>3, <2>5 DEF FrequencyWasInEffect
<1>10. CASE \/ WriterUndo \/ WriterUndoError
            \/ WriterCrash /\ writer.stage \in {"written", "undo"}
  <2>1. /\ UNCHANGED <<stage, read, loaded>>
        /\ seen' = IF Loading THEN seen \cup {raw'} ELSE seen
        /\ undone' = (undone \/ Loading)
        /\ raw' \in {raw, writer.snapshot} /\ writer.snapshot # None
        /\ writer'.snapshot = None
    BY <1>10 DEF WriterUndo, WriterUndoError, WriterCrash, Past, loadVars, WriterInv, Down, NoChange
  <2> QED BY <2>1 DEF SeenInv, GaveWay, FrequencyWasInEffect
<1>11. CASE WriterStart
  <2>1. /\ raw' = Migrated(raw) /\ UNCHANGED <<stage, read, loaded, undone>>
        /\ seen' = IF Loading THEN seen \cup {raw'} ELSE seen
        /\ writer'.snapshot \in {writer.snapshot, None}
    BY <1>11 DEF WriterStart, Past, loadVars, NoChange
  <2>2. /\ raw'.legacy = raw.legacy
        /\ raw'.frequency # raw.frequency => Valid(raw.legacy)
        /\ raw.frequency # None => raw' = raw
    BY <2>1 DEF Migrated, Raw
  <2>3. SeenInv'
    BY <2>1, <2>2 DEF SeenInv, GaveWay, Legible
  <2> QED BY <2>1, <2>3 DEF FrequencyWasInEffect
<1>12. CASE WriterSnapshot \/ WriterCommit \/ UNCHANGED vars
  BY <1>12 DEF WriterSnapshot, WriterCommit, vars, loadVars, pastVars, SeenInv, GaveWay,
               NoChange, FrequencyWasInEffect
<1>13. CASE WriterCrash
  <2>1. writer.stage \in {"idle", "persist", "written", "undo"}
    BY <1>13 DEF WriterCrash, Writer
  <2> QED BY <1>9, <1>10, <1>13, <2>1
<1> QED
  BY <1>1, <1>2, <1>3, <1>4, <1>5, <1>6, <1>7, <1>8, <1>9, <1>10, <1>11, <1>12, <1>13 DEF Next

LEMMA InvStep == IInv /\ [Next]_vars => IInv'
<1> SUFFICES ASSUME IInv, [Next]_vars PROVE IInv'
  OBVIOUS
<1>1. QuietInv' /\ CommitInv'
  BY QuietStep, CommitStep DEF IInv
<1>2. TypeOK' /\ ReadInv' /\ WriterInv'
  <2>1. CASE \/ Begin \/ ReadFrequency \/ ReadLegacy \/ Migrate \/ Reread
             \/ ReadStart \/ ReadEnd \/ ReadZone \/ LoadFails
    <3>1. UNCHANGED writer
      BY <2>1 DEF Begin, ReadFrequency, ReadLegacy, Migrate, Reread, ReadStart, ReadEnd,
                  ReadZone, LoadFails, Reads
    <3> QED BY <2>1, <3>1, LoadTypeStep DEF IInv, WriterInv
  <2>2. CASE WriterSnapshot \/ WriterPersist \/ WriterError \/ WriterCommit \/ WriterUndo
             \/ WriterUndoError \/ WriterCrash \/ WriterStart
    BY <2>2, WriterTypeStep DEF IInv, ReadInv
  <2>3. CASE UNCHANGED vars
    BY <2>3 DEF vars, IInv, TypeOK, ReadInv, WriterInv
  <2> QED BY <2>1, <2>2, <2>3 DEF Next
<1>3. SnapshotInv' /\ SeenInv' /\ FrequencyWasInEffect'
  BY <1>2, SnapshotStep, SeenStep DEF IInv
<1> QED BY <1>1, <1>2, <1>3 DEF IInv

LEMMA Invariance == Spec => []IInv
BY InitInv, InvStep, PTL DEF Spec

(***************************************************************************)
(* The theorems.                                                           *)
(***************************************************************************)

\* The load keeps its types; what it loads is a valid schedule whatever it read in
\* which order (the fallbacks of get_dynamic_settings).
THEOREM LoadedIsValid == Spec => []TypeOK
<1>1. IInv => TypeOK
  BY DEF IInv
<1> QED BY Invariance, <1>1, PTL

\* Without another writer get_dynamic_settings is one step: Load and Migrated.
THEOREM QuietLoad == Spec => QuietLoadIsAtomic
<1>1. IInv /\ [Next]_vars =>
        [stage = "zone" /\ stage' = "done" /\ quiet =>
            (\A r \in seen : Load(r) = loaded') /\ Migrated(raw) = raw]_vars
  <2> SUFFICES ASSUME IInv, [Next]_vars, stage = "zone", stage' = "done", quiet
               PROVE  (\A r \in seen : Load(r) = loaded') /\ Migrated(raw) = raw
    OBVIOUS
  <2>1. ReadZone
    BY DEF Next, vars, Begin, ReadFrequency, ReadLegacy, Migrate, Reread, ReadStart, ReadEnd,
           LoadFails, WriterSnapshot, WriterPersist, WriterError, WriterCommit, WriterUndo,
           WriterUndoError, WriterCrash, WriterStart, loadVars
  <2>2. /\ \A r \in seen : Load(r) = Load(raw)
        /\ read.frequency = Load(raw).frequency /\ Migrated(raw) = raw
        /\ read.start = raw.start /\ read.end = raw.end
    BY DEF IInv, QuietInv
  <2>3. loaded' = [frequency |-> Load(raw).frequency, start |-> Load(raw).start,
                   end |-> Load(raw).end, zone |-> Load(raw).zone]
    BY <2>1, <2>2 DEF ReadZone, Window, Load, OrElse
  <2>4. loaded' = Load(raw)
    BY <2>3 DEF Load
  <2> QED BY <2>2, <2>4
<1> QED BY Invariance, <1>1, PTL DEF Spec, QuietLoadIsAtomic

\* SET NX never overwrites a change that succeeded.
THEOREM ChangesSurvive == Spec => []ChangesSurviveMigration
<1>1. IInv => ChangesSurviveMigration
  BY DEF IInv, CommitInv, ChangesSurviveMigration
<1> QED BY Invariance, <1>1, PTL

\* The frequency that is loaded beside a writer was in effect during the load, unless the
\* migration gave way to one that was undone.
THEOREM FrequencyWasStored == Spec => []FrequencyWasInEffect
<1>1. IInv => FrequencyWasInEffect
  BY DEF IInv
<1> QED BY Invariance, <1>1, PTL

=============================================================================
