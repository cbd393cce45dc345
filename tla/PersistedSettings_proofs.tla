---------------------- MODULE PersistedSettings_proofs ----------------------
(***************************************************************************)
(* Facts about writing and loading the schedule, for every environment and *)
(* every content of Redis.                                                 *)
(***************************************************************************)
EXTENDS PersistedSettings, TLAPS

\* Persisting a schedule and loading it again gives that schedule, whatever the
\* environment's settings are.
THEOREM PersistedRoundTrip ==
    ASSUME NEW s \in ScheduleConfig
    PROVE  Persisted(s) \in Raw /\ Load(Persisted(s)) = s
<1>1. /\ s.frequency \in Frequencies /\ s.start \in Times /\ s.end \in Times
      /\ s.zone \in Zones /\ s.start # s.end
  BY DEF ScheduleConfig
<1>2. Persisted(s) \in Raw
  BY <1>1 DEF Persisted, Raw, LegacyValues
<1>3. /\ Valid(s.frequency) /\ Valid(s.start) /\ Valid(s.end) /\ Valid(s.zone)
      /\ s.start # None /\ s.end # None
  BY <1>1, SchedulesAssumption, PersistedAssumption DEF Valid
<1>4. s = [frequency |-> s.frequency, start |-> s.start, end |-> s.end, zone |-> s.zone]
  BY DEF ScheduleConfig
<1>5. Load(Persisted(s)) =
        [frequency |-> s.frequency, start |-> s.start, end |-> s.end, zone |-> s.zone]
  BY <1>1, <1>3 DEF Load, Persisted
<1> QED
  BY <1>2, <1>4, <1>5

\* A legacy interval divided by 60 is the frequency it stands for.
LEMMA LegacyDivision ==
    ASSUME NEW v \in LegacyValues
    PROVE  v \div 60 \in Frequencies
<1>1. PICK f \in Frequencies : v = 60 * f
  BY DEF LegacyValues
<1>2. f \in Int
  BY <1>1, SchedulesAssumption DEF SupportedFrequencies
<1>3. (60 * f) \div 60 = f
  BY <1>2
<1> QED
  BY <1>1, <1>3

\* Whatever Redis holds, what is loaded from it is a valid schedule.
THEOREM LoadIsValid ==
    ASSUME NEW r \in Raw
    PROVE  Load(r) \in ScheduleConfig
<1>1. /\ Env.frequency \in Frequencies /\ Env.start \in Times /\ Env.end \in Times
      /\ Env.zone \in Zones /\ Env.start # Env.end
  BY PersistedAssumption DEF ScheduleConfig
<1>2. /\ r.frequency \in Frequencies \cup {None, Corrupt}
      /\ r.legacy \in LegacyValues \cup {None, Corrupt}
      /\ r.start \in Times \cup {None, Corrupt} /\ r.end \in Times \cup {None, Corrupt}
      /\ r.zone \in Zones \cup {None, Corrupt}
  BY DEF Raw
<1>3. Load(r).frequency \in Frequencies
  BY <1>1, <1>2, LegacyDivision DEF Load, Valid
<1>4. Load(r).zone \in Zones
  BY <1>1, <1>2 DEF Load, Valid
<1>5. Load(r).start \in Times /\ Load(r).end \in Times /\ Load(r).start # Load(r).end
  BY <1>1, <1>2 DEF Load, Valid
<1>6. Load(r) = [frequency |-> Load(r).frequency, start |-> Load(r).start,
                 end |-> Load(r).end, zone |-> Load(r).zone]
  BY DEF Load
<1> QED
  BY <1>3, <1>4, <1>5, <1>6 DEF ScheduleConfig

\* Storing the legacy interval as the frequency does not change what is loaded.
THEOREM MigrationKeepsSettings ==
    ASSUME NEW r \in Raw
    PROVE  Migrated(r) \in Raw /\ Load(Migrated(r)) = Load(r)
<1>1. CASE ~(r.frequency = None /\ Valid(r.legacy))
  BY <1>1 DEF Migrated
<1>2. CASE r.frequency = None /\ Valid(r.legacy)
  <2>1. r.legacy \div 60 \in Frequencies
    BY <1>2, LegacyDivision DEF Raw, Valid
  <2>2. /\ Migrated(r) \in Raw
        /\ Migrated(r).frequency = r.legacy \div 60
        /\ Migrated(r).start = r.start /\ Migrated(r).end = r.end
        /\ Migrated(r).zone = r.zone
    BY <1>2, <2>1 DEF Migrated, Raw
  <2>3. Valid(r.legacy \div 60) /\ ~Valid(r.frequency)
    BY <1>2, <2>1, SchedulesAssumption, PersistedAssumption DEF Valid
  <2>4. Load(Migrated(r)) = Load(r)
    BY <1>2, <2>2, <2>3 DEF Load
  <2> QED
    BY <2>2, <2>4
<1> QED
  BY <1>1, <1>2

=============================================================================
