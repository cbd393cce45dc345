------------------------- MODULE PersistedSettings -------------------------
(***************************************************************************)
(* The schedule in Redis: the five keys that settings_service.py writes    *)
(* together and what config.py makes of whatever it finds in them.         *)
(***************************************************************************)
EXTENDS Schedules

CONSTANTS
    Env,          \* the schedule of the environment and of .env
    Corrupt       \* a persisted value that no normalizer accepts

\* The five Redis keys; the legacy one holds seconds.
LegacyValues == { 60 * f : f \in Frequencies }
Raw == [frequency : Frequencies \cup {None, Corrupt},
        legacy : LegacyValues \cup {None, Corrupt},
        start : Times \cup {None, Corrupt}, end : Times \cup {None, Corrupt},
        zone : Zones \cup {None, Corrupt}]

ASSUME PersistedAssumption ==
    /\ Env \in ScheduleConfig
    /\ Corrupt \notin Frequencies \cup LegacyValues \cup Times \cup Zones \cup {None}
    /\ None \notin LegacyValues \cup Raw

\* _persisted_values
Persisted(s) == [frequency |-> s.frequency, legacy |-> 60 * s.frequency,
                 start |-> s.start, end |-> s.end, zone |-> s.zone]

Valid(value) == value \notin {None, Corrupt}

\* get_dynamic_settings: each setting falls back to the environment's, the two
\* ends of the window together; the legacy interval stands for a missing frequency.
Load(r) ==
    LET start == IF r.start = None THEN Env.start ELSE r.start
        end   == IF r.end = None THEN Env.end ELSE r.end
        window == IF Valid(start) /\ Valid(end) /\ start # end
                  THEN <<start, end>> ELSE <<Env.start, Env.end>>
    IN  [frequency |-> IF Valid(r.frequency) THEN r.frequency
                       ELSE IF r.frequency = None /\ Valid(r.legacy)
                            THEN r.legacy \div 60
                            ELSE Env.frequency,
         start |-> window[1], end |-> window[2],
         zone  |-> IF Valid(r.zone) THEN r.zone ELSE Env.zone]

\* ... and that interval is stored as the frequency.
Migrated(r) ==
    IF r.frequency = None /\ Valid(r.legacy)
    THEN [r EXCEPT !.frequency = r.legacy \div 60] ELSE r

=============================================================================
