---------------------------- MODULE MCConfigLoad ----------------------------
(***************************************************************************)
(* Two candidates that differ in every setting, the start of one being the *)
(* end of the other, beside an environment that differs from both.  Redis  *)
(* is empty, has a legacy interval only, a corrupt one, a stored schedule, *)
(* or one with corrupt parts.                                              *)
(***************************************************************************)
EXTENDS ConfigLoad, TLC

CONSTANTS ny, utc, hk

MCFrequencies == {15, 30, 60}
MCTimes == {0, 570, 960}
MCZones == {ny, utc, hk}

Schedule(f, start, end, zone) ==
    [frequency |-> f, start |-> start, end |-> end, zone |-> zone]

MCEnv == Schedule(15, 0, 960, ny)
MCCandidates == { Schedule(30, 570, 960, utc), Schedule(60, 0, 570, hk) }

EmptyRedis ==
    [frequency |-> None, legacy |-> None, start |-> None, end |-> None, zone |-> None]
MCInitialRaw ==
    { EmptyRedis,
      [EmptyRedis EXCEPT !.legacy = 3600],
      [EmptyRedis EXCEPT !.legacy = Corrupt, !.end = Corrupt],
      [EmptyRedis EXCEPT !.frequency = Corrupt, !.legacy = 1800, !.start = 960, !.zone = Corrupt],
      Persisted(Schedule(30, 0, 570, utc)) }

=============================================================================
