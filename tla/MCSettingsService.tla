------------------------- MODULE MCSettingsService -------------------------
(***************************************************************************)
(* Two callers, and requests of each kind: a frequency, a window, a zone   *)
(* and a window that is empty and rejected.  Redis starts empty, with a    *)
(* legacy interval, or with a window whose two ends are equal.  Liveness is*)
(* checked with fewer requests, one of them rejected, and two identifiers. *)
(***************************************************************************)
EXTENDS SettingsDriveUpdates, SettingsBesideLoad, TLC

CONSTANTS ny, utc, g1, g2, g3, c1, c2

MCFrequencies == {30, 60}
MCTimes == {0, 570}
MCZones == {ny, utc}
MCGenerations == {g1, g2, g3}
MCCallers == {c1, c2}

MCEnv == [frequency |-> 30, start |-> 0, end |-> 570, zone |-> ny]

Nothing == [frequency |-> None, start |-> None, end |-> None, zone |-> None]
MCRequests ==
    { [Nothing EXCEPT !.frequency = 60],
      [Nothing EXCEPT !.start = 570, !.end = 0],
      [Nothing EXCEPT !.zone = utc],
      [Nothing EXCEPT !.start = 0, !.end = 0] }

FewRequests ==
    { [Nothing EXCEPT !.zone = utc], [Nothing EXCEPT !.start = 0, !.end = 0] }
FewGenerations == {g1, g2}

EmptyRedis == [frequency |-> None, legacy |-> None, start |-> None, end |-> None,
               zone |-> None]
MCInitialRaw ==
    { EmptyRedis,
      [EmptyRedis EXCEPT !.legacy = 3600],
      [EmptyRedis EXCEPT !.frequency = Corrupt, !.start = 570, !.end = 570] }
OnlyEmptyRedis == {EmptyRedis}

Symmetric == Permutations(MCCallers) \cup Permutations(MCGenerations)

=============================================================================
