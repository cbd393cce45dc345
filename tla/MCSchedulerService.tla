------------------------- MODULE MCSchedulerService -------------------------
(***************************************************************************)
(* Two frequencies and two times: 09:30 is a recurring minute every 30     *)
(* minutes and not every 60, so that some schedules need the opening job   *)
(* and others do not.  Identifiers that nothing refers to are reused, and  *)
(* three suffice: one queued before the call, the candidate's and the      *)
(* rollback schedule's.                                                    *)
(***************************************************************************)
EXTENDS SchedulerService, TLC

CONSTANTS ny, g1, g2, g3

MCFrequencies == {30, 60}
MCTimes == {0, 570}
MCZones == {ny}
MCGenerations == {g1, g2, g3}

=============================================================================
