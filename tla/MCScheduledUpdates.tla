------------------------- MODULE MCScheduledUpdates -------------------------
(***************************************************************************)
(* Two processes around the end of daylight saving time in zone ny: the    *)
(* instants are 04:59, 05:00, 05:15, 06:00, 07:00 and 07:15 in utc, and    *)
(* 00:59, 01:00, 01:15, 01:00 again, 02:00 and 02:15 in ny.  The plans are *)
(*   - every hour from 01:15 to 02:00: an opening job and a recurring one, *)
(*   - every half hour from 02:00 over midnight to 01:15,                  *)
(*   - every half hour from 06:00 to 05:15 in the other zone.              *)
(***************************************************************************)
EXTENDS ScheduledUpdates, TLC

CONSTANTS ny, utc, p1, p2, g1, g2

MCFrequencies == {30, 60}
MCTimes == {75, 120, 315, 360}
MCZones == {ny, utc}
OneProcess == {p1}
TwoProcesses == {p1, p2}
MCGenerations == {g1, g2}
ToRepeatedHour == 3
AllInstants == 5

At(time, fold) == [day |-> 1, time |-> time, fold |-> fold]
WallUntil(last) ==
    [z \in MCZones |->
        [t \in 0 .. last |->
            IF z = utc THEN At(<<299, 300, 315, 360, 420, 435>>[t + 1], 0)
            ELSE At(<<59, 60, 75, 60, 120, 135>>[t + 1], IF t = 3 THEN 1 ELSE 0)]]
WallToRepeatedHour == WallUntil(ToRepeatedHour)
WallAllInstants == WallUntil(AllInstants)

Plan(f, start, end, z) == [frequency |-> f, start |-> start, end |-> end, zone |-> z]
Opening == Plan(60, 75, 120, ny)
Overnight == Plan(30, 120, 75, ny)
Elsewhere == Plan(30, 360, 315, utc)

TwoPlans == {Opening, Overnight}
ThreePlans == {Opening, Overnight, Elsewhere}

Symmetric == Permutations(TwoProcesses) \cup Permutations(MCGenerations)

=============================================================================
