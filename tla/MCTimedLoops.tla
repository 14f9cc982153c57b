---------------------------- MODULE MCTimedLoops ----------------------------
(* An instance of TimedLoops for TLC: two cores whose counters differ, two    *)
(* settings.                                                                  *)
EXTENDS TimedLoops

Ahead == [c \in {0, 1} |-> 4 * c]
TwoStrides == <<9, 12>>
TwoFiles == <<5, 6>>
=============================================================================
