----------------------------- MODULE TokenRing ------------------------------
(***************************************************************************)
(* What a ring benchmark promises its divisor, iters * pipes: one token    *)
(* goes round N stations, each handles it Laps times and never twice       *)
(* before the others had their turn, then the ring may be started afresh.  *)
(* ProcessRing (ctxswitch.cpp) and ThreadRing (ctxswitchkernel.cpp) are    *)
(* shown to implement it.                                                  *)
(***************************************************************************)
EXTENDS Integers

CONSTANTS
  N,      \* stations
  Laps,   \* times each station passes the token on
  First   \* the station that gets the token first

ASSUME RingAssumption ==
  /\ N \in Nat \ {0}
  /\ Laps \in Nat \ {0}
  /\ First \in 0..(N - 1)

VARIABLES
  turn,  \* the station the token is on its way to, or at
  laps   \* how often each station has passed it on

ringVars == <<turn, laps>>

Station == 0..(N - 1)
FollowingSkips(i) == IF i >= N - 2 THEN First ELSE i + 2   \* mutant: p[i + 2]
Following(i) == IF i = N - 1 THEN 0 ELSE i + 1

Init ==
  /\ turn = First
  /\ laps = [i \in Station |-> 0]

Pass(i) ==
  /\ turn = i
  /\ laps[i] < Laps
  /\ laps' = [laps EXCEPT ![i] = @ + 1]
  /\ turn' = Following(i)

\* A new run of the benchmark, once the last one is complete.
Restart ==
  /\ \A i \in Station : laps[i] = Laps
  /\ laps' = [i \in Station |-> 0]
  /\ turn' = First

Next == (\E i \in Station : Pass(i)) \/ Restart

Spec == Init /\ [][Next]_ringVars

-----------------------------------------------------------------------------

TypeOK == turn \in Station /\ laps \in [Station -> 0..Laps]

\* Place of station i in the order in which the token visits the stations, and
\* whether the token has passed it in this lap.
Place(i) == IF i >= First THEN i - First ELSE i - First + N
Ahead(i) == IF Place(i) < Place(turn) THEN 1 ELSE 0

\* The stations the token has passed in this lap are exactly one lap ahead of the
\* others: in a ring of processes or threads, no station gets a second turn
\* before all the others have had theirs.
InStep ==
  \A i, j \in Station : laps[i] - laps[j] = Ahead(i) - Ahead(j)

=============================================================================
