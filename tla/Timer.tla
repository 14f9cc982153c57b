------------------------------- MODULE Timer --------------------------------
(***************************************************************************)
(* src/utils/timer.hpp and timer.cpp: an interval between two readings of  *)
(* the time stamp counter, each kept as two halves; and use_cores          *)
(* (src/utils/proc.hpp), which the programs call because every core has a  *)
(* counter of its own.  One process, one Timer object.                     *)
(***************************************************************************)
EXTENDS Integers

CONSTANTS
  Half,    \* values of one half of the counter: 2^32
  Cores,   \* cores a machine may have; core 0 is always there
  Offset   \* Offset[c]: how far the counter of core c is ahead of core 0's

ASSUME TimerAssumption ==
  /\ Half \in Nat \ {0}
  /\ 0 \in Cores
  /\ Offset \in [Cores -> Nat]

VARIABLES
  clock,     \* time, modulo the width of the counter
  online,    \* the cores this machine has
  affinity,  \* the cores the process may run on
  core,      \* the core it runs on
  cycles_low, cycles_high, cycles_low1, cycles_high1

start == <<cycles_low, cycles_high>>
end == <<cycles_low1, cycles_high1>>
timerVars == <<clock, online, affinity, core, start, end>>

Width == Half * Half

\* The fields of a Timer are not initialised; nothing reads them before begin()
\* and end() have been called, so one value stands for all.
TimerInit ==
  /\ online \in {S \in SUBSET Cores : 0 \in S}
  /\ affinity = online
  /\ core \in online
  /\ cycles_low = 0 /\ cycles_high = 0
  /\ cycles_low1 = 0 /\ cycles_high1 = 0

Tsc(c) == (clock + Offset[c]) % Width

\* RDTSC and RDTSCP leave the upper half in edx and the lower one in eax.
Begin ==
  /\ cycles_high' = Tsc(core) \div Half
  /\ cycles_low' = Tsc(core) % Half

End ==
  /\ cycles_high1' = Tsc(core) \div Half
  /\ cycles_low1' = Tsc(core) % Half

get_start == cycles_high * Half + cycles_low
get_end == cycles_high1 * Half + cycles_low1

\* get_end() - get_start() of two uint64_t; time_diff_micro and time_diff_nano
\* scale it.
DiffSigned == get_end - get_start   \* mutant: int64_t
diff == (get_end - get_start) % Width

\* sched_setaffinity moves the process if it must, and fails if the machine has
\* none of the cores.
UseCoresIgnored(S) == S \cap online # {} /\ UNCHANGED <<affinity, core>>
use_cores(S) ==
  /\ S \cap online # {}
  /\ affinity' = S \cap online
  /\ core' \in (IF core \in S THEN {core} ELSE S \cap online)
CannotUseCores(S) == S \cap online = {}

\* The scheduler may move the process to any core it is allowed on.
Migrate ==
  /\ core' \in affinity \ {core}
  /\ UNCHANGED <<clock, online, affinity, start, end>>

=============================================================================
