-------------------------- MODULE TimedLoopsProofs --------------------------
(***************************************************************************)
(* Proofs about TimedLoops, for every width and offset of the counters,    *)
(* every number of passes, runs and settings, and every file: the sum of   *)
(* the intervals is the time that passed in them (SumIsElapsed), what is   *)
(* printed for a setting is about its own samples (OneExperiment), the     *)
(* page cache holds what a program wants of it (CacheAsIntended), and a    *)
(* timed pass does the work its result is divided by (TimedWork).          *)
(*                                                                         *)
(* The inductive invariant has three parts, each resting on those before.  *)
(*   IInv    The process is bound to one core whenever it times (Bound),   *)
(*           the counter of that core is ahead of its reading at begin()   *)
(*           by the time counted since, modulo the width, and that time is *)
(*           less than the width (Interval).                               *)
(*   Data    Files, the offset and the cache stay within their bounds, and *)
(*           readSeq leaves the file in front of the cache, so that no     *)
(*           later read of it replaces a block (Warmed).                   *)
(*   Walked  The cells or blocks visited in an interval are those of the   *)
(*           first `done' passes: for the chase, `done' multiples of the   *)
(*           stride, modulo the length, are different cells until it comes *)
(*           back to the first one, which it does after n / gcd(n, stride) *)
(*           steps (ChaseCells).                                           *)
(*                                                                         *)
(* Two more components of these programs follow.  Stats, the class that    *)
(* keeps their samples: how many samples it has (StatsTypeOK)              *)
(* and what median() returns (MedianIsMiddle), for any number of samples.  *)
(* That finitely many integers can be sorted is proved by induction,       *)
(* written as membership in a set.  And CsvFile, the file they write their *)
(* results to: rows that were ended can be read back (RowsOnDisk), and a   *)
(* closed file reads back as what was written (ReadsBack).  The reader and *)
(* escape() are functions of the length of a text; reading one text after  *)
(* another is reading the two together (ReadConcat), so the invariant,     *)
(* CsvInv, can say where the reader stands behind what is on disk and in   *)
(* the buffer.                                                             *)
(***************************************************************************)
EXTENDS TimedLoops, Stats, CsvFile, SequenceTheorems, FiniteSetTheorems, TLAPS

-----------------------------------------------------------------------------
(* Arithmetic of the counter *)

\* The laws of quotient and remainder, and the remainder as the only one.

LEMMA DivMod ==
  ASSUME NEW a \in Int, NEW w \in Nat \ {0}
  PROVE  /\ a \div w \in Int /\ a % w \in 0..(w - 1)
         /\ a = w * (a \div w) + (a % w)
  OBVIOUS

LEMMA NoMultiple ==
  ASSUME NEW m \in Int, NEW w \in Nat \ {0}, m * w < w, -w < m * w
  PROVE  m = 0
  OBVIOUS

LEMMA ModUnique ==
  ASSUME NEW a \in Int, NEW w \in Nat \ {0}, NEW b \in 0..(w - 1), NEW k \in Int,
         a = b + k * w
  PROVE  a % w = b
  <1>1. a = w * (a \div w) + (a % w) /\ a \div w \in Int /\ a % w \in 0..(w - 1)
    BY DivMod
  <1>2. ((a \div w) - k) * w = b - (a % w)
    BY <1>1
  <1>3. (a \div w) - k = 0
    <2> DEFINE m == (a \div w) - k
    <2>1. m \in Int /\ m * w < w /\ -w < m * w
      BY <1>1, <1>2
    <2> HIDE DEF m
    <2>2. m = 0
      BY <2>1, NoMultiple
    <2>3. QED
      BY <2>2 DEF m
  <1>4. QED
    BY <1>1, <1>2, <1>3

\* A difference modulo w does not see that the numbers were reduced before.
LEMMA ModAdd ==
  ASSUME NEW a \in Int, NEW b \in Int, NEW w \in Nat \ {0}
  PROVE  ((a % w) + b) % w = (a + b) % w
  <1> DEFINE r == (a + b) % w
             k == ((a + b) \div w) - (a \div w)
  <1>0. a + b \in Int
    OBVIOUS
  <1>1. /\ a = w * (a \div w) + (a % w)
        /\ a \div w \in Int /\ a % w \in 0..(w - 1)
        /\ a + b = w * ((a + b) \div w) + r /\ (a + b) \div w \in Int
        /\ r \in 0..(w - 1)
    BY <1>0, DivMod, Zenon
  <1>2. k \in Int /\ (a % w) + b = r + k * w
    BY <1>1
  <1>3. (a % w) + b \in Int
    BY <1>1
  <1> HIDE DEF r, k
  <1>4. ((a % w) + b) % w = r
    BY <1>1, <1>2, <1>3, ModUnique
  <1>5. QED
    BY <1>4 DEF r

LEMMA WidthPositive == Width \in Nat \ {0} /\ Half \in Nat \ {0}
  BY TimerAssumption DEF Width

\* A reading of the counter is what its two halves are put together to.
LEMMA Halves ==
  ASSUME NEW c \in Cores, clock \in Int
  PROVE  /\ Tsc(c) \in 0..(Width - 1)
         /\ Tsc(c) \div Half \in 0..(Half - 1) /\ Tsc(c) % Half \in 0..(Half - 1)
         /\ (Tsc(c) \div Half) * Half + (Tsc(c) % Half) = Tsc(c)
  <1>1. clock + Offset[c] \in Int
    BY TimerAssumption
  <1>2. Tsc(c) \in 0..(Width - 1)
    BY <1>1, WidthPositive, DivMod DEF Tsc
  <1> DEFINE x == Tsc(c)
             q == x \div Half
             r == x % Half
  <1>3. x \in Int
    BY <1>2, WidthPositive
  <1> HIDE DEF x
  <1>4. q \in Int /\ r \in 0..(Half - 1) /\ x = Half * q + r
    BY <1>3, WidthPositive, DivMod, Zenon
  <1> HIDE DEF q, r
  <1>5. x \in 0..(Half * Half - 1)
    BY <1>2, Zenon DEF x, Width
  <1>6. q \in 0..(Half - 1) /\ q * Half + r = x
    <2>1. Half \in Nat \ {0}
      BY WidthPositive
    <2>2. Half * q > -Half /\ Half * q < Half * Half
      BY <1>4, <1>5, <2>1
    <2>3. q > -1
      BY <1>4, <2>1, <2>2
    <2>4. q < Half
      BY <1>4, <2>1, <2>2
    <2>5. QED
      BY <1>4, <2>1, <2>3, <2>4
  <1>7. QED
    BY <1>2, <1>4, <1>6 DEF x, q, r

\* The difference of two readings of which the second is e units later, with e
\* less than the width of the counter.
LEMMA Elapsed ==
  ASSUME NEW s \in Int, NEW e \in Nat, e < Width,
         NEW t \in Int, t = (s + e) % Width
  PROVE  (t - s) % Width = e
  <1> DEFINE a == s + e
             b == -s
  <1>1. a \in Int /\ b \in Int /\ a + b = e /\ t - s = t + b
    OBVIOUS
  <1>2. e \in 0..(Width - 1) /\ e = e + 0 * Width /\ 0 \in Int /\ e \in Int
    BY WidthPositive
  <1>3. e % Width = e
    BY <1>2, ModUnique, WidthPositive, Zenon
  <1> HIDE DEF a, b
  <1>4. ((a % Width) + b) % Width = (a + b) % Width
    BY ZenonT(60), <1>1, ModAdd, WidthPositive
  <1>5. t = a % Width
    BY DEF a
  <1>6. QED
    BY <1>1, <1>3, <1>4, <1>5

\* A product with the longest duration grows with the passes.
LEMMA Times ==
  ASSUME NEW m \in Nat, NEW n \in Nat, m <= n
  PROVE  m * Longest <= n * Longest /\ (m + 1) * Longest = m * Longest + Longest
  BY TimedLoopsAssumption

\* A timed loop has at least one pass, and the counter does not wrap more than
\* once in it.
LEMMA PassesFit ==
  ASSUME prog \in Programs
  PROVE  Passes \in Nat \ {0} /\ Passes * Longest < Width
  <1>1. ITER \in Nat \ {0} /\ ITER * Longest < Width
    BY TimedLoopsAssumption
  <1>2. ARR_SIZE \div UNROLL \in Nat \ {0}
    <2>1. /\ ARR_SIZE \in Nat \ {0} /\ UNROLL \in Nat \ {0}
          /\ ARR_SIZE % UNROLL = 0
      BY TimedLoopsAssumption
    <2>2. /\ ARR_SIZE \div UNROLL \in Int
          /\ ARR_SIZE = UNROLL * (ARR_SIZE \div UNROLL) + (ARR_SIZE % UNROLL)
      BY <2>1, DivMod
    <2>3. ARR_SIZE = UNROLL * (ARR_SIZE \div UNROLL)
      BY <2>1, <2>2
    <2>4. QED
      BY <2>1, <2>2, <2>3
  <1>3. (ARR_SIZE \div UNROLL) * Longest < Width
    BY TimedLoopsAssumption
  <1>4. QED
    BY <1>1, <1>2, <1>3, Zenon DEF Passes

-----------------------------------------------------------------------------
(* The inductive invariant *)

Controls == {"warm", "pin", "drop", "open", "begin", "work", "end", "add",
             "sample", "report", "done", "exit1", "threw", "crashed"}

Types ==
  /\ clock \in 0..(Width - 1)
  /\ online \subseteq Cores /\ affinity \subseteq online /\ core \in affinity
  /\ {cycles_low, cycles_high, cycles_low1, cycles_high1} \subseteq 0..(Half - 1)
  /\ prog \in Programs /\ mpc \in Controls
  /\ left \in 0..Passes /\ total \in Nat /\ busy \in Nat

\* From its first use_cores on the process is bound to one core.
Bound ==
  mpc \notin {"warm", "pin", "exit1", "threw"} => affinity = {core}

\* elapsed: the time counted in busy, but not yet in total.
elapsed == busy - total
Interval ==
  /\ mpc \in {"begin", "work"} => left > 0
  /\ mpc \in {"begin", "sample"} => total = busy
  /\ mpc \in {"work", "end"} =>
       /\ elapsed \in Nat /\ elapsed <= (Passes - left) * Longest
       /\ Tsc(core) = (get_start + elapsed) % Width
  /\ mpc = "add" => diff = elapsed

\* The samples are all of this setting.
SamplesOfSetting ==
  /\ run \in 0..Runs
  /\ vals = [r \in 1..run |-> setting]
  /\ mpc = "report" => run = Runs
  /\ mpc \in Controls \ {"report", "done"} => run < Runs

IInv == Types /\ Bound /\ Interval /\ SamplesOfSetting

-----------------------------------------------------------------------------
(* It holds initially, and every step preserves it *)

LEMMA InitInvariant == Init => IInv
  <1> SUFFICES ASSUME Init PROVE IInv
    OBVIOUS
  <1> USE DEF Init, TimerInit
  <1>1. Types
    <2>1. prog \in Programs
      OBVIOUS
    <2>2. mpc \in Controls /\ mpc \in {"warm", "pin"}
      BY DEF FirstStep, Controls
    <2>3. left \in 0..Passes
      BY <2>1, PassesFit
    <2>4. QED
      BY <2>1, <2>2, <2>3, WidthPositive DEF Types
  <1>2. mpc \in {"warm", "pin"}
    BY DEF FirstStep
  <1>3. Bound /\ Interval
    BY <1>2 DEF Bound, Interval
  <1>4. SamplesOfSetting
    <2>1. <<>> = [r \in 1..0 |-> setting]
      OBVIOUS
    <2>2. QED
      BY <1>2, <2>1, TimedLoopsAssumption DEF SamplesOfSetting
  <1>5. QED
    BY <1>1, <1>3, <1>4 DEF IInv

\* What most actions leave alone.
clockVars == <<timerVars, prog, left, total, busy>>
experimentVars == <<run, vals, setting>>

LEMMA TypesFrame ==
  ASSUME Types, UNCHANGED clockVars, mpc' \in Controls
  PROVE  Types'
  BY DEF Types, clockVars, timerVars, start, end, Passes

\* A step on which nothing was timed yet, or the interval is over.
LEMMA UntimedFrame ==
  ASSUME Types, Bound, UNCHANGED clockVars,
         mpc' \in Controls \ {"begin", "work", "end", "add", "sample"},
         mpc \in {"warm", "pin"} => mpc' \in {"warm", "pin", "exit1", "threw"},
         mpc \notin {"exit1", "threw"}
  PROVE  Types' /\ Bound' /\ Interval'
  <1>1. Types'
    BY TypesFrame
  <1>2. Bound'
    BY DEF Bound, clockVars, timerVars
  <1>3. Interval'
    BY DEF Interval
  <1>4. QED
    BY <1>1, <1>2, <1>3

LEMMA SamplesFrame ==
  ASSUME SamplesOfSetting, UNCHANGED experimentVars,
         mpc' \in Controls \ {"report", "done"}, mpc \in Controls \ {"report", "done"}
  PROVE  SamplesOfSetting'
  BY DEF SamplesOfSetting, experimentVars

LEMMA StutterInvariant == IInv /\ UNCHANGED vars => IInv'
  <1> SUFFICES ASSUME IInv, UNCHANGED vars PROVE IInv'
    OBVIOUS
  <1>1. Types /\ Bound /\ Interval /\ SamplesOfSetting
    BY DEF IInv
  <1>2. Types'
    BY <1>1, TypesFrame DEF vars, sampleVars, clockVars, Types
  <1>3. Bound' /\ Interval' /\ SamplesOfSetting'
    BY <1>1 DEF vars, sampleVars, timerVars, start, end, Bound, Interval,
       elapsed,
                SamplesOfSetting, Passes, Tsc, get_start, get_end, diff
  <1>4. QED
    BY <1>2, <1>3 DEF IInv

LEMMA ReadSeqStep == IInv /\ ReadSeq => IInv'
  <1> SUFFICES ASSUME IInv, ReadSeq PROVE IInv'
    OBVIOUS
  <1>1. UNCHANGED clockVars /\ UNCHANGED experimentVars /\ mpc = "warm"
        /\ mpc' \in {"warm", "pin"}
    BY DEF ReadSeq, sampleVars, clockVars, experimentVars
  <1>2. Types' /\ Bound' /\ Interval'
    BY <1>1, UntimedFrame DEF IInv, Controls
  <1>3. SamplesOfSetting'
    BY <1>1, SamplesFrame DEF IInv, Controls
  <1>4. QED
    BY <1>2, <1>3 DEF IInv

LEMMA UseCoresStep == IInv /\ UseCores => IInv'
  <1> SUFFICES ASSUME IInv, UseCores PROVE IInv'
    OBVIOUS
  <1>1. /\ UNCHANGED experimentVars /\ mpc = "pin" /\ mpc' = "drop"
        /\ UNCHANGED <<clock, online, start, end, prog, left, total, busy>>
        /\ use_cores({prog.core})
    BY DEF UseCores, sampleVars, experimentVars
  <1>2. affinity' = {prog.core} /\ core' = prog.core /\ prog.core \in online
    BY <1>1 DEF use_cores
  <1>3. Types'
    BY <1>1, <1>2 DEF IInv, Types, Controls, start, end, Passes
  <1>4. Bound' /\ Interval'
    BY <1>1, <1>2 DEF Bound, Interval
  <1>5. SamplesOfSetting'
    BY <1>1, SamplesFrame DEF IInv, Controls
  <1>6. QED
    BY <1>3, <1>4, <1>5 DEF IInv

LEMMA UseCoresThrowsStep == IInv /\ UseCoresThrows => IInv'
  <1> SUFFICES ASSUME IInv, UseCoresThrows PROVE IInv'
    OBVIOUS
  <1>1. /\ UNCHANGED clockVars /\ UNCHANGED experimentVars
        /\ mpc = "pin" /\ mpc' = "threw"
    BY DEF UseCoresThrows, sampleVars, clockVars, experimentVars
  <1>2. Types' /\ Bound' /\ Interval'
    BY <1>1, UntimedFrame DEF IInv, Controls
  <1>3. SamplesOfSetting'
    BY <1>1, SamplesFrame DEF IInv, Controls
  <1>4. QED
    BY <1>2, <1>3 DEF IInv

LEMMA DropCachesStep == IInv /\ DropCaches => IInv'
  <1> SUFFICES ASSUME IInv, DropCaches PROVE IInv'
    OBVIOUS
  <1>1. /\ UNCHANGED clockVars /\ UNCHANGED experimentVars
        /\ mpc = "drop" /\ mpc' \in {"open", "exit1"}
    BY DEF DropCaches, DropStatus, sampleVars, clockVars, experimentVars
  <1>2. Types' /\ Bound' /\ Interval'
    BY <1>1, UntimedFrame DEF IInv, Controls
  <1>3. SamplesOfSetting'
    BY <1>1, SamplesFrame DEF IInv, Controls
  <1>4. QED
    BY <1>2, <1>3 DEF IInv

LEMMA NoFileStep == IInv /\ NoFile => IInv'
  <1> SUFFICES ASSUME IInv, NoFile PROVE IInv'
    OBVIOUS
  <1>1. /\ UNCHANGED clockVars /\ UNCHANGED experimentVars
        /\ mpc \in {"warm", "open"} /\ mpc' = "exit1"
    BY DEF NoFile, sampleVars, clockVars, experimentVars
  <1>2. Types' /\ Bound' /\ Interval'
    BY <1>1, UntimedFrame DEF IInv, Controls
  <1>3. SamplesOfSetting'
    BY <1>1, SamplesFrame DEF IInv, Controls
  <1>4. QED
    BY <1>2, <1>3 DEF IInv

LEMMA OpenFileStep == IInv /\ OpenFile => IInv'
  <1> SUFFICES ASSUME IInv, OpenFile PROVE IInv'
    OBVIOUS
  <1>1. /\ UNCHANGED timerVars /\ UNCHANGED prog /\ UNCHANGED experimentVars
        /\ mpc = "open" /\ mpc' = "begin"
        /\ left' = Passes /\ total' = 0 /\ busy' = 0
    BY DEF OpenFile, experimentVars
  <1>2. Passes \in Nat \ {0} /\ Passes' = Passes
    BY <1>1, PassesFit DEF IInv, Types, Passes
  <1>3. Types'
    BY <1>1, <1>2 DEF IInv, Types, Controls, timerVars, start, end
  <1>4. Bound' /\ Interval'
    BY <1>1, <1>2 DEF IInv, Bound, Interval, timerVars
  <1>5. SamplesOfSetting'
    BY <1>1, SamplesFrame DEF IInv, Controls
  <1>6. QED
    BY <1>3, <1>4, <1>5 DEF IInv

LEMMA BeginTimerStep == IInv /\ BeginTimer => IInv'
  <1> SUFFICES ASSUME IInv, BeginTimer PROVE IInv'
    OBVIOUS
  <1>1. /\ UNCHANGED experimentVars /\ mpc = "begin" /\ mpc' = "work"
        /\ UNCHANGED <<clock, online, affinity, core, end, prog, left, total, busy>>
        /\ Begin
    BY DEF BeginTimer, sampleVars, experimentVars
  <1>2. core \in Cores /\ clock \in Int
    BY WidthPositive DEF IInv, Types
  <1>3. /\ cycles_high' \in 0..(Half - 1) /\ cycles_low' \in 0..(Half - 1)
        /\ get_start' = Tsc(core) /\ Tsc(core) \in 0..(Width - 1)
    <2>1. /\ Tsc(core) \in 0..(Width - 1)
          /\ Tsc(core) \div Half \in 0..(Half - 1) /\ Tsc(core) % Half \in 0..(Half - 1)
          /\ (Tsc(core) \div Half) * Half + (Tsc(core) % Half) = Tsc(core)
      BY <1>2, Halves, Zenon
    <2>2. cycles_high' = Tsc(core) \div Half /\ cycles_low' = Tsc(core) % Half
      BY <1>1 DEF Begin
    <2>3. QED
      BY <2>1, <2>2, Zenon DEF get_start
  <1>4. Types'
    BY <1>1, <1>3 DEF IInv, Types, Controls, end, Passes
  <1>5. Bound'
    BY <1>1 DEF IInv, Bound
  <1>6. Interval'
    <2>1. elapsed' = 0 /\ Tsc(core)' = Tsc(core) /\ left' = left /\ left > 0
          /\ left <= Passes /\ left \in Nat /\ Passes' = Passes /\ Passes \in Nat
      BY <1>1, PassesFit DEF IInv, Types, Interval, elapsed, Tsc, Passes
    <2>2. 0 <= (Passes - left) * Longest
      BY <2>1, Times, TimedLoopsAssumption
    <2>3. Tsc(core) = (Tsc(core) + 0) % Width
      <3>1. Tsc(core) \in Int
        BY <1>3, WidthPositive
      <3> DEFINE t == Tsc(core)
      <3> HIDE DEF t
      <3>2. t \in 0..(Width - 1) /\ t \in Int /\ t = t + 0 * Width /\ 0 \in Int
        BY <1>3, <3>1, WidthPositive DEF t
      <3>3. t % Width = t
        BY <3>2, ModUnique, WidthPositive, Zenon
      <3>4. QED
        BY <3>2, <3>3 DEF t
    <2>4. QED
      BY <1>1, <1>3, <2>1, <2>2, <2>3 DEF Interval
  <1>7. SamplesOfSetting'
    BY <1>1, SamplesFrame DEF IInv, Controls
  <1>8. QED
    BY <1>4, <1>5, <1>6, <1>7 DEF IInv

\* Whatever a pass does, it makes time pass and either goes on, or the program
\* has crashed.
LEMMA PassEffect ==
  ASSUME Pass
  PROVE  /\ UNCHANGED experimentVars /\ mpc = "work"
         /\ UNCHANGED <<online, affinity, core, start, end, prog, total>>
         /\ \E d \in Durations : clock' = (clock + d) % Width /\ busy' = busy + d
         /\ \/ left' = left - 1 /\ mpc' \in {"work", "end"} /\ (left = 1 => mpc' = "end")
            \/ left' = left /\ mpc' = "crashed"
  <1>1. CASE PassOver
    BY <1>1 DEF Pass, PassOver, LastPass, PassTakesTime, experimentVars
  <1>2. CASE left' = left /\ mpc' = "crashed"
    BY <1>2 DEF Pass, PassTakesTime, experimentVars
  <1>3. PassOver \/ (left' = left /\ mpc' = "crashed")
    BY DEF Pass, CallPass, ChasePass, UnrolledPass, SequentialPass, RandomPass,
           MappedPass, StrayPass
  <1>4. QED
    BY <1>1, <1>2, <1>3

LEMMA PassStep == IInv /\ Pass => IInv'
  <1> SUFFICES ASSUME IInv, Pass PROVE IInv'
    OBVIOUS
  <1>1. PICK d \in Durations : clock' = (clock + d) % Width /\ busy' = busy + d
    BY PassEffect
  <1>2. /\ UNCHANGED experimentVars /\ mpc = "work"
        /\ UNCHANGED <<online, affinity, core, start, end, prog, total>>
        /\ \/ left' = left - 1 /\ mpc' \in {"work", "end"} /\ (left = 1 => mpc' = "end")
           \/ left' = left /\ mpc' = "crashed"
    BY PassEffect
  <1>3. /\ d \in 0..Longest /\ Longest \in Nat
        /\ clock \in Int /\ core \in Cores /\ Offset[core] \in Nat
        /\ left \in Nat /\ left > 0 /\ left <= Passes
        /\ Passes \in Nat /\ Passes' = Passes
    BY <1>2, PassesFit, WidthPositive, TimerAssumption, TimedLoopsAssumption
    DEF IInv, Types, Interval, Passes
  <1>4. clock' \in 0..(Width - 1)
    <2>1. clock + d \in Int
      BY <1>3
    <2>2. (clock + d) % Width \in 0..(Width - 1)
      BY <2>1, WidthPositive, DivMod, Zenon
    <2>3. QED
      BY <1>1, <2>2
  <1>5. Types'
    BY <1>1, <1>2, <1>3, <1>4 DEF IInv, Types, Controls, start, end
  <1>6. Bound'
    BY <1>2 DEF IInv, Bound
  <1>7. Interval'
    <2>1. CASE mpc' = "crashed"
      BY <2>1 DEF Interval
    <2>2. CASE left' = left - 1 /\ mpc' \in {"work", "end"} /\ (left = 1 => mpc' = "end")
      <3>1. /\ elapsed \in Nat /\ elapsed <= (Passes - left) * Longest
            /\ Tsc(core) = (get_start + elapsed) % Width
            /\ get_start \in Int /\ get_start' = get_start
        <4>1. get_start \in Int
          BY WidthPositive DEF IInv, Types, get_start
        <4>2. get_start' = get_start
          BY <1>2 DEF start, get_start
        <4>3. QED
          BY <1>2, <4>1, <4>2 DEF IInv, Interval
      <3>2. elapsed' = elapsed + d
        BY <1>1, <1>2, <1>3 DEF IInv, Types, elapsed
      <3>3. elapsed' <= (Passes - left') * Longest
        <4> DEFINE m == Passes - left
        <4>1. m \in Nat /\ Passes - left' = m + 1
          BY <1>3, <2>2
        <4> HIDE DEF m
        <4>2. (m + 1) * Longest = m * Longest + Longest
          BY <4>1, Times
        <4>3. elapsed <= m * Longest
          BY <3>1 DEF m
        <4>4. m * Longest \in Int
          BY <4>1, <1>3
        <4>5. QED
          BY <1>3, <3>1, <3>2, <4>1, <4>2, <4>3, <4>4
      <3>4. Tsc(core)' = (get_start + elapsed') % Width
        <4> DEFINE o == Offset[core]
                   a == clock + d
                   b == clock + o
                   c == get_start + elapsed
        <4>1. /\ o \in Int /\ a \in Int /\ b \in Int /\ c \in Int /\ d \in Int
              /\ a + o = b + d /\ c + d = get_start + elapsed'
          BY <1>3, <3>1, <3>2
        <4>2. Tsc(core)' = ((a % Width) + o) % Width
          BY <1>1, <1>2 DEF Tsc
        <4>3. b % Width = c % Width
          BY <3>1 DEF Tsc
        <4> HIDE DEF o, a, b, c
        <4>4. ((a % Width) + o) % Width = (a + o) % Width
          BY <4>1, ModAdd, WidthPositive, Zenon
        <4>5. ((b % Width) + d) % Width = (b + d) % Width
          BY <4>1, ModAdd, WidthPositive, Zenon
        <4>6. ((c % Width) + d) % Width = (c + d) % Width
          BY <4>1, ModAdd, WidthPositive, Zenon
        <4>7. QED
          BY <4>1, <4>2, <4>3, <4>4, <4>5, <4>6, Zenon
      <3>5. elapsed' \in Nat
        BY <1>3, <3>1, <3>2
      <3>6. left' > 0 \/ mpc' = "end"
        BY <1>3, <2>2
      <3>7. Tsc(core)' = (get_start' + elapsed') % Width
        BY <3>1, <3>4
      <3>8. QED
        BY <1>3, <2>2, <3>3, <3>5, <3>6, <3>7 DEF Interval
    <2>3. QED
      BY <1>2, <2>1, <2>2
  <1>8. SamplesOfSetting'
    BY <1>2, SamplesFrame DEF IInv, Controls
  <1>9. QED
    BY <1>5, <1>6, <1>7, <1>8 DEF IInv

LEMMA EndTimerStep == IInv /\ EndTimer => IInv'
  <1> SUFFICES ASSUME IInv, EndTimer PROVE IInv'
    OBVIOUS
  <1>1. /\ UNCHANGED experimentVars /\ mpc = "end" /\ mpc' = "add"
        /\ UNCHANGED <<clock, online, affinity, core, start, prog, left, total, busy>>
        /\ End
    BY DEF EndTimer, sampleVars, experimentVars
  <1>2. core \in Cores /\ clock \in Int
    BY WidthPositive DEF IInv, Types
  <1>3. /\ cycles_high1' \in 0..(Half - 1) /\ cycles_low1' \in 0..(Half - 1)
        /\ get_end' = Tsc(core) /\ Tsc(core) \in 0..(Width - 1)
    <2>1. /\ Tsc(core) \in 0..(Width - 1)
          /\ Tsc(core) \div Half \in 0..(Half - 1) /\ Tsc(core) % Half \in 0..(Half - 1)
          /\ (Tsc(core) \div Half) * Half + (Tsc(core) % Half) = Tsc(core)
      BY <1>2, Halves, Zenon
    <2>2. cycles_high1' = Tsc(core) \div Half /\ cycles_low1' = Tsc(core) % Half
      BY <1>1 DEF End
    <2>3. QED
      BY <2>1, <2>2, Zenon DEF get_end
  <1>4. Types'
    BY <1>1, <1>3 DEF IInv, Types, Controls, start, Passes
  <1>5. Bound'
    BY <1>1 DEF IInv, Bound
  <1>6. Interval'
    <2>1. /\ elapsed \in Nat /\ elapsed <= (Passes - left) * Longest
          /\ Tsc(core) = (get_start + elapsed) % Width
          /\ elapsed' = elapsed
      BY <1>1 DEF IInv, Interval, elapsed
    <2>2. elapsed < Width
      <3> DEFINE m == Passes - left
      <3>1. /\ Passes \in Nat /\ Passes * Longest < Width
            /\ m \in Nat /\ m <= Passes /\ Longest \in Nat
        BY SMTT(60), PassesFit, TimedLoopsAssumption DEF IInv, Types
      <3> HIDE DEF m
      <3>2. m * Longest <= Passes * Longest
        BY <3>1, Times
      <3>3. m * Longest \in Int /\ Passes * Longest \in Int
        BY <3>1
      <3>4. elapsed <= m * Longest
        BY <2>1 DEF m
      <3>5. QED
        BY <2>1, <3>1, <3>2, <3>3, <3>4, WidthPositive
    <2>3. get_start \in Int /\ get_start' = get_start
      BY <1>1, WidthPositive DEF IInv, Types, get_start, start
    <2>4. Tsc(core) \in Int
      BY <1>3, WidthPositive
    <2>5. (Tsc(core) - get_start) % Width = elapsed
      BY <2>1, <2>2, <2>3, <2>4, Elapsed
    <2>6. diff' = elapsed'
      BY <1>3, <2>1, <2>3, <2>5 DEF diff
    <2>7. QED
      BY <1>1, <2>6 DEF Interval
  <1>7. SamplesOfSetting'
    BY <1>1, SamplesFrame DEF IInv, Controls
  <1>8. QED
    BY <1>4, <1>5, <1>6, <1>7 DEF IInv

LEMMA AddIntervalStep == IInv /\ AddInterval => IInv'
  <1> SUFFICES ASSUME IInv, AddInterval PROVE IInv'
    OBVIOUS
  <1>1. /\ UNCHANGED experimentVars /\ mpc = "add"
        /\ UNCHANGED <<online, affinity, core, start, end, prog, left, busy>>
        /\ total' = total + diff /\ clock' = (clock + 1) % Width
        /\ mpc' = IF left > 0 THEN "begin" ELSE "sample"
    BY DEF AddInterval, experimentVars
  <1>2. total' = busy
    BY <1>1 DEF IInv, Types, Interval, elapsed
  <1>3. clock' \in 0..(Width - 1)
    <2>1. clock + 1 \in Int
      BY WidthPositive DEF IInv, Types
    <2>2. QED
      BY <1>1, <2>1, WidthPositive, DivMod, Zenon
  <1>4. Types'
    BY <1>1, <1>2, <1>3 DEF IInv, Types, Controls, start, end, Passes
  <1>5. Bound'
    BY <1>1 DEF IInv, Bound
  <1>6. Interval'
    BY <1>1, <1>2 DEF Interval
  <1>7. SamplesOfSetting'
    BY <1>1, SamplesFrame DEF IInv, Controls
  <1>8. QED
    BY <1>4, <1>5, <1>6, <1>7 DEF IInv

LEMMA SampleStep == IInv /\ Sample => IInv'
  <1> SUFFICES ASSUME IInv, Sample PROVE IInv'
    OBVIOUS
  <1>1. /\ UNCHANGED clockVars /\ mpc = "sample" /\ UNCHANGED setting
        /\ vals' = Append(vals, setting) /\ run' = run + 1
        /\ mpc' = IF run + 1 < Runs THEN "drop" ELSE "report"
    BY DEF Sample, sampleVars, clockVars
  <1>2. Types' /\ Bound' /\ Interval'
    BY <1>1, UntimedFrame DEF IInv, Controls
  <1>3. run \in Nat /\ run + 1 <= Runs /\ Runs \in Nat /\ vals = [r \in 1..run |-> setting]
    BY <1>1, TimedLoopsAssumption DEF IInv, SamplesOfSetting, Controls
  <1>4. Append(vals, setting) = [r \in 1..(run + 1) |-> setting]
    BY <1>3
  <1>5. SamplesOfSetting'
    BY <1>1, <1>3, <1>4 DEF SamplesOfSetting, Controls
  <1>6. QED
    BY <1>2, <1>5 DEF IInv

LEMMA ReportStep == IInv /\ Report => IInv'
  <1> SUFFICES ASSUME IInv, Report PROVE IInv'
    OBVIOUS
  <1>1. /\ UNCHANGED clockVars /\ mpc = "report"
        /\ mpc' \in {"warm", "pin", "drop", "done"}
    BY DEF Report, NextStep, FirstStep, sampleVars, clockVars
  <1>2. Types'
    BY <1>1, TypesFrame DEF IInv, Controls
  <1>3. Bound' /\ Interval'
    BY <1>1 DEF IInv, Bound, Interval, clockVars, timerVars
  <1>4. SamplesOfSetting'
    <2>1. CASE setting < LastSetting
      <3>1. run' = 0 /\ vals' = <<>>
        BY <2>1 DEF Report, ValsReset
      <3>2. <<>> = [r \in 1..0 |-> setting']
        OBVIOUS
      <3>3. QED
        BY <1>1, <3>1, <3>2, TimedLoopsAssumption DEF SamplesOfSetting
    <2>2. CASE ~(setting < LastSetting)
      <3>1. UNCHANGED <<setting, run, vals>> /\ mpc' = "done"
        BY <2>2 DEF Report
      <3>2. QED
        BY <1>1, <3>1 DEF IInv, SamplesOfSetting
    <2>3. QED
      BY <2>1, <2>2
  <1>5. QED
    BY <1>2, <1>3, <1>4 DEF IInv

\* Bound to one core, the process is not moved.
LEMMA MoveCoreStep == IInv /\ MoveCore => IInv'
  <1> SUFFICES ASSUME IInv, MoveCore PROVE IInv'
    OBVIOUS
  <1>1. /\ UNCHANGED experimentVars /\ mpc' = mpc
        /\ core' \in affinity \ {core}
        /\ UNCHANGED <<clock, online, affinity, start, end, prog, left, total, busy>>
    BY DEF MoveCore, Migrate, sampleVars, experimentVars
  <1>2. mpc \in {"warm", "pin", "exit1", "threw"}
    BY <1>1 DEF IInv, Bound
  <1>3. Types'
    BY <1>1 DEF IInv, Types, start, end, Passes
  <1>4. Bound' /\ Interval'
    BY <1>1, <1>2 DEF Bound, Interval
  <1>5. SamplesOfSetting'
    BY <1>1, <1>2, SamplesFrame DEF IInv, Controls
  <1>6. QED
    BY <1>3, <1>4, <1>5 DEF IInv

LEMMA StepInvariant == IInv /\ [Next]_vars => IInv'
  BY StutterInvariant, ReadSeqStep, UseCoresStep, UseCoresThrowsStep,
     DropCachesStep, OpenFileStep, NoFileStep, BeginTimerStep, PassStep,
     EndTimerStep, AddIntervalStep, SampleStep, ReportStep, MoveCoreStep
  DEF Next, Finished

LEMMA Invariant == Spec => []IInv
  BY StepInvariant, InitInvariant, PTL DEF Spec

-----------------------------------------------------------------------------
(* The programs, and the page cache *)

Entries == Settings \X Nat

\* What the walk of a program says of its other fields.
Kind(p) ==
  /\ p.walk \in {"none", "chase", "unrolled", "sequential", "random", "mapped"}
  /\ p.timing \in {"whole", "each"}
  /\ p.timing = "each" => p.walk = "none"
  /\ p.warm \in BOOLEAN /\ p.drop \in {"never", "checked", "ignored"}
  /\ p.warm => p.walk = "random" /\ p.drop = "never"
  /\ p.walk = "random" /\ p.drop # "checked" => p.warm
  /\ p.walk = "sequential" => p.drop = "checked"
  /\ p.walk = "mapped" => p.drop = "ignored"
  /\ p.walk \in {"none", "chase", "unrolled"} => p.drop = "never"

LEMMA ProgramKinds ==
  ASSUME prog \in Programs
  PROVE  Kind(prog)
  <1> USE DEF Kind, Plain
  <1>1. Kind(ProcedureCall) /\ Kind(ReadTimeOverhead) /\ Kind(ReadTimeOverheadLoop)
        /\ Kind(SystemCall) /\ Kind(RamAccessTime)
    BY DEF ProcedureCall, ReadTimeOverhead, ReadTimeOverheadLoop, SystemCall,
       RamAccessTime
  <1>2. Kind(ReadBW) /\ Kind(WriteBW)
    BY DEF ReadBW, WriteBW
  <1>3. Kind(ReadSequential) /\ Kind(ReadRandom)
    BY DEF ReadSequential, ReadRandom
  <1>4. Kind(CacheSize) /\ Kind(PageFault)
    BY DEF CacheSize, PageFault
  <1> HIDE DEF Kind
  <1>5. QED
    BY <1>1, <1>2, <1>3, <1>4 DEF Programs

\* The block used is in front, the blocks before its place move by one, those
\* behind it stay.
LEMMA UseOfCache ==
  ASSUME NEW c \in Seq(Entries), Len(c) <= CacheBlocks, NEW b \in Entries
  PROVE  /\ Place(c, b) \in 1..CacheBlocks
         /\ Used(c, b) \in Seq(Entries)
         /\ Len(Used(c, b)) <= CacheBlocks /\ Len(Used(c, b)) >= 1
         /\ Used(c, b)[1] = b
         /\ \A k \in 1..Len(c) :
              IF k < Place(c, b) THEN k + 1 <= Len(Used(c, b)) /\ Used(c, b)[k + 1] = c[k]
              ELSE k > Place(c, b) => k <= Len(Used(c, b)) /\ Used(c, b)[k] = c[k]
         /\ (\E k \in 1..Len(c) : c[k] = b) => Place(c, b) <= Len(c) /\ c[Place(c, b)] = b
         /\ (~\E k \in 1..Len(c) : c[k] = b) => Place(c, b) > Len(c) \/ Place(c, b) = CacheBlocks
  <1> DEFINE p == Place(c, b)
             u == SubSeq(c, 1, p - 1)
             v == SubSeq(c, p + 1, Len(c))
  <1>0. Len(c) \in Nat /\ DOMAIN c = 1..Len(c) /\ CacheBlocks \in Nat \ {0}
        /\ \A k \in 1..Len(c) : c[k] \in Entries
    BY TimedLoopsAssumption
  <1>1. /\ p \in 1..CacheBlocks /\ p <= Len(c) + 1
        /\ (\E k \in 1..Len(c) : c[k] = b) => p <= Len(c) /\ c[p] = b
        /\ (~\E k \in 1..Len(c) : c[k] = b) => p > Len(c) \/ p = CacheBlocks
        /\ p > Len(c) => Len(c) < CacheBlocks
    <2>1. CASE \E k \in 1..Len(c) : c[k] = b
      <3>1. p = CHOOSE k \in DOMAIN c : c[k] = b
        <4>1. \E k \in DOMAIN c : c[k] = b
          BY <1>0, <2>1
        <4>2. QED
          BY <4>1, Zenon DEF Place
      <3>2. p \in 1..Len(c) /\ c[p] = b
        BY <1>0, <2>1, <3>1
      <3>3. QED
        BY <1>0, <2>1, <3>2
    <2>2. CASE ~\E k \in 1..Len(c) : c[k] = b
      <3>1. p = IF Len(c) + 1 < CacheBlocks THEN Len(c) + 1 ELSE CacheBlocks
        BY <1>0, <2>2 DEF Place, AtMost
      <3>2. QED
        BY <1>0, <2>2, <3>1
    <2>3. QED
      BY <2>1, <2>2
  <1>a. /\ p \in Nat \ {0} /\ p <= CacheBlocks /\ p <= Len(c) + 1
        /\ Len(c) \in Nat /\ CacheBlocks \in Nat /\ (p > Len(c) => Len(c) < CacheBlocks)
    BY <1>0, <1>1
  <1> HIDE DEF p
  <1>2. u \in Seq(Entries) /\ Len(u) = p - 1 /\ \A k \in 1..(p - 1) : u[k] = c[k]
    <2>1. \A k \in 1..(p - 1) : c[k] \in Entries
      BY <1>0, <1>1
    <2>2. QED
      BY <1>a, <2>1, SubSeqProperties
  <1>3. v \in Seq(Entries) /\ Len(v) \in Nat
        /\ (p <= Len(c) => Len(v) = Len(c) - p) /\ (p > Len(c) => Len(v) = 0)
        /\ \A k \in 1..Len(v) : v[k] = c[p + k]
    <2>1. \A k \in (p + 1)..Len(c) : c[k] \in Entries
      BY <1>0, <1>1
    <2>2. p + 1 \in Int /\ Len(c) \in Int
      BY <1>a
    <2>3. /\ v \in Seq(Entries)
          /\ Len(v) = IF p + 1 <= Len(c) THEN Len(c) - (p + 1) + 1 ELSE 0
          /\ \A i \in 1..(Len(c) - (p + 1) + 1) : v[i] = c[(p + 1) + i - 1]
      <3> DEFINE m == p + 1
      <3>1. m \in Int /\ \A k \in m..Len(c) : c[k] \in Entries
        BY <2>1, <2>2
      <3> HIDE DEF m
      <3>2. /\ SubSeq(c, m, Len(c)) \in Seq(Entries)
            /\ Len(SubSeq(c, m, Len(c))) = IF m <= Len(c) THEN Len(c) - m + 1 ELSE 0
            /\ \A i \in 1..(Len(c) - m + 1) : SubSeq(c, m, Len(c))[i] = c[m + i - 1]
        BY <2>2, <3>1, SubSeqProperties
      <3>3. QED
        BY <3>2, Zenon DEF m, v
    <2> HIDE DEF v
    <2>4. /\ Len(v) \in Nat
          /\ (p <= Len(c) => Len(v) = Len(c) - p) /\ (p > Len(c) => Len(v) = 0)
      BY <1>a, <2>3
    <2>5. \A k \in 1..Len(v) : v[k] = c[p + k]
      BY <1>a, <2>3, <2>4
    <2>6. QED
      BY <2>3, <2>4, <2>5
  <1> HIDE DEF u, v
  <1>4. Used(c, b) = <<b>> \o u \o v
    BY DEF Used, p, u, v
  <1>5. <<b>> \o u \in Seq(Entries) /\ Len(<<b>> \o u) = p
        /\ (<<b>> \o u)[1] = b /\ \A k \in 1..(p - 1) : (<<b>> \o u)[k + 1] = u[k]
    BY <1>1, <1>2
  <1> DEFINE w == <<b>> \o u
  <1> HIDE DEF w
  <1>6. /\ Used(c, b) \in Seq(Entries) /\ Len(Used(c, b)) = p + Len(v)
        /\ \A k \in 1..p : Used(c, b)[k] = w[k]
        /\ \A k \in 1..Len(v) : Used(c, b)[p + k] = v[k]
    <2>1. w \in Seq(Entries) /\ Len(w) = p /\ Used(c, b) = w \o v
      BY <1>4, <1>5 DEF w
    <2>2. /\ w \o v \in Seq(Entries) /\ Len(w \o v) = Len(w) + Len(v)
          /\ \A k \in 1..(Len(w) + Len(v)) :
               (w \o v)[k] = IF k <= Len(w) THEN w[k] ELSE v[k - Len(w)]
      BY <1>3, <2>1, ConcatProperties
    <2>3. Len(v) \in Nat /\ p \in Nat
      BY <1>1, <1>3
    <2>4. QED
      BY SMTT(60), <2>1, <2>2, <2>3
  <1>7. w[1] = b /\ \A k \in 1..(p - 1) : w[k + 1] = u[k]
    BY <1>5 DEF w
  <1>8. \A k \in 1..Len(c) :
              IF k < p THEN k + 1 <= Len(Used(c, b)) /\ Used(c, b)[k + 1] = c[k]
              ELSE k > p => k <= Len(Used(c, b)) /\ Used(c, b)[k] = c[k]
    <2> SUFFICES ASSUME NEW k \in 1..Len(c)
                 PROVE  IF k < p THEN k + 1 <= Len(Used(c, b)) /\ Used(c, b)[k + 1] = c[k]
                        ELSE k > p => k <= Len(Used(c, b)) /\ Used(c, b)[k] = c[k]
      OBVIOUS
    <2>1. CASE k < p
      <3>1. k \in 1..(p - 1) /\ k + 1 \in 1..p
        BY <1>a, <2>1
      <3>2. Used(c, b)[k + 1] = c[k]
        BY <1>2, <1>6, <1>7, <3>1, Zenon
      <3>3. k + 1 <= Len(Used(c, b))
        BY <1>a, <1>3, <1>6, <3>1
      <3>4. QED
        BY <2>1, <3>2, <3>3
    <2>2. CASE k > p
      <3>0. Len(v) = Len(c) - p
        BY <1>a, <1>3, <2>2
      <3>1. k - p \in 1..Len(v) /\ p + (k - p) = k
        BY <1>a, <2>2, <3>0
      <3>2. Used(c, b)[p + (k - p)] = v[k - p] /\ v[k - p] = c[p + (k - p)]
        BY <1>3, <1>6, <3>1
      <3>3. QED
        BY <1>a, <1>6, <2>2, <3>0, <3>1, <3>2
    <2>3. QED
      BY <1>a, <2>1, <2>2
  <1>9. Len(Used(c, b)) <= CacheBlocks /\ Len(Used(c, b)) >= 1 /\ Used(c, b)[1] = b
    <2>1. 1 \in 1..p /\ Used(c, b)[1] = w[1]
      BY <1>a, <1>6
    <2>2. Len(Used(c, b)) = p + Len(v) /\ Len(v) \in Nat
      BY <1>3, <1>6
    <2>3. QED
      BY <1>a, <1>3, <1>7, <2>1, <2>2
  <1>10. QED
    BY <1>1, <1>6, <1>8, <1>9 DEF p

-----------------------------------------------------------------------------
(* The data: files, positions, the page cache *)

Timed == {"begin", "work", "end", "add", "sample"}

Files ==
  /\ setting \in Settings
  /\ \A s \in Settings : /\ length[s] \in Int /\ Absent <= length[s]
                         /\ length[s] <= FileBlocks[s]

\* The descriptor is behind the end of the file at most, and there is one only
\* from open to close.
Bounds == 0..(IF prog.walk = "chase" THEN ARR_SIZE - 1 ELSE FileBlocks[File])
Position ==
  /\ pos \in Bounds
  /\ mpc = "warm" => prog.warm /\ (pos = 0 \/ pos <= length[File])
  /\ mpc \notin Timed \cup {"warm", "crashed", "exit1"} => pos = 0

CacheFits == cache \in Seq(Entries) /\ Len(cache) <= CacheBlocks

\* An interval that has ended had a pass, and all intervals of a sample have all.
Counter ==
  /\ mpc \in {"end", "add"} => left < Passes
  /\ mpc = "sample" => left = 0

\* Who checks that the cache was dropped does not go on without root; and before
\* the first interval nothing has been read since.
First == mpc = "open" \/ (mpc = "begin" /\ left = Passes)
Dropped ==
  /\ prog.drop = "checked" /\ mpc \in {"open"} \cup Timed => root
  /\ prog.drop # "never" /\ root /\ First => cache = <<>>

\* readSeq has put what it has read in front of all else; after it no block of
\* the file is ever replaced, since every block it uses is there already.
InFront(n) == \A b \in 0..(n - 1) : \E k \in 1..n :
                k \in DOMAIN cache /\ cache[k] = <<File, b>>
AllCached == \A b \in 0..(length[File] - 1) : Cached(File, b)
Warmed ==
  prog.warm /\ length[File] <= CacheBlocks =>
    /\ mpc = "warm" => InFront(pos)
    /\ mpc \in {"pin", "drop", "open"} \cup Timed => AllCached

Data == Files /\ Position /\ CacheFits /\ Counter /\ Dropped /\ Warmed

LEMMA FileIsThere ==
  ASSUME prog \in Programs, Files
  PROVE  /\ File \in Settings /\ length[File] \in Int
         /\ Absent <= length[File] /\ length[File] <= FileBlocks[File]
         /\ FileBlocks[File] \in Nat /\ FileBlocks[File] > ITER + 1
         /\ ITER \in Nat \ {0}
         /\ 0 \in Bounds
  <1>1. 1 \in Settings
    BY TimedLoopsAssumption DEF Settings
  <1>2. File \in Settings
    BY <1>1 DEF Files, File
  <1>3. /\ length[File] \in Int /\ Absent <= length[File]
        /\ length[File] <= FileBlocks[File]
    BY <1>2 DEF Files
  <1>4. /\ FileBlocks[File] \in Nat /\ FileBlocks[File] > ITER + 1
        /\ ITER \in Nat \ {0} /\ ARR_SIZE \in Nat \ {0}
    <2>1. FileBlocks \in Seq(Nat)
      BY TimedLoopsAssumption
    <2>2. FileBlocks[File] \in Nat
      BY <1>2, <2>1 DEF Settings
    <2>3. QED
      BY <1>2, <2>2, TimedLoopsAssumption
  <1>5. QED
    BY <1>2, <1>3, <1>4 DEF Bounds

LEMMA InitData == Init => Data
  <1> SUFFICES ASSUME Init PROVE Data
    OBVIOUS
  <1>1. prog \in Programs /\ Kind(prog) /\ setting = 1 /\ cache = <<>> /\ pos = 0 /\ left = 0
        /\ mpc = FirstStep
    BY ProgramKinds DEF Init
  <1>2. Files
    <2>1. setting \in Settings
      BY <1>1, TimedLoopsAssumption DEF Settings
    <2>2. ASSUME NEW s \in Settings
          PROVE  length[s] \in Int /\ Absent <= length[s] /\ length[s] <= FileBlocks[s]
      <3>1. FileBlocks[s] \in Nat
        BY TimedLoopsAssumption DEF Settings
      <3>2. CASE OfFile
        <4>1. PICK kind \in [Settings -> {"absent", "short", "whole"}] :
                length = [t \in Settings |-> Blocks(t, kind[t])]
          BY <3>2 DEF Init
        <4>2. length[s] = Blocks(s, kind[s]) /\ kind[s] \in {"absent", "short", "whole"}
          BY <4>1
        <4>3. Blocks(s, "absent") = Absent /\ Blocks(s, "short") = FileBlocks[s] \div 2
              /\ Blocks(s, "whole") = FileBlocks[s]
          BY DEF Blocks
        <4>4. FileBlocks[s] \div 2 \in Int /\ 0 <= FileBlocks[s] \div 2
              /\ FileBlocks[s] \div 2 <= FileBlocks[s]
          BY <3>1
        <4>5. QED
          BY <3>1, <4>2, <4>3, <4>4 DEF Absent
      <3>3. CASE ~OfFile
        BY <3>1, <3>3 DEF Init, Absent
      <3>4. QED
        BY <3>2, <3>3
    <2>3. QED
      BY <2>1, <2>2 DEF Files
  <1>3. mpc \in {"warm", "pin"} /\ (mpc = "warm" => prog.warm) /\ (mpc = "pin" => ~prog.warm)
    BY <1>1 DEF FirstStep
  <1>4. Position
    BY <1>1, <1>2, <1>3, FileIsThere DEF Position, Timed
  <1>5. CacheFits
    BY <1>1, TimedLoopsAssumption DEF CacheFits
  <1>6. Counter /\ Dropped
    BY <1>3 DEF Counter, Dropped, First, Timed
  <1>7. Warmed
    BY <1>1, <1>3 DEF Warmed, InFront, Timed
  <1>8. QED
    BY <1>2, <1>4, <1>5, <1>6, <1>7 DEF Data

\* The steps that only go on to the next statement.
dataVars == <<prog, root, length, setting, cache, pos, left>>

LEMMA DataFrame ==
  ASSUME Types, Data, UNCHANGED dataVars,
         \/ mpc' = mpc
         \/ mpc = "pin" /\ mpc' \in {"drop", "threw"}
         \/ mpc \in {"warm", "open"} /\ mpc' = "exit1"
         \/ mpc = "begin" /\ mpc' = "work"
         \/ mpc = "end" /\ mpc' = "add"
         \/ mpc = "add" /\ mpc' = "begin"
         \/ mpc = "add" /\ mpc' = "sample" /\ left = 0
  PROVE  Data'
  <1>1. /\ File' = File /\ length' = length /\ Bounds' = Bounds /\ Passes' = Passes
        /\ Files' = Files /\ CacheFits' = CacheFits /\ prog' = prog /\ root' = root
        /\ cache' = cache /\ pos' = pos /\ left' = left
        /\ InFront(pos)' = InFront(pos) /\ AllCached' = AllCached
    BY DEF dataVars, File, Bounds, Passes, Files, CacheFits, InFront,
       AllCached, Cached
  <1>2. Files' /\ CacheFits'
    BY <1>1 DEF Data
  <1>3. Position'
    BY <1>1 DEF Data, Position, Timed
  <1>4. Counter'
    BY <1>1 DEF Data, Counter
  <1>5. Dropped'
    <2>1. prog.drop = "checked" /\ mpc' \in {"open"} \cup Timed => root
      BY DEF Data, Dropped, Timed
    <2>2. First' => First
      BY <1>1, PassesFit DEF Data, First, Counter, Types
    <2>3. prog.drop # "never" /\ root /\ First' => cache = <<>>
      BY <2>2 DEF Data, Dropped
    <2>4. QED
      BY <1>1, <2>1, <2>3 DEF Dropped
  <1>6. Warmed'
    BY <1>1 DEF Data, Warmed, Timed
  <1>7. QED
    BY <1>2, <1>3, <1>4, <1>5, <1>6 DEF Data

LEMMA FrameSteps ==
  ASSUME Types, Data,
         UNCHANGED vars \/ UseCores \/ UseCoresThrows \/ NoFile \/ BeginTimer
           \/ EndTimer \/ AddInterval \/ MoveCore
  PROVE  Data'
  <1>1. CASE UNCHANGED vars
    BY <1>1, DataFrame DEF vars, sampleVars, dataVars
  <1>2. CASE UseCores
    BY <1>2, DataFrame DEF UseCores, sampleVars, dataVars
  <1>3. CASE UseCoresThrows
    BY <1>3, DataFrame DEF UseCoresThrows, sampleVars, dataVars
  <1>4. CASE NoFile
    BY <1>4, DataFrame DEF NoFile, sampleVars, dataVars
  <1>5. CASE BeginTimer
    BY <1>5, DataFrame DEF BeginTimer, sampleVars, dataVars
  <1>6. CASE EndTimer
    BY <1>6, DataFrame DEF EndTimer, sampleVars, dataVars
  <1>7. CASE AddInterval
    <2>1. left > 0 \/ left = 0
      BY PassesFit DEF Types
    <2>2. QED
      BY <1>7, <2>1, DataFrame DEF AddInterval, dataVars
  <1>8. CASE MoveCore
    BY <1>8, DataFrame DEF MoveCore, sampleVars, dataVars
  <1>9. QED
    BY <1>1, <1>2, <1>3, <1>4, <1>5, <1>6, <1>7, <1>8

\* A block that is used again replaces none.
LEMMA NothingReplaced ==
  ASSUME CacheFits, NEW b \in Entries, NEW e \in Entries,
         \E k \in DOMAIN cache : cache[k] = b, \E k \in DOMAIN cache : cache[k] = e,
         cache' = Used(cache, b)
  PROVE  CacheFits' /\ \E k \in DOMAIN cache' : cache'[k] = e
  <1>1. cache \in Seq(Entries) /\ Len(cache) <= CacheBlocks /\ DOMAIN cache = 1..Len(cache)
        /\ Len(cache) \in Nat
    BY DEF CacheFits
  <1> DEFINE p == Place(cache, b)
             u == Used(cache, b)
  <1>2. /\ u \in Seq(Entries) /\ Len(u) <= CacheBlocks /\ Len(u) >= 1 /\ u[1] = b
        /\ p \in 1..CacheBlocks /\ p <= Len(cache) /\ cache[p] = b
        /\ \A k \in 1..Len(cache) :
              IF k < p THEN k + 1 <= Len(u) /\ u[k + 1] = cache[k]
              ELSE k > p => k <= Len(u) /\ u[k] = cache[k]
    BY ZenonT(60), <1>1, UseOfCache
  <1> HIDE DEF p, u
  <1>3. DOMAIN u = 1..Len(u) /\ Len(u) \in Nat
    BY <1>2
  <1>4. PICK j \in 1..Len(cache) : cache[j] = e
    BY <1>1
  <1>5. \E k \in 1..Len(u) : u[k] = e
    <2>1. CASE j < p
      <3>1. j + 1 \in 1..Len(u) /\ u[j + 1] = e
        BY <1>2, <1>3, <1>4, <2>1
      <3>2. QED
        BY <3>1
    <2>2. CASE j = p
      <3>1. 1 \in 1..Len(u) /\ u[1] = e
        BY <1>2, <1>3, <1>4, <2>2
      <3>2. QED
        BY <3>1
    <2>3. CASE j > p
      <3>1. j \in 1..Len(u) /\ u[j] = e
        BY <1>2, <1>3, <1>4, <2>3
      <3>2. QED
        BY <3>1
    <2>4. j < p \/ j = p \/ j > p
      BY <1>1, <1>2
    <2>5. QED
      BY <2>1, <2>2, <2>3, <2>4
  <1>6. cache' = u
    BY DEF u
  <1>7. QED
    BY <1>2, <1>3, <1>5, <1>6 DEF CacheFits

\* The next block of a file that fits moves those read before it by one at most.
LEMMA ReadInFront ==
  ASSUME CacheFits, File \in Settings, pos \in Nat, pos < CacheBlocks, InFront(pos),
         cache' = Used(cache, <<File, pos>>), pos' = pos + 1, File' = File
  PROVE  InFront(pos)'
  <1> DEFINE b == <<File, pos>>
             p == Place(cache, b)
             u == Used(cache, b)
  <1>1. cache \in Seq(Entries) /\ Len(cache) <= CacheBlocks /\ DOMAIN cache = 1..Len(cache)
        /\ Len(cache) \in Nat /\ b \in Entries
    BY DEF CacheFits, Entries
  <1>2. /\ u \in Seq(Entries) /\ Len(u) >= 1 /\ u[1] = b
        /\ p \in 1..CacheBlocks
        /\ \A k \in 1..Len(cache) :
              IF k < p THEN k + 1 <= Len(u) /\ u[k + 1] = cache[k]
              ELSE k > p => k <= Len(u) /\ u[k] = cache[k]
        /\ (\E k \in 1..Len(cache) : cache[k] = b) => cache[p] = b
        /\ (~\E k \in 1..Len(cache) : cache[k] = b) => p > Len(cache) \/ p = CacheBlocks
    BY <1>1, UseOfCache
  <1> HIDE DEF p, u
  <1>3. DOMAIN u = 1..Len(u) /\ Len(u) \in Nat /\ cache' = u
    BY <1>2 DEF u
  <1>4. ASSUME NEW x \in 0..pos
        PROVE  \E k \in 1..(pos + 1) : k \in DOMAIN u /\ u[k] = <<File, x>>
    <2>1. CASE x = pos
      <3>1. 1 \in 1..(pos + 1) /\ 1 \in DOMAIN u /\ u[1] = <<File, x>>
        BY <1>2, <1>3, <2>1
      <3>2. QED
        BY <3>1
    <2>2. CASE x # pos
      <3>1. PICK k \in 1..pos : k \in DOMAIN cache /\ cache[k] = <<File, x>>
        <4>1. x \in 0..(pos - 1)
          BY <2>2
        <4>2. QED
          BY <4>1 DEF InFront
      <3>2. k # p
        BY <1>1, <1>2, <2>2, <3>1
      <3>3. CASE k < p
        <4>1. k + 1 \in 1..(pos + 1) /\ k + 1 \in DOMAIN u /\ u[k + 1] = <<File, x>>
          BY <1>1, <1>2, <1>3, <3>1, <3>3
        <4>2. QED
          BY <4>1
      <3>4. CASE k > p
        <4>1. k \in 1..(pos + 1) /\ k \in DOMAIN u /\ u[k] = <<File, x>>
          BY <1>1, <1>2, <1>3, <3>1, <3>4
        <4>2. QED
          BY <4>1
      <3>5. QED
        BY <1>2, <3>1, <3>2, <3>3, <3>4
    <2>3. QED
      BY <2>1, <2>2
  <1>5. QED
    <2>1. 0..(pos' - 1) = 0..pos /\ 1..pos' = 1..(pos + 1)
      OBVIOUS
    <2>2. QED
      BY <1>3, <1>4, <2>1 DEF InFront

LEMMA ReadSeqData == Types /\ Data /\ ReadSeq => Data'
  <1> SUFFICES ASSUME Types, Data, ReadSeq PROVE Data'
    OBVIOUS
  <1>1. /\ prog' = prog /\ root' = root /\ length' = length /\ setting' = setting
        /\ left' = left /\ mpc = "warm"
        /\ File' = File /\ Bounds' = Bounds /\ Passes' = Passes /\ Files'
    BY DEF ReadSeq, File, Bounds, Passes, Data, Files
  <1>2. /\ prog.warm /\ prog.walk = "random" /\ prog.drop = "never"
        /\ Bounds = 0..FileBlocks[File] /\ pos \in Nat
        /\ length[File] \in Int /\ length[File] # Absent /\ Absent <= length[File]
        /\ length[File] <= FileBlocks[File] /\ FileBlocks[File] \in Nat
        /\ File \in Settings
    <2>1. /\ prog.warm /\ prog.walk = "random" /\ prog.drop = "never"
      BY <1>1, ProgramKinds DEF Types, Data, Position, Kind
    <2>2. length[File] # Absent
      BY <2>1 DEF ReadSeq, OpenFails, OfFile
    <2>3. Bounds = 0..FileBlocks[File]
      BY <2>1 DEF Bounds
    <2>4. QED
      BY <2>1, <2>2, <2>3, FileIsThere DEF Types, Data, Position
  <1>3. CASE pos < length[File]
    <2>1. /\ cache' = Used(cache, <<File, pos>>) /\ pos' = pos + 1 /\ mpc' = "warm"
      BY <1>3 DEF ReadSeq
    <2>2. CacheFits'
      BY <1>2, <2>1, UseOfCache DEF Data, CacheFits, Entries
    <2>3. Position'
      BY <1>1, <1>2, <1>3, <2>1 DEF Position
    <2>4. Counter' /\ Dropped'
      BY <1>1, <2>1 DEF Counter, Dropped, First, Timed
    <2>5. Warmed'
      <3>1. CASE length[File] <= CacheBlocks
        <4>1. InFront(pos)
          BY <1>1, <1>2, <3>1 DEF Data, Warmed
        <4>2. pos < CacheBlocks
          BY <1>2, <1>3, <3>1, TimedLoopsAssumption
        <4>3. InFront(pos)'
          BY <1>1, <1>2, <2>1, <4>1, <4>2, ReadInFront DEF Data
        <4>4. QED
          BY <2>1, <4>3 DEF Warmed, Timed
      <3>2. CASE ~(length[File] <= CacheBlocks)
        BY <1>1, <3>2 DEF Warmed
      <3>3. QED
        BY <3>1, <3>2
    <2>6. QED
      BY <1>1, <2>2, <2>3, <2>4, <2>5 DEF Data
  <1>4. CASE ~(pos < length[File])
    <2>1. mpc' = "pin" /\ pos' = 0 /\ cache' = cache
      BY <1>4 DEF ReadSeq
    <2>2. CacheFits'
      BY <2>1 DEF Data, CacheFits
    <2>3. Position'
      BY <1>1, <1>2, <2>1 DEF Position
    <2>4. Counter' /\ Dropped'
      BY <1>1, <2>1 DEF Counter, Dropped, First, Timed
    <2>5. Warmed'
      <3>1. CASE length[File] <= CacheBlocks
        <4>1. InFront(pos)
          BY <1>1, <1>2, <3>1 DEF Data, Warmed
        <4>2. pos = length[File] \/ length[File] = 0
          BY <1>1, <1>2, <1>4 DEF Data, Position, Absent
        <4>3. AllCached
          <5>1. ASSUME NEW b \in 0..(length[File] - 1)
                PROVE  Cached(File, b)
            <6>1. b \in 0..(pos - 1)
              BY <1>2, <4>2, <5>1
            <6>2. PICK k \in 1..pos : k \in DOMAIN cache /\ cache[k] = <<File, b>>
              BY <4>1, <6>1, Zenon DEF InFront
            <6>3. QED
              BY <6>2, Zenon DEF Cached
          <5>2. QED
            BY <5>1 DEF AllCached
        <4>4. AllCached'
          BY <1>1, <2>1, <4>3 DEF AllCached, Cached
        <4>5. QED
          BY <2>1, <4>4 DEF Warmed
      <3>2. CASE ~(length[File] <= CacheBlocks)
        BY <1>1, <3>2 DEF Warmed
      <3>3. QED
        BY <3>1, <3>2
    <2>6. QED
      BY <1>1, <2>2, <2>3, <2>4, <2>5 DEF Data
  <1>5. QED
    BY <1>3, <1>4


LEMMA DropCachesData == Types /\ Data /\ DropCaches => Data'
  <1> SUFFICES ASSUME Types, Data, DropCaches PROVE Data'
    OBVIOUS
  <1>1. /\ prog' = prog /\ root' = root /\ length' = length /\ setting' = setting
        /\ left' = left /\ pos' = pos /\ mpc = "drop" /\ mpc' = DropStatus
        /\ cache' = IF prog.drop # "never" /\ root THEN <<>> ELSE cache
        /\ File' = File /\ Bounds' = Bounds /\ Passes' = Passes /\ Files'
    BY DEF DropCaches, sampleVars, File, Bounds, Passes, Data, Files
  <1>2. mpc' \in {"open", "exit1"} /\ (mpc' = "open" /\ prog.drop = "checked" => root)
    BY <1>1 DEF DropStatus
  <1>3. CacheFits'
    BY <1>1, TimedLoopsAssumption DEF Data, CacheFits
  <1>4. Position' /\ Counter' /\ Dropped'
    BY <1>1, <1>2 DEF Data, Position, Counter, Dropped, First, Timed
  <1>5. Warmed'
    <2>1. CASE prog.warm
      <3>1. cache' = cache
        BY <1>1, <2>1, ProgramKinds DEF Types, Kind
      <3>2. AllCached' = AllCached
        BY <1>1, <3>1 DEF AllCached, Cached
      <3>3. QED
        BY <1>1, <1>2, <3>2 DEF Data, Warmed, Timed
    <2>2. CASE ~prog.warm
      BY <1>1, <2>2 DEF Warmed
    <2>3. QED
      BY <2>1, <2>2
  <1>6. QED
    BY <1>1, <1>3, <1>4, <1>5 DEF Data

LEMMA OpenFileData == Types /\ Data /\ OpenFile => Data'
  <1> SUFFICES ASSUME Types, Data, OpenFile PROVE Data'
    OBVIOUS
  <1>1. /\ prog' = prog /\ root' = root /\ length' = length /\ setting' = setting
        /\ cache' = cache /\ mpc = "open" /\ mpc' = "begin"
        /\ pos' \in (IF prog.walk = "sequential" THEN Starts ELSE {0})
        /\ File' = File /\ Bounds' = Bounds /\ Passes' = Passes /\ Files'
    BY DEF OpenFile, File, Bounds, Passes, Data, Files
  <1>2. pos' \in Bounds
    <2>1. 0 \in Bounds /\ FileBlocks[File] \in Nat /\ ITER \in Nat
      BY FileIsThere DEF Types, Data
    <2>2. QED
      BY <1>1, <2>1 DEF Starts, Bounds
  <1>3. CacheFits' /\ Position' /\ Counter' /\ Dropped'
    BY <1>1, <1>2 DEF Data, CacheFits, Position, Counter, Dropped, First, Timed
  <1>4. Warmed'
    <2>1. AllCached' = AllCached
      BY <1>1 DEF AllCached, Cached
    <2>2. QED
      BY <1>1, <2>1 DEF Data, Warmed, Timed
  <1>5. QED
    BY <1>1, <1>3, <1>4 DEF Data

LEMMA SampleData == Types /\ Data /\ Sample => Data'
  <1> SUFFICES ASSUME Types, Data, Sample PROVE Data'
    OBVIOUS
  <1>1. /\ prog' = prog /\ root' = root /\ length' = length /\ setting' = setting
        /\ cache' = cache /\ mpc = "sample" /\ mpc' \in {"drop", "report"}
        /\ pos' = 0 /\ left' = left
        /\ File' = File /\ Bounds' = Bounds /\ Passes' = Passes /\ Files'
    BY DEF Sample, File, Bounds, Passes, Data, Files
  <1>2. CacheFits' /\ Position' /\ Counter' /\ Dropped'
    BY <1>1, FileIsThere
    DEF Types, Data, CacheFits, Position, Counter, Dropped, First, Timed
  <1>3. Warmed'
    <2>1. AllCached' = AllCached
      BY <1>1 DEF AllCached, Cached
    <2>2. QED
      BY <1>1, <2>1 DEF Data, Warmed, Timed
  <1>4. QED
    BY <1>1, <1>2, <1>3 DEF Data

LEMMA ReportData == Types /\ Data /\ Report => Data'
  <1> SUFFICES ASSUME Types, Data, Report PROVE Data'
    OBVIOUS
  <1>1. /\ prog' = prog /\ root' = root /\ length' = length /\ cache' = cache
        /\ mpc = "report" /\ pos' = pos /\ pos = 0 /\ left' = left
        /\ \/ setting < LastSetting /\ setting' = setting + 1 /\ mpc' = NextStep
           \/ setting' = setting /\ mpc' = "done"
        /\ Passes' = Passes
    BY DEF Report, sampleVars, Passes, Data, Position, Timed
  <1>2. Files'
    <2>1. FileBlocks \in Seq(Nat) /\ FileBlocks # <<>>
      BY TimedLoopsAssumption
    <2>2. Settings = 1..Len(FileBlocks) /\ Len(FileBlocks) \in Nat \ {0}
      BY <2>1 DEF Settings
    <2>3. setting' \in Settings
      BY <1>1, <2>2 DEF Data, Files, LastSetting
    <2>4. QED
      BY <1>1, <2>3 DEF Data, Files
  <1>3. 0 \in Bounds'
    <2>1. prog' \in Programs
      BY <1>1 DEF Types
    <2>2. File' \in Settings
      <3>1. 1 \in Settings
        BY TimedLoopsAssumption DEF Settings
      <3>2. QED
        BY <1>2, <3>1 DEF Files, File
    <2>3. FileBlocks[File'] \in Nat /\ ARR_SIZE \in Nat \ {0}
      BY <2>2, TimedLoopsAssumption DEF Settings
    <2>4. QED
      BY <2>3 DEF Bounds
  <1>4. mpc' \in {"warm", "pin", "drop", "done"} /\ (mpc' = "warm" => prog.warm)
        /\ (mpc' \in {"pin", "drop"} => ~prog.warm)
    BY <1>1, ProgramKinds DEF NextStep, FirstStep, Types, Kind
  <1>5. CacheFits' /\ Position' /\ Counter' /\ Dropped'
    BY <1>1, <1>3, <1>4 DEF Data, CacheFits, Position, Counter, Dropped,
       First, Timed
  <1>6. Warmed'
    BY <1>1, <1>4 DEF Warmed, InFront, Timed
  <1>7. QED
    BY <1>2, <1>5, <1>6 DEF Data

\* What a pass does to the position and to the cache.
LEMMA PassTouches ==
  ASSUME Types, Interval, Data, Pass
  PROVE  /\ pos' \in Bounds
         /\ cache' = cache \/ \E p \in 0..(length[File] - 1) :
                                 cache' = Used(cache, <<File, p>>)
         /\ mpc' \in {"work", "end", "crashed"}
         /\ mpc' # "crashed" => left' = left - 1
  <1>0. /\ FileBlocks[File] \in Nat /\ length[File] \in Int /\ ARR_SIZE \in Nat \ {0}
        /\ length[File] <= FileBlocks[File] /\ File \in Settings /\ setting \in Settings
    BY FileIsThere, TimedLoopsAssumption DEF Types, Data, Files
  <1>1. pos \in Bounds
    BY DEF Data, Position
  <1>2. ASSUME prog.walk # "chase", NEW p \in 0..FileBlocks[File], ReadBlock(p), PassOver
        PROVE  /\ pos' \in Bounds
               /\ cache' = cache \/ \E q \in 0..(length[File] - 1) :
                                       cache' = Used(cache, <<File, q>>)
    <2>1. Bounds = 0..FileBlocks[File]
      BY <1>2 DEF Bounds
    <2>2. CASE p < length[File]
      <3>1. p \in 0..(length[File] - 1) /\ p + 1 \in 0..FileBlocks[File]
        BY <1>0, <2>2
      <3>2. QED
        BY <1>2, <2>1, <2>2, <3>1 DEF ReadBlock
    <2>3. CASE ~(p < length[File])
      BY <1>2, <2>1, <2>3 DEF ReadBlock
    <2>4. QED
      BY <2>2, <2>3
  <1>3. CASE CallPass \/ UnrolledPass \/ StrayPass
    BY <1>1, <1>3 DEF CallPass, UnrolledPass, StrayPass, PassOver
  <1>4. CASE ChasePass
    <2>1. NextCell(pos) \in 0..(ARR_SIZE - 1)
      <3>1. pos + Strides[setting] \in Int
        BY <1>0, <1>1, <1>4, TimedLoopsAssumption DEF ChasePass, Bounds
      <3>2. QED
        BY <1>0, <3>1, DivMod DEF NextCell
    <2>2. QED
      BY <1>4, <2>1 DEF ChasePass, PassOver, Bounds
  <1>5. CASE SequentialPass
    <2>1. prog.walk = "sequential" /\ ReadBlock(pos) /\ PassOver /\ pos \in 0..FileBlocks[File]
      BY <1>1, <1>5 DEF SequentialPass, Bounds
    <2>2. QED
      BY <1>2, <2>1 DEF PassOver
  <1>6. CASE RandomPass
    <2>1. PICK p \in Array(left) : ReadBlock(IF p = Negative THEN pos ELSE p)
      BY <1>6 DEF RandomPass
    <2>2. prog.walk = "random" /\ PassOver
      BY <1>6 DEF RandomPass
    <2>3. (IF p = Negative THEN pos ELSE p) \in 0..FileBlocks[File]
      BY <1>0, <1>1, <2>1, <2>2 DEF Array, Bounds, Negative
    <2> DEFINE q == IF p = Negative THEN pos ELSE p
    <2>4. ReadBlock(q) /\ q \in 0..FileBlocks[File]
      BY <2>1, <2>3
    <2> HIDE DEF q
    <2>5. QED
      BY <1>2, <2>2, <2>4 DEF PassOver
  <1>7. CASE MappedPass
    BY <1>1, <1>7 DEF MappedPass, PassOver
  <1>8. QED
    BY <1>3, <1>4, <1>5, <1>6, <1>7 DEF Pass

LEMMA PassData == Types /\ Interval /\ Data /\ Pass => Data'
  <1> SUFFICES ASSUME Types, Interval, Data, Pass PROVE Data'
    OBVIOUS
  <1>1. /\ prog' = prog /\ root' = root /\ length' = length /\ setting' = setting
        /\ mpc = "work"
        /\ File' = File /\ Bounds' = Bounds /\ Passes' = Passes /\ Files'
    BY DEF Pass, File, Bounds, Passes, Data, Files
  <1>2. /\ pos' \in Bounds /\ mpc' \in {"work", "end", "crashed"}
        /\ mpc' # "crashed" => left' = left - 1
    BY PassTouches
  <1>3. Position'
    BY <1>1, <1>2 DEF Position, Timed
  <1>4. Counter'
    BY <1>1, <1>2, PassesFit DEF Counter, Types
  <1>5. Dropped'
    BY <1>1, <1>2 DEF Data, Dropped, First, Timed
  <1>6. CASE cache' = cache
    <2>1. CacheFits' /\ AllCached' = AllCached
      BY <1>1, <1>6 DEF Data, CacheFits, AllCached, Cached
    <2>2. Warmed'
      BY <1>1, <1>2, <2>1 DEF Data, Warmed, Timed
    <2>3. QED
      BY <1>1, <1>3, <1>4, <1>5, <2>1, <2>2 DEF Data
  <1>7. ASSUME NEW p \in 0..(length[File] - 1), cache' = Used(cache, <<File, p>>)
        PROVE  Data'
    <2>1. File \in Settings /\ length[File] \in Int /\ <<File, p>> \in Entries
      BY FileIsThere DEF Types, Data, Entries
    <2>2. CacheFits'
      BY <1>7, <2>1, UseOfCache DEF Data, CacheFits
    <2>3. ASSUME AllCached PROVE AllCached'
      <3> SUFFICES ASSUME NEW b \in 0..(length[File] - 1) PROVE Cached(File, b)'
        BY <1>1 DEF AllCached
      <3>1. <<File, b>> \in Entries
        BY <2>1 DEF Entries
      <3>2. Cached(File, b) /\ Cached(File, p)
        BY <2>3 DEF AllCached
      <3>3. \E k \in DOMAIN cache' : cache'[k] = <<File, b>>
        BY <1>7, <2>1, <3>1, <3>2, NothingReplaced DEF Data, Cached
      <3>4. QED
        BY <1>1, <3>3 DEF Cached
    <2>4. Warmed'
      BY <1>1, <1>2, <2>3 DEF Data, Warmed, Timed
    <2>5. QED
      BY <1>1, <1>3, <1>4, <1>5, <2>2, <2>4 DEF Data
  <1>8. QED
    BY <1>6, <1>7, PassTouches

LEMMA DataInvariant == Spec => [](IInv /\ Data)
  <1>1. Init => IInv /\ Data
    BY InitInvariant, InitData
  <1>2. IInv /\ Data /\ [Next]_vars => (IInv /\ Data)'
    <2> SUFFICES ASSUME IInv, Data, [Next]_vars PROVE IInv' /\ Data'
      OBVIOUS
    <2>1. Types /\ Interval
      BY DEF IInv
    <2>2. Data'
      BY <2>1, FrameSteps, ReadSeqData, DropCachesData, OpenFileData, PassData,
         SampleData, ReportData
      DEF Next, Finished
    <2>3. IInv'
      BY StepInvariant
    <2>4. QED
      BY <2>2, <2>3
  <1>3. QED
    BY <1>1, <1>2, PTL DEF Spec

-----------------------------------------------------------------------------
(* How many cells a chase visits *)

Divides(n, x) == \E q \in Int : x = q * n

LEMMA SumDivided ==
  ASSUME NEW n \in Int, NEW x \in Int, NEW y \in Int, Divides(n, x), Divides(n, y)
  PROVE  Divides(n, x - y)
  <1>1. PICK p \in Int : x = p * n
    BY DEF Divides
  <1>2. PICK q \in Int : y = q * n
    BY DEF Divides
  <1>3. x - y = (p - q) * n /\ p - q \in Int
    BY <1>1, <1>2
  <1>4. QED
    BY <1>3 DEF Divides

LEMMA MultipleDivided ==
  ASSUME NEW n \in Int, NEW x \in Int, NEW k \in Int, Divides(n, x)
  PROVE  Divides(n, k * x)
  <1>1. PICK q \in Int : x = q * n
    BY DEF Divides
  <1>2. k * x = (k * q) * n /\ k * q \in Int
    BY <1>1
  <1>3. QED
    BY <1>2 DEF Divides

LEMMA DividesMod ==
  ASSUME NEW n \in Nat \ {0}, NEW x \in Int
  PROVE  Divides(n, x) <=> x % n = 0
  <1>1. x = n * (x \div n) + (x % n) /\ x \div n \in Int /\ x % n \in 0..(n - 1)
    BY DivMod, Zenon
  <1>2. ASSUME x % n = 0 PROVE Divides(n, x)
    <2>1. x = (x \div n) * n
      BY <1>1, <1>2
    <2>2. QED
      BY <1>1, <2>1 DEF Divides
  <1>3. ASSUME Divides(n, x) PROVE x % n = 0
    <2>1. PICK q \in Int : x = q * n
      BY <1>3 DEF Divides
    <2>2. x = 0 + q * n /\ 0 \in 0..(n - 1)
      BY <2>1
    <2>3. QED
      BY <2>2, ModUnique, Zenon
  <1>4. QED
    BY <1>2, <1>3

LEMMA SameRemainder ==
  ASSUME NEW n \in Nat \ {0}, NEW x \in Int, NEW y \in Int
  PROVE  (x % n = y % n) <=> Divides(n, x - y)
  <1>1. /\ x = n * (x \div n) + (x % n) /\ x \div n \in Int /\ x % n \in 0..(n - 1)
        /\ y = n * (y \div n) + (y % n) /\ y \div n \in Int /\ y % n \in 0..(n - 1)
    BY DivMod, Zenon
  <1>2. ASSUME x % n = y % n PROVE Divides(n, x - y)
    <2>1. x - y = ((x \div n) - (y \div n)) * n /\ (x \div n) - (y \div n) \in Int
      BY <1>1, <1>2
    <2>2. QED
      BY <2>1 DEF Divides
  <1>3. ASSUME Divides(n, x - y) PROVE x % n = y % n
    <2>1. PICK q \in Int : x - y = q * n
      BY <1>3 DEF Divides
    <2>2. x = (y % n) + ((y \div n) + q) * n /\ (y \div n) + q \in Int
      BY <1>1, <2>1
    <2> DEFINE k == (y \div n) + q
               b == y % n
    <2>3. b \in 0..(n - 1) /\ k \in Int /\ x = b + k * n
      BY <1>1, <2>2
    <2> HIDE DEF k, b
    <2>4. x % n = b
      BY <2>3, ModUnique, Zenon
    <2>5. QED
      BY <2>4 DEF b
  <1>4. QED
    BY <1>2, <1>3

\* A nonempty set of natural numbers has a least one.
LEMMA Least ==
  ASSUME NEW T, T \subseteq Nat, T # {}
  PROVE  \E x \in T : \A y \in T : x <= y
  <1> DEFINE R == OpToRel(<, Nat)
  <1>1. IsWellFoundedOn(R, Nat)
    BY NatLessThanWellFounded
  <1>2. \A x, y \in T : x < y => <<x, y>> \in R
    BY DEF OpToRel
  <1> HIDE DEF R
  <1>3. PICK x \in T : \A y \in T : ~ (<<y, x>> \in R)
    BY <1>1, WFMin
  <1>4. ASSUME NEW y \in T PROVE x <= y
    <2>1. ~(y < x)
      BY <1>2, <1>3
    <2>2. x \in Nat /\ y \in Nat
      OBVIOUS
    <2>3. QED
      BY <2>1, <2>2
  <1>5. QED
    BY <1>4

\* The chase comes back to its first cell after Period(n, s) steps, no sooner.
IsPeriod(r, n, s) ==
  /\ r \in Nat \ {0} /\ Divides(n, r * s)
  /\ \A k \in Nat \ {0} : Divides(n, k * s) => r <= k

LEMMA PeriodExists ==
  ASSUME NEW n \in Nat \ {0}, NEW s \in Nat
  PROVE  \E r \in Nat \ {0} : IsPeriod(r, n, s)
  <1> DEFINE T == {k \in Nat \ {0} : Divides(n, k * s)}
  <1>1. n \in T
    <2>1. n * s = s * n
      OBVIOUS
    <2>2. QED
      BY <2>1 DEF Divides
  <1>2. T \subseteq Nat /\ T # {}
    BY <1>1
  <1>3. PICK r \in T : \A y \in T : r <= y
    <2> HIDE DEF T
    <2>1. QED
      BY <1>2, Least
  <1>4. QED
    BY <1>3 DEF IsPeriod

LEMMA PeriodDivides ==
  ASSUME NEW n \in Nat \ {0}, NEW s \in Nat, NEW r \in Nat \ {0}, IsPeriod(r, n, s),
         NEW k \in Int, Divides(n, k * s)
  PROVE  Divides(r, k)
  <1> DEFINE q == k \div r
             t == k % r
  <1>1. q \in Int /\ t \in 0..(r - 1) /\ k = r * q + t
    BY DivMod, Zenon
  <1> HIDE DEF q, t
  <1>2. t * s = k * s - q * (r * s)
    BY <1>1
  <1>3. r * s \in Int /\ k * s \in Int /\ q * (r * s) \in Int
    BY <1>1
  <1>4. Divides(n, q * (r * s))
    <2> DEFINE x == r * s
    <2>1. x \in Int /\ Divides(n, x) /\ n \in Int
      BY <1>3 DEF IsPeriod
    <2> HIDE DEF x
    <2>2. Divides(n, q * x)
      BY <1>1, <2>1, MultipleDivided
    <2>3. QED
      BY <2>2 DEF x
  <1>5. Divides(n, t * s)
    BY <1>2, <1>3, <1>4, SumDivided
  <1>6. t = 0
    BY <1>1, <1>5 DEF IsPeriod
  <1>7. k = q * r
    BY <1>1, <1>6
  <1>8. QED
    BY <1>1, <1>7 DEF Divides

\* It is n divided by the greatest common divisor of n and the stride: n / r divides
\* both, and what divides both divides n / r.
LEMMA PeriodIs ==
  ASSUME NEW n \in Nat \ {0}, NEW s \in Nat, NEW r \in Nat \ {0}, IsPeriod(r, n, s)
  PROVE  n \div Gcd(n, s) = r
  <1>1. Divides(r, n)
    <2>1. Divides(n, n * s)
      <3>1. n * s = s * n
        OBVIOUS
      <3>2. QED
        BY <3>1 DEF Divides
    <2>2. QED
      BY <2>1, PeriodDivides
  <1>2. PICK d \in Int : n = d * r
    BY <1>1 DEF Divides
  <1>3. d \in 1..n
    BY <1>2
  <1>4. PICK c \in Int : r * s = c * n
    BY DEF IsPeriod, Divides
  <1>5. s = c * d
    <2>1. r * s = r * (c * d)
      BY <1>2, <1>4
    <2>2. r * (s - c * d) = 0
      BY <2>1
    <2>3. QED
      BY <2>2
  <1>6. n % d = 0 /\ s % d = 0
    <2>1. n = r * d /\ r \in Int /\ c \in Int /\ d \in Nat \ {0} /\ n \in Int /\ s \in Int
      BY <1>2, <1>3
    <2>2. Divides(d, n) /\ Divides(d, s)
      BY <1>5, <2>1 DEF Divides
    <2>3. QED
      BY <2>1, <2>2, DividesMod
  <1>7. ASSUME NEW e \in 1..n, n % e = 0, s % e = 0
        PROVE  e <= d
    <2>1. e \in Nat \ {0}
      OBVIOUS
    <2>2. Divides(e, n) /\ Divides(e, s)
      BY <1>7, <2>1, DividesMod
    <2>3. PICK a \in Int : n = a * e
      BY <2>2 DEF Divides
    <2>4. PICK b \in Int : s = b * e
      BY <2>2 DEF Divides
    <2>5. a * s = b * n
      BY <2>3, <2>4
    <2>6. Divides(n, a * s)
      BY <2>4, <2>5 DEF Divides
    <2>7. PICK f \in Int : a = f * r
      <3>1. Divides(r, a)
        BY <2>6, PeriodDivides
      <3>2. QED
        BY <3>1 DEF Divides
    <2>8. d * r = (f * e) * r
      BY <1>2, <2>3, <2>7
    <2>9. d = f * e
      <3>1. (d - f * e) * r = 0
        BY <2>8
      <3>2. QED
        BY <3>1
    <2>10. f >= 1
      BY <1>3, <2>1, <2>9
    <2>11. QED
      BY <2>1, <2>9, <2>10
  <1>8. Gcd(n, s) = d
    BY <1>3, <1>6, <1>7 DEF Gcd
  <1>9. n \div d = r
    <2>0. n \in Int /\ d \in Nat \ {0}
      BY <1>3
    <2>1. /\ n \div d \in Int /\ n % d \in 0..(d - 1)
          /\ n = d * (n \div d) + (n % d)
      BY <2>0, DivMod, Zenon
    <2>2. d * ((n \div d) - r) = 0
      BY <1>2, <1>6, <2>1
    <2>3. QED
      BY <1>3, <2>1, <2>2
  <1>10. QED
    BY <1>8, <1>9

\* The first m cells of a chase are as many as there are steps until it is back.
LEMMA ChaseCells ==
  ASSUME NEW n \in Nat \ {0}, NEW s \in Nat, NEW m \in Nat
  PROVE  Cardinality({(j * s) % n : j \in 0..(m - 1)})
           = IF m < n \div Gcd(n, s) THEN m ELSE n \div Gcd(n, s)
  <1>1. PICK r \in Nat \ {0} : IsPeriod(r, n, s)
    BY PeriodExists
  <1>2. n \div Gcd(n, s) = r
    BY <1>1, PeriodIs
  <1>3. ASSUME NEW k \in Nat, k <= r
        PROVE  Cardinality({(j * s) % n : j \in 0..(k - 1)}) = k
    <2> DEFINE Cells == {(j * s) % n : j \in 0..(k - 1)}
               f == [i \in 1..k |-> ((i - 1) * s) % n]
    <2>1. f \in [1..k -> Cells]
      <3>1. ASSUME NEW i \in 1..k PROVE ((i - 1) * s) % n \in Cells
        <4>1. i - 1 \in 0..(k - 1)
          BY <1>3
        <4>2. QED
          BY <4>1
      <3>2. QED
        BY <3>1
    <2>2. ASSUME NEW a \in 1..k, NEW b \in 1..k, f[a] = f[b], a < b PROVE FALSE
      <3> DEFINE x == (b - 1) * s
                 y == (a - 1) * s
                 d == b - a
      <3>1. x \in Int /\ y \in Int /\ x - y = d * s /\ d \in Nat \ {0} /\ d < r /\ x % n = y % n
        BY <1>3, <2>2
      <3> HIDE DEF x, y, d
      <3>2. Divides(n, x - y)
        BY <3>1, SameRemainder
      <3>3. r <= d
        BY <1>1, <3>1, <3>2 DEF IsPeriod
      <3>4. QED
        BY <3>1, <3>3
    <2>3. f \in Injection(1..k, Cells)
      <3>1. ASSUME NEW a \in 1..k, NEW b \in 1..k, f[a] = f[b] PROVE a = b
        <4>1. ~(a < b) /\ ~(b < a)
          <5> HIDE DEF f
          <5>1. QED
            BY <2>2, <3>1
        <4>2. QED
          BY <1>3, <4>1
      <3> HIDE DEF f, Cells
      <3>2. \A a, b \in 1..k : f[a] = f[b] => a = b
        BY <3>1
      <3>3. QED
        BY <2>1, <3>2 DEF Injection, IsInjective
    <2>4. f \in Surjection(1..k, Cells)
      <3>1. ASSUME NEW c \in Cells PROVE \E i \in 1..k : f[i] = c
        <4>1. PICK j \in 0..(k - 1) : c = (j * s) % n
          OBVIOUS
        <4>2. j + 1 \in 1..k /\ (j + 1) - 1 = j
          BY <1>3
        <4>3. f[j + 1] = c
          BY <4>1, <4>2
        <4>4. QED
          BY <4>2, <4>3
      <3> HIDE DEF f, Cells
      <3>2. QED
        BY <2>1, <3>1 DEF Surjection
    <2> HIDE DEF f, Cells
    <2>5. ExistsBijection(1..k, Cells)
      BY <2>3, <2>4 DEF ExistsBijection, Bijection
    <2>6. Cardinality(Cells) = k
      BY <2>5, FS_CountingElements
    <2>7. QED
      BY <2>6 DEF Cells
  <1>4. CASE m <= r
    <2>1. Cardinality({(j * s) % n : j \in 0..(m - 1)}) = m
      BY <1>3, <1>4
    <2>2. QED
      BY <1>2, <1>4, <2>1
  <1>5. CASE m > r
    <2>1. ASSUME NEW j \in 0..(m - 1)
          PROVE  \E i \in 0..(r - 1) : (j * s) % n = (i * s) % n
      <3> DEFINE i == j % r
                 q == j \div r
      <3>1. i \in 0..(r - 1) /\ q \in Int /\ j = r * q + i
        <4>1. j \in Int
          OBVIOUS
        <4>2. QED
          BY <4>1, DivMod, Zenon
      <3> HIDE DEF i, q
      <3> DEFINE x == j * s
                 y == i * s
                 z == r * s
      <3>2. x \in Int /\ y \in Int /\ z \in Int /\ x - y = q * z /\ Divides(n, z)
        BY <1>1, <3>1 DEF IsPeriod
      <3> HIDE DEF x, y, z
      <3>3. Divides(n, x - y)
        BY <3>1, <3>2, MultipleDivided
      <3>4. x % n = y % n
        BY <3>2, <3>3, SameRemainder
      <3>5. QED
        BY <3>1, <3>4 DEF x, y
    <2>2. {(j * s) % n : j \in 0..(m - 1)} = {(j * s) % n : j \in 0..(r - 1)}
      <3>1. 0..(r - 1) \subseteq 0..(m - 1)
        BY <1>5
      <3>2. QED
        BY <2>1, <3>1, Zenon
    <2>3. Cardinality({(j * s) % n : j \in 0..(r - 1)}) = r
      <3>1. r \in Nat /\ r <= r
        OBVIOUS
      <3>2. QED
        BY <1>3, <3>1, Zenon
    <2>4. Cardinality({(j * s) % n : j \in 0..(m - 1)}) = r
      BY <2>2, <2>3, Zenon
    <2>5. QED
      BY <1>2, <1>5, <2>4
  <1>6. QED
    BY <1>4, <1>5

-----------------------------------------------------------------------------
(* What a sample has done so far *)

Made == Passes - left
Stride == Strides[setting]

Counted == prog.walk \in {"none", "chase", "unrolled"} => done = Made
Unrolled == prog.walk = "unrolled" => visited = 0..(Made * UNROLL - 1)
Chased ==
  prog.walk = "chase" =>
    /\ visited = {(j * Stride) % ARR_SIZE : j \in 0..(Made - 1)}
    /\ pos = (Made * Stride) % ARR_SIZE
\* A walk from Starts ends before the end of a complete file; of the other walks the
\* first pass may miss.
BlocksRead ==
  OfFile =>
    /\ length[File] >= 0
    /\ length[File] = FileBlocks[File] =>
         IF prog.walk = "sequential"
         THEN /\ done = Made /\ pos - Made \in Starts
              /\ visited = (pos - Made)..(pos - 1)
         ELSE done \in Nat /\ done >= Made - 1

Walked == mpc \in Timed => Counted /\ Unrolled /\ Chased /\ BlocksRead

walkVars == <<prog, length, setting, left, pos, done, visited>>

LEMMA WalkedFrame ==
  ASSUME Walked, UNCHANGED walkVars, mpc' \in Timed => mpc \in Timed
  PROVE  Walked'
  <1>1. Made' = Made /\ Stride' = Stride /\ File' = File /\ OfFile' = OfFile
        /\ Starts' = Starts
    BY DEF walkVars, Made, Passes, Stride, File, OfFile, Starts
  <1>2. Counted' = Counted /\ Unrolled' = Unrolled /\ Chased' = Chased /\ BlocksRead' = BlocksRead
    BY <1>1 DEF walkVars, Counted, Unrolled, Chased, BlocksRead
  <1>3. QED
    BY <1>2 DEF Walked

LEMMA Untimed ==
  ASSUME mpc' \notin Timed
  PROVE  Walked'
  BY DEF Walked

LEMMA OpenFileWalked == Types /\ Data /\ OpenFile => Walked'
  <1> SUFFICES ASSUME Types, Data, OpenFile PROVE Walked'
    OBVIOUS
  <1>1. /\ prog' = prog /\ length' = length /\ setting' = setting /\ File' = File
        /\ pos' \in (IF prog.walk = "sequential" THEN Starts ELSE {0})
        /\ left' = Passes /\ done' = 0 /\ visited' = {} /\ ~OpenFails
        /\ Starts' = Starts /\ OfFile' = OfFile /\ Stride' = Stride /\ Passes' = Passes
    BY DEF OpenFile, File, Starts, OfFile, Stride, Passes
  <1>2. Passes \in Nat /\ UNROLL \in Nat /\ ARR_SIZE \in Nat \ {0}
        /\ length[File] \in Int /\ Absent <= length[File] /\ FileBlocks[File] \in Nat
        /\ ITER \in Nat /\ setting \in Settings
    BY PassesFit, FileIsThere, TimedLoopsAssumption DEF Types, Data, Files
  <1>3. Made' = 0
    BY <1>1, <1>2 DEF Made
  <1>4. Counted' /\ Unrolled'
    BY <1>1, <1>2, <1>3 DEF Counted, Unrolled
  <1>5. Chased'
    <2>1. Stride \in Nat
      BY <1>2, TimedLoopsAssumption DEF Stride
    <2>2. 0 * Stride = 0 /\ 0 % ARR_SIZE = 0
      BY <1>2, <2>1
    <2>3. 0..(0 - 1) = {}
      OBVIOUS
    <2>4. {(j * Stride) % ARR_SIZE : j \in {}} = {}
      OBVIOUS
    <2>5. QED
      BY <1>1, <1>3, <2>2, <2>3, <2>4, Zenon DEF Chased
  <1>6. BlocksRead'
    <2> SUFFICES ASSUME OfFile PROVE BlocksRead'
      BY <1>1 DEF BlocksRead
    <2>1. length[File] >= 0 /\ length'[File'] = length[File]
      BY <1>1, <1>2 DEF OpenFails, Absent
    <2>2. CASE prog.walk = "sequential"
      <3>1. pos' \in Starts /\ pos' \in Int
        BY <1>1, <1>2, <2>2 DEF Starts
      <3>2. /\ pos' - Made' \in Starts /\ done' = Made'
            /\ (pos' - Made')..(pos' - 1) = {}
        <4>1. \A x \in Int : x - 0 = x /\ x..(x - 1) = {}
          OBVIOUS
        <4>2. pos' - 0 = pos' /\ pos'..(pos' - 1) = {} /\ done' = 0
          BY <1>1, <3>1, <4>1, Zenon
        <4>3. QED
          BY <1>3, <3>1, <4>2, Zenon
      <3>3. QED
        BY <1>1, <2>1, <2>2, <3>2 DEF BlocksRead
    <2>3. CASE prog.walk # "sequential"
      BY <1>1, <1>3, <2>1, <2>3 DEF BlocksRead
    <2>4. QED
      BY <2>2, <2>3
  <1>7. QED
    BY <1>4, <1>5, <1>6 DEF Walked

\* One pass more was made, if the program has not crashed.
LEMMA PassWalked == Types /\ Interval /\ Data /\ Walked /\ Pass => Walked'
  <1> SUFFICES ASSUME Types, Interval, Data, Walked, Pass, mpc' \in Timed
               PROVE  Walked'
    BY Untimed
  <1>1. /\ prog' = prog /\ length' = length /\ setting' = setting /\ File' = File
        /\ Starts' = Starts /\ OfFile' = OfFile /\ Stride' = Stride /\ Passes' = Passes
        /\ mpc = "work"
    BY DEF Pass, File, Starts, OfFile, Stride, Passes
  <1>2. left' = left - 1
    BY PassTouches DEF Timed
  <1>3. /\ Passes \in Nat /\ left \in 0..Passes /\ left > 0
        /\ UNROLL \in Nat \ {0} /\ ARR_SIZE \in Nat \ {0} /\ ITER \in Nat \ {0}
        /\ length[File] \in Int /\ length[File] <= FileBlocks[File]
        /\ FileBlocks[File] \in Nat /\ setting \in Settings
    BY <1>1, PassesFit, FileIsThere, TimedLoopsAssumption
    DEF Types, Data, Files, Interval
  <1>4. Made \in Nat /\ Made' = Made + 1 /\ Made < Passes
    BY <1>1, <1>2, <1>3 DEF Made
  <1>5. Counted /\ Unrolled /\ Chased /\ BlocksRead
    BY <1>1 DEF Walked, Timed
  <1>6. CASE CallPass
    <2>1. prog.walk = "none" /\ done' = done + 1
      BY <1>6 DEF CallPass
    <2>2. QED
      BY <1>1, <1>4, <1>5, <2>1
      DEF Walked, Counted, Unrolled, Chased, BlocksRead, OfFile
  <1>7. CASE ChasePass
    <2>1. /\ prog.walk = "chase" /\ done' = done + 1
          /\ visited' = visited \cup {pos} /\ pos' = NextCell(pos)
      BY <1>7 DEF ChasePass
    <2> DEFINE cell(j) == (j * Stride) % ARR_SIZE
    <2>2. visited = {cell(j) : j \in 0..(Made - 1)} /\ pos = cell(Made)
      BY <1>5, <2>1 DEF Chased
    <2>3. visited' = {cell(j) : j \in 0..Made}
      <3>1. 0..Made = 0..(Made - 1) \cup {Made}
        BY <1>4
      <3> HIDE DEF cell
      <3>2. QED
        BY <2>1, <2>2, <3>1
    <2>4. pos' = cell(Made + 1)
      <3>1. Stride \in Nat /\ NextCell(pos) = (pos + Stride) % ARR_SIZE
        BY <1>3, TimedLoopsAssumption DEF Stride, NextCell
      <3> DEFINE a == Made * Stride
      <3>2. a \in Int /\ Stride \in Int /\ a + Stride = (Made + 1) * Stride
        BY <1>4, <3>1
      <3>3. pos = a % ARR_SIZE
        BY <2>2
      <3> HIDE DEF a
      <3>4. ((a % ARR_SIZE) + Stride) % ARR_SIZE = (a + Stride) % ARR_SIZE
        BY <1>3, <3>2, ModAdd, Zenon
      <3>5. QED
        BY <2>1, <3>1, <3>2, <3>3, <3>4, Zenon
    <2>5. Made' - 1 = Made
      BY <1>4
    <2>6. Chased'
      BY <1>1, <1>4, <2>3, <2>4, <2>5, Zenon DEF Chased
    <2>7. Counted' /\ Unrolled' /\ BlocksRead'
      BY <1>1, <1>4, <1>5, <2>1 DEF Counted, Unrolled, BlocksRead, OfFile
    <2>8. QED
      BY <2>6, <2>7 DEF Walked
  <1>8. CASE UnrolledPass
    <2> DEFINE i == Made * UNROLL
    <2>1. /\ prog.walk = "unrolled" /\ done' = done + 1
          /\ visited' = visited \cup i..(i + UNROLL - 1)
      BY <1>8 DEF UnrolledPass, Made
    <2>2. i \in Nat /\ Made' * UNROLL = i + UNROLL
      BY <1>3, <1>4
    <2>3. visited = 0..(i - 1)
      BY <1>5, <2>1 DEF Unrolled
    <2> HIDE DEF i
    <2>4. 0..(i - 1) \cup i..(i + UNROLL - 1) = 0..(i + UNROLL - 1)
      BY <1>3, <2>2
    <2>5. Unrolled'
      <3>1. visited' = 0..(i + UNROLL - 1)
        BY <2>1, <2>3, <2>4, Zenon
      <3>2. visited' = 0..(Made' * UNROLL - 1)
        <4>1. Made' * UNROLL - 1 = i + UNROLL - 1
          BY <1>3, <1>4, <2>2
        <4>2. QED
          BY <3>1, <4>1, Zenon
      <3>3. QED
        BY <3>2 DEF Unrolled
    <2>6. Counted' /\ Chased' /\ BlocksRead'
      BY <1>1, <1>4, <1>5, <2>1 DEF Counted, Chased, BlocksRead, OfFile
    <2>7. QED
      BY <2>5, <2>6 DEF Walked
  <1>9. ASSUME OfFile,
               length[File] = FileBlocks[File] =>
                 IF prog.walk = "sequential"
                 THEN /\ done' = done + 1 /\ pos' = pos + 1
                      /\ visited' = visited \cup {pos}
                 ELSE done' \in {done, done + 1} /\ (Made > 0 => done' = done + 1)
        PROVE  Walked'
    <2>1. Counted' /\ Unrolled' /\ Chased'
      BY <1>1, <1>9 DEF Counted, Unrolled, Chased, OfFile
    <2>2. BlocksRead'
      <3>1. CASE length[File] # FileBlocks[File]
        BY <1>1, <1>5, <1>9, <3>1 DEF BlocksRead
      <3>2. CASE length[File] = FileBlocks[File] /\ prog.walk = "sequential"
        <4>1. /\ done = Made /\ pos - Made \in Starts
              /\ visited = (pos - Made)..(pos - 1)
              /\ length[File] >= 0
          BY <1>5, <1>9, <3>2 DEF BlocksRead
        <4>2. pos \in Nat
          BY <3>2 DEF Data, Position, Bounds
        <4>3. /\ pos' - Made' = pos - Made /\ pos' - 1 = pos /\ done' = Made'
          BY <1>4, <1>9, <3>2, <4>1, <4>2
        <4>4. visited' = (pos - Made)..pos
          <5>1. visited' = (pos - Made)..(pos - 1) \cup {pos}
            BY <1>9, <3>2, <4>1
          <5>2. (pos - Made)..(pos - 1) \cup {pos} = (pos - Made)..pos
            BY <1>4, <4>2
          <5>3. QED
            BY <5>1, <5>2, Zenon
        <4>5. QED
          BY <1>1, <3>2, <4>1, <4>3, <4>4 DEF BlocksRead
      <3>3. CASE length[File] = FileBlocks[File] /\ prog.walk # "sequential"
        <4>1. done \in Nat /\ done >= Made - 1 /\ length[File] >= 0
          BY <1>5, <1>9, <3>3 DEF BlocksRead
        <4>2. done' \in Nat /\ done' >= Made' - 1
          BY <1>4, <1>9, <3>3, <4>1
        <4>3. QED
          BY <1>1, <3>3, <4>1, <4>2 DEF BlocksRead
      <3>4. QED
        BY <3>1, <3>2, <3>3
    <2>3. QED
      BY <2>1, <2>2 DEF Walked
  <1>10. CASE SequentialPass
    <2>1. prog.walk = "sequential" /\ ReadBlock(pos) /\ OfFile /\ Passes = ITER
      BY <1>10 DEF SequentialPass, OfFile, Passes
    <2>2. length[File] = FileBlocks[File] => pos < length[File]
      <3>1. length[File] = FileBlocks[File] => pos - Made \in Starts
        BY <1>5, <2>1 DEF BlocksRead
      <3>2. pos \in Nat
        BY <2>1 DEF Data, Position, Bounds
      <3>3. QED
        BY <1>3, <1>4, <2>1, <3>1, <3>2 DEF Starts
    <2>3. QED
      BY <1>9, <2>1, <2>2 DEF ReadBlock
  <1>11. CASE RandomPass
    <2>1. PICK p \in Array(left) : ReadBlock(IF p = Negative THEN pos ELSE p)
      BY <1>11 DEF RandomPass
    <2>2. prog.walk = "random" /\ OfFile /\ Passes = ITER
      BY <1>11 DEF RandomPass, OfFile, Passes
    <2>3. Made > 0 => p \in 0..(FileBlocks[File] - 1) /\ p # Negative
      BY <1>3, <2>1, <2>2 DEF Made, Array, Negative
    <2>4. /\ done' \in {done, done + 1}
          /\ length[File] = FileBlocks[File] /\ Made > 0 => done' = done + 1
      BY <1>3, <2>1, <2>3 DEF ReadBlock
    <2>5. QED
      BY <1>9, <2>2, <2>4
  <1>12. CASE MappedPass
    <2>1. prog.walk = "mapped" /\ done' = done + 1 /\ OfFile
      BY <1>12 DEF MappedPass, OfFile
    <2>2. QED
      BY <1>9, <2>1
  <1>13. CASE StrayPass
    <2>1. prog.walk = "mapped" /\ done' = done /\ Negative \in Array(left)
      BY <1>13 DEF StrayPass, Timed
    <2>2. OfFile /\ Passes = ITER
      BY <2>1 DEF OfFile, Passes
    <2>3. left >= ITER
      <3>1. MappedBlocks \in Nat
        <4>1. FileBlocks[1] \in Nat
          BY TimedLoopsAssumption DEF Settings
        <4>2. QED
          BY <4>1, TimedLoopsAssumption
      <3>2. QED
        BY <1>3, <2>1, <3>1 DEF Array, Negative
    <2>4. ~(Made > 0)
      BY <1>3, <2>2, <2>3 DEF Made
    <2>5. QED
      BY <1>9, <2>1, <2>2, <2>4
  <1>14. QED
    BY <1>6, <1>7, <1>8, <1>10, <1>11, <1>12, <1>13 DEF Pass

LEMMA WalkInvariant == Spec => [](IInv /\ Data /\ Walked)
  <1>1. Init => Walked
    BY DEF Init, FirstStep, Walked, Timed
  <1>2. IInv /\ Data /\ Walked /\ [Next]_vars => Walked'
    <2> SUFFICES ASSUME IInv, Data, Walked, [Next]_vars PROVE Walked'
      OBVIOUS
    <2>1. Types /\ Interval
      BY DEF IInv
    <2>2. CASE UNCHANGED vars \/ BeginTimer \/ EndTimer \/ AddInterval \/ MoveCore
      BY <2>2, WalkedFrame
      DEF vars, BeginTimer, EndTimer, AddInterval, MoveCore, sampleVars,
          walkVars, Timed
    <2>3. CASE ReadSeq \/ UseCores \/ UseCoresThrows \/ DropCaches \/ NoFile
      BY <2>3, Untimed
      DEF ReadSeq, UseCores, UseCoresThrows, DropCaches, DropStatus, NoFile,
          Timed
    <2>4. CASE Sample \/ Report
      BY <2>4, Untimed DEF Sample, Report, NextStep, FirstStep, Timed
    <2>5. QED
      BY <2>1, <2>2, <2>3, <2>4, OpenFileWalked, PassWalked DEF Next, Finished
  <1>3. QED
    BY <1>1, <1>2, DataInvariant, PTL DEF Spec

-----------------------------------------------------------------------------
(* What follows from it *)

\* What a program adds up from two readings of the counter each is the time that
\* passed between begin() and end(), for every width of the counter, however far
\* the counters of the cores are apart, and wherever the counter wraps.
THEOREM ElapsedSummed == Spec => []SumIsElapsed
  <1>1. IInv => SumIsElapsed
    BY DEF IInv, Interval, SumIsElapsed
  <1>2. QED
    BY <1>1, Invariant, PTL

\* For every number of runs and settings: the statistics printed for a function,
\* stride or file are those of m_runs samples of it and of nothing else.
THEOREM SamplesOfOne == Spec => []OneExperiment
  <1>1. IInv => OneExperiment
    BY DEF IInv, SamplesOfSetting, OneExperiment
  <1>2. QED
    BY <1>1, Invariant, PTL

\* For all sizes of arrays, files and cache: the types, the bounds of the counter
\* of passes and of the position, and the page cache holds no more than it can.
THEOREM Typing == Spec => []TypeOK
  <1>1. IInv /\ Data => TypeOK
    <2> SUFFICES ASSUME IInv, Data PROVE TypeOK
      OBVIOUS
    <2>1. /\ clock \in 0..(Width - 1) /\ affinity \subseteq online /\ core \in affinity
          /\ {cycles_low, cycles_high, cycles_low1, cycles_high1} \subseteq 0..(Half - 1)
          /\ mpc \in Controls /\ left \in 0..Passes /\ total \in Nat
      BY DEF IInv, Types
    <2>2. setting \in Settings /\ pos \in Bounds /\ Len(cache) <= CacheBlocks
      BY DEF Data, Files, Position, CacheFits
    <2>3. run \in 0..Runs /\ vals \in Seq(Settings)
      <3>1. run \in Nat /\ vals = [r \in 1..run |-> setting]
        BY TimedLoopsAssumption DEF IInv, SamplesOfSetting
      <3>2. QED
        BY <2>2, <3>1 DEF IInv, SamplesOfSetting
    <2>4. QED
      BY <2>1, <2>2, <2>3 DEF TypeOK, Controls, Bounds
  <1>2. QED
    BY <1>1, DataInvariant, PTL

\* For every size of the files and of the cache: what was to be dropped from the
\* page cache is gone when the first interval of a sample begins, and what was read
\* to be in it is there.
THEOREM CacheHolds == Spec => []CacheAsIntended
  <1>1. IInv /\ Data => CacheAsIntended
    <2> SUFFICES ASSUME IInv, Data, mpc = "begin", left = Passes
                 PROVE  /\ prog.drop = "checked" \/ (prog.drop = "ignored" /\ root) =>
                             \A b \in 0..FileBlocks[File] : ~Cached(File, b)
                        /\ prog.warm /\ length[File] <= CacheBlocks =>
                             \A b \in 0..(length[File] - 1) : Cached(File, b)
      BY DEF CacheAsIntended
    <2>1. prog.drop = "checked" \/ (prog.drop = "ignored" /\ root) => cache = <<>>
      BY DEF Data, Dropped, First, Timed
    <2>2. cache = <<>> => \A b \in 0..FileBlocks[File] : ~Cached(File, b)
      BY DEF Cached
    <2>3. prog.warm /\ length[File] <= CacheBlocks => AllCached
      BY DEF Data, Warmed, Timed
    <2>4. QED
      BY <2>1, <2>2, <2>3 DEF AllCached
  <1>2. QED
    BY <1>1, DataInvariant, PTL

\* For all numbers of passes, cells, strides and blocks: the passes a sample is
\* divided by were made, and a chase over n cells with stride s visits
\* n / gcd(n, s) of them, if it is long enough.
THEOREM PassesWork == Spec => []TimedWork
  <1>1. IInv /\ Data /\ Walked => TimedWork
    <2> SUFFICES ASSUME IInv, Data, Walked, mpc = "sample"
                 PROVE  /\ prog.walk \in {"none", "chase", "unrolled"} => done = Passes
                        /\ prog.walk = "unrolled" => visited = 0..(ARR_SIZE - 1)
                        /\ prog.walk = "chase" =>
                             Cardinality(visited) =
                               AtMost(ITER, ARR_SIZE \div Gcd(ARR_SIZE, Strides[setting]))
                        /\ OfFile /\ length[File] = FileBlocks[File] =>
                             IF prog.walk = "sequential"
                             THEN done = ITER /\ Cardinality(visited) = ITER
                             ELSE done >= ITER - 1
      BY DEF TimedWork
    <2>1. Counted /\ Unrolled /\ Chased /\ BlocksRead
      BY DEF Walked, Timed
    <2>2. Passes \in Nat /\ left = 0 /\ setting \in Settings
      BY PassesFit DEF IInv, Types, Data, Counter, Files
    <2>3. Made = Passes
      BY <2>2 DEF Made
    <2>4. prog.walk \in {"none", "chase", "unrolled"} => done = Passes
      BY <2>1, <2>3 DEF Counted
    <2>5. ASSUME prog.walk = "unrolled" PROVE visited = 0..(ARR_SIZE - 1)
      <3>1. /\ ARR_SIZE \in Nat \ {0} /\ UNROLL \in Nat \ {0}
            /\ ARR_SIZE % UNROLL = 0
        BY TimedLoopsAssumption
      <3>2. ARR_SIZE = UNROLL * (ARR_SIZE \div UNROLL) + (ARR_SIZE % UNROLL)
            /\ ARR_SIZE \div UNROLL \in Int
        BY <3>1, DivMod
      <3>3. Passes = ARR_SIZE \div UNROLL
        BY <2>5 DEF Passes
      <3>4. Made * UNROLL = ARR_SIZE
        BY <2>2, <2>3, <3>1, <3>2, <3>3
      <3>5. QED
        BY <2>1, <2>5, <3>4 DEF Unrolled
    <2>6. ASSUME prog.walk = "chase"
          PROVE  Cardinality(visited) =
                   AtMost(ITER, ARR_SIZE \div Gcd(ARR_SIZE, Strides[setting]))
      <3>1. Passes = ITER
        BY <2>6 DEF Passes
      <3>2. visited = {(j * Stride) % ARR_SIZE : j \in 0..(ITER - 1)}
        BY <2>1, <2>3, <2>6, <3>1 DEF Chased
      <3>3. ARR_SIZE \in Nat \ {0} /\ Stride \in Nat /\ ITER \in Nat
        BY <2>2, TimedLoopsAssumption DEF Stride
      <3>4. Cardinality({(j * Stride) % ARR_SIZE : j \in 0..(ITER - 1)})
              = IF ITER < ARR_SIZE \div Gcd(ARR_SIZE, Stride)
                THEN ITER ELSE ARR_SIZE \div Gcd(ARR_SIZE, Stride)
        BY <3>3, ChaseCells, Zenon
      <3>5. QED
        BY <3>2, <3>4, Zenon DEF AtMost, Stride
    <2>7. ASSUME OfFile, length[File] = FileBlocks[File]
          PROVE  IF prog.walk = "sequential"
                 THEN done = ITER /\ Cardinality(visited) = ITER
                 ELSE done >= ITER - 1
      <3>1. Passes = ITER /\ ITER \in Nat \ {0}
        BY <2>7, TimedLoopsAssumption DEF OfFile, Passes
      <3>2. CASE prog.walk = "sequential"
        <4>1. done = ITER /\ visited = (pos - ITER)..(pos - 1) /\ pos \in Nat
          BY <2>1, <2>3, <2>7, <3>1, <3>2 DEF BlocksRead, Data, Position, Bounds
        <4>2. Cardinality((pos - ITER)..(pos - 1)) = ITER
          <5> DEFINE a == pos - ITER
                     b == pos - 1
          <5>1. a \in Int /\ b \in Int /\ a <= b /\ b - a + 1 = ITER
            BY <3>1, <4>1
          <5> HIDE DEF a, b
          <5>2. Cardinality(a..b) = ITER
            BY <5>1, FS_Interval
          <5>3. QED
            BY <5>2 DEF a, b
        <4>3. QED
          BY <3>2, <4>1, <4>2
      <3>3. CASE prog.walk # "sequential"
        BY <2>1, <2>3, <2>7, <3>1, <3>3 DEF BlocksRead
      <3>4. QED
        BY <3>2, <3>3
    <2>8. QED
      BY <2>4, <2>5, <2>6, <2>7
  <1>2. QED
    BY <1>1, WalkInvariant, PTL

-----------------------------------------------------------------------------
(* The class the samples are kept in *)

\* Induction on the natural numbers, of membership in a set.
LEMMA SetInduction ==
  ASSUME NEW S, 0 \in S, \A n \in Nat : n \in S => n + 1 \in S
  PROVE  \A n \in Nat : n \in S
  <1> SUFFICES ASSUME ~(\A n \in Nat : n \in S) PROVE FALSE
    OBVIOUS
  <1> DEFINE T == {n \in Nat : n \notin S}
  <1>1. T \subseteq Nat /\ T # {}
    OBVIOUS
  <1> HIDE DEF T
  <1>2. PICK x \in T : \A y \in T : x <= y
    BY <1>1, Least
  <1> USE DEF T
  <1>3. x \in Nat /\ x # 0 /\ x \notin S
    OBVIOUS
  <1>4. x - 1 \in T /\ x - 1 < x
    BY <1>3
  <1>5. QED
    BY <1>2, <1>3, <1>4

\* p reorders n places.
Reorders(p, n) == /\ p \in [1..n -> 1..n]
                  /\ \A i, j \in 1..n : p[i] = p[j] => i = j
                  /\ \A k \in 1..n : \E i \in 1..n : p[i] = k

Ordered(t) == \A i, j \in DOMAIN t : i < j => t[i] <= t[j]

\* A largest of finitely many integers.
LEMMA LargestExists ==
  \A n \in Nat : \A s \in [1..(n + 1) -> Int] :
    \E m \in 1..(n + 1) : \A i \in 1..(n + 1) : s[i] <= s[m]
  <1> DEFINE L(n) == \A s \in [1..(n + 1) -> Int] :
                       \E m \in 1..(n + 1) : \A i \in 1..(n + 1) : s[i] <= s[m]
             S == {n \in Nat : L(n)}
  <1>1. L(0)
    <2> SUFFICES ASSUME NEW s \in [1..(0 + 1) -> Int]
                 PROVE  \E m \in 1..(0 + 1) : \A i \in 1..(0 + 1) : s[i] <= s[m]
      OBVIOUS
    <2>1. 1 \in 1..(0 + 1) /\ \A i \in 1..(0 + 1) : s[i] <= s[1]
      OBVIOUS
    <2>2. QED
      BY <2>1
  <1>2. ASSUME NEW n \in Nat, L(n) PROVE L(n + 1)
    <2> SUFFICES ASSUME NEW s \in [1..((n + 1) + 1) -> Int]
                 PROVE  \E m \in 1..((n + 1) + 1) : \A i \in 1..((n + 1) + 1) : s[i] <= s[m]
      OBVIOUS
    <2> DEFINE t == [i \in 1..(n + 1) |-> s[i]]
    <2>1. t \in [1..(n + 1) -> Int]
      OBVIOUS
    <2>2. PICK m \in 1..(n + 1) : \A i \in 1..(n + 1) : t[i] <= t[m]
      BY <1>2, <2>1
    <2> DEFINE k == IF s[n + 2] <= s[m] THEN m ELSE n + 2
    <2>3. k \in 1..((n + 1) + 1)
      OBVIOUS
    <2>4. ASSUME NEW i \in 1..((n + 1) + 1) PROVE s[i] <= s[k]
      <3>1. s[i] \in Int /\ s[m] \in Int /\ s[n + 2] \in Int
        OBVIOUS
      <3>2. i # n + 2 => i \in 1..(n + 1) /\ s[i] <= s[m]
        BY <2>2
      <3>3. QED
        BY <3>1, <3>2
    <2>5. QED
      BY <2>3, <2>4
  <1>3. \A n \in Nat : n \in S
    <2> HIDE DEF L
    <2>1. 0 \in S /\ \A n \in Nat : n \in S => n + 1 \in S
      BY <1>1, <1>2
    <2> HIDE DEF S
    <2>2. QED
      BY <2>1, SetInduction
  <1>4. QED
    BY <1>3

\* Finitely many integers can be sorted.
LEMMA SortingExists ==
  \A n \in Nat : \A s \in [1..n -> Int] :
    \E p : Reorders(p, n) /\ \A i, j \in 1..n : i < j => s[p[i]] <= s[p[j]]
  <1> DEFINE Sorts(p, s, n) ==
               /\ p \in [1..n -> 1..n]
               /\ \A i, j \in 1..n : p[i] = p[j] => i = j
               /\ \A k \in 1..n : \E i \in 1..n : p[i] = k
               /\ \A i, j \in 1..n : i < j => s[p[i]] <= s[p[j]]
             L(n) == \A s \in [1..n -> Int] : \E p : Sorts(p, s, n)
             S == {n \in Nat : L(n)}
  <1>1. L(0)
    <2> SUFFICES ASSUME NEW s \in [1..0 -> Int] PROVE \E p : Sorts(p, s, 0)
      OBVIOUS
    <2>1. Sorts(s, s, 0)
      OBVIOUS
    <2>2. QED
      BY <2>1
  <1>2. ASSUME NEW n \in Nat, L(n) PROVE L(n + 1)
    <2> SUFFICES ASSUME NEW s \in [1..(n + 1) -> Int]
                 PROVE  \E q : Sorts(q, s, n + 1)
      OBVIOUS
    <2>1. PICK m \in 1..(n + 1) : \A i \in 1..(n + 1) : s[i] <= s[m]
      BY LargestExists
    \* Without the largest, in whose place is the last one.
    <2> DEFINE from(k) == IF k = m THEN n + 1 ELSE k
               t == [i \in 1..n |-> s[from(i)]]
    <2>2. t \in [1..n -> Int]
      OBVIOUS
    <2>3. PICK p : Sorts(p, t, n)
      BY <1>2, <2>2
    <2> DEFINE q == [i \in 1..(n + 1) |-> IF i = n + 1 THEN m ELSE from(p[i])]
    <2>4. /\ p \in [1..n -> 1..n]
          /\ \A i, j \in 1..n : p[i] = p[j] => i = j
          /\ \A k \in 1..n : \E i \in 1..n : p[i] = k
          /\ \A i, j \in 1..n : i < j => t[p[i]] <= t[p[j]]
      BY <2>3
    <2>5. ASSUME NEW i \in 1..n
          PROVE  /\ q[i] = from(p[i]) /\ p[i] \in 1..n /\ q[i] \in 1..(n + 1)
                 /\ q[i] # m /\ t[p[i]] = s[q[i]]
      <3>1. p[i] \in 1..n
        BY <2>4
      <3>2. i \in 1..(n + 1) /\ i # n + 1
        OBVIOUS
      <3>3. q[i] = from(p[i])
        BY <3>2, Zenon
      <3>4. from(p[i]) \in 1..(n + 1) /\ from(p[i]) # m
        BY <3>1
      <3>5. t[p[i]] = s[from(p[i])]
        BY <3>1, Zenon
      <3>6. QED
        BY <3>1, <3>3, <3>4, <3>5, Zenon
    <2>6. q[n + 1] = m /\ q \in [1..(n + 1) -> 1..(n + 1)]
      <3>1. n + 1 \in 1..(n + 1)
        OBVIOUS
      <3>2. q[n + 1] = m
        BY <3>1, Zenon
      <3>3. ASSUME NEW i \in 1..(n + 1) PROVE q[i] \in 1..(n + 1)
        <4>1. i = n + 1 \/ i \in 1..n
          OBVIOUS
        <4> HIDE DEF q
        <4>2. QED
          BY <2>5, <3>2, <4>1
      <3>4. q = [i \in 1..(n + 1) |-> q[i]]
        OBVIOUS
      <3> HIDE DEF q
      <3>5. QED
        BY <3>2, <3>3, <3>4
    <2>7. ASSUME NEW i \in 1..(n + 1), NEW j \in 1..(n + 1), q[i] = q[j] PROVE i = j
      <3>1. CASE i \in 1..n /\ j \in 1..n
        <4>1. p[i] = p[j]
          BY <2>5, <2>7, <3>1
        <4>2. QED
          BY <2>4, <3>1, <4>1
      <3>2. CASE ~(i \in 1..n /\ j \in 1..n)
        <4> HIDE DEF q
        <4>1. (i = n + 1 \/ i \in 1..n) /\ (j = n + 1 \/ j \in 1..n)
          OBVIOUS
        <4>2. \A k \in 1..n : q[k] # m
          BY <2>5
        <4>3. QED
          BY <2>6, <2>7, <3>2, <4>1, <4>2
      <3>3. QED
        BY <3>1, <3>2
    <2>8. ASSUME NEW k \in 1..(n + 1) PROVE \E i \in 1..(n + 1) : q[i] = k
      <3>1. CASE k = m
        BY <2>6, <3>1
      <3>2. CASE k # m
        <4> DEFINE l == IF k = n + 1 THEN m ELSE k
        <4>1. l \in 1..n /\ from(l) = k
          BY <3>2
        <4>2. PICK i \in 1..n : p[i] = l
          BY <2>4, <4>1
        <4>3. q[i] = k
          BY <2>5, <4>1, <4>2
        <4>4. QED
          BY <4>3
      <3>3. QED
        BY <3>1, <3>2
    <2>9. ASSUME NEW i \in 1..(n + 1), NEW j \in 1..(n + 1), i < j
          PROVE  s[q[i]] <= s[q[j]]
      <3> HIDE DEF q
      <3>1. CASE j = n + 1
        <4>1. q[i] \in 1..(n + 1) /\ q[j] = m
          BY <2>6, <3>1
        <4>2. QED
          BY <2>1, <4>1
      <3>2. CASE j # n + 1
        <4>1. i \in 1..n /\ j \in 1..n
          BY <2>9, <3>2
        <4>2. t[p[i]] <= t[p[j]] /\ t[p[i]] = s[q[i]] /\ t[p[j]] = s[q[j]]
          BY <2>4, <2>5, <2>9, <4>1
        <4>3. QED
          BY <4>2
      <3>3. QED
        BY <3>1, <3>2
    <2>10. Sorts(q, s, n + 1)
      <3> HIDE DEF q
      <3>1. QED
        BY <2>6, <2>7, <2>8, <2>9
    <2>11. QED
      BY ZenonT(60), <2>10
  <1>3. \A n \in Nat : n \in S
    <2> HIDE DEF L
    <2>1. 0 \in S /\ \A n \in Nat : n \in S => n + 1 \in S
      BY <1>1, <1>2
    <2> HIDE DEF S
    <2>2. QED
      BY <2>1, SetInduction
  <1>4. QED
    BY <1>3 DEF Reorders

\* The samples in another order are as many in every set of values.
LEMMA ReorderedCount ==
  ASSUME NEW n \in Nat, NEW s, NEW t, NEW p, NEW V, Reorders(p, n),
         DOMAIN s = 1..n, DOMAIN t = 1..n, \A i \in 1..n : t[i] = s[p[i]]
  PROVE  Count(t, V) = Count(s, V)
  <1> DEFINE A == {i \in 1..n : t[i] \in V}
             B == {i \in 1..n : s[i] \in V}
             f == [i \in A |-> p[i]]
  <1> USE DEF Reorders
  <1>1. A \in SUBSET (1..n) /\ IsFiniteSet(1..n)
    BY FS_Interval
  <1>2. IsFiniteSet(A)
    BY <1>1, FS_Subset
  <1>3. f \in [A -> B]
    OBVIOUS
  <1>4. \A i, j \in A : f[i] = f[j] => i = j
    OBVIOUS
  <1>5. \A k \in B : \E i \in A : f[i] = k
    <2> TAKE k \in B
    <2>1. PICK i \in 1..n : p[i] = k
      OBVIOUS
    <2>2. i \in A /\ f[i] = k
      BY <2>1
    <2>3. QED
      BY <2>2
  <1> HIDE DEF f
  <1>6. f \in Bijection(A, B)
    BY <1>3, <1>4, <1>5 DEF Bijection, Injection, IsInjective, Surjection
  <1>7. Cardinality(B) = Cardinality(A)
    BY <1>2, <1>6, FS_Bijection DEF ExistsBijection
  <1>8. QED
    BY <1>7 DEF Count

\* What Sorted returns: the same samples, in ascending order.
LEMMA SortedIs ==
  ASSUME NEW s \in Seq(Int)
  PROVE  /\ Sorted(s) \in [1..Len(s) -> ToSet(s)]
         /\ Ordered(Sorted(s))
         /\ \A V : Count(Sorted(s), V) = Count(s, V)
  <1> DEFINE n == Len(s)
             Sorts(t) == /\ \A V \in SUBSET ToSet(s) : Count(t, V) = Count(s, V)
                         /\ \A i, j \in DOMAIN t : i < j => t[i] <= t[j]
  <1>1. n \in Nat /\ DOMAIN s = 1..n /\ s \in [1..n -> Int]
    BY LenProperties
  <1>2. PICK p : Reorders(p, n) /\ \A i, j \in 1..n : i < j => s[p[i]] <= s[p[j]]
    BY <1>1, SortingExists
  <1> DEFINE r == [i \in 1..n |-> s[p[i]]]
  <1>3. r \in [1..n -> ToSet(s)] /\ DOMAIN r = 1..n /\ \A i \in 1..n : r[i] = s[p[i]]
    BY <1>1, <1>2 DEF ToSet, Reorders
  <1> HIDE DEF r, n
  <1>4. \A V : Count(r, V) = Count(s, V)
    <2> SUFFICES ASSUME NEW V PROVE Count(r, V) = Count(s, V)
      OBVIOUS
    <2>1. /\ DOMAIN s = 1..n /\ DOMAIN r = 1..n /\ n \in Nat /\ Reorders(p, n)
          /\ \A i \in 1..n : r[i] = s[p[i]]
      BY <1>1, <1>2, <1>3
    <2>2. QED
      BY SMTT(60), <2>1, ReorderedCount
  <1>5. \A i, j \in DOMAIN r : i < j => r[i] <= r[j]
    <2> SUFFICES ASSUME NEW i \in 1..n, NEW j \in 1..n, i < j PROVE r[i] <= r[j]
      BY <1>3
    <2>1. r[i] = s[p[i]] /\ r[j] = s[p[j]] /\ s[p[i]] <= s[p[j]]
      BY <1>2, <1>3, Zenon
    <2>2. QED
      BY <2>1
  <1>6. r \in [DOMAIN s -> ToSet(s)] /\ Sorts(r)
    BY <1>1, <1>3, <1>4, <1>5
  <1> DEFINE t == Sorted(s)
  <1>7. t \in [DOMAIN s -> ToSet(s)] /\ Sorts(t)
    <2>1. t = CHOOSE u \in [DOMAIN s -> ToSet(s)] : Sorts(u)
      BY DEF Sorted
    <2> HIDE DEF t, Sorts
    <2>2. QED
      BY <1>6, <2>1, Zenon
  <1>8. ASSUME NEW V PROVE Count(t, V) = Count(s, V)
    <2> DEFINE W == V \cap ToSet(s)
    <2>1. W \in SUBSET ToSet(s)
      OBVIOUS
    <2>2. Count(t, W) = Count(s, W)
      BY <1>7, <2>1
    <2>3. {i \in DOMAIN t : t[i] \in V} = {i \in DOMAIN t : t[i] \in W}
      BY <1>7
    <2>4. {i \in DOMAIN s : s[i] \in V} = {i \in DOMAIN s : s[i] \in W}
      BY DEF ToSet
    <2> HIDE DEF W, t
    <2>5. QED
      BY <2>2, <2>3, <2>4, Zenon DEF Count
  <1>9. QED
    <2> HIDE DEF t
    <2>1. t \in [1..n -> ToSet(s)] /\ Ordered(t) /\ \A V : Count(t, V) = Count(s, V)
      BY <1>1, <1>7, <1>8 DEF Ordered
    <2>2. QED
      BY <2>1 DEF t, n

\* Of a sorted sequence, at most those before the k-th are less than it, and at
\* least the first k are no greater; and the other way round.
LEMMA CountBounds ==
  ASSUME NEW n \in Nat, NEW t \in [1..n -> Int], Ordered(t), NEW k \in 1..n,
         NEW S, \A i \in 1..n : t[i] \in S
  PROVE  /\ Count(t, {w \in S : w < t[k]}) \in 0..(k - 1)
         /\ Count(t, {w \in S : w <= t[k]}) \in k..n
         /\ Count(t, {w \in S : w > t[k]}) \in 0..(n - k)
         /\ Count(t, {w \in S : w >= t[k]}) \in (n - k + 1)..n
  <1> DEFINE Below == {i \in 1..n : t[i] \in {w \in S : w < t[k]}}
             UpTo  == {i \in 1..n : t[i] \in {w \in S : w <= t[k]}}
             Above == {i \in 1..n : t[i] \in {w \in S : w > t[k]}}
             From  == {i \in 1..n : t[i] \in {w \in S : w >= t[k]}}
  <1>1. DOMAIN t = 1..n /\ t[k] \in Int /\ \A i \in 1..n : t[i] \in Int
    OBVIOUS
  <1>2. \A i, j \in 1..n : i < j => t[i] <= t[j]
    BY <1>1 DEF Ordered
  <1>3. /\ \A a, b \in Int : IsFiniteSet(a..b)
        /\ Cardinality(1..(k - 1)) = k - 1 /\ Cardinality(1..k) = k
        /\ Cardinality((k + 1)..n) = n - k /\ Cardinality(k..n) = n - k + 1
        /\ Cardinality(1..n) = n
    <2>1. \A a, b \in Int : /\ IsFiniteSet(a..b)
                            /\ Cardinality(a..b) = IF a > b THEN 0 ELSE b - a + 1
      BY FS_Interval
    <2>2. n \in Int /\ k \in Int /\ 1 <= k /\ k <= n
      OBVIOUS
    <2>3. /\ Cardinality(1..(k - 1)) = IF 1 > k - 1 THEN 0 ELSE (k - 1) - 1 + 1
          /\ Cardinality(1..k) = IF 1 > k THEN 0 ELSE k - 1 + 1
          /\ Cardinality((k + 1)..n) = IF k + 1 > n THEN 0 ELSE n - (k + 1) + 1
          /\ Cardinality(k..n) = IF k > n THEN 0 ELSE n - k + 1
          /\ Cardinality(1..n) = IF 1 > n THEN 0 ELSE n - 1 + 1
      BY <2>1, <2>2
    <2>4. \A a, b \in Int : IsFiniteSet(a..b)
      BY <2>1
    <2>5. QED
      BY <2>2, <2>3, <2>4
  <1>4. /\ Below \subseteq 1..(k - 1) /\ Above \subseteq (k + 1)..n
        /\ 1..k \subseteq UpTo /\ UpTo \subseteq 1..n
        /\ k..n \subseteq From /\ From \subseteq 1..n
    <2>1. Below \subseteq 1..(k - 1)
      BY <1>1, <1>2
    <2>2. Above \subseteq (k + 1)..n
      BY SMTT(60), <1>1, <1>2
    <2>3. 1..k \subseteq UpTo
      <3> SUFFICES ASSUME NEW i \in 1..k PROVE i \in UpTo
        OBVIOUS
      <3>1. i \in 1..n /\ (i = k \/ i < k)
        OBVIOUS
      <3>2. t[i] <= t[k]
        BY <1>1, <1>2, <3>1
      <3>3. QED
        BY <3>1, <3>2
    <2>4. k..n \subseteq From
      <3> SUFFICES ASSUME NEW i \in k..n PROVE i \in From
        OBVIOUS
      <3>1. i \in 1..n /\ (i = k \/ k < i)
        OBVIOUS
      <3>2. t[i] >= t[k]
        BY <1>1, <1>2, <3>1
      <3>3. QED
        BY <3>1, <3>2
    <2>5. QED
      BY <2>1, <2>2, <2>3, <2>4
  <1>5. /\ Count(t, {w \in S : w < t[k]}) = Cardinality(Below)
        /\ Count(t, {w \in S : w <= t[k]}) = Cardinality(UpTo)
        /\ Count(t, {w \in S : w > t[k]}) = Cardinality(Above)
        /\ Count(t, {w \in S : w >= t[k]}) = Cardinality(From)
    BY <1>1, Zenon DEF Count
  <1> HIDE DEF Below, UpTo, Above, From
  <1>6. /\ IsFiniteSet(1..(k - 1)) /\ IsFiniteSet((k + 1)..n) /\ IsFiniteSet(1..n)
        /\ 1..(k - 1) \subseteq 1..n
    BY <1>3
  <1>7. /\ IsFiniteSet(Below) /\ IsFiniteSet(Above) /\ IsFiniteSet(UpTo)
        /\ IsFiniteSet(From)
        /\ Cardinality(Below) <= k - 1 /\ Cardinality(Above) <= n - k
        /\ Cardinality(UpTo) <= n /\ Cardinality(From) <= n
    <2>1. IsFiniteSet(Below) /\ Cardinality(Below) <= Cardinality(1..(k - 1))
      BY <1>4, <1>6, FS_Subset
    <2>2. IsFiniteSet(Above) /\ Cardinality(Above) <= Cardinality((k + 1)..n)
      BY <1>4, <1>6, FS_Subset
    <2>3. IsFiniteSet(UpTo) /\ Cardinality(UpTo) <= Cardinality(1..n)
      BY <1>4, <1>6, FS_Subset
    <2>4. IsFiniteSet(From) /\ Cardinality(From) <= Cardinality(1..n)
      BY <1>4, <1>6, FS_Subset
    <2>5. QED
      BY <1>3, <2>1, <2>2, <2>3, <2>4
  <1>8. k <= Cardinality(UpTo) /\ n - k + 1 <= Cardinality(From)
    BY <1>3, <1>4, <1>7, FS_Subset
  <1>9. /\ Cardinality(Below) \in Nat /\ Cardinality(Above) \in Nat
        /\ Cardinality(UpTo) \in Nat /\ Cardinality(From) \in Nat
    BY <1>7, FS_CardinalityType
  <1>10. QED
    BY <1>5, <1>7, <1>8, <1>9

LEMMA SampleValues ==
  ASSUME NEW s \in Seq(Samples)
  PROVE  /\ s \in Seq(Int) /\ Len(s) \in Nat /\ DOMAIN s = 1..Len(s)
         /\ ToSet(s) \subseteq Samples
         /\ Samples \subseteq Int
  <1>1. Samples \subseteq Int
    BY StatsAssumption
  <1>2. s \in [1..Len(s) -> Samples] /\ Len(s) \in Nat
    BY LenProperties
  <1>3. s \in [1..Len(s) -> Int]
    <2> DEFINE n == Len(s)
    <2>1. s \in [1..n -> Samples]
      BY <1>2
    <2> HIDE DEF n
    <2>2. s \in [1..n -> Int]
      BY <1>1, <2>1
    <2>3. QED
      BY <2>2 DEF n
  <1>4. s \in Seq(Int)
    BY <1>2, <1>3
  <1>5. ToSet(s) \subseteq Samples
    BY <1>2 DEF ToSet
  <1>6. QED
    BY <1>1, <1>2, <1>4, <1>5

LEMMA StatsStep == StatsTypeOK /\ [StatsNext]_statsVars => StatsTypeOK'
  <1> SUFFICES ASSUME StatsTypeOK, [StatsNext]_statsVars PROVE StatsTypeOK'
    OBVIOUS
  <1>0. m_runs \in Nat /\ Samples \subseteq Int
    BY StatsAssumption
  <1>1. m_vals \in Seq(Samples) /\ runs \in Nat /\ Len(m_vals) = runs * m_runs
    BY DEF StatsTypeOK
  <1>2. CASE RunFunc
    <2>1. PICK s \in [1..m_runs -> Samples] : m_vals' = m_vals \o s
      BY <1>2 DEF RunFunc
    <2>2. s \in Seq(Samples) /\ Len(s) = m_runs
      BY <1>0, <2>1, LenProperties
    <2>3. runs' = runs + 1
      BY <1>2 DEF RunFunc
    <2>4. m_vals' \in Seq(Samples) /\ Len(m_vals') = Len(m_vals) + m_runs
      BY <1>1, <2>1, <2>2, ConcatProperties
    <2>5. (runs + 1) * m_runs = runs * m_runs + m_runs
      BY <1>0, <1>1
    <2>6. QED
      BY <1>1, <2>3, <2>4, <2>5 DEF StatsTypeOK
  <1>3. CASE Median
    <2>1. m_vals \in Seq(Int) /\ ToSet(m_vals) \subseteq Samples
      BY <1>1, SampleValues
    <2>2. m_vals' \in [1..Len(m_vals) -> ToSet(m_vals)]
      BY <1>3, <2>1, SortedIs DEF Median
    <2>3. Len(m_vals) \in Nat
      BY <1>1, LenProperties
    <2>4. m_vals' \in Seq(Samples) /\ Len(m_vals') = Len(m_vals)
      BY <2>1, <2>2, <2>3
    <2>5. QED
      BY <1>1, <1>3, <2>4 DEF StatsTypeOK, Median
  <1>4. CASE ResetVals
    BY <1>0, <1>4 DEF ResetVals, StatsTypeOK
  <1>5. CASE UNCHANGED statsVars
    BY <1>1, <1>5 DEF statsVars, StatsTypeOK
  <1>6. QED
    BY <1>2, <1>3, <1>4, <1>5 DEF StatsNext

\* Samples are only appended, by whole runs, and dropped all at once: none is
\* lost when median() sorts them.
THEOREM StatsTyping == StatsSpec => []StatsTypeOK
  <1>1. StatsInit => StatsTypeOK
    BY StatsAssumption DEF StatsInit, StatsTypeOK
  <1>2. StatsTypeOK /\ [StatsNext]_statsVars => StatsTypeOK'
    BY StatsStep
  <1>3. QED
    BY <1>1, <1>2, PTL DEF StatsSpec

\* What median() returns is the mean of two samples, with fewer than half of them
\* below the lower and fewer than half above the upper.
THEOREM MedianMiddle == StatsSpec => []MedianIsMiddle
  <1>1. StatsTypeOK => MedianIsMiddle
    <2> SUFFICES ASSUME StatsTypeOK, m_vals # <<>>
                 PROVE  \E lo, hi \in ToSet(m_vals) :
                          /\ TwiceMedian(m_vals) = lo + hi
                          /\ Fewer(m_vals, {w \in Samples : w < lo})
                          /\ ~Fewer(m_vals, {w \in Samples : w <= lo})
                          /\ Fewer(m_vals, {w \in Samples : w > hi})
                          /\ ~Fewer(m_vals, {w \in Samples : w >= hi})
      BY DEF MedianIsMiddle
    <2> DEFINE n == Len(m_vals)
               t == Sorted(m_vals)
               mid == n \div 2
               l == IF n % 2 # 0 THEN mid + 1 ELSE mid
               h == mid + 1
    <2>1. /\ m_vals \in Seq(Int) /\ n \in Nat \ {0}
          /\ ToSet(m_vals) \subseteq Int /\ ToSet(m_vals) \subseteq Samples
      <3>1. m_vals \in Seq(Samples)
        BY DEF StatsTypeOK
      <3>2. Len(m_vals) # 0
        BY <3>1, EmptySeq
      <3>3. QED
        BY <3>1, <3>2, SampleValues
    <2>2. /\ t \in [1..n -> ToSet(m_vals)] /\ Ordered(t)
          /\ \A V : Count(t, V) = Count(m_vals, V)
      BY <2>1, SortedIs, Zenon
    <2>3. /\ mid \in Nat /\ l \in 1..n /\ h \in 1..n
          /\ n = IF n % 2 # 0 THEN 2 * mid + 1 ELSE 2 * mid
      BY <2>1
    <2>4. TwiceMedian(m_vals) = t[l] + t[h]
      <3> HIDE DEF t
      <3>1. t[mid + 1] \in Int
        BY <2>1, <2>2, <2>3
      <3>2. TwiceMedian(m_vals) = IF n % 2 # 0 THEN 2 * t[mid + 1] ELSE t[mid + 1] + t[mid]
        BY Zenon DEF TwiceMedian, t
      <3>3. CASE n % 2 # 0
        BY <3>1, <3>2, <3>3
      <3>4. CASE n % 2 = 0
        <4>1. t[mid] \in Int /\ l = mid /\ h = mid + 1
          BY <2>1, <2>2, <2>3, <3>4
        <4>2. QED
          BY <3>1, <3>2, <3>4, <4>1
      <3>5. QED
        BY <3>3, <3>4
    <2> HIDE DEF t
    <2>5. t \in [1..n -> Int] /\ \A i \in 1..n : t[i] \in Samples
      BY <2>1, <2>2
    <2>6. /\ Count(t, {w \in Samples : w < t[l]}) \in 0..(l - 1)
          /\ Count(t, {w \in Samples : w <= t[l]}) \in l..n
          /\ Count(t, {w \in Samples : w > t[h]}) \in 0..(n - h)
          /\ Count(t, {w \in Samples : w >= t[h]}) \in (n - h + 1)..n
      <3> HIDE DEF n, l, h
      <3>1. QED
        BY <2>1, <2>2, <2>3, <2>5, CountBounds
    <2>7. 2 * (l - 1) < n /\ 2 * l >= n /\ 2 * (n - h) < n /\ 2 * (n - h + 1) >= n
      BY SMTT(60), <2>1, <2>3
    <2>8. /\ Fewer(m_vals, {w \in Samples : w < t[l]})
          /\ ~Fewer(m_vals, {w \in Samples : w <= t[l]})
          /\ Fewer(m_vals, {w \in Samples : w > t[h]})
          /\ ~Fewer(m_vals, {w \in Samples : w >= t[h]})
      <3> DEFINE a == Count(t, {w \in Samples : w < t[l]})
                 b == Count(t, {w \in Samples : w <= t[l]})
                 c == Count(t, {w \in Samples : w > t[h]})
                 d == Count(t, {w \in Samples : w >= t[h]})
      <3>1. a \in 0..(l - 1) /\ b \in l..n /\ c \in 0..(n - h) /\ d \in (n - h + 1)..n
        BY <2>6
      <3>2. /\ Fewer(m_vals, {w \in Samples : w < t[l]}) = (2 * a < n)
            /\ Fewer(m_vals, {w \in Samples : w <= t[l]}) = (2 * b < n)
            /\ Fewer(m_vals, {w \in Samples : w > t[h]}) = (2 * c < n)
            /\ Fewer(m_vals, {w \in Samples : w >= t[h]}) = (2 * d < n)
        BY <2>2 DEF Fewer
      <3> HIDE DEF a, b, c, d, l, h, n
      <3>3. 2 * a < n /\ ~(2 * b < n) /\ 2 * c < n /\ ~(2 * d < n)
        BY <2>1, <2>3, <2>7, <3>1
      <3>4. QED
        BY <3>2, <3>3
    <2>9. t[l] \in ToSet(m_vals) /\ t[h] \in ToSet(m_vals)
      BY <2>2, <2>3
    <2>10. QED
      BY <2>4, <2>8, <2>9
  <1>2. QED
    BY <1>1, StatsTyping, PTL

-----------------------------------------------------------------------------
(* CsvFile: functions defined by recursion *)

\* Induction up to m.
LEMMA InductionUpTo ==
  ASSUME NEW m \in Nat, NEW S, 0 \in S, \A n \in 1..m : n - 1 \in S => n \in S
  PROVE  \A n \in 0..m : n \in S
  <1> DEFINE T == {n \in Nat : n <= m => n \in S}
  <1>1. 0 \in T
    OBVIOUS
  <1>2. ASSUME NEW n \in Nat, n \in T PROVE n + 1 \in T
    <2>1. CASE n + 1 <= m
      <3>1. n + 1 \in 1..m /\ (n + 1) - 1 = n /\ n \in S
        BY <1>2, <2>1
      <3>2. QED
        BY <3>1
    <2>2. CASE ~(n + 1 <= m)
      BY <2>2
    <2>3. QED
      BY <2>1, <2>2
  <1> HIDE DEF T
  <1>3. \A n \in Nat : n \in T
    BY <1>1, <1>2, SetInduction
  <1>4. QED
    BY <1>3 DEF T

\* g has the values in S after each of the steps f[1], ..., f[m] from b.
Iterates(g, S, b, m, f) == /\ g \in [0..m -> S]
                           /\ g[0] = b
                           /\ \A n \in 1..m : g[n] = f[n][g[n - 1]]

\* Recursion defines a function.
LEMMA Recursion ==
  ASSUME NEW S, NEW b \in S, NEW m \in Nat, NEW f \in [1..m -> [S -> S]]
  PROVE  \E g : Iterates(g, S, b, m, f)
  <1> DEFINE Steps(g, k) == /\ g \in [0..k -> S]
                            /\ g[0] = b
                            /\ \A n \in 1..k : g[n] = f[n][g[n - 1]]
             T == {k \in 0..m : \E g : Steps(g, k)}
  <1>1. 0 \in T
    <2>1. Steps([n \in 0..0 |-> b], 0)
      OBVIOUS
    <2> HIDE DEF Steps
    <2>2. QED
      BY <2>1
  <1>2. ASSUME NEW k \in 1..m, k - 1 \in T PROVE k \in T
    <2>1. PICK g : Steps(g, k - 1)
      BY <1>2
    <2>2. g \in [0..(k - 1) -> S] /\ g[0] = b
          /\ \A n \in 1..(k - 1) : g[n] = f[n][g[n - 1]]
      BY <2>1
    <2> DEFINE h == [n \in 0..k |-> IF n = k THEN f[k][g[k - 1]] ELSE g[n]]
    <2>3. f[k][g[k - 1]] \in S
      <3>1. g[k - 1] \in S /\ f[k] \in [S -> S]
        BY <2>2
      <3>2. QED
        BY <3>1
    <2>4. h \in [0..k -> S] /\ h[0] = b
      BY <2>2, <2>3
    <2>5. ASSUME NEW n \in 1..k PROVE h[n] = f[n][h[n - 1]]
      <3>1. n - 1 \in 0..(k - 1) /\ h[n - 1] = g[n - 1]
        OBVIOUS
      <3>2. n # k => n \in 1..(k - 1) /\ h[n] = g[n]
        OBVIOUS
      <3>3. n = k => h[n] = f[k][g[k - 1]]
        OBVIOUS
      <3> HIDE DEF h
      <3>4. QED
        BY <2>2, <3>1, <3>2, <3>3
    <2>6. Steps(h, k)
      <3> HIDE DEF h
      <3>1. QED
        BY <2>4, <2>5
    <2>7. k \in 0..m
      OBVIOUS
    <2> HIDE DEF Steps, h
    <2>8. QED
      BY <2>6, <2>7
  <1>3. \A k \in 0..m : k \in T
    <2> HIDE DEF T
    <2>1. QED
      BY <1>1, <1>2, InductionUpTo
  <1>4. PICK g : Steps(g, m)
    BY <1>3
  <1>5. /\ g \in [0..m -> S] /\ g[0] = b
        /\ \A n \in 1..m : g[n] = f[n][g[n - 1]]
    BY <1>4
  <1>6. QED
    BY <1>5 DEF Iterates

-----------------------------------------------------------------------------
(* CsvFile: the reader, and what it makes of one text after another *)

Reader == [rows : Seq(Seq(Seq(Char))), fields : Seq(Seq(Char)),
           text : Seq(Char),
           at : {"row", "field", "plain", "quoted", "quote"}]

LEMMA Special == /\ Quote \in Char /\ Separator \in Char /\ Newline \in Char
                 /\ Quote # Separator /\ Quote # Newline /\ Separator # Newline
  BY CsvFileAssumption DEF Char

\* What it does with each character, by where it stands.
LEMMA ReadCharIs ==
  ASSUME NEW r \in Reader, NEW c \in Char
  PROVE  /\ ReadChar(r, c) \in Reader
         /\ ReadChar(r, c).rows = r.rows
              \/ \E v : ReadChar(r, c).rows = Append(r.rows, v)
         /\ r.at \in {"row", "field"} /\ c = Quote =>
              ReadChar(r, c) = [r EXCEPT !.at = "quoted"]
         /\ r.at = "quoted" /\ c = Quote =>
              ReadChar(r, c) = [r EXCEPT !.at = "quote"]
         /\ r.at = "quote" /\ c = Quote =>
              ReadChar(r, c) = [r EXCEPT !.text = Append(r.text, c), !.at = "quoted"]
         /\ r.at = "quoted" /\ c # Quote =>
              ReadChar(r, c) = [r EXCEPT !.text = Append(r.text, c)]
         /\ r.at \in {"row", "field", "plain"} /\ c \notin {Quote, Separator, Newline} =>
              ReadChar(r, c) = [r EXCEPT !.text = Append(r.text, c), !.at = "plain"]
         /\ r.at # "quoted" /\ c = Separator =>
              ReadChar(r, c) = [r EXCEPT !.fields = Append(r.fields, r.text),
                                         !.text = <<>>, !.at = "field"]
         /\ r.at # "quoted" /\ c = Newline =>
              ReadChar(r, c) = [Start EXCEPT !.rows = Append(r.rows, FieldsOf(r))]
  <1> DEFINE q == ReadChar(r, c)
  <1>1. /\ r.rows \in Seq(Seq(Seq(Char))) /\ r.fields \in Seq(Seq(Char))
        /\ r.text \in Seq(Char) /\ r.at \in {"row", "field", "plain", "quoted", "quote"}
    BY DEF Reader
  <1>2. /\ Append(r.text, c) \in Seq(Char) /\ Append(r.fields, r.text) \in Seq(Seq(Char))
        /\ <<>> \in Seq(Char) /\ <<>> \in Seq(Seq(Char))
        /\ FieldsOf(r) \in Seq(Seq(Char))
    BY <1>1 DEF FieldsOf
  <1>3. Append(r.rows, FieldsOf(r)) \in Seq(Seq(Seq(Char)))
    BY <1>1, <1>2
  <1>4. CASE r.at \in {"row", "field"} /\ c = Quote
    <2>1. q = [r EXCEPT !.at = "quoted"]
      BY <1>4, Special DEF ReadChar
    <2>2. QED
      BY <1>4, <2>1, Special DEF Reader
  <1>5. CASE r.at = "quoted" /\ c = Quote
    <2>1. q = [r EXCEPT !.at = "quote"]
      BY <1>5, Special DEF ReadChar
    <2>2. QED
      BY <1>5, <2>1, Special DEF Reader
  <1>6. CASE r.at = "quote" /\ c = Quote
    <2>1. q = [r EXCEPT !.text = Append(r.text, c), !.at = "quoted"]
      BY <1>6, Special DEF ReadChar, Reader
    <2>2. QED
      BY <1>2, <1>6, <2>1, Special DEF Reader
  <1>7. CASE r.at = "quoted" /\ c # Quote
    <2>1. q = [r EXCEPT !.text = Append(r.text, c)]
      BY <1>7, Special DEF ReadChar, Reader
    <2>2. QED
      BY <1>2, <1>7, <2>1, Special DEF Reader
  <1>8. CASE r.at # "quoted" /\ c = Separator
    <2>1. q = [r EXCEPT !.fields = Append(r.fields, r.text), !.text = <<>>, !.at = "field"]
      BY <1>8, Special DEF ReadChar, Reader
    <2>2. QED
      BY <1>2, <1>8, <2>1, Special DEF Reader
  <1>9. CASE r.at # "quoted" /\ c = Newline
    <2>1. q = [Start EXCEPT !.rows = Append(r.rows, FieldsOf(r))]
      BY <1>9, Special DEF ReadChar
    <2>2. QED
      BY <1>2, <1>3, <1>9, <2>1, Special DEF Reader, Start
  <1>10. CASE r.at # "quoted" /\ c \notin {Quote, Separator, Newline}
    <2>1. q = [r EXCEPT !.text = Append(r.text, c), !.at = "plain"]
      BY <1>1, <1>10, Special DEF ReadChar, Reader
    <2>2. QED
      BY <1>2, <1>10, <2>1, Special DEF Reader
  <1>11. CASE r.at = "plain" /\ c = Quote
    <2>1. q = [r EXCEPT !.text = Append(r.text, c), !.at = "plain"]
      BY <1>1, <1>11, Special DEF ReadChar, Reader
    <2>2. QED
      BY <1>2, <1>11, <2>1, Special DEF Reader
  <1>12. QED
    BY <1>1, <1>4, <1>5, <1>6, <1>7, <1>8, <1>9, <1>10, <1>11

LEMMA ReadCharType ==
  ASSUME NEW r \in Reader, NEW c \in Char
  PROVE  ReadChar(r, c) \in Reader
  BY ReadCharIs, Zenon

\* The reader's states after each character of a text.
Trace(a, r, t) ==
  /\ a \in [0..Len(t) -> Reader]
  /\ a[0] = r
  /\ \A n \in 1..Len(t) : a[n] = ReadChar(a[n - 1], t[n])

LEMMA ReadTrace ==
  ASSUME NEW r \in Reader, NEW t \in Seq(Char)
  PROVE  \E a : Trace(a, r, t) /\ Read(r, t) = a[Len(t)]
  <1> DEFINE m == Len(t)
             f == [n \in 1..m |-> [q \in Reader |-> ReadChar(q, t[n])]]
             F(g) == [n \in 0..m |-> IF n = 0 THEN r ELSE ReadChar(g[n - 1], t[n])]
             after == CHOOSE g : g = F(g)
  <1>1. m \in Nat /\ \A n \in 1..m : t[n] \in Char
    BY LenProperties
  <1>2. f \in [1..m -> [Reader -> Reader]]
    BY <1>1, ReadCharType
  <1>3. \A n \in 1..m : \A q \in Reader : f[n][q] = ReadChar(q, t[n])
    OBVIOUS
  <1> HIDE DEF f, m
  <1>4. PICK g : /\ g \in [0..m -> Reader] /\ g[0] = r
                 /\ \A n \in 1..m : g[n] = f[n][g[n - 1]]
    <2>1. PICK g : Iterates(g, Reader, r, m, f)
      BY <1>1, <1>2, Recursion
    <2>2. QED
      BY <2>1 DEF Iterates
  <1>5. \A n \in 1..m : n - 1 \in 0..m /\ n \in 0..m /\ n # 0 /\ 0 \in 0..m
    BY <1>1
  <1>6. \A n \in 0..m : g[n] = IF n = 0 THEN r ELSE ReadChar(g[n - 1], t[n])
    <2> SUFFICES ASSUME NEW n \in 0..m
                 PROVE  g[n] = IF n = 0 THEN r ELSE ReadChar(g[n - 1], t[n])
      OBVIOUS
    <2>1. CASE n = 0
      BY <1>4, <2>1
    <2>2. CASE n # 0
      <3>1. n \in 1..m /\ n - 1 \in 0..m
        BY <1>1, <2>2
      <3>2. g[n] = f[n][g[n - 1]] /\ g[n - 1] \in Reader
        BY <1>4, <2>2, <3>1
      <3>3. QED
        BY <1>3, <2>2, <3>1, <3>2
    <2>3. QED
      BY <2>1, <2>2
  <1>7. g = F(g)
    BY <1>4, <1>6
  <1>8. after = F(after)
    <2> HIDE DEF F
    <2>1. QED
      BY <1>7, Zenon
  <1>9. Read(r, t) = after[m]
    BY DEF Read, m
  <1> HIDE DEF after
  <1>10. DOMAIN after = 0..m /\ after[0] = r
         /\ \A n \in 1..m : after[n] = ReadChar(after[n - 1], t[n])
    BY <1>1, <1>5, <1>8
  <1>11. after \in [0..m -> Reader]
    <2> DEFINE S == {n \in 0..m : after[n] \in Reader}
    <2>1. 0 \in S
      BY <1>1, <1>10
    <2>2. ASSUME NEW n \in 1..m, n - 1 \in S PROVE n \in S
      <3>1. after[n - 1] \in Reader /\ t[n] \in Char /\ n \in 0..m
        BY <1>1, <1>5, <2>2
      <3>2. after[n] \in Reader
        BY <1>10, <3>1, ReadCharType
      <3>3. QED
        BY <3>1, <3>2
    <2> HIDE DEF S
    <2>3. \A n \in 0..m : n \in S
      BY <1>1, <2>1, <2>2, InductionUpTo
    <2>4. \A n \in 0..m : after[n] \in Reader
      BY <2>3 DEF S
    <2>5. after = F(after)
      BY <1>8
    <2>6. QED
      BY <1>10, <2>4, <2>5
  <1>12. QED
    BY <1>9, <1>10, <1>11 DEF Trace, m

\* Texts that begin in the same way are read in the same way.
LEMMA TracesAgree ==
  ASSUME NEW r \in Reader, NEW t \in Seq(Char), NEW u \in Seq(Char), NEW a, NEW b,
         Trace(a, r, t), Trace(b, r, u), NEW k \in Nat,
         k <= Len(t), k <= Len(u), \A n \in 1..k : t[n] = u[n]
  PROVE  \A n \in 0..k : a[n] = b[n]
  <1> DEFINE S == {n \in 0..k : a[n] = b[n]}
  <1>1. 0 \in S
    BY DEF Trace
  <1>2. ASSUME NEW n \in 1..k, n - 1 \in S PROVE n \in S
    <2>1. n \in 1..Len(t) /\ n \in 1..Len(u) /\ n \in 0..k
      BY LenProperties
    <2>2. a[n - 1] = b[n - 1] /\ t[n] = u[n]
      BY <1>2
    <2>3. a[n] = ReadChar(a[n - 1], t[n]) /\ b[n] = ReadChar(b[n - 1], u[n])
      BY <2>1 DEF Trace
    <2>4. QED
      BY <2>1, <2>2, <2>3
  <1> HIDE DEF S
  <1>3. \A n \in 0..k : n \in S
    BY <1>1, <1>2, InductionUpTo
  <1>4. QED
    BY <1>3 DEF S

LEMMA ReadIs ==
  ASSUME NEW r \in Reader, NEW t \in Seq(Char), NEW a, Trace(a, r, t)
  PROVE  Read(r, t) = a[Len(t)] /\ Read(r, t) \in Reader
  <1>1. PICK b : Trace(b, r, t) /\ Read(r, t) = b[Len(t)]
    BY ReadTrace
  <1>2. Len(t) \in Nat
    BY LenProperties
  <1>3. a[Len(t)] = b[Len(t)]
    <2> DEFINE k == Len(t)
    <2>1. k \in Nat /\ k <= Len(t) /\ \A n \in 1..k : t[n] = t[n]
      BY <1>2
    <2> HIDE DEF k
    <2>2. \A n \in 0..k : a[n] = b[n]
      BY <1>1, <2>1, TracesAgree
    <2>3. k \in 0..k
      BY <2>1
    <2>4. QED
      BY <2>2, <2>3 DEF k
  <1>4. b[Len(t)] \in Reader
    BY <1>1, <1>2 DEF Trace
  <1>5. QED
    BY <1>1, <1>3, <1>4

LEMMA ReadNothing == \A r \in Reader : Read(r, <<>>) = r
  <1> SUFFICES ASSUME NEW r \in Reader PROVE Read(r, <<>>) = r
    OBVIOUS
  <1> DEFINE a == [n \in 0..0 |-> r]
  <1>1. <<>> \in Seq(Char) /\ Len(<<>>) = 0
    OBVIOUS
  <1>2. Trace(a, r, <<>>) /\ a[0] = r
    BY <1>1 DEF Trace
  <1> HIDE DEF a
  <1>3. Read(r, <<>>) = a[Len(<<>>)]
    BY <1>1, <1>2, ReadIs, Zenon
  <1>4. QED
    BY <1>1, <1>2, <1>3

\* One text after another.
LEMMA ReadConcat ==
  ASSUME NEW r \in Reader, NEW t \in Seq(Char), NEW u \in Seq(Char)
  PROVE  Read(r, t \o u) = Read(Read(r, t), u)
  <1> DEFINE q == Read(r, t)
             k == Len(t)
             l == Len(u)
  <1>1. PICK a : Trace(a, r, t) /\ q = a[k]
    BY ReadTrace
  <1>2. q \in Reader
    BY <1>1, ReadIs
  <1> HIDE DEF q
  <1>3. PICK b : Trace(b, q, u) /\ Read(q, u) = b[l]
    BY <1>2, ReadTrace
  <1>4. k \in Nat /\ l \in Nat
    BY LenProperties
  <1>5. /\ t \o u \in Seq(Char) /\ Len(t \o u) = k + l
        /\ \A i \in 1..(k + l) : (t \o u)[i] = IF i <= k THEN t[i] ELSE u[i - k]
    BY ConcatProperties
  <1>6. /\ a \in [0..k -> Reader] /\ a[0] = r
        /\ \A n \in 1..k : a[n] = ReadChar(a[n - 1], t[n])
    BY <1>1 DEF Trace
  <1>7. /\ b \in [0..l -> Reader] /\ b[0] = q
        /\ \A n \in 1..l : b[n] = ReadChar(b[n - 1], u[n])
    BY <1>3 DEF Trace
  <1> HIDE DEF k, l
  <1> DEFINE c == [n \in 0..(k + l) |-> IF n <= k THEN a[n] ELSE b[n - k]]
             v == t \o u
  <1>8. c \in [0..(k + l) -> Reader] /\ c[0] = r /\ c[k] = q
    BY <1>1, <1>4, <1>6, <1>7
  <1>9. c[k + l] = b[l]
    <2>1. CASE l = 0
      BY <1>1, <1>4, <1>7, <2>1
    <2>2. CASE l # 0
      BY <1>4, <2>2
    <2>3. QED
      BY <2>1, <2>2
  <1>10. ASSUME NEW n \in 1..(k + l) PROVE c[n] = ReadChar(c[n - 1], v[n])
    <2> HIDE DEF v
    <2>1. CASE n <= k
      <3>1. n \in 1..k /\ n - 1 \in 0..k /\ c[n] = a[n] /\ c[n - 1] = a[n - 1]
        BY <1>4, <2>1
      <3>2. v[n] = t[n]
        BY <1>5, <2>1 DEF v
      <3> HIDE DEF c
      <3>3. QED
        BY <1>6, <3>1, <3>2
    <2>2. CASE n > k
      <3>1. n - k \in 1..l /\ c[n] = b[n - k] /\ (n - k) - 1 = (n - 1) - k
        BY <1>4, <2>2
      <3>2. v[n] = u[n - k]
        BY <1>4, <1>5, <2>2 DEF v
      <3>3. c[n - 1] = b[(n - k) - 1]
        <4>1. CASE n = k + 1
          BY <1>1, <1>4, <1>7, <4>1
        <4>2. CASE n # k + 1
          BY <1>4, <2>2, <4>2
        <4>3. QED
          BY <4>1, <4>2
      <3>4. b[n - k] = ReadChar(b[(n - k) - 1], u[n - k])
        BY <1>7, <3>1
      <3> HIDE DEF c
      <3>5. QED
        BY <3>1, <3>2, <3>3, <3>4
    <2>3. QED
      BY <1>4, <2>1, <2>2
  <1> HIDE DEF c, v
  <1>11. v \in Seq(Char) /\ Len(v) = k + l
    BY <1>5 DEF v
  <1>12. Trace(c, r, v)
    BY <1>8, <1>10, <1>11 DEF Trace
  <1>13. Read(r, v) = c[k + l]
    BY <1>11, <1>12, ReadIs
  <1>14. QED
    BY <1>3, <1>9, <1>13 DEF v, q

LEMMA ReadType ==
  ASSUME NEW r \in Reader, NEW t \in Seq(Char)
  PROVE  Read(r, t) \in Reader
  BY ReadTrace, ReadIs

LEMMA ReadOne ==
  ASSUME NEW r \in Reader, NEW c \in Char
  PROVE  Read(r, <<c>>) = ReadChar(r, c)
  <1> DEFINE a == [n \in 0..1 |-> IF n = 0 THEN r ELSE ReadChar(r, c)]
  <1>1. <<c>> \in Seq(Char) /\ Len(<<c>>) = 1 /\ <<c>>[1] = c
    OBVIOUS
  <1>2. a \in [0..1 -> Reader] /\ a[0] = r /\ a[1] = ReadChar(r, c)
    BY ReadCharType
  <1> HIDE DEF a
  <1>3. Trace(a, r, <<c>>)
    BY <1>1, <1>2 DEF Trace
  <1>4. QED
    BY <1>1, <1>2, <1>3, ReadIs

-----------------------------------------------------------------------------
(* CsvFile: what the reader makes of a field *)

LEMMA EscapeSteps ==
  ASSUME NEW val \in Seq(Char)
  PROVE  \E e : /\ e \in [0..Len(val) -> Seq(Char)]
                /\ e[0] = <<Quote>>
                /\ \A n \in 1..Len(val) : e[n] = e[n - 1] \o Escaped(val[n])
                /\ escape(val) = e[Len(val)] \o <<Quote>>
  <1> DEFINE m == Len(val)
             f == [n \in 1..m |-> [s \in Seq(Char) |-> s \o Escaped(val[n])]]
             F(g) == [n \in 0..m |-> IF n = 0 THEN <<Quote>>
                                     ELSE g[n - 1] \o Escaped(val[n])]
             result == CHOOSE g : g = F(g)
  <1>1. m \in Nat /\ \A n \in 1..m : val[n] \in Char
    BY LenProperties
  <1>2. \A n \in 1..m : Escaped(val[n]) \in Seq(Char)
    BY <1>1, Special DEF Escaped
  <1>3. f \in [1..m -> [Seq(Char) -> Seq(Char)]]
    BY <1>2
  <1>4. \A n \in 1..m : \A s \in Seq(Char) : f[n][s] = s \o Escaped(val[n])
    OBVIOUS
  <1> HIDE DEF f, m
  <1>5. <<Quote>> \in Seq(Char)
    BY Special
  <1>6. PICK g : /\ g \in [0..m -> Seq(Char)] /\ g[0] = <<Quote>>
                 /\ \A n \in 1..m : g[n] = f[n][g[n - 1]]
    <2>1. PICK g : Iterates(g, Seq(Char), <<Quote>>, m, f)
      BY <1>1, <1>3, <1>5, Recursion
    <2>2. QED
      BY <2>1 DEF Iterates
  <1>7. ASSUME NEW n \in 1..m PROVE g[n] = g[n - 1] \o Escaped(val[n])
    <2>1. n - 1 \in 0..m
      BY <1>1
    <2>2. g[n - 1] \in Seq(Char) /\ g[n] = f[n][g[n - 1]]
      BY <1>6, <2>1
    <2>3. QED
      BY <1>4, <2>2
  <1>8. \A n \in 0..m : g[n] = IF n = 0 THEN <<Quote>> ELSE g[n - 1] \o Escaped(val[n])
    <2> SUFFICES ASSUME NEW n \in 0..m
                 PROVE  g[n] = IF n = 0 THEN <<Quote>> ELSE g[n - 1] \o Escaped(val[n])
      OBVIOUS
    <2>1. n # 0 => n \in 1..m
      BY <1>1
    <2>2. QED
      BY <1>6, <1>7, <2>1
  <1>9. g = F(g)
    BY <1>6, <1>8
  <1>10. result = F(result)
    <2> HIDE DEF F
    <2>1. QED
      BY <1>9, Zenon
  <1>11. escape(val) = result[m] \o <<Quote>>
    BY DEF escape, m
  <1> HIDE DEF result
  <1>12. DOMAIN result = 0..m /\ result[0] = <<Quote>>
         /\ \A n \in 1..m : result[n] = result[n - 1] \o Escaped(val[n])
    <2>1. 0 \in 0..m /\ \A n \in 1..m : n \in 0..m /\ n # 0
      BY <1>1
    <2>2. QED
      BY <1>10, <2>1
  <1>13. ASSUME NEW n \in 0..m PROVE result[n] = g[n]
    <2> DEFINE S == {k \in 0..m : result[k] = g[k]}
    <2>1. 0 \in S
      <3>1. 0 \in 0..m /\ result[0] = g[0]
        BY <1>1, <1>6, <1>12
      <3>2. QED
        BY <3>1
    <2>2. ASSUME NEW k \in 1..m, k - 1 \in S PROVE k \in S
      <3>1. result[k] = result[k - 1] \o Escaped(val[k]) /\ k \in 0..m
        BY <1>1, <1>12
      <3>2. QED
        BY <1>7, <2>2, <3>1
    <2> HIDE DEF S
    <2>3. \A k \in 0..m : k \in S
      BY <1>1, <2>1, <2>2, InductionUpTo
    <2>4. QED
      BY <2>3 DEF S
  <1>14. m \in 0..m
    BY <1>1
  <1>15. escape(val) = g[m] \o <<Quote>>
    BY <1>11, <1>13, <1>14
  <1>16. QED
    BY <1>6, <1>7, <1>15 DEF m

\* It undoes escape(): at the quote that ends it, it has the string.
LEMMA ReadsEscaped ==
  ASSUME NEW r \in Reader, r.at \in {"row", "field"}, r.text = <<>>,
         NEW val \in Seq(Char)
  PROVE  /\ escape(val) \in Seq(Char)
         /\ Read(r, escape(val)) = [r EXCEPT !.text = val, !.at = "quote"]
  <1> DEFINE m == Len(val)
             Inside(n) == [r EXCEPT !.text = SubSeq(val, 1, n), !.at = "quoted"]
  <1>1. m \in Nat /\ \A n \in 1..m : val[n] \in Char
    BY LenProperties
  <1>2. PICK e : /\ e \in [0..m -> Seq(Char)] /\ e[0] = <<Quote>>
                 /\ \A n \in 1..m : e[n] = e[n - 1] \o Escaped(val[n])
                 /\ escape(val) = e[m] \o <<Quote>>
    BY EscapeSteps
  <1>3. ASSUME NEW n \in 0..m
        PROVE  /\ SubSeq(val, 1, n) \in Seq(Char)
               /\ n # 0 => SubSeq(val, 1, n) = Append(SubSeq(val, 1, n - 1), val[n])
    <2>1. SubSeq(val, 1, n) \in Seq(Char) /\ SubSeq(val, 1, n - 1) \in Seq(Char)
      BY <1>1, SubSeqProperties
    <2>2. CASE n # 0
      <3>1. 1 \in 1..Len(val) /\ n \in 1..Len(val)
        BY <1>1, <2>2
      <3>2. SubSeq(val, 1, n) = SubSeq(val, 1, n - 1) \o <<val[n]>>
        BY <3>1, SubSeqRecursiveSecond
      <3>3. QED
        BY <2>1, <3>2
    <2>3. QED
      BY <2>1, <2>2
  <1>4. \A n \in 0..m : Inside(n) \in Reader
    BY <1>3 DEF Reader
  <1> HIDE DEF m
  <1>5. <<Quote>> \in Seq(Char)
    BY Special
  <1>6. \A n \in 0..m : Read(r, e[n]) = Inside(n)
    <2> DEFINE S == {n \in 0..m : Read(r, e[n]) = Inside(n)}
    <2>1. 0 \in S
      <3>1. Read(r, <<Quote>>) = ReadChar(r, Quote)
        BY SMTT(60), Special, ReadOne
      <3>2. ReadChar(r, Quote) = [r EXCEPT !.at = "quoted"]
        BY ZenonT(60), Special, ReadCharIs
      <3>3. SubSeq(val, 1, 0) = <<>>
        BY SubSeqEmpty
      <3>4. Inside(0) = [r EXCEPT !.at = "quoted"]
        BY <3>3 DEF Reader
      <3>5. Read(r, e[0]) = Inside(0) /\ 0 \in 0..m
        BY <1>1, <1>2, <3>1, <3>2, <3>4
      <3> HIDE DEF Inside
      <3>6. QED
        BY <3>5
    <2>2. ASSUME NEW n \in 1..m, n - 1 \in S PROVE n \in S
      <3> DEFINE q == Inside(n - 1)
                 c == val[n]
      <3>1. /\ n - 1 \in 0..m /\ n \in 0..m /\ n # 0 /\ c \in Char
            /\ e[n - 1] \in Seq(Char) /\ e[n] = e[n - 1] \o Escaped(c)
            /\ Read(r, e[n - 1]) = q
        <4>1. n - 1 \in 0..m /\ n \in 0..m /\ n # 0
          BY <1>1
        <4>2. c \in Char /\ e[n - 1] \in Seq(Char) /\ e[n] = e[n - 1] \o Escaped(c)
          BY <1>1, <1>2, <4>1
        <4>3. Read(r, e[n - 1]) = q
          BY <2>2
        <4>4. QED
          BY <4>1, <4>2, <4>3
      <3>2. /\ q \in Reader /\ q.at = "quoted" /\ q.text = SubSeq(val, 1, n - 1)
            /\ Append(q.text, c) = SubSeq(val, 1, n)
            /\ [q EXCEPT !.text = Append(q.text, c)] = Inside(n)
        <4>1. q \in Reader
          BY <1>4, <3>1
        <4>2. q.at = "quoted" /\ q.text = SubSeq(val, 1, n - 1)
          BY DEF Reader
        <4>3. Append(q.text, c) = SubSeq(val, 1, n)
          BY <1>3, <3>1, <4>2
        <4>4. QED
          BY <4>1, <4>2, <4>3 DEF Reader
      <3> HIDE DEF q
      <3>3. Escaped(c) \in Seq(Char)
        BY <3>1, Special DEF Escaped
      <3>4. Read(r, e[n]) = Read(q, Escaped(c))
        BY <3>1, <3>3, ReadConcat
      <3>5. CASE c = Quote
        <4> DEFINE o == [q EXCEPT !.at = "quote"]
        <4>1. Escaped(c) = <<Quote>> \o <<Quote>>
          BY <3>5 DEF Escaped
        <4>2. Read(q, <<Quote>>) = o
          <5>1. Read(q, <<Quote>>) = ReadChar(q, Quote)
            BY <3>2, Special, ReadOne
          <5>2. QED
            BY ZenonT(60), <3>2, <5>1, Special, ReadCharIs
        <4>3. o \in Reader /\ o.at = "quote" /\ o.text = q.text
          BY <3>2 DEF Reader
        <4>4. [o EXCEPT !.text = Append(o.text, c), !.at = "quoted"] = Inside(n)
          BY <3>2, <4>3 DEF Reader
        <4> HIDE DEF o
        <4>5. Read(o, <<Quote>>) = Inside(n)
          <5>1. Read(o, <<Quote>>) = ReadChar(o, Quote)
            BY SMTT(60), <4>3, Special, ReadOne
          <5>2. ReadChar(o, Quote) =
                  [o EXCEPT !.text = Append(o.text, Quote), !.at = "quoted"]
            BY ZenonT(60), <4>3, Special, ReadCharIs
          <5>3. QED
            BY <3>5, <4>4, <5>1, <5>2
        <4>6. Read(q, <<Quote>> \o <<Quote>>) = Read(Read(q, <<Quote>>), <<Quote>>)
          BY <1>5, <3>2, ReadConcat
        <4>7. QED
          BY ZenonT(60), <3>1, <3>4, <4>1, <4>2, <4>5, <4>6
      <3>6. CASE c # Quote
        <4>1. Escaped(c) = <<c>>
          BY <3>6 DEF Escaped
        <4>2. Read(q, <<c>>) = ReadChar(q, c)
          BY SMTT(60), <3>1, <3>2, ReadOne
        <4>3. ReadChar(q, c) = [q EXCEPT !.text = Append(q.text, c)]
          BY ZenonT(60), <3>1, <3>2, <3>6, ReadCharIs
        <4>4. QED
          BY <3>1, <3>2, <3>4, <4>1, <4>2, <4>3
      <3>7. QED
        BY <3>5, <3>6
    <2> HIDE DEF S
    <2>3. \A n \in 0..m : n \in S
      BY <1>1, <2>1, <2>2, InductionUpTo
    <2>4. QED
      BY <2>3 DEF S
  <1>7. m \in 0..m /\ e[m] \in Seq(Char)
    BY <1>1, <1>2
  <1> DEFINE q == Inside(m)
  <1>8. /\ q \in Reader /\ q.at = "quoted"
        /\ [q EXCEPT !.at = "quote"] = [r EXCEPT !.text = val, !.at = "quote"]
    <2>1. SubSeq(val, 1, m) = val
      BY SubSeqFull DEF m
    <2>2. QED
      BY <1>4, <1>7, <2>1 DEF Reader
  <1>9. Read(r, e[m]) = q
    BY <1>6, <1>7
  <1> HIDE DEF q
  <1>10. Read(q, <<Quote>>) = [q EXCEPT !.at = "quote"]
    <2>1. Read(q, <<Quote>>) = ReadChar(q, Quote)
      BY <1>8, Special, ReadOne
    <2>2. QED
      BY ZenonT(60), <1>8, <2>1, Special, ReadCharIs
  <1>11. Read(r, e[m] \o <<Quote>>) = Read(Read(r, e[m]), <<Quote>>)
    BY <1>5, <1>7, ReadConcat
  <1>12. escape(val) \in Seq(Char)
    BY <1>2, <1>5, <1>7, ConcatProperties
  <1>13. QED
    BY <1>2, <1>8, <1>9, <1>10, <1>11, <1>12

\* The reader behind the text s of a field, at w.
At(r, s, w) == [r EXCEPT !.text = s, !.at = w]

LEMMA SameButText ==
  ASSUME NEW r \in Reader, NEW q \in Reader, r.rows = q.rows, r.fields = q.fields,
         NEW s \in Seq(Char), NEW w \in {"plain", "quote"}
  PROVE  At(r, s, w) = At(q, s, w)
  BY DEF Reader, At

\* A number has no character the reader or the writer knows.
LEMMA ReadsNumber ==
  ASSUME NEW r \in Reader, r.at \in {"row", "field"}, r.text = <<>>,
         NEW val \in Numbers
  PROVE  /\ val \in Seq(Char)
         /\ Read(r, val) = [r EXCEPT !.text = val, !.at = "plain"]
  <1> DEFINE m == Len(val)
             Inside(n) == [r EXCEPT !.text = SubSeq(val, 1, n), !.at = "plain"]
  <1>1. /\ val \in Seq(Char) /\ val # <<>>
        /\ \A n \in 1..m :
             val[n] \in Char /\ val[n] \notin {Quote, Separator, Newline}
    <2>1. val \in Seq(Char) /\ val # <<>> /\ ToSet(val) \cap {Quote, Separator, Newline} = {}
      BY CsvFileAssumption
    <2>2. \A n \in 1..m : val[n] \in Char /\ val[n] \in ToSet(val)
      BY <2>1, LenProperties DEF ToSet
    <2>3. QED
      BY <2>1, <2>2
  <1>2. m \in Nat \ {0}
    BY <1>1, EmptySeq
  <1>3. ASSUME NEW n \in 1..m
        PROVE  /\ SubSeq(val, 1, n) \in Seq(Char) /\ SubSeq(val, 1, n - 1) \in Seq(Char)
               /\ SubSeq(val, 1, n) = Append(SubSeq(val, 1, n - 1), val[n])
    <2>1. SubSeq(val, 1, n) \in Seq(Char) /\ SubSeq(val, 1, n - 1) \in Seq(Char)
      BY <1>1, SubSeqProperties
    <2>2. 1 \in 1..Len(val) /\ n \in 1..Len(val)
      BY <1>2
    <2>3. SubSeq(val, 1, n) = SubSeq(val, 1, n - 1) \o <<val[n]>>
      BY <1>1, <2>2, SubSeqRecursiveSecond
    <2>4. QED
      BY <2>1, <2>3
  <1>4. PICK a : Trace(a, r, val) /\ Read(r, val) = a[m]
    BY <1>1, ReadTrace
  <1>5. /\ a \in [0..m -> Reader] /\ a[0] = r
        /\ \A n \in 1..m : a[n] = ReadChar(a[n - 1], val[n])
    BY <1>4 DEF Trace
  <1> HIDE DEF m
  <1> DEFINE S == {n \in 0..m : a[n] = IF n = 0 THEN r ELSE Inside(n)}
  <1>6. 0 \in S
    BY <1>2, <1>5
  <1>7. ASSUME NEW n \in 1..m, n - 1 \in S PROVE n \in S
    <2> DEFINE q == a[n - 1]
               c == val[n]
    <2>1. n \in 0..m /\ n # 0 /\ n - 1 \in 0..m /\ q \in Reader /\ a[n] = ReadChar(q, c)
          /\ c \in Char /\ c \notin {Quote, Separator, Newline}
      BY <1>1, <1>2, <1>5
    <2>2. /\ q.at \in {"row", "field", "plain"} /\ q.text = SubSeq(val, 1, n - 1)
          /\ q.rows = r.rows /\ q.fields = r.fields
      <3>1. CASE n - 1 = 0
        <4>1. q = r /\ SubSeq(val, 1, n - 1) = <<>>
          BY <1>7, <3>1, SubSeqEmpty
        <4>2. QED
          BY <4>1
      <3>2. CASE n - 1 # 0
        <4>1. q = Inside(n - 1)
          BY <1>7, <3>2
        <4>2. QED
          BY <4>1 DEF Reader
      <3>3. QED
        BY <3>1, <3>2
    <2> HIDE DEF q, c
    <2>3. a[n] = [q EXCEPT !.text = Append(q.text, c), !.at = "plain"]
      BY ZenonT(60), <2>1, <2>2, ReadCharIs
    <2>4. Append(q.text, c) = SubSeq(val, 1, n)
      BY <1>3, <2>2 DEF c
    <2>5. a[n] = Inside(n)
      <3> DEFINE s == SubSeq(val, 1, n)
      <3>1. a[n] = [q EXCEPT !.text = s, !.at = "plain"]
        BY <2>3, <2>4
      <3> HIDE DEF s
      <3>2. s \in Seq(Char)
        BY <1>3 DEF s
      <3> HIDE DEF s
      <3>3. q \in Reader /\ r.rows = q.rows /\ r.fields = q.fields
        BY <2>1, <2>2
      <3>4. At(r, s, "plain") = At(q, s, "plain")
        BY <3>2, <3>3, SameButText
      <3>5. QED
        BY <3>1, <3>4 DEF s, At
    <2>6. QED
      BY <2>1, <2>5
  <1> HIDE DEF S
  <1>8. \A n \in 0..m : n \in S
    BY <1>2, <1>6, <1>7, InductionUpTo
  <1>9. m \in 0..m /\ m # 0
    BY <1>2
  <1>10. a[m] = Inside(m)
    BY <1>8, <1>9 DEF S
  <1>11. SubSeq(val, 1, m) = val
    BY <1>1, SubSeqFull DEF m
  <1>12. QED
    BY <1>1, <1>4, <1>10, <1>11

-----------------------------------------------------------------------------
(* CsvFile: rows stay read *)

\* IsPrefix, element by element.
Begins(s, t) == Len(s) <= Len(t) /\ \A i \in 1..Len(s) : t[i] = s[i]

LEMMA BeginsIsPrefix ==
  ASSUME NEW S, NEW s \in Seq(S), NEW t \in Seq(S), Begins(s, t)
  PROVE  IsPrefix(s, t)
  <1> DEFINE n == Len(s)
             u == SubSeq(t, 1, n)
  <1>1. n \in Nat /\ n <= Len(t) /\ \A i \in 1..n : s[i] \in S /\ t[i] = s[i]
    BY LenProperties DEF Begins
  <1>2. u \in Seq(S) /\ Len(u) = n /\ \A i \in 1..n : u[i] = t[i]
    <2>1. 1 \in Int /\ n \in Int /\ \A i \in 1..n : t[i] \in S
      BY <1>1
    <2> HIDE DEF n
    <2>2. /\ u \in Seq(S) /\ Len(u) = (IF 1 <= n THEN n - 1 + 1 ELSE 0)
          /\ \A i \in 1..(n - 1 + 1) : u[i] = t[1 + i - 1]
      BY <2>1, SubSeqProperties
    <2>3. QED
      BY <1>1, <2>2
  <1>3. s = u
    <2>1. Len(s) = Len(u) /\ \A i \in 1..Len(s) : s[i] = u[i]
      BY <1>1, <1>2
    <2> HIDE DEF u
    <2>2. QED
      BY <1>2, <2>1, SeqEqual
  <1>4. SubSeq(s, 1, n) = s
    BY SubSeqFull
  <1>5. QED
    BY <1>1, <1>3, <1>4 DEF IsPrefix

LEMMA BeginsTransitive ==
  ASSUME NEW S, NEW s \in Seq(S), NEW t \in Seq(S), NEW u \in Seq(S),
         Begins(s, t), Begins(t, u)
  PROVE  Begins(s, u)
  <1>1. Len(s) \in Nat /\ Len(t) \in Nat /\ Len(u) \in Nat
    BY LenProperties
  <1>2. QED
    BY <1>1 DEF Begins

LEMMA ReadKeepsRows ==
  ASSUME NEW r \in Reader, NEW t \in Seq(Char)
  PROVE  Begins(r.rows, Read(r, t).rows)
  <1> DEFINE m == Len(t)
             Row == Seq(Seq(Char))
  <1>1. PICK a : Trace(a, r, t) /\ Read(r, t) = a[m]
    BY ReadTrace
  <1>2. m \in Nat /\ \A n \in 1..m : t[n] \in Char
    BY LenProperties
  <1>3. /\ a \in [0..m -> Reader] /\ a[0] = r
        /\ \A n \in 1..m : a[n] = ReadChar(a[n - 1], t[n])
    BY <1>1 DEF Trace
  <1> HIDE DEF m
  <1>4. \A q \in Reader : q.rows \in Seq(Row)
    BY DEF Reader
  <1> DEFINE S == {n \in 0..m : Begins(r.rows, a[n].rows)}
  <1>5. 0 \in S
    <2>1. Len(r.rows) \in Nat
      BY <1>4, LenProperties
    <2>2. QED
      BY <1>2, <1>3, <2>1 DEF Begins
  <1>6. ASSUME NEW n \in 1..m, n - 1 \in S PROVE n \in S
    <2> DEFINE q == a[n - 1]
               w == a[n].rows
    <2>1. n \in 0..m /\ n - 1 \in 0..m /\ q \in Reader /\ a[n] \in Reader
          /\ t[n] \in Char /\ a[n] = ReadChar(q, t[n])
      BY <1>2, <1>3
    <2>2. Begins(r.rows, q.rows)
      BY <1>6
    <2>3. r.rows \in Seq(Row) /\ q.rows \in Seq(Row) /\ w \in Seq(Row)
      BY <1>4, <2>1
    <2> HIDE DEF q
    <2>4. w = q.rows \/ \E v : w = Append(q.rows, v)
      <3> DEFINE c == t[n]
      <3>1. c \in Char /\ a[n] = ReadChar(q, c)
        BY <2>1
      <3> HIDE DEF c
      <3>2. ReadChar(q, c).rows = q.rows \/ \E v : ReadChar(q, c).rows = Append(q.rows, v)
        BY <2>1, <3>1, ReadCharIs, Zenon
      <3>3. QED
        BY <3>1, <3>2
    <2> HIDE DEF w, Row
    <2>5. Begins(q.rows, w)
      <3>1. Len(q.rows) \in Nat
        BY <2>3, LenProperties
      <3>2. CASE w = q.rows
        BY <3>1, <3>2 DEF Begins
      <3>3. CASE \E v : w = Append(q.rows, v)
        BY <2>3, <3>1, <3>3 DEF Begins
      <3>4. QED
        BY <2>4, <3>2, <3>3
    <2>6. Begins(r.rows, w)
      BY <2>2, <2>3, <2>5, BeginsTransitive
    <2>7. QED
      BY <2>1, <2>6 DEF w
  <1> HIDE DEF S
  <1>7. \A n \in 0..m : n \in S
    BY <1>2, <1>5, <1>6, InductionUpTo
  <1>8. m \in 0..m
    BY <1>2
  <1>9. QED
    BY <1>1, <1>7, <1>8 DEF S

-----------------------------------------------------------------------------
(* CsvFile: the stream loses and repeats nothing *)

LEMMA TextsAssociate ==
  \A s, t, u \in Seq(Char) : (s \o t) \o u = s \o (t \o u)
  BY ConcatAssociative

LEMMA PutIs ==
  ASSUME disk \in Seq(Char), buf \in Seq(Char), NEW text \in Seq(Char), Put(text)
  PROVE  /\ disk' \in Seq(Char) /\ buf' \in Seq(Char)
         /\ disk' \o buf' = (disk \o buf) \o text
         /\ \E part \in Seq(Char) : disk' = disk \o part
  <1> DEFINE all == buf \o text
             m == Len(all)
  <1>1. all \in Seq(Char)
    BY ConcatProperties
  <1> HIDE DEF all
  <1>2. m \in Nat /\ \A i \in 1..m : all[i] \in Char
    BY <1>1, LenProperties
  <1>3. PICK n \in 0..m : /\ disk' = disk \o SubSeq(all, 1, n)
                          /\ buf' = SubSeq(all, n + 1, m)
    BY DEF Put, all
  <1> DEFINE s == SubSeq(all, 1, n)
             u == SubSeq(all, n + 1, m)
  <1>4. s \in Seq(Char)
    BY <1>2, SubSeqProperties
  <1>5. u \in Seq(Char)
    BY <1>2, SubSeqProperties
  <1>6. s \o u = all
    <2>1. 1 \in 1..(m + 1) /\ n \in (1 - 1)..m /\ m \in n..m
      BY <1>2
    <2>2. s \o u = SubSeq(all, 1, m)
      BY <1>1, <2>1, ConcatAdjacentSubSeq
    <2>3. QED
      BY <1>1, <2>2, SubSeqFull
  <1> HIDE DEF s, u
  <1>7. (disk \o s) \o u = disk \o (s \o u)
    <2>1. disk \in Seq(Char) /\ s \in Seq(Char) /\ u \in Seq(Char)
      BY <1>4, <1>5
    <2>2. QED
      BY ZenonT(60), <2>1, TextsAssociate
  <1>8. (disk \o buf) \o text = disk \o (buf \o text)
    BY TextsAssociate
  <1>9. disk \o s \in Seq(Char)
    BY <1>4, ConcatProperties
  <1>10. disk' = disk \o s /\ buf' = u
    BY <1>3 DEF s, u
  <1>11. disk' \o buf' = (disk \o buf) \o text
    BY <1>6, <1>7, <1>8, <1>10 DEF all
  <1>12. QED
    BY <1>4, <1>5, <1>9, <1>10, <1>11

LEMMA PutAllIs ==
  ASSUME disk \in Seq(Char), buf \in Seq(Char), NEW text \in Seq(Char), PutAll(text)
  PROVE  /\ disk' \in Seq(Char) /\ buf' = <<>>
         /\ disk' = (disk \o buf) \o text
         /\ \E part \in Seq(Char) : disk' = disk \o part
  <1>1. disk' = (disk \o buf) \o text /\ buf' = <<>>
    BY DEF PutAll
  <1>2. buf \o text \in Seq(Char) /\ (disk \o buf) \o text = disk \o (buf \o text)
    BY ConcatProperties, TextsAssociate
  <1>3. disk \o (buf \o text) \in Seq(Char)
    BY <1>2, ConcatProperties
  <1>4. QED
    BY <1>1, <1>2, <1>3

LEMMA PutThrowsIs ==
  ASSUME disk \in Seq(Char), buf \in Seq(Char), NEW text \in Seq(Char), PutThrows(text)
  PROVE  /\ disk' \in Seq(Char) /\ buf' = <<>>
         /\ \E part \in Seq(Char) : disk' = disk \o part
         /\ writer' = "terminated" /\ UNCHANGED <<is_first_, rows, row>>
  <1> DEFINE all == buf \o text
             m == Len(all)
  <1>1. all \in Seq(Char)
    BY ConcatProperties
  <1> HIDE DEF all
  <1>2. m \in Nat /\ \A i \in 1..m : all[i] \in Char
    BY <1>1, LenProperties
  <1>3. /\ \E n \in 0..(m - 1) : disk' = disk \o SubSeq(all, 1, n)
        /\ buf' = <<>> /\ writer' = "terminated" /\ UNCHANGED <<is_first_, rows, row>>
    BY DEF PutThrows, all
  <1>4. PICK n \in 0..(m - 1) : disk' = disk \o SubSeq(all, 1, n)
    BY <1>3
  <1> DEFINE s == SubSeq(all, 1, n)
  <1>5. s \in Seq(Char)
    BY <1>2, SubSeqProperties
  <1> HIDE DEF s
  <1>6. disk \o s \in Seq(Char) /\ disk' = disk \o s
    BY <1>4, <1>5, ConcatProperties DEF s
  <1>7. QED
    BY <1>3, <1>5, <1>6

-----------------------------------------------------------------------------
(* CsvFile: the inductive invariant *)

CsvTypes ==
  /\ is_first_ \in BOOLEAN
  /\ buf \in Seq(Char) /\ disk \in Seq(Char)
  /\ rows \in Seq(Seq(Seq(Char))) /\ row \in Seq(Seq(Char))

\* r has all the rows that were ended, and the fields of the next one.
Has(r) ==
  /\ r.rows = rows
  /\ IF is_first_
       THEN r.at = "row" /\ r.fields = <<>> /\ r.text = <<>> /\ row = <<>>
       ELSE r.at \in {"plain", "quote"} /\ row = Append(r.fields, r.text)

CsvInv ==
  /\ CsvTypes
  /\ Begins(rows, ReadFile.rows)
  /\ writer \in {"open", "writing", "closed"} => Has(Read(Start, disk \o buf))
  /\ writer = "closed" => buf = <<>>

LEMMA StartIsReader == Start \in Reader
  BY DEF Start, Reader

LEMMA CsvInitHolds == CsvInit => CsvInv
  <1> SUFFICES ASSUME CsvInit PROVE CsvInv
    OBVIOUS
  <1>1. /\ is_first_ = TRUE /\ buf = <<>> /\ disk = <<>>
        /\ writer = "open" /\ rows = <<>> /\ row = <<>>
    BY DEF CsvInit
  <1>2. CsvTypes
    BY <1>1 DEF CsvTypes
  <1>3. Read(Start, <<>>) = Start
    BY StartIsReader, ReadNothing
  <1>4. Start = [rows |-> <<>>, fields |-> <<>>, text |-> <<>>, at |-> "row"]
    BY DEF Start
  <1>5. Begins(<<>>, <<>>)
    BY DEF Begins
  <1>6. ReadFile = Start
    BY <1>1, <1>3 DEF ReadFile
  <1>7. Begins(rows, ReadFile.rows)
    BY <1>1, <1>4, <1>5, <1>6
  <1>8. disk \o buf = <<>>
    BY <1>1
  <1>9. Has(Read(Start, disk \o buf))
    BY <1>1, <1>3, <1>4, <1>8 DEF Has
  <1>10. QED
    BY <1>1, <1>2, <1>7, <1>9 DEF CsvInv

\* What is added to the file takes no row away.
LEMMA FileGrows ==
  ASSUME CsvTypes, Begins(rows, ReadFile.rows),
         NEW part \in Seq(Char), disk' = disk \o part
  PROVE  Begins(rows, ReadFile'.rows)
  <1> DEFINE r == Read(Start, disk)
             q == Read(r, part)
  <1>1. disk \in Seq(Char) /\ rows \in Seq(Seq(Seq(Char)))
    BY DEF CsvTypes
  <1>2. Read(Start, disk \o part) = q /\ r \in Reader
    BY <1>1, StartIsReader, ReadConcat, ReadType
  <1>3. ReadFile = r /\ ReadFile' = Read(Start, disk')
    BY DEF ReadFile
  <1> HIDE DEF r
  <1>4. q \in Reader /\ Begins(r.rows, q.rows)
    BY <1>2, ReadType, ReadKeepsRows
  <1> HIDE DEF q
  <1>5. r.rows \in Seq(Seq(Seq(Char))) /\ q.rows \in Seq(Seq(Seq(Char)))
    BY <1>2, <1>4 DEF Reader
  <1>6. Begins(rows, q.rows)
    BY <1>1, <1>3, <1>4, <1>5, BeginsTransitive
  <1>7. QED
    BY <1>2, <1>3, <1>6

\* A field's text, in front of which a reader that starts a field has its value.
IsText(text, val) ==
  /\ text \in Seq(Char) /\ val \in Seq(Char)
  /\ \A r \in Reader : r.at \in {"row", "field"} /\ r.text = <<>> =>
       \E w \in {"plain", "quote"} : Read(r, text) = At(r, val, w)

LEMMA StringsAreText ==
  ASSUME NEW val \in Texts
  PROVE  IsText(escape(val), val)
  <1>1. val \in Seq(Char)
    BY CsvFileAssumption
  <1>2. Start.at \in {"row", "field"} /\ Start.text = <<>>
    BY DEF Start
  <1>3. escape(val) \in Seq(Char)
    BY <1>1, <1>2, StartIsReader, ReadsEscaped
  <1>4. ASSUME NEW r \in Reader, r.at \in {"row", "field"}, r.text = <<>>
        PROVE  Read(r, escape(val)) = At(r, val, "quote")
    BY <1>1, <1>4, ReadsEscaped DEF At
  <1>5. QED
    BY <1>1, <1>3, <1>4 DEF IsText

LEMMA NumbersAreText ==
  ASSUME NEW val \in Numbers
  PROVE  IsText(val, val)
  <1>1. val \in Seq(Char)
    BY CsvFileAssumption
  <1>2. ASSUME NEW r \in Reader, r.at \in {"row", "field"}, r.text = <<>>
        PROVE  Read(r, val) = At(r, val, "plain")
    BY <1>2, ReadsNumber DEF At
  <1>3. QED
    BY <1>1, <1>2 DEF IsText

LEMMA SeparatedIs ==
  ASSUME CsvTypes, NEW r \in Reader, Has(r), NEW text, NEW val, IsText(text, val)
  PROVE  /\ Separated(text) \in Seq(Char)
         /\ \E q \in Reader : \E w \in {"plain", "quote"} :
              /\ q.rows = rows /\ q.fields = row
              /\ Read(r, Separated(text)) = At(q, val, w)
  <1>1. text \in Seq(Char) /\ val \in Seq(Char)
    BY DEF IsText
  <1>2. CASE is_first_
    <2>1. Separated(text) = text
      BY <1>2 DEF Separated
    <2>2. r.at = "row" /\ r.text = <<>> /\ r.rows = rows /\ r.fields = row
      BY <1>2 DEF Has
    <2>3. \E w \in {"plain", "quote"} : Read(r, text) = At(r, val, w)
      BY <2>2 DEF IsText
    <2>4. QED
      BY <1>1, <2>1, <2>2, <2>3
  <1>3. CASE ~is_first_
    <2> DEFINE q == [r EXCEPT !.fields = Append(r.fields, r.text),
                              !.text = <<>>, !.at = "field"]
    <2>1. <<Separator>> \in Seq(Char) /\ Separated(text) = <<Separator>> \o text
      BY <1>3, Special DEF Separated
    <2>2. r.at # "quoted" /\ r.rows = rows /\ Append(r.fields, r.text) = row
      BY SMTT(60), <1>3 DEF Has
    <2>3. ReadChar(r, Separator) = q
      BY ZenonT(60), <2>2, Special, ReadCharIs
    <2>4. q \in Reader
      BY <2>3, Special, ReadCharType
    <2>5. q.rows = rows /\ q.fields = row /\ q.at = "field" /\ q.text = <<>>
      BY <2>2 DEF Reader
    <2> HIDE DEF q
    <2>6. Read(r, <<Separator>>) = q
      BY <2>3, Special, ReadOne
    <2>7. Read(r, <<Separator>> \o text) = Read(q, text)
      BY <1>1, <2>1, <2>6, ReadConcat
    <2>8. <<Separator>> \o text \in Seq(Char)
      BY <1>1, <2>1, ConcatProperties
    <2>9. \E w \in {"plain", "quote"} : Read(q, text) = At(q, val, w)
      BY <2>4, <2>5 DEF IsText
    <2>10. QED
      BY <2>1, <2>4, <2>5, <2>7, <2>8, <2>9
  <1>4. QED
    BY <1>2, <1>3

\* A step that throws, or that ends the program.
LEMMA ThrowHolds ==
  ASSUME CsvInv, NEW text \in Seq(Char), PutThrows(text)
  PROVE  CsvInv'
  <1>1. CsvTypes /\ Begins(rows, ReadFile.rows)
    BY DEF CsvInv
  <1>2. /\ disk' \in Seq(Char) /\ buf' = <<>>
        /\ \E part \in Seq(Char) : disk' = disk \o part
        /\ writer' = "terminated" /\ UNCHANGED <<is_first_, rows, row>>
    BY <1>1, PutThrowsIs DEF CsvTypes
  <1>3. PICK part \in Seq(Char) : disk' = disk \o part
    BY <1>2
  <1>4. Begins(rows, ReadFile'.rows)
    BY <1>1, <1>3, FileGrows
  <1>5. Begins(rows, ReadFile.rows)'
    BY <1>2, <1>4
  <1>6. CsvTypes'
    BY <1>1, <1>2 DEF CsvTypes
  <1>7. QED
    BY <1>2, <1>5, <1>6 DEF CsvInv

LEMMA FieldHolds ==
  ASSUME CsvInv, NEW text, NEW val, IsText(text, val), Field(val, text)
  PROVE  CsvInv'
  <1> DEFINE r == Read(Start, disk \o buf)
  <1>1. CsvTypes /\ Begins(rows, ReadFile.rows) /\ Has(r) /\ writer = "writing"
    BY DEF CsvInv, Field
  <1>2. disk \in Seq(Char) /\ buf \in Seq(Char) /\ disk \o buf \in Seq(Char)
    BY <1>1, ConcatProperties DEF CsvTypes
  <1>3. r \in Reader
    BY <1>2, StartIsReader, ReadType
  <1> HIDE DEF r
  <1> DEFINE t == Separated(text)
  <1>4. t \in Seq(Char)
    BY <1>1, <1>3, SeparatedIs
  <1>5. PICK q \in Reader, w \in {"plain", "quote"} :
          q.rows = rows /\ q.fields = row /\ Read(r, t) = At(q, val, w)
    BY <1>1, <1>3, SeparatedIs
  <1>6. \/ /\ Put(t) /\ is_first_' = FALSE
           /\ row' = Append(row, val) /\ UNCHANGED <<writer, rows>>
        \/ PutThrows(t)
    BY DEF Field
  <1> HIDE DEF t
  <1>7. CASE PutThrows(t)
    BY <1>4, <1>7, ThrowHolds
  <1>8. CASE Put(t) /\ is_first_' = FALSE /\ row' = Append(row, val)
             /\ UNCHANGED <<writer, rows>>
    <2>1. /\ disk' \in Seq(Char) /\ buf' \in Seq(Char)
          /\ disk' \o buf' = (disk \o buf) \o t
          /\ \E part \in Seq(Char) : disk' = disk \o part
      BY <1>2, <1>4, <1>8, PutIs
    <2>2. PICK part \in Seq(Char) : disk' = disk \o part
      BY <2>1
    <2>3. Begins(rows, ReadFile'.rows)
      BY <1>1, <2>2, FileGrows
    <2>4. Begins(rows, ReadFile.rows)'
      BY <1>8, <2>3
    <2>5. val \in Seq(Char)
      BY DEF IsText
    <2>6. CsvTypes'
      <3>1. /\ is_first_' \in BOOLEAN /\ rows' = rows /\ row' = Append(row, val)
            /\ row \in Seq(Seq(Char)) /\ rows \in Seq(Seq(Seq(Char)))
        BY <1>1, <1>8 DEF CsvTypes
      <3>2. row' \in Seq(Seq(Char))
        BY <2>5, <3>1, AppendProperties
      <3>3. QED
        BY <2>1, <3>1, <3>2 DEF CsvTypes
    <2>7. Read(Start, disk' \o buf') = At(q, val, w)
      <3>1. Read(Start, (disk \o buf) \o t) = Read(r, t)
        BY ZenonT(60), <1>2, <1>4, StartIsReader, ReadConcat DEF r
      <3>2. QED
        BY <1>5, <2>1, <3>1
    <2> DEFINE o == At(q, val, w)
    <2>8. /\ o.rows = q.rows /\ o.fields = q.fields /\ o.text = val /\ o.at = w
      BY DEF At, Reader
    <2> HIDE DEF o
    <2>9. /\ o.rows = rows' /\ is_first_' = FALSE /\ o.at \in {"plain", "quote"}
          /\ row' = Append(o.fields, o.text)
      BY <1>5, <1>8, <2>8
    <2>10. Has(Read(Start, disk \o buf))'
      <3>1. Read(Start, disk' \o buf') = o
        BY <2>7 DEF o
      <3>2. QED
        BY <2>9, <3>1 DEF Has
    <2>11. writer' = "writing"
      BY <1>1, <1>8
    <2>12. QED
      BY <2>4, <2>6, <2>10, <2>11 DEF CsvInv
  <1>9. QED
    BY <1>6, <1>7, <1>8

LEMMA EndrowHolds ==
  ASSUME CsvInv, endrow
  PROVE  CsvInv'
  <1> DEFINE r == Read(Start, disk \o buf)
             q == [Start EXCEPT !.rows = Append(r.rows, FieldsOf(r))]
  <1>1. CsvTypes /\ Begins(rows, ReadFile.rows) /\ Has(r) /\ writer = "writing"
    BY DEF CsvInv, endrow
  <1>2. disk \in Seq(Char) /\ buf \in Seq(Char) /\ disk \o buf \in Seq(Char)
    BY <1>1, ConcatProperties DEF CsvTypes
  <1>3. r \in Reader
    BY <1>2, StartIsReader, ReadType
  <1>4. <<Newline>> \in Seq(Char)
    BY Special
  <1>5. \/ /\ PutAll(<<Newline>>) /\ is_first_' = TRUE
           /\ rows' = Append(rows, row) /\ row' = <<>> /\ UNCHANGED writer
        \/ PutThrows(<<Newline>>)
    BY DEF endrow, Line
  <1>6. CASE PutThrows(<<Newline>>)
    BY <1>4, <1>6, ThrowHolds
  <1>7. CASE /\ PutAll(<<Newline>>) /\ is_first_' = TRUE
             /\ rows' = Append(rows, row) /\ row' = <<>> /\ UNCHANGED writer
    <2>1. disk' \in Seq(Char) /\ buf' = <<>> /\ disk' = (disk \o buf) \o <<Newline>>
      BY <1>2, <1>4, <1>7, PutAllIs
    <2>2. Read(Start, disk') = Read(r, <<Newline>>)
      BY ZenonT(60), <1>2, <1>4, <2>1, StartIsReader, ReadConcat
    <2> HIDE DEF r
    <2>3. Read(r, <<Newline>>) = ReadChar(r, Newline)
      BY <1>3, Special, ReadOne
    <2>4. r.at # "quoted" /\ r.rows = rows /\ FieldsOf(r) = row
      BY SMTT(60), <1>1 DEF Has, FieldsOf
    <2>5. ReadChar(r, Newline) = q
      BY ZenonT(60), <1>3, <2>4, Special, ReadCharIs
    <2>6. /\ q.rows = rows' /\ q.at = "row" /\ q.fields = <<>> /\ q.text = <<>>
      BY <1>7, <2>4 DEF Start
    <2>7. CsvTypes'
      BY <1>1, <1>7, <2>1 DEF CsvTypes
    <2> HIDE DEF q
    <2>8. Read(Start, disk') = q
      BY <2>2, <2>3, <2>5
    <2>9. disk' \o buf' = disk'
      BY <2>1, ConcatEmptySeq
    <2>10. Has(Read(Start, disk \o buf))'
      BY <1>7, <2>6, <2>8, <2>9 DEF Has
    <2>11. Len(rows') \in Nat
      BY <2>7, LenProperties DEF CsvTypes
    <2>12. Begins(rows', rows')
      BY <2>11 DEF Begins
    <2>13. Begins(rows, ReadFile.rows)'
      BY <2>6, <2>8, <2>12 DEF ReadFile
    <2>14. QED
      BY <1>1, <1>7, <2>7, <2>10, <2>13 DEF CsvInv
  <1>8. QED
    BY <1>5, <1>6, <1>7

\* flush, with or without close.
LEMMA FlushHolds ==
  ASSUME CsvInv, writer = "writing", PutAll(<<>>), UNCHANGED <<is_first_, rows, row>>
  PROVE  CsvInv'
  <1>1. CsvTypes /\ Begins(rows, ReadFile.rows) /\ Has(Read(Start, disk \o buf))
    BY DEF CsvInv
  <1>2. /\ disk \in Seq(Char) /\ buf \in Seq(Char) /\ disk \o buf \in Seq(Char)
        /\ <<>> \in Seq(Char)
    BY <1>1, ConcatProperties DEF CsvTypes
  <1>3. /\ disk' \in Seq(Char) /\ buf' = <<>> /\ disk' = (disk \o buf) \o <<>>
        /\ \E part \in Seq(Char) : disk' = disk \o part
    BY <1>2, PutAllIs
  <1>4. disk' = disk \o buf /\ disk' \o buf' = disk'
    BY <1>2, <1>3, ConcatEmptySeq
  <1>5. PICK part \in Seq(Char) : disk' = disk \o part
    BY <1>3
  <1>6. Begins(rows, ReadFile'.rows)
    BY <1>1, <1>5, FileGrows
  <1>7. Begins(rows, ReadFile.rows)'
    BY <1>6
  <1>8. CsvTypes'
    BY <1>1, <1>3 DEF CsvTypes
  <1>9. Has(Read(Start, disk \o buf))'
    BY <1>1, <1>4 DEF Has
  <1>10. QED
    BY <1>3, <1>7, <1>8, <1>9 DEF CsvInv

LEMMA CsvNextHolds ==
  ASSUME CsvInv, [CsvNext]_csvVars
  PROVE  CsvInv'
  <1>0. <<>> \in Seq(Char)
    OBVIOUS
  <1>1. CASE Open
    BY <1>1 DEF CsvInv, CsvTypes, Has, Open, ReadFile
  <1>2. CASE WriteString
    <2>1. PICK val \in Texts : Field(val, escape(val))
      BY <1>2 DEF WriteString
    <2>2. QED
      BY <2>1, StringsAreText, FieldHolds
  <1>3. CASE WriteNumber
    <2>1. PICK val \in Numbers : Field(val, val)
      BY <1>3 DEF WriteNumber
    <2>2. QED
      BY <2>1, NumbersAreText, FieldHolds
  <1>4. CASE endrow
    BY <1>4, EndrowHolds
  <1>5. CASE flush
    <2>1. writer = "writing"
      BY <1>5 DEF flush
    <2>2. CASE PutThrows(<<>>)
      BY <1>0, <2>2, ThrowHolds
    <2>3. CASE PutAll(<<>>) /\ UNCHANGED <<is_first_, writer, rows, row>>
      BY <2>1, <2>3, FlushHolds
    <2>4. QED
      BY <1>5, <2>2, <2>3 DEF flush
  <1>6. CASE Close
    <2>1. writer = "writing"
      BY <1>6 DEF Close
    <2>2. CASE PutThrows(<<>>)
      BY <1>0, <2>2, ThrowHolds
    <2>3. CASE PutAll(<<>>) /\ UNCHANGED <<is_first_, rows, row>>
      BY <2>1, <2>3, FlushHolds
    <2>4. QED
      BY <1>6, <2>2, <2>3 DEF Close
  <1>7. CASE Exit
    <2>1. CsvTypes /\ Begins(rows, ReadFile.rows)
      BY DEF CsvInv
    <2>2. /\ writer' = "exited" /\ buf' = <<>>
          /\ is_first_' = is_first_ /\ disk' = disk /\ rows' = rows /\ row' = row
      BY <1>7 DEF Exit
    <2>3. CsvTypes'
      BY <2>1, <2>2 DEF CsvTypes
    <2>4. Begins(rows, ReadFile.rows)'
      BY <2>1, <2>2 DEF ReadFile
    <2>5. QED
      BY <2>2, <2>3, <2>4 DEF CsvInv
  <1>8. CASE UNCHANGED csvVars
    BY <1>8 DEF CsvInv, CsvTypes, Has, ReadFile, csvVars
  <1>9. QED
    BY <1>1, <1>2, <1>3, <1>4, <1>5, <1>6, <1>7, <1>8 DEF CsvNext

LEMMA CsvInvHolds == CsvSpec => []CsvInv
  <1>1. CsvInit => CsvInv
    BY CsvInitHolds
  <1>2. CsvInv /\ [CsvNext]_csvVars => CsvInv'
    BY CsvNextHolds
  <1>3. QED
    BY <1>1, <1>2, PTL DEF CsvSpec

\* A row that endrow() ended stays in the file as a reader sees it, whatever
\* becomes of the rest of the stream, for all texts, numbers and splits of the
\* buffer (csvfile.h:37-51).
THEOREM RowsStay == CsvSpec => []RowsOnDisk
  <1>1. CsvInv => RowsOnDisk
    <2> SUFFICES ASSUME CsvInv PROVE RowsOnDisk
      OBVIOUS
    <2>1. /\ rows \in Seq(Seq(Seq(Char))) /\ disk \in Seq(Char)
          /\ Begins(rows, ReadFile.rows)
      BY DEF CsvInv, CsvTypes
    <2>2. ReadFile \in Reader
      BY <2>1, StartIsReader, ReadType DEF ReadFile
    <2>3. ReadFile.rows \in Seq(Seq(Seq(Char)))
      BY <2>2 DEF Reader
    <2>4. QED
      BY <2>1, <2>3, BeginsIsPrefix DEF RowsOnDisk
  <1>2. QED
    BY <1>1, CsvInvHolds, PTL

\* A file that was closed reads back as what was written (csvfile.h:53-99).
THEOREM FileReadsBack == CsvSpec => []ReadsBack
  <1>1. CsvInv => ReadsBack
    <2> SUFFICES ASSUME CsvInv, writer = "closed"
                 PROVE  ReadFile.rows = rows /\ FieldsOf(ReadFile) = row
                        /\ ReadFile.at # "quoted"
      BY DEF ReadsBack
    <2> DEFINE r == Read(Start, disk \o buf)
    <2>1. disk \in Seq(Char) /\ buf = <<>> /\ Has(r)
      BY DEF CsvInv, CsvTypes
    <2>2. disk \o buf = disk
      BY <2>1, ConcatEmptySeq
    <2>3. r = ReadFile
      BY <2>2 DEF ReadFile
    <2>4. Has(ReadFile)
      BY <2>1, <2>3
    <2> HIDE DEF r
    <2>5. QED
      BY <2>4 DEF Has, FieldsOf
  <1>2. QED
    BY <1>1, CsvInvHolds, PTL

=============================================================================
