------------------------------- MODULE Stats --------------------------------
(***************************************************************************)
(* The class every benchmark keeps its samples in (src/utils/stats.hpp,    *)
(* stats.cpp), as one object that a program calls in any order.  Integers  *)
(* stand for the samples of Stats<double>, the only one the programs use.  *)
(***************************************************************************)
EXTENDS Integers, SequencesExt

CONSTANTS
  m_runs,   \* the constructor's argument
  Samples,  \* values the measured function may return
  MaxVals   \* bound: no run_func beyond this many samples

ASSUME StatsAssumption ==
  /\ m_runs \in Nat \ {0}
  /\ Samples \subseteq Int
  /\ MaxVals \in Nat

VARIABLES
  m_vals,  \* the vector of samples
  runs     \* calls of run_func since construction or reset_vals()

statsVars == <<m_vals, runs>>

StatsInit == m_vals = <<>> /\ runs = 0

\* How many of the samples s are in V.
Count(s, V) == Cardinality({i \in DOMAIN s : s[i] \in V})

-----------------------------------------------------------------------------
(* Calls that change the object *)

\* The three overloads of run_func differ only in the arguments they pass on:
\* m_runs samples are appended to whatever is there.
RunFuncFresh ==   \* mutant: the samples of the last call are dropped
  /\ Len(m_vals) + m_runs <= MaxVals
  /\ \E s \in [1..m_runs -> Samples] : m_vals' = s
  /\ runs' = runs + 1

RunFunc ==
  /\ Len(m_vals) + m_runs <= MaxVals
  /\ \E s \in [1..m_runs -> Samples] : m_vals' = m_vals \o s
  /\ runs' = runs + 1

\* std::sort: the same samples, as often as before, in ascending order.
Sorted(s) ==
  CHOOSE t \in [DOMAIN s -> ToSet(s)] :
    /\ \A V \in SUBSET ToSet(s) : Count(t, V) = Count(s, V)
    /\ \A i, j \in DOMAIN t : i < j => t[i] <= t[j]

\* median() sorts the samples in place, unless there are none.
Median ==
  /\ m_vals' = Sorted(m_vals)
  /\ UNCHANGED runs

ResetVals ==
  /\ m_vals' = <<>>
  /\ runs' = 0

StatsNext == RunFunc \/ Median \/ ResetVals

StatsSpec == StatsInit /\ [][StatsNext]_statsVars

-----------------------------------------------------------------------------
(* What median() returns.  mean(), variance(), std_dev() and get_vals() read  *)
(* the samples and change nothing; their values are not modelled.             *)

\* Twice what median() returns: m_vals[n/2], or the mean of that one and the one
\* before, of the sorted samples (0-based in the code).  The mean is exact up to
\* rounding in doubles; Stats<int>, which nobody uses, would truncate it.
TwiceMedianNext(s) ==   \* mutant: m_vals[mid] + m_vals[mid + 1]
  LET t   == Sorted(s)
      mid == Len(s) \div 2
  IN  IF Len(s) % 2 # 0 THEN 2 * t[mid + 1]
      ELSE t[mid + 1] + t[IF mid + 2 <= Len(s) THEN mid + 2 ELSE mid + 1]
TwiceMedian(s) ==
  LET t   == Sorted(s)
      mid == Len(s) \div 2
  IN  IF Len(s) % 2 # 0 THEN 2 * t[mid + 1] ELSE t[mid + 1] + t[mid]

-----------------------------------------------------------------------------
(* Properties *)

\* Every sample since the last reset is there, of all the runs together: a
\* second run_func without reset_vals mixes two experiments.
StatsTypeOK ==
  /\ m_vals \in Seq(Samples)
  /\ runs \in Nat
  /\ Len(m_vals) = runs * m_runs

\* median() is the mean of the lower and the upper middle sample: fewer than half
\* of the samples are less than the lower one, and fewer than half greater than
\* the upper one.
Fewer(s, V) == 2 * Count(s, V) < Len(s)
MedianIsMiddle ==
  m_vals # <<>> =>
    \E lo, hi \in ToSet(m_vals) :
      /\ TwiceMedian(m_vals) = lo + hi
      /\ Fewer(m_vals, {w \in Samples : w < lo})
      /\ ~Fewer(m_vals, {w \in Samples : w <= lo})
      /\ Fewer(m_vals, {w \in Samples : w > hi})
      /\ ~Fewer(m_vals, {w \in Samples : w >= hi})

=============================================================================
