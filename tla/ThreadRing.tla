----------------------------- MODULE ThreadRing -----------------------------
(***************************************************************************)
(* src/src/CPU/ctxswitchkernel.cpp: the cost of a context switch between   *)
(* kernel threads.  For one setting of pipes and footprint, main() first   *)
(* lets one thread pass the token through all N pipes (overhead), then N   *)
(* threads, thread i reading pipe i and writing pipe i+1                   *)
(* (kern_thread_ring).  use_cores (src/utils/proc.hpp) is called in the    *)
(* threads but names getpid(), the main thread.                            *)
(***************************************************************************)
EXTENDS Integers

CONSTANTS
  N,      \* pipes: number of pipes and of threads in the ring
  iters,  \* laps of the token
  Runs,   \* m_runs of the two Stats objects (10)
  MaxFaults  \* system calls that may fail

ASSUME ThreadRingAssumption ==
  /\ N \in Nat \ {0}
  /\ iters \in Nat \ {0, 1}
  /\ Runs \in Nat \ {0}
  /\ MaxFaults \in Nat

Thread == 0..(N - 1)
Core == {0, 1}

VARIABLES
  mpc,     \* control state of the main thread
  phase,   \* which of overhead and kern_thread_ring run_func calls
  run,     \* finished calls of it
  pipe,    \* pipe[i]: bytes in p[i]
  made,    \* threads created in this call: 0 .. made - 1
  joined,  \* threads joined: 0 .. joined - 1
  heap,    \* heap[a]: the int[2] at address a
  pc,      \* control state of each thread
  cnt,     \* passes made by each thread
  mainCpu, \* the core the main thread is bound to
  cpu,     \* the core each thread is bound to
  failed   \* system calls that have failed

vars == <<mpc, phase, run, pipe, made, joined, heap, pc, cnt, mainCpu, cpu,
          failed>>
threadVars == <<heap, pc, cnt, cpu>>

Succ(i) == (i + 1) % N

FirstPhaseSwapped == "ring"    \* mutant: t.run_func before s.run_func
FirstPhase == "overhead"
LastPhase == IF FirstPhase = "ring" THEN "overhead" ELSE "ring"

Fault == failed < MaxFaults /\ failed' = failed + 1

\* main() has called use_cores({0}).
Init ==
  /\ mpc = "open"
  /\ phase = FirstPhase
  /\ run = 0
  /\ pipe = [i \in Thread |-> 0]
  /\ made = 0
  /\ joined = 0
  /\ heap = [a \in Thread |-> <<0, 0>>]
  /\ pc = [i \in Thread |-> "none"]
  /\ cnt = [i \in Thread |-> 0]
  /\ mainCpu = 0
  /\ cpu = [i \in Thread |-> 0]
  /\ failed = 0

-----------------------------------------------------------------------------
(* The main thread *)

\* for (...) pipe(p[i]); one that fails throws, which nobody catches.
OpenPipes ==
  /\ mpc = "open"
  /\ \/ mpc' = "create" /\ UNCHANGED failed
     \/ mpc' = "threw" /\ Fault
  /\ UNCHANGED <<phase, run, pipe, made, joined, threadVars, mainCpu>>

Threads == IF phase = "overhead" THEN 1 ELSE N

AddressOnStack(i) == 0   \* mutant: int ktp[2] in the loop
Address(i) == i          \* new int[2]: a cell of its own for each thread

\* A new thread inherits the affinity of its creator.  The result of
\* pthread_create is ignored; if it fails there is no thread and tid[i] keeps
\* what was on the stack.
Create ==
  /\ mpc = "create"
  /\ made < Threads
  /\ \/ pc' = [pc EXCEPT ![made] = "start"] /\ UNCHANGED failed
     \/ pc' = [pc EXCEPT ![made] = "failed"] /\ Fault
  /\ cpu' = [cpu EXCEPT ![made] = mainCpu]
  /\ heap' = IF phase = "ring"
             THEN [heap EXCEPT ![Address(made)] = <<made, Succ(made)>>]
             ELSE heap
  /\ made' = made + 1
  /\ UNCHANGED <<mpc, phase, run, pipe, joined, cnt, mainCpu>>

\* t.begin(); write(p[0][1], &buf, 1).
Kick ==
  /\ mpc = "create"
  /\ made = Threads
  /\ pipe' = [pipe EXCEPT ![0] = @ + 1]
  /\ mpc' = "join"
  /\ UNCHANGED <<phase, run, made, joined, threadVars, mainCpu, failed>>

LastJoinEarly(k) == k + 2 >= Threads   \* mutant: i < pipes - 1
LastJoin(k) == k + 1 = Threads

\* pthread_join(tid[i], NULL) for every thread; after the last, t.end().
Join ==
  /\ mpc = "join"
  /\ joined < Threads
  /\ pc[joined] \in {"exited", "failed"}
  /\ joined' = joined + 1
  /\ mpc' = IF LastJoin(joined) THEN "close" ELSE "join"
  /\ UNCHANGED <<phase, run, pipe, made, threadVars, mainCpu, failed>>

\* Joining an uninitialised tid[i] is undefined: it returns with an error (Join),
\* ends the process, or waits for something that never happens.
JoinUndefined ==
  /\ mpc = "join"
  /\ joined < Threads
  /\ pc[joined] = "failed"
  /\ mpc' \in {"crashed", "stuck"}
  /\ UNCHANGED <<phase, run, pipe, made, joined, threadVars, mainCpu, failed>>

\* The pipes are closed and the function returns its sample; run_func calls it
\* again, with fresh pipes, or main() goes on.
ClosePipes ==
  /\ mpc = "close"
  /\ \/ /\ run + 1 < Runs
        /\ run' = run + 1
        /\ mpc' = "open"
        /\ UNCHANGED phase
     \/ /\ run + 1 = Runs
        /\ phase = FirstPhase
        /\ run' = 0
        /\ phase' = LastPhase
        /\ mpc' = "open"
     \/ /\ run + 1 = Runs
        /\ phase = LastPhase
        /\ run' = Runs
        /\ mpc' = "done"
        /\ UNCHANGED phase
  /\ pipe' = [i \in Thread |-> 0]
  /\ made' = 0
  /\ joined' = 0
  /\ pc' = [i \in Thread |-> "none"]
  /\ cnt' = [i \in Thread |-> 0]
  /\ UNCHANGED <<heap, mainCpu, cpu, failed>>

Main == OpenPipes \/ Create \/ Kick \/ Join \/ JoinUndefined \/ ClosePipes

-----------------------------------------------------------------------------
(* overhead_routine and kern_thread_ring_routine *)

\* The threads run until the process ends.
At(i, at) == mpc \notin {"threw", "crashed"} /\ pc[i] = at

\* use_cores({1}): sched_setaffinity(getpid(), ...) binds the main thread.
Pin(i) ==
  /\ At(i, "start")
  /\ mainCpu' = 1
  /\ pc' = [pc EXCEPT ![i] = "read"]
  /\ UNCHANGED <<mpc, phase, run, pipe, made, joined, heap, cnt, cpu, failed>>

\* Without core 1 use_cores throws; in a thread that ends the whole process.
PinFails(i) ==
  /\ At(i, "start")
  /\ Fault
  /\ mpc' = "threw"
  /\ UNCHANGED <<phase, run, pipe, made, joined, threadVars, mainCpu>>

\* The pipe ends a thread uses: the overhead worker walks through p, a thread
\* of the ring looks them up in its int[2].
ReadEnd(i) == IF phase = "overhead" THEN cnt[i] % N ELSE heap[Address(i)][1]
WriteEndOwn(i) == ReadEnd(i)   \* mutant: p[i][0] and p[i][1]
WriteEnd(i) == IF phase = "overhead" THEN Succ(cnt[i] % N)
                                     ELSE heap[Address(i)][2]
Passes == IF phase = "overhead" THEN iters * N ELSE iters

LastPassLate(i) == cnt[i] = Passes   \* mutant: the loop bound included
LastPass(i) == cnt[i] + 1 = Passes

Read(i) ==
  /\ At(i, "read")
  /\ pipe[ReadEnd(i)] > 0
  /\ pipe' = [pipe EXCEPT ![ReadEnd(i)] = @ - 1]
  /\ pc' = [pc EXCEPT ![i] = "write"]
  /\ UNCHANGED <<mpc, phase, run, made, joined, heap, cnt, mainCpu, cpu,
                 failed>>

Write(i) ==
  /\ At(i, "write")
  /\ pipe' = [pipe EXCEPT ![WriteEnd(i)] = @ + 1]
  /\ cnt' = [cnt EXCEPT ![i] = @ + 1]
  /\ pc' = [pc EXCEPT ![i] = IF LastPass(i) THEN "exited" ELSE "read"]
  /\ UNCHANGED <<mpc, phase, run, made, joined, heap, mainCpu, cpu, failed>>

Steps(i) == Pin(i) \/ PinFails(i) \/ Read(i) \/ Write(i)

Finished == mpc \in {"done", "threw", "crashed"} /\ UNCHANGED vars

Next == Main \/ (\E i \in Thread : Steps(i)) \/ Finished

Spec == Init /\ [][Next]_vars

FairSpec == Spec /\ WF_vars(Main) /\ \A i \in Thread : WF_vars(Steps(i))

-----------------------------------------------------------------------------
(* Properties *)

TypeOK ==
  /\ mpc \in {"open", "create", "join", "close", "done", "threw", "crashed",
              "stuck"}
  /\ phase \in {"overhead", "ring"}
  /\ run \in 0..Runs
  /\ pipe \in [Thread -> Nat]
  /\ made \in 0..N
  /\ joined \in 0..N
  /\ heap \in [Thread -> Thread \X Thread]
  /\ pc \in [Thread -> {"none", "start", "read", "write", "exited", "failed"}]
  /\ cnt \in [Thread -> 0..(iters * N)]
  /\ mainCpu \in Core
  /\ cpu \in [Thread -> Core]
  /\ failed \in 0..MaxFaults

Working(i) == pc[i] \in {"start", "read", "write"}

\* "this will lead to all the kernel threads having the same file descriptors"
\* (lines 99-100): however creation and work interleave, no two threads of the
\* ring read the same pipe or write the same pipe.
DistinctEnds ==
  phase = "ring" =>
    \A i, j \in Thread : i # j /\ Working(i) /\ Working(j) =>
      ReadEnd(i) # ReadEnd(j) /\ WriteEnd(i) # WriteEnd(j)

\* The threads of the ring share core 1, so that every pass is a switch, and the
\* main thread reads both ends of the interval on that core.  No call binds the
\* threads to it: they inherit it from main, which the worker of the overhead
\* phase has bound before the ring begins.
RingSharesCore1 ==
  failed = 0 /\ phase = "ring" =>
    mainCpu = 1 /\ \A i \in Thread : Working(i) => cpu[i] = 1

\* The divisor iters * pipes is the number of passes between t.begin() and
\* t.end(), in both phases, if every call succeeds.
EveryPassTimed == failed = 0 =>
  /\ mpc = "create" => \A i \in Thread : cnt[i] = 0
  /\ mpc = "close" /\ phase = "overhead" => cnt[0] = iters * N
  /\ mpc = "close" /\ phase = "ring" => \A i \in Thread : cnt[i] = iters

\* If every call succeeds the benchmark ends: pthread_join always returns.
Completes == [](failed = 0) => <>(mpc = "done")

\* Both phases implement TokenRing, whatever call fails: a ring with a thread
\* missing stops, it never goes on out of turn.  The worker of the overhead phase
\* acts for all stations in turn.
AbsLaps ==
  [i \in Thread |->
    IF phase = "overhead" THEN (cnt[0] + N - 1 - i) \div N ELSE cnt[i]]
AbsTurn ==
  IF \E i \in Thread : pc[i] = "write"
  THEN ReadEnd(CHOOSE i \in Thread : pc[i] = "write")
  ELSE IF \E i \in Thread : pipe[i] > 0 THEN CHOOSE i \in Thread : pipe[i] > 0
  ELSE 0

Ring == INSTANCE TokenRing WITH
          Laps <- iters, First <- 0, turn <- AbsTurn, laps <- AbsLaps
RingSpec == Ring!Spec

=============================================================================
