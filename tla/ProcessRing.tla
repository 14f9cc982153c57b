---------------------------- MODULE ProcessRing -----------------------------
(***************************************************************************)
(* src/src/CPU/ctxswitch.cpp: the cost of a context switch between         *)
(* processes.  For one setting of pipes and footprint, main() runs the     *)
(* overhead of a pipe in one process and then total_pass: N forked         *)
(* children in a ring, child i reads pipe i-1 and writes pipe i, and the   *)
(* parent starts the chain with one byte in pipe 0.                        *)
(***************************************************************************)
EXTENDS Integers

CONSTANTS
  N,          \* pipes: number of pipes and of processes in the ring
  iters,      \* laps of the token
  Runs,       \* m_runs of the two Stats objects (10)
  FdLimit,    \* descriptors main() may hold at once
  HasCore1,   \* the machine has the core the children ask for
  MaxFaults   \* how often fork() or pipe() may fail for want of resources

ASSUME ProcessRingAssumption ==
  /\ N \in Nat \ {0}
  /\ iters \in Nat \ {0}
  /\ Runs \in Nat \ {0}
  /\ FdLimit \in Nat
  /\ HasCore1 \in BOOLEAN
  /\ MaxFaults \in Nat

Child == 0..(N - 1)

VARIABLES
  ppc,     \* control state of the parent process
  phase,   \* which of overhead and total_pass s.run_func or t.run_func runs
  run,     \* finished calls of it
  fds,     \* descriptors open in the parent
  pipe,    \* pipe[i]: bytes in p[i]
  forked,  \* children forked in this run: 0 .. forked - 1
  pc,      \* control state of each child
  cnt,     \* the child's loop counter j, raised by its write
  failed   \* such failures so far

vars == <<ppc, phase, run, fds, pipe, forked, pc, cnt, failed>>
childVars == <<pc, cnt>>

Init ==
  /\ ppc = "open"
  /\ phase = "overhead"
  /\ run = 0
  /\ fds = 0
  /\ pipe = [i \in Child |-> 0]
  /\ forked = 0
  /\ pc = [i \in Child |-> "none"]
  /\ cnt = [i \in Child |-> 0]
  /\ failed = 0

-----------------------------------------------------------------------------
(* The parent *)

\* Mutant: the pipes are made once and used again, with what is left in them.
FreshPipesReused == pipe
FreshPipes == [i \in Child |-> 0]

\* pipe(p[i]) for every i.
OpenPipes ==
  /\ ppc = "open"
  /\ fds + 2 * N <= FdLimit
  /\ fds' = fds + 2 * N
  /\ pipe' = FreshPipes
  /\ ppc' = IF phase = "overhead" THEN "loop" ELSE "fork"
  /\ forked' = 0
  /\ pc' = [i \in Child |-> "none"]
  /\ cnt' = [i \in Child |-> 0]
  /\ UNCHANGED <<phase, run, failed>>

\* runtime_error("cant create pipe"), which nothing catches.
PipesFail ==
  /\ ppc = "open"
  /\ fds + 2 * N <= FdLimit => failed < MaxFaults
  /\ failed' = IF fds + 2 * N <= FdLimit THEN failed + 1 ELSE failed
  /\ ppc' = "threw"
  /\ UNCHANGED <<phase, run, fds, pipe, forked, childVars>>

\* overhead(): the same process writes and reads every pipe iters times, so
\* each pipe is empty again at the end.
OverheadLoop ==
  /\ ppc = "loop"
  /\ ppc' = "close"
  /\ UNCHANGED <<phase, run, fds, pipe, forked, childVars, failed>>

Fork ==
  /\ ppc = "fork"
  /\ forked < N
  /\ pc' = [pc EXCEPT ![forked] = "start"]
  /\ forked' = forked + 1
  /\ UNCHANGED <<ppc, phase, run, fds, pipe, cnt, failed>>

\* exit(1): the children forked so far stay behind.
ForkFails ==
  /\ ppc = "fork"
  /\ forked < N
  /\ failed < MaxFaults
  /\ failed' = failed + 1
  /\ ppc' = "exit1"
  /\ fds' = 0
  /\ UNCHANGED <<phase, run, pipe, forked, childVars>>

\* write(p[0][1], &buf, 1): start chain from parent.
Kick ==
  /\ ppc = "fork"
  /\ forked = N
  /\ pipe' = [pipe EXCEPT ![0] = @ + 1]
  /\ ppc' = "wait"
  /\ UNCHANGED <<phase, run, fds, forked, childVars, failed>>

\* Mutant: if (wait(NULL) > 0); instead of while.
Ended(i) == pc[i] \in {"exited", "aborted"}
AllReapedOne == \E i \in Child : Ended(i)
AllReaped == \A i \in Child : Ended(i)

\* while(wait(NULL) > 0): wait for chain to finish; then t.end().
WaitAll ==
  /\ ppc = "wait"
  /\ AllReaped
  /\ ppc' = "close"
  /\ UNCHANGED <<phase, run, fds, pipe, forked, childVars, failed>>

\* Mutant: only close(p[i][0]).
ClosedFdsReadEnds == N
\* close(p[i][0]); close(p[i][1]);
ClosedFds == 2 * N

\* The function returns its sample; run_func calls it again or main goes on.
ClosePipes ==
  /\ ppc = "close"
  /\ fds' = fds - ClosedFds
  /\ \/ /\ run + 1 < Runs
        /\ run' = run + 1
        /\ ppc' = "open"
        /\ UNCHANGED phase
     \/ /\ run + 1 = Runs
        /\ phase = "overhead"
        /\ run' = 0
        /\ phase' = "pass"
        /\ ppc' = "open"
     \/ /\ run + 1 = Runs
        /\ phase = "pass"
        /\ run' = Runs
        /\ ppc' = "done"
        /\ UNCHANGED phase
  /\ UNCHANGED <<pipe, forked, childVars, failed>>

Parent ==
  \/ OpenPipes \/ PipesFail \/ OverheadLoop \/ Fork \/ ForkFails \/ Kick
  \/ WaitAll \/ ClosePipes

-----------------------------------------------------------------------------
(* The children.  Every child holds both ends of every pipe, so that read   *)
(* never returns end of file, not even when the parent has gone.            *)

\* use_cores({1}): without that core it throws, which ends the child.
Pin(i) ==
  /\ pc[i] = "start"
  /\ pc' = [pc EXCEPT ![i] = IF HasCore1 THEN "read" ELSE "aborted"]
  /\ UNCHANGED <<ppc, phase, run, fds, pipe, forked, cnt, failed>>

\* Mutant: the child reads the pipe it writes.
InPipeOwn(i) == i
\* (i - 1 + pipes) % pipes
InPipe(i) == (i - 1 + N) % N

Read(i) ==
  /\ pc[i] = "read"
  /\ pipe[InPipe(i)] > 0
  /\ pipe' = [pipe EXCEPT ![InPipe(i)] = @ - 1]
  /\ pc' = [pc EXCEPT ![i] = "write"]
  /\ UNCHANGED <<ppc, phase, run, fds, forked, cnt, failed>>

LastPassLate(i) == cnt[i] = iters   \* mutant: j <= iters
LastPass(i) == cnt[i] + 1 = iters

\* write(p[i % pipes][1], &buf, 1), and exit(0) after the last.
Write(i) ==
  /\ pc[i] = "write"
  /\ pipe' = [pipe EXCEPT ![i] = @ + 1]
  /\ cnt' = [cnt EXCEPT ![i] = @ + 1]
  /\ pc' = [pc EXCEPT ![i] = IF LastPass(i) THEN "exited" ELSE "read"]
  /\ UNCHANGED <<ppc, phase, run, fds, forked, failed>>

Steps(i) == Pin(i) \/ Read(i) \/ Write(i)

Finished == ppc \in {"done", "threw"} /\ UNCHANGED vars

Next == Parent \/ (\E i \in Child : Steps(i)) \/ Finished

Spec == Init /\ [][Next]_vars

\* Every process that can run does; fork is not obliged to fail.
FairSpec ==
  /\ Spec
  /\ WF_vars(Parent)
  /\ \A i \in Child : WF_vars(Steps(i))

-----------------------------------------------------------------------------
(* Properties *)

TypeOK ==
  /\ ppc \in {"open", "loop", "fork", "wait", "close", "done", "exit1", "threw"}
  /\ phase \in {"overhead", "pass"}
  /\ run \in 0..Runs
  /\ fds \in 0..FdLimit
  /\ pipe \in [Child -> Nat]
  /\ forked \in 0..N
  /\ pc \in [Child -> {"none", "start", "read", "write", "exited", "aborted"}]
  /\ cnt \in [Child -> 0..iters]
  /\ failed \in 0..MaxFaults

\* The token is in pipe i, or in the hands of child i.
InFlight(i) == pipe[i] > 0
Holds(i) == pc[i] = "write"

\* At most one child is ever between its read and its write, and then no pipe
\* holds a byte: what is timed is a chain of switches, never two at once.
OneToken ==
  /\ \A i \in Child : pipe[i] <= 1
  /\ \A i, j \in Child : InFlight(i) /\ InFlight(j) => i = j
  /\ \A i, j \in Child : Holds(i) /\ Holds(j) => i = j
  /\ \A i, j \in Child : ~(InFlight(i) /\ Holds(j))

\* iters * pipes, the divisor of total_pass, is the number of passes between
\* t.begin() and t.end(): none before the parent starts the chain, all of them
\* before wait() has no child left.  On a machine without core 1 the children are
\* gone before the first pass.
EveryPassTimed ==
  /\ ppc = "fork" => \A i \in Child : cnt[i] = 0
  /\ ppc = "close" /\ phase = "pass" /\ HasCore1 =>
       \A i \in Child : cnt[i] = iters

\* Each run gives back the descriptors it took: a setting that can be opened
\* once can be opened in every run.
PipesAvailable == 2 * N <= FdLimit /\ failed = 0 => ppc # "threw"

\* If no fork or pipe fails the benchmark ends: neither a child nor the parent
\* waits for ever.
Completes == [](failed = 0) => <>(ppc \in {"done", "threw"})

\* The ring implements TokenRing: the token is where the child is that holds it,
\* or goes to the child that reads the pipe it is in.  It leaves the parent for
\* child 1.
Successor(i) == (i + 1) % N
TurnOf(bytes, at) ==
  IF \E i \in Child : at[i] = "write" THEN CHOOSE i \in Child : at[i] = "write"
  ELSE IF \E i \in Child : bytes[i] > 0
       THEN Successor(CHOOSE i \in Child : bytes[i] > 0)
       ELSE 1 % N

Ring == INSTANCE TokenRing WITH
          Laps <- iters, First <- 1 % N, turn <- TurnOf(pipe, pc), laps <- cnt
RingSpec == Ring!Spec

=============================================================================
