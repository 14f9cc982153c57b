---------------------------- MODULE TaskCreation ----------------------------
(***************************************************************************)
(* src/src/CPU/createProcess.cpp and createThread.cpp: what it costs to    *)
(* create a process or a thread.  The process benchmark forks iter         *)
(* children one after another and then waits for all of them; the thread   *)
(* benchmark joins each thread before it creates the next.  Both take      *)
(* m_runs samples, print, and do it again with the other clock (the        *)
(* "chrono" and the "rtdsc" functions, phase 1 and 2).  The outer-loop     *)
(* variants of the functions are never called.                             *)
(***************************************************************************)
EXTENDS Integers, SequencesExt

CONSTANTS
  Iter,       \* iter: tasks created for one sample
  Runs,       \* m_runs of Stats
  Limits,     \* tasks the system may allow at a time, zombies included
  MaxFaults   \* bound: creations that fail for another reason

ASSUME TaskCreationAssumption ==
  /\ Iter \in Nat \ {0} /\ Runs \in Nat \ {0} /\ MaxFaults \in Nat
  /\ Limits \subseteq Nat \ {0}

VARIABLES
  kind,     \* the program: it creates processes or threads
  limit,    \* RLIMIT_NPROC, less what others use
  mpc,      \* control state of the main thread
  phase,    \* which of the two functions is being run
  run,      \* samples it has taken
  left,     \* the loop counter i
  tid,      \* pthread_t tid: not set, of a living thread, or of a joined one
  alive,    \* for each child that runs: its copy of the output buffer
  zombies,  \* children that ended and were not waited for
  born,     \* history: tasks created for this sample
  failed,   \* history: creations that failed, the limit apart
  buffer,   \* cout: what was printed and not flushed
  out       \* what the standard output has received

children == <<alive, zombies>>
vars == <<kind, limit, mpc, phase, run, left, tid, children, born, failed,
          buffer, out>>

Init ==
  /\ kind \in {"process", "thread"}
  /\ limit \in Limits
  /\ mpc = "begin" /\ phase = 1 /\ run = 0 /\ left = 0
  /\ tid = "unset"
  /\ alive = <<>> /\ zombies = 0 /\ born = 0 /\ failed = 0
  /\ buffer = <<>> /\ out = <<>>

Refused == Len(alive) + zombies >= limit
CreationFails ==
  \/ Refused /\ UNCHANGED failed
  \/ ~Refused /\ failed < MaxFaults /\ failed' = failed + 1

BeginTimer ==
  /\ mpc = "begin"
  /\ left' = Iter
  /\ born' = 0
  /\ tid' = "unset"
  /\ mpc' = "loop"
  /\ UNCHANGED <<kind, limit, phase, run, children, failed, buffer, out>>

-----------------------------------------------------------------------------
(* Processes *)

\* fork() copies the output buffer along with everything else.
Fork ==
  /\ kind = "process" /\ mpc = "loop" /\ left > 0
  /\ ~Refused
  /\ alive' = Append(alive, buffer)
  /\ born' = born + 1
  /\ left' = left - 1
  /\ UNCHANGED <<kind, limit, mpc, phase, run, tid, zombies, failed, buffer, out>>

\* chid == -1: the loop goes on to the next.
ForkFails ==
  /\ kind = "process" /\ mpc = "loop" /\ left > 0
  /\ CreationFails
  /\ left' = left - 1
  /\ UNCHANGED <<kind, limit, mpc, phase, run, tid, children, born, buffer, out>>

\* exit(0) flushes the child's copy of the buffer.
ChildExits ==
  /\ kind = "process"
  /\ \E k \in DOMAIN alive : /\ out' = out \o alive[k]
                             /\ alive' = RemoveAt(alive, k)
  /\ zombies' = zombies + 1
  /\ UNCHANGED <<kind, limit, mpc, phase, run, left, tid, born, failed, buffer>>

ForkedAll ==
  /\ kind = "process" /\ mpc = "loop" /\ left = 0
  /\ mpc' = "wait"
  /\ UNCHANGED <<kind, limit, phase, run, left, tid, children, born, failed,
                 buffer, out>>

\* while (wait(NULL) > 0): wait() blocks while there are children but no zombie,
\* returns a zombie's process id, and -1 once there are no children.
AfterWaitOnce == "sample"   \* mutant: wait(NULL) without the loop
AfterWait == "wait"
NeverWaited == FALSE        \* mutant: while (wait(NULL) != 0)
WaitedForAll == alive = <<>> /\ zombies = 0

Wait ==
  /\ mpc = "wait"
  /\ zombies > 0
  /\ zombies' = zombies - 1
  /\ mpc' = AfterWait
  /\ UNCHANGED <<kind, limit, phase, run, left, tid, alive, born, failed, buffer,
                 out>>

WaitReturnsError ==
  /\ mpc = "wait"
  /\ WaitedForAll
  /\ mpc' = "sample"
  /\ UNCHANGED <<kind, limit, phase, run, left, tid, children, born, failed,
                 buffer, out>>

-----------------------------------------------------------------------------
(* Threads *)

\* pthread_create(&tid, NULL, routine, ...); a thread has no buffer of its own.
Create ==
  /\ kind = "thread" /\ mpc = "loop" /\ left > 0
  /\ ~Refused
  /\ alive' = Append(alive, <<>>)
  /\ tid' = "live"
  /\ born' = born + 1
  /\ mpc' = "join"
  /\ UNCHANGED <<kind, limit, phase, run, left, zombies, failed, buffer, out>>

\* The result of pthread_create is ignored; tid stays as it was.
CreateFails ==
  /\ kind = "thread" /\ mpc = "loop" /\ left > 0
  /\ CreationFails
  /\ mpc' = "join"
  /\ UNCHANGED <<kind, limit, phase, run, left, tid, children, born, buffer, out>>

\* routine(): use_cores({0}), which main() has already found possible;
\* pthread_exit(NULL).
ThreadExits ==
  /\ kind = "thread"
  /\ alive # <<>>
  /\ alive' = Tail(alive)
  /\ zombies' = zombies + 1
  /\ UNCHANGED <<kind, limit, mpc, phase, run, left, tid, born, failed, buffer,
                 out>>

Join ==
  /\ mpc = "join" /\ tid = "live"
  /\ zombies > 0
  /\ zombies' = zombies - 1
  /\ tid' = "joined"
  /\ left' = left - 1
  /\ mpc' = "loop"
  /\ UNCHANGED <<kind, limit, phase, run, alive, born, failed, buffer, out>>

\* Joining a thread twice, or one that never was, is undefined: the call may
\* return an error, hang, or end the process.
JoinUndefined ==
  /\ mpc = "join" /\ tid # "live"
  /\ \/ mpc' = "loop" /\ left' = left - 1
     \/ mpc' \in {"stuck", "crashed"} /\ UNCHANGED left
  /\ UNCHANGED <<kind, limit, phase, run, tid, children, born, failed, buffer,
                 out>>

JoinedAll ==
  /\ kind = "thread" /\ mpc = "loop" /\ left = 0
  /\ mpc' = "sample"
  /\ UNCHANGED <<kind, limit, phase, run, left, tid, children, born, failed,
                 buffer, out>>

-----------------------------------------------------------------------------
(* Samples and output *)

\* t.end(); the sample is the time divided by iter.
Sample ==
  /\ mpc = "sample"
  /\ run' = run + 1
  /\ mpc' = IF run + 1 < Runs THEN "begin" ELSE "print"
  /\ UNCHANGED <<kind, limit, phase, left, tid, children, born, failed, buffer,
                 out>>

\* cout << ... << endl.
PrintedKept(line) ==   \* mutant: '\n' instead of endl
  buffer' = Append(buffer, line) /\ UNCHANGED out
Printed(line) ==
  out' = Append(out \o buffer, line) /\ buffer' = <<>>

Report ==
  /\ mpc = "print"
  /\ Printed(phase)
  /\ IF phase = 1 THEN phase' = 2 /\ run' = 0 /\ mpc' = "begin"
                  ELSE mpc' = "return" /\ UNCHANGED <<phase, run>>
  /\ UNCHANGED <<kind, limit, left, tid, children, born, failed>>

Return ==
  /\ mpc = "return"
  /\ out' = out \o buffer
  /\ buffer' = <<>>
  /\ mpc' = "done"
  /\ UNCHANGED <<kind, limit, phase, run, left, tid, children, born, failed>>

Main ==
  \/ BeginTimer \/ Fork \/ ForkFails \/ ForkedAll \/ Wait \/ WaitReturnsError
  \/ Create \/ CreateFails \/ Join \/ JoinUndefined \/ JoinedAll
  \/ Sample \/ Report \/ Return
Child == ChildExits \/ ThreadExits

Next == Main \/ Child

\* The kernel schedules the main thread and every child.
Spec == Init /\ [][Next]_vars /\ WF_vars(Main) /\ WF_vars(Child)

-----------------------------------------------------------------------------
(* Properties *)

TypeOK ==
  /\ kind \in {"process", "thread"}
  /\ limit \in Limits
  /\ mpc \in {"begin", "loop", "wait", "join", "sample", "print", "return",
              "done", "stuck", "crashed"}
  /\ phase \in {1, 2} /\ run \in 0..Runs /\ left \in 0..Iter
  /\ tid \in {"unset", "live", "joined"}
  /\ alive \in Seq(Seq({1, 2})) /\ zombies \in Nat
  /\ born \in 0..Iter /\ failed \in 0..MaxFaults
  /\ buffer \in Seq({1, 2}) /\ out \in Seq({1, 2})

\* A sample divides by iter, so it must be the time of iter tasks, from their
\* creation to their end: when it is taken no task of it is left, running or not
\* waited for, to burden the next one, and iter of them were born, unless a
\* creation failed or the system does not allow iter processes at a time.
EveryTaskTimed ==
  mpc = "sample" =>
    /\ alive = <<>> /\ zombies = 0
    /\ born = Iter \/ failed > 0 \/ (kind = "process" /\ limit < Iter)

\* Each line is printed once although every child ends with exit(0), which
\* flushes what it inherited of its parent's output.
ReportedOnce == IsPrefix(out, <<1, 2>>)

\* The benchmark ends: a fork that fails does not leave it waiting.  Only a thread
\* that could not be created may.
Completes == <>(mpc = "done" \/ (kind = "thread" /\ failed > 0))

=============================================================================
