--------------------------- MODULE FileContention ---------------------------
(***************************************************************************)
(* src/src/Filesystem/fileContention.cpp: the time of a block read while   *)
(* other processes read too.  main() calls run_func (src/utils/stats.cpp), *)
(* which calls start_file_reading N_RUNS times; each call forks            *)
(* n_processes children, and a child returns from start_file_reading into  *)
(* its own copy of that loop, where it goes on with the remaining runs and *)
(* forks again.  A process is named by its path from the first one:        *)
(* <<run, i>> is the i-th child forked in a run.                           *)
(***************************************************************************)
EXTENDS Integers, Sequences, FiniteSets

CONSTANTS
  n_processes,  \* argv[1]
  N_RUNS,       \* runs of each process (5)
  FileCounts,   \* how many files there may be (makeFiles.sh: 12)
  MaxFaults     \* how often fork() may fail

ASSUME FileContentionAssumption ==
  /\ n_processes \in Nat
  /\ N_RUNS \in Nat \ {0}
  /\ FileCounts \subseteq Nat
  /\ MaxFaults \in Nat

Birth == (0..(N_RUNS - 1)) \X (0..(n_processes - 1))
Path == Seq(Birth)
Root == <<>>

VARIABLES
  procs,   \* every process ever forked, with its state
  report,  \* the samples the statistics were printed of; <<>> until then
  files,   \* file0.txt .. file<files - 1>.txt are there; nothing changes that
  failed   \* fork() failures so far

vars == <<procs, report, files, failed>>

\* m_vals is the process's own copy of the vector in Stats: the runs sampled.
Proc == [pc     : {"fork", "read", "wait", "exited"},
         run    : 0..N_RUNS,
         i      : 0..n_processes,   \* loop counter of create_processes
         idx    : 0..n_processes,   \* file_idx
         m_vals : Seq(0..(N_RUNS - 1))]

Init ==
  /\ procs = [p \in {Root} |-> [pc |-> "fork", run |-> 0, i |-> 0, idx |-> 0,
                                m_vals |-> <<>>]]
  /\ report = <<>>
  /\ files \in FileCounts
  /\ failed = 0

Born == DOMAIN procs
At(p, at) == procs[p].pc = at
Child(p) == Append(p, <<procs[p].run, procs[p].i>>)
ChildrenOf(p) == {q \in Born : q # Root /\ SubSeq(q, 1, Len(q) - 1) = p}

-----------------------------------------------------------------------------
(* create_processes *)

\* fork() returns in the parent, which goes on, and in the child, where
\* create_processes returns i.
Fork(p) ==
  LET parent == procs[p]
      child  == [parent EXCEPT !.pc = "read", !.idx = parent.i]
  IN
  /\ At(p, "fork")
  /\ parent.i < n_processes
  /\ procs' = [q \in Born \cup {Child(p)} |->
                IF q = p THEN [parent EXCEPT !.i = @ + 1]
                ELSE IF q = Child(p) THEN child
                ELSE procs[q]]
  /\ UNCHANGED <<report, files, failed>>

\* pid < 0: the loop goes on.
ForkFails(p) ==
  /\ At(p, "fork")
  /\ procs[p].i < n_processes
  /\ failed < MaxFaults
  /\ failed' = failed + 1
  /\ procs' = [procs EXCEPT ![p].i = @ + 1]
  /\ UNCHANGED <<report, files>>

\* After the loop create_processes has no return statement.  In the Makefile's
\* unoptimised build the caller finds the loop counter in the return register.
ValueOfParentZero == 0                 \* mutant: the register holds 0
ValueOfParentNext == n_processes + 1   \* mutant: it holds i + 1
ValueOfParent == n_processes

ForkLoopEnds(p) ==
  /\ At(p, "fork")
  /\ procs[p].i = n_processes
  /\ procs' = [procs EXCEPT ![p].pc = "read", ![p].idx = ValueOfParent]
  /\ UNCHANGED <<report, files, failed>>

-----------------------------------------------------------------------------
(* start_file_reading and run_func *)

\* get_file_size: exit(0) if the file is not there.
MissingFile(p) ==
  /\ At(p, "read")
  /\ procs[p].idx >= files
  /\ procs' = [procs EXCEPT ![p].pc = "exited"]
  /\ UNCHANGED <<report, files, failed>>

\* run_func: for (int i = 0; i < m_runs; i++).
RunsLeft(r) == r + 1 < N_RUNS

\* The blocks are read and timed (pread's result is not looked at), the sample is
\* returned to run_func, and the next run begins, or main() goes on to its wait
\* loop.  Nobody waits here for the children of this run.
ReadFile(p) ==
  LET r == procs[p].run IN
  /\ At(p, "read")
  /\ procs[p].idx < files
  /\ procs' = [procs EXCEPT
                 ![p].m_vals = Append(@, r),
                 ![p].run = r + 1,
                 ![p].i = 0,
                 ![p].pc = IF RunsLeft(r) THEN "fork" ELSE "wait"]
  /\ UNCHANGED <<report, files, failed>>

\* Mutant: wait(NULL) is called once, not in a loop.
ReapedOne(p) ==
  ChildrenOf(p) = {} \/ \E q \in ChildrenOf(p) : At(q, "exited")
\* Mutant: the loop is while (wait(NULL) <= 0).
ReapedSome(p) ==
  ChildrenOf(p) # {} /\ \A q \in ChildrenOf(p) : At(q, "exited")
\* while ((wait(NULL)) > 0): wait returns -1 once there is no child left.
Reaped(p) == \A q \in ChildrenOf(p) : At(q, "exited")

\* getpid() == parent_pid
Reports(p) == p = Root

WaitAndExit(p) ==
  /\ At(p, "wait")
  /\ Reaped(p)
  /\ procs' = [procs EXCEPT ![p].pc = "exited"]
  /\ report' = IF Reports(p) THEN procs[p].m_vals ELSE report
  /\ UNCHANGED <<files, failed>>

Steps(p) ==
  \/ Fork(p) \/ ForkLoopEnds(p) \/ MissingFile(p) \/ ReadFile(p)
  \/ WaitAndExit(p)

AllExited == \A p \in Born : At(p, "exited")
Finished == AllExited /\ UNCHANGED vars

Next == (\E p \in Born : Steps(p) \/ ForkFails(p)) \/ Finished

Spec == Init /\ [][Next]_vars

\* Every process that can run does; fork is not obliged to fail.
FairSpec ==
  /\ Spec
  /\ WF_vars(\E p \in Born : Steps(p))

-----------------------------------------------------------------------------
(* Properties *)

TypeOK ==
  /\ Root \in Born
  /\ Born \subseteq Path
  /\ \A p \in Born : procs[p] \in Proc
  /\ report \in Seq(0..(N_RUNS - 1))
  /\ files \in FileCounts
  /\ failed \in Nat

\* With every file in place, the statistics are printed after all the processes
\* that ever read have ended, although each process waits only for its own
\* children and the process tree grows with every run.
RootReportsLast ==
  n_processes < files /\ report # <<>> => AllExited

\* In the first run every process reads a file of its own: the children theirs
\* and the parent the one after them.
FirstRunFilesDistinct ==
  \A p, q \in Born :
    /\ At(p, "read") /\ At(q, "read")
    /\ procs[p].run = 0 /\ procs[q].run = 0
    /\ procs[p].idx = procs[q].idx
    => p = q

\* Every process ends, also when others exit early or a fork fails.
Completes == <>[]AllExited

\* "Running for ${n_processes} processes" (run_file_contention.sh:9, which
\* passes one less to the program): that many processes, n_processes + 1 here,
\* read at a time.  start_file_reading returns without waiting for the children it
\* has forked, so those of the next run read beside the ones still at it.
AtMostAsAnnounced ==
  Cardinality({p \in Born : At(p, "read")}) <= n_processes + 1

=============================================================================
