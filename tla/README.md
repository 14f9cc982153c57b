# sys-perf in TLA+

`sys-perf` is a set of small C++ programs, each of which measures one property of
a machine: context switches, process creation, memory latency, file reads, round
trips. A program is correct if the number it prints is the time of what its
divisor says, and if it ends. In the programs that time one loop this depends on
where the timer stands, which core is asked, what the loop touches and what the
page cache holds; in those that fork, start threads or talk to servers, also on
interleavings, on failing system calls and on two processes agreeing how often
they will meet. This project models all of the benchmarks and the three utility
classes they share, checks them with TLC and proves what matters most with TLAPS.

Paths are relative to the directory that holds `src/`; the repository's own
source directory is therefore `src/src/`.

## Inventory

| component | source | state | operations | what is hard |
|---|---|---|---|---|
| RTT and bandwidth benchmarks | `Network/rtt.cpp`, `bw.cpp`, `remote_rtt.cpp`, `remote_bw.cpp` | listening socket, one thread per connection, loop counters of the client, descriptors | start, accept, handle, join; probe, connect, send, receive, wait | two processes count connections independently; threads outlive the accept loop; failing connects, foreign connections |
| Process context switch | `CPU/ctxswitch.cpp` | pipes, children, descriptors | open, fork, pass the token, reap, close | children start in any order; fork fails half way |
| Thread context switch | `CPU/ctxswitchkernel.cpp`, `utils/proc.hpp` | pipes, threads, the `int[2]` each reads its ends from, affinity | create, pass, join | data read after its creator went on; affinity of the wrong thread |
| File contention | `Filesystem/fileContention.cpp`, scripts | a tree of processes with copies of the run loop | fork, read, wait, report | children return into the parent's loop; missing return; ignored failures |
| Connection overhead | `Network/server.cpp`, `client_setup.cpp`, `client_teardown.cpp`, `Makefile` | listen queue, descriptors, samples | accept, close, connect, sample | full queue, dead server, ports that differ |
| Stats | `utils/stats.hpp`, `stats.cpp` | vector of samples | `run_func`, `mean`, `median`, `variance`, `std_dev`, `reset_vals` | samples accumulate; `median` sorts in place |
| use_cores | `utils/proc.hpp` | affinity | set | names the process, called in threads; throws without the core |
| Timer | `utils/timer.*` | two counter readings in halves | `begin`, `end`, differences | counters of two cores, wrap-around |
| Process and thread creation | `CPU/createProcess.cpp`, `createThread.cpp` | children, zombies, `tid`, output buffer | create, exit, reap or join, print | ignored failures, limits, flushing children |
| CSV writer | `utils/csvfile.h` | first-in-row flag, stream buffer, file | `<<`, `endrow`, `flush`, destructor | quoting; what is on disk when the program dies |
| Memory | `Memory/ramAccessTime.cpp`, `readBW.cpp`, `writeBW.cpp`, `pageFault.cpp` | arrays, mapping, page cache | chase, unrolled walk, mapped access | strides against sizes, accesses behind the end |
| File reads | `Filesystem/readtime_*.cpp`, `remote_readtime_*.cpp`, `cache_size.cpp` | file, position, page cache | drop, warm, seek, read | sizes and offsets, missing or short files, root |
| Straight-line loops | `CPU/syscall.cpp`, `procedureCallOverhead.cpp`, `readTimeOverhead*.cpp` | counter, one Stats object for all experiments | loop, reset | samples of one experiment in the next |

The programs interact with each other only in `Network/` (a client and its
server, over TCP) and through the scripts and the Makefile (ports, files). Every
program calls `Stats::run_func` with its measuring function, and most bind
themselves with `use_cores`. `PROJECT.json` lists each component with its status
and every hazard with its line.

## Modules

| module | models | extends / instances |
|---|---|---|
| `NetBench` | the four programs of the RTT and bandwidth benchmarks | |
| `TokenRing` | abstract: a token that goes round, lap by lap | |
| `ProcessRing` | `ctxswitch.cpp` | `TokenRing` by refinement |
| `ThreadRing` | `ctxswitchkernel.cpp`, `use_cores` in threads | `TokenRing` by refinement |
| `FileContention` | `fileContention.cpp` with `run_func` and its scripts | |
| `ConnBench` | `server.cpp`, both clients, the Makefile's ports | |
| `TaskCreation` | `createProcess.cpp`, `createThread.cpp` | |
| `Timer` | `utils/timer.*`, `use_cores` in a process of one thread | |
| `TimedLoops` | the single-process benchmarks of `CPU/`, `Memory/` and `Filesystem/` | `Timer` |
| `CsvFile` | `utils/csvfile.h` | |
| `Stats` | `utils/stats.*` | |
| `MCNetBench`, `MCConnBench`, `MCTimedLoops`, `MCCsvFile` | constants for TLC | the module they name |
| `TokenRingProofs`, `ProcessRingProofs`, `ThreadRingProofs`, `NetBenchProofs`, `ConnBenchProofs`, `FileContentionProofs`, `TaskCreationProofs`, `TimedLoopsProofs` | theorems | the module they name, the last one `Stats` and `CsvFile` too |

### NetBench

`spc[h]` is the main thread of the server on host `h` ("start", "accept",
"join", ended), `thr[h]` its `vector<thread>`: one record for each call of
`accept()`, with the descriptor the lambda captured (0 for -1) and how far it
is. `conns[h]` are the connections established with `h`, the first `acc[h]`
accepted. The client is `cpc` with the counters of its loops (`probing`, `iter`,
`req`), the host it measures (`leg`) and the sockets it has leaked. The variable
`echo`, chosen in `Init`, is TRUE for `rtt` (client sends, handler receives and
echoes) and FALSE for `bw` (handler sends at once). `measure_rtt` and `measure_bw` are `NextRequest`.

TCP is modelled by what its two ends observe. A connection exists as soon as the
server listens, accepted or not. A process that ends closes its connections; one
that was never accepted, or holds unread data, is reset, and the client's next
call consumes the reset. Data on an established connection is not lost. The
environment's faults are a failed `bind`/`listen`, a failed `accept`, a failed
`connect` although the server listens, and a stray connection of another program
that closes at once; `MaxFaults` bounds each. Without faults a client that
connects before the server listens is refused, which is the race of the probe
loop and no fault.

### TokenRing, ProcessRing, ThreadRing

`TokenRing` is what the divisor `iters * pipes` relies on: each of `N` stations
passes the token `Laps` times, in order. In `ProcessRing` the token is a byte in
`pipe[i]` or in child `i` between its `read` and its `write`; `cnt[i]` is the
child's loop counter. The refinement mapping sends the token's place to the
station that will read it. A pipe holds as many bytes as are in it: nobody
blocks on `write`. Every child holds both ends of every pipe, so `read` never
sees end of file. `OverheadLoop` is one step: the loop of `overhead()` writes
and reads within one process and leaves every pipe as it was.

`ThreadRing` keeps the `int[2]` of each thread in `heap` at an address, because
the comment of lines 99-100 is about that address, and the core of the main
thread and of each thread, because `use_cores` binds `getpid()`. In its overhead
phase one worker walks round the pipes, and acts for all stations in turn.
`MaxFaults` of the calls to `pipe`, `pthread_create` and `sched_setaffinity` may
fail. The first and the last throw, which nobody catches; the second is ignored,
and `JoinUndefined` is what joining an uninitialised id may do. A ring with a
thread missing stops, and `RingSpec` says that it never goes on out of turn.

### FileContention

`procs` maps each process, named by its path in the tree of forks, to its
control state and its own copies of the loop variables and of `m_vals`. The
parent's return value of `create_processes` is undefined in C++; the model
takes what the Makefile's unoptimised build leaves in the return register, the
loop counter. `files` is the number of files the script has created, chosen in
`Init` from `FileCounts`; opening a file beyond it ends the process. The reads
between open and close are one step.

### ConnBench

Clients of any number run `get_setup_overhead_time` or
`get_teardown_overhead_time`, which differ only in the line at which the timer
starts. `m_vals[c]` records for each sample whether its socket was connected. A
client goes through "socket", "connect" and "close" for each sample; a failed
`socket()` ends it ("exit1", `SocketFails`), a failed `connect()` does not
(`ConnectRefused`). `faults` counts the calls of the server that failed by
themselves (`socket`, `bind`, `listen`, `accept`), each of which ends it.

### TaskCreation

One main thread, of `createProcess` or of `createThread` (`kind`), and its
children. `alive` holds for each process the copy of `cout`'s buffer that
`fork()` made, because `exit(0)` flushes it; `zombies` are children that ended
and were not waited for, and count against `limit`, the number of processes the
system allows. `tid` is the variable that `pthread_join` reads: a failed
`pthread_create` leaves the id of a thread joined before, or none, in it, and
`JoinUndefined` is what joining that may do. `phase` 1 and 2 are the chrono and
the rtdsc function. `born` and `failed` are histories.

### Timer and TimedLoops

`Timer` keeps each reading of the counter in two halves of `Half` values, as the
code does, for a machine of some of `Cores` whose counters are `Offset[c]` apart.
`diff` is the difference modulo the width. The process may be moved to any core
of its affinity (`Migrate`), and `use_cores` restricts that.

`TimedLoops` is what main() and its measuring function do in eleven programs:
for each setting (a function, a stride, a file) pin, then `m_runs` times drop
the page cache, open, walk with the timer inside or around the loop, sample; then
report and reset. The programs differ in a record (`Programs`): where the timer
stands, how the loop walks, the core, what happens to the page cache. A block is
what the page cache holds or drops as one, a cell what the loop touches at a
time. `cache` lists the blocks held, the last used first: a block that is used is
taken from its `Place` to the front, and if it has none there pushes out the last
of a full cache. `readSeq`, which warms it, reads block by block. `readtime_*` and `remote_readtime_*` differ in the path and a few
constants, and are one program here. A file is as long as the script says, half
as long, or absent. `done` counts the passes that did what is measured,
`visited` what they touched, and `busy` the time between `begin()` and `end()`.

`Array` says what `array[i]` holds in the loops that run from `iter` down to 1
over an array filled from 0 to `iter - 1`: for `i = iter`, anything the stack
may hold. The first pass of these loops therefore reads at an arbitrary place or
behind the end of the file, and in `pageFault` may end the process (`StrayPass`).

`ValsReset(s)` is what `Stats` holds when setting `s` begins: a new object, or what
the call of `reset_vals()` before it leaves (sixteen in `procedureCallOverhead`,
one in `readTimeOverhead` and `readTimeOverheadLoop`, where the first experiment
needs none).

### CsvFile

`buf` is the stream's buffer and `disk` what has reached the file; any part of
the buffer may go to the file whenever something is written (`Put`), and
everything at `endl`, `flush` and in the destructor. A write the file refuses is
an exception of the stream; on its way to a handler `~csvfile()` flushes, throws
again, and the program is terminated. `Exit` is `exit()` or a signal: no
destructor runs. Strings are sequences over the quote, the separator, the line
end and one character without meaning; `escape` is `csvfile::escape`. `ReadFile`
is the reader the properties are about, Python's csv module with its default
dialect: `Read` is where it stands after each character. `writer` is the control
state of the program that writes.

### Stats

One object; `Samples` are integers that stand for the doubles of `Stats<double>`,
which all programs use. `runs` is a history variable: the calls of
`run_func` since the last reset. `median()` is modelled with its in-place sort:
`Sorted` is the ascending sequence with as many samples in every set of values
(`Count`). `TwiceMedian` is twice its value, so that it stays an integer; the division by two
is exact up to the rounding of doubles. `Stats<int>`, which `stats.cpp:78`
instantiates and nobody uses, would truncate it and is not modelled. `get_vals()`
has no caller either.

## Runs

| run | module, cfg | checks | bounds | distinct states |
|---|---|---|---|---|
| `net` | `MCNetBench`, `Net` | `TypeOK`, `AnsweredUnlessFault`, `SlotsMatchDemand`, `ClosedOnlyAfterReply`, `RecvReturns`, `BenchCompletes` | `rtt` and `bw`, 1 sample of 2 requests on each leg, 2 descriptors, each kind of fault once | 165,137 |
| `token_ring` | `TokenRing` | `InStep` | 6 stations, 20 laps | 121 |
| `process_ring` | `ProcessRing` | `TypeOK`, `OneToken`, `EveryPassTimed`, `PipesAvailable`, `Completes`, `RingSpec` | 4 children, 2 laps, 2 samples per phase, 9 descriptors, one failing `pipe` or `fork` | 215 |
| `thread_ring` | `ThreadRing` | `TypeOK`, `DistinctEnds`, `RingSharesCore1`, `EveryPassTimed`, `Completes`, `RingSpec` | 4 threads, 2 laps, 2 samples per phase, 2 failing calls | 2,219 |
| `file_contention` | `FileContention` | `TypeOK`, `RootReportsLast`, `FirstRunFilesDistinct`, `Completes` | 2 children per process, 2 runs (9 processes), 2 or 3 files, one failing fork | 111,574 |
| `conn_clients` | `MCConnBench`, `ConnClients` | `TypeOK`, `ServerStays`, `SamplesAreConnections`, `ClientsFinish` | 3 clients of 3 samples, one of them with the port of the remote rules, queue of 2, 2 descriptors, one failing call of the server, failing `socket()` of any client | 27,665 |
| `stats_calls` | `Stats` | `StatsTypeOK`, `MedianIsMiddle` | 3 samples per call, 6 in all, of 3 values | 757 |
| `timed_loops` | `MCTimedLoops` | `TypeOK`, `SumIsElapsed`, `TimedWork`, `CacheAsIntended`, `OneExperiment` | 11 programs, 2 settings, 2 samples of 3 passes, arrays of 6 cells, files of 5 and 6 blocks, a page cache of 5, a counter of 9 values on 1 or 2 cores | 2,666,394 |
| `task_creation` | `TaskCreation` | `EveryTaskTimed`, `ReportedOnce`, `Completes` | 4 tasks per sample, 2 samples, room for 2 or 4, 2 failing creations | 1,635 |
| `csv_file` | `MCCsvFile`, `CsvFile` | `RowsOnDisk`, `ReadsBack` | 2 rows and 2 fields at most, strings of up to 2 of 4 characters | 76,938 |

What the passing runs show: `rtt` and `bw` measure what they divide by, and both
servers end, as long as the environment does not interfere; with interference a
live server still closes a connection only after its reply
(`ClosedOnlyAfterReply`), and no client stays in `recv` for ever
(`RecvReturns`). Both rings implement the same abstract ring, whatever call fails
in them. Nothing in the file benchmark outlives the report, although nobody
waits for grandchildren. A sample of `createProcess` leaves nothing behind, and
its children do not repeat the output. The sum of differences of the counter is
the time inside the intervals because every program binds itself to a core first;
the loops touch the cells and blocks their divisor says, starting from the cache
they are meant to start from. A row of a CSV file is readable from `endrow()` on.

The remaining runs end in a counterexample: they check what a comment or a
script says of the program, and show where the code does otherwise.

| run | says | the code |
|---|---|---|
| `rtt_lost_connect` | the server's loop is one longer than the requests, "to account for the initial connection check" | a measured `connect()` that fails is not repeated; the server waits for ever |
| `file_contention_crowd` | "Running for ${n_processes} processes" | nobody waits between the runs, so the children of one run still read when those of the next are forked |

The code departs from its labels or its intentions in more places. They are
visible in the models, in guards of the properties or in what is left out, and
have no runs of their own:

- Each attempt of the probe loop leaks its socket, so `BenchCompletes` assumes
  that descriptors are left.
- After a failed `fork` in `ctxswitch` nobody signals the children, which then
  stay in `read`. Without core 1 they end before they pass the token, and
  `EveryPassTimed` is stated for a machine that has the core.
- Called in a thread, `use_cores` binds the main thread; `RingSharesCore1` holds
  because the threads of the ring inherit the core the overhead phase left there.
- The Makefile's remote rules connect to port 8070, the server listens on 8080:
  every sample is then a refused connect, as it is on any port once the server has
  died. `SamplesAreConnections` says which samples are.
- `variance()` returns the standard deviation, and `std_dev()` its square root;
  `fileContention.cpp:173` prints the former as "Variance :".
- `pread` in `fileContention` is given a null buffer and reads nothing.
- The loops over `array[i]` use `array[iter]`, which nothing has set; `TimedWork`
  excepts that pass.
- `cache_size` seeds `rand()` with the seconds, so two samples within one second
  read the same blocks.
- The scripts make files of 1 GB and more with reads of `/dev/urandom` that
  return less than they are asked for. Behind the end of such a file `read()`
  returns 0, and is counted. `TimedWork` is stated for complete files.
- `pageFault` does not look whether dropping the page cache succeeded;
  `CacheAsIntended` is stated for root there.
- `createThread` joins whatever id a failed `pthread_create` leaves;
  `EveryTaskTimed` and `Completes` are stated for creations that succeed.
- `test_csv` catches exceptions of the writer, but a file that refuses more data
  ends the program first: the destructor throws during unwinding.

### Why the bounds are enough

Two requests on each of two legs, with the probe, put connections of different
requests into a server at a time and let every counter of the client be reset;
with several samples the type invariant and the fault-free properties are proved
(below), and two samples of one request, which pass as well, have as many states.
Two samples of two requests with every fault are beyond what TLC visits in
minutes; liveness and the properties under faults are checked for one sample. Two
descriptors let the probe loop retry and run out. One fault of each kind, in any
order and at any point, already combines four faults. Four stations tell "next"
from "previous" and "skip one" in a ring, which two or three do not. Two samples
in each phase show what is left over from one sample to the next; nine
descriptors are one more than a sample of four pipes needs, so a single
descriptor left open is noticed. Two failing calls leave two threads out of a
ring of four, or one in each phase. Two runs in `FileContention` are the first in
which a forked child forks; with two files the file after the children's is
missing, with three it exists. A queue of two with two
clients on the server's port is full and empty in turn; a third client has another
port. Six samples hold an even and an odd number of values, with ties.

Four tasks in a sample and a limit of two make forks fail while children run and
while they are zombies; with a limit of four they never do. Three passes of a
timed loop are a first, a last and one between, and a counter of nine values
wraps within an interval; two counters four apart would give a difference of
their own if a process moved. A stride of 9 in an array of 6 cells shares a
factor with the size and is larger than it, a stride of 12 is a multiple of it.
A file of 5 blocks fits into the page cache of 5, one of 6 does not, and both
leave exactly as few starts for a sequential walk of 3 blocks as the formula of
the code allows. Two fields in up to two rows, of every string of two characters
out of quote, separator, line end and another one, contain each pair of
characters the reader can confuse, at the border of fields and rows as well.

### Fairness

Every process and thread that can take a step eventually does: the system
scheduler runs each of them and none of these programs uses priorities. Nothing
obliges the environment to fail, so fault actions have no fairness; `ClientsFinish`
of `ConnBench` lets a client end early only by such a failure of its own. `NetBench`
assumes that the remote operator starts the server (`ServerStart`).
`BenchCompletes` speaks only of runs in which the probes do not use up the
descriptors, since the loop that waits for the server would then never end. In
`FileContention` weak fairness of the union of all steps suffices, because no
process repeats a state. `TaskCreation` has fairness of the main thread and of
the children together, which end on their own. `Completes` of `ThreadRing` and
`TaskCreation` speaks of behaviours in which the calls whose results the code
ignores do not fail. `TimedLoops`, `CsvFile` and `Stats` have no liveness property
and no fairness: nothing in them waits, and what is written to a `Stats` or a
`csvfile` is up to its caller.

Deadlock is checked except where the programs really stop for good: `net` and
`rtt_lost_connect` (a server whose client is gone), `process_ring` (orphaned
children), `thread_ring` and `task_creation` (a join that never returns, and the
end), `csv_file` (the end).

## Proofs

`TokenRingProofs` proves `RoundRobin`: `TypeOK` and `InStep` for every number of
stations, laps and every first station. `InStep` is not inductive through
`Restart` and `Pass` without knowing that the station whose turn it is has not
finished unless all have; the lap counts of all stations are determined by one
of them and the place of the token, which is the inductive invariant.

`ProcessRingProofs` proves, for every `N`, `iters`, `Runs`, `FdLimit`, any number
of faults and with or without core 1:

- `Typing`, `SingleToken` (`OneToken`), `PassesTimed` (`EveryPassTimed`) and
  `NeverOutOfPipes` (`PipesAvailable`) from one inductive invariant. It adds to
  the types what the control states imply: which children exist and what they
  have counted in each state of the parent, how many descriptors are open in each
  state, and that the counts of neighbours and the place of the token agree.
  `OneToken` is not inductive alone: that no child finishes early and that
  `Kick` finds all pipes empty are what the count of passes gives.
- `Refinement`: `Spec => RingSpec`. Every `Write` is a `Pass` of the abstract
  ring, `OpenPipes` is `Restart` or a stutter, everything else stutters.

The assumptions are those named in the modules (`RingAssumption`,
`ProcessRingAssumption`, `ThreadRingAssumption`, `NetAssumption`, `ConnAssumption`,
`FileContentionAssumption`, `TaskCreationAssumption`, `TimerAssumption`,
`TimedLoopsAssumption`, `StatsAssumption`, `CsvFileAssumption`): at least one
station, run, request, sample, descriptor and task, two laps of the threads, files
longer than the passes read of them, samples that are integers, a counter that does
not wrap round within one interval more than once, and numbers whose text is not
empty and has no quote, separator or end of line in it.

`ThreadRingProofs` proves, for every `N`, `iters`, `Runs` and any number of
failing calls:

- `Typing` (`TypeOK`), `EndsDistinct` (`DistinctEnds`), `RingOnCore1`
  (`RingSharesCore1`) and `PassesTimed` (`EveryPassTimed`) from one inductive
  invariant. That the main thread creates and joins the threads in order
  (`Creating`, `Joining`) and that a thread has counted all its passes when it
  ends (`Counting`) give the passes; that each thread of the ring keeps the
  `int[2]` it was created with (`OwnCells`) gives the pipe ends. `Core1` follows
  the core from the worker of the overhead phase, which binds the main thread
  because `getpid()` names it, to the threads that inherit it.
- `Refinement`: `Spec => RingSpec`, for both phases. It needs that the counts of
  all threads differ by at most one, those before the turn being ahead
  (`OneAhead`): a thread that failed before its first pass then stops the ring
  before any other thread can end, if `iters` is at least 2.

`NetBenchProofs` proves, for `rtt` and `bw`, every `REQUESTS`, `ITERATIONS`,
`FdLimit` and every budget of faults:

- `Typing` (`TypeOK`), which holds whatever faults happen;
- `Answered` (`AnsweredUnlessFault`): without faults no measured request goes without its
  complete reply and the client never aborts;
- `SlotsMatch` (`SlotsMatchDemand`): without faults the `accept()` calls left are the
  connections queued or still to be made;
- `ClosesAfterReply` (`ClosedOnlyAfterReply`): whatever faults happen, a server
  that has not failed itself closes a connection only when the client has the
  whole reply or has closed it.

`Answered` and `SlotsMatch` need each other. That the client's last `recv` is not cut off
follows from the server being still in its loops, which follows from its calls
not being used up, which is the count; the count in turn stays right only while
no connect of the measuring loop is refused. The inductive invariant `IInv` is
therefore types, the indices of handlers and client (`Indices`), the client's
loops (`Loops`) and, as long as there was no fault, `Quiet`: per server that a
thread exists for each accepted connection and all are done when it has ended,
per handler that its connection is as far as the handler is, per connection that
it was not reset and is closed by the client only when answered, and per host
the balance of connections made and to be made (`Balanced`). Each action has a
lemma of its own; `HandlerFrame`, `ServersStayQuiet` and `OtherHost` say once
what a step leaves alone. The only arithmetic that is not linear is in
`RequestsLeft` and `NextLoops`.

`ClosesAfterReply` cannot use `Quiet`, which faults end. Its invariant `Served`
says per handler how far its connection is (`Answering`), that every accepted
connection has a handler that `join()` waits for (`Attended`), and that what is
closed is settled (`ClosesSettled`). It rests on facts that only grow, so that a
step of anyone else keeps them: a request or a reply that arrived and an end that
the client closed (`Progress`).

`ConnBenchProofs` proves, for any set of clients, `N_RUNS`, queue, limit of
descriptors and number of failures:

- `Typing` (`TypeOK`);
- `ServerNeverLeaves` (`ServerStays`): the server holds one descriptor between
  `accept` and `close` and none elsewhere (`Balance`), so the limit never bites;
- `SamplesByPort` (`SamplesAreConnections`): a sample of a client with the server's
  port, as the Makefile's loopback rules give it, is of a connection until the
  server dies of a failed call, and one of any other client never is. It rests on
  the clients being started after the server (`Samples`) and on what is true of a
  client between `connect` and `close` (`Established`);
- `OtherPortSamples`: under the Makefile's remote rules, where the ports differ,
  a client still ends with all of its samples, each of a refused `connect()`.

`FileContentionProofs` proves, for any number of children per process, runs, files
and failing forks, so for trees of any depth:

- `Typing` (`TypeOK`), `ReportsLast` (`RootReportsLast`) and `FirstRunFiles`
  (`FirstRunFilesDistinct`);
- `ReportIsComplete`: with every file in place the report has one sample of each
  run, in order, although the children fill copies that come back to nobody;
- `ForksAreFresh`: a fork never makes a process that existed before.

A process waits for its own children only. That nothing of its tree outlives it
(`ParentsLast`) is stated over all ancestors of a process, not over its parent,
which saves an induction over the length of paths: when a process exits its
children have, and whoever descends from it descends from a child. What a process
has forked so far is told from its loop counters (`Earlier`), so that a path
names one process only.

`TaskCreationProofs` proves, for every `Iter`, `Runs`, every set of process limits
and any number of failing creations:

- `CreationTyping` (`TypeOK`);
- `TasksTimed` (`EveryTaskTimed`): when a sample is taken no task is left, and
  `iter` were born unless a creation failed or the limit is below `iter`;
- `PrintedOnce` (`ReportedOnce`): every line is printed once.

`EveryTaskTimed` is about the moment of the sample only. The inductive invariant
says for each control state how many tasks there are (`ProcessTasks`,
`ThreadTasks`): at most as many as the loop has created, none before the loop and
after the last `wait` or `join`, one while a thread is joined, and that `born` and
`left` add up to `iter` unless a creation failed. The limit enters there: a fork
is refused for want of room only if there are `limit` tasks, so `limit < iter`.
`ReportedOnce` needs that the buffer is empty whenever a process is forked
(`Output`): then every copy in `alive` is empty, and what a child flushes is
nothing.

`TimedLoopsProofs` proves, for every `Half` (2^32 in the code, 3 in the run), every
offset between the counters of the cores, every number of passes, runs, strides
and files:

- `ElapsedSummed` (`SumIsElapsed`): the differences added up are the time that
  passed between `begin()` and `end()`;
- `SamplesOfOne` (`OneExperiment`);
- `Typing` (`TypeOK`);
- `CacheHolds` (`CacheAsIntended`): what the page cache holds at the first pass;
- `PassesWork` (`TimedWork`): the timed passes do the work they are divided by.

Two facts carry the first. The process is bound to one core whenever it times
(`Bound`), so that both readings are of one counter. And between `begin()` and
`end()` that counter is ahead of the first reading by the time counted since,
modulo its width, a time that grows with the passes by at most `Longest` each
(`Interval`). `TimedLoopsAssumption` says that all passes of a loop take less than
one turn of the counter; from that `Elapsed` concludes that the difference is the
time. `ModUnique` and `ModAdd` are the arithmetic this needs.

`CacheHolds` needs more than what the cache holds at the end of `readSeq`: blocks of
other files may be in it, and a block that is used pushes one out when the cache is
full. The invariant `Data` says that the blocks `readSeq` has read are the first ones
of the cache (`InFront`), which `UseOfCache` keeps, so that a file that fits is
there completely; from then on every block that is used is there, and replaces none
(`NothingReplaced`). `PassesWork` follows from `Walked`, which says after each pass
which cells or blocks the passes made so far visited. For the chase these are the
multiples of the stride modulo the length of the array; `ChaseCells` proves that
they are `n / gcd(n, stride)` or, if that is less, as many as passes, through the
least number of steps after which the chase is back at its first cell.

The last section is about `Stats`, for any set of samples and any number of them:
`StatsTyping` (`StatsTypeOK`) and `MedianMiddle` (`MedianIsMiddle`).
`StatsTypeOK` is inductive by itself. Both rest on `SortedIs`, that the sorted sequence exists and has the samples of the first:
`SortingExists` reorders any finite sequence of integers into an ascending one, and
`ReorderedCount` counts through that bijection. In an ascending sequence at most
`k - 1` samples are less than the `k`-th (`CountBounds`). The theorems stand in this
module because `Stats` is the class its programs sample with, and they share the
lemma that a set of numbers has a least one; induction over the numbers is stated
as membership in a set (`SetInduction`), which needs no operator parameter.

It then proves `RowsStay` (`RowsOnDisk`) and `FileReadsBack` (`ReadsBack`) of
`CsvFile`, for all strings over any characters, all numbers whose text has no
character with a meaning, files of any length, every way the buffer is emptied and
every moment at which the file refuses more or the program ends. `Read` and `escape`
are defined by recursion over the length of a text. `Recursion` proves, by induction
over membership in a set, that such functions exist; `ReadTrace` gives the reader's
states one by one, and `ReadConcat` that reading `t` and then `u` is reading
`t \o u`. From it follow the two facts about a single field, that the reader undoes
`escape` (`ReadsEscaped`) and takes a number as it is (`ReadsNumber`). The invariant
`CsvInv` has two halves, because the file alone says little about a stream that
buffers: a reader of the file and the buffer has all rows that were ended and the
fields of the next one (`Has`), until the program ends without its destructor; and a
reader of the file alone has at least the rows that were ended. The second half
survives any write since more text never takes a row away (`ReadKeepsRows`), and it
takes in the next row at `endrow`, which leaves nothing in the buffer.

Only model-checked: every liveness property (`Completes`, `ClientsFinish`,
`RecvReturns`, `BenchCompletes`), since liveness under fairness is outside what the
prover handles. Every invariant and action property the passing runs check is
proved.

## Not modelled

- The tests, plots and recorded data: not part of the running system. The scripts
  that create files appear as the lengths of files (`FileContention`,
  `TimedLoops`).
- The values of samples, floating point arithmetic (`mean()`, `variance()`, the
  scaling of differences), the text of the reports.
- What a compiler makes of the code: `readBW` adds up the array in plain loops and
  keeps the sum in a volatile, `writeBW` stores to an array it frees unread, and the
  Makefile builds both with `-O2`. The compiler may vectorise the loads (the comment
  in `readBW.cpp` about idiom recognition is about that), and drop the stores
  or move either past the timer, whose asm statements have no
  memory clobber. The model has every load and store, between `begin()` and `end()`.
- The functions `main()` never calls: the outer-loop variants of
  `createProcess` and `createThread`, `memory_access_time_fixed_array_size`.
- Failing `malloc`, `posix_memalign` and `mmap`, a `gethostbyname` that returns
  NULL, `pthread_create` failing in the servers.
- The footprint arrays of the context-switch benchmarks: they cost time and
  change nothing.

## Plan

Done: all modules of the table above, with their runs, and the proofs above.

Next, in this order:

1. An abstract service for `NetBench` (each request answered once, in order) that
   both message patterns implement, and a composition of `ConnBench` clients with
   a `NetBench` server on the same port in place of the stray fault; `ctxswitch`
   with the `CsvFile` it writes from one process while children are forked.
