----------------------------- MODULE TimedLoops -----------------------------
(***************************************************************************)
(* The benchmarks that are one process timing one loop: procedure calls,   *)
(* the timer itself, system calls (src/src/CPU), memory latency, memory    *)
(* bandwidth and page faults (src/src/Memory), reads of cached and of      *)
(* uncached files (src/src/Filesystem).  Each main() takes m_runs samples  *)
(* for one setting (a function, a stride, a file) after another.           *)
(*                                                                         *)
(* The programs differ in what Programs says of them: whether begin() and  *)
(* end() are inside the loop ("each") or around it ("whole"), how the loop *)
(* walks through its data, the core it asks for, and what it does to the   *)
(* page cache.  Blocks stand for the 4 KB blocks and the 16 KB steps of a  *)
(* file; the chrono variants only read another clock.                      *)
(***************************************************************************)
EXTENDS Timer, Sequences, FiniteSets

CONSTANTS
  ITER,         \* passes of a timed loop
  ARR_SIZE,     \* cells of an array
  UNROLL,       \* cells one pass of a bandwidth loop touches
  Strides,      \* the strides of ramAccessTime, one for each setting
  FileBlocks,   \* blocks a file is said to have, one for each setting
  MappedBlocks, \* bound of pageFault's offsets
  CacheBlocks,  \* blocks the page cache holds
  Runs,         \* m_runs of Stats
  Durations,    \* time a pass may take
  Longest       \* no pass takes longer

Settings == DOMAIN FileBlocks

ASSUME TimedLoopsAssumption ==
  /\ ITER \in Nat \ {0} /\ Runs \in Nat \ {0} /\ CacheBlocks \in Nat \ {0}
  /\ UNROLL \in Nat \ {0} /\ ARR_SIZE \in Nat \ {0} /\ ARR_SIZE % UNROLL = 0
  /\ FileBlocks \in Seq(Nat) /\ FileBlocks # <<>>
  /\ \A s \in Settings : FileBlocks[s] > ITER + 1
  /\ DOMAIN Strides = Settings /\ \A s \in Settings : Strides[s] \in Nat
  /\ MappedBlocks \in 1..FileBlocks[1]
  \* The counter does not wrap within an interval.
  /\ Longest \in Nat /\ Durations \subseteq 0..Longest
  /\ ITER * Longest < Width /\ (ARR_SIZE \div UNROLL) * Longest < Width

Plain == [timing |-> "whole", walk |-> "none", core |-> 0, drop |-> "never",
          warm |-> FALSE]

ProcedureCall == [Plain EXCEPT !.timing = "each"]
ReadTimeOverhead == [Plain EXCEPT !.timing = "each"]
ReadTimeOverheadLoop == Plain
SystemCall == Plain
RamAccessTime == [Plain EXCEPT !.walk = "chase"]
ReadBW == [Plain EXCEPT !.walk = "unrolled", !.core = 1]
WriteBW == [Plain EXCEPT !.walk = "unrolled", !.core = 1]
ReadSequential == [Plain EXCEPT !.walk = "sequential", !.drop = "checked"]
ReadRandom == [Plain EXCEPT !.walk = "random", !.drop = "checked"]
CacheSize == [Plain EXCEPT !.walk = "random", !.warm = TRUE]
PageFault == [Plain EXCEPT !.walk = "mapped", !.drop = "ignored"]

Programs == {ProcedureCall, ReadTimeOverhead, ReadTimeOverheadLoop, SystemCall,
             RamAccessTime, ReadBW, WriteBW, ReadSequential, ReadRandom,
             CacheSize, PageFault}

VARIABLES
  prog,     \* the program
  root,     \* may it write drop_caches?
  length,   \* length[s]: the blocks file s has, Absent if there is no file
  mpc,      \* control state
  setting,  \* the function, stride or file being measured
  run,      \* samples taken for it
  vals,     \* what Stats holds: the setting each sample was taken for
  left,     \* the loop counter i, counting down
  pos,      \* idx of the chase; position of the file descriptor
  total,    \* the sum of the intervals
  cache,    \* the page cache, blocks of files, the last used first
  busy,     \* history: time that passed between begin() and end()
  done,     \* history: passes of this sample that did what is measured
  visited   \* history: cells or blocks this sample has touched

sampleVars == <<left, pos, total, busy, done, visited>>
vars == <<timerVars, prog, root, length, mpc, setting, run, vals, cache,
          sampleVars>>

AtMost(a, b) == IF a < b THEN a ELSE b
Absent == -1
\* The programs assume the scripts made every file, and as long as they say.
Blocks(s, kind) == CASE kind = "absent" -> Absent
                     [] kind = "short"  -> FileBlocks[s] \div 2
                     [] kind = "whole"  -> FileBlocks[s]
File == IF prog.walk = "mapped" THEN 1 ELSE setting
OfFile == prog.walk \in {"sequential", "random", "mapped"}
LastSetting == IF prog.walk = "unrolled" THEN 1 ELSE Len(FileBlocks)
Passes == IF prog.walk = "unrolled" THEN ARR_SIZE \div UNROLL ELSE ITER

\* Where main() begins with a setting: cache_size reads the whole file first, the
\* programs that read files call use_cores for each, the others only once.
FirstStep == IF prog.warm THEN "warm" ELSE "pin"
NextStep == IF prog.walk \in {"sequential", "random"} THEN FirstStep ELSE "drop"

Init ==
  /\ TimerInit
  /\ clock \in 0..(Width - 1)
  /\ prog \in Programs
  /\ IF OfFile
     THEN /\ root \in (IF prog.drop = "never" THEN {FALSE} ELSE BOOLEAN)
          /\ \E kind \in [Settings -> {"absent", "short", "whole"}] :
               length = [s \in Settings |-> Blocks(s, kind[s])]
     ELSE root = FALSE /\ length = FileBlocks
  /\ mpc = FirstStep
  /\ setting = 1
  /\ run = 0
  /\ vals = <<>>
  /\ cache = <<>>
  /\ left = 0 /\ pos = 0 /\ total = 0
  /\ busy = 0 /\ done = 0 /\ visited = {}

-----------------------------------------------------------------------------
(* Before the sample *)

\* The kernel's page cache: the block used goes to the front, from where it was or
\* in place of the last one if there is no room.
Place(c, b) ==
  IF \E k \in DOMAIN c : c[k] = b
  THEN CHOOSE k \in DOMAIN c : c[k] = b
  ELSE AtMost(Len(c) + 1, CacheBlocks)
Used(c, b) == <<b>> \o SubSeq(c, 1, Place(c, b) - 1)
                   \o SubSeq(c, Place(c, b) + 1, Len(c))
Cached(f, b) == \E k \in DOMAIN cache : cache[k] = <<f, b>>

OpenFails == OfFile /\ length[File] = Absent

\* cache_size's readSeq(): as many reads as the file should have blocks, of which
\* those at its end return nothing.
ReadSeq ==
  /\ mpc = "warm"
  /\ ~OpenFails
  /\ IF pos < length[File]
     THEN cache' = Used(cache, <<File, pos>>) /\ pos' = pos + 1 /\ mpc' = "warm"
     ELSE mpc' = "pin" /\ pos' = 0 /\ UNCHANGED cache
  /\ UNCHANGED <<timerVars, prog, root, length, setting, run, vals, left, total,
                 busy, done, visited>>

UseCores ==
  /\ mpc = "pin"
  /\ use_cores({prog.core})
  /\ mpc' = "drop"
  /\ UNCHANGED <<clock, online, start, end, prog, root, length, setting, run,
                 vals, cache, sampleVars>>

\* runtime_error("cant set required cores"), which nobody catches.
UseCoresThrows ==
  /\ mpc = "pin"
  /\ CannotUseCores({prog.core})
  /\ mpc' = "threw"
  /\ UNCHANGED <<timerVars, prog, root, length, setting, run, vals, cache,
                 sampleVars>>

\* sync(); write(ft, "3"), which only root may.  readtime_* give up if it fails,
\* pageFault goes on.
DropStatusIgnored == "open"   \* mutant: the result of write() is not looked at
DropStatus == IF prog.drop = "checked" /\ ~root THEN "exit1" ELSE "open"

DropCaches ==
  /\ mpc = "drop"
  /\ cache' = IF prog.drop # "never" /\ root THEN <<>> ELSE cache
  /\ mpc' = DropStatus
  /\ UNCHANGED <<timerVars, prog, root, length, setting, run, vals, sampleVars>>

\* rand() % (blocks - iter - 1): where a sequential walk begins.
StartsAnywhere == 0..(FileBlocks[File] - 1)   \* mutant: rand() % file blocks
Starts == 0..(FileBlocks[File] - ITER - 2)

\* open, lseek, mmap; or the array is allocated and filled.
OpenFile ==
  /\ mpc = "open"
  /\ ~OpenFails
  /\ pos' \in (IF prog.walk = "sequential" THEN Starts ELSE {0})
  /\ left' = Passes
  /\ total' = 0 /\ busy' = 0 /\ done' = 0 /\ visited' = {}
  /\ mpc' = "begin"
  /\ UNCHANGED <<timerVars, prog, root, length, setting, run, vals, cache>>

\* perror("File not read"); exit(1).
NoFile ==
  /\ mpc \in {"warm", "open"}
  /\ OpenFails
  /\ mpc' = "exit1"
  /\ UNCHANGED <<timerVars, prog, root, length, setting, run, vals, cache,
                 sampleVars>>

-----------------------------------------------------------------------------
(* The timed loop *)

BeginTimer ==
  /\ mpc = "begin"
  /\ Begin
  /\ mpc' = "work"
  /\ UNCHANGED <<clock, online, affinity, core, end, prog, root, length, setting,
                 run, vals, cache, sampleVars>>

PassTakesTime ==
  \E d \in Durations : clock' = (clock + d) % Width /\ busy' = busy + d

\* i-- and either the next pass or, inside or after the loop, t.end().
LastPass == left = 1
PassOver ==
  /\ left' = left - 1
  /\ mpc' = IF LastPass \/ prog.timing = "each" THEN "end" ELSE "work"

\* A call, a getpid(), or nothing.
CallPass ==
  /\ prog.walk = "none"
  /\ done' = done + 1
  /\ PassOver
  /\ UNCHANGED <<pos, visited, cache>>

\* mem[k] = (k + stride) % array_size; idx = mem[idx].
NextCell(k) == (k + Strides[setting]) % ARR_SIZE

ChasePass ==
  /\ prog.walk = "chase"
  /\ visited' = visited \cup {pos}
  /\ pos' = NextCell(pos)
  /\ done' = done + 1
  /\ PassOver
  /\ UNCHANGED cache

\* One pass of the outer loop: the inner one is unrolled.
UnrolledPass ==
  /\ prog.walk = "unrolled"
  /\ LET i == (Passes - left) * UNROLL
     IN  visited' = visited \cup i..(i + UNROLL - 1)
  /\ done' = done + 1
  /\ PassOver
  /\ UNCHANGED <<pos, cache>>

\* read(fd, bf, blocksize) at position p.  At the end of the file it returns 0,
\* which nobody looks at.
ReadBlock(p) ==
  IF p < length[File]
  THEN /\ cache' = Used(cache, <<File, p>>)
       /\ visited' = visited \cup {p}
       /\ done' = done + 1
       /\ pos' = p + 1
  ELSE /\ pos' = p
       /\ UNCHANGED <<cache, visited, done>>

SequentialPass ==
  /\ prog.walk = "sequential"
  /\ ReadBlock(pos)
  /\ PassOver

\* array[i] is filled for i < iter, but the loop that uses it runs from iter
\* down to 1: array[iter] is whatever is on the stack, a block, a position behind
\* the file or a negative number.
Negative == -1
Array(i) == IF i < ITER
            THEN 0..((IF prog.walk = "mapped" THEN MappedBlocks
                                              ELSE FileBlocks[File]) - 1)
            ELSE {Negative} \cup 0..FileBlocks[File]

\* lseek to a negative position fails and leaves the position as it was.
RandomPass ==
  /\ prog.walk = "random"
  /\ \E p \in Array(left) : ReadBlock(IF p = Negative THEN pos ELSE p)
  /\ PassOver

\* s = ptr[...] within the file.
MappedPass ==
  /\ prog.walk = "mapped"
  /\ \E p \in Array(left) :
       /\ p \in 0..(length[File] - 1)
       /\ cache' = Used(cache, <<File, p>>)
       /\ visited' = visited \cup {p}
  /\ done' = done + 1
  /\ PassOver
  /\ UNCHANGED pos

\* Before the mapping there may be other memory; there, and behind the last block
\* of the file, the access may also end the process.
StrayPass ==
  /\ prog.walk = "mapped"
  /\ \/ Negative \in Array(left) /\ PassOver
     \/ /\ \E p \in Array(left) : p \notin 0..(length[File] - 1)
        /\ mpc' = "crashed"
        /\ UNCHANGED left
  /\ UNCHANGED <<pos, visited, done, cache>>

Pass ==
  /\ mpc = "work"
  /\ PassTakesTime
  /\ \/ CallPass \/ ChasePass \/ UnrolledPass \/ SequentialPass
     \/ RandomPass \/ MappedPass \/ StrayPass
  /\ UNCHANGED <<online, affinity, core, start, end, prog, root, length, setting,
                 run, vals, total>>

EndTimer ==
  /\ mpc = "end"
  /\ End
  /\ mpc' = "add"
  /\ UNCHANGED <<clock, online, affinity, core, start, prog, root, length,
                 setting, run, vals, cache, sampleVars>>

\* time += t.diff(); between two intervals time passes that is not counted.
AddInterval ==
  /\ mpc = "add"
  /\ total' = total + diff
  /\ clock' = (clock + 1) % Width
  /\ mpc' = IF left > 0 THEN "begin" ELSE "sample"
  /\ UNCHANGED <<online, affinity, core, start, end, prog, root, length, setting,
                 run, vals, cache, left, pos, busy, done, visited>>

-----------------------------------------------------------------------------
(* After the sample *)

\* free, close, munmap; the sample is total divided by the number of passes.
Sample ==
  /\ mpc = "sample"
  /\ vals' = Append(vals, setting)
  /\ run' = run + 1
  /\ mpc' = IF run + 1 < Runs THEN "drop" ELSE "report"
  /\ pos' = 0
  /\ UNCHANGED <<timerVars, prog, root, length, setting, cache, left, total, busy,
                 done, visited>>

\* What setting s finds in Stats: a new object, or, where main() has one object for
\* all functions, what the call of reset_vals() before this one leaves.
ValsKept(s) ==   \* mutant: the call before the last function is missing
  IF s = Len(FileBlocks) THEN vals ELSE <<>>
ValsReset(s) == <<>>

\* The statistics are printed; then the next function, stride or file.
Report ==
  /\ mpc = "report"
  /\ IF setting < LastSetting
     THEN /\ setting' = setting + 1
          /\ mpc' = NextStep
          /\ run' = 0
          /\ vals' = ValsReset(setting + 1)
     ELSE mpc' = "done" /\ UNCHANGED <<setting, run, vals>>
  /\ UNCHANGED <<timerVars, prog, root, length, cache, sampleVars>>

MoveCore ==
  /\ Migrate
  /\ UNCHANGED <<prog, root, length, mpc, setting, run, vals, cache, sampleVars>>

Ended == mpc \in {"done", "exit1", "threw", "crashed"}
Finished == Ended /\ UNCHANGED vars

Next ==
  \/ ReadSeq \/ UseCores \/ UseCoresThrows \/ DropCaches \/ OpenFile \/ NoFile
  \/ BeginTimer \/ Pass \/ EndTimer \/ AddInterval \/ Sample \/ Report
  \/ MoveCore \/ Finished

Spec == Init /\ [][Next]_vars

-----------------------------------------------------------------------------
(* Properties *)

\* The variables have their types; the pass counter, the position in the data
\* and the page cache stay within their bounds, and the sum of the intervals
\* never becomes negative, although the counter wraps round.
TypeOK ==
  /\ clock \in 0..(Width - 1)
  /\ affinity \subseteq online /\ core \in affinity
  /\ {cycles_low, cycles_high, cycles_low1, cycles_high1} \subseteq 0..(Half - 1)
  /\ mpc \in {"warm", "pin", "drop", "open", "begin", "work", "end", "add",
              "sample", "report", "done", "exit1", "threw", "crashed"}
  /\ setting \in Settings
  /\ run \in 0..Runs
  /\ vals \in Seq(Settings)
  /\ left \in 0..Passes
  /\ pos \in 0..(IF prog.walk = "chase" THEN ARR_SIZE - 1 ELSE FileBlocks[File])
  /\ Len(cache) <= CacheBlocks
  /\ total \in Nat

\* The sum of the differences is the time that passed inside the intervals,
\* although the counter is read in two halves, wraps round, and differs from core
\* to core: every program has bound itself to one core before.
SumIsElapsed == mpc = "sample" => total = busy

Gcd(a, b) == CHOOSE d \in 1..a :
               /\ a % d = 0 /\ b % d = 0
               /\ \A e \in 1..a : a % e = 0 /\ b % e = 0 => e <= d

\* The passes a sample is divided by were made and did what is measured: whole
\* blocks of a complete file, every cell of a bandwidth array, and in the chase
\* array_size / gcd(array_size, stride) cells, one if the stride is a multiple of
\* the size.  The first pass of the loops over array[i] is excepted, see Array.
TimedWork ==
  mpc = "sample" =>
    /\ prog.walk \in {"none", "chase", "unrolled"} => done = Passes
    /\ prog.walk = "unrolled" => visited = 0..(ARR_SIZE - 1)
    /\ prog.walk = "chase" =>
         Cardinality(visited) =
           AtMost(ITER, ARR_SIZE \div Gcd(ARR_SIZE, Strides[setting]))
    /\ OfFile /\ length[File] = FileBlocks[File] =>
         IF prog.walk = "sequential"
         THEN done = ITER /\ Cardinality(visited) = ITER
         ELSE done >= ITER - 1

\* readtime_* start with none of the file in the page cache, and so does
\* pageFault if it runs as root; cache_size with the whole file, if it fits.
CacheAsIntended ==
  mpc = "begin" /\ left = Passes =>
    /\ prog.drop = "checked" \/ (prog.drop = "ignored" /\ root) =>
         \A b \in 0..FileBlocks[File] : ~Cached(File, b)
    /\ prog.warm /\ length[File] <= CacheBlocks =>
         \A b \in 0..(length[File] - 1) : Cached(File, b)

\* What is printed for a setting is about m_runs samples of that setting.
OneExperiment == mpc = "report" => vals = [r \in 1..Runs |-> setting]

=============================================================================
