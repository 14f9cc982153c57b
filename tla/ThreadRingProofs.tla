-------------------------- MODULE ThreadRingProofs --------------------------
(***************************************************************************)
(* The ring of kernel threads for every N, iters, Runs and any number of   *)
(* failed calls: its types, the pipe ends of the threads, the core they    *)
(* share, the timed passes, and that both phases implement TokenRing.      *)
(***************************************************************************)
EXTENDS ThreadRing, TLAPS

InFlight(i) == pipe[i] > 0
Holds(i) == pc[i] = "write"

\* One byte at most, in a pipe or with a thread.
OneToken ==
  /\ \A i \in Thread : pipe[i] <= 1
  /\ \A i, j \in Thread :
       /\ InFlight(i) /\ InFlight(j) => i = j
       /\ Holds(i) /\ Holds(j) => i = j
       /\ ~(InFlight(i) /\ Holds(j))

\* None before t.begin() and write(p[0][1], &buf, 1), and nothing passed.
Quiet ==
  mpc \in {"open", "create", "done"} =>
    \A i \in Thread : pipe[i] = 0 /\ pc[i] # "write" /\ cnt[i] = 0

\* The main thread creates the threads in order, all of them before it joins.
Creating ==
  /\ made <= Threads
  /\ mpc \in {"open", "done"} => made = 0
  /\ mpc \in {"join", "close", "crashed", "stuck"} => made = Threads
  /\ \A i \in Thread : i >= made <=> pc[i] = "none"

\* It joins them in order, and goes on when all have ended.
Joining ==
  /\ joined <= Threads
  /\ mpc \in {"open", "create"} => joined = 0
  /\ mpc = "close" => joined = Threads
  /\ \A i \in Thread : i < joined => pc[i] \in {"exited", "failed"}

\* A thread counts its passes up and ends at the last.
Counting ==
  \A i \in Thread :
    /\ pc[i] \in {"none", "start", "failed"} => cnt[i] = 0
    /\ pc[i] \in {"read", "write"} => cnt[i] < Passes
    /\ pc[i] = "exited" => cnt[i] = Passes

\* Every thread of the ring keeps the int[2] it was created with.
OwnCells ==
  phase = "ring" => \A i \in Thread : i < made => heap[i] = <<i, Succ(i)>>

\* The worker of the overhead phase binds the main thread to core 1, and the
\* threads of the ring inherit it.
Core1 ==
  failed = 0 =>
    /\ mpc \notin {"threw", "crashed", "stuck"}
    /\ \A i \in Thread : pc[i] # "failed"
    /\ phase = "overhead" /\ pc[0] \notin {"none", "start"} => mainCpu = 1
    /\ phase = "ring" => mainCpu = 1 /\ \A i \in Thread : i < made => cpu[i] = 1

IInv ==
  TypeOK /\ OneToken /\ Quiet /\ Creating /\ Joining /\ Counting /\ OwnCells /\ Core1

LEMMA Constants ==
  N \in Nat /\ N > 0 /\ iters \in Nat /\ iters > 1 /\ Runs \in Nat /\ Runs > 0
  /\ MaxFaults \in Nat
BY ThreadRingAssumption

-----------------------------------------------------------------------------
(* Arithmetic of the ring *)

LEMMA DivMod ==
  ASSUME NEW a \in Int, NEW w \in Nat \ {0}
  PROVE  /\ a \div w \in Int /\ a % w \in 0..(w - 1)
         /\ a = w * (a \div w) + (a % w)
OBVIOUS

LEMMA ModType == \A c \in Int : c % N \in Thread
BY Constants, DivMod DEF Thread

LEMMA SuccType == \A i \in Thread : Succ(i) \in Thread
<1> SUFFICES ASSUME NEW i \in Thread
             PROVE  (i + 1) % N \in Thread
  BY DEF Succ
<1>1. i + 1 \in Int
  BY Constants DEF Thread
<1> QED
  BY <1>1, ModType

\* The next pipe is the next in order, or the first after the last.
LEMMA SuccIs ==
  \A i \in Thread : Succ(i) = IF i = N - 1 THEN 0 ELSE i + 1
<1> SUFFICES ASSUME NEW i \in Thread
             PROVE  (i + 1) % N = IF i = N - 1 THEN 0 ELSE i + 1
  BY DEF Succ
<1> QED
  BY Constants DEF Thread

LEMMA SuccInjective == \A i, j \in Thread : Succ(i) = Succ(j) => i = j
BY Constants, SuccIs DEF Thread

LEMMA PassesType ==
  phase \in {"overhead", "ring"} => Passes \in 1..(iters * N) /\ iters <= iters * N
<1>1. iters * N \in Nat /\ iters <= iters * N
  <2>1. iters * (N - 1) \in Nat
    BY Constants
  <2>2. iters * N = iters * (N - 1) + iters
    BY Constants
  <2> QED
    BY <2>1, <2>2, Constants
<1> QED
  BY <1>1, Constants DEF Passes

LEMMA ThreadsType == Threads \in 1..N
BY Constants DEF Threads

\* The pipes a thread reads and writes, in either phase.
LEMMA Ends ==
  ASSUME IInv, NEW i \in Thread, pc[i] # "none"
  PROVE  /\ ReadEnd(i) \in Thread
         /\ WriteEnd(i) = Succ(ReadEnd(i))
         /\ WriteEnd(i) \in Thread
         /\ phase = "ring" => ReadEnd(i) = i
         /\ phase = "overhead" => i = 0 /\ ReadEnd(i) = cnt[0] % N
<1>1. i < made /\ made <= Threads /\ made \in 0..N /\ cnt[i] \in Nat
      /\ phase \in {"overhead", "ring"}
  BY Constants, PassesType DEF IInv, TypeOK, Creating, Thread
<1>2. CASE phase = "overhead"
  <2>1. i = 0
    BY <1>1, <1>2 DEF Threads, Thread
  <2>2. cnt[0] % N \in Thread
    BY <1>1, <2>1, ModType
  <2> QED
    BY <1>2, <2>1, <2>2, SuccType DEF ReadEnd, WriteEnd
<1>3. CASE phase = "ring"
  <2>1. heap[i] = <<i, Succ(i)>>
    BY <1>1, <1>3 DEF IInv, OwnCells
  <2> QED
    BY <1>3, <2>1, SuccType DEF ReadEnd, WriteEnd, Address
<1> QED
  BY <1>1, <1>2, <1>3

-----------------------------------------------------------------------------
(* The steps of the main thread *)

LEMMA InitIInv == Init => IInv
BY Constants DEF Init, IInv, TypeOK, OneToken, InFlight, Holds, Quiet, Creating, Joining, Counting, OwnCells, Core1, Thread, Threads, FirstPhase, Core

\* What the steps of the main thread that leave the threads alone keep.
LEMMA ThreadsStay ==
  ASSUME IInv, UNCHANGED <<phase, run, made, threadVars, mainCpu>>
  PROVE  /\ Counting' /\ OwnCells' /\ Threads' = Threads /\ Threads \in 1..N
         /\ \A i \in Thread : i >= made' <=> pc'[i] = "none"
         /\ run' \in 0..Runs /\ made' \in 0..N /\ mainCpu' \in Core
         /\ phase' \in {"overhead", "ring"}
         /\ heap' \in [Thread -> Thread \X Thread]
         /\ pc' \in [Thread -> {"none", "start", "read", "write", "exited", "failed"}]
         /\ cnt' \in [Thread -> 0..(iters * N)]
         /\ cpu' \in [Thread -> Core]
<1>1. Counting' /\ OwnCells'
  BY DEF threadVars, IInv, Counting, OwnCells, Passes
<1>2. Threads' = Threads /\ Threads \in 1..N
  BY ThreadsType DEF Threads
<1>3. \A i \in Thread : i >= made' <=> pc'[i] = "none"
  BY DEF threadVars, IInv, Creating
<1> QED
  BY <1>1, <1>2, <1>3 DEF threadVars, IInv, TypeOK

LEMMA OpenPipesIInv == IInv /\ OpenPipes => IInv'
<1> SUFFICES ASSUME IInv, OpenPipes
             PROVE  IInv'
  OBVIOUS
<1> USE Constants
<1>t. TypeOK /\ OneToken /\ Quiet /\ Creating /\ Joining /\ Core1
  BY DEF IInv
<1>a. /\ mpc = "open" /\ mpc' \in {"create", "threw"}
      /\ UNCHANGED <<pipe, joined>>
      /\ failed' \in 0..MaxFaults
      /\ failed' = 0 => failed = 0 /\ mpc' = "create"
      /\ UNCHANGED <<phase, run, made, threadVars, mainCpu>>
      /\ UNCHANGED <<heap, pc, cnt, cpu>>
  BY <1>t DEF OpenPipes, Fault, TypeOK, threadVars
<1>b. /\ Counting' /\ OwnCells' /\ Threads' = Threads /\ Threads \in 1..N
      /\ \A i \in Thread : i >= made' <=> pc'[i] = "none"
  BY <1>a, ThreadsStay
<1>1. TypeOK'
  BY <1>t, <1>a, <1>b, ThreadsStay DEF TypeOK
<1>2. OneToken'
  BY <1>t, <1>a DEF TypeOK, OneToken, InFlight, Holds, Quiet
<1>3. Quiet'
  BY <1>t, <1>a DEF Quiet
<1>4. Creating'
  BY <1>t, <1>a, <1>b DEF Creating
<1>5. Joining'
  BY <1>t, <1>a, <1>b DEF TypeOK, Joining
<1>6. Core1'
  BY <1>t, <1>a DEF Core1
<1> QED
  BY <1>b, <1>1, <1>2, <1>3, <1>4, <1>5, <1>6 DEF IInv

LEMMA KickIInv == IInv /\ Kick => IInv'
<1> SUFFICES ASSUME IInv, Kick
             PROVE  IInv'
  OBVIOUS
<1> USE Constants
<1>t. TypeOK /\ OneToken /\ Quiet /\ Creating /\ Joining /\ Core1
  BY DEF IInv
<1>a. /\ mpc = "create" /\ mpc' = "join" /\ made = Threads
      /\ pipe' = [pipe EXCEPT ![0] = @ + 1]
      /\ UNCHANGED <<joined, failed>>
      /\ UNCHANGED <<phase, run, made, threadVars, mainCpu>>
      /\ UNCHANGED <<heap, pc, cnt, cpu>>
  BY <1>t DEF Kick, threadVars
<1>b. /\ Counting' /\ OwnCells' /\ Threads' = Threads /\ Threads \in 1..N
      /\ \A i \in Thread : i >= made' <=> pc'[i] = "none"
  BY <1>a, ThreadsStay
<1>c. /\ \A i \in Thread : pipe'[i] = (IF i = 0 THEN 1 ELSE 0) /\ pc'[i] # "write"
      /\ pipe' \in [Thread -> Nat]
  <2>1. 0 \in Thread
    BY DEF Thread
  <2>2. \A i \in Thread : pipe[i] = 0 /\ pc[i] # "write"
    BY <1>t, <1>a DEF Quiet
  <2> QED
    BY <1>t, <1>a, <2>1, <2>2 DEF TypeOK
<1>1. TypeOK'
  BY <1>t, <1>a, <1>b, <1>c, ThreadsStay DEF TypeOK
<1>2. OneToken'
  BY <1>c DEF OneToken, InFlight, Holds
<1>3. Quiet'
  BY <1>t, <1>a DEF Quiet
<1>4. Creating'
  BY <1>t, <1>a, <1>b DEF Creating
<1>5. Joining'
  BY <1>t, <1>a, <1>b DEF TypeOK, Joining
<1>6. Core1'
  BY <1>t, <1>a DEF Core1
<1> QED
  BY <1>b, <1>1, <1>2, <1>3, <1>4, <1>5, <1>6 DEF IInv

LEMMA JoinIInv == IInv /\ Join => IInv'
<1> SUFFICES ASSUME IInv, Join
             PROVE  IInv'
  OBVIOUS
<1> USE Constants
<1>t. TypeOK /\ OneToken /\ Quiet /\ Creating /\ Joining /\ Core1
  BY DEF IInv
<1>a. /\ mpc = "join" /\ joined < Threads /\ pc[joined] \in {"exited", "failed"}
      /\ joined' = joined + 1
      /\ mpc' = IF joined + 1 = Threads THEN "close" ELSE "join"
      /\ UNCHANGED <<pipe, failed>>
      /\ UNCHANGED <<phase, run, made, threadVars, mainCpu>>
      /\ UNCHANGED <<heap, pc, cnt, cpu>>
  BY <1>t DEF Join, LastJoin, threadVars
<1>b. /\ Counting' /\ OwnCells' /\ Threads' = Threads /\ Threads \in 1..N
      /\ \A i \in Thread : i >= made' <=> pc'[i] = "none"
  BY <1>a, ThreadsStay
<1>1. TypeOK'
  BY <1>t, <1>a, <1>b, ThreadsStay DEF TypeOK
<1>2. OneToken'
  BY <1>t, <1>a DEF TypeOK, OneToken, InFlight, Holds, Quiet
<1>3. Quiet'
  BY <1>t, <1>a DEF Quiet
<1>4. Creating'
  BY <1>t, <1>a, <1>b DEF Creating
<1>5. Joining'
  <2>1. joined' <= Threads' /\ (mpc' = "close" => joined' = Threads')
    BY <1>t, <1>a, <1>b DEF TypeOK
  <2>2. \A i \in Thread : i < joined' => i < joined \/ i = joined
    BY <1>t, <1>a DEF TypeOK, Thread
  <2> QED
    BY <1>t, <1>a, <2>1, <2>2 DEF Joining
<1>6. Core1'
  BY <1>t, <1>a DEF Core1
<1> QED
  BY <1>b, <1>1, <1>2, <1>3, <1>4, <1>5, <1>6 DEF IInv

LEMMA JoinUndefinedIInv == IInv /\ JoinUndefined => IInv'
<1> SUFFICES ASSUME IInv, JoinUndefined
             PROVE  IInv'
  OBVIOUS
<1> USE Constants
<1>t. TypeOK /\ OneToken /\ Quiet /\ Creating /\ Joining /\ Core1
  BY DEF IInv
<1>a. /\ mpc = "join" /\ joined < Threads /\ pc[joined] = "failed"
      /\ mpc' \in {"crashed", "stuck"}
      /\ UNCHANGED <<pipe, joined, failed>>
      /\ UNCHANGED <<phase, run, made, threadVars, mainCpu>>
      /\ UNCHANGED <<heap, pc, cnt, cpu>>
  BY <1>t DEF JoinUndefined, threadVars
<1>b. /\ Counting' /\ OwnCells' /\ Threads' = Threads /\ Threads \in 1..N
      /\ \A i \in Thread : i >= made' <=> pc'[i] = "none"
  BY <1>a, ThreadsStay
<1>1. TypeOK'
  BY <1>t, <1>a, <1>b, ThreadsStay DEF TypeOK
<1>2. OneToken'
  BY <1>t, <1>a DEF TypeOK, OneToken, InFlight, Holds, Quiet
<1>3. Quiet'
  BY <1>t, <1>a DEF Quiet
<1>4. Creating'
  BY <1>t, <1>a, <1>b DEF Creating
<1>5. Joining'
  BY <1>t, <1>a, <1>b DEF TypeOK, Joining
<1>6. Core1'
  <2>1. joined \in Thread
    BY <1>t, <1>a, <1>b DEF TypeOK, Thread
  <2> QED
    BY <1>t, <1>a, <2>1 DEF Core1
<1> QED
  BY <1>b, <1>1, <1>2, <1>3, <1>4, <1>5, <1>6 DEF IInv

LEMMA CreateIInv == IInv /\ Create => IInv'
<1> SUFFICES ASSUME IInv, Create
             PROVE  IInv'
  OBVIOUS
<1> USE Constants
<1>t. TypeOK /\ OneToken /\ Quiet /\ Creating
      /\ Joining /\ Counting /\ OwnCells /\ Core1
  BY DEF IInv
<1> PICK at \in {"start", "failed"} :
      /\ pc' = [pc EXCEPT ![made] = at]
      /\ at = "failed" => Fault
      /\ at = "start" => UNCHANGED failed
  BY DEF Create
<1>a. /\ mpc = "create" /\ made < Threads
      /\ cpu' = [cpu EXCEPT ![made] = mainCpu]
      /\ heap' = IF phase = "ring"
                 THEN [heap EXCEPT ![made] = <<made, Succ(made)>>] ELSE heap
      /\ made' = made + 1
      /\ UNCHANGED <<mpc, phase, run, pipe, joined, cnt, mainCpu>>
  BY DEF Create, Address
<1>b. made \in Thread /\ Threads \in 1..N /\ Threads' = Threads /\ Passes' = Passes
      /\ Succ(made) \in Thread /\ made' \in 0..N
  <2>1. made \in Thread /\ Threads \in 1..N /\ made' \in 0..N
    BY <1>t, <1>a, ThreadsType DEF TypeOK, Thread
  <2> QED
    BY <1>a, <2>1, SuccType DEF Threads, Passes
<1>c. \A i \in Thread : pc'[i] = IF i = made THEN at ELSE pc[i]
  BY <1>t, <1>b DEF TypeOK
<1>d. failed' \in 0..MaxFaults /\ (failed' = 0 => failed = 0 /\ at = "start")
  BY <1>t DEF TypeOK, Fault
<1>1. TypeOK'
  <2>1. heap' \in [Thread -> Thread \X Thread]
    BY <1>t, <1>a, <1>b DEF TypeOK
  <2>2. pc' \in [Thread -> {"none", "start", "read", "write", "exited", "failed"}]
    BY <1>t, <1>b DEF TypeOK
  <2>3. cpu' \in [Thread -> Core]
    BY <1>t, <1>a, <1>b DEF TypeOK
  <2> QED
    BY <1>t, <1>a, <1>b, <1>d, <2>1, <2>2, <2>3 DEF TypeOK
<1>2. OneToken'
  BY <1>t, <1>a, <1>b, <1>c DEF TypeOK, OneToken, InFlight, Holds, Quiet
<1>3. Quiet'
  BY <1>t, <1>a, <1>c DEF Quiet
<1>4. Creating'
  <2>1. \A i \in Thread : i >= made' <=> i # made /\ i >= made
    BY <1>a, <1>b DEF Thread
  <2>2. \A i \in Thread : i >= made' <=> pc'[i] = "none"
    BY <1>t, <1>c, <2>1 DEF Creating
  <2>3. made' <= Threads'
    BY <1>a, <1>b DEF Thread
  <2> QED
    BY <1>a, <2>2, <2>3 DEF Creating
<1>5. Joining'
  BY <1>t, <1>a, <1>b, <1>c DEF TypeOK, Joining, Thread
<1>6. Counting'
  BY <1>t, <1>a, <1>b, <1>c DEF Counting, Quiet
<1>7. OwnCells'
  <2>1. phase = "ring" => \A i \in Thread :
          heap'[i] = IF i = made THEN <<made, Succ(made)>> ELSE heap[i]
    BY <1>t, <1>a, <1>b DEF TypeOK
  <2>2. \A i \in Thread : i < made' => i = made \/ i < made
    BY <1>a, <1>b DEF Thread
  <2>3. \A i \in Thread : Succ(i)' = Succ(i)
    BY DEF Succ
  <2> QED
    BY <1>t, <1>a, <2>1, <2>2, <2>3 DEF OwnCells
<1>8. Core1'
  <2>1. pc[0] = "none" \/ made > 0
    BY <1>t, <1>b DEF Creating, Thread
  <2>2. cpu'[made] = mainCpu /\ \A i \in Thread : i # made => cpu'[i] = cpu[i]
    BY <1>t, <1>a, <1>b DEF TypeOK
  <2>3. 0 \in Thread
    BY DEF Thread
  <2>4. failed' = 0 => \A i \in Thread : i < made' => i = made \/ i < made
    BY <1>a, <1>b DEF Thread
  <2> QED
    BY <1>t, <1>a, <1>b, <1>c, <1>d, <2>1, <2>2, <2>3, <2>4 DEF Core1
<1> QED
  BY <1>1, <1>2, <1>3, <1>4, <1>5, <1>6, <1>7, <1>8 DEF IInv

LEMMA ClosePipesIInv == IInv /\ ClosePipes => IInv'
<1> SUFFICES ASSUME IInv, ClosePipes
             PROVE  IInv'
  OBVIOUS
<1> USE Constants
<1>t. TypeOK /\ Creating /\ Joining /\ Counting /\ Core1
  BY DEF IInv
<1>a. /\ mpc = "close" /\ mpc' \in {"open", "done"} /\ run' \in 0..Runs
      /\ phase' = phase \/ (phase = "overhead" /\ phase' = "ring")
      /\ pipe' = [i \in Thread |-> 0] /\ pc' = [i \in Thread |-> "none"]
      /\ cnt' = [i \in Thread |-> 0] /\ made' = 0 /\ joined' = 0
      /\ UNCHANGED <<heap, mainCpu, cpu, failed>>
  BY <1>t DEF ClosePipes, FirstPhase, LastPhase, TypeOK
<1>1. TypeOK'
  <2>1. cnt' \in [Thread -> 0..(iters * N)]
    BY <1>t, <1>a, PassesType DEF TypeOK
  <2> QED
    BY <1>t, <1>a, <2>1 DEF TypeOK
<1>2. OneToken' /\ Quiet'
  BY <1>a DEF OneToken, InFlight, Holds, Quiet
<1>3. Creating' /\ Joining'
  BY <1>a, Constants DEF Creating, Joining, Threads, Thread
<1>4. Counting' /\ OwnCells'
  BY <1>a DEF Counting, OwnCells, Thread
<1>5. Core1'
  <2>1. phase = "overhead" => pc[0] \in {"exited", "failed"}
    BY <1>t, <1>a DEF Joining, Threads, Thread
  <2>2. failed = 0 => mainCpu = 1
    BY <1>t, <2>1 DEF TypeOK, Core1
  <2>3. 0 \in Thread
    BY DEF Thread
  <2> QED
    BY <1>a, <2>2, <2>3 DEF Core1, Thread
<1> QED
  BY <1>1, <1>2, <1>3, <1>4, <1>5 DEF IInv

-----------------------------------------------------------------------------
(* The steps of the threads *)

LEMMA PinIInv == ASSUME IInv, NEW c \in Thread, Pin(c) PROVE IInv'
<1> USE Constants
<1>t. TypeOK /\ OneToken /\ Quiet /\ Creating
      /\ Joining /\ Counting /\ OwnCells /\ Core1
  BY DEF IInv
<1>a. /\ pc[c] = "start" /\ mainCpu' = 1
      /\ pc' = [pc EXCEPT ![c] = "read"]
      /\ UNCHANGED <<mpc, phase, run, pipe, made, joined, heap, cnt, cpu, failed>>
  BY DEF Pin, At
<1>b. Threads' = Threads /\ Passes' = Passes
  BY <1>a DEF Threads, Passes
<1>c. \A i \in Thread : pc'[i] = IF i = c THEN "read" ELSE pc[i]
  BY <1>t, <1>a DEF TypeOK
<1>1. TypeOK'
  BY <1>t, <1>a DEF TypeOK, Core
<1>2. OneToken' /\ Quiet'
  BY <1>t, <1>a, <1>c DEF OneToken, InFlight, Holds, Quiet
<1>3. Creating' /\ Joining'
  BY <1>t, <1>a, <1>b, <1>c DEF Creating, Joining
<1>4. Counting'
  BY <1>t, <1>a, <1>b, <1>c, PassesType DEF TypeOK, Counting
<1>5. OwnCells'
  BY <1>t, <1>a DEF OwnCells, Succ
<1>6. Core1'
  BY <1>t, <1>a, <1>c DEF Core1
<1> QED
  BY <1>1, <1>2, <1>3, <1>4, <1>5, <1>6 DEF IInv

LEMMA PinFailsIInv == ASSUME IInv, NEW c \in Thread, PinFails(c) PROVE IInv'
<1>t. TypeOK /\ OneToken /\ Quiet /\ Creating
      /\ Joining /\ Counting /\ OwnCells /\ Core1
  BY DEF IInv
<1>a. /\ mpc' = "threw"
      /\ failed' \in 0..MaxFaults /\ failed' # 0
      /\ UNCHANGED <<phase, run, pipe, made, joined, threadVars, mainCpu>>
      /\ UNCHANGED <<heap, pc, cnt, cpu>>
  BY <1>t, Constants DEF PinFails, Fault, TypeOK, threadVars
<1>1. TypeOK' /\ Counting' /\ OwnCells' /\ Threads' = Threads
  BY <1>t, <1>a, ThreadsStay DEF TypeOK
<1>2. OneToken' /\ Quiet'
  BY <1>t, <1>a DEF OneToken, InFlight, Holds, Quiet
<1>3. Creating' /\ Joining'
  BY <1>t, <1>a, <1>1 DEF Creating, Joining
<1>4. Core1'
  BY <1>a DEF Core1
<1> QED
  BY <1>1, <1>2, <1>3, <1>4 DEF IInv

LEMMA ReadIInv == ASSUME IInv, NEW c \in Thread, Read(c) PROVE IInv'
<1> USE Constants
<1>t. TypeOK /\ OneToken /\ Quiet /\ Creating
      /\ Joining /\ Counting /\ OwnCells /\ Core1
  BY DEF IInv
<1> PICK k \in Thread :
      /\ pipe[k] > 0 /\ pc[c] = "read"
      /\ pipe' = [pipe EXCEPT ![k] = @ - 1]
      /\ pc' = [pc EXCEPT ![c] = "write"]
      /\ UNCHANGED <<mpc, phase, run, made, joined, heap, cnt, mainCpu, cpu, failed>>
  BY Ends DEF Read, At
<1>b. Threads' = Threads /\ Passes' = Passes
  BY DEF Threads, Passes
<1>c. \A i \in Thread : pc'[i] = IF i = c THEN "write" ELSE pc[i]
  BY <1>t DEF TypeOK
<1>d. \A i \in Thread : pipe'[i] = 0
  <2>1. pipe[k] = 1 /\ \A i \in Thread : i # k => pipe[i] = 0
    BY <1>t DEF TypeOK, OneToken, InFlight
  <2> QED
    BY <1>t, <2>1 DEF TypeOK
<1>e. \A i \in Thread : pc[i] # "write"
  BY <1>t DEF OneToken, InFlight, Holds
<1>f. mpc \notin {"open", "create", "done"}
  BY <1>t DEF Quiet
<1>1. TypeOK'
  <2>1. pipe' \in [Thread -> Nat]
    BY <1>t, <1>d DEF TypeOK
  <2>2. pc' \in [Thread -> {"none", "start", "read", "write", "exited", "failed"}]
    BY <1>t DEF TypeOK
  <2> QED
    BY <1>t, <2>1, <2>2 DEF TypeOK
<1>2. OneToken' /\ Quiet'
  BY <1>c, <1>d, <1>e, <1>f DEF OneToken, InFlight, Holds, Quiet
<1>3. Creating' /\ Joining'
  BY <1>t, <1>b, <1>c DEF Creating, Joining
<1>4. Counting'
  BY <1>t, <1>b, <1>c DEF Counting
<1>5. OwnCells'
  BY <1>t DEF OwnCells, Succ
<1>6. Core1'
  BY <1>t, <1>c DEF Core1
<1> QED
  BY <1>1, <1>2, <1>3, <1>4, <1>5, <1>6 DEF IInv

LEMMA WriteIInv == ASSUME IInv, NEW c \in Thread, Write(c) PROVE IInv'
<1> USE Constants
<1>t. TypeOK /\ OneToken /\ Quiet /\ Creating
      /\ Joining /\ Counting /\ OwnCells /\ Core1
  BY DEF IInv
<1> PICK k \in Thread :
      /\ pc[c] = "write"
      /\ pipe' = [pipe EXCEPT ![k] = @ + 1]
      /\ cnt' = [cnt EXCEPT ![c] = @ + 1]
      /\ pc' = [pc EXCEPT ![c] = IF cnt[c] + 1 = Passes THEN "exited" ELSE "read"]
      /\ UNCHANGED <<mpc, phase, run, made, joined, heap, mainCpu, cpu, failed>>
  BY Ends DEF Write, At, LastPass
<1>b. /\ Threads' = Threads /\ Passes' = Passes
      /\ Passes \in 1..(iters * N) /\ cnt[c] \in Nat /\ cnt[c] < Passes
      /\ iters * N \in Nat
  BY <1>t, PassesType DEF TypeOK, Counting, Threads, Passes
<1>c. /\ \A i \in Thread : i # c => pc'[i] = pc[i] /\ cnt'[i] = cnt[i]
      /\ cnt'[c] = cnt[c] + 1
      /\ pc'[c] = IF cnt[c] + 1 = Passes THEN "exited" ELSE "read"
  BY <1>t DEF TypeOK
<1>d. \A i \in Thread : pipe'[i] = IF i = k THEN 1 ELSE 0
  <2>1. \A i \in Thread : pipe[i] = 0
    BY <1>t DEF TypeOK, OneToken, InFlight, Holds
  <2> QED
    BY <1>t, <2>1 DEF TypeOK
<1>e. \A i \in Thread : pc'[i] # "write"
  BY <1>t, <1>c DEF OneToken, Holds
<1>f. mpc \notin {"open", "create", "done"}
  BY <1>t DEF Quiet
<1>1. TypeOK'
  <2>1. pipe' \in [Thread -> Nat]
    BY <1>t DEF TypeOK
  <2>2. pc' \in [Thread -> {"none", "start", "read", "write", "exited", "failed"}]
    BY <1>t DEF TypeOK
  <2>3. cnt' \in [Thread -> 0..(iters * N)]
    BY <1>t, <1>b DEF TypeOK
  <2> QED
    BY <1>t, <2>1, <2>2, <2>3 DEF TypeOK
<1>2. OneToken' /\ Quiet'
  BY <1>d, <1>e, <1>f DEF OneToken, InFlight, Holds, Quiet
<1>3. Creating' /\ Joining'
  BY <1>t, <1>b, <1>c DEF Creating, Joining
<1>4. Counting'
  BY <1>t, <1>b, <1>c DEF Counting
<1>5. OwnCells'
  BY <1>t DEF OwnCells, Succ
<1>6. Core1'
  BY <1>t, <1>c DEF Core1
<1> QED
  BY <1>1, <1>2, <1>3, <1>4, <1>5, <1>6 DEF IInv

LEMMA NextIInv == IInv /\ [Next]_vars => IInv'
<1> SUFFICES ASSUME IInv, [Next]_vars
             PROVE  IInv'
  OBVIOUS
<1>1. CASE Main
  BY <1>1, OpenPipesIInv, CreateIInv, KickIInv, JoinIInv, JoinUndefinedIInv,
     ClosePipesIInv DEF Main
<1>2. ASSUME NEW c \in Thread, Steps(c)
      PROVE  IInv'
  BY <1>2, PinIInv, PinFailsIInv, ReadIInv, WriteIInv DEF Steps
<1>3. CASE UNCHANGED vars
  BY <1>3 DEF vars, threadVars, IInv, TypeOK, OneToken, InFlight, Holds, Quiet,
     Creating, Joining, Counting, OwnCells, Core1, Threads, Passes, Succ
<1> QED
  BY <1>1, <1>2, <1>3 DEF Next, Finished

THEOREM Invariance == Spec => []IInv
BY InitIInv, NextIInv, PTL DEF Spec

\* The types of the thread ring (ctxswitchkernel.cpp).
THEOREM Typing == Spec => []TypeOK
BY Invariance, PTL DEF IInv

\* kern_thread_ring: however creation and work interleave, no two threads have
\* the same end of a pipe, in a ring of any size (lines 99-100).
THEOREM EndsDistinct == Spec => []DistinctEnds
<1>1. IInv => DistinctEnds
  <2> SUFFICES ASSUME IInv, phase = "ring", NEW i \in Thread, NEW j \in Thread,
                      i # j, Working(i), Working(j)
               PROVE  ReadEnd(i) # ReadEnd(j) /\ WriteEnd(i) # WriteEnd(j)
    BY DEF DistinctEnds
  <2>1. /\ ReadEnd(i) = i /\ WriteEnd(i) = Succ(i)
        /\ ReadEnd(j) = j /\ WriteEnd(j) = Succ(j)
    BY Ends DEF Working
  <2> QED
    BY <2>1, SuccInjective
<1> QED
  BY <1>1, Invariance, PTL

\* If every call succeeds the ring is timed on core 1: it inherits the binding
\* that the worker of the overhead phase gave the main thread by getpid().
THEOREM RingOnCore1 == Spec => []RingSharesCore1
<1>1. IInv => RingSharesCore1
  <2> SUFFICES ASSUME IInv, failed = 0, phase = "ring"
               PROVE  mainCpu = 1 /\ \A i \in Thread : Working(i) => cpu[i] = 1
    BY DEF RingSharesCore1
  <2>1. \A i \in Thread : Working(i) => i < made
    BY DEF IInv, TypeOK, Creating, Working, Thread
  <2> QED
    BY <2>1 DEF IInv, Core1
<1> QED
  BY <1>1, Invariance, PTL

\* Both phases divide the interval by the number of passes it holds.
THEOREM PassesTimed == Spec => []EveryPassTimed
<1>1. IInv => EveryPassTimed
  <2> SUFFICES ASSUME IInv, failed = 0
               PROVE  /\ mpc = "create" => \A i \in Thread : cnt[i] = 0
                      /\ mpc = "close" /\ phase = "overhead" => cnt[0] = iters * N
                      /\ mpc = "close" /\ phase = "ring" =>
                           \A i \in Thread : cnt[i] = iters
    BY DEF EveryPassTimed
  <2>1. mpc = "close" => \A i \in Thread :
          i < Threads => pc[i] = "exited" /\ cnt[i] = Passes
    BY DEF IInv, Joining, Core1, Counting
  <2>2. 0 \in Thread /\ 0 < Threads
    BY Constants, ThreadsType DEF Thread
  <2>3. phase = "ring" => \A i \in Thread : i < Threads
    BY Constants DEF Threads, Thread
  <2> QED
    BY <2>1, <2>2, <2>3 DEF IInv, Quiet, Passes
<1> QED
  BY <1>1, Invariance, PTL

-----------------------------------------------------------------------------
(* Refinement of TokenRing *)

\* In the overhead phase the byte is in the pipe the worker reads next, and once
\* under way it does not get lost.  In the ring the threads before the token are
\* one pass ahead of the others.
AtCursor ==
  phase = "overhead" =>
    /\ \A k \in Thread : InFlight(k) => k = cnt[0] % N
    /\ cnt[0] > 0 => Holds(0) \/ \E k \in Thread : InFlight(k)
OneAhead ==
  phase = "ring" =>
    \E q \in Nat : \A i \in Thread : cnt[i] = q + (IF i < AbsTurn THEN 1 ELSE 0)

RInv == AtCursor /\ OneAhead

LEMMA DivUnique ==
  ASSUME NEW a \in Int, NEW w \in Nat \ {0}, NEW b \in 0..(w - 1), NEW k \in Int,
         a = b + k * w
  PROVE  a \div w = k /\ a % w = b
<1> DEFINE m == (a \div w) - k
<1>1. a = w * (a \div w) + (a % w) /\ a \div w \in Int /\ a % w \in 0..(w - 1)
  BY DivMod
<1>2. m \in Int /\ m * w = b - (a % w) /\ m * w < w /\ -w < m * w
  BY <1>1
<1>3. m = 0
  <2> HIDE DEF m
  <2> QED
    BY <1>2
<1> QED
  BY <1>1, <1>2, <1>3

\* After c = q * N + s passes the worker has acted q + 1 times for the stations
\* before s and q times for the others.
LapsAt(c, i) == (c + N - 1 - i) \div N

LEMMA LapsSplit ==
  ASSUME NEW q \in Nat, NEW s \in Thread, NEW i \in Thread
  PROVE  LapsAt(q * N + s, i) = q + (IF i < s THEN 1 ELSE 0)
<1> USE Constants
<1> DEFINE a == q * N + s + N - 1 - i
           k == q + (IF i < s THEN 1 ELSE 0)
           b == IF i < s THEN s - 1 - i ELSE s + N - 1 - i
<1>1. a \in Int /\ k \in Int /\ N \in Nat \ {0} /\ q * N \in Int
  BY DEF Thread
<1>2. b \in 0..(N - 1)
  BY DEF Thread
<1>3. a = b + k * N
  <2>1. CASE i < s
    <3>1. k * N = q * N + N
      BY <2>1
    <3> QED
      BY <1>1, <2>1, <3>1 DEF Thread
  <2>2. CASE ~(i < s)
    BY <1>1, <2>2 DEF Thread
  <2> QED
    BY <2>1, <2>2
<1> HIDE DEF a, k, b
<1>4. a \div N = k
  BY <1>1, <1>2, <1>3, DivUnique, Zenon
<1> QED
  BY <1>4 DEF a, k, LapsAt

\* One pass more of the worker is one lap more of the station it acts for, which
\* had not made all of them.
LEMMA LapsStep ==
  ASSUME NEW c \in Nat, NEW M \in Nat, c < M * N
  PROVE  /\ LapsAt(c, c % N) < M
         /\ Succ(c % N) = (c + 1) % N
         /\ \A i \in Thread :
              LapsAt(c + 1, i) = LapsAt(c, i) + (IF i = c % N THEN 1 ELSE 0)
<1> USE Constants
<1> PICK q \in Nat, s \in Thread : c = q * N + s /\ c % N = s
  <2>1. /\ c = N * (c \div N) + (c % N) /\ c \div N \in Int
        /\ c % N \in 0..(N - 1)
    BY DivMod
  <2>2. c \div N \in Nat
    <3> DEFINE d == c \div N
    <3> HIDE DEF d
    <3>1. d \in Int /\ N * d > -N
      BY <2>1 DEF d
    <3>2. d \in Nat
      BY <3>1
    <3> QED
      BY <3>2 DEF d
  <2> QED
    BY <2>1, <2>2 DEF Thread
<1>1. \A i \in Thread : LapsAt(c, i) = q + (IF i < s THEN 1 ELSE 0)
  BY LapsSplit
<1>2. q < M
  <2>1. q * N < M * N
    BY DEF Thread
  <2> QED
    BY <2>1
<1>3. CASE s = N - 1
  <2>1. 0 \in Thread /\ q + 1 \in Nat
    BY DEF Thread
  <2>2. c + 1 = (q + 1) * N + 0
    BY <1>3
  <2>3. \A i \in Thread :
          LapsAt((q + 1) * N + 0, i) = (q + 1) + (IF i < 0 THEN 1 ELSE 0)
    BY <2>1, LapsSplit, Zenon
  <2>4. (c + 1) % N = 0
    <3>1. c + 1 = 0 + (q + 1) * N /\ c + 1 \in Int /\ 0 \in 0..(N - 1)
          /\ q + 1 \in Int /\ N \in Nat \ {0}
      BY <2>2, <2>1
    <3> QED
      BY <3>1, DivUnique, Zenon
  <2>5. \A i \in Thread :
          LapsAt(c + 1, i) = LapsAt(c, i) + (IF i = s THEN 1 ELSE 0)
    BY <1>1, <1>3, <2>2, <2>3 DEF Thread
  <2>6. Succ(s) = (c + 1) % N
    BY <1>3, <2>4, SuccIs DEF Thread
  <2> QED
    BY <1>1, <1>2, <2>5, <2>6
<1>4. CASE s # N - 1
  <2>1. s + 1 \in Thread /\ s + 1 \in 0..(N - 1)
    BY <1>4 DEF Thread
  <2>2. c + 1 = q * N + (s + 1)
    BY DEF Thread
  <2>3. \A i \in Thread :
          LapsAt(q * N + (s + 1), i) = q + (IF i < s + 1 THEN 1 ELSE 0)
    BY <2>1, LapsSplit, Zenon
  <2>4. (c + 1) % N = s + 1
    <3>1. c + 1 = (s + 1) + q * N /\ c + 1 \in Int /\ q \in Int /\ N \in Nat \ {0}
      BY <2>2, <2>1
    <3> QED
      BY <2>1, <3>1, DivUnique, Zenon
  <2>5. \A i \in Thread :
          LapsAt(c + 1, i) = LapsAt(c, i) + (IF i = s THEN 1 ELSE 0)
    BY <1>1, <1>4, <2>2, <2>3 DEF Thread
  <2>6. Succ(s) = (c + 1) % N
    BY <1>4, <2>4, SuccIs DEF Thread
  <2> QED
    BY <1>1, <1>2, <2>5, <2>6
<1> QED
  BY <1>3, <1>4

\* Where the abstract token is: with the thread about to write, or in a pipe.
LEMMA TurnHeld ==
  ASSUME IInv, NEW c \in Thread, Holds(c)
  PROVE  AbsTurn = ReadEnd(c)
BY DEF IInv, OneToken, Holds, AbsTurn

LEMMA TurnInPipe ==
  ASSUME IInv, NEW k \in Thread, InFlight(k)
  PROVE  AbsTurn = k /\ \A i \in Thread : ~Holds(i)
<1>1. \A i \in Thread : (InFlight(i) => i = k) /\ ~Holds(i)
  BY DEF IInv, OneToken
<1>2. (CHOOSE i \in Thread : pipe[i] > 0) = k
  BY <1>1 DEF InFlight
<1> QED
  BY <1>1, <1>2 DEF Holds, InFlight, AbsTurn

LEMMA TurnNowhere ==
  ASSUME \A i \in Thread : ~Holds(i) /\ ~InFlight(i)
  PROVE  AbsTurn = 0
BY DEF Holds, InFlight, AbsTurn

\* A step that leaves the token where it is and passes nothing.
LEMMA TurnStays ==
  ASSUME RInv, UNCHANGED <<phase, cnt>>, AbsTurn' = AbsTurn
  PROVE  OneAhead' /\ UNCHANGED <<AbsTurn, AbsLaps>>
BY DEF RInv, OneAhead, AbsLaps

LEMMA InitRing == Init => RInv /\ Ring!Init
<1> SUFFICES ASSUME Init
             PROVE  RInv /\ Ring!Init
  OBVIOUS
<1> USE Constants
<1>1. phase = "overhead" /\ 0 \in Thread /\ 0 \in Nat
      /\ \A i \in Thread : cnt[i] = 0 /\ ~Holds(i) /\ ~InFlight(i)
  BY DEF Init, FirstPhase, Thread, Holds, InFlight
<1>2. AbsTurn = 0
  BY <1>1, TurnNowhere
<1>3. \A i \in Thread : LapsAt(0 * N + 0, i) = 0 + (IF i < 0 THEN 1 ELSE 0)
  BY <1>1, LapsSplit, Zenon
<1>4. AbsLaps = [i \in Thread |-> 0]
  <2>1. \A i \in Thread : LapsAt(0, i) = 0
    BY <1>3 DEF Thread
  <2> QED
    BY <1>1, <2>1 DEF AbsLaps, LapsAt
<1> QED
  BY <1>1, <1>2, <1>4 DEF RInv, AtCursor, OneAhead, Ring!Init, Ring!Station, Thread

\* The steps that neither move the byte nor pass it on.
LEMMA StillRing ==
  ASSUME IInv, RInv,
         UNCHANGED <<phase, pipe, heap, cnt>>,
         \A i \in Thread : Holds(i)' <=> Holds(i)
  PROVE  RInv' /\ UNCHANGED <<AbsTurn, AbsLaps>>
<1>1. AtCursor'
  BY Constants DEF RInv, AtCursor, InFlight, Thread
<1>2. AbsTurn' = AbsTurn
  <2>1. (CHOOSE i \in Thread : pc'[i] = "write") = CHOOSE i \in Thread : pc[i] = "write"
    BY DEF Holds
  <2>2. (\E i \in Thread : pc'[i] = "write") <=> \E i \in Thread : pc[i] = "write"
    BY DEF Holds
  <2> QED
    BY <2>1, <2>2 DEF AbsTurn, ReadEnd
<1> QED
  BY <1>1, <1>2, TurnStays DEF RInv

LEMMA KickRing ==
  ASSUME IInv, IInv', RInv, Kick
  PROVE  RInv' /\ UNCHANGED <<AbsTurn, AbsLaps>>
<1>1. 0 \in Thread /\ N \in Nat \ {0}
  BY Constants DEF Thread
<1>2. \A i \in Thread : ~Holds(i) /\ ~InFlight(i) /\ cnt[i] = 0 /\ pipe[i] = 0
  BY DEF Kick, IInv, Quiet, Holds, InFlight
<1>3. pipe' = [pipe EXCEPT ![0] = @ + 1] /\ pc' = pc /\ cnt' = cnt /\ phase' = phase
  BY DEF Kick, threadVars
<1>4. \A i \in Thread : InFlight(i)' <=> i = 0
  BY <1>1, <1>2, <1>3 DEF InFlight, IInv, TypeOK
<1>5. \A i \in Thread : ~Holds(i)'
  BY <1>2, <1>3 DEF Holds
<1>6. AbsTurn = 0
  BY <1>2, TurnNowhere
<1>7. AbsTurn' = 0
  <2>1. (CHOOSE i \in Thread : pipe'[i] > 0) = 0
    BY <1>1, <1>4 DEF InFlight
  <2> QED
    BY <1>1, <1>4, <1>5, <2>1 DEF InFlight, Holds, AbsTurn
<1>8. AtCursor'
  <2>1. cnt'[0] = 0 /\ 0 % N = 0
    BY <1>1, <1>2, <1>3
  <2> QED
    BY <1>4, <2>1 DEF AtCursor
<1> QED
  BY <1>3, <1>6, <1>7, <1>8, TurnStays DEF RInv

LEMMA ReadRing ==
  ASSUME IInv, IInv', RInv, NEW c \in Thread, Read(c)
  PROVE  RInv' /\ UNCHANGED <<AbsTurn, AbsLaps>>
<1>1. pc[c] = "read" /\ ReadEnd(c) \in Thread /\ InFlight(ReadEnd(c))
  BY Ends DEF Read, At, InFlight
<1>2. UNCHANGED <<phase, heap, cnt>> /\ pc' = [pc EXCEPT ![c] = "write"]
  BY DEF Read
<1>3. ReadEnd(c)' = ReadEnd(c) /\ Holds(c)'
  BY <1>2 DEF ReadEnd, Holds, IInv, TypeOK
<1>4. AbsTurn = ReadEnd(c)
  BY <1>1, TurnInPipe
<1>5. AbsTurn' = ReadEnd(c)'
  <2>1. (CHOOSE i \in Thread : pc'[i] = "write") = c
    BY <1>3 DEF IInv, OneToken, Holds
  <2> QED
    BY <1>3, <2>1 DEF Holds, AbsTurn
<1>6. AtCursor'
  <2>1. phase = "overhead" => c = 0
    BY <1>1, Ends
  <2>2. \A k \in Thread : ~InFlight(k)'
    BY <1>3 DEF IInv, OneToken
  <2> QED
    BY <1>2, <1>3, <2>1, <2>2 DEF AtCursor
<1> QED
  BY <1>2, <1>3, <1>4, <1>5, <1>6, TurnStays DEF RInv

LEMMA WriteRing ==
  ASSUME IInv, IInv', RInv, NEW c \in Thread, Write(c)
  PROVE  RInv' /\ Ring!Next
<1> USE Constants
<1> PICK k \in Thread :
      /\ k = ReadEnd(c) /\ WriteEnd(c) = Succ(k) /\ Succ(k) \in Thread
      /\ phase = "ring" => k = c
      /\ phase = "overhead" => c = 0 /\ k = cnt[0] % N
  BY Ends DEF Write, At
<1>1. /\ Holds(c) /\ pipe' = [pipe EXCEPT ![Succ(k)] = @ + 1]
      /\ cnt' = [cnt EXCEPT ![c] = @ + 1] /\ phase' = phase
      /\ cnt[c] \in Nat /\ cnt[c] < Passes
      /\ \A i \in Thread : cnt[i] \in Nat /\ cnt'[i] = cnt[i] + (IF i = c THEN 1 ELSE 0)
  <2>1. cnt \in [Thread -> 0..(iters * N)] /\ cnt[c] < Passes /\ iters * N \in Nat
    BY PassesType DEF IInv, TypeOK, Counting, Write, At
  <2> QED
    BY <2>1 DEF Write, At, Holds
<1>2. InFlight(Succ(k))'
  BY <1>1 DEF IInv, TypeOK, InFlight
<1>3. \A i \in Thread : ~Holds(i)' /\ (InFlight(i)' => i = Succ(k))
  BY <1>2 DEF IInv, OneToken
<1>4. AbsTurn = k
  BY <1>1, TurnHeld
<1>5. AbsTurn' = Succ(k)
  <2>1. (CHOOSE i \in Thread : pipe'[i] > 0) = Succ(k)
    BY <1>2, <1>3 DEF InFlight
  <2> QED
    BY <1>2, <1>3, <2>1 DEF Holds, InFlight, AbsTurn
<1>6. Succ(k) = Ring!Following(k)
  BY SuccIs DEF Ring!Following
<1>7. CASE phase = "overhead"
  <2>1. /\ LapsAt(cnt[0], k) < iters
        /\ Succ(k) = (cnt[0] + 1) % N
        /\ \A i \in Thread :
             LapsAt(cnt[0] + 1, i) = LapsAt(cnt[0], i) + (IF i = k THEN 1 ELSE 0)
    <3>1. cnt[0] \in Nat /\ cnt[0] < iters * N /\ k = cnt[0] % N
      BY <1>1, <1>7 DEF Passes
    <3> QED
      BY <3>1, LapsStep, Zenon
  <2>2. cnt'[0] = cnt[0] + 1
    BY <1>1, <1>7
  <2>3. AbsLaps = [i \in Thread |-> LapsAt(cnt[0], i)]
    BY <1>7 DEF AbsLaps, LapsAt
  <2>4. AbsLaps' = [i \in Thread |-> LapsAt(cnt[0] + 1, i)]
    BY <1>1, <1>7, <2>2 DEF AbsLaps, LapsAt
  <2>5. AbsLaps' = [AbsLaps EXCEPT ![k] = @ + 1]
    <3>1. \A i \in Thread : LapsAt(cnt[0], i) \in Int
      <4>1. \A i \in Thread : cnt[0] + N - 1 - i \in Int
        BY <1>1, <1>7 DEF Thread
      <4> QED
        BY <4>1, DivMod DEF LapsAt
    <3> QED
      BY <2>1, <2>3, <2>4, <3>1
  <2>6. RInv'
    BY <1>1, <1>2, <1>3, <1>7, <2>1, <2>2 DEF RInv, AtCursor, OneAhead
  <2>7. Ring!Pass(k)
    BY <1>4, <1>5, <1>6, <2>1, <2>3, <2>5 DEF Ring!Pass
  <2> QED
    BY <2>6, <2>7 DEF Ring!Next, Ring!Station, Thread
<1>8. CASE phase = "ring"
  <2>1. k = c /\ AbsLaps = [i \in Thread |-> cnt[i]] /\ AbsLaps' = [i \in Thread |-> cnt'[i]]
    BY <1>1, <1>8 DEF AbsLaps
  <2>2. AbsLaps[k] < iters /\ AbsLaps' = [AbsLaps EXCEPT ![k] = @ + 1]
    BY <1>1, <1>8, <2>1 DEF Passes
  <2>3. Ring!Pass(k)
    BY <1>4, <1>5, <1>6, <2>2 DEF Ring!Pass
  <2>4. OneAhead'
    <3> PICK q \in Nat : \A i \in Thread : cnt[i] = q + (IF i < k THEN 1 ELSE 0)
      BY <1>4, <1>8 DEF RInv, OneAhead
    <3>1. CASE k = N - 1
      <4>1. \A i \in Thread : cnt'[i] = (q + 1) + (IF i < Succ(k) THEN 1 ELSE 0)
        BY <1>1, <2>1, <3>1, SuccIs DEF Thread
      <4> QED
        BY <1>5, <4>1 DEF OneAhead
    <3>2. CASE k # N - 1
      <4>1. \A i \in Thread : cnt'[i] = q + (IF i < Succ(k) THEN 1 ELSE 0)
        BY <1>1, <2>1, <3>2, SuccIs DEF Thread
      <4> QED
        BY <1>5, <4>1 DEF OneAhead
    <3> QED
      BY <3>1, <3>2
  <2>5. AtCursor'
    BY <1>1, <1>8 DEF AtCursor
  <2> QED
    BY <2>3, <2>4, <2>5 DEF RInv, Ring!Next, Ring!Station, Thread
<1> QED
  BY <1>7, <1>8 DEF IInv, TypeOK

LEMMA CreateRing ==
  ASSUME IInv, IInv', RInv, Create
  PROVE  RInv' /\ UNCHANGED <<AbsTurn, AbsLaps>>
<1>1. /\ mpc = "create" /\ UNCHANGED <<mpc, phase, pipe, cnt>>
      /\ \A i \in Thread : pipe[i] = 0 /\ ~Holds(i) /\ ~Holds(i)'
  BY DEF Create, IInv, Quiet, Holds
<1>2. AbsTurn = 0 /\ AbsTurn' = 0
  BY <1>1 DEF Holds, AbsTurn
<1>3. AtCursor'
  <2>1. \A i \in Thread : ~InFlight(i)'
    BY <1>1 DEF InFlight
  <2>2. cnt'[0] = 0
    BY <1>1, Constants DEF IInv, Quiet, Thread
  <2> QED
    BY <2>1, <2>2 DEF AtCursor
<1> QED
  BY <1>1, <1>2, <1>3, TurnStays DEF RInv

\* Between two calls all passes have been made or none: a thread that failed
\* stops the ring before anyone can make the two passes that all make at least.
LEMMA CloseRing ==
  ASSUME IInv, IInv', RInv, ClosePipes
  PROVE  RInv' /\ ([Ring!Next]_(Ring!ringVars))
<1> USE Constants
<1>0. 0 \in Thread /\ 0 \in Nat /\ N \in Nat \ {0}
  BY DEF Thread
<1>1. /\ mpc = "close" /\ joined = Threads
      /\ \A i \in Thread : pipe'[i] = 0 /\ pc'[i] = "none" /\ cnt'[i] = 0
      /\ phase \in {"overhead", "ring"} /\ phase' \in {"overhead", "ring"}
  BY DEF ClosePipes, IInv, TypeOK, Joining
<1>2. \A i \in Thread : ~Holds(i)' /\ ~InFlight(i)'
  BY <1>1 DEF Holds, InFlight
<1>3. AbsTurn' = 0
  BY <1>2 DEF Holds, InFlight, AbsTurn
<1>4. RInv'
  <2>1. \A i \in Thread : cnt'[i] = 0 + (IF i < AbsTurn' THEN 1 ELSE 0)
    BY <1>1, <1>3 DEF Thread
  <2> QED
    BY <1>0, <1>1, <1>2, <2>1 DEF RInv, AtCursor, OneAhead
<1>5. \A i \in Thread : LapsAt(0, i) = 0
  <2>1. \A i \in Thread : LapsAt(0 * N + 0, i) = 0 + (IF i < 0 THEN 1 ELSE 0)
    BY <1>0, LapsSplit, Zenon
  <2> QED
    BY <2>1 DEF Thread
<1>6. AbsLaps' = [i \in Thread |-> 0]
  BY <1>0, <1>1, <1>5 DEF AbsLaps, LapsAt
<1>7. (\A i \in Thread : AbsLaps[i] = iters) => Ring!Restart
  BY <1>3, <1>6 DEF Ring!Restart, Ring!Station, Thread
<1>8. AbsTurn = 0 /\ (\A i \in Thread : AbsLaps[i] = 0) =>
        UNCHANGED <<AbsTurn, AbsLaps>>
  BY <1>3, <1>6 DEF AbsLaps
<1>9. \/ \A i \in Thread : AbsLaps[i] = iters
      \/ AbsTurn = 0 /\ \A i \in Thread : AbsLaps[i] = 0
  <2>1. CASE phase = "overhead"
    <3>1. pc[0] \in {"exited", "failed"}
      BY <1>0, <1>1, <2>1 DEF IInv, Joining, Threads
    <3>2. \A i \in Thread : AbsLaps[i] = LapsAt(cnt[0], i)
      BY <2>1 DEF AbsLaps, LapsAt
    <3>3. CASE pc[0] = "exited"
      <4>1. cnt[0] = iters * N + 0
        BY <1>0, <2>1, <3>3 DEF IInv, Counting, Passes
      <4>2. \A i \in Thread :
              LapsAt(iters * N + 0, i) = iters + (IF i < 0 THEN 1 ELSE 0)
        BY <1>0, LapsSplit, Zenon
      <4> QED
        BY <3>2, <4>1, <4>2 DEF Thread
    <3>4. CASE pc[0] = "failed"
      <4>1. cnt[0] = 0
        BY <1>0, <3>4 DEF IInv, Counting
      <4>2. \A i \in Thread : ~Holds(i)
        BY <2>1, <3>4, Ends DEF Holds
      <4>3. AbsTurn = 0
        <5>1. CASE \E i \in Thread : InFlight(i)
          <6> PICK i \in Thread : InFlight(i)
            BY <5>1
          <6>1. i = 0 % N /\ 0 % N = 0
            BY <1>0, <2>1, <4>1 DEF RInv, AtCursor
          <6> QED
            BY <6>1, TurnInPipe
        <5>2. CASE \A i \in Thread : ~InFlight(i)
          BY <4>2, <5>2, TurnNowhere
        <5> QED
          BY <5>1, <5>2
      <4> QED
        BY <1>5, <3>2, <4>1, <4>3
    <3> QED
      BY <3>1, <3>3, <3>4
  <2>2. CASE phase = "ring"
    <3>1. \A i \in Thread : \/ pc[i] = "exited" /\ cnt[i] = iters
                            \/ pc[i] = "failed" /\ cnt[i] = 0
      BY <1>1, <2>2 DEF IInv, Joining, Counting, Threads, Passes, Thread
    <3>2. \A i \in Thread : AbsLaps[i] = cnt[i]
      BY <2>2 DEF AbsLaps
    <3>3. CASE \A i \in Thread : pc[i] = "exited"
      BY <3>1, <3>2, <3>3
    <3>4. CASE \E j \in Thread : pc[j] = "failed"
      <4> PICK q \in Nat : \A i \in Thread :
                            cnt[i] = q + (IF i < AbsTurn THEN 1 ELSE 0)
        BY <2>2 DEF RInv, OneAhead
      <4>1. q = 0
        BY <3>1, <3>4
      <4>2. \A i \in Thread : cnt[i] = 0
        BY <3>1, <4>1
      <4>3. \A i \in Thread : ~Holds(i)
        BY <3>1 DEF Holds
      <4>4. AbsTurn \in Thread
        <5>1. CASE \E i \in Thread : InFlight(i)
          BY <5>1, TurnInPipe
        <5>2. CASE \A i \in Thread : ~InFlight(i)
          BY <1>0, <4>3, <5>2, TurnNowhere
        <5> QED
          BY <5>1, <5>2
      <4>5. AbsTurn = 0
        BY <1>0, <4>1, <4>2, <4>4 DEF Thread
      <4> QED
        BY <3>2, <4>2, <4>5
    <3> QED
      BY <3>1, <3>3, <3>4
  <2> QED
    BY <1>1, <2>1, <2>2
<1> QED
  BY <1>4, <1>7, <1>8, <1>9 DEF Ring!Next, Ring!ringVars

LEMMA NextRing ==
  IInv /\ IInv' /\ RInv /\ [Next]_vars => RInv' /\ [Ring!Next]_(Ring!ringVars)
<1> SUFFICES ASSUME IInv, IInv', RInv, [Next]_vars
             PROVE  RInv' /\ [Ring!Next]_(Ring!ringVars)
  OBVIOUS
<1>1. RInv' /\ UNCHANGED <<AbsTurn, AbsLaps>> => RInv' /\ [Ring!Next]_(Ring!ringVars)
  BY DEF Ring!ringVars
<1>2. CASE OpenPipes \/ Join \/ JoinUndefined \/ \E c \in Thread : PinFails(c)
  <2>1. UNCHANGED <<phase, pipe, heap, cnt, pc>>
    BY <1>2 DEF OpenPipes, Join, JoinUndefined, PinFails, threadVars
  <2> QED
    BY <1>1, <2>1, StillRing DEF Holds
<1>3. ASSUME NEW c \in Thread, Pin(c)
      PROVE  RInv' /\ UNCHANGED <<AbsTurn, AbsLaps>>
  <2>1. UNCHANGED <<phase, pipe, heap, cnt>>
    BY <1>3 DEF Pin
  <2>2. \A i \in Thread : Holds(i)' <=> Holds(i)
    BY <1>3 DEF Pin, At, Holds, IInv, TypeOK
  <2> QED
    BY <2>1, <2>2, StillRing
<1>4. CASE UNCHANGED vars
  <2>1. UNCHANGED <<phase, pipe, heap, cnt, pc>>
    BY <1>4 DEF vars, threadVars
  <2> QED
    BY <1>1, <2>1, StillRing DEF Holds
<1> QED
  BY <1>1, <1>2, <1>3, <1>4, CreateRing, KickRing, CloseRing, ReadRing, WriteRing
     DEF Next, Main, Steps, Finished

\* Every run of either phase is one turn of TokenRing: the token visits the pipes
\* in order, each as often as the others, for any N, iters and Runs, whatever the
\* scheduler does and whatever call fails.
THEOREM Refinement == Spec => RingSpec
BY InitRing, NextRing, Invariance, PTL DEF Spec, RingSpec, Ring!Spec

=============================================================================
