------------------------- MODULE TaskCreationProofs -------------------------
(***************************************************************************)
(* Proofs about TaskCreation, for every number of tasks, samples and       *)
(* faults: its types, that a sample is the time of iter tasks              *)
(* (EveryTaskTimed), and that each line is printed once (ReportedOnce).    *)
(*                                                                         *)
(* The inductive invariant IInv says where each of the tasks created for a *)
(* sample is: Tasks counts those that are alive or not waited for, born    *)
(* and left add up to iter unless a creation failed; and that nothing is   *)
(* in the buffer when a process is forked.                                 *)
(***************************************************************************)
EXTENDS TaskCreation, SequenceTheorems, TLAPS

Empty == {<<>>}
Tasks == Len(alive) + zombies

Types ==
  /\ kind \in {"process", "thread"}
  /\ limit \in Limits
  /\ mpc \in {"begin", "loop", "wait", "join", "sample", "print", "return",
              "done", "stuck", "crashed"}
  /\ phase \in {1, 2} /\ run \in 0..Runs /\ left \in 0..Iter
  /\ mpc \notin {"print", "return", "done"} => run < Runs
  /\ tid \in {"unset", "live", "joined"}
  /\ alive \in Seq(Empty) /\ zombies \in Nat
  /\ born \in 0..Iter /\ failed \in 0..MaxFaults

ProcessTasks ==
  kind = "process" =>
    /\ mpc \notin {"join", "stuck", "crashed"}
    /\ mpc \in {"begin", "sample", "print", "return", "done"} => Tasks = 0
    /\ mpc = "loop" => Tasks <= Iter - left /\ born <= Iter - left
    /\ mpc \in {"wait", "sample"} => left = 0
    /\ mpc \in {"loop", "wait", "sample"} =>
         born + left = Iter \/ failed > 0 \/ limit < Iter

ThreadTasks ==
  kind = "thread" =>
    /\ mpc # "wait"
    /\ mpc # "join" => Tasks = 0 /\ tid # "live"
    /\ mpc = "join" => /\ left > 0
                       /\ Tasks = IF tid = "live" THEN 1 ELSE 0
                       /\ failed = 0 => tid = "live" /\ born + left = Iter + 1
                       /\ born + left <= Iter + 1
                       /\ tid # "live" => born + left <= Iter
    /\ mpc = "loop" => born <= Iter - left
    /\ mpc \in {"loop", "sample"} => born + left = Iter \/ failed > 0
    /\ mpc = "sample" => left = 0

Output ==
  /\ buffer = <<>>
  /\ mpc \in {"return", "done"} => phase = 2
  /\ out = IF phase = 1 THEN <<>>
           ELSE IF mpc \in {"return", "done"} THEN <<1, 2>> ELSE <<1>>

IInv == Types /\ ProcessTasks /\ ThreadTasks /\ Output

-----------------------------------------------------------------------------
(* Lemmas *)

LEMMA LimitPositive ==
  Types => /\ limit \in Nat /\ limit > 0
           /\ Iter \in Nat /\ Iter > 0 /\ Runs \in Nat /\ Runs > 0
           /\ left \in Nat /\ born \in Nat /\ failed \in Nat /\ run \in Nat
           /\ Len(alive) \in Nat
  BY TaskCreationAssumption, LenProperties DEF Types

\* Taking one element out of a sequence.
LEMMA RemoveAtFacts ==
  ASSUME NEW S, NEW s \in Seq(S), NEW k \in DOMAIN s
  PROVE  /\ RemoveAt(s, k) \in Seq(S)
         /\ Len(RemoveAt(s, k)) = Len(s) - 1
  <1> DEFINE before == SubSeq(s, 1, k - 1)
             after  == SubSeq(s, k + 1, Len(s))
  <1>1. k \in 1..Len(s) /\ Len(s) \in Nat
    BY LenProperties
  <1>2. before \in Seq(S) /\ Len(before) = k - 1
    BY <1>1, SubSeqProperties, SMTT(20)
  <1>3. after \in Seq(S) /\ Len(after) = Len(s) - k
    BY <1>1, SubSeqProperties, SMTT(20)
  <1>4. RemoveAt(s, k) = before \o after
    BY DEF RemoveAt
  <1> HIDE DEF before, after
  <1>5. before \o after \in Seq(S) /\ Len(before \o after) = Len(before) + Len(after)
    BY <1>2, <1>3, ConcatProperties, Zenon
  <1>6. Len(before \o after) = Len(s) - 1
    BY <1>1, <1>2, <1>3, <1>5
  <1>7. QED
    BY <1>4, <1>5, <1>6

\* The output grows by one line after the other.
LEMMA AppendOneTwo == Append(<<>>, 1) = <<1>> /\ Append(<<1>>, 2) = <<1, 2>>
  <1>1. /\ <<>> \in Seq(Int) /\ <<1>> \in Seq(Int) /\ <<1, 2>> \in Seq(Int)
        /\ Len(<<>>) = 0 /\ Len(<<1>>) = 1 /\ Len(<<1, 2>>) = 2
    OBVIOUS
  <1>2. /\ Append(<<>>, 1) \in Seq(Int)
        /\ Len(Append(<<>>, 1)) = 1
        /\ Append(<<>>, 1)[1] = 1
    BY <1>1, AppendProperties
  <1>3. /\ Append(<<1>>, 2) \in Seq(Int)
        /\ Len(Append(<<1>>, 2)) = 2
        /\ Append(<<1>>, 2)[1] = 1
        /\ Append(<<1>>, 2)[2] = 2
    BY <1>1, AppendProperties
  <1>4. Append(<<>>, 1) = <<1>>
    BY <1>1, <1>2, SeqEqual
  <1>5. Append(<<1>>, 2) = <<1, 2>>
    <2> DEFINE s == Append(<<1>>, 2)
               t == <<1, 2>>
    <2>1. s \in Seq(Int) /\ t \in Seq(Int) /\ Len(s) = Len(t) /\ Len(s) = 2
      BY <1>1, <1>3
    <2>2. s[1] = t[1] /\ s[2] = t[2]
      BY <1>3
    <2> HIDE DEF s, t
    <2>3. \A i \in 1..Len(s) : s[i] = t[i]
      BY <2>1, <2>2
    <2>4. s = t
      BY <2>1, <2>3, SeqEqual
    <2>5. QED
      BY <2>4 DEF s, t
  <1>6. QED
    BY <1>4, <1>5

-----------------------------------------------------------------------------
(* The invariant *)

LEMMA InitInvariant == Init => IInv
  <1> SUFFICES ASSUME Init PROVE IInv
    OBVIOUS
  <1>1. <<>> \in Seq(Empty) /\ Len(<<>>) = 0
    BY EmptySeq
  <1>2. Types /\ Tasks = 0
    BY <1>1, TaskCreationAssumption DEF Init, Types, Tasks
  <1>3. ProcessTasks /\ ThreadTasks
    BY <1>2 DEF Init, ProcessTasks, ThreadTasks
  <1>4. Output
    BY DEF Init, Output
  <1>5. QED
    BY <1>2, <1>3, <1>4 DEF IInv

LEMMA StutterInvariant == IInv /\ UNCHANGED vars => IInv'
  BY DEF IInv, Types, ProcessTasks, ThreadTasks, Output, Tasks, vars, children

LEMMA BeginTimerStep == IInv /\ BeginTimer => IInv'
  <1> SUFFICES ASSUME IInv, BeginTimer PROVE IInv'
    OBVIOUS
  <1> USE DEF IInv, BeginTimer, children
  <1>1. Types'
    BY LimitPositive DEF Types
  <1>2. ProcessTasks' /\ ThreadTasks'
    BY LimitPositive DEF Types, ProcessTasks, ThreadTasks, Tasks
  <1>3. Output'
    BY DEF Output
  <1>4. QED
    BY <1>1, <1>2, <1>3

LEMMA ForkStep == IInv /\ Fork => IInv'
  <1> SUFFICES ASSUME IInv, Fork PROVE IInv'
    OBVIOUS
  <1> USE DEF IInv, Fork
  <1>1. alive' \in Seq(Empty) /\ Len(alive') = Len(alive) + 1
    BY AppendProperties DEF Types, Output, Empty
  <1>2. Types' /\ kind = "process"
    BY <1>1, LimitPositive DEF Types, ProcessTasks
  <1>3. ProcessTasks'
    BY SMTT(60), <1>1, <1>2, LimitPositive DEF Types, ProcessTasks, Tasks
  <1>4. ThreadTasks' /\ Output'
    BY <1>2 DEF ThreadTasks, Output
  <1>5. QED
    BY <1>2, <1>3, <1>4

LEMMA ForkFailsStep == IInv /\ ForkFails => IInv'
  <1> SUFFICES ASSUME IInv, ForkFails PROVE IInv'
    OBVIOUS
  <1> USE DEF IInv, ForkFails, children
  <1>1. failed' \in 0..MaxFaults /\ (failed > 0 => failed' > 0)
        /\ (failed' > 0 \/ Tasks >= limit)
    BY LimitPositive, TaskCreationAssumption
    DEF Types, CreationFails, Refused, Tasks
  <1>2. Types'
    BY <1>1, LimitPositive DEF Types
  <1>3. ProcessTasks'
    BY SMTT(60), <1>1, LimitPositive DEF Types, ProcessTasks, Tasks
  <1>4. ThreadTasks' /\ Output'
    BY DEF ThreadTasks, Output
  <1>5. QED
    BY <1>2, <1>3, <1>4

LEMMA ChildExitsStep == IInv /\ ChildExits => IInv'
  <1> SUFFICES ASSUME IInv, ChildExits PROVE IInv'
    OBVIOUS
  <1> USE DEF IInv, ChildExits
  <1>1. PICK k \in DOMAIN alive : /\ out' = out \o alive[k]
                                  /\ alive' = RemoveAt(alive, k)
    OBVIOUS
  <1>2. alive \in Seq(Empty)
    BY DEF Types
  <1>3. alive' \in Seq(Empty) /\ Len(alive') = Len(alive) - 1
    BY <1>1, <1>2, RemoveAtFacts
  <1>4. alive[k] = <<>>
    BY <1>2, LenProperties, ElementOfSeq DEF Empty
  <1>5. out' = out
    <2>1. out \in Seq(Int)
      BY DEF Output
    <2>2. QED
      BY <1>1, <1>4, <2>1, ConcatEmptySeq
  <1>6. Types' /\ Tasks' = Tasks
    BY <1>3, LimitPositive DEF Types, Tasks
  <1>7. ProcessTasks' /\ ThreadTasks'
    BY <1>6 DEF ProcessTasks, ThreadTasks
  <1>8. Output'
    BY <1>5 DEF Output
  <1>9. QED
    BY <1>6, <1>7, <1>8

LEMMA ForkedAllStep == IInv /\ ForkedAll => IInv'
  <1> SUFFICES ASSUME IInv, ForkedAll PROVE IInv'
    OBVIOUS
  <1> USE DEF IInv, ForkedAll, children
  <1>1. Types'
    BY DEF Types
  <1>2. ProcessTasks' /\ ThreadTasks'
    BY LimitPositive DEF Types, ProcessTasks, ThreadTasks, Tasks
  <1>3. Output'
    BY DEF Output
  <1>4. QED
    BY <1>1, <1>2, <1>3

LEMMA WaitStep == IInv /\ Wait => IInv'
  <1> SUFFICES ASSUME IInv, Wait PROVE IInv'
    OBVIOUS
  <1> USE DEF IInv, Wait, AfterWait
  <1>1. Types'
    BY DEF Types
  <1>2. ProcessTasks' /\ ThreadTasks'
    BY LimitPositive DEF Types, ProcessTasks, ThreadTasks, Tasks
  <1>3. Output'
    BY DEF Output
  <1>4. QED
    BY <1>1, <1>2, <1>3

LEMMA WaitReturnsErrorStep == IInv /\ WaitReturnsError => IInv'
  <1> SUFFICES ASSUME IInv, WaitReturnsError PROVE IInv'
    OBVIOUS
  <1> USE DEF IInv, WaitReturnsError, WaitedForAll, children
  <1>1. Types' /\ Tasks' = 0
    BY EmptySeq DEF Types, Tasks
  <1>2. ProcessTasks' /\ ThreadTasks'
    BY <1>1, LimitPositive DEF Types, ProcessTasks, ThreadTasks
  <1>3. Output'
    BY DEF Output
  <1>4. QED
    BY <1>1, <1>2, <1>3

LEMMA CreateStep == IInv /\ Create => IInv'
  <1> SUFFICES ASSUME IInv, Create PROVE IInv'
    OBVIOUS
  <1> USE DEF IInv, Create
  <1>1. alive' \in Seq(Empty) /\ Len(alive') = Len(alive) + 1
    BY AppendProperties DEF Types, Empty
  <1>2. Types'
    BY <1>1, LimitPositive DEF Types, ThreadTasks
  <1>3. ThreadTasks'
    BY <1>1, LimitPositive DEF Types, ThreadTasks, Tasks
  <1>4. ProcessTasks' /\ Output'
    BY DEF ProcessTasks, Output
  <1>5. QED
    BY <1>2, <1>3, <1>4

LEMMA CreateFailsStep == IInv /\ CreateFails => IInv'
  <1> SUFFICES ASSUME IInv, CreateFails PROVE IInv'
    OBVIOUS
  <1> USE DEF IInv, CreateFails, children
  <1>1. Tasks = 0 /\ ~Refused
    BY LimitPositive DEF ThreadTasks, Tasks, Refused
  <1>2. failed' \in 0..MaxFaults /\ failed' > 0
    BY <1>1, LimitPositive, TaskCreationAssumption DEF Types, CreationFails
  <1>3. Types'
    BY <1>2 DEF Types
  <1>4. ThreadTasks'
    BY <1>1, <1>2, LimitPositive DEF Types, ThreadTasks, Tasks
  <1>5. ProcessTasks' /\ Output'
    BY DEF ProcessTasks, Output
  <1>6. QED
    BY <1>3, <1>4, <1>5

LEMMA ThreadExitsStep == IInv /\ ThreadExits => IInv'
  <1> SUFFICES ASSUME IInv, ThreadExits PROVE IInv'
    OBVIOUS
  <1> USE DEF IInv, ThreadExits
  <1>1. alive' \in Seq(Empty) /\ Len(alive') = Len(alive) - 1
    BY HeadTailProperties DEF Types
  <1>2. Types' /\ Tasks' = Tasks
    BY <1>1, LimitPositive DEF Types, Tasks
  <1>3. ProcessTasks' /\ ThreadTasks'
    BY <1>2 DEF ProcessTasks, ThreadTasks
  <1>4. Output'
    BY DEF Output
  <1>5. QED
    BY <1>2, <1>3, <1>4

LEMMA JoinStep == IInv /\ Join => IInv'
  <1> SUFFICES ASSUME IInv, Join PROVE IInv'
    OBVIOUS
  <1> USE DEF IInv, Join
  <1>1. kind = "thread" /\ left > 0
    BY DEF Types, ProcessTasks, ThreadTasks
  <1>2. Types'
    BY <1>1, LimitPositive DEF Types
  <1>3. ThreadTasks'
    BY <1>1, LimitPositive DEF Types, ThreadTasks, Tasks
  <1>4. ProcessTasks' /\ Output'
    BY <1>1 DEF ProcessTasks, Output
  <1>5. QED
    BY <1>2, <1>3, <1>4

LEMMA JoinUndefinedStep == IInv /\ JoinUndefined => IInv'
  <1> SUFFICES ASSUME IInv, JoinUndefined PROVE IInv'
    OBVIOUS
  <1> USE DEF IInv, JoinUndefined, children
  <1>1. kind = "thread" /\ left > 0
    BY DEF Types, ProcessTasks, ThreadTasks
  <1>2. Types'
    BY <1>1, LimitPositive DEF Types
  <1>3. ThreadTasks'
    BY <1>1, LimitPositive DEF Types, ThreadTasks, Tasks
  <1>4. ProcessTasks' /\ Output'
    BY <1>1 DEF ProcessTasks, Output
  <1>5. QED
    BY <1>2, <1>3, <1>4

LEMMA JoinedAllStep == IInv /\ JoinedAll => IInv'
  <1> SUFFICES ASSUME IInv, JoinedAll PROVE IInv'
    OBVIOUS
  <1> USE DEF IInv, JoinedAll, children
  <1>1. Types'
    BY DEF Types
  <1>2. ProcessTasks' /\ ThreadTasks'
    BY LimitPositive DEF Types, ProcessTasks, ThreadTasks, Tasks
  <1>3. Output'
    BY DEF Output
  <1>4. QED
    BY <1>1, <1>2, <1>3

LEMMA SampleStep == IInv /\ Sample => IInv'
  <1> SUFFICES ASSUME IInv, Sample PROVE IInv'
    OBVIOUS
  <1> USE DEF IInv, Sample, children
  <1>1. Types'
    BY LimitPositive DEF Types
  <1>2. ProcessTasks' /\ ThreadTasks'
    BY LimitPositive DEF Types, ProcessTasks, ThreadTasks, Tasks
  <1>3. Output'
    BY DEF Output
  <1>4. QED
    BY <1>1, <1>2, <1>3

LEMMA ReportStep == IInv /\ Report => IInv'
  <1> SUFFICES ASSUME IInv, Report PROVE IInv'
    OBVIOUS
  <1> USE DEF IInv, Report, children
  <1>1. Types'
    BY LimitPositive DEF Types
  <1>2. ProcessTasks' /\ ThreadTasks'
    BY LimitPositive DEF Types, ProcessTasks, ThreadTasks, Tasks
  <1>3. phase \in {1, 2} /\ out \in Seq(Int)
    BY DEF Output, Types
  <1>4. out' = Append(out, phase) /\ buffer' = <<>>
    BY <1>3, ConcatEmptySeq DEF Output, Printed
  <1>5. Append(<<>>, 1) = <<1>> /\ Append(<<1>>, 2) = <<1, 2>>
    BY AppendOneTwo
  <1>6. CASE phase = 1
    BY <1>1, <1>2, <1>4, <1>5, <1>6 DEF Output, Types
  <1>7. CASE phase = 2
    BY <1>1, <1>2, <1>4, <1>5, <1>7 DEF Output, Types
  <1>8. QED
    BY <1>3, <1>6, <1>7

LEMMA ReturnStep == IInv /\ Return => IInv'
  <1> SUFFICES ASSUME IInv, Return PROVE IInv'
    OBVIOUS
  <1> USE DEF IInv, Return, children
  <1>1. Types'
    BY DEF Types
  <1>2. ProcessTasks' /\ ThreadTasks'
    BY LimitPositive DEF Types, ProcessTasks, ThreadTasks, Tasks
  <1>3. Output'
    BY DEF Output
  <1>4. QED
    BY <1>1, <1>2, <1>3

THEOREM Invariant == Spec => []IInv
  <1>1. IInv /\ [Next]_vars => IInv'
    BY StutterInvariant, BeginTimerStep, ForkStep, ForkFailsStep, ChildExitsStep,
       ForkedAllStep, WaitStep, WaitReturnsErrorStep, CreateStep, CreateFailsStep,
       ThreadExitsStep, JoinStep, JoinUndefinedStep, JoinedAllStep, SampleStep,
       ReportStep, ReturnStep
    DEF Next, Main, Child
  <1>2. QED
    BY <1>1, InitInvariant, PTL DEF Spec

-----------------------------------------------------------------------------
(* What follows from it *)

\* The types hold: no sample creates more than iter tasks, and no more creations
\* fail than the bound allows.
THEOREM CreationTyping == Spec => []TypeOK
  <1>1. IInv => TypeOK
    <2> SUFFICES ASSUME IInv PROVE TypeOK
      OBVIOUS
    <2>1. <<>> \in Seq({1, 2}) /\ <<1>> \in Seq({1, 2}) /\ <<1, 2>> \in Seq({1, 2})
      OBVIOUS
    <2>2. alive \in Seq(Seq({1, 2}))
      <3>1. Empty \subseteq Seq({1, 2})
        BY <2>1 DEF Empty
      <3>2. alive \in Seq(Empty)
        BY DEF IInv, Types
      <3>3. \A i \in 1..Len(alive) : alive[i] \in Seq({1, 2})
        <4> HIDE DEF Empty
        <4>1. QED
          BY <3>1, <3>2
      <3>4. Seq(Empty) \subseteq Seq(Seq({1, 2}))
        BY <3>1, SeqMonotonic
      <3>5. QED
        BY <3>2, <3>4
    <2>3. buffer \in Seq({1, 2}) /\ out \in Seq({1, 2})
      BY <2>1 DEF IInv, Output
    <2>4. QED
      BY <2>2, <2>3 DEF IInv, Types, TypeOK
  <1>2. QED
    BY <1>1, Invariant, PTL

\* A sample of createProcess or createThread is the time of iter tasks from their
\* creation to their end, and leaves none behind for the next sample.
THEOREM TasksTimed == Spec => []EveryTaskTimed
  <1>1. IInv => EveryTaskTimed
    <2> SUFFICES ASSUME IInv, mpc = "sample"
                 PROVE  /\ alive = <<>> /\ zombies = 0
                        /\ born = Iter \/ failed > 0
                             \/ (kind = "process" /\ limit < Iter)
      BY DEF EveryTaskTimed
    <2>1. Tasks = 0 /\ left = 0
      BY DEF IInv, Types, ProcessTasks, ThreadTasks
    <2>2. alive = <<>> /\ zombies = 0
      BY <2>1, LimitPositive, EmptySeq DEF IInv, Types, Tasks
    <2>3. born = Iter \/ failed > 0 \/ (kind = "process" /\ limit < Iter)
      BY <2>1, LimitPositive DEF IInv, Types, ProcessTasks, ThreadTasks
    <2>4. QED
      BY <2>2, <2>3
  <1>2. QED
    BY <1>1, Invariant, PTL

\* What a forked child flushes at its exit is empty, so that the standard output
\* has at most the line of the first function followed by that of the second.
THEOREM PrintedOnce == Spec => []ReportedOnce
  <1>1. IInv => ReportedOnce
    BY DEF IInv, Output, ReportedOnce, IsPrefix
  <1>2. QED
    BY <1>1, Invariant, PTL

=============================================================================
