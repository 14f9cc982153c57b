------------------------ MODULE FileContentionProofs ------------------------
(***************************************************************************)
(* The tree of processes of the file contention benchmark, for any number  *)
(* of children per run, runs, files and failing forks: its types, that the *)
(* first process reports after all the others, that its report has every   *)
(* run, and that the files of the first run are distinct.                  *)
(***************************************************************************)
EXTENDS FileContention, SequenceTheorems, TLAPS

\* The process k generations down the path to q; k = Len(q) is q itself.
Ancestor(q, k) == SubSeq(q, 1, k)
Parent(q) == Ancestor(q, Len(q) - 1)

\* Whoever was forked was forked by a process.
Tree == \A q \in Born : \A k \in 0..Len(q) : Ancestor(q, k) \in Born

\* Every child was forked in an earlier run of its parent, or in this one before
\* the child the parent forks next.
Earlier ==
  \A q \in Born : q # Root =>
    LET birth  == q[Len(q)]
        parent == procs[Parent(q)]
    IN  \/ birth[1] < parent.run
        \/ birth[1] = parent.run /\ birth[2] < parent.i

\* A process has a sample of each run before its own, those of the runs before
\* its birth in the vector it inherited, and leaves the runs after the last.
SampledOf(p) ==
  /\ procs[p].m_vals = [k \in 1..procs[p].run |-> k - 1]
  /\ procs[p].pc \in {"fork", "read"} => procs[p].run < N_RUNS
  /\ At(p, "wait") => procs[p].run = N_RUNS
  /\ At(p, "exited") /\ n_processes < files => procs[p].run = N_RUNS

\* With every file in place no process ends before one that descends from it.
ParentsLast ==
  n_processes < files =>
    \A q \in Born : ~At(q, "exited") =>
      \A k \in 0..Len(q) : ~At(Ancestor(q, k), "exited")

\* The report is the first process's, made when it exits.
Reporting ==
  /\ report # <<>> => At(Root, "exited")
  /\ At(Root, "exited") /\ n_processes < files => report = procs[Root].m_vals

\* Who is in the first run: the first process, and children of it that have
\* the file of their place in the loop.
InFirstRun(p) ==
  procs[p].run = 0 =>
    \/ p = Root /\ (At(p, "read") => procs[p].idx = n_processes)
    \/ \E i \in 0..(n_processes - 1) :
         /\ p = <<<<0, i>>>>
         /\ procs[p].idx = i
         /\ procs[p].pc \in {"read", "exited"}

Sampling == \A p \in Born : SampledOf(p)
FirstRun == \A p \in Born : InFirstRun(p)

IInv ==
  /\ TypeOK /\ Tree /\ Earlier /\ Sampling /\ ParentsLast /\ Reporting
  /\ FirstRun

LEMMA Constants ==
  n_processes \in Nat /\ N_RUNS \in Nat /\ N_RUNS > 0 /\ MaxFaults \in Nat
BY FileContentionAssumption
-----------------------------------------------------------------------------
(* Paths *)

LEMMA PathSeq == \A q \in Path : Len(q) \in Nat /\ DOMAIN q = 1..Len(q)
BY DEF Path

LEMMA AncestorPath ==
  ASSUME NEW q \in Path, NEW k \in 0..Len(q)
  PROVE  /\ Ancestor(q, k) \in Path
         /\ Len(Ancestor(q, k)) = k
         /\ \A j \in 1..k : Ancestor(q, k)[j] = q[j]
BY PathSeq DEF Path, Ancestor

\* Two paths are the same if they have the same length and the same births.
LEMMA SamePath ==
  ASSUME NEW p \in Path, NEW q \in Path, Len(p) = Len(q),
         \A j \in 1..Len(p) : p[j] = q[j]
  PROVE  p = q
BY SeqEqual DEF Path

LEMMA AncestorSelf == \A q \in Path : Ancestor(q, Len(q)) = q
BY AncestorPath, SamePath, PathSeq

LEMMA AncestorRoot == \A q \in Path : Ancestor(q, 0) = Root
<1>1. ASSUME NEW q \in Path PROVE Ancestor(q, 0) = Root
  <2>1. Root \in Path /\ Len(Root) = 0
    BY DEF Root, Path
  <2> QED
    BY <2>1, AncestorPath, SamePath, PathSeq
<1> QED
  BY <1>1

LEMMA AncestorOfAncestor ==
  ASSUME NEW q \in Path, NEW k \in 0..Len(q), NEW j \in 0..k
  PROVE  Ancestor(Ancestor(q, k), j) = Ancestor(q, j)
<1>1. j \in 0..Len(q) /\ Len(q) \in Nat
  BY PathSeq
<1>2. Ancestor(q, k) \in Path /\ Len(Ancestor(q, k)) = k
  BY AncestorPath
<1>3. \A m \in 1..j : Ancestor(Ancestor(q, k), j)[m] = Ancestor(q, j)[m]
  BY <1>1, <1>2, AncestorPath
<1> QED
  BY <1>1, <1>2, <1>3, AncestorPath, SamePath

\* A path with one more birth.
LEMMA AppendBirth ==
  \A p \in Path : \A b \in Birth : \A c \in {Append(p, b)} :
     /\ c \in Path /\ c # Root /\ c # p
     /\ Len(c) = Len(p) + 1 /\ c[Len(c)] = b
     /\ Parent(c) = p
     /\ \A k \in 0..Len(p) : Ancestor(c, k) = Ancestor(p, k)
<1> SUFFICES ASSUME NEW p \in Path, NEW b \in Birth, NEW c, c = Append(p, b)
             PROVE  /\ c \in Path /\ c # Root /\ c # p
                    /\ Len(c) = Len(p) + 1 /\ c[Len(c)] = b
                    /\ Parent(c) = p
                    /\ \A k \in 0..Len(p) : Ancestor(c, k) = Ancestor(p, k)
  OBVIOUS
<1>1. c \in Path /\ Len(c) = Len(p) + 1 /\ c[Len(c)] = b /\ Len(p) \in Nat
  BY AppendProperties DEF Path
<1>2. \A j \in 1..Len(p) : c[j] = p[j]
  BY AppendProperties DEF Path
<1>3. Len(Root) = 0
  BY DEF Root
<1>4. ASSUME NEW k \in 0..Len(p)
      PROVE  Ancestor(c, k) = Ancestor(p, k)
  <2>1. k \in 0..Len(c)
    BY <1>1
  <2>2. /\ Ancestor(c, k) \in Path /\ Len(Ancestor(c, k)) = k
        /\ \A j \in 1..k : Ancestor(c, k)[j] = c[j]
    BY <1>1, <2>1, AncestorPath, Zenon
  <2>3. /\ Ancestor(p, k) \in Path /\ Len(Ancestor(p, k)) = k
        /\ \A j \in 1..k : Ancestor(p, k)[j] = p[j]
    BY AncestorPath, Zenon
  <2>4. \A j \in 1..k : j \in 1..Len(p)
    BY <1>1
  <2>5. \A j \in 1..k : Ancestor(c, k)[j] = Ancestor(p, k)[j]
    BY <1>2, <2>2, <2>3, <2>4, Zenon
  <2> QED
    BY <2>2, <2>3, <2>5, SamePath, Zenon
<1>5. Parent(c) = p
  BY <1>1, <1>4, AncestorSelf DEF Parent
<1> QED
  BY <1>1, <1>3, <1>4, <1>5

-----------------------------------------------------------------------------
(* The invariant *)

LEMMA InitIInv == Init => IInv
<1> SUFFICES ASSUME Init
             PROVE  IInv
  OBVIOUS
<1> USE Constants
<1>1. /\ Born = {Root} /\ Root \in Path /\ Len(Root) = 0
      /\ procs[Root] = [pc |-> "fork", run |-> 0, i |-> 0, idx |-> 0,
                        m_vals |-> <<>>]
  BY DEF Init, Born, Path, Root
<1>2. [k \in 1..0 |-> k - 1] = <<>>
  OBVIOUS
<1>3. TypeOK
  BY <1>1, FileContentionAssumption DEF Init, TypeOK, Proc
<1>4. Ancestor(Root, 0) = Root
  BY <1>1, AncestorRoot
<1>5. Tree /\ Earlier /\ ParentsLast /\ Reporting
  BY <1>1, <1>4 DEF Tree, Earlier, ParentsLast, Reporting, At, Init
<1>6. Sampling /\ FirstRun
  BY <1>1, <1>2 DEF Sampling, SampledOf, FirstRun, InFirstRun, At
<1> QED
  BY <1>3, <1>5, <1>6 DEF IInv

LEMMA BornFacts ==
  ASSUME TypeOK, NEW p \in Born
  PROVE  /\ p \in Path /\ Root \in Born
         /\ procs[p] \in Proc
         /\ procs[p].pc \in {"fork", "read", "wait", "exited"}
         /\ procs[p].run \in 0..N_RUNS
         /\ procs[p].i \in 0..n_processes
         /\ procs[p].idx \in 0..n_processes
         /\ procs[p].m_vals \in Seq(0..(N_RUNS - 1))
BY DEF TypeOK, Proc

\* The parent of a process other than the first was forked, too.
LEMMA ParentBorn ==
  ASSUME TypeOK, Tree, NEW q \in Born, q # Root
  PROVE  Parent(q) \in Born /\ q[Len(q)] \in Birth /\ Len(q) \in Nat \ {0}
<1>1. q \in Path
  BY BornFacts
<1>2. Len(q) \in Nat \ {0}
  BY <1>1, AncestorRoot, AncestorSelf, PathSeq
<1> QED
  BY <1>1, <1>2 DEF Tree, Parent, Path

\* A step that forks nobody takes no process back to an earlier birth.
LEMMA TreeFrame ==
  ASSUME TypeOK, Tree, Earlier, Born' = Born,
         \A q \in Born : \/ procs'[q].run > procs[q].run
                         \/ /\ procs'[q].run = procs[q].run
                            /\ procs'[q].i >= procs[q].i,
         \A q \in Born : procs'[q].run \in Nat /\ procs'[q].i \in Nat
  PROVE  Tree' /\ Earlier'
<1>1. Tree'
  BY DEF Tree, Ancestor
<1>2. ASSUME NEW q \in Born, q # Root
      PROVE  \/ q[Len(q)][1] < procs'[Parent(q)].run
             \/ /\ q[Len(q)][1] = procs'[Parent(q)].run
                /\ q[Len(q)][2] < procs'[Parent(q)].i
  <2>1. /\ Parent(q) \in Born
        /\ q[Len(q)][1] \in Int /\ q[Len(q)][2] \in Int
    BY <1>2, ParentBorn DEF Birth
  <2>2. \/ q[Len(q)][1] < procs[Parent(q)].run
        \/ /\ q[Len(q)][1] = procs[Parent(q)].run
           /\ q[Len(q)][2] < procs[Parent(q)].i
    BY <1>2 DEF Earlier
  <2>3. procs[Parent(q)].run \in Nat /\ procs[Parent(q)].i \in Nat
    BY <2>1, BornFacts
  <2> QED
    BY <2>1, <2>2, <2>3
<1>3. Earlier'
  BY <1>2 DEF Earlier, Parent, Ancestor
<1> QED
  BY <1>1, <1>3

\* A step in which nobody is forked or exits keeps the order of exits.
LEMMA ExitFrame ==
  ASSUME TypeOK, Tree, ParentsLast, Reporting, Born' = Born,
         \A q \in Born : At(q, "exited")' = At(q, "exited"),
         UNCHANGED <<report, files>>,
         At(Root, "exited") => procs'[Root].m_vals = procs[Root].m_vals
  PROVE  ParentsLast' /\ Reporting'
<1>1. \A q \in Born : \A k \in 0..Len(q) : Ancestor(q, k) \in Born
  BY DEF Tree
<1>2. ParentsLast'
  <2> SUFFICES ASSUME n_processes < files, NEW q \in Born, ~At(q, "exited")',
                      NEW k \in 0..Len(q)
               PROVE  ~At(Ancestor(q, k), "exited")'
    BY DEF ParentsLast, Ancestor
  <2> QED
    BY <1>1 DEF ParentsLast
<1>3. Reporting'
  <2>1. Root \in Born
    BY DEF TypeOK
  <2> QED
    BY <2>1 DEF Reporting, At
<1> QED
  BY <1>2, <1>3

\* A step that changes the state of one process, to a run or a place in the
\* loop that is no earlier, keeps what is said of each process if it keeps it
\* for this one.
LEMMA OneProcess ==
  ASSUME TypeOK, Tree, Earlier, Sampling, FirstRun,
         NEW p \in Born, Born' = Born,
         \A q \in Born : q # p => procs'[q] = procs[q],
         procs'[p] \in Proc,
         \/ procs'[p].run > procs[p].run
         \/ procs'[p].run = procs[p].run /\ procs'[p].i >= procs[p].i,
         SampledOf(p)', InFirstRun(p)',
         UNCHANGED files, failed' \in Nat,
         report' \in Seq(0..(N_RUNS - 1))
  PROVE  TypeOK' /\ Tree' /\ Earlier' /\ Sampling' /\ FirstRun'
<1> USE Constants
<1>1. TypeOK'
  BY DEF TypeOK
<1>2. \A q \in Born : procs'[q].run \in Nat /\ procs'[q].i \in Nat
  <2> SUFFICES ASSUME NEW q \in Born
               PROVE  procs'[q].run \in Nat /\ procs'[q].i \in Nat
    OBVIOUS
  <2>1. procs'[q] \in Proc
    BY DEF TypeOK
  <2> QED
    BY SMTT(60), <2>1 DEF Proc
<1>3. \A q \in Born : \/ procs'[q].run > procs[q].run
                      \/ /\ procs'[q].run = procs[q].run
                         /\ procs'[q].i >= procs[q].i
  <2> SUFFICES ASSUME NEW q \in Born, q # p
               PROVE  /\ procs'[q].run = procs[q].run
                      /\ procs'[q].i >= procs[q].i
    OBVIOUS
  <2>1. procs'[q] = procs[q] /\ procs[q].i \in Nat
    BY BornFacts
  <2> QED
    BY <2>1
<1>4. Tree' /\ Earlier'
  BY <1>2, <1>3, TreeFrame
<1>5. Sampling'
  <2> SUFFICES ASSUME NEW q \in Born, q # p
               PROVE  SampledOf(q)'
    BY DEF Sampling
  <2> QED
    BY DEF Sampling, SampledOf, At
<1>6. FirstRun'
  <2> SUFFICES ASSUME NEW q \in Born, q # p
               PROVE  InFirstRun(q)'
    BY DEF FirstRun
  <2> QED
    BY DEF FirstRun, InFirstRun, At
<1> QED
  BY <1>1, <1>4, <1>5, <1>6

LEMMA LoopCounter ==
  ASSUME NEW r \in Proc, r.i < n_processes, NEW s, s = [r EXCEPT !.i = @ + 1]
  PROVE  /\ s \in Proc /\ s.i = r.i + 1
         /\ s.pc = r.pc /\ s.run = r.run /\ s.idx = r.idx
         /\ s.m_vals = r.m_vals
<1>1. r.i + 1 \in 0..n_processes
  BY Constants DEF Proc
<1> QED
  BY <1>1 DEF Proc

LEMMA ForkFailsStep ==
  ASSUME IInv, NEW p \in Born, ForkFails(p)
  PROVE  IInv'
<1> USE Constants
<1>t. TypeOK /\ Tree /\ Earlier /\ Sampling /\ ParentsLast /\ Reporting /\ FirstRun
  BY DEF IInv
<1>p. /\ procs[p] \in Proc /\ p \in Path /\ Root \in Born
      /\ procs[p].run \in 0..N_RUNS /\ procs[p].i \in 0..n_processes
  BY <1>t, BornFacts
<1>1. /\ procs[p].pc = "fork" /\ procs[p].i < n_processes
      /\ Born' = Born
      /\ \A q \in Born : q # p => procs'[q] = procs[q]
      /\ procs'[p] = [procs[p] EXCEPT !.i = @ + 1]
      /\ UNCHANGED <<report, files>> /\ failed' = failed + 1
  BY DEF ForkFails, Born, At
<1>2. /\ procs'[p] \in Proc /\ procs'[p].pc = procs[p].pc
      /\ procs'[p].run = procs[p].run /\ procs'[p].i = procs[p].i + 1
      /\ procs'[p].idx = procs[p].idx /\ procs'[p].m_vals = procs[p].m_vals
  BY ZenonT(60), <1>p, <1>1, LoopCounter
<1>3. SampledOf(p)' /\ InFirstRun(p)'
  <2>1. SampledOf(p) /\ InFirstRun(p)
    BY <1>t DEF Sampling, FirstRun
  <2> QED
    BY <2>1, <1>1, <1>2 DEF SampledOf, InFirstRun, At
<1>4. procs'[p].i >= procs[p].i /\ failed' \in Nat
      /\ report' \in Seq(0..(N_RUNS - 1))
  BY SMTT(60), <1>t, <1>p, <1>1, <1>2 DEF TypeOK
<1>5. TypeOK' /\ Tree' /\ Earlier' /\ Sampling' /\ FirstRun'
  BY <1>t, <1>1, <1>2, <1>3, <1>4, OneProcess
<1>6. ParentsLast' /\ Reporting'
  BY <1>t, <1>p, <1>1, <1>2, ExitFrame DEF At
<1> QED
  BY <1>5, <1>6 DEF IInv

LEMMA ForkLoopEndsStep ==
  ASSUME IInv, NEW p \in Born, ForkLoopEnds(p)
  PROVE  IInv'
<1> USE Constants
<1>t. /\ TypeOK /\ Tree /\ Earlier /\ Sampling /\ ParentsLast
      /\ Reporting /\ FirstRun
  BY DEF IInv
<1>p. /\ procs[p] \in Proc /\ p \in Path /\ Root \in Born
      /\ procs[p].run \in 0..N_RUNS /\ procs[p].i \in 0..n_processes
      /\ procs[p].idx \in 0..n_processes
      /\ procs[p].m_vals \in Seq(0..(N_RUNS - 1))
      /\ SampledOf(p) /\ InFirstRun(p)
  BY <1>t, BornFacts DEF Sampling, FirstRun
<1>1. /\ procs[p].pc = "fork"
      /\ Born' = Born
      /\ \A q \in Born : q # p => procs'[q] = procs[q]
      /\ procs'[p] = [procs[p] EXCEPT !.pc = "read", !.idx = n_processes]
      /\ UNCHANGED <<report, files, failed>>
  BY DEF ForkLoopEnds, Born, At, ValueOfParent
<1>2. /\ procs'[p] \in Proc /\ procs'[p].pc = "read"
      /\ procs'[p].run = procs[p].run /\ procs'[p].i = procs[p].i
      /\ procs'[p].idx = n_processes /\ procs'[p].m_vals = procs[p].m_vals
  <2>1. procs'[p] = [pc |-> "read", run |-> procs[p].run, i |-> procs[p].i,
                     idx |-> n_processes, m_vals |-> procs[p].m_vals]
    BY <1>p, <1>1 DEF Proc
  <2> QED
    BY <1>p, <2>1 DEF Proc
<1>3. SampledOf(p)' /\ InFirstRun(p)'
  BY <1>p, <1>1, <1>2 DEF SampledOf, InFirstRun, At
<1>4. procs'[p].i >= procs[p].i /\ failed' \in Nat
      /\ report' \in Seq(0..(N_RUNS - 1))
  BY <1>t, <1>p, <1>1, <1>2 DEF TypeOK
<1>5. TypeOK' /\ Tree' /\ Earlier' /\ Sampling' /\ FirstRun'
  BY <1>t, <1>1, <1>2, <1>3, <1>4, OneProcess
<1>6. ParentsLast' /\ Reporting'
  BY <1>t, <1>p, <1>1, <1>2, ExitFrame DEF At
<1> QED
  BY <1>5, <1>6 DEF IInv

\* A file is missing only if there are no more files than children.
LEMMA MissingFileStep ==
  ASSUME IInv, NEW p \in Born, MissingFile(p)
  PROVE  IInv'
<1> USE Constants
<1>t. /\ TypeOK /\ Tree /\ Earlier /\ Sampling /\ ParentsLast
      /\ Reporting /\ FirstRun
  BY DEF IInv
<1>p. /\ procs[p] \in Proc /\ p \in Path /\ Root \in Born
      /\ procs[p].run \in 0..N_RUNS /\ procs[p].i \in 0..n_processes
      /\ procs[p].idx \in 0..n_processes
      /\ procs[p].m_vals \in Seq(0..(N_RUNS - 1))
      /\ SampledOf(p) /\ InFirstRun(p)
  BY <1>t, BornFacts DEF Sampling, FirstRun
<1>1. /\ procs[p].pc = "read" /\ procs[p].idx >= files
      /\ Born' = Born
      /\ \A q \in Born : q # p => procs'[q] = procs[q]
      /\ procs'[p] = [procs[p] EXCEPT !.pc = "exited"]
      /\ UNCHANGED <<report, files, failed>>
  BY DEF MissingFile, Born, At
<1>2. /\ procs'[p] \in Proc /\ procs'[p].pc = "exited"
      /\ procs'[p].run = procs[p].run /\ procs'[p].i = procs[p].i
      /\ procs'[p].idx = procs[p].idx /\ procs'[p].m_vals = procs[p].m_vals
  BY <1>p, <1>1 DEF Proc
<1>f. files \in Nat /\ ~(n_processes < files)
  BY <1>t, <1>p, <1>1, FileContentionAssumption DEF TypeOK
<1>3. SampledOf(p)' /\ InFirstRun(p)'
  BY <1>p, <1>1, <1>2, <1>f DEF SampledOf, InFirstRun, At
<1>4. procs'[p].i >= procs[p].i /\ failed' \in Nat
      /\ report' \in Seq(0..(N_RUNS - 1))
  BY <1>t, <1>p, <1>1, <1>2 DEF TypeOK
<1>5. TypeOK' /\ Tree' /\ Earlier' /\ Sampling' /\ FirstRun'
  BY <1>t, <1>1, <1>2, <1>3, <1>4, OneProcess
<1>6. ParentsLast'
  BY <1>1, <1>f DEF ParentsLast
<1>7. Reporting'
  BY SMTT(60), <1>t, <1>p, <1>1, <1>2, <1>f DEF Reporting, At
<1> QED
  BY <1>5, <1>6, <1>7 DEF IInv

LEMMA NextSample ==
  ASSUME NEW r \in Nat
  PROVE  Append([k \in 1..r |-> k - 1], r) = [k \in 1..(r + 1) |-> k - 1]
OBVIOUS

LEMMA ReadFileStep ==
  ASSUME IInv, NEW p \in Born, ReadFile(p)
  PROVE  IInv'
<1> USE Constants
<1>t. /\ TypeOK /\ Tree /\ Earlier /\ Sampling /\ ParentsLast
      /\ Reporting /\ FirstRun
  BY DEF IInv
<1>p. /\ procs[p] \in Proc /\ p \in Path /\ Root \in Born
      /\ procs[p].run \in 0..N_RUNS /\ procs[p].i \in 0..n_processes
      /\ procs[p].idx \in 0..n_processes
      /\ procs[p].m_vals \in Seq(0..(N_RUNS - 1))
      /\ SampledOf(p) /\ InFirstRun(p)
  BY <1>t, BornFacts DEF Sampling, FirstRun
<1> DEFINE v == Append(procs[p].m_vals, procs[p].run)
           at == IF RunsLeft(procs[p].run) THEN "fork" ELSE "wait"
<1>1. /\ procs[p].pc = "read" /\ procs[p].run < N_RUNS
      /\ Born' = Born
      /\ \A q \in Born : q # p => procs'[q] = procs[q]
      /\ procs'[p] = [procs[p] EXCEPT !.m_vals = v, !.run = procs[p].run + 1,
                                      !.i = 0, !.pc = at]
      /\ UNCHANGED <<report, files, failed>>
  BY ZenonT(60), <1>p DEF ReadFile, Born, At, SampledOf
<1>2. /\ procs[p].run + 1 \in 0..N_RUNS
      /\ v \in Seq(0..(N_RUNS - 1)) /\ at \in {"fork", "wait"}
  BY SMTT(60), <1>p, <1>1
<1>3. /\ procs'[p] \in Proc /\ procs'[p].pc = at
      /\ procs'[p].run = procs[p].run + 1 /\ procs'[p].m_vals = v
  <2> HIDE DEF v, at
  <2>1. procs'[p] = [pc |-> at, run |-> procs[p].run + 1, i |-> 0,
                     idx |-> procs[p].idx, m_vals |-> v]
    BY <1>p, <1>1 DEF Proc
  <2> QED
    BY <1>p, <1>2, <2>1 DEF Proc
<1>4. procs'[p].m_vals = [k \in 1..procs'[p].run |-> k - 1]
  BY SMTT(60), <1>p, <1>3, NextSample DEF SampledOf
<1>5. SampledOf(p)' /\ InFirstRun(p)'
  BY SMTT(60), <1>p, <1>1, <1>3, <1>4 DEF SampledOf, InFirstRun, At, RunsLeft
<1>6. procs'[p].run > procs[p].run /\ failed' \in Nat
      /\ report' \in Seq(0..(N_RUNS - 1))
  BY <1>t, <1>p, <1>1, <1>3 DEF TypeOK
<1>7. TypeOK' /\ Tree' /\ Earlier' /\ Sampling' /\ FirstRun'
  BY <1>t, <1>1, <1>3, <1>5, <1>6, OneProcess
<1>8. ParentsLast' /\ Reporting'
  BY <1>t, <1>p, <1>1, <1>3, ExitFrame DEF At
<1> QED
  BY <1>7, <1>8 DEF IInv

\* A process exits after its children; by ParentsLast whoever descends from it
\* and has not exited has an ancestor among them that has not.
LEMMA WaitAndExitStep ==
  ASSUME IInv, NEW p \in Born, WaitAndExit(p)
  PROVE  IInv'
<1> USE Constants
<1>t. /\ TypeOK /\ Tree /\ Earlier /\ Sampling /\ ParentsLast
      /\ Reporting /\ FirstRun
  BY DEF IInv
<1>p. /\ procs[p] \in Proc /\ p \in Path /\ Root \in Born
      /\ procs[p].run \in 0..N_RUNS /\ procs[p].i \in 0..n_processes
      /\ procs[p].idx \in 0..n_processes
      /\ procs[p].m_vals \in Seq(0..(N_RUNS - 1))
      /\ SampledOf(p) /\ InFirstRun(p)
  BY <1>t, BornFacts DEF Sampling, FirstRun
<1>1. /\ procs[p].pc = "wait" /\ Reaped(p)
      /\ Born' = Born
      /\ \A q \in Born : q # p => procs'[q] = procs[q]
      /\ procs'[p] = [procs[p] EXCEPT !.pc = "exited"]
      /\ report' = IF p = Root THEN procs[p].m_vals ELSE report
      /\ UNCHANGED <<files, failed>>
  BY DEF WaitAndExit, Born, At, Reports
<1>2. /\ procs'[p] \in Proc /\ procs'[p].pc = "exited"
      /\ procs'[p].run = procs[p].run /\ procs'[p].i = procs[p].i
      /\ procs'[p].idx = procs[p].idx /\ procs'[p].m_vals = procs[p].m_vals
  BY <1>p, <1>1 DEF Proc
<1>3. SampledOf(p)' /\ InFirstRun(p)'
  BY <1>p, <1>1, <1>2 DEF SampledOf, InFirstRun, At
<1>4. procs'[p].i >= procs[p].i /\ failed' \in Nat
      /\ report' \in Seq(0..(N_RUNS - 1))
  BY <1>t, <1>p, <1>1, <1>2 DEF TypeOK
<1>5. TypeOK' /\ Tree' /\ Earlier' /\ Sampling' /\ FirstRun'
  BY <1>t, <1>1, <1>2, <1>3, <1>4, OneProcess
<1>6. ParentsLast'
  <2> SUFFICES ASSUME n_processes < files, NEW q \in Born, ~At(q, "exited")',
                      NEW k \in 0..Len(q)
               PROVE  ~At(Ancestor(q, k), "exited")'
    BY <1>1 DEF ParentsLast, Ancestor
  <2>1. q # p /\ ~At(q, "exited")
    BY <1>1, <1>2 DEF At
  <2>2. /\ Ancestor(q, k) \in Born
        /\ ~At(Ancestor(q, k), "exited")
    BY <2>1, <1>t DEF Tree, ParentsLast
  <2>3. ASSUME Ancestor(q, k) = p PROVE FALSE
    <3>1. q \in Path /\ Len(q) \in Nat
      BY <1>t, BornFacts, PathSeq
    <3>2. k < Len(q)
      BY <3>1, <2>1, <2>3, AncestorSelf
    <3> DEFINE child == Ancestor(q, k + 1)
    <3>3. k + 1 \in 0..Len(q) /\ k \in 0..(k + 1)
      BY <3>1, <3>2
    <3>4. child \in Path /\ Len(child) = k + 1
      BY <3>1, <3>3, AncestorPath
    <3>5. child \in Born /\ ~At(child, "exited")
      BY <1>t, <2>1, <3>3 DEF Tree, ParentsLast
    <3>6. Ancestor(child, k) = p
      BY <2>3, <3>1, <3>3, AncestorOfAncestor
    <3>7. child # Root
      BY <3>4 DEF Root
    <3>8. k = Len(child) - 1
      BY <3>1, <3>4
    <3>9. child \in ChildrenOf(p)
      BY <3>5, <3>6, <3>7, <3>8 DEF ChildrenOf, Ancestor
    <3> QED
      BY <1>1, <3>5, <3>9 DEF Reaped
  <2> QED
    BY <1>1, <2>2, <2>3 DEF At
<1>7. Reporting'
  BY <1>t, <1>p, <1>1, <1>2 DEF Reporting, At
<1> QED
  BY <1>5, <1>6, <1>7 DEF IInv

\* No two processes have one path: the child a process forks next is not born.
LEMMA NextChild ==
  ASSUME TypeOK, Earlier, Sampling, NEW p \in Born, At(p, "fork"),
         procs[p].i < n_processes
  PROVE  /\ Child(p) \in Path /\ Child(p) # Root /\ Child(p) # p
         /\ Len(Child(p)) = Len(p) + 1
         /\ Child(p)[Len(Child(p))] = <<procs[p].run, procs[p].i>>
         /\ Parent(Child(p)) = p
         /\ \A k \in 0..Len(p) : Ancestor(Child(p), k) = Ancestor(p, k)
         /\ Child(p) \notin Born
<1>1. /\ p \in Path /\ procs[p].run \in 0..N_RUNS
      /\ procs[p].i \in 0..n_processes /\ procs[p].run < N_RUNS
  BY BornFacts DEF Sampling, SampledOf, At
<1>2. PICK b : b \in Birth /\ b = <<procs[p].run, procs[p].i>>
  <2>1. <<procs[p].run, procs[p].i>> \in Birth
    BY <1>1, Constants DEF Birth
  <2> QED
    BY <2>1
<1>3. PICK c : c = Append(p, b) /\ c = Child(p)
  BY <1>2 DEF Child
<1>4. /\ c \in Path /\ c # Root /\ c # p
      /\ Len(c) = Len(p) + 1 /\ c[Len(c)] = b
      /\ Parent(c) = p
      /\ \A k \in 0..Len(p) : Ancestor(c, k) = Ancestor(p, k)
  <2>1. p \in Path /\ b \in Birth /\ c \in {Append(p, b)}
    BY <1>1, <1>2, <1>3
  <2> QED
    BY <2>1, AppendBirth
<1>5. c \notin Born
  <2>1. SUFFICES ASSUME c \in Born PROVE FALSE
    OBVIOUS
  <2>2. b[1] = procs[p].run /\ b[2] = procs[p].i
    BY <1>2
  <2>3. \/ b[1] < procs[p].run
        \/ b[1] = procs[p].run /\ b[2] < procs[p].i
    BY <2>1, <1>4 DEF Earlier
  <2> QED
    BY <2>2, <2>3, <1>1
<1> QED
  BY <1>2, <1>3, <1>4, <1>5

LEMMA ForkStep ==
  ASSUME IInv, NEW p \in Born, Fork(p)
  PROVE  IInv'
<1> USE Constants
<1>t. /\ TypeOK /\ Tree /\ Earlier /\ Sampling /\ ParentsLast
      /\ Reporting /\ FirstRun
  BY DEF IInv
<1>p. /\ procs[p] \in Proc /\ p \in Path /\ Root \in Born /\ Len(p) \in Nat
      /\ procs[p].run \in 0..N_RUNS /\ procs[p].i \in 0..n_processes
      /\ procs[p].m_vals \in Seq(0..(N_RUNS - 1))
      /\ SampledOf(p) /\ InFirstRun(p)
  BY <1>t, BornFacts, PathSeq DEF Sampling, FirstRun
<1>g. At(p, "fork") /\ procs[p].i < n_processes
  BY DEF Fork
<1>c. PICK c :
      /\ c = Child(p)
      /\ c \in Path /\ c # Root /\ c # p /\ Len(c) = Len(p) + 1
      /\ c[Len(c)] = <<procs[p].run, procs[p].i>>
      /\ Parent(c) = p
      /\ \A k \in 0..Len(p) : Ancestor(c, k) = Ancestor(p, k)
      /\ c \notin Born
  BY <1>t, <1>g, NextChild
<1>1. /\ Born' = Born \cup {c}
      /\ \A q \in Born : q # p => procs'[q] = procs[q]
      /\ procs'[p] = [procs[p] EXCEPT !.i = @ + 1]
      /\ procs'[c] = [procs[p] EXCEPT !.pc = "read", !.idx = procs[p].i]
      /\ UNCHANGED <<report, files, failed>>
  BY <1>c DEF Fork, Born
<1>2. /\ procs'[p] \in Proc /\ procs'[p].pc = procs[p].pc
      /\ procs'[p].run = procs[p].run /\ procs'[p].i = procs[p].i + 1
      /\ procs'[p].idx = procs[p].idx /\ procs'[p].m_vals = procs[p].m_vals
  BY ZenonT(60), <1>p, <1>g, <1>1, LoopCounter
<1>3. /\ procs'[c] \in Proc /\ procs'[c].pc = "read"
      /\ procs'[c].run = procs[p].run /\ procs'[c].i = procs[p].i
      /\ procs'[c].idx = procs[p].i /\ procs'[c].m_vals = procs[p].m_vals
  <2>1. procs'[c] = [pc |-> "read", run |-> procs[p].run, i |-> procs[p].i,
                     idx |-> procs[p].i, m_vals |-> procs[p].m_vals]
    BY <1>p, <1>1 DEF Proc
  <2> QED
    BY <1>p, <2>1 DEF Proc
<1>4. TypeOK'
  BY <1>t, <1>c, <1>1, <1>2, <1>3 DEF TypeOK
<1>5. \A k \in 0..Len(c) : Ancestor(c, k) = c \/ Ancestor(c, k) \in Born
  <2> SUFFICES ASSUME NEW k \in 0..Len(c), k # Len(c)
               PROVE  Ancestor(c, k) \in Born
    BY <1>c, AncestorSelf
  <2>1. k \in 0..Len(p)
    BY <1>p, <1>c
  <2> QED
    BY <2>1, <1>c, <1>t DEF Tree
<1>6. Tree'
  <2>1. \A q \in Born : \A k \in 0..Len(q) : Ancestor(q, k) \in Born
    BY <1>t DEF Tree
  <2>2. \A q \in Born \cup {c} : \A k \in 0..Len(q) :
          Ancestor(q, k) \in Born \cup {c}
    BY <1>5, <2>1
  <2> QED
    BY <1>1, <2>2 DEF Tree, Ancestor
<1>7. Earlier'
  <2>1. ASSUME NEW q \in Born \cup {c}, q # Root
        PROVE  \/ q[Len(q)][1] < procs'[Parent(q)].run
               \/ /\ q[Len(q)][1] = procs'[Parent(q)].run
                  /\ q[Len(q)][2] < procs'[Parent(q)].i
    <3>1. CASE q = c
      BY <3>1, <1>c, <1>p, <1>2
    <3>2. CASE q \in Born
      <4>1. /\ Parent(q) \in Born
            /\ q[Len(q)][1] \in Int /\ q[Len(q)][2] \in Int
        BY <1>t, <2>1, <3>2, ParentBorn DEF Birth
      <4>2. \/ q[Len(q)][1] < procs[Parent(q)].run
            \/ /\ q[Len(q)][1] = procs[Parent(q)].run
               /\ q[Len(q)][2] < procs[Parent(q)].i
        BY <1>t, <2>1, <3>2 DEF Earlier
      <4>3. /\ procs'[Parent(q)].run = procs[Parent(q)].run
            /\ \/ procs'[Parent(q)].i = procs[Parent(q)].i
               \/ procs'[Parent(q)].i = procs[Parent(q)].i + 1
            /\ procs[Parent(q)].run \in Nat /\ procs[Parent(q)].i \in Nat
        <5>1. procs[Parent(q)].run \in Nat /\ procs[Parent(q)].i \in Nat
          BY <1>t, <4>1, BornFacts
        <5>2. CASE Parent(q) = p
          BY <5>1, <5>2, <1>2
        <5>3. CASE Parent(q) # p
          BY <5>1, <5>3, <1>1, <4>1
        <5> QED
          BY <5>2, <5>3
      <4> QED
        BY <4>1, <4>2, <4>3
    <3> QED
      BY <3>1, <3>2
  <2> QED
    BY <1>1, <2>1 DEF Earlier, Parent, Ancestor
<1>8. Sampling'
  <2> SUFFICES ASSUME NEW q \in Born \cup {c}
               PROVE  SampledOf(q)'
    BY <1>1 DEF Sampling
  <2>1. CASE q \in {p, c}
    BY ZenonT(60), <2>1, <1>p, <1>g, <1>1, <1>2, <1>3 DEF SampledOf, At
  <2>2. CASE q \in Born \ {p}
    <3>1. SampledOf(q)
      BY <1>t, <2>2 DEF Sampling
    <3> QED
      BY <3>1, <2>2, <1>1 DEF SampledOf, At
  <2> QED
    BY <2>1, <2>2
<1>9. FirstRun'
  <2> SUFFICES ASSUME NEW q \in Born \cup {c}
               PROVE  InFirstRun(q)'
    BY <1>1 DEF FirstRun
  <2>1. CASE q = p
    BY <2>1, <1>p, <1>g, <1>2 DEF InFirstRun, At
  <2>2. CASE q = c
    <3> SUFFICES ASSUME procs[p].run = 0
                 PROVE  /\ procs[p].i \in 0..(n_processes - 1)
                        /\ c = <<<<0, procs[p].i>>>>
      BY <2>2, <1>3 DEF InFirstRun
    <3>1. p = Root
      BY <1>p, <1>g DEF InFirstRun, At
    <3> QED
      BY <3>1, <1>p, <1>g, <1>c DEF Child, Root
  <2>3. CASE q \in Born \ {p}
    <3>1. InFirstRun(q)
      BY <1>t, <2>3 DEF FirstRun
    <3> QED
      BY <3>1, <2>3, <1>1 DEF InFirstRun, At
  <2> QED
    BY <2>1, <2>2, <2>3
<1>10. \A q \in Born : At(q, "exited")' = At(q, "exited")
  BY <1>1, <1>2 DEF At
<1>11. procs'[c].pc # "exited" /\ ~At(p, "exited")
  BY <1>g, <1>3 DEF At
<1>12. ParentsLast'
  <2> SUFFICES ASSUME n_processes < files, NEW q \in Born \cup {c},
                      ~At(q, "exited")', NEW k \in 0..Len(q)
               PROVE  ~At(Ancestor(q, k), "exited")'
    BY <1>1 DEF ParentsLast, Ancestor
  <2>1. CASE q \in Born
    <3>1. ~At(q, "exited")
      BY <2>1, <1>10
    <3>2. Ancestor(q, k) \in Born /\ ~At(Ancestor(q, k), "exited")
      BY <1>t, <2>1, <3>1 DEF Tree, ParentsLast
    <3> QED
      BY <3>2, <1>10
  <2>2. CASE q = c /\ k = Len(c)
    <3>1. Ancestor(q, k) = c
      BY <2>2, <1>c, AncestorSelf
    <3> QED
      BY <3>1, <1>11 DEF At
  <2>3. CASE q = c /\ k # Len(c)
    <3>1. k \in 0..Len(p)
      BY <2>3, <1>p, <1>c
    <3>2. Ancestor(q, k) = Ancestor(p, k)
      BY <2>3, <3>1, <1>c
    <3>3. Ancestor(p, k) \in Born /\ ~At(Ancestor(p, k), "exited")
      BY <1>t, <1>11, <3>1 DEF Tree, ParentsLast
    <3> QED
      BY <3>2, <3>3, <1>10
  <2> QED
    BY <2>1, <2>2, <2>3
<1>13. Reporting'
  BY <1>t, <1>p, <1>1, <1>2 DEF Reporting, At
<1> QED
  BY <1>4, <1>6, <1>7, <1>8, <1>9, <1>12, <1>13 DEF IInv

LEMMA NextIInv == IInv /\ [Next]_vars => IInv'
<1> SUFFICES ASSUME IInv, [Next]_vars
             PROVE  IInv'
  OBVIOUS
<1>1. ASSUME NEW p \in Born, Steps(p) \/ ForkFails(p)
      PROVE  IInv'
  BY <1>1, ForkStep, ForkFailsStep, ForkLoopEndsStep, MissingFileStep,
     ReadFileStep, WaitAndExitStep
     DEF Steps
<1>2. CASE UNCHANGED vars
  <2>1. TypeOK' /\ Reporting'
    BY <1>2 DEF vars, IInv, TypeOK, Reporting, Born, At
  <2>2. Tree' /\ Earlier' /\ ParentsLast'
    BY <1>2
       DEF vars, IInv, Tree, Earlier, ParentsLast, Ancestor, Parent, Born, At
  <2>3. Sampling' /\ FirstRun'
    BY <1>2
       DEF vars, IInv, Sampling, SampledOf, FirstRun, InFirstRun, Born, At
  <2> QED
    BY <2>1, <2>2, <2>3 DEF IInv
<1> QED
  BY <1>1, <1>2 DEF Next, Finished

LEMMA Invariance == Spec => []IInv
BY InitIInv, NextIInv, PTL DEF Spec

-----------------------------------------------------------------------------
(* Theorems *)

\* Every process forked has a path and is in a state of Proc: its run, its loop
\* counter and its file index stay in their ranges.
THEOREM Typing == Spec => []TypeOK
<1>1. IInv => TypeOK
  BY DEF IInv
<1> QED
  BY <1>1, Invariance, PTL

\* With every file in place, whatever forks fail, the statistics are printed
\* after every process has exited, although each waits for its own children only.
THEOREM ReportsLast == Spec => []RootReportsLast
<1>1. IInv => RootReportsLast
  <2> SUFFICES ASSUME IInv, n_processes < files, report # <<>>, NEW q \in Born
               PROVE  At(q, "exited")
    BY DEF RootReportsLast, AllExited
  <2>1. At(Root, "exited")
    BY DEF IInv, Reporting
  <2>2. q \in Path /\ 0 \in 0..Len(q)
    BY BornFacts, PathSeq DEF IInv
  <2>3. Ancestor(q, 0) = Root
    BY <2>2, AncestorRoot
  <2> QED
    BY <2>1, <2>2, <2>3 DEF IInv, ParentsLast
<1> QED
  BY <1>1, Invariance, PTL

\* In the first run no two processes read the same file.
THEOREM FirstRunFiles == Spec => []FirstRunFilesDistinct
<1>1. IInv => FirstRunFilesDistinct
  <2> SUFFICES ASSUME IInv, NEW p \in Born, NEW q \in Born,
                      At(p, "read"), At(q, "read"),
                      procs[p].run = 0, procs[q].run = 0,
                      procs[p].idx = procs[q].idx
               PROVE  p = q
    BY DEF FirstRunFilesDistinct
  <2>1. InFirstRun(p) /\ InFirstRun(q)
    BY DEF IInv, FirstRun
  <2> QED
    BY <2>1, Constants DEF InFirstRun
<1> QED
  BY <1>1, Invariance, PTL

\* When the first process has exited and no file was missing, its report has
\* the samples of all N_RUNS runs, in order and each once: the copies of the
\* vector that the children inherit and fill do not come back to it.
THEOREM ReportIsComplete ==
  Spec => [](At(Root, "exited") /\ n_processes < files =>
               report = [k \in 1..N_RUNS |-> k - 1])
<1>1. IInv => (At(Root, "exited") /\ n_processes < files =>
                 report = [k \in 1..N_RUNS |-> k - 1])
  BY DEF IInv, TypeOK, Reporting, Sampling, SampledOf
<1> QED
  BY <1>1, Invariance, PTL

\* fork() makes a process that was not there: no two processes, of whatever
\* parents and runs, have the same path from the first one.
THEOREM ForksAreFresh ==
  Spec => [][\A p \in Born : Fork(p) => Child(p) \notin Born]_vars
<1>1. IInv => \A p \in Born : Fork(p) => Child(p) \notin Born
  BY NextChild DEF IInv, Fork
<1> QED
  BY <1>1, Invariance, PTL
=============================================================================
