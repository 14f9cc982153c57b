------------------------- MODULE ProcessRingProofs --------------------------
(***************************************************************************)
(* The process ring for every N, iters, Runs, FdLimit and any number of    *)
(* failures: its types, the single token, the timed passes, the balance of *)
(* descriptors, and that it implements TokenRing.                          *)
(***************************************************************************)
EXTENDS ProcessRing, TLAPS

\* Before the parent starts the chain no byte is in a pipe, no child has one,
\* and none has passed.
Quiet ==
  ppc = "fork" => \A i \in Child : pipe[i] = 0 /\ pc[i] # "write" /\ cnt[i] = 0

\* A child counts up to iters and exits there.
Counting ==
  \A i \in Child :
    /\ pc[i] \in {"start", "read", "write"} => cnt[i] < iters
    /\ pc[i] = "exited" => cnt[i] = iters
    /\ pc[i] = "aborted" => ~HasCore1

\* Which function the parent is in, and that it waited for the children.
Phases ==
  /\ ppc = "loop" => phase = "overhead"
  /\ ppc \in {"fork", "wait"} => phase = "pass"
  /\ ppc = "close" /\ phase = "pass" => AllReaped
  /\ ppc = "fork" => \A i \in forked..(N - 1) : pc[i] = "none"

\* The parent holds all ends of the pipes inside a call and none between.
Balance ==
  /\ ppc \in {"open", "done", "threw", "exit1"} => fds = 0
  /\ ppc \in {"loop", "fork", "wait", "close"} => fds = 2 * N
  /\ ppc = "threw" /\ 2 * N <= FdLimit => failed > 0

IInv == TypeOK /\ OneToken /\ Quiet /\ Counting /\ Phases /\ Balance

LEMMA Constants ==
  N \in Nat /\ N > 0 /\ iters \in Nat /\ iters > 0 /\ Runs \in Nat /\ Runs > 0
  /\ FdLimit \in Nat /\ HasCore1 \in BOOLEAN /\ MaxFaults \in Nat
BY ProcessRingAssumption

\* i - 1 modulo N is a child.
LEMMA InPipeType == \A i \in Child : InPipe(i) \in Child
BY Constants DEF InPipe, Child

LEMMA InitIInv == Init => IInv
BY Constants
   DEF Init, IInv, TypeOK, OneToken, Quiet, Counting, Phases, Balance, Child,
       InFlight, Holds, AllReaped, Ended

LEMMA NextIInv == IInv /\ [Next]_vars => IInv'
<1> SUFFICES ASSUME IInv, [Next]_vars
             PROVE  IInv'
  OBVIOUS
<1> USE Constants
<1>t. TypeOK /\ OneToken /\ Quiet /\ Counting /\ Phases /\ Balance
  BY DEF IInv
<1>1. CASE OpenPipes
  <2>1. TypeOK'
    BY <1>t, <1>1
       DEF OpenPipes, TypeOK, Balance, FreshPipes, Child, childVars
  <2>2. OneToken'
    BY <1>t, <1>1
       DEF OpenPipes, TypeOK, OneToken, InFlight, Holds, Quiet, FreshPipes,
           Child, childVars
  <2>3. Quiet'
    BY <1>t, <1>1
       DEF OpenPipes, TypeOK, Quiet, FreshPipes, Child, childVars
  <2>4. Counting'
    BY <1>t, <1>1
       DEF OpenPipes, TypeOK, Counting, Quiet, FreshPipes, Child, childVars
  <2>5. Phases'
    BY <1>t, <1>1
       DEF OpenPipes, TypeOK, Phases, AllReaped, Ended, Quiet, FreshPipes,
           Child, childVars
  <2>6. Balance'
    BY <1>t, <1>1
       DEF OpenPipes, TypeOK, Balance, FreshPipes, Child, childVars
  <2> QED
    BY <2>1, <2>2, <2>3, <2>4, <2>5, <2>6 DEF IInv
<1>2. CASE PipesFail
  <2>1. TypeOK'
    BY <1>t, <1>2
       DEF PipesFail, TypeOK, Child, childVars
  <2>2. OneToken'
    BY <1>t, <1>2
       DEF PipesFail, TypeOK, OneToken, InFlight, Holds, Quiet, Child,
           childVars
  <2>3. Quiet'
    BY <1>t, <1>2
       DEF PipesFail, TypeOK, Quiet, Child, childVars
  <2>4. Counting'
    BY <1>t, <1>2
       DEF PipesFail, TypeOK, Counting, Quiet, Child, childVars
  <2>5. Phases'
    BY <1>t, <1>2
       DEF PipesFail, TypeOK, Phases, AllReaped, Ended, Quiet, Child,
           childVars
  <2>6. Balance'
    BY <1>t, <1>2
       DEF PipesFail, TypeOK, Balance, Child, childVars
  <2> QED
    BY <2>1, <2>2, <2>3, <2>4, <2>5, <2>6 DEF IInv
<1>3. CASE OverheadLoop
  <2>1. TypeOK'
    BY <1>t, <1>3
       DEF OverheadLoop, TypeOK, Child, childVars
  <2>2. OneToken'
    BY <1>t, <1>3
       DEF OverheadLoop, TypeOK, OneToken, InFlight, Holds, Quiet, Child,
           childVars
  <2>3. Quiet'
    BY <1>t, <1>3
       DEF OverheadLoop, TypeOK, Quiet, Child, childVars
  <2>4. Counting'
    BY <1>t, <1>3
       DEF OverheadLoop, TypeOK, Counting, Quiet, Child, childVars
  <2>5. Phases'
    BY <1>t, <1>3
       DEF OverheadLoop, TypeOK, Phases, AllReaped, Ended, Quiet, Child,
           childVars
  <2>6. Balance'
    BY <1>t, <1>3
       DEF OverheadLoop, TypeOK, Balance, Child, childVars
  <2> QED
    BY <2>1, <2>2, <2>3, <2>4, <2>5, <2>6 DEF IInv
<1>4. CASE Fork
  <2>1. TypeOK'
    BY <1>t, <1>4
       DEF Fork, TypeOK, Child, childVars
  <2>2. OneToken'
    BY <1>t, <1>4
       DEF Fork, TypeOK, OneToken, InFlight, Holds, Quiet, Child, childVars
  <2>3. Quiet'
    BY <1>t, <1>4
       DEF Fork, TypeOK, Quiet, Child, childVars
  <2>4. Counting'
    BY <1>t, <1>4
       DEF Fork, TypeOK, Counting, Quiet, Child, childVars
  <2>5. Phases'
    BY <1>t, <1>4
       DEF Fork, TypeOK, Phases, AllReaped, Ended, Quiet, Child, childVars
  <2>6. Balance'
    BY <1>t, <1>4
       DEF Fork, TypeOK, Balance, Child, childVars
  <2> QED
    BY <2>1, <2>2, <2>3, <2>4, <2>5, <2>6 DEF IInv
<1>5. CASE ForkFails
  <2>1. TypeOK'
    BY <1>t, <1>5
       DEF ForkFails, TypeOK, Child, childVars
  <2>2. OneToken'
    BY <1>t, <1>5
       DEF ForkFails, TypeOK, OneToken, InFlight, Holds, Quiet, Child,
           childVars
  <2>3. Quiet'
    BY <1>t, <1>5
       DEF ForkFails, TypeOK, Quiet, Child, childVars
  <2>4. Counting'
    BY <1>t, <1>5
       DEF ForkFails, TypeOK, Counting, Quiet, Child, childVars
  <2>5. Phases'
    BY <1>t, <1>5
       DEF ForkFails, TypeOK, Phases, AllReaped, Ended, Quiet, Child,
           childVars
  <2>6. Balance'
    BY <1>t, <1>5
       DEF ForkFails, TypeOK, Balance, Child, childVars
  <2> QED
    BY <2>1, <2>2, <2>3, <2>4, <2>5, <2>6 DEF IInv
<1>6. CASE Kick
  <2>1. TypeOK'
    BY <1>t, <1>6
       DEF Kick, TypeOK, Child, childVars
  <2>2. OneToken'
    BY <1>t, <1>6
       DEF Kick, TypeOK, OneToken, InFlight, Holds, Quiet, Child, childVars
  <2>3. Quiet'
    BY <1>t, <1>6
       DEF Kick, TypeOK, Quiet, Child, childVars
  <2>4. Counting'
    BY <1>t, <1>6
       DEF Kick, TypeOK, Counting, Quiet, Child, childVars
  <2>5. Phases'
    BY <1>t, <1>6
       DEF Kick, TypeOK, Phases, AllReaped, Ended, Quiet, Child, childVars
  <2>6. Balance'
    BY <1>t, <1>6
       DEF Kick, TypeOK, Balance, Child, childVars
  <2> QED
    BY <2>1, <2>2, <2>3, <2>4, <2>5, <2>6 DEF IInv
<1>7. CASE WaitAll
  <2>1. TypeOK'
    BY <1>t, <1>7
       DEF WaitAll, TypeOK, AllReaped, Ended, Child, childVars
  <2>2. OneToken'
    BY <1>t, <1>7
       DEF WaitAll, TypeOK, OneToken, InFlight, Holds, Quiet, AllReaped,
           Ended, Child, childVars
  <2>3. Quiet'
    BY <1>t, <1>7
       DEF WaitAll, TypeOK, Quiet, AllReaped, Ended, Child, childVars
  <2>4. Counting'
    BY <1>t, <1>7
       DEF WaitAll, TypeOK, Counting, Quiet, AllReaped, Ended, Child,
           childVars
  <2>5. Phases'
    BY <1>t, <1>7
       DEF WaitAll, TypeOK, Phases, AllReaped, Ended, Quiet, Child, childVars
  <2>6. Balance'
    BY <1>t, <1>7
       DEF WaitAll, TypeOK, Balance, AllReaped, Ended, Child, childVars
  <2> QED
    BY <2>1, <2>2, <2>3, <2>4, <2>5, <2>6 DEF IInv
<1>8. CASE ClosePipes
  <2>1. TypeOK'
    BY <1>t, <1>8
       DEF ClosePipes, TypeOK, Balance, ClosedFds, Child, childVars
  <2>2. OneToken'
    BY <1>t, <1>8
       DEF ClosePipes, TypeOK, OneToken, InFlight, Holds, Quiet, ClosedFds,
           Child, childVars
  <2>3. Quiet'
    BY <1>t, <1>8
       DEF ClosePipes, TypeOK, Quiet, ClosedFds, Child, childVars
  <2>4. Counting'
    BY <1>t, <1>8
       DEF ClosePipes, TypeOK, Counting, Quiet, ClosedFds, Child, childVars
  <2>5. Phases'
    BY <1>t, <1>8
       DEF ClosePipes, TypeOK, Phases, AllReaped, Ended, Quiet, ClosedFds,
           Child, childVars
  <2>6. Balance'
    BY <1>t, <1>8
       DEF ClosePipes, TypeOK, Balance, ClosedFds, Child, childVars
  <2> QED
    BY <2>1, <2>2, <2>3, <2>4, <2>5, <2>6 DEF IInv
<1>9. ASSUME NEW c \in Child, Pin(c)
      PROVE  IInv'
  <2>1. TypeOK'
    BY <1>t, <1>9
       DEF Pin, TypeOK, Child, childVars
  <2>2. OneToken'
    BY <1>t, <1>9
       DEF Pin, TypeOK, OneToken, InFlight, Holds, Quiet, Child, childVars
  <2>3. Quiet'
    BY <1>t, <1>9
       DEF Pin, TypeOK, Quiet, Child, childVars
  <2>4. Counting'
    BY <1>t, <1>9
       DEF Pin, TypeOK, Counting, Quiet, Child, childVars
  <2>5. Phases'
    BY <1>t, <1>9
       DEF Pin, TypeOK, Phases, AllReaped, Ended, Quiet, Child, childVars
  <2>6. Balance'
    BY <1>t, <1>9
       DEF Pin, TypeOK, Balance, Child, childVars
  <2> QED
    BY <2>1, <2>2, <2>3, <2>4, <2>5, <2>6 DEF IInv
<1>10. ASSUME NEW c \in Child, Read(c)
      PROVE  IInv'
  <2> DEFINE k == InPipe(c)
  <2>1. k \in Child
    BY InPipeType
  <2>2. /\ pc[c] = "read" /\ pipe[k] > 0
        /\ pipe' = [pipe EXCEPT ![k] = @ - 1]
        /\ pc' = [pc EXCEPT ![c] = "write"]
        /\ UNCHANGED <<ppc, phase, run, fds, forked, cnt, failed>>
    BY <1>10 DEF Read
  <2> HIDE DEF k
  <2>3. pipe[k] = 1
    BY <1>t, <2>1, <2>2 DEF TypeOK, OneToken
  <2>4. pipe' \in [Child -> Nat]
    BY <1>t, <2>1, <2>2, <2>3 DEF TypeOK
  <2>5. \A i \in Child : pipe'[i] = 0
    <3>1. \A i \in Child \ {k} : pipe[i] = 0
      BY <1>t, <2>1, <2>3 DEF TypeOK, OneToken, InFlight
    <3> QED
      BY <1>t, <2>1, <2>2, <2>3, <3>1 DEF TypeOK
  <2>6. \A i \in Child : pc'[i] = "write" <=> i = c
    BY <1>t, <2>1, <2>2, <2>3 DEF TypeOK, OneToken, InFlight, Holds
  <2>7. TypeOK'
    BY <1>t, <2>2, <2>4 DEF TypeOK
  <2>8. OneToken'
    BY <2>5, <2>6 DEF OneToken, InFlight, Holds
  <2>9. Quiet'
    BY <1>t, <2>1, <2>2, <2>3 DEF Quiet
  <2>10. Counting'
    BY <1>t, <2>2 DEF TypeOK, Counting
  <2>11. Phases'
    <3>1. ~AllReaped
      BY <2>2 DEF AllReaped, Ended
    <3>2. ppc # "fork"
      BY <1>t, <2>1, <2>3 DEF Quiet
    <3> QED
      BY <1>t, <2>2, <3>1, <3>2 DEF Phases
  <2>12. Balance'
    BY <1>t, <2>2 DEF Balance
  <2> QED
    BY <2>7, <2>8, <2>9, <2>10, <2>11, <2>12 DEF IInv
<1>11. ASSUME NEW c \in Child, Write(c)
      PROVE  IInv'
  <2>1. /\ pc[c] = "write"
        /\ pipe' = [pipe EXCEPT ![c] = @ + 1]
        /\ cnt' = [cnt EXCEPT ![c] = @ + 1]
        /\ pc' = [pc EXCEPT ![c] =
                    IF cnt[c] + 1 = iters THEN "exited" ELSE "read"]
        /\ UNCHANGED <<ppc, phase, run, fds, forked, failed>>
    BY <1>11 DEF Write, LastPass
  <2>2. cnt[c] \in Nat /\ cnt[c] < iters
    BY <1>t, <2>1 DEF TypeOK, Counting
  <2>3. TypeOK'
    <3>1. cnt' \in [Child -> 0..iters]
      BY <1>t, <2>1, <2>2 DEF TypeOK
    <3>2. pipe' \in [Child -> Nat]
      BY <1>t, <2>1 DEF TypeOK
    <3>3. pc' \in [Child ->
                   {"none", "start", "read", "write", "exited", "aborted"}]
      BY <1>t, <2>1 DEF TypeOK
    <3> QED
      BY <1>t, <2>1, <3>1, <3>2, <3>3 DEF TypeOK
  <2>4. OneToken'
    BY <1>t, <2>1 DEF TypeOK, OneToken, InFlight, Holds
  <2>5. ppc # "fork"
    BY <1>t, <2>1 DEF Quiet
  <2>6. Quiet'
    BY <2>1, <2>5 DEF Quiet
  <2>7. Counting'
    <3> SUFFICES ASSUME NEW i \in Child
                 PROVE  /\ pc'[i] \in {"start", "read", "write"} => cnt'[i] < iters
                        /\ pc'[i] = "exited" => cnt'[i] = iters
                        /\ pc'[i] = "aborted" => ~HasCore1
      BY DEF Counting
    <3>1. CASE i = c
      BY <1>t, <2>1, <2>2, <3>1 DEF TypeOK
    <3>2. CASE i # c
      BY <1>t, <2>1, <3>2 DEF TypeOK, Counting
    <3> QED
      BY <3>1, <3>2
  <2>8. Phases'
    BY <1>t, <2>1, <2>5 DEF Phases, AllReaped, Ended
  <2>9. Balance'
    BY <1>t, <2>1 DEF Balance
  <2> QED
    BY <2>3, <2>4, <2>6, <2>7, <2>8, <2>9 DEF IInv
<1>12. CASE UNCHANGED vars
  BY <1>t, <1>12
     DEF vars, IInv, TypeOK, OneToken, InFlight, Holds, Quiet, Counting, Phases,
         AllReaped, Ended, Balance
<1> QED
  BY <1>1, <1>2, <1>3, <1>4, <1>5, <1>6, <1>7, <1>8, <1>9, <1>10, <1>11, <1>12
     DEF Next, Parent, Steps, Finished

THEOREM Invariance == Spec => []IInv
BY InitIInv, NextIInv, PTL DEF Spec

\* The types of the process ring (ctxswitch.cpp).
THEOREM Typing == Spec => []TypeOK
BY Invariance, PTL DEF IInv

\* total_pass: two children are never at work at once, in a ring of any size,
\* after any number of runs and whatever fails.
THEOREM SingleToken == Spec => []OneToken
BY Invariance, PTL DEF IInv

\* total_pass divides by the number of passes it has timed.
THEOREM PassesTimed == Spec => []EveryPassTimed
<1>1. IInv => EveryPassTimed
  BY DEF IInv, Quiet, Counting, Phases, AllReaped, Ended, EveryPassTimed
<1> QED
  BY <1>1, Invariance, PTL

\* overhead and total_pass give back every descriptor they take.
THEOREM NeverOutOfPipes == Spec => []PipesAvailable
<1>1. IInv => PipesAvailable
  BY Constants DEF IInv, TypeOK, Balance, PipesAvailable
<1> QED
  BY <1>1, Invariance, PTL

-----------------------------------------------------------------------------
(* Refinement of TokenRing *)

\* Between two calls all children have passed iters times or none has, and no
\* child holds the token; before the first pass it can only be in pipe 0.
RInv ==
  /\ phase = "overhead" => \A i \in Child : pc[i] = "none"
  /\ phase = "overhead" \/ ~HasCore1 =>
       \A i \in Child : cnt[i] = 0 /\ pc[i] \notin {"read", "write", "exited"}
  /\ ppc = "open" => \A i \in Child : pc[i] \notin {"start", "read", "write"}
  /\ ppc = "open" => \/ \A i \in Child : cnt[i] = 0
                     \/ \A i \in Child : cnt[i] = iters
  /\ (\A i \in Child : cnt[i] = 0) => \A i \in Child : pipe[i] > 0 => i = 0

LEMMA InitRInv == Init => RInv
BY DEF Init, RInv, Child

LEMMA NextRInv == IInv /\ RInv /\ [Next]_vars => RInv'
<1> SUFFICES ASSUME IInv, RInv, [Next]_vars
             PROVE  RInv'
  OBVIOUS
<1> USE Constants
<1>t. TypeOK /\ OneToken /\ Quiet /\ Counting /\ Phases /\ Balance
  BY DEF IInv
<1>1. CASE OpenPipes
  BY <1>t, <1>1 DEF OpenPipes, FreshPipes, RInv
<1>2. CASE PipesFail
  BY <1>t, <1>2 DEF PipesFail, RInv, childVars
<1>3. CASE OverheadLoop
  BY <1>t, <1>3 DEF OverheadLoop, RInv, childVars
<1>4. CASE Fork
  <2>1. ppc = "fork" /\ phase = "pass"
    BY <1>t, <1>4 DEF Fork, Phases
  <2> QED
    BY <1>t, <1>4, <2>1 DEF Fork, RInv, TypeOK
<1>5. CASE ForkFails
  BY <1>t, <1>5 DEF ForkFails, RInv, childVars
<1>6. CASE Kick
  BY <1>t, <1>6 DEF Kick, RInv, TypeOK, Quiet, childVars
<1>7. CASE WaitAll
  BY <1>t, <1>7 DEF WaitAll, RInv, childVars
<1>8. CASE ClosePipes
  <2>1. CASE phase = "overhead" \/ ~HasCore1
    <3>1. \A i \in Child : pc[i] \notin {"start", "read", "write"}
      <4>1. CASE phase = "overhead"
        BY <4>1 DEF RInv
      <4>2. CASE phase # "overhead"
        BY <1>t, <1>8, <4>2
           DEF ClosePipes, TypeOK, Phases, AllReaped, Ended
      <4> QED
        BY <4>1, <4>2
    <3>2. \A i \in Child :
            cnt[i] = 0 /\ pc[i] \notin {"read", "write", "exited"}
      BY <2>1 DEF RInv
    <3> QED
      BY <1>8, <2>1, <3>1, <3>2 DEF ClosePipes, RInv, childVars
  <2>2. CASE phase = "pass" /\ HasCore1
    <3>1. \A i \in Child : pc[i] = "exited" /\ cnt[i] = iters
      BY <1>t, <1>8, <2>2
         DEF ClosePipes, Phases, AllReaped, Ended, Counting
    <3> QED
      BY <1>t, <1>8, <2>2, <3>1 DEF ClosePipes, RInv, childVars
  <2> QED
    BY <1>t, <2>1, <2>2 DEF TypeOK
<1>9. ASSUME NEW c \in Child, Pin(c)
      PROVE  RInv'
  <2>1. ppc # "open"
    BY <1>9 DEF Pin, RInv
  <2>2. \A i \in Child : pc'[i] = pc[i] \/ (pc'[i] = "read" /\ HasCore1)
                                        \/ (pc'[i] = "aborted" /\ ~HasCore1)
    BY <1>t, <1>9 DEF Pin, TypeOK
  <2>3. phase # "overhead"
    BY <1>9 DEF Pin, RInv
  <2> QED
    BY <1>9, <2>1, <2>2, <2>3 DEF Pin, RInv
<1>10. ASSUME NEW c \in Child, Read(c)
       PROVE  RInv'
  <2>1. \A i \in Child : pipe'[i] > 0 => pipe[i] > 0
    BY <1>t, <1>10, InPipeType DEF Read, TypeOK
  <2> QED
    BY <1>t, <1>10, <2>1 DEF Read, RInv, TypeOK
<1>11. ASSUME NEW c \in Child, Write(c)
       PROVE  RInv'
  <2>1. cnt'[c] # 0
    BY <1>t, <1>11 DEF Write, LastPass, TypeOK
  <2>2. phase # "overhead" /\ HasCore1
    BY <1>11 DEF Write, LastPass, RInv
  <2>3. ppc # "open"
    BY <1>t, <1>11 DEF Write, LastPass, RInv
  <2> QED
    BY <1>t, <1>11, <2>1, <2>2, <2>3 DEF Write, LastPass, RInv, TypeOK
<1>12. CASE UNCHANGED vars
  BY <1>12 DEF vars, RInv
<1> QED
  BY <1>1, <1>2, <1>3, <1>4, <1>5, <1>6, <1>7, <1>8, <1>9, <1>10, <1>11, <1>12
     DEF Next, Parent, Steps, Finished

\* Child i reads the pipe before its own, and its pipe leads to the next one.
LEMMA RingOrder ==
  \A i \in Child : /\ Successor(InPipe(i)) = i
                   /\ Successor(i) = Ring!Following(i)
BY Constants DEF Successor, InPipe, Child, Ring!Following

\* Where the abstract token is, in the three states the real one can be in.
LEMMA TurnHeld ==
  ASSUME NEW bytes, NEW at, NEW c \in Child, at[c] = "write",
         \A i, j \in Child : at[i] = "write" /\ at[j] = "write" => i = j
  PROVE  TurnOf(bytes, at) = c
BY DEF TurnOf

LEMMA TurnInPipe ==
  ASSUME NEW bytes, NEW at, NEW c \in Child, bytes[c] > 0,
         \A i \in Child : at[i] # "write",
         \A i, j \in Child : bytes[i] > 0 /\ bytes[j] > 0 => i = j
  PROVE  TurnOf(bytes, at) = Successor(c)
BY DEF TurnOf

LEMMA TurnNowhere ==
  ASSUME NEW bytes, NEW at,
         \A i \in Child : at[i] # "write" /\ ~(bytes[i] > 0)
  PROVE  TurnOf(bytes, at) = 1 % N
BY DEF TurnOf

\* A step that moves no byte and changes no holder leaves the token alone.
LEMMA TurnSame ==
  ASSUME NEW bytes, NEW at, NEW at2,
         \A i \in Child : at[i] = "write" <=> at2[i] = "write",
         \A i, j \in Child : at[i] = "write" /\ at[j] = "write" => i = j
  PROVE  TurnOf(bytes, at2) = TurnOf(bytes, at)
<1>1. CASE \E c \in Child : at[c] = "write"
  <2> PICK c \in Child : at[c] = "write"
    BY <1>1
  <2>1. TurnOf(bytes, at) = c /\ TurnOf(bytes, at2) = c
    BY TurnHeld
  <2> QED
    BY <2>1
<1>2. CASE \A c \in Child : at[c] # "write"
  BY <1>2 DEF TurnOf
<1> QED
  BY <1>1, <1>2

LEMMA InitRing == Init => Ring!Init
<1> SUFFICES ASSUME Init PROVE Ring!Init
  OBVIOUS
<1>1. TurnOf(pipe, pc) = 1 % N
  BY TurnNowhere DEF Init
<1> QED
  BY <1>1 DEF Init, Ring!Init, Ring!Station, Child

LEMMA NextRing ==
  IInv /\ IInv' /\ RInv /\ [Next]_vars => [Ring!Next]_(Ring!ringVars)
<1> SUFFICES ASSUME IInv, IInv', RInv, [Next]_vars
             PROVE  Ring!Next \/ UNCHANGED <<TurnOf(pipe, pc), cnt>>
  BY DEF Ring!ringVars
<1> USE Constants
<1>t. TypeOK /\ OneToken /\ Quiet /\ Counting /\ TypeOK' /\ OneToken'
  BY DEF IInv
<1>1. CASE OpenPipes
  <2>1. \A i \in Child : pipe'[i] = 0 /\ pc'[i] # "write" /\ cnt'[i] = 0
    BY <1>1 DEF OpenPipes, FreshPipes
  <2>2. TurnOf(pipe, pc)' = 1 % N
    BY <2>1, TurnNowhere
  <2>3. CASE \A i \in Child : cnt[i] = iters
    <3>1. cnt' = [i \in Child |-> 0]
      BY <1>1 DEF OpenPipes
    <3>2. Ring!Restart
      BY <2>2, <2>3, <3>1 DEF Ring!Restart, Ring!Station, Child
    <3> QED
      BY <3>2 DEF Ring!Next
  <2>4. CASE \A i \in Child : cnt[i] = 0
    <3>1. cnt' = cnt
      BY <1>1, <1>t, <2>4 DEF OpenPipes, TypeOK
    <3>2. TurnOf(pipe, pc) = 1 % N
      <4>1. \A i \in Child : pc[i] # "write"
        BY <1>1 DEF OpenPipes, RInv
      <4>2. CASE \E i \in Child : pipe[i] > 0
        <5>1. 0 \in Child /\ pipe[0] > 0
          BY <4>2, <2>4 DEF RInv
        <5>2. TurnOf(pipe, pc) = Successor(0)
          BY <1>t, <4>1, <5>1, TurnInPipe DEF OneToken, InFlight
        <5> QED
          BY <5>2 DEF Successor
      <4>3. CASE \A i \in Child : ~(pipe[i] > 0)
        BY <4>1, <4>3, TurnNowhere
      <4> QED
        BY <4>2, <4>3
    <3> QED
      BY <2>2, <3>1, <3>2
  <2> QED
    BY <1>1, <2>3, <2>4 DEF OpenPipes, RInv
<1>2. CASE UNCHANGED <<pipe, pc, cnt>>
  BY <1>2
<1>3. CASE Fork
  <2>1. \A i \in Child : pc[i] # "write" /\ pc'[i] # "write"
    BY <1>t, <1>3 DEF Fork, Quiet, TypeOK
  <2>2. TurnOf(pipe, pc') = TurnOf(pipe, pc)
    BY <2>1, TurnSame
  <2> QED
    BY <1>3, <2>2 DEF Fork
<1>4. CASE Kick
  <2>1. \A i \in Child : pipe[i] = 0 /\ pc[i] # "write"
    BY <1>t, <1>4 DEF Kick, Quiet
  <2>2. TurnOf(pipe, pc) = 1 % N
    BY <2>1, TurnNowhere
  <2>3. 0 \in Child /\ pipe'[0] > 0 /\ pc' = pc
    BY <1>4, <1>t, <2>1 DEF Kick, Child, childVars, TypeOK
  <2>4. TurnOf(pipe', pc') = Successor(0)
    BY <1>t, <2>1, <2>3, TurnInPipe DEF OneToken, InFlight
  <2> QED
    BY <1>4, <2>2, <2>4 DEF Kick, childVars, Successor
<1>5. ASSUME NEW c \in Child, Pin(c)
      PROVE  UNCHANGED <<TurnOf(pipe, pc), cnt>>
  <2>1. \A i \in Child : pc[i] = "write" <=> pc'[i] = "write"
    BY <1>t, <1>5 DEF Pin, TypeOK
  <2>2. TurnOf(pipe, pc') = TurnOf(pipe, pc)
    BY <1>t, <2>1, TurnSame DEF OneToken, Holds
  <2> QED
    BY <1>5, <2>2 DEF Pin
<1>6. ASSUME NEW c \in Child, Read(c)
      PROVE  UNCHANGED <<TurnOf(pipe, pc), cnt>>
  <2>1. InPipe(c) \in Child /\ pipe[InPipe(c)] > 0
    BY <1>6, InPipeType DEF Read
  <2>2. \A i \in Child : pc[i] # "write"
    BY <1>t, <2>1 DEF OneToken, InFlight, Holds
  <2>3. TurnOf(pipe, pc) = c
    BY <1>t, <2>1, <2>2, TurnInPipe, RingOrder DEF OneToken, InFlight
  <2>4. pc'[c] = "write"
    BY <1>t, <1>6 DEF Read, TypeOK
  <2>5. TurnOf(pipe', pc') = c
    BY <1>t, <2>4, TurnHeld DEF OneToken, Holds
  <2> QED
    BY <1>6, <2>3, <2>5 DEF Read
<1>7. ASSUME NEW c \in Child, Write(c)
      PROVE  Ring!Next
  <2>1. pc[c] = "write" /\ cnt[c] < iters
    BY <1>t, <1>7 DEF Write, LastPass, Counting
  <2>2. TurnOf(pipe, pc) = c
    BY <1>t, <2>1, TurnHeld DEF OneToken, Holds
  <2>3. pipe'[c] > 0
    BY <1>t, <1>7 DEF Write, LastPass, TypeOK
  <2>4. \A i \in Child : pc'[i] # "write"
    BY <1>t, <2>3 DEF OneToken, InFlight, Holds
  <2>5. TurnOf(pipe', pc') = Ring!Following(c)
    BY <1>t, <2>3, <2>4, TurnInPipe, RingOrder DEF OneToken, InFlight
  <2>6. Ring!Pass(c)
    BY <1>7, <2>1, <2>2, <2>5 DEF Write, LastPass, Ring!Pass
  <2> QED
    BY <2>6 DEF Ring!Next, Ring!Station, Child
<1> QED
  BY <1>1, <1>2, <1>3, <1>4, <1>5, <1>6, <1>7
     DEF Next, Parent, Steps, Finished, vars, childVars, PipesFail, OverheadLoop,
         ForkFails, WaitAll, ClosePipes

\* Every run of the benchmark is one turn of TokenRing: the token visits the
\* children in order, each as often as the others, whatever the scheduler does.
THEOREM Refinement == Spec => RingSpec
<1>1. Spec => []RInv
  BY InitRInv, NextRInv, Invariance, PTL DEF Spec
<1> QED
  BY <1>1, InitRing, NextRing, Invariance, PTL DEF Spec, RingSpec, Ring!Spec

=============================================================================
