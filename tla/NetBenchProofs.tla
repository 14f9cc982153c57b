--------------------------- MODULE NetBenchProofs ---------------------------
(***************************************************************************)
(* The round-trip and bandwidth benchmarks for any number of requests,     *)
(* samples and descriptors and any budget of faults: their types, that     *)
(* without faults every request is answered and the accept() calls match   *)
(* the connections, and that no reply is cut off by the server.            *)
(***************************************************************************)
EXTENDS NetBench, TLAPS

\* Accepted connections come before queued ones, and the descriptor of every
\* handler and of the client is that of an existing connection.
Indices ==
  /\ \A h \in Hosts :
       /\ acc[h] <= Len(conns[h])
       /\ \A t \in 1..Len(thr[h]) : thr[h][t].fd \in 0..acc[h]
  /\ cpc \in {"send", "recv"} => cur \in 1..Len(conns[leg])

\* The client's loop counters, from probe to last sample.
Loops ==
  /\ cpc \in {"connect", "send", "recv", "aborted"} => iter < ITERATIONS
  /\ probing => iter = 0 /\ req = 0
  /\ cpc \in {"wait", "exited"} => iter = ITERATIONS /\ req = 0 /\ ~probing
  /\ cpc = "wait" => leg = "local"

\* A server nobody interferes with: one thread for each accepted connection, no
\* connection before it listens, all answered when it has ended.
ServerQuiet(h) ==
  /\ spc[h] # "exit1"
  /\ spc[h] = "start" => Len(conns[h]) = 0
  /\ acc[h] = Len(thr[h])
  /\ spc[h] \in {"start", "accept"} => Len(thr[h]) < AcceptCalls
  /\ spc[h] \in {"join", "exit0"} => Len(thr[h]) = AcceptCalls
  /\ spc[h] = "exit0" => \A t \in 1..Len(thr[h]) : thr[h][t].pc = "done"

\* No connection is reset, the client closes only what was answered, and what is
\* still queued has no answer.
ConnQuiet(h, i) ==
  /\ ~conns[h][i].err
  /\ conns[h][i].cl = "closed" => conns[h][i].rep
  /\ i > acc[h] => conns[h][i].sv = "queued" /\ ~conns[h][i].rep

\* How far a handler is, is how far its connection is.
HandlerQuiet(h, t) ==
  /\ thr[h][t].fd = t
  /\ conns[h][t].rep <=> thr[h][t].pc \in {"close", "done"}
  /\ conns[h][t].sv = "closed" <=> thr[h][t].pc = "done"
  /\ conns[h][t].sv # "queued"
  /\ echo /\ thr[h][t].pc = "send" => conns[h][t].req

\* The accept() calls left on host h are the connections still to come.
Balanced(h) == Len(conns[h]) + ToMake(h) = AcceptCalls

ClientQuiet ==
  /\ missed = 0
  /\ cpc # "aborted"
  /\ ~probing \/ cpc \in {"send", "recv"} => leaked < FdLimit

Quiet ==
  /\ \A h \in Hosts :
       /\ ServerQuiet(h)
       /\ Balanced(h)
       /\ \A i \in 1..Len(conns[h]) : ConnQuiet(h, i)
       /\ \A t \in 1..Len(thr[h]) : HandlerQuiet(h, t)
  /\ ClientQuiet

IInv == TypeOK /\ Indices /\ Loops /\ (NoFaults => Quiet)

-----------------------------------------------------------------------------

LEMMA Constants ==
  /\ REQUESTS \in Nat /\ REQUESTS > 0
  /\ ITERATIONS \in Nat /\ ITERATIONS > 0
  /\ FdLimit \in Nat /\ FdLimit > 0
  /\ MaxFaults \in [FaultKinds -> Nat]
BY NetAssumption

\* Inside the loops there is still a request to make.
LEMMA RequestsLeft ==
  ASSUME NEW a \in Nat, NEW r \in Nat, a < ITERATIONS, r < REQUESTS
  PROVE  /\ a * REQUESTS \in Nat
         /\ Total \in Nat
         /\ a * REQUESTS + r + 1 <= Total
<1>1. a * REQUESTS \in Nat /\ Total \in Nat
  BY Constants DEF Total
<1>2. a * REQUESTS + REQUESTS = (a + 1) * REQUESTS
  BY Constants
<1>3. (a + 1) * REQUESTS <= ITERATIONS * REQUESTS
  BY Constants
<1> QED
  BY <1>1, <1>2, <1>3, Constants DEF Total

\* After the last request of the last sample the loops have made Total of them.
LEMMA CallsType == AcceptCalls \in Nat /\ AcceptCalls > 0 /\ Total \in Nat
BY Constants DEF AcceptCalls, Total

\* The client never has a negative number of connections left to make.
LEMMA MakeNat ==
  ASSUME TypeOK, Loops, NEW h \in Hosts
  PROVE  ToMake(h) \in Int /\ ToMake(h) >= 0
<1>1. iter \in Nat /\ req \in Nat /\ iter <= ITERATIONS /\ req < REQUESTS
  BY Constants DEF TypeOK
<1>2. CASE iter < ITERATIONS
  BY <1>1, <1>2, RequestsLeft, CallsType DEF ToMake, TypeOK
<1>3. CASE iter = ITERATIONS
  <2>1. cpc \in {"wait", "exited"} /\ iter * REQUESTS = Total
    BY <1>1, <1>3, Constants DEF Loops, Total, TypeOK
  <2> QED
    BY <1>1, <2>1, CallsType DEF ToMake, TypeOK, Loops
<1> QED
  BY <1>1, <1>2, <1>3, Constants

\* Replacing one element of a sequence.
LEMMA SeqSet ==
  ASSUME NEW S, NEW s \in Seq(S), NEW k \in 1..Len(s), NEW v \in S
  PROVE  /\ [s EXCEPT ![k] = v] \in Seq(S)
         /\ Len([s EXCEPT ![k] = v]) = Len(s)
         /\ [s EXCEPT ![k] = v][k] = v
         /\ \A i \in 1..Len(s) : i # k => [s EXCEPT ![k] = v][i] = s[i]
OBVIOUS

LEMMA InitIInv == Init => IInv
<1> SUFFICES ASSUME Init
             PROVE  IInv
  OBVIOUS
<1> USE Constants, CallsType
<1>1. TypeOK
  BY DEF Init, TypeOK, Hosts, FaultKinds
<1>2. Indices /\ Loops
  BY DEF Init, Indices, Loops, Hosts
<1>3. Quiet
  <2> SUFFICES ASSUME NEW h \in Hosts
               PROVE  ServerQuiet(h) /\ Balanced(h)
    BY DEF Init, Quiet, ClientQuiet
  <2>1. ServerQuiet(h)
    BY DEF Init, ServerQuiet
  <2>2. ToMake(h) = AcceptCalls
    BY DEF Init, ToMake, AcceptCalls, Hosts
  <2> QED
    BY <2>1, <2>2 DEF Init, Balanced
<1> QED
  BY <1>1, <1>2, <1>3 DEF IInv

-----------------------------------------------------------------------------
(* The server's main thread *)

\* What a step of one server does not touch on the other host.
LEMMA OtherHost ==
  ASSUME NEW g \in Hosts, ServerQuiet(g), Balanced(g),
         \A i \in 1..Len(conns[g]) : ConnQuiet(g, i),
         \A t \in 1..Len(thr[g]) : HandlerQuiet(g, t),
         UNCHANGED <<echo, spc[g], conns[g], acc[g], thr[g], ToMake(g)>>
  PROVE  /\ ServerQuiet(g)' /\ Balanced(g)'
         /\ (\A i \in 1..Len(conns[g]) : ConnQuiet(g, i))'
         /\ (\A t \in 1..Len(thr[g]) : HandlerQuiet(g, t))'
BY DEF ServerQuiet, Balanced, ConnQuiet, HandlerQuiet

LEMMA StepServerStart ==
  ASSUME IInv, NEW h \in Hosts, ServerStart(h)
  PROVE  IInv'
<1> USE Constants, CallsType
<1>t. TypeOK /\ Indices /\ Loops /\ (NoFaults => Quiet)
  BY DEF IInv
<1>1. TypeOK'
  <2>1. faults' \in [FaultKinds -> Nat]
    BY SMTT(60), <1>t DEF ServerStart, TypeOK, Fault, FaultKinds
  <2>2. spc' = [spc EXCEPT ![h] = "accept"] \/ spc' = [spc EXCEPT ![h] = "exit1"]
    BY DEF ServerStart
  <2> QED
    BY <1>t, <2>1, <2>2 DEF ServerStart, TypeOK, loopVars
<1>2. Indices'
  BY <1>t DEF ServerStart, Indices, loopVars
<1>3. Loops'
  BY <1>t DEF ServerStart, Loops, loopVars
<1>4. ASSUME NoFaults' PROVE Quiet'
  <2>1. faults' = faults /\ spc' = [spc EXCEPT ![h] = "accept"]
    BY SMTT(60), <1>4, <1>t DEF ServerStart, Fault, NoFaults, TypeOK, FaultKinds
  <2>2. Quiet
    BY <1>4, <1>t, <2>1 DEF NoFaults
  <2>3. UNCHANGED <<conns, acc, thr, cpc, echo, leg, probing, iter, req, leaked, missed>>
    BY DEF ServerStart, loopVars
  <2> SUFFICES ASSUME NEW g \in Hosts
               PROVE  ServerQuiet(g)'
    BY <2>2, <2>3
       DEF Quiet, Balanced, ToMake, ConnQuiet, HandlerQuiet, ClientQuiet
  <2> QED
    BY <1>t, <2>1, <2>2, <2>3 DEF Quiet, ServerQuiet, TypeOK, ServerStart
<1> QED
  BY <1>1, <1>2, <1>3, <1>4 DEF IInv

LEMMA StepAccept ==
  ASSUME IInv, NEW h \in Hosts, Accept(h)
  PROVE  IInv'
<1> USE Constants, CallsType
<1>t. TypeOK /\ Indices /\ Loops /\ (NoFaults => Quiet)
  BY DEF IInv
<1> DEFINE n == acc[h] + 1
           e == [fd |-> n, pc |-> IF echo THEN "recv" ELSE "send"]
<1>b. /\ conns[h] \in Seq(Conn)
      /\ thr[h] \in Seq(HandlerState)
      /\ acc[h] \in Nat
  BY <1>t DEF TypeOK
<1>n. n \in Nat /\ n \in 1..Len(conns[h])
  BY SMTT(60), <1>b DEF Accept
<1>a1. conns' = [conns EXCEPT ![h] =
                  [conns[h] EXCEPT ![n] = [conns[h][n] EXCEPT !.sv = "open"]]]
  BY DEF Accept
<1>a2. thr' = [thr EXCEPT ![h] = Append(@, e)]
  BY DEF Accept, SpawnHandler
<1>a3. /\ spc[h] = "accept"
       /\ acc' = [acc EXCEPT ![h] = n]
       /\ spc' = [spc EXCEPT ![h] = IF Len(thr[h]) + 1 = AcceptCalls THEN "join"
                                                                    ELSE @]
       /\ UNCHANGED <<cpc, echo, leg, probing, iter, req, cur, leaked, missed, faults>>
  BY DEF Accept, SpawnHandler, loopVars
<1> HIDE DEF n
<1>v. /\ conns[h][n] \in Conn
      /\ [conns[h][n] EXCEPT !.sv = "open"] \in Conn
      /\ e \in HandlerState
  <2>1. conns[h][n] \in Conn
    BY <1>b, <1>n
  <2>2. [conns[h][n] EXCEPT !.sv = "open"] \in Conn
    BY <2>1 DEF Conn
  <2>3. e \in HandlerState
    BY <1>n DEF HandlerState
  <2> QED
    BY <2>1, <2>2, <2>3
<1> HIDE DEF e
<1>c. /\ conns'[h] \in Seq(Conn)
      /\ Len(conns'[h]) = Len(conns[h])
      /\ conns'[h][n] = [conns[h][n] EXCEPT !.sv = "open"]
      /\ \A i \in 1..Len(conns[h]) : i # n => conns'[h][i] = conns[h][i]
  <2>1. conns'[h] = [conns[h] EXCEPT ![n] = [conns[h][n] EXCEPT !.sv = "open"]]
    BY <1>t, <1>a1, <1>n DEF TypeOK
  <2> QED
    BY <2>1, <1>b, <1>n, <1>v, SeqSet
<1>d. /\ thr'[h] \in Seq(HandlerState)
      /\ Len(thr'[h]) = Len(thr[h]) + 1
      /\ thr'[h][Len(thr[h]) + 1] = e
      /\ \A t \in 1..Len(thr[h]) : thr'[h][t] = thr[h][t]
  BY <1>t, <1>a2, <1>b, <1>v DEF TypeOK
<1>e. \A g \in Hosts \ {h} : UNCHANGED <<spc[g], conns[g], acc[g], thr[g]>>
  BY <1>t, <1>a1, <1>a2, <1>a3 DEF TypeOK
<1>1. TypeOK'
  <2>1. conns' \in [Hosts -> Seq(Conn)] /\ thr' \in [Hosts -> Seq(HandlerState)]
    BY <1>t, <1>a1, <1>a2, <1>c, <1>d, <1>e DEF TypeOK
  <2> QED
    BY <1>t, <1>a3, <1>n, <2>1 DEF TypeOK
<1>2. Indices'
  <2>1. acc'[h] = n
    BY <1>t, <1>a3 DEF TypeOK
  <2>2. acc'[h] <= Len(conns'[h])
    BY <2>1, <1>b, <1>n, <1>c
  <2>3. \A t \in 1..Len(thr'[h]) : thr'[h][t].fd \in 0..acc'[h]
    <3>1. e.fd \in 0..n
      BY <1>n DEF e
    <3>2. \A t \in 1..Len(thr[h]) : thr[h][t].fd \in 0..acc[h]
      BY <1>t DEF Indices
    <3>3. \A t \in 1..Len(thr[h]) : thr'[h][t].fd \in 0..n
      BY SMTT(60), <3>2, <1>b, <1>d DEF n
    <3>4. thr'[h][Len(thr[h]) + 1].fd \in 0..n
      BY <3>1, <1>d
    <3> QED
      BY SMTT(60), <2>1, <3>3, <3>4, <1>b, <1>d
  <2>4. \A g \in Hosts : Len(conns'[g]) = Len(conns[g])
    BY <1>c, <1>e
  <2> QED
    BY <1>t, <1>a3, <1>e, <2>2, <2>3, <2>4 DEF Indices, TypeOK
<1>3. Loops'
  BY <1>t, <1>a3 DEF Loops
<1>4. ASSUME NoFaults' PROVE Quiet'
  <2>2. Quiet
    BY <1>4, <1>t, <1>a3 DEF NoFaults
  <2>3. ClientQuiet'
    BY <2>2, <1>a3 DEF Quiet, ClientQuiet
  <2>4. \A g \in Hosts : ToMake(g)' = ToMake(g)
    BY <1>a3 DEF ToMake
  <2>5. acc[h] = Len(thr[h]) /\ Len(thr[h]) < AcceptCalls
    BY <2>2, <1>a3 DEF Quiet, ServerQuiet
  <2>6. ServerQuiet(h)'
    <3>1. acc'[h] = Len(thr'[h])
      BY <1>t, <1>a3, <1>b, <1>d, <2>5 DEF TypeOK, n
    <3>2. spc'[h] = IF Len(thr[h]) + 1 = AcceptCalls THEN "join" ELSE "accept"
      BY <1>t, <1>a3 DEF TypeOK
    <3> QED
      BY <1>b, <1>d, <2>5, <3>1, <3>2 DEF ServerQuiet
  <2>7. Balanced(h)'
    BY <1>c, <2>2, <2>4 DEF Quiet, Balanced
  <2>s. ConnQuiet(h, n)
    BY <1>n, <2>2 DEF Quiet
  <2>8. \A i \in 1..Len(conns'[h]) : ConnQuiet(h, i)'
    <3> SUFFICES ASSUME NEW i \in 1..Len(conns[h])
                 PROVE  ConnQuiet(h, i)'
      BY <1>c
    <3>1. ConnQuiet(h, i) /\ acc'[h] = n /\ acc[h] < n
      BY <1>t, <1>a3, <1>b, <2>2 DEF Quiet, TypeOK, n
    <3>2. CASE i = n
      BY <3>1, <3>2, <1>b, <1>c, <1>n DEF ConnQuiet, Conn
    <3>3. CASE i # n
      BY SMTT(60), <3>1, <3>3, <1>b, <1>c, <1>n DEF ConnQuiet
    <3> QED
      BY <3>2, <3>3
  <2>9. \A t \in 1..Len(thr'[h]) : HandlerQuiet(h, t)'
    <3> SUFFICES ASSUME NEW t \in 1..(Len(thr[h]) + 1)
                 PROVE  HandlerQuiet(h, t)'
      BY <1>d
    <3>1. CASE t = Len(thr[h]) + 1
      <4>1. t = n /\ n > acc[h] /\ n \in 1..Len(conns[h])
        BY <3>1, <2>5, <1>b, <1>n DEF n
      <4>2. conns[h][n].sv = "queued" /\ ~conns[h][n].rep
        BY <4>1, <2>s DEF ConnQuiet
      <4>3. conns'[h][n].sv = "open" /\ ~conns'[h][n].rep
        BY <4>2, <1>b, <1>n, <1>c DEF Conn
      <4>4. thr'[h][n] = e
        BY <3>1, <4>1, <1>d
      <4> QED
        BY <4>1, <4>3, <4>4, <1>a3 DEF HandlerQuiet, e
    <3>2. CASE t \in 1..Len(thr[h])
      <4>1. HandlerQuiet(h, t) /\ t # n /\ t \in 1..Len(conns[h])
        BY <3>2, <2>2, <2>5, <1>b, <1>t, <1>n DEF Quiet, Indices, n
      <4>2. conns'[h][t] = conns[h][t] /\ thr'[h][t] = thr[h][t]
        BY <3>2, <4>1, <1>c, <1>d
      <4> QED
        BY <4>1, <4>2, <1>a3 DEF HandlerQuiet
    <3> QED
      BY <3>1, <3>2, <1>b
  <2> QED
    BY <1>a3, <1>e, <2>2, <2>3, <2>4, <2>6, <2>7, <2>8, <2>9, OtherHost DEF Quiet
<1> QED
  BY <1>1, <1>2, <1>3, <1>4 DEF IInv

-----------------------------------------------------------------------------
(* Steps that change one connection, one handler, or both *)

\* Connection n of host h becomes c, if there is such a connection.
ConnsSet(h, n, c) ==
  /\ conns' \in [Hosts -> Seq(Conn)]
  /\ \A g \in Hosts : Len(conns'[g]) = Len(conns[g])
  /\ \A g \in Hosts : \A i \in 1..Len(conns[g]) :
       conns'[g][i] = IF g = h /\ i = n THEN c ELSE conns[g][i]

\* Handler t of host h becomes e.
ThrSet(h, t, e) ==
  /\ thr' \in [Hosts -> Seq(HandlerState)]
  /\ \A g \in Hosts : Len(thr'[g]) = Len(thr[g])
  /\ \A g \in Hosts : \A u \in 1..Len(thr[g]) :
       thr'[g][u] = IF g = h /\ u = t THEN e ELSE thr[g][u]

LEMMA SetConns ==
  ASSUME TypeOK, NEW h \in Hosts, NEW n \in 1..Len(conns[h]), NEW c \in Conn,
         conns' = [conns EXCEPT ![h] = [conns[h] EXCEPT ![n] = c]]
  PROVE  ConnsSet(h, n, c)
<1>1. conns \in [Hosts -> Seq(Conn)] /\ conns[h] \in Seq(Conn)
  BY DEF TypeOK
<1>2. conns'[h] = [conns[h] EXCEPT ![n] = c]
  BY <1>1
<1>3. /\ conns'[h] \in Seq(Conn)
      /\ Len(conns'[h]) = Len(conns[h])
      /\ conns'[h][n] = c
      /\ \A i \in 1..Len(conns[h]) : i # n => conns'[h][i] = conns[h][i]
  BY <1>1, <1>2, SeqSet
<1>4. \A g \in Hosts \ {h} : conns'[g] = conns[g]
  BY <1>1
<1>5. conns' \in [Hosts -> Seq(Conn)]
  BY <1>1, <1>3
<1> QED
  BY <1>3, <1>4, <1>5 DEF ConnsSet

LEMMA SetThr ==
  ASSUME TypeOK, NEW h \in Hosts, NEW t \in 1..Len(thr[h]),
         NEW e \in HandlerState,
         thr' = [thr EXCEPT ![h] = [thr[h] EXCEPT ![t] = e]]
  PROVE  ThrSet(h, t, e)
<1>1. thr \in [Hosts -> Seq(HandlerState)] /\ thr[h] \in Seq(HandlerState)
  BY DEF TypeOK
<1>2. thr'[h] = [thr[h] EXCEPT ![t] = e]
  BY <1>1
<1>3. /\ thr'[h] \in Seq(HandlerState)
      /\ Len(thr'[h]) = Len(thr[h])
      /\ thr'[h][t] = e
      /\ \A u \in 1..Len(thr[h]) : u # t => thr'[h][u] = thr[h][u]
  BY <1>1, <1>2, SeqSet
<1>4. \A g \in Hosts \ {h} : thr'[g] = thr[g]
  BY <1>1
<1>5. thr' \in [Hosts -> Seq(HandlerState)]
  BY <1>1, <1>3
<1> QED
  BY <1>3, <1>4, <1>5 DEF ThrSet

\* A step of one handler preserves the invariant if, without faults, it keeps the
\* handler and its connection in step.
LEMMA HandlerFrame ==
  ASSUME IInv, NEW h \in Hosts, NEW t \in 1..Len(thr[h]),
         NEW n \in 0..Len(conns[h]), NEW c, NEW e,
         ConnsSet(h, n, c), ThrSet(h, t, e), e.fd = thr[h][t].fd,
         UNCHANGED <<spc, acc, cpc, loopVars, cur, leaked, missed, faults>>,
         NoFaults => n = t /\ spc[h] # "exit0"
                       /\ ConnQuiet(h, t)' /\ HandlerQuiet(h, t)'
  PROVE  IInv'
<1> USE Constants, CallsType
<1>t. TypeOK /\ Indices /\ Loops /\ (NoFaults => Quiet)
  BY DEF IInv
<1>u. UNCHANGED <<spc, acc, cpc, echo, leg, probing, iter, req, cur, leaked, missed,
                  faults>>
  BY DEF loopVars
<1>l. /\ \A g \in Hosts : Len(conns'[g]) = Len(conns[g])
      /\ \A g \in Hosts : Len(thr'[g]) = Len(thr[g])
  BY DEF ConnsSet, ThrSet
<1>1. TypeOK'
  BY <1>t, <1>u DEF TypeOK, ConnsSet, ThrSet
<1>2. Indices'
  <2>1. \A g \in Hosts : \A u \in 1..Len(thr[g]) : thr'[g][u].fd = thr[g][u].fd
    BY DEF ThrSet
  <2> QED
    BY ZenonT(60), <1>t, <1>u, <1>l, <2>1 DEF Indices, TypeOK
<1>3. Loops'
  BY <1>t, <1>u DEF Loops
<1>4. ASSUME NoFaults' PROVE Quiet'
  <2>1. NoFaults /\ Quiet /\ n = t /\ spc[h] # "exit0"
    BY <1>4, <1>t, <1>u DEF NoFaults
  <2>2. ClientQuiet'
    BY <2>1, <1>u DEF Quiet, ClientQuiet
  <2> SUFFICES ASSUME NEW g \in Hosts
               PROVE  /\ ServerQuiet(g)'
                      /\ Balanced(g)'
                      /\ \A i \in 1..Len(conns[g]) : ConnQuiet(g, i)'
                      /\ \A u \in 1..Len(thr[g]) : HandlerQuiet(g, u)'
    BY <2>2, <1>l DEF Quiet
  <2>3. /\ ServerQuiet(g)
        /\ Balanced(g)
        /\ \A i \in 1..Len(conns[g]) : ConnQuiet(g, i)
        /\ \A u \in 1..Len(thr[g]) : HandlerQuiet(g, u)
    BY <2>1 DEF Quiet
  <2>4. ServerQuiet(g)'
    <3>1. g # h => thr'[g] = thr[g] \/ \A u \in 1..Len(thr[g]) : thr'[g][u] = thr[g][u]
      BY DEF ThrSet
    <3> QED
      BY <2>1, <2>3, <3>1, <1>u, <1>l DEF ServerQuiet
  <2>5. Balanced(g)'
    BY <2>3, <1>u, <1>l DEF Balanced, ToMake
  <2>6. ASSUME NEW i \in 1..Len(conns[g]) PROVE ConnQuiet(g, i)'
    <3>1. CASE g = h /\ i = t
      BY <3>1, <2>1
    <3>2. CASE ~(g = h /\ i = t)
      <4>1. conns'[g][i] = conns[g][i] /\ ConnQuiet(g, i)
        BY <3>2, <2>1, <2>3 DEF ConnsSet
      <4> QED
        BY <4>1, <1>u DEF ConnQuiet
    <3> QED
      BY <3>1, <3>2
  <2>7. ASSUME NEW u \in 1..Len(thr[g]) PROVE HandlerQuiet(g, u)'
    <3>1. CASE g = h /\ u = t
      BY <3>1, <2>1
    <3>2. CASE ~(g = h /\ u = t)
      <4>1. u \in 1..Len(conns[g])
        BY <2>3, <1>t DEF Indices, ServerQuiet, TypeOK
      <4>2. conns'[g][u] = conns[g][u] /\ thr'[g][u] = thr[g][u] /\ HandlerQuiet(g, u)
        BY <3>2, <4>1, <2>1, <2>3 DEF ConnsSet, ThrSet
      <4> QED
        BY <4>2, <1>u DEF HandlerQuiet
    <3> QED
      BY <3>1, <3>2
  <2> QED
    BY <2>4, <2>5, <2>6, <2>7
<1> QED
  BY <1>1, <1>2, <1>3, <1>4 DEF IInv

\* What a handler finds when it takes a step.
LEMMA HandlerFacts ==
  ASSUME IInv, NEW h \in Hosts, NEW t, NEW at, HandlerAt(h, t, at)
  PROVE  /\ TypeOK /\ Indices
         /\ t \in 1..Len(thr[h])
         /\ thr[h][t] \in HandlerState /\ thr[h][t].pc = at
         /\ HandlerFd(h, t) = thr[h][t].fd
         /\ thr[h][t].fd \in 0..Len(conns[h])
         /\ thr[h][t].fd # 0 => conns[h][thr[h][t].fd] \in Conn
         /\ NoFaults => /\ HandlerQuiet(h, t) /\ ConnQuiet(h, t)
                        /\ thr[h][t].fd = t /\ spc[h] # "exit0"
                        /\ t \in 1..acc[h] /\ t \in 1..Len(conns[h])
<1>t. TypeOK /\ Indices /\ (NoFaults => Quiet)
  BY DEF IInv
<1>b. thr[h] \in Seq(HandlerState) /\ conns[h] \in Seq(Conn) /\ acc[h] \in Nat
  BY <1>t DEF TypeOK
<1>1. t \in 1..Len(thr[h]) /\ thr[h][t].pc = at
  BY <1>b DEF HandlerAt
<1>2. thr[h][t] \in HandlerState /\ HandlerFd(h, t) = thr[h][t].fd
  BY <1>1, <1>b DEF HandlerFd
<1>3. acc[h] <= Len(conns[h]) /\ thr[h][t].fd \in 0..acc[h]
  BY <1>1, <1>t DEF Indices
<1>4. thr[h][t].fd \in 0..Len(conns[h])
  BY <1>3, <1>b
<1>5. thr[h][t].fd # 0 => conns[h][thr[h][t].fd] \in Conn
  BY <1>4, <1>b
<1>6. ASSUME NoFaults
      PROVE  /\ HandlerQuiet(h, t) /\ ConnQuiet(h, t)
             /\ thr[h][t].fd = t /\ spc[h] # "exit0"
             /\ t \in 1..acc[h] /\ t \in 1..Len(conns[h])
  <2>1. Quiet
    BY <1>6, <1>t
  <2>2. HandlerQuiet(h, t) /\ ServerQuiet(h)
    BY <2>1, <1>1 DEF Quiet
  <2>3. t \in 1..acc[h] /\ t \in 1..Len(conns[h])
    BY <2>2, <1>1, <1>3, <1>b DEF ServerQuiet
  <2> QED
    BY <2>1, <2>2, <2>3 DEF Quiet, HandlerQuiet, HandlerAt, Listening
<1> QED
  BY <1>t, <1>1, <1>2, <1>4, <1>5, <1>6

LEMMA GoesTo ==
  ASSUME TypeOK, NEW h \in Hosts, NEW t \in 1..Len(thr[h]),
         NEW to \in {"recv", "send", "close", "done"}, HandlerGoes(h, t, to)
  PROVE  ThrSet(h, t, [fd |-> thr[h][t].fd, pc |-> to])
<1>1. thr[h] \in Seq(HandlerState)
  BY DEF TypeOK
<1>2. thr[h][t] \in HandlerState
  BY <1>1
<1>3. [thr[h][t] EXCEPT !.pc = to] = [fd |-> thr[h][t].fd, pc |-> to]
  BY <1>2 DEF HandlerState
<1>4. [fd |-> thr[h][t].fd, pc |-> to] \in HandlerState
  BY <1>2 DEF HandlerState
<1>5. thr' = [thr EXCEPT ![h] = [thr[h] EXCEPT ![t] =
                [thr[h][t] EXCEPT !.pc = to]]]
  BY DEF HandlerGoes
<1> QED
  BY <1>3, <1>4, <1>5, SetThr

LEMMA KeepConns ==
  ASSUME TypeOK, NEW h \in Hosts, NEW n \in 0..Len(conns[h]), UNCHANGED conns
  PROVE  ConnsSet(h, n, conns[h][n])
BY DEF TypeOK, ConnsSet

LEMMA StepHandlerRecv ==
  ASSUME IInv, NEW h \in Hosts, NEW t, HandlerRecv(h, t)
  PROVE  IInv'
<1> DEFINE n == thr[h][t].fd
           e == [fd |-> n, pc |-> "send"]
<1>1. HandlerAt(h, t, "recv") /\ HandlerGoes(h, t, "send")
  BY DEF HandlerRecv
<1>2. TypeOK /\ t \in 1..Len(thr[h]) /\ n \in 1..Len(conns[h])
  BY <1>1, HandlerFacts DEF HandlerRecv
<1>3. ConnsSet(h, n, conns[h][n])
  BY <1>2, KeepConns DEF HandlerRecv
<1>4. ThrSet(h, t, e)
  BY <1>1, <1>2, GoesTo
<1>5. ASSUME NoFaults
      PROVE  /\ n = t /\ spc[h] # "exit0"
             /\ ConnQuiet(h, t)' /\ HandlerQuiet(h, t)'
  <2>1. /\ HandlerQuiet(h, t) /\ ConnQuiet(h, t) /\ n = t /\ spc[h] # "exit0"
        /\ thr[h][t].pc = "recv"
    BY <1>1, <1>5, HandlerFacts
  <2>2. thr'[h][t] = e /\ UNCHANGED <<conns, acc>>
    BY <1>2, <1>4 DEF ThrSet, HandlerRecv
  <2>3. conns[h][t].req
    BY <2>1 DEF HandlerQuiet, ConnQuiet, HandlerRecv, RecvReady, HandlerFd
  <2>4. ConnQuiet(h, t)'
    BY <2>1, <2>2 DEF ConnQuiet
  <2>5. HandlerQuiet(h, t)'
    BY <2>1, <2>2, <2>3 DEF HandlerQuiet
  <2> QED
    BY <2>1, <2>4, <2>5
<1>6. UNCHANGED <<spc, acc, cpc, loopVars, cur, leaked, missed, faults>>
  BY SMTT(60) DEF HandlerRecv
<1> QED
  BY <1>2, <1>3, <1>4, <1>5, <1>6, HandlerFrame

LEMMA StepHandlerSend ==
  ASSUME IInv, NEW h \in Hosts, NEW t, HandlerSend(h, t)
  PROVE  IInv'
<1> DEFINE n == thr[h][t].fd
           e == [fd |-> n, pc |-> "close"]
           c == IF n # 0 /\ conns[h][n].cl = "open" /\ (echo => conns[h][n].req)
                THEN [conns[h][n] EXCEPT !.rep = TRUE] ELSE conns[h][n]
<1>1. HandlerAt(h, t, "send") /\ HandlerGoes(h, t, "close")
  BY DEF HandlerSend
<1>2. /\ TypeOK /\ t \in 1..Len(thr[h]) /\ n \in 0..Len(conns[h])
      /\ n # 0 => conns[h][n] \in Conn
      /\ HandlerFd(h, t) = n
  BY SMTT(60), <1>1, HandlerFacts
<1>3. ConnsSet(h, n, c)
  <2>1. CASE n # 0 /\ conns[h][n].cl = "open" /\ (echo => conns[h][n].req)
    <3>1. conns' = [conns EXCEPT ![h] = [conns[h] EXCEPT ![n] = c]]
      BY <1>2, <2>1 DEF HandlerSend
    <3>2. n \in 1..Len(conns[h]) /\ conns[h][n] \in Conn
      BY SMTT(60), <1>2, <2>1 DEF TypeOK
    <3>3. [conns[h][n] EXCEPT !.rep = TRUE] \in Conn
      BY <3>2 DEF Conn
    <3>4. c = [conns[h][n] EXCEPT !.rep = TRUE]
      BY SMTT(60), <2>1
    <3> QED
      BY ZenonT(60), <1>2, <3>1, <3>2, <3>3, <3>4, SetConns
  <2>2. CASE ~(n # 0 /\ conns[h][n].cl = "open" /\ (echo => conns[h][n].req))
    BY <1>2, <2>2, KeepConns DEF HandlerSend
  <2> QED
    BY SMTT(60), <2>1, <2>2
<1>4. ThrSet(h, t, e)
  BY <1>1, <1>2, GoesTo
<1>5. ASSUME NoFaults
      PROVE  /\ n = t /\ spc[h] # "exit0"
             /\ ConnQuiet(h, t)' /\ HandlerQuiet(h, t)'
  <2>1. /\ HandlerQuiet(h, t) /\ ConnQuiet(h, t) /\ n = t /\ spc[h] # "exit0"
        /\ thr[h][t].pc = "send" /\ t \in 1..acc[h] /\ t \in 1..Len(conns[h])
        /\ t # 0 /\ conns[h][t] \in Conn
    BY <1>1, <1>2, <1>5, HandlerFacts DEF TypeOK
  <2>2. ~conns[h][t].rep /\ (echo => conns[h][t].req)
    BY <2>1 DEF HandlerQuiet
  <2>3. conns[h][t].cl = "open"
    BY <2>1, <2>2 DEF ConnQuiet, Conn
  <2>4. conns'[h][t] = [conns[h][t] EXCEPT !.rep = TRUE]
    BY ZenonT(60), <1>3, <2>1, <2>2, <2>3 DEF ConnsSet
  <2>5. thr'[h][t] = e
    BY <1>2, <1>4 DEF ThrSet
  <2>6. acc' = acc /\ acc[h] \in Nat /\ ~(t > acc[h])
    BY <1>2, <2>1 DEF TypeOK, HandlerSend
  <2>7. ConnQuiet(h, t)'
    BY <2>1, <2>3, <2>4, <2>6 DEF ConnQuiet, Conn
  <2>8. HandlerQuiet(h, t)'
    BY <2>1, <2>2, <2>4, <2>5 DEF HandlerQuiet, Conn
  <2> QED
    BY <2>1, <2>7, <2>8
<1>6. UNCHANGED <<spc, acc, cpc, loopVars, cur, leaked, missed, faults>>
  BY DEF HandlerSend
<1> QED
  BY <1>2, <1>3, <1>4, <1>5, <1>6, HandlerFrame

LEMMA StepHandlerClose ==
  ASSUME IInv, NEW h \in Hosts, NEW t, HandlerClose(h, t)
  PROVE  IInv'
<1> DEFINE n == thr[h][t].fd
           e == [fd |-> n, pc |-> "done"]
           c == IF n # 0 THEN [conns[h][n] EXCEPT !.sv = "closed"]
                         ELSE conns[h][n]
<1>1. HandlerAt(h, t, "close") /\ HandlerGoes(h, t, "done")
  BY DEF HandlerClose
<1>2. /\ TypeOK /\ t \in 1..Len(thr[h]) /\ n \in 0..Len(conns[h])
      /\ n # 0 => conns[h][n] \in Conn
      /\ HandlerFd(h, t) = n
  BY <1>1, HandlerFacts
<1>3. ConnsSet(h, n, c)
  <2>1. CASE n # 0
    <3>1. conns' = [conns EXCEPT ![h] = [conns[h] EXCEPT ![n] = c]]
      BY <1>2, <2>1 DEF HandlerClose
    <3>2. c \in Conn /\ n \in 1..Len(conns[h])
      BY SMTT(60), <1>2, <2>1 DEF Conn
    <3> QED
      BY <1>2, <3>1, <3>2, SetConns
  <2>2. CASE n = 0
    BY <1>2, <2>2, KeepConns DEF HandlerClose
  <2> QED
    BY SMTT(60), <2>1, <2>2
<1>4. ThrSet(h, t, e)
  BY <1>1, <1>2, GoesTo
<1>5. ASSUME NoFaults
      PROVE  /\ n = t /\ spc[h] # "exit0"
             /\ ConnQuiet(h, t)' /\ HandlerQuiet(h, t)'
  <2>1. /\ HandlerQuiet(h, t) /\ ConnQuiet(h, t) /\ n = t /\ spc[h] # "exit0"
        /\ thr[h][t].pc = "close" /\ t \in 1..acc[h] /\ t \in 1..Len(conns[h])
        /\ t # 0 /\ conns[h][t] \in Conn
    BY <1>1, <1>2, <1>5, HandlerFacts DEF TypeOK
  <2>4. conns'[h][t] = [conns[h][t] EXCEPT !.sv = "closed"]
    BY <1>3, <2>1 DEF ConnsSet
  <2>5. thr'[h][t] = e
    BY <1>2, <1>4 DEF ThrSet
  <2>6. acc' = acc /\ acc[h] \in Nat /\ ~(t > acc[h])
    BY <1>2, <2>1 DEF TypeOK, HandlerClose
  <2>7. ConnQuiet(h, t)'
    BY <2>1, <2>4, <2>6 DEF ConnQuiet, Conn
  <2>8. HandlerQuiet(h, t)'
    BY <2>1, <2>4, <2>5 DEF HandlerQuiet, Conn
  <2> QED
    BY <2>1, <2>7, <2>8
<1>6. UNCHANGED <<spc, acc, cpc, loopVars, cur, leaked, missed, faults>>
  BY DEF HandlerClose
<1> QED
  BY <1>2, <1>3, <1>4, <1>5, <1>6, HandlerFrame

-----------------------------------------------------------------------------
(* Steps that end a server *)

LEMMA SeveredConn ==
  ASSUME TypeOK, NEW h \in Hosts, NEW i \in 1..Len(conns[h])
  PROVE  Severed(h, i) \in Conn
<1> DEFINE c == conns[h][i]
           unread == c.req /\ \A t \in DOMAIN thr[h] :
                                thr[h][t].fd = i => thr[h][t].pc = "recv"
           b == c.err \/ c.sv = "queued" \/ unread
<1>1. c \in Conn
  BY DEF TypeOK
<1>2. b \in BOOLEAN
  OBVIOUS
<1> HIDE DEF b
<1>3. [c EXCEPT !.sv = "closed", !.err = b] \in Conn
  BY <1>1, <1>2 DEF Conn
<1>4. Severed(h, i) = [c EXCEPT !.sv = "closed", !.err = b]
  BY DEF Severed, b
<1> QED
  BY <1>3, <1>4

LEMMA SeveredConns ==
  ASSUME TypeOK, NEW h \in Hosts, SeverAll(h)
  PROVE  /\ conns' \in [Hosts -> Seq(Conn)]
         /\ \A g \in Hosts : Len(conns'[g]) = Len(conns[g])
         /\ \A i \in 1..Len(conns[h]) : conns'[h][i] = Severed(h, i)
         /\ \A g \in Hosts \ {h} : conns'[g] = conns[g]
<1> DEFINE s == [i \in 1..Len(conns[h]) |-> Severed(h, i)]
<1>1. conns \in [Hosts -> Seq(Conn)] /\ conns[h] \in Seq(Conn)
  BY DEF TypeOK
<1>2. DOMAIN conns[h] = 1..Len(conns[h]) /\ Len(conns[h]) \in Nat
  BY <1>1
<1>3. conns' = [conns EXCEPT ![h] = s]
  BY <1>2 DEF SeverAll
<1>4. \A i \in 1..Len(conns[h]) : Severed(h, i) \in Conn
  BY SeveredConn
<1>5. s \in Seq(Conn) /\ Len(s) = Len(conns[h])
  BY <1>2, <1>4
<1>6. \A i \in 1..Len(conns[h]) : s[i] = Severed(h, i)
  OBVIOUS
<1> HIDE DEF s
<1>7. conns'[h] = s /\ \A g \in Hosts \ {h} : conns'[g] = conns[g]
  BY <1>1, <1>3
<1>8. conns' \in [Hosts -> Seq(Conn)]
  BY <1>1, <1>3, <1>5
<1> QED
  BY <1>5, <1>6, <1>7, <1>8

\* A server that ends keeps the types and the indices.
LEMMA EndTypes ==
  ASSUME IInv, NEW h \in Hosts, NEW to \in {"exit0", "exit1"},
         spc' = [spc EXCEPT ![h] = to], SeverAll(h),
         UNCHANGED <<acc, thr, cpc, loopVars, cur, leaked, missed, faults>>
  PROVE  TypeOK' /\ Indices' /\ Loops'
<1>t. TypeOK /\ Indices /\ Loops
  BY DEF IInv
<1>u. UNCHANGED <<acc, thr, cpc, echo, leg, probing, iter, req, cur, leaked, missed,
                  faults>>
  BY DEF loopVars
<1>1. /\ conns' \in [Hosts -> Seq(Conn)]
      /\ \A g \in Hosts : Len(conns'[g]) = Len(conns[g])
  BY <1>t, SeveredConns
<1>2. spc' \in [Hosts -> {"start", "accept", "join", "exit0", "exit1"}]
  BY <1>t DEF TypeOK
<1>3. TypeOK'
  BY <1>t, <1>u, <1>1, <1>2 DEF TypeOK
<1>4. Indices'
  BY <1>t, <1>u, <1>1 DEF Indices, TypeOK
<1>5. Loops'
  BY <1>t, <1>u DEF Loops
<1> QED
  BY <1>3, <1>4, <1>5

LEMMA StepHandlerRecvError ==
  ASSUME IInv, NEW h \in Hosts, NEW t, HandlerRecvError(h, t)
  PROVE  IInv'
<1>1. TypeOK' /\ Indices' /\ Loops'
  BY EndTypes DEF HandlerRecvError
<1>2. ~NoFaults
  BY HandlerFacts DEF HandlerRecvError
<1>3. ~NoFaults'
  BY <1>2 DEF NoFaults, HandlerRecvError
<1> QED
  BY <1>1, <1>3 DEF IInv

LEMMA StepJoinAndExit ==
  ASSUME IInv, NEW h \in Hosts, JoinAndExit(h)
  PROVE  IInv'
<1> USE Constants, CallsType
<1>t. TypeOK /\ Indices /\ Loops /\ (NoFaults => Quiet)
  BY DEF IInv
<1>u. /\ spc[h] = "join"
      /\ spc' = [spc EXCEPT ![h] = "exit0"]
      /\ SeverAll(h)
      /\ UNCHANGED <<acc, thr, cpc, echo, leg, probing, iter, req, cur, leaked, missed,
                     faults>>
  BY DEF JoinAndExit, loopVars
<1>b. /\ thr[h] \in Seq(HandlerState) /\ conns[h] \in Seq(Conn) /\ acc[h] \in Nat
      /\ Len(thr[h]) \in Nat /\ Len(conns[h]) \in Nat
      /\ DOMAIN thr[h] = 1..Len(thr[h])
  BY <1>t DEF TypeOK
<1>1. TypeOK' /\ Indices' /\ Loops'
  BY EndTypes DEF JoinAndExit
<1>2. \A t \in 1..Len(thr[h]) : thr[h][t].pc = "done"
  BY <1>b DEF JoinAndExit
<1>3. ASSUME NoFaults' PROVE Quiet'
  <2>1. Quiet
    BY <1>3, <1>t, <1>u DEF NoFaults
  <2>2. ClientQuiet'
    BY <2>1, <1>u DEF Quiet, ClientQuiet
  <2>3. \A g \in Hosts : ToMake(g)' = ToMake(g)
    BY <1>u DEF ToMake
  <2>4. /\ \A g \in Hosts : Len(conns'[g]) = Len(conns[g])
        /\ \A i \in 1..Len(conns[h]) : conns'[h][i] = Severed(h, i)
        /\ \A g \in Hosts \ {h} : conns'[g] = conns[g]
    BY <1>t, <1>u, SeveredConns
  <2>5. ServerQuiet(h) /\ Balanced(h)
    BY <2>1 DEF Quiet
  <2>6. ToMake(h) \in Int /\ ToMake(h) >= 0
    BY <1>t, MakeNat
  <2>7. Len(thr[h]) = AcceptCalls /\ acc[h] = AcceptCalls /\ Len(conns[h]) = acc[h]
    BY <2>5, <2>6, <1>t, <1>u, <1>b DEF ServerQuiet, Balanced, Indices
  <2>8. ServerQuiet(h)'
    BY <1>t, <1>u, <1>2, <2>7 DEF ServerQuiet, TypeOK
  <2>9. Balanced(h)'
    BY <2>3, <2>4, <2>5 DEF Balanced
  <2>10. ASSUME NEW i \in 1..Len(conns[h])
         PROVE  ConnQuiet(h, i)' /\ HandlerQuiet(h, i)'
    <3>1. ConnQuiet(h, i) /\ HandlerQuiet(h, i) /\ i \in 1..Len(thr[h])
      BY <2>1, <2>7 DEF Quiet
    <3>2. conns[h][i] \in Conn /\ ~(i > acc[h]) /\ thr[h][i].pc = "done"
      BY <3>1, <1>b, <1>2, <2>7
    <3>3. conns[h][i].sv = "closed" /\ ~conns[h][i].err /\ thr[h][i].fd = i
      BY <3>1, <3>2 DEF HandlerQuiet, ConnQuiet
    <3>4. conns'[h][i] = conns[h][i]
      <4>1. ~\A t \in DOMAIN thr[h] : thr[h][t].fd = i => thr[h][t].pc = "recv"
        BY <1>b, <3>1, <3>2, <3>3
      <4>2. Severed(h, i) = [conns[h][i] EXCEPT !.sv = "closed", !.err = FALSE]
        BY <3>3, <4>1 DEF Severed
      <4>3. conns[h][i].err = FALSE
        BY <3>2, <3>3 DEF Conn
      <4>4. [conns[h][i] EXCEPT !.sv = "closed", !.err = FALSE] = conns[h][i]
        BY <3>2, <3>3, <4>3 DEF Conn
      <4> QED
        BY <2>4, <4>2, <4>4
    <3> QED
      BY <1>u, <3>1, <3>4 DEF ConnQuiet, HandlerQuiet
  <2>11. Len(conns'[h]) = Len(conns[h]) /\ Len(thr'[h]) = Len(conns[h])
    BY <1>u, <2>4, <2>7
  <2>12. \A g \in Hosts \ {h} : spc'[g] = spc[g]
    BY <1>t, <1>u DEF TypeOK
  <2> SUFFICES ASSUME NEW g \in Hosts
               PROVE  /\ ServerQuiet(g)' /\ Balanced(g)'
                      /\ (\A i \in 1..Len(conns[g]) : ConnQuiet(g, i))'
                      /\ (\A t \in 1..Len(thr[g]) : HandlerQuiet(g, t))'
    BY <2>2 DEF Quiet
  <2>13. CASE g = h
    BY <2>13, <2>8, <2>9, <2>10, <2>11
  <2>14. CASE g # h
    BY <2>14, <2>1, <2>3, <2>4, <2>12, <1>u, OtherHost DEF Quiet
  <2> QED
    BY <2>13, <2>14
<1> QED
  BY <1>1, <1>3 DEF IInv

-----------------------------------------------------------------------------
(* The environment *)

LEMMA FaultSeen ==
  ASSUME TypeOK, NEW k \in FaultKinds, Fault(k)
  PROVE  faults' \in [FaultKinds -> Nat] /\ ~NoFaults'
BY DEF TypeOK, Fault, NoFaults

LEMMA StepAcceptError ==
  ASSUME IInv, NEW h \in Hosts, AcceptError(h)
  PROVE  IInv'
<1> USE CallsType
<1>t. TypeOK /\ Indices /\ Loops
  BY DEF IInv
<1> DEFINE e == [fd |-> 0, pc |-> IF echo THEN "recv" ELSE "send"]
<1>1. /\ thr' = [thr EXCEPT ![h] = Append(thr[h], e)]
      /\ spc' = [spc EXCEPT ![h] = IF Len(thr[h]) + 1 = AcceptCalls THEN "join"
                                                                    ELSE @]
      /\ UNCHANGED <<conns, acc, cpc, echo, leg, probing, iter, req, cur, leaked, missed>>
  BY DEF AcceptError, SpawnHandler, loopVars
<1>2. e \in HandlerState /\ e.fd = 0
  BY DEF HandlerState
<1> HIDE DEF e
<1>3. faults' \in [FaultKinds -> Nat] /\ ~NoFaults'
  BY <1>t, FaultSeen DEF AcceptError, FaultKinds
<1>4. /\ thr'[h] \in Seq(HandlerState)
      /\ Len(thr'[h]) = Len(thr[h]) + 1
      /\ thr'[h][Len(thr[h]) + 1] = e
      /\ \A t \in 1..Len(thr[h]) : thr'[h][t] = thr[h][t]
      /\ Len(thr[h]) \in Nat
      /\ \A g \in Hosts \ {h} : thr'[g] = thr[g]
  BY SMTT(60), <1>t, <1>1, <1>2 DEF TypeOK
<1>5. thr' \in [Hosts -> Seq(HandlerState)]
  BY <1>t, <1>1, <1>4 DEF TypeOK
<1>6. spc' \in [Hosts -> {"start", "accept", "join", "exit0", "exit1"}]
  BY <1>t, <1>1 DEF TypeOK
<1>7. TypeOK'
  BY <1>t, <1>1, <1>3, <1>5, <1>6 DEF TypeOK
<1>8. Indices'
  <2>1. ASSUME NEW t \in 1..Len(thr'[h]) PROVE thr'[h][t].fd \in 0..acc[h]
    <3>1. acc[h] \in Nat /\ (t = Len(thr[h]) + 1 \/ t \in 1..Len(thr[h]))
      BY SMTT(60), <1>t, <1>4 DEF TypeOK
    <3>2. CASE t = Len(thr[h]) + 1
      BY <3>1, <3>2, <1>2, <1>4
    <3>3. CASE t \in 1..Len(thr[h])
      BY <3>3, <1>t, <1>4 DEF Indices
    <3> QED
      BY <3>1, <3>2, <3>3
  <2>2. \A g \in Hosts : \A t \in 1..Len(thr'[g]) : thr'[g][t].fd \in 0..acc[g]
    BY <2>1, <1>t, <1>4 DEF Indices
  <2> QED
    BY <1>t, <1>1, <2>2 DEF Indices
<1>9. Loops'
  BY <1>t, <1>1 DEF Loops
<1> QED
  BY <1>3, <1>7, <1>8, <1>9 DEF IInv

\* One more connection in the queue of host h.
LEMMA AppendConn ==
  ASSUME TypeOK, NEW h \in Hosts, NEW c \in Conn,
         conns' = [conns EXCEPT ![h] = Append(@, c)]
  PROVE  /\ conns' \in [Hosts -> Seq(Conn)]
         /\ Len(conns[h]) \in Nat
         /\ Len(conns'[h]) = Len(conns[h]) + 1
         /\ conns'[h][Len(conns[h]) + 1] = c
         /\ \A i \in 1..Len(conns[h]) : conns'[h][i] = conns[h][i]
         /\ \A g \in Hosts \ {h} : conns'[g] = conns[g]
<1>1. conns \in [Hosts -> Seq(Conn)] /\ conns[h] \in Seq(Conn)
  BY DEF TypeOK
<1>2. conns'[h] = Append(conns[h], c)
  BY <1>1
<1>3. \A g \in Hosts \ {h} : conns'[g] = conns[g]
  BY <1>1
<1>4. /\ conns'[h] \in Seq(Conn)
      /\ Len(conns[h]) \in Nat
      /\ Len(conns'[h]) = Len(conns[h]) + 1
      /\ conns'[h][Len(conns[h]) + 1] = c
      /\ \A i \in 1..Len(conns[h]) : conns'[h][i] = conns[h][i]
  BY <1>1, <1>2
<1>5. conns' \in [Hosts -> Seq(Conn)]
  BY <1>1, <1>4
<1> QED
  BY <1>3, <1>4, <1>5

LEMMA StepStray ==
  ASSUME IInv, NEW h \in Hosts, Stray(h)
  PROVE  IInv'
<1>t. TypeOK /\ Indices /\ Loops
  BY DEF IInv
<1>1. /\ conns' = [conns EXCEPT ![h] = Append(@, NewConn("closed"))]
      /\ UNCHANGED <<spc, acc, thr, cpc, echo, leg, probing, iter, req, cur, leaked,
                     missed>>
  BY DEF Stray, srvVars, loopVars
<1>2. NewConn("closed") \in Conn
  BY DEF NewConn, Conn
<1>3. faults' \in [FaultKinds -> Nat] /\ ~NoFaults'
  BY <1>t, FaultSeen DEF Stray, FaultKinds
<1>4. /\ conns' \in [Hosts -> Seq(Conn)]
      /\ Len(conns[h]) \in Nat
      /\ Len(conns'[h]) = Len(conns[h]) + 1
      /\ \A g \in Hosts \ {h} : conns'[g] = conns[g]
  BY <1>t, <1>1, <1>2, AppendConn
<1>5. TypeOK'
  BY <1>t, <1>1, <1>3, <1>4 DEF TypeOK
<1>6. ASSUME NEW g \in Hosts
      PROVE  Len(conns[g]) \in Nat /\ Len(conns'[g]) >= Len(conns[g])
  <2>1. conns[g] \in Seq(Conn)
    BY <1>t DEF TypeOK
  <2>2. Len(conns[g]) \in Nat
    BY <2>1
  <2>3. CASE g = h
    BY <2>2, <2>3, <1>4
  <2>4. CASE g # h
    BY <2>2, <2>4, <1>4
  <2> QED
    BY <2>2, <2>3, <2>4
<1>7. Indices'
  BY SMTT(60), <1>t, <1>1, <1>6 DEF Indices, TypeOK
<1>8. Loops'
  BY <1>t, <1>1 DEF Loops
<1> QED
  BY <1>3, <1>5, <1>7, <1>8 DEF IInv

-----------------------------------------------------------------------------
(* The client *)

\* A step of the client leaves the servers as they are; without faults they stay
\* quiet if the connection it works on stays in step with its handler.
LEMMA ServersStayQuiet ==
  ASSUME TypeOK, Indices, Quiet, NEW n \in 1..Len(conns[leg]), NEW c,
         ConnsSet(leg, n, c), UNCHANGED <<srvVars, echo, leg>>,
         \A h \in Hosts : ToMake(h)' = ToMake(h),
         ConnQuiet(leg, n)',
         n \in 1..Len(thr[leg]) => HandlerQuiet(leg, n)'
  PROVE  \A h \in Hosts :
           /\ ServerQuiet(h)' /\ Balanced(h)'
           /\ (\A i \in 1..Len(conns[h]) : ConnQuiet(h, i))'
           /\ (\A t \in 1..Len(thr[h]) : HandlerQuiet(h, t))'
<1> SUFFICES ASSUME NEW h \in Hosts
             PROVE  /\ ServerQuiet(h)' /\ Balanced(h)'
                    /\ (\A i \in 1..Len(conns[h]) : ConnQuiet(h, i))'
                    /\ (\A t \in 1..Len(thr[h]) : HandlerQuiet(h, t))'
  OBVIOUS
<1>u. UNCHANGED <<echo, spc, acc, thr>>
  BY DEF srvVars
<1>1. Len(conns'[h]) = Len(conns[h])
  BY DEF ConnsSet
<1>2. /\ ServerQuiet(h) /\ Balanced(h)
      /\ \A i \in 1..Len(conns[h]) : ConnQuiet(h, i)
      /\ \A t \in 1..Len(thr[h]) : HandlerQuiet(h, t)
  BY DEF Quiet
<1>3. ServerQuiet(h)' /\ Balanced(h)'
  BY <1>u, <1>1, <1>2 DEF ServerQuiet, Balanced
<1>4. ASSUME NEW i \in 1..Len(conns[h]) PROVE ConnQuiet(h, i)'
  <2>1. CASE h = leg /\ i = n
    BY <2>1 DEF ConnQuiet
  <2>2. CASE ~(h = leg /\ i = n)
    <3>1. conns'[h][i] = conns[h][i] /\ ConnQuiet(h, i)
      BY <2>2, <1>2 DEF ConnsSet
    <3> QED
      BY <3>1, <1>u DEF ConnQuiet
  <2> QED
    BY <2>1, <2>2
<1>5. ASSUME NEW t \in 1..Len(thr[h]) PROVE HandlerQuiet(h, t)'
  <2>1. CASE h = leg /\ t = n
    BY <2>1 DEF HandlerQuiet
  <2>2. CASE ~(h = leg /\ t = n)
    <3>1. t \in 1..Len(conns[h])
      BY <1>2 DEF Indices, ServerQuiet, TypeOK
    <3>2. conns'[h][t] = conns[h][t] /\ HandlerQuiet(h, t)
      BY <2>2, <3>1, <1>2 DEF ConnsSet
    <3> QED
      BY <3>2, <1>u DEF HandlerQuiet
  <2> QED
    BY <2>1, <2>2
<1> QED
  BY <1>u, <1>1, <1>3, <1>4, <1>5

LEMMA StepConnect ==
  ASSUME IInv, Connect
  PROVE  IInv'
<1> USE Constants, CallsType
<1>t. TypeOK /\ Indices /\ Loops /\ (NoFaults => Quiet)
  BY DEF IInv
<1>1. /\ cpc = "connect" /\ leaked < FdLimit /\ Listening(leg)
      /\ conns' = [conns EXCEPT ![leg] = Append(@, NewConn("open"))]
      /\ cur' = Len(conns[leg]) + 1
      /\ cpc' \in {"send", "recv"}
      /\ UNCHANGED <<spc, acc, thr, echo, leg, probing, iter, req, leaked, missed,
                     faults>>
  BY DEF Connect, srvVars, loopVars
<1>2. NewConn("open") \in Conn /\ leg \in Hosts
  BY <1>t DEF NewConn, Conn, TypeOK
<1>3. /\ conns' \in [Hosts -> Seq(Conn)]
      /\ Len(conns[leg]) \in Nat
      /\ Len(conns'[leg]) = Len(conns[leg]) + 1
      /\ conns'[leg][Len(conns[leg]) + 1] = NewConn("open")
      /\ \A i \in 1..Len(conns[leg]) : conns'[leg][i] = conns[leg][i]
      /\ \A g \in Hosts \ {leg} : conns'[g] = conns[g]
  BY <1>t, <1>1, <1>2, AppendConn
<1>4. TypeOK'
  BY <1>t, <1>1, <1>3 DEF TypeOK
<1>5. ASSUME NEW g \in Hosts PROVE acc'[g] <= Len(conns'[g])
  <2>1. acc[g] \in Nat /\ acc[g] <= Len(conns[g])
    BY <1>t DEF TypeOK, Indices
  <2> QED
    BY <2>1, <1>1, <1>3
<1>6. Indices'
  BY <1>t, <1>1, <1>3, <1>5 DEF Indices
<1>7. Loops'
  BY <1>t, <1>1 DEF Loops
<1>8. ASSUME NoFaults' PROVE Quiet'
  <2>1. NoFaults /\ Quiet
    BY <1>8, <1>t, <1>1 DEF NoFaults
  <2>2. ClientQuiet'
    BY <2>1, <1>1 DEF Quiet, ClientQuiet
  <2>3. iter * REQUESTS \in Nat /\ iter \in Nat /\ req \in Nat
    BY <1>t DEF TypeOK
  <2>4. ToMake(leg)' = ToMake(leg) - 1
    BY <1>1, <1>2, <2>3 DEF ToMake
  <2>5. ToMake(leg) \in Int
    BY <1>t, <1>2, MakeNat
  <2>6. Balanced(leg)'
    BY <1>1, <1>2, <1>3, <2>1, <2>4, <2>5 DEF Quiet, Balanced
  <2>7. ServerQuiet(leg)'
    BY <1>1, <1>2, <2>1 DEF Quiet, ServerQuiet, Listening
  <2>8. ASSUME NEW i \in 1..Len(conns'[leg]) PROVE ConnQuiet(leg, i)'
    <3>1. CASE i = Len(conns[leg]) + 1
      BY <3>1, <1>1, <1>3 DEF ConnQuiet, NewConn
    <3>2. CASE i # Len(conns[leg]) + 1
      <4>1. i \in 1..Len(conns[leg])
        BY <3>2, <1>3
      <4>2. ConnQuiet(leg, i) /\ conns'[leg][i] = conns[leg][i]
        BY <4>1, <2>1, <1>2, <1>3 DEF Quiet
      <4> QED
        BY <4>2, <1>1 DEF ConnQuiet
    <3> QED
      BY <3>1, <3>2
  <2>9. ASSUME NEW t \in 1..Len(thr'[leg]) PROVE HandlerQuiet(leg, t)'
    <3>1. t \in 1..Len(thr[leg]) /\ HandlerQuiet(leg, t) /\ ServerQuiet(leg)
      BY <2>1, <1>1, <1>2 DEF Quiet
    <3>2. t \in 1..Len(conns[leg])
      BY <3>1, <1>t, <1>2 DEF Indices, ServerQuiet, TypeOK
    <3> QED
      BY <3>1, <3>2, <1>1, <1>3 DEF HandlerQuiet
  <2> SUFFICES ASSUME NEW g \in Hosts
               PROVE  /\ ServerQuiet(g)' /\ Balanced(g)'
                      /\ (\A i \in 1..Len(conns[g]) : ConnQuiet(g, i))'
                      /\ (\A t \in 1..Len(thr[g]) : HandlerQuiet(g, t))'
    BY <2>2 DEF Quiet
  <2>10. CASE g = leg
    BY <2>10, <1>1, <2>6, <2>7, <2>8, <2>9
  <2>11. CASE g # leg
    <3>1. ToMake(g)' = ToMake(g)
      BY <2>11, <1>1 DEF ToMake
    <3> QED
      BY <3>1, <2>11, <2>1, <1>1, <1>3, OtherHost DEF Quiet
  <2> QED
    BY <2>10, <2>11
<1> QED
  BY <1>4, <1>6, <1>7, <1>8 DEF IInv

\* Going on to the next request, sample or leg takes one request off the count.
LEMMA NextLoops ==
  ASSUME TypeOK, Loops, ~probing, cpc \in {"connect", "send", "recv"},
         NextRequest, UNCHANGED probing
  PROVE  /\ iter' \in 0..ITERATIONS /\ req' \in 0..(REQUESTS - 1)
         /\ cpc' \in {"connect", "wait", "exited"}
         /\ UNCHANGED leg /\ Loops'
         /\ iter' * REQUESTS + req' + 0 = iter * REQUESTS + req + 1
<1> USE Constants
<1>1. /\ iter \in Nat /\ iter < ITERATIONS /\ req \in Nat /\ req < REQUESTS
      /\ leg \in Hosts
  BY DEF TypeOK, Loops
<1>2. iter * REQUESTS \in Nat /\ iter * REQUESTS + REQUESTS = (iter + 1) * REQUESTS
  BY <1>1
<1>3. UNCHANGED leg
  BY DEF NextRequest
<1>4. CASE req + 1 # REQUESTS
  <2>1. req' = req + 1 /\ iter' = iter /\ cpc' = "connect"
    BY <1>4 DEF NextRequest
  <2> QED
    BY <1>1, <1>2, <1>3, <1>4, <2>1 DEF Loops
<1>5. CASE req + 1 = REQUESTS
  <2>1. /\ req' = 0 /\ iter' = iter + 1
        /\ cpc' = IF iter + 1 # ITERATIONS THEN "connect"
                  ELSE IF leg = "local" THEN "wait" ELSE "exited"
    BY <1>5 DEF NextRequest
  <2>2. Loops'
    BY <1>1, <1>3, <2>1 DEF Loops
  <2>3. iter' * REQUESTS + req' + 0 = iter * REQUESTS + req + 1
    BY <1>1, <1>2, <1>5, <2>1
  <2> QED
    BY <1>1, <1>2, <1>3, <2>1, <2>2, <2>3
<1> QED
  BY <1>4, <1>5

\* An unsuccessful create_client keeps the types and loops; without faults it
\* happens only while probing, and then it changes nothing.
LEMMA AfterFalse ==
  ASSUME IInv, cpc = "connect", ReturnFalse,
         leaked' \in leaked..FdLimit, UNCHANGED <<srvVars, echo, conns, cur>>,
         faults' \in [FaultKinds -> Nat],
         NoFaults' => NoFaults /\ probing
  PROVE  IInv'
<1> USE Constants
<1>t. TypeOK /\ Indices /\ Loops /\ (NoFaults => Quiet)
  BY DEF IInv
<1>u. UNCHANGED <<spc, acc, thr, echo, conns, cur>>
  BY DEF srvVars
<1>1. CASE probing
  <2>1. UNCHANGED <<echo, leg, probing, iter, req, cpc, missed>>
    BY <1>1 DEF ReturnFalse, loopVars
  <2>2. TypeOK' /\ Indices' /\ Loops'
    BY <1>t, <1>u, <2>1 DEF TypeOK, Indices, Loops
  <2>3. ASSUME NoFaults' PROVE Quiet'
    <3>1. Quiet
      BY <1>t, <2>3
    <3>2. ClientQuiet'
      BY <1>1, <2>1, <3>1 DEF Quiet, ClientQuiet
    <3> QED
      BY <1>u, <2>1, <3>1, <3>2
         DEF Quiet, ServerQuiet, Balanced, ToMake, ConnQuiet, HandlerQuiet
  <2> QED
    BY <2>2, <2>3 DEF IInv
<1>2. CASE ~probing
  <2>1. NextRequest /\ missed' = missed + 1 /\ UNCHANGED probing
    BY <1>2 DEF ReturnFalse
  <2>2. /\ iter' \in 0..ITERATIONS /\ req' \in 0..(REQUESTS - 1)
        /\ cpc' \in {"connect", "wait", "exited"}
        /\ UNCHANGED leg /\ Loops'
    BY <1>2, <1>t, <2>1, NextLoops
  <2>3. TypeOK'
    BY <1>t, <1>u, <2>1, <2>2 DEF TypeOK
  <2>4. Indices'
    BY <1>t, <1>u, <2>2 DEF Indices
  <2> QED
    BY <1>2, <2>2, <2>3, <2>4 DEF IInv
<1> QED
  BY <1>1, <1>2

\* Without faults, the server the client measures is listening.
LEMMA ServerListens ==
  ASSUME TypeOK, Indices, Loops, Quiet, cpc = "connect", ~probing
  PROVE  Listening(leg)
<1> USE Constants, CallsType
<1>1. /\ leg \in Hosts /\ iter \in Nat /\ iter < ITERATIONS
      /\ req \in Nat /\ req < REQUESTS
  BY DEF TypeOK, Loops
<1> DEFINE x == iter * REQUESTS
<1>2. /\ ToMake(leg) = Total - (x + req + 0)
      /\ x \in Nat /\ x + req + 1 <= Total
  BY <1>1, RequestsLeft DEF ToMake
<1> HIDE DEF x
<1>3. ToMake(leg) \in Int /\ ToMake(leg) > 0 /\ ToMake(leg) < AcceptCalls
  BY <1>1, <1>2 DEF AcceptCalls
<1>4. Balanced(leg) /\ ServerQuiet(leg) /\ acc[leg] <= Len(conns[leg])
  BY <1>1 DEF Quiet, Indices
<1>5. Len(conns[leg]) \in Nat /\ acc[leg] \in Nat
  BY <1>1 DEF TypeOK
<1>6. Len(conns[leg]) > 0 /\ Len(conns[leg]) < AcceptCalls
  BY <1>3, <1>4, <1>5 DEF Balanced
<1>7. spc[leg] \notin {"start", "exit0", "exit1"}
  BY <1>4, <1>5, <1>6 DEF ServerQuiet
<1> QED
  BY <1>1, <1>7 DEF Listening, TypeOK

LEMMA StepConnectFail ==
  ASSUME IInv, ConnectFail
  PROVE  IInv'
<1>t. TypeOK /\ Indices /\ Loops /\ (NoFaults => Quiet)
  BY DEF IInv
<1>1. /\ cpc = "connect" /\ leaked < FdLimit /\ leaked' = leaked + 1
      /\ ReturnFalse /\ UNCHANGED <<srvVars, echo, conns, cur>>
  BY DEF ConnectFail
<1>2. leaked' \in leaked..FdLimit
  BY <1>t, <1>1, Constants DEF TypeOK
<1>3. CASE Listening(leg) /\ Fault("connect")
  <2>1. faults' \in [FaultKinds -> Nat] /\ ~NoFaults'
    BY <1>t, <1>3, FaultSeen DEF FaultKinds
  <2> QED
    BY <1>1, <1>2, <2>1, AfterFalse
<1>4. CASE ~Listening(leg) /\ UNCHANGED faults
  <2>1. faults' \in [FaultKinds -> Nat] /\ (NoFaults' => NoFaults)
    BY <1>t, <1>4 DEF TypeOK, NoFaults
  <2>2. NoFaults => probing
    BY <1>t, <1>1, <1>4, ServerListens
  <2> QED
    BY <1>1, <1>2, <2>1, <2>2, AfterFalse
<1> QED
  BY <1>3, <1>4 DEF ConnectFail

LEMMA StepSocketFail ==
  ASSUME IInv, SocketFail
  PROVE  IInv'
<1>t. TypeOK /\ (NoFaults => Quiet)
  BY DEF IInv
<1>1. /\ cpc = "connect" /\ leaked = FdLimit
      /\ ReturnFalse /\ UNCHANGED <<srvVars, echo, conns, cur, leaked, faults>>
  BY DEF SocketFail
<1>2. leaked' \in leaked..FdLimit /\ faults' \in [FaultKinds -> Nat]
  BY <1>t, <1>1, Constants DEF TypeOK
<1>3. NoFaults' => NoFaults
  BY <1>1 DEF NoFaults
<1>4. NoFaults => probing
  BY <1>t, <1>1, Constants DEF Quiet, ClientQuiet
<1> QED
  BY <1>1, <1>2, <1>3, <1>4, AfterFalse

LEMMA StepWaitServer ==
  ASSUME IInv, WaitServer
  PROVE  IInv'
<1> USE Constants, CallsType
<1>t. TypeOK /\ Indices /\ Loops /\ (NoFaults => Quiet)
  BY DEF IInv
<1>1. /\ cpc = "wait" /\ cpc' = "connect" /\ leg' = "remote" /\ probing' = TRUE
      /\ iter' = 0 /\ req' = 0
      /\ UNCHANGED <<echo, spc, acc, thr, conns, cur, leaked, missed, faults>>
  BY DEF WaitServer, srvVars
<1>2. leg = "local" /\ iter = ITERATIONS /\ req = 0 /\ ~probing
  BY <1>t, <1>1 DEF Loops
<1>3. TypeOK'
  BY <1>t, <1>1 DEF TypeOK, Hosts
<1>4. Indices'
  BY <1>t, <1>1 DEF Indices
<1>5. Loops'
  BY <1>1 DEF Loops
<1>6. ASSUME NEW h \in Hosts PROVE ToMake(h)' = ToMake(h)
  <2>1. CASE h = "local"
    BY <1>1, <1>2, <2>1 DEF ToMake, Total
  <2>2. CASE h = "remote"
    BY <1>1, <1>2, <2>2 DEF ToMake, Total
  <2> QED
    BY <2>1, <2>2 DEF Hosts
<1>7. ASSUME NoFaults' PROVE Quiet'
  <2>1. Quiet
    BY <1>t, <1>1, <1>7 DEF NoFaults
  <2>2. ClientQuiet'
    BY <1>1, <2>1 DEF Quiet, ClientQuiet
  <2> QED
    BY <1>1, <1>6, <2>1, <2>2
       DEF Quiet, ServerQuiet, Balanced, ConnQuiet, HandlerQuiet
<1> QED
  BY <1>3, <1>4, <1>5, <1>7 DEF IInv

\* What the client finds when it works on its connection.
LEMMA ClientFacts ==
  ASSUME IInv, cpc \in {"send", "recv"}
  PROVE  /\ TypeOK /\ Indices /\ Loops
         /\ leg \in Hosts /\ cur \in 1..Len(conns[leg]) /\ cur # 0
         /\ conns[leg][cur] \in Conn
         /\ NoFaults => /\ Quiet /\ ConnQuiet(leg, cur)
                        /\ cur \in 1..Len(thr[leg]) => HandlerQuiet(leg, cur)
                        /\ cur \notin 1..Len(thr[leg]) => cur > acc[leg]
                        /\ leaked < FdLimit
<1>t. TypeOK /\ Indices /\ Loops /\ (NoFaults => Quiet)
  BY DEF IInv
<1>1. leg \in Hosts /\ cur \in 1..Len(conns[leg])
  BY <1>t DEF TypeOK, Indices
<1>2. conns[leg] \in Seq(Conn) /\ acc[leg] \in Nat
  BY <1>t, <1>1 DEF TypeOK
<1>3. conns[leg][cur] \in Conn /\ cur # 0
  BY <1>1, <1>2
<1>4. ASSUME NoFaults
      PROVE  /\ Quiet /\ ConnQuiet(leg, cur)
             /\ cur \in 1..Len(thr[leg]) => HandlerQuiet(leg, cur)
             /\ cur \notin 1..Len(thr[leg]) => cur > acc[leg]
             /\ leaked < FdLimit
  <2>1. Quiet
    BY <1>t, <1>4
  <2>2. ConnQuiet(leg, cur)
    BY <2>1, <1>1 DEF Quiet
  <2>3. cur \in 1..Len(thr[leg]) => HandlerQuiet(leg, cur)
    BY <2>1, <1>1 DEF Quiet
  <2>4. acc[leg] = Len(thr[leg])
    BY <2>1, <1>1 DEF Quiet, ServerQuiet
  <2>5. cur \notin 1..Len(thr[leg]) => cur > acc[leg]
    BY <2>4, <1>1, <1>2
  <2> QED
    BY <2>1, <2>2, <2>3, <2>5 DEF Quiet, ClientQuiet
<1> QED
  BY <1>t, <1>1, <1>3, <1>4

LEMMA StepClientSend ==
  ASSUME IInv, ClientSend
  PROVE  IInv'
<1> USE Constants
<1> DEFINE k == conns[leg][cur]
           b == ~k.err /\ k.sv # "closed"
           c == [k EXCEPT !.err = FALSE, !.req = b]
<1>1. /\ cpc = "send" /\ cpc' = "recv"
      /\ conns' = [conns EXCEPT ![leg] = [conns[leg] EXCEPT ![cur] = c]]
      /\ UNCHANGED <<spc, acc, thr, echo, leg, probing, iter, req, cur, leaked, missed,
                     faults>>
  BY DEF ClientSend, srvVars, loopVars
<1>2. /\ TypeOK /\ Indices /\ Loops
      /\ leg \in Hosts /\ cur \in 1..Len(conns[leg]) /\ k \in Conn
  BY <1>1, ClientFacts
<1>b. b \in BOOLEAN
  OBVIOUS
<1> HIDE DEF b
<1>3. /\ c \in Conn /\ c.err = FALSE /\ c.req = b /\ c.rep = k.rep
      /\ c.cl = k.cl /\ c.sv = k.sv
  BY <1>2, <1>b DEF Conn
<1> HIDE DEF c, k
<1>4. ConnsSet(leg, cur, c)
  BY <1>1, <1>2, <1>3, SetConns
<1>5. /\ \A g \in Hosts : Len(conns'[g]) = Len(conns[g])
      /\ conns' \in [Hosts -> Seq(Conn)]
      /\ conns'[leg][cur] = c
  BY <1>2, <1>4 DEF ConnsSet
<1>6. TypeOK'
  BY <1>1, <1>2, <1>5 DEF TypeOK
<1>7. Indices'
  BY <1>1, <1>2, <1>5 DEF Indices, TypeOK
<1>8. Loops'
  BY <1>1, <1>2 DEF Loops
<1>9. ASSUME NoFaults' PROVE Quiet'
  <2>1. /\ Quiet /\ ConnQuiet(leg, cur)
        /\ cur \in 1..Len(thr[leg]) => HandlerQuiet(leg, cur)
        /\ leaked < FdLimit
    BY <1>1, <1>9, ClientFacts DEF NoFaults
  <2>2. ClientQuiet'
    BY <1>1, <2>1 DEF Quiet, ClientQuiet
  <2>3. ConnQuiet(leg, cur)'
    BY <1>1, <1>3, <1>5, <2>1 DEF ConnQuiet, k
  <2>4. ASSUME cur \in 1..Len(thr[leg]) PROVE HandlerQuiet(leg, cur)'
    <3>1. HandlerQuiet(leg, cur) /\ thr'[leg][cur] = thr[leg][cur]
      BY <1>1, <2>1, <2>4
    <3>2. thr[leg][cur].pc = "send" => b
      BY <3>1, <2>1 DEF HandlerQuiet, ConnQuiet, k, b
    <3> QED
      BY <1>1, <1>3, <1>5, <3>1, <3>2 DEF HandlerQuiet, k
  <2>5. \A h \in Hosts : ToMake(h)' = ToMake(h)
    BY <1>1 DEF ToMake
  <2> QED
    BY <1>1, <1>2, <1>4, <1>5, <2>1, <2>2, <2>3, <2>4, <2>5, ServersStayQuiet
       DEF Quiet, srvVars
<1> QED
  BY <1>6, <1>7, <1>8, <1>9 DEF IInv

\* Closing the client's end of its connection.
LEMMA ClientClose ==
  ASSUME IInv, cpc \in {"send", "recv"},
         conns' = [conns EXCEPT ![leg][cur].cl = "closed"]
  PROVE  /\ ConnsSet(leg, cur, [conns[leg][cur] EXCEPT !.cl = "closed"])
         /\ \A g \in Hosts : Len(conns'[g]) = Len(conns[g])
         /\ conns' \in [Hosts -> Seq(Conn)]
         /\ conns'[leg][cur] = [conns[leg][cur] EXCEPT !.cl = "closed"]
<1> DEFINE c == [conns[leg][cur] EXCEPT !.cl = "closed"]
<1>1. /\ TypeOK /\ leg \in Hosts /\ cur \in 1..Len(conns[leg])
      /\ conns[leg][cur] \in Conn
  BY ClientFacts
<1>2. conns' = [conns EXCEPT ![leg] = [conns[leg] EXCEPT ![cur] = c]]
  OBVIOUS
<1>3. c \in Conn
  BY <1>1 DEF Conn
<1> HIDE DEF c
<1>4. ConnsSet(leg, cur, c)
  BY <1>1, <1>2, <1>3, SetConns
<1>5. /\ \A g \in Hosts : Len(conns'[g]) = Len(conns[g])
      /\ conns' \in [Hosts -> Seq(Conn)]
      /\ conns'[leg][cur] = c
  BY <1>1, <1>4 DEF ConnsSet
<1> QED
  BY <1>4, <1>5 DEF c

LEMMA StepClientRecvError ==
  ASSUME IInv, ClientRecvError
  PROVE  IInv'
<1>1. /\ cpc = "recv" /\ cpc' = "aborted" /\ conns[leg][cur].err
      /\ conns' = [conns EXCEPT ![leg][cur].cl = "closed"]
      /\ UNCHANGED <<spc, acc, thr, echo, leg, probing, iter, req, cur, leaked, missed,
                     faults>>
  BY DEF ClientRecvError, srvVars, loopVars
<1>2. /\ TypeOK /\ Indices /\ Loops
      /\ \A g \in Hosts : Len(conns'[g]) = Len(conns[g])
      /\ conns' \in [Hosts -> Seq(Conn)]
  BY <1>1, ClientFacts, ClientClose
<1>3. TypeOK'
  BY <1>1, <1>2 DEF TypeOK
<1>4. Indices'
  BY <1>1, <1>2 DEF Indices, TypeOK
<1>5. Loops'
  BY <1>1, <1>2 DEF Loops
<1>6. ~NoFaults
  BY <1>1, ClientFacts DEF ConnQuiet
<1> QED
  BY <1>1, <1>3, <1>4, <1>5, <1>6 DEF IInv, NoFaults

LEMMA StepClientRecv ==
  ASSUME IInv, ClientRecv
  PROVE  IInv'
<1> USE Constants, CallsType
<1> DEFINE k == conns[leg][cur]
           c == [k EXCEPT !.cl = "closed"]
<1>1. /\ cpc = "recv" /\ ~k.err /\ (k.rep \/ k.sv = "closed")
      /\ conns' = [conns EXCEPT ![leg][cur].cl = "closed"]
      /\ missed' = IF k.rep \/ probing THEN missed ELSE missed + 1
      /\ ReturnTrue
      /\ UNCHANGED <<echo, spc, acc, thr, cur, leaked, faults>>
  BY DEF ClientRecv, srvVars
<1>2. /\ TypeOK /\ Indices /\ Loops
      /\ leg \in Hosts /\ cur \in 1..Len(conns[leg]) /\ k \in Conn
      /\ ConnsSet(leg, cur, c)
      /\ \A g \in Hosts : Len(conns'[g]) = Len(conns[g])
      /\ conns' \in [Hosts -> Seq(Conn)]
      /\ conns'[leg][cur] = c
  BY <1>1, ClientFacts, ClientClose
<1>3. /\ UNCHANGED leg /\ probing' = FALSE /\ Loops'
      /\ cpc' \in {"connect", "wait", "exited"}
      /\ iter' \in 0..ITERATIONS /\ req' \in 0..(REQUESTS - 1)
      /\ \A h \in Hosts : ToMake(h)' = ToMake(h)
  <2>1. CASE probing
    <3>1. /\ probing' = FALSE /\ cpc' = "connect" /\ UNCHANGED <<leg, iter, req>>
      BY <1>1, <2>1 DEF ReturnTrue
    <3>2. Loops'
      BY <1>1, <1>2, <3>1 DEF Loops
    <3>3. iter = 0 /\ req = 0
      BY <1>2, <2>1 DEF Loops
    <3>4. \A h \in Hosts : ToMake(h)' = ToMake(h)
      BY <1>1, <2>1, <3>1, <3>3 DEF ToMake
    <3> QED
      BY <1>2, <3>1, <3>2, <3>4 DEF TypeOK
  <2>2. CASE ~probing
    <3>1. NextRequest /\ UNCHANGED probing
      BY <1>1, <2>2 DEF ReturnTrue
    <3>2. /\ iter' \in 0..ITERATIONS /\ req' \in 0..(REQUESTS - 1)
          /\ cpc' \in {"connect", "wait", "exited"}
          /\ UNCHANGED leg /\ Loops'
      BY <1>1, <1>2, <2>2, <3>1, NextLoops
    <3>3. iter' * REQUESTS + req' + 0 = iter * REQUESTS + req + 1
      BY <1>1, <1>2, <2>2, <3>1, NextLoops
    <3>4. \A h \in Hosts \ {leg} : ToMake(h)' = ToMake(h)
      BY <3>2 DEF ToMake
    <3>5. ToMake(leg)' = ToMake(leg)
      <4>1. ToMake(leg) = Total - (iter * REQUESTS + req + 1)
        BY <1>1, <2>2 DEF ToMake
      <4>2. ToMake(leg)' = Total - (iter' * REQUESTS + req' + 0)
        BY <2>2, <3>1, <3>2 DEF ToMake
      <4> QED
        BY <3>3, <4>1, <4>2, Zenon
    <3> QED
      BY <2>2, <3>1, <3>2, <3>4, <3>5
  <2> QED
    BY <2>1, <2>2
<1>4. TypeOK'
  <2>1. missed' \in Nat
    BY SMTT(60), <1>1, <1>2 DEF TypeOK
  <2> QED
    BY <1>1, <1>2, <1>3, <2>1 DEF TypeOK
<1>5. Indices'
  BY <1>1, <1>2, <1>3 DEF Indices, TypeOK
<1>6. ASSUME NoFaults' PROVE Quiet'
  <2>1. /\ Quiet /\ ConnQuiet(leg, cur)
        /\ cur \in 1..Len(thr[leg]) => HandlerQuiet(leg, cur)
        /\ cur \notin 1..Len(thr[leg]) => cur > acc[leg]
        /\ leaked < FdLimit
    BY <1>1, <1>6, ClientFacts DEF NoFaults
  <2>2. k.rep
    BY <1>1, <2>1 DEF ConnQuiet, HandlerQuiet
  <2>3. ClientQuiet'
    BY <1>1, <1>3, <2>1, <2>2 DEF Quiet, ClientQuiet
  <2>4. c.err = k.err /\ c.rep = k.rep /\ c.sv = k.sv /\ c.req = k.req
    BY <1>2 DEF Conn
  <2> HIDE DEF c
  <2>5. ConnQuiet(leg, cur)'
    BY <1>1, <1>2, <1>3, <2>1, <2>2, <2>4 DEF ConnQuiet
  <2>6. cur \in 1..Len(thr[leg]) => HandlerQuiet(leg, cur)'
    BY <1>1, <1>2, <1>3, <2>1, <2>4 DEF HandlerQuiet
  <2> QED
    BY <1>1, <1>2, <1>3, <2>1, <2>3, <2>5, <2>6, ServersStayQuiet
       DEF Quiet, srvVars
<1> QED
  BY <1>3, <1>4, <1>5, <1>6 DEF IInv

-----------------------------------------------------------------------------
(* The invariant and what follows from it *)

LEMMA StepIInv == IInv /\ [Next]_vars => IInv'
<1> SUFFICES ASSUME IInv, [Next]_vars
             PROVE  IInv'
  OBVIOUS
<1>1. CASE Client
  BY <1>1, StepConnect, StepConnectFail, StepSocketFail, StepClientSend,
     StepClientRecv, StepClientRecvError, StepWaitServer DEF Client
<1>2. ASSUME NEW h \in Hosts, ServerMain(h) \/ Stray(h) PROVE IInv'
  BY <1>2, StepServerStart, StepAccept, StepAcceptError, StepJoinAndExit,
     StepStray DEF ServerMain
<1>3. ASSUME NEW h \in Hosts, NEW t \in DOMAIN thr[h], Handler(h, t) PROVE IInv'
  BY <1>3, StepHandlerRecv, StepHandlerRecvError, StepHandlerSend,
     StepHandlerClose DEF Handler
<1>4. CASE UNCHANGED vars
  <2>1. UNCHANGED <<spc, conns, acc, thr, cpc, echo, leg, probing, iter, req, cur,
                    leaked, missed, faults>>
    BY <1>4 DEF vars
  <2>2. TypeOK' /\ Indices' /\ Loops'
    BY <2>1 DEF IInv, TypeOK, Indices, Loops
  <2>3. NoFaults' => Quiet'
    BY <2>1 DEF IInv, NoFaults, Quiet, ClientQuiet, ServerQuiet, Balanced, ToMake,
                ConnQuiet, HandlerQuiet
  <2> QED
    BY <2>2, <2>3 DEF IInv
<1>5. CASE Finished
  BY <1>4, <1>5 DEF Finished
<1> QED
  BY <1>1, <1>2, <1>3, <1>4, <1>5 DEF Next

THEOREM Invariance == Spec => []IInv
BY InitIInv, StepIInv, PTL DEF Spec

\* Whatever faults happen, every variable keeps its type: no loop counter leaves
\* its range, and no more sockets are lost than the process may open.
THEOREM Typing == Spec => []TypeOK
<1>1. IInv => TypeOK
  BY DEF IInv
<1> QED
  BY Invariance, <1>1, PTL

\* Without faults every measured request of rtt.cpp and bw.cpp gets its complete
\* reply, for any number of requests and samples: create_server joins its threads
\* before it exits and accepts as often as the client connects.
THEOREM Answered == Spec => []AnsweredUnlessFault
<1>1. IInv => AnsweredUnlessFault
  BY DEF IInv, Quiet, ClientQuiet, AnsweredUnlessFault
<1> QED
  BY Invariance, <1>1, PTL

\* Without faults the accept() calls create_server has left are the connections
\* queued and still to come, so neither side is left waiting for the other.
THEOREM SlotsMatch == Spec => []SlotsMatchDemand
<1>1. ASSUME IInv PROVE SlotsMatchDemand
  <2> SUFFICES ASSUME NoFaults, NEW h \in Hosts
               PROVE  AcceptCalls - Len(thr[h]) = Len(conns[h]) - acc[h] + ToMake(h)
    BY DEF SlotsMatchDemand
  <2>1. acc[h] = Len(thr[h])
    BY <1>1 DEF IInv, Quiet, ServerQuiet
  <2>2. Len(conns[h]) + ToMake(h) = AcceptCalls
    BY <1>1 DEF IInv, Quiet, Balanced
  <2>3. TypeOK /\ Loops
    BY <1>1 DEF IInv
  <2>4. /\ acc[h] \in Nat /\ Len(conns[h]) \in Nat
        /\ ToMake(h) \in Int /\ AcceptCalls \in Nat
    BY <2>3, MakeNat, CallsType DEF TypeOK
  <2>5. AcceptCalls - acc[h] = Len(conns[h]) - acc[h] + ToMake(h)
    <3> DEFINE l == Len(conns[h])
               m == ToMake(h)
    <3>1. l + m = AcceptCalls /\ l \in Nat /\ m \in Int
      BY <2>2, <2>4
    <3> HIDE DEF l, m
    <3>2. AcceptCalls - acc[h] = l - acc[h] + m
      BY SMTT(60), <2>4, <3>1
    <3> QED
      BY <3>2 DEF l, m
  <2> QED
    BY <2>1, <2>5
<1> QED
  BY Invariance, <1>1, PTL

-----------------------------------------------------------------------------
(* Closing only after the reply, whatever faults happen *)

\* The client has the complete reply on connection i, or wants none any more.
Settled(h, i) == conns[h][i].rep \/ conns[h][i].cl = "closed"

\* A handler sends once the request is there or will not come, and closes once
\* its connection is settled.
Answering(h, t) ==
  LET n == thr[h][t].fd IN
  n # 0 =>
    /\ echo /\ thr[h][t].pc = "send" =>
         conns[h][n].req \/ conns[h][n].cl = "closed"
    /\ thr[h][t].pc \in {"close", "done"} => Settled(h, n)

\* Every accepted connection has a handler, so that join() waits for it.
Attended(h) == \A i \in 1..acc[h] : \E t \in 1..Len(thr[h]) : thr[h][t].fd = i

\* What a server closes is settled, and stays so when it ends by itself.
ClosesSettled(h) ==
  spc[h] # "exit1" =>
    \A i \in 1..acc[h] : conns[h][i].sv = "closed" => Settled(h, i)

\* No request is at the server before the client sends it.
Unsent == cpc = "send" => ~conns[leg][cur].req

Served ==
  /\ \A h \in Hosts : Attended(h) /\ ClosesSettled(h)
  /\ \A h \in Hosts : \A t \in 1..Len(thr[h]) : Answering(h, t)
  /\ Unsent

\* No connection is lost, and none loses its request, its reply or its end.
Progress ==
  \A h \in Hosts : \A i \in 1..Len(conns[h]) :
    /\ conns[h][i].req => conns'[h][i].req
    /\ conns[h][i].rep => conns'[h][i].rep
    /\ conns[h][i].cl = "closed" => conns'[h][i].cl = "closed"

LEMMA InitServed == Init => Served
BY DEF Init, Served, Attended, ClosesSettled, Answering, Unsent, Hosts

\* The numbers a handler or the client uses are those of connections.
LEMMA Numbers ==
  ASSUME TypeOK, Indices, NEW h \in Hosts
  PROVE  /\ acc[h] \in Nat /\ Len(conns[h]) \in Nat /\ Len(thr[h]) \in Nat
         /\ \A i \in 1..acc[h] : i \in 1..Len(conns[h])
         /\ \A t \in 1..Len(thr[h]) : thr[h][t].fd # 0 =>
              thr[h][t].fd \in 1..acc[h] /\ thr[h][t].fd \in 1..Len(conns[h])
<1>1. acc[h] \in Nat /\ conns[h] \in Seq(Conn) /\ thr[h] \in Seq(HandlerState)
  BY DEF TypeOK
<1> QED
  BY <1>1 DEF Indices

LEMMA AnsweringKept ==
  ASSUME TypeOK, Indices, Progress, UNCHANGED echo, NEW h \in Hosts,
         NEW t \in 1..Len(thr[h]), Answering(h, t), thr'[h][t] = thr[h][t]
  PROVE  Answering(h, t)'
<1>1. thr[h][t].fd # 0 => thr[h][t].fd \in 1..Len(conns[h])
  BY Numbers
<1> QED
  BY <1>1 DEF Progress, Answering, Settled

\* A step that opens or advances connections and closes none at the server keeps
\* what is said of the servers.
LEMMA ServersServe ==
  ASSUME TypeOK, Indices, Served, Progress,
         UNCHANGED <<acc, thr, echo>>,
         \A h \in Hosts : spc[h] = "exit1" => spc'[h] = "exit1",
         \A h \in Hosts : \A i \in 1..Len(conns[h]) :
           conns'[h][i].sv = "closed" => conns[h][i].sv = "closed"
  PROVE  /\ \A h \in Hosts : Attended(h)' /\ ClosesSettled(h)'
         /\ (\A h \in Hosts : \A t \in 1..Len(thr[h]) : Answering(h, t))'
<1>1. ASSUME NEW h \in Hosts PROVE Attended(h)' /\ ClosesSettled(h)'
  <2>1. Attended(h) /\ ClosesSettled(h)
    BY DEF Served
  <2>2. Attended(h)'
    BY <2>1 DEF Attended
  <2>3. ClosesSettled(h)'
    BY <2>1, Numbers DEF ClosesSettled, Settled, Progress
  <2> QED
    BY <2>2, <2>3
<1>2. ASSUME NEW h \in Hosts, NEW t \in 1..Len(thr[h]) PROVE Answering(h, t)'
  BY AnsweringKept DEF Served
<1> QED
  BY <1>1, <1>2

\* A step of a server leaves the client's unsent request alone.
LEMMA ServerUnsent ==
  ASSUME TypeOK, Indices, Unsent, UNCHANGED <<cpc, leg, cur>>,
         \A h \in Hosts : \A i \in 1..Len(conns[h]) :
           conns'[h][i].req = conns[h][i].req
  PROVE  Unsent'
<1>1. cpc = "send" => leg \in Hosts /\ cur \in 1..Len(conns[leg])
  BY DEF TypeOK, Indices
<1> QED
  BY <1>1 DEF Unsent

\* One connection advances.
LEMMA SetProgress ==
  ASSUME NEW h \in Hosts, NEW n, NEW c, ConnsSet(h, n, c),
         n \in 1..Len(conns[h]) =>
           /\ conns[h][n].req => c.req
           /\ conns[h][n].rep => c.rep
           /\ conns[h][n].cl = "closed" => c.cl = "closed"
  PROVE  Progress
BY DEF ConnsSet, Progress

\* A connection is added.
LEMMA AppendProgress ==
  ASSUME TypeOK, NEW h \in Hosts, NEW c \in Conn,
         conns' = [conns EXCEPT ![h] = Append(@, c)]
  PROVE  /\ Progress
         /\ \A g \in Hosts : \A i \in 1..Len(conns[g]) :
              conns'[g][i] = conns[g][i]
<1>1. \A g \in Hosts : \A i \in 1..Len(conns[g]) : conns'[g][i] = conns[g][i]
  BY AppendConn
<1> QED
  BY <1>1 DEF Progress

LEMMA ServedConnect ==
  ASSUME IInv, Served, Connect
  PROVE  Served'
<1>1. TypeOK /\ Indices /\ leg \in Hosts
  BY DEF IInv, TypeOK
<1>2. /\ conns' = [conns EXCEPT ![leg] = Append(@, NewConn("open"))]
      /\ cur' = Len(conns[leg]) + 1
      /\ UNCHANGED <<spc, acc, thr, echo, leg>>
  BY DEF Connect, srvVars, loopVars
<1>3. NewConn("open") \in Conn
  BY DEF NewConn, Conn
<1>4. /\ Progress
      /\ \A g \in Hosts : \A i \in 1..Len(conns[g]) :
           conns'[g][i] = conns[g][i]
      /\ conns'[leg][Len(conns[leg]) + 1] = NewConn("open")
  BY <1>1, <1>2, <1>3, AppendProgress, AppendConn
<1>5. Unsent'
  BY <1>2, <1>4 DEF Unsent, NewConn
<1> QED
  BY <1>1, <1>2, <1>4, <1>5, ServersServe DEF Served

LEMMA ServedStray ==
  ASSUME IInv, Served, NEW h \in Hosts, Stray(h)
  PROVE  Served'
<1>1. TypeOK /\ Indices
  BY DEF IInv
<1>2. /\ conns' = [conns EXCEPT ![h] = Append(@, NewConn("closed"))]
      /\ UNCHANGED <<spc, acc, thr, echo, cpc, leg, cur>>
  BY DEF Stray, srvVars, loopVars
<1>3. NewConn("closed") \in Conn
  BY DEF NewConn, Conn
<1>4. /\ Progress
      /\ \A g \in Hosts : \A i \in 1..Len(conns[g]) :
           conns'[g][i] = conns[g][i]
  BY <1>1, <1>2, <1>3, AppendProgress
<1>5. Unsent'
  BY <1>1, <1>2, <1>4, ServerUnsent DEF Served
<1> QED
  BY <1>1, <1>2, <1>4, <1>5, ServersServe DEF Served

\* The client goes on without a connection.
LEMMA ServedWithout ==
  ASSUME IInv, Served, ConnectFail \/ SocketFail \/ WaitServer
  PROVE  Served'
<1>1. TypeOK /\ Indices
  BY DEF IInv
<1>2. UNCHANGED <<spc, acc, thr, echo, conns>> /\ cpc' # "send"
  BY DEF ConnectFail, SocketFail, WaitServer, srvVars, ReturnFalse,
         NextRequest, loopVars
<1>3. Progress
  BY <1>2 DEF Progress
<1> QED
  BY <1>1, <1>2, <1>3, ServersServe DEF Served, Unsent

LEMMA ServedClientSend ==
  ASSUME IInv, Served, ClientSend
  PROVE  Served'
<1> DEFINE k == conns[leg][cur]
           b == ~k.err /\ k.sv # "closed"
           c == [k EXCEPT !.err = FALSE, !.req = b]
<1>1. /\ cpc = "send" /\ cpc' = "recv"
      /\ conns' = [conns EXCEPT ![leg] = [conns[leg] EXCEPT ![cur] = c]]
      /\ UNCHANGED <<spc, acc, thr, echo>>
  BY DEF ClientSend, srvVars, loopVars
<1>2. /\ TypeOK /\ Indices
      /\ leg \in Hosts /\ cur \in 1..Len(conns[leg]) /\ k \in Conn
  BY <1>1, ClientFacts
<1>b. b \in BOOLEAN
  OBVIOUS
<1> HIDE DEF b
<1>3. c \in Conn /\ c.rep = k.rep /\ c.cl = k.cl /\ c.sv = k.sv /\ ~k.req
  BY <1>1, <1>2, <1>b DEF Conn, Served, Unsent
<1> HIDE DEF c
<1>4. ConnsSet(leg, cur, c)
  BY <1>1, <1>2, <1>3, SetConns
<1>5. Progress
  BY <1>2, <1>3, <1>4, SetProgress
<1>6. \A h \in Hosts : \A i \in 1..Len(conns[h]) :
        conns'[h][i].sv = "closed" => conns[h][i].sv = "closed"
  BY <1>3, <1>4 DEF ConnsSet
<1> QED
  BY <1>1, <1>2, <1>5, <1>6, ServersServe DEF Served, Unsent

\* The client closes its end.
LEMMA ServedClientRecv ==
  ASSUME IInv, Served, ClientRecv \/ ClientRecvError
  PROVE  Served'
<1> DEFINE k == conns[leg][cur]
           c == [k EXCEPT !.cl = "closed"]
<1>1. /\ cpc = "recv" /\ cpc' # "send"
      /\ conns' = [conns EXCEPT ![leg][cur].cl = "closed"]
      /\ UNCHANGED <<spc, acc, thr, echo>>
  BY DEF ClientRecv, ClientRecvError, ReturnTrue, NextRequest, srvVars,
         loopVars
<1>2. /\ TypeOK /\ Indices
      /\ leg \in Hosts /\ cur \in 1..Len(conns[leg]) /\ k \in Conn
      /\ ConnsSet(leg, cur, c)
  BY <1>1, ClientFacts, ClientClose
<1>3. c.rep = k.rep /\ c.req = k.req /\ c.sv = k.sv /\ c.cl = "closed"
  BY <1>2 DEF Conn
<1> HIDE DEF c
<1>4. Progress
  BY <1>2, <1>3, SetProgress
<1>5. \A h \in Hosts : \A i \in 1..Len(conns[h]) :
        conns'[h][i].sv = "closed" => conns[h][i].sv = "closed"
  BY <1>2, <1>3 DEF ConnsSet
<1> QED
  BY <1>1, <1>2, <1>4, <1>5, ServersServe DEF Served, Unsent

LEMMA ServedStart ==
  ASSUME IInv, Served, NEW h \in Hosts, ServerStart(h)
  PROVE  Served'
<1>1. TypeOK /\ Indices
  BY DEF IInv
<1>2. /\ spc[h] = "start" /\ \A g \in Hosts \ {h} : spc'[g] = spc[g]
      /\ UNCHANGED <<acc, thr, echo, conns, cpc, leg, cur>>
  BY <1>1 DEF ServerStart, loopVars, TypeOK
<1>3. Progress
  BY <1>2 DEF Progress
<1>4. Unsent'
  BY <1>1, <1>2, ServerUnsent DEF Served
<1>5. \A g \in Hosts : spc[g] = "exit1" => spc'[g] = "exit1"
  BY <1>2
<1> QED
  BY <1>1, <1>2, <1>3, <1>4, <1>5, ServersServe DEF Served

\* A new handler, of connection fd or of none (fd = 0), changes no other.
LEMMA Spawned ==
  ASSUME TypeOK, NEW h \in Hosts, NEW fd \in Nat, SpawnHandler(h, fd)
  PROVE  /\ Len(thr'[h]) = Len(thr[h]) + 1 /\ Len(thr[h]) \in Nat
         /\ thr'[h][Len(thr[h]) + 1] =
              [fd |-> fd, pc |-> IF echo THEN "recv" ELSE "send"]
         /\ \A t \in 1..Len(thr[h]) : thr'[h][t] = thr[h][t]
         /\ \A g \in Hosts \ {h} : thr'[g] = thr[g] /\ spc'[g] = spc[g]
         /\ spc[h] # "exit1" => spc'[h] # "exit1"
<1> DEFINE e == [fd |-> fd, pc |-> IF echo THEN "recv" ELSE "send"]
<1>1. /\ thr \in [Hosts -> Seq(HandlerState)] /\ thr[h] \in Seq(HandlerState)
      /\ DOMAIN spc = Hosts
  BY DEF TypeOK
<1>2. e \in HandlerState
  BY DEF HandlerState
<1>3. thr' = [thr EXCEPT ![h] = Append(thr[h], e)]
  BY DEF SpawnHandler
<1> HIDE DEF e
<1>4. thr'[h] = Append(thr[h], e)
  BY <1>1, <1>3
<1>5. /\ Len(thr'[h]) = Len(thr[h]) + 1 /\ Len(thr[h]) \in Nat
      /\ thr'[h][Len(thr[h]) + 1] = e
      /\ \A t \in 1..Len(thr[h]) : thr'[h][t] = thr[h][t]
  BY <1>1, <1>2, <1>4
<1>6. \A g \in Hosts \ {h} : thr'[g] = thr[g] /\ spc'[g] = spc[g]
  BY <1>1, <1>3 DEF SpawnHandler
<1>7. spc[h] # "exit1" => spc'[h] # "exit1"
  BY <1>1 DEF SpawnHandler
<1> QED
  BY <1>5, <1>6, <1>7 DEF e

LEMMA ServedAccept ==
  ASSUME IInv, Served, NEW h \in Hosts, Accept(h)
  PROVE  Served'
<1> DEFINE n == acc[h] + 1
           k == conns[h][n]
           c == [k EXCEPT !.sv = "open"]
<1>1. TypeOK /\ Indices
  BY DEF IInv
<1>2. /\ acc[h] \in Nat /\ n \in 1..Len(conns[h]) /\ n \in Nat
      /\ k \in Conn
  <2>1. acc[h] \in Nat /\ conns[h] \in Seq(Conn)
    BY <1>1 DEF TypeOK
  <2> QED
    BY <2>1 DEF Accept
<1>3. /\ conns' = [conns EXCEPT ![h] = [conns[h] EXCEPT ![n] = c]]
      /\ acc' = [acc EXCEPT ![h] = n]
      /\ SpawnHandler(h, n)
      /\ UNCHANGED <<cpc, leg, cur, echo>>
  BY DEF Accept, loopVars
<1>4. /\ c \in Conn /\ c.req = k.req /\ c.rep = k.rep /\ c.cl = k.cl
      /\ c.sv = "open"
  BY <1>2 DEF Conn
<1>5. acc'[h] = n /\ \A g \in Hosts \ {h} : acc'[g] = acc[g]
  BY <1>1, <1>3 DEF TypeOK
<1> HIDE DEF c, n
<1>6. ConnsSet(h, n, c)
  BY <1>1, <1>2, <1>3, <1>4, SetConns
<1>7. Progress
  BY <1>2, <1>4, <1>6, SetProgress
<1>8. /\ Len(thr'[h]) = Len(thr[h]) + 1 /\ Len(thr[h]) \in Nat
      /\ thr'[h][Len(thr[h]) + 1] =
           [fd |-> n, pc |-> IF echo THEN "recv" ELSE "send"]
      /\ \A t \in 1..Len(thr[h]) : thr'[h][t] = thr[h][t]
      /\ \A g \in Hosts \ {h} : thr'[g] = thr[g] /\ spc'[g] = spc[g]
      /\ spc[h] # "exit1"
  <2>1. spc[h] # "exit1"
    BY DEF Accept
  <2> QED
    BY <1>1, <1>2, <1>3, <2>1, Spawned
<1>9. Unsent'
  <2>1. \A g \in Hosts : \A i \in 1..Len(conns[g]) :
          conns'[g][i].req = conns[g][i].req
    BY <1>4, <1>6 DEF ConnsSet
  <2> QED
    BY <1>1, <1>3, <2>1, ServerUnsent DEF Served
<1>10. ASSUME NEW g \in Hosts PROVE Attended(g)'
  <2>1. CASE g = h
    <3>1. \A i \in 1..acc[h] : \E t \in 1..Len(thr[h]) : thr'[h][t].fd = i
      BY <1>8 DEF Served, Attended
    <3>2. thr'[h][Len(thr[h]) + 1].fd = n
      BY <1>8
    <3>3. \A i \in 1..n : i \in 1..acc[h] \/ i = n
      BY <1>2 DEF n
    <3> QED
      BY SMTT(60), <2>1, <3>1, <3>2, <3>3, <1>5, <1>8 DEF Attended
  <2>2. CASE g # h
    BY SMTT(60), <2>2, <1>5, <1>8 DEF Served, Attended
  <2> QED
    BY <2>1, <2>2
<1>11. ASSUME NEW g \in Hosts PROVE ClosesSettled(g)'
  <2> SUFFICES ASSUME spc'[g] # "exit1", NEW i \in 1..acc'[g],
                      conns'[g][i].sv = "closed"
               PROVE  Settled(g, i)'
    BY DEF ClosesSettled
  <2>1. ~(g = h /\ i = n)
    BY <1>2, <1>4, <1>6 DEF ConnsSet
  <2>2. spc[g] # "exit1" /\ i \in 1..acc[g]
    BY <2>1, <1>2, <1>5, <1>8 DEF n
  <2>3. i \in 1..Len(conns[g])
    BY <2>2, <1>1, Numbers
  <2>4. conns[g][i].sv = "closed"
    BY <2>1, <2>3, <1>6 DEF ConnsSet
  <2>5. Settled(g, i)
    BY <2>2, <2>4 DEF Served, ClosesSettled
  <2> QED
    BY <2>3, <2>5, <1>7 DEF Settled, Progress
<1>12. ASSUME NEW g \in Hosts, NEW t \in 1..Len(thr'[g])
       PROVE  Answering(g, t)'
  <2>1. CASE g = h /\ t = Len(thr[h]) + 1
    BY <2>1, <1>3, <1>8 DEF Answering
  <2>2. CASE ~(g = h /\ t = Len(thr[h]) + 1)
    <3>1. t \in 1..Len(thr[g]) /\ thr'[g][t] = thr[g][t]
      BY <2>2, <1>8
    <3> QED
      BY <3>1, <1>1, <1>3, <1>7, AnsweringKept DEF Served
  <2> QED
    BY <2>1, <2>2
<1> QED
  BY <1>9, <1>10, <1>11, <1>12 DEF Served

LEMMA ServedAcceptError ==
  ASSUME IInv, Served, NEW h \in Hosts, AcceptError(h)
  PROVE  Served'
<1>1. TypeOK /\ Indices
  BY DEF IInv
<1>2. /\ SpawnHandler(h, 0) /\ spc[h] # "exit1"
      /\ UNCHANGED <<conns, acc, cpc, leg, cur, echo>>
  BY DEF AcceptError, loopVars
<1>3. Progress
  BY <1>2 DEF Progress
<1>4. /\ Len(thr'[h]) = Len(thr[h]) + 1 /\ Len(thr[h]) \in Nat
      /\ thr'[h][Len(thr[h]) + 1].fd = 0
      /\ \A t \in 1..Len(thr[h]) : thr'[h][t] = thr[h][t]
      /\ \A g \in Hosts \ {h} : thr'[g] = thr[g] /\ spc'[g] = spc[g]
  <2>1. 0 \in Nat
    OBVIOUS
  <2>2. /\ Len(thr'[h]) = Len(thr[h]) + 1 /\ Len(thr[h]) \in Nat
        /\ thr'[h][Len(thr[h]) + 1] =
             [fd |-> 0, pc |-> IF echo THEN "recv" ELSE "send"]
        /\ \A t \in 1..Len(thr[h]) : thr'[h][t] = thr[h][t]
        /\ \A g \in Hosts \ {h} : thr'[g] = thr[g] /\ spc'[g] = spc[g]
    BY <1>1, <1>2, <2>1, Spawned, Zenon
  <2> QED
    BY <2>2
<1>5. Unsent'
  BY <1>1, <1>2, ServerUnsent DEF Served
<1>6. ASSUME NEW g \in Hosts PROVE Attended(g)' /\ ClosesSettled(g)'
  <2>1. Attended(g) /\ ClosesSettled(g)
    BY DEF Served
  <2>2. Attended(g)'
    <3>1. CASE g = h
      <4>1. ASSUME NEW i \in 1..acc[h]
            PROVE  \E t \in 1..Len(thr'[h]) : thr'[h][t].fd = i
        <5>1. PICK t \in 1..Len(thr[h]) : thr[h][t].fd = i
          BY <2>1, <3>1 DEF Attended
        <5>2. t \in 1..Len(thr'[h]) /\ thr'[h][t] = thr[h][t]
          BY <1>4
        <5> QED
          BY <5>1, <5>2
      <4>2. acc' = acc
        BY <1>2
      <4> QED
        BY <3>1, <4>1, <4>2 DEF Attended
    <3>2. CASE g # h
      BY <2>1, <3>2, <1>2, <1>4 DEF Attended
    <3> QED
      BY <3>1, <3>2
  <2>3. ClosesSettled(g)'
    BY <2>1, <1>2, <1>4 DEF ClosesSettled, Settled
  <2> QED
    BY <2>2, <2>3
<1>7. ASSUME NEW g \in Hosts, NEW t \in 1..Len(thr'[g])
      PROVE  Answering(g, t)'
  <2>1. CASE g = h /\ t = Len(thr[h]) + 1
    BY <2>1, <1>4 DEF Answering
  <2>2. CASE ~(g = h /\ t = Len(thr[h]) + 1)
    <3>1. t \in 1..Len(thr[g]) /\ thr'[g][t] = thr[g][t]
      BY <2>2, <1>4
    <3> QED
      BY <3>1, <1>1, <1>2, <1>3, AnsweringKept DEF Served
  <2> QED
    BY <2>1, <2>2
<1> QED
  BY <1>5, <1>6, <1>7 DEF Served

\* A step of handler t keeps the others and changes its connection only.
LEMMA ServedHandler ==
  ASSUME IInv, Served, NEW h \in Hosts, NEW t \in 1..Len(thr[h]),
         NEW n \in 0..Len(conns[h]), NEW c, NEW e,
         ConnsSet(h, n, c), ThrSet(h, t, e), e.fd = thr[h][t].fd,
         UNCHANGED <<spc, acc, cpc, leg, cur, echo>>,
         n \in 1..Len(conns[h]) =>
           /\ conns[h][n].req = c.req
           /\ conns[h][n].rep => c.rep
           /\ conns[h][n].cl = "closed" => c.cl = "closed"
           /\ c.sv = "closed" /\ n \in 1..acc[h] =>
                c.rep \/ c.cl = "closed" \/ conns[h][n].sv = "closed",
         Answering(h, t)'
  PROVE  Served'
<1>1. TypeOK /\ Indices
  BY DEF IInv
<1>2. Progress
  BY SetProgress
<1>3. Unsent'
  <2>1. \A g \in Hosts : \A i \in 1..Len(conns[g]) :
          conns'[g][i].req = conns[g][i].req
    BY DEF ConnsSet
  <2> QED
    BY <1>1, <2>1, ServerUnsent DEF Served
<1>4. ASSUME NEW g \in Hosts PROVE Attended(g)'
  <2>1. /\ Len(thr'[g]) = Len(thr[g])
        /\ \A u \in 1..Len(thr[g]) : thr'[g][u].fd = thr[g][u].fd
    BY DEF ThrSet
  <2>2. \A i \in 1..acc[g] : \E u \in 1..Len(thr[g]) : thr[g][u].fd = i
    BY DEF Served, Attended
  <2>3. \A i \in 1..acc[g] : \E u \in 1..Len(thr[g]) : thr'[g][u].fd = i
    BY <2>1, <2>2, Zenon
  <2> QED
    BY <2>1, <2>3 DEF Attended
<1>5. ASSUME NEW g \in Hosts PROVE ClosesSettled(g)'
  <2> SUFFICES ASSUME spc[g] # "exit1", NEW i \in 1..acc[g],
                      conns'[g][i].sv = "closed"
               PROVE  Settled(g, i)'
    BY DEF ClosesSettled
  <2>1. i \in 1..Len(conns[g])
    BY <1>1, Numbers
  <2>2. CASE conns[g][i].sv = "closed"
    <3>1. Settled(g, i)
      BY <2>2 DEF Served, ClosesSettled
    <3> QED
      BY <3>1, <2>1, <1>2 DEF Settled, Progress
  <2>3. CASE conns[g][i].sv # "closed"
    <3>1. g = h /\ i = n /\ conns'[g][i] = c
      BY <2>1, <2>3 DEF ConnsSet
    <3> QED
      BY <2>1, <2>3, <3>1 DEF Settled
  <2> QED
    BY <2>2, <2>3
<1>6. ASSUME NEW g \in Hosts, NEW u \in 1..Len(thr'[g])
      PROVE  Answering(g, u)'
  <2>1. u \in 1..Len(thr[g])
    BY DEF ThrSet
  <2>2. CASE ~(g = h /\ u = t)
    <3>1. thr'[g][u] = thr[g][u]
      BY <2>1, <2>2 DEF ThrSet
    <3> QED
      BY <2>1, <3>1, <1>1, <1>2, AnsweringKept DEF Served
  <2> QED
    BY <2>2
<1> QED
  BY <1>3, <1>4, <1>5, <1>6 DEF Served

LEMMA ServedHandlerRecv ==
  ASSUME IInv, Served, NEW h \in Hosts, NEW t, HandlerRecv(h, t)
  PROVE  Served'
<1> DEFINE n == thr[h][t].fd
           e == [fd |-> n, pc |-> "send"]
<1>1. HandlerAt(h, t, "recv") /\ HandlerGoes(h, t, "send")
  BY DEF HandlerRecv
<1>2. TypeOK /\ t \in 1..Len(thr[h]) /\ n \in 1..Len(conns[h])
  BY <1>1, HandlerFacts DEF HandlerRecv
<1>3. ConnsSet(h, n, conns[h][n])
  BY <1>2, KeepConns DEF HandlerRecv
<1>4. ThrSet(h, t, e) /\ e.fd = n
  BY <1>1, <1>2, GoesTo
<1>5. thr'[h][t] = e /\ UNCHANGED <<spc, acc, cpc, leg, cur, echo, conns>>
  BY <1>2, <1>4 DEF ThrSet, HandlerRecv, loopVars
<1>6. Answering(h, t)'
  BY <1>5 DEF Answering, HandlerRecv, HandlerFd, RecvReady
<1> HIDE DEF e, n
<1>7. n \in 0..Len(conns[h]) /\ e.fd = thr[h][t].fd
  BY <1>2, <1>4 DEF n
<1> QED
  BY <1>2, <1>3, <1>4, <1>5, <1>6, <1>7, ServedHandler

LEMMA ServedHandlerSend ==
  ASSUME IInv, Served, NEW h \in Hosts, NEW t, HandlerSend(h, t)
  PROVE  Served'
<1> DEFINE n == thr[h][t].fd
           e == [fd |-> n, pc |-> "close"]
           k == conns[h][n]
           c == IF n # 0 /\ k.cl = "open" /\ (echo => k.req)
                THEN [k EXCEPT !.rep = TRUE] ELSE k
<1>1. HandlerAt(h, t, "send") /\ HandlerGoes(h, t, "close")
  BY DEF HandlerSend
<1>2. /\ TypeOK /\ Indices /\ t \in 1..Len(thr[h]) /\ n \in 0..Len(conns[h])
      /\ n # 0 => k \in Conn
      /\ HandlerFd(h, t) = n /\ thr[h][t].pc = "send"
  BY <1>1, HandlerFacts DEF HandlerAt
<1>3. ConnsSet(h, n, c)
  <2>1. CASE n # 0 /\ k.cl = "open" /\ (echo => k.req)
    <3>1. conns' = [conns EXCEPT ![h] = [conns[h] EXCEPT ![n] = c]]
      BY <1>2, <2>1 DEF HandlerSend
    <3>2. n \in 1..Len(conns[h]) /\ k \in Conn
      BY <1>2, <2>1 DEF TypeOK
    <3>3. [k EXCEPT !.rep = TRUE] \in Conn
      BY <3>2 DEF Conn
    <3>4. c = [k EXCEPT !.rep = TRUE]
      BY <2>1
    <3> QED
      BY ZenonT(60), <1>2, <3>1, <3>2, <3>3, <3>4, SetConns
  <2>2. CASE ~(n # 0 /\ k.cl = "open" /\ (echo => k.req))
    BY <1>2, <2>2, KeepConns DEF HandlerSend
  <2> QED
    BY <2>1, <2>2
<1>4. ThrSet(h, t, e) /\ e.fd = n
  BY <1>1, <1>2, GoesTo
<1>5. thr'[h][t] = e /\ UNCHANGED <<spc, acc, cpc, leg, cur, echo>>
  BY <1>2, <1>4 DEF ThrSet, HandlerSend, loopVars
<1>6. n # 0 => /\ c.req = k.req /\ c.sv = k.sv /\ c.cl = k.cl
               /\ k.rep => c.rep
  BY SMTT(60), <1>2 DEF Conn
\* A connection the handler sends nothing on is one the peer has closed.
<1>7. n # 0 => c.rep \/ c.cl = "closed"
  <2> SUFFICES ASSUME n # 0, k.cl # "closed"
               PROVE  c.rep
    BY <1>6
  <2>1. Answering(h, t)
    BY <1>2 DEF Served
  <2>2. k.cl = "open" /\ (echo => k.req)
    BY <1>2, <2>1 DEF Answering, Conn
  <2>3. c = [k EXCEPT !.rep = TRUE]
    BY <2>2
  <2> QED
    BY SMTT(60), <1>2, <2>3 DEF Conn
<1>8. Answering(h, t)'
  <2> HIDE DEF c
  <2>1. n # 0 => conns'[h][n] = c
    <3>1. n # 0 => n \in 1..Len(conns[h])
      BY <1>2, Numbers
    <3> QED
      BY <3>1, <1>3 DEF ConnsSet
  <2> QED
    BY <1>5, <1>7, <2>1 DEF Answering, Settled
<1> HIDE DEF e, n, c
<1>9. e.fd = thr[h][t].fd
  BY <1>4 DEF n
<1>10. n \in 1..Len(conns[h]) =>
         /\ k.req = c.req
         /\ k.rep => c.rep
         /\ k.cl = "closed" => c.cl = "closed"
         /\ c.sv = "closed" /\ n \in 1..acc[h] =>
              c.rep \/ c.cl = "closed" \/ k.sv = "closed"
  BY <1>6
<1> QED
  BY <1>2, <1>3, <1>4, <1>5, <1>8, <1>9, <1>10, ServedHandler

LEMMA ServedHandlerClose ==
  ASSUME IInv, Served, NEW h \in Hosts, NEW t, HandlerClose(h, t)
  PROVE  Served'
<1> DEFINE n == thr[h][t].fd
           e == [fd |-> n, pc |-> "done"]
           k == conns[h][n]
           c == IF n # 0 THEN [k EXCEPT !.sv = "closed"] ELSE k
<1>1. HandlerAt(h, t, "close") /\ HandlerGoes(h, t, "done")
  BY DEF HandlerClose
<1>2. /\ TypeOK /\ Indices /\ t \in 1..Len(thr[h]) /\ n \in 0..Len(conns[h])
      /\ n # 0 => k \in Conn
      /\ HandlerFd(h, t) = n /\ thr[h][t].pc = "close"
  BY <1>1, HandlerFacts DEF HandlerAt
<1>3. ConnsSet(h, n, c)
  <2>1. CASE n # 0
    <3>1. conns' = [conns EXCEPT ![h] = [conns[h] EXCEPT ![n] = c]]
      BY <1>2, <2>1 DEF HandlerClose
    <3>2. n \in 1..Len(conns[h]) /\ k \in Conn
      BY <1>2, <2>1 DEF TypeOK
    <3>3. [k EXCEPT !.sv = "closed"] \in Conn
      BY <3>2 DEF Conn
    <3>4. c = [k EXCEPT !.sv = "closed"]
      BY <2>1
    <3> QED
      BY <1>2, <3>1, <3>2, <3>3, <3>4, SetConns
  <2>2. CASE n = 0
    BY <1>2, <2>2, KeepConns DEF HandlerClose
  <2> QED
    BY <2>1, <2>2
<1>4. ThrSet(h, t, e) /\ e.fd = n
  BY <1>1, <1>2, GoesTo
<1>5. thr'[h][t] = e /\ UNCHANGED <<spc, acc, cpc, leg, cur, echo>>
  BY <1>2, <1>4 DEF ThrSet, HandlerClose, loopVars
<1>6. n # 0 => c.req = k.req /\ c.cl = k.cl /\ c.rep = k.rep
  BY <1>2 DEF Conn
<1>7. n # 0 => c.rep \/ c.cl = "closed"
  <2>1. Answering(h, t)
    BY <1>2 DEF Served
  <2> QED
    BY <1>2, <1>6, <2>1 DEF Answering, Settled
<1>8. Answering(h, t)'
  <2> HIDE DEF c
  <2>1. n # 0 => conns'[h][n] = c
    <3>1. n # 0 => n \in 1..Len(conns[h])
      BY <1>2, Numbers
    <3> QED
      BY <3>1, <1>3 DEF ConnsSet
  <2> QED
    BY <1>5, <1>7, <2>1 DEF Answering, Settled
<1> HIDE DEF e, n, c
<1>9. e.fd = thr[h][t].fd
  BY <1>4 DEF n
<1>10. n \in 1..Len(conns[h]) =>
         /\ k.req = c.req
         /\ k.rep => c.rep
         /\ k.cl = "closed" => c.cl = "closed"
         /\ c.sv = "closed" /\ n \in 1..acc[h] =>
              c.rep \/ c.cl = "closed" \/ k.sv = "closed"
  BY <1>6, <1>7
<1> QED
  BY <1>2, <1>3, <1>4, <1>5, <1>8, <1>9, <1>10, ServedHandler

\* The end of a server process closes what is left of its connections.
LEMMA SeveredFacts ==
  ASSUME TypeOK, NEW h \in Hosts, SeverAll(h)
  PROVE  /\ Progress
         /\ \A g \in Hosts : \A i \in 1..Len(conns[g]) :
              /\ conns'[g][i].req = conns[g][i].req
              /\ g # h => conns'[g][i].sv = conns[g][i].sv
<1>1. /\ \A i \in 1..Len(conns[h]) : conns'[h][i] = Severed(h, i)
      /\ \A g \in Hosts \ {h} : conns'[g] = conns[g]
  BY SeveredConns
<1>2. ASSUME NEW i \in 1..Len(conns[h])
      PROVE  /\ Severed(h, i).req = conns[h][i].req
             /\ Severed(h, i).rep = conns[h][i].rep
             /\ Severed(h, i).cl = conns[h][i].cl
  <2>1. conns[h][i] \in Conn
    BY DEF TypeOK
  <2> QED
    BY <2>1 DEF Severed, Conn
<1> QED
  BY <1>1, <1>2 DEF Progress

\* A server that ends keeps what is said of the other one and of its handlers.
LEMMA ServedEnd ==
  ASSUME IInv, Served, NEW h \in Hosts, NEW to \in {"exit0", "exit1"},
         spc' = [spc EXCEPT ![h] = to], SeverAll(h),
         UNCHANGED <<acc, thr, cpc, leg, cur, echo>>,
         to = "exit0" => \A i \in 1..acc[h] : Settled(h, i)
  PROVE  Served'
<1>1. TypeOK /\ Indices
  BY DEF IInv
<1>2. /\ Progress
      /\ \A g \in Hosts : \A i \in 1..Len(conns[g]) :
           /\ conns'[g][i].req = conns[g][i].req
           /\ g # h => conns'[g][i].sv = conns[g][i].sv
  BY <1>1, SeveredFacts
<1>3. spc'[h] = to /\ \A g \in Hosts \ {h} : spc'[g] = spc[g]
  BY <1>1 DEF TypeOK
<1>4. Unsent'
  BY <1>1, <1>2, ServerUnsent DEF Served
<1>5. ASSUME NEW g \in Hosts PROVE Attended(g)'
  BY DEF Served, Attended
<1>6. ASSUME NEW g \in Hosts PROVE ClosesSettled(g)'
  <2> SUFFICES ASSUME spc'[g] # "exit1", NEW i \in 1..acc[g],
                      conns'[g][i].sv = "closed"
               PROVE  Settled(g, i)'
    BY DEF ClosesSettled
  <2>1. i \in 1..Len(conns[g])
    BY <1>1, Numbers
  <2>2. Settled(g, i)
    <3>1. CASE g = h
      BY <3>1, <1>3
    <3>2. CASE g # h
      BY <3>2, <2>1, <1>2, <1>3 DEF Served, ClosesSettled
    <3> QED
      BY <3>1, <3>2
  <2> QED
    BY <2>1, <2>2, <1>2 DEF Settled, Progress
<1>7. ASSUME NEW g \in Hosts, NEW t \in 1..Len(thr[g]) PROVE Answering(g, t)'
  BY <1>1, <1>2, AnsweringKept DEF Served
<1> QED
  BY <1>4, <1>5, <1>6, <1>7 DEF Served

LEMMA ServedRecvError ==
  ASSUME IInv, Served, NEW h \in Hosts, NEW t, HandlerRecvError(h, t)
  PROVE  Served'
BY ServedEnd DEF HandlerRecvError, loopVars

\* The joins are what makes exit() safe: each accepted connection has a handler,
\* which is done, so it is settled.
LEMMA ServedJoinAndExit ==
  ASSUME IInv, Served, NEW h \in Hosts, JoinAndExit(h)
  PROVE  Served'
<1>1. TypeOK /\ Indices
  BY DEF IInv
<1>2. ASSUME NEW i \in 1..acc[h] PROVE Settled(h, i)
  <2>1. PICK t \in 1..Len(thr[h]) : thr[h][t].fd = i
    BY DEF Served, Attended
  <2>2. thr[h][t].pc = "done"
    <3>1. DOMAIN thr[h] = 1..Len(thr[h])
      BY <1>1 DEF TypeOK
    <3> QED
      BY <3>1 DEF JoinAndExit
  <2>3. i # 0
    BY <1>1, Numbers
  <2>4. Answering(h, t)
    BY DEF Served
  <2> QED
    BY <2>1, <2>2, <2>3, <2>4 DEF Answering
<1> QED
  BY <1>2, ServedEnd DEF JoinAndExit, loopVars

LEMMA StepServed == IInv /\ Served /\ [Next]_vars => Served'
<1> SUFFICES ASSUME IInv, Served, [Next]_vars
             PROVE  Served'
  OBVIOUS
<1>1. CASE Client
  BY <1>1, ServedConnect, ServedWithout, ServedClientSend, ServedClientRecv
     DEF Client
<1>2. ASSUME NEW h \in Hosts, ServerMain(h) \/ Stray(h) PROVE Served'
  BY <1>2, ServedStart, ServedAccept, ServedAcceptError, ServedJoinAndExit,
     ServedStray DEF ServerMain
<1>3. ASSUME NEW h \in Hosts, NEW t \in DOMAIN thr[h], Handler(h, t)
      PROVE  Served'
  BY <1>3, ServedHandlerRecv, ServedRecvError, ServedHandlerSend,
     ServedHandlerClose DEF Handler
<1>4. CASE UNCHANGED vars
  BY <1>4 DEF vars, Served, Attended, ClosesSettled, Answering, Settled, Unsent
<1>5. CASE Finished
  BY <1>4, <1>5 DEF Finished
<1> QED
  BY <1>1, <1>2, <1>3, <1>4, <1>5 DEF Next

\* Whatever accepts and connects fail and whoever strays to the port, a server
\* that is not ended by exit(1) never closes, by a handler or by its own end, an
\* accepted connection whose client still waits for the reply.
THEOREM ClosesAfterReply == Spec => []ClosedOnlyAfterReply
<1>1. Served => ClosedOnlyAfterReply
  BY DEF Served, ClosesSettled, Settled, ClosedOnlyAfterReply
<1> QED
  BY <1>1, Invariance, InitServed, StepServed, PTL DEF Spec
=============================================================================
