-------------------------- MODULE ConnBenchProofs ---------------------------
(***************************************************************************)
(* The connection benchmarks for any set of clients, N_RUNS, ports, queue  *)
(* length, descriptor limit and number of failures: the server's balance   *)
(* of descriptors, which keeps it in its loop, and what the samples time.  *)
(***************************************************************************)
EXTENDS ConnBench, TLAPS

\* The server holds one connection between accept and close, none elsewhere,
\* and leaves its loop only after a failure.
Balance ==
  /\ fds = IF srv = "close" THEN 1 ELSE 0
  /\ faults = 0 => srv # "exit1"

\* No client begins before the server listens; one that is done took N_RUNS
\* samples and one that is not, also one that had to exit, has fewer.
Samples ==
  \A c \in Clients :
    /\ srv = "start" => pc[c] = "start"
    /\ pc[c] = "start" => m_vals[c] = <<>>
    /\ pc[c] = "done" => Len(m_vals[c]) = N_RUNS
    /\ pc[c] # "done" => Len(m_vals[c]) < N_RUNS

\* Until the server exits, a client of the server's port that is about to close
\* is connected, and so was it at each of its samples; no other ever is.
Established ==
  \A c \in Clients :
    /\ up[c] => pc[c] = "close" /\ SamePort(c)
    /\ srv # "exit1" /\ SamePort(c) /\ pc[c] = "close" => up[c]
    /\ srv # "exit1" /\ SamePort(c) => \A k \in DOMAIN m_vals[c] : m_vals[c][k]
    /\ ~SamePort(c) => \A k \in DOMAIN m_vals[c] : ~m_vals[c][k]

IInv == TypeOK /\ Balance /\ Samples /\ Established

LEMMA Constants ==
  /\ N_RUNS \in Nat /\ N_RUNS > 0
  /\ Backlog \in Nat /\ Backlog > 0
  /\ FdLimit \in Nat /\ FdLimit > 0
  /\ MaxFaults \in Nat
BY ConnAssumption

LEMMA InitIInv == Init => IInv
BY Constants DEF Init, IInv, TypeOK, Balance, Samples, Established

\* What Append does to a list of samples.
LEMMA AppendSample ==
  ASSUME NEW s \in Seq(BOOLEAN), NEW b \in BOOLEAN
  PROVE  /\ Append(s, b) \in Seq(BOOLEAN)
         /\ Len(Append(s, b)) = Len(s) + 1
         /\ \A k \in DOMAIN Append(s, b) :
              Append(s, b)[k] = IF k \in DOMAIN s THEN s[k] ELSE b
OBVIOUS

LEMMA NextIInv == IInv /\ [Next]_vars => IInv'
<1> SUFFICES ASSUME IInv, [Next]_vars
             PROVE  IInv'
  OBVIOUS
<1> USE Constants
<1>t. TypeOK /\ Balance /\ Samples /\ Established
  BY DEF IInv
<1>1. CASE ServerStart
  <2>1. TypeOK'
    BY <1>t, <1>1
       DEF ServerStart, TypeOK, Balance
  <2>2. Balance'
    BY <1>t, <1>1
       DEF ServerStart, TypeOK, Balance
  <2>3. Samples'
    BY <1>t, <1>1
       DEF ServerStart, TypeOK, Samples
  <2>4. Established'
    BY <1>t, <1>1
       DEF ServerStart, TypeOK, Established, SamePort, Samples
  <2> QED
    BY <2>1, <2>2, <2>3, <2>4 DEF IInv
<1>2. CASE Accept
  <2>1. TypeOK'
    BY <1>t, <1>2
       DEF Accept, TypeOK, Balance
  <2>2. Balance'
    BY <1>t, <1>2
       DEF Accept, TypeOK, Balance
  <2>3. Samples'
    BY <1>t, <1>2
       DEF Accept, TypeOK, Samples
  <2>4. Established'
    BY <1>t, <1>2
       DEF Accept, TypeOK, Established, SamePort, Samples
  <2> QED
    BY <2>1, <2>2, <2>3, <2>4 DEF IInv
<1>3. CASE AcceptFails
  <2>1. TypeOK'
    BY <1>t, <1>3
       DEF AcceptFails, TypeOK, Balance
  <2>2. Balance'
    BY <1>t, <1>3
       DEF AcceptFails, TypeOK, Balance
  <2>3. Samples'
    BY <1>t, <1>3
       DEF AcceptFails, TypeOK, Samples
  <2>4. Established'
    BY <1>t, <1>3
       DEF AcceptFails, TypeOK, Established, SamePort, Samples
  <2> QED
    BY <2>1, <2>2, <2>3, <2>4 DEF IInv
<1>4. CASE CloseAccepted
  <2>1. TypeOK'
    BY <1>t, <1>4
       DEF CloseAccepted, TypeOK, Balance, FdsLeft
  <2>2. Balance'
    BY <1>t, <1>4
       DEF CloseAccepted, TypeOK, Balance, FdsLeft
  <2>3. Samples'
    BY <1>t, <1>4
       DEF CloseAccepted, TypeOK, Samples, FdsLeft
  <2>4. Established'
    BY <1>t, <1>4
       DEF CloseAccepted, TypeOK, Established, SamePort, Samples, FdsLeft
  <2> QED
    BY <2>1, <2>2, <2>3, <2>4 DEF IInv
<1>5. ASSUME NEW c \in Clients, Begin(c) PROVE IInv'
  <2>1. TypeOK'
    BY <1>t, <1>5
       DEF Begin, TypeOK, Balance, srvVars
  <2>2. Balance'
    BY <1>t, <1>5
       DEF Begin, TypeOK, Balance, srvVars
  <2>3. Samples'
    BY <1>t, <1>5
       DEF Begin, TypeOK, Samples, srvVars
  <2>4. Established'
    BY <1>t, <1>5
       DEF Begin, TypeOK, Established, SamePort, Samples, srvVars
  <2> QED
    BY <2>1, <2>2, <2>3, <2>4 DEF IInv
<1>6. ASSUME NEW c \in Clients, Connect(c) PROVE IInv'
  <2>1. TypeOK'
    BY <1>t, <1>6
       DEF Connect, TypeOK, Balance, Reaches, Listening
  <2>2. Balance'
    BY <1>t, <1>6
       DEF Connect, TypeOK, Balance
  <2>3. Samples'
    BY <1>t, <1>6
       DEF Connect, TypeOK, Samples
  <2>4. Established'
    BY <1>t, <1>6
       DEF Connect, TypeOK, Established, SamePort, Samples, Reaches, Listening
  <2> QED
    BY <2>1, <2>2, <2>3, <2>4 DEF IInv
<1>7. ASSUME NEW c \in Clients, ConnectRefused(c) PROVE IInv'
  <2>1. TypeOK'
    BY <1>t, <1>7
       DEF ConnectRefused, TypeOK, Balance, srvVars, Reaches, Listening
  <2>2. Balance'
    BY <1>t, <1>7
       DEF ConnectRefused, TypeOK, Balance, srvVars
  <2>3. Samples'
    BY <1>t, <1>7
       DEF ConnectRefused, TypeOK, Samples, srvVars
  <2>4. Established'
    BY <1>t, <1>7
       DEF ConnectRefused, TypeOK, Balance, Established, SamePort, Samples,
           srvVars, Reaches, Listening
  <2> QED
    BY <2>1, <2>2, <2>3, <2>4 DEF IInv
<1>8. ASSUME NEW c \in Clients, CloseAndSample(c) PROVE IInv'
  <2>1. /\ m_vals[c] \in Seq(BOOLEAN) /\ up[c] \in BOOLEAN
        /\ Len(m_vals[c]) \in Nat
    BY <1>t DEF TypeOK
  <2> DEFINE new == Append(m_vals[c], up[c])
  <2>2. /\ new \in Seq(BOOLEAN)
        /\ Len(new) = Len(m_vals[c]) + 1
        /\ \A k \in DOMAIN new :
             new[k] = IF k \in DOMAIN m_vals[c] THEN m_vals[c][k] ELSE up[c]
    BY <2>1, AppendSample
  <2>3. m_vals' = [m_vals EXCEPT ![c] = new]
    BY <1>8 DEF CloseAndSample
  <2> HIDE DEF new
  <2>4. TypeOK'
    BY <1>t, <1>8, <2>1, <2>2, <2>3
       DEF CloseAndSample, TypeOK, Balance, srvVars
  <2>5. Balance'
    BY <1>t, <1>8, <2>1, <2>2, <2>3
       DEF CloseAndSample, TypeOK, Balance, srvVars
  <2>6. Samples'
    BY <1>t, <1>8, <2>1, <2>2, <2>3
       DEF CloseAndSample, TypeOK, Samples, srvVars
  <2>7. Established'
    BY <1>t, <1>8, <2>1, <2>2, <2>3
       DEF CloseAndSample, TypeOK, Established, SamePort, Samples, srvVars
  <2> QED
    BY <2>4, <2>5, <2>6, <2>7 DEF IInv
<1>9. ASSUME NEW c \in Clients, OpenSocket(c) PROVE IInv'
  <2>1. TypeOK'
    BY <1>t, <1>9
       DEF OpenSocket, TypeOK, Balance, srvVars
  <2>2. Balance'
    BY <1>t, <1>9
       DEF OpenSocket, TypeOK, Balance, srvVars
  <2>3. Samples'
    BY <1>t, <1>9
       DEF OpenSocket, TypeOK, Samples, srvVars
  <2>4. Established'
    BY <1>t, <1>9
       DEF OpenSocket, TypeOK, Established, SamePort, Samples, srvVars
  <2> QED
    BY <2>1, <2>2, <2>3, <2>4 DEF IInv
<1>10. ASSUME NEW c \in Clients, SocketFails(c) PROVE IInv'
  <2>1. TypeOK'
    BY <1>t, <1>10
       DEF SocketFails, TypeOK, Balance, srvVars
  <2>2. Balance'
    BY <1>t, <1>10
       DEF SocketFails, TypeOK, Balance, srvVars
  <2>3. Samples'
    BY <1>t, <1>10
       DEF SocketFails, TypeOK, Samples, srvVars
  <2>4. Established'
    BY <1>t, <1>10
       DEF SocketFails, TypeOK, Established, SamePort, Samples, srvVars
  <2> QED
    BY <2>1, <2>2, <2>3, <2>4 DEF IInv
<1>11. CASE Idle \/ UNCHANGED vars
  BY <1>t, <1>11
     DEF Idle, vars, IInv, TypeOK, Balance, Samples, Established, SamePort
<1> QED
  BY <1>1, <1>2, <1>3, <1>4, <1>5, <1>6, <1>7, <1>8, <1>9,
     <1>10, <1>11 DEF Next, Server, Client

\* The control states, the queue and the descriptors stay in their ranges.
THEOREM Typing == Spec => []TypeOK
<1>1. IInv => TypeOK
  BY DEF IInv
<1> QED
  BY <1>1, InitIInv, NextIInv, PTL DEF Spec

\* However many connections it serves and however little it may hold open,
\* the server is in its loop as long as no system call failed by itself.
THEOREM ServerNeverLeaves == Spec => []ServerStays
<1>1. IInv => ServerStays
  BY DEF IInv, Balance, ServerStays
<1> QED
  BY <1>1, InitIInv, NextIInv, PTL DEF Spec

\* Each sample of a client with the server's port is of a connection that was
\* established, as long as no call of the server failed and ended it; no sample
\* of any other client is.
THEOREM SamplesByPort == Spec => []SamplesAreConnections
<1>1. IInv => SamplesAreConnections
  BY DEF IInv, TypeOK, Balance, Established, SamplesAreConnections
<1> QED
  BY <1>1, InitIInv, NextIInv, PTL DEF Spec

\* A client with any other port (the remote rules) never has a connection,
\* and still it ends with N_RUNS samples, each of a refused connect().
THEOREM OtherPortSamples ==
  Spec => [](\A c \in Clients :
               /\ pc[c] = "done" => Len(m_vals[c]) = N_RUNS
               /\ ~SamePort(c) =>
                    ~up[c] /\ \A k \in DOMAIN m_vals[c] : ~m_vals[c][k])
<1> DEFINE Inv == \A c \in Clients :
                    /\ pc[c] = "done" => Len(m_vals[c]) = N_RUNS
                    /\ ~SamePort(c) =>
                         ~up[c] /\ \A k \in DOMAIN m_vals[c] : ~m_vals[c][k]
<1>1. IInv => Inv
  BY DEF IInv, TypeOK, Samples, Established
<1> QED
  BY <1>1, InitIInv, NextIInv, PTL DEF Spec

=============================================================================
