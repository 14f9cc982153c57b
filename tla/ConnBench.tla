----------------------------- MODULE ConnBench ------------------------------
(***************************************************************************)
(* The connection-overhead benchmarks (src/src/Network/client_setup.cpp,   *)
(* client_teardown.cpp) and the accept-and-close server they are run       *)
(* against (server.cpp), with the ports the Makefile gives them.  A client *)
(* makes N_RUNS connections one after the other and never waits for the    *)
(* server to accept them, so the listen queue fills at the server's pace.  *)
(***************************************************************************)
EXTENDS Integers, Sequences

CONSTANTS
  Clients,     \* client processes running at the same time
  N_RUNS,      \* connections, and samples, of each (100)
  ServerPort,  \* src/src/Makefile:102
  PortOf,      \* PortOf[c]: Makefile:106, 110 (loopback), 114, 118 (remote)
  Backlog,     \* connections the listen queue takes: listen(sock_fd, 10)
  FdLimit,     \* connections the server process may hold open
  MaxFaults    \* how often a call of the server may fail by itself

ASSUME ConnAssumption ==
  /\ N_RUNS \in Nat \ {0}
  /\ PortOf \in [Clients -> Nat]
  /\ ServerPort \in Nat
  /\ Backlog \in Nat \ {0}
  /\ FdLimit \in Nat \ {0}
  /\ MaxFaults \in Nat

VARIABLES
  srv,       \* control state of the server
  queue,     \* established connections it has not accepted
  fds,       \* accepted connections it holds open
  pc,        \* control state of each client
  up,        \* up[c]: the client's socket is connected
  m_vals,    \* what each sample of a client timed
  faults     \* failed calls of the server so far

vars == <<srv, queue, fds, pc, up, m_vals, faults>>
srvVars == <<srv, queue, fds>>

Init ==
  /\ srv = "start"
  /\ queue = 0
  /\ fds = 0
  /\ pc = [c \in Clients |-> "start"]
  /\ up = [c \in Clients |-> FALSE]
  /\ m_vals = [c \in Clients |-> <<>>]
  /\ faults = 0

Listening == srv \in {"accept", "close"}

-----------------------------------------------------------------------------
(* server.cpp *)

\* socket, bind, listen; exit(EXIT_FAILURE) if one of them fails.
ServerStart ==
  /\ srv = "start"
  /\ \/ srv' = "accept" /\ UNCHANGED faults
     \/ faults < MaxFaults /\ faults' = faults + 1 /\ srv' = "exit1"
  /\ UNCHANGED <<queue, fds, pc, up, m_vals>>

Accept ==
  /\ srv = "accept"
  /\ queue > 0
  /\ fds < FdLimit
  /\ queue' = queue - 1
  /\ fds' = fds + 1
  /\ srv' = "close"
  /\ UNCHANGED <<pc, up, m_vals, faults>>

\* exit(EXIT_FAILURE): what was queued is reset.
AcceptFails ==
  /\ srv = "accept"
  /\ fds < FdLimit => faults < MaxFaults
  /\ faults' = IF fds < FdLimit THEN faults + 1 ELSE faults
  /\ srv' = "exit1"
  /\ queue' = 0
  /\ fds' = 0
  /\ UNCHANGED <<pc, up, m_vals>>

FdsLeftOpen == fds        \* mutant: no close(newsock_fd)
FdsLeftTwice == fds - 2   \* mutant: closed twice
FdsLeft == fds - 1

CloseAccepted ==
  /\ srv = "close"
  /\ fds' = FdsLeft
  /\ srv' = "accept"
  /\ UNCHANGED <<queue, pc, up, m_vals, faults>>

Server == ServerStart \/ Accept \/ AcceptFails \/ CloseAccepted

-----------------------------------------------------------------------------
(* client_setup.cpp, client_teardown.cpp *)

\* README: the server is started first.
Begin(c) ==
  /\ pc[c] = "start"
  /\ srv # "start"
  /\ pc' = [pc EXCEPT ![c] = "socket"]
  /\ UNCHANGED <<srvVars, up, m_vals, faults>>

OpenSocket(c) ==
  /\ pc[c] = "socket"
  /\ pc' = [pc EXCEPT ![c] = "connect"]
  /\ UNCHANGED <<srvVars, up, m_vals, faults>>

\* socket() < 0: exit(EXIT_FAILURE), with nothing printed of the samples.
SocketFails(c) ==
  /\ pc[c] = "socket"
  /\ pc' = [pc EXCEPT ![c] = "exit1"]
  /\ UNCHANGED <<srvVars, up, m_vals, faults>>

SamePort(c) == PortOf[c] = ServerPort
Reaches(c) == Listening /\ SamePort(c)

\* connect() waits while the queue is full: the kernel repeats the SYN.
Connect(c) ==
  /\ pc[c] = "connect"
  /\ Reaches(c)
  /\ queue < Backlog
  /\ queue' = queue + 1
  /\ up' = [up EXCEPT ![c] = TRUE]
  /\ pc' = [pc EXCEPT ![c] = "close"]
  /\ UNCHANGED <<srv, fds, m_vals, faults>>

\* Mutant: the client tries again until the server answers.
ConnectRetried(c) == pc[c] = "connect" /\ ~Reaches(c) /\ UNCHANGED vars

\* connect() < 0: perror only; the sample is taken all the same.
ConnectRefused(c) ==
  /\ pc[c] = "connect"
  /\ ~Reaches(c)
  /\ pc' = [pc EXCEPT ![c] = "close"]
  /\ UNCHANGED <<srvVars, up, m_vals, faults>>

\* close(sock_fd), t.end() and the sample; run_func calls again or main ends.
CloseAndSample(c) ==
  /\ pc[c] = "close"
  /\ m_vals' = [m_vals EXCEPT ![c] = Append(@, up[c])]
  /\ up' = [up EXCEPT ![c] = FALSE]
  /\ pc' = [pc EXCEPT ![c] = IF Len(m_vals[c]) + 1 < N_RUNS THEN "socket"
                                                          ELSE "done"]
  /\ UNCHANGED <<srvVars, faults>>

Client(c) ==
  \/ Begin(c) \/ OpenSocket(c) \/ Connect(c) \/ ConnectRefused(c)
  \/ CloseAndSample(c)

\* The server waits in accept for ever once the clients are gone.
Idle ==
  /\ \A c \in Clients : pc[c] \in {"done", "exit1"}
  /\ (srv = "accept" /\ queue = 0) \/ srv = "exit1"
  /\ UNCHANGED vars

Next == Server \/ (\E c \in Clients : Client(c) \/ SocketFails(c)) \/ Idle

Spec == Init /\ [][Next]_vars

\* All the processes run; no call is obliged to fail.
FairSpec ==
  /\ Spec
  /\ WF_vars(ServerStart) /\ WF_vars(Accept) /\ WF_vars(CloseAccepted)
  /\ \A c \in Clients : WF_vars(Client(c))

-----------------------------------------------------------------------------
(* Properties *)

TypeOK ==
  /\ srv \in {"start", "accept", "close", "exit1"}
  /\ queue \in 0..Backlog
  /\ fds \in 0..FdLimit
  /\ pc \in [Clients -> {"start", "socket", "connect", "close", "done", "exit1"}]
  /\ up \in [Clients -> BOOLEAN]
  /\ m_vals \in [Clients -> Seq(BOOLEAN)]
  /\ faults \in 0..MaxFaults

\* The server serves any number of connections within its descriptors: unless
\* a system call fails by itself it never leaves its loop.
ServerStays == faults = 0 => srv # "exit1"

\* Every client finishes its runs, however full the queue is, whenever the
\* server dies and whatever its port; only its own socket() may end it before.
ClientsFinish == \A c \in Clients : <>(pc[c] \in {"done", "exit1"})

\* "Returns time to establish TCP connection in micro seconds"
\* (client_setup.cpp:23): each sample of a client with the server's port is of a
\* connection, unless a call of the server failed and ended it.  With another
\* port, as in the Makefile's remote rules, none is: connect() fails, and the
\* time of that is counted.
SamplesAreConnections ==
  \A c \in Clients : \A k \in DOMAIN m_vals[c] :
    /\ SamePort(c) /\ (srv # "exit1" \/ faults = 0) => m_vals[c][k]
    /\ m_vals[c][k] => SamePort(c)

=============================================================================
