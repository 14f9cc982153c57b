------------------------------ MODULE NetBench ------------------------------
(***************************************************************************)
(* The round-trip-time and bandwidth benchmarks (src/src/Network/rtt.cpp,  *)
(* bw.cpp) with the servers they talk to: the one main() forks on the same *)
(* machine and the one started by hand on the remote machine               *)
(* (remote_rtt.cpp, remote_bw.cpp).  All four programs share create_server *)
(* and create_client; echo tells the two message patterns apart.           *)
(*                                                                         *)
(* Each server is a main thread that accepts a fixed number of connections *)
(* and starts one thread for each; it joins them after the last.  The      *)
(* client is sequential: a probe loop until the first connection succeeds, *)
(* then ITERATIONS samples of REQUESTS connections, on the local host and  *)
(* then on the remote one.  TCP is modelled by what the two ends observe:  *)
(* established connections queue at the listener; what a process that ends *)
(* has not accepted or not read is reset, the rest is closed.              *)
(***************************************************************************)
EXTENDS Integers, Sequences

CONSTANTS
  REQUESTS,    \* connections per sample
  ITERATIONS,  \* samples per leg
  FdLimit,     \* descriptors the client process may still open
  MaxFaults    \* how often the environment may do each of FaultKinds

FaultKinds == {"bind", "accept", "connect", "stray"}

ASSUME NetAssumption ==
  /\ REQUESTS \in Nat \ {0}
  /\ ITERATIONS \in Nat \ {0}
  /\ FdLimit \in Nat \ {0}
  /\ MaxFaults \in [FaultKinds -> Nat]

Hosts == {"local", "remote"}

Total == REQUESTS * ITERATIONS

\* for (int i = 0; i <= REQUESTS*ITERATIONS; i++): the calls of accept().
AcceptCallsTooFew == Total        \* mutant: i < REQUESTS*ITERATIONS
AcceptCallsTooMany == Total + 2   \* mutant: the probe counted twice
AcceptCalls == Total + 1

VARIABLES
  echo,     \* TRUE: rtt (the client sends, the server echoes); FALSE: bw
  spc,      \* spc[h]: control state of the server process on host h
  conns,    \* conns[h]: every connection established with h, oldest first
  acc,      \* acc[h]: how many of conns[h] have been accepted
  thr,      \* thr[h]: the vector<thread>, one record per accept() call
  cpc,      \* control state of the client process
  leg,      \* the host the client is measuring
  probing,  \* TRUE until create_client has succeeded once on this leg
  iter,     \* samples finished on this leg
  req,      \* requests finished in this sample
  cur,      \* index in conns[leg] of the client's open connection
  leaked,   \* sockets create_client returned without closing
  missed,   \* measured requests that ended without a complete reply
  faults    \* faults[k]: what the environment has done so far

srvVars == <<spc, acc, thr>>
loopVars == <<echo, leg, probing, iter, req>>
vars == <<echo, spc, conns, acc, thr, cpc, leg, probing, iter, req, cur,
          leaked, missed, faults>>

Fault(k) ==
  /\ faults[k] < MaxFaults[k]
  /\ faults' = [faults EXCEPT ![k] = @ + 1]

NoFaults == \A k \in FaultKinds : faults[k] = 0

Conn == [req : BOOLEAN,                       \* request arrived at the server
         rep : BOOLEAN,                       \* complete reply at the client
         err : BOOLEAN,                       \* reset pending at the client
         cl  : {"open", "closed"},            \* the client's end
         sv  : {"queued", "open", "closed"}]  \* the server's end

NewConn(end) == [req |-> FALSE, rep |-> FALSE, err |-> FALSE,
                 cl |-> end, sv |-> "queued"]

HandlerState == [fd : Nat, pc : {"recv", "send", "close", "done"}]

Init ==
  /\ echo \in BOOLEAN
  /\ spc = [h \in Hosts |-> "start"]
  /\ conns = [h \in Hosts |-> <<>>]
  /\ acc = [h \in Hosts |-> 0]
  /\ thr = [h \in Hosts |-> <<>>]
  /\ cpc = "connect"
  /\ leg = "local"
  /\ probing = TRUE
  /\ iter = 0
  /\ req = 0
  /\ cur = 0
  /\ leaked = 0
  /\ missed = 0
  /\ faults = [k \in FaultKinds |-> 0]

-----------------------------------------------------------------------------
(* create_server *)

\* The listening socket is open from listen() until the process ends.
Listening(h) == spc[h] \in {"accept", "join"}
Exited(h) == spc[h] \in {"exit0", "exit1"}

\* socket, setsockopt, bind, listen; a failed bind or listen is exit(1).
ServerStart(h) ==
  /\ spc[h] = "start"
  /\ \/ /\ spc' = [spc EXCEPT ![h] = "accept"]
        /\ UNCHANGED faults
     \/ /\ Fault("bind")
        /\ spc' = [spc EXCEPT ![h] = "exit1"]
  /\ UNCHANGED <<conns, acc, thr, cpc, loopVars, cur, leaked, missed>>

\* thread t1(...); threads.push_back(...): fd = 0 stands for accept's -1.
\* After AcceptCalls calls the accept loop is left for the join loop.
SpawnHandler(h, fd) ==
  /\ thr' = [thr EXCEPT ![h] =
              Append(@, [fd |-> fd, pc |-> IF echo THEN "recv" ELSE "send"])]
  /\ spc' = [spc EXCEPT ![h] = IF Len(thr[h]) + 1 = AcceptCalls THEN "join"
                                             ELSE @]

Accept(h) ==
  /\ spc[h] = "accept"
  /\ acc[h] < Len(conns[h])
  /\ acc' = [acc EXCEPT ![h] = @ + 1]
  /\ conns' = [conns EXCEPT ![h][acc[h] + 1].sv = "open"]
  /\ SpawnHandler(h, acc[h] + 1)
  /\ UNCHANGED <<cpc, loopVars, cur, leaked, missed, faults>>

\* accept() returned -1: the message is printed and the thread still started.
AcceptError(h) ==
  /\ spc[h] = "accept"
  /\ Fault("accept")
  /\ SpawnHandler(h, 0)
  /\ UNCHANGED <<conns, acc, cpc, loopVars, cur, leaked, missed>>

\* What the kernel does to the connections of a process that ends: those the
\* process never accepted, or has not read, are reset; the others are closed.
Severed(h, i) ==
  LET c      == conns[h][i]
      unread == c.req /\ \A t \in DOMAIN thr[h] :
                            thr[h][t].fd = i => thr[h][t].pc = "recv"
  IN  [c EXCEPT !.sv = "closed", !.err = @ \/ c.sv = "queued" \/ unread]

SeverAll(h) ==
  conns' = [conns EXCEPT ![h] = [i \in DOMAIN @ |-> Severed(h, i)]]

\* The lambda captures fd by value: handler t works on its own connection.
HandlerFdByReference(h, t) == thr[h][Len(thr[h])].fd   \* mutant: [&fd]
HandlerFd(h, t) == thr[h][t].fd

HandlerAt(h, t, at) ==
  /\ Listening(h)
  /\ t \in DOMAIN thr[h]
  /\ thr[h][t].pc = at

HandlerGoes(h, t, to) == thr' = [thr EXCEPT ![h][t].pc = to]

\* Mutant: a loop that reads on until MESSAGE_SIZE bytes have come.
RecvReadyFull(c) == c.req

\* recv(fd, ..., MSG_WAITALL) returns when the message is complete or the
\* peer has closed.
RecvReady(c) == c.req \/ c.cl = "closed"

HandlerRecv(h, t) ==
  /\ HandlerAt(h, t, "recv")
  /\ HandlerFd(h, t) # 0
  /\ RecvReady(conns[h][HandlerFd(h, t)])
  /\ HandlerGoes(h, t, "send")
  /\ UNCHANGED <<spc, conns, acc, cpc, loopVars, cur, leaked, missed, faults>>

\* recv on the failed descriptor returns -1: exit(1) ends the whole process.
HandlerRecvError(h, t) ==
  /\ HandlerAt(h, t, "recv")
  /\ HandlerFd(h, t) = 0
  /\ spc' = [spc EXCEPT ![h] = "exit1"]
  /\ SeverAll(h)
  /\ UNCHANGED <<acc, thr, cpc, loopVars, cur, leaked, missed, faults>>

\* rtt echoes what it received, bw sends TRANSMIT_STR.  send on the failed
\* descriptor is only reported; to a peer that has closed, bw's one long send
\* returns a short count, which nobody looks at.
HandlerSend(h, t) ==
  LET c == HandlerFd(h, t) IN
  /\ HandlerAt(h, t, "send")
  /\ IF c # 0 /\ conns[h][c].cl = "open" /\ (echo => conns[h][c].req)
     THEN conns' = [conns EXCEPT ![h][c].rep = TRUE]
     ELSE UNCHANGED conns
  /\ HandlerGoes(h, t, "close")
  /\ UNCHANGED <<spc, acc, cpc, loopVars, cur, leaked, missed, faults>>

HandlerClose(h, t) ==
  LET c == HandlerFd(h, t) IN
  /\ HandlerAt(h, t, "close")
  /\ IF c # 0
     THEN conns' = [conns EXCEPT ![h][c].sv = "closed"]
     ELSE UNCHANGED conns
  /\ HandlerGoes(h, t, "done")
  /\ UNCHANGED <<spc, acc, cpc, loopVars, cur, leaked, missed, faults>>

\* for (auto &t : threads) t.join(); close(tcp_socket); and the process exits.
JoinAndExit(h) ==
  /\ spc[h] = "join"
  /\ \A t \in DOMAIN thr[h] : thr[h][t].pc = "done"
  /\ spc' = [spc EXCEPT ![h] = "exit0"]
  /\ SeverAll(h)
  /\ UNCHANGED <<acc, thr, cpc, loopVars, cur, leaked, missed, faults>>

ServerMain(h) == ServerStart(h) \/ Accept(h) \/ AcceptError(h) \/ JoinAndExit(h)

Handler(h, t) ==
  \/ HandlerRecv(h, t) \/ HandlerRecvError(h, t)
  \/ HandlerSend(h, t) \/ HandlerClose(h, t)

-----------------------------------------------------------------------------
(* create_client and the loops that call it *)

\* Mutant: the request counter is not reset for the next sample.
NextRequestKept ==
  /\ req' = req + 1
  /\ iter' = IF req + 1 >= REQUESTS THEN iter + 1 ELSE iter
  /\ cpc' = IF iter + 1 < ITERATIONS \/ req + 1 < REQUESTS THEN "connect"
            ELSE IF leg = "local" THEN "wait" ELSE "exited"
  /\ UNCHANGED leg

\* create_client returned inside measure_rtt / measure_bw: next request, next
\* sample, and after the last sample wait(NULL) or, on the remote leg, return.
NextRequest ==
  LET sampleDone == req + 1 = REQUESTS
      legDone    == sampleDone /\ iter + 1 = ITERATIONS
  IN
  /\ req' = IF sampleDone THEN 0 ELSE req + 1
  /\ iter' = IF sampleDone THEN iter + 1 ELSE iter
  /\ cpc' = IF ~legDone THEN "connect"
            ELSE IF leg = "local" THEN "wait" ELSE "exited"
  /\ UNCHANGED leg

\* Mutant: the probe is taken for the first measured request.
ReturnTrueCounting == NextRequest /\ probing' = FALSE

\* create_client returned true: the probe loop ends, or a request is over.
ReturnTrue ==
  IF probing
  THEN /\ probing' = FALSE
       /\ cpc' = "connect"
       /\ UNCHANGED <<leg, iter, req>>
  ELSE NextRequest /\ UNCHANGED probing

\* create_client returned false: the probe loop sleeps and tries again; the
\* measuring loop ignores the result.
ReturnFalse ==
  IF probing THEN UNCHANGED <<loopVars, cpc, missed>>
             ELSE NextRequest /\ missed' = missed + 1 /\ UNCHANGED probing

\* connect() succeeds once the server listens; whether it is in accept() is
\* immaterial, the connection is queued (the backlog of 100 is never full).
Connect ==
  /\ cpc = "connect"
  /\ leaked < FdLimit
  /\ Listening(leg)
  /\ conns' = [conns EXCEPT ![leg] = Append(@, NewConn("open"))]
  /\ cur' = Len(conns[leg]) + 1
  /\ cpc' = IF echo THEN "send" ELSE "recv"
  /\ UNCHANGED <<srvVars, loopVars, leaked, missed, faults>>

\* connect() returned -1; the descriptor is not closed on this path.
ConnectFail ==
  /\ cpc = "connect"
  /\ leaked < FdLimit
  /\ \/ ~Listening(leg) /\ UNCHANGED faults
     \/ Listening(leg) /\ Fault("connect")
  /\ leaked' = leaked + 1
  /\ ReturnFalse
  /\ UNCHANGED <<srvVars, echo, conns, cur>>

\* No descriptor is left: socket() returns -1 and connect(-1, ...) fails.
SocketFail ==
  /\ cpc = "connect"
  /\ leaked = FdLimit
  /\ ReturnFalse
  /\ UNCHANGED <<srvVars, echo, conns, cur, leaked, faults>>

\* send() either queues the request or consumes a pending reset; it goes on
\* to recv() in both cases.
ClientSend ==
  LET c == conns[leg][cur] IN
  /\ cpc = "send"
  /\ conns' = [conns EXCEPT ![leg][cur] =
                 [c EXCEPT !.err = FALSE, !.req = ~c.err /\ c.sv # "closed"]]
  /\ cpc' = "recv"
  /\ UNCHANGED <<srvVars, loopVars, cur, leaked, missed, faults>>

\* recv(..., MSG_WAITALL) returns the whole reply, or short at end of file;
\* its result is not compared with MESSAGE_SIZE.  Then close(client).
ClientRecv ==
  LET c == conns[leg][cur] IN
  /\ cpc = "recv"
  /\ ~c.err
  /\ c.rep \/ c.sv = "closed"
  /\ conns' = [conns EXCEPT ![leg][cur].cl = "closed"]
  /\ missed' = IF c.rep \/ probing THEN missed ELSE missed + 1
  /\ ReturnTrue
  /\ UNCHANGED <<srvVars, echo, cur, leaked, faults>>

\* recv() returned -1: exit(1).
ClientRecvError ==
  /\ cpc = "recv"
  /\ conns[leg][cur].err
  /\ cpc' = "aborted"
  /\ conns' = [conns EXCEPT ![leg][cur].cl = "closed"]
  /\ UNCHANGED <<srvVars, loopVars, cur, leaked, missed, faults>>

\* wait(NULL): the forked server has ended; the remote leg begins.
WaitServer ==
  /\ cpc = "wait"
  /\ Exited("local")
  /\ cpc' = "connect"
  /\ leg' = "remote"
  /\ probing' = TRUE
  /\ iter' = 0
  /\ req' = 0
  /\ UNCHANGED <<srvVars, echo, conns, cur, leaked, missed, faults>>

Client ==
  \/ Connect \/ ConnectFail \/ SocketFail \/ ClientSend
  \/ ClientRecv \/ ClientRecvError \/ WaitServer

\* Another program connects to the same port and closes at once, as
\* client_setup and client_teardown do (the Makefile gives them port 8080 too).
Stray(h) ==
  /\ Listening(h)
  /\ Fault("stray")
  /\ conns' = [conns EXCEPT ![h] = Append(@, NewConn("closed"))]
  /\ UNCHANGED <<srvVars, cpc, loopVars, cur, leaked, missed>>

\* Both servers and the client have ended.
Finished ==
  /\ cpc \in {"exited", "aborted"}
  /\ \A h \in Hosts : Exited(h)
  /\ UNCHANGED vars

Next ==
  \/ Client
  \/ \E h \in Hosts : ServerMain(h) \/ Stray(h)
  \/ \E h \in Hosts : \E t \in DOMAIN thr[h] : Handler(h, t)
  \/ Finished

Spec == Init /\ [][Next]_vars

\* The scheduler runs every runnable thread, and the remote operator does
\* start the server.  Nothing is assumed of the environment's faults.
Fairness ==
  /\ WF_vars(Client)
  /\ \A h \in Hosts : WF_vars(ServerStart(h) \/ Accept(h) \/ JoinAndExit(h))
  /\ \A h \in Hosts : \A t \in 1..AcceptCalls :
       WF_vars(t \in DOMAIN thr[h] /\ Handler(h, t))

FairSpec == Spec /\ Fairness

-----------------------------------------------------------------------------
(* Properties *)

TypeOK ==
  /\ echo \in BOOLEAN
  /\ spc \in [Hosts -> {"start", "accept", "join", "exit0", "exit1"}]
  /\ conns \in [Hosts -> Seq(Conn)]
  /\ acc \in [Hosts -> Nat]
  /\ thr \in [Hosts -> Seq(HandlerState)]
  /\ cpc \in {"connect", "send", "recv", "wait", "exited", "aborted"}
  /\ leg \in Hosts
  /\ probing \in BOOLEAN
  /\ iter \in 0..ITERATIONS
  /\ req \in 0..(REQUESTS - 1)
  /\ cur \in Nat
  /\ leaked \in 0..FdLimit
  /\ missed \in Nat
  /\ faults \in [FaultKinds -> Nat]

\* Unless the environment interferes, every measured request gets its complete
\* reply and the client never aborts: the last replies are not cut off by the
\* server's exit, nor the last requests refused (the join loop and the loop
\* bound of create_server).
AnsweredUnlessFault == NoFaults => missed = 0 /\ cpc # "aborted"

\* Connections the client has still to open on host h; once it is aborted it
\* opens none, so the count is stated for a client that goes on.
ToMake(h) ==
  LET planned == IF probing THEN Total + 1 ELSE Total
      made    == iter * REQUESTS + req + IF cpc \in {"send", "recv"} THEN 1 ELSE 0
  IN  IF leg = h THEN planned - made
      ELSE IF h = "remote" THEN Total + 1 ELSE 0

\* Unless the environment interferes, the accept() calls a server has left are
\* the connections in its queue and those the client will still open: neither
\* side can be left waiting for the other.
SlotsMatchDemand ==
  NoFaults => \A h \in Hosts :
    AcceptCalls - Len(thr[h]) = Len(conns[h]) - acc[h] + ToMake(h)

\* Whatever strays, failed accepts and failed connects happen, a server that was
\* not ended by exit(1) closes a connection it accepted only after its complete
\* reply, or after the peer has closed (each thread uses its own fd, and every
\* thread is joined).
ClosedOnlyAfterReply ==
  \A h \in Hosts : spc[h] \in {"accept", "join", "exit0"} =>
    \A i \in 1..acc[h] : conns[h][i].sv = "closed" =>
      conns[h][i].rep \/ conns[h][i].cl = "closed"

\* A client blocked in recv always leaves it: with a reply, at end of file or
\* with an error, also when strays or failed accepts took its server's slots.
RecvReturns == (cpc = "recv") ~> (cpc # "recv")

\* Unless the environment interferes, and unless the probe loop runs out of
\* descriptors first, the benchmark measures both legs and both servers end.
BenchCompletes ==
  [](NoFaults /\ leaked < FdLimit)
    => <>(cpc = "exited" /\ \A h \in Hosts : Exited(h))

\* The comment in create_server: its loop makes one accept() more than
\* REQUESTS*ITERATIONS "to account for the initial connection check", so that a
\* server ends when the client that used it has.  A connect() that fails in the
\* measuring loop is not repeated and leaves the server waiting for ever.
ServerRunsOut == (cpc = "exited") ~> Exited("remote")

=============================================================================
