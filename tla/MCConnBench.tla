---------------------------- MODULE MCConnBench -----------------------------
(* An instance of ConnBench for TLC: the clients of the Makefile's two       *)
(* loopback rules and one of its remote rules, with the ports they name.     *)
EXTENDS ConnBench, TLC

CONSTANTS setup, teardown, remote

MakefilePorts == setup :> 8080 @@ teardown :> 8080 @@ remote :> 8070
=============================================================================
