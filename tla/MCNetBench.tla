----------------------------- MODULE MCNetBench -----------------------------
(* Instances of NetBench for TLC: how often each fault may happen. *)
EXTENDS NetBench

FaultFree == [k \in FaultKinds |-> 0]
EveryFault == [k \in FaultKinds |-> 1]
OneConnect == [FaultFree EXCEPT !["connect"] = 1]
=============================================================================
