------------------------------ MODULE MCWaitOp ------------------------------
(* Instances of WaitOp for TLC: intervals below, at and above the latency,   *)
(* timeouts that are multiples of the interval and that are not.            *)
EXTENDS WaitOp

AllSettings == [interval : 1 .. 4, timeout : 3 .. 8, latency : 0 .. 3]
=============================================================================
