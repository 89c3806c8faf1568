--------------------------- MODULE MCReceiveCycle ---------------------------
(* Bounds for ReceiveCycle, given in the configurations: two cycles at a     *)
(* time, so that cycles of a removed and a new process queue overlap, with   *)
(* and without an address, and one answer of the load balancer at a time.    *)
EXTENDS ReceiveCycle

=============================================================================
