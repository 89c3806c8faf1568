-------------------------- MODULE MCConsumeStandard --------------------------
(* Bounds for ConsumeStandard: five deliveries, the second one filtered     *)
(* out and the third one damaged, two pool threads.                         *)
EXTENDS ConsumeStandard

MCMessages == 0..4
MCCorrupted == {2}
MCAccepted == MCMessages \ {1}
MCBodySize == [m \in MCMessages |-> 1 + (m % 2)]

=============================================================================
