---------------------------- MODULE MCConsumeFifo ----------------------------
(* Bounds for ConsumeFifo: six deliveries, the second one filtered out, the *)
(* fourth one damaged; the third one has been delivered before.             *)
EXTENDS ConsumeFifo

MCMessages == 0..5
MCCorrupted == {3}
MCAccepted == MCMessages \ {1}
MCBodySize == [m \in MCMessages |-> 1 + (m % 2)]
MCDeliveryAttempt == [m \in MCMessages |-> IF m = 2 THEN 2 ELSE 1]

=============================================================================
