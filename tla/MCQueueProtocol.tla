--------------------------- MODULE MCQueueProtocol ---------------------------
(* Bounds for QueueProtocol: six deliveries, one of them filtered out.     *)
EXTENDS QueueProtocol

MCMessages == 0..5
MCAccepted == MCMessages \ {2}
MCBodySize == [m \in MCMessages |-> m % 3]

=============================================================================
