--------------------------- MODULE MCProducerSend ---------------------------
(* Bounds for ProducerSend and Transactions: one synchronous call, made by  *)
(* prepare, and one asynchronous call, two attempts over one or two queues,  *)
(* and two calls of commit or rollback.                                      *)
EXTENDS Transactions

=============================================================================
