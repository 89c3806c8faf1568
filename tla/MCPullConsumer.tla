--------------------------- MODULE MCPullConsumer ---------------------------
(* A body below the threshold of compression and one at it; one message that *)
(* no producer accepts.                                                      *)
EXTENDS PullConsumer

MCMessages ==
  { [payload |-> "short", length |-> 1, type |-> "FIFO"],
    [payload |-> "long", length |-> 2, type |-> "NORMAL"],
    [payload |-> "too long", length |-> 3, type |-> "NORMAL"] }

=============================================================================
