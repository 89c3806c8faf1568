--------------------------- MODULE TopicPublishInfo ---------------------------
(***************************************************************************)
(* TopicPublishInfo: the partitions of a topic a producer may write to, and *)
(* the candidates a send takes from them in round robin order.             *)
(*                                                                         *)
(* A partition is a record of its broker's name and id, the service        *)
(* address of the broker, its queue id and its permission.                 *)
(***************************************************************************)
EXTENDS Naturals, Sequences, FiniteSets

CONSTANT IndexBits  \* width of send_which_queue_, 32 in the code

ASSUME IndexAssumption == IndexBits \in Nat

MASTER_BROKER_ID == 0

IndexModulus == 2 ^ IndexBits

\* Mutant: replicas are written to as well.
Writable_Replicas(partition) == partition.permission \notin {"READ", "NONE"}

Writable(partition) ==
    /\ partition.permission \notin {"READ", "NONE"}
    /\ partition.brokerId = MASTER_BROKER_ID

\* The writable partitions of a route, in their order.  kept[i] has those of the first i.
writable(route) ==
    LET kept[i \in 0..Len(route)] ==
            IF i = 0 THEN <<>>
            ELSE IF Writable(route[i]) THEN Append(kept[i - 1], route[i]) ELSE kept[i - 1]
    IN  kept[Len(route)]

\* The partition list after a new route; an unusable route changes nothing.
updatePublishInfo(list, route) ==
    LET partitions == writable(route) IN IF partitions = <<>> THEN list ELSE partitions

\* The i-th partition (from 0) the loop looks at when it starts from index.
Visited(list, index, i) == list[1 + (((index + i) % IndexModulus) % Len(list))]

\* A round of the loop: the partition is added unless enough were found, its broker is
\* among the candidates, or its endpoint is isolated.
takeRound(candidates, partition, isolated, count) ==
    LET full == candidates # <<>> /\ Len(candidates) >= count
        known == \E k \in DOMAIN candidates : candidates[k].broker = partition.broker
    IN  IF full \/ known \/ partition.address \in isolated
            THEN candidates
            ELSE Append(candidates, partition)

\* takeMessageQueues: at most count partitions (one if count is 0) of brokers
\* that differ and are not isolated.  taken[i] is candidates after i rounds.
takeMessageQueues(list, isolated, index, count) ==
    LET taken[i \in 0..Len(list)] ==
            IF i = 0 THEN <<>>
            ELSE takeRound(taken[i - 1], Visited(list, index, i - 1), isolated, count)
    IN  taken[Len(list)]

\* The queues for a message that has a message group or names its queue: a choice
\* by hash or by name, for which their order does not matter.
getMessageQueueList(list) ==
    SelectSeq(list, LAMBDA p : p.permission \notin {"READ", "NONE"} /\ p.address # "")
=============================================================================
