-------------------------- MODULE MCKafkaConsumer ---------------------------
(* A small group: one consumer reads two partitions, the other reads one.  *)
EXTENDS KafkaConsumer

MCTopicOf == [p \in Partitions |-> IF p = "d0" THEN "deleted" ELSE "created"]

MCSubscribed == [c \in {"createdConsumer", "deletedConsumer"} |->
    IF c = "createdConsumer" THEN "created" ELSE "deleted"]
=============================================================================
