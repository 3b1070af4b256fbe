------------------------------ MODULE KafkaLog ------------------------------
(***************************************************************************)
(* The broker as the application's producer sees it                        *)
(* (src/internal/infrastructure/kafka/producer.go): a topic is a set of    *)
(* partitions, a partition is an append-only sequence of events.  Events   *)
(* are never removed; a reader's progress is its own offset.               *)
(*                                                                         *)
(* The writers are built with kafka-go's defaults: no acknowledgement is   *)
(* required, and a write that times out is sent again.  One call may thus  *)
(* append the event once, not at all, or several times, whatever error it  *)
(* returns, and the balancer picks the partition.                          *)
(***************************************************************************)
EXTENDS Naturals, Sequences

CONSTANTS
    Topics,      \* topic names
    Partitions,  \* the partitions of all the topics
    TopicOf,     \* the topic a partition belongs to
    Payloads,    \* the events that can be written
    Deliveries,  \* how often one call may append its event, {1} if all goes well
    MaxLog       \* bound: events a partition may hold

ASSUME LogAssumption ==
    /\ TopicOf \in [Partitions -> Topics]
    /\ Deliveries \subseteq Nat
    /\ MaxLog \in Nat

VARIABLE log     \* log[p]: the events of partition p, in offset order

LogTypeOK == log \in [Partitions -> Seq(Payloads)]

LogInit == log = [p \in Partitions |-> <<>>]

(* The topics NewProducer gives its two writers.                           *)
CreatedTopic == "msg_created"
DeletedTopic == "msg_deleted"

Copies(event, n) == [i \in 1..n |-> event]

(* WriteMessages(event) on the writer of a topic.  If the topic has no     *)
(* partition every partition stays as it is.                               *)
Publish(topic, event) ==
    \/ \E p \in Partitions, n \in Deliveries :
          /\ TopicOf[p] = topic
          /\ Len(log[p]) + n <= MaxLog
          /\ log' = [log EXCEPT ![p] = @ \o Copies(event, n)]
    \/ /\ \A p \in Partitions : TopicOf[p] # topic
       /\ UNCHANGED log

(* The events of a topic that some partition holds.                        *)
Published(topic) ==
    UNION {{log[p][i] : i \in 1..Len(log[p])} : p \in {q \in Partitions : TopicOf[q] = topic}}

=============================================================================
