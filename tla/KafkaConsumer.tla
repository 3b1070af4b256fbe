--------------------------- MODULE KafkaConsumer ----------------------------
(***************************************************************************)
(* The consumers of src/internal/infrastructure/kafka/new_consumer.go, as  *)
(* cmd/app/main.go starts them: one goroutine per consumer, all in one     *)
(* process and in one consumer group, each running StartConsuming:         *)
(*                                                                         *)
(*     fetch --> handler --ok--> commit --> fetch                          *)
(*                  \--error, logged and not committed--> fetch            *)
(*                                                                         *)
(* A fetch advances the session's position whatever becomes of the event;  *)
(* only a restart or a rebalance moves it back, to the committed offset.   *)
(* A failed FetchMessage changes nothing (the loop continues) and the      *)
(* context main.go passes is never cancelled, so the loop never returns.   *)
(***************************************************************************)
EXTENDS KafkaLog

CONSTANTS
    Consumers,        \* the consumers of the group
    Subscribed,       \* the topic a consumer was given by NewConsumer
    NoRecord,         \* a consumer holds no fetched event
    MaxDisturbances   \* bound: restarts and rebalances in a behaviour

Records == [part : Partitions, offset : Nat]

(* No two consumers of the group read the same topic (main.go), so each    *)
(* partition has at most one reader.                                       *)
ASSUME ConsumerAssumption ==
    /\ \A c, d \in Consumers : Subscribed[c] = Subscribed[d] => c = d
    /\ NoRecord \notin Records
    /\ MaxDisturbances \in Nat

VARIABLES
    position,      \* position[p]: events of p fetched since the session began
    committed,     \* committed[p]: events of p the group has committed
    hand,          \* hand[c]: the event consumer c has fetched
    phase,         \* phase[c]: where c is in its loop
    tried,         \* tried[p]: history, the offsets handed to the handler
    disturbances   \* restarts and rebalances so far

cursorVars == <<position, committed, hand, phase, tried, disturbances>>
consumerVars == <<log, cursorVars>>

Assigned(c) == {p \in Partitions : TopicOf[p] = Subscribed[c]}

(* One type invariant for the module.                                      *)
ConsumerTypeOK ==
    /\ LogTypeOK
    /\ position \in [Partitions -> Nat]
    /\ committed \in [Partitions -> Nat]
    /\ hand \in [Consumers -> Records \cup {NoRecord}]
    /\ phase \in [Consumers -> {"fetch", "handle", "commit"}]
    /\ tried \in [Partitions -> SUBSET Nat]
    /\ disturbances \in 0..MaxDisturbances

CursorInit ==
    /\ position = [p \in Partitions |-> 0]
    /\ committed = [p \in Partitions |-> 0]
    /\ hand = [c \in Consumers |-> NoRecord]
    /\ phase = [c \in Consumers |-> "fetch"]
    /\ tried = [p \in Partitions |-> {}]
    /\ disturbances = 0

ConsumerInit == LogInit /\ CursorInit
-----------------------------------------------------------------------------
(* Faulty variants of the actions below, one for each property.            *)

(* ReadMessage instead of FetchMessage: the offset is committed at once.   *)
FetchAutoCommit(c) ==
    /\ phase[c] = "fetch"
    /\ \E p \in Assigned(c) :
        /\ position[p] < Len(log[p])
        /\ hand' = [hand EXCEPT ![c] = [part |-> p, offset |-> position[p] + 1]]
        /\ position' = [position EXCEPT ![p] = @ + 1]
        /\ committed' = [committed EXCEPT ![p] = position[p] + 1]
    /\ phase' = [phase EXCEPT ![c] = "handle"]
    /\ UNCHANGED <<log, tried, disturbances>>

(* A handler that fails ends the loop, as an error of FetchMessage does.   *)
HandlerFailsAndReturns(c) ==
    /\ phase[c] = "handle"
    /\ tried' = [tried EXCEPT ![hand[c].part] = @ \cup {hand[c].offset}]
    /\ hand' = [hand EXCEPT ![c] = NoRecord]
    /\ phase' = [phase EXCEPT ![c] = "returned"]
    /\ UNCHANGED <<log, position, committed, disturbances>>

(* Off by one: the offset of the next event is passed to CommitMessages,   *)
(* which itself adds one to what it is given.                              *)
CommitNext(c) ==
    /\ phase[c] = "commit"
    /\ committed' = [committed EXCEPT ![hand[c].part] = hand[c].offset + 1]
    /\ hand' = [hand EXCEPT ![c] = NoRecord]
    /\ phase' = [phase EXCEPT ![c] = "fetch"]
    /\ UNCHANGED <<log, position, tried, disturbances>>

(* Off by one: the session resumes at the last event that was committed.   *)
RestartOneBefore ==
    /\ disturbances < MaxDisturbances
    /\ disturbances' = disturbances + 1
    /\ position' = [p \in Partitions |-> committed[p] - 1]
    /\ hand' = [c \in Consumers |-> NoRecord]
    /\ phase' = [c \in Consumers |-> "fetch"]
    /\ UNCHANGED <<log, committed, tried>>

(* The session resumes at the end of the log (StartOffset: LastOffset).    *)
RestartAtEnd ==
    /\ disturbances < MaxDisturbances
    /\ disturbances' = disturbances + 1
    /\ position' = [p \in Partitions |-> Len(log[p])]
    /\ hand' = [c \in Consumers |-> NoRecord]
    /\ phase' = [c \in Consumers |-> "fetch"]
    /\ UNCHANGED <<log, committed, tried>>
-----------------------------------------------------------------------------
(* FetchMessage returns the next event of some assigned partition.         *)
Fetch(c) ==
    /\ phase[c] = "fetch"
    /\ \E p \in Assigned(c) :
        /\ position[p] < Len(log[p])
        /\ hand' = [hand EXCEPT ![c] = [part |-> p, offset |-> position[p] + 1]]
        /\ position' = [position EXCEPT ![p] = @ + 1]
    /\ phase' = [phase EXCEPT ![c] = "handle"]
    /\ UNCHANGED <<log, committed, tried, disturbances>>

Attempted(c) == tried' = [tried EXCEPT ![hand[c].part] = @ \cup {hand[c].offset}]

(* The handler returns an error: it is logged and the loop continues with  *)
(* the next event; this one is not committed.                              *)
HandlerFails(c) ==
    /\ phase[c] = "handle"
    /\ Attempted(c)
    /\ hand' = [hand EXCEPT ![c] = NoRecord]
    /\ phase' = [phase EXCEPT ![c] = "fetch"]
    /\ UNCHANGED <<log, position, committed, disturbances>>

HandlerSucceeds(c) ==
    /\ phase[c] = "handle"
    /\ Attempted(c)
    /\ phase' = [phase EXCEPT ![c] = "commit"]
    /\ UNCHANGED <<log, position, committed, hand, disturbances>>

(* CommitMessages: one offset per partition, everything up to and          *)
(* including the event.  An error is only logged, and the broker may or    *)
(* may not have recorded the offset when there is one.                     *)
Commit(c) ==
    /\ phase[c] = "commit"
    /\ \/ committed' = [committed EXCEPT ![hand[c].part] = hand[c].offset]
       \/ UNCHANGED committed
    /\ hand' = [hand EXCEPT ![c] = NoRecord]
    /\ phase' = [phase EXCEPT ![c] = "fetch"]
    /\ UNCHANGED <<log, position, tried, disturbances>>

(* The group rebalances: c resumes its partitions from the committed       *)
(* offsets.  An event already in hand is still handled and committed.      *)
Rebalance(c) ==
    /\ disturbances < MaxDisturbances
    /\ disturbances' = disturbances + 1
    /\ position' = [p \in Partitions |->
                        IF p \in Assigned(c) THEN committed[p] ELSE position[p]]
    /\ UNCHANGED <<log, committed, hand, phase, tried>>

(* The process dies and is started again (docker-compose: restart always). *)
Restart ==
    /\ disturbances < MaxDisturbances
    /\ disturbances' = disturbances + 1
    /\ position' = committed
    /\ hand' = [c \in Consumers |-> NoRecord]
    /\ phase' = [c \in Consumers |-> "fetch"]
    /\ UNCHANGED <<log, committed, tried>>

(* The producers of the rest of the application, and others.               *)
Produce(topic, event) ==
    /\ Publish(topic, event)
    /\ UNCHANGED cursorVars

ConsumerStep(c) ==
    \/ Fetch(c)
    \/ HandlerFails(c)
    \/ HandlerSucceeds(c)
    \/ Commit(c)

ConsumerNext ==
    \/ \E c \in Consumers : ConsumerStep(c) \/ Rebalance(c)
    \/ Restart
    \/ \E topic \in Topics, event \in Payloads : Produce(topic, event)

(* Each consumer's goroutine keeps running, and no call it makes blocks    *)
(* for ever: the scheduler's fairness, and nothing about which calls fail. *)
ConsumerFairness == \A c \in Consumers : WF_consumerVars(ConsumerStep(c))

ConsumerSafety == ConsumerInit /\ [][ConsumerNext]_consumerVars
ConsumerSpec == ConsumerSafety /\ ConsumerFairness
-----------------------------------------------------------------------------
(* No event at or below a committed offset is one the handler never saw,   *)
(* through failed handlers, failed commits, rebalances that overtake an    *)
(* event in hand, and restarts: StartConsuming commits after the handler.  *)
CommittedWereAttempted ==
    \A p \in Partitions : 1..committed[p] \subseteq tried[p]

(* The session's position leaves at most one event behind unattempted, the *)
(* one in hand, and whatever is below an event in hand was attempted.      *)
SessionCovered ==
    /\ \A p \in Partitions : \A o \in 1..position[p] :
          \/ o \in tried[p]
          \/ \E c \in Consumers : /\ p \in Assigned(c)
                                  /\ phase[c] = "handle"
                                  /\ hand[c] = [part |-> p, offset |-> o]
    /\ \A c \in Consumers :
          phase[c] # "fetch" =>
              /\ hand[c] \in Records
              /\ hand[c].part \in Assigned(c)
              /\ hand[c].offset \in 1..Len(log[hand[c].part])
              /\ 1..(hand[c].offset - 1) \subseteq tried[hand[c].part]
              /\ phase[c] = "commit" => hand[c].offset \in tried[hand[c].part]

(* The consumers keep the promise of module AtLeastOnce.                   *)
Attempts == INSTANCE AtLeastOnce WITH
    length <- [p \in Partitions |-> Len(log[p])],
    attempted <- tried,
    resume <- committed

ImplementsAtLeastOnce == Attempts!Spec

(* An event that reaches a partition of a subscribed topic is eventually   *)
(* handed to the handler, however many handlers before it fail: the loop   *)
(* logs the error and continues.                                           *)
EveryEventIsAttempted ==
    \A c \in Consumers, o \in 1..MaxLog : \A p \in Assigned(c) :
        Len(log[p]) >= o ~> o \in tried[p]
=============================================================================
