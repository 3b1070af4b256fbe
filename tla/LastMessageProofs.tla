------------------------- MODULE LastMessageProofs --------------------------
(***************************************************************************)
(* Proofs about modules KafkaConsumer and LastMessage, for every set of    *)
(* requests, consumers and partitions and every number of restarts and     *)
(* rebalances.                                                             *)
(*                                                                         *)
(* The consumers.  Their inductive invariant ConsumerInv is the type       *)
(* invariant together with SessionCovered: that a commit covers only       *)
(* attempted events follows from what the session has passed over before   *)
(* it, not from commits alone.                                             *)
(*                                                                         *)
(* The last message.  The behaviours of LastMessage are behaviours of      *)
(* MessageService and of KafkaConsumer, so that what is proved of these    *)
(* holds of it; two ways of wiring it show nothing, ever, and both are     *)
(* deployed.  What is proved of the previews besides is for any wiring: no *)
(* event brings back a deleted message, by BackInv; and as long as nobody  *)
(* asks for a deletion what chats show goes forward, by ForwardInv.        *)
(***************************************************************************)
EXTENDS LastMessage, MessageServiceProofs

(* The invariant of the consumers.                                         *)
ConsumerInv == ConsumerTypeOK /\ CommittedWereAttempted /\ SessionCovered
-----------------------------------------------------------------------------
(* The length of a partition is a number.                                  *)
LEMMA LengthsAreNatural ==
    ASSUME LogTypeOK, NEW p \in Partitions
    PROVE  Len(log[p]) \in Nat
BY LenProperties DEF LogTypeOK

(* A partition has at most one reader.                                     *)
LEMMA OneReader ==
    ASSUME NEW c \in Consumers, NEW d \in Consumers, NEW p \in Assigned(c), p \in Assigned(d)
    PROVE  c = d
BY ConsumerAssumption DEF Assigned

-----------------------------------------------------------------------------
(* The invariant holds at the start, when nothing has been fetched.        *)
LEMMA ConsumerInitInv == ConsumerInit => ConsumerInv
<1> SUFFICES ASSUME ConsumerInit PROVE ConsumerInv
  OBVIOUS
<1> USE DEF ConsumerInit, LogInit, CursorInit
<1>1. ConsumerTypeOK
  BY ConsumerAssumption, EmptySeq DEF ConsumerTypeOK, LogTypeOK
<1>2. CommittedWereAttempted
  BY DEF CommittedWereAttempted
<1>3. SessionCovered
  BY DEF SessionCovered
<1> QED  BY <1>1, <1>2, <1>3 DEF ConsumerInv

(* FetchMessage takes the next event of a partition only.                  *)
LEMMA FetchKeepsInv ==
    ASSUME ConsumerInv, NEW c \in Consumers, Fetch(c)
    PROVE  ConsumerInv'
<1> USE DEF ConsumerInv
<1>1. PICK p \in Assigned(c) :
          /\ position[p] < Len(log[p])
          /\ hand' = [hand EXCEPT ![c] = [part |-> p, offset |-> position[p] + 1]]
          /\ position' = [position EXCEPT ![p] = @ + 1]
  BY DEF Fetch
<1>2. /\ phase[c] = "fetch"
      /\ phase' = [phase EXCEPT ![c] = "handle"]
      /\ log' = log /\ committed' = committed /\ tried' = tried
      /\ disturbances' = disturbances
  BY DEF Fetch
<1>3. /\ p \in Partitions /\ position[p] \in Nat /\ position[p] + 1 \in Nat
      /\ Len(log[p]) \in Nat
  BY LengthsAreNatural DEF Assigned, ConsumerTypeOK
<1>4. ConsumerTypeOK'
  BY <1>1, <1>2, <1>3 DEF ConsumerTypeOK, LogTypeOK, Records
<1>5. CommittedWereAttempted'
  BY <1>2 DEF CommittedWereAttempted
<1>6. \A o \in 1..position[p] : o \in tried[p]
  <2> SUFFICES ASSUME NEW o \in 1..position[p], o \notin tried[p] PROVE FALSE
    OBVIOUS
  <2>1. PICK d \in Consumers : p \in Assigned(d) /\ phase[d] = "handle"
    BY <1>3 DEF SessionCovered
  <2>2. d = c
    BY <2>1, OneReader
  <2> QED  BY <1>2, <2>1, <2>2
<1>7. SessionCovered'
  <2>1. ASSUME NEW q \in Partitions, NEW o \in 1..position'[q], o \notin tried'[q]
        PROVE  \E d \in Consumers : /\ q \in Assigned(d)
                                    /\ phase'[d] = "handle"
                                    /\ hand'[d] = [part |-> q, offset |-> o]
    <3>1. CASE q = p
      <4>1. o = position[p] + 1
        BY <1>1, <1>2, <1>3, <1>6, <2>1, <3>1 DEF ConsumerTypeOK
      <4> QED  BY <1>1, <1>2, <4>1, <3>1 DEF ConsumerTypeOK
    <3>2. CASE q # p
      <4>1. position'[q] = position[q]
        BY <1>1, <3>2 DEF ConsumerTypeOK
      <4>2. PICK d \in Consumers : /\ q \in Assigned(d)
                                   /\ phase[d] = "handle"
                                   /\ hand[d] = [part |-> q, offset |-> o]
        BY <1>2, <2>1, <4>1 DEF SessionCovered
      <4>3. d # c
        BY <1>2, <4>2
      <4> QED  BY <1>1, <1>2, <4>2, <4>3 DEF ConsumerTypeOK
    <3> QED  BY <3>1, <3>2
  <2>2. ASSUME NEW d \in Consumers, phase'[d] # "fetch"
        PROVE  /\ hand'[d] \in Records
               /\ hand'[d].part \in Assigned(d)
               /\ hand'[d].offset \in 1..Len(log'[hand'[d].part])
               /\ 1..(hand'[d].offset - 1) \subseteq tried'[hand'[d].part]
               /\ phase'[d] = "commit" => hand'[d].offset \in tried'[hand'[d].part]
    <3>1. CASE d = c
      <4>1. hand'[d] = [part |-> p, offset |-> position[p] + 1] /\ phase'[d] = "handle"
        BY <1>1, <1>2, <3>1 DEF ConsumerTypeOK
      <4>2. hand'[d].offset - 1 = position[p] /\ hand'[d].part = p
        BY <1>3, <4>1
      <4>3. 1..(hand'[d].offset - 1) \subseteq tried[p]
        BY <1>6, <4>2
      <4> QED  BY <1>1, <1>2, <1>3, <3>1, <4>1, <4>2, <4>3 DEF Records
    <3>2. CASE d # c
      <4>1. hand'[d] = hand[d] /\ phase'[d] = phase[d]
        BY <1>1, <1>2, <3>2 DEF ConsumerTypeOK
      <4> QED  BY <1>2, <2>2, <4>1 DEF SessionCovered
    <3> QED  BY <3>1, <3>2
  <2> QED  BY <2>1, <2>2 DEF SessionCovered
<1> QED  BY <1>4, <1>5, <1>7

(* Both outcomes of the handler record the attempt.                        *)
LEMMA AttemptRecorded ==
    ASSUME ConsumerInv, NEW c \in Consumers, phase[c] = "handle", Attempted(c)
    PROVE  /\ hand[c] \in Records
           /\ hand[c].part \in Partitions
           /\ hand[c].offset \in Nat
           /\ hand[c].offset \in 1..Len(log[hand[c].part])
           /\ tried' \in [Partitions -> SUBSET Nat]
           /\ \A p \in Partitions : tried[p] \subseteq tried'[p]
           /\ hand[c].offset \in tried'[hand[c].part]
BY DEF ConsumerInv, ConsumerTypeOK, SessionCovered, Attempted, Records

(* An attempt only ever adds to what has been attempted.                   *)
LEMMA HandlerKeepsInv ==
    ASSUME ConsumerInv, NEW c \in Consumers, HandlerFails(c) \/ HandlerSucceeds(c)
    PROVE  ConsumerInv'
<1> USE DEF ConsumerInv
<1>1. /\ phase[c] = "handle" /\ Attempted(c)
      /\ log' = log /\ position' = position /\ committed' = committed
      /\ disturbances' = disturbances
  BY DEF HandlerFails, HandlerSucceeds
<1>2. /\ hand[c] \in Records
      /\ hand[c].part \in Partitions
      /\ hand[c].offset \in Nat
      /\ tried' \in [Partitions -> SUBSET Nat]
      /\ \A p \in Partitions : tried[p] \subseteq tried'[p]
      /\ hand[c].offset \in tried'[hand[c].part]
  BY <1>1, AttemptRecorded
<1>3. \/ hand' = [hand EXCEPT ![c] = NoRecord] /\ phase' = [phase EXCEPT ![c] = "fetch"]
      \/ hand' = hand /\ phase' = [phase EXCEPT ![c] = "commit"]
  BY DEF HandlerFails, HandlerSucceeds
<1>4. \A d \in Consumers \ {c} : hand'[d] = hand[d] /\ phase'[d] = phase[d]
  BY <1>3 DEF ConsumerTypeOK
<1>5. ConsumerTypeOK'
  BY <1>1, <1>2, <1>3 DEF ConsumerTypeOK, LogTypeOK
<1>6. CommittedWereAttempted'
  BY <1>1, <1>2 DEF CommittedWereAttempted
<1>7. SessionCovered'
  <2>1. ASSUME NEW q \in Partitions, NEW o \in 1..position'[q], o \notin tried'[q]
        PROVE  \E d \in Consumers : /\ q \in Assigned(d)
                                    /\ phase'[d] = "handle"
                                    /\ hand'[d] = [part |-> q, offset |-> o]
    <3>1. o \in 1..position[q] /\ o \notin tried[q]
      BY <1>1, <1>2, <2>1
    <3>2. PICK d \in Consumers : /\ q \in Assigned(d)
                                 /\ phase[d] = "handle"
                                 /\ hand[d] = [part |-> q, offset |-> o]
      BY <3>1 DEF SessionCovered
    <3>3. d # c
      BY <1>2, <2>1, <3>2
    <3> QED  BY <1>4, <3>2, <3>3
  <2>2. ASSUME NEW d \in Consumers, phase'[d] # "fetch"
        PROVE  /\ hand'[d] \in Records
               /\ hand'[d].part \in Assigned(d)
               /\ hand'[d].offset \in 1..Len(log'[hand'[d].part])
               /\ 1..(hand'[d].offset - 1) \subseteq tried'[hand'[d].part]
               /\ phase'[d] = "commit" => hand'[d].offset \in tried'[hand'[d].part]
    <3>1. hand'[d] = hand[d] /\ phase[d] # "fetch"
      BY <1>1, <1>3, <1>4, <2>2 DEF ConsumerTypeOK
    <3>2. /\ hand[d] \in Records
          /\ hand[d].part \in Assigned(d)
          /\ hand[d].offset \in 1..Len(log[hand[d].part])
          /\ 1..(hand[d].offset - 1) \subseteq tried[hand[d].part]
          /\ phase[d] = "commit" => hand[d].offset \in tried[hand[d].part]
      BY <3>1 DEF SessionCovered
    <3>3. tried[hand[d].part] \subseteq tried'[hand[d].part]
      BY <1>2, <3>2 DEF Records
    <3>4. phase'[d] = "commit" => hand[d].offset \in tried'[hand[d].part]
      BY <1>2, <1>4, <3>2, <3>3
    <3> QED  BY <1>1, <3>1, <3>2, <3>3, <3>4
  <2> QED  BY <2>1, <2>2 DEF SessionCovered
<1> QED  BY <1>5, <1>6, <1>7

(* CommitMessages commits an event that its handler has seen.              *)
LEMMA CommitKeepsInv ==
    ASSUME ConsumerInv, NEW c \in Consumers, Commit(c)
    PROVE  ConsumerInv'
<1> USE DEF ConsumerInv
<1>1. /\ phase[c] = "commit"
      /\ hand' = [hand EXCEPT ![c] = NoRecord]
      /\ phase' = [phase EXCEPT ![c] = "fetch"]
      /\ log' = log /\ position' = position /\ tried' = tried
      /\ disturbances' = disturbances
      /\ \/ committed' = [committed EXCEPT ![hand[c].part] = hand[c].offset]
         \/ committed' = committed
  BY DEF Commit
<1>2. /\ hand[c].part \in Partitions
      /\ hand[c].offset \in Nat
      /\ 1..hand[c].offset \subseteq tried[hand[c].part]
  BY <1>1 DEF SessionCovered, Records
<1>3. ConsumerTypeOK'
  BY <1>1, <1>2 DEF ConsumerTypeOK, LogTypeOK
<1>4. CommittedWereAttempted'
  BY <1>1, <1>2 DEF CommittedWereAttempted, ConsumerTypeOK
<1>5. \A d \in Consumers \ {c} : hand'[d] = hand[d] /\ phase'[d] = phase[d]
  BY <1>1 DEF ConsumerTypeOK
<1>6. phase'[c] = "fetch"
  BY <1>1 DEF ConsumerTypeOK
<1>7. \A d \in Consumers : phase[d] = "handle" => d # c
  BY <1>1
<1>8. SessionCovered'
  BY <1>1, <1>5, <1>6, <1>7 DEF SessionCovered
<1> QED  BY <1>3, <1>4, <1>8

(* Going back to the committed offsets skips no event.                     *)
LEMMA DisturbanceKeepsInv ==
    ASSUME ConsumerInv, Restart \/ \E c \in Consumers : Rebalance(c)
    PROVE  ConsumerInv'
<1> USE DEF ConsumerInv
<1>1. /\ log' = log /\ committed' = committed /\ tried' = tried
      /\ disturbances' \in 0..MaxDisturbances
      /\ position' \in [Partitions -> Nat]
      /\ \A p \in Partitions : position'[p] = position[p] \/ position'[p] = committed[p]
  BY ConsumerAssumption DEF Restart, Rebalance, ConsumerTypeOK
<1>2. \/ hand' = hand /\ phase' = phase
      \/ /\ hand' = [c \in Consumers |-> NoRecord]
         /\ phase' = [c \in Consumers |-> "fetch"]
         /\ position' = committed
  BY DEF Restart, Rebalance
<1>3. ConsumerTypeOK'
  BY <1>1, <1>2 DEF ConsumerTypeOK, LogTypeOK
<1>4. CommittedWereAttempted'
  BY <1>1 DEF CommittedWereAttempted
<1>5. ASSUME hand' = hand, phase' = phase PROVE SessionCovered'
  <2>1. ASSUME NEW p \in Partitions, NEW o \in 1..position'[p]
        PROVE  o \in tried[p] \/ o \in 1..position[p]
    BY <1>1, <2>1 DEF CommittedWereAttempted
  <2> QED  BY <1>1, <1>5, <2>1 DEF SessionCovered
<1>6. ASSUME phase' = [c \in Consumers |-> "fetch"], position' = committed
      PROVE  SessionCovered'
  BY <1>1, <1>6 DEF SessionCovered, CommittedWereAttempted
<1>7. SessionCovered'
  BY <1>2, <1>5, <1>6
<1> QED  BY <1>3, <1>4, <1>7

(* The offsets of the events that are in the log stay theirs.              *)
LEMMA ProduceKeepsInv ==
    ASSUME ConsumerInv, NEW topic \in Topics, NEW event \in Payloads, Produce(topic, event)
    PROVE  ConsumerInv'
<1> USE DEF ConsumerInv
<1>1. /\ LogTypeOK'
      /\ \A p \in Partitions : Len(log[p]) <= Len(log'[p])
  BY PublishAppends DEF ConsumerTypeOK, Produce
<1>2. /\ position' = position /\ committed' = committed /\ hand' = hand
      /\ phase' = phase /\ tried' = tried /\ disturbances' = disturbances
  BY DEF Produce, cursorVars
<1>3. ConsumerTypeOK' /\ CommittedWereAttempted'
  BY <1>1, <1>2 DEF ConsumerTypeOK, CommittedWereAttempted
<1>4. ASSUME NEW c \in Consumers, phase[c] # "fetch"
      PROVE  hand[c].offset \in 1..Len(log'[hand[c].part])
  <2>1. /\ hand[c].part \in Partitions
        /\ hand[c].offset \in 1..Len(log[hand[c].part])
    BY <1>4 DEF SessionCovered, Records
  <2>2. Len(log[hand[c].part]) \in Nat /\ Len(log'[hand[c].part]) \in Nat
    BY <1>1, <2>1, LenProperties DEF ConsumerTypeOK, LogTypeOK
  <2> QED  BY <1>1, <2>1, <2>2
<1>5. SessionCovered'
  BY <1>2, <1>4 DEF SessionCovered
<1> QED  BY <1>3, <1>5

(* The invariant is inductive.                                             *)
LEMMA ConsumerNextKeepsInv ==
    ASSUME ConsumerInv, [ConsumerNext]_consumerVars
    PROVE  ConsumerInv'
<1>1. ASSUME NEW c \in Consumers, ConsumerStep(c) PROVE ConsumerInv'
  BY <1>1, FetchKeepsInv, HandlerKeepsInv, CommitKeepsInv DEF ConsumerStep
<1>2. ASSUME Restart \/ \E c \in Consumers : Rebalance(c) PROVE ConsumerInv'
  BY <1>2, DisturbanceKeepsInv
<1>3. ASSUME NEW topic \in Topics, NEW event \in Payloads, Produce(topic, event)
      PROVE  ConsumerInv'
  BY <1>3, ProduceKeepsInv
<1>4. ASSUME UNCHANGED consumerVars PROVE ConsumerInv'
  BY <1>4 DEF consumerVars, cursorVars, ConsumerInv, ConsumerTypeOK, LogTypeOK,
              CommittedWereAttempted, SessionCovered
<1> QED  BY <1>1, <1>2, <1>3, <1>4 DEF ConsumerNext
-----------------------------------------------------------------------------
(* ConsumerInv holds throughout StartConsuming.                            *)
THEOREM ConsumerInvariant == ConsumerSafety => []ConsumerInv
<1> QED  BY ConsumerInitInv, ConsumerNextKeepsInv, PTL DEF ConsumerSafety

(* The variables keep their types.                                         *)
THEOREM ConsumerTypeCorrect == ConsumerSafety => []ConsumerTypeOK
<1>1. ConsumerInv => ConsumerTypeOK
  BY DEF ConsumerInv
<1> QED  BY <1>1, ConsumerInvariant, PTL

(* StartConsuming never commits past an event its handler has not seen,    *)
(* whatever fails, restarts or is rebalanced in between.                   *)
THEOREM CommitsFollowAttempts == ConsumerSafety => []CommittedWereAttempted
<1>1. ConsumerInv => CommittedWereAttempted
  BY DEF ConsumerInv
<1> QED  BY <1>1, ConsumerInvariant, PTL

(* A session has passed over at most the event in hand, and everything     *)
(* below an event in hand was attempted, however the group is disturbed.   *)
THEOREM SessionsCover == ConsumerSafety => []SessionCovered
<1>1. ConsumerInv => SessionCovered
  BY DEF ConsumerInv
<1> QED  BY <1>1, ConsumerInvariant, PTL
-----------------------------------------------------------------------------
(* Each step of the consumers is a step of the abstract promise, or does   *)
(* not show there.                                                         *)
LEMMA ConsumerStepRefines ==
    ASSUME ConsumerInv, [ConsumerNext]_consumerVars
    PROVE  [Attempts!Next]_(Attempts!aloVars)
<1> DEFINE L == [p \in Partitions |-> Len(log[p])]
<1> USE DEF ConsumerInv
<1>1. ASSUME log' = log, tried' = tried, committed' = committed
      PROVE  UNCHANGED Attempts!aloVars
  BY <1>1 DEF Attempts!aloVars
<1>2. ASSUME NEW c \in Consumers, HandlerFails(c) \/ HandlerSucceeds(c)
      PROVE  Attempts!Next
  <2>1. phase[c] = "handle" /\ Attempted(c) /\ log' = log /\ committed' = committed
    BY <1>2 DEF HandlerFails, HandlerSucceeds
  <2>2. hand[c].part \in Partitions /\ hand[c].offset \in 1..Len(log[hand[c].part])
    BY <2>1, AttemptRecorded
  <2>3. Attempts!Attempt(hand[c].part, hand[c].offset)
    BY <2>1 DEF Attempted, Attempts!Attempt
  <2> QED  BY <2>2, <2>3 DEF Attempts!Next
<1>3. ASSUME NEW c \in Consumers, Commit(c)
      PROVE  Attempts!Next \/ UNCHANGED Attempts!aloVars
  <2>1. /\ phase[c] = "commit" /\ log' = log /\ tried' = tried
        /\ \/ committed' = [committed EXCEPT ![hand[c].part] = hand[c].offset]
           \/ committed' = committed
    BY <1>3 DEF Commit
  <2>2. /\ hand[c].part \in Partitions
        /\ hand[c].offset \in 1..Len(log[hand[c].part])
        /\ hand[c].offset \in Nat
        /\ 1..hand[c].offset \subseteq tried[hand[c].part]
    BY <2>1 DEF SessionCovered, Records
  <2>3. CASE committed' = [committed EXCEPT ![hand[c].part] = hand[c].offset]
    <3>1. Attempts!Settle(hand[c].part, hand[c].offset)
      BY <2>1, <2>2, <2>3 DEF Attempts!Settle
    <3> QED  BY <2>2, <3>1 DEF Attempts!Next
  <2> QED  BY <1>1, <2>1, <2>3
<1>4. ASSUME NEW topic \in Topics, NEW event \in Payloads, Produce(topic, event)
      PROVE  Attempts!Next \/ UNCHANGED Attempts!aloVars
  <2>1. /\ LogTypeOK'
        /\ \A p \in Partitions : Len(log[p]) <= Len(log'[p])
        /\ UNCHANGED log \/ \E p \in Partitions : \A q \in Partitions \ {p} : log'[q] = log[q]
        /\ tried' = tried /\ committed' = committed
    BY <1>4, PublishAppends DEF Produce, ConsumerTypeOK, cursorVars
  <2> SUFFICES ASSUME NEW p \in Partitions, \A q \in Partitions \ {p} : log'[q] = log[q]
               PROVE  Attempts!Next \/ UNCHANGED Attempts!aloVars
    BY <1>1, <2>1
  <2>2. \A q \in Partitions \ {p} : log'[q] = log[q]
    OBVIOUS
  <2>3. Len(log[p]) \in Nat /\ Len(log'[p]) \in Nat
    BY <2>1, LenProperties DEF ConsumerTypeOK, LogTypeOK
  <2>4. CASE Len(log'[p]) > Len(log[p])
    <3>1. Attempts!Grow(p)
      BY <2>1, <2>2, <2>4 DEF Attempts!Grow
    <3> QED  BY <3>1 DEF Attempts!Next
  <2>5. CASE Len(log'[p]) = Len(log[p])
    <3>1. \A q \in Partitions : Len(log'[q]) = Len(log[q])
      BY <2>2, <2>5
    <3>2. L' = L
      BY <3>1
    <3> QED  BY <2>1, <3>2 DEF Attempts!aloVars
  <2> QED  BY <2>1, <2>3, <2>4, <2>5
<1>5. ASSUME NEW c \in Consumers, Fetch(c) \/ Rebalance(c)
      PROVE  UNCHANGED Attempts!aloVars
  BY <1>1, <1>5 DEF Fetch, Rebalance
<1>6. ASSUME Restart PROVE UNCHANGED Attempts!aloVars
  BY <1>1, <1>6 DEF Restart
<1>7. ASSUME UNCHANGED consumerVars PROVE UNCHANGED Attempts!aloVars
  BY <1>1, <1>7 DEF consumerVars, cursorVars
<1> QED  BY <1>2, <1>3, <1>4, <1>5, <1>6, <1>7 DEF ConsumerNext, ConsumerStep

(* The consumers implement module AtLeastOnce.                             *)
THEOREM ConsumerIsAtLeastOnce == ConsumerSafety => ImplementsAtLeastOnce
<1>1. ConsumerInit => Attempts!Init
  BY DEF ConsumerInit, LogInit, CursorInit, Attempts!Init
<1> QED
  BY <1>1, ConsumerInvariant, ConsumerStepRefines, PTL
  DEF ConsumerSafety, ImplementsAtLeastOnce, Attempts!Spec
-----------------------------------------------------------------------------
(* Every step is one of the service, or none of its variables change.      *)
LEMMA StepsOfTheService ==
    ASSUME ServiceInv, [LastNext]_lastVars
    PROVE  [ServiceNext]_allServiceVars
<1>1. ASSUME NEW r \in Requests, Serve(r) PROVE ServiceNext
  BY <1>1 DEF Serve, ServiceNext
<1>2. ASSUME Environment PROVE ServiceNext
  BY <1>2 DEF Environment, ServiceNext
<1>3. ASSUME NEW c \in Consumers, Consume(c) \/ Regroup(c)
      PROVE  UNCHANGED allServiceVars
  <2>1. UNCHANGED serviceVars
    BY <1>3 DEF Consume, Loop, ReadLatest, WriteLatest, Regroup
  <2>2. UNCHANGED log
    BY <1>3 DEF Consume, Loop, ReadLatest, WriteLatest, Regroup, Rebalance, Fetch, Commit,
                HandlerFails, HandlerSucceeds
  <2> QED  BY <2>1, <2>2 DEF allServiceVars
<1>4. ASSUME Die PROVE ServiceNext \/ UNCHANGED allServiceVars
  <2>1. /\ Abandon
        /\ UNCHANGED <<log, messages, members, now, req, draft, answer, saved, sighted, removed>>
    BY <1>4 DEF Die, Restart
  <2>2. CASE \E r \in Requests : step[r] \notin {"idle", "done"}
    BY <2>1, <2>2 DEF Crash, ServiceNext
  <2>3. CASE \A r \in Requests : step[r] \in {"idle", "done"}
    <3>1. step' = step
      BY <2>1, <2>3 DEF Abandon, ServiceInv, ServiceTypeOK
    <3> QED  BY <2>1, <3>1 DEF allServiceVars, serviceVars
  <2> QED  BY <2>2, <2>3
<1>5. ASSUME UNCHANGED lastVars PROVE UNCHANGED allServiceVars
  BY <1>5 DEF lastVars, allServiceVars
<1> QED  BY <1>1, <1>2, <1>3, <1>4, <1>5 DEF LastNext

(* The requests run in MessageService, unchanged, beside the consumers.     *)
THEOREM LastMessageIsAService == LastSafety => ServiceSpec /\ []ServiceInv
<1>1. LastInit => ServiceInit
  BY DEF LastInit, ServiceInit
<1>2. LastInit /\ [][LastNext]_lastVars => []ServiceInv
  <2>1. ServiceInv /\ [LastNext]_lastVars => ServiceInv'
    BY StepsOfTheService, ServiceNextKeepsInv
  <2> QED  BY <1>1, <2>1, ServiceInitInv, PTL
<1> QED  BY <1>1, <1>2, StepsOfTheService, PTL DEF LastSafety, ServiceSpec

(* What a request publishes is an event that consumers expect.             *)
LEMMA RequestsProduce ==
    ASSUME ServiceInv, NEW r \in Requests, RequestStep(r), UNCHANGED cursorVars
    PROVE  \/ \E topic \in Topics, event \in Payloads : Produce(topic, event)
           \/ UNCHANGED consumerVars
<1>1. ASSUME NEW topic, NEW event \in Payloads, Publish(topic, event)
      PROVE  \/ \E t \in Topics, e \in Payloads : Produce(t, e)
             \/ UNCHANGED consumerVars
  <2>1. CASE UNCHANGED log
    BY <2>1 DEF consumerVars
  <2>2. CASE \E p \in Partitions : TopicOf[p] = topic
    <3>1. topic \in Topics
      BY <2>2, LogAssumption
    <3> QED  BY <1>1, <3>1 DEF Produce
  <2> QED  BY <1>1, <2>1, <2>2 DEF Publish
<1>2. ASSUME PublishCreated(r)
      PROVE  \E m \in draft[r] : CreatedEvent(m) \in Payloads /\ Publish(CreatedTopic, CreatedEvent(m))
  <2>1. PICK m \in draft[r] : Publish(CreatedTopic, CreatedEvent(m))
    BY <1>2 DEF PublishCreated
  <2>2. req[r] # NoRequest
    BY <1>2, ServiceAssumption DEF PublishCreated, ServiceInv, StepsFitKinds
  <2>3. m \in Message
    BY <1>2, <2>2 DEF PublishCreated, ServiceInv, SendsAreStored, ServiceTypeOK
  <2>4. CreatedEvent(m) \in Payloads
    BY <2>3, ServiceAssumption DEF CreatedEvent, CreatedEvents, Message
  <2> QED  BY <2>1, <2>4
<1>3. ASSUME PublishDeleted(r)
      PROVE  DeletedEvent(req[r]) \in Payloads /\ Publish(DeletedTopic, DeletedEvent(req[r]))
  <2>1. req[r] \in DeleteRequests
    BY <1>3, RequestFields DEF PublishDeleted, ServiceInv, StepsFitKinds
  <2> QED  BY <1>3, <2>1, ServiceAssumption
           DEF PublishDeleted, DeletedEvent, DeletedEvents, DeleteRequests
<1>4. ASSUME CheckIsMember(r) \/ SaveMessage(r) \/ DeleteMessage(r) \/ EditMessage(r)
      PROVE  UNCHANGED consumerVars
  BY <1>4 DEF CheckIsMember, SaveMessage, DeleteMessage, EditMessage, consumerVars
<1> QED  BY <1>1, <1>2, <1>3, <1>4 DEF RequestStep

(* Every step is one of the consumers, or none of their variables change.  *)
LEMMA StepsOfTheConsumers ==
    ASSUME ServiceInv, [LastNext]_lastVars
    PROVE  [ConsumerNext]_consumerVars
<1>1. ASSUME NEW r \in Requests, Serve(r) PROVE [ConsumerNext]_consumerVars
  BY <1>1, RequestsProduce DEF Serve, ConsumerNext
<1>2. ASSUME Environment PROVE UNCHANGED consumerVars
  BY <1>2 DEF Environment, Arrive, ChangeMembers, Tick, consumerVars
<1>3. ASSUME NEW c \in Consumers, Consume(c) PROVE [ConsumerNext]_consumerVars
  <2>1. ASSUME Loop(c) PROVE ConsumerNext
    BY <2>1 DEF Loop, ConsumerNext, ConsumerStep
  <2>2. ASSUME ReadLatest(c) PROVE HandlerFails(c) \/ UNCHANGED consumerVars
    BY <2>2 DEF ReadLatest, consumerVars
  <2>3. ASSUME WriteLatest(c) PROVE HandlerSucceeds(c) \/ HandlerFails(c)
    BY <2>3 DEF WriteLatest
  <2> QED  BY <1>3, <2>1, <2>2, <2>3 DEF Consume, ConsumerNext, ConsumerStep
<1>4. ASSUME NEW c \in Consumers, Regroup(c) PROVE ConsumerNext
  BY <1>4 DEF Regroup, ConsumerNext
<1>5. ASSUME Die PROVE ConsumerNext
  BY <1>5 DEF Die, ConsumerNext
<1>6. ASSUME UNCHANGED lastVars PROVE UNCHANGED consumerVars
  BY <1>6 DEF lastVars, consumerVars
<1> QED  BY <1>1, <1>2, <1>3, <1>4, <1>5, <1>6 DEF LastNext

(* LastMessage is built from the actions of the consumers, and so what is  *)
(* proved of these can be used of it.                                      *)
LEMMA HandlersKeepTheConsumers == LastSafety => ConsumerSafety
<1>1. LastInit => ConsumerInit
  BY DEF LastInit, ConsumerInit
<1> QED
  BY <1>1, LastMessageIsAService, StepsOfTheConsumers, PTL DEF LastSafety, ConsumerSafety
-----------------------------------------------------------------------------
(* The versions that handlers hold and chats show were stored.             *)
ShownWereStored ==
    /\ latest \in [Consumers -> SUBSET saved]
    /\ preview \in [Chats -> SUBSET [text : Texts, at : 1..MaxTime]]
    /\ PreviewIsOfTheChat

(* No step shows, or reads in order to show, what was not stored.           *)
LEMMA ShownWereStoredStep ==
    ASSUME ServiceInv, ServiceInv', ShownWereStored, [LastNext]_lastVars
    PROVE  ShownWereStored'
<1> USE DEF ShownWereStored
<1>1. saved \subseteq saved'
  <2>1. [ServiceNext]_allServiceVars
    BY StepsOfTheService
  <2> QED
    BY <2>1 DEF ServiceNext, RequestStep, allServiceVars, serviceVars, Arrive, CheckIsMember,
       SaveMessage, Insert, PublishCreated, PublishDeleted, DeleteMessage, EditMessage, Rewrite,
       ChangeMembers, Tick, Crash
<1>2. ASSUME preview' = preview, latest' \in [Consumers -> SUBSET saved'] PROVE ShownWereStored'
  BY <1>1, <1>2 DEF PreviewIsOfTheChat, Shown
<1>3. ASSUME preview' = preview, latest' = latest PROVE ShownWereStored'
  BY <1>1, <1>2, <1>3
<1>4. ASSUME NEW c \in Consumers, ReadLatest(c) PROVE ShownWereStored'
  <2>1. saved' = saved /\ preview' = preview
    BY <1>4 DEF ReadLatest, serviceVars
  <2>2. \A chat : Latest(messages, chat) \subseteq saved
    BY DEF Latest, InChat, ServiceInv, VersionsAgree
  <2>3. latest' \in [Consumers -> SUBSET saved']
    BY <1>4, <2>1, <2>2 DEF ReadLatest
  <2> QED  BY <1>2, <2>1, <2>3
<1>5. ASSUME NEW c \in Consumers, WriteLatest(c) PROVE ShownWereStored'
  <2>1. saved' = saved /\ latest' \in [Consumers -> SUBSET saved']
    BY <1>5 DEF WriteLatest, NothingRead, serviceVars
  <2>2. PICK m \in latest[c] : preview' = preview \/ Show(m)
    BY <1>5 DEF WriteLatest
  <2>3. CASE preview' = preview
    BY <1>2, <2>1, <2>3
  <2>4. CASE Show(m)
    <3>1. m \in saved /\ m \in Message
      BY DEF ServiceInv, ServiceTypeOK
    <3>2. /\ m.chat \in Chats
          /\ preview' = [preview EXCEPT ![m.chat] = {Shown(m)}]
          /\ Shown(m) \in [text : Texts, at : 1..MaxTime]
      BY <2>4, <3>1 DEF Show, Shown, Message
    <3>3. preview' \in [Chats -> SUBSET [text : Texts, at : 1..MaxTime]]
      BY <3>2
    <3>4. PreviewIsOfTheChat'
      BY <2>1, <3>1, <3>2 DEF PreviewIsOfTheChat, Shown
    <3> QED  BY <2>1, <3>3, <3>4
  <2> QED  BY <2>2, <2>3, <2>4
<1>6. ASSUME Die PROVE ShownWereStored'
  <2>1. preview' = preview /\ latest' \in [Consumers -> SUBSET saved']
    BY <1>6 DEF Die
  <2> QED  BY <1>2, <2>1
<1>7. ASSUME \/ \E r \in Requests : Serve(r)
             \/ \E c \in Consumers : Loop(c) \/ Regroup(c)
             \/ Environment
             \/ UNCHANGED lastVars
      PROVE  ShownWereStored'
  <2>1. preview' = preview /\ latest' = latest
    BY <1>7 DEF Serve, Loop, Regroup, Environment, lastVars, previewVars
  <2> QED  BY <1>3, <2>1
<1> QED  BY <1>4, <1>5, <1>6, <1>7 DEF LastNext, Consume

(* A chat never shows anything but a version of one of its own messages.   *)
THEOREM PreviewsAreOfTheirChats == LastSafety => []PreviewIsOfTheChat
<1>1. LastInit => ShownWereStored
  BY DEF LastInit, RequestsInit, ShownWereStored, PreviewIsOfTheChat
<1>2. ShownWereStored => PreviewIsOfTheChat
  BY DEF ShownWereStored
<1> QED  BY <1>1, <1>2, LastMessageIsAService, ShownWereStoredStep, PTL DEF LastSafety
-----------------------------------------------------------------------------
(* The consumers have nothing to do: their partitions are empty.           *)
NothingArrives ==
    /\ \A p \in Partitions : TopicOf[p] \notin {CreatedTopic, DeletedTopic} => log[p] = <<>>
    /\ \A c \in Consumers : phase[c] = "fetch"
    /\ NothingShown

(* Publishing an event of a message leaves other topics alone.             *)
LEMMA OtherTopicsStayEmpty ==
    ASSUME LogTypeOK, NothingArrives,
           NEW topic \in {CreatedTopic, DeletedTopic}, NEW event, Publish(topic, event)
    PROVE  \A p \in Partitions : TopicOf[p] \notin {CreatedTopic, DeletedTopic} => log'[p] = <<>>
<1>1. CASE UNCHANGED log
  BY <1>1 DEF NothingArrives
<1>2. CASE \E q \in Partitions, n \in Deliveries :
              TopicOf[q] = topic /\ log' = [log EXCEPT ![q] = @ \o Copies(event, n)]
  <2>1. PICK q \in Partitions, n \in Deliveries :
              TopicOf[q] = topic /\ log' = [log EXCEPT ![q] = @ \o Copies(event, n)]
    BY <1>2
  <2>2. \A p \in Partitions : p # q => log'[p] = log[p]
    BY <2>1 DEF LogTypeOK
  <2> QED  BY <2>1, <2>2 DEF NothingArrives
<1> QED  BY <1>1, <1>2 DEF Publish

(* Nothing can be fetched, therefore nothing is read and nothing shown.    *)
LEMMA NothingArrivesStep ==
    ASSUME \A c \in Consumers : Subscribed[c] \notin {CreatedTopic, DeletedTopic},
           ServiceInv, ConsumerTypeOK, NothingArrives, [LastNext]_lastVars
    PROVE  NothingArrives'
<1> USE DEF NothingArrives
<1>1. ASSUME preview' = preview, phase' = phase, log' = log PROVE NothingArrives'
  BY <1>1 DEF NothingShown
<1>2. ASSUME NEW r \in Requests, Serve(r) PROVE NothingArrives'
  <2>1. preview' = preview /\ phase' = phase
    BY <1>2 DEF Serve, previewVars, cursorVars
  <2>2. \A p \in Partitions : TopicOf[p] \notin {CreatedTopic, DeletedTopic} => log'[p] = <<>>
    <3>1. CASE PublishCreated(r)
      BY <3>1, OtherTopicsStayEmpty DEF PublishCreated, ServiceInv, ServiceTypeOK
    <3>2. CASE PublishDeleted(r)
      BY <3>2, OtherTopicsStayEmpty DEF PublishDeleted, ServiceInv, ServiceTypeOK
    <3>3. CASE CheckIsMember(r) \/ SaveMessage(r) \/ DeleteMessage(r) \/ EditMessage(r)
      BY <3>3 DEF CheckIsMember, SaveMessage, DeleteMessage, EditMessage
    <3> QED  BY <1>2, <3>1, <3>2, <3>3 DEF Serve, RequestStep
  <2> QED  BY <2>1, <2>2 DEF NothingShown
<1>3. ASSUME NEW c \in Consumers, Consume(c) PROVE FALSE
  <2>1. \A p \in Assigned(c) : log[p] = <<>>
    BY DEF Assigned
  <2>2. ~Fetch(c)
    <3> SUFFICES ASSUME NEW p \in Assigned(c), position[p] < Len(log[p]), Fetch(c)
                 PROVE  FALSE
      BY DEF Fetch
    <3>1. Len(log[p]) = 0
      BY <2>1
    <3>2. position[p] \in Nat
      BY DEF Assigned, ConsumerTypeOK
    <3> QED  BY <3>1, <3>2
  <2>3. ~Commit(c) /\ ~ReadLatest(c) /\ ~WriteLatest(c)
    BY DEF Commit, ReadLatest, WriteLatest
  <2> QED  BY <1>3, <2>2, <2>3 DEF Consume, Loop
<1>4. ASSUME \/ \E c \in Consumers : Regroup(c)
             \/ Environment
             \/ UNCHANGED lastVars
      PROVE  NothingArrives'
  <2>1. preview' = preview /\ phase' = phase /\ log' = log
    BY <1>4 DEF Regroup, Rebalance, Environment, Arrive, ChangeMembers, Tick, lastVars,
                previewVars, cursorVars
  <2> QED  BY <1>1, <2>1
<1>5. ASSUME Die PROVE NothingArrives'
  BY <1>5 DEF Die, Restart, NothingShown, ConsumerTypeOK
<1> QED  BY <1>2, <1>3, <1>4, <1>5 DEF LastNext

(* With consumers subscribed to topics that producer.go does not write to, *)
(* as cmd/app/main.go has it, no chat ever shows a message.                *)
THEOREM UnreadTopicsShowNothing ==
    ASSUME \A c \in Consumers : Subscribed[c] \notin {CreatedTopic, DeletedTopic}
    PROVE  LastSafety => []NothingShown
<1>1. LastInit => NothingArrives
  BY DEF LastInit, LogInit, CursorInit, NothingArrives, NothingShown
<1>2. NothingArrives => NothingShown
  BY DEF NothingArrives
<1>3. ServiceInv /\ ConsumerTypeOK /\ NothingArrives /\ [LastNext]_lastVars => NothingArrives'
  BY NothingArrivesStep
<1>4. LastSafety => []ConsumerTypeOK
  BY HandlersKeepTheConsumers, ConsumerTypeCorrect, PTL
<1> QED  BY <1>1, <1>2, <1>3, <1>4, LastMessageIsAService, PTL DEF LastSafety

(* With a table that lacks a column UpdateChatLastMessage sets, as the     *)
(* migrations have it, no chat ever shows a message either.                *)
THEOREM MissingColumnShowsNothing ==
    ASSUME ~ UpdatedColumns \subseteq ChatColumns
    PROVE  LastSafety => []NothingShown
<1>1. LastInit => NothingShown
  BY DEF LastInit, NothingShown
<1>2. NothingShown /\ [LastNext]_lastVars => NothingShown'
  <2> SUFFICES ASSUME NothingShown, [LastNext]_lastVars PROVE preview' = preview
    BY DEF NothingShown
  <2>1. ASSUME NEW c \in Consumers, Consume(c) \/ Regroup(c) PROVE preview' = preview
    BY <2>1 DEF Consume, Loop, ReadLatest, WriteLatest, Regroup, previewVars
  <2>2. ASSUME \/ \E r \in Requests : Serve(r)
               \/ Environment
               \/ Die
               \/ UNCHANGED lastVars
        PROVE  preview' = preview
    BY <2>2 DEF Serve, Environment, Die, lastVars, previewVars
  <2> QED  BY <2>1, <2>2 DEF LastNext
<1> QED  BY <1>1, <1>2, PTL DEF LastSafety
-----------------------------------------------------------------------------
(* Nobody asks for a deletion.                                             *)
NoDeletions == Workload \cap DeleteRequests = {}

(* What the log and the collection hold while nothing is deleted: of every *)
(* message its last version, which differs from the others in its text.    *)
NoneIsDeleted ==
    /\ \A r \in Requests : req[r] # NoRequest => req[r].kind # "delete"
    /\ \A m \in saved : \E n \in messages : n.id = m.id /\ n.chat = m.chat /\ n.at = m.at
    /\ \A m, n \in messages : m.id = n.id => m = n
    /\ \A p \in Partitions : \A o \in 1..Len(log[p]) :
          TopicOf[p] = CreatedTopic /\ \E m \in saved : log[p][o] = CreatedEvent(m)

(* Attempts are made of events that are there.                             *)
TriedAreInLog == \A p \in Partitions : tried[p] \subseteq 1..Len(log[p])

(* What a handler is about to show is newer than what the chat shows, than *)
(* its event and than all the events of the chat that were handled before. *)
ReadIsNewest ==
    \A c \in Consumers :
        /\ latest[c] # {} => phase[c] = "handle"
        /\ \A m \in latest[c] :
              /\ m.chat = Event(c).chat
              /\ ~ Older(m, Event(c))
              /\ \A shown \in preview[m.chat] : shown.at <= m.at
              /\ \A p \in Partitions : \A o \in tried[p] :
                    log[p][o].chat = m.chat => ~ Older(m, log[p][o])

Visible(event) == \E shown \in preview[event.chat] : event.at <= shown.at

(* A handler that succeeds makes up for those before it in its chat.       *)
HandledIsVisible ==
    \A c \in Consumers : phase[c] = "commit" =>
        \A o \in 1..hand[c].offset :
            log[hand[c].part][o].chat = Event(c).chat => Visible(log[hand[c].part][o])

ForwardInv ==
    /\ NoneIsDeleted
    /\ TriedAreInLog
    /\ ReadIsNewest
    /\ HandledIsVisible
    /\ CommittedMeansVisible
-----------------------------------------------------------------------------
(* What the invariants of the parts say when they hold together.           *)
PartsInv == ServiceInv /\ ConsumerInv /\ ShownWereStored

(* The fields of a stored message and of its event.                        *)
LEMMA StoredFields ==
    ASSUME ServiceTypeOK, NEW m \in saved
    PROVE  /\ m \in Message
           /\ m.id \in Nat /\ m.at \in Nat /\ m.chat \in Chats
           /\ CreatedEvent(m).id = m.id /\ CreatedEvent(m).at = m.at
           /\ CreatedEvent(m).chat = m.chat /\ CreatedEvent(m) \in CreatedEvents
<1>1. m \in Message /\ MessageIds \subseteq Nat /\ MaxTime \in Nat
  BY ServiceAssumption DEF ServiceTypeOK
<1>2. m.id \in MessageIds /\ m.at \in 1..MaxTime /\ m.chat \in Chats
  BY <1>1 DEF Message
<1>3. m.id \in Nat
  BY <1>1, <1>2
<1>4. m.at \in Nat
  BY <1>1, <1>2
<1>5. CreatedEvent(m) \in CreatedEvents
  BY <1>2 DEF CreatedEvent, CreatedEvents
<1> QED  BY <1>1, <1>2, <1>3, <1>4, <1>5 DEF CreatedEvent

(* GetLatestMessage returns the newest message of the chat.                *)
LEMMA LatestIsNewest ==
    ASSUME ServiceTypeOK, messages \subseteq saved, NoneIsDeleted,
           NEW chat, NEW m \in Latest(messages, chat), NEW n \in saved, n.chat = chat
    PROVE  /\ m \in saved /\ m.chat = chat
           /\ ~ Older(m, n) /\ n.at <= m.at
<1>1. m \in saved /\ m.chat = chat /\ ((n.id = m.id /\ n.at = m.at) \/ Older(n, m))
  <2>1. PICK k \in messages : k.id = n.id /\ k.chat = n.chat /\ k.at = n.at
    BY DEF NoneIsDeleted
  <2>2. m \in saved /\ m.chat = chat /\ (k = m \/ Older(k, m))
    BY <2>1 DEF Latest, InChat
  <2> QED  BY <2>1, <2>2 DEF Older
<1>2. m.at \in Nat /\ m.id \in Nat /\ n.at \in Nat /\ n.id \in Nat
  BY <1>1, StoredFields
<1> QED  BY <1>1, <1>2 DEF Older

(* A consumer with an event in hand reads the creation events, and is the  *)
(* only one; the event is that of a stored message.                        *)
LEMMA EventInHand ==
    ASSUME ConsumerInv, NoneIsDeleted, NEW c \in Consumers, phase[c] # "fetch"
    PROVE  /\ hand[c].part \in Partitions /\ hand[c].offset \in Nat
           /\ hand[c].offset \in 1..Len(log[hand[c].part])
           /\ 1..(hand[c].offset - 1) \subseteq tried[hand[c].part]
           /\ \E m \in saved : Event(c) = CreatedEvent(m)
           /\ \A d \in Consumers : phase[d] # "fetch" => d = c
<1>1. ASSUME NEW d \in Consumers, phase[d] # "fetch"
      PROVE  /\ hand[d] \in Records
             /\ hand[d].part \in Assigned(d)
             /\ hand[d].offset \in 1..Len(log[hand[d].part])
             /\ 1..(hand[d].offset - 1) \subseteq tried[hand[d].part]
             /\ Subscribed[d] = CreatedTopic
             /\ \E m \in saved : Event(d) = CreatedEvent(m)
  <2>1. /\ hand[d] \in Records
        /\ hand[d].part \in Assigned(d)
        /\ hand[d].offset \in 1..Len(log[hand[d].part])
        /\ 1..(hand[d].offset - 1) \subseteq tried[hand[d].part]
    BY <1>1 DEF ConsumerInv, SessionCovered
  <2> QED  BY <2>1 DEF NoneIsDeleted, Assigned, Event
<1>2. \A d \in Consumers : phase[d] # "fetch" => d = c
  BY <1>1, ConsumerAssumption
<1> QED  BY <1>1, <1>2 DEF Records

(* Commits are of events that are there.                                   *)
LEMMA CommittedAreInLog ==
    ASSUME ConsumerInv, TriedAreInLog, NEW p \in Partitions, NEW o \in 1..committed[p]
    PROVE  o \in tried[p] /\ o \in 1..Len(log[p]) /\ committed[p] \in 1..Len(log[p])
<1>1. 1..committed[p] \subseteq tried[p] /\ tried[p] \subseteq 1..Len(log[p])
  BY DEF ConsumerInv, CommittedWereAttempted, TriedAreInLog
<1>2. committed[p] \in 1..committed[p]
  BY DEF ConsumerInv, ConsumerTypeOK
<1> QED  BY <1>1, <1>2

(* The steps that neither write nor handle: a handler may be abandoned.    *)
LEMMA OthersKeepForward ==
    ASSUME ForwardInv, log' = log, messages' = messages, saved' = saved, preview' = preview,
           tried' = tried, committed' = committed,
           \A r \in Requests : req'[r] # NoRequest => req'[r].kind # "delete",
           \A c \in Consumers :
              \/ latest'[c] = {} /\ phase'[c] # "commit"
              \/ latest'[c] = latest[c] /\ hand'[c] = hand[c] /\ phase'[c] = phase[c]
    PROVE  ForwardInv'
<1>1. NoneIsDeleted' /\ TriedAreInLog' /\ CommittedMeansVisible'
  BY DEF ForwardInv, NoneIsDeleted, TriedAreInLog, CommittedMeansVisible
<1>2. ReadIsNewest'
  BY DEF ForwardInv, ReadIsNewest, Event
<1>3. HandledIsVisible'
  BY DEF ForwardInv, HandledIsVisible, Event, Visible
<1> QED  BY <1>1, <1>2, <1>3 DEF ForwardInv

(* An inserted message has an id of its own.                               *)
LEMMA SaveKeepsForward ==
    ASSUME PartsInv, ForwardInv, NEW r \in Requests, SaveMessage(r),
           UNCHANGED <<cursorVars, previewVars>>
    PROVE  ForwardInv'
<1>1. PICK m \in draft[r], id \in MessageIds \ UsedIds :
          Insert([m EXCEPT !.id = id]) \/ UNCHANGED <<messages, saved>>
  BY DEF SaveMessage
<1>2. /\ log' = log /\ req' = req /\ preview' = preview /\ latest' = latest
      /\ tried' = tried /\ committed' = committed /\ hand' = hand /\ phase' = phase
  BY DEF SaveMessage, cursorVars, previewVars
<1>3. CASE UNCHANGED <<messages, saved>>
  BY <1>2, <1>3, OthersKeepForward DEF ForwardInv, NoneIsDeleted
<1>4. CASE Insert([m EXCEPT !.id = id])
  <2>1. [m EXCEPT !.id = id].id = id /\ \A n \in saved : n.id # id
    BY DEF PartsInv, ServiceInv, ServiceTypeOK, UsedIds
  <2>2. NoneIsDeleted'
    <3> DEFINE new == [m EXCEPT !.id = id]
    <3>1. messages' = messages \cup {new} /\ saved' = saved \cup {new}
      BY <1>4 DEF Insert
    <3>2. \A n \in messages : n.id # new.id
      BY <2>1 DEF PartsInv, ServiceInv, VersionsAgree
    <3> HIDE DEF new
    <3> QED  BY <1>2, <3>1, <3>2 DEF ForwardInv, NoneIsDeleted
  <2>3. TriedAreInLog' /\ ReadIsNewest' /\ HandledIsVisible' /\ CommittedMeansVisible'
    BY <1>2 DEF ForwardInv, TriedAreInLog, ReadIsNewest, HandledIsVisible, CommittedMeansVisible,
                Event, Visible
  <2> QED  BY <2>2, <2>3 DEF ForwardInv
<1> QED  BY <1>1, <1>3, <1>4

(* An edit replaces messages by others with their ids and times.           *)
LEMMA EditKeepsForward ==
    ASSUME PartsInv, ForwardInv, NEW r \in Requests, EditMessage(r),
           UNCHANGED <<cursorVars, previewVars>>
    PROVE  ForwardInv'
<1>1. /\ log' = log /\ req' = req /\ preview' = preview /\ latest' = latest
      /\ tried' = tried /\ committed' = committed /\ hand' = hand /\ phase' = phase
  BY DEF EditMessage, cursorVars, previewVars
<1>2. UNCHANGED <<messages, saved>> \/ Rewrite(r)
  BY DEF EditMessage
<1>3. CASE UNCHANGED <<messages, saved>>
  BY <1>1, <1>3, OthersKeepForward DEF ForwardInv, NoneIsDeleted
<1>4. CASE Rewrite(r)
  <2> DEFINE edited(m) == [m EXCEPT !.text = req[r].text]
  <2>1. \A m \in messages : /\ edited(m).id = m.id
                           /\ edited(m).chat = m.chat
                           /\ edited(m).at = m.at
    BY DEF PartsInv, ServiceInv, ServiceTypeOK, Message
  <2>2. Matching(r) \subseteq messages
    BY DEF Matching, OwnMessages
  <2>3. /\ messages' = (messages \ Matching(r)) \cup {edited(m) : m \in Matching(r)}
        /\ saved' \subseteq saved \cup messages'
    BY <1>4 DEF Rewrite, WithText
  <2> HIDE DEF edited
  <2>4. ASSUME NEW m \in messages'
        PROVE  \E k \in messages : /\ k.id = m.id /\ k.chat = m.chat /\ k.at = m.at
                                  /\ m = IF k \in Matching(r) THEN edited(k) ELSE k
    BY <2>1, <2>2, <2>3
  <2>5. ASSUME NEW m \in messages
        PROVE  \E n \in messages' : n.id = m.id /\ n.chat = m.chat /\ n.at = m.at
    BY <2>1, <2>2, <2>3
  <2>6. ASSUME NEW m \in saved'
        PROVE  \E n \in messages' : n.id = m.id /\ n.chat = m.chat /\ n.at = m.at
    <3>1. CASE m \in messages'
      BY <3>1
    <3>2. CASE m \in saved
      <4>1. PICK k \in messages : k.id = m.id /\ k.chat = m.chat /\ k.at = m.at
        BY <3>2 DEF ForwardInv, NoneIsDeleted
      <4> QED  BY <2>5, <4>1
    <3> QED  BY <2>3, <3>1, <3>2
  <2>7. ASSUME NEW m \in messages', NEW n \in messages', m.id = n.id PROVE m = n
    <3>1. PICK k \in messages : k.id = m.id /\ m = IF k \in Matching(r) THEN edited(k) ELSE k
      BY <2>4
    <3>2. PICK l \in messages : l.id = n.id /\ n = IF l \in Matching(r) THEN edited(l) ELSE l
      BY <2>4
    <3>3. k = l
      BY <2>7, <3>1, <3>2 DEF ForwardInv, NoneIsDeleted
    <3> QED  BY <3>1, <3>2, <3>3
  <2>8. saved \subseteq saved'
    BY <1>4 DEF Rewrite
  <2>9. NoneIsDeleted'
    BY <1>1, <2>6, <2>7, <2>8 DEF ForwardInv, NoneIsDeleted
  <2>10. TriedAreInLog' /\ ReadIsNewest' /\ HandledIsVisible' /\ CommittedMeansVisible'
    BY <1>1 DEF ForwardInv, TriedAreInLog, ReadIsNewest, HandledIsVisible, CommittedMeansVisible,
                Event, Visible
  <2> QED  BY <2>9, <2>10 DEF ForwardInv
<1> QED  BY <1>2, <1>3, <1>4

(* An event is published after those that are in hand, tried or committed. *)
LEMMA PublishKeepsForward ==
    ASSUME PartsInv, ForwardInv, NEW r \in Requests, PublishCreated(r),
           UNCHANGED <<cursorVars, previewVars>>
    PROVE  ForwardInv'
<1>1. PICK m \in draft[r] : Publish(CreatedTopic, CreatedEvent(m))
  BY DEF PublishCreated
<1>2. m \in saved
  <2>1. req[r] # NoRequest /\ req[r].kind = "send" /\ step[r] = "publish"
    BY ServiceAssumption DEF PublishCreated, PartsInv, ServiceInv, StepsFitKinds
  <2> QED  BY <2>1 DEF PartsInv, ServiceInv, SendsAreStored
<1>3. CreatedEvent(m) \in Payloads /\ LogTypeOK
  BY <1>2, StoredFields, ServiceAssumption DEF PartsInv, ServiceInv, ServiceTypeOK
<1>4. /\ \A q \in Partitions : Len(log[q]) \in Nat /\ Len(log'[q]) \in Nat
      /\ \A q \in Partitions : Len(log[q]) <= Len(log'[q])
      /\ \A q \in Partitions : \A i \in 1..Len(log'[q]) :
            IF i <= Len(log[q]) THEN log'[q][i] = log[q][i]
            ELSE TopicOf[q] = CreatedTopic /\ log'[q][i] = CreatedEvent(m)
  BY <1>1, <1>3, PublishAppends
<1>5. /\ req' = req /\ messages' = messages /\ saved' = saved
      /\ preview' = preview /\ latest' = latest
      /\ tried' = tried /\ committed' = committed /\ hand' = hand /\ phase' = phase
  BY DEF PublishCreated, cursorVars, previewVars
<1>6. \A q \in Partitions : \A i \in 1..Len(log[q]) : log'[q][i] = log[q][i]
  BY <1>4
<1>7. NoneIsDeleted'
  <2>1. ASSUME NEW q \in Partitions, NEW i \in 1..Len(log'[q])
        PROVE  TopicOf[q] = CreatedTopic /\ \E n \in saved : log'[q][i] = CreatedEvent(n)
    <3>1. CASE i <= Len(log[q])
      <4>1. i \in 1..Len(log[q]) /\ log'[q][i] = log[q][i]
        BY <1>4, <3>1
      <4> QED  BY <4>1 DEF ForwardInv, NoneIsDeleted
    <3>2. CASE ~ i <= Len(log[q])
      BY <1>2, <1>4, <3>2
    <3> QED  BY <3>1, <3>2
  <2> QED  BY <1>5, <2>1 DEF ForwardInv, NoneIsDeleted
<1>8. TriedAreInLog'
  BY <1>4, <1>5 DEF ForwardInv, TriedAreInLog
<1>9. ASSUME NEW c \in Consumers, phase[c] # "fetch"
      PROVE  /\ Event(c)' = Event(c) /\ hand[c].part \in Partitions
             /\ \A o \in 1..hand[c].offset : log'[hand[c].part][o] = log[hand[c].part][o]
  <2>1. /\ hand[c].part \in Partitions /\ hand[c].offset \in Nat
        /\ hand[c].offset \in 1..Len(log[hand[c].part])
    BY <1>9, EventInHand DEF PartsInv, ForwardInv
  <2>2. \A o \in 1..hand[c].offset : o \in 1..Len(log[hand[c].part])
    BY <1>4, <2>1
  <2> QED  BY <1>5, <1>6, <2>1, <2>2 DEF Event
<1>10. ReadIsNewest'
  <2>1. \A p \in Partitions : \A o \in tried[p] : log'[p][o] = log[p][o]
    BY <1>6 DEF ForwardInv, TriedAreInLog
  <2> QED  BY <1>5, <1>9, <2>1 DEF ForwardInv, ReadIsNewest
<1>11. HandledIsVisible'
  BY <1>5, <1>9 DEF ForwardInv, HandledIsVisible, Visible
<1>12. CommittedMeansVisible'
  <2> SUFFICES ASSUME NEW p \in Partitions, TopicOf[p] = CreatedTopic,
                      NEW o \in 1..committed[p], committed[p] > 0
               PROVE  log'[p][o] = log[p][o] /\ log'[p][committed[p]] = log[p][committed[p]]
    BY <1>5 DEF ForwardInv, CommittedMeansVisible
  <2> QED  BY <1>6, CommittedAreInLog DEF PartsInv, ForwardInv
<1> QED  BY <1>7, <1>8, <1>10, <1>11, <1>12 DEF ForwardInv

(* GetLatestMessage is newer than what is shown and what is in the log.    *)
LEMMA ReadKeepsForward ==
    ASSUME PartsInv, ForwardInv, NEW c \in Consumers, ReadLatest(c)
    PROVE  ForwardInv'
<1> USE DEF PartsInv, ForwardInv
<1>1. /\ phase[c] = "handle" /\ latest[c] = {} /\ preview' = preview
      /\ req' = req /\ messages' = messages /\ saved' = saved
  BY DEF ReadLatest, serviceVars
<1>2. PICK e \in saved : Event(c) = CreatedEvent(e)
  BY <1>1, EventInHand
<1>3. CASE /\ latest' = [latest EXCEPT ![c] = Latest(messages, Event(c).chat)]
           /\ UNCHANGED <<log, cursorVars>>
  <2>1. /\ log' = log /\ hand' = hand /\ phase' = phase /\ tried' = tried
        /\ committed' = committed
    BY <1>3 DEF cursorVars
  <2>2. NoneIsDeleted' /\ TriedAreInLog' /\ HandledIsVisible' /\ CommittedMeansVisible'
    BY <1>1, <2>1 DEF NoneIsDeleted, TriedAreInLog, HandledIsVisible, CommittedMeansVisible,
                      Event, Visible
  <2>3. ASSUME NEW m \in Latest(messages, Event(c).chat)
        PROVE  /\ m.chat = Event(c).chat
               /\ ~ Older(m, Event(c))
               /\ \A shown \in preview[m.chat] : shown.at <= m.at
               /\ \A p \in Partitions : \A o \in tried[p] :
                     log[p][o].chat = m.chat => ~ Older(m, log[p][o])
    <3>1. \A n \in saved : n.chat = Event(c).chat =>
              m.chat = Event(c).chat /\ ~ Older(m, n) /\ n.at <= m.at
      BY LatestIsNewest DEF ServiceInv, VersionsAgree
    <3>2. \A n \in saved : n.chat = Event(c).chat => ~ Older(m, CreatedEvent(n))
      BY <3>1 DEF CreatedEvent, Older
    <3>3. m.chat = Event(c).chat /\ ~ Older(m, Event(c))
      BY <1>2, <3>1, <3>2, StoredFields DEF ServiceInv
    <3>4. Event(c).chat \in Chats
      BY <1>2, StoredFields DEF ServiceInv
    <3>5. ASSUME NEW shown \in preview[m.chat] PROVE shown.at <= m.at
      <4>1. PICK k \in saved : k.chat = m.chat /\ shown = Shown(k)
        BY <3>3, <3>4, <3>5 DEF ShownWereStored, PreviewIsOfTheChat
      <4> QED  BY <3>1, <3>3, <4>1 DEF Shown
    <3>6. ASSUME NEW p \in Partitions, NEW o \in tried[p], log[p][o].chat = m.chat
          PROVE  ~ Older(m, log[p][o])
      <4>1. PICK k \in saved : log[p][o] = CreatedEvent(k)
        BY <3>6 DEF NoneIsDeleted, TriedAreInLog
      <4> QED  BY <3>2, <3>3, <3>6, <4>1, StoredFields DEF ServiceInv
    <3> QED  BY <3>3, <3>5, <3>6
  <2>4. latest'[c] = Latest(messages, Event(c).chat)
        /\ \A d \in Consumers \ {c} : latest'[d] = latest[d]
    BY <1>3 DEF ShownWereStored
  <2>5. ReadIsNewest'
    BY <1>1, <2>1, <2>3, <2>4 DEF ReadIsNewest, Event
  <2> QED  BY <2>2, <2>5
<1>4. CASE HandlerFails(c) /\ UNCHANGED latest
  <2>1. /\ log' = log /\ committed' = committed
        /\ phase'[c] = "fetch" /\ \A d \in Consumers \ {c} : phase'[d] = phase[d]
        /\ \A p \in Partitions : tried'[p] \subseteq tried[p] \cup {hand[c].offset}
        /\ \A p \in Partitions : p # hand[c].part => tried'[p] = tried[p]
    BY <1>4 DEF HandlerFails, Attempted, ConsumerInv, ConsumerTypeOK
  <2>2. \A d \in Consumers : phase'[d] = "fetch" /\ latest'[d] = {}
    <3>1. \A d \in Consumers \ {c} : phase[d] = "fetch"
      BY <1>1, EventInHand
    <3> QED  BY <1>1, <1>4, <2>1, <3>1 DEF ReadIsNewest
  <2>3. TriedAreInLog'
    BY <1>1, <2>1, EventInHand DEF TriedAreInLog
  <2>4. NoneIsDeleted' /\ CommittedMeansVisible'
    BY <1>1, <2>1 DEF NoneIsDeleted, CommittedMeansVisible
  <2>5. ReadIsNewest' /\ HandledIsVisible'
    BY <2>2 DEF ReadIsNewest, HandledIsVisible
  <2> QED  BY <2>3, <2>4, <2>5
<1> QED  BY <1>3, <1>4 DEF ReadLatest

(* A chat that is written shows a message that is not older than what it   *)
(* showed: nobody has written since it was read.                           *)
LEMMA WritesGoForward ==
    ASSUME PartsInv, ForwardInv, NEW c \in Consumers, WriteLatest(c)
    PROVE  /\ \A event : event.chat \in Chats /\ event.at \in Nat /\ Visible(event) => Visible(event)'
           /\ \A chat \in Chats : \A shown \in preview[chat] :
                 \E later \in preview'[chat] : shown.at <= later.at
<1> USE DEF PartsInv, ForwardInv
<1>1. PICK m \in latest[c] : preview' = preview \/ Show(m)
  BY DEF WriteLatest
<1>2. m \in saved /\ m.at \in Nat /\ m.chat \in Chats
  BY StoredFields DEF ShownWereStored, ServiceInv
<1>3. \A chat \in Chats : \A shown \in preview[chat] : shown.at \in Nat
  BY DEF ShownWereStored
<1>4. ASSUME NEW chat \in Chats, NEW shown \in preview[chat]
      PROVE  \E later \in preview'[chat] : shown.at <= later.at /\ later.at \in Nat
  <2>1. CASE preview'[chat] = preview[chat]
    BY <1>3, <1>4, <2>1
  <2>2. CASE chat = m.chat /\ preview'[chat] = {Shown(m)}
    <3>1. shown.at <= Shown(m).at /\ Shown(m).at \in Nat
      BY <1>2, <1>4, <2>2 DEF ReadIsNewest, Shown
    <3> QED  BY <2>2, <3>1
  <2>3. preview'[chat] = preview[chat] \/ (chat = m.chat /\ preview'[chat] = {Shown(m)})
    BY <1>1, <1>2 DEF Show, ShownWereStored
  <2> QED  BY <2>1, <2>2, <2>3
<1>5. ASSUME NEW event, event.chat \in Chats, event.at \in Nat, Visible(event)
      PROVE  Visible(event)'
  <2>1. PICK shown \in preview[event.chat] : event.at <= shown.at
    BY <1>5 DEF Visible
  <2>2. PICK later \in preview'[event.chat] : shown.at <= later.at /\ later.at \in Nat
    BY <1>4, <1>5
  <2>3. event.at <= later.at
    BY <1>3, <1>5, <2>1, <2>2
  <2> QED  BY <2>3 DEF Visible
<1> QED  BY <1>4, <1>5

(* Writing leaves one consumer, which holds what it has read, with nothing *)
(* to show, and its event shown if it reports no error.                    *)
LEMMA WriteKeepsForward ==
    ASSUME PartsInv, ForwardInv, NEW c \in Consumers, WriteLatest(c)
    PROVE  ForwardInv'
<1> USE DEF PartsInv, ForwardInv
<1>1. PICK m \in latest[c] : HandlerFails(c) \/ (HandlerSucceeds(c) /\ Show(m))
  BY DEF WriteLatest
<1>2. /\ phase[c] = "handle" /\ Attempted(c) /\ log' = log /\ committed' = committed
      /\ req' = req /\ messages' = messages /\ saved' = saved
      /\ latest' = [latest EXCEPT ![c] = {}]
  BY <1>1 DEF WriteLatest, NothingRead, serviceVars, HandlerFails, HandlerSucceeds
<1>3. \A d \in Consumers \ {c} : phase[d] = "fetch" /\ phase'[d] = "fetch"
  <2>1. \A d \in Consumers \ {c} : phase[d] = "fetch"
    BY <1>2, EventInHand
  <2>2. \A d \in Consumers \ {c} : phase'[d] = phase[d]
    BY <1>1 DEF HandlerFails, HandlerSucceeds, ConsumerInv, ConsumerTypeOK
  <2> QED  BY <2>1, <2>2
<1>4. \A d \in Consumers : latest'[d] = {}
  BY <1>2, <1>3 DEF ShownWereStored, ReadIsNewest
<1>5. /\ hand[c].part \in Partitions /\ hand[c].offset \in Nat
      /\ hand[c].offset \in 1..Len(log[hand[c].part])
      /\ 1..(hand[c].offset - 1) \subseteq tried[hand[c].part]
  BY <1>2, EventInHand
<1>6. TriedAreInLog'
  <2>1. /\ tried'[hand[c].part] = tried[hand[c].part] \cup {hand[c].offset}
        /\ \A p \in Partitions : p # hand[c].part => tried'[p] = tried[p]
    BY <1>2, <1>5 DEF Attempted, ConsumerInv, ConsumerTypeOK
  <2> QED  BY <1>2, <1>5, <2>1 DEF TriedAreInLog
<1>7. NoneIsDeleted' /\ ReadIsNewest'
  BY <1>2, <1>4 DEF NoneIsDeleted, ReadIsNewest
<1>8. CommittedMeansVisible'
  <2> SUFFICES ASSUME NEW p \in Partitions, TopicOf[p] = CreatedTopic, committed[p] > 0,
                      NEW o \in 1..committed[p], log[p][o].chat = log[p][committed[p]].chat
               PROVE  Visible(log[p][o])'
    BY <1>2 DEF CommittedMeansVisible, Visible
  <2>1. Visible(log[p][o])
    BY DEF CommittedMeansVisible, Visible
  <2>2. PICK k \in saved : log[p][o] = CreatedEvent(k)
    BY CommittedAreInLog DEF NoneIsDeleted
  <2>3. log[p][o].chat \in Chats /\ log[p][o].at \in Nat
    BY <2>2, StoredFields DEF ServiceInv
  <2>4. \A event : event.chat \in Chats /\ event.at \in Nat /\ Visible(event) => Visible(event)'
    BY WritesGoForward
  <2>5. log' = log
    BY <1>2
  <2> QED  BY <2>1, <2>3, <2>4, <2>5 DEF Visible
<1>9. HandledIsVisible'
  <2>1. CASE HandlerFails(c)
    <3>1. phase'[c] = "fetch"
      BY <2>1 DEF HandlerFails, ConsumerInv, ConsumerTypeOK
    <3> QED  BY <1>3, <3>1 DEF HandledIsVisible
  <2>2. CASE HandlerSucceeds(c) /\ Show(m)
    <3>1. hand' = hand
      BY <2>2 DEF HandlerSucceeds
    <3>2. m \in saved /\ m.chat = Event(c).chat /\ m.chat \in Chats /\ m.at \in Nat /\ m.id \in Nat
      BY StoredFields DEF ShownWereStored, ServiceInv, ReadIsNewest
    <3>3. preview'[m.chat] = {Shown(m)}
      BY <2>2, <3>2 DEF Show, ShownWereStored
    <3>4. ASSUME NEW o \in 1..hand[c].offset, log[hand[c].part][o].chat = Event(c).chat
          PROVE  log[hand[c].part][o].at <= m.at
      <4>1. ~ Older(m, log[hand[c].part][o])
        <5>1. CASE o = hand[c].offset
          BY <5>1 DEF ReadIsNewest, Event
        <5>2. CASE o # hand[c].offset
          <6>1. o \in tried[hand[c].part]
            BY <1>5, <5>2
          <6> QED  BY <1>5, <3>2, <3>4, <6>1 DEF ReadIsNewest
        <5> QED  BY <5>1, <5>2
      <4>2. Len(log[hand[c].part]) \in Nat
        BY <1>5, LengthsAreNatural DEF ConsumerInv, ConsumerTypeOK
      <4>3. PICK k \in saved : log[hand[c].part][o] = CreatedEvent(k)
        BY <1>5, <4>2 DEF NoneIsDeleted
      <4>4. log[hand[c].part][o].at \in Nat
        BY <4>3, StoredFields DEF ServiceInv
      <4> QED  BY <3>2, <4>1, <4>4 DEF Older
    <3>5. ASSUME NEW o \in 1..hand[c].offset, log[hand[c].part][o].chat = Event(c).chat
          PROVE  Visible(log[hand[c].part][o])'
      <4>1. Shown(m) \in preview'[m.chat] /\ log[hand[c].part][o].at <= Shown(m).at
        BY <3>3, <3>4, <3>5 DEF Shown
      <4>2. log'[hand'[c].part][o] = log[hand[c].part][o] /\ log[hand[c].part][o].chat = m.chat
        BY <1>2, <3>1, <3>2, <3>5
      <4> QED  BY <1>2, <3>1, <4>1, <4>2 DEF Visible
    <3> QED  BY <1>2, <1>3, <3>1, <3>5 DEF HandledIsVisible, Event
  <2> QED  BY <1>1, <2>1, <2>2
<1> QED  BY <1>6, <1>7, <1>8, <1>9

(* What is committed has been handled.                                     *)
LEMMA CommitKeepsForward ==
    ASSUME PartsInv, ForwardInv, NEW c \in Consumers, Commit(c),
           UNCHANGED <<serviceVars, previewVars>>
    PROVE  ForwardInv'
<1> USE DEF PartsInv, ForwardInv
<1>1. /\ phase[c] = "commit" /\ log' = log /\ tried' = tried
      /\ req' = req /\ messages' = messages /\ saved' = saved
      /\ preview' = preview /\ latest' = latest
      /\ phase' = [phase EXCEPT ![c] = "fetch"] /\ hand' = [hand EXCEPT ![c] = NoRecord]
  BY DEF Commit, serviceVars, previewVars
<1>2. \A d \in Consumers : phase'[d] = "fetch" /\ latest'[d] = {}
  <2>1. \A d \in Consumers \ {c} : phase[d] = "fetch"
    BY <1>1, EventInHand
  <2>2. \A d \in Consumers : phase'[d] = "fetch"
    BY <1>1, <2>1 DEF ConsumerInv, ConsumerTypeOK
  <2> QED  BY <1>1, <2>1, <2>2 DEF ReadIsNewest
<1>3. NoneIsDeleted' /\ TriedAreInLog' /\ ReadIsNewest' /\ HandledIsVisible'
  BY <1>1, <1>2 DEF NoneIsDeleted, TriedAreInLog, ReadIsNewest, HandledIsVisible
<1>4. CommittedMeansVisible'
  <2>1. CASE committed' = committed
    BY <1>1, <2>1 DEF CommittedMeansVisible
  <2>2. CASE committed' = [committed EXCEPT ![hand[c].part] = hand[c].offset]
    <3>1. ASSUME NEW p \in Partitions, TopicOf[p] = CreatedTopic, committed'[p] > 0,
                 NEW o \in 1..committed'[p], log[p][o].chat = log[p][committed'[p]].chat
          PROVE  Visible(log[p][o])
      <4>1. CASE p = hand[c].part
        <5>1. committed'[p] = hand[c].offset
          BY <2>2, <4>1 DEF ConsumerInv, ConsumerTypeOK
        <5> QED  BY <1>1, <3>1, <4>1, <5>1 DEF HandledIsVisible, Event
      <4>2. CASE p # hand[c].part
        <5>1. committed'[p] = committed[p]
          BY <2>2, <4>2 DEF ConsumerInv, ConsumerTypeOK
        <5> QED  BY <3>1, <5>1 DEF CommittedMeansVisible, Visible
      <4> QED  BY <4>1, <4>2
    <3> QED  BY <1>1, <3>1 DEF CommittedMeansVisible, Visible
  <2> QED  BY <2>1, <2>2 DEF Commit
<1> QED  BY <1>3, <1>4

(* The parts keep their invariants together.                               *)
LEMMA PartsHold == LastSafety => []PartsInv
<1>1. LastInit => ShownWereStored
  BY DEF LastInit, RequestsInit, ShownWereStored, PreviewIsOfTheChat
<1>2. LastSafety => []ConsumerInv
  BY HandlersKeepTheConsumers, ConsumerInvariant, PTL
<1>3. LastSafety => []ShownWereStored
  BY <1>1, LastMessageIsAService, ShownWereStoredStep, PTL DEF LastSafety
<1> QED  BY <1>2, <1>3, LastMessageIsAService, PTL DEF PartsInv

LEMMA ForwardInitInv == LastInit => ForwardInv
<1> SUFFICES ASSUME LastInit PROVE ForwardInv
  OBVIOUS
<1>1. /\ \A p \in Partitions : Len(log[p]) = 0 /\ tried[p] = {} /\ committed[p] = 0
      /\ \A c \in Consumers : latest[c] = {} /\ phase[c] = "fetch"
      /\ \A r \in Requests : req[r] = NoRequest
      /\ messages = {} /\ saved = {}
  BY DEF LastInit, LogInit, RequestsInit, CursorInit
<1> QED
  BY <1>1 DEF ForwardInv, NoneIsDeleted, TriedAreInLog, ReadIsNewest, HandledIsVisible,
              CommittedMeansVisible

(* Which steps store, announce, read and write while nothing is deleted.   *)
LEMMA ForwardSteps ==
    ASSUME NoDeletions, PartsInv, ForwardInv, [LastNext]_lastVars
    PROVE  \/ /\ log' = log /\ messages' = messages /\ saved' = saved /\ preview' = preview
              /\ tried' = tried /\ committed' = committed
              /\ \A r \in Requests : req'[r] # NoRequest => req'[r].kind # "delete"
              /\ \A c \in Consumers :
                    \/ latest'[c] = {} /\ phase'[c] # "commit"
                    \/ latest'[c] = latest[c] /\ hand'[c] = hand[c] /\ phase'[c] = phase[c]
           \/ /\ \E r \in Requests : SaveMessage(r) \/ PublishCreated(r) \/ EditMessage(r)
              /\ UNCHANGED <<cursorVars, previewVars>>
           \/ \E c \in Consumers : ReadLatest(c) \/ WriteLatest(c)
           \/ /\ \E c \in Consumers : Commit(c)
              /\ UNCHANGED <<serviceVars, previewVars>>
<1> DEFINE Rest ==
      /\ log' = log /\ messages' = messages /\ saved' = saved /\ preview' = preview
      /\ tried' = tried /\ committed' = committed
      /\ \A r \in Requests : req'[r] # NoRequest => req'[r].kind # "delete"
      /\ \A c \in Consumers :
            \/ latest'[c] = {} /\ phase'[c] # "commit"
            \/ latest'[c] = latest[c] /\ hand'[c] = hand[c] /\ phase'[c] = phase[c]
<1> USE DEF PartsInv, ForwardInv
<1>1. \A r \in Requests : req[r] # NoRequest => req[r].kind # "delete"
  BY DEF NoneIsDeleted
<1>2. ASSUME NEW r \in Requests, Serve(r),
             ~ SaveMessage(r), ~ PublishCreated(r), ~ EditMessage(r)
      PROVE  Rest
  <2>1. \A q \in Requests : step[q] # "idle" => req[q] # NoRequest
    BY ServiceAssumption DEF ServiceInv, StepsFitKinds
  <2>2. ~ PublishDeleted(r) /\ ~ DeleteMessage(r)
    BY <1>1, <2>1 DEF PublishDeleted, DeleteMessage, ServiceInv, StepsFitKinds
  <2>3. CheckIsMember(r) /\ UNCHANGED <<cursorVars, previewVars>>
    BY <1>2, <2>2 DEF Serve, RequestStep
  <2> QED  BY <1>1, <2>3 DEF CheckIsMember, cursorVars, previewVars
<1>3. ASSUME Environment PROVE Rest
  <2>1. /\ log' = log /\ messages' = messages /\ saved' = saved
        /\ UNCHANGED <<cursorVars, previewVars>>
    BY <1>3 DEF Environment, Arrive, ChangeMembers, Tick
  <2>2. req' = req \/ \E r \in Requests, q \in Workload : req' = [req EXCEPT ![r] = q]
    BY <1>3 DEF Environment, Arrive, ChangeMembers, Tick
  <2>3. \A q \in Workload : q.kind # "delete"
    BY ServiceAssumption DEF NoDeletions, Request, SendRequests, EditRequests
  <2>4. \A r \in Requests : req'[r] # NoRequest => req'[r].kind # "delete"
    BY <1>1, <2>2, <2>3 DEF ServiceInv, ServiceTypeOK
  <2> QED  BY <2>1, <2>4 DEF cursorVars, previewVars
<1>4. ASSUME NEW c \in Consumers, Loop(c), ~ Commit(c) PROVE Rest
  <2>1. /\ phase[c] = "fetch" /\ phase' = [phase EXCEPT ![c] = "handle"]
        /\ \E x : hand' = [hand EXCEPT ![c] = x]
        /\ log' = log /\ tried' = tried /\ committed' = committed
        /\ UNCHANGED <<serviceVars, preview, latest>>
    BY <1>4 DEF Loop, Fetch
  <2>2. latest'[c] = {} /\ phase'[c] # "commit"
    BY <2>1 DEF ReadIsNewest, previewVars, ConsumerInv, ConsumerTypeOK
  <2>3. \A d \in Consumers \ {c} : hand'[d] = hand[d] /\ phase'[d] = phase[d]
    BY <2>1 DEF ConsumerInv, ConsumerTypeOK
  <2> QED  BY <1>1, <2>1, <2>2, <2>3 DEF serviceVars, previewVars
<1>5. ASSUME NEW c \in Consumers, Regroup(c) PROVE Rest
  BY <1>1, <1>5 DEF Regroup, Rebalance, serviceVars, previewVars
<1>6. ASSUME Die PROVE Rest
  BY <1>1, <1>6 DEF Die, Restart
<1>7. ASSUME UNCHANGED lastVars PROVE Rest
  BY <1>1, <1>7 DEF lastVars, serviceVars, cursorVars, previewVars
<1>8. ASSUME NEW c \in Consumers, Loop(c), Commit(c) PROVE UNCHANGED <<serviceVars, previewVars>>
  BY <1>8 DEF Loop, Fetch, Commit, previewVars
<1>9. ASSUME NEW r \in Requests, Serve(r) PROVE UNCHANGED <<cursorVars, previewVars>>
  BY <1>9 DEF Serve
<1> HIDE DEF Rest
<1>10. \/ Rest
       \/ /\ \E r \in Requests : SaveMessage(r) \/ PublishCreated(r) \/ EditMessage(r)
          /\ UNCHANGED <<cursorVars, previewVars>>
       \/ \E c \in Consumers : ReadLatest(c) \/ WriteLatest(c)
       \/ /\ \E c \in Consumers : Commit(c)
          /\ UNCHANGED <<serviceVars, previewVars>>
  BY <1>2, <1>3, <1>4, <1>5, <1>6, <1>7, <1>8, <1>9 DEF LastNext, Consume
<1> QED  BY <1>10 DEF Rest

(* The invariant is inductive.                                             *)
LEMMA ForwardNextKeepsInv ==
    ASSUME NoDeletions, PartsInv, ForwardInv, [LastNext]_lastVars
    PROVE  ForwardInv'
BY ForwardSteps, OthersKeepForward, SaveKeepsForward, PublishKeepsForward, EditKeepsForward,
   ReadKeepsForward, WriteKeepsForward, CommitKeepsForward

(* ForwardInv holds as long as nobody asks for a deletion.                 *)
LEMMA ForwardInvariant ==
    ASSUME NoDeletions
    PROVE  LastSafety => []ForwardInv
<1>1. PartsInv /\ ForwardInv /\ [LastNext]_lastVars => ForwardInv'
  BY ForwardNextKeepsInv
<1> QED  BY <1>1, ForwardInitInv, PartsHold, PTL DEF LastSafety

(* The preview of a chat never goes back in time while messages are sent   *)
(* and edited but none is deleted: whatever order and how often events     *)
(* arrive, and however often the consumers that copy the newest message    *)
(* are disturbed.                                                          *)
THEOREM PreviewsGoForward ==
    ASSUME NoDeletions
    PROVE  LastSafety => PreviewNeverGoesBack
<1>1. ASSUME PartsInv, ForwardInv, [LastNext]_lastVars
      PROVE  [\A chat \in Chats : \A shown \in preview[chat] :
                \E later \in preview'[chat] : shown.at <= later.at]_lastVars
  <2>1. CASE \E c \in Consumers : WriteLatest(c)
    BY <1>1, <2>1, WritesGoForward
  <2>2. CASE preview' = preview
    <3>1. \A chat \in Chats : \A shown \in preview[chat] : shown.at <= shown.at
      BY <1>1 DEF PartsInv, ShownWereStored
    <3> QED  BY <2>2, <3>1
  <2>3. (\E c \in Consumers : WriteLatest(c)) \/ preview' = preview
    BY <1>1, ForwardSteps DEF ReadLatest, previewVars
  <2> QED  BY <2>1, <2>2, <2>3
<1> QED  BY <1>1, PartsHold, ForwardInvariant, PTL DEF LastSafety, PreviewNeverGoesBack

(* A creation event that is committed has made up for those before it in   *)
(* its chat, those whose handlers failed included.                         *)
THEOREM CommittedAreVisible ==
    ASSUME NoDeletions
    PROVE  LastSafety => []CommittedMeansVisible
<1>1. ForwardInv => CommittedMeansVisible
  BY DEF ForwardInv
<1> QED  BY <1>1, ForwardInvariant, PTL
-----------------------------------------------------------------------------
(* What had been deleted when an event was fetched has not come back.      *)
BackInv ==
    /\ \A c \in Consumers : latest[c] # {} => phase[c] = "handle"
    /\ gone \in [Consumers -> SUBSET UsedIds]
    /\ \A c \in Consumers : \A m \in messages : m.id \notin gone[c]
    /\ NothingIsBroughtBack

(* A message gets an ObjectID that was never used, and keeps it.           *)
LEMMA IdsAreUsedOnce ==
    ASSUME ServiceInv, [ServiceNext]_allServiceVars
    PROVE  /\ UsedIds \subseteq UsedIds'
           /\ \A m \in messages' : (\E n \in messages : n.id = m.id) \/ m.id \notin UsedIds
<1> USE DEF ServiceInv
<1>1. ASSUME messages' \subseteq messages, saved' = saved
      PROVE  /\ UsedIds \subseteq UsedIds'
             /\ \A m \in messages' : (\E n \in messages : n.id = m.id) \/ m.id \notin UsedIds
  BY <1>1 DEF UsedIds
<1>2. ASSUME NEW r \in Requests, SaveMessage(r)
      PROVE  /\ UsedIds \subseteq UsedIds'
             /\ \A m \in messages' : (\E n \in messages : n.id = m.id) \/ m.id \notin UsedIds
  <2>1. PICK m \in draft[r], id \in MessageIds \ UsedIds :
            Insert([m EXCEPT !.id = id]) \/ UNCHANGED <<messages, saved>>
    BY <1>2 DEF SaveMessage
  <2>2. [m EXCEPT !.id = id].id = id
    BY DEF ServiceTypeOK
  <2> QED  BY <2>1, <2>2 DEF Insert, UsedIds
<1>3. ASSUME NEW r \in Requests, EditMessage(r)
      PROVE  /\ UsedIds \subseteq UsedIds'
             /\ \A m \in messages' : (\E n \in messages : n.id = m.id) \/ m.id \notin UsedIds
  <2>1. Rewrite(r) \/ UNCHANGED <<messages, saved>>
    BY <1>3 DEF EditMessage
  <2>2. \A m \in Matching(r) : m \in messages /\ [m EXCEPT !.text = req[r].text].id = m.id
    BY DEF Matching, OwnMessages, ServiceTypeOK, Message
  <2>3. CASE Rewrite(r)
    <3> DEFINE rewritten == {[m EXCEPT !.text = req[r].text] : m \in Matching(r)}
    <3>1. messages' \subseteq messages \cup rewritten /\ saved \subseteq saved'
      BY <2>3 DEF Rewrite, WithText
    <3> QED  BY <2>2, <3>1 DEF UsedIds
  <2> QED  BY <1>1, <2>1, <2>3
<1>4. ASSUME NEW r \in Requests,
             Arrive(r) \/ CheckIsMember(r) \/ PublishCreated(r) \/ PublishDeleted(r) \/ DeleteMessage(r)
      PROVE  messages' \subseteq messages /\ saved' = saved
  BY <1>4 DEF Arrive, CheckIsMember, PublishCreated, PublishDeleted, DeleteMessage, Erase
<1>5. ASSUME (\E row \in Churn : ChangeMembers(row)) \/ Tick \/ Crash \/ UNCHANGED allServiceVars
      PROVE  messages' \subseteq messages /\ saved' = saved
  BY <1>5 DEF ChangeMembers, Tick, Crash, allServiceVars, serviceVars
<1> QED  BY <1>1, <1>2, <1>3, <1>4, <1>5 DEF ServiceNext, RequestStep

(* The invariant is inductive.                                             *)
LEMMA BackNextKeepsInv ==
    ASSUME PartsInv, PartsInv', BackInv, [LastNext]_lastVars
    PROVE  BackInv'
<1> USE DEF PartsInv, BackInv, NothingIsBroughtBack
<1>1. /\ UsedIds \subseteq UsedIds'
      /\ \A m \in messages' : (\E n \in messages : n.id = m.id) \/ m.id \notin UsedIds
  BY StepsOfTheService, IdsAreUsedOnce
<1>2. ASSUME gone' = gone,
             \A c \in Consumers : \/ latest'[c] = {}
                                  \/ latest'[c] = latest[c] /\ phase'[c] = phase[c]
      PROVE  BackInv'
  BY <1>1, <1>2
<1>3. ASSUME NEW c \in Consumers, Fetch(c), gone' = [gone EXCEPT ![c] = DeletedIds],
             UNCHANGED <<serviceVars, preview, latest>>
      PROVE  BackInv'
  <2>1. phase[c] = "fetch" /\ latest[c] = {} /\ latest' = latest /\ messages' = messages
    BY <1>3 DEF Fetch, serviceVars
  <2>2. \A d \in Consumers \ {c} : phase'[d] = phase[d] /\ gone'[d] = gone[d]
    BY <1>3 DEF Fetch, ConsumerInv, ConsumerTypeOK
  <2>3. gone'[c] = DeletedIds /\ gone' \in [Consumers -> SUBSET UsedIds']
    BY <1>1, <1>3 DEF DeletedIds
  <2>4. \A m \in messages : m.id \notin DeletedIds
    BY DEF DeletedIds
  <2> QED  BY <2>1, <2>2, <2>3, <2>4
<1>4. ASSUME NEW c \in Consumers, Commit(c), UNCHANGED gone,
             UNCHANGED <<serviceVars, preview, latest>>
      PROVE  BackInv'
  <2>1. phase[c] = "commit" /\ latest[c] = {} /\ latest' = latest
    BY <1>4 DEF Commit
  <2>2. \A d \in Consumers \ {c} : phase'[d] = phase[d]
    BY <1>4 DEF Commit, ConsumerInv, ConsumerTypeOK
  <2> QED  BY <1>2, <1>4, <2>1, <2>2
<1>5. ASSUME NEW c \in Consumers, ReadLatest(c) PROVE BackInv'
  <2>1. gone' = gone /\ messages' = messages /\ phase[c] = "handle" /\ latest[c] = {}
    BY <1>5 DEF ReadLatest, serviceVars
  <2>2. CASE HandlerFails(c) /\ latest' = latest
    <3>1. \A d \in Consumers \ {c} : phase'[d] = phase[d]
      BY <2>2 DEF HandlerFails, ConsumerInv, ConsumerTypeOK
    <3> QED  BY <1>2, <2>1, <2>2, <3>1
  <2>3. CASE /\ latest' = [latest EXCEPT ![c] = Latest(messages, Event(c).chat)]
             /\ UNCHANGED <<log, cursorVars>>
    <3>1. /\ \A d \in Consumers \ {c} : latest'[d] = latest[d]
          /\ latest'[c] \subseteq messages /\ phase' = phase
      BY <2>3 DEF ShownWereStored, Latest, InChat, cursorVars
    <3> QED  BY <1>1, <2>1, <3>1
  <2> QED  BY <1>5, <2>2, <2>3 DEF ReadLatest
<1>6. ASSUME NEW c \in Consumers, WriteLatest(c) PROVE BackInv'
  <2>1. /\ gone' = gone /\ latest'[c] = {}
        /\ \A d \in Consumers \ {c} : latest'[d] = latest[d] /\ phase'[d] = phase[d]
    BY <1>6 DEF WriteLatest, NothingRead, HandlerSucceeds, HandlerFails, ShownWereStored,
                ConsumerInv, ConsumerTypeOK
  <2> QED  BY <1>2, <2>1
<1>7. ASSUME Die PROVE BackInv'
  BY <1>2, <1>7 DEF Die
<1>8. ASSUME \/ \E r \in Requests : Serve(r)
             \/ \E c \in Consumers : Regroup(c)
             \/ Environment
             \/ UNCHANGED lastVars
      PROVE  BackInv'
  <2>1. gone' = gone /\ latest' = latest /\ phase' = phase
    BY <1>8 DEF Serve, Regroup, Rebalance, Environment, lastVars, previewVars, cursorVars
  <2> QED  BY <1>2, <2>1
<1> QED  BY <1>3, <1>4, <1>5, <1>6, <1>7, <1>8 DEF LastNext, Consume, Loop

(* No handler brings back a message that had been deleted when its event   *)
(* was fetched, however late and however often the event is delivered.     *)
THEOREM DeletedStaysDeleted == LastSafety => []NothingIsBroughtBack
<1>1. LastInit => BackInv
  BY DEF LastInit, RequestsInit, CursorInit, BackInv, NothingIsBroughtBack
<1>2. BackInv => NothingIsBroughtBack
  BY DEF BackInv
<1>3. PartsInv /\ PartsInv' /\ BackInv /\ [LastNext]_lastVars => BackInv'
  BY BackNextKeepsInv
<1> QED  BY <1>1, <1>2, <1>3, PartsHold, PTL DEF LastSafety
=============================================================================
