---------------------------- MODULE MCLastMessage ---------------------------
(* Instances of LastMessage.  The wiring is a constant.  What is deployed  *)
(* shows nothing, so that a run of it exercises no handler: one run has    *)
(* it, to show just that.  The others are about the handlers and ask what  *)
(* they would do if the names agreed; their wiring is NOT the deployed     *)
(* one, and what they check is safety that holds of the deployed one too.  *)
EXTENDS LastMessage, TLC

CONSTANTS alice, bob, red, blue

MCPayloads == CreatedEvents \cup DeletedEvents

MCTopicOf == [p \in {"c0", "d0"} |-> IF p = "c0" THEN CreatedTopic ELSE DeletedTopic]

MCConsumers == {"createdConsumer", "deletedConsumer"}

(* Hypothetical: both consumers read what producer.go writes.              *)
RepairedTopics == [c \in MCConsumers |->
    IF c = "createdConsumer" THEN CreatedTopic ELSE DeletedTopic]

(* Deployed: cmd/app/main.go, lines 131 and 138.                           *)
DeployedTopics == [c \in MCConsumers |->
    IF c = "createdConsumer" THEN "msg_created_topic" ELSE "msg_deleted_topic"]

MCTopics == {CreatedTopic, DeletedTopic}

(* Deployed: the topics that are written and the topics that are read.     *)
AllTopics == MCTopics \cup {"msg_created_topic", "msg_deleted_topic"}

AllTopicOf ==
    "c0" :> CreatedTopic @@ "d0" :> DeletedTopic
    @@ "c1" :> "msg_created_topic" @@ "d1" :> "msg_deleted_topic"

(* Hypothetical: a table with the columns UpdateChatLastMessage sets.      *)
RepairedColumns == UpdatedColumns \cup {"id", "title"}

(* Deployed: migrations/20260107175956, on top of 20260102165104.         *)
MigratedColumns == {"id", "title", "is_private", "created_at", "last_message_at",
                    "last_message_preview"}

(* What is deployed meets the hypotheses of UnreadTopicsShowNothing and of *)
(* MissingColumnShowsNothing.                                              *)
ASSUME DeployedShowsNothing ==
    /\ \A c \in MCConsumers : DeployedTopics[c] \notin {CreatedTopic, DeletedTopic}
    /\ ~ UpdatedColumns \subseteq MigratedColumns

MCMembers == {<<red, alice>>, <<red, bob>>, <<blue, alice>>}

MCRequests == Permutations(Requests)

Send(u, c, t) == [kind |-> "send", claimed |-> u, chat |-> c, text |-> t]
Delete(u, c, ids) == [kind |-> "delete", claimed |-> u, chat |-> c, ids |-> ids]
Edit(u, c, id, t) == [kind |-> "edit", claimed |-> u, chat |-> c, ids |-> {id}, text |-> t]

TwoChats == {Send(alice, red, "t1"), Send(alice, blue, "t2")}
TwoChatsEdited == TwoChats \cup {Edit(alice, red, 1, "t2")}
OnlySend == {Send(alice, red, "t1")}
SendOrDelete == {Send(alice, red, "t1"), Delete(alice, red, {1})}
=============================================================================
