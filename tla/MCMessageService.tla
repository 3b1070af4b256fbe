-------------------------- MODULE MCMessageService --------------------------
(* Instances of MessageService with two users, one of whom may leave and   *)
(* join, and one partition per topic.                                      *)
EXTENDS MessageService, TLC

CONSTANTS alice, bob, red, blue

MCTopicOf == [p \in {"c0", "d0"} |-> IF p = "c0" THEN "msg_created" ELSE "msg_deleted"]

MCPayloads == CreatedEvents \cup DeletedEvents

MCMembers == {<<red, alice>>, <<red, bob>>, <<blue, alice>>}
MCChurn == {<<red, bob>>}

MCRequests == Permutations(Requests)

Send(u, c, t) == [kind |-> "send", claimed |-> u, chat |-> c, text |-> t]
Delete(u, c, ids) == [kind |-> "delete", claimed |-> u, chat |-> c, ids |-> ids]
Edit(u, c, id, t) == [kind |-> "edit", claimed |-> u, chat |-> c, ids |-> {id}, text |-> t]

(* One's own message, somebody else's, one's own under the wrong chat,     *)
(* one that does not exist, no id, a malformed id.                         *)
MCWorkload == {
    Send(alice, red, "t1"), Send(bob, red, "t1"),
    Delete(alice, red, {1}), Delete(bob, red, {1}), Delete(alice, blue, {1}),
    Delete(bob, red, {1, 2}), Delete(bob, red, {}), Delete(bob, red, {0, 1}),
    Edit(alice, red, 1, "t2"), Edit(bob, red, 1, "t2"), Edit(alice, blue, 1, "t2"),
    Edit(bob, red, 0, "t2") }
=============================================================================
