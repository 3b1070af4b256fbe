----------------------------- MODULE Directory ------------------------------
(***************************************************************************)
(* Chats and their members: ChatService of                                 *)
(* src/internal/usecase/chat/chat_usecase.go over ChatRepository of        *)
(* src/internal/database/postgres/chat_repo/chat_repository.go.            *)
(*                                                                         *)
(*   create   insert the chat --> insert its members --> commit            *)
(*   add      adder a member? --> others not? --> insert them --> commit   *)
(*   remove   a member? --> delete the row                                 *)
(*   delete   does the chat exist? --> delete it with its members          *)
(*                                                                         *)
(* A request is a process, a statement of PostgreSQL is a step.  The       *)
(* checks are made outside of the transaction that follows them.  A row    *)
(* that a transaction has inserted is seen by the others when it commits;  *)
(* until then it holds up an insert of the same row, and the deletion of   *)
(* its chat.  Users are never deleted.                                     *)
(***************************************************************************)
EXTENDS Naturals, Sequences, Functions

CONSTANTS
    Users,
    Registered,      \* the users in the table users
    Owner,           \* the first member of the first chat
    Lists,           \* the lists of members that are asked for
    Requests,        \* request processes
    MaxChats,        \* bound: the ids of chats
    DatabaseErrors,  \* whether a statement may fail or be cancelled
    NoRequest

ASSUME DirectoryAssumption ==
    /\ Owner \in Registered /\ Registered \subseteq Users
    /\ Lists \subseteq Seq(Users)
    /\ MaxChats \in Nat \ {0}
    /\ DatabaseErrors \in BOOLEAN

ChatIds == 1..MaxChats

Create == [kind : {"create"}, user : Registered, list : Lists]
Add == [kind : {"add"}, user : Registered, list : Lists, chat : ChatIds]
Remove == [kind : {"remove"}, user : Users, chat : ChatIds]
Delete == [kind : {"delete"}, chat : ChatIds]

VARIABLES
    lastId,     \* the sequence of chats.id
    chats,      \* the table chats
    members,    \* the table chat_members, of pairs chat, user
    request,    \* request[p]: what p serves
    step,       \* step[p]: its next statement
    chat,       \* chat[p]: the chat it is about
    todo,       \* todo[p]: the users still to be checked or inserted
    rows,       \* rows[p]: what its transaction has inserted
    answer      \* answer[p]

tables == <<lastId, chats, members>>
vars == <<tables, request, step, chat, todo, rows, answer>>

Rows == ChatIds \X Users

DirectoryTypeOK ==
    /\ lastId \in ChatIds
    /\ chats \subseteq 1..lastId
    /\ members \subseteq Rows
    /\ request \in [Requests -> Create \cup Add \cup Remove \cup Delete \cup {NoRequest}]
    /\ step \in [Requests -> {"idle", "create", "adder", "check", "insert", "member",
                              "remove", "exists", "delete", "done"}]
    /\ chat \in [Requests -> ChatIds]
    /\ todo \in [Requests -> Seq(Users)]
    /\ rows \in [Requests -> SUBSET Rows]
    /\ answer \in [Requests -> {"none", "ok", "refused", "unknown", "error"}]

(* There is one chat to begin with.                                        *)
Init ==
    /\ lastId = 1
    /\ chats = {1}
    /\ members = {<<1, Owner>>}
    /\ request = [p \in Requests |-> NoRequest]
    /\ step = [p \in Requests |-> "idle"]
    /\ chat = [p \in Requests |-> 1]
    /\ todo = [p \in Requests |-> <<>>]
    /\ rows = [p \in Requests |-> {}]
    /\ answer = [p \in Requests |-> "none"]
-----------------------------------------------------------------------------
IsMember(c, user) == <<c, user>> \in members

Return(p, a) ==
    /\ step' = [step EXCEPT ![p] = "done"]
    /\ answer' = [answer EXCEPT ![p] = a]

Continue(p, s) ==
    /\ step' = [step EXCEPT ![p] = s]
    /\ UNCHANGED answer

Start(p, q, s) ==
    /\ step[p] = "idle"
    /\ request' = [request EXCEPT ![p] = q]
    /\ Continue(p, s)
    /\ UNCHANGED <<tables, rows>>

(* CreateChatHandler puts the user on the list.                            *)
WithCreator(q) == IF q.user \in Range(q.list) THEN q.list ELSE Append(q.list, q.user)

ArriveCreate(p) ==
    \E q \in Create :
        /\ Start(p, q, "create")
        /\ todo' = [todo EXCEPT ![p] = WithCreator(q)]
        /\ UNCHANGED chat

ArriveAdd(p) ==
    \E q \in Add :
        /\ Start(p, q, "adder")
        /\ todo' = [todo EXCEPT ![p] = q.list]
        /\ chat' = [chat EXCEPT ![p] = q.chat]

ArriveRemove(p) ==
    \E q \in Remove :
        /\ Start(p, q, "member")
        /\ chat' = [chat EXCEPT ![p] = q.chat]
        /\ UNCHANGED todo

ArriveDelete(p) ==
    \E q \in Delete :
        /\ Start(p, q, "exists")
        /\ chat' = [chat EXCEPT ![p] = q.chat]
        /\ UNCHANGED todo

Arrive(p) == ArriveCreate(p) \/ ArriveAdd(p) \/ ArriveRemove(p) \/ ArriveDelete(p)

(* A query that is cancelled or fails, where nothing has been changed.  If *)
(* CheckUserExists fails, the user passes for one who does not exist.      *)
CheckFails(p) ==
    /\ DatabaseErrors
    /\ \/ step[p] \in {"adder", "check", "member", "exists"} /\ Return(p, "error")
       \/ step[p] \in {"adder", "check"} /\ Return(p, "unknown")
    /\ UNCHANGED <<tables, request, chat, todo, rows>>
-----------------------------------------------------------------------------
(* Faulty: the next id is looked up and not taken.                         *)
IdNotTaken(p) ==
    /\ step[p] = "create"
    /\ lastId < MaxChats
    /\ chat' = [chat EXCEPT ![p] = lastId + 1]
    /\ Continue(p, "insert")
    /\ UNCHANGED <<tables, request, todo, rows>>

(* BEGIN and INSERT INTO chats.  Nobody else knows the id yet.             *)
InsertChat(p) ==
    /\ step[p] = "create"
    /\ lastId < MaxChats
    /\ lastId' = lastId + 1
    /\ chat' = [chat EXCEPT ![p] = lastId + 1]
    /\ Continue(p, "insert")
    /\ UNCHANGED <<chats, members, request, todo, rows>>

(* Bound: the transaction fails where the ids of the model run out.        *)
InsertChatFails(p) ==
    /\ step[p] = "create"
    /\ DatabaseErrors \/ lastId = MaxChats
    /\ Return(p, "error")
    /\ UNCHANGED <<tables, request, chat, todo, rows>>

(* AddMembers of the service: the user who adds is a member.               *)
CheckAdder(p) ==
    /\ step[p] = "adder"
    /\ IF IsMember(chat[p], request[p].user)
       THEN Continue(p, "check")
       ELSE Return(p, "refused")
    /\ UNCHANGED <<tables, request, chat, todo, rows>>

(* The others are users and not members.  After the last the transaction   *)
(* begins, which goes through the list again.                              *)
CheckListed(p) ==
    /\ step[p] = "check"
    /\ \/ /\ todo[p] = <<>>
          /\ Continue(p, "insert")
          /\ todo' = [todo EXCEPT ![p] = request[p].list]
       \/ /\ todo[p] # <<>>
          /\ Head(todo[p]) \in Registered /\ ~IsMember(chat[p], Head(todo[p]))
          /\ Continue(p, "check")
          /\ todo' = [todo EXCEPT ![p] = Tail(@)]
       \/ /\ todo[p] # <<>>
          /\ IF Head(todo[p]) \in Registered
             THEN IsMember(chat[p], Head(todo[p])) /\ Return(p, "refused")
             ELSE Return(p, "unknown")
          /\ UNCHANGED todo
    /\ UNCHANGED <<tables, request, chat, rows>>
-----------------------------------------------------------------------------
(* Faulty: the deferred Rollback is missing, so that the locks stay.       *)
NoRollback(p) ==
    /\ Return(p, "error")
    /\ UNCHANGED <<tables, request, chat, todo, rows>>

Rollback(p) ==
    /\ Return(p, "error")
    /\ rows' = [rows EXCEPT ![p] = {}]
    /\ UNCHANGED <<tables, request, chat, todo>>

Inserting(p) == step[p] = "insert" /\ todo[p] # <<>>

NextRow(p) == <<chat[p], Head(todo[p])>>

(* An insert waits for a transaction that has inserted the same row.       *)
WaitsFor(p, q) == p # q /\ Inserting(p) /\ NextRow(p) \in rows[q]

(* The constraints of chat_members: the pair is new, the chat and the user *)
(* exist.                                                                  *)
Accepts(p) ==
    /\ NextRow(p) \notin members \cup rows[p]
    /\ chat[p] \in chats \/ request[p].kind = "create"
    /\ Head(todo[p]) \in Registered

(* Faulty: the rows are inserted without a transaction around them.        *)
InsertAtOnce(p) ==
    /\ Inserting(p)
    /\ IF Accepts(p)
       THEN /\ members' = members \cup {NextRow(p)}
            /\ todo' = [todo EXCEPT ![p] = Tail(@)]
            /\ UNCHANGED <<lastId, chats, request, step, chat, rows, answer>>
       ELSE Rollback(p)

(* INSERT INTO chat_members.                                               *)
InsertMember(p) ==
    /\ Inserting(p)
    /\ \A q \in Requests : ~WaitsFor(p, q)
    /\ IF Accepts(p)
       THEN /\ rows' = [rows EXCEPT ![p] = @ \cup {NextRow(p)}]
            /\ todo' = [todo EXCEPT ![p] = Tail(@)]
            /\ UNCHANGED <<tables, request, step, chat, answer>>
       ELSE Rollback(p)

(* The statement fails, or the client goes away while it waits.            *)
InsertFails(p) ==
    /\ DatabaseErrors
    /\ Inserting(p)
    /\ Rollback(p)

(* PostgreSQL fails a statement that waits in a circle.                    *)
BreakDeadlock(p) ==
    /\ \E circle \in SUBSET Requests :
          /\ p \in circle
          /\ \A q \in circle : \E r \in circle : WaitsFor(q, r)
          /\ \A r \in circle : \E q \in circle : WaitsFor(q, r)
    /\ Rollback(p)

MakeVisible(p) ==
    /\ chats' = IF request[p].kind = "create" THEN chats \cup {chat[p]} ELSE chats
    /\ members' = members \cup rows[p]

(* A COMMIT whose answer is lost has been made or not.                     *)
Commit(p) ==
    /\ step[p] = "insert" /\ todo[p] = <<>>
    /\ \/ /\ MakeVisible(p)
          /\ Return(p, "ok")
       \/ /\ DatabaseErrors
          /\ MakeVisible(p) \/ UNCHANGED <<chats, members>>
          /\ Return(p, "error")
    /\ rows' = [rows EXCEPT ![p] = {}]
    /\ UNCHANGED <<lastId, request, chat, todo>>
-----------------------------------------------------------------------------
(* RemoveMember of the service.                                            *)
CheckRemoved(p) ==
    /\ step[p] = "member"
    /\ IF IsMember(chat[p], request[p].user)
       THEN Continue(p, "remove")
       ELSE Return(p, "refused")
    /\ UNCHANGED <<tables, request, chat, todo, rows>>

DeleteMember(p) ==
    /\ step[p] = "remove"
    /\ \/ /\ members' = members \ {<<chat[p], request[p].user>>}
          /\ Return(p, "ok")
       \/ /\ DatabaseErrors
          /\ Return(p, "error")
          /\ UNCHANGED members
    /\ UNCHANGED <<lastId, chats, request, chat, todo, rows>>

(* DeleteChat of the service asks nobody's leave.                          *)
CheckExists(p) ==
    /\ step[p] = "exists"
    /\ IF chat[p] \in chats THEN Continue(p, "delete") ELSE Return(p, "refused")
    /\ UNCHANGED <<tables, request, chat, todo, rows>>

OfChat(pairs, c) == {pair \in pairs : pair[1] = c}

(* DELETE FROM chats, which waits for the transactions that add to it.     *)
DeleteChat(p) ==
    /\ step[p] = "delete"
    /\ \A q \in Requests : OfChat(rows[q], chat[p]) = {}
    /\ \/ /\ chats' = chats \ {chat[p]}
          /\ members' = members \ OfChat(members, chat[p])
          /\ Return(p, "ok")
       \/ /\ DatabaseErrors
          /\ Return(p, "error")
          /\ UNCHANGED <<chats, members>>
    /\ UNCHANGED <<lastId, request, chat, todo, rows>>
-----------------------------------------------------------------------------
Work(p) ==
    \/ InsertChat(p) \/ InsertChatFails(p) \/ CheckAdder(p) \/ CheckListed(p)
    \/ InsertMember(p) \/ BreakDeadlock(p) \/ Commit(p)
    \/ CheckRemoved(p) \/ DeleteMember(p) \/ CheckExists(p) \/ DeleteChat(p)

Next == \E p \in Requests : Arrive(p) \/ Work(p) \/ CheckFails(p) \/ InsertFails(p)

(* A request that is not waiting for another goes on.                      *)
Fairness == \A p \in Requests : WF_vars(Work(p))

Spec == Init /\ [][Next]_vars /\ Fairness
-----------------------------------------------------------------------------
(* What a request asks for.  The user who makes a chat is on its list.     *)
Asked(q) ==
    IF q = NoRequest THEN NoRequest
    ELSE [kind |-> q.kind,
          by |-> IF q.kind = "delete" THEN Owner ELSE q.user,
          chat |-> IF q.kind = "create" THEN 1 ELSE q.chat,
          users |-> CASE q.kind = "create" -> Range(q.list) \cup {q.user}
                      [] q.kind = "add" -> Range(q.list)
                      [] OTHER -> {}]

Promise == INSTANCE Membership
    WITH asked <- [p \in Requests |-> Asked(request[p])], Nothing <- NoRequest

(* No request is told from every request, by what it asks for as well.     *)
ASSUME NoRequestAssumption ==
    NoRequest \notin Create \cup Add \cup Remove \cup Delete \cup Promise!Questions

(* Though a request is a dozen statements, and its checks lie outside of   *)
(* the transaction, it takes effect at once: lists are added whole or not  *)
(* at all, and never a user who is there already; a deleted chat keeps no  *)
(* members; whoever is told ok or refused is told the truth.               *)
ImplementsMembership == Promise!Spec

(* Every request is answered, though transactions hold each other up.      *)
EveryRequestIsAnswered ==
    \A p \in Requests : step[p] # "idle" ~> step[p] = "done"
=============================================================================
