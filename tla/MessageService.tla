--------------------------- MODULE MessageService ---------------------------
(***************************************************************************)
(* SendMessage, DeleteMessage and EditMessage of                           *)
(* src/internal/usecase/message/message_usecase.go, served concurrently:   *)
(* a request is a process and each call it makes to PostgreSQL, MongoDB or *)
(* Kafka is one step.                                                      *)
(*                                                                         *)
(*   send    check membership --> save --> publish created                 *)
(*   delete  check membership --> publish deleted --> delete               *)
(*   edit    check membership --> update                                   *)
(*                                                                         *)
(* A database call that returns an error may have taken effect or not.     *)
(* The result of publishing is only logged.                                *)
(*                                                                         *)
(* claimed is the user a request NAMES: the SenderID or UserID of its JSON *)
(* body, which is all these operations ever see.  The handlers do not      *)
(* compare it with the user of the token, so nothing here says who the     *)
(* caller is: he is no part of the state because no step reads him, and    *)
(* every property below is about the user that was named.                  *)
(***************************************************************************)
EXTENDS KafkaLog, MessageRepo

CONSTANTS
    Requests,        \* request processes
    Workload,        \* what the clients may ask for, a subset of Request
    Users, Chats, Texts,
    MessageIds,      \* ObjectIDs in their order; any unused one may be next
    MaxTime,         \* bound: the clock, in milliseconds
    InitialMembers,  \* rows of chat_members at the start
    Churn,           \* rows of chat_members that come and go
    DatabaseErrors,  \* whether database calls may fail
    NoRequest

Membership == Chats \X Users

(* What the handlers decode from the body; the token adds nothing to it.   *)
SendRequests == [kind : {"send"}, claimed : Users, chat : Chats, text : Texts]
DeleteRequests == [kind : {"delete"}, claimed : Users, chat : Chats,
                   ids : SUBSET (MessageIds \cup {NilObjectID})]
EditRequests == [kind : {"edit"}, claimed : Users, chat : Chats,
                 ids : {{id} : id \in MessageIds \cup {NilObjectID}}, text : Texts]

Request == SendRequests \cup DeleteRequests \cup EditRequests

Message == [id : MessageIds, chat : Chats, sender : Users, text : Texts, at : 1..MaxTime]

CreatedEvents == [kind : {"created"}, id : MessageIds, chat : Chats, at : 1..MaxTime]
DeletedEvents == [kind : {"deleted"}, chat : Chats,
                  ids : SUBSET (MessageIds \cup {NilObjectID})]

ASSUME ServiceAssumption ==
    /\ Workload \subseteq Request
    /\ MessageIds \subseteq Nat \ {NilObjectID}
    /\ MaxTime \in Nat \ {0}
    /\ InitialMembers \subseteq Membership
    /\ Churn \subseteq Membership
    /\ DatabaseErrors \in BOOLEAN
    /\ NoRequest \notin Request
    /\ CreatedEvents \cup DeletedEvents \subseteq Payloads

VARIABLES
    messages,  \* the collection
    members,   \* the table chat_members
    now,       \* time.Now()
    req,       \* req[r]: what r asks for, decoded and never changed
    step,      \* step[r]: the next call of r
    draft,     \* draft[r]: the message a send has built; {} or one message
    answer,    \* answer[r]: what r returned
    saved,     \* history: every version of every message ever stored
    sighted,   \* history: sighted[r], whom r names has been a member since r began
    removed    \* history: removed[r], ids of the messages that r deleted

serviceVars == <<messages, members, now, req, step, draft, answer, saved, sighted, removed>>
allServiceVars == <<log, serviceVars>>

Steps == {"idle", "check", "save", "publish", "delete", "update", "done"}
Answers == {"none", "ok", "invalid", "database", "not member", "not found"}

ServiceTypeOK ==
    /\ LogTypeOK
    /\ messages \subseteq Message
    /\ members \subseteq Membership
    /\ now \in 1..MaxTime
    /\ req \in [Requests -> Request \cup {NoRequest}]
    /\ step \in [Requests -> Steps]
    /\ draft \in [Requests -> SUBSET [id : MessageIds \cup {NilObjectID}, chat : Chats,
                                      sender : Users, text : Texts, at : 1..MaxTime]]
    /\ answer \in [Requests -> Answers]
    /\ saved \subseteq Message
    /\ sighted \in [Requests -> BOOLEAN]
    /\ removed \in [Requests -> SUBSET MessageIds]

RequestsInit ==
    /\ messages = {}
    /\ members = InitialMembers
    /\ now = 1
    /\ req = [r \in Requests |-> NoRequest]
    /\ step = [r \in Requests |-> "idle"]
    /\ draft = [r \in Requests |-> {}]
    /\ answer = [r \in Requests |-> "none"]
    /\ saved = {}
    /\ sighted = [r \in Requests |-> FALSE]
    /\ removed = [r \in Requests |-> {}]

ServiceInit == LogInit /\ RequestsInit
-----------------------------------------------------------------------------
Return(r, a) ==
    /\ step' = [step EXCEPT ![r] = "done"]
    /\ answer' = [answer EXCEPT ![r] = a]

Continue(r, s) ==
    /\ step' = [step EXCEPT ![r] = s]
    /\ UNCHANGED answer

UsedIds == {m.id : m \in saved}

IsMember(r) == <<req[r].chat, req[r].claimed>> \in members

(* A request arrives, from any caller and in whatever name its body gives. *)
(* A deletion of no message is refused at once.                            *)
Arrive(r) ==
    /\ step[r] = "idle"
    /\ \E q \in Workload :
        /\ req' = [req EXCEPT ![r] = q]
        /\ sighted' = [sighted EXCEPT ![r] = <<q.chat, q.claimed>> \in members]
        /\ IF q.kind = "delete" /\ q.ids = {}
           THEN Return(r, "invalid")
           ELSE Continue(r, "check")
    /\ UNCHANGED <<log, messages, members, now, draft, saved, removed>>

(* What follows the membership check of each operation.                    *)
AfterCheck == [send |-> "save", delete |-> "publish", edit |-> "update"]

(* Faulty: only an error of the check stops the request.                   *)
CheckErrorOnly(r) ==
    /\ step[r] = "check"
    /\ Continue(r, AfterCheck[req[r].kind])
    /\ draft' = IF req[r].kind = "send"
                THEN [draft EXCEPT ![r] =
                        {[id |-> NilObjectID, chat |-> req[r].chat,
                          sender |-> req[r].claimed, text |-> req[r].text, at |-> now]}]
                ELSE draft
    /\ UNCHANGED <<log, messages, members, now, req, saved, sighted, removed>>

(* CheckIsMemberOfChat; a send then builds the message with the time.      *)
CheckIsMember(r) ==
    /\ step[r] = "check"
    /\ \/ /\ DatabaseErrors
          /\ Return(r, "database")
          /\ UNCHANGED draft
       \/ /\ ~IsMember(r)
          /\ Return(r, "not member")
          /\ UNCHANGED draft
       \/ /\ IsMember(r)
          /\ Continue(r, AfterCheck[req[r].kind])
          /\ draft' = IF req[r].kind = "send"
                      THEN [draft EXCEPT ![r] =
                              {[id |-> NilObjectID, chat |-> req[r].chat,
                                sender |-> req[r].claimed, text |-> req[r].text, at |-> now]}]
                      ELSE draft
    /\ UNCHANGED <<log, messages, members, now, req, saved, sighted, removed>>

(* SaveMessage of a send, with an ObjectID the driver has just made.       *)
Insert(message) ==
    /\ messages' = messages \cup {message}
    /\ saved' = saved \cup {message}

(* Faulty: an error of SaveMessage is logged like one of publishing.       *)
SaveErrorIgnored(r) ==
    /\ step[r] = "save"
    /\ \E m \in draft[r], id \in MessageIds \ UsedIds :
        /\ Insert([m EXCEPT !.id = id]) \/ UNCHANGED <<messages, saved>>
        /\ draft' = [draft EXCEPT ![r] = {[m EXCEPT !.id = id]}]
        /\ Continue(r, "publish")
    /\ UNCHANGED <<log, members, now, req, sighted, removed>>

(* Faulty: the ObjectID of the struct, which nobody set, is stored.        *)
SaveWithoutId(r) ==
    /\ step[r] = "save"
    /\ \E m \in draft[r] : Insert(m)
    /\ Continue(r, "publish")
    /\ UNCHANGED <<log, members, now, req, draft, sighted, removed>>

SaveMessage(r) ==
    /\ step[r] = "save"
    /\ \E m \in draft[r], id \in MessageIds \ UsedIds :
        \/ /\ Insert([m EXCEPT !.id = id])
           /\ draft' = [draft EXCEPT ![r] = {[m EXCEPT !.id = id]}]
           /\ Continue(r, "publish")
        \/ /\ DatabaseErrors
           /\ Insert([m EXCEPT !.id = id]) \/ UNCHANGED <<messages, saved>>
           /\ UNCHANGED draft
           /\ Return(r, "database")
    /\ UNCHANGED <<log, members, now, req, sighted, removed>>

CreatedEvent(m) == [kind |-> "created", id |-> m.id, chat |-> m.chat, at |-> m.at]
DeletedEvent(q) == [kind |-> "deleted", chat |-> q.chat, ids |-> q.ids]

(* The event of a send; SendMessage returns no error whatever comes of it. *)
PublishCreated(r) ==
    /\ step[r] = "publish"
    /\ req[r].kind = "send"
    /\ \E m \in draft[r] : Publish(CreatedTopic, CreatedEvent(m))
    /\ Return(r, "ok")
    /\ UNCHANGED <<messages, members, now, req, draft, saved, sighted, removed>>

(* The event of a deletion, before anything is deleted.                    *)
PublishDeleted(r) ==
    /\ step[r] = "publish"
    /\ req[r].kind = "delete"
    /\ Publish(DeletedTopic, DeletedEvent(req[r]))
    /\ Continue(r, "delete")
    /\ UNCHANGED <<messages, members, now, req, draft, saved, sighted, removed>>

Matching(r) == OwnMessages(messages, req[r].claimed, req[r].chat, req[r].ids)

(* MongoDB deletes the document with an _id.                               *)
Erase(r, id) ==
    /\ messages' = {m \in messages : m.id # id}
    /\ removed' = [removed EXCEPT ![r] = @ \cup {id}]

(* Faulty: the number of deleted messages is not looked at.                *)
DeleteCountIgnored(r) ==
    /\ step[r] = "delete"
    /\ \/ /\ \E m \in Matching(r) : Erase(r, m.id)
          /\ UNCHANGED <<step, answer>>
       \/ /\ Matching(r) = {}
          /\ Return(r, "ok")
          /\ UNCHANGED <<messages, removed>>
    /\ UNCHANGED <<log, members, now, req, draft, saved, sighted>>

(* DeleteMany deletes one document after the other.  One malformed id      *)
(* fails the call before the database is asked, other errors come after    *)
(* any number of deletions; no match at all is reported as an error.       *)
DeleteMessage(r) ==
    /\ step[r] = "delete"
    /\ \/ /\ NilObjectID \notin req[r].ids
          /\ \E m \in Matching(r) : Erase(r, m.id)
          /\ UNCHANGED <<step, answer>>
       \/ /\ NilObjectID \notin req[r].ids
          /\ Matching(r) = {}
          /\ Return(r, IF removed[r] = {} THEN "not found" ELSE "ok")
          /\ UNCHANGED <<messages, removed>>
       \/ /\ NilObjectID \in req[r].ids \/ DatabaseErrors
          /\ Return(r, "database")
          /\ UNCHANGED <<messages, removed>>
    /\ UNCHANGED <<log, members, now, req, draft, saved, sighted>>

(* UpdateOne.  No event is published for an edit.                          *)
Rewrite(r) ==
    /\ messages' = WithText(messages, Matching(r), req[r].text)
    /\ saved' = saved \cup {m \in messages' : m.id \in req[r].ids}

EditMessage(r) ==
    /\ step[r] = "update"
    /\ \/ /\ NilObjectID \in req[r].ids
          /\ Return(r, "database")
          /\ UNCHANGED <<messages, saved>>
       \/ /\ NilObjectID \notin req[r].ids
          /\ Rewrite(r)
          /\ Return(r, IF Matching(r) = {} THEN "not found" ELSE "ok")
       \/ /\ DatabaseErrors
          /\ NilObjectID \notin req[r].ids
          /\ Rewrite(r) \/ UNCHANGED <<messages, saved>>
          /\ Return(r, "database")
    /\ UNCHANGED <<log, members, now, req, draft, sighted, removed>>

(* AddMembers and RemoveMember of the chat service, seen from here.        *)
ChangeMembers(row) ==
    /\ members' = IF row \in members THEN members \ {row} ELSE members \cup {row}
    /\ sighted' = [r \in Requests |->
          \/ sighted[r]
          \/ step[r] # "idle" /\ <<req[r].chat, req[r].claimed>> \in members']
    /\ UNCHANGED <<log, messages, now, req, step, draft, answer, saved, removed>>

Tick ==
    /\ now < MaxTime
    /\ now' = now + 1
    /\ UNCHANGED <<log, messages, members, req, step, draft, answer, saved, sighted, removed>>

(* The process dies: nobody is answered, what the databases hold stays.    *)
Abandon ==
    step' = [r \in Requests |-> IF step[r] = "idle" THEN "idle" ELSE "done"]

Crash ==
    /\ \E r \in Requests : step[r] \notin {"idle", "done"}
    /\ Abandon
    /\ UNCHANGED <<log, messages, members, now, req, draft, answer, saved, sighted, removed>>

RequestStep(r) ==
    \/ CheckIsMember(r)
    \/ SaveMessage(r)
    \/ PublishCreated(r)
    \/ PublishDeleted(r)
    \/ DeleteMessage(r)
    \/ EditMessage(r)

ServiceNext ==
    \/ \E r \in Requests : Arrive(r) \/ RequestStep(r)
    \/ \E row \in Churn : ChangeMembers(row)
    \/ Tick
    \/ Crash

ServiceSpec == ServiceInit /\ [][ServiceNext]_allServiceVars
-----------------------------------------------------------------------------
(* The check and the use of a membership are not one step, and a removal   *)
(* in between is not noticed; but nothing goes past the check in the name  *)
(* of a user whose membership had ended before the request came: the user  *)
(* it names was a member of its chat at some moment since.                 *)
PassedCheck(r) ==
    \/ step[r] \in {"save", "publish", "delete", "update"}
    \/ answer[r] \in {"ok", "not found"}

MemberWhileServed == \A r \in Requests : PassedCheck(r) => sighted[r]

(* An event says "created" only of a message that was stored, in that chat *)
(* and with that time: SendMessage saves before it publishes and stops     *)
(* when saving fails.                                                      *)
CreatedEventsAreOfStoredMessages ==
    \A event \in Published(CreatedTopic) :
        \E m \in saved : event = CreatedEvent(m)

(* A message that was stored is still there, unless a deletion named its   *)
(* sender, the chat it belongs to and its id: DeleteMany filters by all    *)
(* three.                                                                  *)
DeletedInTheSendersName ==
    \A m \in saved :
        \/ \E n \in messages : n.id = m.id
        \/ \E r \in Requests :
              /\ req[r] # NoRequest
              /\ req[r].kind = "delete" /\ req[r].claimed = m.sender /\ req[r].chat = m.chat
              /\ m.id \in req[r].ids

(* Every text a message has ever had was given to it by a send or an edit  *)
(* in the name of its sender and in its chat.                              *)
WrittenInTheSendersName ==
    \A m \in saved : \E r \in Requests :
        /\ req[r] # NoRequest
        /\ req[r].kind \in {"send", "edit"}
        /\ req[r].claimed = m.sender /\ req[r].chat = m.chat /\ req[r].text = m.text

(* Of overlapping deletions of a message at most one deletes it, and the   *)
(* others do not report success for it: success means something was        *)
(* deleted by this very request.                                           *)
DeletionsAreAnsweredTruthfully ==
    /\ \A r \in Requests :
          req[r] # NoRequest /\ req[r].kind = "delete" /\ answer[r] = "ok" => removed[r] # {}
    /\ \A r, q \in Requests : r # q => removed[r] \cap removed[q] = {}

(* A send that was answered "ok" is stored, however it was raced by a      *)
(* crash, a removal from the chat or a lost event.                         *)
AcknowledgedMeansStored ==
    \A r \in Requests :
        req[r] # NoRequest /\ req[r].kind = "send" /\ answer[r] = "ok" =>
            draft[r] # {} /\ draft[r] \subseteq saved
=============================================================================
