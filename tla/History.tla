------------------------------ MODULE History -------------------------------
(***************************************************************************)
(* Reading the history of a chat page by page, newest first: GetMessages   *)
(* of src/internal/usecase/message/message_usecase.go over the collection, *)
(* while others write to the chat and delete from it.                      *)
(*                                                                         *)
(* A reader asks for a page with the time and the id of the oldest message *)
(* it was given, until it is given none.  A request is two steps, the      *)
(* check in PostgreSQL and the query in MongoDB.                           *)
(***************************************************************************)
EXTENDS MessageRepo

CONSTANTS
    Chats,      \* chat ids
    Chat,       \* the chat that is read
    Limit,      \* the length of a page
    MaxId,      \* bound: how many messages are ever written
    MaxTime     \* bound: the values of created_at

ASSUME HistoryAssumption ==
    /\ Chat \in Chats
    /\ Limit \in Nat \ {0} /\ MaxId \in Nat /\ MaxTime \in Nat \ {0}

Ids == 1..MaxId
Times == 1..MaxTime

Message == [id : Ids, chat : Chats, at : Times]
Anchor == [id : {NilObjectID} \cup Ids, at : {0} \cup Times]

NoAnchor == [id |-> NilObjectID, at |-> 0]

VARIABLES
    messages,   \* the collection
    now,        \* the clock of the service
    member,     \* whether the reader is a member of the chat
    reader,     \* the next step of the reader
    anchor,     \* the anchor of its request
    page,       \* the page it was given last
    earlier,    \* the messages of the pages before that
    used,       \* history: the ids of all messages that were ever written
    start       \* history: the messages of the chat when it began to read

vars == <<messages, now, member, reader, anchor, page, earlier, used, start>>

HistoryTypeOK ==
    /\ messages \subseteq Message
    /\ now \in Times
    /\ member \in BOOLEAN
    /\ reader \in {"idle", "check", "query", "got", "end", "refused"}
    /\ anchor \in Anchor
    /\ page \subseteq Message /\ Cardinality(page) <= Limit
    /\ earlier \subseteq Message
    /\ used \subseteq Ids
    /\ start \subseteq Message

Init ==
    /\ messages = {}
    /\ now = 1
    /\ member = TRUE
    /\ reader = "idle"
    /\ anchor = NoAnchor
    /\ page = {}
    /\ earlier = {}
    /\ used = {}
    /\ start = {}
-----------------------------------------------------------------------------
(* SendMessage of others: created_at was read at some time before the      *)
(* message is inserted, the _id is fresh.                                  *)
Send ==
    \E id \in Ids \ used, chat \in Chats, at \in 1..now :
        /\ messages' = messages \cup {[id |-> id, chat |-> chat, at |-> at]}
        /\ used' = used \cup {id}
        /\ UNCHANGED <<now, member, reader, anchor, page, earlier, start>>

(* DeleteMessage of others.                                                *)
Delete ==
    \E m \in messages :
        /\ messages' = messages \ {m}
        /\ UNCHANGED <<now, member, reader, anchor, page, earlier, used, start>>

(* The reader is removed from the chat, or added to it.                    *)
ChangeMembers ==
    /\ member' = ~member
    /\ UNCHANGED <<messages, now, reader, anchor, page, earlier, used, start>>

Tick ==
    /\ now < MaxTime
    /\ now' = now + 1
    /\ UNCHANGED <<messages, member, reader, anchor, page, earlier, used, start>>
-----------------------------------------------------------------------------
(* The first request has no anchor.                                        *)
Open ==
    /\ reader = "idle"
    /\ reader' = "check"
    /\ start' = InChat(messages, Chat)
    /\ UNCHANGED <<messages, now, member, anchor, page, earlier, used>>

(* The next request: last_message and last_message_id of the oldest one.   *)
AskForMore ==
    /\ reader = "got"
    /\ \E m \in page :
          /\ \A n \in page \ {m} : Older(m, n)
          /\ anchor' = [id |-> m.id, at |-> m.at]
    /\ reader' = "check"
    /\ earlier' = earlier \cup page
    /\ page' = {}
    /\ UNCHANGED <<messages, now, member, used, start>>

(* GetMessages of the service: the reader is a member of the chat; the     *)
(* query of the check may fail.                                            *)
CheckIsMember ==
    /\ reader = "check"
    /\ reader' \in IF member THEN {"query", "refused"} ELSE {"refused"}
    /\ UNCHANGED <<messages, now, member, anchor, page, earlier, used, start>>

(* GetMessages of the repository, which may fail.                          *)
GetMessages ==
    /\ reader = "query"
    /\ \/ /\ page' = Page(messages, Chat, anchor, Limit)
          /\ reader' = IF page' = {} THEN "end" ELSE "got"
       \/ /\ reader' = "refused"
          /\ UNCHANGED page
    /\ UNCHANGED <<messages, now, member, anchor, earlier, used, start>>

Others == Send \/ Delete \/ ChangeMembers \/ Tick

Reader == Open \/ AskForMore \/ CheckIsMember \/ GetMessages

Next == Others \/ Reader

Spec == Init /\ [][Next]_vars
-----------------------------------------------------------------------------
(* Each page is older than all the pages before it, so that no message is  *)
(* read twice, whatever was written or deleted in between.                 *)
PagesGoBack == \A m \in page, n \in earlier : Older(m, n)

(* A reader who gets to the end has read every message that was there when *)
(* it began and that nobody deleted, those of the same time included.      *)
NothingIsSkipped == reader = "end" => start \cap messages \subseteq earlier
=============================================================================
