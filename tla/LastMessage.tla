----------------------------- MODULE LastMessage ----------------------------
(***************************************************************************)
(* The chat list's "last message": the requests of MessageService publish, *)
(* the consumers of KafkaConsumer call the handlers of                     *)
(* src/internal/usecase/event/event_handlers.go, and these copy the newest *)
(* message of the event's chat from MongoDB to the row of the chat in      *)
(* PostgreSQL (UpdateChatLastMessage in chat_repository.go).  Server and   *)
(* consumers are goroutines of one process, as cmd/app/main.go starts      *)
(* them, and die together.                                                 *)
(*                                                                         *)
(* A handler is two steps, the read and the write; HandleMessageCreated    *)
(* and HandleMessageDeleted do the same with the chat of their event.      *)
(*                                                                         *)
(* Which topics the consumers read and which columns the table has are     *)
(* constants.  As deployed the consumers read topics nobody writes to and  *)
(* the table lacks columns, so that no handler is ever called and none     *)
(* could succeed (UnreadTopicsShowNothing and MissingColumnShowsNothing in *)
(* LastMessageProofs); the safety properties below hold then as well.      *)
(***************************************************************************)
EXTENDS MessageService, KafkaConsumer

CONSTANT ChatColumns   \* the columns of the table chats

(* The columns UpdateChatLastMessage sets.                                 *)
UpdatedColumns == {"last_message_text", "last_message_created_at"}

VARIABLES
    preview,   \* preview[chat]: the last message shown; {} or one [text, at]
    latest,    \* latest[c]: what the handler of c has read; {} or one message
    gone       \* history: gone[c], ids that had been deleted when c fetched its event

previewVars == <<preview, latest, gone>>
lastVars == <<log, serviceVars, cursorVars, previewVars>>

LastInit ==
    /\ LogInit /\ RequestsInit /\ CursorInit
    /\ preview = [chat \in Chats |-> {}]
    /\ latest = [c \in Consumers |-> {}]
    /\ gone = [c \in Consumers |-> {}]

Event(c) == log[hand[c].part][hand[c].offset]

Shown(m) == [text |-> m.text, at |-> m.at]
-----------------------------------------------------------------------------
NothingRead(c) == latest' = [latest EXCEPT ![c] = {}]

(* Faulty: the handler shows the message of the event, as the older        *)
(* consumers of the repository do, rather than the newest one.             *)
ReadOwnMessage(c) ==
    /\ phase[c] = "handle"
    /\ latest[c] = {}
    /\ Event(c).kind = "created"
    /\ latest' = [latest EXCEPT ![c] = {m \in saved : m.id = Event(c).id}]
    /\ UNCHANGED <<log, serviceVars, cursorVars, preview, gone>>

(* Faulty: a failed read is reported as handled.                           *)
ReadErrorIgnored(c) ==
    /\ phase[c] = "handle"
    /\ latest[c] = {}
    /\ \/ /\ latest' = [latest EXCEPT ![c] = Latest(messages, Event(c).chat)]
          /\ latest'[c] # {}
          /\ UNCHANGED <<log, cursorVars>>
       \/ /\ HandlerSucceeds(c)
          /\ UNCHANGED latest
    /\ UNCHANGED <<serviceVars, preview, gone>>

(* GetLatestMessage; that there is none is an error like any other.        *)
ReadLatest(c) ==
    /\ phase[c] = "handle"
    /\ latest[c] = {}
    /\ \/ /\ Latest(messages, Event(c).chat) # {}
          /\ latest' = [latest EXCEPT ![c] = Latest(messages, Event(c).chat)]
          /\ UNCHANGED <<log, cursorVars>>
       \/ /\ DatabaseErrors \/ Latest(messages, Event(c).chat) = {}
          /\ HandlerFails(c)
          /\ UNCHANGED latest
    /\ UNCHANGED <<serviceVars, preview, gone>>

(* Faulty: the UPDATE has lost its WHERE clause.                           *)
ShowEverywhere(m) == preview' = [chat \in Chats |-> {Shown(m)}]

Show(m) == preview' = [preview EXCEPT ![m.chat] = {Shown(m)}]

(* UpdateChatLastMessage.  A column that is not in the table is an error.  *)
WriteLatest(c) ==
    /\ phase[c] = "handle"
    /\ \E m \in latest[c] :
        \/ /\ UpdatedColumns \subseteq ChatColumns
           /\ Show(m)
           /\ HandlerSucceeds(c)
        \/ /\ UpdatedColumns \subseteq ChatColumns /\ DatabaseErrors
           /\ Show(m)
           /\ HandlerFails(c)
        \/ /\ DatabaseErrors \/ ~ UpdatedColumns \subseteq ChatColumns
           /\ UNCHANGED preview
           /\ HandlerFails(c)
    /\ NothingRead(c)
    /\ UNCHANGED <<serviceVars, gone>>

(* The process dies with its requests and handlers, and is started again.  *)
Die ==
    /\ Restart
    /\ Abandon
    /\ latest' = [c \in Consumers |-> {}]
    /\ UNCHANGED <<preview, gone>>
    /\ UNCHANGED <<messages, members, now, req, draft, answer, saved, sighted, removed>>

Serve(r) == RequestStep(r) /\ UNCHANGED <<cursorVars, previewVars>>

Environment ==
    /\ \/ \E r \in Requests : Arrive(r)
       \/ \E row \in Churn : ChangeMembers(row)
       \/ Tick
    /\ UNCHANGED <<cursorVars, previewVars>>

DeletedIds == UsedIds \ {m.id : m \in messages}

(* StartConsuming between the handlers.                                    *)
Loop(c) ==
    /\ \/ Fetch(c) /\ gone' = [gone EXCEPT ![c] = DeletedIds]
       \/ Commit(c) /\ UNCHANGED gone
    /\ UNCHANGED <<serviceVars, preview, latest>>

Regroup(c) == Rebalance(c) /\ UNCHANGED <<serviceVars, previewVars>>

Consume(c) ==
    \/ Loop(c)
    \/ ReadLatest(c)
    \/ WriteLatest(c)

LastNext ==
    \/ \E r \in Requests : Serve(r)
    \/ \E c \in Consumers : Consume(c) \/ Regroup(c)
    \/ Environment
    \/ Die

LastSafety == LastInit /\ [][LastNext]_lastVars
-----------------------------------------------------------------------------
(* A chat shows nothing but a text and a time that one of its own messages *)
(* has had.                                                                *)
PreviewIsOfTheChat ==
    \A chat \in Chats : \A shown \in preview[chat] :
        \E m \in saved : m.chat = chat /\ shown = Shown(m)

(* As long as nobody asks for a deletion, the preview of a chat never goes *)
(* back in time: not when events arrive out of order or twice, and not     *)
(* when a consumer is rebalanced or restarted.                             *)
PreviewNeverGoesBack ==
    [][\A chat \in Chats : \A shown \in preview[chat] :
          \E later \in preview'[chat] : shown.at <= later.at]_lastVars

(* As long as nobody asks for a deletion, a committed creation event has   *)
(* made up for those before it in its chat, handled or failed: none of     *)
(* their messages is newer than the preview.                               *)
CommittedMeansVisible ==
    \A p \in Partitions :
        TopicOf[p] = CreatedTopic /\ committed[p] > 0 =>
            \A o \in 1..committed[p] :
                log[p][o].chat = log[p][committed[p]].chat =>
                    \E shown \in preview[log[p][o].chat] : log[p][o].at <= shown.at

(* An event says that a message was sent, not that it is still there: a    *)
(* creation that is delivered late, twice, or again after a restart does   *)
(* not bring back a message that had been deleted when the event was       *)
(* fetched, for the handlers show what the collection holds.  (A message   *)
(* that is deleted after the handler has read it is shown all the same.)   *)
NothingIsBroughtBack ==
    \A c \in Consumers : \A m \in latest[c] : m.id \notin gone[c]

(* Nothing is being served, no request was cut short, and nothing is left  *)
(* to consume in the topics somebody is subscribed to.                     *)
Settled ==
    /\ \A r \in Requests : step[r] = "idle" \/ answer[r] # "none"
    /\ \A p \in Partitions : position[p] = Len(log[p]) \/ \A c \in Consumers : p \notin Assigned(c)
    /\ \A c \in Consumers : phase[c] = "fetch"

(* "delete and update last message if needed", event_handlers.go says of   *)
(* its handlers: when everything has been served and consumed a chat that  *)
(* has messages shows the newest one.  What is deployed does not do this.  *)
SettledNewestIsShown ==
    Settled => \A chat \in Chats : \A m \in Latest(messages, chat) : preview[chat] = {Shown(m)}

(* No chat ever shows a message.  This is what becomes of the wiring in    *)
(* which nobody reads the producer's topics (cmd/app/main.go), or the      *)
(* table lacks a column (UpdateChatLastMessage and the migrations).        *)
NothingShown == \A chat \in Chats : preview[chat] = {}
=============================================================================
