------------------------------ MODULE Sockets -------------------------------
(***************************************************************************)
(* Web sockets: the Manager of src/internal/delivery/ws/manager.go, and    *)
(* the goroutines of message_handlers.go that push to it.                  *)
(*                                                                         *)
(*   connection   upgrade --> lock, enter it in the map --> read until it  *)
(*                fails --> close it; the entry stays                      *)
(*   push         who are the members? --> for each but the sender:        *)
(*                lock, look up, unlock --> write --> if that fails: lock, *)
(*                remove the entry of the user, unlock --> close           *)
(*                                                                         *)
(* A write has no deadline, and hangs while the peer reads nothing.  A     *)
(* connection of gorilla/websocket allows one writer at a time: of two,    *)
(* either may fail, panic, or go unharmed.  Nothing recovers a panic of a  *)
(* push, and the process dies and is restarted.                            *)
(***************************************************************************)
EXTENDS Naturals

CONSTANTS
    Users,
    Pushes,        \* the goroutines that requests start
    MaxConns,      \* bound: connections that are ever made
    Jobs,          \* what they push: by whom, and whether he is skipped
    Members,       \* the members a chat may be found to have
    Columns,       \* of the table chats
    NoUser

ASSUME SocketsAssumption ==
    /\ MaxConns \in Nat
    /\ Jobs \subseteq [sender : Users, skips : BOOLEAN]
    /\ Members \subseteq SUBSET Users
    /\ NoUser \notin Users

(* What GetChatDetails selects.                                            *)
DetailsColumns == {"id", "title", "is_private", "created_at", "members",
                   "members_usernames", "members_count"}

Conns == 1..MaxConns
NoConn == 0

Socket == [user : Users \cup {NoUser}, handler : {"none", "upgraded", "reading", "returned"},
           open : BOOLEAN, gone : BOOLEAN]

(* skips: a new message or an edit is not pushed to who sent it; of a      *)
(* deletion he is told as well.                                            *)
Push == [at : {"idle", "next", "locked", "write", "remove", "close", "done"},
         sender : Users \cup {NoUser}, skips : BOOLEAN,
         todo : SUBSET Users, to : Users \cup {NoUser}, via : Conns \cup {NoConn}]

VARIABLES
    conn,      \* conn[k]: its user, its goroutine, its socket, and whether the peer has gone
    clients,   \* the map of the Manager
    push,      \* push[p]: what the goroutine is about to do
    newest,    \* history: the connection each user entered last
    failedFor, \* history: the users to whom a write has failed
    owed       \* history: who has been in the map since p knew the members,
               \* is to be told, and has not been written to

histories == <<newest, failedFor, owed>>
vars == <<conn, clients, push, histories>>

Unused == [user |-> NoUser, handler |-> "none", open |-> FALSE, gone |-> FALSE]

(* An entry of the map, and what a push writes to, is of the right user.   *)
UsersFit ==
    /\ \A k \in Conns : conn[k] # Unused => conn[k].user \in Users
    /\ \A u \in Users : clients[u] # NoConn => conn[clients[u]].user = u
    /\ \A p \in Pushes : push[p].via # NoConn =>
                          push[p].to \in Users /\ conn[push[p].via].user = push[p].to
    /\ \A p \in Pushes : push[p].at \in {"write", "remove", "close"} => push[p].via # NoConn

SocketsTypeOK ==
    /\ conn \in [Conns -> Socket]
    /\ clients \in [Users -> Conns \cup {NoConn}]
    /\ push \in [Pushes -> Push]
    /\ newest \in [Users -> Conns \cup {NoConn}]
    /\ failedFor \subseteq Users
    /\ owed \in [Pushes -> SUBSET Users]
    /\ UsersFit

Idle == [at |-> "idle", sender |-> NoUser, skips |-> FALSE, todo |-> {}, to |-> NoUser,
         via |-> NoConn]

Init ==
    /\ conn = [k \in Conns |-> Unused]
    /\ clients = [u \in Users |-> NoConn]
    /\ push = [p \in Pushes |-> Idle]
    /\ newest = clients
    /\ failedFor = {}
    /\ owed = [p \in Pushes |-> {}]
-----------------------------------------------------------------------------
(* ConnectWebSocket with a token of the user; the upgrade succeeds.        *)
Upgrade(k) ==
    /\ conn[k] = Unused
    /\ \A j \in 1..(k - 1) : conn[j] # Unused
    /\ \E u \in Users :
          conn' = [conn EXCEPT ![k] = [user |-> u, handler |-> "upgraded", open |-> TRUE,
                                       gone |-> FALSE]]
    /\ UNCHANGED <<clients, push, histories>>

(* Faulty: the read lock is held during the write.                         *)
HoldsWhileWriting(p) == push[p].at \in {"locked", "write"}

(* The read lock of WsUnicast.                                             *)
HoldsLock(p) == push[p].at = "locked"

Unlocked == \A p \in Pushes : ~HoldsLock(p)

Register(k) ==
    /\ conn[k].handler = "upgraded" /\ Unlocked
    /\ clients' = [clients EXCEPT ![conn[k].user] = k]
    /\ newest' = [newest EXCEPT ![conn[k].user] = k]
    /\ conn' = [conn EXCEPT ![k].handler = "reading"]
    /\ UNCHANGED <<push, failedFor, owed>>

(* Faulty: the handler removes the entry of its user when it returns.      *)
ReturnAndForget(k) ==
    /\ conn[k].handler = "reading" /\ Unlocked
    /\ ~conn[k].open \/ conn[k].gone
    /\ conn' = [conn EXCEPT ![k].handler = "returned", ![k].open = FALSE]
    /\ clients' = [clients EXCEPT ![conn[k].user] = NoConn]
    /\ UNCHANGED <<push, histories>>

(* The read loop ends, and the deferred Close follows.                     *)
ReadFails(k) ==
    /\ conn[k].handler = "reading"
    /\ ~conn[k].open \/ conn[k].gone
    /\ conn' = [conn EXCEPT ![k].handler = "returned", ![k].open = FALSE]
    /\ UNCHANGED <<clients, push, histories>>

(* The client goes.                                                        *)
PeerGoes(k) ==
    /\ conn[k].open /\ ~conn[k].gone
    /\ conn' = [conn EXCEPT ![k].gone = TRUE]
    /\ UNCHANGED <<clients, push, histories>>
-----------------------------------------------------------------------------
Goes(p, at) == push' = [push EXCEPT ![p].at = at]

(* WsUnicast returns.                                                      *)
Continue(p) == push' = [push EXCEPT ![p].at = "next", ![p].to = NoUser, ![p].via = NoConn]

Connected == {u \in Users : clients[u] # NoConn}

Skipped(p, u) == push[p].skips /\ u = push[p].sender

(* A message was sent, edited or deleted, and GetChatDetails returns: the  *)
(* sender is a member, and these are all.                                  *)
Begin(p) ==
    /\ push[p].at = "idle" /\ DetailsColumns \subseteq Columns
    /\ \E job \in Jobs, members \in Members :
          /\ job.sender \in members
          /\ push' = [push EXCEPT ![p].at = "next", ![p].todo = members,
                                  ![p].sender = job.sender, ![p].skips = job.skips]
          /\ owed' = [owed EXCEPT ![p] = (members \cap Connected) \
                                            IF job.skips THEN {job.sender} ELSE {}]
    /\ UNCHANGED <<conn, clients, newest, failedFor>>

(* GetChatDetails fails: a column is missing, or the database fails, or    *)
(* the sender is no member.                                                *)
BeginFails(p) ==
    /\ push[p].at = "idle"
    /\ Goes(p, "done")
    /\ UNCHANGED <<conn, clients, histories>>

(* Faulty: the connection of the sender is written to.                     *)
LookUpSender(p, u) == clients[push[p].sender]

LookUp(p, u) == clients[u]

(* Faulty: break for continue.                                             *)
StopAtSender(p) ==
    /\ push[p].at = "next"
    /\ \/ push[p].todo = {} /\ Goes(p, "done")
       \/ \E u \in push[p].todo : Skipped(p, u) /\ Goes(p, "done")
       \/ \E u \in push[p].todo :
             /\ ~Skipped(p, u)
             /\ push' = [push EXCEPT ![p].at = "locked", ![p].todo = @ \ {u},
                                     ![p].to = u, ![p].via = LookUp(p, u)]
    /\ UNCHANGED <<conn, clients, histories>>

(* The loop over the members, as far as the look-up of WsUnicast.          *)
NextMember(p) ==
    /\ push[p].at = "next"
    /\ \/ push[p].todo = {} /\ Goes(p, "done")
       \/ \E u \in push[p].todo :
             /\ Skipped(p, u)
             /\ push' = [push EXCEPT ![p].todo = @ \ {u}]
       \/ \E u \in push[p].todo :
             /\ ~Skipped(p, u)
             /\ push' = [push EXCEPT ![p].at = "locked", ![p].todo = @ \ {u},
                                     ![p].to = u, ![p].via = LookUp(p, u)]
    /\ UNCHANGED <<conn, clients, histories>>

Unlock(p) ==
    /\ push[p].at = "locked"
    /\ IF push[p].via = NoConn THEN Continue(p) ELSE Goes(p, "write")
    /\ UNCHANGED <<conn, clients, histories>>

(* Another push writes to the same connection.                             *)
Overlaps(p) ==
    \E q \in Pushes \ {p} :
        push[p].at = "write" /\ push[q].at = "write" /\ push[p].via = push[q].via

WriteSucceeds(p) ==
    /\ push[p].at = "write"
    /\ conn[push[p].via].open /\ ~conn[push[p].via].gone
    /\ owed' = [owed EXCEPT ![p] = @ \ {push[p].to}]
    /\ Continue(p)
    /\ UNCHANGED <<conn, clients, newest, failedFor>>

WriteFails(p) ==
    /\ push[p].at = "write"
    /\ \/ ~conn[push[p].via].open
       \/ conn[push[p].via].gone
       \/ Overlaps(p)
    /\ owed' = [owed EXCEPT ![p] = @ \ {push[p].to}]
    /\ failedFor' = failedFor \cup {push[p].to}
    /\ Goes(p, "remove")
    /\ UNCHANGED <<conn, clients, newest>>

(* removeClient: whichever connection of the user is in the map.           *)
RemoveClient(p) ==
    /\ push[p].at = "remove" /\ Unlocked
    /\ clients' = [clients EXCEPT ![push[p].to] = NoConn]
    /\ owed' = [q \in Pushes |-> owed[q] \ {push[p].to}]
    /\ Goes(p, "close")
    /\ UNCHANGED <<conn, newest, failedFor>>

CloseConn(p) ==
    /\ push[p].at = "close"
    /\ conn' = [conn EXCEPT ![push[p].via].open = FALSE]
    /\ Continue(p)
    /\ UNCHANGED <<clients, histories>>

(* "concurrent write to websocket connection": all that the process had is *)
(* lost.                                                                   *)
Panic ==
    /\ \E p \in Pushes : Overlaps(p)
    /\ conn' = [k \in Conns |-> IF conn[k] = Unused THEN Unused
                                ELSE [conn[k] EXCEPT !.handler = "returned", !.open = FALSE]]
    /\ clients' = [u \in Users |-> NoConn]
    /\ push' = [p \in Pushes |-> IF push[p].at = "idle" THEN Idle
                                 ELSE [Idle EXCEPT !.at = "done"]]
    /\ newest' = clients'
    /\ owed' = [p \in Pushes |-> {}]
    /\ UNCHANGED failedFor
-----------------------------------------------------------------------------
Connection(k) == Register(k) \/ ReadFails(k)

PushStep(p) ==
    NextMember(p) \/ Unlock(p) \/ WriteFails(p) \/ RemoveClient(p) \/ CloseConn(p)

Next ==
    \/ \E k \in Conns : Upgrade(k) \/ Connection(k) \/ PeerGoes(k)
    \/ \E p \in Pushes : Begin(p) \/ BeginFails(p) \/ PushStep(p) \/ WriteSucceeds(p)
    \/ Panic

(* Goroutines run; a write, to a peer that reads nothing, need not return. *)
Fairness ==
    /\ \A k \in Conns : WF_vars(Connection(k))
    /\ \A p \in Pushes : WF_vars(PushStep(p))

Spec == Init /\ [][Next]_vars /\ Fairness
-----------------------------------------------------------------------------
(* The connection a user has opened last is the one in the map, unless a   *)
(* write to him has failed.  That write may have been to an older          *)
(* connection, in which case the new one is lost, and nothing enters it    *)
(* again; but the end of an older connection by itself never does this.    *)
OnlyFailedWritesUnlist ==
    \A u \in Users : clients[u] # newest[u] => u \in failedFor

(* A push that has ended has tried each member, save the sender of a new   *)
(* message or an edit, who was connected all the while, though others of   *)
(* them came, went, or failed to read.                                     *)
PushReachesConnected ==
    \A p \in Pushes : push[p].at = "done" => owed[p] = {}

(* A new connection is entered in the map, though writes hang.             *)
ConnectingNeverWaits ==
    \A k \in Conns : conn[k].handler = "upgraded" ~> conn[k].handler # "upgraded"
=============================================================================
