---------------------------- MODULE SocketsProofs ----------------------------
(***************************************************************************)
(* Proofs about module Sockets, for every number of users, connections and *)
(* pushes.  The argument: an entry of the map is replaced by a newer one   *)
(* or removed by a push whose write has failed, and by nothing else; and   *)
(* whom a push still owes something is ahead of it in its list, or is the  *)
(* one it is about to write to.                                            *)
(***************************************************************************)
EXTENDS Sockets, TLAPS

(* A push that removes or closes has failed to write to this user.         *)
FailuresAreKept ==
    \A p \in Pushes : push[p].at = "remove" => push[p].to \in failedFor

(* Whom a push owes something is connected, and it will get to him.        *)
OwedAreAhead ==
    \A p \in Pushes : \A u \in owed[p] :
        /\ clients[u] # NoConn
        /\ ~Skipped(p, u)
        /\ \/ u \in push[p].todo /\ push[p].at \notin {"idle", "done"}
           \/ u = push[p].to /\ push[p].via # NoConn /\ push[p].at \in {"locked", "write"}

SocketsInv ==
    /\ SocketsTypeOK
    /\ OnlyFailedWritesUnlist
    /\ FailuresAreKept
    /\ OwedAreAhead
-----------------------------------------------------------------------------
(* No connection is numbered 0.                                            *)
LEMMA NoConnIsNone == NoConn \notin Conns
BY DEF NoConn, Conns

(* Nobody is connected, and nothing is being pushed.                       *)
LEMMA SocketsInitInv == Init => SocketsInv
BY SocketsAssumption, NoConnIsNone
DEF Init, SocketsInv, SocketsTypeOK, OnlyFailedWritesUnlist, FailuresAreKept, OwedAreAhead,
    Unused, Idle, Socket, Push, UsersFit

(* A step that leaves the map and the pushes as they are, and only changes *)
(* what the connections do, keeps the invariant.                           *)
LEMMA ConnectionStepKeepsInv ==
    ASSUME SocketsInv, SocketsTypeOK', UNCHANGED <<clients, push, histories>>
    PROVE  SocketsInv'
BY DEF SocketsInv, OnlyFailedWritesUnlist, FailuresAreKept, OwedAreAhead, Skipped, histories

(* A connection that changes keeps its user, if it has one.                *)
LEMMA ConnChangeKeepsTypes ==
    ASSUME SocketsTypeOK, NEW k \in Conns, NEW new \in Socket,
           conn' = [conn EXCEPT ![k] = new], UNCHANGED <<clients, push, histories>>,
           new.user \in Users, new.user = conn[k].user \/ conn[k].user = NoUser
    PROVE  SocketsTypeOK'
<1>1. conn' \in [Conns -> Socket]
  BY DEF SocketsTypeOK
<1>2. \A j \in Conns : conn[j].user \in Users => conn'[j].user = conn[j].user
  BY SocketsAssumption DEF SocketsTypeOK
<1>3. UsersFit'
  <2>1. \A j \in Conns : conn'[j] # Unused => conn'[j].user \in Users
    BY DEF SocketsTypeOK, UsersFit
  <2>2. \A u \in Users : clients'[u] # NoConn => conn'[clients'[u]].user = u
    BY <1>2 DEF SocketsTypeOK, UsersFit
  <2>3. \A p \in Pushes : push[p].via # NoConn => push[p].via \in Conns
    BY DEF SocketsTypeOK, Push
  <2>4. \A p \in Pushes : push'[p].via # NoConn =>
                          push'[p].to \in Users /\ conn'[push'[p].via].user = push'[p].to
    BY <1>2, <2>3 DEF SocketsTypeOK, UsersFit
  <2> QED  BY <2>1, <2>2, <2>4 DEF SocketsTypeOK, UsersFit
<1> QED  BY <1>1, <1>3 DEF SocketsTypeOK, histories

(* A connection that is made takes a number that no entry has.             *)
LEMMA UpgradeKeepsInv ==
    ASSUME SocketsInv, NEW k \in Conns, Upgrade(k) PROVE  SocketsInv'
<1>1. PICK u \in Users :
          conn' = [conn EXCEPT ![k] = [user |-> u, handler |-> "upgraded", open |-> TRUE,
                                       gone |-> FALSE]]
  BY DEF Upgrade
<1>2. SocketsTypeOK /\ conn[k].user = NoUser /\ UNCHANGED <<clients, push, histories>>
  BY DEF SocketsInv, Upgrade, Unused
<1>3. [user |-> u, handler |-> "upgraded", open |-> TRUE, gone |-> FALSE] \in Socket
  BY DEF Socket
<1>4. SocketsTypeOK'
  BY <1>1, <1>2, <1>3, ConnChangeKeepsTypes
<1> QED  BY <1>2, <1>4, ConnectionStepKeepsInv

(* The peer goes, or the goroutine returns.                                *)
LEMMA ConnectionEndKeepsInv ==
    ASSUME SocketsInv, NEW k \in Conns, ReadFails(k) \/ PeerGoes(k) PROVE  SocketsInv'
<1>1. /\ UNCHANGED <<clients, push, histories>> /\ SocketsTypeOK
      /\ conn \in [Conns -> Socket] /\ conn[k] \in Socket
  BY DEF ReadFails, PeerGoes, SocketsInv, SocketsTypeOK
<1>2. conn[k].user \in Users
  BY <1>1 DEF SocketsTypeOK, UsersFit, ReadFails, PeerGoes, Unused
<1>3. CASE ReadFails(k)
  <2> DEFINE new == [conn[k] EXCEPT !.handler = "returned", !.open = FALSE]
  <2>1. conn' = [conn EXCEPT ![k] = new] /\ conn[k].handler = "reading"
    BY <1>1, <1>3 DEF ReadFails
  <2>2. new \in Socket /\ new.user = conn[k].user
    BY <1>1 DEF Socket
  <2> HIDE DEF new
  <2>3. SocketsTypeOK'
    BY <1>1, <1>2, <2>1, <2>2, ConnChangeKeepsTypes
  <2> QED  BY <1>1, <2>3, ConnectionStepKeepsInv
<1>4. CASE PeerGoes(k)
  <2> DEFINE new == [conn[k] EXCEPT !.gone = TRUE]
  <2>1. conn' = [conn EXCEPT ![k] = new]
    BY <1>1, <1>4 DEF PeerGoes
  <2>2. new \in Socket /\ new.user = conn[k].user /\ new.handler = conn[k].handler
    BY <1>1 DEF Socket
  <2> HIDE DEF new
  <2>3. SocketsTypeOK'
    BY <1>1, <1>2, <2>1, <2>2, ConnChangeKeepsTypes
  <2> QED  BY <1>1, <2>3, ConnectionStepKeepsInv
<1> QED  BY <1>3, <1>4

(* A connection is entered: it is the newest one of its user.              *)
LEMMA RegisterKeepsInv ==
    ASSUME SocketsInv, NEW k \in Conns, Register(k) PROVE  SocketsInv'
<1> DEFINE u == conn[k].user
           new == [conn[k] EXCEPT !.handler = "reading"]
<1>1. /\ SocketsTypeOK /\ conn[k] \in Socket /\ u \in Users
      /\ clients' = [clients EXCEPT ![u] = k] /\ newest' = [newest EXCEPT ![u] = k]
      /\ conn' = [conn EXCEPT ![k] = new]
      /\ UNCHANGED <<push, failedFor, owed>>
  BY DEF Register, SocketsInv, SocketsTypeOK, UsersFit, Unused
<1>2. new \in Socket /\ new.user = u
  BY <1>1 DEF Socket
<1> HIDE DEF new
<1>3. conn' \in [Conns -> Socket] /\ \A j \in Conns : conn'[j].user = conn[j].user
  BY <1>1, <1>2 DEF SocketsTypeOK
<1>4. UsersFit'
  <2>1. \A j \in Conns : conn'[j] # Unused => conn'[j].user \in Users
    BY <1>1, <1>2, <1>3 DEF SocketsTypeOK, UsersFit
  <2>2. \A v \in Users : clients'[v] # NoConn => conn'[clients'[v]].user = v
    BY <1>1, <1>3 DEF SocketsTypeOK, UsersFit
  <2>3. \A p \in Pushes : push[p].via # NoConn => push[p].via \in Conns
    BY <1>1 DEF SocketsTypeOK, Push
  <2> QED  BY <1>1, <1>3, <2>1, <2>2, <2>3 DEF SocketsTypeOK, UsersFit
<1>5. SocketsTypeOK'
  BY <1>1, <1>3, <1>4 DEF SocketsTypeOK
<1>6. OnlyFailedWritesUnlist'
  BY <1>1 DEF SocketsInv, SocketsTypeOK, OnlyFailedWritesUnlist
<1>7. \A v \in Users : clients[v] # NoConn => clients'[v] # NoConn
  BY <1>1, NoConnIsNone DEF SocketsTypeOK
<1>8. FailuresAreKept' /\ OwedAreAhead'
  BY <1>1, <1>7 DEF SocketsInv, SocketsTypeOK, FailuresAreKept, OwedAreAhead, Skipped
<1> QED  BY <1>5, <1>6, <1>8 DEF SocketsInv
-----------------------------------------------------------------------------
(* A push that changes still writes to a connection of the right user.     *)
LEMMA PushChangeKeepsTypes ==
    ASSUME SocketsTypeOK, NEW p \in Pushes, NEW new \in Push,
           push' = [push EXCEPT ![p] = new], UNCHANGED <<conn, clients, newest>>,
           failedFor' \subseteq Users, owed' \in [Pushes -> SUBSET Users],
           new.via # NoConn => new.to \in Users /\ conn[new.via].user = new.to,
           new.at \in {"write", "remove", "close"} => new.via # NoConn
    PROVE  SocketsTypeOK'
BY DEF SocketsTypeOK, UsersFit

(* A step of p that writes to nobody, and loses nobody it owes something.  *)
LEMMA PushStepKeepsInv ==
    ASSUME SocketsInv, NEW p \in Pushes, UNCHANGED <<conn, clients, histories>>,
           NEW new \in Push, push' = [push EXCEPT ![p] = new],
           new.sender = push[p].sender, new.skips = push[p].skips,
           new.via # NoConn => new.to \in Users /\ conn[new.via].user = new.to,
           new.at \in {"write", "close"} => new.via # NoConn,
           new.at # "remove",
           \A u \in owed[p] :
               \/ u \in new.todo /\ new.at \notin {"idle", "done"}
               \/ u = new.to /\ new.via # NoConn /\ new.at \in {"locked", "write"}
    PROVE  SocketsInv'
<1>1. SocketsTypeOK'
  <2>1. failedFor' \subseteq Users /\ owed' \in [Pushes -> SUBSET Users]
    BY DEF SocketsInv, SocketsTypeOK, histories
  <2> QED  BY <2>1, PushChangeKeepsTypes DEF SocketsInv, histories
<1>2. OnlyFailedWritesUnlist' /\ FailuresAreKept'
  BY DEF SocketsInv, SocketsTypeOK, OnlyFailedWritesUnlist, FailuresAreKept, histories
<1>3. OwedAreAhead'
  BY DEF SocketsInv, SocketsTypeOK, OwedAreAhead, Skipped, histories
<1> QED  BY <1>1, <1>2, <1>3 DEF SocketsInv

(* A push begins: whom it owes something is a member, connected, not the   *)
(* sender if he is skipped.                                                *)
LEMMA BeginKeepsInv ==
    ASSUME SocketsInv, NEW p \in Pushes, Begin(p) PROVE  SocketsInv'
<1>1. PICK job \in Jobs, members \in Members :
          /\ push' = [push EXCEPT ![p].at = "next", ![p].todo = members,
                                  ![p].sender = job.sender, ![p].skips = job.skips]
          /\ owed' = [owed EXCEPT ![p] = (members \cap Connected) \
                                            IF job.skips THEN {job.sender} ELSE {}]
  BY DEF Begin
<1>2. /\ SocketsTypeOK /\ UNCHANGED <<conn, clients, newest, failedFor>>
      /\ job.sender \in Users /\ job.skips \in BOOLEAN /\ members \subseteq Users
  BY SocketsAssumption DEF Begin, SocketsInv
<1>3. SocketsTypeOK'
  <2> DEFINE new == [push[p] EXCEPT !.at = "next", !.todo = members, !.sender = job.sender,
                                    !.skips = job.skips]
  <2>1. push' = [push EXCEPT ![p] = new]
    BY <1>1, <1>2 DEF SocketsTypeOK
  <2>2. push[p] \in Push /\ (push[p].via # NoConn =>
            push[p].to \in Users /\ conn[push[p].via].user = push[p].to)
    BY <1>2 DEF SocketsTypeOK, UsersFit
  <2>3. new \in Push /\ new.via = push[p].via /\ new.to = push[p].to /\ new.at = "next"
    BY <1>2, <2>2 DEF Push
  <2>4. owed' \in [Pushes -> SUBSET Users]
    BY <1>1, <1>2 DEF SocketsTypeOK
  <2>5. failedFor' \subseteq Users
    BY <1>2 DEF SocketsTypeOK
  <2> HIDE DEF new
  <2> QED  BY <1>2, <2>1, <2>2, <2>3, <2>4, <2>5, PushChangeKeepsTypes
<1>4. OnlyFailedWritesUnlist' /\ FailuresAreKept'
  BY <1>1, <1>2 DEF SocketsInv, SocketsTypeOK, OnlyFailedWritesUnlist, FailuresAreKept, Push
<1>5. ASSUME NEW q \in Pushes, NEW u \in owed'[q]
      PROVE  /\ clients'[u] # NoConn /\ ~Skipped(q, u)'
             /\ \/ u \in push'[q].todo /\ push'[q].at \notin {"idle", "done"}
                \/ /\ u = push'[q].to /\ push'[q].via # NoConn
                   /\ push'[q].at \in {"locked", "write"}
  <2>1. CASE q = p
    BY <1>1, <1>2, <1>5, <2>1 DEF Connected, Skipped, SocketsTypeOK, Push
  <2>2. CASE q # p
    BY <1>1, <1>2, <1>5, <2>2 DEF SocketsInv, SocketsTypeOK, OwedAreAhead, Skipped
  <2> QED  BY <2>1, <2>2
<1> QED  BY <1>3, <1>4, <1>5 DEF SocketsInv, OwedAreAhead

(* A push that cannot begin owes nothing.                                  *)
LEMMA BeginFailsKeepsInv ==
    ASSUME SocketsInv, NEW p \in Pushes, BeginFails(p) PROVE  SocketsInv'
<1> DEFINE new == [push[p] EXCEPT !.at = "done"]
<1>1. push' = [push EXCEPT ![p] = new] /\ UNCHANGED <<conn, clients, histories>>
  BY DEF BeginFails, Goes, SocketsInv, SocketsTypeOK, Push
<1>2. push[p] \in Push /\ push[p].at = "idle" /\ owed[p] \subseteq Users
  BY DEF BeginFails, SocketsInv, SocketsTypeOK
<1>3. owed[p] = {}
  BY <1>2 DEF SocketsInv, OwedAreAhead
<1>4. new \in Push /\ new.sender = push[p].sender /\ new.skips = push[p].skips
      /\ new.via = push[p].via /\ new.to = push[p].to /\ new.at = "done"
  BY <1>2 DEF Push
<1>5. push[p].via # NoConn => push[p].to \in Users /\ conn[push[p].via].user = push[p].to
  BY DEF SocketsInv, SocketsTypeOK, UsersFit
<1> HIDE DEF new
<1> QED  BY <1>1, <1>3, <1>4, <1>5, PushStepKeepsInv

(* The loop: the sender who is skipped is owed nothing, and the look-up    *)
(* finds whoever is owed something.                                        *)
LEMMA NextMemberKeepsInv ==
    ASSUME SocketsInv, NEW p \in Pushes, NextMember(p) PROVE  SocketsInv'
<1>1. /\ push \in [Pushes -> Push] /\ push[p] \in Push /\ push[p].at = "next"
      /\ push[p].todo \subseteq Users /\ owed[p] \subseteq Users
      /\ clients \in [Users -> Conns \cup {NoConn}]
      /\ UNCHANGED <<conn, clients, histories>>
  BY DEF NextMember, SocketsInv, SocketsTypeOK, Push
<1>2. \A u \in owed[p] : u \in push[p].todo /\ ~Skipped(p, u) /\ clients[u] # NoConn
  BY <1>1 DEF SocketsInv, OwedAreAhead
<1>3. push[p].via # NoConn => push[p].to \in Users /\ conn[push[p].via].user = push[p].to
  BY DEF SocketsInv, SocketsTypeOK, UsersFit
<1>4. CASE push[p].todo = {} /\ Goes(p, "done")
  <2> DEFINE new == [push[p] EXCEPT !.at = "done"]
  <2>1. push' = [push EXCEPT ![p] = new] /\ owed[p] = {}
    BY <1>1, <1>2, <1>4 DEF Goes
  <2>2. new \in Push /\ new.sender = push[p].sender /\ new.skips = push[p].skips
        /\ new.via = push[p].via /\ new.to = push[p].to /\ new.at = "done"
    BY <1>1 DEF Push
  <2> HIDE DEF new
  <2> QED  BY <1>1, <1>3, <2>1, <2>2, PushStepKeepsInv
<1>5. ASSUME NEW u \in push[p].todo, Skipped(p, u), push' = [push EXCEPT ![p].todo = @ \ {u}]
      PROVE  SocketsInv'
  <2> DEFINE new == [push[p] EXCEPT !.todo = @ \ {u}]
  <2>1. push' = [push EXCEPT ![p] = new]
    BY <1>1, <1>5
  <2>2. new \in Push /\ new.sender = push[p].sender /\ new.skips = push[p].skips
        /\ new.via = push[p].via /\ new.to = push[p].to /\ new.at = "next"
        /\ new.todo = push[p].todo \ {u}
    BY <1>1 DEF Push
  <2>3. \A v \in owed[p] : v \in new.todo
    BY <1>2, <1>5, <2>2 DEF Skipped
  <2> HIDE DEF new
  <2> QED  BY <1>1, <1>3, <2>1, <2>2, <2>3, PushStepKeepsInv
<1>6. ASSUME NEW u \in push[p].todo,
             push' = [push EXCEPT ![p].at = "locked", ![p].todo = @ \ {u},
                                  ![p].to = u, ![p].via = LookUp(p, u)]
      PROVE  SocketsInv'
  <2> DEFINE new == [push[p] EXCEPT !.at = "locked", !.todo = @ \ {u}, !.to = u,
                                    !.via = LookUp(p, u)]
  <2>1. push' = [push EXCEPT ![p] = new]
    BY <1>1, <1>6
  <2>2. new \in Push /\ new.sender = push[p].sender /\ new.skips = push[p].skips
        /\ new.via = clients[u] /\ new.to = u /\ new.at = "locked"
        /\ new.todo = push[p].todo \ {u}
    BY <1>1 DEF Push, LookUp
  <2>3. \A v \in owed[p] : v \in new.todo \/ (v = new.to /\ new.via # NoConn)
    BY <1>2, <2>2
  <2>4. new.via # NoConn => new.to \in Users /\ conn[new.via].user = new.to
    BY <1>1, <2>2 DEF SocketsInv, SocketsTypeOK, UsersFit
  <2> HIDE DEF new
  <2> QED  BY <1>1, <2>1, <2>2, <2>3, <2>4, PushStepKeepsInv
<1> QED  BY <1>4, <1>5, <1>6 DEF NextMember

(* With a connection the push goes on to the write; without one the user   *)
(* is owed nothing.                                                        *)
LEMMA UnlockKeepsInv ==
    ASSUME SocketsInv, NEW p \in Pushes, Unlock(p) PROVE  SocketsInv'
<1>1. /\ push \in [Pushes -> Push] /\ push[p] \in Push /\ push[p].at = "locked"
      /\ UNCHANGED <<conn, clients, histories>>
  BY DEF Unlock, SocketsInv, SocketsTypeOK
<1>2. \A u \in owed[p] : u \in push[p].todo \/ (u = push[p].to /\ push[p].via # NoConn)
  BY <1>1 DEF SocketsInv, OwedAreAhead
<1>3. push[p].via # NoConn => push[p].to \in Users /\ conn[push[p].via].user = push[p].to
  BY DEF SocketsInv, SocketsTypeOK, UsersFit
<1>4. CASE push[p].via = NoConn /\ Continue(p)
  <2> DEFINE new == [push[p] EXCEPT !.at = "next", !.to = NoUser, !.via = NoConn]
  <2>1. push' = [push EXCEPT ![p] = new]
    BY <1>1, <1>4 DEF Continue
  <2>2. new \in Push /\ new.sender = push[p].sender /\ new.skips = push[p].skips
        /\ new.via = NoConn /\ new.at = "next" /\ new.todo = push[p].todo
    BY <1>1 DEF Push
  <2> HIDE DEF new
  <2> QED  BY <1>1, <1>2, <1>4, <2>1, <2>2, PushStepKeepsInv
<1>5. CASE push[p].via # NoConn /\ Goes(p, "write")
  <2> DEFINE new == [push[p] EXCEPT !.at = "write"]
  <2>1. push' = [push EXCEPT ![p] = new]
    BY <1>1, <1>5 DEF Goes
  <2>2. new \in Push /\ new.sender = push[p].sender /\ new.skips = push[p].skips
        /\ new.via = push[p].via /\ new.to = push[p].to /\ new.at = "write"
        /\ new.todo = push[p].todo
    BY <1>1 DEF Push
  <2> HIDE DEF new
  <2> QED  BY <1>1, <1>2, <1>3, <1>5, <2>1, <2>2, PushStepKeepsInv
<1> QED  BY <1>4, <1>5 DEF Unlock

(* A write pays what was owed to one user; if it fails, this is kept.      *)
LEMMA WriteKeepsInv ==
    ASSUME SocketsInv, NEW p \in Pushes, WriteSucceeds(p) \/ WriteFails(p)
    PROVE  SocketsInv'
<1>1. /\ SocketsTypeOK /\ push[p] \in Push /\ push[p].at = "write"
      /\ owed' = [owed EXCEPT ![p] = @ \ {push[p].to}]
      /\ UNCHANGED <<conn, clients, newest>>
  BY DEF WriteSucceeds, WriteFails, SocketsInv, SocketsTypeOK
<1>2. PICK new \in Push :
          /\ push' = [push EXCEPT ![p] = new]
          /\ new.sender = push[p].sender /\ new.skips = push[p].skips
          /\ new.todo = push[p].todo /\ new.at \in {"next", "remove"}
          /\ new.via # NoConn => new.via = push[p].via /\ new.to = push[p].to
          /\ new.at = "remove" => new.via # NoConn /\ new.to \in failedFor'
  <2>1. CASE WriteSucceeds(p)
    <3> DEFINE new == [push[p] EXCEPT !.at = "next", !.to = NoUser, !.via = NoConn]
    <3>1. push' = [push EXCEPT ![p] = new]
      BY <1>1, <2>1 DEF WriteSucceeds, Continue, SocketsTypeOK
    <3>2. new \in Push /\ new.sender = push[p].sender /\ new.skips = push[p].skips
          /\ new.todo = push[p].todo /\ new.at = "next" /\ new.via = NoConn
      BY <1>1 DEF Push
    <3> HIDE DEF new
    <3> QED  BY <3>1, <3>2
  <2>2. CASE WriteFails(p)
    <3> DEFINE new == [push[p] EXCEPT !.at = "remove"]
    <3>1. push' = [push EXCEPT ![p] = new] /\ failedFor' = failedFor \cup {push[p].to}
      BY <1>1, <2>2 DEF WriteFails, Goes, SocketsTypeOK
    <3>2. new \in Push /\ new.sender = push[p].sender /\ new.skips = push[p].skips
          /\ new.todo = push[p].todo /\ new.at = "remove" /\ new.via = push[p].via
          /\ new.to = push[p].to
      BY <1>1 DEF Push
    <3>3. push[p].via # NoConn
      BY <1>1 DEF SocketsTypeOK, UsersFit
    <3> HIDE DEF new
    <3> QED  BY <3>1, <3>2, <3>3
  <2> QED  BY <2>1, <2>2, <1>1 DEF WriteSucceeds, WriteFails
<1>3. push[p].via # NoConn /\ push[p].to \in Users /\ conn[push[p].via].user = push[p].to
  BY <1>1 DEF SocketsTypeOK, UsersFit
<1>4. failedFor \subseteq failedFor' /\ failedFor' \subseteq Users
  BY <1>1, <1>3 DEF WriteSucceeds, WriteFails, SocketsTypeOK
<1>5. SocketsTypeOK'
  <2>1. owed' \in [Pushes -> SUBSET Users]
    BY <1>1 DEF SocketsTypeOK
  <2> QED  BY <1>1, <1>2, <1>3, <1>4, <2>1, PushChangeKeepsTypes
<1>6. FailuresAreKept'
  BY <1>1, <1>2, <1>4 DEF SocketsInv, SocketsTypeOK, FailuresAreKept
<1>7. OnlyFailedWritesUnlist'
  BY <1>1, <1>4 DEF SocketsInv, OnlyFailedWritesUnlist
<1>8. OwedAreAhead'
  BY <1>1, <1>2 DEF SocketsInv, SocketsTypeOK, OwedAreAhead, Skipped
<1> QED  BY <1>5, <1>6, <1>7, <1>8 DEF SocketsInv

(* removeClient: a write to this user has failed, and nobody owes him      *)
(* anything any more.                                                      *)
LEMMA RemoveClientKeepsInv ==
    ASSUME SocketsInv, NEW p \in Pushes, RemoveClient(p) PROVE  SocketsInv'
<1> DEFINE new == [push[p] EXCEPT !.at = "close"]
<1>1. /\ SocketsTypeOK /\ push[p] \in Push /\ push[p].at = "remove"
      /\ push' = [push EXCEPT ![p] = new]
      /\ clients' = [clients EXCEPT ![push[p].to] = NoConn]
      /\ owed' = [q \in Pushes |-> owed[q] \ {push[p].to}]
      /\ UNCHANGED <<conn, newest, failedFor>>
  BY DEF RemoveClient, Goes, SocketsInv, SocketsTypeOK
<1>2. new \in Push /\ new.sender = push[p].sender /\ new.skips = push[p].skips
      /\ new.todo = push[p].todo /\ new.via = push[p].via /\ new.to = push[p].to
      /\ new.at = "close"
  BY <1>1 DEF Push
<1> HIDE DEF new
<1>3. push[p].to \in failedFor /\ push[p].to \in Users
  BY <1>1 DEF SocketsInv, FailuresAreKept, SocketsTypeOK
<1>4. SocketsTypeOK' /\ FailuresAreKept'
  <2>1. owed' \in [Pushes -> SUBSET Users] /\ push' \in [Pushes -> Push]
        /\ clients' \in [Users -> Conns \cup {NoConn}]
    BY <1>1, <1>2 DEF SocketsTypeOK
  <2>2. UsersFit'
    BY <1>1, <1>2 DEF SocketsTypeOK, UsersFit
  <2>3. FailuresAreKept'
    BY <1>1, <1>2 DEF SocketsInv, SocketsTypeOK, FailuresAreKept
  <2> QED  BY <1>1, <2>1, <2>2, <2>3 DEF SocketsTypeOK
<1>5. OnlyFailedWritesUnlist'
  BY <1>1, <1>3 DEF SocketsInv, SocketsTypeOK, OnlyFailedWritesUnlist
<1>6. OwedAreAhead'
  BY <1>1, <1>2 DEF SocketsInv, SocketsTypeOK, OwedAreAhead, Skipped
<1> QED  BY <1>4, <1>5, <1>6 DEF SocketsInv

(* The socket is closed, and the push goes on.                             *)
LEMMA CloseConnKeepsInv ==
    ASSUME SocketsInv, NEW p \in Pushes, CloseConn(p) PROVE  SocketsInv'
<1> DEFINE new == [push[p] EXCEPT !.at = "next", !.to = NoUser, !.via = NoConn]
<1>1. /\ SocketsTypeOK /\ push[p] \in Push /\ push[p].at = "close"
      /\ push' = [push EXCEPT ![p] = new]
      /\ conn' = [conn EXCEPT ![push[p].via].open = FALSE]
      /\ UNCHANGED <<clients, newest, failedFor, owed>>
  BY DEF CloseConn, Continue, histories, SocketsInv, SocketsTypeOK
<1>2. new \in Push /\ new.sender = push[p].sender /\ new.skips = push[p].skips
      /\ new.todo = push[p].todo /\ new.via = NoConn /\ new.at = "next"
  BY <1>1 DEF Push
<1> HIDE DEF new
<1> DEFINE k == push[p].via
           shut == [conn[k] EXCEPT !.open = FALSE]
<1>3. k \in Conns /\ conn[k] \in Socket /\ conn' = [conn EXCEPT ![k] = shut]
  BY <1>1 DEF SocketsTypeOK, UsersFit, Push
<1>4. shut \in Socket /\ shut.user = conn[k].user /\ conn[k].user \in Users
  BY <1>1, <1>3 DEF Socket, SocketsTypeOK, UsersFit
<1> HIDE DEF shut
<1>5. conn' \in [Conns -> Socket] /\ push' \in [Pushes -> Push]
      /\ \A j \in Conns : conn'[j].user = conn[j].user /\ (j # k => conn'[j] = conn[j])
  BY <1>1, <1>2, <1>3, <1>4 DEF SocketsTypeOK
<1>6. UsersFit'
  <2>1. \A q \in Pushes : push[q].via # NoConn => push[q].via \in Conns
    BY <1>1 DEF SocketsTypeOK, Push
  <2> QED  BY <1>1, <1>2, <1>4, <1>5, <2>1 DEF SocketsTypeOK, UsersFit
<1>7. SocketsTypeOK'
  BY <1>1, <1>5, <1>6 DEF SocketsTypeOK
<1>8. OnlyFailedWritesUnlist' /\ FailuresAreKept'
  BY <1>1, <1>2 DEF SocketsInv, SocketsTypeOK, OnlyFailedWritesUnlist, FailuresAreKept
<1>9. OwedAreAhead'
  BY <1>1, <1>2 DEF SocketsInv, SocketsTypeOK, OwedAreAhead, Skipped
<1> QED  BY <1>7, <1>8, <1>9 DEF SocketsInv

(* A new process has no connection, and owes nothing.                      *)
LEMMA PanicKeepsInv ==
    ASSUME SocketsInv, Panic PROVE  SocketsInv'
<1>1. SocketsTypeOK
  BY DEF SocketsInv
<1>2. SocketsTypeOK'
  <2>1. ASSUME NEW k \in Conns
        PROVE  conn'[k] \in Socket /\ (conn'[k] # Unused => conn'[k].user \in Users)
    <3> DEFINE dead == [conn[k] EXCEPT !.handler = "returned", !.open = FALSE]
    <3>1. conn[k] \in Socket /\ (conn[k] # Unused => conn[k].user \in Users)
      BY <1>1 DEF SocketsTypeOK, UsersFit
    <3>2. dead \in Socket /\ dead.user = conn[k].user
      BY <3>1 DEF Socket
    <3>3. conn'[k] = IF conn[k] = Unused THEN Unused ELSE dead
      BY DEF Panic
    <3> HIDE DEF dead
    <3> QED  BY <3>1, <3>2, <3>3
  <2>2. conn' \in [Conns -> Socket]
    BY <2>1 DEF Panic
  <2>3. push' \in [Pushes -> Push] /\ \A p \in Pushes : /\ push'[p].via = NoConn
                                                        /\ push'[p].at \in {"idle", "done"}
    BY DEF Panic, Idle, Push
  <2>4. \A u \in Users : clients'[u] = NoConn
    BY DEF Panic
  <2>5. UsersFit'
    BY <2>1, <2>3, <2>4, Zenon DEF UsersFit
  <2> QED  BY <1>1, <2>2, <2>3, <2>5 DEF Panic, SocketsTypeOK
<1>3. OnlyFailedWritesUnlist' /\ FailuresAreKept' /\ OwedAreAhead'
  BY DEF Panic, Idle, OnlyFailedWritesUnlist, FailuresAreKept, OwedAreAhead
<1> QED  BY <1>2, <1>3 DEF SocketsInv

(* The invariant is about the variables only.                              *)
LEMMA SocketsStutter == ASSUME SocketsInv, UNCHANGED vars PROVE  SocketsInv'
<1>1. SocketsTypeOK'
  BY DEF vars, histories, SocketsInv, SocketsTypeOK, UsersFit
<1> QED  BY <1>1, ConnectionStepKeepsInv DEF vars

(* The invariant holds throughout.                                         *)
THEOREM SocketsInvariant == Spec => []SocketsInv
<1>1. SocketsInv /\ [Next]_vars => SocketsInv'
  <2> SUFFICES ASSUME SocketsInv, [Next]_vars PROVE  SocketsInv'
    OBVIOUS
  <2>1. ASSUME NEW k \in Conns, Upgrade(k) PROVE  SocketsInv'
    BY <2>1, UpgradeKeepsInv
  <2>2. ASSUME NEW k \in Conns, Register(k) PROVE  SocketsInv'
    BY <2>2, RegisterKeepsInv
  <2>3. ASSUME NEW k \in Conns, ReadFails(k) \/ PeerGoes(k) PROVE  SocketsInv'
    BY <2>3, ConnectionEndKeepsInv
  <2>4. ASSUME NEW p \in Pushes, Begin(p) PROVE  SocketsInv'
    BY <2>4, BeginKeepsInv
  <2>5. ASSUME NEW p \in Pushes, BeginFails(p) PROVE  SocketsInv'
    BY <2>5, BeginFailsKeepsInv
  <2>6. ASSUME NEW p \in Pushes, NextMember(p) PROVE  SocketsInv'
    BY <2>6, NextMemberKeepsInv
  <2>7. ASSUME NEW p \in Pushes, Unlock(p) PROVE  SocketsInv'
    BY <2>7, UnlockKeepsInv
  <2>8. ASSUME NEW p \in Pushes, WriteSucceeds(p) \/ WriteFails(p) PROVE  SocketsInv'
    BY <2>8, WriteKeepsInv
  <2>9. ASSUME NEW p \in Pushes, RemoveClient(p) PROVE  SocketsInv'
    BY <2>9, RemoveClientKeepsInv
  <2>10. ASSUME NEW p \in Pushes, CloseConn(p) PROVE  SocketsInv'
    BY <2>10, CloseConnKeepsInv
  <2>11. CASE Panic
    BY <2>11, PanicKeepsInv
  <2>12. CASE UNCHANGED vars
    BY <2>12, SocketsStutter
  <2> QED  BY <2>1, <2>2, <2>3, <2>4, <2>5, <2>6, <2>7, <2>8, <2>9, <2>10, <2>11, <2>12
           DEF Next, Connection, PushStep
<1> QED  BY <1>1, SocketsInitInv, PTL DEF Spec
-----------------------------------------------------------------------------
(* Connections and pushes are what the declarations say; in particular a   *)
(* user's entry is a connection of his, and so is what is written to him.  *)
THEOREM SocketsTypeCorrect == Spec => []SocketsTypeOK
<1>1. SocketsInv => SocketsTypeOK
  BY DEF SocketsInv
<1> QED  BY <1>1, SocketsInvariant, PTL

(* A user whose newest connection is not in the map has had a write fail.  *)
THEOREM ConnectionsStayListed == Spec => []OnlyFailedWritesUnlist
<1>1. SocketsInv => OnlyFailedWritesUnlist
  BY DEF SocketsInv
<1> QED  BY <1>1, SocketsInvariant, PTL

(* A push that has ended owes nobody anything.                             *)
THEOREM PushesAreComplete == Spec => []PushReachesConnected
<1>1. SocketsInv => PushReachesConnected
  BY DEF SocketsInv, OwedAreAhead, PushReachesConnected, SocketsTypeOK
<1> QED  BY <1>1, SocketsInvariant, PTL

(* Nobody is ever written to, so that no connection is closed or removed   *)
(* by a push, and no two writes meet.                                      *)
NothingIsPushed == \A p \in Pushes : push[p].at \in {"idle", "done"}

(* That is what becomes of the pushes if GetChatDetails selects a column   *)
(* that the table lacks, which is the state of the migrations (assumption  *)
(* DeployedPushesNothing of module MCSockets).                             *)
THEOREM FailingDetailsPushNothing ==
    ASSUME ~ DetailsColumns \subseteq Columns PROVE  Spec => []NothingIsPushed
<1>1. Init => NothingIsPushed
  BY DEF Init, Idle, NothingIsPushed
<1>2. NothingIsPushed /\ [Next]_vars => NothingIsPushed'
  <2> SUFFICES ASSUME NothingIsPushed, [Next]_vars PROVE  NothingIsPushed'
    OBVIOUS
  <2>1. \A p \in Pushes : ~(\/ Begin(p) \/ NextMember(p) \/ Unlock(p) \/ WriteFails(p)
                            \/ RemoveClient(p) \/ CloseConn(p) \/ WriteSucceeds(p))
    BY DEF NothingIsPushed, Begin, NextMember, Unlock, WriteFails, RemoveClient, CloseConn,
           WriteSucceeds
  <2>2. ~Panic
    BY DEF NothingIsPushed, Panic, Overlaps
  <2>3. ASSUME NEW p \in Pushes, BeginFails(p) PROVE  NothingIsPushed'
    BY <2>3 DEF BeginFails, Goes, NothingIsPushed
  <2>4. CASE UNCHANGED push
    BY <2>4 DEF NothingIsPushed
  <2> QED  BY <2>1, <2>2, <2>3, <2>4
           DEF Next, Connection, PushStep, Upgrade, Register, ReadFails, PeerGoes, vars
<1> QED  BY <1>1, <1>2, PTL DEF Spec
=============================================================================
