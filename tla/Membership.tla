----------------------------- MODULE Membership -----------------------------
(***************************************************************************)
(* What the chat directory promises: a request takes effect at one moment, *)
(* for its whole list of users, and is answered at that moment.  Answers   *)
(* tell the truth: ok means done, refused means that the request could not *)
(* have been served then.  That a user is unknown is told of those who are *)
(* not registered, and of others when the look-up fails; nothing has been  *)
(* done then.  After an error it may have been done or not.                *)
(***************************************************************************)
CONSTANTS ChatIds, Users, Registered, Requests, Nothing

VARIABLES
    chats,    \* the chats
    members,  \* pairs of a chat and a user
    asked,    \* asked[p]: what p asks for
    answer    \* answer[p]

vars == <<chats, members, asked, answer>>

Questions ==
    [kind : {"create", "add", "remove", "delete"}, by : Users, chat : ChatIds,
     users : SUBSET Users]

Init ==
    /\ chats \subseteq ChatIds
    /\ members \subseteq chats \X Registered
    /\ asked = [p \in Requests |-> Nothing]
    /\ answer = [p \in Requests |-> "none"]

Group(c, users) == {c} \X users

Ask(p) ==
    /\ asked[p] = Nothing
    /\ asked'[p] \in Questions
    /\ asked' = [asked EXCEPT ![p] = asked'[p]]
    /\ UNCHANGED <<chats, members, answer>>

(* A new chat appears with all of its members.                             *)
Open(q) ==
    \E c \in ChatIds \ chats :
        /\ q.kind = "create" /\ q.users \subseteq Registered
        /\ chats' = chats \cup {c}
        /\ members' = members \cup Group(c, q.users)

(* Users join a chat that is there, and in which none of them is; nobody   *)
(* joins any chat.                                                         *)
Join(q) ==
    /\ q.kind = "add" /\ q.users \subseteq Registered
    /\ q.chat \in chats \/ q.users = {}
    /\ members \cap Group(q.chat, q.users) = {}
    /\ members' = members \cup Group(q.chat, q.users)
    /\ UNCHANGED chats

Leave(q) ==
    /\ q.kind = "remove"
    /\ members' = members \ Group(q.chat, {q.by})
    /\ UNCHANGED chats

(* A chat goes with its members.                                           *)
Close(q) ==
    /\ q.kind = "delete"
    /\ chats' = chats \ {q.chat}
    /\ members' = members \ Group(q.chat, Users)

Serve(q) == Open(q) \/ Join(q) \/ Leave(q) \/ Close(q)

(* Only these are grounds to refuse a request.                             *)
Refusable(q) ==
    \/ /\ q.kind = "add"
       /\ \/ <<q.chat, q.by>> \notin members
          \/ members \cap Group(q.chat, q.users) # {}
    \/ q.kind = "remove" /\ <<q.chat, q.by>> \notin members
    \/ q.kind = "delete" /\ q.chat \notin chats

Answer(p) ==
    /\ asked[p] # Nothing /\ answer[p] = "none"
    /\ \/ Serve(asked[p]) /\ answer' = [answer EXCEPT ![p] = "ok"]
       \/ Serve(asked[p]) /\ answer' = [answer EXCEPT ![p] = "error"]
       \/ /\ Refusable(asked[p])
          /\ answer' = [answer EXCEPT ![p] = "refused"]
          /\ UNCHANGED <<chats, members>>
       \/ /\ asked[p].kind = "add"
          /\ answer' = [answer EXCEPT ![p] = "unknown"]
          /\ UNCHANGED <<chats, members>>
       \/ /\ answer' = [answer EXCEPT ![p] = "error"]
          /\ UNCHANGED <<chats, members>>
    /\ UNCHANGED asked

Next == \E p \in Requests : Ask(p) \/ Answer(p)

Spec == Init /\ [][Next]_vars
=============================================================================
