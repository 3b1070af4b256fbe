--------------------------- MODULE DirectoryProofs --------------------------
(***************************************************************************)
(* Proofs about module Directory, for every number of requests, users and  *)
(* chats, and every list of members.                                       *)
(*                                                                         *)
(*   DirectoryTypeCorrect    []DirectoryTypeOK                             *)
(*   DirectoryIsMembership   Spec => ImplementsMembership                  *)
(*                                                                         *)
(* The inductive invariant DirectoryInv says, besides the types, at which  *)
(* steps a request of each kind can be, that a transaction's rows together *)
(* with the users still to be inserted are the list it was asked for, that *)
(* the rows of two transactions never meet and are not yet in the table,   *)
(* and that a chat that is being made is nobody else's.  With it a commit  *)
(* is the moment at which a request takes effect.                          *)
(***************************************************************************)
EXTENDS Directory, SequenceTheorems, TLAPS

(* A list is its head and the range of its tail.                           *)
LEMMA RangeOfTail ==
    ASSUME NEW S, NEW s \in Seq(S), s # <<>>
    PROVE  /\ Head(s) \in S /\ Tail(s) \in Seq(S)
           /\ Range(s) = {Head(s)} \cup Range(Tail(s))
<1>1. Len(s) \in Nat \ {0} /\ DOMAIN s = 1..Len(s)
  BY EmptySeq, LenProperties
<1>2. /\ Tail(s) \in Seq(S) /\ Len(Tail(s)) = Len(s) - 1
      /\ \A i \in 1..(Len(s) - 1) : Tail(s)[i] = s[i + 1]
  BY <1>1, HeadTailProperties
<1>3. Head(s) = s[1] /\ Head(s) \in S
  BY <1>1
<1>4. DOMAIN Tail(s) = 1..(Len(s) - 1)
  BY <1>2, LenProperties
<1>5. Range(s) \subseteq {Head(s)} \cup Range(Tail(s))
  <2> SUFFICES ASSUME NEW i \in 1..Len(s), i # 1 PROVE  s[i] \in Range(Tail(s))
    BY <1>1, <1>3 DEF Range
  <2>1. i - 1 \in 1..(Len(s) - 1) /\ Tail(s)[i - 1] = s[i]
    BY <1>1, <1>2
  <2> QED  BY <2>1, <1>4 DEF Range
<1>6. Range(Tail(s)) \subseteq Range(s)
  <2> SUFFICES ASSUME NEW i \in 1..(Len(s) - 1) PROVE  Tail(s)[i] \in Range(s)
    BY <1>4 DEF Range
  <2>1. i + 1 \in 1..Len(s) /\ Tail(s)[i] = s[i + 1]
    BY <1>1, <1>2
  <2>2. i + 1 \in DOMAIN s
    BY <2>1, <1>1
  <2>3. s[i + 1] \in Range(s)
    BY <2>2, Zenon DEF Range
  <2> QED  BY <2>1, <2>3, Zenon
<1>7. Head(s) \in Range(s)
  BY <1>1, <1>3 DEF Range
<1> QED  BY <1>2, <1>3, <1>5, <1>6, <1>7

(* Appending adds one element.                                             *)
LEMMA RangeOfAppend ==
    ASSUME NEW S, NEW s \in Seq(S), NEW e \in S
    PROVE  Append(s, e) \in Seq(S) /\ Range(Append(s, e)) = Range(s) \cup {e}
<1>1. /\ Append(s, e) \in Seq(S) /\ Len(Append(s, e)) = Len(s) + 1
      /\ \A i \in 1..Len(s) : Append(s, e)[i] = s[i]
      /\ Append(s, e)[Len(s) + 1] = e
  BY AppendProperties
<1>2. Len(s) \in Nat /\ DOMAIN s = 1..Len(s) /\ DOMAIN Append(s, e) = 1..(Len(s) + 1)
  BY <1>1, LenProperties
<1> QED  BY <1>1, <1>2 DEF Range

(* A list ranges over what it is a list of.                                *)
LEMMA RangeIsIn ==
    ASSUME NEW S, NEW s \in Seq(S)
    PROVE  Range(s) \subseteq S /\ (s = <<>> => Range(s) = {})
<1>1. DOMAIN s = 1..Len(s) /\ Len(s) \in Nat
  BY LenProperties
<1> QED  BY <1>1, ElementOfSeq DEF Range
-----------------------------------------------------------------------------
Kinds == Create \cup Add \cup Remove \cup Delete

(* At each step a request is of a kind that gets there.                    *)
StepsFitKinds ==
    \A p \in Requests :
        /\ step[p] = "idle" <=> request[p] = NoRequest
        /\ step[p] = "create" => request[p] \in Create
        /\ step[p] \in {"adder", "check"} => request[p] \in Add
        /\ step[p] = "insert" => request[p] \in Create \cup Add
        /\ step[p] \in {"member", "remove"} => request[p] \in Remove
        /\ step[p] \in {"exists", "delete"} => request[p] \in Delete
        /\ answer[p] = "none" <=> step[p] # "done"
        /\ request[p] \in Kinds \ Create => chat[p] = request[p].chat

(* The users a request is to put into a chat.                              *)
Listed(p) == Asked(request[p]).users

Block(c, users) == {c} \X users

(* What is inserted and what is still to be inserted make up the list.     *)
ListsAreKept ==
    \A p \in Requests :
        /\ step[p] = "create" => Range(todo[p]) = Listed(p)
        /\ step[p] = "insert" =>
              rows[p] \cup Block(chat[p], Range(todo[p])) = Block(chat[p], Listed(p))

(* The rows of an open transaction are new, are nobody else's, and are of  *)
(* a chat that is there or that the transaction makes.                     *)
RowsAreNew ==
    \A p \in Requests :
        /\ step[p] # "insert" => rows[p] = {}
        /\ rows[p] \subseteq Block(chat[p], Registered)
        /\ rows[p] \cap members = {}
        /\ rows[p] # {} => chat[p] \in chats \/ request[p] \in Create
        /\ \A q \in Requests : p # q => rows[p] \cap rows[q] = {}

(* Members are users, of chats; a chat that is being made is not there     *)
(* yet, and is made by one request.                                        *)
ChatsAreFresh ==
    /\ members \subseteq chats \X Registered
    /\ \A p \in Requests :
          step[p] = "insert" /\ request[p] \in Create =>
              /\ chat[p] \in (1..lastId) \ chats
              /\ \A q \in Requests : q # p /\ step[q] = "insert" /\ request[q] \in Create =>
                                        chat[q] # chat[p]

(* Only users of the list are checked.                                     *)
ChecksTheList ==
    \A p \in Requests : step[p] \in {"adder", "check"} => Range(todo[p]) \subseteq Listed(p)

DirectoryInv ==
    /\ DirectoryTypeOK
    /\ StepsFitKinds
    /\ ChecksTheList
    /\ ListsAreKept
    /\ RowsAreNew
    /\ ChatsAreFresh

(* The invariant holds before the first request.                           *)
LEMMA DirectoryInit == Init => DirectoryInv
<1> SUFFICES ASSUME Init PROVE  DirectoryInv
  OBVIOUS
<1> USE DirectoryAssumption DEF Init
<1>1. DirectoryTypeOK
  <2>1. ChatIds = 1..MaxChats /\ 1 \in ChatIds
    BY DEF ChatIds
  <2>2. chats \subseteq 1..lastId /\ members \subseteq Rows
    BY <2>1 DEF Rows
  <2>3. todo \in [Requests -> Seq(Users)]
    BY EmptySeq
  <2> QED  BY <2>1, <2>2, <2>3 DEF DirectoryTypeOK
<1>2. StepsFitKinds
  BY NoRequestAssumption DEF StepsFitKinds, Kinds
<1>3. ListsAreKept /\ RowsAreNew /\ ChatsAreFresh /\ ChecksTheList
  BY DEF ChecksTheList, ListsAreKept, RowsAreNew, ChatsAreFresh
<1> QED  BY <1>1, <1>2, <1>3 DEF DirectoryInv
-----------------------------------------------------------------------------
(* What a request asks for, by its kind.                                   *)
LEMMA AskedOfKind ==
    ASSUME NEW q \in Kinds
    PROVE  /\ q # NoRequest
           /\ Asked(q) \in Promise!Questions /\ Asked(q) # NoRequest
           /\ q \in Create => /\ Asked(q).kind = "create"
                              /\ Asked(q).users = Range(q.list) \cup {q.user}
                              /\ q.kind = "create"
                              /\ q.list \in Seq(Users) /\ q.user \in Users
           /\ q \in Add => /\ Asked(q).kind = "add" /\ Asked(q).users = Range(q.list)
                           /\ Asked(q).by = q.user /\ Asked(q).chat = q.chat
                           /\ q.kind = "add"
                           /\ q.list \in Seq(Users) /\ q.chat \in ChatIds
           /\ q \in Remove => /\ Asked(q).kind = "remove"
                              /\ Asked(q).by = q.user /\ Asked(q).chat = q.chat
                              /\ q.kind = "remove"
                              /\ q.user \in Users /\ q.chat \in ChatIds
           /\ q \in Delete => /\ Asked(q).kind = "delete" /\ Asked(q).chat = q.chat
                              /\ q.kind = "delete" /\ q.chat \in ChatIds
<1>1. q # NoRequest
  BY NoRequestAssumption DEF Kinds
<1>2. 1 \in ChatIds /\ Owner \in Users
  BY DirectoryAssumption DEF ChatIds
<1>3. CASE q \in Create
  <2>1. q.kind = "create" /\ q.user \in Users /\ q.list \in Seq(Users)
    BY <1>3, DirectoryAssumption DEF Create
  <2>2. Range(q.list) \cup {q.user} \in SUBSET Users
    BY <2>1, RangeIsIn
  <2>3. Asked(q) = [kind |-> "create", by |-> q.user, chat |-> 1,
                    users |-> Range(q.list) \cup {q.user}]
    BY <1>1, <2>1 DEF Asked
  <2>4. q \notin Add /\ q \notin Remove /\ q \notin Delete
    BY <2>1 DEF Add, Remove, Delete
  <2>5. Asked(q) \in Promise!Questions
    BY <1>2, <2>1, <2>2, <2>3 DEF Promise!Questions
  <2>6. Asked(q) # NoRequest
    BY <2>5, NoRequestAssumption
  <2>7. /\ Asked(q).kind = "create"
        /\ Asked(q).users = Range(q.list) \cup {q.user}
    BY <2>3
  <2> QED  BY <1>1, <2>1, <2>4, <2>5, <2>6, <2>7
<1>4. CASE q \in Add
  <2>1. q.kind = "add" /\ q.user \in Users /\ q.list \in Seq(Users) /\ q.chat \in ChatIds
    BY <1>4, DirectoryAssumption DEF Add
  <2>2. Range(q.list) \in SUBSET Users
    BY <2>1, RangeIsIn
  <2>3. Asked(q) = [kind |-> "add", by |-> q.user, chat |-> q.chat, users |-> Range(q.list)]
    BY <1>1, <2>1 DEF Asked
  <2>4. q \notin Create /\ q \notin Remove /\ q \notin Delete
    BY <2>1 DEF Create, Remove, Delete
  <2>5. Asked(q) \in Promise!Questions
    BY <2>1, <2>2, <2>3 DEF Promise!Questions
  <2> QED  BY <1>1, <2>1, <2>3, <2>4, <2>5, NoRequestAssumption
<1>5. CASE q \in Remove
  <2>1. q.kind = "remove" /\ q.user \in Users /\ q.chat \in ChatIds
    BY <1>5 DEF Remove
  <2>2. Asked(q) = [kind |-> "remove", by |-> q.user, chat |-> q.chat, users |-> {}]
    BY <1>1, <2>1 DEF Asked
  <2>3. q \notin Create /\ q \notin Add /\ q \notin Delete
    BY <2>1 DEF Create, Add, Delete
  <2>4. Asked(q) \in Promise!Questions
    BY <2>1, <2>2 DEF Promise!Questions
  <2> QED  BY <1>1, <2>1, <2>2, <2>3, <2>4, NoRequestAssumption
<1>6. CASE q \in Delete
  <2>1. q.kind = "delete" /\ q.chat \in ChatIds
    BY <1>6 DEF Delete
  <2>2. Asked(q) = [kind |-> "delete", by |-> Owner, chat |-> q.chat, users |-> {}]
    BY <1>1, <2>1 DEF Asked
  <2>3. q \notin Create /\ q \notin Add /\ q \notin Remove
    BY <2>1 DEF Create, Add, Remove
  <2>4. Asked(q) \in Promise!Questions
    BY <1>2, <2>1, <2>2 DEF Promise!Questions
  <2> QED  BY <1>1, <2>1, <2>2, <2>3, <2>4, NoRequestAssumption
<1> QED  BY <1>3, <1>4, <1>5, <1>6 DEF Kinds

(* The list with its creator.                                              *)
LEMMA CreatorIsListed ==
    ASSUME NEW q \in Create
    PROVE  WithCreator(q) \in Seq(Users) /\ Range(WithCreator(q)) = Asked(q).users
<1>1. /\ q.list \in Seq(Users) /\ q.user \in Users
      /\ Asked(q).users = Range(q.list) \cup {q.user}
  BY AskedOfKind DEF Kinds
<1> QED  BY <1>1, RangeOfAppend DEF WithCreator
-----------------------------------------------------------------------------
(* Every step keeps the types.                                             *)
LEMMA DirectoryTypes ==
    DirectoryInv /\ [Next]_vars => DirectoryTypeOK'
<1> SUFFICES ASSUME DirectoryInv, [Next]_vars PROVE  DirectoryTypeOK'
  OBVIOUS
<1> USE DEF DirectoryInv, DirectoryTypeOK, tables
<1>1. ASSUME NEW p \in Requests, ArriveCreate(p) PROVE  DirectoryTypeOK'
  <2>1. PICK q \in Create : Start(p, q, "create") /\ todo' = [todo EXCEPT ![p] = WithCreator(q)]
                             /\ UNCHANGED chat
    BY <1>1 DEF ArriveCreate
  <2>2. WithCreator(q) \in Seq(Users)
    BY CreatorIsListed
  <2> QED  BY <2>1, <2>2 DEF Start, Continue
<1>2. ASSUME NEW p \in Requests, ArriveAdd(p) PROVE  DirectoryTypeOK'
  <2>1. PICK q \in Add : Start(p, q, "adder") /\ todo' = [todo EXCEPT ![p] = q.list]
                          /\ chat' = [chat EXCEPT ![p] = q.chat]
    BY <1>2 DEF ArriveAdd
  <2>2. q.list \in Seq(Users) /\ q.chat \in ChatIds
    BY AskedOfKind DEF Kinds
  <2> QED  BY <2>1, <2>2 DEF Start, Continue
<1>3. ASSUME NEW p \in Requests, ArriveRemove(p) \/ ArriveDelete(p) PROVE  DirectoryTypeOK'
  <2>1. PICK q \in Remove \cup Delete : /\ Start(p, q, "member") \/ Start(p, q, "exists")
                                        /\ chat' = [chat EXCEPT ![p] = q.chat]
                                        /\ UNCHANGED todo
    BY <1>3 DEF ArriveRemove, ArriveDelete
  <2>2. q.chat \in ChatIds
    BY AskedOfKind DEF Kinds
  <2> QED  BY <2>1, <2>2 DEF Start, Continue
<1>4. ASSUME NEW p \in Requests, InsertChat(p) PROVE  DirectoryTypeOK'
  <2>1. lastId + 1 \in ChatIds /\ 1..lastId \subseteq 1..(lastId + 1)
    BY <1>4, DirectoryAssumption DEF InsertChat, ChatIds
  <2> QED  BY <1>4, <2>1 DEF InsertChat, Continue
<1>5. ASSUME NEW p \in Requests,
             InsertChatFails(p) \/ CheckAdder(p) \/ CheckRemoved(p) \/ CheckExists(p) \/ CheckFails(p)
      PROVE  DirectoryTypeOK'
  BY <1>5 DEF InsertChatFails, CheckAdder, CheckRemoved, CheckExists, CheckFails, Return, Continue
<1>6. ASSUME NEW p \in Requests, CheckListed(p) PROVE  DirectoryTypeOK'
  <2>1. step[p] = "check" /\ request[p] \in Add
    BY <1>6 DEF CheckListed, StepsFitKinds
  <2>2. request[p].list \in Seq(Users)
    BY <2>1, AskedOfKind DEF Kinds
  <2>3. todo[p] # <<>> => Tail(todo[p]) \in Seq(Users)
    BY RangeOfTail
  <2>4. todo' \in [Requests -> Seq(Users)]
    BY <1>6, <2>2, <2>3 DEF CheckListed
  <2> QED  BY <1>6, <2>4 DEF CheckListed, Return, Continue
<1>7. ASSUME NEW p \in Requests, Rollback(p) PROVE  DirectoryTypeOK'
  BY <1>7 DEF Rollback, Return
<1>8. ASSUME NEW p \in Requests, InsertMember(p) PROVE  DirectoryTypeOK'
  <2>1. CASE Accepts(p)
    <3>1. Tail(todo[p]) \in Seq(Users) /\ Head(todo[p]) \in Users
      BY <1>8, RangeOfTail DEF InsertMember, Inserting
    <3>2. NextRow(p) \in Rows
      BY <3>1 DEF NextRow, Rows
    <3>3. rows' = [rows EXCEPT ![p] = @ \cup {NextRow(p)}]
      BY <1>8, <2>1 DEF InsertMember
    <3>4. rows' \in [Requests -> SUBSET Rows]
      BY <3>2, <3>3
    <3> QED  BY <1>8, <2>1, <3>1, <3>4 DEF InsertMember
  <2> QED  BY <1>7, <1>8, <2>1 DEF InsertMember
<1>9. ASSUME NEW p \in Requests, InsertFails(p) \/ BreakDeadlock(p) PROVE  DirectoryTypeOK'
  BY <1>7, <1>9 DEF InsertFails, BreakDeadlock
<1>10. ASSUME NEW p \in Requests, Commit(p) PROVE  DirectoryTypeOK'
  <2>1. request[p].kind = "create" => chat[p] \in 1..lastId
    BY <1>10, AskedOfKind DEF Commit, StepsFitKinds, ChatsAreFresh, Kinds
  <2>2. chats' \subseteq 1..lastId /\ members' \subseteq Rows
    BY <1>10, <2>1 DEF Commit, MakeVisible
  <2> QED  BY <1>10, <2>2 DEF Commit, Return
<1>11. ASSUME NEW p \in Requests, DeleteMember(p) PROVE  DirectoryTypeOK'
  BY <1>11 DEF DeleteMember, Return
<1>12. ASSUME NEW p \in Requests, DeleteChat(p) PROVE  DirectoryTypeOK'
  BY <1>12 DEF DeleteChat, Return
<1>13. CASE UNCHANGED vars
  BY <1>13 DEF vars
<1> QED
  BY <1>1, <1>2, <1>3, <1>4, <1>5, <1>6, <1>8, <1>9, <1>10, <1>11, <1>12, <1>13
  DEF Next, Arrive, Work
-----------------------------------------------------------------------------
(* A request that returns changes nothing else of what it is.              *)
LEMMA ReturnKeepsKinds ==
    ASSUME DirectoryInv, NEW p \in Requests, NEW a \in {"ok", "refused", "unknown", "error"},
           Return(p, a), step[p] # "idle", UNCHANGED <<request, chat>>
    PROVE  StepsFitKinds'
BY DEF DirectoryInv, StepsFitKinds, DirectoryTypeOK, Return

(* Every step takes a request to a step of its kind.                       *)
LEMMA KindsStep ==
    DirectoryInv /\ [Next]_vars => StepsFitKinds'
<1> SUFFICES ASSUME DirectoryInv, [Next]_vars PROVE  StepsFitKinds'
  OBVIOUS
<1> USE DEF DirectoryInv, StepsFitKinds, DirectoryTypeOK, tables
<1>1. ASSUME NEW p \in Requests, ArriveCreate(p) PROVE  StepsFitKinds'
  <2>1. PICK q \in Create : Start(p, q, "create") /\ UNCHANGED chat
    BY <1>1 DEF ArriveCreate
  <2>2. q # NoRequest /\ q \in Kinds
    BY AskedOfKind DEF Kinds
  <2> QED  BY <2>1, <2>2 DEF Start, Continue
<1>2. ASSUME NEW p \in Requests, ArriveAdd(p) PROVE  StepsFitKinds'
  <2>1. PICK q \in Add : Start(p, q, "adder") /\ chat' = [chat EXCEPT ![p] = q.chat]
    BY <1>2 DEF ArriveAdd
  <2>2. q # NoRequest /\ q \in Kinds
    BY AskedOfKind DEF Kinds
  <2> QED  BY <2>1, <2>2 DEF Start, Continue
<1>3. ASSUME NEW p \in Requests, ArriveRemove(p) PROVE  StepsFitKinds'
  <2>1. PICK q \in Remove : Start(p, q, "member") /\ chat' = [chat EXCEPT ![p] = q.chat]
    BY <1>3 DEF ArriveRemove
  <2>2. q # NoRequest /\ q \in Kinds
    BY AskedOfKind DEF Kinds
  <2> QED  BY <2>1, <2>2 DEF Start, Continue
<1>4. ASSUME NEW p \in Requests, ArriveDelete(p) PROVE  StepsFitKinds'
  <2>1. PICK q \in Delete : Start(p, q, "exists") /\ chat' = [chat EXCEPT ![p] = q.chat]
    BY <1>4 DEF ArriveDelete
  <2>2. q # NoRequest /\ q \in Kinds
    BY AskedOfKind DEF Kinds
  <2> QED  BY <2>1, <2>2 DEF Start, Continue
<1>5. ASSUME NEW p \in Requests, InsertChat(p) PROVE  StepsFitKinds'
  BY <1>5 DEF InsertChat, Continue
<1>6. ASSUME NEW p \in Requests, NEW a \in {"ok", "refused", "unknown", "error"},
             Return(p, a), step[p] # "idle", UNCHANGED <<request, chat>>
      PROVE  StepsFitKinds'
  BY <1>6, ReturnKeepsKinds
<1>7. ASSUME NEW p \in Requests,
             \/ InsertChatFails(p) \/ CheckFails(p) \/ CheckAdder(p) \/ CheckListed(p)
             \/ CheckRemoved(p) \/ CheckExists(p) \/ Commit(p) \/ DeleteMember(p)
             \/ DeleteChat(p)
      PROVE  StepsFitKinds'
  <2>1. step[p] # "idle" /\ UNCHANGED <<request, chat>>
    BY <1>7 DEF InsertChatFails, CheckFails, CheckAdder, CheckListed, CheckRemoved,
                CheckExists, Commit, DeleteMember, DeleteChat
  <2>2. \/ \E a \in {"ok", "refused", "unknown", "error"} : Return(p, a)
        \/ step[p] = "adder" /\ Continue(p, "check")
        \/ step[p] = "check" /\ (Continue(p, "check") \/ Continue(p, "insert"))
        \/ step[p] = "member" /\ Continue(p, "remove")
        \/ step[p] = "exists" /\ Continue(p, "delete")
    BY <1>7 DEF InsertChatFails, CheckFails, CheckAdder, CheckListed, CheckRemoved,
                CheckExists, Commit, DeleteMember, DeleteChat
  <2>3. ASSUME NEW from \in {"adder", "check", "member", "exists"},
               NEW to \in {"check", "insert", "remove", "delete"},
               step[p] = from, Continue(p, to),
               <<from, to>> \in {<<"adder", "check">>, <<"check", "check">>,
                                <<"check", "insert">>, <<"member", "remove">>,
                                <<"exists", "delete">>}
        PROVE  StepsFitKinds'
    BY <2>1, <2>3 DEF Continue
  <2> QED  BY <1>6, <2>1, <2>2, <2>3
<1>8. ASSUME NEW p \in Requests, Rollback(p), step[p] = "insert" PROVE  StepsFitKinds'
  BY <1>8 DEF Rollback, Return
<1>9. ASSUME NEW p \in Requests, InsertMember(p) PROVE  StepsFitKinds'
  <2>1. CASE Accepts(p)
    BY <1>9, <2>1 DEF InsertMember
  <2>2. CASE ~Accepts(p)
    BY <1>8, <1>9, <2>2 DEF InsertMember, Inserting
  <2> QED  BY <2>1, <2>2
<1>10. ASSUME NEW p \in Requests, InsertFails(p) PROVE  StepsFitKinds'
  BY <1>8, <1>10 DEF InsertFails, Inserting
<1>11. ASSUME NEW p \in Requests, BreakDeadlock(p) PROVE  StepsFitKinds'
  BY <1>8, <1>11 DEF BreakDeadlock, WaitsFor, Inserting
<1>12. CASE UNCHANGED vars
  BY <1>12 DEF vars
<1> QED
  BY <1>1, <1>2, <1>3, <1>4, <1>5, <1>7, <1>9, <1>10, <1>11, <1>12
  DEF Next, Arrive, Work
-----------------------------------------------------------------------------
(* Every step keeps what is still to be checked within the list.           *)
LEMMA ChecksStep ==
    DirectoryInv /\ [Next]_vars => ChecksTheList'
<1> SUFFICES ASSUME DirectoryInv, [Next]_vars PROVE  ChecksTheList'
  OBVIOUS
<1> USE DEF DirectoryInv, DirectoryTypeOK
<1>1. ASSUME NEW p \in Requests, step'[p] \notin {"adder", "check"},
             \A q \in Requests \ {p} : /\ step'[q] = step[q] /\ request'[q] = request[q]
                                       /\ todo'[q] = todo[q]
      PROVE  ChecksTheList'
  BY <1>1 DEF ChecksTheList, Listed
<1>2. ASSUME NEW p \in Requests, ArriveAdd(p) PROVE  ChecksTheList'
  <2>1. PICK q \in Add : Start(p, q, "adder") /\ todo' = [todo EXCEPT ![p] = q.list]
    BY <1>2 DEF ArriveAdd
  <2>2. Range(todo'[p]) \subseteq Listed(p)'
    BY <2>1, AskedOfKind DEF Start, Listed, Kinds
  <2>3. \A r \in Requests \ {p} : /\ step'[r] = step[r] /\ request'[r] = request[r]
                                  /\ todo'[r] = todo[r]
    BY <2>1 DEF Start, Continue
  <2> QED  BY <2>2, <2>3 DEF ChecksTheList, Listed
<1>3. ASSUME NEW p \in Requests, CheckAdder(p) PROVE  ChecksTheList'
  BY <1>3 DEF CheckAdder, Continue, Return, ChecksTheList, Listed
<1>4. ASSUME NEW p \in Requests, CheckListed(p) PROVE  ChecksTheList'
  <2>1. /\ step[p] = "check" /\ UNCHANGED request
        /\ \A r \in Requests \ {p} : step'[r] = step[r] /\ todo'[r] = todo[r]
    BY <1>4 DEF CheckListed, Continue, Return
  <2>2. step'[p] = "check" => todo[p] # <<>> /\ todo'[p] = Tail(todo[p])
    BY <1>4 DEF CheckListed, Continue, Return
  <2>3. step'[p] = "check" => Range(todo'[p]) \subseteq Range(todo[p])
    BY <2>2, RangeOfTail
  <2>4. step'[p] # "adder"
    BY <1>4 DEF CheckListed, Continue, Return
  <2> QED  BY <2>1, <2>3, <2>4 DEF ChecksTheList, Listed
<1>5. ASSUME NEW p \in Requests,
             \/ ArriveCreate(p) \/ ArriveRemove(p) \/ ArriveDelete(p) \/ InsertChat(p)
             \/ InsertChatFails(p) \/ CheckFails(p) \/ CheckRemoved(p) \/ CheckExists(p)
             \/ Commit(p) \/ DeleteMember(p) \/ DeleteChat(p) \/ Rollback(p)
             \/ InsertMember(p)
      PROVE  ChecksTheList'
  <2>1. step'[p] \notin {"adder", "check"}
    BY <1>5 DEF ArriveCreate, ArriveRemove, ArriveDelete, Start, InsertChat,
                InsertChatFails, CheckFails, CheckRemoved, CheckExists, Commit, DeleteMember,
                DeleteChat, Rollback, InsertMember, Inserting, Return, Continue
  <2>2. \A q \in Requests \ {p} : /\ step'[q] = step[q] /\ request'[q] = request[q]
                                  /\ todo'[q] = todo[q]
    BY <1>5 DEF ArriveCreate, ArriveRemove, ArriveDelete, Start, InsertChat,
                InsertChatFails, CheckFails, CheckRemoved, CheckExists, Commit, DeleteMember,
                DeleteChat, Rollback, InsertMember, Inserting, Return, Continue
  <2> QED  BY <1>1, <2>1, <2>2
<1>6. CASE UNCHANGED vars
  BY <1>6 DEF vars, ChecksTheList, Listed
<1> QED
  BY <1>2, <1>3, <1>4, <1>5, <1>6
  DEF Next, Arrive, Work, InsertFails, BreakDeadlock

(* A step of p before or after its transaction changes no table and no     *)
(* row.                                                                    *)
LEMMA OutsideStep ==
    ASSUME DirectoryInv, NEW p \in Requests, DirectoryTypeOK',
           step[p] # "insert", step'[p] \notin {"create", "insert"},
           \A q \in Requests \ {p} : /\ step'[q] = step[q] /\ request'[q] = request[q]
                                     /\ chat'[q] = chat[q] /\ todo'[q] = todo[q],
           UNCHANGED <<tables, rows>>
    PROVE  ListsAreKept' /\ RowsAreNew' /\ ChatsAreFresh'
<1> USE DEF DirectoryInv, DirectoryTypeOK, tables
<1>1. ListsAreKept'
  BY DEF ListsAreKept, Listed, Block
<1>2. RowsAreNew'
  BY DEF RowsAreNew, Block
<1>3. ChatsAreFresh'
  <2>1. \A q \in Requests : step'[q] = "insert" => q # p
    OBVIOUS
  <2>2. members' \subseteq chats' \X Registered
    BY DEF ChatsAreFresh
  <2> SUFFICES ASSUME NEW q \in Requests, step'[q] = "insert", request'[q] \in Create
               PROVE  /\ chat'[q] \in (1..lastId') \ chats'
                      /\ \A r \in Requests : r # q /\ step'[r] = "insert" /\ request'[r] \in Create
                                            => chat'[r] # chat'[q]
    BY <2>2 DEF ChatsAreFresh
  <2> QED  BY <2>1 DEF ChatsAreFresh
<1> QED  BY <1>1, <1>2, <1>3

(* What is said of lists, rows and chats.                                  *)
Rest == ListsAreKept /\ RowsAreNew /\ ChatsAreFresh

(* A request that has arrived has inserted nothing yet.                    *)
LEMMA ArriveKeepsRest ==
    ASSUME DirectoryInv, DirectoryTypeOK', NEW p \in Requests, Arrive(p)
    PROVE  Rest'
<1> USE DEF DirectoryInv, DirectoryTypeOK, tables
<1>1. CASE ArriveCreate(p)
  <2>1. PICK q \in Create : Start(p, q, "create") /\ todo' = [todo EXCEPT ![p] = WithCreator(q)]
                             /\ UNCHANGED chat
    BY <1>1 DEF ArriveCreate
  <2>2. Range(WithCreator(q)) = Asked(q).users
    BY CreatorIsListed
  <2>3. /\ step[p] = "idle" /\ step'[p] = "create" /\ UNCHANGED <<tables, rows, chat>>
        /\ request'[p] = q /\ todo'[p] = WithCreator(q)
        /\ \A r \in Requests \ {p} : /\ step'[r] = step[r] /\ request'[r] = request[r]
                                     /\ todo'[r] = todo[r]
    BY <2>1 DEF Start, Continue
  <2>4. ListsAreKept'
    BY <2>2, <2>3 DEF ListsAreKept, Listed, Block
  <2>5. RowsAreNew'
    BY <2>3 DEF RowsAreNew, Block
  <2>6. ChatsAreFresh'
    <3>1. \A r \in Requests : step'[r] = "insert" => r # p
      BY <2>3
    <3>2. members' \subseteq chats' \X Registered
      BY <2>3 DEF ChatsAreFresh
    <3> QED  BY <2>3, <3>1, <3>2 DEF ChatsAreFresh
  <2> QED  BY <2>4, <2>5, <2>6 DEF Rest
<1>2. CASE ArriveAdd(p) \/ ArriveRemove(p) \/ ArriveDelete(p)
  <2>1. /\ step[p] = "idle" /\ step'[p] \in {"adder", "member", "exists"}
        /\ UNCHANGED <<tables, rows>>
        /\ \A r \in Requests \ {p} : /\ step'[r] = step[r] /\ request'[r] = request[r]
                                     /\ chat'[r] = chat[r] /\ todo'[r] = todo[r]
    BY <1>2 DEF ArriveAdd, ArriveRemove, ArriveDelete, Start, Continue
  <2> QED  BY <2>1, OutsideStep DEF Rest
<1> QED  BY <1>1, <1>2 DEF Arrive

(* The id that is taken for a new chat is nobody's.                        *)
LEMMA InsertChatKeepsRest ==
    ASSUME DirectoryInv, NEW p \in Requests, InsertChat(p)
    PROVE  Rest'
<1> USE DEF DirectoryInv, DirectoryTypeOK, tables
<1>1. /\ step[p] = "create" /\ step'[p] = "insert" /\ UNCHANGED <<chats, members, rows, request, todo>>
      /\ lastId' = lastId + 1 /\ chat'[p] = lastId + 1
      /\ \A r \in Requests \ {p} : step'[r] = step[r] /\ chat'[r] = chat[r]
  BY DEF InsertChat, Continue
<1>2. rows[p] = {}
  BY <1>1 DEF RowsAreNew
<1>3. lastId \in Nat /\ lastId + 1 \notin 1..lastId /\ lastId + 1 \in 1..lastId'
  BY <1>1, DirectoryAssumption DEF ChatIds
<1>4. ListsAreKept'
  BY <1>1, <1>2 DEF ListsAreKept, Listed, Block
<1>5. RowsAreNew'
  BY <1>1, <1>2 DEF RowsAreNew, Block
<1>6. ChatsAreFresh'
  <2>1. \A q \in Requests \ {p} : step[q] = "insert" /\ request[q] \in Create =>
                                   chat[q] \in 1..lastId
    BY DEF ChatsAreFresh
  <2>2. 1..lastId \subseteq 1..lastId'
    BY <1>1, <1>3
  <2>3. members' \subseteq chats' \X Registered
    BY <1>1 DEF ChatsAreFresh
  <2>4. chat'[p] \in (1..lastId') \ chats'
    BY <1>1, <1>3
  <2>5. ASSUME NEW q \in Requests, step'[q] = "insert", request'[q] \in Create, q # p
        PROVE  chat'[q] \in (1..lastId') \ chats' /\ chat'[q] # chat'[p]
    BY <1>1, <1>3, <2>1, <2>2, <2>5 DEF ChatsAreFresh
  <2>6. ASSUME NEW q \in Requests, step'[q] = "insert", request'[q] \in Create, q # p,
               NEW r \in Requests, step'[r] = "insert", request'[r] \in Create, r # p, r # q
        PROVE  chat'[r] # chat'[q]
    BY <1>1, <2>6 DEF ChatsAreFresh
  <2> QED  BY <2>3, <2>4, <2>5, <2>6 DEF ChatsAreFresh
<1> QED  BY <1>4, <1>5, <1>6 DEF Rest

(* The transaction starts with the whole list.                             *)
LEMMA CheckListedKeepsRest ==
    ASSUME DirectoryInv, DirectoryTypeOK', NEW p \in Requests, CheckListed(p)
    PROVE  Rest'
<1> USE DEF DirectoryInv, DirectoryTypeOK, tables
<1>1. /\ step[p] = "check" /\ UNCHANGED <<tables, request, chat, rows>>
      /\ \A r \in Requests \ {p} : step'[r] = step[r] /\ todo'[r] = todo[r]
  BY DEF CheckListed, Continue, Return
<1>2. CASE step'[p] # "insert"
  <2>1. step'[p] \notin {"create", "insert"}
    BY <1>2 DEF CheckListed, Continue, Return
  <2> QED  BY <1>1, <2>1, OutsideStep DEF Rest
<1>3. CASE step'[p] = "insert"
  <2>1. todo'[p] = request[p].list
    BY <1>1, <1>3 DEF CheckListed, Continue, Return
  <2>2. request[p] \in Add /\ request[p] \notin Create
    <3>1. request[p] \in Add
      BY <1>1 DEF StepsFitKinds
    <3> QED  BY <3>1, AskedOfKind DEF Kinds, Create
  <2>3. Listed(p) = Range(request[p].list)
    BY <2>2, AskedOfKind DEF Listed, Kinds
  <2>4. rows[p] = {}
    BY <1>1 DEF RowsAreNew
  <2>5. ListsAreKept'
    <3>1. rows'[p] \cup Block(chat'[p], Range(todo'[p])) = Block(chat'[p], Listed(p)')
      BY <1>1, <2>1, <2>3, <2>4 DEF Listed
    <3>2. ASSUME NEW q \in Requests \ {p}
          PROVE  /\ step'[q] = "create" => Range(todo'[q]) = Listed(q)'
                 /\ step'[q] = "insert" =>
                       rows'[q] \cup Block(chat'[q], Range(todo'[q])) = Block(chat'[q], Listed(q)')
      BY <1>1 DEF ListsAreKept, Listed
    <3> QED  BY <1>3, <3>1, <3>2 DEF ListsAreKept
  <2>6. RowsAreNew'
    BY <1>1, <2>4 DEF RowsAreNew, Block
  <2>7. ChatsAreFresh'
    <3>1. members' \subseteq chats' \X Registered
      BY <1>1 DEF ChatsAreFresh
    <3> QED  BY <1>1, <2>2, <3>1 DEF ChatsAreFresh
  <2> QED  BY <2>5, <2>6, <2>7 DEF Rest
<1> QED  BY <1>2, <1>3

(* A transaction that is rolled back leaves nothing.                       *)
LEMMA RollbackKeepsRest ==
    ASSUME DirectoryInv, NEW p \in Requests, Rollback(p)
    PROVE  Rest'
<1> USE DEF DirectoryInv, DirectoryTypeOK, tables
<1>1. /\ step'[p] = "done" /\ rows'[p] = {} /\ UNCHANGED <<tables, request, chat, todo>>
      /\ \A r \in Requests \ {p} : step'[r] = step[r] /\ rows'[r] = rows[r]
  BY DEF Rollback, Return
<1>2. ListsAreKept'
  BY <1>1 DEF ListsAreKept, Listed, Block
<1>3. RowsAreNew'
  BY <1>1 DEF RowsAreNew, Block
<1>4. ChatsAreFresh'
  <2>1. members' \subseteq chats' \X Registered
    BY <1>1 DEF ChatsAreFresh
  <2> QED  BY <1>1, <2>1 DEF ChatsAreFresh
<1> QED  BY <1>2, <1>3, <1>4 DEF Rest

(* A row that is inserted was on the list, and is new.                     *)
LEMMA InsertMemberKeepsRest ==
    ASSUME DirectoryInv, NEW p \in Requests, InsertMember(p), Accepts(p)
    PROVE  Rest'
<1> USE DEF DirectoryInv, DirectoryTypeOK, tables
<1>1. /\ step[p] = "insert" /\ todo[p] # <<>>
      /\ UNCHANGED <<tables, request, step, chat>>
      /\ rows'[p] = rows[p] \cup {NextRow(p)} /\ todo'[p] = Tail(todo[p])
      /\ \A r \in Requests \ {p} : rows'[r] = rows[r] /\ todo'[r] = todo[r]
      /\ \A r \in Requests \ {p} : NextRow(p) \notin rows[r]
  BY DEF InsertMember, Inserting, WaitsFor
<1>2. Range(todo[p]) = {Head(todo[p])} \cup Range(Tail(todo[p]))
  BY <1>1, RangeOfTail
<1>3. /\ NextRow(p) \notin members /\ Head(todo[p]) \in Registered
      /\ chat[p] \in chats \/ request[p] \in Create
  <2>1. request[p] \in Create \cup Add
    BY <1>1 DEF StepsFitKinds
  <2> QED  BY <2>1, AskedOfKind DEF Accepts, Kinds
<1>4. NextRow(p) = <<chat[p], Head(todo[p])>>
  BY DEF NextRow
<1>5. ListsAreKept'
  <2>1. rows[p] \cup Block(chat[p], Range(todo[p])) = Block(chat[p], Listed(p))
    BY <1>1 DEF ListsAreKept
  <2>2. Block(chat[p], Range(todo[p])) = {NextRow(p)} \cup Block(chat[p], Range(Tail(todo[p])))
    BY <1>2, <1>4 DEF Block
  <2>3. rows'[p] \cup Block(chat'[p], Range(todo'[p])) = Block(chat'[p], Listed(p)')
    BY <1>1, <2>1, <2>2 DEF Listed
  <2>4. \A q \in Requests : step'[q] = "create" => Range(todo'[q]) = Listed(q)'
    BY <1>1 DEF ListsAreKept, Listed
  <2>5. ASSUME NEW q \in Requests \ {p}, step'[q] = "insert"
        PROVE  rows'[q] \cup Block(chat'[q], Range(todo'[q])) = Block(chat'[q], Listed(q)')
    BY <1>1, <2>5 DEF ListsAreKept, Listed
  <2> QED  BY <2>3, <2>4, <2>5 DEF ListsAreKept
<1>6. RowsAreNew'
  <2>1. /\ rows'[p] \subseteq Block(chat[p], Registered)
        /\ rows'[p] \cap members = {}
        /\ \A q \in Requests \ {p} : rows'[p] \cap rows[q] = {}
    <3>1. /\ rows[p] \subseteq Block(chat[p], Registered) /\ rows[p] \cap members = {}
          /\ \A q \in Requests \ {p} : rows[p] \cap rows[q] = {}
      BY DEF RowsAreNew
    <3>2. NextRow(p) \in Block(chat[p], Registered)
      BY <1>3, <1>4 DEF Block
    <3>3. NextRow(p) \notin members /\ \A q \in Requests \ {p} : NextRow(p) \notin rows[q]
      BY <1>1, <1>3
    <3>4. rows'[p] = rows[p] \cup {NextRow(p)}
      BY <1>1
    <3> HIDE DEF DirectoryInv, DirectoryTypeOK
    <3> QED  BY <3>1, <3>2, <3>3, <3>4, Zenon
  <2>2. ASSUME NEW q \in Requests \ {p}
        PROVE  /\ step'[q] # "insert" => rows'[q] = {}
               /\ rows'[q] \subseteq Block(chat'[q], Registered)
               /\ rows'[q] \cap members' = {}
               /\ rows'[q] # {} => chat'[q] \in chats' \/ request'[q] \in Create
               /\ \A r \in Requests \ {p} : q # r => rows'[q] \cap rows'[r] = {}
    BY <1>1 DEF RowsAreNew
  <2>3. \A q \in Requests \ {p} : rows'[q] \cap rows'[p] = {}
    BY <1>1, <2>1
  <2>4. /\ step'[p] = "insert" /\ rows'[p] \subseteq Block(chat'[p], Registered)
        /\ rows'[p] \cap members' = {}
        /\ chat'[p] \in chats' \/ request'[p] \in Create
        /\ \A q \in Requests : p # q => rows'[p] \cap rows'[q] = {}
    BY <1>1, <1>3, <2>1
  <2>5. \A q \in Requests \ {p} : \A r \in Requests : q # r => rows'[q] \cap rows'[r] = {}
    BY <2>2, <2>3
  <2> QED  BY <2>2, <2>4, <2>5 DEF RowsAreNew
<1>7. ChatsAreFresh'
  BY <1>1 DEF ChatsAreFresh
<1> QED  BY <1>5, <1>6, <1>7 DEF Rest

(* A commit adds rows that no other transaction has, and a chat that no    *)
(* other makes.                                                            *)
LEMMA CommitKeepsRest ==
    ASSUME DirectoryInv, NEW p \in Requests, Commit(p)
    PROVE  Rest'
<1> USE DEF DirectoryInv, DirectoryTypeOK, tables
<1>1. /\ step[p] = "insert" /\ step'[p] = "done" /\ rows'[p] = {}
      /\ UNCHANGED <<lastId, request, chat, todo>>
      /\ \A r \in Requests \ {p} : step'[r] = step[r] /\ rows'[r] = rows[r]
      /\ MakeVisible(p) \/ UNCHANGED <<chats, members>>
  BY DEF Commit, Return
<1>2. ListsAreKept'
  BY <1>1 DEF ListsAreKept, Listed, Block
<1>3. /\ chats \subseteq chats' /\ members' \subseteq members \cup rows[p]
      /\ chats' \subseteq chats \cup {chat[p]}
      /\ request[p] \notin Create => chats' = chats
  <2>1. request[p].kind = "create" => request[p] \in Create
    BY <1>1, AskedOfKind DEF StepsFitKinds, Kinds
  <2> QED  BY <1>1, <2>1 DEF MakeVisible
<1>4. RowsAreNew'
  <2>1. ASSUME NEW q \in Requests \ {p}
        PROVE  /\ step'[q] # "insert" => rows'[q] = {}
               /\ rows'[q] \subseteq Block(chat'[q], Registered)
               /\ rows'[q] # {} => chat'[q] \in chats' \/ request'[q] \in Create
               /\ \A r \in Requests \ {p} : q # r => rows'[q] \cap rows'[r] = {}
    BY <1>1, <1>3 DEF RowsAreNew
  <2>2. ASSUME NEW q \in Requests \ {p} PROVE  rows'[q] \cap members' = {}
    <3>1. rows[q] \cap members = {} /\ rows[p] \cap rows[q] = {} /\ rows'[q] = rows[q]
      BY <1>1 DEF RowsAreNew
    <3> QED  BY <1>3, <3>1
  <2> QED  BY <1>1, <2>1, <2>2 DEF RowsAreNew
<1>5. ChatsAreFresh'
  <2>1. members' \subseteq chats' \X Registered
    <3>1. members \subseteq chats \X Registered
      BY DEF ChatsAreFresh
    <3>2. rows[p] \subseteq Block(chat[p], Registered)
      BY DEF RowsAreNew
    <3>3. CASE UNCHANGED <<chats, members>>
      BY <3>1, <3>3
    <3>4. CASE MakeVisible(p)
      <4>1. rows[p] # {} => chat[p] \in chats'
        <5>1. request[p] \in Create => request[p].kind = "create"
          BY AskedOfKind DEF Kinds
        <5>2. rows[p] # {} => chat[p] \in chats \/ request[p] \in Create
          BY DEF RowsAreNew
        <5> QED  BY <1>3, <3>4, <5>1, <5>2 DEF MakeVisible
      <4> QED  BY <1>3, <3>1, <3>2, <4>1 DEF Block
    <3> QED  BY <1>1, <3>3, <3>4
  <2>2. ASSUME NEW q \in Requests, step'[q] = "insert", request'[q] \in Create
        PROVE  /\ chat'[q] \in (1..lastId') \ chats'
               /\ \A r \in Requests : r # q /\ step'[r] = "insert" /\ request'[r] \in Create
                                     => chat'[r] # chat'[q]
    <3>1. q # p /\ step[q] = "insert" /\ request[q] \in Create
      BY <1>1, <2>2
    <3>2. chat[q] \in (1..lastId) \ chats
      BY <3>1 DEF ChatsAreFresh
    <3>3. request[p] \in Create => chat[q] # chat[p]
      BY <1>1, <3>1 DEF ChatsAreFresh
    <3>4. chat[q] \notin chats'
      BY <1>3, <3>2, <3>3
    <3>5. \A r \in Requests : step'[r] = "insert" => r # p /\ step[r] = "insert"
      BY <1>1
    <3>6. \A r \in Requests : r # q /\ step[r] = "insert" /\ request[r] \in Create
                              => chat[r] # chat[q]
      BY <3>1 DEF ChatsAreFresh
    <3> QED  BY <1>1, <3>2, <3>4, <3>5, <3>6
  <2> QED  BY <2>1, <2>2 DEF ChatsAreFresh
<1> QED  BY <1>2, <1>4, <1>5 DEF Rest

(* No chat goes to which a transaction adds.                               *)
LEMMA DeletionKeepsRest ==
    ASSUME DirectoryInv, NEW p \in Requests, DeleteMember(p) \/ DeleteChat(p)
    PROVE  Rest'
<1> USE DEF DirectoryInv, DirectoryTypeOK, tables
<1>1. /\ step[p] \in {"remove", "delete"} /\ step'[p] = "done"
      /\ UNCHANGED <<lastId, request, chat, todo, rows>>
      /\ \A r \in Requests \ {p} : step'[r] = step[r]
      /\ members' \subseteq members /\ chats' \subseteq chats
  BY DEF DeleteMember, DeleteChat, Return
<1>2. ListsAreKept'
  BY <1>1 DEF ListsAreKept, Listed, Block
<1>3. \A q \in Requests : rows[q] # {} /\ chat[q] \in chats => chat[q] \in chats'
  <2>1. CASE DeleteMember(p)
    BY <2>1 DEF DeleteMember
  <2>2. CASE DeleteChat(p)
    <3> SUFFICES ASSUME NEW q \in Requests, rows[q] # {}, chat[q] \in chats
                 PROVE  chat[q] \in chats'
      OBVIOUS
    <3>1. PICK pair \in rows[q] : pair[1] = chat[q]
      BY DEF RowsAreNew, Block
    <3>2. chat[q] # chat[p]
      BY <2>2, <3>1 DEF DeleteChat, OfChat
    <3> QED  BY <2>2, <3>2 DEF DeleteChat
  <2> QED  BY <2>1, <2>2
<1>4. RowsAreNew'
  BY <1>1, <1>3 DEF RowsAreNew, Block
<1>5. ChatsAreFresh'
  <2>1. members' \subseteq chats' \X Registered
    <3>1. members \subseteq chats \X Registered
      BY DEF ChatsAreFresh
    <3>2. CASE DeleteMember(p)
      BY <1>1, <3>1, <3>2 DEF DeleteMember
    <3>3. CASE DeleteChat(p)
      BY <1>1, <3>1, <3>3 DEF DeleteChat, OfChat
    <3> QED  BY <3>2, <3>3
  <2> QED  BY <1>1, <2>1 DEF ChatsAreFresh
<1> QED  BY <1>2, <1>4, <1>5 DEF Rest

(* Every step keeps what is said of lists, rows and chats.                 *)
LEMMA RestStep ==
    DirectoryInv /\ [Next]_vars => Rest'
<1> SUFFICES ASSUME DirectoryInv, [Next]_vars PROVE  Rest'
  OBVIOUS
<1>1. DirectoryTypeOK'
  BY DirectoryTypes
<1>2. ASSUME NEW p \in Requests, Arrive(p) PROVE  Rest'
  BY <1>1, <1>2, ArriveKeepsRest
<1>3. ASSUME NEW p \in Requests,
             InsertChatFails(p) \/ CheckFails(p) \/ CheckAdder(p) \/ CheckRemoved(p) \/ CheckExists(p)
      PROVE  Rest'
  <2>1. /\ step[p] # "insert" /\ step'[p] \notin {"create", "insert"}
        /\ \A q \in Requests \ {p} : step'[q] = step[q]
        /\ UNCHANGED <<request, chat, todo, tables, rows>>
    BY <1>3 DEF InsertChatFails, CheckFails, CheckAdder, CheckRemoved, CheckExists,
                Return, Continue, DirectoryInv, DirectoryTypeOK, tables
  <2> QED  BY <1>1, <2>1, OutsideStep DEF Rest
<1>4. ASSUME NEW p \in Requests, InsertMember(p) PROVE  Rest'
  <2>1. CASE Accepts(p)
    BY <1>4, <2>1, InsertMemberKeepsRest
  <2>2. CASE ~Accepts(p)
    <3>1. Rollback(p)
      BY <1>4, <2>2 DEF InsertMember
    <3> QED  BY <3>1, RollbackKeepsRest
  <2> QED  BY <2>1, <2>2
<1>5. ASSUME NEW p \in Requests, InsertFails(p) \/ BreakDeadlock(p) PROVE  Rest'
  <2>1. Rollback(p)
    BY <1>5 DEF InsertFails, BreakDeadlock
  <2> QED  BY <2>1, RollbackKeepsRest
<1>6. CASE UNCHANGED vars
  BY <1>6 DEF vars, tables, DirectoryInv, Rest, ListsAreKept, RowsAreNew, ChatsAreFresh,
              Listed, Block
<1> QED
  BY <1>2, <1>3, <1>4, <1>5, <1>6, InsertChatKeepsRest, CheckListedKeepsRest,
     CommitKeepsRest, DeletionKeepsRest, DirectoryTypes
  DEF Next, Work

(* The invariant holds throughout: no interleaving of requests, failed     *)
(* statements and rollbacks mixes up two transactions.                     *)
THEOREM DirectoryInvariant == Spec => []DirectoryInv
<1>1. Init => DirectoryInv
  BY DirectoryInit
<1>2. DirectoryInv /\ [Next]_vars => DirectoryInv'
  BY DirectoryTypes, KindsStep, ChecksStep, RestStep DEF DirectoryInv, Rest
<1> QED  BY <1>1, <1>2, PTL DEF Spec

(* The tables, and what each request keeps, have their types throughout.   *)
THEOREM DirectoryTypeCorrect == Spec => []DirectoryTypeOK
<1>1. DirectoryInv => DirectoryTypeOK
  BY DEF DirectoryInv
<1> QED  BY <1>1, DirectoryInvariant, PTL
-----------------------------------------------------------------------------
(* The tables start as the promise has them.                               *)
LEMMA MembershipInit == Init => Promise!Init
<1> SUFFICES ASSUME Init PROVE  Promise!Init
  OBVIOUS
<1>1. 1 \in ChatIds /\ Owner \in Registered
  BY DirectoryAssumption DEF ChatIds
<1>2. Asked(NoRequest) = NoRequest
  BY DEF Asked
<1> QED  BY <1>1, <1>2 DEF Init, Promise!Init

(* A request that returns answers, if what it did or found justifies it.   *)
LEMMA Answering ==
    ASSUME DirectoryInv, NEW p \in Requests, NEW a, Return(p, a),
           step[p] \notin {"idle", "done"}, UNCHANGED request,
           \/ a \in {"ok", "error"} /\ Promise!Serve(Asked(request[p]))
           \/ /\ a = "refused" /\ Promise!Refusable(Asked(request[p]))
              /\ UNCHANGED <<chats, members>>
           \/ /\ a = "unknown" /\ Asked(request[p]).kind = "add"
              /\ UNCHANGED <<chats, members>>
           \/ a = "error" /\ UNCHANGED <<chats, members>>
    PROVE  Promise!Answer(p)
<1>1. request[p] \in Kinds /\ answer[p] = "none"
  BY NoRequestAssumption DEF DirectoryInv, StepsFitKinds, DirectoryTypeOK, Kinds
<1>2. Asked(request[p]) # NoRequest
  BY <1>1, AskedOfKind
<1>3. answer' = [answer EXCEPT ![p] = a]
  BY DEF Return
<1> QED  BY <1>1, <1>2, <1>3 DEF Promise!Answer

(* A request that arrives asks.                                            *)
LEMMA ArriveAsks ==
    ASSUME DirectoryInv, NEW p \in Requests, Arrive(p)
    PROVE  Promise!Ask(p)
<1>1. PICK q \in Kinds : /\ step[p] = "idle" /\ request' = [request EXCEPT ![p] = q]
                         /\ UNCHANGED <<chats, members, answer>>
  BY DEF Arrive, ArriveCreate, ArriveAdd, ArriveRemove, ArriveDelete, Start, Continue,
         Kinds, tables
<1>2. request[p] = NoRequest /\ Asked(NoRequest) = NoRequest
  BY <1>1 DEF DirectoryInv, StepsFitKinds, Asked
<1>3. Asked(q) \in Promise!Questions
  BY AskedOfKind
<1>4. request'[p] = q /\ \A r \in Requests \ {p} : request'[r] = request[r]
  BY <1>1 DEF DirectoryInv, DirectoryTypeOK
<1> DEFINE asked == [r \in Requests |-> Asked(request[r])]
<1>5. asked[p] = NoRequest /\ asked'[p] = Asked(q)
  BY <1>2, <1>4
<1>6. asked' = [asked EXCEPT ![p] = Asked(q)]
  BY <1>4
<1> QED  BY <1>1, <1>3, <1>5, <1>6 DEF Promise!Ask

(* A commit serves the request as a whole.                                 *)
LEMMA CommitAnswers ==
    ASSUME DirectoryInv, NEW p \in Requests, Commit(p)
    PROVE  Promise!Answer(p)
<1>1. /\ step[p] = "insert" /\ todo[p] = <<>> /\ UNCHANGED request
      /\ \/ MakeVisible(p) /\ (Return(p, "ok") \/ Return(p, "error"))
         \/ Return(p, "error") /\ UNCHANGED <<chats, members>>
  BY DEF Commit
<1>2. CASE UNCHANGED <<chats, members>> /\ Return(p, "error")
  BY <1>1, <1>2, Answering
<1>3. CASE MakeVisible(p) /\ (Return(p, "ok") \/ Return(p, "error"))
  <2> DEFINE q == Asked(request[p])
  <2>1. Range(todo[p]) = {}
    BY <1>1, RangeIsIn DEF DirectoryInv, DirectoryTypeOK
  <2>2. rows[p] = Block(chat[p], q.users)
    BY <1>1, <2>1 DEF DirectoryInv, ListsAreKept, Listed, Block
  <2>3. q.users \subseteq Registered
    <3>1. rows[p] \subseteq Block(chat[p], Registered)
      BY DEF DirectoryInv, RowsAreNew
    <3>2. ASSUME NEW u \in q.users PROVE  u \in Registered
      <4>1. <<chat[p], u>> \in Block(chat[p], Registered)
        BY <2>2, <3>1 DEF Block
      <4> QED  BY <4>1 DEF Block
    <3> QED  BY <3>2
  <2>4. members' = members \cup Promise!Group(chat[p], q.users)
    BY <1>3, <2>2 DEF MakeVisible, Promise!Group, Block
  <2>5. CASE request[p] \in Create
    <3>1. q.kind = "create" /\ request[p].kind = "create"
      BY <2>5, AskedOfKind DEF Kinds
    <3>2. chat[p] \in ChatIds \ chats
      BY <1>1, <2>5 DEF DirectoryInv, DirectoryTypeOK, ChatsAreFresh
    <3>3. Promise!Open(q)
      BY <1>3, <2>3, <2>4, <3>1, <3>2 DEF MakeVisible, Promise!Open
    <3> QED  BY <1>1, <1>3, <3>3, Answering DEF Promise!Serve
  <2>6. CASE request[p] \in Add
    <3>1. q.kind = "add" /\ request[p].kind = "add" /\ q.chat = chat[p] /\ request[p] \notin Create
      BY <2>6, AskedOfKind DEF Kinds, Create, DirectoryInv, StepsFitKinds
    <3>2. members \cap Promise!Group(q.chat, q.users) = {}
      BY <2>2, <3>1 DEF DirectoryInv, RowsAreNew, Promise!Group, Block
    <3>3. q.chat \in chats \/ q.users = {}
      <4>1. CASE rows[p] = {}
        <5>1. ASSUME NEW u \in q.users PROVE  FALSE
          <6>1. <<chat[p], u>> \in Block(chat[p], q.users)
            BY <5>1 DEF Block
          <6> QED  BY <2>2, <4>1, <6>1
        <5> QED  BY <5>1
      <4>2. CASE rows[p] # {}
        <5>1. chat[p] \in chats \/ request[p] \in Create
          BY <4>2 DEF DirectoryInv, RowsAreNew
        <5> QED  BY <3>1, <5>1
      <4> QED  BY <4>1, <4>2
    <3>4. Promise!Join(q)
      BY <1>3, <2>3, <2>4, <3>1, <3>2, <3>3 DEF MakeVisible, Promise!Join
    <3> QED  BY <1>1, <1>3, <3>4, Answering DEF Promise!Serve
  <2> QED  BY <1>1, <2>5, <2>6 DEF DirectoryInv, StepsFitKinds
<1> QED  BY <1>1, <1>2, <1>3

(* A deletion serves the request.                                          *)
LEMMA DeletionAnswers ==
    ASSUME DirectoryInv, NEW p \in Requests, DeleteMember(p) \/ DeleteChat(p)
    PROVE  Promise!Answer(p)
<1> DEFINE q == Asked(request[p])
<1>1. step[p] \in {"remove", "delete"} /\ UNCHANGED request
  BY DEF DeleteMember, DeleteChat
<1>2. CASE UNCHANGED <<chats, members>> /\ Return(p, "error")
  BY <1>1, <1>2, Answering
<1>3. CASE DeleteMember(p) /\ Return(p, "ok") /\ members' = members \ {<<chat[p], request[p].user>>}
  <2>1. request[p] \in Remove /\ chat[p] = request[p].chat
    BY <1>3, AskedOfKind DEF DeleteMember, DirectoryInv, StepsFitKinds, Kinds, Create, Remove
  <2>2. q.kind = "remove" /\ q.chat = chat[p] /\ q.by = request[p].user
    BY <2>1, AskedOfKind DEF Kinds
  <2>3. Promise!Leave(q)
    BY <1>3, <2>2 DEF DeleteMember, Promise!Leave, Promise!Group
  <2> QED  BY <1>1, <1>3, <2>3, Answering DEF Promise!Serve
<1>4. CASE DeleteChat(p) /\ Return(p, "ok") /\ chats' = chats \ {chat[p]}
           /\ members' = members \ OfChat(members, chat[p])
  <2>1. request[p] \in Delete /\ chat[p] = request[p].chat
    BY <1>4, AskedOfKind DEF DeleteChat, DirectoryInv, StepsFitKinds, Kinds, Create, Delete
  <2>2. q.kind = "delete" /\ q.chat = chat[p]
    BY <2>1, AskedOfKind DEF Kinds
  <2>3. members \subseteq chats \X Users
    BY DirectoryAssumption DEF DirectoryInv, ChatsAreFresh
  <2>4. members' = members \ Promise!Group(chat[p], Users)
    BY <1>4, <2>3 DEF OfChat, Promise!Group
  <2>5. Promise!Close(q)
    BY <1>4, <2>2, <2>4 DEF Promise!Close
  <2> QED  BY <1>1, <1>4, <2>5, Answering DEF Promise!Serve
<1> QED  BY <1>2, <1>3, <1>4 DEF DeleteMember, DeleteChat

(* A check that ends a request tells the truth; others change nothing      *)
(* that the promise speaks of.                                             *)
LEMMA ChecksAnswer ==
    ASSUME DirectoryInv, NEW p \in Requests,
           \/ CheckFails(p) \/ InsertChatFails(p) \/ CheckAdder(p) \/ CheckListed(p)
           \/ CheckRemoved(p) \/ CheckExists(p)
    PROVE  Promise!Answer(p) \/ UNCHANGED <<chats, members, request, answer>>
<1> DEFINE q == Asked(request[p])
<1> USE DEF tables
<1>1. step[p] \notin {"idle", "done"} /\ UNCHANGED <<chats, members, request>>
  BY DEF CheckFails, InsertChatFails, CheckAdder, CheckListed, CheckRemoved, CheckExists
<1>2. CASE Return(p, "error")
  BY <1>1, <1>2, Answering
<1>3. CASE UNCHANGED answer
  BY <1>1, <1>3
<1>4. CASE step[p] \in {"adder", "check"}
  <2>1. /\ q.kind = "add" /\ q.by = request[p].user /\ q.chat = chat[p]
        /\ Range(todo[p]) \subseteq q.users
    <3>1. request[p] \in Add /\ request[p] \notin Create
      BY <1>4, AskedOfKind DEF DirectoryInv, StepsFitKinds, Kinds, Create, Add
    <3> QED  BY <1>4, <3>1, AskedOfKind
             DEF Kinds, DirectoryInv, StepsFitKinds, ChecksTheList, Listed
  <2>2. CASE Return(p, "unknown")
    BY <1>1, <2>1, <2>2, Answering
  <2>3. CASE Return(p, "refused") /\ ~IsMember(chat[p], request[p].user)
    BY <1>1, <2>1, <2>3, Answering DEF IsMember, Promise!Refusable
  <2>4. CASE Return(p, "refused") /\ todo[p] # <<>> /\ IsMember(chat[p], Head(todo[p]))
    <3>1. Head(todo[p]) \in q.users
      BY <2>1, <2>4, RangeOfTail DEF DirectoryInv, DirectoryTypeOK
    <3>2. Promise!Refusable(q)
      BY <2>1, <2>4, <3>1 DEF IsMember, Promise!Refusable, Promise!Group
    <3> QED  BY <1>1, <2>4, <3>2, Answering
  <2> QED
    BY <1>2, <1>3, <1>4, <2>2, <2>3, <2>4
    DEF CheckFails, InsertChatFails, CheckAdder, CheckListed, CheckRemoved, CheckExists, Continue
<1>5. CASE step[p] = "member" /\ Return(p, "refused") /\ ~IsMember(chat[p], request[p].user)
  <2>1. request[p] \in Remove /\ chat[p] = request[p].chat
    BY <1>5, AskedOfKind DEF DirectoryInv, StepsFitKinds, Kinds, Create, Remove
  <2>2. Promise!Refusable(q)
    BY <1>5, <2>1, AskedOfKind DEF Kinds, IsMember, Promise!Refusable
  <2> QED  BY <1>1, <1>5, <2>2, Answering
<1>6. CASE step[p] = "exists" /\ Return(p, "refused") /\ chat[p] \notin chats
  <2>1. request[p] \in Delete /\ chat[p] = request[p].chat
    BY <1>6, AskedOfKind DEF DirectoryInv, StepsFitKinds, Kinds, Create, Delete
  <2>2. Promise!Refusable(q)
    BY <1>6, <2>1, AskedOfKind DEF Kinds, Promise!Refusable
  <2> QED  BY <1>1, <1>6, <2>2, Answering
<1> QED
  BY <1>2, <1>3, <1>4, <1>5, <1>6
  DEF CheckFails, InsertChatFails, CheckAdder, CheckListed, CheckRemoved, CheckExists, Continue

(* Requests to the chat directory take effect at once, with their whole    *)
(* list, and are answered truthfully, whatever runs besides them: the      *)
(* checks outside of the transactions do no harm, as the constraints of    *)
(* chat_members are checked again within.                                  *)
THEOREM DirectoryIsMembership == Spec => ImplementsMembership
<1>1. Init => Promise!Init
  BY MembershipInit
<1>2. DirectoryInv /\ [Next]_vars => [Promise!Next]_(Promise!vars)
  <2> SUFFICES ASSUME DirectoryInv, [Next]_vars
               PROVE  Promise!Next \/ UNCHANGED Promise!vars
    OBVIOUS
  <2>1. ASSUME UNCHANGED <<chats, members, request, answer>> PROVE  UNCHANGED Promise!vars
    BY <2>1 DEF Promise!vars
  <2>2. ASSUME NEW p \in Requests, Arrive(p) PROVE  Promise!Next
    BY <2>2, ArriveAsks DEF Promise!Next
  <2>3. ASSUME NEW p \in Requests, Rollback(p), step[p] = "insert" PROVE  Promise!Next
    <3>1. Promise!Answer(p)
      BY <2>3, Answering DEF Rollback, tables
    <3> QED  BY <3>1 DEF Promise!Next
  <2>4. ASSUME NEW p \in Requests, InsertMember(p) PROVE  Promise!Next \/ UNCHANGED Promise!vars
    <3>1. CASE Accepts(p)
      BY <2>1, <2>4, <3>1 DEF InsertMember, tables
    <3>2. CASE ~Accepts(p)
      BY <2>3, <2>4, <3>2 DEF InsertMember, Inserting
    <3> QED  BY <3>1, <3>2
  <2>5. ASSUME NEW p \in Requests, InsertFails(p) \/ BreakDeadlock(p) PROVE  Promise!Next
    BY <2>3, <2>5 DEF InsertFails, BreakDeadlock, WaitsFor, Inserting
  <2>6. ASSUME NEW p \in Requests, InsertChat(p) PROVE  UNCHANGED Promise!vars
    BY <2>1, <2>6 DEF InsertChat, Continue
  <2>7. ASSUME NEW p \in Requests, Commit(p) \/ DeleteMember(p) \/ DeleteChat(p)
        PROVE  Promise!Next
    BY <2>7, CommitAnswers, DeletionAnswers DEF Promise!Next
  <2>8. ASSUME NEW p \in Requests,
               \/ CheckFails(p) \/ InsertChatFails(p) \/ CheckAdder(p) \/ CheckListed(p)
               \/ CheckRemoved(p) \/ CheckExists(p)
        PROVE  Promise!Next \/ UNCHANGED Promise!vars
    BY <2>1, <2>8, ChecksAnswer DEF Promise!Next
  <2>9. CASE UNCHANGED vars
    BY <2>1, <2>9 DEF vars, tables
  <2> QED
    BY <2>2, <2>4, <2>5, <2>6, <2>7, <2>8, <2>9 DEF Next, Work
<1> QED
  BY <1>1, <1>2, DirectoryInvariant, PTL DEF Spec, ImplementsMembership, Promise!Spec
=============================================================================
