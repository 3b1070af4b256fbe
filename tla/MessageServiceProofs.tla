------------------------ MODULE MessageServiceProofs ------------------------
(***************************************************************************)
(* Proofs about module MessageService, for every number of requests and    *)
(* whatever they ask for.                                                  *)
(*                                                                         *)
(* The inductive invariant ServiceInv says, besides the types, at which    *)
(* steps a request of each kind can be, what it has established by then,   *)
(* that a stored message is always one of the versions in saved, and that  *)
(* the versions of a message differ only in their text.                    *)
(***************************************************************************)
EXTENDS MessageService, SequenceTheorems, TLAPS

(* Where a request of each kind can be.                                    *)
StepsFitKinds ==
    \A r \in Requests :
        /\ step[r] # "done" => answer[r] = "none"
        /\ step[r] = "idle" => req[r] = NoRequest
        /\ step[r] # "idle" => req[r] \in Request
        /\ step[r] = "save" => req[r].kind = "send"
        /\ step[r] = "publish" => req[r].kind \in {"send", "delete"}
        /\ step[r] = "delete" => req[r].kind = "delete"
        /\ step[r] = "update" => req[r].kind = "edit"

(* What a send has stored before it publishes and when it has returned.    *)
SendsAreStored ==
    \A r \in Requests :
        /\ req[r] # NoRequest
        /\ req[r].kind = "send"
        /\ step[r] = "publish" \/ answer[r] = "ok"
        => draft[r] # {} /\ draft[r] \subseteq saved

(* A draft was made for the sender and the chat of its request.            *)
DraftsFitRequests ==
    \A r \in Requests : \A m \in draft[r] :
        /\ req[r] \in Request /\ req[r].kind = "send"
        /\ m.sender = req[r].claimed /\ m.chat = req[r].chat /\ m.text = req[r].text

(* Versions of a message have one sender and one chat.                     *)
VersionsAgree ==
    /\ messages \subseteq saved
    /\ \A m, n \in saved : m.id = n.id => m.sender = n.sender /\ m.chat = n.chat

(* Whoever is a member while a request names him has been seen as one.     *)
MembersAreSighted ==
    \A r \in Requests :
        step[r] # "idle" /\ <<req[r].chat, req[r].claimed>> \in members => sighted[r]

ServiceInv ==
    /\ ServiceTypeOK
    /\ StepsFitKinds
    /\ SendsAreStored
    /\ DraftsFitRequests
    /\ VersionsAgree
    /\ MembersAreSighted
    /\ MemberWhileServed
    /\ CreatedEventsAreOfStoredMessages
    /\ DeletedInTheSendersName
    /\ WrittenInTheSendersName
-----------------------------------------------------------------------------
(* Publishing appends its event to partitions of its topic: the events     *)
(* that are there keep their offsets.                                      *)
LEMMA PublishAppends ==
    ASSUME NEW topic, NEW event \in Payloads, LogTypeOK, Publish(topic, event)
    PROVE  /\ LogTypeOK'
           /\ \A q \in Partitions : Len(log[q]) \in Nat /\ Len(log'[q]) \in Nat
           /\ \A q \in Partitions : Len(log[q]) <= Len(log'[q])
           /\ \A q \in Partitions : \A i \in 1..Len(log'[q]) :
                 IF i <= Len(log[q]) THEN log'[q][i] = log[q][i]
                 ELSE TopicOf[q] = topic /\ log'[q][i] = event
           /\ UNCHANGED log \/ \E p \in Partitions : \A q \in Partitions \ {p} : log'[q] = log[q]
<1>1. \A q \in Partitions : log[q] \in Seq(Payloads) /\ Len(log[q]) \in Nat
  BY LenProperties DEF LogTypeOK
<1>2. CASE UNCHANGED log
  BY <1>1, <1>2 DEF LogTypeOK
<1>3. ASSUME NEW p \in Partitions, NEW n \in Deliveries, TopicOf[p] = topic,
             log' = [log EXCEPT ![p] = @ \o Copies(event, n)]
      PROVE  /\ LogTypeOK'
             /\ \A q \in Partitions : Len(log[q]) \in Nat /\ Len(log'[q]) \in Nat
             /\ \A q \in Partitions : Len(log[q]) <= Len(log'[q])
             /\ \A q \in Partitions : \A i \in 1..Len(log'[q]) :
                   IF i <= Len(log[q]) THEN log'[q][i] = log[q][i]
                   ELSE TopicOf[q] = topic /\ log'[q][i] = event
             /\ \A q \in Partitions \ {p} : log'[q] = log[q]
  <2>1. n \in Nat
    BY LogAssumption
  <2>2. /\ Copies(event, n) \in Seq(Payloads)
        /\ \A i \in 1..n : Copies(event, n)[i] = event
    BY <2>1, IsASeq DEF Copies
  <2>3. Len(Copies(event, n)) = n
    <3>1. Len(Copies(event, n)) \in Nat /\ 1..n = 1..Len(Copies(event, n))
      BY <2>2, LenProperties DEF Copies
    <3> QED  BY <2>1, <3>1
  <2>4. /\ log[p] \o Copies(event, n) \in Seq(Payloads)
        /\ Len(log[p] \o Copies(event, n)) = Len(log[p]) + n
        /\ \A i \in 1..(Len(log[p]) + n) : (log[p] \o Copies(event, n))[i] =
              IF i <= Len(log[p]) THEN log[p][i] ELSE Copies(event, n)[i - Len(log[p])]
    <3>1. /\ log[p] \o Copies(event, n) \in Seq(Payloads)
          /\ Len(log[p] \o Copies(event, n)) = Len(log[p]) + Len(Copies(event, n))
          /\ \A i \in 1..(Len(log[p]) + Len(Copies(event, n))) : (log[p] \o Copies(event, n))[i] =
                IF i <= Len(log[p]) THEN log[p][i] ELSE Copies(event, n)[i - Len(log[p])]
      BY <1>1, <2>2, ConcatProperties
    <3> QED  BY <2>3, <3>1
  <2>5. log'[p] = log[p] \o Copies(event, n) /\ \A q \in Partitions \ {p} : log'[q] = log[q]
    BY <1>3 DEF LogTypeOK
  <2>6. \A q \in Partitions : /\ Len(log[q]) \in Nat /\ Len(log'[q]) \in Nat
                              /\ Len(log[q]) <= Len(log'[q])
    BY <1>1, <2>1, <2>4, <2>5
  <2>7. ASSUME NEW q \in Partitions, NEW i \in 1..Len(log'[q])
        PROVE  IF i <= Len(log[q]) THEN log'[q][i] = log[q][i]
               ELSE TopicOf[q] = topic /\ log'[q][i] = event
    <3>1. CASE q = p
      <4>1. CASE i <= Len(log[p])
        BY <1>1, <2>1, <2>4, <2>5, <2>7, <3>1, <4>1
      <4>2. CASE ~ i <= Len(log[p])
        <5>1. i - Len(log[p]) \in 1..n
          BY <1>1, <2>1, <2>4, <2>5, <2>7, <3>1, <4>2
        <5> QED  BY <1>1, <1>3, <2>1, <2>2, <2>4, <2>5, <2>7, <3>1, <4>2, <5>1
      <4> QED  BY <4>1, <4>2
    <3>2. CASE q # p
      BY <1>1, <2>5, <2>7, <3>2
    <3> QED  BY <3>1, <3>2
  <2>8. LogTypeOK'
    BY <1>3, <2>4, <2>5 DEF LogTypeOK
  <2> QED  BY <2>5, <2>6, <2>7, <2>8
<1> QED  BY <1>2, <1>3 DEF Publish

(* Publishing adds no event but its own to a topic, and none to others.    *)
LEMMA PublishAddsItsEvent ==
    ASSUME NEW topic, NEW event \in Payloads, LogTypeOK, Publish(topic, event), NEW t
    PROVE  /\ LogTypeOK'
           /\ Published(t)' \subseteq Published(t) \cup (IF t = topic THEN {event} ELSE {})
<1>1. /\ LogTypeOK'
      /\ \A q \in Partitions : Len(log[q]) \in Nat
      /\ \A q \in Partitions : \A i \in 1..Len(log'[q]) :
            IF i <= Len(log[q]) THEN log'[q][i] = log[q][i]
            ELSE TopicOf[q] = topic /\ log'[q][i] = event
  BY PublishAppends
<1> SUFFICES ASSUME NEW e \in Published(t)'
             PROVE  e \in Published(t) \/ (t = topic /\ e = event)
  BY <1>1
<1>2. PICK q \in Partitions : TopicOf[q] = t /\ \E i \in 1..Len(log'[q]) : e = log'[q][i]
  BY DEF Published
<1>3. PICK i \in 1..Len(log'[q]) : e = log'[q][i]
  BY <1>2
<1>4. CASE i <= Len(log[q])
  <2>1. i \in 1..Len(log[q]) /\ e = log[q][i]
    BY <1>1, <1>3, <1>4
  <2> QED  BY <1>2, <2>1 DEF Published
<1>5. CASE ~ i <= Len(log[q])
  BY <1>1, <1>2, <1>3, <1>5
<1> QED  BY <1>4, <1>5

(* A request is for the fields its handler uses.                           *)
LEMMA RequestFields ==
    ASSUME NEW q \in Request
    PROVE  /\ q.kind \in {"send", "delete", "edit"} /\ q.claimed \in Users /\ q.chat \in Chats
           /\ q.kind \in {"send", "edit"} => q.text \in Texts
           /\ q.kind = "send" => q \in SendRequests
           /\ q.kind = "delete" => q \in DeleteRequests
           /\ q.kind = "edit" => q \in EditRequests
BY DEF Request, SendRequests, DeleteRequests, EditRequests

(* No event is published as created but by publishing it as created.       *)
LEMMA CreatedEventsKept ==
    ASSUME CreatedEventsAreOfStoredMessages, UNCHANGED log, saved \subseteq saved'
    PROVE  CreatedEventsAreOfStoredMessages'
BY DEF CreatedEventsAreOfStoredMessages, Published, CreatedEvent

(* What is said of the stored messages holds as long as nothing is stored. *)
LEMMA OwnershipKept ==
    ASSUME DeletedInTheSendersName, WrittenInTheSendersName, VersionsAgree,
           messages' = messages, saved' = saved, req' = req
    PROVE  DeletedInTheSendersName' /\ WrittenInTheSendersName' /\ VersionsAgree'
BY DEF DeletedInTheSendersName, WrittenInTheSendersName, VersionsAgree

(* Drafts and the requests they were made for go together.                 *)
LEMMA DraftsKept ==
    ASSUME DraftsFitRequests, draft' = draft, req' = req
    PROVE  DraftsFitRequests'
BY DEF DraftsFitRequests

(* The invariant holds before the first request.                           *)
LEMMA ServiceInitInv == ServiceInit => ServiceInv
<1> SUFFICES ASSUME ServiceInit PROVE ServiceInv
  OBVIOUS
<1> USE DEF ServiceInit, LogInit, RequestsInit
<1>1. ServiceTypeOK
  BY ServiceAssumption, EmptySeq DEF ServiceTypeOK, LogTypeOK, Steps, Answers
<1>2. StepsFitKinds /\ SendsAreStored /\ DraftsFitRequests /\ VersionsAgree
  BY DEF StepsFitKinds, SendsAreStored, DraftsFitRequests, VersionsAgree
<1>3. MemberWhileServed /\ MembersAreSighted
  BY DEF MemberWhileServed, PassedCheck, MembersAreSighted
<1>4. CreatedEventsAreOfStoredMessages
  BY DEF CreatedEventsAreOfStoredMessages, Published
<1>5. DeletedInTheSendersName /\ WrittenInTheSendersName
  BY DEF DeletedInTheSendersName, WrittenInTheSendersName
<1> QED  BY <1>1, <1>2, <1>3, <1>4, <1>5 DEF ServiceInv

(* A request that has arrived has established nothing yet.                 *)
LEMMA ArriveKeepsInv ==
    ASSUME ServiceInv, NEW r \in Requests, Arrive(r)
    PROVE  ServiceInv'
<1> USE DEF ServiceInv
<1>1. PICK q \in Workload :
          /\ req' = [req EXCEPT ![r] = q]
          /\ sighted' = [sighted EXCEPT ![r] = <<q.chat, q.claimed>> \in members]
          /\ IF q.kind = "delete" /\ q.ids = {} THEN Return(r, "invalid") ELSE Continue(r, "check")
  BY DEF Arrive
<1>2. /\ step[r] = "idle" /\ req[r] = NoRequest /\ answer[r] = "none"
      /\ log' = log /\ messages' = messages /\ members' = members /\ now' = now
      /\ draft' = draft /\ saved' = saved /\ removed' = removed
  BY DEF Arrive, StepsFitKinds
<1>3. q \in Request /\ q # NoRequest
  BY ServiceAssumption
<1>4. \/ /\ step' = [step EXCEPT ![r] = "done"]
         /\ answer' = [answer EXCEPT ![r] = "invalid"]
      \/ /\ step' = [step EXCEPT ![r] = "check"]
         /\ answer' = answer
  BY <1>1 DEF Return, Continue
<1>5. ServiceTypeOK'
  <2>1. sighted' \in [Requests -> BOOLEAN]
    <3> DEFINE b == <<q.chat, q.claimed>> \in members
    <3>1. b \in BOOLEAN
      OBVIOUS
    <3>2. sighted' = [sighted EXCEPT ![r] = b] /\ sighted \in [Requests -> BOOLEAN]
      BY <1>1 DEF ServiceTypeOK
    <3> HIDE DEF b
    <3> QED  BY <3>1, <3>2
  <2>2. req' \in [Requests -> Request \cup {NoRequest}]
    BY <1>1, <1>3 DEF ServiceTypeOK
  <2> QED  BY <1>2, <1>4, <2>1, <2>2 DEF ServiceTypeOK, LogTypeOK, Steps, Answers
<1>6. StepsFitKinds'
  BY <1>1, <1>2, <1>3, <1>4 DEF StepsFitKinds, ServiceTypeOK
<1>7. draft[r] = {}
  BY <1>2, ServiceAssumption DEF DraftsFitRequests, ServiceTypeOK
<1>8. SendsAreStored' /\ DraftsFitRequests'
  BY <1>1, <1>2, <1>3, <1>4, <1>7 DEF SendsAreStored, DraftsFitRequests, ServiceTypeOK
<1>9. VersionsAgree'
  BY <1>2 DEF VersionsAgree
<1>10. MemberWhileServed' /\ MembersAreSighted'
  BY <1>1, <1>2, <1>4 DEF MembersAreSighted, MemberWhileServed, PassedCheck, ServiceTypeOK
<1>11. CreatedEventsAreOfStoredMessages'
  BY <1>2, CreatedEventsKept
<1>12. \A s \in Requests : req[s] # NoRequest => req'[s] = req[s]
  BY <1>1, <1>2 DEF ServiceTypeOK
<1>13. DeletedInTheSendersName' /\ WrittenInTheSendersName'
  BY <1>2, <1>12 DEF DeletedInTheSendersName, WrittenInTheSendersName
<1> QED  BY <1>5, <1>6, <1>8, <1>9, <1>10, <1>11, <1>13

(* A request that stops without an effect, with an error or an answer that *)
(* claims nothing.                                                         *)
LEMMA StoppingKeepsInv ==
    ASSUME ServiceInv, NEW r \in Requests, step[r] # "idle",
           NEW a \in {"database", "not member"}, Return(r, a),
           log' = log, messages' = messages, members' = members, now' = now, req' = req,
           draft' = draft, saved' = saved, sighted' = sighted, removed' = removed
    PROVE  ServiceInv'
<1> USE DEF ServiceInv
<1>1. step' = [step EXCEPT ![r] = "done"] /\ answer' = [answer EXCEPT ![r] = a]
  BY DEF Return
<1>2. /\ log' = log /\ messages' = messages /\ members' = members /\ now' = now
      /\ req' = req /\ draft' = draft /\ saved' = saved /\ sighted' = sighted
      /\ removed' = removed
  OBVIOUS
<1>3. ServiceTypeOK'
  BY <1>1, <1>2 DEF ServiceTypeOK, LogTypeOK, Steps, Answers
<1>4. StepsFitKinds' /\ SendsAreStored'
  BY <1>1, <1>2 DEF StepsFitKinds, SendsAreStored, ServiceTypeOK
<1>5. MembersAreSighted'
  BY <1>1, <1>2 DEF MembersAreSighted, ServiceTypeOK
<1>6. MemberWhileServed'
  BY <1>1, <1>2 DEF MemberWhileServed, PassedCheck, ServiceTypeOK
<1> QED  BY <1>2, <1>3, <1>4, <1>5, <1>6, OwnershipKept, DraftsKept, CreatedEventsKept

(* A request that passes the membership check names a member.              *)
LEMMA CheckKeepsInv ==
    ASSUME ServiceInv, NEW r \in Requests, CheckIsMember(r)
    PROVE  ServiceInv'
<1> USE DEF ServiceInv
<1>1. /\ step[r] = "check"
      /\ log' = log /\ messages' = messages /\ members' = members /\ now' = now
      /\ req' = req /\ saved' = saved /\ sighted' = sighted /\ removed' = removed
  BY DEF CheckIsMember
<1>2. req[r] \in Request /\ req[r] # NoRequest
  BY <1>1, ServiceAssumption DEF StepsFitKinds
<1>3. ASSUME NEW a \in {"database", "not member"}, Return(r, a), UNCHANGED draft
      PROVE  ServiceInv'
  BY <1>1, <1>3, StoppingKeepsInv
<1>4. ASSUME IsMember(r), Continue(r, AfterCheck[req[r].kind]),
             draft' = IF req[r].kind = "send"
                      THEN [draft EXCEPT ![r] =
                              {[id |-> NilObjectID, chat |-> req[r].chat,
                                sender |-> req[r].claimed, text |-> req[r].text, at |-> now]}]
                      ELSE draft
      PROVE  ServiceInv'
  <2>1. /\ answer' = answer
        /\ step' = [step EXCEPT ![r] = AfterCheck[req[r].kind]]
    BY <1>4 DEF Continue
  <2>2. /\ req[r].kind = "send" => AfterCheck[req[r].kind] = "save"
        /\ req[r].kind = "delete" => AfterCheck[req[r].kind] = "publish"
        /\ req[r].kind = "edit" => AfterCheck[req[r].kind] = "update"
        /\ req[r].kind \in {"send", "delete", "edit"}
    BY <1>2, RequestFields DEF AfterCheck
  <2>3. req[r].claimed \in Users /\ req[r].chat \in Chats /\ (req[r].kind = "send" => req[r].text \in Texts)
    BY <1>2, RequestFields
  <2>4. ServiceTypeOK'
    BY <1>1, <1>4, <2>1, <2>2, <2>3 DEF ServiceTypeOK, LogTypeOK, Steps, NilObjectID
  <2>5. StepsFitKinds'
    BY <1>1, <1>2, <2>1, <2>2 DEF ServiceTypeOK, StepsFitKinds
  <2>6. SendsAreStored'
    BY <1>1, <1>4, <2>1, <2>2 DEF SendsAreStored, StepsFitKinds, ServiceTypeOK
  <2>7. DraftsFitRequests'
    BY <1>1, <1>2, <1>4 DEF DraftsFitRequests, ServiceTypeOK
  <2>8. VersionsAgree' /\ DeletedInTheSendersName' /\ WrittenInTheSendersName'
    BY <1>1, OwnershipKept
  <2>9. MemberWhileServed' /\ MembersAreSighted'
    BY <1>1, <1>4, <2>1
    DEF MemberWhileServed, MembersAreSighted, PassedCheck, IsMember, ServiceTypeOK, StepsFitKinds
  <2> QED  BY <1>1, <2>4, <2>5, <2>6, <2>7, <2>8, <2>9, CreatedEventsKept
<1> QED  BY <1>3, <1>4 DEF CheckIsMember

(* Storing the message of a draft under an unused id.                      *)
LEMMA InsertKeepsOwnership ==
    ASSUME ServiceInv, NEW r \in Requests, NEW m \in draft[r], NEW id \in MessageIds \ UsedIds,
           Insert([m EXCEPT !.id = id]), req' = req
    PROVE  /\ messages' \subseteq Message /\ saved' \subseteq Message
           /\ saved \subseteq saved' /\ [m EXCEPT !.id = id] \in saved'
           /\ VersionsAgree' /\ DeletedInTheSendersName' /\ WrittenInTheSendersName'
<1> DEFINE w == [m EXCEPT !.id = id]
<1> USE DEF ServiceInv
<1>1. messages' = messages \cup {w} /\ saved' = saved \cup {w}
  BY DEF Insert
<1>2. /\ w \in Message /\ w.id = id
      /\ w.sender = m.sender /\ w.chat = m.chat /\ w.text = m.text
  BY DEF ServiceTypeOK, Message
<1>3. \A n \in saved : n.id # id
  BY DEF UsedIds
<1> HIDE DEF w
<1>4. messages' \subseteq Message /\ saved' \subseteq Message
  BY <1>1, <1>2 DEF ServiceTypeOK
<1>5. VersionsAgree'
  BY <1>1, <1>2, <1>3 DEF VersionsAgree
<1>6. DeletedInTheSendersName'
  BY <1>1 DEF DeletedInTheSendersName
<1>7. req[r] # NoRequest /\ req[r].kind = "send"
      /\ req[r].claimed = w.sender /\ req[r].chat = w.chat /\ req[r].text = w.text
  BY <1>2, ServiceAssumption DEF DraftsFitRequests
<1>8. WrittenInTheSendersName'
  BY <1>1, <1>7 DEF WrittenInTheSendersName
<1> QED  BY <1>1, <1>4, <1>5, <1>6, <1>8 DEF w

(* A send stores its own message, or stops.                                *)
LEMMA SaveKeepsInv ==
    ASSUME ServiceInv, NEW r \in Requests, SaveMessage(r)
    PROVE  ServiceInv'
<1> USE DEF ServiceInv
<1>1. /\ step[r] = "save"
      /\ log' = log /\ members' = members /\ now' = now
      /\ req' = req /\ sighted' = sighted /\ removed' = removed
  BY DEF SaveMessage
<1>2. req[r] \in Request /\ req[r].kind = "send" /\ answer[r] = "none" /\ sighted[r]
  BY <1>1 DEF StepsFitKinds, MemberWhileServed, PassedCheck
<1>3. PICK m \in draft[r], id \in MessageIds \ UsedIds :
        \/ /\ Insert([m EXCEPT !.id = id])
           /\ draft' = [draft EXCEPT ![r] = {[m EXCEPT !.id = id]}]
           /\ Continue(r, "publish")
        \/ /\ Insert([m EXCEPT !.id = id]) \/ UNCHANGED <<messages, saved>>
           /\ draft' = draft
           /\ Return(r, "database")
  BY DEF SaveMessage
<1>4. MembersAreSighted'
  BY <1>1, <1>2, <1>3 DEF MembersAreSighted, Continue, Return, ServiceTypeOK
<1>5. CASE UNCHANGED <<messages, saved>> /\ draft' = draft /\ Return(r, "database")
  BY <1>1, <1>5, StoppingKeepsInv
<1>6. CASE Insert([m EXCEPT !.id = id]) /\ draft' = draft /\ Return(r, "database")
  <2>1. step' = [step EXCEPT ![r] = "done"] /\ answer' = [answer EXCEPT ![r] = "database"]
    BY <1>6 DEF Return
  <2>2. /\ messages' \subseteq Message /\ saved' \subseteq Message /\ saved \subseteq saved'
        /\ VersionsAgree' /\ DeletedInTheSendersName' /\ WrittenInTheSendersName'
    BY <1>1, <1>6, InsertKeepsOwnership
  <2>3. ServiceTypeOK'
    BY <1>1, <1>6, <2>1, <2>2 DEF ServiceTypeOK, LogTypeOK, Steps, Answers
  <2>4. StepsFitKinds' /\ SendsAreStored'
    BY <1>1, <1>2, <1>6, <2>1, <2>2 DEF StepsFitKinds, SendsAreStored, ServiceTypeOK
  <2>5. MemberWhileServed'
    BY <1>1, <2>1 DEF MemberWhileServed, PassedCheck, ServiceTypeOK
  <2> QED  BY <1>1, <1>4, <1>6, <2>2, <2>3, <2>4, <2>5, DraftsKept, CreatedEventsKept
<1>7. CASE /\ Insert([m EXCEPT !.id = id]) /\ Continue(r, "publish")
           /\ draft' = [draft EXCEPT ![r] = {[m EXCEPT !.id = id]}]
  <2>1. step' = [step EXCEPT ![r] = "publish"] /\ answer' = answer
    BY <1>7 DEF Continue
  <2>2. /\ messages' \subseteq Message /\ saved' \subseteq Message /\ saved \subseteq saved'
        /\ [m EXCEPT !.id = id] \in saved'
        /\ VersionsAgree' /\ DeletedInTheSendersName' /\ WrittenInTheSendersName'
    BY <1>1, <1>7, InsertKeepsOwnership
  <2>3. [m EXCEPT !.id = id] \in
            [id : MessageIds \cup {NilObjectID}, chat : Chats,
             sender : Users, text : Texts, at : 1..MaxTime]
    BY DEF ServiceTypeOK
  <2>4. ServiceTypeOK'
    BY <1>1, <1>7, <2>1, <2>2, <2>3 DEF ServiceTypeOK, LogTypeOK, Steps
  <2>5. StepsFitKinds'
    BY <1>1, <1>2, <2>1 DEF StepsFitKinds, ServiceTypeOK
  <2>6. SendsAreStored'
    BY <1>1, <1>7, <2>1, <2>2 DEF SendsAreStored, ServiceTypeOK
  <2>7. \A n \in draft'[r] : n.sender = m.sender /\ n.chat = m.chat /\ n.text = m.text
    BY <1>7 DEF ServiceTypeOK
  <2>8. DraftsFitRequests'
    BY <1>1, <1>7, <2>7 DEF DraftsFitRequests, ServiceTypeOK
  <2>9. MemberWhileServed'
    BY <1>1, <1>2, <2>1 DEF MemberWhileServed, PassedCheck, ServiceTypeOK
  <2> QED  BY <1>1, <1>4, <2>2, <2>4, <2>5, <2>6, <2>8, <2>9, CreatedEventsKept
<1> QED  BY <1>3, <1>5, <1>6, <1>7

(* A send publishes the message it has stored.                             *)
LEMMA PublishCreatedKeepsInv ==
    ASSUME ServiceInv, NEW r \in Requests, PublishCreated(r)
    PROVE  ServiceInv'
<1> USE DEF ServiceInv
<1>1. /\ step[r] = "publish" /\ req[r].kind = "send"
      /\ messages' = messages /\ members' = members /\ now' = now /\ req' = req
      /\ draft' = draft /\ saved' = saved /\ sighted' = sighted /\ removed' = removed
      /\ step' = [step EXCEPT ![r] = "done"] /\ answer' = [answer EXCEPT ![r] = "ok"]
  BY DEF PublishCreated, Return
<1>2. req[r] \in Request /\ req[r] # NoRequest /\ sighted[r]
  BY <1>1, ServiceAssumption DEF StepsFitKinds, MemberWhileServed, PassedCheck
<1>3. PICK m \in draft[r] : Publish(CreatedTopic, CreatedEvent(m))
  BY DEF PublishCreated
<1>4. m \in saved
  BY <1>1, <1>2 DEF SendsAreStored
<1>5. CreatedEvent(m) \in Payloads
  BY <1>4, ServiceAssumption DEF CreatedEvent, CreatedEvents, ServiceTypeOK, Message
<1>6. /\ LogTypeOK'
      /\ Published(CreatedTopic)' \subseteq Published(CreatedTopic) \cup {CreatedEvent(m)}
  BY <1>3, <1>5, PublishAddsItsEvent DEF ServiceTypeOK
<1>7. CreatedEventsAreOfStoredMessages'
  BY <1>1, <1>4, <1>6 DEF CreatedEventsAreOfStoredMessages, CreatedEvent
<1>8. ServiceTypeOK'
  BY <1>1, <1>6 DEF ServiceTypeOK, Steps, Answers
<1>9. StepsFitKinds' /\ SendsAreStored'
  BY <1>1, <1>2 DEF StepsFitKinds, SendsAreStored, ServiceTypeOK
<1>10. MemberWhileServed' /\ MembersAreSighted'
  BY <1>1, <1>2 DEF MemberWhileServed, MembersAreSighted, PassedCheck, ServiceTypeOK
<1> QED  BY <1>1, <1>7, <1>8, <1>9, <1>10, OwnershipKept, DraftsKept

(* The event of a deletion says nothing of what was stored.                *)
LEMMA PublishDeletedKeepsInv ==
    ASSUME ServiceInv, NEW r \in Requests, PublishDeleted(r)
    PROVE  ServiceInv'
<1> USE DEF ServiceInv
<1>1. /\ step[r] = "publish" /\ req[r].kind = "delete"
      /\ messages' = messages /\ members' = members /\ now' = now /\ req' = req
      /\ draft' = draft /\ saved' = saved /\ sighted' = sighted /\ removed' = removed
      /\ step' = [step EXCEPT ![r] = "delete"] /\ answer' = answer
      /\ Publish(DeletedTopic, DeletedEvent(req[r]))
  BY DEF PublishDeleted, Continue
<1>2. req[r] \in Request /\ req[r] \in DeleteRequests /\ sighted[r]
  BY <1>1, RequestFields DEF StepsFitKinds, MemberWhileServed, PassedCheck
<1>3. DeletedEvent(req[r]) \in Payloads
  BY <1>2, ServiceAssumption DEF DeletedEvent, DeletedEvents, DeleteRequests
<1>4. LogTypeOK' /\ Published(CreatedTopic)' \subseteq Published(CreatedTopic)
  BY <1>1, <1>3, PublishAddsItsEvent
  DEF ServiceTypeOK, CreatedTopic, DeletedTopic
<1>5. CreatedEventsAreOfStoredMessages'
  BY <1>1, <1>4 DEF CreatedEventsAreOfStoredMessages, CreatedEvent
<1>6. ServiceTypeOK'
  BY <1>1, <1>4 DEF ServiceTypeOK, Steps
<1>7. StepsFitKinds' /\ SendsAreStored'
  BY <1>1, <1>2 DEF StepsFitKinds, SendsAreStored, ServiceTypeOK
<1>8. MemberWhileServed' /\ MembersAreSighted'
  BY <1>1, <1>2 DEF MemberWhileServed, MembersAreSighted, PassedCheck, ServiceTypeOK
<1> QED  BY <1>1, <1>5, <1>6, <1>7, <1>8, OwnershipKept, DraftsKept

(* A deletion or an edit that returns, with whatever effect.               *)
LEMMA AnswerKeepsControl ==
    ASSUME ServiceInv, NEW r \in Requests, step[r] \in {"delete", "update"},
           NEW a \in Answers, Return(r, a), saved \subseteq saved',
           log' = log, members' = members, req' = req, draft' = draft, sighted' = sighted
    PROVE  /\ step' \in [Requests -> Steps] /\ answer' \in [Requests -> Answers]
           /\ StepsFitKinds' /\ SendsAreStored' /\ DraftsFitRequests'
           /\ MemberWhileServed' /\ MembersAreSighted' /\ CreatedEventsAreOfStoredMessages'
<1> USE DEF ServiceInv
<1>1. step' = [step EXCEPT ![r] = "done"] /\ answer' = [answer EXCEPT ![r] = a]
  BY DEF Return
<1>2. /\ req[r] \in Request /\ req[r].kind \in {"delete", "edit"} /\ req[r].kind # "send"
      /\ step[r] # "idle" /\ sighted[r]
  BY DEF StepsFitKinds, MemberWhileServed, PassedCheck
<1>3. step' \in [Requests -> Steps] /\ answer' \in [Requests -> Answers]
  BY <1>1 DEF ServiceTypeOK, Steps
<1>4. StepsFitKinds'
  BY <1>1, <1>2 DEF StepsFitKinds, ServiceTypeOK
<1>5. SendsAreStored'
  BY <1>1, <1>2 DEF SendsAreStored, ServiceTypeOK
<1>6. MemberWhileServed' /\ MembersAreSighted'
  BY <1>1, <1>2 DEF MemberWhileServed, MembersAreSighted, PassedCheck, ServiceTypeOK
<1> QED  BY <1>3, <1>4, <1>5, <1>6, DraftsKept, CreatedEventsKept

(* A deletion removes messages of the sender and chat it names only.       *)
LEMMA DeleteKeepsInv ==
    ASSUME ServiceInv, NEW r \in Requests, DeleteMessage(r)
    PROVE  ServiceInv'
<1> USE DEF ServiceInv
<1>1. /\ step[r] = "delete"
      /\ log' = log /\ members' = members /\ now' = now
      /\ req' = req /\ draft' = draft /\ saved' = saved /\ sighted' = sighted
  BY DEF DeleteMessage
<1>2. req[r] \in Request /\ req[r] # NoRequest /\ req[r].kind = "delete"
  BY <1>1, ServiceAssumption DEF StepsFitKinds
<1>3. ASSUME NEW a \in {"database", "not found", "ok"}, Return(r, a), UNCHANGED <<messages, removed>>
      PROVE  ServiceInv'
  <2>1. /\ step' \in [Requests -> Steps] /\ answer' \in [Requests -> Answers]
        /\ StepsFitKinds' /\ SendsAreStored' /\ DraftsFitRequests'
        /\ MemberWhileServed' /\ MembersAreSighted' /\ CreatedEventsAreOfStoredMessages'
    BY <1>1, <1>3, AnswerKeepsControl DEF Answers
  <2>2. ServiceTypeOK'
    BY <1>1, <1>3, <2>1 DEF ServiceTypeOK, LogTypeOK
  <2> QED  BY <1>1, <1>3, <2>1, <2>2, OwnershipKept
<1>4. ASSUME NEW m \in Matching(r), Erase(r, m.id), UNCHANGED <<step, answer>>
      PROVE  ServiceInv'
  <2>1. /\ m \in messages /\ m \in saved /\ m.id \in MessageIds
        /\ m.sender = req[r].claimed /\ m.chat = req[r].chat /\ m.id \in req[r].ids
    BY DEF Matching, OwnMessages, ServiceTypeOK, Message, VersionsAgree
  <2>2. /\ messages' \subseteq messages
        /\ \A n \in messages \ messages' : n.id = m.id
        /\ removed' \in [Requests -> SUBSET MessageIds]
    BY <1>4, <2>1 DEF Erase, ServiceTypeOK
  <2>3. ServiceTypeOK'
    BY <1>1, <1>4, <2>2 DEF ServiceTypeOK, LogTypeOK
  <2>4. StepsFitKinds' /\ SendsAreStored' /\ MemberWhileServed' /\ MembersAreSighted'
    BY <1>1, <1>4 DEF StepsFitKinds, SendsAreStored, MemberWhileServed, PassedCheck, MembersAreSighted
  <2>5. VersionsAgree' /\ WrittenInTheSendersName'
    BY <1>1, <2>2 DEF VersionsAgree, WrittenInTheSendersName
  <2>6. DeletedInTheSendersName'
    <3> SUFFICES ASSUME NEW n \in saved, ~ \E k \in messages' : k.id = n.id
                 PROVE  \E s \in Requests :
                            /\ req[s] # NoRequest /\ req[s].kind = "delete"
                            /\ req[s].claimed = n.sender /\ req[s].chat = n.chat
                            /\ n.id \in req[s].ids
      BY <1>1 DEF DeletedInTheSendersName
    <3>1. CASE \E k \in messages : k.id = n.id
      <4>1. n.id = m.id
        BY <2>2, <3>1
      <4>2. n.sender = m.sender /\ n.chat = m.chat
        BY <2>1, <4>1 DEF VersionsAgree
      <4> QED  BY <1>2, <2>1, <4>1, <4>2
    <3>2. CASE ~ \E k \in messages : k.id = n.id
      BY <3>2 DEF DeletedInTheSendersName
    <3> QED  BY <3>1, <3>2
  <2> QED  BY <1>1, <2>3, <2>4, <2>5, <2>6, DraftsKept, CreatedEventsKept
<1> QED  BY <1>3, <1>4 DEF DeleteMessage

(* An edit rewrites messages of the sender and chat it names only.         *)
LEMMA EditKeepsInv ==
    ASSUME ServiceInv, NEW r \in Requests, EditMessage(r)
    PROVE  ServiceInv'
<1> USE DEF ServiceInv
<1>1. /\ step[r] = "update"
      /\ log' = log /\ members' = members /\ now' = now
      /\ req' = req /\ draft' = draft /\ sighted' = sighted /\ removed' = removed
  BY DEF EditMessage
<1>2. /\ Rewrite(r) \/ UNCHANGED <<messages, saved>>
      /\ \E a \in {"database", "not found", "ok"} : Return(r, a)
  BY DEF EditMessage
<1>3. PICK a \in {"database", "not found", "ok"} : Return(r, a)
  BY <1>2
<1>4. /\ req[r] \in Request /\ req[r] # NoRequest /\ req[r].kind = "edit"
      /\ req[r].text \in Texts
  BY <1>1, RequestFields, ServiceAssumption DEF StepsFitKinds
<1>5. ASSUME UNCHANGED <<messages, saved>> PROVE ServiceInv'
  <2>1. /\ step' \in [Requests -> Steps] /\ answer' \in [Requests -> Answers]
        /\ StepsFitKinds' /\ SendsAreStored' /\ DraftsFitRequests'
        /\ MemberWhileServed' /\ MembersAreSighted' /\ CreatedEventsAreOfStoredMessages'
    BY <1>1, <1>3, <1>5, AnswerKeepsControl DEF Answers
  <2>2. ServiceTypeOK'
    BY <1>1, <1>5, <2>1 DEF ServiceTypeOK, LogTypeOK
  <2> QED  BY <1>1, <1>5, <2>1, <2>2, OwnershipKept
<1>6. ASSUME Rewrite(r) PROVE ServiceInv'
  <2> DEFINE new == {[m EXCEPT !.text = req[r].text] : m \in Matching(r)}
  <2>1. /\ messages' = (messages \ Matching(r)) \cup new
        /\ saved' = saved \cup {m \in messages' : m.id \in req[r].ids}
    BY <1>6 DEF Rewrite, WithText
  <2>2. /\ Matching(r) \subseteq messages
        /\ \A m \in Matching(r) :
              m.id \in req[r].ids /\ m.sender = req[r].claimed /\ m.chat = req[r].chat
    BY DEF Matching, OwnMessages
  <2>3. \A w \in new : /\ w \in Message
                       /\ w.id \in req[r].ids /\ w.text = req[r].text
                       /\ w.sender = req[r].claimed /\ w.chat = req[r].chat
                       /\ \E m \in Matching(r) : m.id = w.id
    <3> SUFFICES ASSUME NEW m \in Matching(r)
                 PROVE  /\ [m EXCEPT !.text = req[r].text] \in Message
                        /\ [m EXCEPT !.text = req[r].text].id = m.id
                        /\ [m EXCEPT !.text = req[r].text].text = req[r].text
                        /\ [m EXCEPT !.text = req[r].text].sender = m.sender
                        /\ [m EXCEPT !.text = req[r].text].chat = m.chat
      BY <2>2
    <3>1. m \in Message
      BY <2>2 DEF ServiceTypeOK
    <3> QED  BY <1>4, <3>1 DEF Message
  <2>4. \A m \in Matching(r) : \E w \in new : w.id = m.id
    <3> SUFFICES ASSUME NEW m \in Matching(r)
                 PROVE  [m EXCEPT !.text = req[r].text].id = m.id
      OBVIOUS
    <3>1. m \in Message
      BY <2>2 DEF ServiceTypeOK
    <3> QED  BY <3>1 DEF Message
  <2> HIDE DEF new
  <2>5. messages' \subseteq Message /\ saved' \subseteq Message /\ saved \subseteq saved'
    BY <2>1, <2>2, <2>3 DEF ServiceTypeOK
  <2>6. /\ step' \in [Requests -> Steps] /\ answer' \in [Requests -> Answers]
        /\ StepsFitKinds' /\ SendsAreStored' /\ DraftsFitRequests'
        /\ MemberWhileServed' /\ MembersAreSighted' /\ CreatedEventsAreOfStoredMessages'
    BY <1>1, <1>3, <2>5, AnswerKeepsControl DEF Answers
  <2>7. ServiceTypeOK'
    BY <1>1, <2>5, <2>6 DEF ServiceTypeOK, LogTypeOK
  <2>8. \A w \in saved' : w \in saved \/ w \in new
    BY <2>1 DEF VersionsAgree
  <2>9. VersionsAgree'
    <3>1. messages' \subseteq saved'
      BY <2>1, <2>3 DEF VersionsAgree
    <3>2. \A w \in saved' : \E m \in saved : m.id = w.id /\ m.sender = w.sender /\ m.chat = w.chat
      BY <2>2, <2>3, <2>8 DEF VersionsAgree
    <3>3. ASSUME NEW v \in saved', NEW w \in saved', v.id = w.id
          PROVE  v.sender = w.sender /\ v.chat = w.chat
      <4>1. PICK m \in saved : m.id = v.id /\ m.sender = v.sender /\ m.chat = v.chat
        BY <3>2
      <4>2. PICK n \in saved : n.id = w.id /\ n.sender = w.sender /\ n.chat = w.chat
        BY <3>2
      <4> QED  BY <3>3, <4>1, <4>2 DEF VersionsAgree
    <3> QED  BY <3>1, <3>3 DEF VersionsAgree
  <2>10. \A m \in messages : \E n \in messages' : n.id = m.id
    BY <2>1, <2>4
  <2>11. DeletedInTheSendersName'
    <3> SUFFICES ASSUME NEW w \in saved'
                 PROVE  \/ \E n \in messages' : n.id = w.id
                        \/ \E s \in Requests :
                              /\ req[s] # NoRequest /\ req[s].kind = "delete"
                              /\ req[s].claimed = w.sender /\ req[s].chat = w.chat
                              /\ w.id \in req[s].ids
      BY <1>1 DEF DeletedInTheSendersName
    <3>1. CASE w \in saved
      BY <2>10, <3>1 DEF DeletedInTheSendersName
    <3>2. CASE w \in new
      BY <2>1, <3>2
    <3> QED  BY <2>8, <3>1, <3>2
  <2>12. WrittenInTheSendersName'
    BY <1>1, <1>4, <2>3, <2>8 DEF WrittenInTheSendersName
  <2> QED  BY <2>6, <2>7, <2>9, <2>11, <2>12
<1> QED  BY <1>2, <1>5, <1>6

(* A removal from a chat forgets nobody, time and crashes touch no data.   *)
LEMMA EnvironmentKeepsInv ==
    ASSUME ServiceInv, (\E row \in Churn : ChangeMembers(row)) \/ Tick \/ Crash
    PROVE  ServiceInv'
<1> USE DEF ServiceInv
<1>1. /\ log' = log /\ messages' = messages /\ req' = req /\ draft' = draft
      /\ saved' = saved /\ removed' = removed /\ answer' = answer
  BY DEF ChangeMembers, Tick, Crash
<1>2. /\ members' \subseteq Membership /\ now' \in 1..MaxTime
      /\ sighted' \in [Requests -> BOOLEAN] /\ step' \in [Requests -> Steps]
  <2>1. ASSUME NEW row \in Churn, ChangeMembers(row)
        PROVE  members' \subseteq Membership /\ now' = now /\ step' = step
               /\ sighted' \in [Requests -> BOOLEAN]
    BY <2>1, ServiceAssumption DEF ChangeMembers, ServiceTypeOK
  <2>2. ASSUME Tick
        PROVE  members' = members /\ now' \in 1..MaxTime /\ sighted' = sighted /\ step' = step
    BY <2>2, ServiceAssumption DEF Tick, ServiceTypeOK
  <2>3. ASSUME Crash
        PROVE  members' = members /\ now' = now /\ sighted' = sighted
               /\ step' \in [Requests -> Steps]
    BY <2>3 DEF Crash, Abandon, Steps
  <2> QED  BY <2>1, <2>2, <2>3 DEF ServiceTypeOK
<1>3. ServiceTypeOK'
  BY <1>1, <1>2 DEF ServiceTypeOK, LogTypeOK
<1>4. \A r \in Requests : step'[r] = step[r] \/ (step[r] # "idle" /\ step'[r] = "done")
  BY DEF ChangeMembers, Tick, Crash, Abandon
<1>5. \A r \in Requests : sighted[r] => sighted'[r]
  BY DEF ChangeMembers, Tick, Crash
<1>6. StepsFitKinds' /\ SendsAreStored'
  BY <1>1, <1>4 DEF StepsFitKinds, SendsAreStored
<1>7. MemberWhileServed'
  BY <1>1, <1>4, <1>5 DEF MemberWhileServed, PassedCheck
<1>8. MembersAreSighted'
  <2>1. ASSUME NEW row \in Churn, ChangeMembers(row) PROVE MembersAreSighted'
    BY <2>1 DEF ChangeMembers, MembersAreSighted
  <2>2. ASSUME Tick \/ Crash PROVE MembersAreSighted'
    <3>1. members' = members /\ sighted' = sighted
      BY <2>2 DEF Tick, Crash
    <3> QED  BY <1>1, <1>4, <3>1 DEF MembersAreSighted
  <2> QED  BY <2>1, <2>2
<1> QED  BY <1>1, <1>3, <1>6, <1>7, <1>8, OwnershipKept, DraftsKept, CreatedEventsKept

(* The invariant is inductive.                                             *)
LEMMA ServiceNextKeepsInv ==
    ASSUME ServiceInv, [ServiceNext]_allServiceVars
    PROVE  ServiceInv'
<1>1. ASSUME NEW r \in Requests, Arrive(r) \/ RequestStep(r) PROVE ServiceInv'
  BY <1>1, ArriveKeepsInv, CheckKeepsInv, SaveKeepsInv, PublishCreatedKeepsInv,
     PublishDeletedKeepsInv, DeleteKeepsInv, EditKeepsInv DEF RequestStep
<1>2. ASSUME (\E row \in Churn : ChangeMembers(row)) \/ Tick \/ Crash PROVE ServiceInv'
  BY <1>2, EnvironmentKeepsInv
<1>3. ASSUME UNCHANGED allServiceVars PROVE ServiceInv'
  <2> USE DEF ServiceInv
  <2>1. /\ log' = log /\ messages' = messages /\ members' = members /\ now' = now
        /\ req' = req /\ step' = step /\ draft' = draft /\ answer' = answer
        /\ saved' = saved /\ sighted' = sighted /\ removed' = removed
    BY <1>3 DEF allServiceVars, serviceVars
  <2>2. ServiceTypeOK'
    BY <2>1 DEF ServiceTypeOK, LogTypeOK
  <2>3. StepsFitKinds' /\ SendsAreStored'
    BY <2>1 DEF StepsFitKinds, SendsAreStored
  <2>4. MemberWhileServed' /\ MembersAreSighted'
    BY <2>1 DEF MemberWhileServed, MembersAreSighted, PassedCheck
  <2> QED  BY <2>1, <2>2, <2>3, <2>4, OwnershipKept, DraftsKept, CreatedEventsKept
<1> QED  BY <1>1, <1>2, <1>3 DEF ServiceNext
-----------------------------------------------------------------------------
(* ServiceInv holds throughout the message service.                        *)
THEOREM ServiceInvariant == ServiceSpec => []ServiceInv
<1> QED  BY ServiceInitInv, ServiceNextKeepsInv, PTL DEF ServiceSpec

(* The variables keep their types.                                         *)
THEOREM ServiceTypeCorrect == ServiceSpec => []ServiceTypeOK
<1>1. ServiceInv => ServiceTypeOK
  BY DEF ServiceInv
<1> QED  BY <1>1, ServiceInvariant, PTL

(* Whatever passes CheckIsMemberOfChat names, in the id its body gives, a  *)
(* user who was a member of the chat at some moment since it came,         *)
(* whatever happens to his membership.  It says nothing of the caller.     *)
THEOREM ServedForMembers == ServiceSpec => []MemberWhileServed
<1>1. ServiceInv => MemberWhileServed
  BY DEF ServiceInv
<1> QED  BY <1>1, ServiceInvariant, PTL

(* No "created" event is published of a message that was not stored.       *)
THEOREM CreatedEventsAreTrue == ServiceSpec => []CreatedEventsAreOfStoredMessages
<1>1. ServiceInv => CreatedEventsAreOfStoredMessages
  BY DEF ServiceInv
<1> QED  BY <1>1, ServiceInvariant, PTL

(* A stored message disappears only by a deletion that names its sender,   *)
(* its chat and its id.  It says nothing of the caller.                    *)
THEOREM DeletionsNameTheSender == ServiceSpec => []DeletedInTheSendersName
<1>1. ServiceInv => DeletedInTheSendersName
  BY DEF ServiceInv
<1> QED  BY <1>1, ServiceInvariant, PTL

(* A message never has a text but of a send or an edit that names its      *)
(* sender and its chat.  It says nothing of the caller.                    *)
THEOREM VersionsNameTheSender == ServiceSpec => []WrittenInTheSendersName
<1>1. ServiceInv => WrittenInTheSendersName
  BY DEF ServiceInv
<1> QED  BY <1>1, ServiceInvariant, PTL

(* SendMessage returns without error only when its message was stored.     *)
THEOREM AcknowledgedSendsAreStored == ServiceSpec => []AcknowledgedMeansStored
<1>1. ServiceInv => AcknowledgedMeansStored
  BY DEF ServiceInv, SendsAreStored, AcknowledgedMeansStored
<1> QED  BY <1>1, ServiceInvariant, PTL
-----------------------------------------------------------------------------
(* What a deletion removed was stored, is gone, and was counted once.      *)
RemovedAreGone ==
    \A r \in Requests :
        /\ removed[r] # {} => step[r] \in {"delete", "done"}
        /\ removed[r] \subseteq UsedIds
        /\ \A m \in messages : m.id \notin removed[r]

DeletionInv == RemovedAreGone /\ DeletionsAreAnsweredTruthfully

(* Nothing that was removed comes back, and nobody answers for it.         *)
LEMMA OthersKeepDeletions ==
    ASSUME DeletionInv, removed' = removed, req' = req, UsedIds \subseteq UsedIds',
           \A m \in messages' : (\E n \in messages : n.id = m.id) \/ m.id \notin UsedIds,
           \A r \in Requests :
               step[r] \in {"delete", "done"} => step'[r] \in {"delete", "done"},
           \A r \in Requests :
               req[r] # NoRequest /\ req[r].kind = "delete" /\ answer'[r] = "ok" => answer[r] = "ok"
    PROVE  DeletionInv'
<1> USE DEF DeletionInv
<1>1. RemovedAreGone'
  BY DEF RemovedAreGone
<1>2. DeletionsAreAnsweredTruthfully'
  BY DEF DeletionsAreAnsweredTruthfully
<1> QED  BY <1>1, <1>2

(* A request that has arrived has deleted nothing.                         *)
LEMMA ArriveKeepsDeletions ==
    ASSUME ServiceInv, DeletionInv, NEW r \in Requests, Arrive(r)
    PROVE  DeletionInv'
<1> USE DEF DeletionInv, ServiceInv
<1>1. /\ step[r] = "idle" /\ answer[r] = "none"
      /\ messages' = messages /\ saved' = saved /\ removed' = removed
      /\ \A q \in Requests \ {r} : req'[q] = req[q] /\ step'[q] = step[q] /\ answer'[q] = answer[q]
      /\ answer'[r] \in {"none", "invalid"}
  BY DEF Arrive, StepsFitKinds, Return, Continue, ServiceTypeOK
<1>2. removed[r] = {}
  BY <1>1 DEF RemovedAreGone
<1>3. RemovedAreGone'
  BY <1>1, <1>2 DEF RemovedAreGone, UsedIds
<1>4. DeletionsAreAnsweredTruthfully'
  BY <1>1 DEF DeletionsAreAnsweredTruthfully
<1> QED  BY <1>3, <1>4

(* The ObjectID of a message that is sent was never used.                  *)
LEMMA SaveKeepsDeletions ==
    ASSUME ServiceInv, DeletionInv, NEW r \in Requests, SaveMessage(r)
    PROVE  DeletionInv'
<1> USE DEF ServiceInv
<1>1. /\ step[r] = "save" /\ req[r].kind = "send" /\ req' = req /\ removed' = removed
  BY DEF SaveMessage, StepsFitKinds
<1>2. PICK m \in draft[r], id \in MessageIds \ UsedIds :
          Insert([m EXCEPT !.id = id]) \/ UNCHANGED <<messages, saved>>
  BY DEF SaveMessage
<1>3. [m EXCEPT !.id = id].id = id
  BY DEF ServiceTypeOK
<1>4. /\ UsedIds \subseteq UsedIds'
      /\ \A n \in messages' : (\E k \in messages : k.id = n.id) \/ n.id \notin UsedIds
  BY <1>2, <1>3 DEF Insert, UsedIds
<1>5. \A q \in Requests : (step[q] \in {"delete", "done"} => step'[q] \in {"delete", "done"})
                          /\ (q # r => answer'[q] = answer[q])
  BY <1>1 DEF SaveMessage, Return, Continue, ServiceTypeOK
<1> QED  BY <1>1, <1>4, <1>5, OthersKeepDeletions

(* Whom a deletion matches nobody else has removed, nor will.              *)
LEMMA DeleteKeepsDeletions ==
    ASSUME ServiceInv, DeletionInv, NEW r \in Requests, DeleteMessage(r)
    PROVE  DeletionInv'
<1> USE DEF ServiceInv, DeletionInv
<1>1. /\ step[r] = "delete" /\ answer[r] = "none" /\ req' = req /\ saved' = saved
      /\ UsedIds' = UsedIds
  BY DEF DeleteMessage, StepsFitKinds, UsedIds
<1>2. ASSUME NEW m \in Matching(r), Erase(r, m.id), UNCHANGED <<step, answer>>
      PROVE  DeletionInv'
  <2>1. m \in messages /\ m.id \in UsedIds
    BY DEF Matching, OwnMessages, VersionsAgree, UsedIds
  <2>2. \A q \in Requests : m.id \notin removed[q]
    BY <2>1 DEF RemovedAreGone
  <2>3. /\ messages' = {n \in messages : n.id # m.id}
        /\ removed'[r] = removed[r] \cup {m.id}
        /\ \A q \in Requests \ {r} : removed'[q] = removed[q]
    BY <1>2 DEF Erase, ServiceTypeOK
  <2>4. RemovedAreGone'
    BY <1>1, <1>2, <2>1, <2>2, <2>3 DEF RemovedAreGone
  <2>5. DeletionsAreAnsweredTruthfully'
    BY <1>1, <1>2, <2>2, <2>3 DEF DeletionsAreAnsweredTruthfully
  <2> QED  BY <2>4, <2>5
<1>3. ASSUME NEW a \in {"database", "not found", "ok"}, Return(r, a),
             a = "ok" => removed[r] # {}, UNCHANGED <<messages, removed>>
      PROVE  DeletionInv'
  <2>1. /\ step'[r] = "done" /\ answer'[r] = a
        /\ \A q \in Requests \ {r} : step'[q] = step[q] /\ answer'[q] = answer[q]
    BY <1>3 DEF Return, ServiceTypeOK
  <2>2. RemovedAreGone'
    BY <1>1, <1>3, <2>1 DEF RemovedAreGone
  <2>3. DeletionsAreAnsweredTruthfully'
    BY <1>1, <1>3, <2>1 DEF DeletionsAreAnsweredTruthfully
  <2> QED  BY <2>2, <2>3
<1> QED  BY <1>2, <1>3 DEF DeleteMessage

(* An edit makes a message of no other id.                                 *)
LEMMA EditKeepsDeletions ==
    ASSUME ServiceInv, DeletionInv, NEW r \in Requests, EditMessage(r)
    PROVE  DeletionInv'
<1> USE DEF ServiceInv
<1>1. /\ step[r] = "update" /\ req[r].kind = "edit" /\ req' = req /\ removed' = removed
      /\ Rewrite(r) \/ UNCHANGED <<messages, saved>>
  BY DEF EditMessage, StepsFitKinds
<1>2. \A m \in messages' : \E n \in messages : n.id = m.id
  <2>1. \A m \in Matching(r) : m \in messages /\ [m EXCEPT !.text = req[r].text].id = m.id
    BY DEF Matching, OwnMessages, ServiceTypeOK, Message
  <2>2. CASE Rewrite(r)
    <3> DEFINE rewritten == {[m EXCEPT !.text = req[r].text] : m \in Matching(r)}
    <3>1. messages' \subseteq messages \cup rewritten
      BY <2>2 DEF Rewrite, WithText
    <3> QED  BY <2>1, <3>1
  <2> QED  BY <1>1, <2>2
<1>3. UsedIds \subseteq UsedIds'
  BY <1>1 DEF Rewrite, UsedIds
<1>4. \A q \in Requests : (step[q] \in {"delete", "done"} => step'[q] \in {"delete", "done"})
                          /\ (q # r => answer'[q] = answer[q])
  BY <1>1 DEF EditMessage, Return, ServiceTypeOK
<1> QED  BY <1>1, <1>2, <1>3, <1>4, OthersKeepDeletions

(* Every step keeps what is claimed of deletions.                          *)
LEMMA DeletionNextKeepsInv ==
    ASSUME ServiceInv, DeletionInv, [ServiceNext]_allServiceVars
    PROVE  DeletionInv'
<1> USE DEF ServiceInv
<1>1. ASSUME messages' = messages, saved' = saved, removed' = removed, req' = req,
             \A r \in Requests :
                 step[r] \in {"delete", "done"} => step'[r] \in {"delete", "done"},
             \A r \in Requests : req[r].kind = "delete" /\ answer'[r] = "ok" => answer[r] = "ok"
      PROVE  DeletionInv'
  BY <1>1, OthersKeepDeletions DEF UsedIds
<1>2. ASSUME NEW r \in Requests, CheckIsMember(r) \/ PublishCreated(r) \/ PublishDeleted(r)
      PROVE  DeletionInv'
  <2>1. /\ messages' = messages /\ saved' = saved /\ removed' = removed /\ req' = req
        /\ step[r] \notin {"delete", "done"}
    BY <1>2 DEF CheckIsMember, PublishCreated, PublishDeleted
  <2>2. \A q \in Requests \ {r} : step'[q] = step[q] /\ answer'[q] = answer[q]
    BY <1>2 DEF CheckIsMember, PublishCreated, PublishDeleted, Return, Continue, ServiceTypeOK
  <2>3. answer'[r] = "ok" => answer[r] = "ok" \/ req[r].kind = "send"
    BY <1>2 DEF CheckIsMember, PublishCreated, PublishDeleted, Return, Continue, ServiceTypeOK
  <2> QED  BY <1>1, <2>1, <2>2, <2>3
<1>3. ASSUME (\E row \in Churn : ChangeMembers(row)) \/ Tick \/ Crash \/ UNCHANGED allServiceVars
      PROVE  DeletionInv'
  <2>1. /\ messages' = messages /\ saved' = saved /\ removed' = removed /\ req' = req
        /\ answer' = answer
    BY <1>3 DEF ChangeMembers, Tick, Crash, allServiceVars, serviceVars
  <2>2. \A r \in Requests :
            step[r] \in {"delete", "done"} => step'[r] \in {"delete", "done"}
    BY <1>3 DEF ChangeMembers, Tick, Crash, Abandon, allServiceVars, serviceVars
  <2> QED  BY <1>1, <2>1, <2>2
<1> QED
  BY <1>2, <1>3, ArriveKeepsDeletions, SaveKeepsDeletions, DeleteKeepsDeletions, EditKeepsDeletions
  DEF ServiceNext, RequestStep

(* DeleteMessage reports success only of a deletion that deleted, and of   *)
(* those that overlap at most one deletes a message.                       *)
THEOREM DeletionsAreTruthful == ServiceSpec => []DeletionsAreAnsweredTruthfully
<1>1. ServiceInit => DeletionInv
  BY DEF ServiceInit, RequestsInit, DeletionInv, RemovedAreGone, DeletionsAreAnsweredTruthfully
<1>2. DeletionInv => DeletionsAreAnsweredTruthfully
  BY DEF DeletionInv
<1>3. ServiceInv /\ DeletionInv /\ [ServiceNext]_allServiceVars => DeletionInv'
  BY DeletionNextKeepsInv
<1> QED  BY <1>1, <1>2, <1>3, ServiceInvariant, PTL DEF ServiceSpec
=============================================================================
