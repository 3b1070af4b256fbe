--------------------------- MODULE HistoryProofs ----------------------------
(***************************************************************************)
(* Proofs about module History, for every length of a page and however     *)
(* many messages are written and deleted while a chat is read.             *)
(*                                                                         *)
(*   HistoryTypeCorrect      []HistoryTypeOK: no page exceeds its limit    *)
(*   PagesNeverOverlap       []PagesGoBack                                 *)
(*   NoMessageIsSkipped      []NothingIsSkipped                            *)
(*   LatestIsTheFirstPage    GetLatestMessage and GetMessages agree        *)
(*                                                                         *)
(* The proofs rest on two facts about the query.  A page has at most Limit *)
(* messages, and whatever matches the filter and is not on the page is     *)
(* older than all of it.  The inductive invariant says that the anchor is  *)
(* not newer than anything read, and that what is still to be read is      *)
(* older than the anchor, or than the page the next anchor will come from. *)
(***************************************************************************)
EXTENDS History, FiniteSetTheorems, TLAPS

(* The collection and what the reader began with: no id is used twice.     *)
IdsAreUsedOnce ==
    /\ IsFiniteSet(messages)
    /\ \A m, n \in messages : m.id = n.id => m = n
    /\ \A m \in messages \cup start : m.id \in used

Unread == (start \cap messages) \ (earlier \cup page)

(* Where a reader is between what it has read and what it has not.         *)
ReaderInv ==
    /\ reader = "idle" => anchor.at = 0
    /\ reader # "got" => page = {}
    /\ \A m \in start : m.chat = Chat
    /\ anchor.at = 0 => earlier = {}
    /\ \A n \in earlier : ~ Older(n, anchor)
    /\ reader \in {"check", "query"} => \A m \in Unread : anchor.at = 0 \/ Older(m, anchor)
    /\ reader = "got" => \A m \in Unread : \A n \in page : Older(m, n)

HistoryInv ==
    /\ HistoryTypeOK
    /\ IdsAreUsedOnce
    /\ ReaderInv
    /\ PagesGoBack
    /\ NothingIsSkipped
-----------------------------------------------------------------------------
(* What the filter of GetMessages lets through, and what is before m in    *)
(* the order of the query.                                                 *)
Matching == {m \in InChat(messages, Chat) : anchor.at = 0 \/ BeforeAnchor(m, anchor)}
Newer(m) == {n \in Matching : Older(m, n)}

LEMMA PageIsOfMatching ==
    Page(messages, Chat, anchor, Limit) = {m \in Matching : Cardinality(Newer(m)) < Limit}
BY DEF Page, Matching, Newer

(* Times and ids are numbers, and no message has the zero time.            *)
LEMMA MessageFields ==
    ASSUME NEW m \in Message
    PROVE  m.at \in Nat /\ m.at # 0 /\ m.id \in Nat
<1>1. m.at \in 1..MaxTime /\ m.id \in 1..MaxId
  BY DEF Message, Times, Ids
<1>2. m.at \in Nat /\ m.at # 0
  BY <1>1, HistoryAssumption
<1>3. m.id \in Nat
  BY <1>1, HistoryAssumption
<1> QED  BY <1>2, <1>3

(* The order of the query, (created_at, _id), is a strict total order of   *)
(* messages that differ in their ids.                                      *)
LEMMA OlderIsAnOrder ==
    ASSUME NEW k \in Message, NEW m \in Message, NEW n \in Message
    PROVE  /\ ~ Older(m, m)
           /\ Older(m, n) => ~ Older(n, m)
           /\ Older(k, m) /\ Older(m, n) => Older(k, n)
           /\ m.id # n.id => Older(m, n) \/ Older(n, m)
<1>1. /\ k.at \in Nat /\ k.id \in Nat
      /\ m.at \in Nat /\ m.id \in Nat
      /\ n.at \in Nat /\ n.id \in Nat
  BY MessageFields
<1> QED  BY <1>1 DEF Older

(* Of two messages that match, the older one has more before it.           *)
LEMMA OlderHasMoreBefore ==
    ASSUME HistoryTypeOK, IdsAreUsedOnce, NEW m \in Matching, NEW n \in Matching
    PROVE  /\ m \in messages /\ m \in Message /\ IsFiniteSet(Matching)
           /\ Cardinality(Newer(m)) \in Nat
           /\ m = n \/ Older(m, n) \/ Older(n, m)
           /\ Older(m, n) => Cardinality(Newer(n)) < Cardinality(Newer(m))
<1>1. Matching \subseteq messages /\ Matching \subseteq Message
  BY DEF Matching, InChat, HistoryTypeOK
<1>2. IsFiniteSet(Matching)
  BY <1>1, FS_Subset DEF IdsAreUsedOnce
<1>3. \A k \in Matching : /\ Newer(k) \in SUBSET Matching /\ IsFiniteSet(Newer(k))
                          /\ Cardinality(Newer(k)) \in Nat
  <2> SUFFICES ASSUME NEW k \in Matching
               PROVE  /\ Newer(k) \in SUBSET Matching /\ IsFiniteSet(Newer(k))
                      /\ Cardinality(Newer(k)) \in Nat
    OBVIOUS
  <2>1. Newer(k) \in SUBSET Matching
    BY DEF Newer
  <2> QED  BY <1>2, <2>1, FS_Subset, FS_CardinalityType
<1>4. m = n \/ Older(m, n) \/ Older(n, m)
  BY <1>1, OlderIsAnOrder DEF IdsAreUsedOnce
<1>5. ASSUME Older(m, n) PROVE Cardinality(Newer(n)) < Cardinality(Newer(m))
  <2>1. Newer(n) \in SUBSET Newer(m)
    BY <1>1, <1>5, OlderIsAnOrder DEF Newer
  <2>2. n \in Newer(m) /\ n \notin Newer(n)
    BY <1>1, <1>5, OlderIsAnOrder DEF Newer
  <2>3. Cardinality(Newer(n)) <= Cardinality(Newer(m)) /\ Cardinality(Newer(m)) # Cardinality(Newer(n))
    BY <1>3, <2>1, <2>2, FS_Subset
  <2> QED  BY <1>3, <2>3
<1> QED  BY <1>1, <1>2, <1>3, <1>4, <1>5

(* A page has at most Limit messages: they differ in how many are before   *)
(* them, and fewer than Limit are.                                         *)
LEMMA PageIsBounded ==
    ASSUME HistoryTypeOK, IdsAreUsedOnce
    PROVE  /\ Page(messages, Chat, anchor, Limit) \subseteq messages
           /\ Cardinality(Page(messages, Chat, anchor, Limit)) <= Limit
<1> DEFINE P == {m \in Matching : Cardinality(Newer(m)) < Limit}
           rank == [m \in P |-> Cardinality(Newer(m))]
<1>1. \A m \in P : m \in messages /\ Cardinality(Newer(m)) \in Nat
  BY OlderHasMoreBefore
<1>2. rank \in [P -> 0..(Limit - 1)]
  BY <1>1, HistoryAssumption
<1>3. \A m, n \in P : rank[m] = rank[n] => m = n
  <2> SUFFICES ASSUME NEW m \in P, NEW n \in P,
                      Cardinality(Newer(m)) = Cardinality(Newer(n))
               PROVE  m = n
    OBVIOUS
  <2>1. Cardinality(Newer(m)) \in Nat
    BY <1>1
  <2>2. ~ Older(m, n) /\ ~ Older(n, m)
    BY <2>1, OlderHasMoreBefore
  <2> QED  BY <2>2, OlderHasMoreBefore
<1>4. rank \in Injection(P, 0..(Limit - 1))
  BY <1>2, <1>3 DEF Injection, IsInjective
<1>5. IsFiniteSet(0..(Limit - 1)) /\ Cardinality(0..(Limit - 1)) = Limit
  <2>1. Limit - 1 \in Int /\ 0 \in Int /\ ~ 0 > Limit - 1 /\ (Limit - 1) - 0 + 1 = Limit
    BY HistoryAssumption
  <2> QED  BY <2>1, FS_Interval
<1>6. Cardinality(P) <= Limit
  BY <1>4, <1>5, FS_Injection
<1> QED  BY <1>1, <1>6, PageIsOfMatching

(* What matches and is not on the page is older than all of the page.      *)
LEMMA PageIsNewest ==
    ASSUME HistoryTypeOK, IdsAreUsedOnce,
           NEW m \in Matching, m \notin Page(messages, Chat, anchor, Limit),
           NEW n \in Page(messages, Chat, anchor, Limit)
    PROVE  Older(m, n)
<1>1. n \in Matching /\ Cardinality(Newer(n)) < Limit /\ ~ Cardinality(Newer(m)) < Limit
  BY PageIsOfMatching
<1>2. Cardinality(Newer(m)) \in Nat /\ Cardinality(Newer(n)) \in Nat
  BY <1>1, OlderHasMoreBefore
<1>3. m # n /\ ~ Older(n, m)
  BY <1>1, <1>2, HistoryAssumption, OlderHasMoreBefore
<1> QED  BY <1>1, <1>3, OlderHasMoreBefore

(* If anything matches the page is not empty: among the sets of what is    *)
(* before a message one is minimal, and it is empty.                       *)
LEMMA PageOfSomething ==
    ASSUME HistoryTypeOK, IdsAreUsedOnce, Matching # {}
    PROVE  Page(messages, Chat, anchor, Limit) # {}
<1> DEFINE Fronts == {Newer(m) : m \in Matching}
<1>1. IsFiniteSet(Matching)
  BY OlderHasMoreBefore
<1>2. Fronts \subseteq FiniteSubsetsOf(Matching) /\ Fronts # {}
  <2>1. FiniteSubsetsOf(Matching) = SUBSET Matching
    BY <1>1, FS_FiniteSubsetsOfFinite
  <2>2. \A m \in Matching : Newer(m) \in SUBSET Matching
    BY DEF Newer
  <2> QED  BY <2>1, <2>2
<1>3. PICK F \in Fronts : \A G \in Fronts : <<G, F>> \notin StrictSubsetOrdering(Matching)
  BY <1>2, WFMin, FS_StrictSubsetOrderingWellFounded
<1>4. PICK m \in Matching : F = Newer(m)
  OBVIOUS
<1>5. Newer(m) = {}
  <2> SUFFICES ASSUME NEW k \in Newer(m) PROVE FALSE
    OBVIOUS
  <2>1. k \in Matching /\ Older(m, k)
    BY DEF Newer
  <2>2. /\ m \in Message /\ \A n \in Matching : n \in Message
    BY OlderHasMoreBefore
  <2>3. Newer(k) \subseteq Newer(m) /\ k \notin Newer(k)
    BY <2>1, <2>2, OlderIsAnOrder DEF Newer
  <2>4. Newer(k) \in SUBSET Matching /\ Newer(m) \in SUBSET Matching
    BY DEF Newer
  <2>5. <<Newer(k), Newer(m)>> \in StrictSubsetOrdering(Matching)
    BY <2>3, <2>4 DEF StrictSubsetOrdering
  <2> QED  BY <1>3, <1>4, <2>1, <2>5
<1>6. Cardinality(Newer(m)) < Limit
  BY <1>5, FS_EmptySet, HistoryAssumption
<1> QED  BY <1>6, PageIsOfMatching
-----------------------------------------------------------------------------
LEMMA HistoryInitInv == Init => HistoryInv
<1> SUFFICES ASSUME Init PROVE HistoryInv
  OBVIOUS
<1> USE DEF Init
<1>1. HistoryTypeOK
  <2>1. 1 \in Times /\ NoAnchor \in Anchor
    BY HistoryAssumption DEF Times, NoAnchor, Anchor
  <2>2. Cardinality({}) <= Limit
    BY FS_EmptySet, HistoryAssumption
  <2> QED  BY <2>1, <2>2 DEF HistoryTypeOK
<1>2. IdsAreUsedOnce
  BY FS_EmptySet DEF IdsAreUsedOnce
<1>3. ReaderInv /\ PagesGoBack /\ NothingIsSkipped
  BY DEF ReaderInv, PagesGoBack, NothingIsSkipped, NoAnchor
<1> QED  BY <1>1, <1>2, <1>3 DEF HistoryInv

(* What others do never puts back what the reader has yet to read: an id   *)
(* of the past is not used again.                                          *)
LEMMA OthersKeepHistory ==
    ASSUME HistoryInv, Others
    PROVE  HistoryInv'
<1> USE DEF HistoryInv
<1>1. UNCHANGED <<reader, anchor, page, earlier, start>>
  BY DEF Others, Send, Delete, ChangeMembers, Tick
<1>2. ASSUME IdsAreUsedOnce', HistoryTypeOK', (start \cap messages)' \subseteq start \cap messages
      PROVE  HistoryInv'
  <2>1. Unread' \subseteq Unread
    BY <1>1, <1>2 DEF Unread
  <2>2. ReaderInv'
    BY <1>1, <2>1 DEF ReaderInv, Older
  <2>3. PagesGoBack' /\ NothingIsSkipped'
    BY <1>1, <1>2 DEF PagesGoBack, NothingIsSkipped, Older
  <2> QED  BY <1>2, <2>2, <2>3
<1>3. CASE Send
  <2>1. PICK id \in Ids \ used, chat \in Chats, at \in 1..now :
            /\ messages' = messages \cup {[id |-> id, chat |-> chat, at |-> at]}
            /\ used' = used \cup {id}
            /\ UNCHANGED <<now, member>>
    BY <1>3 DEF Send
  <2> DEFINE new == [id |-> id, chat |-> chat, at |-> at]
  <2>2. new \in Message /\ new.id = id /\ id \in Ids
    <3>1. at \in Times
      BY HistoryAssumption DEF HistoryTypeOK, Times
    <3> QED  BY <3>1 DEF Message
  <2>3. messages' = messages \cup {new}
    BY <2>1
  <2> HIDE DEF new
  <2>4. HistoryTypeOK'
    BY <1>1, <2>1, <2>2, <2>3 DEF HistoryTypeOK
  <2>5. IsFiniteSet(messages')
    BY <2>3, FS_AddElement DEF IdsAreUsedOnce
  <2>6. \A m \in messages \cup start : m.id # id
    BY <2>1 DEF IdsAreUsedOnce
  <2>7. IdsAreUsedOnce'
    BY <1>1, <2>1, <2>2, <2>3, <2>5, <2>6 DEF IdsAreUsedOnce
  <2>8. (start \cap messages)' \subseteq start \cap messages
    BY <1>1, <2>2, <2>3, <2>6
  <2> QED  BY <1>2, <2>4, <2>7, <2>8
<1>4. CASE Delete
  <2>1. PICK m \in messages : messages' = messages \ {m} /\ UNCHANGED <<now, member, used>>
    BY <1>4 DEF Delete
  <2>2. IsFiniteSet(messages')
    BY <2>1, FS_RemoveElement DEF IdsAreUsedOnce
  <2>3. IdsAreUsedOnce' /\ HistoryTypeOK'
    BY <1>1, <2>1, <2>2 DEF IdsAreUsedOnce, HistoryTypeOK
  <2> QED  BY <1>1, <1>2, <2>1, <2>3
<1>5. CASE ChangeMembers \/ Tick
  <2>1. messages' = messages /\ used' = used
    BY <1>5 DEF ChangeMembers, Tick
  <2>2. now' \in Times /\ member' \in BOOLEAN
    <3>1. CASE ChangeMembers
      BY <3>1 DEF ChangeMembers, HistoryTypeOK
    <3>2. CASE Tick
      <4>1. now' = now + 1 /\ now < MaxTime /\ member' = member
        BY <3>2 DEF Tick
      <4> QED  BY <4>1, HistoryAssumption DEF HistoryTypeOK, Times
    <3> QED  BY <1>5, <3>1, <3>2
  <2>3. IdsAreUsedOnce' /\ HistoryTypeOK'
    BY <1>1, <2>1, <2>2 DEF IdsAreUsedOnce, HistoryTypeOK
  <2> QED  BY <1>1, <1>2, <2>1, <2>3
<1> QED  BY <1>3, <1>4, <1>5 DEF Others

(* Opening and checking change nothing that has been read.                 *)
LEMMA OpenKeepsHistory ==
    ASSUME HistoryInv, Open \/ CheckIsMember
    PROVE  HistoryInv'
<1> USE DEF HistoryInv
<1>1. UNCHANGED <<messages, now, member, anchor, page, earlier, used>>
  BY DEF Open, CheckIsMember
<1>2. /\ reader' \in {"check", "query", "refused"}
      /\ page = {}
      /\ \/ reader = "idle" /\ start' = InChat(messages, Chat)
         \/ reader = "check" /\ start' = start
  BY DEF Open, CheckIsMember, ReaderInv
<1>3. start' \subseteq start \cup messages /\ start' \subseteq Message
  BY <1>2 DEF InChat, HistoryTypeOK
<1>4. HistoryTypeOK' /\ IdsAreUsedOnce'
  BY <1>1, <1>2, <1>3 DEF HistoryTypeOK, IdsAreUsedOnce
<1>5. ReaderInv'
  <2>1. CASE reader = "idle"
    <3>1. \A m \in start' : m.chat = Chat
      BY <1>2, <2>1 DEF InChat
    <3> QED  BY <1>1, <1>2, <2>1, <3>1 DEF ReaderInv, Older
  <2>2. CASE reader = "check" /\ start' = start
    BY <1>1, <1>2, <2>2 DEF ReaderInv, Unread, Older
  <2> QED  BY <1>2, <2>1, <2>2
<1>6. PagesGoBack' /\ NothingIsSkipped'
  BY <1>1, <1>2 DEF PagesGoBack, NothingIsSkipped
<1> QED  BY <1>4, <1>5, <1>6

(* The next anchor is the oldest message read.                             *)
LEMMA AskKeepsHistory ==
    ASSUME HistoryInv, AskForMore
    PROVE  HistoryInv'
<1> USE DEF HistoryInv
<1>1. PICK m \in page : /\ \A n \in page \ {m} : Older(m, n)
                       /\ anchor' = [id |-> m.id, at |-> m.at]
  BY DEF AskForMore
<1>2. /\ reader = "got" /\ reader' = "check" /\ earlier' = earlier \cup page /\ page' = {}
      /\ UNCHANGED <<messages, now, member, used, start>>
  BY DEF AskForMore
<1>3. page \subseteq Message /\ earlier \subseteq Message /\ start \subseteq Message
  BY DEF HistoryTypeOK
<1>4. m.at \in Nat /\ m.at # 0 /\ m.id \in Nat
  BY <1>3, MessageFields
<1>5. anchor'.at = m.at /\ anchor'.id = m.id
  BY <1>1
<1>6. HistoryTypeOK'
  <2>1. anchor' \in Anchor
    BY <1>1, <1>3 DEF Message, Anchor
  <2>2. Cardinality({}) <= Limit
    BY FS_EmptySet, HistoryAssumption
  <2> QED  BY <1>2, <1>3, <2>1, <2>2 DEF HistoryTypeOK
<1>7. IdsAreUsedOnce'
  BY <1>2 DEF IdsAreUsedOnce
<1>8. \A n \in earlier' : ~ Older(n, anchor')
  <2>1. ASSUME NEW n \in earlier' PROVE n = m \/ Older(m, n)
    BY <1>1, <1>2, <2>1 DEF PagesGoBack
  <2>2. ASSUME NEW n \in earlier' PROVE ~ Older(n, m)
    BY <1>2, <1>3, <2>1, <2>2, OlderIsAnOrder
  <2> QED  BY <1>5, <2>2 DEF Older
<1>9. \A n \in Unread' : Older(n, anchor')
  <2>1. Unread' = Unread
    BY <1>2 DEF Unread
  <2>2. \A n \in Unread : Older(n, m)
    BY <1>2 DEF ReaderInv
  <2> QED  BY <1>5, <2>1, <2>2 DEF Older
<1>10. ReaderInv'
  BY <1>2, <1>4, <1>5, <1>8, <1>9 DEF ReaderInv
<1>11. PagesGoBack' /\ NothingIsSkipped'
  BY <1>2 DEF PagesGoBack, NothingIsSkipped
<1> QED  BY <1>6, <1>7, <1>10, <1>11

(* A page is older than what was read, and newer than what was not.        *)
LEMMA QueryKeepsHistory ==
    ASSUME HistoryInv, GetMessages
    PROVE  HistoryInv'
<1> USE DEF HistoryInv
<1>1. /\ reader = "query" /\ page = {}
      /\ messages' = messages /\ anchor' = anchor /\ earlier' = earlier /\ start' = start
      /\ UNCHANGED <<now, member, used>>
  BY DEF GetMessages, ReaderInv
<1>2. IdsAreUsedOnce'
  BY <1>1 DEF IdsAreUsedOnce
<1>3. CASE reader' = "refused" /\ UNCHANGED page
  <2>1. HistoryTypeOK'
    BY <1>1, <1>3 DEF HistoryTypeOK
  <2>2. ReaderInv' /\ PagesGoBack' /\ NothingIsSkipped'
    BY <1>1, <1>3 DEF ReaderInv, PagesGoBack, NothingIsSkipped, Older
  <2> QED  BY <1>2, <2>1, <2>2
<1>4. CASE /\ page' = Page(messages, Chat, anchor, Limit)
           /\ reader' = IF page' = {} THEN "end" ELSE "got"
  <2>1. page' \subseteq messages /\ Cardinality(page') <= Limit /\ page' \subseteq Matching
    BY <1>4, PageIsBounded, PageIsOfMatching
  <2>2. HistoryTypeOK'
    BY <1>1, <1>4, <2>1 DEF HistoryTypeOK
  <2>3. Unread \subseteq Matching
    <3>1. ASSUME NEW m \in Unread
          PROVE  m \in InChat(messages, Chat) /\ (anchor.at = 0 \/ Older(m, anchor))
      BY <1>1, <3>1 DEF Unread, InChat, ReaderInv
    <3> QED  BY <3>1 DEF Matching, BeforeAnchor
  <2>4. \A m \in Unread' : m \in Unread /\ m \notin page'
    BY <1>1 DEF Unread
  <2>5. ASSUME page' # {} PROVE \A m \in Unread' : \A n \in page' : Older(m, n)
    BY <1>4, <2>3, <2>4, PageIsNewest
  <2>6. ReaderInv'
    BY <1>1, <1>4, <2>5 DEF ReaderInv, Older
  <2>7. PagesGoBack'
    <3> SUFFICES ASSUME NEW m \in page', NEW n \in earlier PROVE Older(m, n)
      BY <1>1 DEF PagesGoBack, Older
    <3>1. anchor.at # 0 /\ Older(m, anchor) /\ ~ Older(n, anchor)
      BY <2>1 DEF ReaderInv, Matching, BeforeAnchor
    <3>2. m.at \in Nat /\ m.id \in Nat /\ n.at \in Nat /\ n.id \in Nat
      BY <2>2, MessageFields DEF HistoryTypeOK
    <3>3. anchor.at \in Nat /\ anchor.id \in Nat
      BY HistoryAssumption DEF HistoryTypeOK, Anchor, Times, Ids, NilObjectID
    <3> QED  BY <3>1, <3>2, <3>3 DEF Older
  <2>8. NothingIsSkipped'
    <3> SUFFICES ASSUME page' = {} PROVE start \cap messages \subseteq earlier
      BY <1>1, <1>4 DEF NothingIsSkipped
    <3>1. Matching = {}
      BY <1>4, PageOfSomething
    <3> QED  BY <1>1, <2>3, <3>1 DEF Unread
  <2> QED  BY <1>2, <2>2, <2>6, <2>7, <2>8
<1> QED  BY <1>3, <1>4 DEF GetMessages

(* The invariant is inductive.                                             *)
LEMMA HistoryNextKeepsInv ==
    ASSUME HistoryInv, [Next]_vars
    PROVE  HistoryInv'
<1>1. CASE UNCHANGED vars
  BY <1>1 DEF vars, HistoryInv, HistoryTypeOK, IdsAreUsedOnce, ReaderInv, Unread, PagesGoBack,
              NothingIsSkipped, Older
<1> QED
  BY <1>1, OthersKeepHistory, OpenKeepsHistory, AskKeepsHistory, QueryKeepsHistory
  DEF Next, Reader

THEOREM HistoryInvariant == Spec => []HistoryInv
BY HistoryInitInv, HistoryNextKeepsInv, PTL DEF Spec

(* The variables keep their types, and no page is longer than the limit    *)
(* GetMessages was given.                                                  *)
THEOREM HistoryTypeCorrect == Spec => []HistoryTypeOK
<1>1. HistoryInv => HistoryTypeOK
  BY DEF HistoryInv
<1> QED  BY <1>1, HistoryInvariant, PTL

(* Every page is older than all that was read before it: the anchor of     *)
(* GetMessages, a time and an id, never lets a message be read twice.      *)
THEOREM PagesNeverOverlap == Spec => []PagesGoBack
<1>1. HistoryInv => PagesGoBack
  BY DEF HistoryInv
<1> QED  BY <1>1, HistoryInvariant, PTL

(* Whoever reads to the end has read every message that was there when he  *)
(* began and is there still, whatever was written and deleted meanwhile.   *)
THEOREM NoMessageIsSkipped == Spec => []NothingIsSkipped
<1>1. HistoryInv => NothingIsSkipped
  BY DEF HistoryInv
<1> QED  BY <1>1, HistoryInvariant, PTL
-----------------------------------------------------------------------------
(* The two queries of the repository agree: GetLatestMessage returns the   *)
(* message that GetMessages puts on a first page of length one, on every   *)
(* collection whose ids are used once.                                     *)
THEOREM LatestIsTheFirstPage ==
    ASSUME NEW collection \in SUBSET Message, IsFiniteSet(collection),
           \A m, n \in collection : m.id = n.id => m = n
    PROVE  Page(collection, Chat, NoAnchor, 1) = Latest(collection, Chat)
<1> DEFINE chat == InChat(collection, Chat)
           newer(m) == {n \in chat : Older(m, n)}
<1>1. chat \subseteq Message /\ IsFiniteSet(chat) /\ \A m, n \in chat : m.id = n.id => m = n
  <2>1. chat \subseteq collection
    BY DEF InChat
  <2> QED  BY <2>1, FS_Subset
<1>2. Page(collection, Chat, NoAnchor, 1) = {m \in chat : Cardinality(newer(m)) < 1}
  BY DEF Page, NoAnchor
<1>3. ASSUME NEW m \in chat
      PROVE  Cardinality(newer(m)) < 1 <=> \A n \in chat \ {m} : Older(n, m)
  <2>1. newer(m) \subseteq chat
    OBVIOUS
  <2>2. IsFiniteSet(newer(m)) /\ Cardinality(newer(m)) \in Nat
    BY <1>1, <2>1, FS_Subset, FS_CardinalityType
  <2>3. Cardinality(newer(m)) < 1 <=> newer(m) = {}
    BY <2>2, FS_EmptySet
  <2>4. newer(m) = {} <=> \A n \in chat : ~ Older(m, n)
    OBVIOUS
  <2>5. \A n \in chat : ~ Older(m, n) <=> (n = m \/ Older(n, m))
    BY <1>1, OlderIsAnOrder
  <2> QED  BY <2>3, <2>4, <2>5
<1>4. Latest(collection, Chat) = {m \in chat : \A n \in chat \ {m} : Older(n, m)}
  BY DEF Latest
<1> QED  BY <1>2, <1>3, <1>4
=============================================================================
