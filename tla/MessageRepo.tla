---------------------------- MODULE MessageRepo -----------------------------
(***************************************************************************)
(* The queries of src/internal/database/mongo/message_repo.go, as          *)
(* operators on the collection "messages".  A collection is a set of       *)
(* records [id, chat, sender, text, at] with distinct ids; at is           *)
(* created_at, which MongoDB keeps in milliseconds, so that two messages   *)
(* may have the same one.  Each query reads or changes the collection in   *)
(* one step of the database.                                               *)
(***************************************************************************)
EXTENDS Naturals, FiniteSets

(* The sort (created_at, _id) of GetMessages and GetLatestMessage.         *)
Older(m, n) == m.at < n.at \/ (m.at = n.at /\ m.id < n.id)

InChat(messages, chat) == {m \in messages : m.chat = chat}

(* GetLatestMessage: the first message of the chat, newest first; none is  *)
(* the error ErrMessageDoesNotExists.                                      *)
Latest(messages, chat) ==
    {m \in InChat(messages, chat) :
        \A n \in InChat(messages, chat) \ {m} : Older(n, m)}

(* Faulty filters: without the sender, and without the chat.               *)
AnySender(messages, sender, chat, ids) ==
    {m \in messages : m.id \in ids /\ m.chat = chat}

AnyChat(messages, sender, chat, ids) ==
    {m \in messages : m.id \in ids /\ m.sender = sender}

(* The filter of EditMessage and DeleteMessage.                            *)
OwnMessages(messages, sender, chat, ids) ==
    {m \in messages : m.id \in ids /\ m.sender = sender /\ m.chat = chat}

(* $set on the matching messages.                                          *)
WithText(messages, matching, text) ==
    (messages \ matching) \cup {[m EXCEPT !.text = text] : m \in matching}

(* The ObjectID that a malformed hexadecimal string decodes to.            *)
NilObjectID == 0

(* Faulty: an anchor of time only, which messages may have in common, and  *)
(* one that includes the message it stands for.                            *)
BeforeTime(m, anchor) == m.at < anchor.at

NotAfter(m, anchor) == ~Older(anchor, m)

(* The filter $or of GetMessages.                                          *)
BeforeAnchor(m, anchor) == Older(m, anchor)

(* Faulty: no limit.                                                       *)
WholeHistory(messages, chat, anchor, limit) ==
    {m \in InChat(messages, chat) : anchor.at = 0 \/ BeforeAnchor(m, anchor)}

(* GetMessages: the newest messages of the chat that are older than the    *)
(* anchor, at most limit of them.  The zero time is no anchor at all.      *)
Page(messages, chat, anchor, limit) ==
    LET matching == {m \in InChat(messages, chat) :
                        anchor.at = 0 \/ BeforeAnchor(m, anchor)}
    IN  {m \in matching : Cardinality({n \in matching : Older(m, n)}) < limit}
=============================================================================
