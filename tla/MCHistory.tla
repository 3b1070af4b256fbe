----------------------------- MODULE MCHistory ------------------------------
(* More messages than a page holds, and fewer times than messages.         *)
EXTENDS History

CONSTANT OtherChat

MCChats == {Chat, OtherChat}
=============================================================================
