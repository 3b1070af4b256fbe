---------------------------- MODULE MCDirectory -----------------------------
(* The same two users in both orders, a user twice, one who does not       *)
(* exist, and nobody at all.                                               *)
EXTENDS Directory

CONSTANTS anna, bert, nobody

MCUsers == {Owner, anna, bert, nobody}
MCLists == {<<anna, bert>>, <<bert, anna>>, <<anna, anna>>, <<bert, nobody>>, <<>>}
=============================================================================
