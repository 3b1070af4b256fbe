----------------------------- MODULE MCSockets ------------------------------
(* Connections of two users; one of them sends and deletes.  The table has *)
(* the columns that are asked for, or else nothing would be pushed.        *)
EXTENDS Sockets

CONSTANTS anna, bert

MCJobs == [sender : {anna}, skips : BOOLEAN]

MCMembers == {{anna, bert}}

MatchingColumns == DetailsColumns

(* migrations/20260107175956, on top of 20260102165104.                    *)
MigratedColumns == {"id", "title", "is_private", "created_at", "last_message_at",
                    "last_message_preview"}

(* What is deployed meets the hypothesis of FailingDetailsPushNothing.     *)
ASSUME DeployedPushesNothing == ~ DetailsColumns \subseteq MigratedColumns
=============================================================================
