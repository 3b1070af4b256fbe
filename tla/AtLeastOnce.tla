---------------------------- MODULE AtLeastOnce -----------------------------
(***************************************************************************)
(* What a consumer that commits after handling promises of each partition, *)
(* whatever it crashes in between: the place from which it will resume is  *)
(* never beyond an event that nobody has tried to handle.                  *)
(*                                                                         *)
(* There is no promise that an attempt succeeded, nor that the place only  *)
(* moves forward.                                                          *)
(***************************************************************************)
EXTENDS Naturals

CONSTANT Partitions

VARIABLES
    length,     \* length[p]: events published to p
    attempted,  \* attempted[p]: the events of p handed to the handler
    resume      \* resume[p]: events of p that a restarted consumer skips

aloVars == <<length, attempted, resume>>

Init ==
    /\ length = [p \in Partitions |-> 0]
    /\ attempted = [p \in Partitions |-> {}]
    /\ resume = [p \in Partitions |-> 0]

Grow(p) ==
    /\ length'[p] > length[p]
    /\ \A q \in Partitions \ {p} : length'[q] = length[q]
    /\ UNCHANGED <<attempted, resume>>

Attempt(p, event) ==
    /\ attempted' = [attempted EXCEPT ![p] = @ \cup {event}]
    /\ UNCHANGED <<length, resume>>

Settle(p, upTo) ==
    /\ 1..upTo \subseteq attempted[p]
    /\ resume' = [resume EXCEPT ![p] = upTo]
    /\ UNCHANGED <<length, attempted>>

Next ==
    \E p \in Partitions :
        \/ Grow(p)
        \/ \E event \in 1..length[p] : Attempt(p, event) \/ Settle(p, event)

Spec == Init /\ [][Next]_aloVars
=============================================================================
