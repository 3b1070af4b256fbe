----------------------------- MODULE MCSessions -----------------------------
(* One user, so that all the calls are about the same tokens.              *)
EXTENDS Sessions, TLC

MCCalls == Permutations(Calls)
=============================================================================
