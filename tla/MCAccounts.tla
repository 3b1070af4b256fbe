----------------------------- MODULE MCAccounts -----------------------------
(* The names of the methods, as the interceptor lists them and as they are *)
(* called; and strings of which some are too short, too long, or lack an   *)
(* upper-case letter.                                                      *)
EXTENDS Accounts, TLC

publicMethods == {"/auth.AuthService/Login", "/auth.AuthService/Register"}

FullMethod == [register |-> "/auth.v1.AuthService/Register",
               login |-> "/auth.v1.AuthService/Login"]

DeployedPublic == {k \in DOMAIN FullMethod : FullMethod[k] \in publicMethods}

(* The interceptor as deployed meets the assumption that no method is      *)
(* public.                                                                 *)
ASSUME DeployedIsClosed == DeployedPublic = {}

MCLength == [s \in Strings |-> CASE s = "Ann" -> 3 [] s = "annabell@example.com.au" -> 23
                                   [] OTHER -> 8]

MCUpper == Strings \ {"annabell@example.com.au", "anna@x.y", "bert@x.y"}

MCSymmetry == Permutations(Calls)
=============================================================================
