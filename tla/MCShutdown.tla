----------------------------- MODULE MCShutdown -----------------------------
(* The three servers, and two requests that go to any of them.             *)
EXTENDS Shutdown
=============================================================================
