----------------------------- MODULE MCEchoPair -----------------------------
(* TLC instance of EchoPair: the session with any peer or with the client. *)
EXTENDS EchoPair, MCEchoSession
=============================================================================
