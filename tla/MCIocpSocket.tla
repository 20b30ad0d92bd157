---------------------------- MODULE MCIocpSocket ----------------------------
(***************************************************************************)
(* Sockets on a completion port, for TLC.                                  *)
(***************************************************************************)
EXTENDS IocpSocket

=============================================================================
