---------------------------- MODULE MCTcpSocket ----------------------------
(* TLC instances of TcpSocket. *)
EXTENDS TcpSocket, TLC

Symmetry == Permutations(Accepted) \cup Permutations(Connected)
=============================================================================
