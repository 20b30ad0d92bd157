----------------------------- MODULE MCLogQueue -----------------------------
(* TLC instances of LogQueue. *)
EXTENDS LogQueue

TwoLevels == {0, 1}
OneLevel == {0}
=============================================================================
