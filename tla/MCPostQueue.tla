---------------------------- MODULE MCPostQueue ----------------------------
EXTENDS PostQueue
=============================================================================
