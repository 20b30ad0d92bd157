---------------------------- MODULE MCTimerQueue ----------------------------
EXTENDS TimerQueue
=============================================================================
