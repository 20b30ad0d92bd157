------------------------------ MODULE PingPong ------------------------------
(***************************************************************************)
(* What the stress client and the echo server promise together on one      *)
(* connection: the client sends its next packet only when the echo of the  *)
(* one before has come back, so that nothing queues up anywhere, and as    *)
(* long as the connection lives the next echo always comes.                *)
(***************************************************************************)
EXTENDS Naturals

CONSTANT MaxRounds    \* bound: packets of the client

VARIABLES sent,       \* packets the client has made
          received,   \* echoes that have come back
          alive       \* the connection has not broken

vars == <<sent, received, alive>>

\* The connection may also never be made.
Init == sent = 0 /\ received = 0 /\ alive \in BOOLEAN

Ping ==
    /\ sent < MaxRounds /\ received = sent
    /\ sent' = sent + 1
    /\ UNCHANGED <<received, alive>>

Pong ==
    /\ received < sent
    /\ received' = received + 1
    /\ UNCHANGED <<sent, alive>>

\* The echo and the next packet in one step of the client.
PongPing ==
    /\ received < sent /\ received + 1 = sent /\ sent < MaxRounds
    /\ received' = received + 1 /\ sent' = sent + 1
    /\ UNCHANGED alive

Break == alive /\ alive' = FALSE /\ UNCHANGED <<sent, received>>

Next == Ping \/ Pong \/ PongPing \/ Break

\* A connection that lives gets through all its rounds.
Progress == <>(~alive \/ received = MaxRounds)

Spec == Init /\ [][Next]_vars /\ Progress

=============================================================================
