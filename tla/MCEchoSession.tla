--------------------------- MODULE MCEchoSession ---------------------------
(* TLC instances of EchoSession: what the peer sends. *)
EXTENDS EchoSession

Packet(len, kind) == [len |-> len, kind |-> kind]

\* The answers have one length; the connection ends with a body that is too
\* short or a corrupt header, or stays open.
EqualLengths ==
    {<<Packet(3, "echo"), Packet(5, "unknown"), Packet(3, "echo"), Packet(3, "echo"), p>> :
        p \in {Packet(7, "echo"), Packet(1, "malformed"), Packet(4, "malformed"),
               Packet(6, "unknown")}}

\* Answers of two lengths.
TwoLengths == {<<Packet(3, "echo"), Packet(4, "echo"), Packet(3, "echo")>>}
=============================================================================
