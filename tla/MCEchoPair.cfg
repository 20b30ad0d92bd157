\* Any peer: five packets, headers of two bytes, a buffer of six, so that every
\* packet and header can arrive in pieces and two answers can wait.  The client:
\* three packets, each in any pieces, both ways.
SPECIFICATION PairSpec
CONSTANTS
    Streams <- EqualLengths
    PacketLen = 4
    MaxPackets = 3
    HeadLen = 2
    BufLen = 6
INVARIANTS
    PacketsFramed
    AnswersExact
    EchoesTrue
PROPERTIES
    EveryPacketAnswered
    ImplementsPingPong
CHECK_DEADLOCK FALSE
