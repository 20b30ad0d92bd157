---------------------------- MODULE EchoSession ----------------------------
(***************************************************************************)
(* A connection of the example server (example/zsummer_server/Client.cpp)  *)
(* above its CTcpSocket: packets are cut out of the byte stream with       *)
(* CheckBuffIntegrity (depends/protocol4z/protocol4z.h), answered, and the *)
(* answers wait in m_sendque for the one DoSend that a socket allows.      *)
(*                                                                         *)
(* A byte is <<n, i>>, the i-th byte of the peer's n-th packet.  recv()    *)
(* and send() move any number of the bytes they are asked for.             *)
(***************************************************************************)
EXTENDS Integers, Sequences, SequencesExt

CONSTANTS Streams,  \* what the peer may send: packets with the length in
                    \* their header, and a kind
          HeadLen,  \* StreamHeadTrait::HeadLen
          BufLen    \* _MSG_BUF_LEN

Kinds == {"echo",       \* protocol ID 1
          "unknown",    \* another protocol ID
          "malformed"}  \* the body ends too soon: ReadStream throws

ASSUME PacketsAssumption ==
    /\ HeadLen \in Nat \ {0} /\ BufLen \in Nat /\ HeadLen <= BufLen
    /\ \A packets \in Streams :
        /\ packets \in Seq([len : Nat, kind : Kinds])
        /\ \A n \in 1..Len(packets) :
            packets[n].len <= HeadLen => packets[n].kind = "malformed"

VARIABLES
    packets,       \* what the peer sends
    written,       \* how much of Stream the peer has written
    taken,         \* how much of it recv() has returned
    asked,         \* length of the pending DoRecv, or 0
    m_curRecvLen,  \* bytes in m_recving
    m_sending,     \* _len and _orgdata of the packet being sent
    m_curSendLen,  \* how much of it send() has taken
    asking,        \* length of the pending DoSend, or 0
    m_sendque,     \* packets that wait
    open,          \* the socket is not closed
    parsed,        \* history: what MessageEntry was given
    out            \* history: what send() has taken

\* maxBuffLen of CheckBuffIntegrity is the size of the buffer.
Corrupt(len) == len > BufLen

\* The peer sends no body that the server would not wait for.
Size(n) == IF Corrupt(packets[n].len) \/ packets[n].len < HeadLen
           THEN HeadLen ELSE packets[n].len
Bytes(n) == [i \in 1..Size(n) |-> <<n, i>>]
Stream == FlattenSeq([n \in 1..Len(packets) |-> Bytes(n)])

recvVars == <<taken, asked, m_curRecvLen, parsed>>
sendVars == <<m_sending, m_curSendLen, asking, m_sendque>>
vars == <<packets, written, recvVars, sendVars, open, out>>

\* The constructor clears the buffers, InitSocket asks for a header.
Init ==
    /\ packets \in Streams
    /\ written = 0 /\ taken = 0 /\ m_curRecvLen = 0
    /\ asked = HeadLen
    /\ m_sending = [len |-> 0, orgdata |-> [i \in 1..BufLen |-> <<0, 0>>]]
    /\ m_curSendLen = 0 /\ asking = 0 /\ m_sendque = <<>>
    /\ open = TRUE /\ parsed = <<>> /\ out = <<>>

PeerWrites ==
    /\ written < Len(Stream)
    /\ written' \in (written + 1)..Len(Stream)
    /\ UNCHANGED <<packets, recvVars, sendVars, open, out>>

PeerCloses ==
    /\ open /\ open' = FALSE
    /\ UNCHANGED <<packets, written, recvVars, sendVars, out>>

-----------------------------------------------------------------------------
(* Sending *)

\* memcpy leaves what is behind the packet.
CopyInto(buf, packet) == packet \o SubSeq(buf, Len(packet) + 1, BufLen)

\* Faulty variant: every packet waits for an OnSend.
SendLater(packet) ==
    /\ m_sendque' = Append(m_sendque, packet)
    /\ UNCHANGED <<m_sending, asking>>

\* m_sending is taken while its length is not 0.
Send(packet) ==
    IF m_sending.len /= 0
    THEN /\ m_sendque' = Append(m_sendque, packet)
         /\ UNCHANGED <<m_sending, asking>>
    ELSE /\ m_sending' = [len |-> Len(packet),
                          orgdata |-> CopyInto(m_sending.orgdata, packet)]
         /\ asking' = Len(packet)
         /\ UNCHANGED m_sendque

\* Faulty variant: a send() that takes a part is taken for a complete one.
OnSendIgnoresRest(nSentLen) ==
    /\ out' = out \o SubSeq(m_sending.orgdata, m_curSendLen + 1, m_curSendLen + nSentLen)
    /\ m_curSendLen' = 0
    /\ IF m_sendque = <<>>
       THEN /\ m_sending' = [m_sending EXCEPT !.len = 0]
            /\ asking' = 0 /\ UNCHANGED m_sendque
       ELSE /\ m_sending' = [m_sending EXCEPT !.orgdata = CopyInto(@, Head(m_sendque))]
            /\ asking' = m_sending.len
            /\ m_sendque' = Tail(m_sendque)

\* The rest of m_sending, or the next packet: its bytes are copied, m_sending
\* keeps the length it has.
OnSend(nSentLen) ==
    LET sent == m_curSendLen + nSentLen IN
    /\ out' = out \o SubSeq(m_sending.orgdata, m_curSendLen + 1, sent)
    /\ m_curSendLen' = IF sent = m_sending.len THEN 0 ELSE sent
    /\ \/ /\ sent < m_sending.len
          /\ asking' = m_sending.len - sent
          /\ UNCHANGED <<m_sending, m_sendque>>
       \/ /\ sent = m_sending.len /\ m_sendque = <<>>
          /\ m_sending' = [m_sending EXCEPT !.len = 0]
          /\ asking' = 0
          /\ UNCHANGED m_sendque
       \/ /\ sent = m_sending.len /\ m_sendque /= <<>>
          /\ m_sending' = [m_sending EXCEPT !.orgdata = CopyInto(@, Head(m_sendque))]
          /\ asking' = m_sending.len
          /\ m_sendque' = Tail(m_sendque)

SocketSends ==
    /\ open
    /\ \E n \in 1..asking : OnSend(n)
    /\ UNCHANGED <<packets, written, recvVars, open>>

-----------------------------------------------------------------------------
(* Receiving *)

\* What m_recving holds after n more bytes.
Recving(n) == SubSeq(Stream, taken - m_curRecvLen + 1, taken + n)

\* Faulty variant: the length in the header is taken for that of the body.
CheckAsBody(buff) ==
    IF Len(buff) < HeadLen THEN [ret |-> "SHORTAGE", len |-> HeadLen - Len(buff)]
    ELSE LET packLen == packets[buff[1][1]].len + HeadLen IN
         IF Corrupt(packLen) THEN [ret |-> "CORRUPTION", len |-> Len(buff)]
         ELSE IF packLen <= Len(buff) THEN [ret |-> "SUCCESS", len |-> packLen]
         ELSE [ret |-> "SHORTAGE", len |-> packLen - Len(buff)]

CheckBuffIntegrity(buff) ==
    IF Len(buff) < HeadLen THEN [ret |-> "SHORTAGE", len |-> HeadLen - Len(buff)]
    ELSE LET packLen == packets[buff[1][1]].len IN
         IF Corrupt(packLen) THEN [ret |-> "CORRUPTION", len |-> Len(buff)]
         ELSE IF packLen <= Len(buff) THEN [ret |-> "SUCCESS", len |-> packLen]
         ELSE [ret |-> "SHORTAGE", len |-> packLen - Len(buff)]

\* A corrupt header or an exception of MessageEntry closes the socket;
\* otherwise DoRecv for the rest of the packet or for the next header.
OnRecv(nRecvedLen) ==
    LET buff  == Recving(nRecvedLen)
        check == CheckBuffIntegrity(buff)
        kind  == packets[buff[1][1]].kind
    IN
    /\ taken' = taken + nRecvedLen
    /\ \/ /\ check.ret = "SHORTAGE"
          /\ m_curRecvLen' = Len(buff) /\ asked' = check.len
          /\ UNCHANGED <<sendVars, parsed, open>>
       \/ /\ \/ check.ret = "CORRUPTION"
             \/ check.ret = "SUCCESS" /\ kind = "malformed"
          /\ m_curRecvLen' = Len(buff) /\ asked' = 0
          /\ open' = FALSE
          /\ UNCHANGED <<sendVars, parsed>>
       \/ /\ check.ret = "SUCCESS" /\ kind /= "malformed"
          /\ m_curRecvLen' = 0 /\ asked' = HeadLen
          /\ parsed' = Append(parsed, buff)
          /\ IF kind = "echo" THEN Send(buff) ELSE UNCHANGED <<m_sending, asking, m_sendque>>
          /\ UNCHANGED <<m_curSendLen, open>>

SocketReceives ==
    /\ open
    /\ \E n \in 1..asked : taken + n <= written /\ OnRecv(n)
    /\ UNCHANGED <<packets, written, out>>

Next == PeerWrites \/ PeerCloses \/ SocketSends \/ SocketReceives

\* The IOServer serves a readable and a writable socket (TcpSocket, Answered),
\* and the peer reads the answers.
Spec == Init /\ [][Next]_vars /\ WF_vars(SocketSends) /\ WF_vars(SocketReceives)

-----------------------------------------------------------------------------
(* Properties *)

\* However recv() cuts the stream, MessageEntry is given the packets of the peer,
\* whole and in order.
PacketsFramed ==
    \A i \in 1..Len(parsed) : parsed[i] = Bytes(i)

\* What was sent, the rest of m_sending and m_sendque are together the answers
\* to what was parsed: none is lost, cut, repeated or overtaken while send()
\* takes them piece by piece.
Answer(p) == IF packets[p[1][1]].kind = "echo" THEN p ELSE <<>>
Answers(ps) == FlattenSeq([i \in DOMAIN ps |-> Answer(ps[i])])
AnswersExact ==
    out \o SubSeq(m_sending.orgdata, m_curSendLen + 1, m_sending.len)
        \o FlattenSeq(m_sendque) = Answers(parsed)

\* Every packet that arrives is parsed and its answer is sent, unless the
\* connection closes.
EveryPacketAnswered ==
    written = Len(Stream) ~>
        ~open \/ (Len(parsed) = Len(packets) /\ out = Answers(parsed))

=============================================================================
