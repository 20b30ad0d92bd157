------------------------------ MODULE EchoPair ------------------------------
(***************************************************************************)
(* The stress client (CClient of example/zsummer_client/main.cpp) and its  *)
(* session of the echo server (EchoSession), over the two byte streams of  *)
(* one connection.  The client's packets are those of Stream, the bytes it *)
(* reads are those the session has sent (out).                             *)
(*                                                                         *)
(* send() takes any part of what it is asked for; OnSend comes later, when *)
(* it likes, as on a completion port, so an echo may overtake the OnSend   *)
(* of its own packet (on epoll OnSend follows at once, which is a          *)
(* behaviour of this too).                                                 *)
(*                                                                         *)
(* The session is also run against any other peer (peer = "any").          *)
(***************************************************************************)
EXTENDS EchoSession

CONSTANTS PacketLen,   \* length of the client's packets: all are alike
          MaxPackets   \* bound: how many it makes

ASSUME ClientAssumption ==
    /\ PacketLen \in Nat /\ PacketLen > HeadLen /\ ~Corrupt(PacketLen)
    /\ MaxPackets \in Nat

VARIABLES
    peer,         \* "client" or "any"
    g_ping_pong,  \* a command line option
    client,       \* the members of CClient, and its socket
    timers,       \* timers of the client that are pending
    echoes        \* history: what MessageEntry of the client was given

clientVars == <<peer, g_ping_pong, client, timers, echoes>>
pairVars == <<vars, clientVars>>

\* The fields of client: link is the state of its socket; m_sending and
\* m_sendque hold numbers of packets, 0 for none; made counts the packets of
\* SendOnce; handed are bytes that send() has taken and OnSend has not told;
\* read is how much of out it has received.
NewClient ==
    [link |-> "none", m_establish |-> FALSE, m_curRecvLen |-> 0, asked |-> 0,
     m_sending |-> 0, m_curSendLen |-> 0, asking |-> 0, m_sendque |-> <<>>,
     made |-> 0, handed |-> 0, read |-> 0]

PairInit ==
    /\ peer \in {"client", "any"}
    /\ \/ peer = "any" /\ Init
       \/ /\ peer = "client"
          /\ packets = [n \in 1..MaxPackets |-> [len |-> PacketLen, kind |-> "echo"]]
          /\ written = 0 /\ taken = 0 /\ m_curRecvLen = 0
          /\ asked = HeadLen
          /\ m_sending = [len |-> 0, orgdata |-> [i \in 1..BufLen |-> <<0, 0>>]]
          /\ m_curSendLen = 0 /\ asking = 0 /\ m_sendque = <<>>
          /\ open = TRUE /\ parsed = <<>> /\ out = <<>>
    /\ g_ping_pong \in BOOLEAN
    /\ client = NewClient
    /\ timers = 0
    /\ echoes = <<>>

-----------------------------------------------------------------------------
\* Faulty variant: the length of the packet being written is not looked at.
SendOnceUnguarded(c) ==
    IF c.made = MaxPackets THEN c
    ELSE [c EXCEPT !.made = @ + 1, !.m_sending = c.made + 1, !.asking = PacketLen]

\* SendOnce makes the next packet, and sends it unless one is being sent.
\* (Bound: MaxPackets.)
SendOnce(c) ==
    IF c.made = MaxPackets THEN c
    ELSE IF c.m_sending # 0
    THEN [c EXCEPT !.made = @ + 1, !.m_sendque = Append(@, c.made + 1)]
    ELSE [c EXCEPT !.made = @ + 1, !.m_sending = c.made + 1, !.asking = PacketLen]

\* OnTimer of CZSummer makes the client and calls DoConnect; that it may return
\* false is not looked at, nobody tells the client anything then.
MakeClient ==
    /\ client.link = "none"
    /\ \E link \in {"connecting", "stuck"} : client' = [client EXCEPT !.link = link]
    /\ UNCHANGED <<vars, peer, g_ping_pong, timers, echoes>>

\* OnConnect(true): OnRecv(0) finds no header yet and asks for one; the first
\* packet goes with a timer.
OnConnect ==
    /\ client.link = "connecting"
    /\ \/ /\ client' = [client EXCEPT !.link = "up", !.m_establish = TRUE,
                                      !.asked = HeadLen]
          /\ timers' = timers + 1
       \/ client' = [client EXCEPT !.link = "refused"] /\ UNCHANGED timers
    /\ UNCHANGED <<vars, peer, g_ping_pong, echoes>>

\* The socket may be closed by then: OnClose has not come yet, and DoSend is
\* accepted without effect.
OnTimer ==
    /\ timers > 0
    /\ timers' = timers - 1
    /\ client' = IF client.m_establish THEN SendOnce(client) ELSE client
    /\ UNCHANGED <<vars, peer, g_ping_pong, echoes>>

\* send() of the client's socket: its bytes are the next ones of Stream.
Writes ==
    /\ client.link = "up"
    /\ \E n \in 1..client.asking :
        /\ written' = written + n
        /\ client' = [client EXCEPT !.asking = 0, !.handed = n]
    /\ UNCHANGED <<packets, recvVars, sendVars, open, out, peer, g_ping_pong,
                   timers, echoes>>

\* OnSend: the rest of the packet, or the next one, or none.
OnSendOfClient ==
    LET c == client
        sent == c.m_curSendLen + c.handed IN
    /\ c.link = "up" /\ c.handed > 0
    /\ client' =
         IF sent < PacketLen
         THEN [c EXCEPT !.m_curSendLen = sent, !.handed = 0, !.asking = PacketLen - sent]
         ELSE IF c.m_sendque = <<>>
         THEN [c EXCEPT !.m_curSendLen = 0, !.handed = 0, !.m_sending = 0]
         ELSE [c EXCEPT !.m_curSendLen = 0, !.handed = 0, !.asking = PacketLen,
                        !.m_sending = Head(c.m_sendque), !.m_sendque = Tail(@)]
    /\ UNCHANGED <<vars, peer, g_ping_pong, timers, echoes>>

\* Faulty variant: a packet and a timer follow every echo.
OnRecvBoth(n) ==
    LET c == client
        buff == SubSeq(out, c.read - c.m_curRecvLen + 1, c.read + n)
        check == CheckBuffIntegrity(buff) IN
    IF check.ret = "SHORTAGE"
    THEN /\ client' = [c EXCEPT !.read = @ + n, !.m_curRecvLen = Len(buff),
                                !.asked = check.len]
         /\ UNCHANGED <<timers, echoes>>
    ELSE /\ echoes' = Append(echoes, buff)
         /\ client' = SendOnce([c EXCEPT !.read = @ + n, !.m_curRecvLen = 0,
                                         !.asked = HeadLen])
         /\ timers' = timers + 1

\* OnRecv: a whole packet is handed to MessageEntry; the next one is sent at
\* once or when a timer says so.  What the session echoes is neither corrupt
\* nor cut short.
OnRecvOfClient(n) ==
    LET c == client
        buff == SubSeq(out, c.read - c.m_curRecvLen + 1, c.read + n)
        check == CheckBuffIntegrity(buff)
        next == [c EXCEPT !.read = @ + n, !.m_curRecvLen = 0, !.asked = HeadLen] IN
    \/ /\ check.ret = "SHORTAGE"
       /\ client' = [c EXCEPT !.read = @ + n, !.m_curRecvLen = Len(buff),
                              !.asked = check.len]
       /\ UNCHANGED <<timers, echoes>>
    \/ /\ check.ret = "SUCCESS"
       /\ echoes' = Append(echoes, buff)
       /\ \/ g_ping_pong /\ client' = SendOnce(next) /\ UNCHANGED timers
          \/ ~g_ping_pong /\ client' = next /\ timers' = timers + 1

Reads ==
    /\ client.link = "up"
    /\ \E n \in 1..client.asked : client.read + n <= Len(out) /\ OnRecvOfClient(n)
    /\ UNCHANGED <<vars, peer, g_ping_pong>>

\* The connection is gone: the client's socket closes, and tells it later.
LinkCloses ==
    /\ ~open /\ client.link = "up"
    /\ client' = [client EXCEPT !.link = "closed"]
    /\ UNCHANGED <<vars, peer, g_ping_pong, timers, echoes>>

OnClose ==
    /\ client.link = "closed" /\ client.m_establish
    /\ client' = [client EXCEPT !.m_establish = FALSE]
    /\ UNCHANGED <<vars, peer, g_ping_pong, timers, echoes>>

Client ==
    /\ peer = "client"
    /\ \/ MakeClient \/ OnConnect \/ OnTimer \/ OnClose
       \/ Writes \/ OnSendOfClient \/ Reads \/ LinkCloses

PairNext ==
    \/ peer = "any" /\ PeerWrites /\ UNCHANGED clientVars
    \/ (PeerCloses \/ SocketSends \/ SocketReceives) /\ UNCHANGED clientVars
    \/ Client

\* Both ends run their loops, the timers expire, and what is sent is taken.
PairSpec ==
    /\ PairInit /\ [][PairNext]_pairVars
    /\ WF_pairVars(SocketSends /\ UNCHANGED clientVars)
    /\ WF_pairVars(SocketReceives /\ UNCHANGED clientVars)
    /\ WF_pairVars(peer = "client" /\ (MakeClient \/ OnConnect \/ OnTimer))
    /\ WF_pairVars(peer = "client" /\ (Writes \/ OnSendOfClient))
    /\ WF_pairVars(peer = "client" /\ Reads)

-----------------------------------------------------------------------------
(* Properties *)

\* Client and session together play ping-pong: no packet is made before the
\* echo of the one before was parsed, whoever is late with its OnSend, and the
\* next echo comes unless the connection breaks or is never made
\* (main.cpp:99, 132, 157).
Rounds == INSTANCE PingPong WITH
    MaxRounds <- MaxPackets, sent <- client.made, received <- Len(echoes),
    alive <- peer = "client" /\ open /\ client.link \notin {"refused", "stuck"}
ImplementsPingPong == Rounds!Spec

\* The client's bytes are those of Stream, and each echo is the packet itself:
\* neither an OnSend that comes after the echo nor a packet in pieces mixes
\* two packets up in either direction (main.cpp:160, 176).
EchoesTrue ==
    peer = "client" =>
        /\ client.m_sending # 0 =>
             written = (client.m_sending - 1) * PacketLen
                        + client.m_curSendLen + client.handed
        /\ \A i \in 1..Len(echoes) : echoes[i] = Bytes(i)

=============================================================================
