------------------------------ MODULE IocpLoop ------------------------------
(***************************************************************************)
(* CIOServer on a completion port (network/iocp/iocp.cpp) with what else   *)
(* than CTcpSocket hangs on it: the listener CTcpAccept                    *)
(* (network/iocp/tcpaccept.cpp), a CUdpSocket (network/iocp/udpsocket.cpp) *)
(* and the messages of Post.  RunOnce takes one packet off the port, runs  *)
(* the timers with that packet in hand, then handles the packet by its key *)
(* or by the type of its operation.  The user calls what it likes from     *)
(* OnTimer and from every callback.                                        *)
(*                                                                         *)
(* The timers are the code of TimerQueue; the sockets that the listener    *)
(* makes are those of IocpSocket.                                          *)
(***************************************************************************)
EXTENDS Naturals, Sequences, FiniteSets

CONSTANTS MaxPeers,  \* bound: connections that peers make
          MaxPosts,  \* bound: calls of Post
          MaxRecvs   \* bound: calls of CUdpSocket::DoRecv

VARIABLES
    acceptor,  \* the members of the CTcpAccept
    udp,       \* its status, and how many DoRecv it has accepted and answered
    kernel,    \* operations the kernel has not completed, by kind
    peers,     \* connections that wait for the listener, and those to come
    port,      \* the queue of the completion port
    hand,      \* the packet RunOnce has taken: none or one
    at,        \* where RunOnce is
    posts,     \* messages posted and delivered
    heard,     \* history: what the user of the listener was told
    deaf,      \* history: an accept failed or could not be posted
    early      \* history: Close was called in OnAccept

loopVars == <<port, hand, at>>
iocpVars == <<acceptor, udp, kernel, peers, loopVars, posts, heard, deaf, early>>

\* m_socket is the handle the next connection is accepted into.
NewAcceptor == [alive |-> TRUE, m_server |-> "none", m_socket |-> "none",
                m_nLinkStatus |-> "UNINITIALIZE", m_nAcceptCount |-> 0]

IocpInit ==
    /\ acceptor = NewAcceptor
    /\ udp = [m_nLinkStatus |-> "UNINITIALIZE", asked |-> 0, answered |-> 0]
    /\ kernel = [accept |-> 0, recvfrom |-> 0]
    /\ peers = [waiting |-> 0, away |-> MaxPeers]
    /\ port = <<>> /\ hand = <<>> /\ at = "wait"
    /\ posts = [made |-> 0, delivered |-> 0]
    /\ heard = "new" /\ deaf = FALSE /\ early = FALSE

-----------------------------------------------------------------------------
(* The kernel and the peers (external) *)

Connects ==
    /\ peers.away > 0 /\ acceptor.m_server = "open"
    /\ peers' = [waiting |-> peers.waiting + 1, away |-> peers.away - 1]
    /\ UNCHANGED <<acceptor, udp, kernel, loopVars, posts, heard, deaf, early>>

Complete(kind, result) ==
    /\ kernel[kind] > 0
    /\ kernel' = [kernel EXCEPT ![kind] = @ - 1]
    /\ port' = Append(port, [key |-> kind, ok |-> result])
    /\ UNCHANGED <<acceptor, udp, hand, at, posts, heard, deaf, early>>

AcceptSucceeds ==
    /\ acceptor.m_server = "open" /\ acceptor.m_socket = "open" /\ peers.waiting > 0
    /\ peers' = [peers EXCEPT !.waiting = @ - 1]
    /\ Complete("accept", TRUE)

AcceptFails == Complete("accept", FALSE) /\ UNCHANGED peers

\* A datagram, an empty one, or an error.
RecvFromCompletes ==
    /\ \E result \in BOOLEAN : Complete("recvfrom", result)
    /\ UNCHANGED peers

-----------------------------------------------------------------------------
(* What the user may call *)

Calling == at \in {"timers", "callback", "accepting"}

\* OpenAccept gives the handle back when it fails before the port knows it;
\* after that it leaves the listener established without an accept.
IocpOpenAccept ==
    /\ Calling /\ acceptor.alive /\ acceptor.m_server = "none"
    /\ \/ heard' = "failed" /\ UNCHANGED <<acceptor, kernel, deaf>>
       \/ /\ \E s \in {"none", "open"} :
               acceptor' = [acceptor EXCEPT !.m_server = "open", !.m_socket = s,
                                            !.m_nLinkStatus = "ESTABLISHED"]
          /\ heard' = "failed" /\ deaf' = TRUE
          /\ UNCHANGED kernel
       \/ /\ acceptor' = [acceptor EXCEPT !.m_server = "open", !.m_socket = "open",
                            !.m_nLinkStatus = "ESTABLISHED", !.m_nAcceptCount = @ + 1]
          /\ kernel' = [kernel EXCEPT !.accept = @ + 1]
          /\ heard' = "open" /\ UNCHANGED deaf
    /\ UNCHANGED <<udp, peers, loopVars, posts, early>>

\* Faulty variant: the accept under way is not waited for.
CloseAtOnce ==
    /\ Calling /\ acceptor.alive /\ acceptor.m_nLinkStatus = "ESTABLISHED"
    /\ acceptor' = [acceptor EXCEPT !.m_nLinkStatus = "WAITCLEAR",
                                    !.m_socket = IF @ = "open" THEN "closed" ELSE @]
    /\ port' = Append(port, [key |-> "this", ok |-> TRUE])
    /\ early' = (at = "accepting")
    /\ UNCHANGED <<udp, kernel, peers, hand, at, posts, heard, deaf>>

\* Close is public in CTcpAccept but not in ITcpAccept: called by a user who knows
\* the class.  It closes the handle the next connection was to come in; the
\* listening one stays open.  OnClose is posted at once when no accept is under
\* way.
Close ==
    /\ Calling /\ acceptor.alive /\ acceptor.m_nLinkStatus = "ESTABLISHED"
    /\ LET pending == acceptor.m_nAcceptCount > 0
           closed == [acceptor EXCEPT !.m_socket = IF @ = "open" THEN "closed" ELSE @] IN
        \/ /\ pending
           /\ acceptor' = [closed EXCEPT !.m_nLinkStatus = "WAITCLOSE"]
           /\ UNCHANGED port
        \/ /\ ~pending
           /\ acceptor' = [closed EXCEPT !.m_nLinkStatus = "WAITCLEAR"]
           /\ port' = Append(port, [key |-> "this", ok |-> TRUE])
    /\ early' = (at = "accepting")
    /\ UNCHANGED <<udp, kernel, peers, hand, at, posts, heard, deaf>>

\* DestroyTcpAccept, in OnClose: the destructor closes both handles.
Destroy ==
    /\ at = "callback" /\ heard = "closed" /\ acceptor.alive
    /\ acceptor' = [acceptor EXCEPT !.alive = FALSE, !.m_server = "closed",
                                    !.m_socket = "closed"]
    /\ UNCHANGED <<udp, kernel, peers, loopVars, posts, heard, deaf, early>>

IocpPost ==
    /\ Calling /\ posts.made < MaxPosts
    /\ posts' = [posts EXCEPT !.made = @ + 1]
    /\ port' = Append(port, [key |-> "post", ok |-> TRUE])
    /\ UNCHANGED <<acceptor, udp, kernel, peers, hand, at, heard, deaf, early>>

\* CUdpSocket::Initialize, once: a second call is refused, also after a failure.
UdpInitialize ==
    /\ Calling /\ udp.m_nLinkStatus = "UNINITIALIZE"
    /\ \E status \in {"ESTABLISHED", "refused"} :
        udp' = [udp EXCEPT !.m_nLinkStatus = status]
    /\ UNCHANGED <<acceptor, kernel, peers, loopVars, posts, heard, deaf, early>>

\* DoRecv does not ask whether another one is under way on its OVERLAPPED.
UdpDoRecv ==
    /\ Calling /\ udp.m_nLinkStatus = "ESTABLISHED" /\ udp.asked < MaxRecvs
    /\ udp' = [udp EXCEPT !.asked = @ + 1]
    /\ kernel' = [kernel EXCEPT !.recvfrom = @ + 1]
    /\ UNCHANGED <<acceptor, peers, loopVars, posts, heard, deaf, early>>

UserCall == IocpOpenAccept \/ Close \/ Destroy \/ IocpPost \/ UdpInitialize \/ UdpDoRecv

-----------------------------------------------------------------------------
(* RunOnce *)

Dequeue ==
    /\ at = "wait"
    /\ at' = "timers"
    /\ IF port = <<>> THEN UNCHANGED <<port, hand>>
       ELSE hand' = <<Head(port)>> /\ port' = Tail(port)
    /\ UNCHANGED <<acceptor, udp, kernel, peers, posts, heard, deaf, early>>

TimeOut ==
    /\ at = "timers" /\ hand = <<>>
    /\ at' = "wait"
    /\ UNCHANGED <<acceptor, udp, kernel, peers, port, hand, posts, heard, deaf, early>>

Handles(key) == at = "timers" /\ hand # <<>> /\ hand[1].key = key

Handled(where) == at' = where /\ hand' = <<>>

\* CTcpAccept::OnIOCPMessage of a listener that waits to be closed: the message
\* for OnClear carries NULL.
AcceptClosing ==
    /\ Handles("accept") /\ acceptor.alive
    /\ acceptor.m_nLinkStatus = "WAITCLOSE"
    /\ acceptor' = [acceptor EXCEPT !.m_nAcceptCount = @ - 1, !.m_nLinkStatus = "WAITCLEAR"]
    /\ port' = Append(port, [key |-> "null", ok |-> TRUE])
    /\ Handled("wait")
    /\ UNCHANGED <<udp, kernel, peers, posts, heard, deaf, early>>

\* A connection: its handle goes to a new CTcpSocket and that to OnAccept ...
Accepts ==
    /\ Handles("accept") /\ acceptor.alive
    /\ acceptor.m_nLinkStatus # "WAITCLOSE" /\ hand[1].ok
    /\ acceptor' = [acceptor EXCEPT !.m_nAcceptCount = @ - 1, !.m_socket = "none"]
    /\ Handled("accepting")
    /\ UNCHANGED <<udp, kernel, peers, port, posts, heard, deaf, early>>

\* Faulty variant: counted although it could not be posted.
AcceptAgainMiscounts ==
    /\ at = "accepting" /\ at' = "wait"
    /\ acceptor' = [acceptor EXCEPT !.m_socket = "open", !.m_nAcceptCount = @ + 1]
    /\ \E posted \in {0, 1} :
        /\ kernel' = [kernel EXCEPT !.accept = @ + posted]
        /\ deaf' = (deaf \/ posted = 0)
    /\ UNCHANGED <<udp, peers, port, hand, posts, heard, early>>

\* Faulty variant: no other accept while connections are waiting.
AcceptAgainNotWhenBusy ==
    /\ at = "accepting" /\ at' = "wait"
    /\ \/ /\ peers.waiting = 0
          /\ acceptor' = [acceptor EXCEPT !.m_socket = "open", !.m_nAcceptCount = @ + 1]
          /\ kernel' = [kernel EXCEPT !.accept = @ + 1]
       \/ peers.waiting > 0 /\ UNCHANGED <<acceptor, kernel>>
    /\ UNCHANGED <<udp, peers, port, hand, posts, heard, deaf, early>>

\* ... and when that returns, the next accept is posted, whatever the status is
\* by now.  No handle, or no accept: only logged.
AcceptAgain ==
    /\ at = "accepting" /\ at' = "wait"
    /\ \/ /\ \E s \in {"none", "open"} : acceptor' = [acceptor EXCEPT !.m_socket = s]
          /\ deaf' = TRUE
          /\ UNCHANGED kernel
       \/ /\ acceptor' = [acceptor EXCEPT !.m_socket = "open", !.m_nAcceptCount = @ + 1]
          /\ kernel' = [kernel EXCEPT !.accept = @ + 1]
          /\ UNCHANGED deaf
    /\ UNCHANGED <<udp, peers, port, hand, posts, heard, early>>

\* The failure of an accept is only logged.
AcceptLost ==
    /\ Handles("accept") /\ acceptor.alive
    /\ acceptor.m_nLinkStatus # "WAITCLOSE" /\ ~hand[1].ok
    /\ acceptor' = [acceptor EXCEPT !.m_nAcceptCount = @ - 1]
    /\ deaf' = TRUE
    /\ Handled("wait")
    /\ UNCHANGED <<udp, kernel, peers, port, posts, heard, early>>

\* The key of the packet is the address of a listener that was deleted.
AcceptForDeleted ==
    /\ Handles("accept") /\ ~acceptor.alive
    /\ \E where \in {"wait", "crashed"} : Handled(where)
    /\ UNCHANGED <<acceptor, udp, kernel, peers, port, posts, heard, deaf, early>>

\* PCK_ACCEPT_CLOSE: OnClear through the pointer in the packet.
OnClear ==
    /\ Handles("this")
    /\ heard' = "closed"
    /\ Handled("callback")
    /\ UNCHANGED <<acceptor, udp, kernel, peers, port, posts, deaf, early>>

OnClearOfNull ==
    /\ Handles("null")
    /\ Handled("crashed")
    /\ UNCHANGED <<acceptor, udp, kernel, peers, port, posts, heard, deaf, early>>

OnIocpPost ==
    /\ Handles("post")
    /\ posts' = [posts EXCEPT !.delivered = @ + 1]
    /\ Handled("callback")
    /\ UNCHANGED <<acceptor, udp, kernel, peers, port, heard, deaf, early>>

\* CUdpSocket::OnIOCPMessage: OnRecvFrom is called for a failure too, with 0.
OnRecvFrom ==
    /\ Handles("recvfrom")
    /\ udp' = [udp EXCEPT !.answered = @ + 1]
    /\ Handled("callback")
    /\ UNCHANGED <<acceptor, kernel, peers, port, posts, heard, deaf, early>>

CallbackReturns ==
    /\ at = "callback" /\ at' = "wait"
    /\ UNCHANGED <<acceptor, udp, kernel, peers, port, hand, posts, heard, deaf, early>>

RunOnce ==
    \/ Dequeue \/ TimeOut \/ CallbackReturns
    \/ AcceptClosing \/ Accepts \/ AcceptAgain \/ AcceptLost \/ AcceptForDeleted
    \/ OnClear \/ OnClearOfNull \/ OnIocpPost \/ OnRecvFrom

Kernel == Connects \/ AcceptSucceeds \/ AcceptFails \/ RecvFromCompletes

IocpNext == UserCall \/ RunOnce \/ Kernel

\* RunOnce is called for ever; the kernel takes a connection that waits.
IocpSpec ==
    /\ IocpInit /\ [][IocpNext]_iocpVars
    /\ WF_iocpVars(RunOnce) /\ WF_iocpVars(AcceptSucceeds)

-----------------------------------------------------------------------------
(* Properties *)

Packets(key) == Cardinality({i \in DOMAIN port : port[i].key = key})
                + Cardinality({i \in DOMAIN hand : hand[i].key = key})

\* Every operation comes back to its handler exactly once: m_nAcceptCount is
\* the number of accepts with the kernel or on their way back, never two of
\* them on the one OVERLAPPED; every DoRecv and every Post is answered or on its
\* way (tcpaccept.cpp:182, 189, 253; udpsocket.cpp:242).
EachComesBack ==
    /\ acceptor.alive =>
         acceptor.m_nAcceptCount = kernel.accept + Packets("accept")
    /\ kernel.accept + Packets("accept") <= 1
    /\ udp.asked = udp.answered + kernel.recvfrom + Packets("recvfrom")
    /\ posts.made = posts.delivered + Packets("post")

\* When the listener is told closed no accept of it is under way, so it may be
\* deleted there.  The exception is Close in OnAccept: the handler goes on and
\* posts the next accept (tcpaccept.cpp:230, 245).
DeletableOnClose ==
    heard = "closed" /\ ~early => kernel.accept + Packets("accept") = 0

\* A connection that waits is taken unless the listener is closed, or has gone
\* deaf by the failure of an accept that nothing posts again
\* (tcpaccept.cpp:241, 250, 257).
TakenUnlessDeaf ==
    peers.waiting > 0 ~>
        \/ peers.waiting = 0 \/ deaf
        \/ acceptor.m_nLinkStatus # "ESTABLISHED" \/ at = "crashed"

=============================================================================
