------------------------------ MODULE UdpSocket ------------------------------
(***************************************************************************)
(* CUdpSocket on epoll (network/epoll/udpsocket.cpp) under RunOnce: one    *)
(* DoRecv at a time, which switches EPOLLIN on, and the handler that       *)
(* switches it off and calls OnRecvFrom.  Other callbacks of the batch run *)
(* between epoll_wait and the handler, so the event can be stale.          *)
(*                                                                         *)
(* A datagram has content or is empty.  Whether epoll_ctl succeeds is the  *)
(* kernel's choice.  DoSend only calls sendto and changes nothing here.    *)
(***************************************************************************)
EXTENDS Naturals, Sequences

CONSTANT MaxDatagrams  \* bound: datagrams waiting in the kernel

VARIABLES
    udp,       \* the members of the CUdpSocket
    interest,  \* the kernel's epoll entry: "none", "idle" or "in"
    arrived,   \* the datagrams waiting in the kernel
    loop,      \* RunOnce: "wait", "event" (taken, not handled), "callback"
    modFailed, \* history: an EPOLLMod of a registered socket failed
    told       \* history: what the last DoRecv that changed anything returned

udpVars == <<udp, interest, arrived, loop, modFailed, told>>

\* m_pRecvBuf and m_iRecvLen are set and reset together: recving.
NewUdp == [alive |-> TRUE, m_cb |-> FALSE, _fd |-> "none", events |-> FALSE, recving |-> FALSE]

UdpInit ==
    /\ udp = NewUdp
    /\ interest = "none" /\ arrived = <<>> /\ loop = "wait"
    /\ modFailed = FALSE /\ told = TRUE

\* A datagram comes in while the socket is bound (external).
Arrives ==
    /\ udp._fd = "open" /\ Len(arrived) < MaxDatagrams
    /\ \E d \in {"content", "empty"} : arrived' = Append(arrived, d)
    /\ UNCHANGED <<udp, interest, loop, modFailed, told>>

-----------------------------------------------------------------------------
(* What the user calls, from its timers and callbacks *)

\* m_cb stays set whatever fails: there is no second try.  A descriptor that
\* could not be bound is closed, one that epoll refuses is kept.
UdpOpen ==
    /\ udp.alive /\ ~udp.m_cb
    /\ \/ /\ udp' = [udp EXCEPT !.m_cb = TRUE, !._fd = "open"]
          /\ interest' \in {"none", "idle"}
       \/ /\ udp' = [udp EXCEPT !.m_cb = TRUE]
          /\ UNCHANGED interest
    /\ UNCHANGED <<arrived, loop, modFailed, told>>

\* When EPOLLMod fails DoRecv returns false with the buffer and EPOLLIN taken:
\* every further DoRecv is refused.
UdpRecv ==
    /\ udp.alive /\ udp.m_cb /\ ~udp.recving /\ ~udp.events
    /\ udp' = [udp EXCEPT !.recving = TRUE, !.events = TRUE]
    /\ \/ interest # "none" /\ interest' = "in" /\ told' = TRUE /\ UNCHANGED modFailed
       \/ /\ told' = FALSE /\ modFailed' = (modFailed \/ interest # "none")
          /\ UNCHANGED interest
    /\ UNCHANGED <<arrived, loop>>

\* The destructor closes the descriptor, and with it goes the epoll entry.
UdpDestroy ==
    /\ udp.alive
    /\ udp' = [udp EXCEPT !.alive = FALSE, !._fd = "none"]
    /\ interest' = "none" /\ arrived' = <<>>
    /\ UNCHANGED <<loop, modFailed, told>>

-----------------------------------------------------------------------------
(* RunOnce and OnEPOLLMessage *)

UdpWait ==
    /\ loop = "wait" /\ interest = "in" /\ arrived # <<>>
    /\ loop' = "event"
    /\ UNCHANGED <<udp, interest, arrived, modFailed, told>>

Handling == loop = "event" /\ udp.alive

\* EPOLLHUP or EPOLLERR, a failing recvfrom, or a flag without a buffer: logged,
\* everything stays, and the level-triggered event comes again.
UdpIgnores ==
    /\ Handling /\ loop' = "wait"
    /\ UNCHANGED <<udp, interest, arrived, modFailed, told>>

\* Faulty variant: EPOLLIN is switched off for an empty datagram too.
UdpReadsEmptyDisarms ==
    /\ Handling /\ udp.recving /\ arrived # <<>> /\ Head(arrived) = "empty"
    /\ arrived' = Tail(arrived) /\ loop' = "wait" /\ interest' = "idle"
    /\ UNCHANGED <<udp, modFailed, told>>

\* recvfrom returns 0: the datagram is gone, the request stays.
UdpReadsEmpty ==
    /\ Handling /\ udp.recving /\ arrived # <<>> /\ Head(arrived) = "empty"
    /\ arrived' = Tail(arrived) /\ loop' = "wait"
    /\ UNCHANGED <<udp, interest, modFailed, told>>

\* When EPOLLMod fails the datagram has been read and OnRecvFrom is not called.
UdpReads ==
    /\ Handling /\ udp.recving /\ arrived # <<>> /\ Head(arrived) = "content"
    /\ arrived' = Tail(arrived)
    /\ udp' = [udp EXCEPT !.recving = FALSE, !.events = FALSE]
    /\ \/ interest' = "idle" /\ loop' = "callback" /\ UNCHANGED modFailed
       \/ modFailed' = TRUE /\ loop' = "wait" /\ UNCHANGED interest
    /\ UNCHANGED told

UdpCallbackReturns ==
    /\ loop = "callback" /\ loop' = "wait"
    /\ UNCHANGED <<udp, interest, arrived, modFailed, told>>

\* RunOnce reads the register of a socket that was deleted in the batch.
UdpReadFreed ==
    /\ loop = "event" /\ ~udp.alive
    /\ loop' \in {"wait", "crashed"}
    /\ UNCHANGED <<udp, interest, arrived, modFailed, told>>

UdpNext ==
    \/ Arrives
    \/ UdpOpen \/ UdpRecv \/ UdpDestroy
    \/ UdpWait \/ UdpIgnores \/ UdpReadsEmpty \/ UdpReads \/ UdpCallbackReturns \/ UdpReadFreed

\* RunOnce is called for ever, and recvfrom does not fail for ever.
UdpFairness ==
    /\ WF_udpVars(UdpWait) /\ WF_udpVars(UdpCallbackReturns)
    /\ SF_udpVars(UdpReads) /\ SF_udpVars(UdpReadsEmpty)

UdpSpec == UdpInit /\ [][UdpNext]_udpVars /\ UdpFairness

-----------------------------------------------------------------------------
(* Properties *)

\* A datagram with content that waits while a DoRecv has been accepted is
\* answered by OnRecvFrom, however many empty ones are before it; only an
\* EPOLLMod that fails or the end of the socket excuse that
\* (udpsocket.cpp:178, 212, 222).
UdpAnswered ==
    udp.recving /\ told /\ (\E i \in DOMAIN arrived : arrived[i] = "content")
        ~> ~udp.recving \/ ~udp.alive \/ modFailed

\* A socket that epoll knows asks for input exactly while a DoRecv is pending:
\* otherwise a request would starve or the level-triggered loop would spin.
UdpArmed ==
    interest # "none" /\ ~modFailed => (interest = "in" <=> udp.recving)

=============================================================================
