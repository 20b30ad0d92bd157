----------------------------- MODULE IocpSocket -----------------------------
(***************************************************************************)
(* CTcpSocket on a completion port (network/iocp/tcpsocket.cpp): an        *)
(* operation is handed to the kernel, its completion comes back through    *)
(* the port, and a socket that is closed must wait for the completions     *)
(* still to come before OnClose, since the kernel writes into the object.  *)
(*                                                                         *)
(* Everything but the kernel runs on the loop thread: RunOnce takes one    *)
(* packet off the port, runs the timers with that packet in hand, then the *)
(* packet's handler.  In a callback of either the user calls any socket    *)
(* any number of times.  A request that fails at once changes nothing but  *)
(* its result and is left out.                                             *)
(***************************************************************************)
EXTENDS Naturals, Sequences, FiniteSets

CONSTANTS Accepted,   \* sockets made by CTcpAccept (m_nNeedDelete)
          Connected   \* sockets made by the user for DoConnect

ASSUME SocksAssumption == Accepted \cap Connected = {}

Socks == Accepted \cup Connected
Kinds == {"recv", "send", "connect"}

VARIABLES
    m_nLinkStatus,
    m_socket,       \* "none", "open" or, after closesocket, "closed"
    busy,           \* m_isRecving, m_isSending, m_isConnecting
    alive,          \* the object is not deleted
    kernel,         \* operations the kernel has not completed
    port,           \* the queue of the completion port
    hand,           \* the packet RunOnce has taken: none or one
    place,          \* RunOnce waits, runs timers or a socket's callback
    told,           \* history: what the callbacks have told the user
    late            \* history: an operation succeeded after the close

sockVars == <<m_nLinkStatus, m_socket, busy, alive>>
vars == <<sockVars, kernel, port, hand, place, told, late>>

Init ==
    /\ m_nLinkStatus = [s \in Socks |-> IF s \in Accepted THEN "ESTABLISHED"
                                        ELSE "UNINITIALIZE"]
    /\ m_socket = [s \in Socks |-> IF s \in Accepted THEN "open" ELSE "none"]
    /\ busy = [s \in Socks |-> {}]
    /\ alive = [s \in Socks |-> TRUE]
    /\ kernel = [s \in Socks |-> {}]
    /\ port = <<>> /\ hand = <<>>
    /\ place = "wait"
    /\ told = [s \in Socks |-> "new"]
    /\ late = [s \in Socks |-> FALSE]

Packet(s, kind, result) == [sock |-> s, kind |-> kind, result |-> result]

-----------------------------------------------------------------------------
\* The kernel (external): an operation succeeds, finds the end of the stream
\* or fails; it fails once its socket is closed.  What is queued stays queued.
Complete(s, kind) ==
    /\ kind \in kernel[s]
    /\ kernel' = [kernel EXCEPT ![s] = @ \ {kind}]
    /\ \E result \in {"ok", "end", "failed"} :
        /\ m_socket[s] # "open" => result = "failed"
        /\ result = "end" => kind = "recv"
        /\ port' = Append(port, Packet(s, kind, result))
    /\ UNCHANGED <<sockVars, hand, place, told, late>>

-----------------------------------------------------------------------------
\* Closing

Status(s, status) == m_nLinkStatus' = [m_nLinkStatus EXCEPT ![s] = status]

\* closesocket
Release(s) ==
    m_socket' = [m_socket EXCEPT ![s] = IF @ = "open" THEN "closed" ELSE @]

\* PostMsg(PCK_SOCKET_CLOSE)
PostClear(s) ==
    /\ Status(s, "WAITCLEAR")
    /\ port' = Append(port, Packet(s, "close", "ok"))

\* Faulty variant: only the receive is waited for.
CloseImlpForgetsSend(s, b) ==
    \/ /\ m_nLinkStatus[s] \in {"ESTABLISHED", "WAITCLOSE"}
       /\ Release(s)
       /\ IF "recv" \notin b
          THEN PostClear(s)
          ELSE Status(s, "WAITCLOSE") /\ UNCHANGED port
    \/ /\ m_nLinkStatus[s] \notin {"ESTABLISHED", "WAITCLOSE"}
       /\ UNCHANGED <<m_nLinkStatus, m_socket, port>>

\* CloseImlp, with the operations b still under way: closesocket the first
\* time, and OnClose is posted when nothing is under way any more.
CloseImlp(s, b) ==
    \/ /\ m_nLinkStatus[s] \in {"ESTABLISHED", "WAITCLOSE"}
       /\ IF m_nLinkStatus[s] = "ESTABLISHED" THEN Release(s)
                                              ELSE UNCHANGED m_socket
       /\ IF b \cap {"recv", "send"} = {}
          THEN PostClear(s)
          ELSE Status(s, "WAITCLOSE") /\ UNCHANGED port
    \/ /\ m_nLinkStatus[s] \notin {"ESTABLISHED", "WAITCLOSE"}
       /\ UNCHANGED <<m_nLinkStatus, m_socket, port>>

-----------------------------------------------------------------------------
\* What the user may call, in OnTimer or in a callback of a socket: any
\* socket that is not deleted, initialised once.

Calling == place \in {"timers", "callback"}

\* Initialize makes a handle where there is none, binds it to an address and
\* to the port; the second handle is kept when its address cannot be bound.
Initialize(s) ==
    /\ Calling /\ alive[s]
    /\ \/ told[s] = "new"
       \/ s \in Connected /\ told[s] \in {"failed", "closed"}
    /\ \/ /\ m_socket[s] # "closed"
          /\ m_socket' = [m_socket EXCEPT ![s] = "open"]
          /\ told' = [told EXCEPT ![s] = "usable"]
       \/ /\ m_socket' = [m_socket EXCEPT ![s] = "none"]
          /\ told' = [told EXCEPT ![s] = "failed"]
       \/ /\ m_socket[s] = "none"
          /\ m_socket' = [m_socket EXCEPT ![s] = "open"]
          /\ told' = [told EXCEPT ![s] = "failed"]
    /\ late' = [late EXCEPT ![s] = FALSE]
    /\ UNCHANGED <<m_nLinkStatus, busy, alive, kernel, port, hand, place>>

Begin(s, kind) ==
    /\ busy' = [busy EXCEPT ![s] = @ \cup {kind}]
    /\ kernel' = [kernel EXCEPT ![s] = @ \cup {kind}]
    /\ UNCHANGED <<m_nLinkStatus, m_socket, alive, port, hand, place, told, late>>

DoConnect(s) ==
    /\ Calling /\ alive[s] /\ told[s] = "usable"
    /\ m_nLinkStatus[s] = "UNINITIALIZE" /\ "connect" \notin busy[s]
    /\ m_socket[s] = "open"
    /\ Begin(s, "connect")

\* Faulty variant: a request is made although one of its kind is under way.
RequestTwice(s, kind) ==
    /\ Calling /\ alive[s] /\ told[s] = "usable"
    /\ m_nLinkStatus[s] = "ESTABLISHED"
    /\ m_socket[s] = "open"
    /\ Begin(s, kind)

\* DoSend and DoRecv: one of each at a time, while the link is established.
Request(s, kind) ==
    /\ Calling /\ alive[s] /\ told[s] = "usable"
    /\ m_nLinkStatus[s] = "ESTABLISHED" /\ kind \notin busy[s]
    /\ m_socket[s] = "open"
    /\ Begin(s, kind)

Close(s) ==
    /\ Calling /\ alive[s] /\ told[s] # "new"
    /\ m_nLinkStatus[s] = "ESTABLISHED"
    /\ CloseImlp(s, busy[s])
    /\ UNCHANGED <<busy, alive, kernel, hand, place, told, late>>

\* Close of an accepted socket that was not initialised: there is no IOServer to
\* post OnClose to, CloseImlp lets the socket go itself (tcpsocket.cpp:403).
CloseUnbound(s) ==
    /\ Calling /\ alive[s] /\ told[s] = "new"
    /\ m_nLinkStatus[s] = "ESTABLISHED"
    /\ Status(s, "UNINITIALIZE")
    /\ m_socket' = [m_socket EXCEPT ![s] = "none"]
    /\ alive' = [alive EXCEPT ![s] = s \in Connected]
    /\ UNCHANGED <<busy, kernel, port, hand, place, told, late>>

UserCall == \E s \in Socks :
    \/ Initialize(s) \/ DoConnect(s) \/ Close(s) \/ CloseUnbound(s)
    \/ \E kind \in {"recv", "send"} : Request(s, kind)

-----------------------------------------------------------------------------
\* RunOnce

\* GetQueuedCompletionStatus returns a packet, or nothing after its delay;
\* CheckTimer follows either way.
Dequeue ==
    /\ place = "wait"
    /\ place' = "timers"
    /\ IF port = <<>> THEN UNCHANGED <<port, hand>>
       ELSE hand' = <<Head(port)>> /\ port' = Tail(port)
    /\ UNCHANGED <<sockVars, kernel, told, late>>

TimeOut ==
    /\ place = "timers" /\ hand = <<>>
    /\ place' = "wait"
    /\ UNCHANGED <<sockVars, kernel, port, hand, told, late>>

\* The packet in hand is of one of these kinds and results.
Handles(s, kinds, results) ==
    /\ place = "timers" /\ hand # <<>>
    /\ hand[1].sock = s /\ hand[1].kind \in kinds /\ hand[1].result \in results

Handled(where) == place' = where /\ hand' = <<>>

Finished(s, kind) == busy' = [busy EXCEPT ![s] = @ \ {kind}]

Connects(s) ==
    /\ Handles(s, {"connect"}, {"ok", "failed"})
    /\ Finished(s, "connect")
    /\ IF hand[1].result = "ok"
       THEN Status(s, "ESTABLISHED") /\ UNCHANGED <<m_socket, told>>
       ELSE /\ m_socket' = [m_socket EXCEPT ![s] = "none"]
            /\ told' = [told EXCEPT ![s] = "failed"]
            /\ UNCHANGED m_nLinkStatus
    /\ Handled("callback")
    /\ UNCHANGED <<alive, kernel, port, late>>

\* OnRecv or OnSend, whatever the link status is by now.
Succeeds(s) ==
    /\ Handles(s, {"recv", "send"}, {"ok"})
    /\ Finished(s, hand[1].kind)
    /\ late' = [late EXCEPT ![s] = @ \/ m_nLinkStatus[s] = "WAITCLOSE"]
    /\ Handled("callback")
    /\ UNCHANGED <<m_nLinkStatus, m_socket, alive, kernel, port, told>>

\* Faulty variant: a socket already closed does not count its completions.
FailsOnce(s) ==
    /\ Handles(s, {"recv", "send"}, {"end", "failed"})
    /\ Finished(s, hand[1].kind)
    /\ IF m_nLinkStatus[s] = "ESTABLISHED"
       THEN CloseImlp(s, busy[s] \ {hand[1].kind})
       ELSE UNCHANGED <<m_nLinkStatus, m_socket, port>>
    /\ Handled("wait")
    /\ UNCHANGED <<alive, kernel, told, late>>

\* The end of the stream or a failure: the socket closes, without a callback.
Fails(s) ==
    /\ Handles(s, {"recv", "send"}, {"end", "failed"})
    /\ Finished(s, hand[1].kind)
    /\ CloseImlp(s, busy[s] \ {hand[1].kind})
    /\ Handled("wait")
    /\ UNCHANGED <<alive, kernel, told, late>>

\* OnClear calls OnClose; once that returns ...
OnClear(s) ==
    /\ Handles(s, {"close"}, {"ok"})
    /\ told' = [told EXCEPT ![s] = "closed"]
    /\ place' = "callback"
    /\ UNCHANGED <<sockVars, kernel, port, hand, late>>

\* ... it forgets the handle and deletes an accepted socket.
Cleared ==
    /\ place = "callback" /\ hand # <<>>
    /\ LET s == hand[1].sock IN
        /\ Status(s, "UNINITIALIZE")
        /\ m_socket' = [m_socket EXCEPT ![s] = "none"]
        /\ alive' = [alive EXCEPT ![s] = s \in Connected]
    /\ Handled("wait")
    /\ UNCHANGED <<busy, kernel, port, told, late>>

CallbackReturns ==
    /\ place = "callback" /\ hand = <<>>
    /\ place' = "wait"
    /\ UNCHANGED <<sockVars, kernel, port, hand, told, late>>

RunOnce ==
    \/ Dequeue \/ TimeOut \/ Cleared \/ CallbackReturns
    \/ \E s \in Socks : Connects(s) \/ Succeeds(s) \/ Fails(s) \/ OnClear(s)

Kernel == \E s \in Socks, kind \in Kinds : Complete(s, kind)

Next == UserCall \/ RunOnce \/ Kernel

Spec == Init /\ [][Next]_vars

\* The process calls RunOnce for ever and its callbacks return.  Of the kernel
\* only this is asked: the operations of a closed handle complete.
Cancels(s, kind) == m_socket[s] # "open" /\ Complete(s, kind)

FairSpec ==
    /\ Spec /\ WF_vars(RunOnce)
    /\ \A s \in Socks, kind \in Kinds : WF_vars(Cancels(s, kind))

-----------------------------------------------------------------------------
Results == {"ok", "end", "failed"}
Packets == [sock : Socks, kind : Kinds \cup {"close"}, result : Results]

TypeOK ==
    /\ m_nLinkStatus \in
         [Socks -> {"UNINITIALIZE", "ESTABLISHED", "WAITCLOSE", "WAITCLEAR"}]
    /\ m_socket \in [Socks -> {"none", "open", "closed"}]
    /\ busy \in [Socks -> SUBSET Kinds]
    /\ alive \in [Socks -> BOOLEAN]
    /\ kernel \in [Socks -> SUBSET Kinds]
    /\ port \in Seq(Packets)
    /\ hand \in {<<>>} \cup {<<p>> : p \in Packets}
    /\ place \in {"wait", "timers", "callback"}
    /\ place = "wait" => hand = <<>>
    /\ told \in [Socks -> {"new", "usable", "failed", "closed"}]
    /\ late \in [Socks -> BOOLEAN]

\* The packets of s that the loop has still to handle, and how many they are.
Pending(s, kind) ==
    Cardinality({i \in DOMAIN port : port[i].sock = s /\ port[i].kind = kind})
    + Cardinality({i \in DOMAIN hand : hand[i].sock = s /\ hand[i].kind = kind})

\* The three flags tell the truth at every moment: one is set exactly while
\* its operation is with the kernel or its completion waits to be handled,
\* and never for two operations that would share one OVERLAPPED
\* (tcpsocket.cpp:152, 212, 257, 290, 316, 333).
FlagsTrue == \A s \in Socks, kind \in Kinds :
    Pending(s, kind) + (IF kind \in kernel[s] THEN 1 ELSE 0)
        = IF kind \in busy[s] THEN 1 ELSE 0

\* Once OnClose is on its way, and after the object is deleted, nothing else
\* about the socket can arrive, neither a completion (the kernel and RunOnce
\* would use the deleted object) nor a second OnClose, in whatever order the
\* completions came and whenever the user called Close (tcpsocket.cpp:367).
QuietOnceCleared == \A s \in Socks :
    Pending(s, "close") > 0 \/ ~alive[s] =>
        /\ kernel[s] = {}
        /\ \A kind \in Kinds : Pending(s, kind) = 0
        /\ Pending(s, "close") = IF alive[s] THEN 1 ELSE 0

\* A socket that is closed, by the user or by the end of its stream, while an
\* operation is still under way is told closed in the end, unless an operation
\* succeeded after that (tcpsocket.cpp:318, 325, 336, 349).  With no operation
\* under way there is nothing to wait for: its message is posted at once.
ClosedUnlessLate == \A s \in Socks :
    m_nLinkStatus[s] = "WAITCLOSE" ~> (told[s] = "closed" \/ late[s])

\* "Solved: the safe reclamation of resources on closing" (HISTORY:8, in
\* Chinese): every socket that closes is told closed, and so is let go.
Reclaimed == \A s \in Socks :
    m_nLinkStatus[s] = "WAITCLOSE" ~> told[s] = "closed"

=============================================================================
