----------------------------- MODULE TcpSocket -----------------------------
(***************************************************************************)
(* CTcpSocket on epoll (network/epoll/tcpsocket.cpp), inside the loop that *)
(* drives it: the sockets of one CIOServer, the descriptor table and the   *)
(* epoll set of the kernel, the batch of events of one epoll_wait, and the *)
(* close messages that come back through the Post queue (PostQueue shows   *)
(* that this queue is the FIFO channel used here).                         *)
(*                                                                         *)
(* Everything runs on the loop thread, between system calls and callbacks. *)
(* In a callback the user may call the methods of a socket any number of   *)
(* times, also after the library has closed it: the user learns that only  *)
(* from OnClose, which comes later.  DoSend and DoRecv of an established   *)
(* socket may come from any callback (OnTimer of the example client sends, *)
(* OnPost of the server receives).  With CrossCalls FALSE the user keeps   *)
(* to a discipline in the rest: outside its own callbacks a socket gets no *)
(* call that is meant for an open one after its close, and is not closed   *)
(* while the kernel watches it.  The library does not ask for it, so both  *)
(* are run.                                                                *)
(***************************************************************************)
EXTENDS Integers, Sequences, SequencesExt

CONSTANTS Accepted,   \* sockets made by CTcpAccept (m_bNeedDestroy)
          Connected,  \* sockets made by the user for DoConnect
          NoSock,     \* no socket
          MaxFd,      \* bound: descriptors of the process are 1..MaxFd
          CrossCalls  \* every callback makes every call on every socket

ASSUME SocksAssumption ==
    /\ Accepted \cap Connected = {}
    /\ NoSock \notin Accepted \cup Connected
ASSUME BoundAssumption == MaxFd \in Nat \ {0} /\ CrossCalls \in BOOLEAN

Socks == Accepted \cup Connected
Fds   == 1..MaxFd

VARIABLES
    obj,        \* the members of each CTcpSocket
    file,       \* the kernel's descriptors: state of the connection
    interest,   \* the kernel's epoll set: data.ptr and events by descriptor
    m_events,   \* events of this epoll_wait not yet handled
    thread,     \* the REG_THREAD event is among them
    m_msgs,     \* PCK_SOCKET_CLOSE messages in CIOServer::m_msgs
    msgs,       \* the batch that RunOnce dispatches
    lpc,        \* where RunOnce is
    cur,        \* the socket RunOnce is busy with, or NoSock
    flag,       \* OnEPOLLMessage's argument
    ret,        \* where the running callback returns to
    told,       \* history: what the callbacks have told the user
    exposed     \* history: sockets closed or used in a way that leaves events behind

kernelVars == <<file, interest>>
queueVars  == <<m_msgs, msgs>>
batchVars  == <<m_events, thread>>
stackVars  == <<lpc, cur, flag, ret>>
vars == <<obj, kernelVars, queueVars, batchVars, stackVars, told, exposed>>

Flags == {"IN", "OUT", "ERR", "HUP"}
NoReg == [ptr |-> NoSock, events |-> {}]

\* The constructor zeroes the handle: type 0 is REG_ACCEPT, descriptor 0 "none".
NewSocket == [alive |-> TRUE, type |-> "ACCEPT", fd |-> 0, events |-> {},
              recvBuf |-> FALSE, sendBuf |-> FALSE]

Init ==
    /\ obj = [s \in Socks |-> NewSocket]
    /\ file = [f \in Fds |-> "closed"]
    /\ interest = [f \in Fds |-> NoReg]
    /\ m_events = {} /\ thread = FALSE
    /\ m_msgs = <<>> /\ msgs = <<>>
    /\ lpc = "wait" /\ cur = NoSock /\ flag = {} /\ ret = "wait"
    /\ told = [s \in Socks |-> "new"] /\ exposed = {}

-----------------------------------------------------------------------------
(* The kernel (external). *)

Registered(f) == f \in Fds /\ interest[f] /= NoReg
OpenFd(f)     == f \in Fds /\ file[f] /= "closed"
LowestFree(f) == /\ f \in Fds /\ file[f] = "closed"
                 /\ \A g \in Fds : g < f => file[g] /= "closed"

\* What epoll reports of a connection; ERR and HUP need no interest.  A refused
\* connect is shut down both ways and so is writable as well; "failed" is the
\* failure without OUT that OnEPOLLMessage is also prepared for.
Ready(f) ==
    CASE file[f] = "quiet"                -> {"OUT"}
      [] file[f] \in {"data", "eof"}      -> {"IN", "OUT"}
      [] file[f] \in {"reset", "refused"} -> Flags
      [] file[f] = "failed"               -> {"ERR", "HUP"}
      [] OTHER                            -> {}
Reported(f) == Ready(f) \cap (interest[f].events \cup {"ERR", "HUP"})

\* The peer and the network: a connection is made or refused, data arrive, the
\* peer closes or resets.
Network ==
    /\ \E f \in Fds, to \in {"quiet", "data", "eof", "reset", "refused", "failed"} :
        /\ \/ file[f] = "connecting" /\ to \in {"quiet", "refused", "failed"}
           \/ file[f] = "quiet" /\ to \in {"data", "eof", "reset"}
           \/ file[f] = "data" /\ to = "reset"
           \/ file[f] = "eof" /\ to = "reset"
        /\ file' = [file EXCEPT ![f] = to]
    /\ UNCHANGED <<obj, interest, queueVars, batchVars, stackVars, told, exposed>>

RecvFails(f) == ~OpenFd(f) \/ file[f] \in {"eof", "reset", "refused"}
SendFails(f) == ~OpenFd(f) \/ file[f] \in {"reset", "refused"}

-----------------------------------------------------------------------------
(* CTcpSocket::Close, called by the user and by the other methods. *)

\* Faulty variant: a socket that is closed already is told closed once more.
CloseAgain(s, o) ==
    /\ obj' = [obj EXCEPT ![s] = IF o.type = "ESTABLISHED" THEN [o EXCEPT !.type = "INVALIDE"] ELSE o]
    /\ IF o.type = "ESTABLISHED"
       THEN /\ file' = [file EXCEPT ![o.fd] = "closed"]
            /\ interest' = [interest EXCEPT ![o.fd] = NoReg]
       ELSE UNCHANGED kernelVars
    /\ m_msgs' = IF o.type \in {"ESTABLISHED", "INVALIDE"} THEN Append(m_msgs, s) ELSE m_msgs

\* Faulty variant: the descriptor is left to the destructor.
CloseKeepsDescriptor(s, o) ==
    IF o.type = "ESTABLISHED"
    THEN /\ obj' = [obj EXCEPT ![s] = [o EXCEPT !.type = "INVALIDE"]]
         /\ m_msgs' = Append(m_msgs, s)
         /\ UNCHANGED kernelVars
    ELSE obj' = [obj EXCEPT ![s] = o] /\ UNCHANGED <<kernelVars, m_msgs>>

\* Faulty variant: no message when a buffer still waits.
CloseSilent(s, o) ==
    IF o.type = "ESTABLISHED"
    THEN /\ obj' = [obj EXCEPT ![s] = [o EXCEPT !.type = "INVALIDE"]]
         /\ file' = [file EXCEPT ![o.fd] = "closed"]
         /\ interest' = [interest EXCEPT ![o.fd] = NoReg]
         /\ m_msgs' = IF o.sendBuf THEN m_msgs ELSE Append(m_msgs, s)
    ELSE obj' = [obj EXCEPT ![s] = o] /\ UNCHANGED <<kernelVars, m_msgs>>

\* Only an established socket closes: it leaves the epoll set, its descriptor
\* is closed but stays in _fd, and OnClose is left to a message.
\* o holds the members of s at the call.
CloseWith(s, o) ==
    IF o.type = "ESTABLISHED"
    THEN /\ obj' = [obj EXCEPT ![s] = [o EXCEPT !.type = "INVALIDE"]]
         /\ file' = [file EXCEPT ![o.fd] = "closed"]
         /\ interest' = [interest EXCEPT ![o.fd] = NoReg]
         /\ m_msgs' = Append(m_msgs, s)
    ELSE /\ obj' = [obj EXCEPT ![s] = o]
         /\ UNCHANGED <<kernelVars, m_msgs>>

-----------------------------------------------------------------------------
(* What the user may call, from a callback. *)

\* The user knows of the connection and was not told of its end.
MayUse(s) == lpc = "callback" /\ told[s] \in {"open", "unwatched"}

\* Faulty variant: EPOLLMod is left out when another request is pending.
RequestUnarmed(s, buf, event) ==
    /\ MayUse(s) /\ (s = cur \/ obj[s].type = "ESTABLISHED" \/ CrossCalls)
    /\ ~obj[s][buf] /\ event \notin obj[s].events
    /\ LET more  == IF obj[s].events = {} THEN {event} ELSE {}
           asked == [obj[s] EXCEPT ![buf] = TRUE, !.events = @ \cup more] IN
        IF Registered(obj[s].fd)
        THEN /\ obj' = [obj EXCEPT ![s] = asked]
             /\ interest' = [interest EXCEPT ![obj[s].fd] =
                                [ptr |-> s, events |-> asked.events]]
             /\ UNCHANGED <<file, m_msgs>>
        ELSE CloseWith(s, asked)
    /\ UNCHANGED <<msgs, batchVars, stackVars, told, exposed>>

\* DoSend and DoRecv: refuse a second request; else remember the buffer and
\* switch the interest on.  A descriptor that is not in the epoll set makes
\* EPOLLMod fail, and the socket closes.  After a Close the number in _fd may
\* stand for the descriptor of another: EPOLLMod then takes it over.
Request(s, buf, event) ==
    /\ MayUse(s) /\ (s = cur \/ obj[s].type = "ESTABLISHED" \/ CrossCalls)
    /\ ~obj[s][buf] /\ event \notin obj[s].events
    /\ LET asked == [obj[s] EXCEPT ![buf] = TRUE, !.events = @ \cup {event}] IN
        IF Registered(obj[s].fd)
        THEN /\ obj' = [obj EXCEPT ![s] = asked]
             /\ interest' = [interest EXCEPT ![obj[s].fd] =
                                [ptr |-> s, events |-> asked.events]]
             /\ UNCHANGED <<file, m_msgs>>
        ELSE CloseWith(s, asked)
    /\ exposed' = IF Registered(obj[s].fd) /\ obj[s].type = "INVALIDE"
                  THEN exposed \cup {s} ELSE exposed
    /\ UNCHANGED <<msgs, batchVars, stackVars, told>>

DoSend(s) == Request(s, "sendBuf", "OUT")
DoRecv(s) == Request(s, "recvBuf", "IN")

\* Close by the user.  An event of the batch that is not handled yet stays.
Close(s) ==
    /\ MayUse(s) /\ (s = cur \/ told[s] = "unwatched" \/ CrossCalls)
    /\ CloseWith(s, obj[s])
    /\ exposed' = IF \E e \in m_events : e.ptr = s THEN exposed \cup {s} ELSE exposed
    /\ UNCHANGED <<msgs, batchVars, stackVars, told>>

\* Initialize of an accepted socket puts its descriptor into the epoll set.
\* Where that fails the user may go on, as CProcess::OnPost does.
Initialize(s) ==
    /\ lpc = "callback" /\ cur \in {s, NoSock}
    /\ told[s] = "accepted"
    /\ obj' = [obj EXCEPT ![s].events = {}]
    /\ \/ /\ interest' = [interest EXCEPT ![obj[s].fd] = [ptr |-> s, events |-> {}]]
          /\ told' = [told EXCEPT ![s] = "open"]
       \/ /\ told' = [told EXCEPT ![s] = "unwatched"]
          /\ UNCHANGED interest
    /\ UNCHANGED <<file, queueVars, batchVars, stackVars, exposed>>

\* DoConnect, from OnTimer or OnPost, or again from OnConnect(false).
MayConnect(s) ==
    /\ lpc = "callback" /\ (cur \in {s, NoSock} \/ CrossCalls)
    /\ s \in Connected /\ told[s] \in {"new", "failed"}
    /\ obj[s].fd = 0

DoConnect(s) ==
    /\ MayConnect(s)
    /\ \E f \in Fds, made \in {"connecting", "quiet"} :
        /\ LowestFree(f)
        /\ file' = [file EXCEPT ![f] = made]
        /\ interest' = [interest EXCEPT ![f] = [ptr |-> s, events |-> {"OUT"}]]
        /\ obj' = [obj EXCEPT ![s].fd = f, ![s].type = "CONNECT", ![s].events = {"OUT"}]
    /\ told' = [told EXCEPT ![s] = "connecting"]
    /\ UNCHANGED <<queueVars, batchVars, stackVars, exposed>>

\* connect() fails at once, or socket() finds no descriptor: DoConnect returns
\* false and leaves what it has set.  _fd is no longer 0, so there is no retry.
DoConnectFails(s) ==
    /\ MayConnect(s)
    /\ \/ \E f \in Fds :
            /\ LowestFree(f)
            /\ file' = [file EXCEPT ![f] = "refused"]
            /\ obj' = [obj EXCEPT ![s].fd = f, ![s].type = "CONNECT", ![s].events = {"OUT"}]
       \/ /\ \A f \in Fds : OpenFd(f)
          /\ obj' = [obj EXCEPT ![s].fd = -1]
          /\ UNCHANGED file
    /\ told' = [told EXCEPT ![s] = "stuck"]
    /\ UNCHANGED <<interest, queueVars, batchVars, stackVars, exposed>>

UserCall ==
    \E s \in Socks : \/ DoSend(s) \/ DoRecv(s) \/ Close(s)
                     \/ Initialize(s) \/ DoConnect(s) \/ DoConnectFails(s)

-----------------------------------------------------------------------------
(* CIOServer::RunOnce and CTcpSocket::OnEPOLLMessage *)

CallBack(s, place) == lpc' = "callback" /\ cur' = s /\ ret' = place

\* epoll_wait reports every ready descriptor; the socketpair of PostMsg is ready
\* when m_msgs is not empty (PostQueue), or for a Post of another thread.
EpollWait ==
    /\ lpc = "wait"
    /\ m_events' = {[ptr |-> interest[f].ptr, flag |-> Reported(f)] :
                      f \in {g \in Fds : Registered(g) /\ Reported(g) /= {}}}
    /\ thread' \in {TRUE, m_msgs /= <<>>}
    /\ lpc' = "timers"
    /\ UNCHANGED <<obj, kernelVars, queueVars, cur, flag, ret, told, exposed>>

\* CheckTimer: an OnTimer callback, or none.
OnTimer ==
    /\ lpc = "timers"
    /\ CallBack(NoSock, "events")
    /\ UNCHANGED <<obj, kernelVars, queueVars, batchVars, flag, told, exposed>>

NoTimer ==
    /\ lpc = "timers"
    /\ lpc' = "events"
    /\ UNCHANGED <<obj, kernelVars, queueVars, batchVars, cur, flag, ret, told, exposed>>

\* The events of a batch come in any order.  RunOnce reads the type of the
\* socket through the pointer of the event when it gets there.
TakeEvent(e, types) ==
    /\ lpc = "events" /\ e \in m_events
    /\ obj[e.ptr].alive /\ obj[e.ptr].type \in types
    /\ m_events' = m_events \ {e}

\* REG_INVALIDE: the socket was closed earlier in this batch.
SkipEvent ==
    /\ \E e \in m_events : TakeEvent(e, {"INVALIDE"})
    /\ UNCHANGED <<obj, kernelVars, queueVars, thread, stackVars, told, exposed>>

\* The pointer of an event may point to a socket that was deleted earlier in
\* this batch, in memory that is undefined: mostly it still says REG_INVALIDE.
ReadFreed ==
    /\ lpc = "events"
    /\ \E e \in m_events : ~obj[e.ptr].alive /\ m_events' = m_events \ {e}
    /\ lpc' \in {"events", "crashed"}
    /\ UNCHANGED <<obj, kernelVars, queueVars, thread, cur, flag, ret, told, exposed>>

\* REG_CONNECT and writable: connected.  (The MOD of a descriptor that is in
\* the epoll set does not fail.)
ConnectEvent ==
    /\ \E e \in m_events :
        LET s == e.ptr IN
        /\ TakeEvent(e, {"CONNECT"}) /\ "OUT" \in e.flag
        /\ obj' = [obj EXCEPT ![s].events = {}, ![s].type = "ESTABLISHED"]
        /\ interest' = [interest EXCEPT ![obj[s].fd] = [ptr |-> s, events |-> {}]]
        /\ told' = [told EXCEPT ![s] = "open"]
        /\ CallBack(s, "events")
    /\ UNCHANGED <<file, queueVars, thread, flag, exposed>>

\* REG_CONNECT and not writable: the connect has failed, the socket is as before
\* DoConnect and OnConnect(false) may call it again.
ConnectFailed ==
    /\ \E e \in m_events :
        LET s == e.ptr IN
        /\ TakeEvent(e, {"CONNECT"}) /\ "OUT" \notin e.flag
        /\ interest' = [interest EXCEPT ![obj[s].fd] = NoReg]
        /\ file' = [file EXCEPT ![obj[s].fd] = "closed"]
        /\ obj' = [obj EXCEPT ![s].fd = 0]
        /\ told' = [told EXCEPT ![s] = "failed"]
        /\ CallBack(s, "events")
    /\ UNCHANGED <<queueVars, thread, flag, exposed>>

\* REG_ESTABLISHED with HUP or ERR: closed.
FailedEvent ==
    /\ \E e \in m_events :
        /\ TakeEvent(e, {"ESTABLISHED"}) /\ e.flag \cap {"HUP", "ERR"} /= {}
        /\ CloseWith(e.ptr, obj[e.ptr])
    /\ UNCHANGED <<msgs, thread, stackVars, told, exposed>>

DataEvent ==
    /\ \E e \in m_events :
        /\ TakeEvent(e, {"ESTABLISHED"}) /\ e.flag \cap {"HUP", "ERR"} = {}
        /\ cur' = e.ptr /\ flag' = e.flag
    /\ lpc' = "in"
    /\ UNCHANGED <<obj, kernelVars, queueVars, thread, ret, told, exposed>>

\* The EPOLLIN branch: end of stream or an error closes; data clear the buffer
\* and the interest and go to OnRecv; otherwise on to the EPOLLOUT branch.
HasIn == "IN" \in flag /\ obj[cur].recvBuf

RecvCloses ==
    /\ lpc = "in" /\ HasIn /\ RecvFails(obj[cur].fd)
    /\ CloseWith(cur, obj[cur])
    /\ lpc' = "events"
    /\ UNCHANGED <<msgs, batchVars, cur, flag, ret, told, exposed>>

RecvData ==
    LET f == obj[cur].fd
        rest == obj[cur].events \ {"IN"} IN
    /\ lpc = "in" /\ HasIn /\ OpenFd(f) /\ file[f] = "data"
    /\ \E left \in {"data", "quiet"} : file' = [file EXCEPT ![f] = left]
    /\ obj' = [obj EXCEPT ![cur].recvBuf = FALSE, ![cur].events = rest]
    /\ interest' = [interest EXCEPT ![f] = [ptr |-> cur, events |-> rest]]
    /\ CallBack(cur, "out")
    /\ UNCHANGED <<queueVars, batchVars, flag, told, exposed>>

RecvNothing ==
    /\ lpc = "in"
    /\ HasIn => /\ ~RecvFails(obj[cur].fd)
                /\ file[obj[cur].fd] /= "data"
    /\ lpc' = "out"
    /\ UNCHANGED <<obj, kernelVars, queueVars, batchVars, cur, flag, ret, told, exposed>>

\* The EPOLLOUT branch, with the flags of before OnRecv.
HasOut == "OUT" \in flag /\ obj[cur].sendBuf

SendCloses ==
    /\ lpc = "out" /\ HasOut /\ SendFails(obj[cur].fd)
    /\ CloseWith(cur, obj[cur])
    /\ lpc' = "events"
    /\ UNCHANGED <<msgs, batchVars, cur, flag, ret, told, exposed>>

\* Faulty variant: the member is cleared, EPOLLMod is left out.
SendDataNoMod ==
    LET f == obj[cur].fd IN
    /\ lpc = "out" /\ HasOut /\ OpenFd(f) /\ file[f] \in {"quiet", "data", "eof"}
    /\ obj' = [obj EXCEPT ![cur].sendBuf = FALSE, ![cur].events = @ \ {"OUT"}]
    /\ CallBack(cur, "events")
    /\ UNCHANGED <<kernelVars, queueVars, batchVars, flag, told, exposed>>

SendData ==
    LET f == obj[cur].fd
        rest == obj[cur].events \ {"OUT"} IN
    /\ lpc = "out" /\ HasOut /\ OpenFd(f) /\ file[f] \in {"quiet", "data", "eof"}
    /\ obj' = [obj EXCEPT ![cur].sendBuf = FALSE, ![cur].events = rest]
    /\ interest' = [interest EXCEPT ![f] = [ptr |-> cur, events |-> rest]]
    /\ exposed' = IF obj[cur].type = "INVALIDE" THEN exposed \cup {cur} ELSE exposed
    /\ CallBack(cur, "events")
    /\ UNCHANGED <<file, queueVars, batchVars, flag, told>>

SendNothing ==
    /\ lpc = "out"
    /\ HasOut => ~SendFails(obj[cur].fd) /\ file[obj[cur].fd] = "connecting"
    /\ lpc' = "events"
    /\ UNCHANGED <<obj, kernelVars, queueVars, batchVars, cur, flag, ret, told, exposed>>

\* CTcpAccept::OnEPOLLMessage: a new socket is established at once, and enters
\* the epoll set when the user calls Initialize.
Accept ==
    /\ lpc = "events"
    /\ \E s \in Accepted, f \in Fds :
        /\ told[s] = "new" /\ LowestFree(f)
        /\ file' = [file EXCEPT ![f] = "quiet"]
        /\ obj' = [obj EXCEPT ![s].fd = f, ![s].type = "ESTABLISHED"]
        /\ told' = [told EXCEPT ![s] = "accepted"]
        /\ CallBack(s, "events")
    /\ UNCHANGED <<interest, queueVars, batchVars, flag, exposed>>

\* REG_THREAD: swap m_msgs, then dispatch.  A message of another thread (NoSock)
\* may be among the close messages.
ThreadEvent ==
    /\ lpc = "events" /\ thread
    /\ thread' = FALSE
    /\ msgs' \in {m_msgs} \cup {InsertAt(m_msgs, i, NoSock) : i \in 1..(Len(m_msgs) + 1)}
    /\ m_msgs' = <<>>
    /\ lpc' = "dispatch"
    /\ UNCHANGED <<obj, kernelVars, m_events, cur, flag, ret, told, exposed>>

\* PCK_USER_DATA
OnPost ==
    /\ lpc = "dispatch" /\ msgs /= <<>> /\ Head(msgs) = NoSock
    /\ msgs' = Tail(msgs)
    /\ CallBack(NoSock, "dispatch")
    /\ UNCHANGED <<obj, kernelVars, m_msgs, batchVars, flag, told, exposed>>

\* PCK_SOCKET_CLOSE: OnPostClose calls OnClose ...
OnPostClose ==
    /\ lpc = "dispatch" /\ msgs /= <<>> /\ Head(msgs) /= NoSock
    /\ LET s == Head(msgs) IN
        /\ told' = [told EXCEPT ![s] = "closed"]
        /\ CallBack(s, "destroy")
    /\ msgs' = Tail(msgs)
    /\ UNCHANGED <<obj, kernelVars, m_msgs, batchVars, flag, exposed>>

\* ... and then deletes an accepted socket.
Destroy ==
    /\ lpc = "destroy"
    /\ obj' = [obj EXCEPT ![cur].alive = cur \notin Accepted]
    /\ lpc' = "dispatch"
    /\ UNCHANGED <<kernelVars, queueVars, batchVars, cur, flag, ret, told, exposed>>

DispatchDone ==
    /\ lpc = "dispatch" /\ msgs = <<>>
    /\ lpc' = "events"
    /\ UNCHANGED <<obj, kernelVars, queueVars, batchVars, cur, flag, ret, told, exposed>>

CallbackReturns ==
    /\ lpc = "callback"
    /\ lpc' = ret
    /\ cur' = IF ret \in {"out", "destroy"} THEN cur ELSE NoSock
    /\ UNCHANGED <<obj, kernelVars, queueVars, batchVars, flag, ret, told, exposed>>

RunOnceReturns ==
    /\ lpc = "events" /\ m_events = {} /\ ~thread
    /\ lpc' = "wait" /\ cur' = NoSock /\ flag' = {} /\ ret' = "wait"
    /\ UNCHANGED <<obj, kernelVars, queueVars, batchVars, told, exposed>>

RunOnce ==
    \/ EpollWait \/ OnTimer \/ NoTimer
    \/ SkipEvent \/ ReadFreed \/ ConnectEvent \/ ConnectFailed \/ FailedEvent \/ DataEvent
    \/ RecvCloses \/ RecvData \/ RecvNothing
    \/ SendCloses \/ SendData \/ SendNothing
    \/ Accept \/ ThreadEvent \/ OnPost \/ OnPostClose \/ Destroy \/ DispatchDone
    \/ CallbackReturns \/ RunOnceReturns

Next == RunOnce \/ UserCall \/ Network

\* The thread of an IOServer calls RunOnce for ever and callbacks return
\* (example/zsummer_server/Process.cpp:67); nothing is asked of the network.
Spec == Init /\ [][Next]_vars /\ WF_vars(RunOnce)

-----------------------------------------------------------------------------
(* Properties *)

\* No descriptor is leaked, closed twice or shared: each open one is that of one
\* socket which is connecting or established, and each of these has an open one.
\* (A socket whose DoConnect returned false is such an owner too: it keeps a
\* descriptor that no call gives back.)
Holds(s, f) == /\ obj[s].alive /\ obj[s].fd = f
               /\ obj[s].type \in {"CONNECT", "ESTABLISHED"}
DescriptorsOwned ==
    \A f \in Fds :
        /\ OpenFd(f) <=> \E s \in Socks : Holds(s, f)
        /\ \A s, t \in Socks : Holds(s, f) /\ Holds(t, f) => s = t

\* RunOnce reads its events and messages through pointers.  No message is ever
\* to a socket that OnPostClose has deleted (epoll.cpp:182), whoever calls what.
\* An event may be, in two cases only: the socket was closed by the user while
\* this event of it waited in the batch (241), or it was used after its close
\* when its descriptor number stood for the connection of another socket.
NothingForDeleted ==
    /\ \A e \in m_events : obj[e.ptr].alive \/ e.ptr \in exposed
    /\ \A s \in (ToSet(m_msgs) \cup ToSet(msgs)) \ {NoSock} : obj[s].alive

\* The epoll set agrees with the sockets: a socket in use is registered with
\* its own pointer and its own events, and nothing else is registered (so no
\* socket takes the events of another that got its old descriptor).
RegisteredToOwner ==
    /\ \A s \in Socks, f \in Fds :
        Holds(s, f) /\ told[s] \in {"connecting", "open"}
            => interest[f] = [ptr |-> s, events |-> obj[s].events]
    /\ \A f \in Fds : Registered(f) => Holds(interest[f].ptr, f)

\* An established socket waits for exactly what the user has asked for: a buffer
\* that waits is never left without interest, nor an interest without a buffer
\* (which would wake the loop for ever).
RequestsArmed ==
    \A s \in Socks :
        obj[s].type = "ESTABLISHED" =>
            /\ obj[s].recvBuf <=> "IN" \in obj[s].events
            /\ obj[s].sendBuf <=> "OUT" \in obj[s].events

\* The two together: the kernel watches each socket for what its user waits for.
EpollSetRight == RegisteredToOwner /\ RequestsArmed

\* The promises of SocketLife: a socket that was closed, by whomever and however
\* often, gets no OnRecv, OnSend or OnConnect any more, though the batch may still
\* hold an event of it, and exactly one OnClose (tcpsocket.cpp:299, 353, 371).
Life == INSTANCE SocketLife WITH
    life <- [s \in Socks |-> IF obj[s].type = "INVALIDE" /\ told[s] /= "closed"
                             THEN "closing"
                             ELSE IF told[s] = "unwatched" THEN "open" ELSE told[s]],
    speaking <- IF lpc = "callback" THEN cur ELSE NoSock

ImplementsSocketLife == Life!Spec

\* A connect that has succeeded or failed is answered; data for a pending DoRecv
\* are delivered, room for a pending DoSend is used, or the socket closes.
Readable(s) == /\ obj[s].type = "ESTABLISHED" /\ told[s] = "open"
               /\ obj[s].recvBuf /\ file[obj[s].fd] \in {"data", "eof", "reset"}
Writable(s) == /\ obj[s].type = "ESTABLISHED" /\ told[s] = "open"
               /\ obj[s].sendBuf /\ file[obj[s].fd] /= "connecting"
Unanswered(s) == told[s] = "connecting" /\ file[obj[s].fd] /= "connecting"
Answered ==
    \A s \in Socks :
        /\ []<>~Unanswered(s)
        /\ []<>~Readable(s)
        /\ []<>~Writable(s)

\* OnConnect(true) is only for a connection that was made.  Not true of the
\* code: it looks at EPOLLOUT alone, which the kernel reports of a refused
\* connect as well.
ConnectedIsTrue ==
    [][\A s \in Socks : told[s] = "connecting" /\ told'[s] = "open"
            => file[obj[s].fd] /= "refused"]_vars

=============================================================================
