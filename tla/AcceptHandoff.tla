--------------------------- MODULE AcceptHandoff ---------------------------
(***************************************************************************)
(* Accepted connections of the example server: CTcpAccept                  *)
(* (network/epoll/tcpaccept.cpp) on the loop of CSchedule, which posts     *)
(* every new socket to one of its CProcess loops (Schedule.cpp,            *)
(* Process.cpp), where a CClient serves it until OnClose.                  *)
(*                                                                         *)
(* The queue between the loops is the FIFO channel that PostQueue          *)
(* implements.  A loop of CProcess carries that queue only, TcpSocket and  *)
(* EchoSession show what else happens there.                               *)
(***************************************************************************)
EXTENDS Integers, FiniteSets, Sequences

CONSTANTS Links,     \* connections that peers make
          NProcess   \* CProcess objects that CSchedule::Start starts

ASSUME NProcessAssumption == NProcess \in Nat

Procs == 1..NProcess

VARIABLES
    m_process,      \* the processes that did start
    starting,       \* processes still to start
    m_iCurProcess,
    m_bRunning,
    place,          \* where CSchedule is: Start, RunOnce, done, no thread
    m_accept,       \* the CTcpAccept
    closeMsgs,      \* PCK_ACCEPT_CLOSE messages of CSchedule's loop
    batch,          \* events of this epoll_wait not yet handled
    link,           \* the state of each connection
    msgs,           \* per process: posted sockets and close messages
    owner           \* history: the process a connection was posted to

scheduleVars == <<m_process, starting, m_iCurProcess, m_bRunning, place>>
listenVars == <<m_accept, closeMsgs, batch>>
linkVars == <<link, msgs, owner>>
vars == <<scheduleVars, listenVars, linkVars>>

LinkState == {"away", "backlog", "posted", "served", "closing", "gone"}

Init ==
    /\ m_process = <<>> /\ starting = NProcess /\ m_iCurProcess = 0
    /\ m_bRunning = FALSE /\ place = "start"
    /\ m_accept = "new" /\ closeMsgs = 0 /\ batch = {}
    /\ link = [l \in Links |-> "away"]
    /\ msgs = [p \in Procs |-> <<>>]
    /\ owner = [l \in Links |-> 0]

-----------------------------------------------------------------------------
\* The kernel and the peers (external).

Connect(l) ==
    /\ link[l] = "away"
    /\ link' = [link EXCEPT ![l] =
                    IF m_accept \in {"open", "deaf"} THEN "backlog" ELSE "gone"]
    /\ UNCHANGED <<scheduleVars, listenVars, msgs, owner>>

\* A peer gives up before accept() has returned its connection.
GivesUp(l) ==
    /\ link[l] = "backlog"
    /\ link' = [link EXCEPT ![l] = "gone"]
    /\ UNCHANGED <<scheduleVars, listenVars, msgs, owner>>

Backlog == {l \in Links : link[l] = "backlog"}

-----------------------------------------------------------------------------
\* CSchedule::Start

StartProcess(ok) ==
    /\ place = "start" /\ starting > 0
    /\ starting' = starting - 1
    /\ m_process' = IF ok THEN Append(m_process, NProcess - starting + 1)
                    ELSE m_process
    /\ UNCHANGED <<m_iCurProcess, m_bRunning, place, listenVars, linkVars>>

\* A step of OpenAccept may fail, and Start returns without a thread.  When
\* epoll_ctl is what fails, the descriptor is left open and listens.  Where
\* OpenAccept succeeds, CThread::Start may still make no thread: nobody looks
\* at its answer, and m_bRunning is set by then.
OpenAccept ==
    /\ place = "start" /\ starting = 0
    /\ m_accept' \in {"open", "new", "deaf"}
    /\ m_bRunning' = (m_accept' = "open")
    /\ place' \in IF m_bRunning' THEN {"loop", "no thread"} ELSE {"done"}
    /\ UNCHANGED <<m_process, starting, m_iCurProcess, closeMsgs, batch,
                   linkVars>>

-----------------------------------------------------------------------------
\* The loop of CSchedule

EpollWait ==
    /\ place = "loop" /\ m_bRunning
    /\ batch' = {e \in {"accept", "thread"} :
                    \/ e = "accept" /\ m_accept = "open" /\ Backlog # {}
                    \/ e = "thread" /\ closeMsgs > 0}
    /\ place' = "events"
    /\ UNCHANGED <<m_process, starting, m_iCurProcess, m_bRunning, m_accept,
                   closeMsgs, linkVars>>

LoopEnds ==
    /\ place = "loop" /\ ~m_bRunning
    /\ place' = "done"
    /\ UNCHANGED <<m_process, starting, m_iCurProcess, m_bRunning, listenVars,
                   linkVars>>

BatchEnds ==
    /\ place = "events" /\ batch = {}
    /\ place' = "loop"
    /\ UNCHANGED <<m_process, starting, m_iCurProcess, m_bRunning, listenVars,
                   linkVars>>

Post(p, what, l) == msgs' = [msgs EXCEPT ![p] = Append(@, <<what, l>>)]

\* Faulty variant: the index is wrapped one too late.
OnAcceptPastEnd(l) ==
    IF m_iCurProcess + 1 \in DOMAIN m_process
    THEN /\ link' = [link EXCEPT ![l] = "posted"]
         /\ Post(m_process[m_iCurProcess + 1], "socket", l)
         /\ owner' = [owner EXCEPT ![l] = m_process[m_iCurProcess + 1]]
         /\ m_iCurProcess' = (m_iCurProcess + 1) % (Len(m_process) + 1)
         /\ UNCHANGED place
    ELSE place' = "crashed" /\ UNCHANGED <<m_iCurProcess, linkVars>>

\* OnAccept posts the socket to the process whose turn it is.  Without a
\* process the index is outside the vector and the modulus is zero.
OnAccept(l) ==
    IF m_process = <<>>
    THEN place' = "crashed" /\ UNCHANGED <<m_iCurProcess, linkVars>>
    ELSE LET p == m_process[m_iCurProcess + 1]
         IN  /\ link' = [link EXCEPT ![l] = "posted"]
             /\ Post(p, "socket", l)
             /\ owner' = [owner EXCEPT ![l] = p]
             /\ m_iCurProcess' = (m_iCurProcess + 1) % Len(m_process)
             /\ UNCHANGED place

\* Faulty variant: the listening descriptor is left open and registered.
CloseAcceptLeaves ==
    /\ closeMsgs' = closeMsgs + 1
    /\ UNCHANGED <<m_accept, link>>

\* Close: the descriptor leaves the epoll set and is closed, the kernel resets
\* what waits for it, and OnClose is left to a message.
CloseAccept ==
    /\ m_accept' = "closed"
    /\ closeMsgs' = closeMsgs + 1
    /\ link' = [l \in Links |-> IF l \in Backlog THEN "gone" ELSE link[l]]

\* accept() returns a connection, or EAGAIN when it is gone by now, or any
\* other error (no descriptor left, too), which closes the listener.
AcceptEvent ==
    /\ place = "events" /\ "accept" \in batch
    /\ batch' = batch \ {"accept"}
    /\ \/ /\ \E l \in Backlog : OnAccept(l)
          /\ UNCHANGED <<m_accept, closeMsgs>>
       \/ /\ Backlog = {}
          /\ UNCHANGED <<m_accept, closeMsgs, link, msgs, owner,
                         m_iCurProcess, place>>
       \/ /\ CloseAccept
          /\ UNCHANGED <<msgs, owner, m_iCurProcess, place>>
    /\ UNCHANGED <<m_process, starting, m_bRunning>>

\* OnPostClose: OnClose destroys the listener and stops the loop.
ThreadEvent ==
    /\ place = "events" /\ "thread" \in batch
    /\ batch' = batch \ {"thread"}
    /\ closeMsgs' = 0
    /\ m_accept' = IF m_accept = "destroyed" \/ closeMsgs > 1
                   THEN "destroyed twice" ELSE "destroyed"
    /\ m_bRunning' = FALSE
    /\ UNCHANGED <<m_process, starting, m_iCurProcess, place, linkVars>>

-----------------------------------------------------------------------------
\* The loop of a CProcess

\* Faulty variant: a close message for a socket that is closed already.
CloseLinkTwice(p, l) ==
    /\ owner[l] = p /\ link[l] \in {"served", "closing"}
    /\ Len(msgs[p]) <= Cardinality(Links)
    /\ link' = [link EXCEPT ![l] = "closing"]
    /\ Post(p, "close", l)
    /\ UNCHANGED <<scheduleVars, listenVars, owner>>

\* The CTcpSocket of a CClient closes, for whatever reason.
CloseLink(p, l) ==
    /\ owner[l] = p /\ link[l] = "served"
    /\ link' = [link EXCEPT ![l] = "closing"]
    /\ Post(p, "close", l)
    /\ UNCHANGED <<scheduleVars, listenVars, owner>>

\* Faulty variant: when Initialize fails, nothing closes the socket.
OnPostGivesUp(p) ==
    LET l == Head(msgs[p])[2]
    IN  /\ msgs[p] # <<>> /\ Head(msgs[p])[1] = "socket"
        /\ \/ /\ link' = [link EXCEPT ![l] = "served"]
              /\ msgs' = [msgs EXCEPT ![p] = Tail(@)]
           \/ /\ msgs' = [msgs EXCEPT ![p] = Tail(@)]
              /\ UNCHANGED link
        /\ UNCHANGED <<scheduleVars, listenVars, owner>>

\* OnPost: Initialize puts the socket into the epoll set of this loop and
\* InitSocket asks for the first bytes.  Where the first fails the second
\* does, and its EPOLLMod closes the socket.
OnPost(p) ==
    LET l == Head(msgs[p])[2]
    IN  /\ msgs[p] # <<>> /\ Head(msgs[p])[1] = "socket"
        /\ \/ /\ link' = [link EXCEPT ![l] = "served"]
              /\ msgs' = [msgs EXCEPT ![p] = Tail(@)]
           \/ /\ link' = [link EXCEPT ![l] = "closing"]
              /\ msgs' = [msgs EXCEPT ![p] = Append(Tail(@), <<"close", l>>)]
        /\ UNCHANGED <<scheduleVars, listenVars, owner>>

\* OnClose: the CClient deletes itself, and the CTcpSocket is deleted.
OnClose(p) ==
    /\ msgs[p] # <<>> /\ Head(msgs[p])[1] = "close"
    /\ link' = [link EXCEPT ![Head(msgs[p])[2]] = "gone"]
    /\ msgs' = [msgs EXCEPT ![p] = Tail(@)]
    /\ UNCHANGED <<scheduleVars, listenVars, owner>>

-----------------------------------------------------------------------------
Schedule ==
    \/ (\E ok \in BOOLEAN : StartProcess(ok)) \/ OpenAccept
    \/ EpollWait \/ AcceptEvent \/ ThreadEvent \/ BatchEnds \/ LoopEnds

Process(p) == OnPost(p) \/ OnClose(p)

Next ==
    \/ Schedule
    \/ \E p \in Procs : Process(p)
    \/ \E p \in Procs, l \in Links : CloseLink(p, l)
    \/ \E l \in Links : Connect(l) \/ GivesUp(l)

Spec == Init /\ [][Next]_vars

\* The loops run; nothing is asked of peers or of the life of a connection.
FairSpec == Spec /\ WF_vars(Schedule) /\ \A p \in Procs : WF_vars(Process(p))

-----------------------------------------------------------------------------
\* The types of the variables.
TypeOK ==
    /\ m_process \in Seq(Procs) /\ starting \in 0..NProcess
    /\ m_iCurProcess \in Nat /\ m_bRunning \in BOOLEAN
    /\ place \in {"start", "loop", "events", "done", "no thread", "crashed"}
    /\ m_accept \in {"new", "open", "deaf", "closed", "destroyed"}
    /\ closeMsgs \in 0..1
    /\ batch \subseteq {"accept", "thread"}
    /\ link \in [Links -> LinkState]
    /\ msgs \in [Procs -> Seq({"socket", "close"} \X Links)]
    /\ owner \in [Links -> {0} \cup Procs]

\* The i-th message of a process is for a connection of its own, tells what has
\* happened to it, and is the only one about it.
MessageDue(p, i) ==
    LET l == msgs[p][i][2]
    IN  /\ owner[l] = p
        /\ link[l] = IF msgs[p][i][1] = "socket" THEN "posted" ELSE "closing"
        /\ \A j \in 1..Len(msgs[p]) : msgs[p][j][2] = l => j = i

\* A socket that was posted or has closed is not forgotten: its process will hear
\* of it.
Announced(l) ==
    link[l] \in {"posted", "closing"} =>
        \E p \in Procs : \E i \in 1..Len(msgs[p]) : msgs[p][i][2] = l

\* Only the process a socket was posted to ever hears of it: once, that it is
\* there, and after that once, that it is closed; never of one that is gone
\* (Schedule.cpp:109, tcpsocket.cpp:371).
OneLoopPerSocket ==
    /\ \A p \in Procs : \A i \in 1..Len(msgs[p]) : MessageDue(p, i)
    /\ \A l \in Links : Announced(l)

\* The listener is destroyed once, when no event and no message of it is left
\* and the kernel knows it no more; the loop then ends.
ListenerGone ==
    /\ m_accept # "destroyed twice"
    /\ m_accept = "destroyed" =>
            closeMsgs = 0 /\ batch = {} /\ ~m_bRunning /\ Backlog = {}

\* A connection in the backlog is accepted, refused or given up: it waits in
\* vain only when OpenAccept has failed in epoll_ctl, when the thread of the
\* loop could not be made, or when the loop has crashed because no process
\* could be started.
BacklogServed ==
    \A l \in Links : link[l] = "backlog" ~>
        \/ link[l] # "backlog"
        \/ m_accept = "deaf"
        \/ place = "no thread"
        \/ place = "crashed" /\ m_process = <<>>

\* A socket that was accepted is served by a process or closed by it, also
\* when the loop that accepted it has ended; and a closed one is let go.
HandedOver ==
    \A l \in Links : /\ link[l] = "posted" ~> link[l] \in {"served", "closing"}
                     /\ link[l] = "closing" ~> link[l] = "gone"
=============================================================================
