---------------------------- MODULE AcceptProofs ----------------------------
(***************************************************************************)
(* Proofs about accepted connections on both platforms, for any numbers of *)
(* connections and processes (AcceptHandoff, epoll) and of peers, posts    *)
(* and datagrams (IocpLoop, completion port).                              *)
(***************************************************************************)
EXTENDS AcceptHandoff, IocpLoop, FiniteSetTheorems, TLAPS

-----------------------------------------------------------------------------
(*****************************************************************************)
(* The epoll server: AcceptHandoff                                           *)
(*****************************************************************************)

(* The listener *)

\* Where the listener stands, in turn: its messages, its events and its
\* backlog follow from its state.
ListenInv ==
    /\ place \in {"start", "loop", "events", "done", "no thread", "crashed"}
    /\ m_accept \in {"new", "open", "deaf", "closed", "destroyed"}
    /\ m_bRunning \in BOOLEAN
    /\ batch \subseteq {"accept", "thread"}
    /\ closeMsgs = IF m_accept = "closed" THEN 1 ELSE 0
    /\ "accept" \in batch => m_accept = "open"
    /\ "thread" \in batch => m_accept = "closed"
    /\ m_accept \notin {"open", "deaf"} => \A l \in Links : link[l] # "backlog"
    /\ m_accept = "destroyed" => ~m_bRunning
    /\ place = "start" => m_accept = "new"
    /\ DOMAIN link = Links

LEMMA ListenInit == Init => ListenInv
<1> SUFFICES ASSUME Init PROVE ListenInv
  OBVIOUS
<1>1. m_bRunning \in BOOLEAN
  BY Zenon DEF Init
<1> QED
  BY <1>1 DEF Init, ListenInv

\* OnAccept takes connections out of the backlog only.
LEMMA AcceptTakes ==
  ASSUME ListenInv, NEW l \in Backlog, OnAccept(l)
  PROVE  /\ DOMAIN link' = Links
         /\ \A k \in Links : link'[k] = "backlog" => link[k] = "backlog"
         /\ place' \in {place, "crashed"}
BY DEF OnAccept, ListenInv, Backlog, linkVars

\* A connection that nobody puts into the backlog is not there.
LEMMA ListenKept ==
  ASSUME ListenInv, UNCHANGED <<m_accept, closeMsgs, batch, m_bRunning>>,
         place' \in {"start", "loop", "events", "done", "no thread", "crashed"},
         place' = "start" => place = "start",
         DOMAIN link' = Links,
         m_accept \in {"open", "deaf"}
           \/ \A k \in Links : link'[k] = "backlog" => link[k] = "backlog"
  PROVE  ListenInv'
BY DEF ListenInv

LEMMA ListenStep == ListenInv /\ [Next]_vars => ListenInv'
<1> SUFFICES ASSUME ListenInv, [Next]_vars PROVE ListenInv'
  OBVIOUS
<1> USE DEF scheduleVars, listenVars, linkVars
<1>1. ASSUME NEW ok \in BOOLEAN, StartProcess(ok) PROVE ListenInv'
  BY <1>1, ListenKept DEF StartProcess, ListenInv
<1>2. CASE OpenAccept
  BY <1>2 DEF OpenAccept, ListenInv
<1>3. CASE EpollWait
  <2>1. m_accept # "destroyed" /\ place' = "events"
    BY <1>3 DEF EpollWait, ListenInv
  <2>2. /\ batch' \subseteq {"accept", "thread"}
        /\ "accept" \in batch' => m_accept = "open"
        /\ "thread" \in batch' => closeMsgs > 0
    BY <1>3 DEF EpollWait
  <2> QED
    BY <1>3, <2>1, <2>2 DEF EpollWait, ListenInv
<1>4. CASE LoopEnds \/ BatchEnds
  BY <1>4, ListenKept DEF LoopEnds, BatchEnds, ListenInv
<1>5. CASE AcceptEvent
  <2>1. /\ m_accept = "open" /\ closeMsgs = 0 /\ place = "events"
        /\ batch' = batch \ {"accept"} /\ "thread" \notin batch
        /\ m_bRunning' = m_bRunning
    BY <1>5 DEF AcceptEvent, ListenInv
  <2>2. CASE (\E l \in Backlog : OnAccept(l)) /\ UNCHANGED <<m_accept, closeMsgs>>
    <3>1. /\ DOMAIN link' = Links
          /\ place' \in {place, "crashed"}
      BY <2>2, AcceptTakes
    <3> QED
      BY <2>1, <2>2, <3>1 DEF ListenInv
  <2>3. CASE UNCHANGED <<m_accept, closeMsgs, link, msgs, owner, m_iCurProcess, place>>
    BY <2>1, <2>3 DEF ListenInv
  <2>4. CASE CloseAccept /\ UNCHANGED <<msgs, owner, m_iCurProcess, place>>
    <3>1. \A l \in Links : link'[l] # "backlog"
      BY <2>4 DEF CloseAccept, Backlog
    <3> QED
      BY <2>1, <2>4, <3>1 DEF CloseAccept, ListenInv
  <2> QED
    BY <1>5, <2>2, <2>3, <2>4, Zenon DEF AcceptEvent
<1>6. CASE ThreadEvent
  <2>1. m_accept = "closed" /\ closeMsgs = 1 /\ "accept" \notin batch
    BY <1>6 DEF ThreadEvent, ListenInv
  <2>2. m_accept' = "destroyed" /\ closeMsgs' = 0 /\ m_bRunning' = FALSE
    BY <1>6, <2>1 DEF ThreadEvent
  <2>3. place' = "events" /\ link' = link
    BY <1>6 DEF ThreadEvent
  <2>4. batch' = {}
    BY <1>6, <2>1 DEF ThreadEvent, ListenInv
  <2>5. m_bRunning' \in BOOLEAN
    BY <2>2, Zenon
  <2> QED
    BY <2>1, <2>2, <2>3, <2>4, <2>5 DEF ListenInv
<1>7. ASSUME NEW p \in Procs, Process(p) PROVE ListenInv'
  BY <1>7, ListenKept DEF Process, OnPost, OnClose, ListenInv
<1>8. ASSUME NEW p \in Procs, NEW l \in Links, CloseLink(p, l) PROVE ListenInv'
  BY <1>8, ListenKept DEF CloseLink, ListenInv
<1>9. ASSUME NEW l \in Links, Connect(l) \/ GivesUp(l) PROVE ListenInv'
  BY <1>9, ListenKept DEF Connect, GivesUp, ListenInv
<1>10. CASE UNCHANGED vars
  BY <1>10, ListenKept DEF vars, ListenInv
<1> QED
  BY <1>1, <1>2, <1>3, <1>4, <1>5, <1>6, <1>7, <1>8, <1>9, <1>10 DEF Next, Schedule

\* In every behaviour the listener is destroyed at most once, and then no
\* event, no message and no waiting connection of it is left.
THEOREM ListenerLetGo == Spec => []ListenerGone
<1>1. ListenInv => ListenerGone
  BY DEF ListenInv, ListenerGone, Backlog
<1> QED
  BY <1>1, ListenInit, ListenStep, PTL DEF Spec

-----------------------------------------------------------------------------
(* Type correctness *)

Messages == {"socket", "close"} \X Links

\* The turn is that of a process that did start.
TurnInv ==
    /\ m_process \in Seq(Procs) /\ starting \in 0..NProcess
    /\ m_iCurProcess \in Nat
    /\ m_iCurProcess = 0 \/ m_iCurProcess < Len(m_process)

LinkInv ==
    /\ link \in [Links -> LinkState]
    /\ msgs \in [Procs -> Seq(Messages)]
    /\ owner \in [Links -> {0} \cup Procs]

LEMMA EmptyProcesses == <<>> \in Seq(Procs)
OBVIOUS

LEMMA EmptyMessages == <<>> \in Seq(Messages)
OBVIOUS

LEMMA TypeInit == Init => TurnInv /\ LinkInv
<1> SUFFICES ASSUME Init PROVE TurnInv /\ LinkInv
  OBVIOUS
<1>1. m_process \in Seq(Procs)
  BY Zenon, EmptyProcesses DEF Init
<1>2. NProcess \in 0..NProcess
  BY NProcessAssumption
<1>3. msgs \in [Procs -> Seq(Messages)]
  BY EmptyMessages DEF Init
<1> QED
  BY <1>1, <1>2, <1>3 DEF Init, TurnInv, LinkInv, LinkState

\* The process whose turn it is, and the next turn.
LEMMA TurnIsOne ==
  ASSUME TurnInv, m_process # <<>>
  PROVE  /\ m_process[m_iCurProcess + 1] \in Procs
         /\ (m_iCurProcess + 1) % Len(m_process) \in 0..(Len(m_process) - 1)
         /\ Len(m_process) \in Nat
<1>1. Len(m_process) \in Nat /\ Len(m_process) >= 1
  BY DEF TurnInv
<1>2. m_iCurProcess + 1 \in 1..Len(m_process)
  BY <1>1 DEF TurnInv
<1> QED
  BY <1>1, <1>2 DEF TurnInv

LEMMA PostType ==
  ASSUME LinkInv, NEW p \in Procs, NEW what \in {"socket", "close"}, NEW l \in Links,
         Post(p, what, l)
  PROVE  msgs' \in [Procs -> Seq(Messages)]
<1>1. <<what, l>> \in Messages
  BY DEF Messages
<1>2. Append(msgs[p], <<what, l>>) \in Seq(Messages)
  BY <1>1 DEF LinkInv
<1> QED
  BY <1>2 DEF Post, LinkInv

\* The first message of a process.
LEMMA HeadType ==
  ASSUME LinkInv, NEW p \in Procs, msgs[p] # <<>>
  PROVE  Head(msgs[p])[2] \in Links /\ Tail(msgs[p]) \in Seq(Messages)
<1>1. msgs[p] \in Seq(Messages)
  BY DEF LinkInv
<1>2. Head(msgs[p]) \in Messages /\ Tail(msgs[p]) \in Seq(Messages)
  BY <1>1
<1> QED
  BY <1>2 DEF Messages

\* OnAccept hands a connection to the process whose turn it is.
LEMMA OnAcceptType ==
  ASSUME TurnInv, LinkInv, NEW l \in Links, OnAccept(l)
  PROVE  /\ m_iCurProcess' \in Nat
         /\ m_iCurProcess' = 0 \/ m_iCurProcess' < Len(m_process)
         /\ LinkInv'
<1>1. CASE m_process = <<>>
  BY <1>1 DEF OnAccept, TurnInv, LinkInv, linkVars
<1>2. CASE m_process # <<>>
  <2> DEFINE p == m_process[m_iCurProcess + 1]
  <2>1. /\ link' = [link EXCEPT ![l] = "posted"] /\ Post(p, "socket", l)
        /\ owner' = [owner EXCEPT ![l] = p]
        /\ m_iCurProcess' = (m_iCurProcess + 1) % Len(m_process)
    BY <1>2 DEF OnAccept
  <2>2. p \in Procs
    BY <1>2, TurnIsOne
  <2> HIDE DEF p
  <2>3. msgs' \in [Procs -> Seq(Messages)]
    BY <2>1, <2>2, PostType
  <2>4. LinkInv'
    BY <2>1, <2>2, <2>3 DEF LinkInv, LinkState
  <2>5. (m_iCurProcess + 1) % Len(m_process) \in 0..(Len(m_process) - 1) /\ Len(m_process) \in Nat
    BY <1>2, TurnIsOne
  <2> QED
    BY <2>1, <2>4, <2>5
<1> QED
  BY <1>1, <1>2

LEMMA TypeStep == TurnInv /\ LinkInv /\ [Next]_vars => TurnInv' /\ LinkInv'
<1> SUFFICES ASSUME TurnInv, LinkInv, [Next]_vars PROVE TurnInv' /\ LinkInv'
  OBVIOUS
<1> USE DEF scheduleVars, listenVars, linkVars
<1>1. ASSUME NEW ok \in BOOLEAN, StartProcess(ok) PROVE TurnInv' /\ LinkInv'
  <2>1. NProcess \in Nat /\ starting \in 1..NProcess /\ starting - 1 \in 0..NProcess
        /\ NProcess - starting + 1 \in Procs
    BY <1>1, NProcessAssumption DEF StartProcess, TurnInv, Procs
  <2>2. m_process' \in Seq(Procs) /\ Len(m_process') \in Nat /\ Len(m_process') >= Len(m_process)
    <3>1. CASE ok
      BY <1>1, <2>1, <3>1 DEF StartProcess, TurnInv
    <3>2. CASE ~ok
      BY <1>1, <3>2 DEF StartProcess, TurnInv
    <3> QED
      BY <3>1, <3>2
  <2> QED
    BY <1>1, <2>1, <2>2 DEF StartProcess, TurnInv, LinkInv
<1>2. CASE OpenAccept \/ EpollWait \/ LoopEnds \/ BatchEnds \/ ThreadEvent \/ UNCHANGED vars
  <2>1. UNCHANGED <<m_process, starting, m_iCurProcess, link, msgs, owner>>
    BY <1>2 DEF OpenAccept, EpollWait, LoopEnds, BatchEnds, ThreadEvent, vars
  <2> QED
    BY <2>1 DEF TurnInv, LinkInv
<1>3. CASE AcceptEvent
  <2>1. m_process' = m_process /\ starting' = starting
    BY <1>3 DEF AcceptEvent
  <2>2. ASSUME NEW l \in Backlog, OnAccept(l) PROVE TurnInv' /\ LinkInv'
    <3>1. l \in Links
      BY DEF Backlog
    <3>2. /\ m_iCurProcess' \in Nat
          /\ m_iCurProcess' = 0 \/ m_iCurProcess' < Len(m_process)
          /\ LinkInv'
      BY <2>2, <3>1, OnAcceptType
    <3> QED
      BY <2>1, <3>2 DEF TurnInv
  <2>3. CASE UNCHANGED <<m_accept, closeMsgs, link, msgs, owner, m_iCurProcess, place>>
    BY <2>1, <2>3 DEF TurnInv, LinkInv
  <2>4. CASE CloseAccept /\ UNCHANGED <<msgs, owner, m_iCurProcess, place>>
    BY <2>1, <2>4 DEF CloseAccept, TurnInv, LinkInv, LinkState
  <2> QED
    BY <1>3, <2>2, <2>3, <2>4, Zenon DEF AcceptEvent
<1>4. ASSUME NEW p \in Procs, Process(p) \/ \E l \in Links : CloseLink(p, l)
      PROVE  TurnInv' /\ LinkInv'
  <2>1. UNCHANGED <<m_process, starting, m_iCurProcess, owner>>
    BY <1>4 DEF Process, OnPost, OnClose, CloseLink
  <2>2. CASE Process(p)
    <3> DEFINE l == Head(msgs[p])[2]
    <3>1. l \in Links /\ Tail(msgs[p]) \in Seq(Messages)
      BY <2>2, HeadType DEF Process, OnPost, OnClose
    <3>2. <<"close", l>> \in Messages
      BY <3>1 DEF Messages
    <3>3. Append(Tail(msgs[p]), <<"close", l>>) \in Seq(Messages)
      BY <3>1, <3>2
    <3>4. \/ msgs' = [msgs EXCEPT ![p] = Tail(msgs[p])]
          \/ msgs' = [msgs EXCEPT ![p] = Append(Tail(msgs[p]), <<"close", l>>)]
      BY <2>2 DEF Process, OnPost, OnClose
    <3>5. \E where \in {"served", "closing", "gone"} : link' = [link EXCEPT ![l] = where]
      BY <2>2 DEF Process, OnPost, OnClose
    <3> HIDE DEF l
    <3>6. msgs' \in [Procs -> Seq(Messages)]
      BY <3>1, <3>3, <3>4 DEF LinkInv
    <3> QED
      BY <2>1, <3>1, <3>5, <3>6 DEF TurnInv, LinkInv, LinkState
  <2>3. ASSUME NEW l \in Links, CloseLink(p, l) PROVE TurnInv' /\ LinkInv'
    <3>1. msgs' \in [Procs -> Seq(Messages)]
      BY <2>3, PostType DEF CloseLink
    <3> QED
      BY <2>1, <2>3, <3>1 DEF CloseLink, TurnInv, LinkInv, LinkState
  <2> QED
    BY <1>4, <2>2, <2>3
<1>5. ASSUME NEW l \in Links, Connect(l) \/ GivesUp(l) PROVE TurnInv' /\ LinkInv'
  BY <1>5 DEF Connect, GivesUp, TurnInv, LinkInv, LinkState
<1> QED
  BY <1>1, <1>2, <1>3, <1>4, <1>5 DEF Next, Schedule

\* In every behaviour the variables keep their types; the process that OnAccept
\* indexes exists whenever there is one at all.
THEOREM TypeCorrect == Spec => []TypeOK
<1>1. TurnInv /\ LinkInv /\ ListenInv => TypeOK
  <2> SUFFICES ASSUME TurnInv, LinkInv, ListenInv PROVE TypeOK
    OBVIOUS
  <2>1. /\ place \in {"start", "loop", "events", "done", "no thread", "crashed"}
        /\ m_accept \in {"new", "open", "deaf", "closed", "destroyed"}
        /\ batch \subseteq {"accept", "thread"}
    BY Zenon DEF ListenInv
  <2>2. closeMsgs \in 0..1
    <3>1. closeMsgs = IF m_accept = "closed" THEN 1 ELSE 0
      BY Zenon DEF ListenInv
    <3> QED
      BY <3>1
  <2>3. m_bRunning \in BOOLEAN
    BY Zenon DEF ListenInv
  <2>4. link \in [Links -> LinkState] /\ owner \in [Links -> {0} \cup Procs]
    BY DEF LinkInv
  <2>5. msgs \in [Procs -> Seq({"socket", "close"} \X Links)]
    BY DEF LinkInv, Messages
  <2> QED
    BY Zenon, <2>1, <2>2, <2>3, <2>4, <2>5 DEF TypeOK, TurnInv
<1> QED
  BY <1>1, ListenInit, ListenStep, TypeInit, TypeStep, PTL DEF Spec

-----------------------------------------------------------------------------
(* One loop per socket *)

LEMMA TailFacts ==
  ASSUME NEW S, NEW s \in Seq(S), s # <<>>
  PROVE  /\ Len(Tail(s)) = Len(s) - 1
         /\ \A i \in 1..(Len(s) - 1) : Tail(s)[i] = s[i + 1]
OBVIOUS

LEMMA AppendFacts ==
  ASSUME NEW S, NEW s \in Seq(S), NEW x \in S
  PROVE  /\ Len(Append(s, x)) = Len(s) + 1 /\ Append(s, x)[Len(s) + 1] = x
         /\ \A i \in 1..Len(s) : Append(s, x)[i] = s[i]
OBVIOUS

\* The message for a connection is posted when none is under way.
LEMMA MessagePosted ==
  ASSUME LinkInv, OneLoopPerSocket, NEW p \in Procs, NEW l \in Links,
         NEW what \in {"socket", "close"},
         link[l] \notin {"posted", "closing"},
         link' = [link EXCEPT ![l] = IF what = "socket" THEN "posted" ELSE "closing"],
         owner' = [owner EXCEPT ![l] = p],
         Post(p, what, l)
  PROVE  OneLoopPerSocket'
<1> DEFINE q == msgs[p]
           m == <<what, l>>
<1>1. q \in Seq(Messages) /\ Len(q) \in Nat /\ m \in Messages
  BY DEF LinkInv, Messages
<1>2. /\ msgs'[p] = Append(q, m)
      /\ \A r \in Procs : r # p => msgs'[r] = msgs[r]
  BY DEF Post, LinkInv
<1>3. /\ Len(msgs'[p]) = Len(q) + 1 /\ msgs'[p][Len(q) + 1] = m
      /\ \A i \in 1..Len(q) : msgs'[p][i] = q[i]
  BY <1>1, <1>2
<1>4. \A r \in Procs : \A i \in 1..Len(msgs[r]) : msgs[r][i] \in Messages
  BY DEF LinkInv
<1>5. \A r \in Procs : \A i \in 1..Len(msgs[r]) : msgs[r][i][2] \in Links /\ msgs[r][i][2] # l
  BY <1>4 DEF OneLoopPerSocket, MessageDue, Messages
<1>6. /\ link'[l] = IF what = "socket" THEN "posted" ELSE "closing"
      /\ owner'[l] = p
      /\ \A k \in Links : k # l => link'[k] = link[k] /\ owner'[k] = owner[k]
  BY DEF LinkInv
<1>7. m[1] = what /\ m[2] = l
  OBVIOUS
<1> HIDE DEF q, m
<1>8. ASSUME NEW i \in 1..Len(msgs'[p]) PROVE MessageDue(p, i)'
  <2> SUFFICES /\ owner'[msgs'[p][i][2]] = p
               /\ link'[msgs'[p][i][2]] =
                    IF msgs'[p][i][1] = "socket" THEN "posted" ELSE "closing"
               /\ \A j \in 1..Len(msgs'[p]) : msgs'[p][j][2] = msgs'[p][i][2] => j = i
    BY DEF MessageDue
  <2>0. \A j \in 1..Len(msgs'[p]) : j \in 1..Len(q) \/ j = Len(q) + 1
    BY <1>1, <1>3
  <2>1. CASE i = Len(q) + 1
    <3>1. msgs'[p][i] = m
      BY <1>3, <2>1
    <3>2. \A j \in 1..Len(q) : msgs'[p][j][2] # l
      BY <1>3, <1>5 DEF q
    <3> QED
      BY <1>6, <1>7, <2>0, <2>1, <3>1, <3>2
  <2>2. CASE i \in 1..Len(q)
    <3>1. MessageDue(p, i) /\ q[i][2] \in Links /\ q[i][2] # l
      BY <1>5, <2>2 DEF OneLoopPerSocket, q
    <3>2. msgs'[p][i] = q[i]
      BY <1>3, <2>2
    <3>3. \A j \in 1..Len(q) : msgs'[p][j][2] = q[i][2] => j = i
      BY <1>3, <3>1 DEF MessageDue, q
    <3>4. owner'[q[i][2]] = p /\ link'[q[i][2]] = link[q[i][2]]
      BY <1>6, <3>1 DEF MessageDue, q
    <3>5. msgs'[p][Len(q) + 1][2] # q[i][2]
      BY <1>3, <1>7, <3>1
    <3> QED
      BY <2>0, <3>1, <3>2, <3>3, <3>4, <3>5 DEF MessageDue, q
  <2> QED
    BY <2>0, <2>1, <2>2
<1>9. ASSUME NEW r \in Procs, r # p, NEW i \in 1..Len(msgs'[r]) PROVE MessageDue(r, i)'
  <2>1. msgs'[r] = msgs[r] /\ i \in 1..Len(msgs[r])
    BY <1>2, <1>9
  <2>2. MessageDue(r, i) /\ msgs[r][i][2] \in Links /\ msgs[r][i][2] # l
    BY <1>5, <2>1 DEF OneLoopPerSocket
  <2> QED
    BY <1>6, <2>1, <2>2 DEF MessageDue
<1>10. ASSUME NEW k \in Links PROVE Announced(k)'
  <2>1. CASE k = l
    BY <1>1, <1>3, <1>7, <2>1 DEF Announced
  <2>2. CASE k # l /\ link[k] \in {"posted", "closing"}
    <3>1. PICK r \in Procs : \E i \in 1..Len(msgs[r]) : msgs[r][i][2] = k
      BY <2>2 DEF OneLoopPerSocket, Announced
    <3>2. PICK i \in 1..Len(msgs[r]) : msgs[r][i][2] = k
      BY <3>1
    <3>3. i \in 1..Len(msgs'[r]) /\ msgs'[r][i] = msgs[r][i]
      BY <1>1, <1>2, <1>3 DEF q
    <3> QED
      BY <3>2, <3>3 DEF Announced
  <2>3. CASE k # l /\ link[k] \notin {"posted", "closing"}
    BY <1>6, <2>3 DEF Announced
  <2> QED
    BY <2>1, <2>2, <2>3
<1> QED
  BY <1>8, <1>9, <1>10 DEF OneLoopPerSocket

\* A process takes its first message: it was the last about its connection.
LEMMA MessageTaken ==
  ASSUME LinkInv, OneLoopPerSocket, NEW p \in Procs, msgs[p] # <<>>,
         NEW where \in {"served", "gone"},
         link' = [link EXCEPT ![Head(msgs[p])[2]] = where],
         owner' = owner,
         msgs' = [msgs EXCEPT ![p] = Tail(msgs[p])]
  PROVE  OneLoopPerSocket'
<1> DEFINE q == msgs[p]
           l == Head(msgs[p])[2]
<1>1. q \in Seq(Messages) /\ Len(q) \in Nat /\ Len(q) >= 1 /\ l = q[1][2] /\ l \in Links
  BY HeadType DEF LinkInv
<1>2. msgs'[p] = Tail(q) /\ \A r \in Procs : r # p => msgs'[r] = msgs[r]
  BY DEF LinkInv
<1>3. /\ Len(msgs'[p]) = Len(q) - 1
      /\ \A i \in 1..(Len(q) - 1) : msgs'[p][i] = q[i + 1]
  BY <1>1, <1>2, TailFacts
<1>4. \A r \in Procs : \A i \in 1..Len(msgs[r]) : msgs[r][i] \in Messages
  BY DEF LinkInv
<1>5. \A r \in Procs : \A i \in 1..Len(msgs[r]) : msgs[r][i][2] \in Links
  BY <1>4 DEF Messages
<1>6. link'[l] = where /\ \A k \in Links : k # l => link'[k] = link[k]
  BY <1>1 DEF LinkInv
<1> HIDE DEF q, l
<1>7. MessageDue(p, 1)
  BY <1>1 DEF OneLoopPerSocket, q
<1>8. ASSUME NEW i \in 1..Len(msgs'[p]) PROVE MessageDue(p, i)'
  <2>1. i + 1 \in 1..Len(q) /\ i \in 1..(Len(q) - 1) /\ 1 \in 1..Len(q)
    BY <1>1, <1>3
  <2>2. MessageDue(p, i + 1) /\ q[i + 1][2] \in Links
    BY <1>5, <2>1 DEF OneLoopPerSocket, q
  <2>3. q[i + 1][2] # l
    BY <1>1, <1>7, <2>1 DEF MessageDue, q
  <2>4. \A j \in 1..(Len(q) - 1) : q[j + 1][2] = q[i + 1][2] => j = i
    BY <1>1, <2>1, <2>2 DEF MessageDue, q
  <2> QED
    BY <1>3, <1>6, <2>1, <2>2, <2>3, <2>4 DEF MessageDue, q
<1>9. ASSUME NEW r \in Procs, r # p, NEW i \in 1..Len(msgs'[r]) PROVE MessageDue(r, i)'
  <2>1. msgs'[r] = msgs[r] /\ i \in 1..Len(msgs[r])
    BY <1>2, <1>9
  <2>2. MessageDue(r, i) /\ msgs[r][i][2] \in Links
    BY <1>5, <2>1 DEF OneLoopPerSocket
  <2>3. owner[l] = p
    BY <1>1, <1>7 DEF MessageDue, q
  <2>4. msgs[r][i][2] # l
    BY <1>9, <2>2, <2>3 DEF MessageDue
  <2> QED
    BY <1>6, <2>1, <2>2, <2>4 DEF MessageDue
<1>10. ASSUME NEW k \in Links PROVE Announced(k)'
  <2>1. CASE k = l \/ link[k] \notin {"posted", "closing"}
    BY <1>6, <2>1 DEF Announced
  <2>2. CASE k # l /\ link[k] \in {"posted", "closing"}
    <3>1. PICK r \in Procs : \E i \in 1..Len(msgs[r]) : msgs[r][i][2] = k
      BY <2>2 DEF OneLoopPerSocket, Announced
    <3>2. PICK i \in 1..Len(msgs[r]) : msgs[r][i][2] = k
      BY <3>1
    <3>3. CASE r # p
      BY <1>2, <3>2, <3>3 DEF Announced
    <3>4. CASE r = p
      <4>1. i # 1 /\ i \in 1..Len(q) /\ q[i][2] = k
        BY <1>1, <2>2, <3>2, <3>4 DEF q
      <4>2. i - 1 \in 1..(Len(q) - 1) /\ (i - 1) + 1 = i
        BY <1>1, <4>1
      <4>3. i - 1 \in 1..Len(msgs'[p]) /\ msgs'[p][i - 1] = q[i]
        BY <1>3, <4>2
      <4> QED
        BY <4>1, <4>3 DEF Announced
    <3> QED
      BY <3>3, <3>4
  <2> QED
    BY <2>1, <2>2
<1> QED
  BY <1>8, <1>9, <1>10 DEF OneLoopPerSocket

\* Initialize fails: the message about the socket becomes one about its close.
LEMMA MessageTurned ==
  ASSUME LinkInv, OneLoopPerSocket, NEW p \in Procs, msgs[p] # <<>>,
         link' = [link EXCEPT ![Head(msgs[p])[2]] = "closing"],
         owner' = owner,
         msgs' = [msgs EXCEPT ![p] = Append(Tail(msgs[p]), <<"close", Head(msgs[p])[2]>>)]
  PROVE  OneLoopPerSocket'
<1> DEFINE q == msgs[p]
           l == Head(msgs[p])[2]
           m == <<"close", l>>
<1>1. q \in Seq(Messages) /\ Len(q) \in Nat /\ Len(q) >= 1 /\ l = q[1][2] /\ l \in Links
      /\ Tail(q) \in Seq(Messages)
  BY HeadType DEF LinkInv
<1>2. /\ msgs'[p] = Append(Tail(q), m)
      /\ \A r \in Procs : r # p => msgs'[r] = msgs[r]
  BY DEF LinkInv
<1>3. Len(Tail(q)) = Len(q) - 1 /\ \A i \in 1..(Len(q) - 1) : Tail(q)[i] = q[i + 1]
  BY <1>1, TailFacts
<1>4. m \in Messages
  BY <1>1 DEF Messages
<1>5. m[1] = "close" /\ m[2] = l
  OBVIOUS
<1> HIDE DEF q, l, m
<1>6. /\ Len(msgs'[p]) = Len(q) /\ msgs'[p][Len(q)] = m
      /\ \A i \in 1..(Len(q) - 1) : msgs'[p][i] = q[i + 1]
  <2> DEFINE t == Tail(q)
  <2>1. t \in Seq(Messages) /\ Len(t) = Len(q) - 1 /\ \A i \in 1..Len(t) : t[i] = q[i + 1]
    BY <1>1, <1>3
  <2>2. msgs'[p] = Append(t, m)
    BY <1>2
  <2> HIDE DEF t
  <2>3. /\ Len(msgs'[p]) = Len(t) + 1 /\ msgs'[p][Len(t) + 1] = m
        /\ \A i \in 1..Len(t) : msgs'[p][i] = t[i]
    <3>1. \A x \in Messages :
            /\ Len(Append(t, x)) = Len(t) + 1 /\ Append(t, x)[Len(t) + 1] = x
            /\ \A i \in 1..Len(t) : Append(t, x)[i] = t[i]
      BY <2>1, AppendFacts
    <3> QED
      BY <1>4, <2>2, <3>1
  <2>4. Len(t) + 1 = Len(q) /\ Len(t) = Len(q) - 1
    BY <1>1, <2>1
  <2>5. Len(msgs'[p]) = Len(q) /\ msgs'[p][Len(q)] = m
    BY <2>3, <2>4
  <2>6. \A i \in 1..(Len(q) - 1) : msgs'[p][i] = q[i + 1]
    BY <2>1, <2>3, <2>4
  <2> QED
    BY <2>5, <2>6
<1>7. \A r \in Procs : \A i \in 1..Len(msgs[r]) : msgs[r][i] \in Messages
  BY DEF LinkInv
<1>8. \A r \in Procs : \A i \in 1..Len(msgs[r]) : msgs[r][i][2] \in Links
  BY <1>7 DEF Messages
<1>9. link'[l] = "closing" /\ \A k \in Links : k # l => link'[k] = link[k]
  BY <1>1 DEF LinkInv, l
<1>10. MessageDue(p, 1)
  BY <1>1 DEF OneLoopPerSocket, q
<1>11. owner[l] = p /\ \A j \in 1..Len(q) : q[j][2] = l => j = 1
  BY <1>1, <1>10 DEF MessageDue, q
<1>12. ASSUME NEW i \in 1..Len(msgs'[p]) PROVE MessageDue(p, i)'
  <2> SUFFICES /\ owner[msgs'[p][i][2]] = p
               /\ link'[msgs'[p][i][2]] =
                    IF msgs'[p][i][1] = "socket" THEN "posted" ELSE "closing"
               /\ \A j \in 1..Len(msgs'[p]) : msgs'[p][j][2] = msgs'[p][i][2] => j = i
    BY DEF MessageDue
  <2>1. \A j \in 1..Len(msgs'[p]) : j = Len(q) \/ j \in 1..(Len(q) - 1)
    BY <1>1, <1>6
  <2>2. \A j \in 1..(Len(q) - 1) : j + 1 \in 1..Len(q) /\ j + 1 # 1
    BY <1>1
  <2>3. \A j \in 1..(Len(q) - 1) : msgs'[p][j][2] # l
    BY <1>6, <1>11, <2>2
  <2>4. CASE i = Len(q)
    BY <1>5, <1>6, <1>9, <1>11, <2>1, <2>3, <2>4
  <2>5. CASE i \in 1..(Len(q) - 1)
    <3>1. MessageDue(p, i + 1) /\ q[i + 1][2] \in Links /\ q[i + 1][2] # l
      BY <1>8, <1>11, <2>2, <2>5 DEF OneLoopPerSocket, q
    <3>2. msgs'[p][i] = q[i + 1]
      BY <1>6, <2>5
    <3>3. \A j \in 1..(Len(q) - 1) : q[j + 1][2] = q[i + 1][2] => j = i
      BY <1>1, <2>2, <2>5, <3>1 DEF MessageDue, q
    <3>4. msgs'[p][Len(q)][2] # q[i + 1][2]
      BY <1>5, <1>6, <3>1
    <3>5. \A j \in 1..(Len(q) - 1) : msgs'[p][j][2] = q[i + 1][2] => j = i
      BY <1>6, <3>3
    <3>6. link'[q[i + 1][2]] = link[q[i + 1][2]]
      BY <1>9, <3>1
    <3> QED
      BY <2>1, <3>1, <3>2, <3>4, <3>5, <3>6 DEF MessageDue, q
  <2> QED
    BY <2>1, <2>4, <2>5
<1>13. ASSUME NEW r \in Procs, r # p, NEW i \in 1..Len(msgs'[r]) PROVE MessageDue(r, i)'
  <2>1. msgs'[r] = msgs[r] /\ i \in 1..Len(msgs[r])
    BY <1>2, <1>13
  <2>2. MessageDue(r, i) /\ msgs[r][i][2] \in Links
    BY <1>8, <2>1 DEF OneLoopPerSocket
  <2>3. msgs[r][i][2] # l
    BY <1>11, <1>13, <2>2 DEF MessageDue
  <2> QED
    BY <1>9, <2>1, <2>2, <2>3 DEF MessageDue
<1>14. ASSUME NEW k \in Links PROVE Announced(k)'
  <2>1. CASE k = l
    BY <1>1, <1>5, <1>6, <2>1 DEF Announced
  <2>2. CASE k # l /\ link[k] \notin {"posted", "closing"}
    BY <1>9, <2>2 DEF Announced
  <2>3. CASE k # l /\ link[k] \in {"posted", "closing"}
    <3>1. PICK r \in Procs : \E i \in 1..Len(msgs[r]) : msgs[r][i][2] = k
      BY <2>3 DEF OneLoopPerSocket, Announced
    <3>2. PICK i \in 1..Len(msgs[r]) : msgs[r][i][2] = k
      BY <3>1
    <3>3. CASE r # p
      BY <1>2, <3>2, <3>3 DEF Announced
    <3>4. CASE r = p
      <4>1. i # 1 /\ i \in 1..Len(q) /\ q[i][2] = k
        BY <1>1, <2>3, <3>2, <3>4 DEF q
      <4>2. i - 1 \in 1..(Len(q) - 1) /\ (i - 1) + 1 = i
        BY <1>1, <4>1
      <4>3. i - 1 \in 1..Len(msgs'[p]) /\ msgs'[p][i - 1] = q[i]
        BY <1>1, <1>6, <4>2
      <4> QED
        BY <4>1, <4>3 DEF Announced
    <3> QED
      BY <3>3, <3>4
  <2> QED
    BY <2>1, <2>2, <2>3
<1> QED
  BY <1>12, <1>13, <1>14 DEF OneLoopPerSocket

\* Steps that move only connections of which there is no message.
LEMMA MessagesKept ==
  ASSUME LinkInv, OneLoopPerSocket, msgs' = msgs, owner' = owner,
         \A k \in Links : \/ link'[k] = link[k]
                          \/ /\ link[k] \notin {"posted", "closing"}
                             /\ link'[k] \notin {"posted", "closing"}
  PROVE  OneLoopPerSocket'
<1>1. ASSUME NEW p \in Procs, NEW i \in 1..Len(msgs[p]) PROVE MessageDue(p, i)'
  <2>1. msgs[p][i] \in Messages
    BY DEF LinkInv
  <2>2. MessageDue(p, i) /\ msgs[p][i][2] \in Links
    BY <2>1 DEF OneLoopPerSocket, Messages
  <2> QED
    BY <2>2 DEF MessageDue
<1>2. ASSUME NEW k \in Links PROVE Announced(k)'
  BY DEF OneLoopPerSocket, Announced
<1> QED
  BY <1>1, <1>2 DEF OneLoopPerSocket

LEMMA MessagesInit == Init => OneLoopPerSocket
<1> SUFFICES ASSUME Init PROVE OneLoopPerSocket
  OBVIOUS
<1>1. \A p \in Procs : msgs[p] = <<>>
  BY DEF Init
<1>2. \A l \in Links : link[l] = "away"
  BY DEF Init
<1> QED
  BY <1>1, <1>2 DEF OneLoopPerSocket, Announced

LEMMA MessagesStep ==
  ASSUME TurnInv, LinkInv, OneLoopPerSocket, [Next]_vars
  PROVE  OneLoopPerSocket'
<1> USE DEF scheduleVars, listenVars, linkVars
<1>1. CASE \/ \E ok \in BOOLEAN : StartProcess(ok)
           \/ OpenAccept \/ EpollWait \/ LoopEnds \/ BatchEnds \/ ThreadEvent
           \/ UNCHANGED vars
  <2>1. UNCHANGED <<link, msgs, owner>>
    BY <1>1 DEF StartProcess, OpenAccept, EpollWait, LoopEnds, BatchEnds, ThreadEvent, vars
  <2> QED
    BY <2>1, MessagesKept
<1>2. CASE AcceptEvent
  <2>1. ASSUME NEW l \in Backlog, OnAccept(l) PROVE OneLoopPerSocket'
    <3>1. l \in Links /\ link[l] = "backlog"
      BY DEF Backlog
    <3>2. CASE m_process = <<>>
      <4>1. UNCHANGED <<link, msgs, owner>>
        BY <2>1, <3>2 DEF OnAccept
      <4> QED
        BY <4>1, MessagesKept
    <3>3. CASE m_process # <<>>
      <4> DEFINE p == m_process[m_iCurProcess + 1]
      <4>1. /\ link' = [link EXCEPT ![l] = "posted"] /\ Post(p, "socket", l)
            /\ owner' = [owner EXCEPT ![l] = p]
        BY <2>1, <3>3 DEF OnAccept
      <4>2. p \in Procs
        BY <3>3, TurnIsOne
      <4> HIDE DEF p
      <4> QED
        BY <3>1, <4>1, <4>2, MessagePosted
    <3> QED
      BY <3>2, <3>3
  <2>2. CASE UNCHANGED <<m_accept, closeMsgs, link, msgs, owner, m_iCurProcess, place>>
    BY <2>2, MessagesKept
  <2>3. CASE CloseAccept /\ UNCHANGED <<msgs, owner, m_iCurProcess, place>>
    BY <2>3, MessagesKept DEF CloseAccept, Backlog
  <2> QED
    BY <1>2, <2>1, <2>2, <2>3, Zenon DEF AcceptEvent
<1>3. ASSUME NEW p \in Procs, OnPost(p) PROVE OneLoopPerSocket'
  <2>1. msgs[p] # <<>> /\ owner' = owner
    BY <1>3 DEF OnPost
  <2>2. CASE /\ link' = [link EXCEPT ![Head(msgs[p])[2]] = "served"]
             /\ msgs' = [msgs EXCEPT ![p] = Tail(msgs[p])]
    BY <2>1, <2>2, MessageTaken
  <2>3. CASE /\ link' = [link EXCEPT ![Head(msgs[p])[2]] = "closing"]
             /\ msgs' = [msgs EXCEPT ![p] =
                            Append(Tail(msgs[p]), <<"close", Head(msgs[p])[2]>>)]
    BY <2>1, <2>3, MessageTurned
  <2> QED
    BY <1>3, <2>2, <2>3 DEF OnPost
<1>4. ASSUME NEW p \in Procs, OnClose(p) PROVE OneLoopPerSocket'
  <2>1. /\ msgs[p] # <<>> /\ owner' = owner
        /\ link' = [link EXCEPT ![Head(msgs[p])[2]] = "gone"]
        /\ msgs' = [msgs EXCEPT ![p] = Tail(msgs[p])]
    BY <1>4 DEF OnClose
  <2> QED
    BY <2>1, MessageTaken
<1>5. ASSUME NEW p \in Procs, NEW l \in Links, CloseLink(p, l) PROVE OneLoopPerSocket'
  <2>1. /\ link[l] = "served" /\ link' = [link EXCEPT ![l] = "closing"]
        /\ Post(p, "close", l) /\ owner[l] = p /\ owner' = owner
    BY <1>5 DEF CloseLink
  <2>2. owner' = [owner EXCEPT ![l] = p]
    BY <2>1 DEF LinkInv
  <2> QED
    BY <2>1, <2>2, MessagePosted
<1>6. ASSUME NEW l \in Links, Connect(l) \/ GivesUp(l) PROVE OneLoopPerSocket'
  BY <1>6, MessagesKept DEF Connect, GivesUp, LinkInv
<1> QED
  BY <1>1, <1>2, <1>3, <1>4, <1>5, <1>6 DEF Next, Schedule, Process

\* In every behaviour the one process that a socket was posted to hears of it,
\* once that it is there and once that it is closed.
THEOREM OneLoopEach == Spec => []OneLoopPerSocket
BY TypeInit, TypeStep, MessagesInit, MessagesStep, PTL DEF Spec

-----------------------------------------------------------------------------
(*****************************************************************************)
(* The completion port: IocpLoop                                             *)
(*****************************************************************************)

(* Counting packets in a sequence *)

Found(q, key) == {i \in DOMAIN q : q[i].key = key}
Count(q, key) == Cardinality(Found(q, key))
One(p, key) == IF p.key = key THEN 1 ELSE 0

LEMMA PacketsCount ==
  ASSUME NEW key
  PROVE  /\ Packets(key) = Count(port, key) + Count(hand, key)
         /\ Packets(key)' = Count(port', key) + Count(hand', key)
BY DEF Packets, Count, Found

LEMMA FoundFinite ==
  ASSUME NEW T, NEW q \in Seq(T), NEW key
  PROVE  IsFiniteSet(Found(q, key)) /\ Count(q, key) \in Nat
<1>1. Found(q, key) \in SUBSET (1..Len(q)) /\ Len(q) \in Nat
  BY DEF Found
<1>2. IsFiniteSet(1..Len(q))
  BY <1>1, FS_Interval
<1>3. IsFiniteSet(Found(q, key))
  BY <1>1, <1>2, FS_Subset
<1> QED
  BY <1>3, FS_CardinalityType DEF Count

LEMMA CountEmpty ==
  ASSUME NEW key
  PROVE  Count(<<>>, key) = 0
<1>1. Found(<<>>, key) = {}
  BY DEF Found
<1> QED
  BY <1>1, FS_EmptySet DEF Count

LEMMA CountAppend ==
  ASSUME NEW T, NEW q \in Seq(T), NEW p \in T, NEW key
  PROVE  Count(Append(q, p), key) = Count(q, key) + One(p, key)
<1>1. IsFiniteSet(Found(q, key)) /\ Count(q, key) \in Nat
  BY FoundFinite
<1>2. /\ Len(q) \in Nat /\ DOMAIN q = 1..Len(q)
      /\ DOMAIN Append(q, p) = 1..(Len(q) + 1)
      /\ Append(q, p)[Len(q) + 1] = p
      /\ \A i \in 1..Len(q) : Append(q, p)[i] = q[i]
  OBVIOUS
<1>3. CASE p.key = key
  <2>1. Found(Append(q, p), key) = Found(q, key) \cup {Len(q) + 1}
    BY <1>2, <1>3 DEF Found
  <2>2. Len(q) + 1 \notin Found(q, key)
    BY <1>2 DEF Found
  <2>3. Cardinality(Found(q, key) \cup {Len(q) + 1}) = Cardinality(Found(q, key)) + 1
    BY <1>1, <2>2, FS_AddElement
  <2> QED
    BY <1>3, <2>1, <2>3 DEF Count, One
<1>4. CASE p.key # key
  <2>1. Found(Append(q, p), key) = Found(q, key)
    BY <1>2, <1>4 DEF Found
  <2> QED
    BY <1>1, <1>4, <2>1 DEF Count, One
<1> QED
  BY <1>3, <1>4

LEMMA CountOne ==
  ASSUME NEW p, NEW key
  PROVE  Count(<<p>>, key) = One(p, key)
<1>1. CASE p.key = key
  <2>1. Found(<<p>>, key) = {1}
    BY <1>1 DEF Found
  <2> QED
    BY <1>1, <2>1, FS_Singleton DEF Count, One
<1>2. CASE p.key # key
  <2>1. Found(<<p>>, key) = {}
    BY <1>2 DEF Found
  <2> QED
    BY <1>2, <2>1, FS_EmptySet DEF Count, One
<1> QED
  BY <1>1, <1>2

\* The packet taken off the port is the first.
LEMMA CountTail ==
  ASSUME NEW T, NEW q \in Seq(T), q # <<>>, NEW key
  PROVE  Count(q, key) = One(Head(q), key) + Count(Tail(q), key)
<1> DEFINE F == Found(Tail(q), key)
           G == {i \in 2..Len(q) : q[i].key = key}
           f == [i \in F |-> i + 1]
<1>1. /\ Len(q) \in Nat /\ Len(q) >= 1 /\ DOMAIN q = 1..Len(q) /\ Head(q) = q[1]
      /\ Tail(q) \in Seq(T) /\ Len(Tail(q)) = Len(q) - 1
      /\ DOMAIN Tail(q) = 1..(Len(q) - 1)
      /\ \A i \in 1..(Len(q) - 1) : Tail(q)[i] = q[i + 1]
  OBVIOUS
<1>2. F \subseteq 1..(Len(q) - 1) /\ IsFiniteSet(F) /\ Cardinality(F) \in Nat
  <2>1. Tail(q) \in Seq(T)
    BY <1>1
  <2>2. IsFiniteSet(F) /\ Count(Tail(q), key) \in Nat
    BY <2>1, FoundFinite
  <2>3. F \subseteq 1..(Len(q) - 1)
    BY <1>1 DEF Found
  <2> QED
    BY <2>2, <2>3 DEF Count
<1>3. ExistsBijection(F, G)
  <2>1. f \in [F -> G]
    <3> SUFFICES ASSUME NEW i \in F PROVE i + 1 \in G
      OBVIOUS
    <3> QED
      BY <1>1, <1>2 DEF Found
  <2>2. \A i, j \in F : i # j => f[i] # f[j]
    BY <1>2
  <2>3. \A g \in G : \E i \in F : f[i] = g
    <3> TAKE g \in G
    <3>1. g - 1 \in 1..(Len(q) - 1) /\ (g - 1) + 1 = g
      BY <1>1
    <3>2. g - 1 \in F
      BY <1>1, <3>1 DEF Found
    <3> QED
      BY <3>1, <3>2
  <2>4. f \in Bijection(F, G)
    BY <2>1, <2>2, <2>3 DEF Bijection, Injection, Surjection, IsInjective
  <2> QED
    BY <2>4 DEF ExistsBijection
<1>4. IsFiniteSet(G) /\ Cardinality(G) = Cardinality(F)
  BY <1>2, <1>3, FS_Bijection
<1>5. CASE q[1].key = key
  <2>1. Found(q, key) = G \cup {1}
    BY <1>1, <1>5 DEF Found
  <2>2. 1 \notin G
    OBVIOUS
  <2>3. Cardinality(G \cup {1}) = Cardinality(G) + 1
    BY <1>4, <2>2, FS_AddElement
  <2> QED
    BY <1>1, <1>2, <1>4, <1>5, <2>1, <2>3 DEF Count, One
<1>6. CASE q[1].key # key
  <2>1. Found(q, key) = G
    BY <1>1, <1>6 DEF Found
  <2> QED
    BY <1>1, <1>2, <1>4, <1>6, <2>1 DEF Count, One
<1> QED
  BY <1>5, <1>6

-----------------------------------------------------------------------------
(* Types *)

LoopPackets == [key : {"accept", "recvfrom", "this", "null", "post"}, ok : BOOLEAN]

Acceptors == [alive : BOOLEAN,
              m_server : {"none", "open", "closed"}, m_socket : {"none", "open", "closed"},
              m_nLinkStatus : {"UNINITIALIZE", "ESTABLISHED", "WAITCLOSE", "WAITCLEAR"},
              m_nAcceptCount : Int]

LoopUdps == [m_nLinkStatus : {"UNINITIALIZE", "ESTABLISHED", "refused"},
             asked : Nat, answered : Nat]

LoopKernels == [accept : Nat, recvfrom : Nat]

LoopPosts == [made : Nat, delivered : Nat]

\* A packet is in hand only between GetQueuedCompletionStatus and its handler.
LoopTypes ==
    /\ acceptor \in Acceptors
    /\ udp \in LoopUdps
    /\ kernel \in LoopKernels
    /\ posts \in LoopPosts
    /\ port \in Seq(LoopPackets)
    /\ hand \in {<<>>} \cup {<<p>> : p \in LoopPackets}
    /\ hand # <<>> => at = "timers"
    /\ heard \in {"new", "failed", "open", "closed"}
    /\ early \in BOOLEAN

LEMMA LoopHand ==
  ASSUME LoopTypes, hand # <<>>
  PROVE  hand = <<hand[1]>> /\ hand[1] \in LoopPackets
<1>1. PICK p \in LoopPackets : hand = <<p>>
  BY DEF LoopTypes
<1> QED
  BY <1>1

LEMMA CountInt ==
  ASSUME LoopTypes
  PROVE  /\ acceptor.m_nAcceptCount \in Int
         /\ acceptor.m_nAcceptCount + 1 \in Int /\ acceptor.m_nAcceptCount - 1 \in Int
BY DEF LoopTypes, Acceptors

\* AcceptEx is posted, when none is.
LEMMA AcceptPosted ==
  ASSUME NEW a \in Acceptors, a.m_nAcceptCount = 0
  PROVE  LET b == [a EXCEPT !.m_socket = "open", !.m_nAcceptCount = @ + 1] IN
         /\ b \in Acceptors /\ b.m_nAcceptCount = 1
         /\ b.alive = a.alive /\ b.m_server = a.m_server
         /\ b.m_nLinkStatus = a.m_nLinkStatus
<1> DEFINE c == [a EXCEPT !.m_socket = "open"]
           b == [c EXCEPT !.m_nAcceptCount = 1]
<1>1. /\ c \in Acceptors /\ c.alive = a.alive /\ c.m_server = a.m_server
      /\ c.m_nLinkStatus = a.m_nLinkStatus /\ c.m_nAcceptCount = 0
  BY DEF Acceptors
<1>2. [a EXCEPT !.m_socket = "open", !.m_nAcceptCount = @ + 1] = b
  BY DEF Acceptors
<1> HIDE DEF c
<1>3. /\ b \in Acceptors /\ b.m_nAcceptCount = 1
      /\ b.alive = c.alive /\ b.m_server = c.m_server
      /\ b.m_nLinkStatus = c.m_nLinkStatus
  BY <1>1 DEF Acceptors
<1> QED
  BY <1>1, <1>2, <1>3

-----------------------------------------------------------------------------
(* How a step changes what is on its way *)

LEMMA OneNat == ASSUME NEW p, NEW key PROVE One(p, key) \in {0, 1}
BY DEF One

LEMMA CountsNat ==
  ASSUME LoopTypes, NEW key
  PROVE  /\ Count(port, key) \in Nat /\ Count(hand, key) \in Nat
         /\ Packets(key) \in Nat
<1>1. port \in Seq(LoopPackets)
  BY DEF LoopTypes
<1>2. Count(port, key) \in Nat
  BY <1>1, FoundFinite
<1>3. Count(hand, key) \in Nat
  <2>1. CASE hand = <<>>
    BY <2>1, CountEmpty
  <2>2. CASE hand # <<>>
    <3>1. hand = <<hand[1]>>
      BY <2>2, LoopHand
    <3>2. Count(<<hand[1]>>, key) = One(hand[1], key)
      BY CountOne
    <3> QED
      BY <3>1, <3>2, OneNat
  <2> QED
    BY <2>1, <2>2
<1> QED
  BY <1>2, <1>3, PacketsCount

\* Nothing happens to the port.
LEMMA PortKept ==
  ASSUME LoopTypes, port' = port, hand' = hand, NEW key
  PROVE  Packets(key)' = Packets(key) /\ Packets(key) \in Nat
BY CountsNat, PacketsCount

\* A packet is posted to the port.
LEMMA PacketPosted ==
  ASSUME LoopTypes, NEW p \in LoopPackets, port' = Append(port, p), hand' = hand, NEW key
  PROVE  Packets(key)' = Packets(key) + One(p, key) /\ Packets(key) \in Nat
<1>1. port \in Seq(LoopPackets)
  BY DEF LoopTypes
<1>2. Count(port', key) = Count(port, key) + One(p, key)
  BY <1>1, CountAppend
<1>3. Count(port, key) \in Nat /\ Count(hand, key) \in Nat /\ One(p, key) \in {0, 1}
  BY CountsNat, OneNat
<1> QED
  BY <1>2, <1>3, PacketsCount, CountsNat

\* The loop takes a packet off the port.
LEMMA PacketTaken ==
  ASSUME LoopTypes, hand = <<>>, port # <<>>, hand' = <<Head(port)>>, port' = Tail(port),
         NEW key
  PROVE  Packets(key)' = Packets(key) /\ Packets(key) \in Nat
<1>1. port \in Seq(LoopPackets)
  BY DEF LoopTypes
<1>2. Count(port, key) = One(Head(port), key) + Count(Tail(port), key)
  BY <1>1, CountTail
<1>3. Count(hand, key) = 0 /\ Count(hand', key) = One(Head(port), key)
  BY CountEmpty, CountOne
<1>4. Tail(port) \in Seq(LoopPackets)
  BY <1>1
<1>5. Count(Tail(port), key) \in Nat /\ One(Head(port), key) \in {0, 1}
  BY <1>4, FoundFinite, OneNat
<1> QED
  BY <1>2, <1>3, <1>5, PacketsCount, CountsNat

\* The loop has handled the packet in hand.
LEMMA PacketHandled ==
  ASSUME LoopTypes, hand # <<>>, hand' = <<>>, port' = port, NEW key
  PROVE  /\ Packets(key) = Packets(key)' + One(hand[1], key)
         /\ Packets(key)' \in Nat
<1>1. hand = <<hand[1]>>
  BY LoopHand
<1>2. Count(<<hand[1]>>, key) = One(hand[1], key)
  BY CountOne
<1>3. Count(hand, key) = One(hand[1], key)
  BY <1>1, <1>2
<1>4. Count(hand', key) = 0
  BY CountEmpty
<1>5. Count(port, key) \in Nat /\ One(hand[1], key) \in {0, 1}
  BY CountsNat, OneNat
<1> QED
  BY <1>3, <1>4, <1>5, PacketsCount

\* Both at once.
LEMMA PacketAnswered ==
  ASSUME LoopTypes, NEW p \in LoopPackets, port' = Append(port, p), hand # <<>>,
         hand' = <<>>, NEW key
  PROVE  /\ Packets(key) + One(p, key) = Packets(key)' + One(hand[1], key)
         /\ Packets(key) \in Nat /\ Packets(key)' \in Nat
<1>1. hand = <<hand[1]>> /\ port \in Seq(LoopPackets)
  BY LoopHand DEF LoopTypes
<1>2. Count(<<hand[1]>>, key) = One(hand[1], key)
  BY CountOne
<1>3. Count(hand, key) = One(hand[1], key)
  BY <1>1, <1>2
<1>4. Count(hand', key) = 0
  BY CountEmpty
<1>5. Count(port', key) = Count(port, key) + One(p, key)
  BY <1>1, CountAppend
<1>6. /\ Count(port, key) \in Nat /\ One(hand[1], key) \in {0, 1}
      /\ One(p, key) \in {0, 1}
  BY CountsNat, OneNat
<1> QED
  BY <1>3, <1>4, <1>5, <1>6, PacketsCount, CountsNat

-----------------------------------------------------------------------------
(* The invariant *)

\* The accepts that have been posted and not been handled.
UnderWay == kernel.accept + Packets("accept")

\* The listener was told closed, or is about to be.
Closing == Packets("this") > 0 \/ heard = "closed"

\* What the life of the listener says of its accepts.
AcceptInv ==
    /\ at = "accepting" => acceptor.alive /\ acceptor.m_server # "none"
    /\ acceptor.m_server = "none" \/ at = "accepting" => UnderWay = 0
    /\ acceptor.m_nLinkStatus = "ESTABLISHED" => acceptor.m_server # "none"
    /\ acceptor.m_server = "none" \/ acceptor.m_nLinkStatus = "ESTABLISHED" => ~Closing
    /\ Closing /\ ~early => UnderWay = 0 /\ at # "accepting"

IocpInv == LoopTypes /\ EachComesBack /\ AcceptInv

LEMMA IocpInvInit == IocpInit => IocpInv
<1> SUFFICES ASSUME IocpInit PROVE IocpInv
  OBVIOUS
<1>1. LoopTypes
  <2>1. NewAcceptor \in Acceptors
    BY DEF NewAcceptor, Acceptors
  <2>2. udp \in LoopUdps /\ kernel \in LoopKernels /\ posts \in LoopPosts
    BY DEF IocpInit, LoopUdps, LoopKernels, LoopPosts
  <2>3. port \in Seq(LoopPackets) /\ early \in BOOLEAN
    <3>1. port \in Seq(LoopPackets)
      BY DEF IocpInit
    <3>2. early \in BOOLEAN
      BY Zenon DEF IocpInit
    <3> QED
      BY <3>1, <3>2
  <2> QED
    BY <2>1, <2>2, <2>3 DEF IocpInit, LoopTypes
<1>2. \A key : Packets(key) = 0
  BY PacketsCount, CountEmpty DEF IocpInit
<1> QED
  BY <1>1, <1>2 DEF IocpInit, NewAcceptor, IocpInv, EachComesBack, AcceptInv, UnderWay, Closing

-----------------------------------------------------------------------------
(* Its steps *)

\* All that the invariant speaks of, but for where RunOnce is.
LEMMA IocpKept ==
  ASSUME IocpInv, acceptor' = acceptor, udp' = udp, kernel' = kernel, posts' = posts,
         heard' = heard, early' = early, LoopTypes',
         \A key \in {"accept", "recvfrom", "this", "post"} : Packets(key)' = Packets(key),
         at' = at \/ at' \in {"wait", "timers", "callback", "crashed"}
  PROVE  IocpInv'
BY DEF IocpInv, EachComesBack, AcceptInv, UnderWay, Closing

\* The state of the listener, and what is under way of it, stay.
LEMMA ListenerKept ==
  ASSUME AcceptInv, acceptor' = acceptor, kernel'.accept = kernel.accept,
         heard' = heard, early' = early,
         Packets("accept")' = Packets("accept"), Packets("this")' = Packets("this"),
         at' = at \/ at' \in {"wait", "timers", "callback", "crashed"}
  PROVE  AcceptInv'
BY DEF AcceptInv, UnderWay, Closing

LEMMA KernelStep ==
  ASSUME IocpInv, Kernel
  PROVE  IocpInv'
<1> USE DEF IocpInv
<1>1. CASE Connects
  <2>1. LoopTypes' /\ UNCHANGED <<acceptor, udp, kernel, posts, heard, early, at, port, hand>>
    BY <1>1 DEF Connects, LoopTypes, loopVars
  <2> QED
    BY <2>1, PortKept, IocpKept
<1>2. ASSUME NEW kind \in {"accept", "recvfrom"}, NEW result \in BOOLEAN,
             Complete(kind, result)
      PROVE  IocpInv'
  <2> DEFINE p == [key |-> kind, ok |-> result]
  <2>1. /\ p \in LoopPackets /\ p.key = kind
        /\ port' = Append(port, p)
        /\ UNCHANGED <<acceptor, udp, hand, at, posts, heard, early>>
    BY <1>2 DEF Complete, LoopPackets
  <2>2. /\ kernel[kind] \in Nat /\ kernel[kind] > 0
        /\ kernel' \in LoopKernels
        /\ kernel'.accept = IF kind = "accept" THEN kernel.accept - 1 ELSE kernel.accept
        /\ kernel'.recvfrom = IF kind = "recvfrom" THEN kernel.recvfrom - 1 ELSE kernel.recvfrom
        /\ kernel.accept \in Nat /\ kernel.recvfrom \in Nat
    BY <1>2 DEF Complete, LoopTypes, LoopKernels
  <2>3. port' \in Seq(LoopPackets)
    BY <2>1 DEF LoopTypes
  <2>4. LoopTypes'
    BY <2>1, <2>2, <2>3 DEF LoopTypes
  <2>5. \A key : Packets(key)' = Packets(key) + One(p, key) /\ Packets(key) \in Nat
    BY <2>1, PacketPosted
  <2>6. /\ Packets("accept")' = Packets("accept") + (IF kind = "accept" THEN 1 ELSE 0)
        /\ Packets("recvfrom")' = Packets("recvfrom") + (IF kind = "recvfrom" THEN 1 ELSE 0)
        /\ Packets("this")' = Packets("this") /\ Packets("post")' = Packets("post")
    BY <2>1, <2>5 DEF One
  <2>7. UnderWay' = UnderWay
    BY <2>2, <2>5, <2>6 DEF UnderWay
  <2>8. kernel'.recvfrom + Packets("recvfrom")' = kernel.recvfrom + Packets("recvfrom")
    BY <2>2, <2>5, <2>6
  <2> HIDE DEF p
  <2>9. EachComesBack'
    <3>1. udp'.asked = udp'.answered + kernel'.recvfrom + Packets("recvfrom")'
      <4>1. udp.answered \in Nat
        BY DEF LoopTypes, LoopUdps
      <4>2. udp.asked = udp.answered + kernel.recvfrom + Packets("recvfrom")
        BY DEF EachComesBack
      <4>3. kernel'.recvfrom \in Nat /\ kernel.recvfrom \in Nat
        BY <2>2 DEF LoopKernels
      <4>4. Packets("recvfrom") \in Nat /\ Packets("recvfrom")' \in Nat
        BY <2>5, <2>6
      <4>5. udp.asked = udp.answered + kernel'.recvfrom + Packets("recvfrom")'
        BY <2>8, <4>1, <4>2, <4>3, <4>4
      <4> QED
        BY <2>1, <4>5
    <3>2. acceptor'.alive => acceptor'.m_nAcceptCount = UnderWay'
      BY <2>1, <2>7 DEF EachComesBack, UnderWay
    <3>3. UnderWay' <= 1 /\ posts'.made = posts'.delivered + Packets("post")'
      BY <2>1, <2>6, <2>7 DEF EachComesBack, UnderWay
    <3> QED
      BY <3>1, <3>2, <3>3 DEF EachComesBack, UnderWay
  <2>10. AcceptInv'
    BY <2>1, <2>6, <2>7 DEF AcceptInv, Closing
  <2> QED
    BY <2>4, <2>9, <2>10
<1> QED
  BY <1>1, <1>2 DEF Kernel, AcceptSucceeds, AcceptFails, RecvFromCompletes

LEMMA UserStep ==
  ASSUME IocpInv, UserCall
  PROVE  IocpInv'
<1> USE DEF IocpInv
<1>1. CASE IocpOpenAccept
  <2>1. /\ acceptor.alive /\ acceptor.m_server = "none"
        /\ UNCHANGED <<udp, posts, port, hand, at, early>>
    BY <1>1 DEF IocpOpenAccept, loopVars
  <2>2. \A key : Packets(key)' = Packets(key) /\ Packets(key) \in Nat
    BY <2>1, PortKept
  <2>3. UnderWay = 0 /\ acceptor.m_nAcceptCount = 0 /\ ~Closing /\ at # "accepting"
    BY <2>1 DEF AcceptInv, EachComesBack, UnderWay
  <2>4. /\ kernel.accept = 0 /\ Packets("accept") = 0
        /\ Packets("this") = 0 /\ heard # "closed"
    BY <2>2, <2>3 DEF UnderWay, Closing, LoopTypes, LoopKernels
  <2>5. CASE heard' = "failed" /\ UNCHANGED <<acceptor, kernel, deaf>>
    <3>1. LoopTypes'
      BY <2>1, <2>5 DEF LoopTypes
    <3>2. AcceptInv'
      BY <2>1, <2>2, <2>4, <2>5 DEF AcceptInv, UnderWay, Closing
    <3> QED
      BY <2>1, <2>2, <2>5, <3>1, <3>2 DEF EachComesBack
  <2>6. ASSUME NEW s \in {"none", "open"}, UNCHANGED kernel, heard' = "failed",
               acceptor' = [acceptor EXCEPT !.m_server = "open", !.m_socket = s,
                                            !.m_nLinkStatus = "ESTABLISHED"]
        PROVE  IocpInv'
    <3>1. /\ acceptor' \in Acceptors
          /\ acceptor'.m_server = "open" /\ acceptor'.m_nAcceptCount = 0
      BY <2>3, <2>6, CountInt DEF LoopTypes, Acceptors
    <3>2. LoopTypes'
      BY <2>1, <2>6, <3>1 DEF LoopTypes
    <3>3. AcceptInv'
      BY <2>1, <2>2, <2>3, <2>4, <2>6, <3>1 DEF AcceptInv, UnderWay, Closing
    <3>4. EachComesBack'
      BY <2>1, <2>2, <2>4, <2>6, <3>1 DEF EachComesBack
    <3> QED
      BY <3>2, <3>3, <3>4
  <2>7. ASSUME acceptor' = [acceptor EXCEPT !.m_server = "open", !.m_socket = "open",
                              !.m_nLinkStatus = "ESTABLISHED", !.m_nAcceptCount = @ + 1],
               kernel' = [kernel EXCEPT !.accept = @ + 1], heard' = "open"
        PROVE  IocpInv'
    <3>1. /\ acceptor' \in Acceptors
          /\ acceptor'.m_server = "open" /\ acceptor'.m_nAcceptCount = 1
      <4> DEFINE opened == [acceptor EXCEPT !.m_server = "open",
                                            !.m_nLinkStatus = "ESTABLISHED"]
      <4>1. opened \in Acceptors /\ opened.m_server = "open" /\ opened.m_nAcceptCount = 0
        BY <2>3 DEF LoopTypes, Acceptors
      <4>2. acceptor' = [opened EXCEPT !.m_socket = "open", !.m_nAcceptCount = @ + 1]
        BY <2>7
      <4> HIDE DEF opened
      <4> QED
        BY <4>1, <4>2, AcceptPosted
    <3>2. /\ kernel' \in LoopKernels /\ kernel'.accept = 1
          /\ kernel'.recvfrom = kernel.recvfrom
      BY <2>4, <2>7 DEF LoopTypes, LoopKernels
    <3>3. LoopTypes'
      BY <2>1, <2>7, <3>1, <3>2 DEF LoopTypes
    <3>4. AcceptInv'
      BY <2>1, <2>2, <2>3, <2>4, <2>7, <3>1 DEF AcceptInv, UnderWay, Closing
    <3>5. EachComesBack'
      BY <2>1, <2>2, <2>4, <2>7, <3>1, <3>2 DEF EachComesBack
    <3> QED
      BY <3>3, <3>4, <3>5
  <2> QED
    BY <1>1, <2>5, <2>6, <2>7 DEF IocpOpenAccept
<1>2. CASE Close
  <2> DEFINE p == [key |-> "this", ok |-> TRUE]
  <2>1. /\ acceptor.alive /\ acceptor.m_nLinkStatus = "ESTABLISHED"
        /\ early' = (at = "accepting")
        /\ UNCHANGED <<udp, kernel, hand, at, posts, heard>>
    BY <1>2 DEF Close
  <2>2. /\ acceptor' \in Acceptors
        /\ acceptor'.m_nLinkStatus \in {"WAITCLOSE", "WAITCLEAR"}
        /\ acceptor'.alive /\ acceptor'.m_server = acceptor.m_server
        /\ acceptor'.m_nAcceptCount = acceptor.m_nAcceptCount
    <3> DEFINE closed == [acceptor EXCEPT !.m_socket = IF @ = "open" THEN "closed" ELSE @]
    <3>1. \E st \in {"WAITCLOSE", "WAITCLEAR"} :
             acceptor' = [closed EXCEPT !.m_nLinkStatus = st]
      BY <1>2 DEF Close
    <3>2. closed \in Acceptors /\ closed.alive /\ closed.m_server = acceptor.m_server
          /\ closed.m_nAcceptCount = acceptor.m_nAcceptCount
      BY <2>1 DEF LoopTypes, Acceptors
    <3> HIDE DEF closed
    <3> QED
      BY <3>1, <3>2 DEF Acceptors
  <2>3. ~Closing /\ acceptor.m_server # "none" /\ acceptor.m_nAcceptCount = UnderWay
    BY <2>1 DEF AcceptInv, EachComesBack, UnderWay
  <2>4. p \in LoopPackets /\ p.key = "this"
    BY DEF LoopPackets
  <2>5. early' \in BOOLEAN
    BY Zenon, <2>1
  <2>6. CASE port' = port
    <3>1. \A key : Packets(key)' = Packets(key) /\ Packets(key) \in Nat
      BY <2>1, <2>6, PortKept
    <3>2. LoopTypes'
      BY <2>1, <2>2, <2>5, <2>6 DEF LoopTypes
    <3>3. UnderWay' = UnderWay /\ Closing' = Closing
      BY <2>1, <3>1 DEF UnderWay, Closing
    <3>4. AcceptInv'
      BY <2>1, <2>2, <2>3, <3>3 DEF AcceptInv
    <3>5. EachComesBack'
      BY <2>1, <2>2, <3>1 DEF EachComesBack
    <3> QED
      BY <3>2, <3>4, <3>5
  <2>7. CASE port' = Append(port, p) /\ ~(acceptor.m_nAcceptCount > 0)
    <3>1. \A key : Packets(key)' = Packets(key) + One(p, key) /\ Packets(key) \in Nat
      BY <2>1, <2>4, <2>7, PacketPosted
    <3>2. /\ Packets("accept")' = Packets("accept") /\ Packets("post")' = Packets("post")
          /\ Packets("recvfrom")' = Packets("recvfrom")
      BY <2>4, <3>1 DEF One
    <3>3. port' \in Seq(LoopPackets)
      BY <2>4, <2>7 DEF LoopTypes
    <3> HIDE DEF p
    <3>4. LoopTypes'
      BY <2>1, <2>2, <2>5, <3>3 DEF LoopTypes
    <3>5. UnderWay' = UnderWay /\ UnderWay = 0
      BY <2>1, <2>3, <2>7, <3>1, <3>2 DEF UnderWay, LoopTypes, LoopKernels
    <3>6. AcceptInv'
      BY <2>1, <2>2, <2>3, <3>5 DEF AcceptInv
    <3>7. EachComesBack'
      BY <2>1, <2>2, <3>2 DEF EachComesBack
    <3> QED
      BY <3>4, <3>6, <3>7
  <2> QED
    BY <1>2, <2>6, <2>7 DEF Close
<1>3. CASE Destroy
  <2>1. /\ at = "callback" /\ heard = "closed"
        /\ UNCHANGED <<udp, kernel, port, hand, at, posts, heard, early>>
    BY <1>3 DEF Destroy, loopVars
  <2>2. acceptor' \in Acceptors /\ ~acceptor'.alive /\ acceptor'.m_server = "closed"
        /\ acceptor'.m_nLinkStatus = acceptor.m_nLinkStatus
    BY <1>3 DEF Destroy, LoopTypes, Acceptors
  <2>3. \A key : Packets(key)' = Packets(key) /\ Packets(key) \in Nat
    BY <2>1, PortKept
  <2>4. LoopTypes'
    BY <2>1, <2>2 DEF LoopTypes
  <2>5. AcceptInv'
    BY <2>1, <2>2, <2>3 DEF AcceptInv, UnderWay, Closing
  <2> QED
    BY <2>1, <2>2, <2>3, <2>4, <2>5 DEF EachComesBack
<1>4. CASE IocpPost
  <2> DEFINE p == [key |-> "post", ok |-> TRUE]
  <2>1. /\ UNCHANGED <<acceptor, udp, kernel, hand, at, heard, early>>
        /\ port' = Append(port, p)
    BY <1>4 DEF IocpPost
  <2>2. /\ posts' \in LoopPosts /\ posts'.made = posts.made + 1
        /\ posts'.delivered = posts.delivered /\ posts.made \in Nat /\ posts.delivered \in Nat
    BY <1>4 DEF IocpPost, LoopTypes, LoopPosts
  <2>3. p \in LoopPackets /\ p.key = "post"
    BY DEF LoopPackets
  <2>4. \A key : Packets(key)' = Packets(key) + One(p, key) /\ Packets(key) \in Nat
    BY <2>1, <2>3, PacketPosted
  <2>5. /\ Packets("accept")' = Packets("accept") /\ Packets("this")' = Packets("this")
        /\ Packets("recvfrom")' = Packets("recvfrom")
        /\ Packets("post")' = Packets("post") + 1
    BY <2>3, <2>4 DEF One
  <2>6. port' \in Seq(LoopPackets)
    BY <2>1, <2>3 DEF LoopTypes
  <2> HIDE DEF p
  <2>7. LoopTypes'
    BY <2>1, <2>2, <2>6 DEF LoopTypes
  <2>8. AcceptInv'
    BY <2>1, <2>5, ListenerKept
  <2> QED
    <3>1. posts.made = posts.delivered + Packets("post")
      BY DEF EachComesBack
    <3>2. posts'.made = posts'.delivered + Packets("post")'
      BY <2>2, <2>4, <2>5, <3>1
    <3>3. EachComesBack'
      BY <2>1, <2>5, <3>2 DEF EachComesBack
    <3> QED
      BY <2>7, <2>8, <3>3
<1>5. CASE UdpInitialize
  <2>1. UNCHANGED <<acceptor, kernel, port, hand, at, posts, heard, early>>
    BY <1>5 DEF UdpInitialize, loopVars
  <2>2. udp' \in LoopUdps /\ udp'.asked = udp.asked /\ udp'.answered = udp.answered
    BY <1>5 DEF UdpInitialize, LoopTypes, LoopUdps
  <2>3. \A key : Packets(key)' = Packets(key) /\ Packets(key) \in Nat
    BY <2>1, PortKept
  <2>4. LoopTypes'
    BY <2>1, <2>2 DEF LoopTypes
  <2>5. AcceptInv'
    BY <2>1, <2>3, ListenerKept
  <2> QED
    BY <2>1, <2>2, <2>3, <2>4, <2>5 DEF EachComesBack
<1>6. CASE UdpDoRecv
  <2>1. UNCHANGED <<acceptor, port, hand, at, posts, heard, early>>
    BY <1>6 DEF UdpDoRecv, loopVars
  <2>2. /\ udp' \in LoopUdps /\ udp'.asked = udp.asked + 1 /\ udp'.answered = udp.answered
        /\ udp.asked \in Nat /\ udp.answered \in Nat
    BY <1>6 DEF UdpDoRecv, LoopTypes, LoopUdps
  <2>3. /\ kernel' \in LoopKernels /\ kernel'.recvfrom = kernel.recvfrom + 1
        /\ kernel'.accept = kernel.accept /\ kernel.recvfrom \in Nat
    BY <1>6 DEF UdpDoRecv, LoopTypes, LoopKernels
  <2>4. \A key : Packets(key)' = Packets(key) /\ Packets(key) \in Nat
    BY <2>1, PortKept
  <2>5. LoopTypes'
    BY <2>1, <2>2, <2>3 DEF LoopTypes
  <2>6. AcceptInv'
    BY <2>1, <2>3, <2>4, ListenerKept
  <2> QED
    BY <2>1, <2>2, <2>3, <2>4, <2>5, <2>6 DEF EachComesBack
<1> QED
  BY <1>1, <1>2, <1>3, <1>4, <1>5, <1>6 DEF UserCall

LEMMA LoopStep ==
  ASSUME IocpInv, RunOnce
  PROVE  IocpInv'
<1> USE DEF IocpInv
<1>1. CASE Dequeue
  <2>1. at' = "timers" /\ hand = <<>>
        /\ UNCHANGED <<acceptor, udp, kernel, posts, heard, early>>
    BY <1>1 DEF Dequeue, LoopTypes
  <2>2. CASE port = <<>>
    <3>1. LoopTypes' /\ UNCHANGED <<port, hand>>
      BY <1>1, <2>1, <2>2 DEF Dequeue, LoopTypes
    <3> QED
      BY <2>1, <3>1, PortKept, IocpKept
  <2>3. CASE port # <<>>
    <3>1. hand' = <<Head(port)>> /\ port' = Tail(port)
      BY <1>1, <2>3 DEF Dequeue
    <3>2. Head(port) \in LoopPackets /\ Tail(port) \in Seq(LoopPackets)
      BY <2>3 DEF LoopTypes
    <3>3. LoopTypes'
      BY <2>1, <3>1, <3>2 DEF LoopTypes
    <3>4. \A key : Packets(key)' = Packets(key)
      BY <2>1, <2>3, <3>1, PacketTaken
    <3> QED
      BY <2>1, <3>3, <3>4, IocpKept
  <2> QED
    BY <2>2, <2>3
<1>2. CASE TimeOut \/ CallbackReturns
  <2>1. at' = "wait" /\ hand = <<>>
        /\ UNCHANGED <<acceptor, udp, kernel, posts, heard, early, port, hand>>
    BY <1>2 DEF TimeOut, CallbackReturns, LoopTypes
  <2>2. LoopTypes'
    BY <2>1 DEF LoopTypes
  <2> QED
    BY <2>1, <2>2, PortKept, IocpKept
<1>3. CASE AcceptClosing
  <2> DEFINE p == [key |-> "null", ok |-> TRUE]
  <2>1. /\ hand # <<>> /\ hand[1].key = "accept" /\ hand' = <<>> /\ at' = "wait"
        /\ port' = Append(port, p) /\ acceptor.alive
        /\ UNCHANGED <<udp, kernel, posts, heard, early>>
    BY <1>3 DEF AcceptClosing, Handles, Handled
  <2>2. /\ acceptor' \in Acceptors /\ acceptor'.alive
        /\ acceptor'.m_nLinkStatus = "WAITCLEAR" /\ acceptor'.m_server = acceptor.m_server
        /\ acceptor'.m_nAcceptCount = acceptor.m_nAcceptCount - 1
    BY <1>3, CountInt DEF AcceptClosing, LoopTypes, Acceptors
  <2>3. p \in LoopPackets /\ p.key = "null"
    BY DEF LoopPackets
  <2>4. \A key : /\ Packets(key) + One(p, key) = Packets(key)' + One(hand[1], key)
                 /\ Packets(key) \in Nat /\ Packets(key)' \in Nat
    BY <2>1, <2>3, PacketAnswered
  <2>5. /\ Packets("accept") = Packets("accept")' + 1
        /\ Packets("this") = Packets("this")' /\ Packets("post") = Packets("post")'
        /\ Packets("recvfrom") = Packets("recvfrom")'
    BY <2>1, <2>3, <2>4 DEF One
  <2>6. port' \in Seq(LoopPackets)
    BY <2>1, <2>3 DEF LoopTypes
  <2> HIDE DEF p
  <2>7. LoopTypes'
    BY <2>1, <2>2, <2>6 DEF LoopTypes
  <2>8. /\ UnderWay = 1 /\ UnderWay' = 0
    BY <2>1, <2>4, <2>5 DEF UnderWay, EachComesBack, LoopTypes, LoopKernels
  <2>9. AcceptInv'
    BY <2>1, <2>2, <2>5, <2>8 DEF AcceptInv, Closing
  <2>10. EachComesBack'
    BY <2>1, <2>2, <2>5, <2>8 DEF EachComesBack, UnderWay
  <2> QED
    BY <2>7, <2>9, <2>10
<1>4. ASSUME Accepts \/ AcceptLost PROVE IocpInv'
  <2>1. /\ hand # <<>> /\ hand[1].key = "accept" /\ hand' = <<>>
        /\ at' \in {"wait", "accepting"} /\ acceptor.alive
        /\ UNCHANGED <<udp, kernel, posts, port, heard, early>>
    BY <1>4 DEF Accepts, AcceptLost, Handles, Handled
  <2>2. /\ acceptor' \in Acceptors /\ acceptor'.alive
        /\ acceptor'.m_nLinkStatus = acceptor.m_nLinkStatus
        /\ acceptor'.m_server = acceptor.m_server
        /\ acceptor'.m_nAcceptCount = acceptor.m_nAcceptCount - 1
    BY <1>4, CountInt DEF Accepts, AcceptLost, LoopTypes, Acceptors
  <2>3. \A key : /\ Packets(key) = Packets(key)' + One(hand[1], key)
                 /\ Packets(key)' \in Nat
    BY <2>1, PacketHandled
  <2>4. /\ Packets("accept") = Packets("accept")' + 1
        /\ Packets("this") = Packets("this")' /\ Packets("post") = Packets("post")'
        /\ Packets("recvfrom") = Packets("recvfrom")'
    BY <2>1, <2>3 DEF One
  <2>5. LoopTypes'
    BY <2>1, <2>2 DEF LoopTypes
  <2>6. UnderWay = 1 /\ UnderWay' = 0
    BY <2>1, <2>3, <2>4 DEF UnderWay, EachComesBack, LoopTypes, LoopKernels
  <2>7. AcceptInv'
    BY <2>1, <2>2, <2>4, <2>6 DEF AcceptInv, Closing
  <2>8. EachComesBack'
    BY <2>1, <2>2, <2>4, <2>6 DEF EachComesBack, UnderWay
  <2> QED
    BY <2>5, <2>7, <2>8
<1>5. CASE AcceptAgain
  <2>1. /\ at = "accepting" /\ at' = "wait"
        /\ UNCHANGED <<udp, port, hand, posts, heard, early>>
    BY <1>5 DEF AcceptAgain
  <2>2. \A key : Packets(key)' = Packets(key) /\ Packets(key) \in Nat
    BY <2>1, PortKept
  <2>3. /\ acceptor.alive /\ acceptor.m_server # "none" /\ UnderWay = 0
        /\ ~(Closing /\ ~early) /\ acceptor.m_nAcceptCount = 0
    BY <2>1 DEF AcceptInv, EachComesBack, UnderWay
  <2>4. /\ kernel.accept = 0 /\ Packets("accept") = 0
    BY <2>2, <2>3 DEF UnderWay, LoopTypes, LoopKernels
  <2>5. ASSUME NEW s \in {"none", "open"}, acceptor' = [acceptor EXCEPT !.m_socket = s],
               UNCHANGED kernel
        PROVE  IocpInv'
    <3>1. /\ acceptor' \in Acceptors /\ acceptor'.alive = acceptor.alive
          /\ acceptor'.m_nLinkStatus = acceptor.m_nLinkStatus
          /\ acceptor'.m_server = acceptor.m_server /\ acceptor'.m_nAcceptCount = 0
      BY <2>3, <2>5 DEF LoopTypes, Acceptors
    <3>2. LoopTypes'
      BY <2>1, <2>5, <3>1 DEF LoopTypes
    <3>3. AcceptInv'
      BY <2>1, <2>2, <2>3, <2>5, <3>1 DEF AcceptInv, UnderWay, Closing
    <3>4. EachComesBack'
      BY <2>1, <2>2, <2>4, <2>5, <3>1 DEF EachComesBack
    <3> QED
      BY <3>2, <3>3, <3>4
  <2>6. ASSUME acceptor' = [acceptor EXCEPT !.m_socket = "open", !.m_nAcceptCount = @ + 1],
               kernel' = [kernel EXCEPT !.accept = @ + 1]
        PROVE  IocpInv'
    <3>1. /\ acceptor' \in Acceptors /\ acceptor'.alive = acceptor.alive
          /\ acceptor'.m_nLinkStatus = acceptor.m_nLinkStatus
          /\ acceptor'.m_server = acceptor.m_server /\ acceptor'.m_nAcceptCount = 1
      BY <2>3, <2>6, AcceptPosted DEF LoopTypes
    <3>2. /\ kernel' \in LoopKernels /\ kernel'.accept = 1
          /\ kernel'.recvfrom = kernel.recvfrom
      BY <2>4, <2>6 DEF LoopTypes, LoopKernels
    <3>3. LoopTypes'
      BY <2>1, <3>1, <3>2 DEF LoopTypes
    <3>4. AcceptInv'
      BY <2>1, <2>2, <2>3, <3>1 DEF AcceptInv, UnderWay, Closing
    <3>5. EachComesBack'
      BY <2>1, <2>2, <2>4, <3>1, <3>2 DEF EachComesBack
    <3> QED
      BY <3>3, <3>4, <3>5
  <2> QED
    BY <1>5, <2>5, <2>6 DEF AcceptAgain
<1>6. CASE AcceptForDeleted \/ OnClearOfNull
  <2>1. /\ hand # <<>> /\ hand[1].key \in {"accept", "null"} /\ hand' = <<>>
        /\ at' \in {"wait", "crashed"}
        /\ hand[1].key = "accept" => ~acceptor.alive
        /\ UNCHANGED <<acceptor, udp, kernel, posts, port, heard, early>>
    BY <1>6 DEF AcceptForDeleted, OnClearOfNull, Handles, Handled
  <2>2. \A key : /\ Packets(key) = Packets(key)' + One(hand[1], key)
                 /\ Packets(key)' \in Nat
    BY <2>1, PacketHandled
  <2>3. /\ Packets("accept") = Packets("accept")' + One(hand[1], "accept")
        /\ One(hand[1], "accept") = IF hand[1].key = "accept" THEN 1 ELSE 0
        /\ Packets("this") = Packets("this")' /\ Packets("post") = Packets("post")'
        /\ Packets("recvfrom") = Packets("recvfrom")'
    BY <2>1, <2>2 DEF One
  <2>4. LoopTypes'
    BY <2>1 DEF LoopTypes
  <2>5. UnderWay' <= UnderWay /\ UnderWay' \in Nat /\ UnderWay \in Nat
    BY <2>1, <2>2, <2>3 DEF UnderWay, LoopTypes, LoopKernels
  <2>6. AcceptInv'
    BY <2>1, <2>3, <2>5 DEF AcceptInv, Closing
  <2>7. EachComesBack'
    BY <2>1, <2>2, <2>3, <2>5 DEF EachComesBack, UnderWay
  <2> QED
    BY <2>4, <2>6, <2>7
<1>7. CASE OnClear
  <2>1. /\ hand # <<>> /\ hand[1].key = "this" /\ hand' = <<>> /\ at' = "callback"
        /\ heard' = "closed"
        /\ UNCHANGED <<acceptor, udp, kernel, posts, port, early>>
    BY <1>7 DEF OnClear, Handles, Handled
  <2>2. \A key : /\ Packets(key) = Packets(key)' + One(hand[1], key)
                 /\ Packets(key)' \in Nat
    BY <2>1, PacketHandled
  <2>3. /\ Packets("accept") = Packets("accept")' /\ Packets("post") = Packets("post")'
        /\ Packets("recvfrom") = Packets("recvfrom")' /\ Packets("this") > 0
    BY <2>1, <2>2 DEF One
  <2>4. LoopTypes'
    BY <2>1 DEF LoopTypes
  <2>5. UnderWay' = UnderWay /\ Closing
    BY <2>1, <2>3 DEF UnderWay, Closing
  <2>6. AcceptInv'
    BY <2>1, <2>5 DEF AcceptInv, Closing
  <2>7. EachComesBack'
    BY <2>1, <2>3 DEF EachComesBack
  <2> QED
    BY <2>4, <2>6, <2>7
<1>8. CASE OnIocpPost
  <2>1. /\ hand # <<>> /\ hand[1].key = "post" /\ hand' = <<>> /\ at' = "callback"
        /\ UNCHANGED <<acceptor, udp, kernel, heard, port, early>>
    BY <1>8 DEF OnIocpPost, Handles, Handled
  <2>2. /\ posts' \in LoopPosts /\ posts'.made = posts.made
        /\ posts'.delivered = posts.delivered + 1
        /\ posts.made \in Nat /\ posts.delivered \in Nat
    BY <1>8 DEF OnIocpPost, LoopTypes, LoopPosts
  <2>3. \A key : /\ Packets(key) = Packets(key)' + One(hand[1], key)
                 /\ Packets(key)' \in Nat
    BY <2>1, PacketHandled
  <2>4. /\ Packets("accept") = Packets("accept")' /\ Packets("post") = Packets("post")' + 1
        /\ Packets("recvfrom") = Packets("recvfrom")' /\ Packets("this") = Packets("this")'
    BY <2>1, <2>3 DEF One
  <2>5. LoopTypes'
    BY <2>1, <2>2 DEF LoopTypes
  <2>6. AcceptInv'
    BY <2>1, <2>4, ListenerKept
  <2>7. EachComesBack'
    <3>1. posts.made = posts.delivered + Packets("post")
      BY DEF EachComesBack
    <3>2. Packets("post")' \in Nat
      BY <2>3
    <3>3. posts'.made = posts'.delivered + Packets("post")'
      BY <2>2, <2>4, <3>1, <3>2
    <3> QED
      BY <2>1, <2>4, <3>3 DEF EachComesBack
  <2> QED
    BY <2>5, <2>6, <2>7
<1>9. CASE OnRecvFrom
  <2>1. /\ hand # <<>> /\ hand[1].key = "recvfrom" /\ hand' = <<>> /\ at' = "callback"
        /\ UNCHANGED <<acceptor, kernel, posts, heard, port, early>>
    BY <1>9 DEF OnRecvFrom, Handles, Handled
  <2>2. /\ udp' \in LoopUdps /\ udp'.asked = udp.asked
        /\ udp'.answered = udp.answered + 1
        /\ udp.asked \in Nat /\ udp.answered \in Nat
    BY <1>9 DEF OnRecvFrom, LoopTypes, LoopUdps
  <2>3. \A key : /\ Packets(key) = Packets(key)' + One(hand[1], key)
                 /\ Packets(key)' \in Nat
    BY <2>1, PacketHandled
  <2>4. /\ Packets("accept") = Packets("accept")' /\ Packets("post") = Packets("post")'
        /\ Packets("recvfrom") = Packets("recvfrom")' + 1 /\ Packets("this") = Packets("this")'
    BY <2>1, <2>3 DEF One
  <2>5. LoopTypes'
    BY <2>1, <2>2 DEF LoopTypes
  <2>6. AcceptInv'
    BY <2>1, <2>4, ListenerKept
  <2>7. kernel.recvfrom \in Nat
    BY DEF LoopTypes, LoopKernels
  <2>8. EachComesBack'
    <3>1. udp.asked = udp.answered + kernel.recvfrom + Packets("recvfrom")
      BY DEF EachComesBack
    <3>2. udp'.asked = udp'.answered + kernel'.recvfrom + Packets("recvfrom")'
      BY <2>1, <2>2, <2>3, <2>4, <2>7, <3>1
    <3> QED
      BY <2>1, <2>4, <3>2 DEF EachComesBack
  <2> QED
    BY <2>5, <2>6, <2>8
<1> QED
  BY <1>1, <1>2, <1>3, <1>4, <1>5, <1>6, <1>7, <1>8, <1>9 DEF RunOnce

LEMMA IocpInvStep == IocpInv /\ [IocpNext]_iocpVars => IocpInv'
<1> SUFFICES ASSUME IocpInv, [IocpNext]_iocpVars PROVE IocpInv'
  OBVIOUS
<1>1. CASE UNCHANGED iocpVars
  <2>1. LoopTypes' /\ UNCHANGED <<acceptor, udp, kernel, posts, heard, early, at, port, hand>>
    BY <1>1 DEF iocpVars, loopVars, LoopTypes, IocpInv
  <2> QED
    BY <2>1, PortKept, IocpKept DEF IocpInv
<1> QED
  BY <1>1, KernelStep, UserStep, LoopStep DEF IocpNext

-----------------------------------------------------------------------------

\* In every behaviour m_nAcceptCount is the number of accepts with the kernel or
\* on their way back, at most one; and every DoRecv and Post is answered exactly
\* once or on its way.
THEOREM OperationsComeBack == IocpSpec => []EachComesBack
<1>1. IocpInv => EachComesBack
  BY DEF IocpInv
<1> QED
  BY <1>1, IocpInvInit, IocpInvStep, PTL DEF IocpSpec

\* In every behaviour no accept is under way once the listener was told closed,
\* unless Close was called in OnAccept.
THEOREM ClosedIsIdle == IocpSpec => []DeletableOnClose
<1>1. IocpInv => DeletableOnClose
  BY DEF IocpInv, AcceptInv, UnderWay, Closing, DeletableOnClose
<1> QED
  BY <1>1, IocpInvInit, IocpInvStep, PTL DEF IocpSpec
=============================================================================
