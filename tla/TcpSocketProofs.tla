--------------------------- MODULE TcpSocketProofs ---------------------------
(***************************************************************************)
(* Proofs about TcpSocket, for any sockets, any number of descriptors, and *)
(* users that keep to the discipline or do not.                            *)
(***************************************************************************)
EXTENDS TcpSocket, TLAPS

-----------------------------------------------------------------------------
(* Types *)

Types == {"ACCEPT", "CONNECT", "ESTABLISHED", "INVALIDE"}
Files == {"closed", "connecting", "quiet", "data", "eof", "reset", "refused", "failed"}
Sockets == [alive : BOOLEAN, type : Types, fd : Int, events : SUBSET Flags,
            recvBuf : BOOLEAN, sendBuf : BOOLEAN]
Regs == [ptr : Socks, events : SUBSET Flags] \cup {NoReg}
Events == [ptr : Socks, flag : SUBSET Flags]

Typed ==
    /\ obj \in [Socks -> Sockets]
    /\ file \in [Fds -> Files]
    /\ interest \in [Fds -> Regs]
    /\ m_events \subseteq Events
    /\ DOMAIN told = Socks

\* What of a socket this proof is about does not change.
SameSock(t) ==
    obj'[t].alive = obj[t].alive /\ obj'[t].type = obj[t].type /\ obj'[t].fd = obj[t].fd

\* One socket gets other members.
LEMMA ObjExcept ==
  ASSUME Typed, NEW s \in Socks, NEW r \in Sockets, obj' = [obj EXCEPT ![s] = r]
  PROVE  /\ obj' \in [Socks -> Sockets]
         /\ obj'[s] = r
         /\ \A t \in Socks : t # s => SameSock(t)
BY DEF Typed, SameSock

\* The members that DoSend, DoRecv and the handlers of data change.
LEMMA Asked ==
  ASSUME NEW o \in Sockets, NEW e \in SUBSET Flags
  PROVE  /\ [o EXCEPT !.events = e] \in Sockets
         /\ \A b \in BOOLEAN :
              /\ [o EXCEPT !.recvBuf = b, !.events = e] \in Sockets
              /\ [o EXCEPT !.sendBuf = b, !.events = e] \in Sockets
BY DEF Sockets

-----------------------------------------------------------------------------
(* The invariant *)

Old(s) == obj[s].type \in {"ESTABLISHED", "INVALIDE"}

\* What the type of a socket says of it, and what the user was told.
TypesInv == \A s \in Socks :
    /\ obj[s].type = "ESTABLISHED" => obj[s].fd \in Fds
    /\ ~obj[s].alive => obj[s].type = "INVALIDE"
    /\ told[s] \in {"open", "unwatched", "accepted"} => Old(s)
    /\ told[s] \in {"new", "failed"} => ~Old(s)
    /\ s \in Accepted => obj[s].type # "CONNECT"

\* A socket that is not established yet: the kernel and the batch know at most
\* its own descriptor.
NewInv == \A s \in Socks : ~Old(s) =>
    /\ \A f \in Fds : interest[f].ptr = s => obj[s].type = "CONNECT" /\ f = obj[s].fd
    /\ \A e \in m_events : e.ptr = s => obj[s].type = "CONNECT" /\ obj[s].fd \in Fds
    /\ \A e, d \in m_events : e.ptr = s /\ d.ptr = s => e = d

\* The socket RunOnce is busy with, and the sockets of the messages.
Gone == {s \in Socks : obj[s].type = "INVALIDE"} \cup {NoSock}

Busy == lpc \in {"in", "out"} \/ (lpc = "callback" /\ ret = "out")
Ending == lpc = "destroy" \/ (lpc = "callback" /\ ret = "destroy")

StackInv ==
    /\ Busy => cur \in Socks /\ Old(cur)
    /\ Ending => cur \in Socks /\ obj[cur].type = "INVALIDE"
    /\ ret \in {"wait", "events", "out", "dispatch", "destroy"}

MsgsInv == m_msgs \in Seq(Gone) /\ msgs \in Seq(Gone)

\* A socket that was established stays so until it is closed, and stays closed.
Ages == \A t \in Socks :
    Old(t) => /\ obj'[t].type \in {"ESTABLISHED", "INVALIDE"}
              /\ obj[t].type = "INVALIDE" => obj'[t].type = "INVALIDE"

OwnInv == Typed /\ TypesInv /\ NewInv /\ DescriptorsOwned

-----------------------------------------------------------------------------
(* Steps that leave alive, type and descriptor of every socket alone *)

LEMMA SameKept ==
  ASSUME OwnInv, obj' \in [Socks -> Sockets], \A t \in Socks : SameSock(t),
         file' \in [Fds -> Files], \A f \in Fds : file'[f] = "closed" <=> file[f] = "closed",
         interest' \in [Fds -> Regs],
         \A f \in Fds : interest'[f] = interest[f] \/ interest'[f] = NoReg
                          \/ (interest'[f].ptr \in Socks /\ Old(interest'[f].ptr)),
         m_events' \subseteq m_events,
         DOMAIN told' = Socks, \A t \in Socks : told'[t] \in {told[t], "closed"}
                                                  \/ (told'[t] \in {"open", "unwatched"} /\ told[t] = "accepted")
  PROVE  OwnInv' /\ Ages
<1> USE DEF OwnInv, SameSock
<1>1. Typed'
  BY DEF Typed
<1>2. TypesInv'
  BY DEF TypesInv, Old
<1>3. NoReg.ptr \notin Socks
  BY SocksAssumption DEF NoReg, Socks
<1>4. \A s \in Socks : Old(s)' <=> Old(s)
  BY DEF Old
<1>5. NewInv'
  <2> SUFFICES ASSUME NEW s \in Socks, ~Old(s)
               PROVE  /\ \A f \in Fds : interest'[f].ptr = s => obj'[s].type = "CONNECT" /\ f = obj'[s].fd
                      /\ \A e \in m_events' : e.ptr = s => obj'[s].type = "CONNECT" /\ obj'[s].fd \in Fds
                      /\ \A e, d \in m_events' : e.ptr = s /\ d.ptr = s => e = d
    BY <1>4 DEF NewInv
  <2>1. \A f \in Fds : interest'[f].ptr = s => interest[f].ptr = s
    BY <1>3
  <2> QED
    BY <2>1 DEF NewInv
<1>6. \A s \in Socks, f \in Fds : Holds(s, f)' <=> Holds(s, f)
  BY DEF Holds
<1>7. \A f \in Fds : OpenFd(f)' <=> OpenFd(f)
  BY DEF OpenFd
<1>8. DescriptorsOwned'
  BY <1>6, <1>7 DEF DescriptorsOwned
<1>9. Ages
  BY DEF Ages, Old
<1> QED
  BY <1>1, <1>2, <1>5, <1>8, <1>9

-----------------------------------------------------------------------------
(* Closing *)

\* o is s with other buffers and events.
CopyOf(o, s) == o \in Sockets /\ o.alive = obj[s].alive /\ o.type = obj[s].type /\ o.fd = obj[s].fd

\* CloseWith closes an established socket and its descriptor ...
Closes(s) ==
    /\ obj[s].type = "ESTABLISHED" /\ obj'[s].type = "INVALIDE"
    /\ obj'[s].alive = obj[s].alive /\ obj'[s].fd = obj[s].fd
    /\ \A t \in Socks : t # s => SameSock(t)
    /\ file' = [file EXCEPT ![obj[s].fd] = "closed"]
    /\ interest' = [interest EXCEPT ![obj[s].fd] = NoReg]
    /\ m_msgs' = Append(m_msgs, s)

\* ... and leaves every other one alone.
LEMMA CloseWithEffect ==
  ASSUME OwnInv, NEW s \in Socks, NEW o, CopyOf(o, s), CloseWith(s, o)
  PROVE  /\ obj' \in [Socks -> Sockets]
         /\ \/ Closes(s)
            \/ (\A t \in Socks : SameSock(t)) /\ UNCHANGED <<file, interest, m_msgs>>
<1>1. CASE o.type = "ESTABLISHED"
  <2> DEFINE r == [o EXCEPT !.type = "INVALIDE"]
  <2>1. obj' = [obj EXCEPT ![s] = r]
    BY <1>1 DEF CloseWith
  <2>2. /\ r \in Sockets /\ r.type = "INVALIDE" /\ r.alive = obj[s].alive
        /\ r.fd = obj[s].fd
    BY DEF CopyOf, Sockets, Types
  <2> HIDE DEF r
  <2>3. /\ obj' \in [Socks -> Sockets] /\ obj'[s] = r
        /\ \A t \in Socks : t # s => SameSock(t)
    BY <2>1, <2>2, ObjExcept DEF OwnInv
  <2>4. o.fd = obj[s].fd /\ obj[s].type = "ESTABLISHED"
    BY <1>1 DEF CopyOf
  <2> QED
    BY <1>1, <2>2, <2>3, <2>4 DEF CloseWith, Closes
<1>2. CASE o.type # "ESTABLISHED"
  <2>1. obj' = [obj EXCEPT ![s] = o] /\ UNCHANGED <<kernelVars, m_msgs>>
    BY <1>2 DEF CloseWith
  <2>2. obj' \in [Socks -> Sockets] /\ obj'[s] = o /\ \A t \in Socks : t # s => SameSock(t)
    BY <2>1, ObjExcept DEF OwnInv, CopyOf
  <2> QED
    BY <2>1, <2>2 DEF CopyOf, SameSock, kernelVars
<1> QED
  BY <1>1, <1>2

LEMMA AppendLater ==
  ASSUME NEW S, NEW T, S \subseteq T, NEW q \in Seq(S), NEW x \in T
  PROVE  Append(q, x) \in Seq(T) /\ q \in Seq(T)
OBVIOUS

LEMMA CloseWithStep ==
  ASSUME OwnInv, NEW s \in Socks, NEW o, CopyOf(o, s), CloseWith(s, o),
         m_events' \subseteq m_events, told' = told
  PROVE  OwnInv' /\ Ages /\ (m_msgs \in Seq(Gone) => m_msgs' \in Seq(Gone'))
<1> USE DEF OwnInv
<1>1. obj' \in [Socks -> Sockets]
  BY CloseWithEffect
<1>2. CASE (\A t \in Socks : SameSock(t)) /\ UNCHANGED <<file, interest, m_msgs>>
  <2>1. OwnInv' /\ Ages
    BY <1>1, <1>2, SameKept DEF Typed
  <2>2. Gone' = Gone
    BY <1>2 DEF Gone, SameSock
  <2> QED
    BY <1>2, <2>1, <2>2
<1>3. CASE Closes(s)
  <2> DEFINE f == obj[s].fd
  <2>1. f \in Fds /\ obj[s].alive
    BY <1>3 DEF Closes, TypesInv
  <2>2. /\ file'[f] = "closed" /\ interest'[f] = NoReg
        /\ \A g \in Fds : g # f => file'[g] = file[g] /\ interest'[g] = interest[g]
        /\ file' \in [Fds -> Files] /\ interest' \in [Fds -> Regs]
    BY <1>3, <2>1 DEF Closes, Typed, Files, Regs
  <2>3. Typed'
    BY <1>1, <2>2 DEF Typed
  <2>4. TypesInv'
    BY <1>3 DEF Closes, TypesInv, Old, SameSock
  <2>5. Old(s) /\ \A t \in Socks : Old(t)' <=> Old(t)
    BY <1>3 DEF Closes, Old, SameSock
  <2>6. NoReg.ptr \notin Socks
    BY SocksAssumption DEF NoReg, Socks
  <2>7. NewInv'
    <3> SUFFICES ASSUME NEW t \in Socks, ~Old(t)
                 PROVE  /\ \A g \in Fds : interest'[g].ptr = t => obj'[t].type = "CONNECT" /\ g = obj'[t].fd
                        /\ \A e \in m_events' : e.ptr = t => obj'[t].type = "CONNECT" /\ obj'[t].fd \in Fds
                        /\ \A e, d \in m_events' : e.ptr = t /\ d.ptr = t => e = d
      BY <2>5 DEF NewInv
    <3>1. SameSock(t)
      BY <1>3, <2>5 DEF Closes
    <3> QED
      BY <2>2, <2>6, <3>1 DEF NewInv, SameSock
  <2>8. \A t \in Socks, g \in Fds : Holds(t, g)' <=> Holds(t, g) /\ t # s
    BY <1>3 DEF Holds, Closes, SameSock
  <2>9. Holds(s, f)
    BY <1>3, <2>1 DEF Holds, Closes
  <2> HIDE DEF f
  <2>10. DescriptorsOwned'
    <3> SUFFICES ASSUME NEW g \in Fds
                 PROVE  /\ OpenFd(g)' <=> \E t \in Socks : Holds(t, g)'
                        /\ \A t, u \in Socks : Holds(t, g)' /\ Holds(u, g)' => t = u
      BY DEF DescriptorsOwned
    <3>1. /\ OpenFd(g) <=> \E t \in Socks : Holds(t, g)
          /\ \A t, u \in Socks : Holds(t, g) /\ Holds(u, g) => t = u
      BY DEF DescriptorsOwned
    <3>2. CASE g = f
      <4>1. \A t \in Socks : ~Holds(t, g)'
        BY <2>8, <2>9, <3>1, <3>2
      <4> QED
        BY <2>2, <3>2, <4>1 DEF OpenFd
    <3>3. CASE g # f
      <4>1. ~Holds(s, g)
        BY <2>9, <3>3 DEF Holds
      <4>2. \A t \in Socks : Holds(t, g)' <=> Holds(t, g)
        BY <2>8, <4>1
      <4> QED
        BY <2>2, <3>1, <3>3, <4>2 DEF OpenFd
    <3> QED
      BY <3>2, <3>3
  <2>11. Ages
    BY <1>3 DEF Closes, Ages, Old, SameSock
  <2>12. m_msgs \in Seq(Gone) => m_msgs' \in Seq(Gone')
    <3>1. Gone \subseteq Gone' /\ s \in Gone'
      BY <1>3 DEF Closes, Gone, SameSock
    <3> QED
      BY <1>3, <3>1, AppendLater DEF Closes
  <2> QED
    BY <2>3, <2>4, <2>7, <2>10, <2>11, <2>12
<1> QED
  BY <1>2, <1>3, CloseWithEffect

LEMMA GoneGrows ==
  ASSUME Ages, NEW q \in Seq(Gone) PROVE q \in Seq(Gone')
<1>1. Gone \subseteq Gone'
  BY DEF Ages, Gone, Old
<1> QED
  BY <1>1

LEMMA CopyOfItself == ASSUME Typed, NEW s \in Socks PROVE CopyOf(obj[s], s)
BY DEF Typed, CopyOf

-----------------------------------------------------------------------------
(* The user's calls *)

LEMMA RequestStep ==
  ASSUME OwnInv, NEW s \in Socks, NEW buf \in {"sendBuf", "recvBuf"}, NEW event \in {"OUT", "IN"},
         Request(s, buf, event)
  PROVE  OwnInv' /\ Ages /\ (m_msgs \in Seq(Gone) => m_msgs' \in Seq(Gone'))
<1> DEFINE asked == [obj[s] EXCEPT ![buf] = TRUE, !.events = @ \cup {event}]
<1>1. obj[s] \in Sockets /\ obj[s].events \cup {event} \in SUBSET Flags
  BY DEF OwnInv, Typed, Sockets, Flags
<1>2. CopyOf(asked, s) /\ asked.events \in SUBSET Flags
  <2>1. CASE buf = "sendBuf"
    BY <1>1, <2>1 DEF CopyOf, Sockets
  <2>2. CASE buf = "recvBuf"
    BY <1>1, <2>2 DEF CopyOf, Sockets
  <2> QED
    BY <2>1, <2>2
<1>3. m_events' = m_events /\ told' = told /\ told[s] \in {"open", "unwatched"}
  BY DEF Request, batchVars, MayUse
<1>4. CASE Registered(obj[s].fd)
  <2>1. /\ obj' = [obj EXCEPT ![s] = asked] /\ file' = file
        /\ interest' = [interest EXCEPT ![obj[s].fd] = [ptr |-> s, events |-> asked.events]]
    BY <1>4 DEF Request
  <2> HIDE DEF asked
  <2>2. obj' \in [Socks -> Sockets] /\ \A t \in Socks : SameSock(t)
    BY <1>2, <2>1, ObjExcept DEF CopyOf, SameSock, OwnInv
  <2>3. Old(s)
    BY <1>3 DEF OwnInv, TypesInv
  <2>4. [ptr |-> s, events |-> asked.events] \in Regs
    BY <1>2 DEF Regs
  <2>5. /\ interest' \in [Fds -> Regs]
        /\ \A f \in Fds : interest'[f] = interest[f] \/ interest'[f].ptr = s
    BY <2>1, <2>4 DEF OwnInv, Typed
  <2> QED
    <3>1. OwnInv' /\ Ages
      BY <1>3, <2>1, <2>2, <2>3, <2>5, SameKept DEF OwnInv, Typed
    <3>2. m_msgs' = m_msgs
      BY <1>4 DEF Request
    <3> QED
      BY <3>1, <3>2, GoneGrows
<1>5. CASE ~Registered(obj[s].fd)
  <2>1. CloseWith(s, asked)
    BY <1>5 DEF Request
  <2> HIDE DEF asked
  <2> QED
    BY <1>2, <1>3, <2>1, CloseWithStep
<1> QED
  BY <1>4, <1>5

LEMMA CloseStep ==
  ASSUME OwnInv, NEW s \in Socks, Close(s) PROVE OwnInv' /\ Ages /\ (m_msgs \in Seq(Gone) => m_msgs' \in Seq(Gone'))
BY CloseWithStep, CopyOfItself DEF Close, OwnInv, batchVars

LEMMA InitializeStep ==
  ASSUME OwnInv, NEW s \in Socks, Initialize(s) PROVE OwnInv' /\ Ages
<1>1. obj' \in [Socks -> Sockets] /\ \A t \in Socks : SameSock(t)
  <2> DEFINE r == [obj[s] EXCEPT !.events = {}]
  <2>1. obj' = [obj EXCEPT ![s] = r]
    BY DEF Initialize
  <2>2. r \in Sockets /\ r.alive = obj[s].alive /\ r.type = obj[s].type /\ r.fd = obj[s].fd
    BY DEF OwnInv, Typed, Sockets
  <2> HIDE DEF r
  <2> QED
    BY <2>1, <2>2, ObjExcept DEF SameSock, OwnInv
<1>2. Old(s)
  BY DEF Initialize, OwnInv, TypesInv
<1>3. /\ interest' \in [Fds -> Regs]
      /\ \A f \in Fds : interest'[f] = interest[f] \/ interest'[f].ptr = s
  BY DEF Initialize, OwnInv, Typed, Regs
<1>4. file' = file /\ m_events' = m_events
  BY DEF Initialize, batchVars
<1>5. /\ DOMAIN told' = Socks
      /\ \A t \in Socks : \/ told'[t] = told[t]
                           \/ (told'[t] \in {"open", "unwatched"} /\ told[t] = "accepted")
  <2>1. CASE told' = [told EXCEPT ![s] = "open"]
    BY <2>1 DEF Initialize, OwnInv, Typed
  <2>2. CASE told' = [told EXCEPT ![s] = "unwatched"]
    BY <2>2 DEF Initialize, OwnInv, Typed
  <2> QED
    BY <2>1, <2>2 DEF Initialize
<1> QED
  BY <1>1, <1>2, <1>3, <1>4, <1>5, SameKept DEF OwnInv, Typed

\* The members that DoConnect and accept() change.
LEMMA WithDescriptor ==
  ASSUME NEW o \in Sockets, NEW f \in Fds
  PROVE  /\ [o EXCEPT !.fd = f, !.type = "CONNECT", !.events = {"OUT"}] \in Sockets
         /\ [o EXCEPT !.fd = f, !.type = "ESTABLISHED"] \in Sockets
<1>1. f \in Int
  BY BoundAssumption DEF Fds
<1>2. [o EXCEPT !.fd = f, !.type = "CONNECT", !.events = {"OUT"}] \in Sockets
  BY <1>1 DEF Sockets, Types, Flags
<1>3. [o EXCEPT !.fd = f, !.type = "ESTABLISHED"] \in Sockets
  BY <1>1 DEF Sockets, Types
<1> QED
  BY <1>2, <1>3

\* A socket takes the lowest free descriptor.
Takes(s, f) ==
    /\ file[f] = "closed" /\ obj'[s].fd = f /\ obj'[s].alive = obj[s].alive
    /\ obj'[s].type \in {"CONNECT", "ESTABLISHED"}
    /\ \A t \in Socks : t # s => SameSock(t)
    /\ file'[f] # "closed" /\ \A g \in Fds : g # f => file'[g] = file[g]

LEMMA TakesOwned ==
  ASSUME OwnInv, NEW s \in Socks, NEW f \in Fds, Takes(s, f), obj[s].alive,
         \A g \in Fds : ~Holds(s, g)
  PROVE  DescriptorsOwned'
<1> SUFFICES ASSUME NEW g \in Fds
             PROVE  /\ OpenFd(g)' <=> \E t \in Socks : Holds(t, g)'
                    /\ \A t, u \in Socks : Holds(t, g)' /\ Holds(u, g)' => t = u
  BY DEF DescriptorsOwned
<1>1. /\ OpenFd(g) <=> \E t \in Socks : Holds(t, g)
      /\ \A t, u \in Socks : Holds(t, g) /\ Holds(u, g) => t = u
  BY DEF DescriptorsOwned, OwnInv
<1>2. \A t \in Socks : t # s => (Holds(t, g)' <=> Holds(t, g))
  BY DEF Takes, SameSock, Holds
<1>3. CASE g = f
  <2>1. ~OpenFd(g) /\ OpenFd(g)'
    BY <1>3 DEF Takes, OpenFd
  <2>2. Holds(s, g)'
    BY <1>3 DEF Takes, Holds
  <2>3. \A t \in Socks : t # s => ~Holds(t, g)'
    BY <1>1, <1>2, <2>1
  <2> QED
    BY <2>1, <2>2, <2>3
<1>4. CASE g # f
  <2>1. ~Holds(s, g)'
    BY <1>4 DEF Takes, Holds
  <2>2. OpenFd(g)' <=> OpenFd(g)
    BY <1>4 DEF Takes, OpenFd
  <2>3. ~Holds(s, g)
    OBVIOUS
  <2>4. \A t \in Socks : Holds(t, g)' <=> Holds(t, g)
    BY <1>2, <2>1, <2>3
  <2> QED
    BY <1>1, <2>2, <2>4
<1> QED
  BY <1>3, <1>4

\* A socket that DoConnect is called for: nothing is known of it anywhere.
LEMMA Fresh ==
  ASSUME OwnInv, NEW s \in Socks, MayConnect(s)
  PROVE  /\ ~Old(s) /\ obj[s].alive /\ s \notin Accepted /\ obj[s].fd = 0
         /\ \A f \in Fds : interest[f].ptr # s /\ ~Holds(s, f)
         /\ \A e \in m_events : e.ptr # s
<1>1. ~Old(s) /\ obj[s].fd = 0 /\ s \in Connected
  BY DEF MayConnect, OwnInv, TypesInv
<1>2. obj[s].alive
  BY <1>1 DEF OwnInv, TypesInv, Old
<1>3. 0 \notin Fds
  BY DEF Fds
<1> QED
  BY <1>1, <1>2, <1>3, SocksAssumption DEF OwnInv, NewInv, Holds

LEMMA DoConnectStep ==
  ASSUME OwnInv, NEW s \in Socks, DoConnect(s) PROVE OwnInv' /\ Ages
<1>0. /\ ~Old(s) /\ obj[s].alive /\ s \notin Accepted /\ obj[s].fd = 0
      /\ \A f \in Fds : interest[f].ptr # s /\ ~Holds(s, f)
      /\ \A e \in m_events : e.ptr # s
  BY Fresh DEF DoConnect
<1>1. PICK f \in Fds, made \in {"connecting", "quiet"} :
        /\ LowestFree(f)
        /\ file' = [file EXCEPT ![f] = made]
        /\ interest' = [interest EXCEPT ![f] = [ptr |-> s, events |-> {"OUT"}]]
        /\ obj' = [obj EXCEPT ![s].fd = f, ![s].type = "CONNECT", ![s].events = {"OUT"}]
  BY DEF DoConnect
<1> DEFINE r == [obj[s] EXCEPT !.fd = f, !.type = "CONNECT", !.events = {"OUT"}]
<1>2. obj' = [obj EXCEPT ![s] = r]
  BY <1>1 DEF OwnInv, Typed
<1>3. /\ r \in Sockets /\ r.alive = obj[s].alive /\ r.type = "CONNECT" /\ r.fd = f
  <2>1. obj[s] \in Sockets
    BY DEF OwnInv, Typed
  <2>2. r \in Sockets
    BY <2>1, WithDescriptor
  <2> QED
    BY <2>1, <2>2 DEF Sockets
<1> HIDE DEF r
<1>4. /\ obj' \in [Socks -> Sockets] /\ obj'[s] = r
      /\ \A t \in Socks : t # s => SameSock(t)
  BY <1>2, <1>3, ObjExcept DEF OwnInv
<1>5. /\ file' \in [Fds -> Files] /\ interest' \in [Fds -> Regs]
      /\ \A g \in Fds : g # f => file'[g] = file[g] /\ interest'[g] = interest[g]
      /\ interest'[f].ptr = s /\ file'[f] # "closed" /\ file[f] = "closed"
  BY <1>1 DEF OwnInv, Typed, Files, Regs, Flags, LowestFree
<1>6. m_events' = m_events /\ told' = [told EXCEPT ![s] = "connecting"]
  BY DEF DoConnect, batchVars
<1>7. Typed'
  BY <1>4, <1>5, <1>6 DEF OwnInv, Typed
<1>8. TypesInv'
  BY <1>0, <1>3, <1>4, <1>6 DEF OwnInv, Typed, TypesInv, Old, SameSock
<1>9. NewInv'
  <2> SUFFICES ASSUME NEW t \in Socks, ~Old(t)'
               PROVE  /\ \A g \in Fds : interest'[g].ptr = t => obj'[t].type = "CONNECT" /\ g = obj'[t].fd
                      /\ \A e \in m_events' : e.ptr = t => obj'[t].type = "CONNECT" /\ obj'[t].fd \in Fds
                      /\ \A e, d \in m_events' : e.ptr = t /\ d.ptr = t => e = d
    BY DEF NewInv
  <2>1. CASE t = s
    BY <1>0, <1>3, <1>4, <1>5, <1>6, <2>1
  <2>2. CASE t # s
    <3>1. SameSock(t) /\ ~Old(t)
      BY <1>4, <2>2 DEF SameSock, Old
    <3> QED
      BY <1>5, <1>6, <2>2, <3>1 DEF OwnInv, NewInv, SameSock
  <2> QED
    BY <2>1, <2>2
<1>10. Takes(s, f)
  BY <1>3, <1>4, <1>5 DEF Takes
<1>11. DescriptorsOwned'
  BY <1>0, <1>10, TakesOwned
<1>12. Ages
  BY <1>0, <1>4 DEF Ages, Old, SameSock
<1> QED
  BY <1>7, <1>8, <1>9, <1>11, <1>12 DEF OwnInv

\* Steps that change one new socket and nothing the kernel or the batch knows.
LEMMA NewSocketStep ==
  ASSUME OwnInv, NEW s \in Socks, NEW r \in Sockets, obj' = [obj EXCEPT ![s] = r],
         file' \in [Fds -> Files], interest' = interest, m_events' = m_events,
         DOMAIN told' = Socks, \A t \in Socks : t # s => told'[t] = told[t],
         \A f \in Fds : interest[f].ptr # s,
         \A e \in m_events : e.ptr # s,
         r.alive, r.type = "ESTABLISHED" => r.fd \in Fds,
         r.type = "CONNECT" => s \notin Accepted,
         told'[s] \in {"open", "unwatched", "accepted"} => r.type \in {"ESTABLISHED", "INVALIDE"},
         told'[s] \in {"new", "failed"} => r.type \notin {"ESTABLISHED", "INVALIDE"}
  PROVE  Typed' /\ TypesInv' /\ NewInv'
<1>1. /\ obj' \in [Socks -> Sockets] /\ obj'[s] = r
      /\ \A t \in Socks : t # s => SameSock(t)
  BY ObjExcept DEF OwnInv
<1>2. Typed'
  BY <1>1 DEF OwnInv, Typed
<1>3. TypesInv'
  BY <1>1 DEF OwnInv, TypesInv, Old, SameSock
<1>4. NewInv'
  BY <1>1 DEF OwnInv, NewInv, Old, SameSock
<1> QED
  BY <1>2, <1>3, <1>4

LEMMA DoConnectFailsStep ==
  ASSUME OwnInv, NEW s \in Socks, DoConnectFails(s) PROVE OwnInv' /\ Ages
<1>0. /\ ~Old(s) /\ obj[s].alive /\ s \notin Accepted /\ obj[s].fd = 0
      /\ \A f \in Fds : interest[f].ptr # s /\ ~Holds(s, f)
      /\ \A e \in m_events : e.ptr # s
  BY Fresh DEF DoConnectFails
<1>1. /\ interest' = interest /\ m_events' = m_events
      /\ DOMAIN told' = Socks /\ told'[s] = "stuck"
      /\ \A t \in Socks : t # s => told'[t] = told[t]
  BY DEF DoConnectFails, batchVars, OwnInv, Typed
<1>2. ASSUME NEW f \in Fds, LowestFree(f), file' = [file EXCEPT ![f] = "refused"],
             obj' = [obj EXCEPT ![s].fd = f, ![s].type = "CONNECT", ![s].events = {"OUT"}]
      PROVE  OwnInv' /\ Ages
  <2> DEFINE r == [obj[s] EXCEPT !.fd = f, !.type = "CONNECT", !.events = {"OUT"}]
  <2>1. obj' = [obj EXCEPT ![s] = r]
    BY <1>2 DEF OwnInv, Typed
  <2>2. /\ r \in Sockets /\ r.alive = obj[s].alive /\ r.type = "CONNECT" /\ r.fd = f
    <3>1. obj[s] \in Sockets
      BY DEF OwnInv, Typed
    <3>2. r \in Sockets
      BY <3>1, WithDescriptor
    <3> QED
      BY <3>1, <3>2 DEF Sockets
  <2> HIDE DEF r
  <2>3. /\ file' \in [Fds -> Files] /\ file'[f] # "closed" /\ file[f] = "closed"
        /\ \A g \in Fds : g # f => file'[g] = file[g]
    BY <1>2 DEF OwnInv, Typed, Files, LowestFree
  <2>4. Typed' /\ TypesInv' /\ NewInv'
    BY <1>0, <1>1, <2>1, <2>2, <2>3, NewSocketStep
  <2>5. obj'[s] = r /\ \A t \in Socks : t # s => SameSock(t)
    BY <2>1, <2>2, ObjExcept DEF OwnInv
  <2>6. Takes(s, f)
    BY <2>2, <2>3, <2>5 DEF Takes
  <2>7. DescriptorsOwned'
    BY <1>0, <2>6, TakesOwned
  <2> QED
    BY <1>0, <2>4, <2>5, <2>7 DEF OwnInv, Ages, Old, SameSock
<1>3. CASE obj' = [obj EXCEPT ![s].fd = -1] /\ UNCHANGED file
  <2> DEFINE r == [obj[s] EXCEPT !.fd = -1]
  <2>1. obj' = [obj EXCEPT ![s] = r]
    BY <1>3 DEF OwnInv, Typed
  <2>2. /\ r \in Sockets /\ r.alive = obj[s].alive /\ r.type = obj[s].type /\ r.fd = -1
    BY DEF OwnInv, Typed, Sockets
  <2> HIDE DEF r
  <2>3. file' \in [Fds -> Files]
    BY <1>3 DEF OwnInv, Typed
  <2>4. Typed' /\ TypesInv' /\ NewInv'
    BY <1>0, <1>1, <2>1, <2>2, <2>3, NewSocketStep DEF Old
  <2>5. obj'[s] = r /\ \A t \in Socks : t # s => SameSock(t)
    BY <2>1, <2>2, ObjExcept DEF OwnInv
  <2>6. \A t \in Socks, g \in Fds : Holds(t, g)' <=> Holds(t, g)
    <3> TAKE t \in Socks, g \in Fds
    <3>1. CASE t = s
      BY <1>0, <2>2, <2>5, <3>1 DEF Holds, Fds
    <3>2. CASE t # s
      BY <2>5, <3>2 DEF Holds, SameSock
    <3> QED
      BY <3>1, <3>2
  <2>7. \A g \in Fds : OpenFd(g)' <=> OpenFd(g)
    BY <1>3 DEF OpenFd
  <2>8. DescriptorsOwned'
    BY <2>6, <2>7 DEF DescriptorsOwned, OwnInv
  <2> QED
    BY <1>0, <2>4, <2>5, <2>8 DEF OwnInv, Ages, Old, SameSock
<1> QED
  BY <1>2, <1>3 DEF DoConnectFails

LEMMA AcceptStep == ASSUME OwnInv, Accept PROVE OwnInv' /\ Ages
<1>1. PICK s \in Accepted, f \in Fds :
        /\ told[s] = "new" /\ LowestFree(f)
        /\ file' = [file EXCEPT ![f] = "quiet"]
        /\ obj' = [obj EXCEPT ![s].fd = f, ![s].type = "ESTABLISHED"]
        /\ told' = [told EXCEPT ![s] = "accepted"]
  BY DEF Accept
<1>2. s \in Socks
  BY DEF Socks
<1>3. ~Old(s) /\ obj[s].type # "CONNECT" /\ obj[s].alive
  BY <1>1, <1>2 DEF OwnInv, TypesInv, Old
<1>4. /\ \A g \in Fds : interest[g].ptr # s /\ ~Holds(s, g)
      /\ \A e \in m_events : e.ptr # s
  BY <1>2, <1>3 DEF OwnInv, NewInv, Holds, Old
<1> DEFINE r == [obj[s] EXCEPT !.fd = f, !.type = "ESTABLISHED"]
<1>5. obj' = [obj EXCEPT ![s] = r]
  BY <1>1, <1>2 DEF OwnInv, Typed
<1>6. /\ r \in Sockets /\ r.alive = obj[s].alive /\ r.type = "ESTABLISHED" /\ r.fd = f
  <2>1. obj[s] \in Sockets
    BY <1>2 DEF OwnInv, Typed
  <2>2. r \in Sockets
    BY <2>1, WithDescriptor
  <2> QED
    BY <2>1, <2>2 DEF Sockets
<1> HIDE DEF r
<1>7. /\ file' \in [Fds -> Files] /\ file'[f] # "closed" /\ file[f] = "closed"
      /\ \A g \in Fds : g # f => file'[g] = file[g]
  BY <1>1 DEF OwnInv, Typed, Files, LowestFree
<1>8. /\ interest' = interest /\ m_events' = m_events
      /\ DOMAIN told' = Socks /\ told'[s] = "accepted"
      /\ \A t \in Socks : t # s => told'[t] = told[t]
  BY <1>1, <1>2 DEF Accept, OwnInv, Typed, batchVars
<1>9. Typed' /\ TypesInv' /\ NewInv'
  BY <1>2, <1>3, <1>4, <1>5, <1>6, <1>7, <1>8, NewSocketStep
<1>10. obj'[s] = r /\ \A t \in Socks : t # s => SameSock(t)
  BY <1>2, <1>5, <1>6, ObjExcept DEF OwnInv
<1>11. Takes(s, f)
  BY <1>6, <1>7, <1>10 DEF Takes
<1>12. DescriptorsOwned'
  BY <1>2, <1>3, <1>4, <1>11, TakesOwned
<1>13. Ages
  BY <1>3, <1>10 DEF Ages, Old, SameSock
<1> QED
  BY <1>9, <1>12, <1>13 DEF OwnInv

-----------------------------------------------------------------------------
(* RunOnce and the network *)

\* The kernel reports a descriptor with the socket that registered it.
LEMMA EpollWaitStep == ASSUME OwnInv, EpollWait PROVE OwnInv' /\ Ages
<1> DEFINE Wakes == {g \in Fds : Registered(g) /\ Reported(g) /= {}}
           Event(f) == [ptr |-> interest[f].ptr, flag |-> Reported(f)]
<1>1. m_events' = {Event(f) : f \in Wakes}
  BY DEF EpollWait
<1>2. UNCHANGED <<obj, file, interest, told>>
  BY DEF EpollWait, kernelVars
<1>3. \A f \in Fds : Ready(f) \subseteq Flags /\ Reported(f) \subseteq Flags
  BY DEF Ready, Reported, Flags
<1>4. \A f \in Wakes : interest[f].ptr \in Socks
  BY DEF Registered, OwnInv, Typed, Regs
<1>5. m_events' \subseteq Events
  BY <1>1, <1>3, <1>4 DEF Events
<1>6. Typed'
  BY <1>2, <1>5 DEF OwnInv, Typed
<1>7. TypesInv'
  BY <1>2 DEF OwnInv, TypesInv, Old
<1>8. NewInv'
  <2> SUFFICES ASSUME NEW s \in Socks, ~Old(s)
               PROVE  /\ \A f \in Fds : interest[f].ptr = s => obj[s].type = "CONNECT" /\ f = obj[s].fd
                      /\ \A e \in m_events' : e.ptr = s => obj[s].type = "CONNECT" /\ obj[s].fd \in Fds
                      /\ \A e, d \in m_events' : e.ptr = s /\ d.ptr = s => e = d
    BY <1>2 DEF NewInv, Old
  <2>1. \A f \in Fds : interest[f].ptr = s => obj[s].type = "CONNECT" /\ f = obj[s].fd
    BY DEF OwnInv, NewInv
  <2>2. \A e \in m_events' : \E f \in Fds : e = Event(f) /\ e.ptr = interest[f].ptr
    BY <1>1
  <2>3. \A e \in m_events' : e.ptr = s =>
          obj[s].type = "CONNECT" /\ obj[s].fd \in Fds /\ e = Event(obj[s].fd)
    BY <2>1, <2>2
  <2> QED
    BY <2>1, <2>3
<1>9. DescriptorsOwned'
  BY <1>2 DEF OwnInv, DescriptorsOwned, OpenFd, Holds
<1>10. Ages
  BY <1>2 DEF Ages, Old
<1> QED
  BY <1>6, <1>7, <1>8, <1>9, <1>10 DEF OwnInv

\* One descriptor or none changes what its connection is like, not that it is open.
LEMMA NetworkStep == ASSUME OwnInv, Network PROVE OwnInv' /\ Ages
<1>1. UNCHANGED <<obj, interest, m_events, told>>
  BY DEF Network, batchVars
<1>2. /\ file' \in [Fds -> Files]
      /\ \A f \in Fds : file'[f] = "closed" <=> file[f] = "closed"
  <2>1. PICK f \in Fds, to \in {"quiet", "data", "eof", "reset", "refused", "failed"} :
          file[f] # "closed" /\ file' = [file EXCEPT ![f] = to]
    BY DEF Network
  <2> QED
    BY <2>1 DEF OwnInv, Typed, Files
<1>3. \A t \in Socks : SameSock(t)
  BY <1>1 DEF SameSock
<1> QED
  BY <1>1, <1>2, <1>3, SameKept DEF OwnInv, Typed

\* The handlers of data: the socket that RunOnce is busy with gets other buffers
\* and events, and the kernel those events.
LEMMA HandlerStep ==
  ASSUME OwnInv, cur \in Socks, Old(cur),
         NEW e, e \in SUBSET Flags, NEW r \in Sockets, r.alive = obj[cur].alive,
         r.type = obj[cur].type, r.fd = obj[cur].fd,
         obj' = [obj EXCEPT ![cur] = r],
         interest' = [interest EXCEPT ![obj[cur].fd] = [ptr |-> cur, events |-> e]],
         file' \in [Fds -> Files], \A f \in Fds : file'[f] = "closed" <=> file[f] = "closed",
         m_events' = m_events, told' = told
  PROVE  OwnInv' /\ Ages
<1>1. obj' \in [Socks -> Sockets] /\ \A t \in Socks : SameSock(t)
  BY ObjExcept DEF OwnInv, SameSock
<1>2. [ptr |-> cur, events |-> e] \in Regs
  BY DEF Regs
<1>3. /\ interest' \in [Fds -> Regs]
      /\ \A f \in Fds : interest'[f] = interest[f] \/ interest'[f].ptr = cur
  BY <1>2 DEF OwnInv, Typed
<1> QED
  BY <1>1, <1>3, SameKept DEF OwnInv, Typed

LEMMA RecvDataStep ==
  ASSUME OwnInv, cur \in Socks, Old(cur), RecvData PROVE OwnInv' /\ Ages
<1> DEFINE rest == obj[cur].events \ {"IN"}
           r == [obj[cur] EXCEPT !.recvBuf = FALSE, !.events = rest]
<1>1. obj[cur] \in Sockets /\ rest \in SUBSET Flags
  BY DEF OwnInv, Typed, Sockets
<1>2. /\ obj' = [obj EXCEPT ![cur] = r]
      /\ interest' = [interest EXCEPT ![obj[cur].fd] = [ptr |-> cur, events |-> rest]]
      /\ m_events' = m_events /\ told' = told
  BY DEF RecvData, batchVars, OwnInv, Typed
<1>3. /\ file' \in [Fds -> Files]
      /\ \A f \in Fds : file'[f] = "closed" <=> file[f] = "closed"
  BY DEF RecvData, OwnInv, Typed, Files
<1>4. /\ r \in Sockets /\ r.alive = obj[cur].alive /\ r.type = obj[cur].type
      /\ r.fd = obj[cur].fd
  BY <1>1 DEF Sockets
<1> HIDE DEF rest, r
<1> QED
  BY <1>1, <1>2, <1>3, <1>4, HandlerStep

LEMMA SendDataStep ==
  ASSUME OwnInv, cur \in Socks, Old(cur), SendData PROVE OwnInv' /\ Ages
<1> DEFINE rest == obj[cur].events \ {"OUT"}
           r == [obj[cur] EXCEPT !.sendBuf = FALSE, !.events = rest]
<1>1. obj[cur] \in Sockets /\ rest \in SUBSET Flags
  BY DEF OwnInv, Typed, Sockets
<1>2. /\ obj' = [obj EXCEPT ![cur] = r]
      /\ interest' = [interest EXCEPT ![obj[cur].fd] = [ptr |-> cur, events |-> rest]]
      /\ m_events' = m_events /\ told' = told /\ file' = file
  BY DEF SendData, batchVars, OwnInv, Typed
<1>3. /\ r \in Sockets /\ r.alive = obj[cur].alive /\ r.type = obj[cur].type
      /\ r.fd = obj[cur].fd
  BY <1>1 DEF Sockets
<1>4. file' \in [Fds -> Files]
  BY <1>2 DEF OwnInv, Typed
<1> HIDE DEF rest, r
<1> QED
  BY <1>1, <1>2, <1>3, <1>4, HandlerStep

\* The steps that touch neither the sockets nor the kernel.
LEMMA QuietStep ==
  ASSUME OwnInv, UNCHANGED <<obj, file, interest>>, m_events' \subseteq m_events,
         DOMAIN told' = Socks, \A t \in Socks : told'[t] \in {told[t], "closed"}
  PROVE  OwnInv' /\ Ages
<1>1. \A t \in Socks : SameSock(t)
  BY DEF SameSock
<1> QED
  BY <1>1, SameKept DEF OwnInv, Typed

LEMMA WithoutDescriptor ==
  ASSUME NEW o \in Sockets PROVE [o EXCEPT !.fd = 0] \in Sockets
BY DEF Sockets

\* A new socket is connected, or as it was before its connect.
LEMMA TypesOfOne ==
  ASSUME TypesInv, NEW s \in Socks, obj'[s].alive, s \notin Accepted,
         \/ obj'[s].type = "ESTABLISHED" /\ obj'[s].fd \in Fds /\ told'[s] = "open"
         \/ obj'[s].type = "CONNECT" /\ told'[s] = "failed",
         \A t \in Socks : t # s => SameSock(t) /\ told'[t] = told[t]
  PROVE  TypesInv'
<1> SUFFICES ASSUME NEW t \in Socks
             PROVE  /\ obj'[t].type = "ESTABLISHED" => obj'[t].fd \in Fds
                    /\ ~obj'[t].alive => obj'[t].type = "INVALIDE"
                    /\ told'[t] \in {"open", "unwatched", "accepted"} => Old(t)'
                    /\ told'[t] \in {"new", "failed"} => ~Old(t)'
                    /\ t \in Accepted => obj'[t].type # "CONNECT"
  BY DEF TypesInv
<1>1. CASE t = s
  BY <1>1 DEF Old
<1>2. CASE t # s
  BY <1>2 DEF TypesInv, Old, SameSock
<1> QED
  BY <1>1, <1>2

\* What RunOnce knows of the socket whose connect is answered.
LEMMA Connecting ==
  ASSUME OwnInv, NEW e \in m_events, TakeEvent(e, {"CONNECT"})
  PROVE  /\ e.ptr \in Socks /\ obj[e.ptr].type = "CONNECT" /\ ~Old(e.ptr)
         /\ obj[e.ptr].alive /\ obj[e.ptr].fd \in Fds /\ obj[e.ptr] \in Sockets
         /\ e.ptr \notin Accepted
         /\ \A d \in m_events' : d.ptr # e.ptr
<1>1. e.ptr \in Socks
  BY DEF OwnInv, Typed, Events
<1>2. obj[e.ptr].type = "CONNECT" /\ obj[e.ptr].alive /\ m_events' = m_events \ {e}
  BY DEF TakeEvent
<1>3. ~Old(e.ptr)
  BY <1>2 DEF Old
<1> QED
  BY <1>1, <1>2, <1>3 DEF OwnInv, Typed, TypesInv, NewInv

LEMMA ConnectEventStep == ASSUME OwnInv, ConnectEvent PROVE OwnInv' /\ Ages
<1>0. Typed
  BY DEF OwnInv
<1>1. PICK e \in m_events :
        /\ TakeEvent(e, {"CONNECT"})
        /\ obj' = [obj EXCEPT ![e.ptr].events = {}, ![e.ptr].type = "ESTABLISHED"]
        /\ interest' = [interest EXCEPT ![obj[e.ptr].fd] = [ptr |-> e.ptr, events |-> {}]]
        /\ told' = [told EXCEPT ![e.ptr] = "open"]
  BY DEF ConnectEvent
<1> DEFINE s == e.ptr
           r == [obj[s] EXCEPT !.events = {}, !.type = "ESTABLISHED"]
<1>2. /\ s \in Socks /\ obj[s].type = "CONNECT" /\ ~Old(s)
      /\ obj[s].alive /\ obj[s].fd \in Fds /\ obj[s] \in Sockets /\ s \notin Accepted
      /\ \A d \in m_events' : d.ptr # s
  BY <1>1, Connecting
<1>3. obj' = [obj EXCEPT ![s] = r]
  BY <1>0, <1>1, <1>2 DEF Typed
<1>4. r \in Sockets /\ r.alive = obj[s].alive /\ r.type = "ESTABLISHED" /\ r.fd = obj[s].fd
  BY <1>2 DEF Sockets, Types
<1>5. m_events' \subseteq m_events /\ file' = file
  BY <1>1 DEF TakeEvent, ConnectEvent
<1> HIDE DEF s, r
<1>6. /\ obj' \in [Socks -> Sockets] /\ obj'[s] = r
      /\ \A t \in Socks : t # s => SameSock(t)
  BY <1>2, <1>3, <1>4, ObjExcept DEF OwnInv
<1>7. /\ interest' \in [Fds -> Regs]
      /\ \A f \in Fds : interest'[f] = interest[f] \/ interest'[f].ptr = s
  BY <1>1, <1>2 DEF OwnInv, Typed, Regs, s
<1>8. /\ DOMAIN told' = Socks /\ told'[s] = "open"
      /\ \A t \in Socks : t # s => told'[t] = told[t]
  BY <1>1, <1>2 DEF OwnInv, Typed, s
<1>9. Typed'
  BY <1>0, <1>5, <1>6, <1>7, <1>8 DEF Typed
<1>10. TypesInv'
  BY <1>2, <1>4, <1>6, <1>8, TypesOfOne DEF OwnInv
<1>11. NewInv'
  <2> SUFFICES ASSUME NEW t \in Socks, ~Old(t)'
               PROVE  /\ \A g \in Fds : interest'[g].ptr = t => obj'[t].type = "CONNECT" /\ g = obj'[t].fd
                      /\ \A a \in m_events' : a.ptr = t => obj'[t].type = "CONNECT" /\ obj'[t].fd \in Fds
                      /\ \A a, d \in m_events' : a.ptr = t /\ d.ptr = t => a = d
    BY DEF NewInv
  <2>1. t # s
    BY <1>4, <1>6 DEF Old
  <2>2. SameSock(t) /\ ~Old(t)
    BY <1>6, <2>1 DEF SameSock, Old
  <2> QED
    BY <1>5, <1>7, <2>1, <2>2 DEF OwnInv, NewInv, SameSock
<1>12. \A t \in Socks, g \in Fds : Holds(t, g)' <=> Holds(t, g)
  <2> TAKE t \in Socks, g \in Fds
  <2>1. CASE t = s
    BY <1>2, <1>4, <1>6, <2>1 DEF Holds
  <2>2. CASE t # s
    BY <1>6, <2>2 DEF Holds, SameSock
  <2> QED
    BY <2>1, <2>2
<1>13. DescriptorsOwned'
  BY <1>5, <1>12 DEF OwnInv, DescriptorsOwned, OpenFd
<1>14. Ages
  BY <1>2, <1>6 DEF Ages, Old, SameSock
<1> QED
  BY <1>9, <1>10, <1>11, <1>13, <1>14 DEF OwnInv

LEMMA ConnectFailedStep == ASSUME OwnInv, ConnectFailed PROVE OwnInv' /\ Ages
<1>0. Typed
  BY DEF OwnInv
<1>1. PICK e \in m_events :
        /\ TakeEvent(e, {"CONNECT"})
        /\ interest' = [interest EXCEPT ![obj[e.ptr].fd] = NoReg]
        /\ file' = [file EXCEPT ![obj[e.ptr].fd] = "closed"]
        /\ obj' = [obj EXCEPT ![e.ptr].fd = 0]
        /\ told' = [told EXCEPT ![e.ptr] = "failed"]
  BY DEF ConnectFailed
<1> DEFINE s == e.ptr
           f == obj[s].fd
           r == [obj[s] EXCEPT !.fd = 0]
<1>2. /\ s \in Socks /\ obj[s].type = "CONNECT" /\ ~Old(s)
      /\ obj[s].alive /\ f \in Fds /\ obj[s] \in Sockets /\ s \notin Accepted
      /\ \A d \in m_events' : d.ptr # s
  BY <1>1, Connecting
<1>3. obj' = [obj EXCEPT ![s] = r]
  BY <1>0, <1>1, <1>2 DEF Typed
<1>4. r \in Sockets /\ r.alive = obj[s].alive /\ r.type = "CONNECT" /\ r.fd = 0
  <2>1. [obj[s] EXCEPT !.fd = 0] \in Sockets
    BY <1>2, WithoutDescriptor
  <2> QED
    BY <1>2, <2>1 DEF Sockets
<1>5. m_events' \subseteq m_events
  BY <1>1 DEF TakeEvent
<1> HIDE DEF s, r
<1>6. /\ obj' \in [Socks -> Sockets] /\ obj'[s] = r
      /\ \A t \in Socks : t # s => SameSock(t)
  BY <1>2, <1>3, <1>4, ObjExcept DEF OwnInv
<1>7. /\ file'[f] = "closed" /\ interest'[f] = NoReg
      /\ \A g \in Fds : g # f => file'[g] = file[g] /\ interest'[g] = interest[g]
      /\ file' \in [Fds -> Files] /\ interest' \in [Fds -> Regs]
  BY <1>1, <1>2 DEF OwnInv, Typed, Files, Regs, s
<1>8. /\ DOMAIN told' = Socks /\ told'[s] = "failed"
      /\ \A t \in Socks : t # s => told'[t] = told[t]
  BY <1>1, <1>2 DEF OwnInv, Typed, s
<1>9. Typed'
  BY <1>0, <1>5, <1>6, <1>7, <1>8 DEF Typed
<1>10. TypesInv'
  BY <1>2, <1>4, <1>6, <1>8, TypesOfOne DEF OwnInv
<1>11. NoReg.ptr \notin Socks
  BY SocksAssumption DEF NoReg, Socks
<1>12. Holds(s, f)
  BY <1>2 DEF Holds
<1> HIDE DEF f
<1>13. NewInv'
  <2> SUFFICES ASSUME NEW t \in Socks, ~Old(t)'
               PROVE  /\ \A g \in Fds : interest'[g].ptr = t => obj'[t].type = "CONNECT" /\ g = obj'[t].fd
                      /\ \A a \in m_events' : a.ptr = t => obj'[t].type = "CONNECT" /\ obj'[t].fd \in Fds
                      /\ \A a, d \in m_events' : a.ptr = t /\ d.ptr = t => a = d
    BY DEF NewInv
  <2>1. \A g \in Fds : interest'[g].ptr = t => interest[g].ptr = t /\ g # f
    BY <1>7, <1>11
  <2>2. CASE t = s
    <3>1. \A g \in Fds : interest[g].ptr = s => g = f
      BY <1>2 DEF OwnInv, NewInv, f
    <3> QED
      BY <1>2, <2>1, <2>2, <3>1
  <2>3. CASE t # s
    <3>1. SameSock(t) /\ ~Old(t)
      BY <1>6, <2>3 DEF SameSock, Old
    <3> QED
      BY <1>5, <2>1, <3>1 DEF OwnInv, NewInv, SameSock
  <2> QED
    BY <2>2, <2>3
<1>14. DescriptorsOwned'
  <2> SUFFICES ASSUME NEW g \in Fds
               PROVE  /\ OpenFd(g)' <=> \E t \in Socks : Holds(t, g)'
                      /\ \A t, u \in Socks : Holds(t, g)' /\ Holds(u, g)' => t = u
    BY DEF DescriptorsOwned
  <2>1. /\ OpenFd(g) <=> \E t \in Socks : Holds(t, g)
        /\ \A t, u \in Socks : Holds(t, g) /\ Holds(u, g) => t = u
    BY DEF DescriptorsOwned, OwnInv
  <2>2. ~Holds(s, g)'
    BY <1>4, <1>6 DEF Holds, Fds
  <2>3. \A t \in Socks : t # s => (Holds(t, g)' <=> Holds(t, g))
    BY <1>6 DEF Holds, SameSock
  <2>4. CASE g = f
    <3>1. \A t \in Socks : ~Holds(t, g)'
      BY <1>2, <1>12, <2>1, <2>2, <2>3, <2>4
    <3> QED
      BY <1>7, <2>4, <3>1 DEF OpenFd
  <2>5. CASE g # f
    <3>1. ~Holds(s, g)
      BY <1>12, <2>5 DEF Holds
    <3>2. \A t \in Socks : Holds(t, g)' <=> Holds(t, g)
      BY <2>2, <2>3, <3>1
    <3> QED
      BY <1>7, <2>1, <2>5, <3>2 DEF OpenFd
  <2> QED
    BY <2>4, <2>5
<1>15. Ages
  BY <1>2, <1>6 DEF Ages, Old, SameSock
<1> QED
  BY <1>9, <1>10, <1>13, <1>14, <1>15 DEF OwnInv

\* Only a socket that was closed is deleted.
LEMMA DestroyStep ==
  ASSUME OwnInv, cur \in Socks, obj[cur].type = "INVALIDE", Destroy PROVE OwnInv' /\ Ages
<1> DEFINE r == [obj[cur] EXCEPT !.alive = cur \notin Accepted]
<1>1. obj' = [obj EXCEPT ![cur] = r] /\ UNCHANGED <<file, interest, m_events, told>>
  BY DEF Destroy, kernelVars, batchVars
<1>2. obj[cur] \in Sockets
  BY DEF OwnInv, Typed
<1>3. r \in Sockets /\ r.type = "INVALIDE" /\ r.fd = obj[cur].fd
  <2>1. (cur \notin Accepted) \in BOOLEAN
    BY Zenon
  <2> QED
    BY <1>2, <2>1 DEF Sockets
<1> HIDE DEF r
<1>4. /\ obj' \in [Socks -> Sockets] /\ obj'[cur] = r
      /\ \A t \in Socks : t # cur => SameSock(t)
  BY <1>1, <1>3, ObjExcept DEF OwnInv
<1>5. Typed'
  BY <1>1, <1>4 DEF OwnInv, Typed
<1>6. TypesInv'
  BY <1>1, <1>3, <1>4 DEF OwnInv, TypesInv, Old, SameSock
<1>7. NewInv'
  BY <1>1, <1>3, <1>4 DEF OwnInv, NewInv, Old, SameSock
<1>8. \A t \in Socks, g \in Fds : Holds(t, g)' <=> Holds(t, g)
  <2> TAKE t \in Socks, g \in Fds
  <2>1. CASE t = cur
    BY <1>3, <1>4, <2>1 DEF Holds
  <2>2. CASE t # cur
    BY <1>4, <2>2 DEF Holds, SameSock
  <2> QED
    BY <2>1, <2>2
<1>9. DescriptorsOwned'
  BY <1>1, <1>8 DEF OwnInv, DescriptorsOwned, OpenFd
<1>10. Ages
  BY <1>3, <1>4 DEF Ages, Old, SameSock
<1> QED
  BY <1>5, <1>6, <1>7, <1>9, <1>10 DEF OwnInv

-----------------------------------------------------------------------------
(* The stack and the messages *)

\* The socket RunOnce is busy with stays what it is unless the step says otherwise.
LEMMA StackKept ==
  ASSUME StackInv, Ages, UNCHANGED stackVars PROVE StackInv'
BY DEF StackInv, Ages, Busy, Ending, Old, stackVars

\* RunOnce goes on to a place where it is busy with no socket.
LEMMA StackFree ==
  ASSUME StackInv, lpc' \in {"wait", "timers", "events", "dispatch", "crashed"}, ret' = ret
  PROVE  StackInv'
BY DEF StackInv, Busy, Ending

LEMMA StackCalls ==
  ASSUME StackInv, NEW s, CallBack(s, "events") \/ CallBack(s, "dispatch")
  PROVE  StackInv'
BY DEF StackInv, Busy, Ending, CallBack

LEMMA MsgsKept ==
  ASSUME MsgsInv, Ages, UNCHANGED queueVars PROVE MsgsInv'
BY GoneGrows DEF MsgsInv, queueVars

\* The message of another thread comes between the others.
LEMMA Inserted ==
  ASSUME NEW S, NEW q \in Seq(S), NEW x \in S, NEW i \in 1..(Len(q) + 1)
  PROVE  InsertAt(q, i, x) \in Seq(S)
<1>1. SubSeq(q, 1, i - 1) \in Seq(S) /\ SubSeq(q, i, Len(q)) \in Seq(S) /\ <<x>> \in Seq(S)
  OBVIOUS
<1> QED
  BY <1>1 DEF InsertAt

TcpInv == OwnInv /\ StackInv /\ MsgsInv

LEMMA UserCallStep == ASSUME TcpInv, UserCall PROVE TcpInv'
<1>1. UNCHANGED stackVars
  BY DEF UserCall, DoSend, DoRecv, Request, Close, Initialize, DoConnect, DoConnectFails
<1>2. SUFFICES OwnInv' /\ Ages /\ MsgsInv'
  BY <1>1, StackKept DEF TcpInv
<1>3. ASSUME NEW s \in Socks, NEW buf \in {"sendBuf", "recvBuf"}, NEW event \in {"OUT", "IN"},
             Request(s, buf, event)
      PROVE  OwnInv' /\ Ages /\ MsgsInv'
  <2>1. OwnInv' /\ Ages /\ (m_msgs \in Seq(Gone) => m_msgs' \in Seq(Gone')) /\ msgs' = msgs
    BY <1>3, RequestStep DEF TcpInv, Request
  <2> QED
    BY <2>1, GoneGrows DEF MsgsInv, TcpInv
<1>4. ASSUME NEW s \in Socks, Close(s) PROVE OwnInv' /\ Ages /\ MsgsInv'
  <2>1. OwnInv' /\ Ages /\ (m_msgs \in Seq(Gone) => m_msgs' \in Seq(Gone')) /\ msgs' = msgs
    BY <1>4, CloseStep DEF TcpInv, Close
  <2> QED
    BY <2>1, GoneGrows DEF MsgsInv, TcpInv
<1>5. ASSUME NEW s \in Socks, Initialize(s) \/ DoConnect(s) \/ DoConnectFails(s)
      PROVE  OwnInv' /\ Ages /\ MsgsInv'
  <2>1. OwnInv' /\ Ages
    BY <1>5, InitializeStep, DoConnectStep, DoConnectFailsStep DEF TcpInv
  <2>2. UNCHANGED queueVars
    BY <1>5 DEF Initialize, DoConnect, DoConnectFails
  <2> QED
    BY <2>1, <2>2, MsgsKept DEF TcpInv
<1> QED
  BY <1>3, <1>4, <1>5 DEF UserCall, DoSend, DoRecv

LEMMA RunOnceStep == ASSUME TcpInv, RunOnce PROVE TcpInv'
<1> USE DEF TcpInv
<1>1. CASE EpollWait
  <2>1. lpc' = "timers" /\ ret' = ret /\ UNCHANGED queueVars
    BY <1>1 DEF EpollWait
  <2> QED
    BY <1>1, <2>1, EpollWaitStep, StackFree, MsgsKept
<1>2. CASE OnTimer \/ OnPost
  <2>1. CallBack(NoSock, "events") \/ CallBack(NoSock, "dispatch")
    BY <1>2 DEF OnTimer, OnPost
  <2>2. UNCHANGED <<obj, file, interest, m_events, told, m_msgs>>
    BY <1>2 DEF OnTimer, OnPost, kernelVars, batchVars, queueVars
  <2>3. OwnInv' /\ Ages
    BY <2>2, QuietStep DEF OwnInv, Typed
  <2>4. msgs' \in Seq(Gone)
    BY <1>2 DEF OnTimer, OnPost, queueVars, MsgsInv
  <2> QED
    BY <2>1, <2>2, <2>3, <2>4, StackCalls, GoneGrows DEF MsgsInv
<1>3. CASE NoTimer \/ SkipEvent \/ ReadFreed \/ DispatchDone \/ RunOnceReturns \/ SendNothing
  <2>1. UNCHANGED <<obj, file, interest, told, queueVars>> /\ m_events' \subseteq m_events
    BY <1>3 DEF NoTimer, SkipEvent, TakeEvent, ReadFreed, DispatchDone, RunOnceReturns,
                SendNothing, kernelVars, batchVars
  <2>2. OwnInv' /\ Ages
    BY <2>1, QuietStep DEF OwnInv, Typed
  <2>3. StackInv'
    <3>1. CASE SkipEvent
      BY <2>2, <3>1, StackKept DEF SkipEvent
    <3>2. CASE RunOnceReturns
      BY <3>2 DEF RunOnceReturns, StackInv, Busy, Ending
    <3>3. CASE NoTimer \/ ReadFreed \/ DispatchDone \/ SendNothing
      <4>1. lpc' \in {"events", "crashed"} /\ ret' = ret
        BY <3>3 DEF NoTimer, ReadFreed, DispatchDone, SendNothing
      <4> QED
        BY <4>1, StackFree
    <3> QED
      BY <1>3, <3>1, <3>2, <3>3
  <2> QED
    BY <2>1, <2>2, <2>3, MsgsKept
<1>4. CASE ConnectEvent \/ ConnectFailed \/ Accept
  <2>1. OwnInv' /\ Ages
    BY <1>4, ConnectEventStep, ConnectFailedStep, AcceptStep
  <2>2. UNCHANGED queueVars /\ \E s : CallBack(s, "events")
    BY <1>4 DEF ConnectEvent, ConnectFailed, Accept
  <2> QED
    BY <2>1, <2>2, StackCalls, MsgsKept
<1>5. CASE FailedEvent
  <2>1. PICK e \in m_events : TakeEvent(e, {"ESTABLISHED"}) /\ CloseWith(e.ptr, obj[e.ptr])
    BY <1>5 DEF FailedEvent
  <2>2. e.ptr \in Socks /\ m_events' \subseteq m_events
    BY <2>1 DEF TakeEvent, OwnInv, Typed, Events
  <2>3. CopyOf(obj[e.ptr], e.ptr) /\ told' = told /\ msgs' = msgs /\ UNCHANGED stackVars
    BY <1>5, <2>2, CopyOfItself DEF FailedEvent, OwnInv
  <2>4. OwnInv' /\ Ages /\ (m_msgs \in Seq(Gone) => m_msgs' \in Seq(Gone'))
    BY <2>1, <2>2, <2>3, CloseWithStep
  <2> QED
    BY <2>3, <2>4, StackKept, GoneGrows DEF MsgsInv
<1>6. CASE RecvCloses \/ SendCloses
  <2>1. cur \in Socks
    BY <1>6 DEF RecvCloses, SendCloses, StackInv, Busy
  <2>2. CopyOf(obj[cur], cur) /\ CloseWith(cur, obj[cur]) /\ told' = told /\ msgs' = msgs
        /\ m_events' = m_events /\ lpc' = "events" /\ ret' = ret
    BY <1>6, <2>1, CopyOfItself DEF RecvCloses, SendCloses, OwnInv, batchVars
  <2>3. OwnInv' /\ Ages /\ (m_msgs \in Seq(Gone) => m_msgs' \in Seq(Gone'))
    BY <2>1, <2>2, CloseWithStep
  <2> QED
    BY <2>2, <2>3, StackFree, GoneGrows DEF MsgsInv
<1>7. CASE DataEvent
  <2>1. PICK e \in m_events : TakeEvent(e, {"ESTABLISHED"}) /\ cur' = e.ptr
    BY <1>7 DEF DataEvent
  <2>2. UNCHANGED <<obj, file, interest, told, queueVars>> /\ m_events' \subseteq m_events
    BY <1>7, <2>1 DEF DataEvent, TakeEvent, kernelVars
  <2>3. OwnInv' /\ Ages
    BY <2>2, QuietStep DEF OwnInv, Typed
  <2>4. cur' \in Socks /\ obj[cur'].type = "ESTABLISHED" /\ lpc' = "in" /\ ret' = ret
    BY <1>7, <2>1 DEF DataEvent, TakeEvent, OwnInv, Typed, Events
  <2>5. StackInv'
    BY <2>2, <2>4 DEF StackInv, Busy, Ending, Old
  <2> QED
    BY <2>2, <2>3, <2>5, MsgsKept
<1>8. CASE RecvData
  <2>1. cur \in Socks /\ Old(cur)
    BY <1>8 DEF RecvData, StackInv, Busy
  <2>2. OwnInv' /\ Ages /\ UNCHANGED queueVars
    BY <1>8, <2>1, RecvDataStep DEF RecvData
  <2>3. StackInv'
    BY <1>8, <2>1, <2>2 DEF RecvData, CallBack, StackInv, Busy, Ending, Ages, Old
  <2> QED
    BY <2>2, <2>3, MsgsKept
<1>9. CASE RecvNothing
  <2>1. UNCHANGED <<obj, file, interest, told, queueVars, m_events, cur, ret>> /\ lpc' = "out" /\ lpc = "in"
    BY <1>9 DEF RecvNothing, kernelVars, batchVars
  <2>2. OwnInv' /\ Ages
    BY <2>1, QuietStep DEF OwnInv, Typed
  <2>3. StackInv'
    BY <2>1 DEF StackInv, Busy, Ending, Old
  <2> QED
    BY <2>1, <2>2, <2>3, MsgsKept
<1>10. CASE SendData
  <2>1. cur \in Socks /\ Old(cur)
    BY <1>10 DEF SendData, StackInv, Busy
  <2>2. OwnInv' /\ Ages /\ UNCHANGED queueVars /\ CallBack(cur, "events")
    BY <1>10, <2>1, SendDataStep DEF SendData
  <2> QED
    BY <2>2, StackCalls, MsgsKept
<1>11. CASE ThreadEvent
  <2>1. UNCHANGED <<obj, file, interest, told, m_events, ret>> /\ lpc' = "dispatch" /\ m_msgs' = <<>>
    BY <1>11 DEF ThreadEvent, kernelVars
  <2>2. OwnInv' /\ Ages
    BY <2>1, QuietStep DEF OwnInv, Typed
  <2>3. msgs' \in Seq(Gone)
    <3>1. m_msgs \in Seq(Gone) /\ NoSock \in Gone
      BY DEF MsgsInv, Gone
    <3>2. \A i \in 1..(Len(m_msgs) + 1) : InsertAt(m_msgs, i, NoSock) \in Seq(Gone)
      BY <3>1, Inserted
    <3> QED
      BY <1>11, <3>1, <3>2 DEF ThreadEvent
  <2>4. m_msgs' \in Seq(Gone')
    BY <2>1
  <2> QED
    BY <2>1, <2>2, <2>3, <2>4, StackFree, GoneGrows DEF MsgsInv
<1>12. CASE OnPostClose
  <2> DEFINE s == Head(msgs)
  <2>1. s \in Socks /\ obj[s].type = "INVALIDE" /\ Tail(msgs) \in Seq(Gone)
    <3>1. Head(msgs) \in Gone /\ Head(msgs) # NoSock /\ Tail(msgs) \in Seq(Gone)
      BY <1>12 DEF OnPostClose, MsgsInv
    <3> QED
      BY <3>1 DEF Gone
  <2>2. UNCHANGED <<obj, file, interest, m_events, m_msgs>> /\ msgs' = Tail(msgs)
        /\ told' = [told EXCEPT ![s] = "closed"] /\ CallBack(s, "destroy")
    BY <1>12 DEF OnPostClose, kernelVars, batchVars
  <2> HIDE DEF s
  <2>3. OwnInv' /\ Ages
    BY <2>1, <2>2, QuietStep DEF OwnInv, Typed
  <2>4. StackInv'
    BY <2>1, <2>2 DEF CallBack, StackInv, Busy, Ending
  <2> QED
    BY <2>1, <2>2, <2>3, <2>4, GoneGrows DEF MsgsInv
<1>13. CASE Destroy
  <2>1. cur \in Socks /\ obj[cur].type = "INVALIDE"
    BY <1>13 DEF Destroy, StackInv, Ending
  <2>2. lpc' = "dispatch" /\ ret' = ret /\ UNCHANGED queueVars
    BY <1>13 DEF Destroy
  <2> QED
    BY <1>13, <2>1, <2>2, DestroyStep, StackFree, MsgsKept
<1>14. CASE CallbackReturns
  <2>1. UNCHANGED <<obj, file, interest, told, m_events, queueVars, ret>>
    BY <1>14 DEF CallbackReturns, kernelVars, batchVars
  <2>2. OwnInv' /\ Ages
    BY <2>1, QuietStep DEF OwnInv, Typed
  <2>3. StackInv'
    BY <1>14, <2>1 DEF CallbackReturns, StackInv, Busy, Ending, Old
  <2> QED
    BY <2>1, <2>2, <2>3, MsgsKept
<1> QED
  BY <1>1, <1>2, <1>3, <1>4, <1>5, <1>6, <1>7, <1>8, <1>9, <1>10, <1>11, <1>12, <1>13, <1>14
  DEF RunOnce

LEMMA TcpStep == TcpInv /\ [Next]_vars => TcpInv'
<1> SUFFICES ASSUME TcpInv, [Next]_vars PROVE TcpInv'
  OBVIOUS
<1>1. CASE UserCall
  BY <1>1, UserCallStep
<1>2. CASE RunOnce
  BY <1>2, RunOnceStep
<1>3. CASE Network
  <2>1. UNCHANGED <<queueVars, stackVars>>
    BY <1>3 DEF Network
  <2> QED
    BY <1>3, <2>1, NetworkStep, StackKept, MsgsKept DEF TcpInv
<1>4. CASE UNCHANGED vars
  <2>1. UNCHANGED <<obj, file, interest, told, m_events, queueVars, stackVars>>
    BY <1>4 DEF vars, kernelVars, batchVars
  <2>2. OwnInv' /\ Ages
    BY <2>1, QuietStep DEF OwnInv, Typed, TcpInv
  <2> QED
    BY <2>1, <2>2, StackKept, MsgsKept DEF TcpInv
<1> QED
  BY <1>1, <1>2, <1>3, <1>4 DEF Next

LEMMA TcpInit == Init => TcpInv
<1> SUFFICES ASSUME Init PROVE TcpInv
  OBVIOUS
<1>1. NewSocket \in Sockets /\ NewSocket.type = "ACCEPT" /\ NewSocket.fd = 0 /\ NewSocket.alive
  <2>1. TRUE \in BOOLEAN /\ FALSE \in BOOLEAN
    BY Zenon
  <2> QED
    BY <2>1 DEF NewSocket, Sockets, Types
<1>2. Typed
  BY <1>1 DEF Init, Typed, Files, Regs
<1>3. TypesInv
  BY <1>1 DEF Init, TypesInv, Old
<1>4. NoReg.ptr \notin Socks
  BY SocksAssumption DEF NoReg, Socks
<1>5. NewInv
  BY <1>1, <1>4 DEF Init, NewInv, Old
<1>6. DescriptorsOwned
  BY <1>1 DEF Init, DescriptorsOwned, OpenFd, Holds
<1>7. StackInv
  BY DEF Init, StackInv, Busy, Ending
<1>8. MsgsInv
  BY DEF Init, MsgsInv
<1> QED
  BY <1>2, <1>3, <1>5, <1>6, <1>7, <1>8 DEF TcpInv, OwnInv

\* In every behaviour, whatever sockets a callback uses, no descriptor is
\* leaked, closed twice or shared.
THEOREM NoDescriptorLost == Spec => []DescriptorsOwned
<1>1. TcpInv => DescriptorsOwned
  BY DEF TcpInv, OwnInv
<1> QED
  BY <1>1, TcpInit, TcpStep, PTL DEF Spec

-----------------------------------------------------------------------------
(***************************************************************************)
(* Users that keep to the discipline: a socket is closed in its own        *)
(* callbacks only, and once it is closed it is used nowhere else either.   *)
(* Then the epoll set is right and every step is one of SocketLife.        *)
(***************************************************************************)

(* The invariant *)

Idle(s) == ~obj[s].recvBuf /\ ~obj[s].sendBuf
Armed(s) == /\ obj[s].recvBuf <=> "IN" \in obj[s].events
            /\ obj[s].sendBuf <=> "OUT" \in obj[s].events
Watched(s) == interest[obj[s].fd] = [ptr |-> s, events |-> obj[s].events]

Unconnected(s) ==
    /\ told[s] \in {"new", "failed", "stuck"}
    /\ obj[s].type \in {"ACCEPT", "CONNECT"} /\ Idle(s)
    /\ told[s] = "new" => obj[s].events = {}
Connects(s) ==
    /\ told[s] = "connecting" /\ obj[s].type = "CONNECT"
    /\ obj[s].fd \in Fds /\ Idle(s) /\ Watched(s)
IsAccepted(s) ==
    told[s] = "accepted" /\ obj[s].type = "ESTABLISHED" /\ Idle(s) /\ obj[s].events = {}
IsOpen(s) ==
    told[s] = "open" /\ obj[s].type = "ESTABLISHED" /\ Armed(s) /\ Watched(s)
IsUnwatched(s) ==
    told[s] = "unwatched" /\ obj[s].type = "ESTABLISHED" /\ Idle(s) /\ obj[s].events = {}
IsClosing(s) ==
    /\ told[s] \in {"open", "unwatched"} /\ obj[s].type = "INVALIDE"
    /\ obj[s].fd \in Fds /\ obj[s].alive
IsClosed(s) == told[s] = "closed" /\ obj[s].type = "INVALIDE"

\* What the user was told of a socket goes with its members.
SocksOk == \A s \in Socks :
    \/ Unconnected(s) \/ Connects(s) \/ IsAccepted(s)
    \/ IsOpen(s) \/ IsUnwatched(s) \/ IsClosing(s) \/ IsClosed(s)

\* The kernel and the batch know only sockets that are in use.
Linked(s) == \/ told[s] = "connecting" /\ obj[s].type = "CONNECT"
             \/ told[s] = "open" /\ obj[s].type = "ESTABLISHED"
KernelInv == \A f \in Fds, s \in Socks :
    interest[f].ptr = s => Linked(s) /\ obj[s].fd = f
EventInv ==
    /\ \A e \in m_events : Linked(e.ptr)
    /\ \A e, d \in m_events : e.ptr = d.ptr => e = d

\* A close message is under way once, for a socket that has not been told.
WaitsClose(s) == told[s] \in {"open", "unwatched"} /\ obj[s].type = "INVALIDE"
QueueInv ==
    /\ \A i \in 1..Len(m_msgs) : m_msgs[i] \in Socks /\ WaitsClose(m_msgs[i])
    /\ \A i, j \in 1..Len(m_msgs) : m_msgs[i] = m_msgs[j] => i = j
    /\ \A i \in 1..Len(msgs) : msgs[i] # NoSock => msgs[i] \in Socks /\ WaitsClose(msgs[i])
    /\ \A i, j \in 1..Len(msgs) : msgs[i] = msgs[j] /\ msgs[i] # NoSock => i = j
    /\ \A i \in 1..Len(msgs), j \in 1..Len(m_msgs) : msgs[i] # m_msgs[j]

\* The socket whose turn it is has no other event in the batch, and once closed
\* its descriptor has not been given to another.
HasTurn == lpc \in {"callback", "in", "out"} /\ cur \in Socks
TurnInv ==
    /\ lpc = "in" => obj[cur].type = "ESTABLISHED"
    /\ Busy => told[cur] = "open"
    /\ Ending => told[cur] = "closed"
    /\ HasTurn => /\ \A e \in m_events : e.ptr # cur
                  /\ WaitsClose(cur) => file[obj[cur].fd] = "closed"

BookInv == SocksOk /\ KernelInv /\ EventInv
LifeInv == TcpInv /\ BookInv /\ QueueInv /\ TurnInv

-----------------------------------------------------------------------------
(* Steps of one socket *)

Others(s) == \A t \in Socks : t # s => obj'[t] = obj[t] /\ told'[t] = told[t]
OwnEntries(s) == \A f \in Fds :
    \/ interest'[f] = interest[f]
    \/ /\ interest[f] = NoReg \/ interest[f].ptr = s
       /\ interest'[f] = NoReg \/ interest'[f].ptr = s

LEMMA NoRegOfNone == NoReg.ptr \notin Socks
BY SocksAssumption DEF NoReg, Socks

\* A step that keeps one socket's books keeps all books.
LEMMA OneSocket ==
  ASSUME Typed, TypesInv, BookInv, NEW s \in Socks, Others(s), OwnEntries(s),
         Unconnected(s)' \/ Connects(s)' \/ IsAccepted(s)' \/ IsOpen(s)'
           \/ IsUnwatched(s)' \/ IsClosing(s)' \/ IsClosed(s)',
         \A f \in Fds : interest'[f].ptr = s => Linked(s)' /\ obj'[s].fd = f,
         m_events' \subseteq m_events,
         (\A e \in m_events' : e.ptr # s) \/ Linked(s)'
  PROVE  BookInv'
<1>1. ASSUME NEW t \in Socks, t # s, NEW f \in Fds, interest[f].ptr = t
      PROVE  interest'[f] = interest[f]
  BY <1>1, NoRegOfNone DEF OwnEntries
<1>2. ASSUME NEW t \in Socks, t # s, NEW f \in Fds, interest'[f].ptr = t
      PROVE  interest'[f] = interest[f]
  BY <1>2, NoRegOfNone DEF OwnEntries
<1>3. ASSUME NEW t \in Socks, t # s, obj[t].fd \in Fds, Watched(t)
      PROVE  Watched(t)'
  <2>1. interest[obj[t].fd].ptr = t
    BY <1>3 DEF Watched
  <2>2. interest'[obj[t].fd] = interest[obj[t].fd]
    BY <1>1, <1>3, <2>1
  <2> QED
    BY <1>3, <2>2 DEF Watched, Others
<1>4. SocksOk'
  <2> SUFFICES ASSUME NEW t \in Socks, t # s
               PROVE  \/ Unconnected(t)' \/ Connects(t)' \/ IsAccepted(t)'
                      \/ IsOpen(t)' \/ IsUnwatched(t)' \/ IsClosing(t)' \/ IsClosed(t)'
    BY DEF SocksOk
  <2>1. obj'[t] = obj[t] /\ told'[t] = told[t]
    BY DEF Others
  <2>2. CASE Unconnected(t)
    BY <2>1, <2>2 DEF Unconnected, Idle
  <2>3. CASE Connects(t)
    BY <1>3, <2>1, <2>3 DEF Connects, Idle
  <2>4. CASE IsAccepted(t)
    BY <2>1, <2>4 DEF IsAccepted, Idle
  <2>5. CASE IsOpen(t)
    BY <1>3, <2>1, <2>5 DEF IsOpen, Armed, TypesInv
  <2>6. CASE IsUnwatched(t) \/ IsClosing(t) \/ IsClosed(t)
    BY <2>1, <2>6 DEF IsUnwatched, IsClosing, IsClosed, Idle
  <2> QED
    BY <2>2, <2>3, <2>4, <2>5, <2>6 DEF BookInv, SocksOk
<1>5. \A t \in Socks : t # s => (Linked(t)' <=> Linked(t))
  BY DEF Others, Linked
<1>6. KernelInv'
  <2> SUFFICES ASSUME NEW f \in Fds, NEW t \in Socks, interest'[f].ptr = t, t # s
               PROVE  Linked(t)' /\ obj'[t].fd = f
    BY DEF KernelInv
  <2>1. interest[f].ptr = t
    BY <1>2
  <2> QED
    BY <1>5, <2>1 DEF BookInv, KernelInv, Others
<1>7. EventInv'
  <2>1. \A e \in m_events : e.ptr \in Socks
    BY DEF Typed, Events
  <2>2. \A e \in m_events' : Linked(e.ptr)'
    BY <1>5, <2>1 DEF BookInv, EventInv
  <2> QED
    BY <2>2 DEF BookInv, EventInv
<1> QED
  BY <1>4, <1>6, <1>7 DEF BookInv

\* A step that touches no socket.
LEMMA NoSocket ==
  ASSUME BookInv, UNCHANGED <<obj, told, interest>>, m_events' \subseteq m_events
  PROVE  BookInv'
<1>1. SocksOk'
  BY DEF BookInv, SocksOk, Unconnected, Connects, IsAccepted, IsOpen, IsClosing, IsUnwatched, IsClosed,
         Idle, Armed, Watched
<1>2. KernelInv'
  BY DEF BookInv, KernelInv, Linked
<1>3. EventInv'
  BY DEF BookInv, EventInv, Linked
<1> QED
  BY <1>1, <1>2, <1>3 DEF BookInv

LEMMA QueueKept ==
  ASSUME QueueInv, UNCHANGED queueVars, \A t \in Socks : WaitsClose(t) => WaitsClose(t)'
  PROVE  QueueInv'
BY DEF QueueInv, queueVars

\* Close puts its message behind the others.
LEMMA QueueGrows ==
  ASSUME QueueInv, MsgsInv, NEW s \in Socks, ~WaitsClose(s), WaitsClose(s)',
         \A t \in Socks : WaitsClose(t) => WaitsClose(t)',
         m_msgs' = Append(m_msgs, s), msgs' = msgs
  PROVE  QueueInv'
<1>1. m_msgs \in Seq(Gone) /\ msgs \in Seq(Gone)
  BY DEF MsgsInv
<1>2. /\ Len(m_msgs') = Len(m_msgs) + 1 /\ Len(m_msgs) \in Nat
      /\ m_msgs'[Len(m_msgs) + 1] = s
      /\ \A i \in 1..Len(m_msgs) : m_msgs'[i] = m_msgs[i] /\ m_msgs'[i] # s
  BY <1>1 DEF QueueInv
<1>3. \A i \in 1..Len(msgs) : msgs[i] # s
  BY NoRegOfNone DEF QueueInv, NoReg
<1>4. 1..Len(m_msgs') = 1..Len(m_msgs) \cup {Len(m_msgs) + 1}
  BY <1>2
<1>5. \A i \in 1..Len(m_msgs') : m_msgs'[i] \in Socks /\ WaitsClose(m_msgs[i])'
  BY <1>2, <1>4 DEF QueueInv
<1>6. \A i, j \in 1..Len(m_msgs') : m_msgs'[i] = m_msgs'[j] => i = j
  BY <1>2, <1>4 DEF QueueInv
<1>7. \A i \in 1..Len(msgs') : msgs'[i] # NoSock => msgs'[i] \in Socks /\ WaitsClose(msgs[i])'
  BY DEF QueueInv
<1>8. \A i, j \in 1..Len(msgs') : msgs'[i] = msgs'[j] /\ msgs'[i] # NoSock => i = j
  BY DEF QueueInv
<1>9. \A i \in 1..Len(msgs'), j \in 1..Len(m_msgs') : msgs'[i] # m_msgs'[j]
  BY <1>2, <1>3, <1>4 DEF QueueInv
<1> QED
  BY <1>5, <1>6, <1>7, <1>8, <1>9 DEF QueueInv

-----------------------------------------------------------------------------
(* Closing *)

\* The kernel watches no descriptor for a socket that holds it and is not linked.
LEMMA Unlinked ==
  ASSUME LifeInv, NEW s \in Socks, obj[s].type = "ESTABLISHED", ~Linked(s)
  PROVE  obj[s].fd \in Fds /\ obj[s].alive /\ interest[obj[s].fd] = NoReg
<1>0. Typed /\ TypesInv
  BY DEF LifeInv, TcpInv, OwnInv
<1>1. obj[s].fd \in Fds /\ obj[s].alive
  BY <1>0 DEF Typed, TypesInv, Sockets
<1>2. ASSUME interest[obj[s].fd] # NoReg PROVE FALSE
  <2> DEFINE t == interest[obj[s].fd].ptr
  <2>1. t \in Socks
    BY <1>0, <1>1, <1>2 DEF Typed, Regs
  <2>2. Linked(t) /\ obj[t].fd = obj[s].fd
    BY <1>1, <2>1 DEF LifeInv, BookInv, KernelInv
  <2>3. obj[t].alive
    BY <1>0, <2>1, <2>2 DEF Linked, Typed, TypesInv, Sockets
  <2>4. Holds(t, obj[s].fd) /\ Holds(s, obj[s].fd)
    BY <1>1, <2>2, <2>3 DEF Holds, Linked
  <2>5. t = s
    BY <1>1, <2>1, <2>4 DEF LifeInv, TcpInv, OwnInv, DescriptorsOwned
  <2> QED
    BY <2>2, <2>5
<1> QED
  BY <1>1, <1>2

\* CloseWith on an open socket closes it, on a closing one changes only buffers.
LEMMA CloseBooks ==
  ASSUME LifeInv, NEW s \in Socks, NEW o, CopyOf(o, s), CloseWith(s, o),
         IsOpen(s) \/ IsUnwatched(s) \/ IsClosing(s),
         m_events' \subseteq m_events, \A e \in m_events' : e.ptr # s,
         UNCHANGED <<msgs, told>>
  PROVE  /\ BookInv' /\ QueueInv'
         /\ WaitsClose(s)'
         /\ obj'[s].fd = obj[s].fd /\ Others(s)
         /\ ~IsClosing(s) => file'[obj[s].fd] = "closed"
         /\ \A f \in Fds : file[f] = "closed" => file'[f] = "closed"
<1> USE DEF LifeInv, TcpInv, OwnInv
<1>0. Typed /\ TypesInv /\ obj \in [Socks -> Sockets] /\ file \in [Fds -> Files] /\ interest \in [Fds -> Regs]
  BY DEF Typed
<1>1. CASE IsOpen(s) \/ IsUnwatched(s)
  <2> DEFINE r == [o EXCEPT !.type = "INVALIDE"]
  <2>1. o.type = "ESTABLISHED" /\ o.fd = obj[s].fd /\ obj[s].fd \in Fds /\ obj[s].alive
    BY <1>0, <1>1 DEF IsOpen, IsUnwatched, CopyOf, TypesInv
  <2>2. /\ obj' = [obj EXCEPT ![s] = r]
        /\ file' = [file EXCEPT ![o.fd] = "closed"]
        /\ interest' = [interest EXCEPT ![o.fd] = NoReg]
        /\ m_msgs' = Append(m_msgs, s)
    BY <2>1 DEF CloseWith
  <2>3. r.type = "INVALIDE" /\ r.fd = obj[s].fd /\ r.alive
    BY <2>1 DEF CopyOf, Sockets
  <2> HIDE DEF r
  <2>4. obj'[s] = r /\ Others(s)
    BY <1>0, <2>2 DEF Others
  <2>5. OwnEntries(s)
    <3>1. interest[o.fd].ptr = s \/ interest[o.fd] = NoReg
      BY <1>1, <2>1, Unlinked DEF IsOpen, IsUnwatched, Watched, Linked
    <3> QED
      BY <1>0, <2>2, <3>1 DEF OwnEntries
  <2>6. IsClosing(s)'
    BY <1>1, <2>1, <2>3, <2>4 DEF IsOpen, IsUnwatched, IsClosing
  <2>7. \A f \in Fds : interest'[f].ptr # s
    BY <1>0, <2>1, <2>2, NoRegOfNone DEF BookInv, KernelInv
  <2>8. BookInv'
    BY <1>0, <2>4, <2>5, <2>6, <2>7, OneSocket
  <2>9. ~WaitsClose(s) /\ WaitsClose(s)'
    BY <1>1, <2>6 DEF IsOpen, IsUnwatched, IsClosing, WaitsClose
  <2>10. \A t \in Socks : WaitsClose(t) => WaitsClose(t)'
    BY <2>4, <2>9 DEF WaitsClose, Others
  <2>11. QueueInv'
    BY <2>2, <2>9, <2>10, QueueGrows
  <2>12. file'[obj[s].fd] = "closed" /\ \A f \in Fds : file[f] = "closed" => file'[f] = "closed"
    BY <1>0, <2>1, <2>2
  <2> QED
    BY <2>3, <2>4, <2>8, <2>9, <2>11, <2>12
<1>2. CASE IsClosing(s)
  <2>1. o.type = "INVALIDE" /\ o.fd = obj[s].fd /\ o.alive = obj[s].alive
    BY <1>2 DEF IsClosing, CopyOf
  <2>2. obj' = [obj EXCEPT ![s] = o] /\ UNCHANGED <<file, interest, m_msgs>>
    BY <2>1 DEF CloseWith, kernelVars
  <2>3. obj'[s] = o /\ Others(s)
    BY <1>0, <2>2 DEF Others
  <2>4. OwnEntries(s)
    BY <2>2 DEF OwnEntries
  <2>5. IsClosing(s)'
    BY <1>2, <2>1, <2>3 DEF IsClosing
  <2>6. \A f \in Fds : interest'[f].ptr # s
    BY <1>2, <2>2 DEF BookInv, KernelInv, Linked, IsClosing
  <2>7. BookInv'
    BY <1>0, <2>3, <2>4, <2>5, <2>6, OneSocket
  <2>8. WaitsClose(s)'
    BY <2>5 DEF IsClosing, WaitsClose
  <2>9. QueueInv'
    BY <2>2, <2>3, <2>8, QueueKept DEF Others, WaitsClose, queueVars
  <2> QED
    BY <1>2, <2>1, <2>2, <2>3, <2>7, <2>8, <2>9
<1> QED
  BY <1>1, <1>2

-----------------------------------------------------------------------------
(* The mapping to SocketLife *)

LifeOf(s) == IF obj[s].type = "INVALIDE" /\ told[s] # "closed" THEN "closing"
             ELSE IF told[s] = "unwatched" THEN "open" ELSE told[s]

Follows == [Life!Next]_(Life!lifeVars)
Kept == BookInv' /\ QueueInv' /\ TurnInv' /\ Follows

LEMMA LifeMoves ==
  ASSUME NEW s \in Socks, Others(s), NEW from, NEW to, LifeOf(s) \in from, LifeOf(s)' = to
  PROVE  Life!Moves(s, from, to)
<1>1. \A t \in Socks : t # s => LifeOf(t)' = LifeOf(t)
  BY DEF LifeOf, Others
<1>2. [t \in Socks |-> LifeOf(t)'] = [[t \in Socks |-> LifeOf(t)] EXCEPT ![s] = to]
  BY <1>1
<1>3. [t \in Socks |-> LifeOf(t)][s] \in from
  OBVIOUS
<1> QED
  BY <1>2, <1>3 DEF Life!Moves, LifeOf

\* Nothing that the user can tell.
LEMMA LifeStays ==
  ASSUME \A t \in Socks : LifeOf(t)' = LifeOf(t),
         lpc = "callback" <=> lpc' = "callback", lpc = "callback" => cur' = cur
  PROVE  Follows
BY DEF Follows, Life!lifeVars, LifeOf

LEMMA OthersLive ==
  ASSUME NEW s \in Socks, Others(s), LifeOf(s)' = LifeOf(s)
  PROVE  \A t \in Socks : LifeOf(t)' = LifeOf(t)
BY DEF Others, LifeOf

-----------------------------------------------------------------------------
(* The user's calls *)

LEMMA TurnKept ==
  ASSUME TurnInv, lpc = "callback", UNCHANGED stackVars, m_events' \subseteq m_events,
         Busy \/ Ending => told'[cur] = told[cur],
         cur \in Socks /\ WaitsClose(cur)' => file'[obj'[cur].fd] = "closed"
  PROVE  TurnInv'
BY DEF TurnInv, stackVars, Busy, Ending, HasTurn

\* The user calls a socket in its turn, or one that the kernel does not watch.
LEMMA OwnTurn ==
  ASSUME LifeInv, NEW s \in Socks, MayUse(s)
  PROVE  /\ lpc = "callback" /\ told[s] \in {"open", "unwatched"}
         /\ IsOpen(s) \/ IsUnwatched(s) \/ IsClosing(s)
         /\ s = cur \/ ~IsOpen(s) => \A e \in m_events : e.ptr # s
         /\ cur \in Socks /\ WaitsClose(cur) => obj[cur].fd \in Fds /\ file[obj[cur].fd] = "closed"
<1>1. lpc = "callback" /\ told[s] \in {"open", "unwatched"}
  BY DEF MayUse
<1>2. IsOpen(s) \/ IsUnwatched(s) \/ IsClosing(s)
  BY <1>1 DEF LifeInv, BookInv, SocksOk, Unconnected, Connects, IsAccepted, IsClosed
<1>3. ~IsOpen(s) => ~Linked(s)
  BY <1>1, <1>2 DEF IsUnwatched, IsClosing, Linked
<1>4. s = cur \/ ~IsOpen(s) => \A e \in m_events : e.ptr # s
  BY <1>1, <1>3 DEF LifeInv, TurnInv, HasTurn, BookInv, EventInv
<1>5. ASSUME cur \in Socks, WaitsClose(cur)
      PROVE  obj[cur].fd \in Fds /\ file[obj[cur].fd] = "closed"
  <2>1. IsClosing(cur)
    BY <1>5 DEF WaitsClose, LifeInv, BookInv, SocksOk, Unconnected, Connects, IsAccepted, IsOpen,
                IsUnwatched, IsClosed
  <2> QED
    BY <1>1, <1>5, <2>1 DEF IsClosing, LifeInv, TurnInv, HasTurn
<1> QED
  BY <1>1, <1>2, <1>4, <1>5

\* A descriptor that is closed is not in the epoll set.
LEMMA ClosedUnregistered ==
  ASSUME LifeInv, NEW f \in Fds, file[f] = "closed"
  PROVE  interest[f] = NoReg
<1> SUFFICES ASSUME interest[f] # NoReg PROVE FALSE
  OBVIOUS
<1>1. interest[f].ptr \in Socks
  BY DEF LifeInv, TcpInv, OwnInv, Typed, Regs
<1>2. Linked(interest[f].ptr) /\ obj[interest[f].ptr].fd = f
  BY <1>1 DEF LifeInv, BookInv, KernelInv
<1>3. obj[interest[f].ptr].alive
  BY <1>1, <1>2 DEF Linked, LifeInv, TcpInv, OwnInv, TypesInv, Typed, Sockets
<1>4. Holds(interest[f].ptr, f)
  BY <1>2, <1>3 DEF Holds, Linked
<1> QED
  BY <1>1, <1>4 DEF LifeInv, TcpInv, OwnInv, DescriptorsOwned, OpenFd

\* Close, by the user or by a failing request, in the turn of the socket or of
\* one that the kernel does not watch.
LEMMA CloseCalled ==
  ASSUME LifeInv, NEW s \in Socks, MayUse(s), s = cur \/ ~IsOpen(s),
         NEW o, CopyOf(o, s), CloseWith(s, o),
         UNCHANGED <<msgs, batchVars, stackVars, told>>
  PROVE  Kept
<1>1. m_events' = m_events /\ UNCHANGED <<lpc, cur, ret>>
  BY DEF batchVars, stackVars
<1>2. /\ BookInv' /\ QueueInv' /\ WaitsClose(s)' /\ Others(s) /\ obj'[s].fd = obj[s].fd
      /\ ~IsClosing(s) => file'[obj[s].fd] = "closed"
      /\ \A f \in Fds : file[f] = "closed" => file'[f] = "closed"
  BY <1>1, OwnTurn, CloseBooks
<1>3. TurnInv'
  <2>1. ASSUME cur \in Socks, WaitsClose(cur)' PROVE file'[obj'[cur].fd] = "closed"
    <3>1. CASE WaitsClose(cur)
      <4>1. obj'[cur].fd = obj[cur].fd
        BY <1>2, <2>1 DEF Others
      <4> QED
        BY <1>2, <2>1, <3>1, <4>1, OwnTurn
    <3>2. CASE ~WaitsClose(cur)
      <4>1. cur = s
        BY <1>1, <1>2, <2>1, <3>2 DEF Others, WaitsClose
      <4>2. ~IsClosing(s)
        BY <3>2, <4>1 DEF IsClosing, WaitsClose
      <4> QED
        BY <1>2, <4>1, <4>2
    <3> QED
      BY <3>1, <3>2
  <2>2. lpc = "callback" /\ told' = told
    BY OwnTurn
  <2> QED
    BY <1>1, <2>1, <2>2, TurnKept DEF LifeInv
<1>4. Follows
  <2>1. LifeOf(s)' = "closing"
    BY <1>2 DEF LifeOf, WaitsClose
  <2>2. CASE IsOpen(s) \/ IsUnwatched(s)
    <3>1. LifeOf(s) = "open"
      BY <2>2 DEF IsOpen, IsUnwatched, LifeOf
    <3>2. Life!Moves(s, {"open"}, "closing")
      BY <1>2, <2>1, <3>1, LifeMoves
    <3>3. Life!Close(s)
      BY <1>1, <3>2 DEF Life!Close
    <3> QED
      BY <3>3 DEF Follows, Life!Next
  <2>3. CASE IsClosing(s)
    <3>1. LifeOf(s) = "closing"
      BY <2>3 DEF IsClosing, LifeOf
    <3> QED
      BY <1>1, <1>2, <2>1, <3>1, OthersLive, LifeStays
  <2> QED
    BY <2>2, <2>3, OwnTurn
<1> QED
  BY <1>2, <1>3, <1>4 DEF Kept

LEMMA RequestKept ==
  ASSUME LifeInv, ~CrossCalls, NEW s \in Socks, NEW buf, NEW event,
         (buf = "sendBuf" /\ event = "OUT") \/ (buf = "recvBuf" /\ event = "IN"),
         Request(s, buf, event)
  PROVE  Kept
<1> DEFINE asked == [obj[s] EXCEPT ![buf] = TRUE, !.events = @ \cup {event}]
<1>0. Typed /\ TypesInv /\ obj \in [Socks -> Sockets] /\ interest \in [Fds -> Regs]
  BY DEF LifeInv, TcpInv, OwnInv, Typed
<1>1. obj[s] \in Sockets /\ obj[s].events \cup {event} \in SUBSET Flags
  BY <1>0 DEF Sockets, Flags
<1>2. CopyOf(asked, s) /\ asked.events = obj[s].events \cup {event}
      /\ (buf = "sendBuf" => asked.sendBuf = TRUE /\ asked.recvBuf = obj[s].recvBuf)
      /\ (buf = "recvBuf" => asked.recvBuf = TRUE /\ asked.sendBuf = obj[s].sendBuf)
  <2>1. CASE buf = "sendBuf"
    BY <1>1, <2>1 DEF CopyOf, Sockets
  <2>2. CASE buf = "recvBuf"
    BY <1>1, <2>2 DEF CopyOf, Sockets
  <2> QED
    BY <2>1, <2>2
<1>3. /\ MayUse(s) /\ (s = cur \/ obj[s].type = "ESTABLISHED")
      /\ UNCHANGED <<msgs, batchVars, stackVars, told>>
  BY DEF Request
<1>4. CASE ~Registered(obj[s].fd)
  <2>1. CloseWith(s, asked)
    BY <1>4 DEF Request
  <2>2. ~IsOpen(s)
    <3> SUFFICES ASSUME IsOpen(s) PROVE FALSE
      OBVIOUS
    <3>1. obj[s].fd \in Fds /\ interest[obj[s].fd].ptr = s
      BY <1>0 DEF IsOpen, Watched, TypesInv
    <3> QED
      BY <1>4, <3>1, NoRegOfNone DEF Registered
  <2> HIDE DEF asked
  <2> QED
    BY <1>2, <1>3, <2>1, <2>2, CloseCalled
<1>5. CASE Registered(obj[s].fd)
  <2>1. /\ obj' = [obj EXCEPT ![s] = asked] /\ UNCHANGED <<file, m_msgs>>
        /\ interest' = [interest EXCEPT ![obj[s].fd] = [ptr |-> s, events |-> asked.events]]
    BY <1>5 DEF Request
  <2> HIDE DEF asked
  <2>2. IsOpen(s)
    <3>1. ~IsUnwatched(s)
      BY <1>5, Unlinked DEF Registered, IsUnwatched, Linked
    <3>2. ~IsClosing(s)
      <4> SUFFICES ASSUME IsClosing(s) PROVE FALSE
        OBVIOUS
      <4>1. s = cur /\ WaitsClose(s)
        BY <1>3 DEF IsClosing, WaitsClose
      <4> QED
        BY <1>3, <1>5, <4>1, OwnTurn, ClosedUnregistered DEF Registered
    <3> QED
      BY <1>3, <3>1, <3>2, OwnTurn
  <2>3. obj'[s] = asked /\ Others(s)
    BY <1>0, <1>3, <2>1 DEF Others
  <2>4. obj[s].fd \in Fds /\ asked.fd = obj[s].fd /\ asked.type = "ESTABLISHED"
    BY <1>2, <1>5, <2>2 DEF Registered, CopyOf, IsOpen
  <2>5. interest[obj[s].fd].ptr = s
    BY <2>2 DEF IsOpen, Watched
  <2>6. OwnEntries(s)
    BY <1>0, <2>1, <2>5 DEF OwnEntries
  <2>7. Watched(s)'
    BY <1>0, <2>1, <2>3, <2>4 DEF Watched
  <2>8. Armed(s)'
    BY <1>2, <2>2, <2>3 DEF IsOpen, Armed
  <2>9. IsOpen(s)' /\ Linked(s)'
    BY <1>3, <2>2, <2>3, <2>4, <2>7, <2>8 DEF IsOpen, Linked
  <2>10. \A f \in Fds : interest'[f].ptr = s => obj'[s].fd = f
    BY <1>0, <2>1, <2>3, <2>4 DEF LifeInv, BookInv, KernelInv
  <2>11. m_events' = m_events /\ UNCHANGED <<lpc, cur, ret>>
    BY <1>3 DEF batchVars, stackVars
  <2>12. BookInv'
    BY <1>0, <2>3, <2>6, <2>9, <2>10, <2>11, OneSocket DEF LifeInv
  <2>13. ~WaitsClose(s) /\ ~WaitsClose(s)'
    BY <2>2, <2>9 DEF IsOpen, WaitsClose
  <2>14. QueueInv'
    BY <1>3, <2>1, <2>3, <2>13, QueueKept DEF Others, WaitsClose, queueVars, LifeInv
  <2>15. TurnInv'
    <3>1. ASSUME cur \in Socks, WaitsClose(cur)' PROVE file'[obj'[cur].fd] = "closed"
      <4>1. cur # s
        BY <2>11, <2>13, <3>1 DEF WaitsClose
      <4>2. obj'[cur] = obj[cur] /\ WaitsClose(cur)
        BY <2>3, <2>11, <3>1, <4>1 DEF Others, WaitsClose
      <4> QED
        BY <1>3, <2>1, <3>1, <4>2, OwnTurn
    <3>2. lpc = "callback" /\ told' = told
      BY <1>3, OwnTurn
    <3> QED
      BY <1>3, <2>11, <3>1, <3>2, TurnKept DEF LifeInv
  <2>16. Follows
    <3>1. LifeOf(s)' = LifeOf(s)
      BY <2>2, <2>9 DEF IsOpen, LifeOf
    <3> QED
      BY <2>3, <2>11, <3>1, OthersLive, LifeStays
  <2> QED
    BY <2>12, <2>14, <2>15, <2>16 DEF Kept
<1> QED
  BY <1>4, <1>5

LEMMA CloseKept ==
  ASSUME LifeInv, ~CrossCalls, NEW s \in Socks, Close(s)
  PROVE  Kept
<1>1. /\ MayUse(s) /\ (s = cur \/ told[s] = "unwatched") /\ CloseWith(s, obj[s])
      /\ UNCHANGED <<msgs, batchVars, stackVars, told>>
  BY DEF Close
<1>2. CopyOf(obj[s], s)
  BY CopyOfItself DEF LifeInv, TcpInv, OwnInv
<1> QED
  BY <1>1, <1>2, CloseCalled DEF IsOpen

\* The steps of a socket that is neither closing before nor after.
LEMMA NotClosing ==
  ASSUME QueueInv, NEW s \in Socks, Others(s), UNCHANGED queueVars, ~WaitsClose(s)
  PROVE  QueueInv'
BY QueueKept DEF Others, WaitsClose

LEMMA InitializeKept ==
  ASSUME LifeInv, NEW s \in Socks, Initialize(s)
  PROVE  Kept
<1>0. /\ Typed /\ TypesInv /\ obj \in [Socks -> Sockets] /\ interest \in [Fds -> Regs]
      /\ DOMAIN told = Socks
  BY DEF LifeInv, TcpInv, OwnInv, Typed
<1>1. /\ obj' = [obj EXCEPT ![s].events = {}]
      /\ m_events' = m_events /\ told[s] = "accepted" /\ lpc = "callback" /\ cur \in {s, NoSock}
      /\ UNCHANGED <<file, queueVars, stackVars>>
  BY DEF Initialize, batchVars
<1>2. IsAccepted(s)
  BY <1>1 DEF LifeInv, BookInv, SocksOk, Unconnected, Connects, IsOpen, IsClosing, IsUnwatched, IsClosed
<1>3. obj[s].fd \in Fds /\ interest[obj[s].fd] = NoReg
  BY <1>2, Unlinked DEF IsAccepted, Linked
<1>4. /\ obj'[s].type = "ESTABLISHED" /\ obj'[s].fd = obj[s].fd /\ obj'[s].events = {}
      /\ obj'[s].recvBuf = obj[s].recvBuf /\ obj'[s].sendBuf = obj[s].sendBuf
  BY <1>0, <1>1, <1>2 DEF Sockets, IsAccepted
<1>5. /\ told'[s] \in {"open", "unwatched"} /\ Others(s)
      /\ \A t \in Socks : t # s => told'[t] = told[t]
  BY <1>0, <1>1 DEF Initialize, Others
<1>6. OwnEntries(s) /\ \A f \in Fds : interest'[f].ptr = s => f = obj[s].fd /\ told'[s] = "open"
  <2>1. CASE /\ interest' = [interest EXCEPT ![obj[s].fd] = [ptr |-> s, events |-> {}]]
             /\ told' = [told EXCEPT ![s] = "open"]
    BY <1>0, <1>1, <1>2, <1>3, <2>1 DEF OwnEntries, LifeInv, BookInv, KernelInv
  <2>2. CASE interest' = interest
    BY <1>1, <2>2 DEF OwnEntries, LifeInv, BookInv, KernelInv, Linked
  <2> QED
    BY <2>1, <2>2 DEF Initialize
<1>7. IsOpen(s)' \/ IsUnwatched(s)'
  <2>1. CASE /\ interest' = [interest EXCEPT ![obj[s].fd] = [ptr |-> s, events |-> {}]]
             /\ told' = [told EXCEPT ![s] = "open"]
    BY <1>0, <1>2, <1>3, <1>4, <2>1 DEF IsOpen, Watched, Armed, IsAccepted, Idle
  <2>2. CASE told' = [told EXCEPT ![s] = "unwatched"]
    BY <1>0, <1>2, <1>4, <2>2 DEF IsUnwatched, IsAccepted, Idle
  <2> QED
    BY <2>1, <2>2 DEF Initialize
<1>8. \A f \in Fds : interest'[f].ptr = s => Linked(s)' /\ obj'[s].fd = f
  BY <1>4, <1>6 DEF Linked
<1>9. \A e \in m_events' : e.ptr # s
  BY <1>1 DEF LifeInv, BookInv, EventInv, Linked
<1>10. BookInv'
  BY <1>0, <1>1, <1>5, <1>6, <1>7, <1>8, <1>9, OneSocket DEF LifeInv
<1>11. ~WaitsClose(s) /\ ~WaitsClose(s)'
  BY <1>1, <1>4 DEF WaitsClose
<1>12. QueueInv'
  BY <1>1, <1>5, <1>11, NotClosing DEF LifeInv
<1>13. TurnInv'
  <2>1. ~(Busy \/ Ending) \/ cur # s
    BY <1>1 DEF LifeInv, TurnInv
  <2>2. Busy \/ Ending => cur \in Socks
    BY DEF LifeInv, TcpInv, StackInv
  <2>3. NoSock \notin Socks
    BY SocksAssumption DEF Socks
  <2>4. cur' = cur
    BY <1>1 DEF stackVars
  <2> QED
    BY <1>1, <1>11, <2>1, <2>2, <2>3, <2>4, TurnKept DEF LifeInv
<1>14. Follows
  <2>1. LifeOf(s) = "accepted" /\ LifeOf(s)' = "open"
    BY <1>1, <1>2, <1>4, <1>5 DEF LifeOf, IsAccepted
  <2>2. Life!Moves(s, {"accepted"}, "open")
    BY <1>5, <2>1, LifeMoves
  <2>3. Life!Initialize(s)
    BY <1>1, <2>2 DEF Life!Initialize, stackVars
  <2> QED
    BY <2>3 DEF Follows, Life!Next
<1> QED
  BY <1>10, <1>12, <1>13, <1>14 DEF Kept

\* A call of DoConnect, for a socket that is not connected.
LEMMA MayConnectNow ==
  ASSUME LifeInv, ~CrossCalls, NEW s \in Socks, MayConnect(s)
  PROVE  /\ lpc = "callback" /\ Unconnected(s) /\ obj[s].alive
         /\ \A e \in m_events : e.ptr # s
         /\ \A f \in Fds : interest[f].ptr # s
         /\ ~(Busy \/ Ending) \/ cur # s
         /\ cur \in {s, NoSock}
<1>1. lpc = "callback" /\ told[s] \in {"new", "failed"} /\ cur \in {s, NoSock}
  BY DEF MayConnect
<1>2. Unconnected(s)
  BY <1>1 DEF LifeInv, BookInv, SocksOk, Connects, IsAccepted, IsOpen, IsClosing, IsUnwatched, IsClosed
<1>3. obj[s].alive
  BY <1>2 DEF Unconnected, LifeInv, TcpInv, OwnInv, TypesInv, Typed, Sockets
<1>4. ~Linked(s)
  BY <1>1 DEF Linked
<1> QED
  BY <1>1, <1>2, <1>3, <1>4 DEF LifeInv, BookInv, EventInv, KernelInv, TurnInv

\* What DoConnect and DoConnectFails have in common.
LEMMA ConnectKept ==
  ASSUME LifeInv, ~CrossCalls, NEW s \in Socks, MayConnect(s), NEW to \in {"connecting", "stuck"},
         Others(s), told'[s] = to, obj'[s].type # "INVALIDE", BookInv',
         UNCHANGED <<queueVars, batchVars, stackVars>>
  PROVE  Kept
<1>1. ~WaitsClose(s) /\ ~WaitsClose(s)'
  BY MayConnectNow DEF WaitsClose, Unconnected
<1>2. QueueInv'
  BY <1>1, NotClosing DEF LifeInv
<1>3. m_events' = m_events /\ UNCHANGED <<lpc, cur>>
  BY DEF batchVars, stackVars
<1>4. TurnInv'
  <2>1. Busy \/ Ending => cur \in Socks /\ cur # s
    BY MayConnectNow DEF LifeInv, TcpInv, StackInv
  <2>2. Busy \/ Ending => told'[cur] = told[cur]
    BY <2>1 DEF Others
  <2>3. NoSock \notin Socks
    BY SocksAssumption DEF Socks
  <2>4. cur \in Socks => cur = s
    BY <2>3, MayConnectNow
  <2> QED
    BY <1>1, <1>3, <2>2, <2>4, MayConnectNow, TurnKept DEF LifeInv
<1>5. Follows
  <2>1. LifeOf(s) \in {"new", "failed"} /\ LifeOf(s)' = to
    BY MayConnectNow DEF LifeOf, Unconnected, MayConnect
  <2>2. Life!Moves(s, {"new", "failed"}, to)
    BY <2>1, LifeMoves
  <2>3. Life!DoConnect(s)
    BY <1>3, <2>2 DEF Life!DoConnect
  <2> QED
    BY <2>3 DEF Follows, Life!Next
<1> QED
  BY <1>2, <1>4, <1>5 DEF Kept

LEMMA DoConnectKept ==
  ASSUME LifeInv, ~CrossCalls, NEW s \in Socks, DoConnect(s)
  PROVE  Kept
<1>0. /\ Typed /\ TypesInv /\ obj \in [Socks -> Sockets] /\ interest \in [Fds -> Regs]
      /\ DOMAIN told = Socks
  BY DEF LifeInv, TcpInv, OwnInv, Typed
<1>1. PICK f \in Fds :
        /\ LowestFree(f)
        /\ interest' = [interest EXCEPT ![f] = [ptr |-> s, events |-> {"OUT"}]]
        /\ obj' = [obj EXCEPT ![s].fd = f, ![s].type = "CONNECT", ![s].events = {"OUT"}]
  BY DEF DoConnect
<1>2. /\ MayConnect(s) /\ told' = [told EXCEPT ![s] = "connecting"]
      /\ UNCHANGED <<queueVars, batchVars, stackVars>> /\ m_events' = m_events
  BY DEF DoConnect, batchVars
<1>3. /\ obj'[s].type = "CONNECT" /\ obj'[s].fd = f /\ obj'[s].events = {"OUT"}
      /\ obj'[s].recvBuf = obj[s].recvBuf /\ obj'[s].sendBuf = obj[s].sendBuf
      /\ told'[s] = "connecting" /\ Others(s)
  BY <1>0, <1>1, <1>2 DEF Others, Sockets
<1>4. interest[f] = NoReg
  BY <1>1, ClosedUnregistered DEF LowestFree
<1>5. OwnEntries(s)
  BY <1>0, <1>1, <1>4 DEF OwnEntries
<1>6. Connects(s)' /\ Linked(s)'
  BY <1>0, <1>1, <1>2, <1>3, MayConnectNow DEF Connects, Linked, Watched, Idle, Unconnected
<1>7. \A g \in Fds : interest'[g].ptr = s => obj'[s].fd = g
  BY <1>0, <1>1, <1>2, <1>3, MayConnectNow
<1>8. BookInv'
  BY <1>0, <1>2, <1>3, <1>5, <1>6, <1>7, OneSocket DEF LifeInv
<1> QED
  BY <1>2, <1>3, <1>8, ConnectKept

LEMMA DoConnectFailsKept ==
  ASSUME LifeInv, ~CrossCalls, NEW s \in Socks, DoConnectFails(s)
  PROVE  Kept
<1>0. /\ Typed /\ TypesInv /\ obj \in [Socks -> Sockets] /\ DOMAIN told = Socks
  BY DEF LifeInv, TcpInv, OwnInv, Typed
<1>1. /\ MayConnect(s) /\ told' = [told EXCEPT ![s] = "stuck"]
      /\ UNCHANGED <<interest, queueVars, batchVars, stackVars>> /\ m_events' = m_events
  BY DEF DoConnectFails, batchVars
<1>2. /\ obj'[s].type \in {obj[s].type, "CONNECT"}
      /\ obj'[s].recvBuf = obj[s].recvBuf /\ obj'[s].sendBuf = obj[s].sendBuf
      /\ \A t \in Socks : t # s => obj'[t] = obj[t]
  <2>1. CASE \E f \in Fds :
               obj' = [obj EXCEPT ![s].fd = f, ![s].type = "CONNECT", ![s].events = {"OUT"}]
    BY <1>0, <2>1 DEF Sockets
  <2>2. CASE obj' = [obj EXCEPT ![s].fd = -1]
    BY <1>0, <2>2 DEF Sockets
  <2> QED
    BY <2>1, <2>2 DEF DoConnectFails
<1>3. told'[s] = "stuck" /\ Others(s)
  BY <1>0, <1>1, <1>2 DEF Others
<1>4. Unconnected(s)'
  BY <1>1, <1>2, <1>3, MayConnectNow DEF Unconnected, Idle
<1>5. OwnEntries(s)
  BY <1>1 DEF OwnEntries
<1>6. BookInv'
  BY <1>0, <1>1, <1>3, <1>4, <1>5, MayConnectNow, OneSocket DEF LifeInv
<1>7. obj'[s].type # "INVALIDE"
  BY <1>4 DEF Unconnected
<1> QED
  BY <1>1, <1>3, <1>6, <1>7, ConnectKept

LEMMA UserCallKept ==
  ASSUME LifeInv, ~CrossCalls, UserCall PROVE Kept
BY RequestKept, CloseKept, InitializeKept, DoConnectKept, DoConnectFailsKept
   DEF UserCall, DoSend, DoRecv

-----------------------------------------------------------------------------
(* The steps of RunOnce *)

LEMMA LifeSpeaks ==
  ASSUME NEW s, NEW place, lpc # "callback", CallBack(s, place)
  PROVE  Life!Speaks(s)
BY DEF CallBack, Life!Speaks

\* Steps outside callbacks that leave the sockets alone.
LEMMA LifeSilent ==
  ASSUME UNCHANGED <<obj, told>>, lpc # "callback" \/ cur = NoSock, lpc' # "callback" \/ cur' = NoSock
  PROVE  Follows
BY DEF Follows, Life!lifeVars

LEMMA EpollWaitKept == ASSUME LifeInv, EpollWait PROVE Kept
<1>1. /\ UNCHANGED <<obj, interest, told, queueVars>> /\ lpc = "wait" /\ lpc' = "timers"
  BY DEF EpollWait, kernelVars
<1>2. \A e \in m_events' : \E f \in Fds : /\ e = [ptr |-> interest[f].ptr, flag |-> Reported(f)]
                                          /\ interest[f] # NoReg
  BY DEF EpollWait, Registered
<1>3. \A f \in Fds : interest[f] # NoReg =>
        Linked(interest[f].ptr) /\ obj[interest[f].ptr].fd = f
  BY DEF LifeInv, BookInv, KernelInv, TcpInv, OwnInv, Typed, Regs
<1>4. EventInv'
  <2>1. \A e \in m_events' : Linked(e.ptr)'
    BY <1>1, <1>2, <1>3 DEF Linked
  <2>2. ASSUME NEW e \in m_events', NEW d \in m_events', e.ptr = d.ptr PROVE e = d
    <3>1. PICK f \in Fds : e = [ptr |-> interest[f].ptr, flag |-> Reported(f)] /\ interest[f] # NoReg
      BY <1>2
    <3>2. PICK g \in Fds : d = [ptr |-> interest[g].ptr, flag |-> Reported(g)] /\ interest[g] # NoReg
      BY <1>2
    <3>3. f = g
      BY <1>3, <2>2, <3>1, <3>2
    <3> QED
      BY <3>1, <3>2, <3>3
  <2> QED
    BY <2>1, <2>2 DEF EventInv
<1>5. BookInv'
  <2>1. SocksOk' /\ KernelInv'
    BY <1>1 DEF LifeInv, BookInv, SocksOk, Unconnected, Connects, IsAccepted, IsOpen, IsClosing,
                IsUnwatched, IsClosed, Idle, Armed, Watched, KernelInv, Linked
  <2> QED
    BY <1>4, <2>1 DEF BookInv
<1>6. QueueInv'
  BY <1>1, QueueKept DEF LifeInv, WaitsClose
<1>7. TurnInv'
  BY <1>1 DEF TurnInv, Busy, Ending, HasTurn
<1>8. Follows
  BY <1>1, LifeSilent
<1> QED
  BY <1>5, <1>6, <1>7, <1>8 DEF Kept

\* RunOnce takes the next message.
LEMMA QueueTail ==
  ASSUME QueueInv, MsgsInv, msgs # <<>>, msgs' = Tail(msgs), m_msgs' = m_msgs,
         \A t \in Socks : WaitsClose(t) /\ t # Head(msgs) => WaitsClose(t)'
  PROVE  QueueInv'
<1>1. msgs \in Seq(Gone) /\ m_msgs \in Seq(Gone)
  BY DEF MsgsInv
<1>2. /\ Len(msgs') = Len(msgs) - 1 /\ Len(msgs) \in Nat /\ Len(msgs) > 0
      /\ \A i \in 1..Len(msgs') : i + 1 \in 1..Len(msgs) /\ msgs'[i] = msgs[i + 1]
      /\ Head(msgs) = msgs[1] /\ 1 \in 1..Len(msgs)
  BY <1>1
<1>3. \A i \in 1..Len(m_msgs') : (m_msgs[i] \in Socks /\ WaitsClose(m_msgs[i]))'
  BY <1>2 DEF QueueInv
<1>4. \A i, j \in 1..Len(m_msgs') : m_msgs'[i] = m_msgs'[j] => i = j
  BY DEF QueueInv
<1>5. ASSUME NEW i \in 1..Len(msgs'), msgs'[i] # NoSock
      PROVE  msgs'[i] \in Socks /\ WaitsClose(msgs[i])'
  <2>1. msgs[i + 1] # msgs[1]
    BY <1>2, <1>5 DEF QueueInv
  <2>2. msgs[i + 1] \in Socks /\ WaitsClose(msgs[i + 1])
    BY <1>2, <1>5 DEF QueueInv
  <2>3. \A t \in Socks : t = msgs[i + 1] => WaitsClose(t)'
    BY <1>2, <2>1, <2>2
  <2> QED
    BY <1>2, <2>2, <2>3 DEF WaitsClose
<1>6. \A i, j \in 1..Len(msgs') : msgs'[i] = msgs'[j] /\ msgs'[i] # NoSock => i = j
  <2> SUFFICES ASSUME NEW i \in 1..Len(msgs'), NEW j \in 1..Len(msgs'),
                      msgs'[i] = msgs'[j], msgs'[i] # NoSock
               PROVE  i = j
    OBVIOUS
  <2>1. i + 1 = j + 1
    BY <1>2 DEF QueueInv
  <2> QED
    BY <2>1
<1>7. \A i \in 1..Len(msgs'), j \in 1..Len(m_msgs') : msgs'[i] # m_msgs'[j]
  BY <1>2 DEF QueueInv
<1> QED
  BY <1>3, <1>4, <1>5, <1>6, <1>7 DEF QueueInv

\* OnTimer and OnPost speak for no socket.
LEMMA NobodyKept == ASSUME LifeInv, OnTimer \/ OnPost PROVE Kept
<1>1. /\ UNCHANGED <<obj, interest, told, m_events, m_msgs>> /\ lpc # "callback"
      /\ lpc' = "callback" /\ cur' = NoSock /\ ret' \in {"events", "dispatch"}
  BY DEF OnTimer, OnPost, CallBack, kernelVars, batchVars, queueVars
<1>2. BookInv'
  BY <1>1, NoSocket DEF LifeInv
<1>3. QueueInv'
  <2>1. CASE OnTimer
    BY <1>1, <2>1, QueueKept DEF OnTimer, LifeInv, WaitsClose
  <2>2. CASE OnPost
    <3>1. msgs # <<>> /\ msgs' = Tail(msgs) /\ MsgsInv /\ QueueInv
      BY <2>2 DEF OnPost, LifeInv, TcpInv
    <3> QED
      BY <1>1, <3>1, QueueTail DEF WaitsClose
  <2> QED
    BY <2>1, <2>2
<1>4. TurnInv'
  <2>1. NoSock \notin Socks
    BY SocksAssumption DEF Socks
  <2> QED
    BY <1>1, <2>1 DEF TurnInv, Busy, Ending, HasTurn
<1>5. Follows
  BY <1>1, LifeSilent
<1> QED
  BY <1>2, <1>3, <1>4, <1>5 DEF Kept

\* RunOnce goes on to another place.
LEMMA WalkKept ==
  ASSUME LifeInv,
         NoTimer \/ SkipEvent \/ ReadFreed \/ DispatchDone \/ RunOnceReturns \/ SendNothing \/ RecvNothing
  PROVE  Kept
<1>1. /\ UNCHANGED <<obj, interest, told, queueVars>> /\ m_events' \subseteq m_events
      /\ lpc # "callback" /\ lpc' # "callback"
  BY DEF NoTimer, SkipEvent, TakeEvent, ReadFreed, DispatchDone, RunOnceReturns, SendNothing,
         RecvNothing, kernelVars, batchVars, stackVars
<1>2. BookInv' /\ QueueInv' /\ Follows
  BY <1>1, NoSocket, QueueKept, LifeSilent DEF LifeInv, WaitsClose
<1>3. TurnInv'
  <2>1. CASE RecvNothing
    BY <1>1, <2>1 DEF RecvNothing, kernelVars, batchVars, LifeInv, TurnInv, Busy, Ending, HasTurn, WaitsClose
  <2>2. CASE ~RecvNothing
    <3>1. lpc' \in {"events", "crashed", "wait"}
      BY <2>2 DEF NoTimer, SkipEvent, TakeEvent, ReadFreed, DispatchDone, RunOnceReturns, SendNothing, stackVars
    <3> QED
      BY <3>1 DEF TurnInv, Busy, Ending, HasTurn
  <2> QED
    BY <2>1, <2>2
<1> QED
  BY <1>2, <1>3 DEF Kept

\* The event that RunOnce takes is the only one of its socket.
LEMMA Taken ==
  ASSUME LifeInv, NEW types, NEW e \in m_events, TakeEvent(e, types)
  PROVE  /\ e.ptr \in Socks /\ lpc = "events" /\ Linked(e.ptr)
         /\ m_events' \subseteq m_events
         /\ \A d \in m_events' : d.ptr # e.ptr
BY DEF TakeEvent, LifeInv, TcpInv, OwnInv, Typed, Events, BookInv, EventInv

LEMMA FailedEventKept == ASSUME LifeInv, FailedEvent PROVE Kept
<1>1. PICK e \in m_events : TakeEvent(e, {"ESTABLISHED"}) /\ CloseWith(e.ptr, obj[e.ptr])
  BY DEF FailedEvent
<1> DEFINE s == e.ptr
<1>2. /\ s \in Socks /\ m_events' \subseteq m_events /\ (\A d \in m_events' : d.ptr # s)
      /\ Linked(s) /\ obj[s].type = "ESTABLISHED" /\ lpc = "events"
  BY <1>1, Taken DEF TakeEvent
<1>3. UNCHANGED <<msgs, told, lpc, cur, ret>>
  BY DEF FailedEvent, stackVars
<1> HIDE DEF s
<1>4. IsOpen(s)
  BY <1>2 DEF Linked, LifeInv, BookInv, SocksOk, Unconnected, Connects, IsAccepted, IsClosing, IsUnwatched, IsClosed
<1>5. BookInv' /\ QueueInv' /\ WaitsClose(s)' /\ Others(s)
  <2>1. CloseWith(s, obj[s]) /\ CopyOf(obj[s], s)
    BY <1>1, <1>2, CopyOfItself DEF s, LifeInv, TcpInv, OwnInv
  <2> QED
    BY <1>2, <1>3, <1>4, <2>1, CloseBooks
<1>6. TurnInv'
  BY <1>2, <1>3 DEF TurnInv, Busy, Ending, HasTurn
<1>7. Follows
  <2>1. LifeOf(s) = "open" /\ LifeOf(s)' = "closing"
    BY <1>4, <1>5 DEF IsOpen, WaitsClose, LifeOf
  <2>2. Life!Moves(s, {"open"}, "closing")
    BY <1>2, <1>5, <2>1, LifeMoves
  <2>3. Life!Close(s)
    BY <1>3, <2>2 DEF Life!Close
  <2> QED
    BY <1>2, <2>3 DEF Follows, Life!Next
<1> QED
  BY <1>5, <1>6, <1>7 DEF Kept

LEMMA DataEventKept == ASSUME LifeInv, DataEvent PROVE Kept
<1>1. PICK e \in m_events : TakeEvent(e, {"ESTABLISHED"}) /\ cur' = e.ptr
  BY DEF DataEvent
<1>2. /\ e.ptr \in Socks /\ m_events' \subseteq m_events /\ (\A d \in m_events' : d.ptr # e.ptr)
      /\ Linked(e.ptr) /\ obj[e.ptr].type = "ESTABLISHED" /\ lpc = "events"
  BY <1>1, Taken DEF TakeEvent
<1>3. UNCHANGED <<obj, interest, told, queueVars>> /\ lpc' = "in"
  BY DEF DataEvent, kernelVars
<1>4. BookInv' /\ QueueInv' /\ Follows
  BY <1>2, <1>3, NoSocket, QueueKept, LifeSilent DEF LifeInv, WaitsClose
<1>5. TurnInv'
  BY <1>1, <1>2, <1>3 DEF TurnInv, Busy, Ending, HasTurn, Linked, WaitsClose
<1> QED
  BY <1>4, <1>5 DEF Kept

\* A callback of a socket that is not closing, from a step that leaves its other
\* events behind.
LEMMA TurnGiven ==
  ASSUME NEW s \in Socks, CallBack(s, "events"), \A e \in m_events' : e.ptr # s, ~WaitsClose(s)'
  PROVE  TurnInv'
BY DEF CallBack, TurnInv, Busy, Ending, HasTurn

LEMMA ConnectEventKept == ASSUME LifeInv, ConnectEvent PROVE Kept
<1>0. /\ Typed /\ TypesInv /\ obj \in [Socks -> Sockets] /\ interest \in [Fds -> Regs]
      /\ DOMAIN told = Socks
  BY DEF LifeInv, TcpInv, OwnInv, Typed
<1>1. PICK e \in m_events :
        /\ TakeEvent(e, {"CONNECT"})
        /\ obj' = [obj EXCEPT ![e.ptr].events = {}, ![e.ptr].type = "ESTABLISHED"]
        /\ interest' = [interest EXCEPT ![obj[e.ptr].fd] = [ptr |-> e.ptr, events |-> {}]]
        /\ told' = [told EXCEPT ![e.ptr] = "open"]
        /\ CallBack(e.ptr, "events")
  BY DEF ConnectEvent
<1> DEFINE s == e.ptr
<1>2. /\ s \in Socks /\ m_events' \subseteq m_events /\ (\A d \in m_events' : d.ptr # s)
      /\ Linked(s) /\ obj[s].type = "CONNECT" /\ lpc = "events" /\ UNCHANGED queueVars
  BY <1>1, Taken DEF TakeEvent, ConnectEvent
<1> HIDE DEF s
<1>3. Connects(s)
  BY <1>2 DEF Linked, LifeInv, BookInv, SocksOk, Unconnected, IsAccepted, IsOpen, IsClosing, IsUnwatched, IsClosed
<1>4. /\ obj'[s].type = "ESTABLISHED" /\ obj'[s].fd = obj[s].fd /\ obj'[s].events = {}
      /\ obj'[s].recvBuf = obj[s].recvBuf /\ obj'[s].sendBuf = obj[s].sendBuf
      /\ told'[s] = "open" /\ Others(s)
  BY <1>0, <1>1, <1>2 DEF Others, Sockets, s
<1>5. interest' = [interest EXCEPT ![obj[s].fd] = [ptr |-> s, events |-> {}]]
      /\ obj[s].fd \in Fds /\ interest[obj[s].fd].ptr = s
  BY <1>1, <1>3 DEF Connects, Watched, s
<1>6. OwnEntries(s) /\ Watched(s)'
  BY <1>0, <1>4, <1>5 DEF OwnEntries, Watched
<1>7. IsOpen(s)' /\ Linked(s)'
  BY <1>3, <1>4, <1>6 DEF IsOpen, Linked, Armed, Connects, Idle
<1>8. \A f \in Fds : interest'[f].ptr = s => obj'[s].fd = f
  BY <1>0, <1>2, <1>4, <1>5 DEF LifeInv, BookInv, KernelInv
<1>9. BookInv'
  BY <1>0, <1>2, <1>4, <1>6, <1>7, <1>8, OneSocket DEF LifeInv
<1>10. ~WaitsClose(s) /\ ~WaitsClose(s)'
  BY <1>3, <1>4 DEF WaitsClose, Connects
<1>11. QueueInv'
  BY <1>2, <1>4, <1>10, NotClosing DEF LifeInv
<1>12. TurnInv'
  BY <1>1, <1>2, <1>10, TurnGiven DEF s
<1>13. Follows
  <2>1. LifeOf(s) = "connecting" /\ LifeOf(s)' = "open"
    BY <1>3, <1>4 DEF LifeOf, Connects
  <2>2. Life!Moves(s, {"connecting"}, "open")
    BY <1>2, <1>4, <2>1, LifeMoves
  <2>3. Life!Speaks(s)
    BY <1>1, <1>2, LifeSpeaks DEF s
  <2>4. Life!OnConnect(s)
    BY <2>2, <2>3 DEF Life!OnConnect
  <2> QED
    BY <1>2, <2>4 DEF Follows, Life!Next
<1> QED
  BY <1>9, <1>11, <1>12, <1>13 DEF Kept

LEMMA ConnectFailedKept == ASSUME LifeInv, ConnectFailed PROVE Kept
<1>0. /\ Typed /\ TypesInv /\ obj \in [Socks -> Sockets] /\ interest \in [Fds -> Regs]
      /\ DOMAIN told = Socks
  BY DEF LifeInv, TcpInv, OwnInv, Typed
<1>1. PICK e \in m_events :
        /\ TakeEvent(e, {"CONNECT"})
        /\ obj' = [obj EXCEPT ![e.ptr].fd = 0]
        /\ interest' = [interest EXCEPT ![obj[e.ptr].fd] = NoReg]
        /\ told' = [told EXCEPT ![e.ptr] = "failed"]
        /\ CallBack(e.ptr, "events")
  BY DEF ConnectFailed
<1> DEFINE s == e.ptr
<1>2. /\ s \in Socks /\ m_events' \subseteq m_events /\ (\A d \in m_events' : d.ptr # s)
      /\ Linked(s) /\ obj[s].type = "CONNECT" /\ lpc = "events" /\ UNCHANGED queueVars
  BY <1>1, Taken DEF TakeEvent, ConnectFailed
<1> HIDE DEF s
<1>3. Connects(s)
  BY <1>2 DEF Linked, LifeInv, BookInv, SocksOk, Unconnected, IsAccepted, IsOpen, IsClosing, IsUnwatched, IsClosed
<1>4. /\ obj'[s].type = "CONNECT"
      /\ obj'[s].recvBuf = obj[s].recvBuf /\ obj'[s].sendBuf = obj[s].sendBuf
      /\ told'[s] = "failed" /\ Others(s)
  BY <1>0, <1>1, <1>2 DEF Others, Sockets, s
<1>5. interest' = [interest EXCEPT ![obj[s].fd] = NoReg]
      /\ obj[s].fd \in Fds /\ interest[obj[s].fd].ptr = s
  BY <1>1, <1>3 DEF Connects, Watched, s
<1>6. OwnEntries(s)
  BY <1>0, <1>5 DEF OwnEntries
<1>7. Unconnected(s)'
  BY <1>3, <1>4 DEF Unconnected, Connects, Idle
<1>8. \A f \in Fds : interest'[f].ptr # s
  BY <1>0, <1>2, <1>5, NoRegOfNone DEF LifeInv, BookInv, KernelInv
<1>9. BookInv'
  BY <1>0, <1>2, <1>4, <1>6, <1>7, <1>8, OneSocket DEF LifeInv
<1>10. ~WaitsClose(s) /\ ~WaitsClose(s)'
  BY <1>3, <1>4 DEF WaitsClose, Connects
<1>11. QueueInv'
  BY <1>2, <1>4, <1>10, NotClosing DEF LifeInv
<1>12. TurnInv'
  BY <1>1, <1>2, <1>10, TurnGiven DEF s
<1>13. Follows
  <2>1. LifeOf(s) = "connecting" /\ LifeOf(s)' = "failed"
    BY <1>3, <1>4 DEF LifeOf, Connects
  <2>2. Life!Moves(s, {"connecting"}, "failed")
    BY <1>2, <1>4, <2>1, LifeMoves
  <2>3. Life!Speaks(s)
    BY <1>1, <1>2, LifeSpeaks DEF s
  <2>4. Life!OnConnect(s)
    BY <2>2, <2>3 DEF Life!OnConnect
  <2> QED
    BY <1>2, <2>4 DEF Follows, Life!Next
<1> QED
  BY <1>9, <1>11, <1>12, <1>13 DEF Kept

\* The socket that RunOnce is busy with.
LEMMA BusyTurn ==
  ASSUME LifeInv, lpc \in {"in", "out"}
  PROVE  /\ cur \in Socks /\ told[cur] = "open" /\ HasTurn
         /\ IsOpen(cur) \/ IsClosing(cur)
         /\ lpc = "in" => IsOpen(cur)
         /\ IsClosing(cur) => file[obj[cur].fd] = "closed"
         /\ \A e \in m_events : e.ptr # cur
<1>1. cur \in Socks /\ told[cur] = "open" /\ HasTurn
  BY DEF LifeInv, TcpInv, StackInv, TurnInv, Busy, HasTurn
<1>2. IsOpen(cur) \/ IsClosing(cur)
  BY <1>1 DEF LifeInv, BookInv, SocksOk, Unconnected, Connects, IsAccepted, IsUnwatched, IsClosed
<1>3. lpc = "in" => IsOpen(cur)
  BY <1>2 DEF LifeInv, TurnInv, IsClosing
<1>4. IsClosing(cur) => file[obj[cur].fd] = "closed"
  BY <1>1 DEF LifeInv, TurnInv, IsClosing, WaitsClose
<1> QED
  BY <1>1, <1>2, <1>3, <1>4 DEF LifeInv, TurnInv

LEMMA FailingKept == ASSUME LifeInv, RecvCloses \/ SendCloses PROVE Kept
<1>1. /\ lpc \in {"in", "out"} /\ CloseWith(cur, obj[cur]) /\ m_events' = m_events
      /\ UNCHANGED <<msgs, told>> /\ lpc' = "events"
  BY DEF RecvCloses, SendCloses, batchVars
<1>2. PICK s \in Socks : s = cur
  BY <1>1, BusyTurn
<1>3. /\ CloseWith(s, obj[s]) /\ CopyOf(obj[s], s) /\ (IsOpen(s) \/ IsClosing(s))
      /\ \A d \in m_events' : d.ptr # s
  BY <1>1, <1>2, BusyTurn, CopyOfItself DEF LifeInv, TcpInv, OwnInv
<1>4. BookInv' /\ QueueInv' /\ WaitsClose(s)' /\ Others(s)
  BY <1>1, <1>3, CloseBooks
<1>5. TurnInv'
  BY <1>1 DEF TurnInv, Busy, Ending, HasTurn
<1>6. Follows
  <2>1. LifeOf(s) \in {"open", "closing"} /\ LifeOf(s)' = "closing"
    BY <1>3, <1>4 DEF LifeOf, WaitsClose, IsOpen, IsClosing
  <2>2. CASE LifeOf(s) = "open"
    <3>1. Life!Moves(s, {"open"}, "closing")
      BY <1>4, <2>1, <2>2, LifeMoves
    <3>2. Life!Close(s)
      BY <1>1, <3>1 DEF Life!Close
    <3> QED
      BY <3>2 DEF Follows, Life!Next
  <2>3. CASE LifeOf(s) = "closing"
    BY <1>1, <1>4, <2>1, <2>3, OthersLive, LifeStays
  <2> QED
    BY <2>1, <2>2, <2>3
<1> QED
  BY <1>4, <1>5, <1>6 DEF Kept

\* Data have been moved for an open socket, its buffer and interest are cleared.
LEMMA MovedKept ==
  ASSUME LifeInv, NEW s \in Socks, IsOpen(s), Others(s), UNCHANGED <<queueVars, told>>,
         obj'[s].type = "ESTABLISHED", obj'[s].fd = obj[s].fd, Armed(s)',
         interest' = [interest EXCEPT ![obj[s].fd] = [ptr |-> s, events |-> obj'[s].events]],
         m_events' = m_events, \A e \in m_events : e.ptr # s,
         lpc # "callback", NEW place \in {"events", "out"}, CallBack(s, place)
  PROVE  Kept
<1>0. Typed /\ TypesInv /\ interest \in [Fds -> Regs]
  BY DEF LifeInv, TcpInv, OwnInv, Typed
<1>1. obj[s].fd \in Fds /\ interest[obj[s].fd].ptr = s
  BY <1>0 DEF IsOpen, Watched, TypesInv
<1>2. OwnEntries(s) /\ Watched(s)'
  BY <1>0, <1>1 DEF OwnEntries, Watched
<1>3. IsOpen(s)' /\ Linked(s)'
  BY <1>2 DEF IsOpen, Linked
<1>4. \A f \in Fds : interest'[f].ptr = s => obj'[s].fd = f
  BY <1>0, <1>1 DEF LifeInv, BookInv, KernelInv
<1>5. BookInv'
  BY <1>0, <1>2, <1>3, <1>4, OneSocket DEF LifeInv
<1>6. ~WaitsClose(s) /\ ~WaitsClose(s)'
  BY <1>3 DEF WaitsClose, IsOpen
<1>7. QueueInv'
  BY <1>6, NotClosing DEF LifeInv
<1>8. TurnInv'
  BY <1>3, <1>6 DEF CallBack, TurnInv, Busy, Ending, HasTurn, IsOpen
<1>9. Follows
  <2>1. LifeOf(s) = "open" /\ LifeOf(s)' = "open"
    BY <1>3 DEF LifeOf, IsOpen
  <2>2. Life!Speaks(s)
    BY LifeSpeaks
  <2>3. \A t \in Socks : LifeOf(t)' = LifeOf(t)
    BY <2>1, OthersLive
  <2>4. Life!OnData(s)
    BY <2>1, <2>2, <2>3 DEF Life!OnData, LifeOf
  <2> QED
    BY <2>4 DEF Follows, Life!Next
<1> QED
  BY <1>5, <1>7, <1>8, <1>9 DEF Kept

LEMMA RecvDataKept == ASSUME LifeInv, RecvData PROVE Kept
<1>0. obj \in [Socks -> Sockets]
  BY DEF LifeInv, TcpInv, OwnInv, Typed
<1>1. lpc = "in"
  BY DEF RecvData
<1>2. PICK s \in Socks : s = cur
  BY <1>1, BusyTurn
<1>3. IsOpen(s) /\ \A e \in m_events : e.ptr # s
  BY <1>1, <1>2, BusyTurn
<1> DEFINE rest == obj[s].events \ {"IN"}
<1>4. /\ obj' = [obj EXCEPT ![s].recvBuf = FALSE, ![s].events = rest]
      /\ interest' = [interest EXCEPT ![obj[s].fd] = [ptr |-> s, events |-> rest]]
      /\ CallBack(s, "out") /\ UNCHANGED <<queueVars, told>> /\ m_events' = m_events
  BY <1>2 DEF RecvData, batchVars
<1>5. /\ obj'[s].type = "ESTABLISHED" /\ obj'[s].fd = obj[s].fd /\ obj'[s].events = rest
      /\ obj'[s].recvBuf = FALSE /\ obj'[s].sendBuf = obj[s].sendBuf /\ Others(s)
  BY <1>0, <1>3, <1>4 DEF Others, Sockets, IsOpen
<1>6. Armed(s)'
  BY <1>3, <1>5 DEF Armed, IsOpen
<1> QED
  BY <1>1, <1>3, <1>4, <1>5, <1>6, MovedKept

LEMMA SendDataKept == ASSUME LifeInv, SendData PROVE Kept
<1>0. obj \in [Socks -> Sockets]
  BY DEF LifeInv, TcpInv, OwnInv, Typed
<1>1. lpc = "out"
  BY DEF SendData
<1>2. PICK s \in Socks : s = cur
  BY <1>1, BusyTurn
<1>3. IsOpen(s) /\ \A e \in m_events : e.ptr # s
  <2>1. file[obj[s].fd] # "closed"
    BY <1>2 DEF SendData, OpenFd
  <2> QED
    BY <1>1, <1>2, <2>1, BusyTurn
<1> DEFINE rest == obj[s].events \ {"OUT"}
<1>4. /\ obj' = [obj EXCEPT ![s].sendBuf = FALSE, ![s].events = rest]
      /\ interest' = [interest EXCEPT ![obj[s].fd] = [ptr |-> s, events |-> rest]]
      /\ CallBack(s, "events") /\ UNCHANGED <<queueVars, told>> /\ m_events' = m_events
  BY <1>2 DEF SendData, batchVars
<1>5. /\ obj'[s].type = "ESTABLISHED" /\ obj'[s].fd = obj[s].fd /\ obj'[s].events = rest
      /\ obj'[s].sendBuf = FALSE /\ obj'[s].recvBuf = obj[s].recvBuf /\ Others(s)
  BY <1>0, <1>3, <1>4 DEF Others, Sockets, IsOpen
<1>6. Armed(s)'
  BY <1>3, <1>5 DEF Armed, IsOpen
<1> QED
  BY <1>1, <1>3, <1>4, <1>5, <1>6, MovedKept

LEMMA AcceptKept == ASSUME LifeInv, Accept PROVE Kept
<1>0. /\ Typed /\ TypesInv /\ obj \in [Socks -> Sockets] /\ DOMAIN told = Socks
  BY DEF LifeInv, TcpInv, OwnInv, Typed
<1>1. PICK s \in Accepted, f \in Fds :
        /\ told[s] = "new"
        /\ obj' = [obj EXCEPT ![s].fd = f, ![s].type = "ESTABLISHED"]
        /\ told' = [told EXCEPT ![s] = "accepted"]
        /\ CallBack(s, "events")
  BY DEF Accept
<1>2. s \in Socks /\ UNCHANGED <<interest, queueVars>> /\ m_events' = m_events /\ lpc = "events"
  BY DEF Accept, batchVars, Socks
<1>3. Unconnected(s)
  BY <1>1, <1>2 DEF LifeInv, BookInv, SocksOk, Connects, IsAccepted, IsOpen, IsClosing, IsUnwatched, IsClosed
<1>4. /\ obj'[s].type = "ESTABLISHED" /\ obj'[s].events = obj[s].events
      /\ obj'[s].recvBuf = obj[s].recvBuf /\ obj'[s].sendBuf = obj[s].sendBuf
      /\ told'[s] = "accepted" /\ Others(s)
  BY <1>0, <1>1, <1>2 DEF Others, Sockets
<1>5. IsAccepted(s)'
  BY <1>1, <1>3, <1>4 DEF IsAccepted, Unconnected, Idle
<1>6. /\ \A fd \in Fds : interest'[fd].ptr # s
      /\ \A e \in m_events' : e.ptr # s
  BY <1>1, <1>2 DEF LifeInv, BookInv, KernelInv, EventInv, Linked
<1>7. BookInv'
  BY <1>0, <1>2, <1>4, <1>5, <1>6, OneSocket DEF LifeInv, OwnEntries
<1>8. ~WaitsClose(s) /\ ~WaitsClose(s)'
  BY <1>1, <1>4 DEF WaitsClose
<1>9. QueueInv'
  BY <1>2, <1>4, <1>8, NotClosing DEF LifeInv
<1>10. TurnInv'
  BY <1>1, <1>2, <1>6, <1>8, TurnGiven
<1>11. Follows
  <2>1. LifeOf(s) = "new" /\ LifeOf(s)' = "accepted"
    BY <1>1, <1>3, <1>4 DEF LifeOf, Unconnected
  <2>2. Life!Moves(s, {"new"}, "accepted")
    BY <1>2, <1>4, <2>1, LifeMoves
  <2>3. Life!Speaks(s)
    BY <1>1, <1>2, LifeSpeaks
  <2>4. Life!OnAccept(s)
    BY <2>2, <2>3 DEF Life!OnAccept
  <2> QED
    BY <1>2, <2>4 DEF Follows, Life!Next
<1> QED
  BY <1>7, <1>9, <1>10, <1>11 DEF Kept

\* Where the elements of a sequence are after InsertAt.
LEMMA InsertedAt ==
  ASSUME NEW S, NEW q \in Seq(S), NEW x, NEW i \in 1..(Len(q) + 1)
  PROVE  \A k \in 1..Len(InsertAt(q, i, x)) :
            \/ k = i /\ InsertAt(q, i, x)[k] = x
            \/ k < i /\ k \in 1..Len(q) /\ InsertAt(q, i, x)[k] = q[k]
            \/ k > i /\ k - 1 \in 1..Len(q) /\ InsertAt(q, i, x)[k] = q[k - 1]
<1> DEFINE T == S \cup {x}
           a == SubSeq(q, 1, i - 1)
           b == SubSeq(q, i, Len(q))
<1>1. q \in Seq(T) /\ Len(q) \in Nat
  OBVIOUS
<1>2. /\ a \in Seq(T) /\ Len(a) = i - 1 /\ \A k \in 1..(i - 1) : a[k] = q[k]
  BY <1>1
<1>3. /\ b \in Seq(T) /\ Len(b) = Len(q) - i + 1
      /\ \A k \in 1..(Len(q) - i + 1) : b[k] = q[i + k - 1]
  BY <1>1
<1>4. <<x>> \in Seq(T) /\ Len(<<x>>) = 1 /\ <<x>>[1] = x
  OBVIOUS
<1>5. InsertAt(q, i, x) = (a \o <<x>>) \o b
  BY DEF InsertAt
<1> HIDE DEF T, a, b
<1> DEFINE c == a \o <<x>>
<1>6. c \in Seq(T) /\ Len(c) = i /\ c[i] = x /\ \A k \in 1..(i - 1) : c[k] = q[k]
  BY <1>2, <1>4
<1> HIDE DEF c
<1>7. /\ Len(c \o b) = Len(c) + Len(b)
      /\ \A k \in 1..(Len(c) + Len(b)) : (c \o b)[k] = IF k <= Len(c) THEN c[k] ELSE b[k - Len(c)]
  BY <1>3, <1>6
<1>8. Len(c) + Len(b) = Len(q) + 1
  BY <1>1, <1>3, <1>6
<1>9. \A k \in 1..(Len(q) + 1) : k > i => k - i \in 1..(Len(q) - i + 1) /\ b[k - i] = q[k - 1]
  BY <1>1, <1>3
<1>10. ASSUME NEW k \in 1..(Len(q) + 1)
       PROVE  \/ k = i /\ (c \o b)[k] = x
              \/ k < i /\ k \in 1..Len(q) /\ (c \o b)[k] = q[k]
              \/ k > i /\ k - 1 \in 1..Len(q) /\ (c \o b)[k] = q[k - 1]
  <2>1. CASE k <= i
    <3>1. (c \o b)[k] = c[k]
      BY <1>6, <1>7, <1>8, <2>1
    <3> QED
      BY <1>1, <1>6, <2>1, <3>1
  <2>2. CASE k > i
    <3>1. (c \o b)[k] = b[k - i]
      BY <1>6, <1>7, <1>8, <2>2
    <3>2. b[k - i] = q[k - 1]
      BY <1>9, <2>2
    <3>3. k \in Int /\ i \in Int /\ i >= 1 /\ k <= Len(q) + 1 /\ Len(q) \in Nat
      BY <1>1
    <3>4. k - 1 \in 1..Len(q)
      BY <2>2, <3>3
    <3> QED
      BY <2>2, <3>1, <3>2, <3>4
  <2>3. k <= i \/ k > i
    BY <1>1
  <2> QED
    BY <2>1, <2>2, <2>3, Zenon
<1>11. InsertAt(q, i, x) = c \o b
  BY <1>5 DEF c
<1> QED
  BY <1>7, <1>8, <1>10, <1>11

\* The swap, with the message of another thread between the others or not.
LEMMA QueueSwapped ==
  ASSUME QueueInv, MsgsInv, ThreadEvent PROVE QueueInv'
<1>1. UNCHANGED <<obj, told>> /\ m_msgs' = <<>>
  BY DEF ThreadEvent
<1>2. m_msgs \in Seq(Gone) /\ NoSock \notin Socks
  BY SocksAssumption DEF MsgsInv, Socks
<1>3. /\ \A i \in 1..Len(m_msgs) :
           m_msgs[i] \in Socks /\ m_msgs[i] # NoSock /\ WaitsClose(m_msgs[i])
      /\ \A i, j \in 1..Len(m_msgs) : m_msgs[i] = m_msgs[j] => i = j
  BY <1>2 DEF QueueInv
<1>4. Len(m_msgs') = 0
  BY <1>1
<1>5. CASE msgs' = m_msgs
  BY <1>1, <1>3, <1>4, <1>5 DEF QueueInv, WaitsClose
<1>6. ASSUME NEW n \in 1..(Len(m_msgs) + 1), msgs' = InsertAt(m_msgs, n, NoSock)
      PROVE  QueueInv'
  <2>1. \A k \in 1..Len(msgs') :
          \/ k = n /\ msgs'[k] = NoSock
          \/ k < n /\ k \in 1..Len(m_msgs) /\ msgs'[k] = m_msgs[k]
          \/ k > n /\ k - 1 \in 1..Len(m_msgs) /\ msgs'[k] = m_msgs[k - 1]
    BY <1>2, <1>6, InsertedAt
  <2>2. ASSUME NEW i \in 1..Len(msgs'), msgs'[i] # NoSock
        PROVE  /\ msgs'[i] \in Socks
               /\ told'[msgs'[i]] \in {"open", "unwatched"} /\ obj'[msgs'[i]].type = "INVALIDE"
    <3>1. \E k \in 1..Len(m_msgs) : msgs'[i] = m_msgs[k]
      BY <2>1, <2>2
    <3> QED
      BY <1>1, <1>3, <3>1 DEF WaitsClose
  <2>3. \A i, j \in 1..Len(msgs') : msgs'[i] = msgs'[j] /\ msgs'[i] # NoSock => i = j
    <3> SUFFICES ASSUME NEW i \in 1..Len(msgs'), NEW j \in 1..Len(msgs'),
                        msgs'[i] = msgs'[j], msgs'[i] # NoSock
                 PROVE  i = j
      OBVIOUS
    <3> DEFINE place(k) == IF k < n THEN k ELSE k - 1
    <3>1. \A k \in {i, j} : k # n /\ place(k) \in 1..Len(m_msgs) /\ msgs'[k] = m_msgs[place(k)]
      BY <2>1
    <3>2. place(i) = place(j)
      BY <1>3, <3>1
    <3> QED
      BY <3>1, <3>2
  <2> QED
    BY <1>4, <2>2, <2>3 DEF QueueInv, WaitsClose
<1> QED
  BY <1>5, <1>6 DEF ThreadEvent

LEMMA ThreadEventKept == ASSUME LifeInv, ThreadEvent PROVE Kept
<1>1. /\ UNCHANGED <<obj, interest, told, m_events>> /\ m_msgs' = <<>>
      /\ lpc = "events" /\ lpc' = "dispatch"
  BY DEF ThreadEvent, kernelVars
<1>2. BookInv' /\ Follows
  BY <1>1, NoSocket, LifeSilent DEF LifeInv
<1>3. TurnInv'
  BY <1>1 DEF TurnInv, Busy, Ending, HasTurn
<1>4. QueueInv'
  BY <1>1, QueueSwapped DEF LifeInv, TcpInv
<1> QED
  BY <1>2, <1>3, <1>4 DEF Kept

LEMMA OnPostCloseKept == ASSUME LifeInv, OnPostClose PROVE Kept
<1>0. /\ Typed /\ TypesInv /\ DOMAIN told = Socks
  BY DEF LifeInv, TcpInv, OwnInv, Typed
<1>1. msgs # <<>> /\ Head(msgs) # NoSock /\ msgs \in Seq(Gone)
  BY DEF OnPostClose, LifeInv, TcpInv, MsgsInv
<1>2. PICK s : s = Head(msgs)
  OBVIOUS
<1>3. s \in Socks /\ WaitsClose(s)
  <2>1. Head(msgs) = msgs[1] /\ 1 \in 1..Len(msgs)
    BY <1>1
  <2> QED
    BY <1>1, <1>2, <2>1 DEF LifeInv, QueueInv
<1>4. /\ told' = [told EXCEPT ![s] = "closed"] /\ CallBack(s, "destroy") /\ msgs' = Tail(msgs)
      /\ UNCHANGED <<obj, interest, m_msgs>> /\ m_events' = m_events /\ lpc = "dispatch"
  BY <1>2 DEF OnPostClose, kernelVars, batchVars
<1>5. told'[s] = "closed" /\ obj'[s].type = "INVALIDE" /\ Others(s)
  BY <1>0, <1>3, <1>4 DEF Others, WaitsClose
<1>6. /\ \A f \in Fds : interest'[f].ptr # s
      /\ \A e \in m_events' : e.ptr # s
  BY <1>3, <1>4 DEF LifeInv, BookInv, KernelInv, EventInv, Linked, WaitsClose
<1>7. IsClosed(s)'
  BY <1>5 DEF IsUnwatched, IsClosed
<1>8. BookInv'
  BY <1>0, <1>3, <1>4, <1>5, <1>6, <1>7, OneSocket DEF LifeInv, OwnEntries
<1>9. QueueInv'
  <2>1. \A t \in Socks : WaitsClose(t) /\ t # Head(msgs) => WaitsClose(t)'
    BY <1>2, <1>5 DEF Others, WaitsClose
  <2> QED
    BY <1>1, <1>4, <2>1, QueueTail DEF LifeInv, TcpInv
<1>10. TurnInv'
  BY <1>4, <1>5, <1>6 DEF CallBack, TurnInv, Busy, Ending, HasTurn, WaitsClose
<1>11. Follows
  <2>1. LifeOf(s) = "closing" /\ LifeOf(s)' = "closed"
    BY <1>3, <1>5 DEF LifeOf, WaitsClose
  <2>2. Life!Moves(s, {"closing"}, "closed")
    BY <1>3, <1>5, <2>1, LifeMoves
  <2>3. Life!Speaks(s)
    BY <1>4, LifeSpeaks
  <2>4. Life!OnClose(s)
    BY <2>2, <2>3 DEF Life!OnClose
  <2> QED
    BY <1>3, <2>4 DEF Follows, Life!Next
<1> QED
  BY <1>8, <1>9, <1>10, <1>11 DEF Kept

LEMMA DestroyKept == ASSUME LifeInv, Destroy PROVE Kept
<1>0. Typed /\ TypesInv /\ obj \in [Socks -> Sockets]
  BY DEF LifeInv, TcpInv, OwnInv, Typed
<1>1. cur \in Socks /\ obj[cur].type = "INVALIDE" /\ told[cur] = "closed"
  BY DEF Destroy, LifeInv, TcpInv, StackInv, TurnInv, Ending
<1>2. PICK s \in Socks : s = cur
  BY <1>1
<1>3. /\ UNCHANGED <<interest, told, queueVars>> /\ m_events' = m_events
      /\ lpc = "destroy" /\ lpc' = "dispatch"
      /\ obj' = [obj EXCEPT ![s].alive = s \notin Accepted]
  BY <1>2 DEF Destroy, kernelVars, batchVars
<1>4. obj'[s].type = "INVALIDE" /\ told'[s] = "closed" /\ Others(s)
  BY <1>0, <1>1, <1>2, <1>3 DEF Others, Sockets
<1>5. /\ \A f \in Fds : interest'[f].ptr # s
      /\ \A e \in m_events' : e.ptr # s
  BY <1>1, <1>2, <1>3 DEF LifeInv, BookInv, KernelInv, EventInv, Linked
<1>6. IsClosed(s)'
  BY <1>4 DEF IsUnwatched, IsClosed
<1>7. BookInv'
  BY <1>0, <1>3, <1>4, <1>5, <1>6, OneSocket DEF LifeInv, OwnEntries
<1>8. ~WaitsClose(s)
  BY <1>1, <1>2 DEF WaitsClose
<1>9. QueueInv'
  BY <1>3, <1>4, <1>8, NotClosing DEF LifeInv
<1>10. TurnInv'
  BY <1>3 DEF TurnInv, Busy, Ending, HasTurn
<1>11. Follows
  <2>1. LifeOf(s)' = LifeOf(s)
    BY <1>1, <1>2, <1>4 DEF LifeOf
  <2> QED
    BY <1>3, <1>4, <2>1, OthersLive, LifeStays
<1> QED
  BY <1>7, <1>9, <1>10, <1>11 DEF Kept

LEMMA CallbackReturnsKept == ASSUME LifeInv, CallbackReturns PROVE Kept
<1>1. /\ UNCHANGED <<obj, interest, file, told, queueVars, m_events>>
      /\ lpc = "callback" /\ lpc' = ret /\ ret \in {"wait", "events", "out", "dispatch", "destroy"}
      /\ ret \in {"out", "destroy"} => cur' = cur
  BY DEF CallbackReturns, kernelVars, batchVars, LifeInv, TcpInv, StackInv
<1>2. BookInv' /\ QueueInv'
  BY <1>1, NoSocket, QueueKept DEF LifeInv, WaitsClose
<1>3. TurnInv'
  BY <1>1 DEF LifeInv, TurnInv, Busy, Ending, HasTurn, WaitsClose
<1>4. Follows
  <2>1. CASE cur = NoSock
    BY <1>1, <2>1, LifeSilent
  <2>2. CASE cur # NoSock
    <3>1. Life!Return
      BY <1>1, <2>2 DEF Life!Return
    <3> QED
      BY <3>1 DEF Follows, Life!Next
  <2> QED
    BY <2>1, <2>2
<1> QED
  BY <1>2, <1>3, <1>4 DEF Kept

LEMMA NetworkKept == ASSUME LifeInv, Network PROVE Kept
<1>1. UNCHANGED <<obj, interest, told, m_events, lpc, cur, ret, queueVars>>
  BY DEF Network, batchVars, stackVars
<1>2. \A f \in Fds : file[f] = "closed" => file'[f] = "closed"
  BY DEF Network, LifeInv, TcpInv, OwnInv, Typed
<1>3. BookInv' /\ QueueInv'
  BY <1>1, NoSocket, QueueKept DEF LifeInv, WaitsClose
<1>4. TurnInv'
  <2>1. ASSUME HasTurn, WaitsClose(cur) PROVE obj[cur].fd \in Fds
    BY <2>1 DEF LifeInv, BookInv, SocksOk, HasTurn, WaitsClose, Unconnected, Connects, IsAccepted,
                IsOpen, IsClosing, IsUnwatched, IsClosed
  <2> QED
    BY <1>1, <1>2, <2>1 DEF LifeInv, TurnInv, Busy, Ending, HasTurn, WaitsClose
<1>5. Follows
  BY <1>1, LifeStays DEF LifeOf
<1> QED
  BY <1>3, <1>4, <1>5 DEF Kept

LEMMA StutterKept == ASSUME LifeInv, UNCHANGED vars PROVE Kept
<1>1. UNCHANGED <<obj, interest, file, told, m_events, lpc, cur, ret, queueVars>>
  BY DEF vars, kernelVars, batchVars, stackVars
<1>2. BookInv' /\ QueueInv' /\ Follows
  BY <1>1, NoSocket, QueueKept, LifeStays DEF LifeInv, WaitsClose, LifeOf
<1>3. TurnInv'
  BY <1>1 DEF LifeInv, TurnInv, Busy, Ending, HasTurn, WaitsClose
<1> QED
  BY <1>2, <1>3 DEF Kept

LEMMA RunOnceKept == ASSUME LifeInv, RunOnce PROVE Kept
BY EpollWaitKept, NobodyKept, WalkKept, ConnectEventKept, ConnectFailedKept, FailedEventKept,
   DataEventKept, FailingKept, RecvDataKept, SendDataKept, AcceptKept, ThreadEventKept,
   OnPostCloseKept, DestroyKept, CallbackReturnsKept
DEF RunOnce

-----------------------------------------------------------------------------
(* Theorems *)

LEMMA LifeStep == ASSUME ~CrossCalls PROVE LifeInv /\ [Next]_vars => LifeInv' /\ Follows
<1> SUFFICES ASSUME LifeInv, [Next]_vars PROVE LifeInv' /\ Follows
  OBVIOUS
<1>1. Kept
  BY RunOnceKept, UserCallKept, NetworkKept, StutterKept DEF Next
<1>2. TcpInv'
  BY TcpStep DEF LifeInv
<1> QED
  BY <1>1, <1>2 DEF Kept, LifeInv

LEMMA LifeInit == Init => LifeInv
<1> SUFFICES ASSUME Init PROVE LifeInv
  OBVIOUS
<1>1. SocksOk
  BY DEF Init, SocksOk, Unconnected, Idle, NewSocket
<1>2. KernelInv /\ EventInv
  BY NoRegOfNone DEF Init, KernelInv, EventInv
<1>3. QueueInv
  BY DEF Init, QueueInv
<1>4. TurnInv
  BY DEF Init, TurnInv, Busy, Ending, HasTurn
<1> QED
  BY <1>1, <1>2, <1>3, <1>4, TcpInit DEF LifeInv, BookInv

\* With users that keep to the discipline, the kernel watches each socket in
\* every behaviour for exactly what its user waits for.
THEOREM WatchesRight == ASSUME ~CrossCalls PROVE Spec => []EpollSetRight
<1>1. LifeInv => EpollSetRight
  <2> SUFFICES ASSUME LifeInv PROVE EpollSetRight
    OBVIOUS
  <2>1. RequestsArmed
    BY DEF RequestsArmed, LifeInv, BookInv, SocksOk, Unconnected, Connects, IsAccepted, IsOpen,
           IsClosing, IsUnwatched, IsClosed, Armed, Idle
  <2>2. ASSUME NEW s \in Socks, NEW f \in Fds, Holds(s, f), told[s] \in {"connecting", "open"}
        PROVE  interest[f] = [ptr |-> s, events |-> obj[s].events]
    BY <2>2 DEF Holds, LifeInv, BookInv, SocksOk, Unconnected, Connects, IsAccepted, IsOpen,
                IsClosing, IsUnwatched, IsClosed, Watched
  <2>3. ASSUME NEW f \in Fds, Registered(f) PROVE Holds(interest[f].ptr, f)
    <3>1. interest[f].ptr \in Socks
      BY <2>3 DEF Registered, LifeInv, TcpInv, OwnInv, Typed, Regs
    <3>2. Linked(interest[f].ptr) /\ obj[interest[f].ptr].fd = f
      BY <3>1 DEF LifeInv, BookInv, KernelInv
    <3>3. obj[interest[f].ptr].alive
      BY <3>1, <3>2 DEF Linked, LifeInv, TcpInv, OwnInv, TypesInv, Typed, Sockets
    <3> QED
      BY <3>2, <3>3 DEF Holds, Linked
  <2> QED
    BY <2>1, <2>2, <2>3 DEF EpollSetRight, RegisteredToOwner
<1> QED
  BY <1>1, LifeInit, LifeStep, PTL DEF Spec

\* With users that keep to the discipline, all that the sockets tell them is
\* what SocketLife allows: each step is one of its actions or says nothing.
\* (That a close is told in the end is left to TLC: ImplementsSocketLife.)
THEOREM SocketsLive ==
  ASSUME ~CrossCalls PROVE Spec => Life!Init /\ [][Life!Next]_(Life!lifeVars)
<1>1. Init => Life!Init
  BY DEF Init, Life!Init, NewSocket
<1>2. LifeInv /\ [Next]_vars => LifeInv' /\ [Life!Next]_(Life!lifeVars)
  BY LifeStep DEF Follows
<1> QED
  BY <1>1, <1>2, LifeInit, PTL DEF Spec

-----------------------------------------------------------------------------
(***************************************************************************)
(* Users that make every call on every socket: what is left pointing to a  *)
(* socket that is deleted.                                                 *)
(***************************************************************************)

(* The invariant *)

\* What the user was told of a socket goes with its type and the epoll set.
Sound(s) ==
    /\ s \in exposed => obj[s].type = "INVALIDE"
    /\ ~obj[s].alive => told[s] = "closed"
    /\ told[s] = "closed" => obj[s].type = "INVALIDE"
    /\ obj[s].type = "INVALIDE" => told[s] \in {"closed", "open", "unwatched"}
    /\ obj[s].type = "ESTABLISHED" =>
         \/ told[s] = "open" /\ Registered(obj[s].fd)
         \/ told[s] \in {"accepted", "unwatched"} /\ ~Registered(obj[s].fd)

\* The kernel and the batch know a socket only while it is in use, and not twice.
Known(s) == s \notin exposed =>
    /\ \A f \in Fds : interest[f].ptr = s => Linked(s) /\ obj[s].fd = f
    /\ \A e \in m_events : e.ptr = s => Linked(s)
    /\ \A e, d \in m_events : e.ptr = s /\ d.ptr = s => e = d
    /\ HasTurn /\ cur = s => \A e \in m_events : e.ptr # s

FreeBooks ==
    /\ \A s \in Socks : Sound(s) /\ Known(s)
    /\ \A f \in Fds : Registered(f) => file[f] # "closed"

\* A descriptor that another socket got is in the epoll set, or of no use.
Fits(f) == file[f] \in {"closed", "refused"} \/ Registered(f)
FreeTurn ==
    /\ lpc = "in" => obj[cur].type = "ESTABLISHED"
    /\ Busy => told[cur] = "open"
    /\ Ending => told[cur] = "closed"
    /\ Busy /\ obj[cur].type = "INVALIDE" => \A f \in Fds : obj[cur].fd = f => Fits(f)

FreeInv == TcpInv /\ FreeBooks /\ QueueInv /\ FreeTurn
FreeKept == FreeBooks' /\ QueueInv' /\ FreeTurn'

\* The turn of a socket goes on.
SameTurn == HasTurn' => HasTurn /\ cur' = cur

-----------------------------------------------------------------------------
(* Steps of one socket and of none *)

LEMMA HolderAlone ==
  ASSUME OwnInv, NEW s \in Socks, NEW t \in Socks, t # s, obj[t].type = "ESTABLISHED",
         Holds(s, obj[t].fd) \/ file[obj[t].fd] = "closed"
  PROVE  FALSE
<1>1. obj[t].fd \in Fds /\ obj[t].alive
  BY DEF OwnInv, Typed, TypesInv, Sockets
<1>2. Holds(t, obj[t].fd)
  BY <1>1 DEF Holds
<1> QED
  BY <1>1, <1>2 DEF OwnInv, DescriptorsOwned, OpenFd

LEMMA FreeOne ==
  ASSUME FreeInv, NEW s \in Socks,
         \A t \in Socks : t # s =>
            SameSock(t) /\ told'[t] = told[t] /\ (t \in exposed' <=> t \in exposed),
         \A t \in Socks, f \in Fds : t # s /\ interest'[f].ptr = t => interest[f].ptr = t,
         \A f \in Fds : (Registered(f)' <=> Registered(f)) \/ Holds(s, f) \/ file[f] = "closed",
         \A f \in Fds : Registered(f)' => file'[f] # "closed",
         m_events' \subseteq m_events,
         \A t \in Socks \ exposed : t # s /\ (HasTurn /\ cur = t)' => \A e \in m_events' : e.ptr # t,
         Sound(s)', Known(s)'
  PROVE  FreeBooks'
<1> SUFFICES ASSUME NEW t \in Socks, t # s PROVE Sound(t)' /\ Known(t)'
  BY DEF FreeBooks
<1>1. SameSock(t) /\ told'[t] = told[t] /\ (t \in exposed' <=> t \in exposed)
  OBVIOUS
<1>2. Sound(t) /\ Known(t) /\ OwnInv
  BY DEF FreeInv, FreeBooks, TcpInv
<1>3. Sound(t)'
  <2>1. PICK f : f = obj[t].fd
    OBVIOUS
  <2>2. obj'[t].fd = f
    BY <1>1, <2>1 DEF SameSock
  <2>3. ASSUME obj[t].type = "ESTABLISHED" PROVE Registered(f)' <=> Registered(f)
    <3>1. f \in Fds
      BY <1>2, <2>1, <2>3 DEF OwnInv, TypesInv
    <3>2. ~Holds(s, f) /\ file[f] # "closed"
      BY <1>2, <2>1, <2>3, HolderAlone
    <3> QED
      BY <3>1, <3>2
  <2> QED
    BY <1>1, <1>2, <2>1, <2>2, <2>3 DEF Sound, SameSock
<1>4. Known(t)'
  <2>1. Linked(t)' <=> Linked(t)
    BY <1>1 DEF Linked, SameSock
  <2> QED
    BY <1>1, <1>2, <2>1 DEF Known, SameSock
<1> QED
  BY <1>3, <1>4

LEMMA FreeNone ==
  ASSUME FreeInv, UNCHANGED <<obj, told, exposed, interest>>,
         \A f \in Fds : file'[f] = "closed" <=> file[f] = "closed",
         m_events' \subseteq m_events,
         \A t \in Socks \ exposed : (HasTurn /\ cur = t)' => \A e \in m_events' : e.ptr # t
  PROVE  FreeBooks'
<1>1. ASSUME NEW t \in Socks PROVE Sound(t)' /\ Known(t)'
  <2>1. Sound(t) /\ Known(t)
    BY DEF FreeInv, FreeBooks
  <2> QED
    BY <2>1 DEF Sound, Known, Registered, Linked
<1> QED
  BY <1>1 DEF FreeInv, FreeBooks, Registered

LEMMA TurnGoesOn ==
  ASSUME FreeInv, SameTurn, m_events' \subseteq m_events
  PROVE  \A t \in Socks \ exposed : (HasTurn /\ cur = t)' => \A e \in m_events' : e.ptr # t
BY DEF SameTurn, FreeInv, FreeBooks, Known

\* A call of the user in a callback.
LEMMA FreeTurnKept ==
  ASSUME FreeInv, lpc = "callback", UNCHANGED stackVars,
         Busy \/ Ending => told'[cur] = told[cur],
         \A f \in Fds : Fits(f) => Fits(f)',
         Busy /\ obj'[cur].type = "INVALIDE" =>
            /\ obj'[cur].fd = obj[cur].fd
            /\ obj[cur].type = "INVALIDE" \/ \A f \in Fds : obj[cur].fd = f => Fits(f)'
  PROVE  FreeTurn'
<1>1. FreeTurn /\ (Busy' <=> Busy) /\ (Ending' <=> Ending) /\ cur' = cur /\ lpc' = lpc
  BY DEF FreeInv, stackVars, Busy, Ending
<1>2. Busy /\ obj'[cur].type = "INVALIDE" => \A f \in Fds : obj'[cur].fd = f => Fits(f)'
  BY <1>1 DEF FreeTurn
<1> QED
  BY <1>1, <1>2 DEF FreeTurn

\* RunOnce goes on to where it is busy with no socket.
LEMMA FreeTurnIdle ==
  ASSUME lpc' \notin {"in", "out", "destroy"},
         lpc' = "callback" => ret' \notin {"out", "destroy"}
  PROVE  FreeTurn'
BY DEF FreeTurn, Busy, Ending

\* RunOnce's busy turn.
LEMMA BusyFree ==
  ASSUME FreeInv, Busy
  PROVE  cur \in Socks /\ Old(cur) /\ told[cur] = "open" /\ HasTurn
BY DEF FreeInv, FreeTurn, TcpInv, StackInv, HasTurn, Busy

-----------------------------------------------------------------------------
(* Closing and watching *)

LEMMA FreeClose ==
  ASSUME FreeInv, NEW s \in Socks, NEW o, CopyOf(o, s), CloseWith(s, o),
         told[s] \in {"open", "unwatched"}, told' = told, msgs' = msgs,
         m_events' \subseteq m_events, SameTurn,
         s \in exposed' \/ obj[s].type = "INVALIDE" \/ (\A e \in m_events' : e.ptr # s),
         exposed' = exposed \/ exposed' = exposed \cup {s}
  PROVE  /\ FreeBooks' /\ QueueInv'
         /\ \A f \in Fds : Fits(f) => Fits(f)'
         /\ \A t \in Socks : obj'[t].fd = obj[t].fd
         /\ \A t \in Socks : t # s => obj'[t].type = obj[t].type
         /\ obj'[s].type = "INVALIDE"
         /\ obj[s].type = "INVALIDE" \/ \A f \in Fds : obj[s].fd = f => Fits(f)'
<1> USE DEF FreeInv, TcpInv
<1>0. OwnInv /\ Sound(s) /\ Known(s) /\ Old(s)
  BY DEF FreeBooks, OwnInv, TypesInv
<1>1. CASE obj[s].type # "ESTABLISHED" /\ (\A t \in Socks : SameSock(t)) /\ UNCHANGED <<file, interest, m_msgs>>
  <2>1. obj[s].type = "INVALIDE"
    BY <1>0, <1>1 DEF Old
  <2>2. obj'[s].type = "INVALIDE" /\ obj'[s].alive = obj[s].alive /\ obj'[s].fd = obj[s].fd
    BY <1>1, <2>1 DEF SameSock
  <2>3. Sound(s)'
    BY <1>0, <2>2 DEF Sound
  <2>4. Known(s)'
    <3>1. Linked(s)' <=> Linked(s)
      BY <2>1, <2>2 DEF Linked
    <3> QED
      BY <1>0, <1>1, <2>2, <3>1 DEF Known, SameTurn
  <2>5. FreeBooks'
    BY <1>0, <1>1, <2>3, <2>4, FreeOne, TurnGoesOn DEF Registered, FreeBooks
  <2>6. QueueInv'
    BY <1>1, QueueKept DEF WaitsClose, SameSock, queueVars
  <2> QED
    BY <1>1, <2>1, <2>2, <2>5, <2>6 DEF SameSock, Fits, Registered
<1>2. CASE Closes(s)
  <2>0. PICK f : f = obj[s].fd
    OBVIOUS
  <2>1. f \in Fds /\ obj[s].type = "ESTABLISHED" /\ obj[s].alive
    BY <1>0, <1>2, <2>0 DEF Closes, OwnInv, TypesInv, Typed, Sockets
  <2>2. /\ file'[f] = "closed" /\ interest'[f] = NoReg
        /\ \A g \in Fds : g # f => file'[g] = file[g] /\ interest'[g] = interest[g]
    BY <1>0, <1>2, <2>0, <2>1 DEF Closes, OwnInv, Typed
  <2>3. /\ obj'[s].type = "INVALIDE" /\ obj'[s].alive /\ obj'[s].fd = f
        /\ \A t \in Socks : t # s => SameSock(t)
    BY <1>2, <2>0, <2>1 DEF Closes
  <2>4. Holds(s, f) /\ s \notin exposed
    BY <1>0, <2>0, <2>1 DEF Holds, Sound
  <2>5. \A t \in Socks, g \in Fds : interest'[g].ptr = t => interest[g].ptr = t /\ g # f
    BY <2>2, NoRegOfNone
  <2>6. Sound(s)'
    BY <1>0, <2>3 DEF Sound
  <2>7. Known(s)'
    <3>1. \A g \in Fds : interest'[g].ptr # s
      BY <1>0, <2>0, <2>4, <2>5 DEF Known
    <3> QED
      BY <2>1, <3>1 DEF Known
  <2>8. \A g \in Fds : g # f => (Registered(g)' <=> Registered(g))
    BY <2>2 DEF Registered
  <2>9. ~Registered(f)'
    BY <2>2 DEF Registered
  <2>10. \A g \in Fds : Registered(g)' => file'[g] # "closed"
    BY <2>2, <2>8, <2>9 DEF FreeBooks
  <2>11. \A g \in Fds : (Registered(g)' <=> Registered(g)) \/ Holds(s, g) \/ file[g] = "closed"
    BY <2>4, <2>8
  <2>12. \A t \in Socks, g \in Fds : t # s /\ interest'[g].ptr = t => interest[g].ptr = t
    BY <2>5
  <2>13. \A t \in Socks \ exposed : t # s /\ (HasTurn /\ cur = t)' => \A e \in m_events' : e.ptr # t
    BY TurnGoesOn
  <2>14. \A t \in Socks : t # s => SameSock(t) /\ told'[t] = told[t] /\ (t \in exposed' <=> t \in exposed)
    BY <2>3
  <2>15. FreeBooks'
    BY <2>6, <2>7, <2>10, <2>11, <2>12, <2>13, <2>14, FreeOne
  <2>16. QueueInv'
    <3>1. ~WaitsClose(s) /\ WaitsClose(s)'
      BY <2>1, <2>3 DEF WaitsClose
    <3>2. \A t \in Socks : WaitsClose(t) => WaitsClose(t)'
      BY <2>3, <3>1 DEF WaitsClose, SameSock
    <3>3. m_msgs' = Append(m_msgs, s)
      BY <1>2 DEF Closes
    <3> QED
      BY <3>1, <3>2, <3>3, QueueGrows
  <2>17. \A g \in Fds : Fits(g) => Fits(g)'
    BY <2>2, <2>8 DEF Fits
  <2>18. \A g \in Fds : obj[s].fd = g => Fits(g)'
    BY <2>0, <2>2 DEF Fits
  <2> QED
    BY <2>0, <2>3, <2>15, <2>16, <2>17, <2>18 DEF SameSock
<1>3. Closes(s) \/ (obj[s].type # "ESTABLISHED" /\ (\A t \in Socks : SameSock(t))
                     /\ UNCHANGED <<file, interest, m_msgs>>)
  <2>1. obj[s].type = "ESTABLISHED" => obj'[s].type = "INVALIDE"
    BY <1>0, CopyOf(o, s) DEF CloseWith, CopyOf, Typed, OwnInv, Sockets
  <2> QED
    BY <1>0, <2>1, CloseWithEffect DEF SameSock
<1> QED
  BY <1>1, <1>2, <1>3

\* The epoll set gets the pointer of s for its descriptor: by a request or after
\* data have been moved.
LEMMA FreeWatch ==
  ASSUME FreeInv, NEW s \in Socks, NEW e, NEW f \in Fds, obj[s].fd = f, Registered(f),
         interest' = [interest EXCEPT ![f] = [ptr |-> s, events |-> e]],
         \A t \in Socks : SameSock(t), told' = told, told[s] \in {"open", "unwatched"},
         exposed' = (IF obj[s].type = "INVALIDE" THEN exposed \cup {s} ELSE exposed),
         m_events' = m_events, SameTurn,
         \A g \in Fds : file'[g] = "closed" <=> file[g] = "closed"
  PROVE  FreeBooks' /\ \A g \in Fds : Registered(g)' <=> Registered(g)
<1>0. OwnInv /\ Sound(s) /\ Known(s) /\ Old(s)
  BY DEF FreeInv, TcpInv, FreeBooks, OwnInv, TypesInv
<1>1. /\ interest'[f] = [ptr |-> s, events |-> e]
      /\ \A g \in Fds : g # f => interest'[g] = interest[g]
  BY <1>0 DEF OwnInv, Typed
<1>2. /\ Registered(f)'
      /\ \A g \in Fds : Registered(g)' <=> Registered(g)
  BY <1>1, NoRegOfNone DEF Registered
<1>3. obj'[s].fd = f /\ obj'[s].type = obj[s].type /\ obj'[s].alive = obj[s].alive
  BY DEF SameSock
<1>4. Sound(s)'
  BY <1>0, <1>2, <1>3 DEF Sound
<1>5. Known(s)'
  <2> SUFFICES ASSUME s \notin exposed', obj[s].type # "INVALIDE", s \notin exposed
               PROVE  /\ \A g \in Fds : interest'[g].ptr = s => Linked(s)' /\ obj'[s].fd = g
                      /\ \A a \in m_events' : a.ptr = s => Linked(s)'
                      /\ \A a, d \in m_events' : a.ptr = s /\ d.ptr = s => a = d
                      /\ (HasTurn /\ cur = s)' => \A a \in m_events' : a.ptr # s
    BY DEF Known
  <2>1. Linked(s)'
    BY <1>0, <1>3 DEF Sound, Old, Linked
  <2> QED
    BY <1>0, <1>1, <1>3, <2>1 DEF Known, SameTurn
<1>6. \A g \in Fds : Registered(g)' => file'[g] # "closed"
  BY <1>2 DEF FreeInv, FreeBooks
<1>7. \A t \in Socks, g \in Fds : t # s /\ interest'[g].ptr = t => interest[g].ptr = t
  BY <1>1
<1>8. \A t \in Socks \ exposed : t # s /\ (HasTurn /\ cur = t)' => \A a \in m_events' : a.ptr # t
  BY TurnGoesOn
<1>9. \A t \in Socks : t # s => SameSock(t) /\ told'[t] = told[t] /\ (t \in exposed' <=> t \in exposed)
  OBVIOUS
<1>10. FreeBooks'
  BY <1>2, <1>4, <1>5, <1>6, <1>7, <1>8, <1>9, FreeOne
<1> QED
  BY <1>2, <1>10


-----------------------------------------------------------------------------
(* The user's calls, on any socket *)

LEMMA FreeCloseCalled ==
  ASSUME FreeInv, NEW s \in Socks, MayUse(s), NEW o, CopyOf(o, s), CloseWith(s, o),
         s \in exposed' \/ obj[s].type = "INVALIDE" \/ (\A e \in m_events : e.ptr # s),
         exposed' = exposed \/ exposed' = exposed \cup {s},
         UNCHANGED <<msgs, batchVars, stackVars, told>>
  PROVE  FreeKept
<1>1. /\ told[s] \in {"open", "unwatched"} /\ lpc = "callback"
      /\ m_events' = m_events /\ SameTurn
  BY DEF MayUse, batchVars, stackVars, SameTurn, HasTurn
<1>2. /\ FreeBooks' /\ QueueInv'
      /\ \A f \in Fds : Fits(f) => Fits(f)'
      /\ \A t \in Socks : obj'[t].fd = obj[t].fd
      /\ \A t \in Socks : t # s => obj'[t].type = obj[t].type
      /\ obj[s].type = "INVALIDE" \/ \A f \in Fds : obj[s].fd = f => Fits(f)'
  BY <1>1, FreeClose
<1>3. FreeTurn'
  BY <1>1, <1>2, BusyFree, FreeTurnKept
<1> QED
  BY <1>2, <1>3 DEF FreeKept

LEMMA FreeRequest ==
  ASSUME FreeInv, NEW s \in Socks, NEW buf, NEW event,
         (buf = "sendBuf" /\ event = "OUT") \/ (buf = "recvBuf" /\ event = "IN"),
         Request(s, buf, event)
  PROVE  FreeKept
<1> DEFINE asked == [obj[s] EXCEPT ![buf] = TRUE, !.events = @ \cup {event}]
<1>0. OwnInv /\ Sound(s) /\ Known(s)
  BY DEF FreeInv, TcpInv, FreeBooks
<1>1. obj[s] \in Sockets /\ obj[s].events \cup {event} \in SUBSET Flags
  BY <1>0 DEF OwnInv, Typed, Sockets, Flags
<1>2. CopyOf(asked, s)
  <2>1. CASE buf = "sendBuf"
    BY <1>1, <2>1 DEF CopyOf, Sockets
  <2>2. CASE buf = "recvBuf"
    BY <1>1, <2>2 DEF CopyOf, Sockets
  <2> QED
    BY <2>1, <2>2
<1>3. /\ MayUse(s) /\ lpc = "callback" /\ told[s] \in {"open", "unwatched"}
      /\ UNCHANGED <<msgs, batchVars, stackVars, told>> /\ m_events' = m_events
  BY DEF Request, MayUse, batchVars
<1>4. CASE ~Registered(obj[s].fd)
  <2>1. CloseWith(s, asked) /\ exposed' = exposed
    BY <1>4 DEF Request
  <2>2. obj[s].type = "INVALIDE" \/ (\A e \in m_events : e.ptr # s)
    <3>1. Old(s)
      BY <1>0, <1>3 DEF OwnInv, TypesInv
    <3> QED
      BY <1>0, <1>4, <3>1 DEF Sound, Known, Old, Linked
  <2> HIDE DEF asked
  <2> QED
    BY <1>2, <1>3, <2>1, <2>2, FreeCloseCalled
<1>5. CASE Registered(obj[s].fd)
  <2>1. /\ obj' = [obj EXCEPT ![s] = asked] /\ UNCHANGED <<file, m_msgs>>
        /\ interest' = [interest EXCEPT ![obj[s].fd] = [ptr |-> s, events |-> asked.events]]
        /\ exposed' = (IF obj[s].type = "INVALIDE" THEN exposed \cup {s} ELSE exposed)
    BY <1>5 DEF Request
  <2> HIDE DEF asked
  <2>2. \A t \in Socks : SameSock(t)
    BY <1>0, <1>2, <2>1, ObjExcept DEF CopyOf, SameSock, OwnInv
  <2>3. obj[s].fd \in Fds
    BY <1>5 DEF Registered
  <2>4. SameTurn
    BY <1>3 DEF SameTurn, HasTurn, stackVars
  <2>5. FreeBooks' /\ \A g \in Fds : Registered(g)' <=> Registered(g)
    BY <1>3, <1>5, <2>1, <2>2, <2>3, <2>4, FreeWatch
  <2>6. QueueInv'
    BY <1>3, <2>1, <2>2, QueueKept DEF FreeInv, WaitsClose, SameSock, queueVars
  <2>7. FreeTurn'
    <3>1. \A g \in Fds : Fits(g) => Fits(g)'
      BY <2>1, <2>5 DEF Fits
    <3>2. \A t \in Socks : obj'[t].type = obj[t].type /\ obj'[t].fd = obj[t].fd
      BY <2>2 DEF SameSock
    <3> QED
      BY <1>3, <3>1, <3>2, BusyFree, FreeTurnKept
  <2> QED
    BY <2>5, <2>6, <2>7 DEF FreeKept
<1> QED
  BY <1>4, <1>5

LEMMA FreeCloseKept ==
  ASSUME FreeInv, NEW s \in Socks, Close(s) PROVE FreeKept
<1>1. /\ MayUse(s) /\ CloseWith(s, obj[s]) /\ UNCHANGED <<msgs, batchVars, stackVars, told>>
      /\ exposed' = IF \E e \in m_events : e.ptr = s THEN exposed \cup {s} ELSE exposed
  BY DEF Close
<1>2. CopyOf(obj[s], s)
  BY CopyOfItself DEF FreeInv, TcpInv, OwnInv
<1> QED
  BY <1>1, <1>2, FreeCloseCalled

\* A call that makes a connection of a socket: the turn is that of another.
LEMMA FreeUserTurn ==
  ASSUME FreeInv, NEW s \in Socks, lpc = "callback", UNCHANGED stackVars,
         told[s] \notin {"open", "closed"},
         \A t \in Socks : t # s => SameSock(t) /\ told'[t] = told[t],
         \A f \in Fds : Fits(f) => Fits(f)'
  PROVE  FreeTurn'
<1>1. Busy \/ Ending => cur \in Socks /\ cur # s
  BY DEF FreeInv, FreeTurn, TcpInv, StackInv
<1> QED
  BY <1>1, FreeTurnKept DEF SameSock

LEMMA FreeInitialize ==
  ASSUME FreeInv, NEW s \in Socks, Initialize(s) PROVE FreeKept
<1>0. OwnInv /\ Sound(s) /\ Known(s) /\ told[s] = "accepted" /\ Typed
  BY DEF FreeInv, TcpInv, FreeBooks, Initialize, OwnInv
<1>1. obj[s].type = "ESTABLISHED" /\ s \notin exposed
  BY <1>0 DEF OwnInv, TypesInv, Old, Sound
<1>2. PICK f \in Fds : f = obj[s].fd
  BY <1>0, <1>1 DEF OwnInv, TypesInv
<1>3. obj[s].alive /\ Holds(s, f) /\ ~Registered(f) /\ file[f] # "closed"
  <2>1. obj[s].alive
    BY <1>0, <1>1 DEF OwnInv, TypesInv, Typed, Sockets
  <2>2. Holds(s, f)
    BY <1>1, <1>2, <2>1 DEF Holds
  <2> QED
    BY <1>0, <1>1, <1>2, <2>1, <2>2 DEF Sound, OwnInv, DescriptorsOwned, OpenFd
<1>4. (\A g \in Fds : interest[g].ptr # s) /\ (\A e \in m_events : e.ptr # s)
  BY <1>0, <1>1 DEF Known, Linked
<1>5. /\ obj' = [obj EXCEPT ![s].events = {}] /\ lpc = "callback"
      /\ UNCHANGED <<file, m_msgs, msgs, exposed, stackVars>> /\ m_events' = m_events
  BY DEF Initialize, queueVars, batchVars
<1>6. SameSock(s) /\ Others(s)
  BY <1>0, <1>5 DEF SameSock, Others, Typed, Sockets, Initialize
<1>7. \A t \in Socks : t # s => SameSock(t) /\ told'[t] = told[t]
  BY <1>6 DEF Others, SameSock
<1>8. /\ \A g \in Fds : g # f => interest'[g] = interest[g]
      /\ \/ told'[s] = "open" /\ interest'[f] = [ptr |-> s, events |-> {}]
         \/ told'[s] = "unwatched" /\ interest'[f] = interest[f]
  BY <1>0, <1>2 DEF Initialize, Typed
<1>9. \A g \in Fds : g # f => (Registered(g)' <=> Registered(g))
  BY <1>8 DEF Registered
<1>10. \/ told'[s] = "open" /\ Registered(f)'
       \/ told'[s] = "unwatched" /\ ~Registered(f)'
  BY <1>3, <1>8, NoRegOfNone DEF Registered
<1>11. obj'[s].fd = f /\ obj'[s].type = "ESTABLISHED" /\ obj'[s].alive
  BY <1>1, <1>2, <1>3, <1>6 DEF SameSock
<1>12. Sound(s)'
  BY <1>1, <1>5, <1>10, <1>11 DEF Sound
<1>13. Known(s)'
  <2>1. \A g \in Fds : interest'[g].ptr = s => g = f /\ told'[s] = "open"
    BY <1>4, <1>8
  <2> QED
    BY <1>4, <1>5, <1>11, <2>1 DEF Known, Linked
<1>14. FreeBooks'
  <2>1. \A g \in Fds : Registered(g)' => file'[g] # "closed"
    BY <1>3, <1>5, <1>9 DEF FreeInv, FreeBooks
  <2>2. \A t \in Socks, g \in Fds : t # s /\ interest'[g].ptr = t => interest[g].ptr = t
    BY <1>8
  <2>3. SameTurn
    BY <1>5 DEF SameTurn, HasTurn, stackVars
  <2>4. \A g \in Fds : (Registered(g)' <=> Registered(g)) \/ Holds(s, g) \/ file[g] = "closed"
    BY <1>3, <1>9
  <2> QED
    BY <1>5, <1>7, <1>12, <1>13, <2>1, <2>2, <2>3, <2>4, TurnGoesOn, FreeOne
<1>15. QueueInv'
  BY <1>1, <1>5, <1>6, NotClosing DEF FreeInv, WaitsClose, queueVars
<1>16. FreeTurn'
  <2>1. \A g \in Fds : Fits(g) => Fits(g)'
    BY <1>3, <1>5, <1>9, <1>10 DEF Fits
  <2> QED
    BY <1>0, <1>5, <1>7, <2>1, FreeUserTurn
<1> QED
  BY <1>14, <1>15, <1>16 DEF FreeKept

\* A socket that was not connected gets a descriptor, or the connection of one.
LEMMA FreeNew ==
  ASSUME FreeInv, NEW s \in Socks, ~Old(s), obj[s].alive, told[s] \notin {"open", "closed"},
         \A f \in Fds : interest[f].ptr # s, \A e \in m_events : e.ptr # s,
         Others(s), obj'[s].alive, obj'[s].type # "INVALIDE", told'[s] # "closed",
         obj'[s].type = "ESTABLISHED" => /\ told'[s] = "accepted"
                                         /\ \A g \in Fds : obj'[s].fd = g => ~Registered(g)',
         \A f \in Fds : \/ interest'[f] = interest[f]
                        \/ /\ interest'[f].ptr = s /\ obj'[s].fd = f /\ file'[f] # "closed"
                           /\ told'[s] = "connecting" /\ obj'[s].type = "CONNECT"
                           /\ file[f] = "closed",
         \A f \in Fds : file[f] # "closed" => file'[f] # "closed",
         UNCHANGED <<m_msgs, msgs, exposed>>, m_events' = m_events,
         SameTurn \/ cur' = s
  PROVE  FreeBooks' /\ QueueInv'
<1>1. Sound(s) /\ s \notin exposed
  BY DEF FreeInv, FreeBooks, Sound, Old
<1>2. \A t \in Socks : t # s => SameSock(t) /\ told'[t] = told[t]
  BY DEF Others, SameSock
<1>3. Sound(s)'
  BY <1>1 DEF Sound, Registered
<1>4. Known(s)'
  BY DEF Known, Linked
<1>5. \A f \in Fds : Registered(f)' => file'[f] # "closed"
  BY DEF FreeInv, FreeBooks, Registered
<1>6. \A f \in Fds : (Registered(f)' <=> Registered(f)) \/ Holds(s, f) \/ file[f] = "closed"
  BY DEF Registered
<1>7. \A t \in Socks \ exposed : t # s /\ (HasTurn /\ cur = t)' => \A e \in m_events' : e.ptr # t
  BY TurnGoesOn
<1>8. FreeBooks'
  BY <1>2, <1>3, <1>4, <1>5, <1>6, <1>7, FreeOne
<1>9. QueueInv'
  BY NotClosing DEF FreeInv, WaitsClose, Old, queueVars
<1> QED
  BY <1>8, <1>9


LEMMA FreeDoConnect ==
  ASSUME FreeInv, NEW s \in Socks, DoConnect(s) PROVE FreeKept
<1>0. OwnInv /\ Typed
  BY DEF FreeInv, TcpInv, OwnInv
<1>1. PICK f \in Fds, made \in {"connecting", "quiet"} :
        /\ LowestFree(f)
        /\ file' = [file EXCEPT ![f] = made]
        /\ interest' = [interest EXCEPT ![f] = [ptr |-> s, events |-> {"OUT"}]]
        /\ obj' = [obj EXCEPT ![s].fd = f, ![s].type = "CONNECT", ![s].events = {"OUT"}]
  BY DEF DoConnect
<1>2. /\ MayConnect(s) /\ told' = [told EXCEPT ![s] = "connecting"]
      /\ UNCHANGED <<m_msgs, msgs, exposed, stackVars>> /\ m_events' = m_events
      /\ lpc = "callback" /\ told[s] \in {"new", "failed"}
  BY DEF DoConnect, MayConnect, queueVars, batchVars
<1>3. /\ ~Old(s) /\ obj[s].alive
      /\ \A g \in Fds : interest[g].ptr # s
      /\ \A e \in m_events : e.ptr # s
  BY <1>0, <1>2, Fresh
<1>4. /\ obj'[s].type = "CONNECT" /\ obj'[s].fd = f /\ obj'[s].alive
      /\ told'[s] = "connecting" /\ Others(s)
  BY <1>0, <1>1, <1>2, <1>3 DEF Others, Typed, Sockets
<1>5. /\ interest'[f].ptr = s /\ file'[f] # "closed" /\ file[f] = "closed"
      /\ \A g \in Fds : g # f => interest'[g] = interest[g] /\ file'[g] = file[g]
  BY <1>0, <1>1 DEF Typed, LowestFree
<1>6. SameTurn
  BY <1>2 DEF SameTurn, HasTurn, stackVars
<1>7. FreeBooks' /\ QueueInv'
  BY <1>2, <1>3, <1>4, <1>5, <1>6, FreeNew
<1>8. FreeTurn'
  <2>1. \A g \in Fds : Fits(g) => Fits(g)'
    BY <1>5, NoRegOfNone DEF Fits, Registered
  <2> QED
    BY <1>2, <1>4, <2>1, FreeUserTurn DEF Others, SameSock
<1> QED
  BY <1>7, <1>8 DEF FreeKept

LEMMA FreeDoConnectFails ==
  ASSUME FreeInv, NEW s \in Socks, DoConnectFails(s) PROVE FreeKept
<1>0. OwnInv /\ Typed
  BY DEF FreeInv, TcpInv, OwnInv
<1>1. /\ MayConnect(s) /\ told' = [told EXCEPT ![s] = "stuck"] /\ interest' = interest
      /\ UNCHANGED <<m_msgs, msgs, exposed, stackVars>> /\ m_events' = m_events
      /\ lpc = "callback" /\ told[s] \in {"new", "failed"}
  BY DEF DoConnectFails, MayConnect, queueVars, batchVars
<1>2. /\ ~Old(s) /\ obj[s].alive
      /\ \A g \in Fds : interest[g].ptr # s
      /\ \A e \in m_events : e.ptr # s
  BY <1>0, <1>1, Fresh
<1>3. /\ obj'[s].type \in {obj[s].type, "CONNECT"} /\ obj'[s].alive
      /\ \A t \in Socks : t # s => obj'[t] = obj[t]
  <2>1. CASE \E f \in Fds :
               obj' = [obj EXCEPT ![s].fd = f, ![s].type = "CONNECT", ![s].events = {"OUT"}]
    BY <1>0, <1>2, <2>1 DEF Typed, Sockets
  <2>2. CASE obj' = [obj EXCEPT ![s].fd = -1]
    BY <1>0, <1>2, <2>2 DEF Typed, Sockets
  <2> QED
    BY <2>1, <2>2 DEF DoConnectFails
<1>4. obj'[s].type \notin {"ESTABLISHED", "INVALIDE"} /\ told'[s] = "stuck" /\ Others(s)
  BY <1>0, <1>1, <1>2, <1>3 DEF Others, Typed, Old
<1>5. \A g \in Fds : file'[g] = file[g] \/ file'[g] = "refused"
  BY <1>0 DEF DoConnectFails, Typed
<1>6. SameTurn
  BY <1>1 DEF SameTurn, HasTurn, stackVars
<1>7. FreeBooks' /\ QueueInv'
  BY <1>1, <1>2, <1>3, <1>4, <1>5, <1>6, FreeNew
<1>8. FreeTurn'
  <2>1. \A g \in Fds : Fits(g) => Fits(g)'
    BY <1>1, <1>5 DEF Fits, Registered
  <2> QED
    BY <1>1, <1>4, <2>1, FreeUserTurn DEF Others, SameSock
<1> QED
  BY <1>7, <1>8 DEF FreeKept

LEMMA FreeUserCall == ASSUME FreeInv, UserCall PROVE FreeKept
BY FreeRequest, FreeCloseKept, FreeInitialize, FreeDoConnect, FreeDoConnectFails
   DEF UserCall, DoSend, DoRecv

-----------------------------------------------------------------------------
(* The steps of RunOnce, on any socket *)

LEMMA FreeAccept == ASSUME FreeInv, Accept PROVE FreeKept
<1>0. OwnInv /\ Typed
  BY DEF FreeInv, TcpInv, OwnInv
<1>1. PICK s \in Accepted, f \in Fds :
        /\ told[s] = "new" /\ LowestFree(f)
        /\ file' = [file EXCEPT ![f] = "quiet"]
        /\ obj' = [obj EXCEPT ![s].fd = f, ![s].type = "ESTABLISHED"]
        /\ told' = [told EXCEPT ![s] = "accepted"]
        /\ CallBack(s, "events")
  BY DEF Accept
<1>2. s \in Socks /\ UNCHANGED <<m_msgs, msgs, exposed, interest>> /\ m_events' = m_events
  BY DEF Accept, queueVars, batchVars, Socks
<1>3. ~Old(s) /\ obj[s].alive
  BY <1>0, <1>1, <1>2 DEF OwnInv, TypesInv, Old, Typed, Sockets
<1>4. Known(s) /\ s \notin exposed /\ ~Linked(s)
  BY <1>1, <1>2, <1>3 DEF FreeInv, FreeBooks, Sound, Old, Linked
<1>5. (\A g \in Fds : interest[g].ptr # s) /\ (\A e \in m_events : e.ptr # s)
  BY <1>4 DEF Known
<1>6. /\ obj'[s].type = "ESTABLISHED" /\ obj'[s].fd = f /\ obj'[s].alive
      /\ told'[s] = "accepted" /\ Others(s)
  BY <1>0, <1>1, <1>2, <1>3 DEF Others, Typed, Sockets
<1>7. file[f] = "closed" /\ \A g \in Fds : file[g] # "closed" => file'[g] # "closed"
  BY <1>0, <1>1 DEF Typed, LowestFree
<1>8. ~Registered(f)'
  BY <1>2, <1>7 DEF FreeInv, FreeBooks, Registered
<1>9. cur' = s
  BY <1>1 DEF CallBack
<1>10. FreeBooks' /\ QueueInv'
  BY <1>1, <1>2, <1>3, <1>5, <1>6, <1>7, <1>8, <1>9, FreeNew
<1>11. FreeTurn'
  BY <1>1, FreeTurnIdle DEF CallBack
<1> QED
  BY <1>10, <1>11 DEF FreeKept

\* The connect of a socket is answered, one way or the other.
LEMMA FreeAnswered ==
  ASSUME FreeInv, NEW e \in m_events, TakeEvent(e, {"CONNECT"}),
         NEW s \in Socks, s = e.ptr, Others(s), CallBack(s, "events"),
         \A g \in Fds : g # obj[s].fd => interest'[g] = interest[g] /\ file'[g] = file[g],
         \/ /\ obj'[s].type = "ESTABLISHED" /\ obj'[s].fd = obj[s].fd /\ told'[s] = "open"
            /\ \A f \in Fds : f = obj[s].fd => interest'[f].ptr = s /\ file'[f] = file[f]
         \/ /\ obj'[s].type = "CONNECT" /\ told'[s] = "failed"
            /\ \A f \in Fds : f = obj[s].fd => interest'[f] = NoReg,
         obj'[s].alive, UNCHANGED <<m_msgs, msgs, exposed>>
  PROVE  FreeKept
<1>0. OwnInv /\ Sound(s) /\ Known(s) /\ Typed
  BY DEF FreeInv, TcpInv, FreeBooks, OwnInv
<1>1. /\ obj[s].type = "CONNECT" /\ obj[s].alive /\ m_events' \subseteq m_events
      /\ \A d \in m_events' : d.ptr # s
  BY <1>0, Connecting DEF TakeEvent
<1>2. PICK f \in Fds : f = obj[s].fd
  BY <1>0, Connecting
<1>3. s \notin exposed /\ Holds(s, f) /\ file[f] # "closed"
  BY <1>0, <1>1, <1>2 DEF Sound, Holds, OwnInv, DescriptorsOwned, OpenFd
<1>4. \A g \in Fds : interest[g].ptr = s => g = f
  BY <1>0, <1>2, <1>3 DEF Known
<1>5. \A g \in Fds : g # f => (Registered(g)' <=> Registered(g))
  BY <1>2 DEF Registered
<1>6. Sound(s)'
  <2>1. CASE obj'[s].type = "ESTABLISHED" /\ obj'[s].fd = f /\ told'[s] = "open" /\ interest'[f].ptr = s
    <3>1. Registered(f)'
      BY <2>1, NoRegOfNone DEF Registered
    <3> QED
      BY <1>3, <2>1, <3>1 DEF Sound
  <2>2. CASE obj'[s].type = "CONNECT" /\ told'[s] = "failed"
    BY <1>3, <2>2 DEF Sound
  <2> QED
    BY <1>2, <2>1, <2>2
<1>7. Known(s)'
  BY <1>1, <1>2, <1>4, NoRegOfNone DEF Known, Linked
<1>8. \A g \in Fds : Registered(g)' => file'[g] # "closed"
  BY <1>2, <1>3, <1>5 DEF FreeInv, FreeBooks, Registered
<1>9. \A t \in Socks, g \in Fds : t # s /\ interest'[g].ptr = t => interest[g].ptr = t
  BY <1>2, NoRegOfNone
<1>10. cur' = s /\ \A t \in Socks : t # s => SameSock(t) /\ told'[t] = told[t]
  BY DEF CallBack, Others, SameSock
<1>11. \A g \in Fds : (Registered(g)' <=> Registered(g)) \/ Holds(s, g) \/ file[g] = "closed"
  BY <1>3, <1>5
<1>12. FreeBooks'
  BY <1>1, <1>6, <1>7, <1>8, <1>9, <1>10, <1>11, FreeOne
<1>13. QueueInv'
  BY <1>1, NotClosing DEF FreeInv, WaitsClose, queueVars
<1>14. FreeTurn'
  BY FreeTurnIdle DEF CallBack
<1> QED
  BY <1>12, <1>13, <1>14 DEF FreeKept

LEMMA FreeConnectEvent == ASSUME FreeInv, ConnectEvent \/ ConnectFailed PROVE FreeKept
<1>0. OwnInv /\ Typed
  BY DEF FreeInv, TcpInv, OwnInv
<1>1. CASE ConnectEvent
  <2>1. PICK e \in m_events :
          /\ TakeEvent(e, {"CONNECT"})
          /\ obj' = [obj EXCEPT ![e.ptr].events = {}, ![e.ptr].type = "ESTABLISHED"]
          /\ interest' = [interest EXCEPT ![obj[e.ptr].fd] = [ptr |-> e.ptr, events |-> {}]]
          /\ told' = [told EXCEPT ![e.ptr] = "open"]
          /\ CallBack(e.ptr, "events")
    BY <1>1 DEF ConnectEvent
  <2>2. PICK s \in Socks : s = e.ptr /\ obj[s] \in Sockets /\ obj[s].fd \in Fds /\ obj[s].alive
    BY <1>0, <2>1, Connecting
  <2>3. UNCHANGED <<m_msgs, msgs, exposed, file>>
    BY <1>1 DEF ConnectEvent, queueVars
  <2>4. /\ obj'[s].type = "ESTABLISHED" /\ obj'[s].fd = obj[s].fd /\ obj'[s].alive
        /\ told'[s] = "open" /\ Others(s)
    BY <1>0, <2>1, <2>2 DEF Others, Typed, Sockets
  <2>5. /\ interest'[obj[s].fd].ptr = s
        /\ \A g \in Fds : g # obj[s].fd => interest'[g] = interest[g]
    BY <1>0, <2>1, <2>2 DEF Typed
  <2> QED
    BY <2>1, <2>2, <2>3, <2>4, <2>5, FreeAnswered
<1>2. CASE ConnectFailed
  <2>1. PICK e \in m_events :
          /\ TakeEvent(e, {"CONNECT"})
          /\ interest' = [interest EXCEPT ![obj[e.ptr].fd] = NoReg]
          /\ file' = [file EXCEPT ![obj[e.ptr].fd] = "closed"]
          /\ obj' = [obj EXCEPT ![e.ptr].fd = 0]
          /\ told' = [told EXCEPT ![e.ptr] = "failed"]
          /\ CallBack(e.ptr, "events")
    BY <1>2 DEF ConnectFailed
  <2>2. PICK s \in Socks : /\ s = e.ptr /\ obj[s] \in Sockets /\ obj[s].fd \in Fds /\ obj[s].alive
                           /\ obj[s].type = "CONNECT"
    BY <1>0, <2>1, Connecting
  <2>3. UNCHANGED <<m_msgs, msgs, exposed>>
    BY <1>2 DEF ConnectFailed, queueVars
  <2>4. /\ obj'[s].type = "CONNECT" /\ obj'[s].alive /\ told'[s] = "failed" /\ Others(s)
    BY <1>0, <2>1, <2>2 DEF Others, Typed, Sockets
  <2>5. /\ interest'[obj[s].fd] = NoReg
        /\ \A g \in Fds : g # obj[s].fd => interest'[g] = interest[g] /\ file'[g] = file[g]
    BY <1>0, <2>1, <2>2 DEF Typed
  <2> QED
    BY <2>1, <2>2, <2>3, <2>4, <2>5, FreeAnswered
<1> QED
  BY <1>1, <1>2

\* The library closes: a failed connection, or a read or write that fails.
LEMMA FreeLibraryCloses == ASSUME FreeInv, FailedEvent \/ RecvCloses \/ SendCloses PROVE FreeKept
<1>0. OwnInv /\ Typed
  BY DEF FreeInv, TcpInv, OwnInv
<1>1. /\ UNCHANGED <<told, msgs, exposed>> /\ m_events' \subseteq m_events /\ lpc' = "events"
  BY DEF FailedEvent, TakeEvent, RecvCloses, SendCloses, batchVars, stackVars
<1>2. SameTurn /\ FreeTurn'
  BY <1>1, FreeTurnIdle DEF SameTurn, HasTurn
<1>3. \E s \in Socks : /\ CloseWith(s, obj[s]) /\ told[s] = "open"
                       /\ obj[s].type = "INVALIDE" \/ (\A e \in m_events' : e.ptr # s)
  <2>1. CASE FailedEvent
    <3>1. PICK e \in m_events : TakeEvent(e, {"ESTABLISHED"}) /\ CloseWith(e.ptr, obj[e.ptr])
      BY <2>1 DEF FailedEvent
    <3>2. e.ptr \in Socks /\ obj[e.ptr].type = "ESTABLISHED" /\ m_events' = m_events \ {e}
      BY <1>0, <3>1 DEF TakeEvent, Typed, Events
    <3>3. Sound(e.ptr) /\ Known(e.ptr)
      BY <3>2 DEF FreeInv, FreeBooks
    <3>4. told[e.ptr] = "open" /\ \A d \in m_events' : d.ptr # e.ptr
      BY <3>2, <3>3 DEF Sound, Known, Linked
    <3> QED
      BY <3>1, <3>2, <3>4
  <2>2. CASE RecvCloses \/ SendCloses
    <3>1. CloseWith(cur, obj[cur]) /\ lpc \in {"in", "out"} /\ m_events' = m_events
      BY <2>2 DEF RecvCloses, SendCloses, batchVars
    <3>2. cur \in Socks /\ Old(cur) /\ told[cur] = "open" /\ HasTurn
      BY <3>1, BusyFree DEF Busy
    <3>3. Sound(cur) /\ Known(cur)
      BY <3>2 DEF FreeInv, FreeBooks
    <3> QED
      BY <3>1, <3>2, <3>3 DEF Sound, Known, Old
  <2> QED
    BY <2>1, <2>2
<1>4. PICK s \in Socks : /\ CloseWith(s, obj[s]) /\ told[s] = "open"
                         /\ obj[s].type = "INVALIDE" \/ (\A e \in m_events' : e.ptr # s)
  BY <1>3
<1>5. CopyOf(obj[s], s)
  BY <1>0, CopyOfItself
<1>6. FreeBooks' /\ QueueInv'
  BY <1>1, <1>2, <1>4, <1>5, FreeClose
<1> QED
  BY <1>2, <1>6 DEF FreeKept


\* Data have been moved for the socket that RunOnce is busy with.
LEMMA FreeMoved ==
  ASSUME FreeInv, NEW s \in Socks, s = cur, lpc \in {"in", "out"}, NEW e, NEW f \in Fds,
         obj[s].fd = f, file[f] \notin {"closed", "refused"},
         interest' = [interest EXCEPT ![f] = [ptr |-> s, events |-> e]],
         \A t \in Socks : SameSock(t), told' = told, m_events' = m_events,
         exposed' = (IF obj[s].type = "INVALIDE" THEN exposed \cup {s} ELSE exposed),
         \A g \in Fds : file'[g] = "closed" <=> file[g] = "closed",
         UNCHANGED queueVars, cur' = cur
  PROVE  FreeBooks' /\ QueueInv'
<1>1. Busy /\ HasTurn /\ Old(s) /\ told[s] = "open" /\ Sound(s)
  BY BusyFree DEF Busy, FreeInv, FreeBooks
<1>2. Registered(f)
  BY <1>1 DEF Sound, Old, FreeInv, FreeTurn, Fits
<1>3. SameTurn
  BY <1>1 DEF SameTurn
<1>4. FreeBooks'
  BY <1>1, <1>2, <1>3, FreeWatch
<1>5. QueueInv'
  BY QueueKept DEF FreeInv, WaitsClose, SameSock
<1> QED
  BY <1>4, <1>5

LEMMA FreeRecvData == ASSUME FreeInv, RecvData PROVE FreeKept
<1>0. Typed /\ FreeTurn
  BY DEF FreeInv, TcpInv, OwnInv
<1>1. PICK s \in Socks : s = cur /\ told[s] = "open" /\ obj[s].type = "ESTABLISHED" /\ s \notin exposed
  <2>1. cur \in Socks /\ told[cur] = "open" /\ obj[cur].type = "ESTABLISHED"
    BY <1>0, BusyFree DEF RecvData, Busy, FreeTurn
  <2> QED
    BY <2>1 DEF FreeInv, FreeBooks, Sound
<1>2. PICK f \in Fds : f = obj[s].fd /\ file[f] = "data"
  BY <1>1 DEF RecvData, OpenFd
<1> DEFINE rest == obj[s].events \ {"IN"}
           r == [obj[s] EXCEPT !.recvBuf = FALSE, !.events = rest]
<1>3. /\ obj' = [obj EXCEPT ![s] = r]
      /\ interest' = [interest EXCEPT ![f] = [ptr |-> s, events |-> rest]]
      /\ CallBack(s, "out") /\ UNCHANGED <<queueVars, told, exposed>> /\ m_events' = m_events
  BY <1>0, <1>1, <1>2 DEF RecvData, batchVars, Typed
<1>4. r \in Sockets /\ r.alive = obj[s].alive /\ r.type = obj[s].type /\ r.fd = obj[s].fd
  <2>1. obj[s] \in Sockets /\ rest \in SUBSET Flags
    BY <1>0 DEF Typed, Sockets
  <2> QED
    BY <2>1 DEF Sockets
<1> HIDE DEF rest, r
<1>5. obj'[s].type = "ESTABLISHED" /\ \A t \in Socks : SameSock(t)
  BY <1>0, <1>1, <1>3, <1>4, ObjExcept DEF SameSock
<1>6. \A g \in Fds : file'[g] = "closed" <=> file[g] = "closed"
  BY <1>0, <1>1, <1>2 DEF RecvData, Typed
<1>7. lpc \in {"in", "out"} /\ cur' = cur
  BY <1>1, <1>3 DEF RecvData, CallBack
<1>8. FreeBooks' /\ QueueInv'
  BY <1>1, <1>2, <1>3, <1>5, <1>6, <1>7, FreeMoved
<1>9. FreeTurn'
  BY <1>1, <1>3, <1>5 DEF CallBack, FreeTurn, Busy, Ending
<1> QED
  BY <1>8, <1>9 DEF FreeKept

LEMMA FreeSendData == ASSUME FreeInv, SendData PROVE FreeKept
<1>0. Typed
  BY DEF FreeInv, TcpInv, OwnInv
<1>1. PICK s \in Socks : s = cur
  BY BusyFree DEF SendData, Busy
<1>2. PICK f \in Fds : f = obj[s].fd /\ file[f] \in {"quiet", "data", "eof"}
  BY <1>1 DEF SendData, OpenFd
<1> DEFINE rest == obj[s].events \ {"OUT"}
           r == [obj[s] EXCEPT !.sendBuf = FALSE, !.events = rest]
<1>3. /\ obj' = [obj EXCEPT ![s] = r]
      /\ interest' = [interest EXCEPT ![f] = [ptr |-> s, events |-> rest]]
      /\ exposed' = (IF obj[s].type = "INVALIDE" THEN exposed \cup {s} ELSE exposed)
      /\ CallBack(s, "events") /\ UNCHANGED <<file, queueVars, told>> /\ m_events' = m_events
  BY <1>0, <1>1, <1>2 DEF SendData, batchVars, Typed
<1>4. r \in Sockets /\ r.alive = obj[s].alive /\ r.type = obj[s].type /\ r.fd = obj[s].fd
  <2>1. obj[s] \in Sockets /\ rest \in SUBSET Flags
    BY <1>0 DEF Typed, Sockets
  <2> QED
    BY <2>1 DEF Sockets
<1> HIDE DEF rest, r
<1>5. \A t \in Socks : SameSock(t)
  BY <1>0, <1>3, <1>4, ObjExcept DEF SameSock
<1>6. lpc \in {"in", "out"} /\ cur' = cur
  BY <1>1, <1>3 DEF SendData, CallBack
<1>7. FreeBooks' /\ QueueInv'
  BY <1>1, <1>2, <1>3, <1>5, <1>6, FreeMoved
<1>8. FreeTurn'
  BY <1>3, FreeTurnIdle DEF CallBack
<1> QED
  BY <1>7, <1>8 DEF FreeKept

\* The end of a socket: OnClose, and the deletion.
LEMMA FreeEnd == ASSUME FreeInv, OnPostClose \/ Destroy PROVE FreeKept
<1>0. Typed /\ MsgsInv /\ QueueInv
  BY DEF FreeInv, TcpInv, OwnInv
<1>1. ASSUME NEW s \in Socks, obj[s].type = "INVALIDE", obj'[s].type = "INVALIDE", told'[s] = "closed",
             cur' = s \/ ~HasTurn', Others(s),
             UNCHANGED <<file, interest, m_events, exposed>>
      PROVE  FreeBooks'
  <2>1. Sound(s) /\ Known(s) /\ ~Linked(s)
    BY <1>1 DEF FreeInv, FreeBooks, Linked
  <2>2. Sound(s)'
    BY <1>1, <2>1 DEF Sound
  <2>3. Known(s)'
    BY <1>1, <2>1 DEF Known
  <2>4. \A t \in Socks : t # s =>
          SameSock(t) /\ told'[t] = told[t] /\ (t \in exposed' <=> t \in exposed)
    BY <1>1 DEF Others, SameSock
  <2>5. \A f \in Fds : (Registered(f)' <=> Registered(f)) /\ (Registered(f)' => file'[f] # "closed")
    BY <1>1 DEF Registered, FreeInv, FreeBooks
  <2> QED
    BY <1>1, <2>2, <2>3, <2>4, <2>5, FreeOne
<1>2. CASE OnPostClose
  <2>1. msgs # <<>> /\ Head(msgs) # NoSock /\ msgs \in Seq(Gone)
    BY <1>0, <1>2 DEF OnPostClose, MsgsInv
  <2>2. Head(msgs) \in Socks /\ WaitsClose(Head(msgs))
    <3>1. Head(msgs) = msgs[1] /\ 1 \in 1..Len(msgs)
      BY <2>1
    <3> QED
      BY <1>0, <2>1, <3>1 DEF QueueInv
  <2>3. PICK s \in Socks : s = Head(msgs) /\ obj[s].type = "INVALIDE"
    BY <2>2 DEF WaitsClose
  <2>4. /\ told' = [told EXCEPT ![s] = "closed"] /\ CallBack(s, "destroy") /\ msgs' = Tail(msgs)
        /\ UNCHANGED <<obj, file, interest, m_msgs, m_events, exposed>>
    BY <1>2, <2>3 DEF OnPostClose, kernelVars, batchVars
  <2>5. told'[s] = "closed" /\ obj'[s].type = "INVALIDE" /\ Others(s)
    BY <1>0, <2>3, <2>4 DEF Others, Typed
  <2>6. FreeBooks'
    BY <1>1, <2>3, <2>4, <2>5 DEF CallBack
  <2>7. QueueInv'
    <3>1. \A t \in Socks : WaitsClose(t) /\ t # Head(msgs) => WaitsClose(t)'
      BY <2>3, <2>5 DEF Others, WaitsClose
    <3> QED
      BY <1>0, <2>1, <2>4, <3>1, QueueTail
  <2>8. FreeTurn'
    BY <2>4, <2>5 DEF CallBack, FreeTurn, Busy, Ending
  <2> QED
    BY <2>6, <2>7, <2>8 DEF FreeKept
<1>3. CASE Destroy
  <2>1. cur \in Socks /\ obj[cur].type = "INVALIDE" /\ told[cur] = "closed"
    BY <1>3 DEF Destroy, FreeInv, TcpInv, StackInv, FreeTurn, Ending
  <2>2. PICK s \in Socks : s = cur
    BY <2>1
  <2>3. /\ UNCHANGED <<file, interest, told, queueVars, m_events, exposed>> /\ lpc' = "dispatch"
        /\ obj' = [obj EXCEPT ![s].alive = s \notin Accepted]
    BY <1>3, <2>2 DEF Destroy, kernelVars, batchVars
  <2>4. obj'[s].type = "INVALIDE" /\ told'[s] = "closed" /\ Others(s)
    BY <1>0, <2>1, <2>2, <2>3 DEF Others, Typed, Sockets
  <2>5. ~HasTurn' /\ FreeTurn'
    BY <2>3, FreeTurnIdle DEF HasTurn
  <2>6. FreeBooks'
    BY <1>1, <2>1, <2>2, <2>3, <2>4, <2>5
  <2>7. QueueInv'
    BY <1>0, <2>1, <2>2, <2>3, <2>4, NotClosing DEF WaitsClose
  <2> QED
    BY <2>5, <2>6, <2>7 DEF FreeKept
<1> QED
  BY <1>2, <1>3

LEMMA FreeEpollWait == ASSUME FreeInv, EpollWait PROVE FreeKept
<1>1. UNCHANGED <<obj, file, interest, told, queueVars, exposed>> /\ lpc' = "timers"
  BY DEF EpollWait, kernelVars
<1>2. m_events' = {[ptr |-> interest[f].ptr, flag |-> Reported(f)] :
                     f \in {g \in Fds : Registered(g) /\ Reported(g) /= {}}}
  BY DEF EpollWait
<1>3. ASSUME NEW s \in Socks PROVE Sound(s)' /\ Known(s)'
  <2>1. Sound(s) /\ Known(s)
    BY DEF FreeInv, FreeBooks
  <2>2. Sound(s)'
    BY <1>1, <2>1 DEF Sound, Registered
  <2>3. Known(s)'
    <3> SUFFICES ASSUME s \notin exposed
                 PROVE  /\ \A f \in Fds : interest[f].ptr = s => Linked(s) /\ obj[s].fd = f
                        /\ \A e \in m_events' : e.ptr = s => Linked(s)
                        /\ \A e, d \in m_events' : e.ptr = s /\ d.ptr = s => e = d
      BY <1>1 DEF Known, Linked, HasTurn
    <3>1. \A f \in Fds : interest[f].ptr = s => Linked(s) /\ obj[s].fd = f
      BY <2>1 DEF Known
    <3>2. \A e \in m_events' : \E f \in Fds :
            e = [ptr |-> interest[f].ptr, flag |-> Reported(f)] /\ e.ptr = interest[f].ptr
      BY <1>2
    <3>3. \A e \in m_events' : e.ptr = s =>
            Linked(s) /\ e = [ptr |-> interest[obj[s].fd].ptr, flag |-> Reported(obj[s].fd)]
      BY <3>1, <3>2
    <3> QED
      BY <3>1, <3>3
  <2> QED
    BY <2>2, <2>3
<1>4. FreeBooks'
  BY <1>1, <1>3 DEF FreeInv, FreeBooks, Registered
<1>5. QueueInv' /\ FreeTurn'
  BY <1>1, QueueKept, FreeTurnIdle DEF FreeInv, WaitsClose
<1> QED
  BY <1>4, <1>5 DEF FreeKept

\* RunOnce goes on to another place, for another socket or none.
LEMMA FreeWalk ==
  ASSUME FreeInv,
         \/ NoTimer \/ SkipEvent \/ ReadFreed \/ DispatchDone \/ RunOnceReturns \/ SendNothing
         \/ RecvNothing \/ OnTimer \/ OnPost \/ ThreadEvent \/ DataEvent \/ CallbackReturns
  PROVE  FreeKept
<1>0. Typed /\ MsgsInv /\ QueueInv /\ StackInv /\ FreeTurn
  BY DEF FreeInv, TcpInv, OwnInv
<1>1. UNCHANGED <<obj, told, exposed, interest, file>> /\ m_events' \subseteq m_events
  BY DEF NoTimer, SkipEvent, TakeEvent, ReadFreed, DispatchDone, RunOnceReturns, SendNothing,
         RecvNothing, OnTimer, OnPost, ThreadEvent, DataEvent, CallbackReturns, kernelVars, batchVars
<1>2. QueueInv'
  <2>1. CASE OnPost
    <3>1. msgs # <<>> /\ msgs' = Tail(msgs) /\ m_msgs' = m_msgs
      BY <2>1 DEF OnPost
    <3> QED
      BY <1>0, <1>1, <3>1, QueueTail DEF WaitsClose
  <2>2. CASE ThreadEvent
    BY <1>0, <2>2, QueueSwapped
  <2>3. CASE ~OnPost /\ ~ThreadEvent
    <3>1. UNCHANGED queueVars
      BY <2>3 DEF NoTimer, SkipEvent, ReadFreed, DispatchDone, RunOnceReturns, SendNothing,
                  RecvNothing, OnTimer, DataEvent, CallbackReturns
    <3> QED
      BY <1>0, <1>1, <3>1, QueueKept DEF WaitsClose
  <2> QED
    BY <2>1, <2>2, <2>3
<1>3. CASE DataEvent
  <2>1. PICK e \in m_events : TakeEvent(e, {"ESTABLISHED"}) /\ cur' = e.ptr
    BY <1>3 DEF DataEvent
  <2>2. e.ptr \in Socks /\ obj[e.ptr].type = "ESTABLISHED" /\ m_events' = m_events \ {e}
    BY <1>0, <2>1 DEF TakeEvent, Typed, Events
  <2>3. Sound(e.ptr) /\ Known(e.ptr)
    BY <2>2 DEF FreeInv, FreeBooks
  <2>4. told[e.ptr] = "open" /\ \A d \in m_events' : d.ptr # e.ptr
    BY <2>2, <2>3 DEF Sound, Known, Linked
  <2>5. FreeBooks'
    BY <1>1, <2>1, <2>4, FreeNone
  <2>6. FreeTurn'
    BY <1>1, <1>3, <2>1, <2>2, <2>4 DEF DataEvent, FreeTurn, Busy, Ending
  <2> QED
    BY <1>2, <2>5, <2>6 DEF FreeKept
<1>4. CASE CallbackReturns
  <2>1. /\ lpc = "callback" /\ lpc' = ret /\ ret' = ret
        /\ ret \in {"wait", "events", "out", "dispatch", "destroy"}
        /\ ret \in {"out", "destroy"} => cur' = cur
    BY <1>0, <1>4 DEF CallbackReturns, StackInv
  <2>2. SameTurn
    BY <2>1 DEF SameTurn, HasTurn
  <2>3. FreeBooks'
    BY <1>1, <2>2, TurnGoesOn, FreeNone
  <2>4. FreeTurn'
    BY <1>0, <1>1, <2>1 DEF FreeTurn, Busy, Ending, Fits, Registered
  <2> QED
    BY <1>2, <2>3, <2>4 DEF FreeKept
<1>5. CASE RecvNothing
  <2>1. lpc = "in" /\ lpc' = "out" /\ cur' = cur
    BY <1>5 DEF RecvNothing
  <2>2. SameTurn
    BY <2>1 DEF SameTurn, HasTurn
  <2>3. FreeBooks'
    BY <1>1, <2>2, TurnGoesOn, FreeNone
  <2>4. FreeTurn'
    BY <1>0, <1>1, <2>1 DEF FreeTurn, Busy, Ending
  <2> QED
    BY <1>2, <2>3, <2>4 DEF FreeKept
<1>6. CASE OnTimer \/ OnPost
  <2>1. cur' = NoSock /\ lpc' = "callback" /\ ret' \in {"events", "dispatch"}
    BY <1>6 DEF OnTimer, OnPost, CallBack
  <2>2. ~HasTurn'
    BY <2>1, SocksAssumption DEF HasTurn, Socks
  <2> QED
    BY <1>1, <1>2, <2>1, <2>2, FreeNone, FreeTurnIdle DEF FreeKept
<1>7. CASE \/ NoTimer \/ SkipEvent \/ ReadFreed \/ DispatchDone \/ RunOnceReturns \/ SendNothing
           \/ ThreadEvent
  <2>1. lpc' \in {"events", "crashed", "wait", "dispatch"}
    BY <1>7 DEF NoTimer, SkipEvent, TakeEvent, ReadFreed, DispatchDone, RunOnceReturns, SendNothing,
                ThreadEvent, stackVars
  <2> QED
    BY <1>1, <1>2, <2>1, FreeNone, FreeTurnIdle DEF FreeKept, HasTurn
<1> QED
  BY <1>3, <1>4, <1>5, <1>6, <1>7

LEMMA FreeRest == ASSUME FreeInv, Network \/ UNCHANGED vars PROVE FreeKept
<1>1. UNCHANGED <<obj, interest, told, exposed, m_events, lpc, cur, ret, queueVars>>
  BY DEF Network, vars, batchVars, stackVars, kernelVars
<1>2. /\ \A f \in Fds : file'[f] = "closed" <=> file[f] = "closed"
      /\ \A f \in Fds : file[f] \in {"closed", "refused"} => file'[f] = file[f]
  BY DEF Network, vars, kernelVars, FreeInv, TcpInv, OwnInv, Typed
<1>3. SameTurn
  BY <1>1 DEF SameTurn, HasTurn
<1>4. FreeBooks' /\ QueueInv'
  BY <1>1, <1>2, <1>3, TurnGoesOn, FreeNone, QueueKept DEF FreeInv, WaitsClose
<1>5. FreeTurn'
  BY <1>1, <1>2 DEF FreeInv, FreeTurn, Busy, Ending, Fits, Registered
<1> QED
  BY <1>4, <1>5 DEF FreeKept

LEMMA FreeStep == FreeInv /\ [Next]_vars => FreeInv'
<1> SUFFICES ASSUME FreeInv, [Next]_vars PROVE FreeInv'
  OBVIOUS
<1>1. RunOnce => FreeKept
  BY FreeEpollWait, FreeWalk, FreeConnectEvent, FreeLibraryCloses, FreeRecvData, FreeSendData,
     FreeAccept, FreeEnd
  DEF RunOnce
<1>2. FreeKept
  BY <1>1, FreeUserCall, FreeRest DEF Next
<1>3. TcpInv'
  BY TcpStep DEF FreeInv
<1> QED
  BY <1>2, <1>3 DEF FreeKept, FreeInv

LEMMA FreeInit == Init => FreeInv
<1> SUFFICES ASSUME Init PROVE FreeInv
  OBVIOUS
<1>1. \A s \in Socks : Sound(s) /\ Known(s)
  BY NoRegOfNone DEF Init, Sound, Known, NewSocket
<1>2. FreeBooks
  BY <1>1 DEF Init, FreeBooks, Registered
<1>3. QueueInv /\ FreeTurn
  BY DEF Init, QueueInv, FreeTurn, Busy, Ending
<1> QED
  BY <1>2, <1>3, TcpInit DEF FreeInv

\* Whatever the callbacks call on whatever sockets, no close message is to a
\* socket that was deleted, and an event only if the user closed the socket while
\* it waited or used it after its close when its number stood for another.
THEOREM DeletedIsForgotten == Spec => []NothingForDeleted
<1>1. FreeInv => NothingForDeleted
  <2> SUFFICES ASSUME FreeInv PROVE NothingForDeleted
    OBVIOUS
  <2>1. ASSUME NEW e \in m_events, e.ptr \notin exposed PROVE obj[e.ptr].alive
    <3>1. e.ptr \in Socks
      BY DEF FreeInv, TcpInv, OwnInv, Typed, Events
    <3>2. Linked(e.ptr)
      BY <2>1, <3>1 DEF FreeInv, FreeBooks, Known
    <3> QED
      BY <3>1, <3>2 DEF Linked, FreeInv, TcpInv, OwnInv, TypesInv, Typed, Sockets
  <2>2. ASSUME NEW s \in Socks, WaitsClose(s) PROVE obj[s].alive
    BY <2>2 DEF WaitsClose, FreeInv, FreeBooks, Sound, TcpInv, OwnInv, Typed, Sockets
  <2>3. ASSUME NEW s \in (ToSet(m_msgs) \cup ToSet(msgs)) \ {NoSock} PROVE obj[s].alive
    <3>1. m_msgs \in Seq(Gone) /\ msgs \in Seq(Gone)
      BY DEF FreeInv, TcpInv, MsgsInv
    <3>2. (\E i \in 1..Len(m_msgs) : s = m_msgs[i]) \/ (\E i \in 1..Len(msgs) : s = msgs[i])
      BY <2>3, <3>1 DEF ToSet
    <3>3. s \in Socks /\ WaitsClose(s)
      BY <2>3, <3>2 DEF FreeInv, QueueInv
    <3> QED
      BY <2>2, <3>3
  <2> QED
    BY <2>1, <2>3 DEF NothingForDeleted
<1> QED
  BY <1>1, FreeInit, FreeStep, PTL DEF Spec
=============================================================================
