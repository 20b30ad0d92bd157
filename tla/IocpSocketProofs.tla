-------------------------- MODULE IocpSocketProofs --------------------------
(***************************************************************************)
(* Proofs about IocpSocket, for any sets of accepted and connected         *)
(* sockets.                                                                *)
(***************************************************************************)
EXTENDS IocpSocket, FiniteSetTheorems, TLAPS

-----------------------------------------------------------------------------
(* Counting packets in a sequence *)

Found(q, s, kind) == {i \in DOMAIN q : q[i].sock = s /\ q[i].kind = kind}
Count(q, s, kind) == Cardinality(Found(q, s, kind))
One(p, s, kind) == IF p.sock = s /\ p.kind = kind THEN 1 ELSE 0

LEMMA PendingCounts ==
  ASSUME NEW s, NEW kind
  PROVE  /\ Pending(s, kind) = Count(port, s, kind) + Count(hand, s, kind)
         /\ Pending(s, kind)' = Count(port', s, kind) + Count(hand', s, kind)
BY DEF Pending, Count, Found

LEMMA FoundFinite ==
  ASSUME NEW T, NEW q \in Seq(T), NEW s, NEW kind
  PROVE  IsFiniteSet(Found(q, s, kind)) /\ Count(q, s, kind) \in Nat
<1>1. Found(q, s, kind) \in SUBSET (1..Len(q)) /\ Len(q) \in Nat
  BY DEF Found
<1>2. IsFiniteSet(1..Len(q))
  BY <1>1, FS_Interval
<1>3. IsFiniteSet(Found(q, s, kind))
  BY <1>1, <1>2, FS_Subset
<1> QED
  BY <1>3, FS_CardinalityType DEF Count

LEMMA CountEmpty ==
  ASSUME NEW s, NEW kind
  PROVE  Count(<<>>, s, kind) = 0
<1>1. Found(<<>>, s, kind) = {}
  BY DEF Found
<1> QED
  BY <1>1, FS_EmptySet DEF Count

LEMMA CountAppend ==
  ASSUME NEW T, NEW q \in Seq(T), NEW p \in T, NEW s, NEW kind
  PROVE  Count(Append(q, p), s, kind) = Count(q, s, kind) + One(p, s, kind)
<1>1. IsFiniteSet(Found(q, s, kind)) /\ Count(q, s, kind) \in Nat
  BY FoundFinite
<1>2. /\ Len(q) \in Nat /\ DOMAIN q = 1..Len(q)
      /\ DOMAIN Append(q, p) = 1..(Len(q) + 1)
      /\ Append(q, p)[Len(q) + 1] = p
      /\ \A i \in 1..Len(q) : Append(q, p)[i] = q[i]
  OBVIOUS
<1>3. CASE p.sock = s /\ p.kind = kind
  <2>1. Found(Append(q, p), s, kind) = Found(q, s, kind) \cup {Len(q) + 1}
    BY <1>2, <1>3 DEF Found
  <2>2. Len(q) + 1 \notin Found(q, s, kind)
    BY <1>2 DEF Found
  <2>3. Cardinality(Found(q, s, kind) \cup {Len(q) + 1}) = Cardinality(Found(q, s, kind)) + 1
    BY <1>1, <2>2, FS_AddElement
  <2> QED
    BY <1>3, <2>1, <2>3 DEF Count, One
<1>4. CASE ~(p.sock = s /\ p.kind = kind)
  <2>1. Found(Append(q, p), s, kind) = Found(q, s, kind)
    BY <1>2, <1>4 DEF Found
  <2> QED
    BY <1>1, <1>4, <2>1 DEF Count, One
<1> QED
  BY <1>3, <1>4

LEMMA CountOne ==
  ASSUME NEW p, NEW s, NEW kind
  PROVE  Count(<<p>>, s, kind) = One(p, s, kind)
<1>1. CASE p.sock = s /\ p.kind = kind
  <2>1. Found(<<p>>, s, kind) = {1}
    BY <1>1 DEF Found
  <2> QED
    BY <1>1, <2>1, FS_Singleton DEF Count, One
<1>2. CASE ~(p.sock = s /\ p.kind = kind)
  <2>1. Found(<<p>>, s, kind) = {}
    BY <1>2 DEF Found
  <2> QED
    BY <1>2, <2>1, FS_EmptySet DEF Count, One
<1> QED
  BY <1>1, <1>2

\* The packet taken off the port is the first.
LEMMA CountTail ==
  ASSUME NEW T, NEW q \in Seq(T), q # <<>>, NEW s, NEW kind
  PROVE  Count(q, s, kind) = One(Head(q), s, kind) + Count(Tail(q), s, kind)
<1> DEFINE F == Found(Tail(q), s, kind)
           G == {i \in 2..Len(q) : q[i].sock = s /\ q[i].kind = kind}
           f == [i \in F |-> i + 1]
<1>1. /\ Len(q) \in Nat /\ Len(q) >= 1 /\ DOMAIN q = 1..Len(q) /\ Head(q) = q[1]
      /\ Tail(q) \in Seq(T) /\ Len(Tail(q)) = Len(q) - 1
      /\ DOMAIN Tail(q) = 1..(Len(q) - 1)
      /\ \A i \in 1..(Len(q) - 1) : Tail(q)[i] = q[i + 1]
  OBVIOUS
<1>2. F \subseteq 1..(Len(q) - 1) /\ IsFiniteSet(F) /\ Cardinality(F) \in Nat
  <2>1. Tail(q) \in Seq(T)
    BY <1>1
  <2>2. IsFiniteSet(F) /\ Count(Tail(q), s, kind) \in Nat
    BY <2>1, FoundFinite
  <2>3. F \subseteq 1..(Len(q) - 1)
    BY <1>1 DEF Found
  <2> QED
    BY <2>2, <2>3 DEF Count
<1>3. ExistsBijection(F, G)
  <2>1. f \in [F -> G]
    <3> SUFFICES ASSUME NEW i \in F PROVE i + 1 \in G
      OBVIOUS
    <3> QED
      BY <1>1, <1>2 DEF Found
  <2>2. \A i, j \in F : i # j => f[i] # f[j]
    BY <1>2
  <2>3. \A g \in G : \E i \in F : f[i] = g
    <3> TAKE g \in G
    <3>1. g - 1 \in 1..(Len(q) - 1) /\ (g - 1) + 1 = g
      BY <1>1
    <3>2. g - 1 \in F
      BY <1>1, <3>1 DEF Found
    <3> QED
      BY <3>1, <3>2
  <2>4. f \in Bijection(F, G)
    BY <2>1, <2>2, <2>3 DEF Bijection, Injection, Surjection, IsInjective
  <2> QED
    BY <2>4 DEF ExistsBijection
<1>4. IsFiniteSet(G) /\ Cardinality(G) = Cardinality(F)
  BY <1>2, <1>3, FS_Bijection
<1>5. CASE q[1].sock = s /\ q[1].kind = kind
  <2>1. Found(q, s, kind) = G \cup {1}
    BY <1>1, <1>5 DEF Found
  <2>2. 1 \notin G
    OBVIOUS
  <2>3. Cardinality(G \cup {1}) = Cardinality(G) + 1
    BY <1>4, <2>2, FS_AddElement
  <2> QED
    BY <1>1, <1>2, <1>4, <1>5, <2>1, <2>3 DEF Count, One
<1>6. CASE ~(q[1].sock = s /\ q[1].kind = kind)
  <2>1. Found(q, s, kind) = G
    BY <1>1, <1>6 DEF Found
  <2> QED
    BY <1>1, <1>2, <1>4, <1>6, <2>1 DEF Count, One
<1> QED
  BY <1>5, <1>6

-----------------------------------------------------------------------------
(* Type correctness *)

LEMMA PacketType ==
  ASSUME NEW s \in Socks, NEW kind \in Kinds \cup {"close"}, NEW result \in Results
  PROVE  Packet(s, kind, result) \in Packets
BY DEF Packet, Packets

LEMMA PortType ==
  ASSUME TypeOK, NEW p \in Packets
  PROVE  Append(port, p) \in Seq(Packets)
BY DEF TypeOK

\* The packet in hand is one of the port's.
LEMMA HandType ==
  ASSUME TypeOK, hand # <<>>
  PROVE  hand = <<hand[1]>> /\ hand[1] \in Packets /\ hand[1].sock \in Socks
         /\ hand[1].kind \in Kinds \cup {"close"}
<1>1. PICK p \in Packets : hand = <<p>>
  BY DEF TypeOK
<1>2. hand[1] = p
  BY <1>1
<1> QED
  BY <1>1, <1>2 DEF Packets

\* What CloseImlp leaves behind.
LEMMA CloseImlpType ==
  ASSUME TypeOK, NEW s \in Socks, NEW b, CloseImlp(s, b)
  PROVE  /\ m_nLinkStatus' \in
              [Socks -> {"UNINITIALIZE", "ESTABLISHED", "WAITCLOSE", "WAITCLEAR"}]
         /\ m_socket' \in [Socks -> {"none", "open", "closed"}]
         /\ port' \in Seq(Packets)
<1>1. Append(port, Packet(s, "close", "ok")) \in Seq(Packets)
  BY PacketType, PortType DEF Kinds, Results
<1> QED
  BY <1>1 DEF TypeOK, CloseImlp, Release, PostClear, Status

\* Init, the kernel, the user's calls and every step of RunOnce keep the state
\* of sockets, kernel and port in its types.
THEOREM TypeCorrect == Spec => []TypeOK
<1>1. Init => TypeOK
  BY DEF Init, TypeOK, Socks, Kinds
<1>2. TypeOK /\ [Next]_vars => TypeOK'
  <2> SUFFICES ASSUME TypeOK, [Next]_vars PROVE TypeOK'
    OBVIOUS
  <2> USE DEF sockVars, Kinds
  <2>1. ASSUME NEW s \in Socks, NEW kind \in Kinds, Complete(s, kind) PROVE TypeOK'
    <3>1. PICK result \in {"ok", "end", "failed"} :
            port' = Append(port, Packet(s, kind, result))
      BY <2>1 DEF Complete
    <3>2. port' \in Seq(Packets)
      BY <3>1, PacketType, PortType DEF Results
    <3> QED
      BY <2>1, <3>2 DEF Complete, TypeOK
  <2>2. ASSUME NEW s \in Socks, Initialize(s) PROVE TypeOK'
    BY <2>2 DEF Initialize, TypeOK
  <2>3. ASSUME NEW s \in Socks, DoConnect(s) PROVE TypeOK'
    BY <2>3 DEF DoConnect, Begin, TypeOK
  <2>4. ASSUME NEW s \in Socks, Close(s) PROVE TypeOK'
    <3>1. CloseImlp(s, busy[s])
      BY <2>4 DEF Close
    <3> QED
      BY <2>4, <3>1, CloseImlpType DEF Close, TypeOK
  <2>15. ASSUME NEW s \in Socks, CloseUnbound(s) PROVE TypeOK'
    BY <2>15 DEF CloseUnbound, Status, TypeOK
  <2>5. ASSUME NEW s \in Socks, NEW kind \in {"recv", "send"}, Request(s, kind) PROVE TypeOK'
    BY <2>5 DEF Request, Begin, TypeOK
  <2>6. CASE Dequeue
    <3>1. CASE port = <<>>
      BY <2>6, <3>1 DEF Dequeue, TypeOK
    <3>2. CASE port # <<>>
      <4>1. Head(port) \in Packets /\ Tail(port) \in Seq(Packets)
        BY <3>2 DEF TypeOK
      <4> QED
        BY <2>6, <3>2, <4>1 DEF Dequeue, TypeOK
    <3> QED
      BY <3>1, <3>2
  <2>7. CASE TimeOut
    BY <2>7 DEF TimeOut, TypeOK
  <2>8. CASE Cleared
    <3>1. hand[1].sock \in Socks
      BY <2>8, HandType DEF Cleared
    <3> QED
      BY <2>8, <3>1 DEF Cleared, Status, Handled, TypeOK
  <2>9. CASE CallbackReturns
    BY <2>9 DEF CallbackReturns, TypeOK
  <2>10. ASSUME NEW s \in Socks, Connects(s) PROVE TypeOK'
    BY <2>10 DEF Connects, Status, Finished, Handled, TypeOK
  <2>11. ASSUME NEW s \in Socks, Succeeds(s) PROVE TypeOK'
    BY <2>11 DEF Succeeds, Finished, Handled, TypeOK
  <2>12. ASSUME NEW s \in Socks, Fails(s) PROVE TypeOK'
    <3>1. CloseImlp(s, busy[s] \ {hand[1].kind})
      BY <2>12 DEF Fails
    <3> QED
      BY <2>12, <3>1, CloseImlpType DEF Fails, Finished, Handled, TypeOK
  <2>13. ASSUME NEW s \in Socks, OnClear(s) PROVE TypeOK'
    BY <2>13 DEF OnClear, TypeOK
  <2>14. CASE UNCHANGED vars
    BY <2>14 DEF vars, TypeOK
  <2> QED
    BY <2>1, <2>2, <2>3, <2>4, <2>5, <2>6, <2>7, <2>8, <2>9, <2>10, <2>11, <2>12,
       <2>13, <2>14, <2>15 DEF Next, UserCall, RunOnce, Kernel
<1> QED
  BY <1>1, <1>2, PTL DEF Spec

-----------------------------------------------------------------------------
(* How a step changes what is pending *)

LEMMA OneNat == ASSUME NEW p, NEW s, NEW kind PROVE One(p, s, kind) \in {0, 1}
BY DEF One

LEMMA PendingNat ==
  ASSUME TypeOK, NEW s, NEW kind
  PROVE  /\ Count(port, s, kind) \in Nat /\ Count(hand, s, kind) \in Nat
         /\ Pending(s, kind) \in Nat
<1>1. port \in Seq(Packets)
  BY DEF TypeOK
<1>2. Count(port, s, kind) \in Nat
  BY <1>1, FoundFinite
<1>3. Count(hand, s, kind) \in Nat
  <2>1. CASE hand = <<>>
    BY <2>1, CountEmpty
  <2>2. CASE hand # <<>>
    <3>1. hand = <<hand[1]>>
      BY <2>2, HandType
    <3>2. Count(<<hand[1]>>, s, kind) = One(hand[1], s, kind)
      BY CountOne
    <3> QED
      BY <3>1, <3>2, OneNat
  <2> QED
    BY <2>1, <2>2
<1> QED
  BY <1>2, <1>3, PendingCounts

\* A packet is posted.
LEMMA PendingPosted ==
  ASSUME TypeOK, NEW p \in Packets, port' = Append(port, p), hand' = hand, NEW s, NEW kind
  PROVE  Pending(s, kind)' = Pending(s, kind) + One(p, s, kind)
<1>1. port \in Seq(Packets)
  BY DEF TypeOK
<1>2. Count(port', s, kind) = Count(port, s, kind) + One(p, s, kind)
  BY <1>1, CountAppend
<1>3. Count(port, s, kind) \in Nat /\ Count(hand, s, kind) \in Nat /\ One(p, s, kind) \in {0, 1}
  BY PendingNat, OneNat
<1> QED
  BY <1>2, <1>3, PendingCounts

\* The loop takes a packet off the port.
LEMMA PendingTaken ==
  ASSUME TypeOK, hand = <<>>, port # <<>>, hand' = <<Head(port)>>, port' = Tail(port),
         NEW s, NEW kind
  PROVE  Pending(s, kind)' = Pending(s, kind)
<1>1. port \in Seq(Packets)
  BY DEF TypeOK
<1>2. Count(port, s, kind) = One(Head(port), s, kind) + Count(Tail(port), s, kind)
  BY <1>1, CountTail
<1>3. Count(hand, s, kind) = 0 /\ Count(hand', s, kind) = One(Head(port), s, kind)
  BY CountEmpty, CountOne
<1>4. Tail(port) \in Seq(Packets)
  BY <1>1
<1>5. Count(Tail(port), s, kind) \in Nat /\ One(Head(port), s, kind) \in {0, 1}
  BY <1>4, FoundFinite, OneNat
<1> QED
  BY <1>2, <1>3, <1>5, PendingCounts

\* The loop has handled the packet in hand.
LEMMA PendingHandled ==
  ASSUME TypeOK, hand # <<>>, hand' = <<>>, port' = port, NEW s, NEW kind
  PROVE  Pending(s, kind) = Pending(s, kind)' + One(hand[1], s, kind)
<1>1. hand = <<hand[1]>>
  BY HandType
<1>2. Count(<<hand[1]>>, s, kind) = One(hand[1], s, kind)
  BY CountOne
<1>3. Count(hand, s, kind) = One(hand[1], s, kind)
  BY <1>1, <1>2
<1>4. Count(hand', s, kind) = 0
  BY CountEmpty
<1>5. Count(port, s, kind) \in Nat /\ One(hand[1], s, kind) \in {0, 1}
  BY PendingNat, OneNat
<1> QED
  BY <1>3, <1>4, <1>5, PendingCounts

\* Both at once.
LEMMA PendingAnswered ==
  ASSUME TypeOK, NEW p \in Packets, port' = Append(port, p), hand # <<>>, hand' = <<>>,
         NEW s, NEW kind
  PROVE  Pending(s, kind) + One(p, s, kind) = Pending(s, kind)' + One(hand[1], s, kind)
<1>1. hand = <<hand[1]>> /\ port \in Seq(Packets)
  BY HandType DEF TypeOK
<1>2. Count(<<hand[1]>>, s, kind) = One(hand[1], s, kind)
  BY CountOne
<1>3. Count(hand, s, kind) = One(hand[1], s, kind)
  BY <1>1, <1>2
<1>4. Count(hand', s, kind) = 0
  BY CountEmpty
<1>5. Count(port', s, kind) = Count(port, s, kind) + One(p, s, kind)
  BY <1>1, CountAppend
<1>6. /\ Count(port, s, kind) \in Nat /\ One(hand[1], s, kind) \in {0, 1}
      /\ One(p, s, kind) \in {0, 1}
  BY PendingNat, OneNat
<1> QED
  BY <1>3, <1>4, <1>5, <1>6, PendingCounts

\* CloseImlp posts the message of OnClose or nothing.
CloseMsg(s) == Packet(s, "close", "ok")

LEMMA CloseImlpPort ==
  ASSUME NEW s \in Socks, NEW b, CloseImlp(s, b)
  PROVE  /\ port' = Append(port, CloseMsg(s)) \/ port' = port
         /\ CloseMsg(s) \in Packets
         /\ \A t, kind : One(CloseMsg(s), t, kind) = IF t = s /\ kind = "close" THEN 1 ELSE 0
<1>1. CloseMsg(s) \in Packets
  BY PacketType DEF CloseMsg, Results
<1>2. \A t, kind : One(CloseMsg(s), t, kind) = IF t = s /\ kind = "close" THEN 1 ELSE 0
  BY DEF CloseMsg, Packet, One
<1> QED
  BY <1>1, <1>2 DEF CloseImlp, PostClear, CloseMsg

-----------------------------------------------------------------------------
(* The flags *)

\* The only packet that a callback runs with is that of OnClose.
CallbackHand == place = "callback" /\ hand # <<>> => hand[1].kind = "close"

FlagsInv == FlagsTrue /\ CallbackHand

FlagTrue(s, kind) ==
    Pending(s, kind) + (IF kind \in kernel[s] THEN 1 ELSE 0) = IF kind \in busy[s] THEN 1 ELSE 0

\* A completion is handled: its flag goes with it.
LEMMA FlagFinished ==
  ASSUME TypeOK, FlagsTrue, NEW s \in Socks, hand # <<>>, hand[1].sock = s,
         hand[1].kind \in Kinds, hand' = <<>>, Finished(s, hand[1].kind), kernel' = kernel,
         NEW t \in Socks, NEW k \in Kinds,
         Pending(t, k) = Pending(t, k)' + One(hand[1], t, k), Pending(t, k)' \in Nat
  PROVE  FlagTrue(t, k)'
<1>1. FlagTrue(t, k) /\ FlagTrue(s, hand[1].kind)
  BY DEF FlagsTrue, FlagTrue
<1>2. Pending(t, k) \in Nat /\ Pending(s, hand[1].kind) \in Nat
  BY PendingNat
<1>3. CASE t = s /\ k = hand[1].kind
  <2>1. One(hand[1], t, k) = 1
    BY <1>3 DEF One
  <2>2. k \notin busy'[t]
    BY <1>3 DEF Finished, TypeOK
  <2>3. Pending(t, k) + (IF k \in kernel[t] THEN 1 ELSE 0) \in {0, 1}
    BY <1>1 DEF FlagTrue
  <2>4. Pending(t, k)' = 0 /\ k \notin kernel'[t]
    BY <1>2, <2>1, <2>3
  <2> QED
    BY <2>2, <2>4 DEF FlagTrue
<1>4. CASE ~(t = s /\ k = hand[1].kind)
  <2>1. One(hand[1], t, k) = 0
    BY <1>4 DEF One
  <2>2. k \in busy'[t] <=> k \in busy[t]
    BY <1>4 DEF Finished, TypeOK
  <2>3. Pending(t, k)' = Pending(t, k)
    BY <1>2, <2>1
  <2> QED
    BY <1>1, <2>2, <2>3 DEF FlagTrue
<1> QED
  BY <1>3, <1>4

LEMMA FlagsKept ==
  ASSUME FlagsTrue, kernel' = kernel, busy' = busy,
         \A t \in Socks, k \in Kinds : Pending(t, k)' = Pending(t, k)
  PROVE  FlagsTrue'
BY DEF FlagsTrue

\* A request sets its flag and reaches the kernel.
LEMMA FlagBegun ==
  ASSUME TypeOK, FlagsTrue, NEW s \in Socks, NEW kind \in Kinds, Begin(s, kind),
         kind \notin busy[s]
  PROVE  FlagsTrue'
<1> SUFFICES ASSUME NEW t \in Socks, NEW k \in Kinds PROVE FlagTrue(t, k)'
  BY DEF FlagsTrue, FlagTrue
<1>1. FlagTrue(t, k)
  BY DEF FlagsTrue, FlagTrue
<1>2. Pending(t, k)' = Pending(t, k) /\ Pending(t, k) \in Nat
  BY PendingNat, PendingCounts DEF Begin
<1>3. CASE t = s /\ k = kind
  <2>1. k \in busy'[t] /\ k \in kernel'[t]
    BY <1>3 DEF Begin, TypeOK
  <2>2. Pending(t, k) = 0
    BY <1>1, <1>2, <1>3 DEF FlagTrue
  <2> QED
    BY <1>2, <2>1, <2>2 DEF FlagTrue
<1>4. CASE ~(t = s /\ k = kind)
  <2>1. (k \in busy'[t] <=> k \in busy[t]) /\ (k \in kernel'[t] <=> k \in kernel[t])
    BY <1>4 DEF Begin, TypeOK
  <2> QED
    BY <1>1, <1>2, <2>1 DEF FlagTrue
<1> QED
  BY <1>3, <1>4

\* The kernel completes an operation: its packet takes its place.
LEMMA FlagCompleted ==
  ASSUME TypeOK, FlagsTrue, NEW s \in Socks, NEW kind \in Kinds, Complete(s, kind)
  PROVE  FlagsTrue'
<1> SUFFICES ASSUME NEW t \in Socks, NEW k \in Kinds PROVE FlagTrue(t, k)'
  BY DEF FlagsTrue, FlagTrue
<1>1. PICK result \in {"ok", "end", "failed"} :
        port' = Append(port, Packet(s, kind, result))
  BY DEF Complete
<1>2. Packet(s, kind, result) \in Packets
  BY PacketType DEF Results
<1>3. One(Packet(s, kind, result), t, k) = IF t = s /\ k = kind THEN 1 ELSE 0
  BY DEF One, Packet
<1>4. Pending(t, k)' = Pending(t, k) + One(Packet(s, kind, result), t, k)
  BY <1>1, <1>2, PendingPosted DEF Complete
<1>5. FlagTrue(t, k) /\ Pending(t, k) \in Nat
  BY PendingNat DEF FlagsTrue, FlagTrue
<1>6. busy' = busy
  BY DEF Complete, sockVars
<1>7. CASE t = s /\ k = kind
  <2>1. k \in kernel[t] /\ k \notin kernel'[t]
    BY <1>7 DEF Complete, TypeOK
  <2> QED
    BY <1>3, <1>4, <1>5, <1>6, <1>7, <2>1 DEF FlagTrue
<1>8. CASE ~(t = s /\ k = kind)
  <2>1. k \in kernel'[t] <=> k \in kernel[t]
    BY <1>8 DEF Complete, TypeOK
  <2> QED
    BY <1>3, <1>4, <1>5, <1>6, <1>8, <2>1 DEF FlagTrue
<1> QED
  BY <1>7, <1>8

\* FlagsTrue and CallbackHand are kept by every step.
LEMMA FlagsStep == TypeOK /\ FlagsInv /\ [Next]_vars => FlagsInv'
<1> SUFFICES ASSUME TypeOK, FlagsTrue, CallbackHand, [Next]_vars PROVE FlagsTrue' /\ CallbackHand'
  BY DEF FlagsInv
<1>1. ASSUME NEW s \in Socks, NEW kind \in Kinds, Complete(s, kind)
      PROVE  FlagsTrue' /\ CallbackHand'
  BY <1>1, FlagCompleted DEF Complete, CallbackHand
<1>2. ASSUME NEW s \in Socks, Initialize(s) PROVE FlagsTrue' /\ CallbackHand'
  <2>1. FlagsTrue'
    BY <1>2, FlagsKept, PendingCounts DEF Initialize
  <2> QED
    BY <1>2, <2>1 DEF Initialize, CallbackHand
<1>3. ASSUME NEW s \in Socks, DoConnect(s) PROVE FlagsTrue' /\ CallbackHand'
  <2>1. FlagsTrue'
    BY <1>3, FlagBegun DEF DoConnect, Kinds
  <2> QED
    BY <1>3, <2>1 DEF DoConnect, Begin, CallbackHand
<1>4. ASSUME NEW s \in Socks, NEW kind \in {"recv", "send"}, Request(s, kind)
      PROVE  FlagsTrue' /\ CallbackHand'
  <2>1. FlagsTrue'
    BY <1>4, FlagBegun DEF Request, Kinds
  <2> QED
    BY <1>4, <2>1 DEF Request, Begin, CallbackHand
<1>5. ASSUME NEW s \in Socks, Close(s) PROVE FlagsTrue' /\ CallbackHand'
  <2>1. CloseImlp(s, busy[s])
    BY <1>5 DEF Close
  <2>2. \A t \in Socks, k \in Kinds : Pending(t, k)' = Pending(t, k)
    <3> TAKE t \in Socks, k \in Kinds
    <3>1. CASE port' = port
      BY <1>5, <3>1, PendingCounts DEF Close
    <3>2. CASE port' = Append(port, CloseMsg(s))
      <4>1. One(CloseMsg(s), t, k) = 0 /\ CloseMsg(s) \in Packets
        BY <2>1, CloseImlpPort DEF Kinds
      <4>2. Pending(t, k)' = Pending(t, k) + One(CloseMsg(s), t, k)
        BY <1>5, <3>2, <4>1, PendingPosted DEF Close
      <4> QED
        BY <4>1, <4>2, PendingNat
    <3> QED
      BY <2>1, <3>1, <3>2, CloseImlpPort
  <2>3. FlagsTrue'
    BY <1>5, <2>2, FlagsKept DEF Close
  <2> QED
    BY <1>5, <2>3 DEF Close, CallbackHand
<1>12. ASSUME NEW s \in Socks, CloseUnbound(s) PROVE FlagsTrue' /\ CallbackHand'
  <2>1. FlagsTrue'
    BY <1>12, FlagsKept, PendingCounts DEF CloseUnbound
  <2> QED
    BY <1>12, <2>1 DEF CloseUnbound, CallbackHand
<1>6. CASE Dequeue
  <2>1. hand = <<>>
    BY <1>6 DEF Dequeue, TypeOK
  <2>2. \A t \in Socks, k \in Kinds : Pending(t, k)' = Pending(t, k)
    <3>1. CASE port = <<>>
      BY <1>6, <3>1, PendingCounts DEF Dequeue
    <3>2. CASE port # <<>>
      BY <1>6, <2>1, <3>2, PendingTaken DEF Dequeue
    <3> QED
      BY <3>1, <3>2
  <2>3. FlagsTrue'
    BY <1>6, <2>2, FlagsKept DEF Dequeue, sockVars
  <2> QED
    BY <1>6, <2>3 DEF Dequeue, CallbackHand
<1>7. CASE TimeOut \/ CallbackReturns \/ UNCHANGED vars
  <2>1. FlagsTrue'
    BY <1>7, FlagsKept, PendingCounts DEF TimeOut, CallbackReturns, vars, sockVars
  <2> QED
    BY <1>7, <2>1 DEF TimeOut, CallbackReturns, vars, sockVars, CallbackHand
<1>8. CASE Cleared
  <2>1. hand[1].kind = "close"
    BY <1>8 DEF Cleared, CallbackHand
  <2>2. \A t \in Socks, k \in Kinds : Pending(t, k)' = Pending(t, k)
    <3> TAKE t \in Socks, k \in Kinds
    <3>1. One(hand[1], t, k) = 0
      BY <2>1 DEF One, Kinds
    <3>2. Pending(t, k) = Pending(t, k)' + One(hand[1], t, k)
      BY <1>8, PendingHandled DEF Cleared, Handled
    <3>3. hand' = <<>> /\ port' = port
      BY <1>8 DEF Cleared, Handled
    <3>4. Count(port', t, k) \in Nat /\ Count(hand', t, k) = 0
      BY <3>3, PendingNat, CountEmpty
    <3>5. Pending(t, k)' \in Nat
      BY <3>4, PendingCounts
    <3> QED
      BY <3>1, <3>2, <3>5
  <2>3. FlagsTrue'
    BY <1>8, <2>2, FlagsKept DEF Cleared
  <2> QED
    BY <1>8, <2>3 DEF Cleared, Handled, CallbackHand
<1>9. ASSUME NEW s \in Socks, Connects(s) \/ Succeeds(s) PROVE FlagsTrue' /\ CallbackHand'
  <2>1. /\ hand # <<>> /\ hand[1].sock = s /\ hand[1].kind \in Kinds
        /\ hand' = <<>> /\ port' = port /\ kernel' = kernel
        /\ Finished(s, hand[1].kind)
    BY <1>9 DEF Connects, Succeeds, Handles, Handled, Kinds
  <2>2. FlagsTrue'
    <3> SUFFICES ASSUME NEW t \in Socks, NEW k \in Kinds PROVE FlagTrue(t, k)'
      BY DEF FlagsTrue, FlagTrue
    <3>1. Pending(t, k) = Pending(t, k)' + One(hand[1], t, k)
      BY <2>1, PendingHandled
    <3>2. Count(port', t, k) \in Nat /\ Count(hand', t, k) = 0
      BY <2>1, PendingNat, CountEmpty
    <3>3. Pending(t, k)' \in Nat
      BY <3>2, PendingCounts
    <3> QED
      BY <2>1, <3>1, <3>3, FlagFinished
  <2> QED
    BY <2>1, <2>2 DEF CallbackHand
<1>10. ASSUME NEW s \in Socks, Fails(s) PROVE FlagsTrue' /\ CallbackHand'
  <2>1. /\ hand # <<>> /\ hand[1].sock = s /\ hand[1].kind \in Kinds
        /\ hand' = <<>> /\ kernel' = kernel
        /\ Finished(s, hand[1].kind)
    BY <1>10 DEF Fails, Handles, Handled, Kinds
  <2>2. CloseImlp(s, busy[s] \ {hand[1].kind})
    BY <1>10 DEF Fails
  <2>3. FlagsTrue'
    <3> SUFFICES ASSUME NEW t \in Socks, NEW k \in Kinds PROVE FlagTrue(t, k)'
      BY DEF FlagsTrue, FlagTrue
    <3>1. Pending(t, k) = Pending(t, k)' + One(hand[1], t, k) /\ Pending(t, k)' \in Nat
      <4>1. CASE port' = port
        <5>1. Count(port', t, k) \in Nat /\ Count(hand', t, k) = 0
          BY <2>1, <4>1, PendingNat, CountEmpty
        <5> QED
          BY <2>1, <4>1, <5>1, PendingHandled, PendingCounts
      <4>2. CASE port' = Append(port, CloseMsg(s))
        <5>1. One(CloseMsg(s), t, k) = 0 /\ CloseMsg(s) \in Packets
          BY <2>2, CloseImlpPort DEF Kinds
        <5>2. Pending(t, k) + One(CloseMsg(s), t, k) = Pending(t, k)' + One(hand[1], t, k)
          BY <2>1, <4>2, <5>1, PendingAnswered
        <5>3. Pending(t, k) \in Nat
          BY PendingNat
        <5>4. port \in Seq(Packets)
          BY DEF TypeOK
        <5>5. Count(port', t, k) = Count(port, t, k) + One(CloseMsg(s), t, k)
          BY <4>2, <5>1, <5>4, CountAppend
        <5>6. Count(port', t, k) \in Nat /\ Count(hand', t, k) = 0
          BY <2>1, <5>1, <5>5, PendingNat, CountEmpty
        <5>7. Pending(t, k)' \in Nat
          BY <5>6, PendingCounts
        <5> QED
          BY <5>1, <5>2, <5>3, <5>7
      <4> QED
        BY <2>2, <4>1, <4>2, CloseImlpPort
    <3> QED
      BY <2>1, <3>1, FlagFinished
  <2> QED
    BY <2>1, <2>3 DEF CallbackHand
<1>11. ASSUME NEW s \in Socks, OnClear(s) PROVE FlagsTrue' /\ CallbackHand'
  <2>1. FlagsTrue'
    BY <1>11, FlagsKept, PendingCounts DEF OnClear, sockVars
  <2> QED
    BY <1>11, <2>1 DEF OnClear, Handles, CallbackHand
<1> QED
  BY <1>1, <1>2, <1>3, <1>4, <1>5, <1>6, <1>7, <1>8, <1>9, <1>10, <1>11, <1>12
  DEF Next, UserCall, RunOnce, Kernel

LEMMA FlagsInit == Init => FlagsInv
<1> SUFFICES ASSUME Init PROVE FlagsTrue /\ CallbackHand
  BY DEF FlagsInv
<1>1. \A t, k : Pending(t, k) = 0
  BY PendingCounts, CountEmpty DEF Init
<1> QED
  BY <1>1 DEF Init, FlagsTrue, CallbackHand

\* In every behaviour a flag is set exactly while its operation is with the
\* kernel or its one completion waits to be handled.
THEOREM FlagsAreTrue == Spec => []FlagsTrue
<1>1. FlagsInv => FlagsTrue
  BY DEF FlagsInv
<1> QED
  BY <1>1, TypeCorrect, FlagsInit, FlagsStep, PTL DEF Spec

-----------------------------------------------------------------------------
(* Closing *)

\* What the link status says of the flags, of the message of OnClose and of
\* the object.
StatusOf(s) ==
    /\ Pending(s, "close") = IF m_nLinkStatus[s] = "WAITCLEAR" THEN 1 ELSE 0
    /\ "connect" \in busy[s] => m_nLinkStatus[s] = "UNINITIALIZE"
    /\ busy[s] \cap {"recv", "send"} # {} => m_nLinkStatus[s] \in {"ESTABLISHED", "WAITCLOSE"}
    /\ ~alive[s] => m_nLinkStatus[s] = "UNINITIALIZE" /\ busy[s] = {}
    /\ told[s] = "new" => busy[s] = {}

StatusInv == \A s \in Socks : StatusOf(s)

LEMMA StatusKept ==
  ASSUME StatusInv, NEW t \in Socks, Pending(t, "close")' = Pending(t, "close"),
         m_nLinkStatus'[t] = m_nLinkStatus[t], busy'[t] = busy[t], alive'[t] = alive[t],
         told'[t] = "new" => told[t] = "new"
  PROVE  StatusOf(t)'
BY DEF StatusInv, StatusOf

\* The flag of the packet in hand is set.
LEMMA HandBusy ==
  ASSUME TypeOK, FlagsTrue, hand # <<>>, NEW s \in Socks, hand[1].sock = s,
         hand[1].kind \in Kinds
  PROVE  hand[1].kind \in busy[s]
<1>1. Count(hand, s, hand[1].kind) = 1
  <2>1. hand = <<hand[1]>>
    BY HandType
  <2>2. Count(<<hand[1]>>, s, hand[1].kind) = One(hand[1], s, hand[1].kind)
    BY CountOne
  <2> QED
    BY <2>1, <2>2 DEF One
<1>2. Count(port, s, hand[1].kind) \in Nat
  BY PendingNat
<1>3. Pending(s, hand[1].kind) >= 1 /\ Pending(s, hand[1].kind) \in Nat
  BY <1>1, <1>2, PendingCounts
<1>4. FlagTrue(s, hand[1].kind)
  BY DEF FlagsTrue, FlagTrue
<1> QED
  BY <1>3, <1>4 DEF FlagTrue

\* A status without a receive or a send under way has no operation at all.
LEMMA NothingBusy ==
  ASSUME TypeOK, StatusInv, NEW s \in Socks, m_nLinkStatus[s] # "UNINITIALIZE"
  PROVE  "connect" \notin busy[s] /\ busy[s] \subseteq {"recv", "send"}
BY DEF TypeOK, StatusInv, StatusOf, Kinds

\* CloseImlp keeps StatusOf, b being what is under way after the step.
LEMMA StatusClosed ==
  ASSUME TypeOK, StatusInv, NEW s \in Socks, NEW b, CloseImlp(s, b), busy'[s] = b,
         b \subseteq busy[s], m_nLinkStatus[s] \in {"ESTABLISHED", "WAITCLOSE"},
         alive' = alive, told' = told,
         port' = port => Pending(s, "close")' = Pending(s, "close"),
         port' = Append(port, CloseMsg(s))
            => Pending(s, "close")' = Pending(s, "close") + 1
  PROVE  StatusOf(s)'
<1>1. StatusOf(s) /\ b \subseteq {"recv", "send"}
  BY NothingBusy DEF StatusInv
<1>2. Pending(s, "close") = 0 /\ alive[s]
  BY <1>1 DEF StatusOf
<1>3. CASE b = {}
  <2>1. m_nLinkStatus'[s] = "WAITCLEAR" /\ port' = Append(port, CloseMsg(s))
    BY <1>3 DEF CloseImlp, PostClear, Status, CloseMsg, TypeOK
  <2> QED
    BY <1>2, <1>3, <2>1 DEF StatusOf
<1>4. CASE b # {}
  <2>1. m_nLinkStatus'[s] = "WAITCLOSE" /\ port' = port
    BY <1>1, <1>4 DEF CloseImlp, Status, TypeOK
  <2> QED
    BY <1>1, <1>2, <1>4, <2>1 DEF StatusOf
<1> QED
  BY <1>3, <1>4

\* CloseImlp leaves the other sockets alone.
LEMMA OthersClosed ==
  ASSUME TypeOK, NEW s \in Socks, NEW b, CloseImlp(s, b), NEW t \in Socks, t # s
  PROVE  m_nLinkStatus'[t] = m_nLinkStatus[t]
BY DEF CloseImlp, PostClear, Status, TypeOK

\* A socket that nobody has initialised was never anything else, and has no
\* operation.
LEMMA NewIsIdle ==
  ASSUME TypeOK, StatusInv, [Next]_vars, NEW t \in Socks, told'[t] = "new"
  PROVE  told[t] = "new" /\ busy[t] = {} /\ busy'[t] = {}
<1>1. told[t] = "new"
  <2>1. CASE UserCall
    <3>1. CASE \E s \in Socks : Initialize(s)
      BY <3>1 DEF Initialize, TypeOK
    <3>2. CASE told' = told
      BY <3>2
    <3> QED
      BY <2>1, <3>1, <3>2
      DEF UserCall, DoConnect, Request, Begin, Close, CloseUnbound
  <2>2. CASE RunOnce
    BY <2>2 DEF RunOnce, Dequeue, TimeOut, Cleared, CallbackReturns, Connects, Succeeds,
                Fails, OnClear, TypeOK
  <2>3. CASE Kernel \/ UNCHANGED vars
    BY <2>3 DEF Kernel, Complete, vars
  <2> QED
    BY <2>1, <2>2, <2>3 DEF Next
<1>2. busy[t] = {}
  BY <1>1 DEF StatusInv, StatusOf
<1>3. busy'[t] = {}
  <2>1. CASE UserCall
    <3>1. ASSUME NEW s \in Socks, NEW kind \in Kinds, told[s] = "usable", Begin(s, kind)
          PROVE  busy'[t] = {}
      BY <1>1, <1>2, <3>1 DEF Begin, TypeOK
    <3>2. CASE busy' = busy
      BY <1>2, <3>2
    <3> QED
      BY <2>1, <3>1, <3>2
      DEF UserCall, Initialize, DoConnect, Request, Close, CloseUnbound, Kinds
  <2>2. CASE RunOnce
    <3>1. ASSUME NEW s \in Socks, NEW kind, Finished(s, kind) PROVE busy'[t] = {}
      BY <1>2, <3>1 DEF Finished, TypeOK
    <3>2. CASE busy' = busy
      BY <1>2, <3>2
    <3> QED
      BY <2>2, <3>1, <3>2 DEF RunOnce, Dequeue, TimeOut, Cleared, CallbackReturns, Connects,
                              Succeeds, Fails, OnClear, sockVars
  <2>3. CASE Kernel \/ UNCHANGED vars
    BY <1>2, <2>3 DEF Kernel, Complete, vars, sockVars
  <2> QED
    BY <2>1, <2>2, <2>3 DEF Next
<1> QED
  BY <1>1, <1>2, <1>3

\* StatusOf is kept by every step.
LEMMA StatusStep == TypeOK /\ FlagsInv /\ StatusInv /\ [Next]_vars => StatusInv'
<1> SUFFICES ASSUME TypeOK, FlagsTrue, CallbackHand, StatusInv, [Next]_vars, NEW t \in Socks
             PROVE  StatusOf(t)'
  BY DEF FlagsInv, StatusInv
<1>0. StatusOf(t) /\ Pending(t, "close") \in Nat
  BY PendingNat DEF StatusInv
<1>13. told'[t] = "new" => told[t] = "new" /\ busy'[t] = {}
  BY NewIsIdle
<1>1. ASSUME NEW s \in Socks, NEW kind \in Kinds, Complete(s, kind) PROVE StatusOf(t)'
  <2>1. PICK result \in {"ok", "end", "failed"} :
          port' = Append(port, Packet(s, kind, result))
    BY <1>1 DEF Complete
  <2>2. Packet(s, kind, result) \in Packets
    BY PacketType DEF Results
  <2>3. One(Packet(s, kind, result), t, "close") = 0
    BY DEF One, Packet, Kinds
  <2>4. Pending(t, "close")' = Pending(t, "close") + One(Packet(s, kind, result), t, "close")
    BY <1>1, <2>1, <2>2, PendingPosted DEF Complete
  <2> QED
    BY <1>0, <1>1, <1>13, <2>3, <2>4, StatusKept DEF Complete, sockVars
<1>2. ASSUME NEW s \in Socks, Initialize(s) PROVE StatusOf(t)'
  BY <1>2, <1>13, PendingCounts, StatusKept DEF Initialize
<1>3. ASSUME NEW s \in Socks, DoConnect(s) PROVE StatusOf(t)'
  <2>1. Pending(t, "close")' = Pending(t, "close")
    BY <1>3, PendingCounts DEF DoConnect, Begin
  <2>2. CASE t = s
    <3>1. busy'[t] = busy[t] \cup {"connect"} /\ m_nLinkStatus'[t] = "UNINITIALIZE"
      BY <1>3, <2>2 DEF DoConnect, Begin, TypeOK
    <3>2. alive'[t] /\ m_nLinkStatus[t] = "UNINITIALIZE"
      BY <1>3, <2>2 DEF DoConnect, Begin
    <3> QED
      BY <1>0, <1>13, <2>1, <3>1, <3>2 DEF StatusOf
  <2>3. CASE t # s
    <3>1. busy'[t] = busy[t]
      BY <1>3, <2>3 DEF DoConnect, Begin, TypeOK
    <3> QED
      BY <1>3, <2>1, <3>1, StatusKept DEF DoConnect, Begin
  <2> QED
    BY <2>2, <2>3
<1>4. ASSUME NEW s \in Socks, NEW kind \in {"recv", "send"}, Request(s, kind)
      PROVE  StatusOf(t)'
  <2>1. Pending(t, "close")' = Pending(t, "close")
    BY <1>4, PendingCounts DEF Request, Begin
  <2>2. CASE t = s
    <3>1. busy'[t] = busy[t] \cup {kind} /\ m_nLinkStatus'[t] = "ESTABLISHED"
      BY <1>4, <2>2 DEF Request, Begin, TypeOK
    <3>2. alive'[t] /\ m_nLinkStatus[t] = "ESTABLISHED"
      BY <1>4, <2>2 DEF Request, Begin
    <3> QED
      BY <1>0, <1>13, <2>1, <3>1, <3>2 DEF StatusOf
  <2>3. CASE t # s
    <3>1. busy'[t] = busy[t]
      BY <1>4, <2>3 DEF Request, Begin, TypeOK
    <3> QED
      BY <1>4, <2>1, <3>1, StatusKept DEF Request, Begin
  <2> QED
    BY <2>2, <2>3
<1>5. ASSUME NEW s \in Socks, Close(s) PROVE StatusOf(t)'
  <2>1. CloseImlp(s, busy[s]) /\ busy' = busy /\ alive' = alive /\ hand' = hand
    BY <1>5 DEF Close
  <2>2. /\ port' = Append(port, CloseMsg(s)) \/ port' = port
        /\ CloseMsg(s) \in Packets
        /\ One(CloseMsg(s), t, "close") = IF t = s THEN 1 ELSE 0
    BY <2>1, CloseImlpPort
  <2>3. port' = port => Pending(t, "close")' = Pending(t, "close")
    BY <2>1, PendingCounts
  <2>4. port' = Append(port, CloseMsg(s))
          => Pending(t, "close")' = Pending(t, "close") + One(CloseMsg(s), t, "close")
    BY <2>1, <2>2, PendingPosted
  <2>5. CASE t = s
    BY <1>5, <2>1, <2>2, <2>3, <2>4, <2>5, StatusClosed DEF Close
  <2>6. CASE t # s
    <3>1. Pending(t, "close")' = Pending(t, "close")
      BY <1>0, <2>2, <2>3, <2>4, <2>6
    <3> QED
      BY <1>13, <2>1, <2>6, <3>1, OthersClosed, StatusKept
  <2> QED
    BY <2>5, <2>6
<1>12. ASSUME NEW s \in Socks, CloseUnbound(s) PROVE StatusOf(t)'
  <2>1. Pending(t, "close")' = Pending(t, "close")
    BY <1>12, PendingCounts DEF CloseUnbound
  <2>2. CASE t = s
    <3>1. Pending(t, "close") = 0 /\ busy[t] = {} /\ busy' = busy
      BY <1>0, <1>12, <2>2 DEF CloseUnbound, StatusOf
    <3>2. m_nLinkStatus'[t] = "UNINITIALIZE"
      BY <1>12, <2>2 DEF CloseUnbound, Status, TypeOK
    <3> QED
      BY <2>1, <3>1, <3>2 DEF StatusOf
  <2>3. CASE t # s
    <3>1. m_nLinkStatus'[t] = m_nLinkStatus[t] /\ alive'[t] = alive[t]
      BY <1>12, <2>3 DEF CloseUnbound, Status, TypeOK
    <3> QED
      BY <1>12, <2>1, <3>1, StatusKept DEF CloseUnbound
  <2> QED
    BY <2>2, <2>3
<1>6. CASE Dequeue
  <2>1. hand = <<>>
    BY <1>6 DEF Dequeue, TypeOK
  <2>2. Pending(t, "close")' = Pending(t, "close")
    <3>1. CASE port = <<>>
      BY <1>6, <3>1, PendingCounts DEF Dequeue
    <3>2. CASE port # <<>>
      BY <1>6, <2>1, <3>2, PendingTaken DEF Dequeue
    <3> QED
      BY <3>1, <3>2
  <2> QED
    BY <1>6, <2>2, StatusKept DEF Dequeue, sockVars
<1>7. CASE TimeOut \/ CallbackReturns \/ UNCHANGED vars
  <2>1. Pending(t, "close")' = Pending(t, "close")
    BY <1>7, PendingCounts DEF TimeOut, CallbackReturns, vars
  <2> QED
    BY <1>7, <2>1, StatusKept DEF TimeOut, CallbackReturns, vars, sockVars
<1>8. CASE Cleared
  <2> DEFINE s == hand[1].sock
  <2>1. hand[1].kind = "close" /\ s \in Socks /\ hand # <<>>
    BY <1>8, HandType DEF Cleared, CallbackHand
  <2>2. hand' = <<>> /\ port' = port /\ busy' = busy
    BY <1>8 DEF Cleared, Handled
  <2>3. Pending(t, "close") = Pending(t, "close")' + One(hand[1], t, "close")
    BY <2>1, <2>2, PendingHandled
  <2>4. Pending(t, "close")' \in Nat
    <3>1. Count(port', t, "close") \in Nat /\ Count(hand', t, "close") = 0
      BY <2>2, PendingNat, CountEmpty
    <3> QED
      BY <3>1, PendingCounts
  <2>5. CASE t = s
    <3>1. One(hand[1], t, "close") = 1
      BY <2>1, <2>5 DEF One
    <3>2. m_nLinkStatus[t] = "WAITCLEAR" /\ Pending(t, "close")' = 0
      BY <1>0, <2>3, <2>4, <3>1 DEF StatusOf
    <3>3. busy[t] = {}
      BY <1>0, <3>2, NothingBusy DEF StatusOf
    <3>4. m_nLinkStatus'[t] = "UNINITIALIZE"
      BY <1>8, <2>5 DEF Cleared, Status, TypeOK
    <3> QED
      BY <2>2, <3>2, <3>3, <3>4 DEF StatusOf
  <2>6. CASE t # s
    <3>1. One(hand[1], t, "close") = 0
      BY <2>6 DEF One
    <3>2. m_nLinkStatus'[t] = m_nLinkStatus[t] /\ alive'[t] = alive[t]
      BY <1>8, <2>6 DEF Cleared, Status, TypeOK
    <3>3. Pending(t, "close")' = Pending(t, "close")
      BY <2>3, <2>4, <3>1
    <3> QED
      BY <1>13, <2>2, <3>2, <3>3, StatusKept
  <2> QED
    BY <2>5, <2>6
<1>9. ASSUME NEW s \in Socks, Connects(s) \/ Succeeds(s) PROVE StatusOf(t)'
  <2>1. /\ hand # <<>> /\ hand[1].sock = s /\ hand[1].kind \in Kinds
        /\ hand' = <<>> /\ port' = port /\ alive' = alive
        /\ Finished(s, hand[1].kind)
    BY <1>9 DEF Connects, Succeeds, Handles, Handled, Kinds
  <2>2. Pending(t, "close")' = Pending(t, "close")
    <3>1. Pending(t, "close") = Pending(t, "close")' + One(hand[1], t, "close")
      BY <2>1, PendingHandled
    <3>2. One(hand[1], t, "close") = 0
      BY <2>1 DEF One, Kinds
    <3>3. Count(port', t, "close") \in Nat /\ Count(hand', t, "close") = 0
      BY <2>1, PendingNat, CountEmpty
    <3>4. Pending(t, "close")' \in Nat
      BY <3>3, PendingCounts
    <3> QED
      BY <3>1, <3>2, <3>4
  <2>3. hand[1].kind \in busy[s]
    BY <2>1, HandBusy
  <2>4. CASE t # s
    <3>1. busy'[t] = busy[t] /\ m_nLinkStatus'[t] = m_nLinkStatus[t]
      BY <1>9, <2>1, <2>4 DEF Connects, Succeeds, Status, Finished, TypeOK
    <3> QED
      BY <1>13, <2>1, <2>2, <3>1, StatusKept
  <2>5. CASE t = s /\ Connects(s)
    <3>1. hand[1].kind = "connect"
      BY <2>5 DEF Connects, Handles
    <3>2. m_nLinkStatus[t] = "UNINITIALIZE" /\ alive[t]
      BY <1>0, <2>3, <2>5, <3>1 DEF StatusOf, TypeOK
    <3>3. busy[t] \cap {"recv", "send"} = {} /\ busy'[t] = busy[t] \ {"connect"}
      BY <1>0, <2>1, <2>5, <3>1, <3>2 DEF StatusOf, Finished, TypeOK
    <3>4. m_nLinkStatus'[t] \in {"ESTABLISHED", "UNINITIALIZE"}
      BY <2>5, <3>2 DEF Connects, Status, TypeOK
    <3> QED
      BY <1>0, <1>13, <2>1, <2>2, <3>2, <3>3, <3>4 DEF StatusOf
  <2>6. CASE t = s /\ Succeeds(s)
    <3>1. m_nLinkStatus' = m_nLinkStatus /\ busy'[t] \subseteq busy[t]
      BY <2>1, <2>6 DEF Succeeds, Finished, TypeOK
    <3> QED
      BY <1>0, <1>13, <2>1, <2>2, <3>1 DEF StatusOf
  <2> QED
    BY <1>9, <2>4, <2>5, <2>6
<1>10. ASSUME NEW s \in Socks, Fails(s) PROVE StatusOf(t)'
  <2> DEFINE b == busy[s] \ {hand[1].kind}
  <2>1. /\ hand # <<>> /\ hand[1].sock = s /\ hand[1].kind \in {"recv", "send"}
        /\ hand' = <<>> /\ alive' = alive
        /\ Finished(s, hand[1].kind) /\ CloseImlp(s, b)
    BY <1>10 DEF Fails, Handles, Handled
  <2>2. hand[1].kind \in busy[s]
    BY <2>1, HandBusy DEF Kinds
  <2>3. m_nLinkStatus[s] \in {"ESTABLISHED", "WAITCLOSE"}
    BY <2>1, <2>2 DEF StatusInv, StatusOf
  <2>4. busy'[s] = b /\ (t # s => busy'[t] = busy[t])
    BY <2>1 DEF Finished, TypeOK
  <2>5. /\ port' = Append(port, CloseMsg(s)) \/ port' = port
        /\ CloseMsg(s) \in Packets
        /\ One(CloseMsg(s), t, "close") = IF t = s THEN 1 ELSE 0
    BY <2>1, CloseImlpPort
  <2>6. One(hand[1], t, "close") = 0
    BY <2>1 DEF One
  <2>7. port' = port => Pending(t, "close")' = Pending(t, "close")
    <3> SUFFICES ASSUME port' = port PROVE Pending(t, "close")' = Pending(t, "close")
      OBVIOUS
    <3>1. Pending(t, "close") = Pending(t, "close")' + One(hand[1], t, "close")
      BY <2>1, PendingHandled
    <3>2. Count(port', t, "close") \in Nat /\ Count(hand', t, "close") = 0
      BY <2>1, PendingNat, CountEmpty
    <3>3. Pending(t, "close")' \in Nat
      BY <3>2, PendingCounts
    <3> QED
      BY <2>6, <3>1, <3>3
  <2>8. port' = Append(port, CloseMsg(s))
          => Pending(t, "close")' = Pending(t, "close") + One(CloseMsg(s), t, "close")
    <3> SUFFICES ASSUME port' = Append(port, CloseMsg(s))
                 PROVE  Pending(t, "close")' = Pending(t, "close") + One(CloseMsg(s), t, "close")
      OBVIOUS
    <3>1. Pending(t, "close") + One(CloseMsg(s), t, "close")
            = Pending(t, "close")' + One(hand[1], t, "close")
      BY <2>1, <2>5, PendingAnswered
    <3>2. port \in Seq(Packets)
      BY DEF TypeOK
    <3>3. Count(port', t, "close") = Count(port, t, "close") + One(CloseMsg(s), t, "close")
      BY <2>5, <3>2, CountAppend
    <3>4. Count(port', t, "close") \in Nat /\ Count(hand', t, "close") = 0
      BY <2>1, <2>5, <3>3, PendingNat, CountEmpty
    <3>5. Pending(t, "close")' \in Nat
      BY <3>4, PendingCounts
    <3> QED
      BY <2>6, <3>1, <3>5
  <2>9. CASE t = s
    <3>1. port' = port => Pending(s, "close")' = Pending(s, "close")
      BY <2>7, <2>9
    <3>2. port' = Append(port, CloseMsg(s)) => Pending(s, "close")' = Pending(s, "close") + 1
      BY <2>5, <2>8, <2>9
    <3> HIDE DEF b
    <3>3. b \subseteq busy[s]
      BY DEF b
    <3>4. told' = told
      BY <1>10 DEF Fails
    <3> QED
      BY <2>1, <2>3, <2>4, <2>9, <3>1, <3>2, <3>3, <3>4, StatusClosed
  <2>10. CASE t # s
    <3>1. Pending(t, "close")' = Pending(t, "close")
      BY <1>0, <2>5, <2>7, <2>8, <2>10
    <3> QED
      BY <1>13, <2>1, <2>4, <2>10, <3>1, OthersClosed, StatusKept
  <2> QED
    BY <2>9, <2>10
<1>11. ASSUME NEW s \in Socks, OnClear(s) PROVE StatusOf(t)'
  BY <1>11, PendingCounts, StatusKept DEF OnClear, sockVars
<1> QED
  BY <1>1, <1>2, <1>3, <1>4, <1>5, <1>6, <1>7, <1>8, <1>9, <1>10, <1>11, <1>12
  DEF Next, UserCall, RunOnce, Kernel

LEMMA StatusInit == Init => StatusInv
<1> SUFFICES ASSUME Init, NEW s \in Socks PROVE StatusOf(s)
  BY DEF StatusInv
<1>1. Pending(s, "close") = 0
  BY PendingCounts, CountEmpty DEF Init
<1> QED
  BY <1>1 DEF Init, StatusOf

LEMMA QuietFollows == TypeOK /\ FlagsTrue /\ StatusInv => QuietOnceCleared
<1> SUFFICES ASSUME TypeOK, FlagsTrue, StatusInv, NEW s \in Socks,
                    Pending(s, "close") > 0 \/ ~alive[s]
             PROVE  /\ kernel[s] = {}
                    /\ \A kind \in Kinds : Pending(s, kind) = 0
                    /\ Pending(s, "close") = IF alive[s] THEN 1 ELSE 0
  BY DEF QuietOnceCleared
<1>1. StatusOf(s)
  BY DEF StatusInv
<1>2. busy[s] = {}
  <2>1. CASE ~alive[s]
    BY <1>1, <2>1 DEF StatusOf
  <2>2. CASE Pending(s, "close") > 0
    <3>1. m_nLinkStatus[s] = "WAITCLEAR"
      BY <1>1, <2>2 DEF StatusOf
    <3> QED
      BY <1>1, <3>1, NothingBusy DEF StatusOf
  <2> QED
    BY <2>1, <2>2
<1>3. \A kind \in Kinds : Pending(s, kind) = 0 /\ kind \notin kernel[s]
  <2> TAKE kind \in Kinds
  <2>1. FlagTrue(s, kind) /\ Pending(s, kind) \in Nat
    BY PendingNat DEF FlagsTrue, FlagTrue
  <2> QED
    BY <1>2, <2>1 DEF FlagTrue
<1>4. kernel[s] = {}
  BY <1>3 DEF TypeOK
<1>5. Pending(s, "close") = IF alive[s] THEN 1 ELSE 0
  BY <1>1 DEF StatusOf
<1> QED
  BY <1>3, <1>4, <1>5

\* In every behaviour nothing more about a socket can arrive once the message
\* of OnClose is posted, and after the object is deleted.
THEOREM NothingAfterClear == Spec => []QuietOnceCleared
<1>1. FlagsInv => FlagsTrue
  BY DEF FlagsInv
<1> QED
  BY <1>1, TypeCorrect, FlagsInit, FlagsStep, StatusInit, StatusStep, QuietFollows, PTL DEF Spec
=============================================================================
