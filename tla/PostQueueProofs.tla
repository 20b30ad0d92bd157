-------------------------- MODULE PostQueueProofs --------------------------
(***************************************************************************)
(* Proofs about PostQueue, for any number of posting threads, any number   *)
(* of messages and any size of the socketpair.                             *)
(***************************************************************************)
EXTENDS PostQueue, SequenceTheorems, TLAPS

-----------------------------------------------------------------------------
(* Type correctness *)

\* What Push puts on m_msgs is a message.
LEMMA NewMessage ==
  ASSUME TypeOK, NEW p \in Posters, Push(p)
  PROVE  <<p, sent[p] + 1>> \in Message
<1>1. sent[p] \in 0..MaxPosts /\ sent[p] < MaxPosts
  BY DEF TypeOK, Push
<1>2. sent[p] + 1 \in 1..MaxPosts
  BY <1>1, BoundAssumption
<1> QED
  BY <1>2 DEF Message

\* Init and every step of PostMsg and of RunOnce keep the variables of
\* CIOServer in their types.
THEOREM TypeCorrect == Spec => []TypeOK
<1>1. ASSUME Init PROVE TypeOK
  <2>1. woken \in BOOLEAN
    BY <1>1, Zenon DEF Init
  <2>2. /\ m_msgs \in Seq(Message) /\ msgs \in Seq(Message)
        /\ posted \in Seq(Message) /\ delivered \in Seq(Message)
    BY <1>1, EmptySeq, Zenon DEF Init
  <2>3. /\ pc \in [Posters -> {"idle", "signal"}]
        /\ sent \in [Posters -> 0..MaxPosts]
    BY <1>1, BoundAssumption DEF Init
  <2> QED
    BY <1>1, <2>1, <2>2, <2>3, BoundAssumption DEF Init, TypeOK
<1>2. TypeOK /\ [Next]_vars => TypeOK'
  <2> SUFFICES ASSUME TypeOK, [Next]_vars PROVE TypeOK'
    OBVIOUS
  <2> USE BoundAssumption DEF TypeOK, queueVars, loopVars, histVars, LoopAt
  <2>1. ASSUME NEW p \in Posters, Push(p) PROVE TypeOK'
    <3> DEFINE m == <<p, sent[p] + 1>>
    <3>1. m \in Message
      BY <2>1, NewMessage
    <3>2. m_msgs' \in Seq(Message) /\ posted' \in Seq(Message)
      BY <2>1, <3>1 DEF Push
    <3> QED
      BY <2>1, <3>2 DEF Push
  <2>2. ASSUME NEW p \in Posters, Signal(p) PROVE TypeOK'
    BY <2>2 DEF Signal
  <2>3. CASE EpollWait
    BY <2>3 DEF EpollWait
  <2>4. CASE ThreadEvent
    BY <2>4 DEF ThreadEvent
  <2>5. CASE Return
    BY <2>5 DEF Return
  <2>6. CASE Drain
    BY <2>6 DEF Drain
  <2>7. CASE Swap
    BY <2>7 DEF Swap
  <2>8. CASE Dispatch
    BY <2>8 DEF Dispatch
  <2>9. CASE CallbackReturns
    BY <2>9 DEF CallbackReturns
  <2>10. CASE BatchDone
    BY <2>10 DEF BatchDone
  <2>11. CASE UNCHANGED vars
    BY <2>11 DEF vars
  <2> QED
    BY <2>1, <2>2, <2>3, <2>4, <2>5, <2>6, <2>7, <2>8, <2>9, <2>10, <2>11
    DEF Next, RunOnce
<1> QED
  BY <1>1, <1>2, PTL DEF Spec

-----------------------------------------------------------------------------
(* No lost wakeup *)

\* Between the push and the byte of PostMsg, and between the drain and the
\* swap of RunOnce, somebody always still owes m_msgs a look.
THEOREM WakeupNeverLost == Spec => []NoLostWakeup
<1>1. Init => NoLostWakeup
  BY DEF Init, NoLostWakeup
<1>2. TypeOK /\ NoLostWakeup /\ [Next]_vars => NoLostWakeup'
  <2> SUFFICES ASSUME TypeOK, NoLostWakeup, [Next]_vars PROVE NoLostWakeup'
    OBVIOUS
  <2> USE BoundAssumption
      DEF TypeOK, NoLostWakeup, queueVars, loopVars, histVars, LoopAt
  <2>1. ASSUME NEW p \in Posters, Push(p) PROVE NoLostWakeup'
    BY <2>1 DEF Push
  <2>2. ASSUME NEW p \in Posters, Signal(p) PROVE NoLostWakeup'
    BY <2>2 DEF Signal
  <2>3. CASE EpollWait
    BY <2>3 DEF EpollWait
  <2>4. CASE ThreadEvent
    BY <2>4 DEF ThreadEvent
  <2>5. CASE Return
    BY <2>5 DEF Return
  <2>6. CASE Drain
    BY <2>6 DEF Drain
  <2>7. CASE Swap
    BY <2>7 DEF Swap
  <2>8. CASE Dispatch
    BY <2>8 DEF Dispatch
  <2>9. CASE CallbackReturns
    BY <2>9 DEF CallbackReturns
  <2>10. CASE BatchDone
    BY <2>10 DEF BatchDone
  <2>11. CASE UNCHANGED vars
    BY <2>11 DEF vars
  <2> QED
    BY <2>1, <2>2, <2>3, <2>4, <2>5, <2>6, <2>7, <2>8, <2>9, <2>10, <2>11
    DEF Next, RunOnce
<1> QED
  BY <1>1, <1>2, TypeCorrect, PTL DEF Spec
-----------------------------------------------------------------------------
(* What was posted is what was delivered *)

\* Accounted and Deferred are not inductive.  The swap overwrites the batch:
\* it loses nothing because the batch is empty outside of the dispatch.  And
\* the mark of the last swap bounds the batch as well as what it delivered.
BatchInv ==
    /\ lpc \notin {"dispatch", "callback"} => msgs = <<>>
    /\ Len(delivered) + Len(msgs) <= mark
    /\ mark <= Len(posted)

AccountInv == Accounted /\ BatchInv

\* Taking the head of the middle of three sequences to the end of the first.
LEMMA MoveHead ==
  ASSUME NEW S, NEW s \in Seq(S), NEW t \in Seq(S), NEW u \in Seq(S), t /= <<>>
  PROVE  s \o t \o u = Append(s, Head(t)) \o Tail(t) \o u
<1>1. Len(s) + Len(t) = Len(Append(s, Head(t))) + Len(Tail(t))
  BY HeadTailProperties
<1>2. s \o t = Append(s, Head(t)) \o Tail(t)
  <2> DEFINE lhs == s \o t
             rhs == Append(s, Head(t)) \o Tail(t)
  <2>1. lhs \in Seq(S) /\ rhs \in Seq(S)
    BY HeadTailProperties
  <2>2. Len(lhs) = Len(rhs)
    BY HeadTailProperties
  <2>3. ASSUME NEW i \in 1..Len(lhs) PROVE lhs[i] = rhs[i]
    BY HeadTailProperties
  <2> HIDE DEF lhs, rhs
  <2>4. lhs = rhs
    BY <2>1, <2>2, <2>3, SeqEqual
  <2> QED
    BY <2>4 DEF lhs, rhs
<1> QED
  BY <1>2

LEMMA AccountStep == TypeOK /\ AccountInv /\ [Next]_vars => AccountInv'
<1> SUFFICES ASSUME TypeOK, AccountInv, [Next]_vars PROVE AccountInv'
  OBVIOUS
<1> USE DEF AccountInv, BatchInv, queueVars, loopVars, histVars, LoopAt
<1>t. /\ m_msgs \in Seq(Message) /\ msgs \in Seq(Message)
      /\ posted \in Seq(Message) /\ delivered \in Seq(Message)
      /\ mark \in Nat
  BY DEF TypeOK
<1>1. ASSUME NEW p \in Posters, Push(p) PROVE AccountInv'
  <2>1. PICK m \in Message : m_msgs' = Append(m_msgs, m) /\ posted' = Append(posted, m)
    BY <1>1, NewMessage DEF Push
  <2>2. UNCHANGED <<lpc, msgs, delivered, mark>>
    BY <1>1 DEF Push
  <2>3. delivered \o msgs \o Append(m_msgs, m)
           = Append(delivered \o msgs \o m_msgs, m)
    BY ONLY <1>t, m \in Message
  <2>4. Accounted'
    BY <2>1, <2>2, <2>3, Zenon DEF Accounted
  <2>5. BatchInv'
    BY <1>t, <2>1, <2>2
  <2> QED
    BY <2>4, <2>5
<1>2. ASSUME NEW p \in Posters, Signal(p) PROVE AccountInv'
  BY <1>2 DEF Signal, Accounted
<1>3. CASE EpollWait
  BY <1>3 DEF EpollWait, Accounted
<1>4. CASE ThreadEvent
  BY <1>4 DEF ThreadEvent, Accounted
<1>5. CASE Return
  BY <1>5 DEF Return, Accounted
<1>6. CASE Drain
  BY <1>6 DEF Drain, Accounted
<1>7. CASE Swap
  <2>1. /\ msgs = <<>> /\ msgs' = m_msgs /\ m_msgs' = <<>>
        /\ delivered' = delivered /\ posted' = posted /\ mark' = Len(posted)
        /\ lpc' = "dispatch"
    BY <1>7 DEF Swap
  <2>2. posted = delivered \o m_msgs
    BY <1>t, <2>1, ConcatEmptySeq DEF Accounted
  <2>3. Accounted'
    <3>1. delivered \o m_msgs \in Seq(Message)
      BY <1>t
    <3>2. (delivered \o m_msgs) \o <<>> = delivered \o m_msgs
      BY <3>1, ConcatEmptySeq
    <3> QED
      BY <2>1, <2>2, <3>2 DEF Accounted
  <2>4. Len(posted) = Len(delivered) + Len(m_msgs)
    BY <1>t, <2>2
  <2> QED
    BY <1>t, <2>1, <2>3, <2>4
<1>8. CASE Dispatch
  <2>1. /\ msgs /= <<>> /\ delivered' = Append(delivered, Head(msgs))
        /\ msgs' = Tail(msgs) /\ m_msgs' = m_msgs /\ posted' = posted
        /\ mark' = mark /\ lpc' = "callback"
    BY <1>8 DEF Dispatch
  <2>2. Accounted'
    BY <1>t, <2>1, MoveHead DEF Accounted
  <2>3. BatchInv'
    BY <1>t, <2>1, HeadTailProperties
  <2> QED
    BY <2>2, <2>3
<1>9. CASE CallbackReturns
  BY <1>9 DEF CallbackReturns, Accounted
<1>10. CASE BatchDone
  BY <1>10 DEF BatchDone, Accounted
<1>11. CASE UNCHANGED vars
  BY <1>11 DEF vars, Accounted
<1> QED
  BY <1>1, <1>2, <1>3, <1>4, <1>5, <1>6, <1>7, <1>8, <1>9, <1>10, <1>11
  DEF Next, RunOnce

LEMMA AccountInvariant == Spec => []AccountInv
<1>1. Init => AccountInv
  BY EmptySeq, ConcatEmptySeq DEF Init, AccountInv, Accounted, BatchInv
<1> QED
  BY <1>1, AccountStep, TypeCorrect, PTL DEF Spec

\* The swap of RunOnce and its batch lose, repeat and reorder no message.
THEOREM NothingLost == Spec => []Accounted
BY AccountInvariant, PTL DEF AccountInv

\* A callback's own message waits for the next batch.
THEOREM NeverReentrant == Spec => []Deferred
<1>1. TypeOK /\ AccountInv => Deferred
  BY DEF TypeOK, AccountInv, BatchInv, Deferred
<1> QED
  BY <1>1, AccountInvariant, TypeCorrect, PTL

-----------------------------------------------------------------------------
(* Order per poster, and the abstract channel *)

\* The delivered messages are a prefix of the posted ones, and the head of the
\* batch is the first one that is missing.
LEMMA Prefix ==
  ASSUME TypeOK, Accounted
  PROVE  /\ Len(delivered) <= Len(posted)
         /\ \A i \in 1..Len(delivered) : delivered[i] = posted[i]
         /\ msgs /= <<>> => /\ Len(delivered) < Len(posted)
                            /\ Head(msgs) = posted[Len(delivered) + 1]
<1>1. /\ m_msgs \in Seq(Message) /\ msgs \in Seq(Message)
      /\ delivered \in Seq(Message)
  BY DEF TypeOK
<1>2. posted = delivered \o msgs \o m_msgs
  BY DEF Accounted
<1> QED
  BY ONLY <1>1, <1>2

\* Every message is numbered by the counter of its thread, and m_msglock
\* orders the messages of one thread by their numbers.
PostedInOrder ==
    /\ \A i \in 1..Len(posted) : posted[i][2] <= sent[posted[i][1]]
    /\ \A i, j \in 1..Len(posted) :
            i < j /\ posted[i][1] = posted[j][1] => posted[i][2] < posted[j][2]

LEMMA PostedInOrderInvariant == Spec => []PostedInOrder
<1>1. Init => PostedInOrder
  BY EmptySeq DEF Init, PostedInOrder
<1>2. TypeOK /\ PostedInOrder /\ [Next]_vars => PostedInOrder'
  <2> SUFFICES ASSUME TypeOK, PostedInOrder, [Next]_vars PROVE PostedInOrder'
    OBVIOUS
  <2>1. ASSUME NEW p \in Posters, Push(p) PROVE PostedInOrder'
    <3> DEFINE n == sent[p] + 1
               L == Len(posted)
    <3>1. /\ posted \in Seq(Message) /\ sent \in [Posters -> 0..MaxPosts]
          /\ <<p, n>> \in Message
          /\ posted' = Append(posted, <<p, n>>)
          /\ sent' = [sent EXCEPT ![p] = n]
      BY <2>1, NewMessage DEF Push, TypeOK
    <3>2. /\ L \in Nat
          /\ Len(posted') = L + 1 /\ posted'[L + 1] = <<p, n>>
          /\ \A i \in 1..L : posted'[i] = posted[i]
      BY <3>1
    <3>3. \A i \in 1..L : posted[i][1] \in Posters /\ posted[i][2] \in Nat
      BY <3>1, BoundAssumption DEF Message
    <3>4. \A q \in Posters : sent[q] \in Nat /\ sent'[q] = IF q = p THEN n ELSE sent[q]
      BY <3>1, BoundAssumption
    <3>5. \A i \in 1..L : posted[i][2] <= sent'[posted[i][1]]
      BY <3>3, <3>4 DEF PostedInOrder
    <3>6. \A i \in 1..L : posted[i][1] = p => posted[i][2] < n
      BY <3>3, <3>4 DEF PostedInOrder
    <3>7. \A i \in 1..(L + 1) : posted'[i][2] <= sent'[posted'[i][1]]
      <4> TAKE i \in 1..(L + 1)
      <4>1. CASE i \in 1..L
        BY <4>1, <3>2, <3>5
      <4>2. CASE i = L + 1
        BY <4>2, <3>2, <3>4
      <4> QED
        BY <4>1, <4>2, <3>2
    <3>8. \A i, j \in 1..(L + 1) :
             i < j /\ posted'[i][1] = posted'[j][1] => posted'[i][2] < posted'[j][2]
      <4> SUFFICES ASSUME NEW i \in 1..(L + 1), NEW j \in 1..(L + 1), i < j,
                          posted'[i][1] = posted'[j][1]
                   PROVE  posted'[i][2] < posted'[j][2]
        OBVIOUS
      <4>1. i \in 1..L
        BY <3>2
      <4>2. CASE j \in 1..L
        BY <4>1, <4>2, <3>2 DEF PostedInOrder
      <4>3. CASE j = L + 1
        BY <4>1, <4>3, <3>2, <3>6
      <4> QED
        BY <4>2, <4>3, <3>2
    <3> QED
      BY <3>2, <3>7, <3>8 DEF PostedInOrder
  <2>2. CASE UNCHANGED <<sent, posted>>
    BY <2>2 DEF PostedInOrder
  <2> QED
    BY <2>1, <2>2
    DEF Next, RunOnce, Signal, EpollWait, ThreadEvent, Return, Drain, Swap,
        Dispatch, CallbackReturns, BatchDone, vars, histVars
<1> QED
  BY <1>1, <1>2, TypeCorrect, PTL DEF Spec

\* Post keeps the order of each thread all the way to the callbacks.
THEOREM OrderKept == Spec => []FifoPerPoster
<1>1. TypeOK /\ Accounted /\ PostedInOrder => FifoPerPoster
  <2> SUFFICES ASSUME TypeOK, Accounted, PostedInOrder,
                      NEW i \in 1..Len(delivered), NEW j \in 1..Len(delivered),
                      i < j, delivered[i][1] = delivered[j][1]
               PROVE  delivered[i][2] < delivered[j][2]
    BY DEF FifoPerPoster
  <2>1. Len(delivered) \in Nat /\ Len(posted) \in Nat
    BY DEF TypeOK
  <2>2. /\ delivered[i] = posted[i] /\ delivered[j] = posted[j]
        /\ i \in 1..Len(posted) /\ j \in 1..Len(posted)
    BY <2>1, Prefix
  <2> QED
    BY <2>2 DEF PostedInOrder
<1> QED
  BY <1>1, TypeCorrect, NothingLost, PostedInOrderInvariant, PTL

\* PostMsg and RunOnce implement AsyncChannel (its safety part): the push under
\* the lock is Channel!Post, the dispatch of one message is Channel!Deliver,
\* and every other step is invisible.
THEOREM QueueImplementsChannel ==
  Spec => Channel!Init /\ [][Channel!Next]_(Channel!vars)
<1>1. Init => Channel!Init
  BY DEF Init, Channel!Init
<1>2. TypeOK /\ Accounted /\ [Next]_vars => [Channel!Next]_(Channel!vars)
  <2> SUFFICES ASSUME TypeOK, Accounted, [Next]_vars
               PROVE  [Channel!Next]_(Channel!vars)
    OBVIOUS
  <2>1. ASSUME NEW p \in Posters, Push(p) PROVE Channel!Post(p)
    BY <2>1 DEF Push, Channel!Post
  <2>2. CASE Dispatch
    <3>1. /\ Len(delivered) < Len(posted)
          /\ Head(msgs) = posted[Len(delivered) + 1]
      BY <2>2, Prefix DEF Dispatch
    <3> QED
      BY <2>2, <3>1 DEF Dispatch, Channel!Next, Channel!Deliver
  <2>3. CASE UNCHANGED <<sent, posted, delivered>>
    BY <2>3 DEF Channel!vars
  <2> QED
    BY <2>1, <2>2, <2>3
    DEF Next, RunOnce, Signal, EpollWait, ThreadEvent, Return, Drain, Swap,
        CallbackReturns, BatchDone, vars, histVars, Channel!Next
<1> QED
  BY <1>1, <1>2, TypeCorrect, NothingLost, PTL DEF Spec

=============================================================================
