-------------------------- MODULE TimerQueueProofs --------------------------
(***************************************************************************)
(* Proofs about TimerQueue, for any threads, delays, sequence size, number *)
(* of timers and end of the clock.                                         *)
(***************************************************************************)
EXTENDS TimerQueue, TLAPS

-----------------------------------------------------------------------------
(* Type correctness *)

\* Init and every step of CreateTimer, CancelTimer, CheckTimer and the clock
\* keep the timer state in its types.
THEOREM TypeCorrect == Spec => []TypeOK
<1> USE BoundAssumption DEF TypeOK, Never
<1>1. ASSUME Init PROVE TypeOK
  <2>1. call \in [Callers -> Call]
    BY <1>1 DEF Init, NoCall, Call
  <2>2. id \in [Timers -> TimerId]
    BY <1>1 DEF Init, NoId, TimerId
  <2> QED
    BY <1>1, <2>1, <2>2 DEF Init
<1>2. TypeOK /\ [Next]_vars => TypeOK'
  <2> SUFFICES ASSUME TypeOK, [Next]_vars PROVE TypeOK'
    OBVIOUS
  <2> USE DEF timerVars, loopVars, idVars, histVars, LoopAt, Timers
  <2>1. CASE Tick
    BY <2>1 DEF Tick
  <2>2. ASSUME NEW p \in Callers, NEW d \in Delays, CallCreateTimer(p, d)
        PROVE  TypeOK'
    <3>1. [inside |-> TRUE, now |-> now, expire |-> now + d] \in Call
      BY <2>2 DEF CallCreateTimer, Call
    <3> QED
      BY <2>2, <3>1 DEF CallCreateTimer
  <2>3. ASSUME NEW p \in Callers, InsertTimer(p) PROVE TypeOK'
    <3>1. NextSeq \in 0..(SeqMod - 1)
      BY DEF NextSeq
    <3>2. call[p].now \in 0..MaxTime /\ call[p].expire \in 0..MaxTime
      BY DEF Call
    <3>3. created + 1 \in 1..MaxTimers
      BY <2>3 DEF InsertTimer
    <3>4. /\ m_queTimer' \subseteq Timers /\ lost' \subseteq Timers
          /\ raised' \subseteq Timers /\ created' \in 0..MaxTimers
      BY <2>3, <3>3 DEF InsertTimer
    <3>5. id' \in [Timers -> TimerId]
      <4>1. <<call[p].expire, NextSeq>> \in TimerId
        BY <3>1, <3>2 DEF TimerId
      <4> QED
        BY <2>3, <3>3, <4>1 DEF InsertTimer
    <3>6. call' \in [Callers -> Call]
      <4>1. NoCall \in Call
        BY DEF NoCall, Call
      <4> QED
        BY <2>3, <4>1 DEF InsertTimer
    <3>7. m_nextExpire' \in 0..(MaxTime + 1)
      BY <2>3, <3>2 DEF InsertTimer
    <3> QED
      BY <2>3, <3>1, <3>4, <3>5, <3>6, <3>7 DEF InsertTimer
  <2>4. ASSUME NEW p \in Callers, NEW n \in Timers, CancelTimer(p, n) PROVE TypeOK'
    BY <2>4 DEF CancelTimer
  <2>5. CASE EnterCheckTimer
    BY <2>5 DEF EnterCheckTimer
  <2>6. CASE ReadNextExpire
    BY <2>6 DEF ReadNextExpire
  <2>7. CASE Collect
    BY <2>7 DEF Collect
  <2>8. CASE Fire
    BY <2>8 DEF Fire
  <2>9. CASE OnTimerReturns
    BY <2>9 DEF OnTimerReturns
  <2>10. CASE LeaveCheckTimer
    BY <2>10 DEF LeaveCheckTimer
  <2>11. CASE UNCHANGED vars
    BY <2>11 DEF vars
  <2> QED
    BY <2>1, <2>2, <2>3, <2>4, <2>5, <2>6, <2>7, <2>8, <2>9, <2>10, <2>11
    DEF Next, CheckTimer
<1> QED
  BY <1>1, <1>2, PTL DEF Spec

-----------------------------------------------------------------------------
(* No timer fires early *)

\* CheckTimer's clock is never ahead, so what it collects is due.
EarlyInv ==
    /\ nowMs <= now
    /\ \A n \in fired \cup allexpire : n <= created
    /\ m_queTimer \subseteq 1..created
    /\ NeverEarly

LEMMA EarlyInvariant == Spec => []EarlyInv
<1> USE BoundAssumption DEF EarlyInv, NeverEarly, Expire
<1>1. Init => EarlyInv
  BY DEF Init
<1>2. TypeOK /\ EarlyInv /\ [Next]_vars => EarlyInv'
  <2> SUFFICES ASSUME TypeOK, EarlyInv, [Next]_vars PROVE EarlyInv'
    OBVIOUS
  <2> USE DEF timerVars, loopVars, idVars, histVars, LoopAt, Timers
  <2>t. /\ now \in 0..MaxTime /\ nowMs \in 0..MaxTime /\ created \in 0..MaxTimers
        /\ fired \cup allexpire \subseteq 1..MaxTimers
        /\ \A n \in 1..MaxTimers : id[n][1] \in 0..MaxTime
        /\ id \in [1..MaxTimers -> TimerId]
    BY DEF TypeOK, TimerId
  <2>1. CASE Tick
    BY <2>t, <2>1 DEF Tick
  <2>2. ASSUME NEW p \in Callers, NEW d \in Delays, CallCreateTimer(p, d)
        PROVE  EarlyInv'
    BY <2>2 DEF CallCreateTimer
  <2>3. ASSUME NEW p \in Callers, InsertTimer(p) PROVE EarlyInv'
    <3>1. /\ created' = created + 1
          /\ \A n \in fired \cup allexpire : id'[n] = id[n]
          /\ UNCHANGED <<now, nowMs, fired, allexpire>>
      BY <2>3, <2>t DEF InsertTimer
    <3>2. m_queTimer' \subseteq 1..created'
      BY <2>3, <2>t DEF InsertTimer
    <3> QED
      BY <2>t, <3>1, <3>2
  <2>4. ASSUME NEW p \in Callers, NEW n \in Timers, CancelTimer(p, n) PROVE EarlyInv'
    BY <2>4 DEF CancelTimer
  <2>5. CASE EnterCheckTimer
    BY <2>t, <2>5 DEF EnterCheckTimer
  <2>6. CASE ReadNextExpire
    BY <2>6 DEF ReadNextExpire
  <2>7. CASE Collect
    <3>1. /\ allexpire' = {t \in m_queTimer : id[t][1] <= nowMs}
          /\ m_queTimer' \subseteq m_queTimer
          /\ UNCHANGED <<now, nowMs, id, created, fired>>
      BY <2>7 DEF Collect, Due
    <3>2. \A t \in allexpire' : t \in 1..created /\ t \in 1..MaxTimers /\ id[t][1] <= now
      BY <3>1, <2>t
    <3>3. \A t \in fired : t <= created /\ id[t][1] <= now
      OBVIOUS
    <3>4. NeverEarly'
      BY <3>1, <3>2, <3>3
    <3>5. \A n \in fired' \cup allexpire' : n <= created'
      <4>1. /\ \A t \in allexpire' : t <= created
            /\ fired' = fired /\ created' = created
        BY <2>t, <3>1, <3>2
      <4> QED
        BY ONLY <4>1, <3>3
    <3>6. nowMs' <= now' /\ m_queTimer' \subseteq 1..created'
      BY <3>1
    <3> QED
      BY <3>4, <3>5, <3>6
  <2>8. CASE Fire
    BY <2>8 DEF Fire
  <2>9. CASE OnTimerReturns
    BY <2>9 DEF OnTimerReturns
  <2>10. CASE LeaveCheckTimer
    BY <2>10 DEF LeaveCheckTimer
  <2>11. CASE UNCHANGED vars
    BY <2>11 DEF vars
  <2> QED
    BY <2>1, <2>2, <2>3, <2>4, <2>5, <2>6, <2>7, <2>8, <2>9, <2>10, <2>11
    DEF Next, CheckTimer
<1> QED
  BY <1>1, <1>2, TypeCorrect, PTL DEF Spec

\* OnTimer runs no sooner than the delay given to CreateTimer.
THEOREM NoTimerEarly == Spec => []NeverEarly
<1>1. EarlyInv => NeverEarly
  BY DEF EarlyInv
<1> QED
  BY <1>1, EarlyInvariant, PTL

-----------------------------------------------------------------------------
(* No timer is lost *)

\* The batch is empty outside the last loop of CheckTimer: Collect overwrites it.
BatchEmpty == lpc \notin {"fire", "callback"} => allexpire = {}

LEMMA BatchEmptyInvariant == Spec => []BatchEmpty
<1>1. Init => BatchEmpty
  BY DEF Init, BatchEmpty
<1>2. BatchEmpty /\ [Next]_vars => BatchEmpty'
  BY DEF BatchEmpty, Next, CheckTimer, Tick, CallCreateTimer, InsertTimer, CancelTimer,
         EnterCheckTimer, ReadNextExpire, Collect, Fire, OnTimerReturns, LeaveCheckTimer,
         LoopAt, vars, loopVars, histVars, idVars, timerVars
<1> QED
  BY <1>1, <1>2, PTL DEF Spec

\* IDs are given once, so that IDs that are distinct were always distinct.
LEMMA DistinctBefore ==
  ASSUME TypeOK, [Next]_vars, IdsDistinct'
  PROVE  IdsDistinct
<1>1. /\ created \in 0..MaxTimers /\ MaxTimers \in Nat
      /\ id \in [1..MaxTimers -> TimerId]
  BY BoundAssumption DEF TypeOK, Timers
<1>2. CASE UNCHANGED <<id, created>>
  BY <1>2 DEF IdsDistinct
<1>3. ASSUME NEW p \in Callers, InsertTimer(p) PROVE IdsDistinct
  <2>1. created' = created + 1
    BY <1>3 DEF InsertTimer
  <2>2. \A n \in 1..created : id'[n] = id[n] /\ n \in 1..created'
    BY <1>1, <1>3, <2>1 DEF InsertTimer
  <2> QED
    BY <2>2 DEF IdsDistinct
<1> QED
  BY <1>2, <1>3
  DEF Next, CheckTimer, Tick, CallCreateTimer, EnterCheckTimer, ReadNextExpire,
      Collect, Fire, OnTimerReturns, LeaveCheckTimer, CancelTimer, vars, idVars

LEMMA ConservedStep ==
  ASSUME TypeOK, BatchEmpty, TimersAccounted, [Next]_vars
  PROVE  TimersAccounted'
<1> DEFINE Kept == OnePlaceEach /\ refused \subseteq allexpire \cup fired \cup cancelled
<1> SUFFICES ASSUME IdsDistinct' PROVE Kept'
  BY DEF TimersAccounted, Conserved, RefusedIsGone
<1>k. Kept /\ IdsDistinct
  BY DistinctBefore DEF TimersAccounted, Conserved, RefusedIsGone
<1> USE DEF OnePlaceEach, timerVars, loopVars, idVars, histVars, LoopAt
<1>t. /\ created \in 0..MaxTimers /\ MaxTimers \in Nat
      /\ id \in [1..MaxTimers -> TimerId]
  BY BoundAssumption DEF TypeOK, Timers
<1>1. CASE UNCHANGED <<m_queTimer, allexpire, idVars, histVars>>
  BY <1>1, <1>k
<1>2. ASSUME NEW p \in Callers, InsertTimer(p) PROVE Kept'
  <2> DEFINE n == created + 1
             key == <<call[p].expire, NextSeq>>
  <2>1. /\ created < MaxTimers
        /\ id' = [id EXCEPT ![n] = key] /\ created' = n
        /\ UNCHANGED <<allexpire, fired, cancelled, refused>>
    BY <1>2 DEF InsertTimer
  <2>2. 1..created' = (1..created) \cup {n} /\ n \notin 1..created
    BY <2>1, <1>t
  <2>3. ~ \E t \in m_queTimer : id[t] = key
    <3>1. \A t \in m_queTimer : t \in 1..created
      BY <1>k
    <3>2. id'[n] = key /\ \A t \in 1..created : id'[t] = id[t]
      BY <2>1, <1>t
    <3>3. n \in 1..created' /\ \A t \in 1..created : t \in 1..created' /\ t /= n
      BY <2>2
    <3> HIDE DEF n, key
    <3> QED
      BY <3>1, <3>2, <3>3 DEF IdsDistinct
  <2>4. m_queTimer' = m_queTimer \cup {n} /\ lost' = lost
    BY <1>2, <2>3 DEF InsertTimer
  <2> QED
    BY <1>k, <2>1, <2>2, <2>4
<1>3. ASSUME NEW p \in Callers, NEW n \in Timers, CancelTimer(p, n)
      PROVE  Kept'
  <2> DEFINE found == {t \in m_queTimer : id[t] = id[n]}
  <2>1. /\ n \in 1..created
        /\ m_queTimer' = m_queTimer \ found
        /\ cancelled' = IF found /= {} THEN cancelled \cup {n} ELSE cancelled
        /\ refused' = IF found = {} THEN refused \cup {n} ELSE refused
        /\ UNCHANGED <<allexpire, id, created, lost, fired>>
    BY <1>3, <1>t DEF CancelTimer, Timers
  <2>2. \A t \in m_queTimer : t \in 1..created
    BY <1>k
  <2>3. \A t \in m_queTimer : id[t] = id[n] => t = n
    BY <1>k, <2>1, <2>2 DEF IdsDistinct
  <2>4. found = m_queTimer \cap {n}
    BY <2>3
  <2> HIDE DEF found
  <2>5. CASE n \in m_queTimer
    BY <1>k, <2>1, <2>4, <2>5
  <2>6. CASE n \notin m_queTimer
    BY <1>k, <2>1, <2>4, <2>6
  <2> QED
    BY <2>5, <2>6
<1>4. CASE Collect
  <2>1. /\ m_queTimer = m_queTimer' \cup allexpire'
        /\ m_queTimer' \cap allexpire' = {}
        /\ UNCHANGED <<idVars, histVars>>
    BY <1>4 DEF Collect
  <2>2. allexpire = {}
    BY <1>4 DEF Collect, BatchEmpty
  <2> QED
    BY <1>k, <2>1, <2>2
<1>5. CASE Fire
  <2>1. PICK n \in allexpire : allexpire' = allexpire \ {n} /\ fired' = fired \cup {n}
    BY <1>5 DEF Fire
  <2>2. UNCHANGED <<timerVars, idVars, cancelled, refused>>
    BY <1>5 DEF Fire
  <2> QED
    BY <1>k, <2>1, <2>2
<1> QED
  BY <1>1, <1>2, <1>3, <1>4, <1>5
  DEF Next, CheckTimer, Tick, CallCreateTimer, EnterCheckTimer, ReadNextExpire,
      OnTimerReturns, LeaveCheckTimer, vars

\* Every timer is accounted for, in its place and to its creator.
THEOREM AllAccounted == Spec => []TimersAccounted
<1>1. Init => TimersAccounted
  BY DEF Init, TimersAccounted, Conserved, OnePlaceEach, RefusedIsGone
<1>2. TypeOK /\ BatchEmpty /\ TimersAccounted /\ [Next]_vars => TimersAccounted'
  BY ConservedStep
<1> QED
  BY <1>1, <1>2, TypeCorrect, BatchEmptyInvariant, PTL DEF Spec

\* As long as CreateTimer has given no ID twice, every timer is in one place:
\* queued, in the batch, fired, or cancelled.
THEOREM TimersConserved == Spec => []Conserved
<1>1. TimersAccounted => Conserved
  BY DEF TimersAccounted
<1> QED
  BY <1>1, AllAccounted, PTL

\* So long CancelTimer never says "gone" of a queued timer.
THEOREM RefusalIsHonest == Spec => []RefusedIsGone
<1>1. TimersAccounted => RefusedIsGone
  BY DEF TimersAccounted
<1> QED
  BY <1>1, AllAccounted, PTL

-----------------------------------------------------------------------------
(* When two timers get the same ID *)

\* m_queSeq is the sequence part of a recent timer n and the created - n
\* increments since, less one wrap at most.
SeqInv ==
    \A n \in 1..created :
        created - n < SeqMod =>
            \/ m_queSeq = id[n][2] + (created - n)
            \/ m_queSeq + SeqMod = id[n][2] + (created - n)

\* Timers less than SeqMod creations apart differ in their sequence parts.
CloseDiffer ==
    \A m, n \in 1..created : m < n /\ n - m < SeqMod => id[m][2] /= id[n][2]

WrapInv ==
    /\ SeqInv
    /\ CloseDiffer
    /\ lost \subseteq 1..created
    /\ LostOnlyAfterWrap

\* The sequence part that CreateTimer makes differs from those of the SeqMod - 1
\* timers before.
LEMMA FreshSeq ==
  ASSUME TypeOK, SeqInv, created < MaxTimers,
         NEW n \in 1..created, (created + 1) - n < SeqMod
  PROVE  /\ id[n][2] /= NextSeq
         /\ \/ NextSeq = id[n][2] + ((created + 1) - n)
            \/ NextSeq + SeqMod = id[n][2] + ((created + 1) - n)
<1>1. /\ created \in Nat /\ SeqMod \in Nat \ {0}
      /\ id[n][2] \in Nat /\ id[n][2] < SeqMod
      /\ m_queSeq \in Nat /\ m_queSeq < SeqMod
  BY BoundAssumption DEF TypeOK, TimerId, Timers
<1>2. \/ m_queSeq = id[n][2] + (created - n)
      \/ m_queSeq + SeqMod = id[n][2] + (created - n)
  BY <1>1 DEF SeqInv
<1>3. CASE m_queSeq + 1 = SeqMod
  BY ONLY <1>1, <1>2, <1>3, n \in 1..created, (created + 1) - n < SeqMod DEF NextSeq
<1>4. CASE m_queSeq + 1 /= SeqMod
  BY ONLY <1>1, <1>2, <1>4, n \in 1..created, (created + 1) - n < SeqMod DEF NextSeq
<1> QED
  BY <1>3, <1>4

LEMMA WrapStep ==
  ASSUME TypeOK, EarlyInv, WrapInv, [Next]_vars
  PROVE  WrapInv'
<1> USE DEF WrapInv
<1>t. /\ created \in 0..MaxTimers /\ MaxTimers \in Nat
      /\ id \in [1..MaxTimers -> TimerId] /\ SeqMod \in Nat \ {0}
  BY BoundAssumption DEF TypeOK, Timers
<1>1. CASE UNCHANGED <<m_queSeq, idVars>>
  BY <1>1 DEF SeqInv, CloseDiffer, LostOnlyAfterWrap, idVars
<1>2. ASSUME NEW p \in Callers, InsertTimer(p) PROVE WrapInv'
  <2> DEFINE new == created + 1
             key == <<call[p].expire, NextSeq>>
  <2>1. /\ created < MaxTimers
        /\ id' = [id EXCEPT ![new] = key] /\ created' = new
        /\ m_queSeq' = NextSeq
        /\ \/ lost' = lost
           \/ lost' = lost \cup {new} /\ \E t \in m_queTimer : id[t] = key
    BY <1>2 DEF InsertTimer
  <2>2. 1..created' = (1..created) \cup {new} /\ new \notin 1..created
    BY <1>t, <2>1
  <2>3. /\ \A m \in 1..created : id'[m] = id[m]
        /\ id'[new] = key /\ id'[new][2] = NextSeq
    BY <1>t, <2>1
  <2>4. /\ new \in Nat /\ \A m \in 1..created : m < new /\ m \in Nat
        /\ NextSeq = NextSeq + (new - new)
    BY <1>t, BoundAssumption DEF NextSeq, TypeOK
  <2>5. \A m \in 1..created : new - m < SeqMod =>
            /\ id[m][2] /= NextSeq
            /\ \/ NextSeq = id[m][2] + (new - m)
               \/ NextSeq + SeqMod = id[m][2] + (new - m)
    BY <2>1, FreshSeq
  <2>6. \A t \in m_queTimer : t \in 1..created
    BY DEF EarlyInv
  <2>7. ASSUME NEW t \in 1..created, id[t] = key PROVE new - t >= SeqMod
    <3>1. id[t][2] = NextSeq
      BY <2>7
    <3> HIDE DEF key
    <3> QED
      BY <1>t, <2>4, <2>5, <3>1
  <2> HIDE DEF new, key
  <2>8. SeqInv'
    BY <2>1, <2>2, <2>3, <2>4, <2>5 DEF SeqInv
  <2>9. CloseDiffer'
    BY <2>2, <2>3, <2>4, <2>5 DEF CloseDiffer
  <2>10. (lost \subseteq 1..created)'
    BY <2>1, <2>2
  <2>11. LostOnlyAfterWrap'
    <3> SUFFICES ASSUME NEW n \in lost'
                 PROVE  \E m \in 1..(n - 1) : id'[m] = id'[n] /\ n - m >= SeqMod
      BY DEF LostOnlyAfterWrap
    <3>1. CASE n \in lost
      <4>1. n \in 1..created
        BY <3>1
      <4>2. PICK m \in 1..(n - 1) : id[m] = id[n] /\ n - m >= SeqMod
        BY <3>1 DEF LostOnlyAfterWrap
      <4>3. m \in 1..created
        BY <1>t, <4>1
      <4> QED
        BY <2>3, <4>1, <4>2, <4>3
    <3>2. CASE n \notin lost
      <4>1. n = new
        BY <2>1, <3>2
      <4>2. PICK t \in 1..created : id[t] = key
        BY <2>1, <2>6, <3>2
      <4>3. t \in 1..(new - 1)
        BY <1>t, <2>4
      <4> QED
        BY <2>3, <2>7, <4>1, <4>2, <4>3
    <3> QED
      BY <3>1, <3>2
  <2> QED
    BY <2>8, <2>9, <2>10, <2>11
<1> QED
  BY <1>1, <1>2
  DEF Next, CheckTimer, Tick, CallCreateTimer, EnterCheckTimer, ReadNextExpire,
      Collect, Fire, OnTimerReturns, LeaveCheckTimer, CancelTimer, vars, idVars,
      timerVars

LEMMA WrapInvariant == Spec => []WrapInv
<1>1. Init => WrapInv
  BY DEF Init, WrapInv, SeqInv, CloseDiffer, LostOnlyAfterWrap
<1>2. TypeOK /\ EarlyInv /\ WrapInv /\ [Next]_vars => WrapInv'
  BY WrapStep
<1> QED
  BY <1>1, <1>2, TypeCorrect, EarlyInvariant, PTL DEF Spec

\* insert() drops a timer only when one SeqMod or more creations older has the
\* same ID, however the creating threads interleave.
THEOREM LossNeedsWrap == Spec => []LostOnlyAfterWrap
<1>1. WrapInv => LostOnlyAfterWrap
  BY DEF WrapInv
<1> QED
  BY <1>1, WrapInvariant, PTL

\* A process that creates no more than SeqMod timers gives no ID twice.
THEOREM FewTimersDistinct ==
  ASSUME MaxTimers <= SeqMod
  PROVE  Spec => []IdsDistinct
<1>1. TypeOK /\ WrapInv => IdsDistinct
  <2> SUFFICES ASSUME TypeOK, CloseDiffer,
                      NEW m \in 1..created, NEW n \in 1..created, id[m] = id[n]
               PROVE  m = n
    BY DEF WrapInv, IdsDistinct
  <2>1. created \in Nat /\ created <= SeqMod /\ SeqMod \in Nat
    BY BoundAssumption DEF TypeOK
  <2>2. m - n < SeqMod /\ n - m < SeqMod
    BY <2>1
  <2>3. ~(m < n) /\ ~(n < m)
    BY <2>1, <2>2 DEF CloseDiffer
  <2> QED
    BY <2>1, <2>3
<1> QED
  BY <1>1, WrapInvariant, TypeCorrect, PTL

-----------------------------------------------------------------------------
(* The order of firing *)

\* What holds for the timers fired holds one step earlier for the batch: who
\* should fire before a timer of the batch is no longer in the map.
BatchInOrder ==
    IdsDistinct => \A a, b \in 1..created :
        a < b /\ Before(id[a], id[b]) /\ b \in allexpire => a \in allexpire \cup fired \cup cancelled

OrderInv == InOrder /\ BatchInOrder

LEMMA BeforeOneWay ==
  ASSUME NEW a \in TimerId, NEW b \in TimerId, Before(a, b)
  PROVE  ~Before(b, a) /\ a[1] <= b[1]
BY BoundAssumption DEF TimerId, Before

LEMMA OrderStep ==
  ASSUME TypeOK, BatchEmpty, EarlyInv, TimersAccounted, OrderInv, [Next]_vars
  PROVE  OrderInv'
<1> SUFFICES ASSUME IdsDistinct', NEW a \in 1..created', NEW b \in 1..created',
                    a < b, Before(id[a], id[b])'
             PROVE  /\ b \in fired' => a \in fired' \cup cancelled'
                    /\ b \in allexpire' => a \in allexpire' \cup fired' \cup cancelled'
  BY DEF OrderInv, InOrder, BatchInOrder
<1> USE DEF timerVars, loopVars, idVars, histVars, LoopAt
<1>d. IdsDistinct
  BY DistinctBefore
<1>k. OnePlaceEach
  BY <1>d DEF TimersAccounted, Conserved
<1>t. /\ created \in 0..MaxTimers /\ MaxTimers \in Nat /\ nowMs \in 0..MaxTime /\ MaxTime \in Nat
      /\ id \in [1..MaxTimers -> TimerId]
  BY BoundAssumption DEF TypeOK, Timers
<1>o. ASSUME a \in 1..created, b \in 1..created, Before(id[a], id[b])
      PROVE  /\ b \in fired => a \in fired \cup cancelled
             /\ b \in allexpire => a \in allexpire \cup fired \cup cancelled
  BY <1>d, <1>o DEF OrderInv, InOrder, BatchInOrder
<1>1. CASE UNCHANGED <<allexpire, idVars, fired>> /\ cancelled \subseteq cancelled'
  BY <1>1, <1>o
<1>2. ASSUME NEW p \in Callers, InsertTimer(p)
      PROVE  /\ b \in fired' => a \in fired' \cup cancelled'
             /\ b \in allexpire' => a \in allexpire' \cup fired' \cup cancelled'
  <2>1. /\ created < MaxTimers /\ created' = created + 1
        /\ \A n \in 1..created : id'[n] = id[n]
        /\ UNCHANGED <<allexpire, fired, cancelled>>
    BY <1>2, <1>t DEF InsertTimer
  <2>2. CASE b = created + 1
    BY <1>t, <2>1, <2>2 DEF EarlyInv
  <2>3. CASE b \in 1..created
    <3>1. a \in 1..created /\ id'[a] = id[a] /\ id'[b] = id[b]
      BY <1>t, <2>1, <2>3
    <3> QED
      BY <1>o, <2>1, <2>3, <3>1
  <2> QED
    BY <1>t, <2>1, <2>2, <2>3
<1>3. CASE Collect
  <2>1. /\ allexpire' = {t \in m_queTimer : Expire(t) <= nowMs}
        /\ UNCHANGED <<idVars, histVars>>
    BY <1>3 DEF Collect, Due
  <2>2. allexpire = {}
    BY <1>3 DEF Collect, BatchEmpty
  <2>3. a \in 1..created /\ b \in 1..created /\ Before(id[a], id[b])
    BY <2>1
  <2>4. id[a] \in TimerId /\ id[b] \in TimerId
    BY <1>t, <2>3
  <2>5. id[a][1] <= id[b][1] /\ id[a][1] \in Nat /\ id[b][1] \in Nat
    BY <1>t, <2>3, <2>4, BeforeOneWay DEF TimerId
  <2>6. a \in m_queTimer \cup fired \cup cancelled
    BY <1>k, <2>2, <2>3 DEF OnePlaceEach
  <2>7. b \in allexpire' => id[b][1] <= nowMs
    BY <2>1 DEF Expire
  <2>8. b \in allexpire' => id[a][1] <= nowMs
    BY <1>t, <2>5, <2>7
  <2>9. b \in allexpire' => a \in allexpire' \cup fired' \cup cancelled'
    BY <2>1, <2>6, <2>8 DEF Expire
  <2> QED
    BY <1>o, <2>1, <2>3, <2>9
<1>4. CASE Fire
  <2>1. PICK n \in allexpire :
            /\ \A t \in allexpire \ {n} : Before(id[n], id[t])
            /\ allexpire' = allexpire \ {n} /\ fired' = fired \cup {n}
    BY <1>4 DEF Fire
  <2>2. UNCHANGED <<idVars, cancelled>>
    BY <1>4 DEF Fire
  <2>3. a \in 1..created /\ b \in 1..created /\ Before(id[a], id[b]) /\ a # b
    BY <1>t, <2>2
  <2>4. ~Before(id[b], id[a])
    BY <1>t, <2>3, BeforeOneWay
  <2>5. CASE b = n
    BY <1>o, <2>1, <2>2, <2>3, <2>4, <2>5
  <2>6. CASE b # n
    BY <1>o, <2>1, <2>2, <2>3, <2>6
  <2> QED
    BY <2>5, <2>6
<1> QED
  BY <1>1, <1>2, <1>3, <1>4
  DEF Next, CheckTimer, Tick, CallCreateTimer, CancelTimer, EnterCheckTimer,
      ReadNextExpire, OnTimerReturns, LeaveCheckTimer, vars

\* Timers fire in the order of their IDs as far as that is the order of their
\* creation, across batches too.
THEOREM FiredInOrder == Spec => []InOrder
<1>1. Init => OrderInv
  BY DEF Init, OrderInv, InOrder, BatchInOrder
<1>2. OrderInv => InOrder
  BY DEF OrderInv
<1>3. TypeOK /\ BatchEmpty /\ EarlyInv /\ TimersAccounted /\ OrderInv /\ [Next]_vars => OrderInv'
  BY OrderStep
<1> QED
  BY <1>1, <1>2, <1>3, TypeCorrect, BatchEmptyInvariant, EarlyInvariant, AllAccounted, PTL DEF Spec

-----------------------------------------------------------------------------
(* m_nextExpire past a queued timer *)

\* Who set m_nextExpire past another timer was created, so its ID is fixed.
NextInv == raised \subseteq 1..created /\ PassedByCreation

LEMMA NextStep ==
  ASSUME TypeOK, EarlyInv, NextInv, [Next]_vars
  PROVE  NextInv'
<1> USE DEF NextInv, Expire, timerVars, loopVars, idVars, histVars, LoopAt
<1>t. /\ created \in 0..MaxTimers /\ MaxTimers \in Nat /\ MaxTime \in Nat
      /\ id \in [1..MaxTimers -> TimerId]
      /\ m_queTimer \subseteq 1..created /\ raised \subseteq 1..created
      /\ m_nextExpire \in Nat
  BY BoundAssumption DEF TypeOK, Timers, EarlyInv, Never
<1>1. CASE UNCHANGED <<m_nextExpire, idVars>> /\ m_queTimer' \subseteq m_queTimer
  BY <1>1 DEF PassedByCreation
<1>2. ASSUME NEW p \in Callers, InsertTimer(p) PROVE NextInv'
  <2> DEFINE new == created + 1
             end == call[p].expire
  <2>1. /\ created < MaxTimers /\ created' = new
        /\ id' = [id EXCEPT ![new] = <<end, NextSeq>>]
        /\ m_queTimer' \subseteq m_queTimer \cup {new}
        /\ raised' = IF Overtakes(p) THEN raised \cup {new} ELSE raised
        /\ m_nextExpire' = IF MovesNext(p) THEN end ELSE m_nextExpire
    BY <1>2 DEF InsertTimer
  <2>2. /\ end \in Nat /\ call[p].now \in Nat /\ new \in Nat
        /\ id'[new][1] = end
        /\ \A n \in 1..created : id'[n] = id[n] /\ n < new /\ n \in Nat /\ id[n][1] \in Nat
    BY <1>t, <2>1 DEF TypeOK, Call, TimerId
  <2>3. raised' \subseteq 1..created'
    BY <1>t, <2>1
  <2>4. m_nextExpire' <= end
    BY <1>t, <2>1, <2>2 DEF MovesNext
  <2>5. ASSUME NEW n \in m_queTimer, m_nextExpire' > id[n][1]
        PROVE  \E k \in raised' : k > n /\ m_nextExpire' <= id'[k][1]
    <3>1. CASE m_nextExpire < call[p].now
      <4>1. MovesNext(p) /\ m_nextExpire' = end
        BY <2>1, <3>1 DEF MovesNext
      <4>2. Overtakes(p)
        BY <2>5, <3>1, <4>1 DEF Overtakes
      <4> QED
        BY <1>t, <2>1, <2>2, <4>1, <4>2
    <3>2. CASE ~(m_nextExpire < call[p].now)
      <4>1. m_nextExpire' <= m_nextExpire /\ m_nextExpire' \in Nat
        BY <1>t, <2>1, <2>2, <3>2 DEF MovesNext
      <4>2. id[n][1] \in Nat /\ m_nextExpire > id[n][1]
        BY <1>t, <2>2, <2>5, <4>1
      <4>3. PICK k \in raised : k > n /\ m_nextExpire <= id[k][1]
        BY <4>2 DEF PassedByCreation
      <4>4. k \in raised' /\ id'[k][1] = id[k][1] /\ id[k][1] \in Nat
        BY <1>t, <2>1, <2>2
      <4> QED
        BY <1>t, <4>1, <4>3, <4>4
    <3> QED
      BY <3>1, <3>2
  <2> HIDE DEF new, end
  <2>6. PassedByCreation'
    <3> SUFFICES ASSUME NEW n \in m_queTimer', m_nextExpire' > id'[n][1]
                 PROVE  \E k \in raised' : k > n /\ m_nextExpire' <= id'[k][1]
      BY DEF PassedByCreation
    <3>1. CASE n \in m_queTimer
      BY <1>t, <2>2, <2>5, <3>1
    <3>2. CASE n = new
      <4>1. m_nextExpire' \in Nat
        BY <1>t, <2>1, <2>2
      <4> QED
        BY <2>2, <2>4, <3>2, <4>1
    <3> QED
      BY <2>1, <3>1, <3>2
  <2> QED
    BY <2>3, <2>6
<1>3. CASE Collect
  <2>1. /\ IsEarliest(m_nextExpire', m_queTimer')
        /\ m_queTimer' \subseteq m_queTimer /\ UNCHANGED idVars
        /\ m_nextExpire' \in 0..Never
    BY <1>3 DEF Collect
  <2>2. \A n \in m_queTimer' : m_nextExpire' <= id[n][1]
    BY <2>1 DEF IsEarliest
  <2>3. \A n \in m_queTimer' : id[n][1] \in Nat
    BY <1>t, <2>1 DEF TimerId
  <2> QED
    BY <1>t, <2>1, <2>2, <2>3 DEF PassedByCreation, Never
<1> QED
  BY <1>1, <1>2, <1>3
  DEF Next, CheckTimer, Tick, CallCreateTimer, EnterCheckTimer, ReadNextExpire,
      Fire, OnTimerReturns, LeaveCheckTimer, CancelTimer, vars

\* m_nextExpire is past a queued timer only since CreateTimer, for a later timer,
\* found it behind the clock, and never past the expiry of such a later timer.
THEOREM OnlyCreationPasses == Spec => []PassedByCreation
<1>1. Init => NextInv
  BY DEF Init, NextInv, PassedByCreation
<1>2. TypeOK /\ EarlyInv /\ NextInv /\ [Next]_vars => NextInv'
  BY NextStep
<1>3. NextInv => PassedByCreation
  BY DEF NextInv
<1> QED
  BY <1>1, <1>2, <1>3, TypeCorrect, EarlyInvariant, PTL DEF Spec
=============================================================================
