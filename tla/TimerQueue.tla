----------------------------- MODULE TimerQueue -----------------------------
(***************************************************************************)
(* The timers of CIOServer (network/epoll/epoll.cpp; network/iocp/iocp.cpp *)
(* has the same three functions).  Any thread creates and cancels timers;  *)
(* the thread in RunOnce collects the expired ones under m_lockTimer and   *)
(* calls them after it has released the lock.                              *)
(*                                                                         *)
(* Timers are numbered in the order in which they pass m_lockTimer.  The   *)
(* ID of a timer, (expire << 20) | (m_queSeq & 0xfffff), is the pair       *)
(* <<expire, seq>> under the lexicographic order, and m_queTimer, a map    *)
(* from IDs to callbacks, is the set of the numbers of the timers in it.   *)
(***************************************************************************)
EXTENDS Integers, FiniteSets

CONSTANTS Threads,    \* threads other than the loop that use timers
          Loop,       \* the thread that calls RunOnce
          Delays,     \* the arguments of CreateTimer, in ms
          SeqMod,     \* size of the sequence part of an ID (2^20 in the code)
          MaxTimers,  \* bound: calls of CreateTimer
          MaxTime     \* bound: the clock, in ms

ASSUME LoopAssumption  == Loop \notin Threads
ASSUME BoundAssumption ==
    /\ Delays \subseteq Nat
    /\ SeqMod \in Nat \ {0}
    /\ MaxTimers \in Nat
    /\ MaxTime \in Nat

Callers == Threads \cup {Loop}
Timers  == 1..MaxTimers
Never   == MaxTime + 1   \* (unsigned long long)-1: later than every expiry

VARIABLES
    now,           \* GetTimeMillisecond()
    m_queTimer,    \* CIOServer::m_queTimer
    m_queSeq,      \* CIOServer::m_queSeq, its low bits
    m_nextExpire,  \* CIOServer::m_nextExpire
    call,          \* call[p]: the locals of the CreateTimer that p is inside
    lpc,           \* where RunOnce is
    nowMs,         \* CheckTimer's local of that name
    allexpire,     \* CheckTimer's batch
    id,            \* history: the ID of each timer
    created,       \* history: how many timers passed m_lockTimer
    lost,          \* history: timers whose insert() met an equal ID
    raised,        \* history: timers whose CreateTimer set m_nextExpire past a queued one
    fired,         \* history: timers whose OnTimer was called
    cancelled,     \* history: timers whose CancelTimer returned true
    refused        \* history: timers whose CancelTimer returned false

timerVars == <<m_queTimer, m_queSeq, m_nextExpire>>
loopVars  == <<lpc, nowMs, allexpire>>
idVars    == <<id, created, lost, raised>>
histVars  == <<fired, cancelled, refused>>
vars      == <<now, timerVars, call, loopVars, idVars, histVars>>

TimerId == (0..MaxTime) \X (0..(SeqMod - 1))
Call    == [inside : BOOLEAN, now : 0..MaxTime, expire : 0..MaxTime]

NoId   == <<0, 0>>
NoCall == [inside |-> FALSE, now |-> 0, expire |-> 0]

\* The constructor does not initialise m_queSeq.
Init ==
    /\ now = 0
    /\ m_queTimer = {} /\ m_queSeq \in 0..(SeqMod - 1) /\ m_nextExpire = Never
    /\ call = [p \in Callers |-> NoCall]
    /\ lpc = "outside" /\ nowMs = 0 /\ allexpire = {}
    /\ id = [n \in Timers |-> NoId] /\ created = 0 /\ lost = {} /\ raised = {}
    /\ fired = {} /\ cancelled = {} /\ refused = {}

Tick ==
    /\ now < MaxTime
    /\ now' = now + 1
    /\ UNCHANGED <<timerVars, call, loopVars, idVars, histVars>>

-----------------------------------------------------------------------------
(* CreateTimer and CancelTimer, run by any thread.  On the loop they run in *)
(* an OnTimer ("callback") or in the rest of RunOnce ("outside").           *)

Free(p) == ~call[p].inside /\ (p = Loop => lpc \in {"outside", "callback"})

Expire(n) == id[n][1]
Before(a, b) == a[1] < b[1] \/ (a[1] = b[1] /\ a[2] < b[2])

\* now and expire are computed before the lock is taken.
CallCreateTimer(p, delayms) ==
    /\ Free(p)
    /\ created + Cardinality({q \in Callers : call[q].inside}) < MaxTimers
    /\ now + delayms <= MaxTime
    /\ call' = [call EXCEPT ![p] = [inside |-> TRUE, now |-> now,
                                    expire |-> now + delayms]]
    /\ UNCHANGED <<now, timerVars, loopVars, idVars, histVars>>

\* Faulty variant: m_queSeq is not incremented.
NextSeqMissing == m_queSeq

NextSeq == IF m_queSeq + 1 = SeqMod THEN 0 ELSE m_queSeq + 1

\* Faulty variant: the new timer is always the next one.
MovesAlways(p) == call[p].inside

\* m_nextExpire is later than the new timer, or has passed.
MovesNext(p) == m_nextExpire > call[p].expire \/ m_nextExpire < call[p].now

\* m_nextExpire has passed, but what is queued for it has not been collected.
Overtakes(p) ==
    m_nextExpire < call[p].now /\ \E t \in m_queTimer : Expire(t) < call[p].expire

\* Under the lock: the ID, the insert (which keeps an equal ID) and m_nextExpire.
\* CallCreateTimer has already kept within MaxTimers.
InsertTimer(p) ==
    /\ call[p].inside
    /\ created < MaxTimers
    /\ LET n   == created + 1
           key == <<call[p].expire, NextSeq>>
           taken == \E t \in m_queTimer : id[t] = key
       IN /\ id' = [id EXCEPT ![n] = key]
          /\ created' = n
          /\ m_queTimer' = IF taken THEN m_queTimer ELSE m_queTimer \cup {n}
          /\ lost' = IF taken THEN lost \cup {n} ELSE lost
          /\ raised' = IF Overtakes(p) THEN raised \cup {n} ELSE raised
    /\ m_queSeq' = NextSeq
    /\ m_nextExpire' = IF MovesNext(p) THEN call[p].expire ELSE m_nextExpire
    /\ call' = [call EXCEPT ![p] = NoCall]
    /\ UNCHANGED <<now, loopVars, histVars>>

\* A caller holds the ID of timer n; the map is searched for that ID.
CancelTimer(p, n) ==
    /\ Free(p)
    /\ n <= created
    /\ LET found == {t \in m_queTimer : id[t] = id[n]} IN
        /\ m_queTimer' = m_queTimer \ found
        /\ cancelled' = IF found /= {} THEN cancelled \cup {n} ELSE cancelled
        /\ refused' = IF found = {} THEN refused \cup {n} ELSE refused
    /\ UNCHANGED <<now, m_queSeq, m_nextExpire, call, loopVars, idVars, fired>>

-----------------------------------------------------------------------------
(* CheckTimer, run by RunOnce after every epoll_wait. *)

LoopAt(place) == lpc = place /\ ~call[Loop].inside

\* The unlocked test of empty() and the clock.
EnterCheckTimer ==
    /\ LoopAt("outside")
    /\ m_queTimer /= {}
    /\ nowMs' = now
    /\ lpc' = "expire"
    /\ UNCHANGED <<now, timerVars, call, allexpire, idVars, histVars>>

\* The unlocked read of m_nextExpire.
ReadNextExpire ==
    /\ LoopAt("expire")
    /\ lpc' = IF m_nextExpire <= nowMs THEN "collect" ELSE "outside"
    /\ UNCHANGED <<now, timerVars, call, nowMs, allexpire, idVars, histVars>>

Due(t) == Expire(t) <= nowMs

\* e is the expiry of begin() of a map that holds the timers S.
IsEarliest(e, S) ==
    IF S = {} THEN e = Never
    ELSE (\E t \in S : e = Expire(t)) /\ \A t \in S : e <= Expire(t)

\* Faulty variant: the timers are collected one millisecond too soon.
CollectEarly ==
    /\ LoopAt("collect")
    /\ allexpire' = {t \in m_queTimer : Expire(t) <= nowMs + 1}
    /\ m_queTimer' = m_queTimer \ allexpire'
    /\ m_nextExpire' \in 0..Never /\ IsEarliest(m_nextExpire', m_queTimer')
    /\ lpc' = "fire"
    /\ UNCHANGED <<now, m_queSeq, call, nowMs, idVars, histVars>>

\* Faulty variant: what is left in the map does not set m_nextExpire.
CollectForgetsNext ==
    /\ LoopAt("collect")
    /\ allexpire' = {t \in m_queTimer : Due(t)}
    /\ m_queTimer' = {t \in m_queTimer : ~Due(t)}
    /\ m_nextExpire' = Never
    /\ lpc' = "fire"
    /\ UNCHANGED <<now, m_queSeq, call, nowMs, idVars, histVars>>

\* Faulty variant: the expired range is erased by a second read of the clock.
CollectRereadsClock ==
    /\ LoopAt("collect")
    /\ allexpire' = {t \in m_queTimer : Due(t)}
    /\ m_queTimer' = {t \in m_queTimer : Expire(t) > now}
    /\ m_nextExpire' \in 0..Never /\ IsEarliest(m_nextExpire', m_queTimer')
    /\ lpc' = "fire"
    /\ UNCHANGED <<now, m_queSeq, call, nowMs, idVars, histVars>>

\* Under the lock: every expired timer moves from the map to the batch.
Collect ==
    /\ LoopAt("collect")
    /\ allexpire' = {t \in m_queTimer : Due(t)}
    /\ m_queTimer' = {t \in m_queTimer : ~Due(t)}
    /\ m_nextExpire' \in 0..Never /\ IsEarliest(m_nextExpire', m_queTimer')
    /\ lpc' = "fire"
    /\ UNCHANGED <<now, m_queSeq, call, nowMs, idVars, histVars>>

\* Faulty variant: the batch is in no order.
FireAny ==
    /\ LoopAt("fire")
    /\ \E n \in allexpire :
        /\ allexpire' = allexpire \ {n}
        /\ fired' = fired \cup {n}
    /\ lpc' = "callback"
    /\ UNCHANGED <<now, timerVars, call, nowMs, idVars, cancelled, refused>>

\* The batch is in the order of the map, that of the IDs.
Fire ==
    /\ LoopAt("fire")
    /\ \E n \in allexpire :
        /\ \A t \in allexpire \ {n} : Before(id[n], id[t])
        /\ allexpire' = allexpire \ {n}
        /\ fired' = fired \cup {n}
    /\ lpc' = "callback"
    /\ UNCHANGED <<now, timerVars, call, nowMs, idVars, cancelled, refused>>

OnTimerReturns ==
    /\ LoopAt("callback")
    /\ lpc' = "fire"
    /\ UNCHANGED <<now, timerVars, call, nowMs, allexpire, idVars, histVars>>

LeaveCheckTimer ==
    /\ LoopAt("fire") /\ allexpire = {}
    /\ lpc' = "outside"
    /\ UNCHANGED <<now, timerVars, call, nowMs, allexpire, idVars, histVars>>

CheckTimer ==
    \/ EnterCheckTimer \/ ReadNextExpire \/ Collect
    \/ Fire \/ OnTimerReturns \/ LeaveCheckTimer

Next ==
    \/ Tick
    \/ CheckTimer
    \/ \E p \in Callers : \/ \E d \in Delays : CallCreateTimer(p, d)
                          \/ InsertTimer(p)
                          \/ \E n \in Timers : CancelTimer(p, n)

\* Time passes, RunOnce is called for ever, OnTimer returns, and a thread that
\* has called CreateTimer gets the lock.
Fairness ==
    /\ WF_vars(Tick)
    /\ WF_vars(CheckTimer)
    /\ \A p \in Callers : WF_vars(InsertTimer(p))

Spec == Init /\ [][Next]_vars /\ Fairness

-----------------------------------------------------------------------------
(* Properties *)

TypeOK ==
    /\ now \in 0..MaxTime
    /\ m_queTimer \subseteq Timers
    /\ m_queSeq \in 0..(SeqMod - 1)
    /\ m_nextExpire \in 0..Never
    /\ call \in [Callers -> Call]
    /\ lpc \in {"outside", "expire", "collect", "fire", "callback"}
    /\ nowMs \in 0..MaxTime
    /\ allexpire \subseteq Timers
    /\ id \in [Timers -> TimerId]
    /\ created \in 0..MaxTimers
    /\ lost \subseteq Timers
    /\ raised \subseteq Timers
    /\ fired \subseteq Timers
    /\ cancelled \subseteq Timers
    /\ refused \subseteq Timers

\* No two timers share an ID.
IdsDistinct == \A m, n \in 1..created : id[m] = id[n] => m = n

\* As long as no two IDs were equal, every timer is in one place only: still
\* queued, in the batch of CheckTimer, fired, or withdrawn by a CancelTimer that
\* returned true.  So none vanishes, none fires twice, and a cancelled one never
\* fires, whatever the creating and cancelling threads do while CheckTimer has
\* let go of m_lockTimer.
OnePlaceEach ==
    /\ lost = {}
    /\ 1..created = m_queTimer \cup allexpire \cup fired \cup cancelled
    /\ m_queTimer \cap (allexpire \cup fired \cup cancelled) = {}
    /\ allexpire \cap (fired \cup cancelled) = {}
    /\ fired \cap cancelled = {}
Conserved == IdsDistinct => OnePlaceEach

\* CancelTimer returns false only for a timer that it is too late to stop, or
\* that was stopped before: no caller is told "gone" of a timer still queued.
RefusedIsGone == IdsDistinct => refused \subseteq allexpire \cup fired \cup cancelled

\* The two together: of every timer its creator can tell what became of it, from
\* what OnTimer and CancelTimer have said (epoll.cpp:150, 177, 197).
TimersAccounted == Conserved /\ RefusedIsGone

\* A timer reaches OnTimer no sooner than the delay after CreateTimer read the
\* clock, although CheckTimer decides on a clock it read before the lock.
NeverEarly == \A n \in fired \cup allexpire : Expire(n) <= now

\* Of two timers, the one created first and with the smaller ID fires first,
\* across batches too, unless it was cancelled.
InOrder ==
    IdsDistinct => \A a, b \in 1..created :
        a < b /\ Before(id[a], id[b]) /\ b \in fired => a \in fired \cup cancelled

\* epoll.h:88 calls m_nextExpire the earliest trigger time.  CreateTimer sets it
\* past timers still queued when it has passed (epoll.cpp:141), but nothing else
\* does, and never further than to the expiry of the timer just created.
PassedByCreation ==
    \A n \in m_queTimer :
        m_nextExpire > Expire(n) => \E k \in raised : k > n /\ m_nextExpire <= Expire(k)

\* Only SeqMod creations apart, and in the same millisecond, do two timers get
\* the same ID, of which insert() drops the second.
LostOnlyAfterWrap ==
    \A n \in lost : \E m \in 1..(n - 1) : id[m] = id[n] /\ n - m >= SeqMod

\* Each timer leaves the map and the batch, fired or cancelled, once no more
\* timers are created that set m_nextExpire past a queued one.  Only that excuse
\* is there: creations of that kind that never pause postpone a timer for ever
\* (epoll.cpp:141), but other creations and the unlocked reads do not.
PassingEnds == <>[][raised' = raised]_vars
EventuallyFires ==
    PassingEnds =>
        \A n \in Timers : []<>(n \notin m_queTimer \cup allexpire)

=============================================================================
