----------------------------- MODULE PostQueue -----------------------------
(***************************************************************************)
(* The cross-thread message queue of the epoll CIOServer                   *)
(* (network/epoll/epoll.cpp).  PostMsg pushes under m_msglock and only     *)
(* after the unlock writes one byte to a non-blocking socketpair; RunOnce, *)
(* woken by that byte, drains the socketpair, and only then swaps m_msgs   *)
(* out under the lock and dispatches the batch.  Each step between two     *)
(* locks or system calls is an action, so every interleaving of the        *)
(* posting threads with the loop is explored.                              *)
(*                                                                         *)
(* The loop thread posts too: a callback that calls Post or Close runs     *)
(* PostMsg in the middle of RunOnce.  The payload and the POST_COM_KEY of  *)
(* a message do not matter to the queue: a message is <<p, n>>.            *)
(***************************************************************************)
EXTENDS Integers, Sequences

CONSTANTS Threads,   \* threads that call Post
          Loop,      \* the thread that calls RunOnce
          MaxPosts,  \* bound: calls of PostMsg per thread
          PairCap,   \* bytes the socketpair holds before send() fails
          RecvLen    \* bytes one recv() of the drain takes (1000 in the code)

ASSUME LoopAssumption  == Loop \notin Threads
ASSUME BoundAssumption ==
    /\ MaxPosts \in Nat
    /\ PairCap \in Nat \ {0}
    /\ RecvLen \in Nat \ {0}

Posters == Threads \cup {Loop}
Message == Posters \X (1..MaxPosts)

VARIABLES
    m_msgs,     \* CIOServer::m_msgs
    bytes,      \* bytes waiting in m_sockpair[1]
    pc,         \* pc[p] = "signal" between the unlock and the send of PostMsg
    lpc,        \* where RunOnce is
    woken,      \* this RunOnce still has a REG_THREAD event to handle
    msgs,       \* the local batch of RunOnce
    sent,       \* history: messages posted per thread
    posted,     \* history: messages in the order of m_msglock
    delivered,  \* history: messages dispatched, in order
    mark        \* history: Len(posted) at the last swap

queueVars == <<m_msgs, bytes, pc>>
loopVars  == <<lpc, woken, msgs>>
histVars  == <<sent, posted, delivered, mark>>
vars      == <<queueVars, loopVars, histVars>>

Init ==
    /\ m_msgs = <<>> /\ bytes = 0
    /\ pc = [p \in Posters |-> "idle"]
    /\ lpc = "wait" /\ woken = FALSE /\ msgs = <<>>
    /\ sent = [p \in Posters |-> 0]
    /\ posted = <<>> /\ delivered = <<>> /\ mark = 0

-----------------------------------------------------------------------------
(* PostMsg, run by any thread. *)

\* Only a callback runs PostMsg on the loop thread: an OnTimer or a socket's
\* callback ("handle"), or the callback of a dispatched message ("callback").
MayPost(p) == pc[p] = "idle" /\ (p = Loop => lpc \in {"handle", "callback"})

\* Faulty variant: the message is pushed at the front of m_msgs.
PushAtFront(p) ==
    /\ MayPost(p)
    /\ sent[p] < MaxPosts
    /\ LET m == <<p, sent[p] + 1>> IN
        /\ m_msgs' = <<m>> \o m_msgs
        /\ posted' = Append(posted, m)
    /\ sent' = [sent EXCEPT ![p] = @ + 1]
    /\ pc' = [pc EXCEPT ![p] = "signal"]
    /\ UNCHANGED <<bytes, loopVars, delivered, mark>>

\* Lock; push_back; UnLock.
Push(p) ==
    /\ MayPost(p)
    /\ sent[p] < MaxPosts
    /\ LET m == <<p, sent[p] + 1>> IN
        /\ m_msgs' = Append(m_msgs, m)
        /\ posted' = Append(posted, m)
    /\ sent' = [sent EXCEPT ![p] = @ + 1]
    /\ pc' = [pc EXCEPT ![p] = "signal"]
    /\ UNCHANGED <<bytes, loopVars, delivered, mark>>

\* send() of one byte; a full socketpair refuses it and the result is ignored.
Signal(p) ==
    /\ pc[p] = "signal"
    /\ bytes' = IF bytes < PairCap THEN bytes + 1 ELSE bytes
    /\ pc' = [pc EXCEPT ![p] = "idle"]
    /\ UNCHANGED <<m_msgs, loopVars, histVars>>

-----------------------------------------------------------------------------
(* RunOnce.  The loop thread does nothing else while it is inside PostMsg. *)

LoopAt(place) == lpc = place /\ pc[Loop] = "idle"

\* epoll_wait returns: level triggered, so a pending byte is always reported;
\* without one it returns for a timeout or for another descriptor.
EpollWait ==
    /\ LoopAt("wait")
    /\ woken' = (bytes > 0)
    /\ lpc' = "handle"
    /\ UNCHANGED <<queueVars, msgs, histVars>>

\* The loop over m_events reaches the REG_THREAD event.
ThreadEvent ==
    /\ LoopAt("handle") /\ woken
    /\ lpc' = "drain"
    /\ UNCHANGED <<queueVars, woken, msgs, histVars>>

\* No event is left: RunOnce returns and is called again.
Return ==
    /\ LoopAt("handle") /\ ~woken
    /\ lpc' = "wait"
    /\ UNCHANGED <<queueVars, woken, msgs, histVars>>

\* One recv() of "while (recv(...) > 0);".
Drain ==
    /\ LoopAt("drain")
    /\ IF bytes > 0
       THEN /\ bytes' = IF bytes > RecvLen THEN bytes - RecvLen ELSE 0
            /\ UNCHANGED lpc
       ELSE /\ lpc' = "swap"
            /\ UNCHANGED bytes
    /\ UNCHANGED <<m_msgs, pc, woken, msgs, histVars>>

\* Faulty variant: the batch is a copy, m_msgs is not emptied.
SwapCopies ==
    /\ LoopAt("swap")
    /\ msgs' = m_msgs
    /\ mark' = Len(posted)
    /\ lpc' = "dispatch"
    /\ UNCHANGED <<m_msgs, bytes, pc, woken, sent, posted, delivered>>

\* Lock; msgs.swap(m_msgs); UnLock.
Swap ==
    /\ LoopAt("swap")
    /\ msgs' = m_msgs
    /\ m_msgs' = <<>>
    /\ mark' = Len(posted)
    /\ lpc' = "dispatch"
    /\ UNCHANGED <<bytes, pc, woken, sent, posted, delivered>>

\* The next message of the batch is handed to OnPost or OnPostClose.
Dispatch ==
    /\ LoopAt("dispatch") /\ msgs /= <<>>
    /\ delivered' = Append(delivered, Head(msgs))
    /\ msgs' = Tail(msgs)
    /\ lpc' = "callback"
    /\ UNCHANGED <<queueVars, woken, sent, posted, mark>>

CallbackReturns ==
    /\ LoopAt("callback")
    /\ lpc' = "dispatch"
    /\ UNCHANGED <<queueVars, woken, msgs, histVars>>

\* Faulty variant: the dispatch goes on with what arrived meanwhile.
BatchRefill ==
    /\ LoopAt("dispatch") /\ msgs = <<>>
    /\ msgs' = m_msgs
    /\ m_msgs' = <<>>
    /\ woken' = (m_msgs /= <<>>)
    /\ lpc' = IF m_msgs = <<>> THEN "handle" ELSE "dispatch"
    /\ UNCHANGED <<bytes, pc, histVars>>

\* Faulty variant: the bytes are drained once more after the batch.
BatchDoneDrains ==
    /\ LoopAt("dispatch") /\ msgs = <<>>
    /\ woken' = FALSE
    /\ lpc' = "handle"
    /\ bytes' = 0
    /\ UNCHANGED <<m_msgs, pc, msgs, histVars>>

BatchDone ==
    /\ LoopAt("dispatch") /\ msgs = <<>>
    /\ woken' = FALSE
    /\ lpc' = "handle"
    /\ UNCHANGED <<queueVars, msgs, histVars>>

RunOnce ==
    \/ EpollWait \/ ThreadEvent \/ Return \/ Drain
    \/ Swap \/ Dispatch \/ CallbackReturns \/ BatchDone

Next == RunOnce \/ \E p \in Posters : Push(p) \/ Signal(p)

\* RunOnce is called for ever, its callbacks return, and a thread that has
\* taken the lock finishes PostMsg.
Fairness == WF_vars(RunOnce) /\ \A p \in Posters : WF_vars(Signal(p))

Spec == Init /\ [][Next]_vars /\ Fairness

-----------------------------------------------------------------------------
(* Properties *)

TypeOK ==
    /\ m_msgs \in Seq(Message)
    /\ msgs \in Seq(Message)
    /\ bytes \in 0..PairCap
    /\ pc \in [Posters -> {"idle", "signal"}]
    /\ lpc \in {"wait", "handle", "drain", "swap", "dispatch", "callback"}
    /\ woken \in BOOLEAN
    /\ sent \in [Posters -> 0..MaxPosts]
    /\ posted \in Seq(Message)
    /\ delivered \in Seq(Message)
    /\ mark \in Nat

\* No lost wakeup (PostMsg against the drain and the swap of RunOnce): while
\* m_msgs holds a message, a byte is pending, or a thread is about to write
\* one, or the loop is awake and has not swapped yet.
NoLostWakeup ==
    m_msgs /= <<>> =>
        \/ bytes > 0
        \/ \E p \in Posters : pc[p] = "signal"
        \/ lpc \in {"drain", "swap"}
        \/ lpc = "handle" /\ woken

\* What was posted is, in the order of m_msglock, what was delivered, then the
\* local batch of RunOnce, then m_msgs: the swap loses, repeats and reorders
\* nothing.
Accounted == posted = delivered \o msgs \o m_msgs

\* The messages of one thread reach their callbacks in the order in which that
\* thread called Post, each at most once.
FifoPerPoster ==
    \A i, j \in 1..Len(delivered) :
        i < j /\ delivered[i][1] = delivered[j][1] =>
            delivered[i][2] < delivered[j][2]

\* A message posted after the swap is never dispatched with that batch, not
\* even one that a callback of the batch posts: OnPostClose cannot run inside
\* the callback that called Close.
Deferred == Len(delivered) <= mark

Channel == INSTANCE AsyncChannel

\* The lock, the socketpair and the batch implement the abstract channel.
ImplementsChannel == Channel!Spec

=============================================================================
