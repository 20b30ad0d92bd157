----------------------------- MODULE CircularQue -----------------------------
(***************************************************************************)
(* The circular queues of utility/cirque.h: CCircularQue, whose PushData   *)
(* and PopData move several bytes, and CCirObjQue, which is the same with  *)
(* one element at a time.  The read and write counters are unsigned and    *)
(* only grow; the place in the buffer is the counter modulo the capacity,  *)
(* so it jumps where the counter wraps unless the capacity divides 2^32.   *)
(*                                                                         *)
(* One thread uses a queue.  The n-th element pushed is the number         *)
(* n % Values, which tells elements apart that can be in the queue         *)
(* together.                                                               *)
(***************************************************************************)
EXTENDS Naturals, Sequences

CONSTANTS Capacities,  \* the values of m_maxlen
          Wrap,        \* 2^32 in the code
          Values,      \* elements that can be told apart
          MaxPush      \* bound: elements of one PushData or PopData

ASSUME QueAssumption ==
    /\ Capacities \subseteq Nat \ {0}
    /\ Wrap \in Nat \ {0} /\ Values \in Nat \ {0} /\ MaxPush \in Nat \ {0}
    /\ \A c \in Capacities : c < Wrap

VARIABLES
    m_maxlen,  \* the capacity, fixed by Init
    m_vct,     \* the buffer
    m_rdlen, m_wtlen,
    pushed,    \* history: elements pushed and popped in all, modulo Values
    popped,
    straight,  \* history: every element popped was the next one pushed
    jumped     \* history: a counter has wrapped around a capacity that does not divide Wrap

queVars == <<m_maxlen, m_vct, m_rdlen, m_wtlen, pushed, popped, straight, jumped>>

QueInit ==
    /\ m_maxlen \in Capacities
    /\ m_vct = [i \in 0..(m_maxlen - 1) |-> 0]
    /\ m_rdlen = 0 /\ m_wtlen = 0
    /\ pushed = 0 /\ popped = 0
    /\ straight = TRUE /\ jumped = FALSE

\* Unsigned arithmetic.
Plus(a, b) == (a + b) % Wrap
Minus(a, b) == (a + Wrap - b) % Wrap

Jumps(counter, len) == counter + len >= Wrap /\ Wrap % m_maxlen # 0

\* The places that memcpy fills or reads from a counter on, in one piece or in two.
Places(counter, len) == [k \in 1..len |-> ((counter % m_maxlen) + k - 1) % m_maxlen]

\* Faulty variant: the elements to come are not counted.
RoomNow(len) == Minus(m_wtlen, m_rdlen) < m_maxlen

\* One place always stays free.  The sum is taken first and may wrap.
Room(len) == Minus(Plus(m_wtlen, len), m_rdlen) < m_maxlen

PushData(len) ==
    /\ Room(len)
    /\ LET place == Places(m_wtlen, len) IN
        m_vct' = [i \in DOMAIN m_vct |->
                    IF \E k \in 1..len : place[k] = i
                    THEN (pushed + (CHOOSE k \in 1..len : place[k] = i) - 1) % Values
                    ELSE m_vct[i]]
    /\ m_wtlen' = Plus(m_wtlen, len)
    /\ pushed' = (pushed + len) % Values
    /\ jumped' = (jumped \/ Jumps(m_wtlen, len))
    /\ UNCHANGED <<m_maxlen, m_rdlen, popped, straight>>

\* Less than asked for when the queue holds less.
Taken(asked) == LET held == Minus(m_wtlen, m_rdlen) IN IF held < asked THEN held ELSE asked

PopData(asked) ==
    /\ m_rdlen # m_wtlen
    /\ LET len == Taken(asked)
           place == Places(m_rdlen, len) IN
        /\ straight' = (straight /\ \A k \in 1..len : m_vct[place[k]] = (popped + k - 1) % Values)
        /\ m_rdlen' = Plus(m_rdlen, len)
        /\ popped' = (popped + len) % Values
        /\ jumped' = (jumped \/ Jumps(m_rdlen, len))
    /\ UNCHANGED <<m_maxlen, m_vct, m_wtlen, pushed>>

\* Clear forgets what is left; so does Init, which may also change the capacity.
QueClear ==
    /\ m_rdlen' = 0 /\ m_wtlen' = 0
    /\ popped' = pushed /\ jumped' = FALSE /\ straight' = TRUE
    /\ UNCHANGED <<m_maxlen, m_vct, pushed>>

QueNext ==
    \/ \E len \in 1..MaxPush : PushData(len) \/ PopData(len)
    \/ QueClear

QueSpec == QueInit /\ [][QueNext]_queVars

-----------------------------------------------------------------------------
(* Properties *)

\* Elements come out in the order they went in, each once, none overwritten and
\* none made up, and the queue never holds as many as its capacity: until a
\* counter wraps at 2^32 with a capacity that does not divide it
\* (cirque.h:93, 95, 127, 211).
QueFifo ==
    ~jumped => /\ straight
               /\ Minus(m_wtlen, m_rdlen) < m_maxlen
               /\ (Minus(m_wtlen, m_rdlen) % Values) = (pushed + Values - popped) % Values

=============================================================================
