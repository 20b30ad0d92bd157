----------------------------- MODULE PartsProofs -----------------------------
(***************************************************************************)
(* Proofs about the parts: Semaphore, for any set of CSem, any timeouts    *)
(* and any length of a second; UdpSocket, for any number of waiting        *)
(* datagrams; CircularQue, for any capacities and any wrap that their sums *)
(* do not reach; ObjectPool, for any number of blocks; Streams, for any    *)
(* byte and integer sizes, headers, byte orders, lengths and values.       *)
(***************************************************************************)
EXTENDS Semaphore, UdpSocket, CircularQue, ObjectPool, Streams, Integers,
        FiniteSetTheorems, WellFoundedInduction, TLAPS

-----------------------------------------------------------------------------
(* The end of a wait *)

\* The timespec stands for a moment: seconds and rest of a sum.
Moment(ts) == ts.tv_sec * Second + ts.tv_rest

LEMMA Division ==
  ASSUME NEW n \in Nat
  PROVE  /\ n \div Second \in Nat /\ n % Second \in Nat
         /\ (n \div Second) * Second + (n % Second) = n
BY SemAssumption

LEMMA Distributes ==
  ASSUME NEW a \in Nat, NEW b \in Nat, NEW c \in Nat
  PROVE  (a + b) * c = a * c + b * c
OBVIOUS

\* The timespec that Wait makes is the moment the timeout ends, carried or not.
LEMMA TimespecIsEnd ==
  ASSUME now \in Nat, NEW timeout \in Nat
  PROVE  Moment(Timespec(timeout)) = now + timeout
<1> DEFINE a == now \div Second
           b == timeout \div Second
           x == now % Second
           y == timeout % Second
<1>1. a \in Nat /\ x \in Nat /\ a * Second + x = now
  BY Division
<1>2. b \in Nat /\ y \in Nat /\ b * Second + y = timeout
  BY Division
<1>3. (a + b) * Second = a * Second + b * Second /\ a * Second \in Nat /\ b * Second \in Nat
  BY <1>1, <1>2, SemAssumption, Distributes
<1>4. Moment(Timespec(timeout)) = (a + b) * Second + (x + y)
  BY DEF Moment, Timespec
<1> HIDE DEF a, b, x, y
<1> QED
  BY <1>1, <1>2, <1>3, <1>4

\* What is known of a Wait, and of a Wait that failed.
Waits == [since : Nat, timeout : Nat, until : [tv_sec : Nat, tv_rest : Nat]]

WaitTrue(w) == w.since <= now /\ Moment(w.until) = w.since + w.timeout

WaitInv ==
    /\ now \in Nat
    /\ waiting \in [Sems -> {<<>>} \cup {<<w>> : w \in Waits}]
    /\ \A s \in Sems : waiting[s] # <<>> => WaitTrue(waiting[s][1])
    /\ answer \in [Sems -> {<<>>} \cup {<<a>> : a \in
                    [waited : Nat, timeout : Nat, why : {"invalid", "expired", "interrupted"}]}]
    /\ WaitsItsTime

LEMMA WaitInit == SemInit => WaitInv
BY DEF SemInit, WaitInv, WaitsItsTime

\* Steps that change neither the clock nor any Wait or answer.
LEMMA WaitKept ==
  ASSUME WaitInv, now' = now, waiting' = waiting, answer' = answer
  PROVE  WaitInv'
BY DEF WaitInv, WaitTrue, Moment, WaitsItsTime

LEMMA WaitStep == WaitInv /\ [SemNext]_semVars => WaitInv'
<1> SUFFICES ASSUME WaitInv, [SemNext]_semVars PROVE WaitInv'
  OBVIOUS
<1>1. CASE ClockTicks
  <2>1. now' = now + 1 /\ waiting' = waiting /\ answer' = answer
    BY <1>1 DEF ClockTicks
  <2>2. \A s \in Sems : waiting[s] # <<>> => waiting[s][1] \in Waits
    <3> SUFFICES ASSUME NEW s \in Sems, waiting[s] # <<>> PROVE waiting[s][1] \in Waits
      OBVIOUS
    <3>1. PICK w \in Waits : waiting[s] = <<w>>
      BY DEF WaitInv
    <3> QED
      BY <3>1
  <2>3. \A s \in Sems : waiting[s] # <<>> => WaitTrue(waiting[s][1])'
    BY <2>1, <2>2 DEF WaitInv, WaitTrue, Waits, Moment
  <2> QED
    BY <2>1, <2>3 DEF WaitInv, WaitsItsTime
<1>2. ASSUME NEW s \in Sems, SemCreate(s) \/ SemOpen(s) \/ SemDestroy(s) \/ SemPost(s)
      PROVE  WaitInv'
  BY <1>2, WaitKept DEF SemCreate, SemOpen, SemDestroy, SemPost
<1>3. ASSUME NEW s \in Sems, NEW timeout \in Timeouts, SemWait(s, timeout) PROVE WaitInv'
  <2> DEFINE w == [since |-> now, timeout |-> timeout, until |-> Timespec(timeout)]
  <2>1. now \in Nat /\ timeout \in Nat
    BY SemAssumption DEF WaitInv
  <2>2. Timespec(timeout) \in [tv_sec : Nat, tv_rest : Nat]
    <3>1. /\ now \div Second \in Nat /\ now % Second \in Nat
          /\ timeout \div Second \in Nat /\ timeout % Second \in Nat
      BY <2>1, Division
    <3> QED
      BY <3>1 DEF Timespec
  <2>3. w \in Waits
    BY <2>1, <2>2 DEF Waits
  <2>4. now' = now /\ answer' = answer /\ waiting' = [waiting EXCEPT ![s] = <<w>>]
    BY <1>3 DEF SemWait
  <2>5. WaitTrue(w)
    <3>1. Moment(Timespec(timeout)) = now + timeout
      BY <2>1, TimespecIsEnd
    <3>2. w.since = now /\ w.timeout = timeout /\ w.until = Timespec(timeout)
      OBVIOUS
    <3>3. Moment(w.until) = Moment(Timespec(timeout))
      BY <3>2 DEF Moment
    <3> HIDE DEF w
    <3> QED
      BY <2>1, <3>1, <3>2, <3>3 DEF WaitTrue
  <2> HIDE DEF w
  <2>6. waiting' \in [Sems -> {<<>>} \cup {<<v>> : v \in Waits}]
    BY <2>3, <2>4 DEF WaitInv
  <2>7. \A r \in Sems : waiting'[r] # <<>> => WaitTrue(waiting[r][1])'
    BY <2>4, <2>5 DEF WaitInv, WaitTrue, Moment
  <2> QED
    BY <2>4, <2>6, <2>7 DEF WaitInv, WaitsItsTime
<1>4. ASSUME NEW s \in Sems, SemTakes(s) PROVE WaitInv'
  BY <1>4 DEF SemTakes, WaitInv, WaitTrue, Moment, WaitsItsTime
<1>5. ASSUME NEW s \in Sems, SemTimesOut(s) \/ SemInterrupted(s) PROVE WaitInv'
  <2>1. PICK w \in Waits : waiting[s] = <<w>>
    BY <1>5 DEF SemTimesOut, SemInterrupted, WaitInv
  <2>2. waiting[s][1] = w
    BY <2>1
  <2>3. PICK why \in {"invalid", "expired", "interrupted"} :
            /\ WaitFails(s, why)
            /\ why # "interrupted" => w.timeout > 0
            /\ why = "expired" => Expired(w.until)
    BY <1>5, <2>2 DEF SemTimesOut, SemInterrupted
  <2> DEFINE a == [waited |-> now - w.since, timeout |-> w.timeout, why |-> why]
  <2>4. now' = now /\ waiting' = [waiting EXCEPT ![s] = <<>>] /\ answer' = [answer EXCEPT ![s] = <<a>>]
    BY <2>2, <2>3 DEF WaitFails
  <2>5. WaitTrue(w) /\ now \in Nat /\ w.since \in Nat /\ w.timeout \in Nat
    <3>1. WaitTrue(waiting[s][1])
      BY <2>1 DEF WaitInv
    <3>2. WaitTrue(w)
      BY <2>2, <3>1 DEF WaitTrue, Moment
    <3> QED
      BY <3>2 DEF WaitInv, Waits
  <2>6. a \in [waited : Nat, timeout : Nat, why : {"invalid", "expired", "interrupted"}]
    BY <2>5 DEF WaitTrue
  <2>7. \/ a.why = "interrupted"
        \/ a.timeout > 0 /\ (a.why = "expired" => a.waited >= a.timeout)
    BY <2>3, <2>5 DEF WaitTrue, Expired, Moment
  <2> HIDE DEF a
  <2>8. answer' \in [Sems -> {<<>>} \cup {<<b>> : b \in
                      [waited : Nat, timeout : Nat, why : {"invalid", "expired", "interrupted"}]}]
    BY <2>4, <2>6 DEF WaitInv
  <2>9. WaitsItsTime'
    BY <2>4, <2>7 DEF WaitInv, WaitsItsTime
  <2>10. /\ waiting' \in [Sems -> {<<>>} \cup {<<v>> : v \in Waits}]
         /\ \A r \in Sems : waiting'[r] # <<>> => WaitTrue(waiting[r][1])'
    BY <2>4 DEF WaitInv, WaitTrue, Moment
  <2> QED
    BY <2>4, <2>5, <2>8, <2>9, <2>10 DEF WaitInv
<1>6. CASE UNCHANGED semVars
  BY <1>6, WaitKept DEF semVars
<1> QED
  BY <1>1, <1>2, <1>3, <1>4, <1>5, <1>6 DEF SemNext

\* In every behaviour a Wait that fails has waited its timeout, unless a signal
\* handler interrupted it, or the sum of the milliseconds had to be carried and
\* was not.
THEOREM FailedWaitsWaited == SemSpec => []WaitsItsTime
<1>1. WaitInv => WaitsItsTime
  BY DEF WaitInv
<1> QED
  BY <1>1, WaitInit, WaitStep, PTL DEF SemSpec

-----------------------------------------------------------------------------
(* The UDP socket *)

UdpSockets == [alive : BOOLEAN, m_cb : BOOLEAN, _fd : {"none", "open"},
               events : BOOLEAN, recving : BOOLEAN]

\* A socket that was not opened has no DoRecv pending.
ArmedInv ==
    /\ udp \in UdpSockets
    /\ interest \in {"none", "idle", "in"}
    /\ modFailed \in BOOLEAN
    /\ ~udp.m_cb => ~udp.recving
    /\ UdpArmed

LEMMA ArmedInit == UdpInit => ArmedInv
<1> SUFFICES ASSUME UdpInit PROVE ArmedInv
  OBVIOUS
<1>1. NewUdp \in UdpSockets /\ ~NewUdp.recving
  BY DEF NewUdp, UdpSockets
<1>2. modFailed \in BOOLEAN
  BY Zenon DEF UdpInit
<1> QED
  BY <1>1, <1>2 DEF UdpInit, ArmedInv, UdpArmed

LEMMA ArmedStep == ArmedInv /\ [UdpNext]_udpVars => ArmedInv'
<1> SUFFICES ASSUME ArmedInv, [UdpNext]_udpVars PROVE ArmedInv'
  OBVIOUS
<1> USE DEF ArmedInv, UdpArmed, UdpSockets
<1>1. CASE \/ Arrives \/ UdpWait \/ UdpIgnores \/ UdpReadsEmpty \/ UdpCallbackReturns
           \/ UdpReadFreed \/ UNCHANGED udpVars
  <2>1. UNCHANGED <<udp, interest, modFailed>>
    BY <1>1 DEF Arrives, UdpWait, UdpIgnores, UdpReadsEmpty, UdpCallbackReturns,
                UdpReadFreed, udpVars
  <2> QED
    BY <2>1
<1>2. CASE UdpOpen
  BY <1>2 DEF UdpOpen
<1>3. CASE UdpRecv
  BY <1>3 DEF UdpRecv
<1>4. CASE UdpDestroy
  BY <1>4 DEF UdpDestroy
<1>5. CASE UdpReads
  BY <1>5 DEF UdpReads, Handling
<1> QED
  BY <1>1, <1>2, <1>3, <1>4, <1>5 DEF UdpNext

\* In every behaviour in which EPOLLMod does not fail, the kernel looks for
\* input of the socket exactly while a DoRecv is pending.
THEOREM ArmedWhileReceiving == UdpSpec => []UdpArmed
<1>1. ArmedInv => UdpArmed
  BY DEF ArmedInv
<1> QED
  BY <1>1, ArmedInit, ArmedStep, PTL DEF UdpSpec

-----------------------------------------------------------------------------
(* Division and rest *)

\* Division by d and what is left.
LEMMA Divided ==
  ASSUME NEW n \in Nat, NEW d \in Nat \ {0}
  PROVE  /\ n \div d \in Nat /\ n % d \in Nat /\ n % d < d
         /\ n = (n \div d) * d + (n % d)
<1>1. n \div d \in Nat /\ n % d \in Nat /\ n % d < d
  OBVIOUS
<1>2. (n \div d) * d + (n % d) = n
  OBVIOUS
<1> QED
  BY <1>1, <1>2

LEMMA AtLeastOnce ==
  ASSUME NEW a \in Nat, NEW b \in Nat, a < b, NEW d \in Nat \ {0}
  PROVE  /\ a * d \in Nat /\ b * d \in Nat /\ a * d + d <= b * d
<1>1. (a + 1) * d <= b * d
  OBVIOUS
<1>2. (a + 1) * d = a * d + d
  OBVIOUS
<1> QED
  BY <1>1, <1>2

LEMMA RestUnique ==
  ASSUME NEW q \in Nat, NEW d \in Nat \ {0}, NEW r \in Nat, r < d,
         NEW n \in Nat, n = q * d + r
  PROVE  n % d = r
<1> DEFINE p == n \div d
           s == n % d
<1>1. p \in Nat /\ s \in Nat /\ s < d /\ n = p * d + s
  BY Divided
<1> HIDE DEF p
<1>2. p * d \in Nat /\ q * d \in Nat
  BY <1>1
<1> HIDE DEF s
<1>3. CASE p < q
  BY <1>1, <1>2, <1>3, AtLeastOnce
<1>4. CASE q < p
  BY <1>1, <1>2, <1>4, AtLeastOnce
<1>5. CASE p = q
  BY <1>1, <1>2, <1>5 DEF s
<1> QED
  BY <1>1, <1>3, <1>4, <1>5

LEMMA SumTimes ==
  ASSUME NEW a \in Nat, NEW b \in Nat, NEW c \in Nat
  PROVE  (a + b) * c = a * c + b * c
OBVIOUS

\* What is left of a sum, when one of its terms was divided before.
LEMMA RestOfSum ==
  ASSUME NEW a \in Nat, NEW b \in Nat, NEW d \in Nat \ {0}
  PROVE  ((a % d) + b) % d = (a + b) % d
<1> DEFINE p == a \div d
           x == a % d
           q == (x + b) \div d
           y == (x + b) % d
<1>1. p \in Nat /\ x \in Nat /\ a = p * d + x
  BY Divided
<1>2. x + b \in Nat
  BY <1>1
<1> HIDE DEF p, x
<1>3. q \in Nat /\ y \in Nat /\ y < d /\ x + b = q * d + y
  BY <1>2, Divided
<1> HIDE DEF q, y
<1>4. (p + q) * d = p * d + q * d /\ p * d \in Nat /\ q * d \in Nat
  BY <1>1, <1>3, SumTimes
<1>5. a + b = (p + q) * d + y
  BY <1>1, <1>3, <1>4
<1>6. p + q \in Nat /\ a + b \in Nat
  BY <1>1, <1>3
<1>7. (a + b) % d = y
  BY <1>3, <1>5, <1>6, RestUnique
<1> QED
  BY <1>7 DEF x, y

\* Two numbers closer than d leave different rests.
LEMMA RestsDiffer ==
  ASSUME NEW a \in Nat, NEW b \in Nat, a < b, NEW d \in Nat \ {0}, b < a + d
  PROVE  a % d # b % d
<1> SUFFICES ASSUME a % d = b % d PROVE FALSE
  OBVIOUS
<1> DEFINE p == a \div d
           q == b \div d
           x == a % d
<1>1. p \in Nat /\ x \in Nat /\ a = p * d + x
  BY Divided
<1>2. q \in Nat /\ b = q * d + x
  BY Divided
<1> HIDE DEF p, q, x
<1>3. p * d \in Nat /\ q * d \in Nat
  BY <1>1, <1>2
<1>4. CASE p < q
  BY <1>1, <1>2, <1>3, <1>4, AtLeastOnce
<1>5. CASE q < p
  BY <1>1, <1>2, <1>3, <1>5, AtLeastOnce
<1>6. CASE p = q
  BY <1>1, <1>2, <1>3, <1>6
<1> QED
  BY <1>1, <1>2, <1>4, <1>5, <1>6

LEMMA RestSmall ==
  ASSUME NEW a \in Nat, NEW d \in Nat \ {0}
  PROVE  /\ a < d => a % d = a
         /\ d <= a /\ a < d + d => a % d = a - d
         /\ d <= a => a % d = (a - d) % d
<1>1. ASSUME a < d PROVE a % d = a
  BY <1>1
<1>2. ASSUME d <= a PROVE a % d = (a - d) % d
  <2> DEFINE b == a - d
             q == b \div d
             y == b % d
  <2>1. b \in Nat /\ a = b + d
    BY <1>2
  <2> HIDE DEF b
  <2>2. q \in Nat /\ y \in Nat /\ y < d /\ b = q * d + y
    BY <2>1, Divided
  <2> HIDE DEF q, y
  <2>3. (q + 1) * d = q * d + 1 * d /\ 1 * d = d /\ q * d \in Nat
    BY <2>2, SumTimes
  <2>4. a = (q + 1) * d + y /\ q + 1 \in Nat
    BY <2>1, <2>2, <2>3
  <2>5. a % d = y
    BY <2>2, <2>4, RestUnique
  <2> QED
    BY <2>5 DEF y, b
<1>3. ASSUME d <= a, a < d + d PROVE a % d = a - d
  <2>1. a - d \in Nat /\ a - d < d
    BY <1>3
  <2> QED
    BY <1>2, <1>3, <2>1
<1> QED
  BY <1>1, <1>2, <1>3

\* A multiple of d that is added changes no rest.
LEMMA RestOfMultiple ==
  ASSUME NEW a \in Nat, NEW w \in Nat, NEW d \in Nat \ {0}, w % d = 0
  PROVE  (a + w) % d = a % d
<1>1. ((w % d) + a) % d = (w + a) % d
  BY RestOfSum
<1>2. 0 + a = a /\ w + a = a + w
  OBVIOUS
<1> QED
  BY <1>1, <1>2

-----------------------------------------------------------------------------
(* The circular queue *)

Held == Minus(m_wtlen, m_rdlen)

\* What is in the buffer between the two counters are the elements to come.
QueInv ==
    /\ m_maxlen \in Capacities
    /\ m_rdlen \in 0 .. Wrap - 1 /\ m_wtlen \in 0 .. Wrap - 1
    /\ pushed \in 0 .. Values - 1 /\ popped \in 0 .. Values - 1
    /\ DOMAIN m_vct = 0 .. m_maxlen - 1
    /\ straight \in BOOLEAN /\ jumped \in BOOLEAN
    /\ ~jumped =>
        /\ straight /\ Held < m_maxlen
        /\ Wrap % m_maxlen # 0 => m_rdlen <= m_wtlen
        /\ pushed = (popped + Held) % Values
        /\ \A k \in Nat : k < Held =>
             m_vct[(m_rdlen + k) % m_maxlen] = (popped + k) % Values


\* What a caller may push at once fits beside a full queue below 2^32.
SumsFit == \A c \in Capacities : c + MaxPush <= Wrap

LEMMA QueConstants ==
  /\ Wrap \in Nat \ {0} /\ Values \in Nat \ {0} /\ MaxPush \in Nat \ {0}
  /\ \A c \in Capacities : c \in Nat \ {0} /\ c < Wrap
BY QueAssumption

LEMMA MinusIs ==
  ASSUME NEW a \in 0 .. Wrap - 1, NEW b \in 0 .. Wrap - 1
  PROVE  Minus(a, b) = IF b <= a THEN a - b ELSE a + Wrap - b
<1>1. a + Wrap - b \in Nat /\ a + Wrap - b < Wrap + Wrap
  BY QueConstants
<1>2. a \in Nat /\ b \in Nat /\ a < Wrap /\ b < Wrap
  BY QueConstants
<1> DEFINE n == a + Wrap - b
<1>3. /\ n < Wrap => n % Wrap = n
      /\ Wrap <= n /\ n < Wrap + Wrap => n % Wrap = n - Wrap
  BY <1>1, QueConstants, RestSmall
<1>4. Minus(a, b) = n % Wrap
  BY DEF Minus
<1> QED
  BY <1>1, <1>2, <1>3, <1>4, QueConstants

LEMMA PlusIs ==
  ASSUME NEW a \in 0 .. Wrap - 1, NEW n \in Nat, n <= Wrap
  PROVE  /\ Plus(a, n) = IF a + n < Wrap THEN a + n ELSE a + n - Wrap
         /\ Plus(a, n) \in 0 .. Wrap - 1
<1>1. a + n \in Nat /\ a + n < Wrap + Wrap
  BY QueConstants
<1>2. /\ a + n < Wrap => (a + n) % Wrap = a + n
      /\ Wrap <= a + n /\ a + n < Wrap + Wrap => (a + n) % Wrap = (a + n) - Wrap
  <2> DEFINE x == a + n
  <2>1. x \in Nat
    BY <1>1
  <2> HIDE DEF x
  <2>2. /\ x < Wrap => x % Wrap = x
        /\ Wrap <= x /\ x < Wrap + Wrap => x % Wrap = x - Wrap
    BY <2>1, QueConstants, RestSmall
  <2> QED
    BY <2>2, Zenon DEF x
<1> QED
  BY <1>1, <1>2, QueConstants DEF Plus

LEMMA PlacesAre ==
  ASSUME NEW c \in Nat, NEW len \in Nat, m_maxlen \in Nat \ {0}, NEW k \in 1 .. len
  PROVE  Places(c, len)[k] = (c + (k - 1)) % m_maxlen
<1>1. k - 1 \in Nat
  OBVIOUS
<1>2. ((c % m_maxlen) + (k - 1)) % m_maxlen = (c + (k - 1)) % m_maxlen
  BY <1>1, RestOfSum
<1>3. c % m_maxlen \in Nat
  BY Divided
<1>4. (c % m_maxlen) + k - 1 = (c % m_maxlen) + (k - 1)
  BY <1>3
<1> QED
  BY <1>2, <1>4 DEF Places

\* The number of elements in the queue, and where the counters are.
LEMMA HeldIs ==
  ASSUME QueInv
  PROVE  /\ m_maxlen \in Nat \ {0} /\ m_maxlen < Wrap
         /\ m_rdlen \in Nat /\ m_wtlen \in Nat /\ m_rdlen < Wrap /\ m_wtlen < Wrap
         /\ Held = (IF m_rdlen <= m_wtlen THEN m_wtlen - m_rdlen
                    ELSE m_wtlen + Wrap - m_rdlen)
         /\ Held \in Nat /\ Held < Wrap
         /\ pushed \in Nat /\ popped \in Nat
<1>1. m_maxlen \in Nat \ {0} /\ m_maxlen < Wrap
  BY QueConstants DEF QueInv
<1>2. m_rdlen \in Nat /\ m_wtlen \in Nat /\ m_rdlen < Wrap /\ m_wtlen < Wrap
  BY QueConstants DEF QueInv
<1>3. Held = IF m_rdlen <= m_wtlen THEN m_wtlen - m_rdlen ELSE m_wtlen + Wrap - m_rdlen
  BY MinusIs DEF QueInv, Held
<1>4. pushed \in Nat /\ popped \in Nat
  BY QueConstants DEF QueInv
<1> QED
  BY <1>1, <1>2, <1>3, <1>4, QueConstants

\* The write counter is as far on as the read counter and what is held,
\* as far as the place in the buffer is concerned.
LEMMA WritePlace ==
  ASSUME QueInv, ~jumped, NEW j \in Nat
  PROVE  (m_wtlen + j) % m_maxlen = (m_rdlen + Held + j) % m_maxlen
<1>1. CASE m_rdlen <= m_wtlen
  <2>1. m_rdlen + Held = m_wtlen
    BY <1>1, HeldIs
  <2> QED
    BY <2>1
<1>2. CASE ~(m_rdlen <= m_wtlen)
  <2>1. m_rdlen + Held + j = (m_wtlen + j) + Wrap
    BY <1>2, HeldIs, QueConstants
  <2>2. Wrap % m_maxlen = 0
    BY <1>2 DEF QueInv
  <2>3. m_wtlen + j \in Nat /\ m_maxlen \in Nat \ {0}
    BY HeldIs
  <2> QED
    BY <2>1, <2>2, <2>3, QueConstants, RestOfMultiple
<1> QED
  BY <1>1, <1>2

LEMMA QueInitInv == QueInit => QueInv
<1> SUFFICES ASSUME QueInit PROVE QueInv
  OBVIOUS
<1>1. /\ m_maxlen \in Capacities /\ m_rdlen = 0 /\ m_wtlen = 0
      /\ pushed = 0 /\ popped = 0 /\ DOMAIN m_vct = 0 .. m_maxlen - 1
  BY DEF QueInit
<1>2. straight = TRUE /\ jumped = FALSE
  BY Zenon DEF QueInit
<1>3. Held = 0
  BY <1>1, MinusIs, QueConstants DEF Held
<1>4. 0 = (0 + 0) % Values
  BY QueConstants, RestSmall
<1>5. \A k \in Nat : ~(k < Held)
  BY <1>3
<1>6. 0 \in 0 .. Wrap - 1 /\ 0 \in 0 .. Values - 1 /\ 0 < m_maxlen /\ 0 <= 0
  BY <1>1, QueConstants
<1>7. straight \in BOOLEAN /\ jumped \in BOOLEAN
  BY <1>2, Zenon
<1> QED
  BY <1>1, <1>2, <1>3, <1>4, <1>5, <1>6, <1>7 DEF QueInv

LEMMA QuePush ==
  ASSUME SumsFit, QueInv, NEW len \in 1 .. MaxPush, PushData(len)
  PROVE  QueInv'
<1> DEFINE m == m_maxlen
           h == Held
<1>0. /\ len \in Nat /\ len > 0 /\ len <= MaxPush /\ len < Wrap /\ m + len <= Wrap
  <2>1. m + MaxPush <= Wrap /\ MaxPush \in Nat
    BY QueConstants DEF SumsFit, QueInv
  <2> QED
    BY <2>1, HeldIs, QueConstants
<1>1. /\ m_wtlen' = Plus(m_wtlen, len) /\ pushed' = (pushed + len) % Values
      /\ UNCHANGED <<m_maxlen, m_rdlen, popped, straight>>
  BY DEF PushData
<1>2. DOMAIN m_vct' = DOMAIN m_vct
  BY DEF PushData
<1>3. /\ m_wtlen' = IF m_wtlen + len < Wrap THEN m_wtlen + len ELSE m_wtlen + len - Wrap
      /\ m_wtlen' \in 0 .. Wrap - 1
  <2>1. m_wtlen \in 0 .. Wrap - 1 /\ len <= Wrap
    BY <1>0, QueConstants DEF QueInv
  <2> QED
    BY <1>0, <1>1, <2>1, PlusIs
<1>4. pushed' \in 0 .. Values - 1
  <2>1. pushed + len \in Nat
    BY <1>0, HeldIs
  <2>2. (pushed + len) % Values \in Nat /\ (pushed + len) % Values < Values
    BY <2>1, QueConstants, Divided
  <2> QED
    BY <1>1, <2>2, QueConstants
<1>5. jumped' \in BOOLEAN /\ (~jumped' => ~jumped /\ ~Jumps(m_wtlen, len))
  <2>1. jumped' = (jumped \/ Jumps(m_wtlen, len))
    BY Zenon DEF PushData
  <2>2. CASE jumped \/ Jumps(m_wtlen, len)
    BY <2>1, <2>2, Zenon
  <2>3. CASE ~(jumped \/ Jumps(m_wtlen, len))
    BY <2>1, <2>3, Zenon
  <2> QED
    BY <2>2, <2>3, Zenon
<1>6. ASSUME ~jumped'
      PROVE  /\ straight' /\ Held' < m_maxlen'
             /\ (Wrap % m_maxlen # 0 => m_rdlen <= m_wtlen)'
             /\ (pushed = (popped + Held) % Values)'
             /\ (\A k \in Nat : k < Held =>
                   m_vct[(m_rdlen + k) % m_maxlen] = (popped + k) % Values)'
  <2>0. m \in Nat \ {0} /\ h \in Nat /\ m_rdlen \in Nat /\ m_wtlen \in Nat
    BY HeldIs
  <2>1. ~jumped /\ (m_wtlen + len < Wrap \/ Wrap % m = 0)
    BY <1>0, <1>5, <1>6, <2>0, QueConstants DEF Jumps
  <2>2. straight /\ h < m
    BY <2>1 DEF QueInv
  <2>3. h + len < Wrap
    BY <1>0, <2>0, <2>2, QueConstants
  <2>4. Held' = h + len
    <3>1. Held' = IF m_rdlen <= m_wtlen' THEN m_wtlen' - m_rdlen
                  ELSE m_wtlen' + Wrap - m_rdlen
      BY <1>1, <1>3, MinusIs DEF Held, QueInv
    <3>2. h = IF m_rdlen <= m_wtlen THEN m_wtlen - m_rdlen ELSE m_wtlen + Wrap - m_rdlen
      BY HeldIs
    <3>3. m_rdlen < Wrap /\ m_wtlen < Wrap
      BY HeldIs
    <3> HIDE DEF h, m
    <3> QED
      BY <1>0, <1>3, <2>0, <2>3, <3>1, <3>2, <3>3, QueConstants
  <2>5. h + len < m
    <3>1. Held' < m
      BY <1>1 DEF PushData, Room, Held
    <3> QED
      BY <2>4, <3>1
  <2>6. Wrap % m # 0 => m_rdlen <= m_wtlen'
    <3>1. ASSUME Wrap % m # 0 PROVE m_rdlen <= m_wtlen'
      <4>1. m_rdlen <= m_wtlen
        BY <2>1, <3>1 DEF QueInv
      <4> QED
        BY <1>0, <1>3, <2>0, <2>1, <3>1, <4>1
    <3> QED
      BY <3>1
  <2>7. pushed' = (popped + (h + len)) % Values
    <3>1. pushed = (popped + h) % Values
      BY <2>1 DEF QueInv
    <3>2. popped + h \in Nat /\ popped \in Nat
      BY <2>0, HeldIs
    <3>3. (((popped + h) % Values) + len) % Values = ((popped + h) + len) % Values
      BY <1>0, <3>2, QueConstants, RestOfSum
    <3>4. (popped + h) + len = popped + (h + len)
      BY <1>0, <2>0, <3>2
    <3> QED
      BY <1>1, <3>1, <3>3, <3>4
  <2> DEFINE place == Places(m_wtlen, len)
  <2>8. \A k \in 1 .. len : place[k] = (m_rdlen + h + (k - 1)) % m
    <3> SUFFICES ASSUME NEW k \in 1 .. len
                 PROVE  place[k] = (m_rdlen + h + (k - 1)) % m
      OBVIOUS
    <3>1. k - 1 \in Nat
      BY <1>0
    <3>2. place[k] = (m_wtlen + (k - 1)) % m
      BY <1>0, <2>0, PlacesAre
    <3>3. (m_wtlen + (k - 1)) % m = (m_rdlen + h + (k - 1)) % m
      BY <2>1, <3>1, WritePlace
    <3> QED
      BY <3>2, <3>3
  <2>9. \A i \in 0 .. m - 1 :
          m_vct'[i] = IF \E k \in 1 .. len : place[k] = i
                      THEN (pushed + (CHOOSE k \in 1 .. len : place[k] = i) - 1) % Values
                      ELSE m_vct[i]
    BY DEF PushData, QueInv
  <2> HIDE DEF place, h, m
  <2>10. ASSUME NEW k \in Nat, k < h + len
         PROVE  m_vct'[(m_rdlen + k) % m] = (popped + k) % Values
    <3> DEFINE i == (m_rdlen + k) % m
    <3>1. i \in 0 .. m - 1
      <4>1. m_rdlen + k \in Nat
        BY <2>0
      <4>2. i \in Nat /\ i < m
        BY <2>0, <4>1, Divided
      <4> QED
        BY <2>0, <4>2
    <3>2. CASE k < h
      <4>1. ASSUME NEW kk \in 1 .. len PROVE place[kk] # i
        <5> DEFINE a == m_rdlen + k
                   b == m_rdlen + h + (kk - 1)
        <5>1. a \in Nat /\ b \in Nat /\ a < b /\ b < a + m
          BY <1>0, <2>0, <2>5, <3>2
        <5> HIDE DEF a, b
        <5>2. a % m # b % m
          BY <2>0, <5>1, RestsDiffer
        <5> QED
          BY <2>8, <5>2 DEF a, b
      <4>2. m_vct'[i] = m_vct[i]
        BY <2>9, <3>1, <4>1
      <4>3. m_vct[i] = (popped + k) % Values
        BY <2>1, <3>2 DEF QueInv, m, h
      <4> QED
        BY <4>2, <4>3
    <3>3. CASE ~(k < h)
      <4> DEFINE kk == k - h + 1
      <4>1. kk \in 1 .. len /\ kk - 1 \in Nat /\ m_rdlen + h + (kk - 1) = m_rdlen + k
        BY <1>0, <2>0, <2>10, <3>3
      <4>2. place[kk] = i
        BY <2>8, <4>1
      <4> HIDE DEF kk
      <4>3. ASSUME NEW x \in 1 .. len, place[x] = i PROVE x = kk
        <5> DEFINE a == m_rdlen + h + (x - 1)
                   b == m_rdlen + h + (kk - 1)
        <5>1. /\ a \in Nat /\ b \in Nat /\ a < b + m /\ b < a + m
              /\ a = b => x = kk
          BY <1>0, <2>0, <2>5, <4>1
        <5>2. a % m = b % m
          BY <2>8, <4>1, <4>2, <4>3
        <5> HIDE DEF a, b
        <5>3. ~(a < b) /\ ~(b < a)
          BY <2>0, <5>1, <5>2, RestsDiffer
        <5> QED
          BY <5>1, <5>3
      <4>4. (CHOOSE x \in 1 .. len : place[x] = i) = kk
        BY <4>1, <4>2, <4>3
      <4>5. m_vct'[i] = (pushed + kk - 1) % Values
        BY <2>9, <3>1, <4>1, <4>2, <4>4
      <4>6. pushed = (popped + h) % Values
        BY <2>1 DEF QueInv, h
      <4>7. popped + h \in Nat /\ popped \in Nat /\ pushed \in Nat
        BY <2>0, HeldIs
      <4>8. (((popped + h) % Values) + (kk - 1)) % Values
              = ((popped + h) + (kk - 1)) % Values
        BY <4>1, <4>7, QueConstants, RestOfSum
      <4>9. pushed + kk - 1 = pushed + (kk - 1) /\ (popped + h) + (kk - 1) = popped + k
        BY <2>0, <4>1, <4>7 DEF kk
      <4> QED
        BY <4>5, <4>6, <4>8, <4>9
    <3> QED
      BY <3>2, <3>3
  <2> QED
    BY <1>1, <2>2, <2>4, <2>5, <2>6, <2>7, <2>10 DEF m
<1> QED
  BY <1>1, <1>2, <1>3, <1>4, <1>5, <1>6 DEF QueInv

LEMMA QuePop ==
  ASSUME QueInv, NEW asked \in 1 .. MaxPush, PopData(asked)
  PROVE  QueInv'
<1> DEFINE m == m_maxlen
           h == Held
           len == Taken(asked)
<1>0. len \in Nat /\ len <= h /\ len < Wrap
  <2>1. h \in Nat /\ h < Wrap /\ asked \in Nat
    BY HeldIs, QueConstants
  <2>2. len = IF h < asked THEN h ELSE asked
    BY DEF Taken, Held
  <2> HIDE DEF h, len
  <2> QED
    BY <2>1, <2>2, QueConstants
<1>1. /\ m_rdlen' = Plus(m_rdlen, len) /\ popped' = (popped + len) % Values
      /\ UNCHANGED <<m_maxlen, m_vct, m_wtlen, pushed>>
  BY DEF PopData
<1>2. /\ straight' = (straight /\ \A k \in 1 .. len :
                        m_vct[Places(m_rdlen, len)[k]] = (popped + k - 1) % Values)
      /\ jumped' = (jumped \/ Jumps(m_rdlen, len))
  BY Zenon DEF PopData
<1> HIDE DEF len
<1>3. /\ m_rdlen' = IF m_rdlen + len < Wrap THEN m_rdlen + len ELSE m_rdlen + len - Wrap
      /\ m_rdlen' \in 0 .. Wrap - 1
  <2>1. m_rdlen \in 0 .. Wrap - 1 /\ len <= Wrap
    BY <1>0, QueConstants DEF QueInv
  <2> QED
    BY <1>0, <1>1, <2>1, PlusIs
<1>4. popped' \in 0 .. Values - 1
  <2>1. popped + len \in Nat
    BY <1>0, HeldIs
  <2>2. (popped + len) % Values \in Nat /\ (popped + len) % Values < Values
    BY <2>1, QueConstants, Divided
  <2> QED
    BY <1>1, <2>2, QueConstants
<1>5. straight' \in BOOLEAN /\ jumped' \in BOOLEAN
  BY <1>2, Zenon
<1>6. ~jumped' => ~jumped /\ ~Jumps(m_rdlen, len)
  BY <1>2, Zenon
<1>7. ASSUME ~jumped'
      PROVE  /\ straight' /\ Held' < m_maxlen'
             /\ (Wrap % m_maxlen # 0 => m_rdlen <= m_wtlen)'
             /\ (pushed = (popped + Held) % Values)'
             /\ (\A k \in Nat : k < Held =>
                   m_vct[(m_rdlen + k) % m_maxlen] = (popped + k) % Values)'
  <2>0. /\ m \in Nat \ {0} /\ h \in Nat /\ m_rdlen \in Nat /\ m_wtlen \in Nat
        /\ popped \in Nat /\ m_rdlen < Wrap /\ m_wtlen < Wrap
    BY HeldIs
  <2>1. ~jumped /\ (m_rdlen + len < Wrap \/ Wrap % m = 0)
    BY <1>0, <1>6, <1>7, <2>0, QueConstants DEF Jumps
  <2>2. straight /\ h < m /\ (Wrap % m # 0 => m_rdlen <= m_wtlen)
    BY <2>1 DEF QueInv
  <2>3. h = IF m_rdlen <= m_wtlen THEN m_wtlen - m_rdlen ELSE m_wtlen + Wrap - m_rdlen
    BY HeldIs
  <2>4. \A k \in Nat : k < h => m_vct[(m_rdlen + k) % m] = (popped + k) % Values
    BY <2>1 DEF QueInv
  <2>5. Held' = h - len
    <3>1. Held' = IF m_rdlen' <= m_wtlen THEN m_wtlen - m_rdlen'
                  ELSE m_wtlen + Wrap - m_rdlen'
      BY <1>1, <1>3, MinusIs DEF Held, QueInv
    <3> HIDE DEF h, m
    <3> QED
      BY <1>0, <1>3, <2>0, <2>3, <3>1, QueConstants
  <2>6. straight'
    <3> SUFFICES ASSUME NEW k \in 1 .. len
                 PROVE  m_vct[Places(m_rdlen, len)[k]] = (popped + k - 1) % Values
      BY <1>2, <2>2, Zenon
    <3>1. k - 1 \in Nat /\ k - 1 < h /\ popped + k - 1 = popped + (k - 1)
      BY <1>0, <2>0
    <3>2. Places(m_rdlen, len)[k] = (m_rdlen + (k - 1)) % m
      BY <1>0, <2>0, PlacesAre
    <3> QED
      BY <2>4, <3>1, <3>2
  <2>7. Wrap % m # 0 => m_rdlen' <= m_wtlen'
    <3> HIDE DEF h, m
    <3> QED
      BY <1>0, <1>1, <1>3, <2>0, <2>1, <2>2, <2>3
  <2>8. pushed' = (popped' + Held') % Values
    <3>1. (((popped + len) % Values) + (h - len)) % Values
            = ((popped + len) + (h - len)) % Values
      <4>1. popped + len \in Nat /\ h - len \in Nat
        BY <1>0, <2>0
      <4> QED
        BY <4>1, QueConstants, RestOfSum
    <3>2. (popped + len) + (h - len) = popped + h
      BY <1>0, <2>0
    <3>3. pushed = (popped + h) % Values
      BY <2>1 DEF QueInv
    <3> QED
      BY <1>1, <2>5, <3>1, <3>2, <3>3
  <2>9. ASSUME NEW k \in Nat, k < h - len
        PROVE  m_vct[(m_rdlen' + k) % m] = (popped' + k) % Values
    <3>1. len + k \in Nat /\ len + k < h /\ (popped + len) + k = popped + (len + k)
      BY <1>0, <2>0, <2>9
    <3>2. m_vct[(m_rdlen + (len + k)) % m] = (popped + (len + k)) % Values
      BY <2>4, <3>1
    <3>3. (popped' + k) % Values = (popped + (len + k)) % Values
      <4>1. popped + len \in Nat
        BY <1>0, <2>0
      <4>2. (((popped + len) % Values) + k) % Values = ((popped + len) + k) % Values
        BY <4>1, QueConstants, RestOfSum
      <4> QED
        BY <1>1, <3>1, <4>2
    <3>4. (m_rdlen' + k) % m = (m_rdlen + (len + k)) % m
      <4>1. CASE m_rdlen + len < Wrap
        <5>1. m_rdlen' + k = m_rdlen + (len + k)
          BY <1>0, <1>3, <2>0, <4>1
        <5> QED
          BY <5>1
      <4>2. CASE ~(m_rdlen + len < Wrap)
        <5>1. Wrap % m = 0
          BY <2>1, <4>2
        <5>2. m_rdlen' + k \in Nat /\ (m_rdlen' + k) + Wrap = m_rdlen + (len + k)
          BY <1>0, <1>3, <2>0, <4>2, QueConstants
        <5>3. ((m_rdlen' + k) + Wrap) % m = (m_rdlen' + k) % m
          BY <2>0, <5>1, <5>2, QueConstants, RestOfMultiple
        <5> QED
          BY <5>2, <5>3
      <4> QED
        BY <4>1, <4>2
    <3> QED
      BY <3>2, <3>3, <3>4
  <2>10. Held' < m_maxlen'
    BY <1>0, <1>1, <2>0, <2>2, <2>5
  <2> QED
    BY <1>1, <2>5, <2>6, <2>7, <2>8, <2>9, <2>10
<1> QED
  BY <1>1, <1>3, <1>4, <1>5, <1>7 DEF QueInv

LEMMA QueCleared ==
  ASSUME QueInv, QueClear
  PROVE  QueInv'
<1>1. /\ m_rdlen' = 0 /\ m_wtlen' = 0 /\ popped' = pushed
      /\ UNCHANGED <<m_maxlen, m_vct, pushed>>
  BY DEF QueClear
<1>2. straight' = TRUE /\ jumped' = FALSE
  BY Zenon DEF QueClear
<1>3. Held' = 0
  <2>1. Minus(0, 0) = 0
    BY MinusIs, QueConstants
  <2> QED
    BY <1>1, <2>1 DEF Held, Minus
<1>4. 0 \in 0 .. Wrap - 1 /\ 0 < m_maxlen /\ 0 <= 0
  BY HeldIs, QueConstants
<1>5. pushed = (pushed + 0) % Values /\ pushed \in 0 .. Values - 1
  <2>1. pushed \in 0 .. Values - 1
    BY DEF QueInv
  <2>2. pushed \in Nat /\ pushed < Values /\ pushed + 0 = pushed
    BY <2>1, QueConstants
  <2> QED
    BY <2>1, <2>2, QueConstants, RestSmall
<1>6. \A k \in Nat : ~(k < 0)
  OBVIOUS
<1>7. straight' \in BOOLEAN /\ jumped' \in BOOLEAN
  BY <1>2, Zenon
<1> QED
  BY <1>1, <1>2, <1>3, <1>4, <1>5, <1>6, <1>7 DEF QueInv

\* For any capacities, any number of elements pushed and popped at once and any
\* width of the counters: as long as what is pushed at once fits beside a full
\* queue below 2^32, elements come out in order, each once, and the queue never
\* holds as many as its capacity, until a counter wraps at 2^32 with a capacity
\* that does not divide it.
THEOREM ComesOutInOrder == SumsFit => (QueSpec => []QueFifo)
<1> SUFFICES ASSUME SumsFit PROVE QueSpec => []QueFifo
  OBVIOUS
<1>1. QueInv /\ [QueNext]_queVars => QueInv'
  <2> SUFFICES ASSUME QueInv, [QueNext]_queVars PROVE QueInv'
    OBVIOUS
  <2>1. CASE UNCHANGED queVars
    BY <2>1 DEF queVars, QueInv, Held
  <2> QED
    BY <2>1, QuePush, QuePop, QueCleared DEF QueNext
<1>2. QueInv => QueFifo
  <2> SUFFICES ASSUME QueInv, ~jumped
               PROVE  (Held % Values) = (pushed + Values - popped) % Values
    BY DEF QueInv, QueFifo, Held
  <2>1. pushed = (popped + Held) % Values
    BY DEF QueInv
  <2>2. popped \in Nat /\ pushed \in Nat /\ Held \in Nat /\ popped < Values
    BY HeldIs, QueConstants DEF QueInv
  <2> DEFINE x == Values - popped
             a == popped + Held
  <2>3. x \in Nat /\ a \in Nat /\ pushed + Values - popped = pushed + x
        /\ a + x = Held + Values
    BY <2>2, QueConstants
  <2> HIDE DEF x
  <2>4. ((a % Values) + x) % Values = (a + x) % Values
    BY <2>3, QueConstants, RestOfSum
  <2>5. (Held + Values) % Values = Held % Values
    <3>1. Values % Values = 0
      <4>1. Values = 1 * Values + 0 /\ 0 < Values /\ Values \in Nat
        BY QueConstants
      <4>2. 0 \in Nat /\ 1 \in Nat
        OBVIOUS
      <4> QED
        BY <4>1, <4>2, QueConstants, RestUnique
    <3>2. ((Values % Values) + Held) % Values = (Values + Held) % Values
      BY <2>2, QueConstants, RestOfSum
    <3>3. 0 + Held = Held /\ Values + Held = Held + Values
      BY <2>2, QueConstants
    <3> QED
      BY <3>1, <3>2, <3>3
  <2> QED
    BY <2>1, <2>3, <2>4, <2>5
<1> QED
  BY <1>1, <1>2, QueInitInv, PTL DEF QueSpec

-----------------------------------------------------------------------------
(* The object pools *)

Uses == {"new", "free", "constructing", "object", "destroying", "lost"}
InUse == {"constructing", "object", "destroying", "lost"}

PoolTypes ==
    /\ kind \in {"CObjectPool", "CObjectPool2"}
    /\ next \in [Node -> Node \cup {NULL}]
    /\ m_pHead \in Node /\ m_pTail \in Node
    /\ m_nUseSize \in Nat /\ m_nFreSize \in Nat /\ m_nTotSize \in Nat
    /\ m_objs \in Seq(Node)
    /\ use \in [Node -> Uses]
    /\ stack \in Seq(Node)

\* l lists the free nodes in the order of the links.
Path(l) ==
    /\ l \in [1..(m_nFreSize + 2) -> Node]
    /\ l[1] = m_pHead /\ l[m_nFreSize + 2] = m_pTail
    /\ \A i \in 1..(m_nFreSize + 1) : next[l[i]] = l[i + 1]
    /\ \A i, j \in 1..(m_nFreSize + 2) : l[i] = l[j] => i = j
    /\ \A n \in Node : use[n] = "free" <=> \E i \in 1..(m_nFreSize + 2) : l[i] = n

Threaded ==
    /\ \E l \in [1..(m_nFreSize + 2) -> Node] : Path(l)
    /\ next[m_pTail] = NULL
    /\ m_nUseSize = Cardinality(With(InUse))
    /\ m_nTotSize = m_nUseSize + m_nFreSize

\* The std::list of CObjectPool2 holds each free node once.
Listed ==
    /\ \A i, j \in 1..Len(m_objs) : m_objs[i] = m_objs[j] => i = j
    /\ \A n \in Node : use[n] = "free" <=> \E i \in 1..Len(m_objs) : m_objs[i] = n

PoolInv ==
    /\ PoolTypes
    /\ kind = "CObjectPool" => Threaded
    /\ kind = "CObjectPool2" => Listed

LEMMA NodesFinite == IsFiniteSet(Node) /\ NULL \notin Node /\ 1 \in Node /\ 2 \in Node
<1>1. MaxNodes \in Nat /\ MaxNodes >= 3
  BY PoolAssumption
<1> QED
  BY <1>1, FS_Interval DEF Node, NULL

LEMMA WithFinite ==
  ASSUME NEW S PROVE IsFiniteSet(With(S))
BY NodesFinite, FS_Subset DEF With

\* A list without repetition is as long as the set it lists.
LEMMA ListedCount ==
  ASSUME NEW m \in Nat, NEW S, NEW l \in [1..m -> S],
         \A i, j \in 1..m : l[i] = l[j] => i = j,
         \A x \in S : \E i \in 1..m : l[i] = x
  PROVE  Cardinality(S) = m
<1>1. l \in Bijection(1..m, S)
  BY DEF Bijection, Injection, Surjection, IsInjective
<1>2. IsFiniteSet(1..m) /\ Cardinality(1..m) = m
  BY FS_Interval
<1>3. ExistsBijection(1..m, S)
  BY <1>1 DEF ExistsBijection
<1> QED
  BY <1>2, <1>3, FS_Bijection

LEMMA LeastOf ==
  ASSUME NEW T, T \subseteq Nat, T # {}
  PROVE  \E x \in T : \A y \in T : x <= y
<1> DEFINE R == {ss \in Nat \X Nat : ss[1] < ss[2]}
<1>1. IsWellFoundedOn(R, Nat)
  BY NatLessThanWellFounded DEF OpToRel
<1>2. \E x \in T : \A y \in T : ~(<<y, x>> \in R)
  <2> HIDE DEF R
  <2> QED
    BY <1>1, WFMin
<1>3. \A x, y \in Nat : y < x => <<y, x>> \in R
  OBVIOUS
<1>4. PICK x \in T : \A y \in T : ~(<<y, x>> \in R)
  BY <1>2
<1>5. \A y \in T : ~(y < x)
  BY <1>3, <1>4
<1> QED
  BY <1>5

\* Chain, as it is defined, walks the path: its equation has a solution, and
\* there is no least place where a solution and the path part.
LEMMA ChainIsPath ==
  ASSUME PoolTypes, NEW l, Path(l)
  PROVE  \A k \in 0..(m_nFreSize + 1) : Chain[k] = l[k + 1]
<1> DEFINE D == 0..(m_nFreSize + 1)
           f == [k \in D |-> l[k + 1]]
           T == {k \in D : Chain[k] # l[k + 1]}
<1>1. m_nFreSize \in Nat
  BY DEF PoolTypes
<1>2. /\ l[1] = m_pHead
      /\ \A k \in D : k # 0 => k - 1 \in D /\ l[k + 1] = next[l[(k - 1) + 1]]
  BY <1>1 DEF Path
<1>3. f = [k \in D |-> IF k = 0 THEN m_pHead ELSE next[f[k - 1]]]
  BY <1>1, <1>2
<1>4. Chain = [k \in D |-> IF k = 0 THEN m_pHead ELSE next[Chain[k - 1]]]
  <2> HIDE DEF f
  <2> QED
    BY <1>3 DEF Chain
<1>5. /\ 0 \in D /\ Chain[0] = m_pHead
      /\ \A k \in D : k # 0 => Chain[k] = next[Chain[k - 1]]
  BY <1>1, <1>4
<1>6. ASSUME T # {} PROVE FALSE
  <2>1. T \subseteq Nat
    BY <1>1
  <2>2. PICK x \in T : \A y \in T : x <= y
    BY <1>6, <2>1, LeastOf
  <2>3. x \in D /\ x \in Nat /\ Chain[x] # l[x + 1]
    BY <2>1, <2>2
  <2>4. x # 0
    BY <1>2, <1>5, <2>3
  <2>5. x - 1 \in D /\ x - 1 \notin T
    BY <1>2, <2>1, <2>2, <2>3, <2>4
  <2>6. Chain[x - 1] = l[(x - 1) + 1]
    BY <2>5
  <2> QED
    BY <1>2, <1>5, <2>3, <2>4, <2>6
<1> QED
  BY <1>6

\* What PoolInv says of the model's Chain and m_objs.
LEMMA PoolInvLinked == PoolInv => PoolLinked
<1> SUFFICES ASSUME PoolInv PROVE PoolLinked
  OBVIOUS
<1> DEFINE F == With({"free"})
<1>1. PoolTypes
  BY DEF PoolInv
<1>2. \A n : n \in F <=> n \in Node /\ use[n] = "free"
  BY DEF With
<1>3. CASE kind = "CObjectPool"
  <2>1. Threaded
    BY <1>3 DEF PoolInv
  <2>2. PICK l \in [1..(m_nFreSize + 2) -> Node] : Path(l)
    BY <2>1 DEF Threaded
  <2> DEFINE free == [k \in 1..(m_nFreSize + 2) |-> Chain[k - 1]]
             N == m_nFreSize + 2
  <2>3. N \in Nat /\ N >= 1 /\ m_nFreSize \in Nat
    BY <1>1 DEF PoolTypes
  <2>4. \A k \in 1..N : Chain[k - 1] = l[k]
    <3>1. \A k \in 0..(m_nFreSize + 1) : Chain[k] = l[k + 1]
      BY <1>1, <2>2, ChainIsPath
    <3> QED
      BY <2>3, <3>1
  <2>5. free = l
    BY <2>4
  <2>6. l \in Seq(Node) /\ Len(l) = N
    BY <2>2, <2>3
  <2>7. \A n : n \in F <=> \E i \in 1..N : l[i] = n
    BY <1>2, <2>2 DEF Path
  <2>8. ToSet(l) = F
    BY <2>2, <2>7 DEF ToSet
  <2>9. Cardinality(F) = N
    <3>1. l \in [1..N -> F]
      BY <2>2, <2>7
    <3>2. \A i, j \in 1..N : l[i] = l[j] => i = j
      BY <2>2 DEF Path
    <3> HIDE DEF N, F
    <3> QED
      BY <2>3, <2>7, <3>1, <3>2, ListedCount
  <2>10. Last(l) = m_pTail
    BY <2>2, <2>6 DEF Last, Path
  <2> HIDE DEF free, N
  <2>11. /\ ToSet(free) = F /\ Len(free) = Cardinality(F)
         /\ Last(free) = m_pTail
    BY <2>5, <2>6, <2>8, <2>9, <2>10
  <2> QED
    BY <1>3, <2>1, <2>11 DEF PoolLinked, Threaded, InUse, free
<1>4. CASE kind = "CObjectPool2"
  <2>1. Listed
    BY <1>4 DEF PoolInv
  <2>2. m_objs \in Seq(Node) /\ Len(m_objs) \in Nat /\ m_objs \in [1..Len(m_objs) -> Node]
    BY <1>1 DEF PoolTypes
  <2>3. \A n : n \in F <=> \E i \in 1..Len(m_objs) : m_objs[i] = n
    BY <1>2, <2>1, <2>2 DEF Listed
  <2>4. ToSet(m_objs) = F
    BY <2>2, <2>3 DEF ToSet
  <2>5. Cardinality(F) = Len(m_objs)
    <3>1. m_objs \in [1..Len(m_objs) -> F]
      BY <2>2, <2>3
    <3>2. \A i, j \in 1..Len(m_objs) : m_objs[i] = m_objs[j] => i = j
      BY <2>1 DEF Listed
    <3> HIDE DEF F
    <3> QED
      BY <2>2, <2>3, <3>1, <3>2, ListedCount
  <2> QED
    BY <1>4, <2>4, <2>5 DEF PoolLinked
<1> QED
  BY <1>1, <1>3, <1>4 DEF PoolTypes

LEMMA PoolInitInv == PoolInit => PoolInv
<1> SUFFICES ASSUME PoolInit PROVE PoolInv
  OBVIOUS
<1>1. PoolTypes
  BY NodesFinite DEF PoolInit, PoolTypes, Uses
<1>2. ASSUME kind = "CObjectPool" PROVE Threaded
  <2> DEFINE l == [i \in 1..(m_nFreSize + 2) |-> i]
  <2>1. m_nFreSize = 0
    BY DEF PoolInit
  <2>2. l \in [1..(m_nFreSize + 2) -> Node]
    BY <2>1, NodesFinite
  <2>3. \A n \in Node : use[n] = "free" <=> n = 1 \/ n = 2
    BY <1>2, NodesFinite, PoolAssumption DEF PoolInit, Node
  <2>4. l[1] = 1 /\ l[2] = 2
    BY <2>1
  <2>5. next[1] = 2 /\ next[2] = NULL
    BY NodesFinite DEF PoolInit
  <2>6. Path(l)
    BY <2>1, <2>2, <2>3, <2>4, <2>5 DEF PoolInit, Path
  <2>7. With(InUse) = {}
    BY DEF PoolInit, With, InUse
  <2>8. Cardinality(With(InUse)) = 0
    BY <2>7, FS_EmptySet
  <2> HIDE DEF l
  <2> QED
    BY <2>2, <2>5, <2>6, <2>8 DEF Threaded, PoolInit
<1>3. ASSUME kind = "CObjectPool2" PROVE Listed
  BY <1>3 DEF PoolInit, Listed
<1> QED
  BY <1>1, <1>2, <1>3 DEF PoolInv

\* A node that stops or starts to count among the taken changes their number by one.
LEMMA OneMoreInUse ==
  ASSUME PoolTypes, NEW p \in Node, use[p] \notin InUse, NEW u \in [Node -> Uses],
         use' = u, u[p] \in InUse, \A n \in Node : n # p => (u[n] \in InUse <=> use[n] \in InUse)
  PROVE  Cardinality(With(InUse))' = Cardinality(With(InUse)) + 1
<1>1. With(InUse)' = With(InUse) \cup {p} /\ p \notin With(InUse)
  BY DEF With
<1> QED
  BY <1>1, WithFinite, FS_AddElement

LEMMA OneLessInUse ==
  ASSUME PoolTypes, NEW p \in Node, use[p] \in InUse, NEW u \in [Node -> Uses],
         use' = u, u[p] \notin InUse, \A n \in Node : n # p => (u[n] \in InUse <=> use[n] \in InUse)
  PROVE  /\ Cardinality(With(InUse))' = Cardinality(With(InUse)) - 1
         /\ Cardinality(With(InUse)) >= 1
<1> DEFINE S == With(InUse)
<1>1. With(InUse)' = S \ {p} /\ p \in S
  BY DEF With
<1>2. IsFiniteSet(S)
  BY WithFinite
<1>3. Cardinality(S \ {p}) = Cardinality(S) - 1
  <2> HIDE DEF S
  <2> QED
    BY <1>1, <1>2, FS_RemoveElement
<1>4. Cardinality(S) \in Nat /\ Cardinality(S) # 0
  <2> HIDE DEF S
  <2> QED
    BY <1>1, <1>2, FS_CardinalityType, FS_EmptySet
<1> QED
  BY <1>1, <1>3, <1>4

LEMMA SameInUse ==
  ASSUME PoolTypes, \A n \in Node : use'[n] \in InUse <=> use[n] \in InUse
  PROVE  Cardinality(With(InUse))' = Cardinality(With(InUse))
<1>1. With(InUse)' = With(InUse)
  BY DEF With
<1> QED
  BY <1>1

\* What is free and how it is linked stays as it is.
LEMMA FreeKept ==
  ASSUME PoolInv, UNCHANGED <<kind, linked, m_nUseSize, m_objs>>, PoolTypes',
         \A n \in Node : use'[n] = "free" <=> use[n] = "free",
         \A n \in Node : use'[n] \in InUse <=> use[n] \in InUse
  PROVE  PoolInv'
<1>1. PoolTypes
  BY DEF PoolInv
<1>2. ASSUME kind = "CObjectPool" PROVE Threaded'
  <2>1. Threaded
    BY <1>2 DEF PoolInv
  <2>2. PICK l \in [1..(m_nFreSize + 2) -> Node] : Path(l)
    BY <2>1 DEF Threaded
  <2>3. Path(l)'
    BY <2>2 DEF Path, linked
  <2>4. Cardinality(With(InUse))' = Cardinality(With(InUse))
    BY <1>1, SameInUse
  <2> QED
    BY <2>1, <2>2, <2>3, <2>4 DEF Threaded, linked
<1>3. ASSUME kind = "CObjectPool2" PROVE Listed'
  <2>1. Listed
    BY <1>3 DEF PoolInv
  <2> QED
    BY <2>1 DEF Listed
<1> QED
  BY <1>2, <1>3 DEF PoolInv

\* Only one constructor or destructor starts, or the innermost one ends.
LEMMA StackTyped ==
  ASSUME PoolTypes
  PROVE  /\ \A p \in Node : Append(stack, p) \in Seq(Node)
         /\ stack # <<>> => Last(stack) \in Node /\ Front(stack) \in Seq(Node)
<1>1. stack \in Seq(Node) /\ Len(stack) \in Nat
  BY DEF PoolTypes
<1>2. ASSUME stack # <<>> PROVE Len(stack) \in 1..Len(stack)
  BY <1>1, <1>2
<1>3. Front(stack) = SubSeq(stack, 1, Len(stack) - 1)
  BY DEF Front
<1>4. ASSUME stack # <<>> PROVE Front(stack) \in Seq(Node)
  BY <1>1, <1>2, <1>3, <1>4
<1> QED
  BY <1>1, <1>2, <1>4 DEF Last

\* m lists the free nodes after the step.
LEMMA NextPath ==
  ASSUME NEW m \in [1..(m_nFreSize' + 2) -> Node],
         m[1] = m_pHead', m[m_nFreSize' + 2] = m_pTail',
         \A i \in 1..(m_nFreSize' + 1) : next'[m[i]] = m[i + 1],
         \A i, j \in 1..(m_nFreSize' + 2) : m[i] = m[j] => i = j,
         \A n \in Node : use'[n] = "free" <=> \E i \in 1..(m_nFreSize' + 2) : m[i] = n,
         next'[m_pTail'] = NULL, m_nUseSize' = Cardinality(With(InUse))',
         m_nTotSize' = m_nUseSize' + m_nFreSize'
  PROVE  Threaded'
<1>1. Path(m)'
  BY DEF Path
<1> QED
  BY <1>1 DEF Threaded

LEMMA TakeHeadKeeps ==
  ASSUME PoolInv, TakeHead PROVE PoolInv'
<1> DEFINE h == m_pHead
           N == m_nFreSize + 2
<1>1. PoolTypes /\ kind = "CObjectPool" /\ Threaded
  BY DEF PoolInv, TakeHead
<1>2. PICK l \in [1..N -> Node] : Path(l)
  BY <1>1 DEF Threaded
<1>3. /\ N \in Nat /\ N >= 2 /\ m_nFreSize \in Nat
      /\ h \in Node /\ m_pTail \in Node /\ h = l[1] /\ m_pTail = l[N]
      /\ use[h] = "free" /\ h # m_pTail
  <2>1. m_nFreSize \in Nat /\ h \in Node /\ m_pTail \in Node /\ h = l[1] /\ m_pTail = l[N]
    BY <1>1, <1>2 DEF Path, PoolTypes
  <2>2. use[h] = "free"
    BY <1>2, <2>1 DEF Path
  <2>3. 1 \in 1..N /\ N \in 1..N /\ N # 1
    BY <2>1
  <2>4. l[1] # l[N]
    BY <1>2, <2>3 DEF Path
  <2> QED
    BY <2>1, <2>2, <2>4
<1>4. stack' \in Seq(Node)
  BY <1>1, <1>3, StackTyped DEF TakeHead
<1>5. m_nUseSize' = m_nUseSize + 1 /\ kind' = kind /\ m_objs' = m_objs /\ m_pHead' = next'[h]
  BY DEF TakeHead
<1>6. /\ m_nUseSize = Cardinality(With(InUse)) /\ m_nTotSize = m_nUseSize + m_nFreSize
      /\ next[m_pTail] = NULL
      /\ m_nUseSize \in Nat /\ m_nTotSize \in Nat
  BY <1>1 DEF Threaded, PoolTypes
<1>7. ASSUME m_nFreSize = 0, CanAllocate, next' = Linked(Fresh), m_pTail' = Fresh,
             m_nTotSize' = m_nTotSize + 1, m_nFreSize' = m_nFreSize,
             use' = [use EXCEPT ![Fresh] = "free", ![h] = "constructing"]
      PROVE  PoolInv'
  <2>1. PICK f \in Node : f = Fresh /\ use[f] = "new"
    BY <1>7 DEF CanAllocate, Fresh
  <2> DEFINE t == m_pTail
             u == [use EXCEPT ![f] = "free", ![h] = "constructing"]
             m == [i \in 1..(m_nFreSize' + 2) |-> IF i = 1 THEN t ELSE f]
  <2>2. use[t] = "free" /\ \A n \in Node : use[n] = "free" <=> n = h \/ n = t
    <3>1. N = 2
      BY <1>7
    <3> QED
      BY <1>2, <1>3, <3>1 DEF Path
  <2>3. f # h /\ f # t
    BY <1>3, <2>1, <2>2
  <2>4. use' = u /\ u \in [Node -> Uses]
    BY <1>1, <1>7, <2>1 DEF PoolTypes, Uses
  <2>5. /\ u[f] = "free" /\ u[h] = "constructing"
        /\ \A n \in Node : n # f /\ n # h => u[n] = use[n]
    BY <1>1, <1>3, <2>1, <2>3 DEF PoolTypes
  <2>6. /\ next' \in [Node -> Node \cup {NULL}] /\ next'[f] = NULL /\ next'[t] = f
        /\ next'[h] = next[h]
    BY <1>1, <1>3, <1>7, <2>1, <2>3 DEF Linked, PoolTypes
  <2>7. next[h] = t
    BY <1>2, <1>3, <1>7 DEF Path
  <2>8. m_pHead' = t /\ m_pTail' = f
    BY <1>5, <1>7, <2>1, <2>6, <2>7
  <2>9. PoolTypes'
    <3>1. kind' \in {"CObjectPool", "CObjectPool2"} /\ m_objs' \in Seq(Node)
      BY <1>1, <1>5 DEF PoolTypes
    <3>2. m_nUseSize' \in Nat /\ m_nFreSize' \in Nat /\ m_nTotSize' \in Nat
      BY <1>3, <1>5, <1>6, <1>7
    <3> HIDE DEF u
    <3>3. m_pHead' \in Node /\ m_pTail' \in Node /\ use' \in [Node -> Uses]
      BY <1>3, <2>1, <2>4, <2>8
    <3> QED
      BY <1>4, <2>6, <3>1, <3>2, <3>3 DEF PoolTypes
  <2>10. m_nUseSize' = Cardinality(With(InUse))'
    <3>1. use[h] \notin InUse /\ u[h] \in InUse
      BY <1>3, <2>5 DEF InUse
    <3>2. \A n \in Node : n # h => (u[n] \in InUse <=> use[n] \in InUse)
      BY <2>1, <2>5 DEF InUse
    <3> HIDE DEF u
    <3>3. Cardinality(With(InUse))' = Cardinality(With(InUse)) + 1
      BY <1>1, <1>3, <2>4, <3>1, <3>2, OneMoreInUse
    <3> QED
      BY <1>5, <1>6, <3>3
  <2>11. m \in [1..(m_nFreSize' + 2) -> Node] /\ m_nFreSize' = 0 /\ m[1] = t /\ m[2] = f
    BY <1>3, <1>7, <2>1
  <2>12. \A n \in Node : use'[n] = "free" <=> n = t \/ n = f
    BY <1>3, <2>2, <2>3, <2>4, <2>5
  <2> HIDE DEF m, u
  <2>13. /\ m[1] = m_pHead' /\ m[m_nFreSize' + 2] = m_pTail'
         /\ \A i \in 1..(m_nFreSize' + 1) : next'[m[i]] = m[i + 1]
         /\ \A i, j \in 1..(m_nFreSize' + 2) : m[i] = m[j] => i = j
         /\ \A n \in Node : use'[n] = "free" <=> \E i \in 1..(m_nFreSize' + 2) : m[i] = n
    BY <2>3, <2>6, <2>8, <2>11, <2>12
  <2>14. next'[m_pTail'] = NULL /\ m_nTotSize' = m_nUseSize' + m_nFreSize'
    BY <1>3, <1>5, <1>6, <1>7, <2>6, <2>8
  <2>15. Threaded'
    BY <2>10, <2>11, <2>13, <2>14, NextPath
  <2> QED
    BY <1>1, <1>5, <2>9, <2>15 DEF PoolInv
<1>8. ASSUME m_nFreSize > 0, m_nFreSize' = m_nFreSize - 1, UNCHANGED <<next, m_pTail, m_nTotSize>>,
             use' = [use EXCEPT ![h] = "constructing"]
      PROVE  PoolInv'
  <2> DEFINE u == [use EXCEPT ![h] = "constructing"]
             M == m_nFreSize' + 2
             m == [i \in 1..M |-> l[i + 1]]
  <2>1. M = N - 1 /\ M \in Nat /\ M >= 2 /\ m_nFreSize' \in Nat
    BY <1>3, <1>8
  <2>2. use' = u /\ u \in [Node -> Uses]
    BY <1>1, <1>8 DEF PoolTypes, Uses
  <2>3. u[h] = "constructing" /\ \A n \in Node : n # h => u[n] = use[n]
    BY <1>1, <1>3 DEF PoolTypes
  <2>4. m_pHead' = l[2] /\ l[2] \in Node
    BY <1>2, <1>3, <1>5, <1>8 DEF Path
  <2>5. PoolTypes'
    BY <1>1, <1>3, <1>4, <1>5, <1>6, <1>8, <2>1, <2>2, <2>4 DEF PoolTypes
  <2>6. m_nUseSize' = Cardinality(With(InUse))'
    <3>1. use[h] \notin InUse /\ u[h] \in InUse
      BY <1>3, <2>3 DEF InUse
    <3> HIDE DEF u
    <3>3. Cardinality(With(InUse))' = Cardinality(With(InUse)) + 1
      BY <1>1, <1>3, <2>2, <2>3, <3>1, OneMoreInUse
    <3> QED
      BY <1>5, <1>6, <3>3
  <2>20. /\ \A i \in 1..M : i + 1 \in 1..N /\ i + 1 # 1 /\ m[i] = l[i + 1]
         /\ \A i \in 1..N : i # 1 => i - 1 \in 1..M /\ (i - 1) + 1 = i
    <3>1. N \in Nat /\ M = N - 1
      BY <1>3, <2>1
    <3> HIDE DEF N, M
    <3> QED
      BY <3>1
  <2>7. m \in [1..M -> Node] /\ m[1] = l[2] /\ m[M] = l[N]
    <3> HIDE DEF M, N
    <3>1. \A i \in 1..M : m[i] \in Node
      BY <1>2, <2>20
    <3>2. 1 \in 1..M /\ M \in 1..M /\ M + 1 = N
      BY <1>3, <2>1
    <3>3. m[1] = l[1 + 1] /\ m[M] = l[M + 1]
      BY <2>20, <3>2
    <3> QED
      BY <3>1, <3>2, <3>3
  <2>8. \A i \in 1..(m_nFreSize' + 1) : next'[m[i]] = m[i + 1]
    BY <1>2, <1>3, <1>8, <2>1 DEF Path
  <2>9. \A i, j \in 1..M : m[i] = m[j] => i = j
    <3> SUFFICES ASSUME NEW i \in 1..M, NEW j \in 1..M, m[i] = m[j] PROVE i = j
      OBVIOUS
    <3>1. i + 1 \in 1..N /\ j + 1 \in 1..N /\ l[i + 1] = l[j + 1]
      BY <2>20
    <3>2. i + 1 = j + 1
      BY <1>2, <3>1 DEF Path
    <3>3. i \in Nat /\ j \in Nat
      BY <2>1
    <3> QED
      BY <3>2, <3>3
  <2>10. \A n \in Node : use'[n] = "free" <=> \E i \in 1..M : m[i] = n
    <3> SUFFICES ASSUME NEW n \in Node PROVE use'[n] = "free" <=> \E i \in 1..M : m[i] = n
      OBVIOUS
    <3>1. ASSUME use'[n] = "free" PROVE \E i \in 1..M : m[i] = n
      <4>1. n # h /\ use[n] = "free"
        BY <2>2, <2>3, <3>1
      <4>2. PICK i \in 1..N : l[i] = n
        BY <1>2, <4>1 DEF Path
      <4>3. i - 1 \in 1..M /\ (i - 1) + 1 = i
        <5>1. i # 1
          BY <1>3, <4>1, <4>2
        <5> QED
          BY <2>20, <5>1
      <4>4. m[i - 1] = n
        BY <2>20, <4>2, <4>3
      <4> HIDE DEF m, M
      <4> QED
        BY <4>3, <4>4
    <3>2. ASSUME NEW i \in 1..M, m[i] = n PROVE use'[n] = "free"
      <4>1. l[i + 1] = n /\ i + 1 \in 1..N /\ i + 1 # 1 /\ 1 \in 1..N
        BY <1>3, <2>20, <3>2
      <4>2. n # h
        BY <1>2, <1>3, <4>1 DEF Path
      <4>3. use[n] = "free"
        BY <1>2, <4>1 DEF Path
      <4> QED
        BY <2>2, <2>3, <4>2, <4>3
    <3> QED
      BY <3>1, <3>2
  <2>11. m_pTail' = l[N] /\ m_pHead' = m[1]
    BY <1>3, <1>8, <2>4, <2>7
  <2> HIDE DEF m, u
  <2>13. next'[m_pTail'] = NULL /\ m_nTotSize' = m_nUseSize' + m_nFreSize'
    BY <1>3, <1>5, <1>6, <1>8
  <2>14. Threaded'
    BY <2>6, <2>7, <2>8, <2>9, <2>10, <2>11, <2>13, NextPath
  <2> QED
    BY <1>1, <1>5, <2>5, <2>14 DEF PoolInv
<1> QED
  BY <1>7, <1>8 DEF TakeHead

LEMMA TakeFrontKeeps ==
  ASSUME PoolInv, TakeFront PROVE PoolInv'
<1>1. PoolTypes /\ kind = "CObjectPool2" /\ Listed
  BY DEF PoolInv, TakeFront
<1>2. /\ kind' = kind /\ next' = next /\ m_pHead' = m_pHead /\ m_pTail' = m_pTail
      /\ m_nFreSize' = m_nFreSize /\ m_nTotSize' = m_nTotSize /\ m_nUseSize' = m_nUseSize
  BY DEF TakeFront, linked
<1>3. m_objs \in Seq(Node) /\ Len(m_objs) \in Nat
  BY <1>1 DEF PoolTypes
<1>4. CASE m_objs # <<>>
  <2> DEFINE p == Head(m_objs)
             u == [use EXCEPT ![p] = "constructing"]
             o == Tail(m_objs)
  <2>1. /\ p \in Node /\ p = m_objs[1] /\ o \in Seq(Node) /\ Len(o) = Len(m_objs) - 1
        /\ \A i \in 1..Len(o) : o[i] = m_objs[i + 1]
        /\ 1 \in 1..Len(m_objs)
    BY <1>3, <1>4
  <2>2. use' = u /\ stack' = Append(stack, p) /\ m_objs' = o
    BY <1>4 DEF TakeFront
  <2>3. /\ u \in [Node -> Uses] /\ u[p] = "constructing"
        /\ \A n \in Node : n # p => u[n] = use[n]
    BY <1>1, <2>1 DEF PoolTypes, Uses
  <2>4. stack' \in Seq(Node)
    BY <1>1, <2>1, <2>2, StackTyped
  <2> HIDE DEF u, o, p
  <2>5. PoolTypes'
    BY <1>1, <1>2, <2>1, <2>2, <2>3, <2>4 DEF PoolTypes
  <2>6. \A i, j \in 1..Len(o) : o[i] = o[j] => i = j
    <3> SUFFICES ASSUME NEW i \in 1..Len(o), NEW j \in 1..Len(o), o[i] = o[j] PROVE i = j
      OBVIOUS
    <3>1. i + 1 \in 1..Len(m_objs) /\ j + 1 \in 1..Len(m_objs) /\ m_objs[i + 1] = m_objs[j + 1]
      BY <1>3, <2>1
    <3>2. i + 1 = j + 1
      BY <1>1, <3>1 DEF Listed
    <3> QED
      BY <3>2
  <2>7. \A n \in Node : u[n] = "free" <=> \E i \in 1..Len(o) : o[i] = n
    <3> SUFFICES ASSUME NEW n \in Node PROVE u[n] = "free" <=> \E i \in 1..Len(o) : o[i] = n
      OBVIOUS
    <3>1. ASSUME u[n] = "free" PROVE \E i \in 1..Len(o) : o[i] = n
      <4>1. n # p /\ use[n] = "free"
        BY <2>3, <3>1
      <4>2. PICK i \in 1..Len(m_objs) : m_objs[i] = n
        BY <1>1, <4>1 DEF Listed
      <4>3. i # 1
        BY <2>1, <4>1, <4>2
      <4>4. i - 1 \in 1..Len(o) /\ (i - 1) + 1 = i
        BY <1>3, <2>1, <4>2, <4>3
      <4>5. o[i - 1] = m_objs[(i - 1) + 1]
        BY <2>1, <4>4
      <4> QED
        BY <4>2, <4>4, <4>5
    <3>2. ASSUME NEW i \in 1..Len(o), o[i] = n PROVE u[n] = "free"
      <4>1. i + 1 \in 1..Len(m_objs) /\ m_objs[i + 1] = n /\ i + 1 # 1
        BY <1>3, <2>1, <3>2
      <4>2. n # p
        BY <1>1, <2>1, <4>1 DEF Listed
      <4>3. use[n] = "free"
        BY <1>1, <4>1 DEF Listed
      <4> QED
        BY <2>3, <4>2, <4>3
    <3> QED
      BY <3>1, <3>2
  <2>8. Listed'
    BY <2>2, <2>6, <2>7 DEF Listed
  <2> QED
    BY <1>1, <1>2, <2>5, <2>8 DEF PoolInv
<1>5. CASE m_objs = <<>>
  <2>1. PICK f \in Node : f = Fresh /\ use[f] = "new"
    BY <1>5 DEF TakeFront, CanAllocate, Fresh
  <2> DEFINE u == [use EXCEPT ![f] = "constructing"]
  <2>2. use' = u /\ stack' = Append(stack, f) /\ m_objs' = m_objs
    BY <1>5, <2>1 DEF TakeFront
  <2>3. /\ u \in [Node -> Uses] /\ u[f] = "constructing"
        /\ \A n \in Node : n # f => u[n] = use[n]
    BY <1>1, <2>1 DEF PoolTypes, Uses
  <2>4. stack' \in Seq(Node)
    BY <1>1, <2>1, <2>2, StackTyped
  <2> HIDE DEF u
  <2>5. PoolTypes'
    BY <1>1, <1>2, <2>2, <2>3, <2>4 DEF PoolTypes
  <2>6. \A n \in Node : u[n] = "free" <=> use[n] = "free"
    BY <2>1, <2>3
  <2>7. Listed'
    BY <1>1, <2>2, <2>6 DEF Listed
  <2> QED
    BY <1>1, <1>2, <2>5, <2>7 DEF PoolInv
<1> QED
  BY <1>4, <1>5

\* A constructor returns or throws.
LEMMA ConstructedKeeps ==
  ASSUME PoolInv, Constructed \/ ConstructorThrows PROVE PoolInv'
<1> DEFINE p == Last(stack)
<1>1. PICK w \in {"object", "lost"} : use' = [use EXCEPT ![p] = w]
  BY DEF Constructed, ConstructorThrows
<1>2. /\ stack # <<>> /\ use[p] = "constructing" /\ stack' = Front(stack)
      /\ UNCHANGED <<kind, linked, m_nUseSize, m_objs>>
  BY DEF Constructed, ConstructorThrows
<1>3. PoolTypes
  BY DEF PoolInv
<1>4. p \in Node /\ stack' \in Seq(Node)
  BY <1>2, <1>3, StackTyped
<1> HIDE DEF p
<1>5. use' \in [Node -> Uses] /\ use'[p] = w /\ \A n \in Node : n # p => use'[n] = use[n]
  BY <1>1, <1>3, <1>4 DEF PoolTypes, Uses
<1>6. PoolTypes'
  BY <1>2, <1>3, <1>4, <1>5 DEF PoolTypes, linked
<1>7. \A n \in Node : use'[n] = "free" <=> use[n] = "free"
  BY <1>2, <1>5
<1>8. \A n \in Node : use'[n] \in InUse <=> use[n] \in InUse
  BY <1>2, <1>5 DEF InUse
<1> QED
  BY <1>2, <1>6, <1>7, <1>8, FreeKept

LEMMA DealObjectKeeps ==
  ASSUME PoolInv, NEW p \in Node, DealObject(p) PROVE PoolInv'
<1>1. /\ use[p] = "object" /\ stack' = Append(stack, p) /\ use' = [use EXCEPT ![p] = "destroying"]
      /\ UNCHANGED <<kind, linked, m_nUseSize, m_objs>>
  BY DEF DealObject
<1>2. PoolTypes
  BY DEF PoolInv
<1>3. stack' \in Seq(Node)
  BY <1>1, <1>2, StackTyped
<1>4. use' \in [Node -> Uses] /\ use'[p] = "destroying" /\ \A n \in Node : n # p => use'[n] = use[n]
  BY <1>1, <1>2 DEF PoolTypes, Uses
<1>5. PoolTypes'
  BY <1>1, <1>2, <1>3, <1>4 DEF PoolTypes, linked
<1>6. \A n \in Node : use'[n] = "free" <=> use[n] = "free"
  BY <1>1, <1>4
<1>7. \A n \in Node : use'[n] \in InUse <=> use[n] \in InUse
  BY <1>1, <1>4 DEF InUse
<1> QED
  BY <1>1, <1>5, <1>6, <1>7, FreeKept

\* The node goes behind the last one.
LEMMA DestroyedKeeps ==
  ASSUME PoolInv, Destroyed PROVE PoolInv'
<1> DEFINE p == Last(stack)
           u == [use EXCEPT ![p] = "free"]
<1>1. PoolTypes /\ stack # <<>> /\ use[p] = "destroying" /\ use' = u /\ stack' = Front(stack)
      /\ kind' = kind
  BY DEF PoolInv, Destroyed
<1>2. p \in Node /\ stack' \in Seq(Node)
  BY <1>1, StackTyped
<1>3. u \in [Node -> Uses] /\ u[p] = "free" /\ \A n \in Node : n # p => u[n] = use[n]
  BY <1>1, <1>2 DEF PoolTypes, Uses
<1>4. ASSUME kind = "CObjectPool", next' = Linked(p), m_pTail' = p,
             m_nFreSize' = m_nFreSize + 1, m_nUseSize' = m_nUseSize - 1,
             UNCHANGED <<m_pHead, m_nTotSize, m_objs>>
      PROVE  PoolInv'
  <2> DEFINE t == m_pTail
             N == m_nFreSize + 2
             M == m_nFreSize' + 2
  <2>1. Threaded
    BY <1>4 DEF PoolInv
  <2>2. PICK l \in [1..N -> Node] : Path(l)
    BY <2>1 DEF Threaded
  <2> DEFINE m == [i \in 1..M |-> IF i = M THEN p ELSE l[i]]
  <2>3. /\ m_nFreSize \in Nat /\ N \in Nat /\ N >= 2 /\ M = N + 1 /\ t \in Node
        /\ 1 \in 1..N /\ N \in 1..N /\ l[N] = t /\ l[1] = m_pHead
    BY <1>1, <1>4, <2>2 DEF PoolTypes, Path
  <2>4. \A i \in 1..N : l[i] \in Node /\ use[l[i]] = "free" /\ l[i] # p
    <3> SUFFICES ASSUME NEW i \in 1..N PROVE l[i] \in Node /\ use[l[i]] = "free" /\ l[i] # p
      OBVIOUS
    <3>1. l[i] \in Node
      BY <2>2
    <3>2. use[l[i]] = "free"
      BY <2>2, <3>1 DEF Path
    <3> QED
      BY <1>1, <3>1, <3>2
  <2>5. t # p
    BY <2>3, <2>4
  <2> HIDE DEF p, u
  <2>6. /\ next' \in [Node -> Node \cup {NULL}] /\ next'[p] = NULL /\ next'[t] = p
        /\ \A n \in Node : n # p /\ n # t => next'[n] = next[n]
    BY <1>1, <1>2, <1>4, <2>3, <2>5 DEF Linked, PoolTypes
  <2>7. Cardinality(With(InUse))' = Cardinality(With(InUse)) - 1 /\ Cardinality(With(InUse)) >= 1
    <3>1. use[p] \in InUse /\ u[p] \notin InUse
      BY <1>1, <1>3 DEF InUse
    <3> QED
      BY <1>1, <1>2, <1>3, <3>1, OneLessInUse
  <2>8. /\ m_nUseSize = Cardinality(With(InUse)) /\ m_nTotSize = m_nUseSize + m_nFreSize
        /\ m_nUseSize \in Nat
    BY <1>1, <2>1 DEF Threaded, PoolTypes
  <2>9. m_nUseSize' \in Nat /\ m_nUseSize' = Cardinality(With(InUse))'
        /\ m_nTotSize' = m_nUseSize' + m_nFreSize' /\ m_nFreSize' \in Nat
    BY <1>4, <2>3, <2>7, <2>8
  <2>10. PoolTypes'
    BY <1>1, <1>2, <1>3, <1>4, <2>6, <2>9 DEF PoolTypes
  <2>11. /\ m \in [1..M -> Node] /\ m[M] = p /\ \A i \in 1..N : m[i] = l[i]
         /\ \A i \in 1..M : i = M \/ i \in 1..N
         /\ M \in 1..M /\ \A i \in 1..N : i \in 1..M
    BY <1>2, <2>2, <2>3
  <2> HIDE DEF m
  <2>12. \A i \in 1..(m_nFreSize' + 1) : next'[m[i]] = m[i + 1]
    <3> SUFFICES ASSUME NEW i \in 1..(m_nFreSize' + 1) PROVE next'[m[i]] = m[i + 1]
      OBVIOUS
    <3>1. i \in 1..N
      BY <1>4, <2>3
    <3>2. CASE i = N
      BY <2>3, <2>6, <2>11, <3>2
    <3>3. CASE i # N
      <4>1. i \in 1..(m_nFreSize + 1) /\ i + 1 \in 1..N
        BY <2>3, <3>1, <3>3
      <4>2. next[l[i]] = l[i + 1] /\ l[i] # l[N]
        BY <2>2, <2>3, <3>1, <3>3, <4>1 DEF Path
      <4>3. l[i] \in Node /\ l[i] # p /\ l[i] # t
        BY <2>3, <2>4, <3>1, <4>2
      <4> QED
        BY <2>6, <2>11, <3>1, <4>1, <4>2, <4>3
    <3> QED
      BY <3>2, <3>3
  <2>13. \A i, j \in 1..M : m[i] = m[j] => i = j
    <3>1. \A i, j \in 1..N : l[i] = l[j] => i = j
      BY <2>2 DEF Path
    <3> QED
      BY <2>4, <2>11, <3>1
  <2>14. \A n \in Node : use'[n] = "free" <=> \E i \in 1..M : m[i] = n
    <3> SUFFICES ASSUME NEW n \in Node PROVE use'[n] = "free" <=> \E i \in 1..M : m[i] = n
      OBVIOUS
    <3>1. use[n] = "free" <=> \E i \in 1..N : l[i] = n
      BY <2>2 DEF Path
    <3>2. CASE n = p
      BY <1>1, <1>3, <2>11, <3>2
    <3>3. CASE n # p
      <4>1. use'[n] = use[n]
        BY <1>1, <1>3, <3>3
      <4>2. (\E i \in 1..M : m[i] = n) <=> \E i \in 1..N : l[i] = n
        BY <2>11, <3>3
      <4> QED
        BY <3>1, <4>1, <4>2
    <3> QED
      BY <3>2, <3>3
  <2>15. m[1] = m_pHead' /\ m[M] = m_pTail' /\ next'[m_pTail'] = NULL
    BY <1>4, <2>3, <2>6, <2>11
  <2>16. Threaded'
    BY <2>9, <2>11, <2>12, <2>13, <2>14, <2>15, NextPath
  <2> QED
    BY <1>1, <1>4, <2>10, <2>16 DEF PoolInv
<1>5. ASSUME kind = "CObjectPool2", m_objs' = Append(m_objs, p), UNCHANGED <<linked, m_nUseSize>>
      PROVE  PoolInv'
  <2> HIDE DEF p, u
  <2> DEFINE o == Append(m_objs, p)
             L == Len(m_objs)
  <2>1. Listed
    BY <1>5 DEF PoolInv
  <2>2. /\ L \in Nat /\ o \in Seq(Node) /\ Len(o) = L + 1 /\ o[L + 1] = p
        /\ \A i \in 1..L : o[i] = m_objs[i] /\ m_objs[i] \in Node
    BY <1>1, <1>2 DEF PoolTypes
  <2>3. \A i \in 1..L : m_objs[i] # p
    BY <1>1, <1>2, <2>1 DEF Listed
  <2> HIDE DEF o
  <2>4. PoolTypes'
    BY <1>1, <1>2, <1>3, <1>5, <2>2 DEF PoolTypes, linked, o
  <2>5. \A i \in 1..Len(o) : i = L + 1 \/ i \in 1..L
    BY <2>2
  <2>6. /\ L + 1 \in 1..Len(o) /\ \A i \in 1..L : i \in 1..Len(o)
    BY <2>2
  <2>7. \A i, j \in 1..Len(o) : o[i] = o[j] => i = j
    <3>1. \A i, j \in 1..L : m_objs[i] = m_objs[j] => i = j
      BY <2>1 DEF Listed
    <3> HIDE DEF L
    <3> QED
      BY <2>2, <2>3, <2>5, <3>1
  <2>8. \A n \in Node : use'[n] = "free" <=> \E i \in 1..Len(o) : o[i] = n
    <3> SUFFICES ASSUME NEW n \in Node PROVE use'[n] = "free" <=> \E i \in 1..Len(o) : o[i] = n
      OBVIOUS
    <3>1. use[n] = "free" <=> \E i \in 1..L : m_objs[i] = n
      BY <2>1 DEF Listed
    <3> HIDE DEF L
    <3>2. CASE n = p
      BY <1>1, <1>3, <2>2, <2>6, <3>2
    <3>3. CASE n # p
      <4>1. use'[n] = use[n]
        BY <1>1, <1>3, <3>3
      <4>2. (\E i \in 1..Len(o) : o[i] = n) <=> \E i \in 1..L : m_objs[i] = n
        BY <2>2, <2>5, <2>6, <3>3
      <4> QED
        BY <3>1, <4>1, <4>2
    <3> QED
      BY <3>2, <3>3
  <2>9. Listed'
    BY <1>5, <2>7, <2>8 DEF Listed, o
  <2> QED
    BY <1>1, <1>5, <2>4, <2>9 DEF PoolInv
<1> QED
  BY <1>4, <1>5 DEF Destroyed

LEMMA PoolStep == PoolInv /\ [PoolNext]_poolVars => PoolInv'
<1> SUFFICES ASSUME PoolInv, [PoolNext]_poolVars PROVE PoolInv'
  OBVIOUS
<1>1. CASE CreateObject
  BY <1>1, TakeHeadKeeps, TakeFrontKeeps DEF CreateObject
<1>2. CASE Constructed \/ ConstructorThrows
  BY <1>2, ConstructedKeeps
<1>3. ASSUME NEW p \in Node, DealObject(p) PROVE PoolInv'
  BY <1>3, DealObjectKeeps
<1>4. CASE Destroyed
  BY <1>4, DestroyedKeeps
<1>5. CASE UNCHANGED poolVars
  <2>1. PoolTypes'
    BY <1>5 DEF PoolInv, PoolTypes, poolVars, linked
  <2> QED
    BY <1>5, <2>1, FreeKept DEF poolVars
<1> QED
  BY <1>1, <1>2, <1>3, <1>4, <1>5 DEF PoolNext

\* The free list of both pools (objectpool.h:98-134, 190-212) is whole at every
\* moment, for any number of blocks and any nesting: no block in use is in it, no
\* free one is missing, and the counters of CObjectPool count what they name.
THEOREM FreeListWhole == PoolSpec => []PoolLinked
<1>1. PoolInit => PoolInv
  BY PoolInitInv
<1>2. PoolInv /\ [PoolNext]_poolVars => PoolInv'
  BY PoolStep
<1>3. PoolInv => PoolLinked
  BY PoolInvLinked
<1> QED
  BY <1>1, <1>2, <1>3, PTL DEF PoolSpec

-----------------------------------------------------------------------------
(* Induction up to a number, and functions defined step by step *)

LEMMA UpTo ==
  ASSUME NEW m \in Nat, NEW T, 0 \in T, \A i \in 1..m : i - 1 \in T => i \in T
  PROVE  \A i \in 0..m : i \in T
<1> DEFINE U == {i \in 0..m : i \notin T}
<1>1. ASSUME U # {} PROVE FALSE
  <2>1. U \subseteq Nat
    OBVIOUS
  <2> HIDE DEF U
  <2>2. PICK x \in U : \A y \in U : x <= y
    BY <1>1, <2>1, LeastOf
  <2> USE DEF U
  <2>3. x \in 1..m /\ x \notin T
    BY <2>2
  <2>4. x - 1 \in 0..m /\ ~(x <= x - 1)
    BY <2>3
  <2>5. x - 1 \in T
    BY <2>2, <2>4
  <2> QED
    BY <2>3, <2>5
<1> QED
  BY <1>1

\* f goes from the start to m, one step after the other.
Climbs(f, m, S, start, step) ==
    /\ f \in [0..m -> S]
    /\ f[0] = start
    /\ \A i \in 1..m : f[i] = step[<<f[i - 1], i>>]

LEMMA StepByStep ==
  ASSUME NEW m \in Nat, NEW S, NEW start \in S, NEW step \in [S \X (1..m) -> S]
  PROVE  \E f : Climbs(f, m, S, start, step)
<1> DEFINE Walk(f, n) == f[0] = start /\ \A i \in 1..n : f[i] = step[<<f[i - 1], i>>]
           T == {n \in 0..m : \E f \in [0..n -> S] : Walk(f, n)}
<1>1. 0 \in T
  <2> DEFINE f == [i \in 0..0 |-> start]
  <2>1. f \in [0..0 -> S] /\ Walk(f, 0)
    OBVIOUS
  <2> HIDE DEF f, Walk
  <2> QED
    BY <2>1
<1>2. ASSUME NEW n \in 1..m, n - 1 \in T PROVE n \in T
  <2>1. PICK f \in [0..(n - 1) -> S] : Walk(f, n - 1)
    BY <1>2
  <2> DEFINE g == [i \in 0..n |-> IF i = n THEN step[<<f[n - 1], n>>] ELSE f[i]]
  <2>2. n - 1 \in 0..(n - 1) /\ \A i \in 0..n : i # n => i \in 0..(n - 1)
    OBVIOUS
  <2>3. step[<<f[n - 1], n>>] \in S
    BY <2>2
  <2>4. g \in [0..n -> S]
    BY <2>2, <2>3
  <2>5. g[0] = start
    BY <2>1, <2>2
  <2>6. ASSUME NEW i \in 1..n PROVE g[i] = step[<<g[i - 1], i>>]
    <3>1. i - 1 \in 0..n /\ i - 1 # n /\ i \in 0..n
      OBVIOUS
    <3>2. g[i - 1] = f[i - 1]
      BY <3>1
    <3>3. CASE i = n
      BY <3>2, <3>3
    <3>4. CASE i # n
      <4>1. i \in 1..(n - 1) /\ g[i] = f[i]
        BY <3>4
      <4> HIDE DEF g
      <4> QED
        BY <2>1, <3>2, <4>1
    <3> QED
      BY <3>3, <3>4
  <2> HIDE DEF g
  <2>7. Walk(g, n)
    BY <2>5, <2>6
  <2> HIDE DEF Walk
  <2> QED
    BY <2>4, <2>7
<1>3. m \in T
  <2> HIDE DEF T
  <2> QED
    BY <1>1, <1>2, UpTo
<1> QED
  BY <1>3 DEF Climbs

-----------------------------------------------------------------------------
(* Integers and bytes *)

LEMMA Quotient ==
  ASSUME NEW n \in Nat
  PROVE  /\ n \div Base \in Nat /\ n % Base \in 0..(Base - 1)
         /\ n = (n \div Base) * Base + (n % Base)
BY StreamAssumption

LEMMA PowerIs ==
  /\ Power \in [0..IntegerSize -> Nat] /\ Power[0] = 1
  /\ \A i \in 1..IntegerSize : Power[i] = Base * Power[i - 1]
<1> DEFINE D == 0..IntegerSize
           step == [p \in Nat \X (1..IntegerSize) |-> Base * p[1]]
           Eq(f) == f = [i \in D |-> IF i = 0 THEN 1 ELSE Base * f[i - 1]]
<1>1. IntegerSize \in Nat /\ step \in [Nat \X (1..IntegerSize) -> Nat]
  BY StreamAssumption
<1> HIDE DEF step
<1>2. PICK f : Climbs(f, IntegerSize, Nat, 1, step)
  <2>1. 1 \in Nat
    OBVIOUS
  <2> QED
    BY <1>1, <2>1, StepByStep
<1>3. \A i \in 1..IntegerSize : i - 1 \in D /\ i \in D
  BY <1>1
<1>4. \A i \in 1..IntegerSize : f[i] = Base * f[i - 1]
  BY <1>2, <1>3 DEF step, Climbs
<1>5. Eq(f)
  BY <1>1, <1>2, <1>4 DEF Climbs
<1>6. Eq(Power)
  BY <1>5 DEF Power
<1>7. Power[0] = 1 /\ \A i \in 1..IntegerSize : Power[i] = Base * Power[i - 1]
  BY <1>1, <1>3, <1>6
<1> DEFINE T == {i \in D : Power[i] \in Nat}
<1>8. 0 \in T
  BY <1>1, <1>7
<1>9. ASSUME NEW i \in 1..IntegerSize, i - 1 \in T PROVE i \in T
  BY <1>3, <1>7, <1>9, StreamAssumption
<1>10. \A i \in D : i \in T
  <2> HIDE DEF T
  <2> QED
    BY <1>1, <1>8, <1>9, UpTo
<1> QED
  BY <1>6, <1>7, <1>10

LEMMA ShiftedIs ==
  ASSUME NEW n \in Nat
  PROVE  /\ Shifted(n) \in [0..IntegerSize -> Nat] /\ Shifted(n)[0] = n
         /\ \A i \in 1..IntegerSize : Shifted(n)[i] = Shifted(n)[i - 1] \div Base
<1> DEFINE D == 0..IntegerSize
           step == [p \in Nat \X (1..IntegerSize) |-> p[1] \div Base]
           Eq(f) == f = [i \in D |-> IF i = 0 THEN n ELSE f[i - 1] \div Base]
           q == CHOOSE f : Eq(f)
<1>1. IntegerSize \in Nat /\ step \in [Nat \X (1..IntegerSize) -> Nat]
  BY StreamAssumption, Quotient
<1> HIDE DEF step
<1>2. PICK f : Climbs(f, IntegerSize, Nat, n, step)
  <2>1. n \in Nat
    OBVIOUS
  <2> QED
    BY <1>1, <2>1, StepByStep
<1>3. \A i \in 1..IntegerSize : i - 1 \in D /\ i \in D
  BY <1>1
<1>4. \A i \in 1..IntegerSize : f[i] = f[i - 1] \div Base
  BY <1>2, <1>3 DEF step, Climbs
<1>5. Eq(f)
  BY <1>1, <1>2, <1>4 DEF Climbs
<1>6. Eq(q)
  BY <1>5
<1>7. Shifted(n) = q
  BY DEF Shifted
<1> HIDE DEF q
<1>8. q[0] = n /\ \A i \in 1..IntegerSize : q[i] = q[i - 1] \div Base
  BY <1>1, <1>3, <1>6
<1> DEFINE T == {i \in D : q[i] \in Nat}
<1>9. 0 \in T
  BY <1>1, <1>8
<1>10. ASSUME NEW i \in 1..IntegerSize, i - 1 \in T PROVE i \in T
  BY <1>3, <1>8, <1>10, Quotient
<1>11. \A i \in D : i \in T
  <2> HIDE DEF T
  <2> QED
    BY <1>1, <1>9, <1>10, UpTo
<1> QED
  BY <1>6, <1>7, <1>8, <1>11

LEMMA SummedIs ==
  ASSUME NEW bytes \in [1..IntegerSize -> Nat]
  PROVE  /\ Summed(bytes)[0] = 0
         /\ \A i \in 1..IntegerSize :
              Summed(bytes)[i] = Summed(bytes)[i - 1] * Base + bytes[IntegerSize - i + 1]
<1> DEFINE D == 0..IntegerSize
           step == [p \in Nat \X (1..IntegerSize) |-> p[1] * Base + bytes[IntegerSize - p[2] + 1]]
           Eq(f) == f = [i \in D |-> IF i = 0 THEN 0
                                     ELSE f[i - 1] * Base + bytes[IntegerSize - i + 1]]
           sum == CHOOSE f : Eq(f)
<1>0. IntegerSize \in Nat /\ Base \in Nat
  BY StreamAssumption
<1>1. step \in [Nat \X (1..IntegerSize) -> Nat]
  <2>1. \A i \in 1..IntegerSize : bytes[IntegerSize - i + 1] \in Nat
    BY <1>0
  <2>2. \A x \in Nat : x * Base \in Nat
    BY <1>0
  <2>3. \A p \in Nat \X (1..IntegerSize) : p[1] * Base + bytes[IntegerSize - p[2] + 1] \in Nat
    <3> SUFFICES ASSUME NEW p \in Nat \X (1..IntegerSize)
                 PROVE  p[1] * Base + bytes[IntegerSize - p[2] + 1] \in Nat
      OBVIOUS
    <3>1. p[1] \in Nat /\ p[2] \in 1..IntegerSize
      OBVIOUS
    <3>2. p[1] * Base \in Nat /\ bytes[IntegerSize - p[2] + 1] \in Nat
      BY <2>1, <2>2, <3>1
    <3> QED
      BY <3>2
  <2> QED
    BY <2>3
<1> HIDE DEF step
<1>2. PICK f : Climbs(f, IntegerSize, Nat, 0, step)
  <2>1. 0 \in Nat
    OBVIOUS
  <2> QED
    BY <1>0, <1>1, <2>1, StepByStep
<1>3. \A i \in 1..IntegerSize : i - 1 \in D /\ i \in D
  BY <1>0
<1>4. \A i \in 1..IntegerSize : f[i] = f[i - 1] * Base + bytes[IntegerSize - i + 1]
  BY <1>2, <1>3 DEF step, Climbs
<1>5. Eq(f)
  BY <1>0, <1>2, <1>4 DEF Climbs
<1>6. Eq(sum)
  BY <1>5
<1>7. Summed(bytes) = sum
  BY DEF Summed
<1> HIDE DEF sum
<1> QED
  BY <1>0, <1>3, <1>6, <1>7

\* A number that fits has nothing left when all its bytes are shifted out.
LEMMA ShiftedOut ==
  ASSUME NEW n \in 0..MaxInteger
  PROVE  Shifted(n)[IntegerSize] = 0
<1> DEFINE q == Shifted(n)
           T == {i \in 0..IntegerSize : q[i] < Power[IntegerSize - i]}
<1>1. IntegerSize \in Nat /\ Base \in Nat /\ n \in Nat
  BY StreamAssumption DEF MaxInteger
<1>2. /\ q \in [0..IntegerSize -> Nat] /\ q[0] = n
      /\ \A i \in 1..IntegerSize : q[i] = q[i - 1] \div Base
  BY <1>1, ShiftedIs
<1> HIDE DEF q
<1>3. 0 \in T
  <2>1. Power[IntegerSize] \in Nat /\ IntegerSize - 0 = IntegerSize
    BY <1>1, PowerIs
  <2> QED
    BY <1>1, <1>2, <2>1 DEF MaxInteger
<1>4. ASSUME NEW i \in 1..IntegerSize, i - 1 \in T PROVE i \in T
  <2> DEFINE a == q[i - 1]
             p == Power[IntegerSize - i]
  <2>1. a \in Nat /\ q[i] = a \div Base
    BY <1>1, <1>2
  <2>2. IntegerSize - (i - 1) \in 1..IntegerSize /\ IntegerSize - i \in 0..IntegerSize
        /\ IntegerSize - (i - 1) - 1 = IntegerSize - i
    BY <1>1
  <2>3. p \in Nat /\ Power[IntegerSize - (i - 1)] = Base * p
    BY <2>2, PowerIs
  <2>4. a < Base * p
    BY <1>4, <2>3
  <2> HIDE DEF a, p
  <2>5. a \div Base \in Nat /\ (a \div Base) * Base <= a
    <3>1. a \div Base \in Nat /\ a % Base \in Nat /\ a = (a \div Base) * Base + (a % Base)
      BY <1>1, <2>1, Quotient
    <3> DEFINE x == a \div Base
    <3>2. x * Base \in Nat
      BY <1>1, <3>1
    <3> HIDE DEF x
    <3> QED
      BY <2>1, <3>1, <3>2 DEF x
  <2>6. a \div Base < p
    <3> DEFINE x == a \div Base
    <3>1. x \in Nat /\ x * Base < Base * p
      BY <2>1, <2>3, <2>4, <2>5, <1>1
    <3> HIDE DEF x
    <3>2. ASSUME p <= x PROVE FALSE
      <4>1. x * Base = p * Base + (x - p) * Base /\ (x - p) * Base >= 0
        BY <1>1, <2>3, <3>1, <3>2
      <4> QED
        BY <1>1, <2>3, <3>1, <4>1
    <3>3. x < p
      BY <2>3, <3>1, <3>2
    <3> QED
      BY <3>3 DEF x
  <2>7. q[i] < Power[IntegerSize - i]
    BY <2>1, <2>6 DEF p
  <2> QED
    BY <1>1, <2>7
<1>5. \A i \in 0..IntegerSize : i \in T
  <2> HIDE DEF T
  <2> QED
    BY <1>1, <1>3, <1>4, UpTo
<1>6. q[IntegerSize] < Power[0] /\ q[IntegerSize] \in Nat
  BY <1>1, <1>2, <1>5
<1> QED
  BY <1>6, PowerIs DEF q

\* The bytes of a number say the number.
LEMMA LittleBack ==
  ASSUME NEW n \in 0..MaxInteger
  PROVE  /\ LittleBytes(n) \in [1..IntegerSize -> 0..(Base - 1)]
         /\ Summed(LittleBytes(n))[IntegerSize] = n
<1> DEFINE q == Shifted(n)
           b == LittleBytes(n)
           s == Summed(b)
           T == {i \in 0..IntegerSize : s[i] = q[IntegerSize - i]}
<1>1. IntegerSize \in Nat /\ Base \in Nat /\ n \in Nat
  BY StreamAssumption DEF MaxInteger
<1>2. /\ q \in [0..IntegerSize -> Nat] /\ q[0] = n
      /\ \A i \in 1..IntegerSize : q[i] = q[i - 1] \div Base
  BY <1>1, ShiftedIs
<1>3. q[IntegerSize] = 0
  BY ShiftedOut
<1>4. /\ b \in [1..IntegerSize -> 0..(Base - 1)]
      /\ \A i \in 1..IntegerSize : b[i] = q[i - 1] % Base
  <2>1. \A i \in 1..IntegerSize : q[i - 1] \in Nat
    BY <1>1, <1>2
  <2> HIDE DEF q
  <2>2. b = [i \in 1..IntegerSize |-> q[i - 1] % Base]
    BY DEF LittleBytes, q
  <2> HIDE DEF b
  <2> QED
    BY <2>1, <2>2, Quotient
<1> HIDE DEF q, b
<1>5. /\ s[0] = 0
      /\ \A i \in 1..IntegerSize : s[i] = s[i - 1] * Base + b[IntegerSize - i + 1]
  <2>1. b \in [1..IntegerSize -> Nat]
    BY <1>1, <1>4
  <2> QED
    BY <2>1, SummedIs
<1> HIDE DEF s
<1>6. 0 \in T
  BY <1>1, <1>3, <1>5
<1>7. ASSUME NEW i \in 1..IntegerSize, i - 1 \in T PROVE i \in T
  <2> DEFINE j == IntegerSize - i
  <2>1. j \in 0..IntegerSize /\ j + 1 \in 1..IntegerSize /\ IntegerSize - (i - 1) = j + 1
        /\ (j + 1) - 1 = j /\ IntegerSize - i + 1 = j + 1
    BY <1>1
  <2>2. q[j] \in Nat /\ q[j + 1] = q[j] \div Base /\ b[j + 1] = q[j] % Base
    <3> HIDE DEF j
    <3> QED
      BY <1>2, <1>4, <2>1
  <2>3. s[i] = s[i - 1] * Base + b[j + 1] /\ s[i - 1] = q[j + 1]
    BY <1>5, <1>7, <2>1
  <2> HIDE DEF j
  <2>4. s[i] = q[j]
    BY <2>2, <2>3, Quotient
  <2> QED
    BY <2>4 DEF j
<1>8. \A i \in 0..IntegerSize : i \in T
  <2> HIDE DEF T
  <2> QED
    BY <1>1, <1>6, <1>7, UpTo
<1>9. s[IntegerSize] = q[0]
  BY <1>1, <1>8
<1> QED
  BY <1>2, <1>4, <1>9 DEF s, b

-----------------------------------------------------------------------------
(* Integers in a packet *)

Octet == 0..(Base - 1)

\* The traits of a packet are some that the code has.
Traited == trait \in [PreOffset : Nat, PostOffset : Nat,
                      PackLenIsContainHead : BOOLEAN, EndianType : ByteOrders]

\* The bytes of an integer in a packet, whatever machine wrote it.
Outside(n) == IF trait.EndianType = "LittleEndian" THEN LittleBytes(n)
              ELSE Reverse(LittleBytes(n))

LEMMA Reversed ==
  ASSUME NEW b \in [1..IntegerSize -> Octet]
  PROVE  /\ Reverse(b) \in [1..IntegerSize -> Octet]
         /\ Reverse(Reverse(b)) = b /\ Len(b) = IntegerSize
<1>0. IntegerSize \in Nat
  BY StreamAssumption
<1>1. Len(b) = IntegerSize
  BY <1>0
<1>2. Reverse(b) = [i \in 1..IntegerSize |-> b[(IntegerSize - i) + 1]]
  BY <1>1 DEF Reverse
<1>3. \A i \in 1..IntegerSize : (IntegerSize - i) + 1 \in 1..IntegerSize
                              /\ (IntegerSize - ((IntegerSize - i) + 1)) + 1 = i
  BY <1>0
<1> DEFINE c == Reverse(b)
<1>4. c \in [1..IntegerSize -> Octet]
  BY <1>2, <1>3
<1>5. \A i \in 1..IntegerSize : c[(IntegerSize - i) + 1] = b[i]
  BY <1>2, <1>3
<1> HIDE DEF c
<1>6. Len(c) = IntegerSize
  BY <1>0, <1>4
<1>7. Reverse(c) = [i \in 1..IntegerSize |-> c[(IntegerSize - i) + 1]]
  BY <1>6 DEF Reverse
<1>8. Reverse(c) = b
  BY <1>5, <1>7
<1> QED
  BY <1>1, <1>4, <1>8 DEF c

LEMMA AnyHost ==
  ASSUME Traited, NEW host \in ByteOrders, NEW n \in 0..MaxInteger
  PROVE  /\ IntegerToStream(host, n) = Outside(n)
         /\ Outside(n) \in [1..IntegerSize -> Octet]
         /\ Outside(n) \in Seq(Octet) /\ Len(Outside(n)) = IntegerSize
<1>1. LittleBytes(n) \in [1..IntegerSize -> Octet]
  BY LittleBack DEF Octet
<1> DEFINE b == LittleBytes(n)
<1>2. /\ Reverse(b) \in [1..IntegerSize -> Octet] /\ Reverse(Reverse(b)) = b
  BY <1>1, Reversed
<1> HIDE DEF b
<1>3. IntegerToStream(host, n) = Outside(n)
  <2>1. CASE trait.EndianType = "LittleEndian" /\ host = "LittleEndian"
    BY <2>1 DEF IntegerToStream, Swapped, Memory, Outside
  <2>2. CASE trait.EndianType = "LittleEndian" /\ host = "BigEndian"
    <3>1. IntegerToStream(host, n) = Reverse(Reverse(b))
      BY <2>2 DEF IntegerToStream, Swapped, Memory, b
    <3> QED
      BY <1>2, <2>2, <3>1 DEF Outside, b
  <2>3. CASE trait.EndianType = "BigEndian" /\ host = "LittleEndian"
    BY <2>3 DEF IntegerToStream, Swapped, Memory, Outside
  <2>4. CASE trait.EndianType = "BigEndian" /\ host = "BigEndian"
    BY <2>4 DEF IntegerToStream, Swapped, Memory, Outside
  <2> QED
    BY <2>1, <2>2, <2>3, <2>4 DEF Traited, ByteOrders
<1>4. Outside(n) \in [1..IntegerSize -> Octet]
  BY <1>1, <1>2 DEF Outside, b
<1> QED
  BY <1>3, <1>4, StreamAssumption

\* What goes into a packet as an integer comes out as this integer.
LEMMA IntegerBack ==
  ASSUME Traited, NEW host \in ByteOrders, NEW n \in 0..MaxInteger
  PROVE  StreamToInteger(host, Outside(n)) = n
<1>1. LittleBytes(n) \in [1..IntegerSize -> Octet] /\ Summed(LittleBytes(n))[IntegerSize] = n
  BY LittleBack DEF Octet
<1> DEFINE b == LittleBytes(n)
<1>2. Reverse(Reverse(b)) = b
  BY <1>1, Reversed
<1> HIDE DEF b
<1>3. CASE trait.EndianType = "LittleEndian" /\ host = "LittleEndian"
  BY <1>1, <1>3 DEF StreamToInteger, Swapped, FromMemory, Outside
<1>4. CASE trait.EndianType = "LittleEndian" /\ host = "BigEndian"
  <2>1. StreamToInteger(host, Outside(n)) = Summed(Reverse(Reverse(b)))[IntegerSize]
    BY <1>4 DEF StreamToInteger, Swapped, FromMemory, Outside, b
  <2> QED
    BY <1>1, <1>2, <2>1 DEF b
<1>5. CASE trait.EndianType = "BigEndian" /\ host = "LittleEndian"
  <2>1. StreamToInteger(host, Outside(n)) = Summed(Reverse(Reverse(b)))[IntegerSize]
    BY <1>5 DEF StreamToInteger, Swapped, FromMemory, Outside, b
  <2> QED
    BY <1>1, <1>2, <2>1 DEF b
<1>6. CASE trait.EndianType = "BigEndian" /\ host = "BigEndian"
  <2>1. StreamToInteger(host, Outside(n)) = Summed(Reverse(Reverse(b)))[IntegerSize]
    BY <1>6 DEF StreamToInteger, Swapped, FromMemory, Outside, b
  <2> QED
    BY <1>1, <1>2, <2>1 DEF b
<1> QED
  BY <1>3, <1>4, <1>5, <1>6 DEF Traited, ByteOrders

-----------------------------------------------------------------------------
(* A piece is put *)

\* The fields of a WriteStream; the data is as long as the cursor says.
Writers ==
    {w \in [host : ByteOrders, m_maxStreamLen : 0..MaxInteger, m_cursor : Nat,
            m_bNoWrite : BOOLEAN, thrown : BOOLEAN, m_data : Seq(Octet)] :
       /\ HeadLen <= w.m_cursor
       /\ IF w.m_bNoWrite THEN w.m_data = <<>> ELSE Len(w.m_data) = w.m_cursor}

\* The header says the length, and the length is one that an Integer can say.
Fixed(w) ==
    /\ w.m_cursor <= w.m_maxStreamLen
    /\ ~w.m_bNoWrite =>
         \A k \in 1..IntegerSize :
            w.m_data[trait.PreOffset + k] = Outside(PackLen(w.m_cursor))[k]

\* r is w with the bytes behind it.
SameStream(w, r) ==
    /\ r.host = w.host /\ r.m_maxStreamLen = w.m_maxStreamLen /\ r.m_bNoWrite = w.m_bNoWrite
    /\ w.m_cursor <= r.m_cursor
    /\ ~w.m_bNoWrite => \A k \in (HeadLen + 1)..w.m_cursor : r.m_data[k] = w.m_data[k]

LEMMA Behind ==
  ASSUME NEW S, NEW a \in Seq(S), NEW b \in Seq(S)
  PROVE  /\ a \o b \in Seq(S) /\ Len(a \o b) = Len(a) + Len(b)
         /\ DOMAIN (a \o b) = 1..(Len(a) + Len(b))
         /\ \A i \in 1..Len(a) : (a \o b)[i] = a[i]
         /\ \A i \in 1..Len(b) : (a \o b)[Len(a) + i] = b[i]
OBVIOUS

LEMMA Header ==
  ASSUME Traited
  PROVE  /\ HeadLen \in Nat /\ trait.PreOffset \in Nat /\ IntegerSize \in Nat
         /\ trait.PreOffset + IntegerSize <= HeadLen /\ 1 <= IntegerSize
BY StreamAssumption DEF Traited, HeadLen

LEMMA PackLenFits ==
  ASSUME Traited, NEW c \in HeadLen..MaxInteger
  PROVE  PackLen(c) \in 0..MaxInteger
<1>1. HeadLen \in Nat /\ c \in Nat
  BY Header
<1>2. MaxInteger \in Int
  BY PowerIs, StreamAssumption DEF MaxInteger
<1> QED
  BY <1>1, <1>2 DEF PackLen

LEMMA PutRefused ==
  ASSUME Traited, NEW w \in Writers, NEW bytes \in Seq(Octet),
         w.thrown \/ ~Fits(w, Len(bytes))
  PROVE  LET r == Put(w, bytes) IN
         /\ r \in Writers /\ SameStream(w, r) /\ r.thrown
         /\ r.m_cursor = w.m_cursor /\ r.m_data = w.m_data
<1>1. Put(w, bytes) = [w EXCEPT !.thrown = TRUE]
  BY DEF Put
<1> DEFINE r == [w EXCEPT !.thrown = TRUE]
<1>2. /\ r.host = w.host /\ r.m_maxStreamLen = w.m_maxStreamLen
      /\ r.m_bNoWrite = w.m_bNoWrite /\ r.m_cursor = w.m_cursor /\ r.m_data = w.m_data
      /\ r.thrown
  BY DEF Writers
<1>3. r \in Writers
  BY DEF Writers
<1>4. SameStream(w, r)
  <2>1. w.m_cursor \in Nat
    BY DEF Writers
  <2> HIDE DEF r
  <2> QED
    BY <1>2, <2>1 DEF SameStream
<1> HIDE DEF r
<1> QED
  BY <1>1, <1>2, <1>3, <1>4 DEF r

LEMMA PutDone ==
  ASSUME Traited, NEW w \in Writers, NEW bytes \in Seq(Octet),
         ~w.thrown, Fits(w, Len(bytes))
  PROVE  LET r == Put(w, bytes) IN
         /\ r \in Writers /\ SameStream(w, r) /\ Fixed(r) /\ ~r.thrown
         /\ r.m_cursor = w.m_cursor + Len(bytes)
         /\ ~w.m_bNoWrite => \A k \in 1..Len(bytes) : r.m_data[w.m_cursor + k] = bytes[k]
<1> DEFINE c == w.m_cursor + Len(bytes)
           d == w.m_data \o bytes
           pre == trait.PreOffset
           number == IntegerToStream(w.host, PackLen(c))
           e == [i \in DOMAIN d |-> IF i \in (pre + 1)..(pre + IntegerSize)
                                    THEN number[i - pre] ELSE d[i]]
           r == Put(w, bytes)
<1>1. /\ w.host \in ByteOrders /\ w.m_maxStreamLen \in 0..MaxInteger /\ w.m_cursor \in Nat
      /\ w.m_bNoWrite \in BOOLEAN /\ w.m_data \in Seq(Octet) /\ HeadLen <= w.m_cursor
      /\ w.m_bNoWrite => w.m_data = <<>>
      /\ ~w.m_bNoWrite => Len(w.m_data) = w.m_cursor
  BY DEF Writers
<1>2. Len(bytes) \in Nat
  OBVIOUS
<1>3. /\ HeadLen \in Nat /\ pre \in Nat /\ IntegerSize \in Nat
      /\ pre + IntegerSize <= HeadLen
  BY Header
<1>4. c \in Nat /\ c <= w.m_maxStreamLen /\ c \in HeadLen..MaxInteger
  <2>1. MaxInteger \in Int
    BY PowerIs, StreamAssumption DEF MaxInteger
  <2> QED
    BY <1>1, <1>2, <1>3, <2>1 DEF Fits
<1>5. /\ number = Outside(PackLen(c)) /\ number \in [1..IntegerSize -> Octet]
  BY <1>1, <1>4, PackLenFits, AnyHost
<1>6. r = [w EXCEPT !.m_cursor = c, !.m_data = IF w.m_bNoWrite THEN w.m_data ELSE e]
  <2> DEFINE v == [w EXCEPT !.m_cursor = @ + Len(bytes),
                            !.m_data = IF w.m_bNoWrite THEN @ ELSE @ \o bytes]
  <2>1. r = FixPackLen(v)
    BY DEF Put
  <2>2. /\ v.m_cursor = c /\ v.host = w.host /\ v.m_bNoWrite = w.m_bNoWrite
        /\ v.m_data = IF w.m_bNoWrite THEN w.m_data ELSE d
        /\ v = [w EXCEPT !.m_cursor = c, !.m_data = v.m_data]
    BY DEF Writers
  <2> HIDE DEF v, c, d
  <2>3. CASE w.m_bNoWrite
    <3>1. FixPackLen(v) = [v EXCEPT !.m_data = v.m_data]
      BY <2>2, <2>3 DEF FixPackLen
    <3>2. [v EXCEPT !.m_data = v.m_data] = [w EXCEPT !.m_cursor = c, !.m_data = w.m_data]
      BY <2>2, <2>3 DEF Writers
    <3> QED
      BY <2>1, <2>3, <3>1, <3>2
  <2>4. CASE ~w.m_bNoWrite
    <3>1. FixPackLen(v) = [v EXCEPT !.m_data = e]
      BY <2>2, <2>4 DEF FixPackLen
    <3>2. [v EXCEPT !.m_data = e] = [w EXCEPT !.m_cursor = c, !.m_data = e]
      <4> HIDE DEF e
      <4> QED
        BY <2>2, <2>4 DEF Writers
    <3> QED
      BY <2>1, <2>4, <3>1, <3>2
  <2> QED
    BY <2>3, <2>4, <1>1
<1> HIDE DEF r, number
<1>7. /\ r.host = w.host /\ r.m_maxStreamLen = w.m_maxStreamLen
      /\ r.m_bNoWrite = w.m_bNoWrite /\ r.m_cursor = c /\ ~r.thrown
      /\ r.m_data = IF w.m_bNoWrite THEN <<>> ELSE e
  <2> HIDE DEF c, e
  <2> QED
    BY <1>1, <1>6 DEF Writers
<1>8. ASSUME ~w.m_bNoWrite
      PROVE  /\ e \in Seq(Octet) /\ Len(e) = c
             /\ \A k \in 1..IntegerSize : e[pre + k] = number[k]
             /\ \A k \in (HeadLen + 1)..w.m_cursor : e[k] = w.m_data[k]
             /\ \A k \in 1..Len(bytes) : e[w.m_cursor + k] = bytes[k]
  <2>1. /\ d \in Seq(Octet) /\ Len(d) = c /\ DOMAIN d = 1..c
        /\ \A k \in 1..w.m_cursor : d[k] = w.m_data[k]
        /\ \A k \in 1..Len(bytes) : d[w.m_cursor + k] = bytes[k]
    <3> DEFINE a == w.m_data
               n == w.m_cursor
    <3>1. a \in Seq(Octet) /\ Len(a) = n
      BY <1>1, <1>8
    <3> HIDE DEF a, n, e, number, pre
    <3>2. /\ a \o bytes \in Seq(Octet) /\ Len(a \o bytes) = Len(a) + Len(bytes)
          /\ DOMAIN (a \o bytes) = 1..(Len(a) + Len(bytes))
          /\ \A k \in 1..Len(a) : (a \o bytes)[k] = a[k]
          /\ \A k \in 1..Len(bytes) : (a \o bytes)[Len(a) + k] = bytes[k]
      <4> DEFINE S == Octet
      <4>1. a \in Seq(S) /\ bytes \in Seq(S)
        BY <3>1
      <4> HIDE DEF S
      <4>2. /\ a \o bytes \in Seq(S) /\ Len(a \o bytes) = Len(a) + Len(bytes)
            /\ DOMAIN (a \o bytes) = 1..(Len(a) + Len(bytes))
            /\ \A k \in 1..Len(a) : (a \o bytes)[k] = a[k]
            /\ \A k \in 1..Len(bytes) : (a \o bytes)[Len(a) + k] = bytes[k]
        BY <4>1, Behind
      <4> QED
        BY <4>2 DEF S
    <3>3. d = a \o bytes /\ c = n + Len(bytes)
      BY DEF a, n
    <3> HIDE DEF d, c
    <3>4. /\ d \in Seq(Octet) /\ Len(d) = c /\ DOMAIN d = 1..c
          /\ \A k \in 1..n : d[k] = a[k]
          /\ \A k \in 1..Len(bytes) : d[n + k] = bytes[k]
      BY <3>1, <3>2, <3>3
    <3> QED
      BY <3>4 DEF a, n
  <2> HIDE DEF d
  <2>2. \A k \in 1..c : IF k \in (pre + 1)..(pre + IntegerSize)
                        THEN e[k] = number[k - pre] ELSE e[k] = d[k]
    BY <2>1
  <2>3. \A k \in 1..c : e[k] \in Octet
    <3>1. \A k \in (pre + 1)..(pre + IntegerSize) : k - pre \in 1..IntegerSize
      BY <1>3
    <3>2. \A k \in 1..c : d[k] \in Octet
      BY <1>4, <2>1
    <3> HIDE DEF e
    <3> QED
      BY <1>5, <2>2, <3>1, <3>2
  <2>4. e = [k \in 1..c |-> e[k]]
    BY <2>1
  <2> HIDE DEF e, c
  <2>5. e \in Seq(Octet) /\ Len(e) = c
    BY <1>4, <2>3, <2>4
  <2>6. \A k \in 1..IntegerSize :
           pre + k \in 1..c /\ pre + k \in (pre + 1)..(pre + IntegerSize) /\ (pre + k) - pre = k
    BY <1>3, <1>4
  <2>7. \A k \in (HeadLen + 1)..w.m_cursor :
           k \in 1..c /\ k \in 1..w.m_cursor /\ k \notin (pre + 1)..(pre + IntegerSize)
    BY <1>1, <1>2, <1>3 DEF c
  <2>8. \A k \in 1..Len(bytes) :
           w.m_cursor + k \in 1..c /\ w.m_cursor + k \notin (pre + 1)..(pre + IntegerSize)
    BY <1>1, <1>2, <1>3 DEF c
  <2>9. \A k \in 1..IntegerSize : e[pre + k] = number[k]
    BY <2>2, <2>6
  <2>10. \A k \in (HeadLen + 1)..w.m_cursor : e[k] = w.m_data[k]
    BY <2>1, <2>2, <2>7
  <2>11. \A k \in 1..Len(bytes) : e[w.m_cursor + k] = bytes[k]
    BY <2>1, <2>2, <2>8
  <2> QED
    BY <2>5, <2>9, <2>10, <2>11
<1> HIDE DEF e, c, d
<1>9. r.m_data \in Seq(Octet) /\ (r.m_bNoWrite => r.m_data = <<>>)
      /\ (~r.m_bNoWrite => Len(r.m_data) = c)
  BY <1>1, <1>7, <1>8
<1>10. r \in Writers
  <2>1. r \in [host : ByteOrders, m_maxStreamLen : 0..MaxInteger, m_cursor : Nat,
               m_bNoWrite : BOOLEAN, thrown : BOOLEAN, m_data : Seq(Octet)]
    <3> DEFINE x == r.m_data
    <3>1. r = [w EXCEPT !.m_cursor = c, !.m_data = x]
      BY <1>1, <1>6, <1>7
    <3>2. x \in Seq(Octet)
      BY <1>9
    <3> HIDE DEF x
    <3> QED
      BY <1>4, <3>1, <3>2 DEF Writers
  <2> QED
    BY <1>4, <1>7, <1>9, <2>1 DEF Writers
<1>11. SameStream(w, r)
  <2>1. w.m_cursor <= c
    BY <1>1, <1>2 DEF c
  <2> QED
    BY <1>7, <1>8, <2>1 DEF SameStream
<1>12. Fixed(r)
  BY <1>4, <1>5, <1>7, <1>8 DEF Fixed
<1> QED
  BY <1>7, <1>8, <1>10, <1>11, <1>12 DEF r, c

-----------------------------------------------------------------------------
(* A value is written *)

LEMMA WrittenIs ==
  ASSUME Traited, NEW w \in Writers, NEW pieces \in Seq(Seq(Octet))
  PROVE  LET after == Written(w, pieces) IN
         /\ after \in [0..Len(pieces) -> Writers] /\ after[0] = w
         /\ \A i \in 1..Len(pieces) : after[i] = Put(after[i - 1], pieces[i])
<1> DEFINE m == Len(pieces)
           step == [p \in Writers \X (1..m) |-> Put(p[1], pieces[p[2]])]
           Eq(f) == f = [i \in 0..m |-> IF i = 0 THEN w ELSE Put(f[i - 1], pieces[i])]
           after == CHOOSE f : Eq(f)
<1>1. m \in Nat /\ \A i \in 1..m : pieces[i] \in Seq(Octet)
  OBVIOUS
<1> HIDE DEF m
<1>2. ASSUME NEW v \in Writers, NEW bytes \in Seq(Octet) PROVE Put(v, bytes) \in Writers
  BY PutRefused, PutDone
<1>3. step \in [Writers \X (1..m) -> Writers]
  BY <1>1, <1>2
<1> HIDE DEF step
<1>4. PICK f : Climbs(f, m, Writers, w, step)
  BY <1>1, <1>3, StepByStep
<1>5. \A i \in 1..m : i - 1 \in 0..m /\ i \in 0..m /\ i # 0
  BY <1>1
<1>6. \A i \in 1..m : f[i] = Put(f[i - 1], pieces[i])
  BY <1>4, <1>5 DEF Climbs, step
<1>7. Eq(f)
  BY <1>1, <1>4, <1>6 DEF Climbs
<1>8. Eq(after)
  BY <1>7
<1>9. Written(w, pieces) = after
  BY DEF Written, m
<1> HIDE DEF after
<1>10. after[0] = w /\ \A i \in 1..m : after[i] = Put(after[i - 1], pieces[i])
  BY <1>1, <1>5, <1>8
<1> DEFINE T == {i \in 0..m : after[i] \in Writers}
<1>11. 0 \in T
  BY <1>1, <1>10
<1>12. ASSUME NEW i \in 1..m, i - 1 \in T PROVE i \in T
  BY <1>1, <1>2, <1>5, <1>10, <1>12
<1>13. \A i \in 0..m : i \in T
  <2> HIDE DEF T
  <2> QED
    BY <1>1, <1>11, <1>12, UpTo
<1>14. after \in [0..m -> Writers]
  BY <1>8, <1>13
<1> QED
  BY <1>9, <1>10, <1>14 DEF m

LEMMA SameTwice ==
  ASSUME NEW u \in Writers, NEW v \in Writers, NEW w \in Writers,
         SameStream(u, v), SameStream(v, w)
  PROVE  SameStream(u, w)
<1>1. u.m_cursor \in Nat /\ v.m_cursor \in Nat /\ w.m_cursor \in Nat
  BY DEF Writers
<1>2. \A k \in (HeadLen + 1)..u.m_cursor : k \in (HeadLen + 1)..v.m_cursor
  BY <1>1 DEF SameStream
<1> QED
  BY <1>1, <1>2 DEF SameStream

\* Whatever the pieces are, the stream grows and its header stays true.
LEMMA WrittenGrows ==
  ASSUME Traited, NEW w \in Writers, NEW pieces \in Seq(Seq(Octet)), ~w.thrown
  PROVE  LET r == Written(w, pieces)[Len(pieces)] IN
         /\ r \in Writers /\ SameStream(w, r)
         /\ Fixed(w) \/ (~r.thrown /\ pieces # <<>>) => Fixed(r)
<1> DEFINE m == Len(pieces)
           after == Written(w, pieces)
           T == {i \in 0..m : /\ SameStream(w, after[i])
                              /\ Fixed(w) \/ (~after[i].thrown /\ i # 0) => Fixed(after[i])}
<1>1. /\ m \in Nat /\ \A i \in 1..m : pieces[i] \in Seq(Octet)
      /\ pieces # <<>> => m # 0
  OBVIOUS
<1>2. /\ after \in [0..m -> Writers] /\ after[0] = w
      /\ \A i \in 1..m : after[i] = Put(after[i - 1], pieces[i])
  BY WrittenIs
<1> HIDE DEF after, m
<1>3. 0 \in T
  <2>1. w.m_cursor \in Nat
    BY DEF Writers
  <2>2. SameStream(w, w)
    BY <2>1 DEF SameStream
  <2> QED
    BY <1>1, <1>2, <2>2
<1>4. ASSUME NEW i \in 1..m, i - 1 \in T PROVE i \in T
  <2> DEFINE u == after[i - 1]
             v == after[i]
  <2>1. i - 1 \in 0..m /\ i \in 0..m /\ pieces[i] \in Seq(Octet)
    BY <1>1
  <2>2. u \in Writers /\ v \in Writers /\ v = Put(u, pieces[i])
    BY <1>2, <2>1
  <2>3. SameStream(w, u) /\ (Fixed(w) => Fixed(u))
    BY <1>4
  <2> HIDE DEF u, v
  <2>4. SameStream(u, v) /\ (Fixed(w) \/ ~v.thrown => Fixed(v))
    <3>1. CASE u.thrown \/ ~Fits(u, Len(pieces[i]))
      <4>1. /\ SameStream(u, v) /\ v.thrown
            /\ v.m_cursor = u.m_cursor /\ v.m_data = u.m_data
        BY <2>1, <2>2, <3>1, PutRefused
      <4>2. Fixed(u) => Fixed(v)
        BY <4>1 DEF Fixed, SameStream
      <4> QED
        BY <2>3, <4>1, <4>2
    <3>2. CASE ~u.thrown /\ Fits(u, Len(pieces[i]))
      <4>1. SameStream(u, v) /\ Fixed(v)
        BY <2>1, <2>2, <3>2, PutDone
      <4> QED
        BY <4>1
    <3> QED
      BY <3>1, <3>2
  <2>5. SameStream(w, v)
    BY <2>2, <2>3, <2>4, SameTwice
  <2> QED
    BY <2>1, <2>4, <2>5 DEF v
<1>5. \A i \in 0..m : i \in T
  <2> HIDE DEF T
  <2> QED
    BY <1>1, <1>3, <1>4, UpTo
<1>6. m \in T /\ m \in 0..m
  BY <1>1, <1>5
<1>7. after[m] \in Writers
  BY <1>2, <1>6
<1>8. pieces # <<>> => m # 0
  BY <1>1
<1> HIDE DEF T
<1>9. /\ SameStream(w, after[m])
      /\ Fixed(w) \/ (~after[m].thrown /\ m # 0) => Fixed(after[m])
  BY <1>6 DEF T
<1> QED
  BY <1>7, <1>8, <1>9 DEF after, m

LEMMA PowersPositive == \A i \in 0..IntegerSize : Power[i] \in Nat \ {0}
<1> DEFINE T == {i \in 0..IntegerSize : Power[i] \in Nat \ {0}}
<1>0. IntegerSize \in Nat /\ Base \in Nat /\ Base > 1
  BY StreamAssumption
<1>1. 0 \in T
  BY <1>0, PowerIs
<1>2. ASSUME NEW i \in 1..IntegerSize, i - 1 \in T PROVE i \in T
  <2>1. Power[i] = Base * Power[i - 1] /\ Power[i - 1] \in Nat \ {0}
    BY <1>2, PowerIs
  <2> DEFINE p == Power[i - 1]
  <2> HIDE DEF p
  <2>2. p \in Nat \ {0} /\ Power[i] = Base * p
    BY <2>1 DEF p
  <2>3. Base * p \in Nat \ {0}
    BY <1>0, <2>2
  <2> QED
    BY <2>2, <2>3
<1>3. \A i \in 0..IntegerSize : i \in T
  <2> HIDE DEF T
  <2> QED
    BY <1>0, <1>1, <1>2, UpTo
<1> QED
  BY <1>3

LEMMA MaxIntegerIs == MaxInteger \in Nat
BY PowersPositive, StreamAssumption DEF MaxInteger

LEMMA CutIs ==
  ASSUME NEW n \in Nat
  PROVE  Cut(n) \in 0..MaxInteger /\ Cut(n) <= n /\ (n <= MaxInteger => Cut(n) = n)
<1> DEFINE m == MaxInteger + 1
<1>1. m \in Nat /\ m > 0 /\ (n <= MaxInteger => n < m)
  BY MaxIntegerIs
<1>2. 0..(m - 1) = 0..MaxInteger
  BY MaxIntegerIs
<1> HIDE DEF m
<1>3. n \div m \in Nat /\ n % m \in 0..(m - 1) /\ n = m * (n \div m) + (n % m)
  BY <1>1
<1>4. n % m <= n
  <2> DEFINE q == n \div m
  <2> HIDE DEF q
  <2>1. m * q \in Nat
    BY <1>1, <1>3 DEF q
  <2> QED
    BY <1>1, <1>3, <2>1 DEF q
<1>5. n < m => n % m = n
  BY <1>1
<1> QED
  BY <1>1, <1>2, <1>3, <1>4, <1>5 DEF Cut, m

StringValue(v) == v.type = "string" /\ v.value \in Seq(Octet)
ContainerValue(v) == v.type = "container" /\ v.value \in Seq(0..MaxInteger)

\* What << is given.
Given(v) ==
    \/ v.type = "integer" /\ v.value \in 0..MaxInteger
    \/ v.type = "byte" /\ v.value \in Octet
    \/ StringValue(v)
    \/ ContainerValue(v)

LEMMA InputsGiven == \A v \in Inputs : Given(v)
BY StreamAssumption DEF Given, StringValue, ContainerValue, Octet

LEMMA SequenceFacts ==
  ASSUME NEW S, NEW s \in Seq(S)
  PROVE  Len(s) \in Nat /\ DOMAIN s = 1..Len(s) /\ \A i \in 1..Len(s) : s[i] \in S
OBVIOUS

LEMMA NotEmpty ==
  ASSUME NEW S, NEW s \in Seq(S), Len(s) # 0
  PROVE  s # <<>>
OBVIOUS

LEMMA IntegerPieces ==
  ASSUME Traited, NEW host \in ByteOrders, NEW v, v.type = "integer", v.value \in 0..MaxInteger
  PROVE  /\ Pieces(host, v) = <<Outside(v.value)>>
         /\ Pieces(host, v) \in Seq(Seq(Octet)) /\ Len(Pieces(host, v)) = 1
<1>1. IntegerToStream(host, v.value) = Outside(v.value) /\ Outside(v.value) \in Seq(Octet)
  BY AnyHost
<1>2. Pieces(host, v) = <<Outside(v.value)>>
  BY <1>1 DEF Pieces
<1> QED
  BY <1>1, <1>2

LEMMA BytePieces ==
  ASSUME NEW host, NEW v, v.type = "byte", v.value \in Octet
  PROVE  /\ Pieces(host, v) = <<<<v.value>>>>
         /\ Pieces(host, v) \in Seq(Seq(Octet)) /\ Len(Pieces(host, v)) = 1
<1>1. Pieces(host, v) = <<<<v.value>>>>
  BY DEF Pieces
<1>2. <<v.value>> \in Seq(Octet)
  OBVIOUS
<1> QED
  BY <1>1, <1>2

LEMMA StringPieces ==
  ASSUME Traited, NEW host \in ByteOrders, NEW v, StringValue(v)
  PROVE  LET n == Cut(Len(v.value)) IN
         /\ n \in 0..MaxInteger /\ n \in Nat
         /\ Pieces(host, v) = <<Outside(n), SubSeq(v.value, 1, n)>>
         /\ Pieces(host, v) \in Seq(Seq(Octet)) /\ Len(Pieces(host, v)) = 2
         /\ Len(v.value) <= MaxInteger => n = Len(v.value) /\ SubSeq(v.value, 1, n) = v.value
<1> DEFINE n == Cut(Len(v.value))
<1>1. v.value \in Seq(Octet) /\ Len(v.value) \in Nat /\ v.type = "string"
  BY DEF StringValue
<1>2. n \in 0..MaxInteger /\ (Len(v.value) <= MaxInteger => n = Len(v.value))
  BY <1>1, CutIs
<1>3. n \in Nat /\ n <= Len(v.value)
  BY <1>1, <1>2, CutIs, MaxIntegerIs
<1> HIDE DEF n
<1>4. IntegerToStream(host, n) = Outside(n) /\ Outside(n) \in Seq(Octet)
  BY <1>2, AnyHost
<1>5. SubSeq(v.value, 1, n) \in Seq(Octet)
  BY <1>1, <1>3
<1>6. Pieces(host, v) = <<Outside(n), SubSeq(v.value, 1, n)>>
  BY <1>1, <1>4 DEF Pieces, n
<1>7. Len(v.value) <= MaxInteger => SubSeq(v.value, 1, n) = v.value
  BY <1>1, <1>2
<1>8. Pieces(host, v) \in Seq(Seq(Octet)) /\ Len(Pieces(host, v)) = 2
  BY <1>4, <1>5, <1>6
<1> QED
  BY <1>2, <1>3, <1>6, <1>7, <1>8 DEF n

LEMMA ContainerPieces ==
  ASSUME Traited, NEW host \in ByteOrders, NEW v, ContainerValue(v)
  PROVE  /\ Pieces(host, v) \in Seq(Seq(Octet))
         /\ Len(v.value) \in Nat /\ Cut(Len(v.value)) \in 0..MaxInteger
         /\ Len(Pieces(host, v)) = Len(v.value) + 1
         /\ Pieces(host, v)[1] = Outside(Cut(Len(v.value)))
         /\ \A i \in 1..Len(v.value) : /\ v.value[i] \in 0..MaxInteger
                                       /\ Pieces(host, v)[i + 1] = Outside(v.value[i])
<1> DEFINE n == Cut(Len(v.value))
           a == <<Outside(n)>>
           b == [i \in DOMAIN v.value |-> IntegerToStream(host, v.value[i])]
<1>1. /\ v.value \in Seq(0..MaxInteger) /\ Len(v.value) \in Nat /\ v.type = "container"
      /\ DOMAIN v.value = 1..Len(v.value)
      /\ \A i \in 1..Len(v.value) : v.value[i] \in 0..MaxInteger
  <2>1. v.type = "container" /\ v.value \in Seq(0..MaxInteger)
    BY DEF ContainerValue
  <2> QED
    BY <2>1, SequenceFacts
<1>2. n \in 0..MaxInteger
  BY <1>1, CutIs
<1> HIDE DEF n
<1>3. IntegerToStream(host, n) = Outside(n) /\ Outside(n) \in Seq(Octet)
  BY <1>2, AnyHost
<1>4. \A i \in 1..Len(v.value) : /\ IntegerToStream(host, v.value[i]) = Outside(v.value[i])
                                 /\ Outside(v.value[i]) \in Seq(Octet)
  BY <1>1, AnyHost
<1>5. a \in Seq(Seq(Octet)) /\ Len(a) = 1 /\ a[1] = Outside(n)
  BY <1>3
<1>6. /\ b \in Seq(Seq(Octet)) /\ Len(b) = Len(v.value)
      /\ \A i \in 1..Len(v.value) : b[i] = Outside(v.value[i])
  BY <1>1, <1>4
<1>7. Pieces(host, v) = a \o b
  BY <1>1, <1>3 DEF Pieces, n
<1> HIDE DEF a, b
<1>8. /\ a \o b \in Seq(Seq(Octet)) /\ Len(a \o b) = 1 + Len(v.value)
      /\ \A i \in 1..1 : (a \o b)[i] = a[i]
      /\ \A i \in 1..Len(v.value) : (a \o b)[1 + i] = b[i]
  <2> HIDE DEF a, b
  <2>1. /\ a \o b \in Seq(Seq(Octet)) /\ Len(a \o b) = Len(a) + Len(b)
        /\ \A i \in 1..Len(a) : (a \o b)[i] = a[i]
        /\ \A i \in 1..Len(b) : (a \o b)[Len(a) + i] = b[i]
    <3> DEFINE S == Seq(Octet)
    <3>1. a \in Seq(S) /\ b \in Seq(S)
      BY <1>5, <1>6
    <3> HIDE DEF S
    <3>2. /\ a \o b \in Seq(S) /\ Len(a \o b) = Len(a) + Len(b)
          /\ \A i \in 1..Len(a) : (a \o b)[i] = a[i]
          /\ \A i \in 1..Len(b) : (a \o b)[Len(a) + i] = b[i]
      BY <3>1, Behind
    <3> QED
      BY <3>2 DEF S
  <2> QED
    BY <1>5, <1>6, <2>1
<1>9. \A i \in 1..Len(v.value) : (a \o b)[i + 1] = b[i]
  <2>1. \A i \in 1..Len(v.value) : i + 1 = 1 + i
    BY <1>1
  <2> QED
    BY <1>8, <2>1
<1>10. Len(v.value) + 1 = 1 + Len(v.value) /\ 1 \in 1..1
  BY <1>1
<1>11. (a \o b)[1] = Outside(n)
  BY <1>5, <1>8, <1>10
<1>12. \A i \in 1..Len(v.value) : (a \o b)[i + 1] = Outside(v.value[i])
  BY <1>6, <1>9
<1> QED
  BY <1>1, <1>2, <1>7, <1>8, <1>10, <1>11, <1>12 DEF n

LEMMA PiecesWhole ==
  ASSUME Traited, NEW host \in ByteOrders, NEW v, Given(v)
  PROVE  Pieces(host, v) \in Seq(Seq(Octet)) /\ Pieces(host, v) # <<>>
<1>1. CASE v.type = "integer" /\ v.value \in 0..MaxInteger
  <2>1. Pieces(host, v) \in Seq(Seq(Octet)) /\ Pieces(host, v) = <<Outside(v.value)>>
    BY <1>1, IntegerPieces
  <2> QED
    BY <2>1
<1>2. CASE v.type = "byte" /\ v.value \in Octet
  <2>1. Pieces(host, v) \in Seq(Seq(Octet)) /\ Pieces(host, v) = <<<<v.value>>>>
    BY <1>2, BytePieces
  <2> QED
    BY <2>1
<1>3. CASE StringValue(v)
  <2>1. Pieces(host, v) \in Seq(Seq(Octet)) /\ Len(Pieces(host, v)) = 2
    BY <1>3, StringPieces
  <2> QED
    BY <2>1, NotEmpty
<1>4. CASE ContainerValue(v)
  <2>1. /\ Pieces(host, v) \in Seq(Seq(Octet)) /\ Len(v.value) \in Nat
        /\ Len(Pieces(host, v)) = Len(v.value) + 1
    BY <1>4, ContainerPieces
  <2> DEFINE p == Pieces(host, v)
             n == Len(v.value)
  <2> HIDE DEF p, n
  <2>2. p \in Seq(Seq(Octet)) /\ n \in Nat /\ Len(p) = n + 1
    BY <2>1 DEF p, n
  <2>3. p # <<>>
    BY <2>2
  <2> QED
    BY <2>2, <2>3 DEF p
<1> QED
  BY <1>1, <1>2, <1>3, <1>4 DEF Given

-----------------------------------------------------------------------------
(* The header *)

HeaderInv ==
    /\ trait \in HeadTraits
    /\ writer \in Writers /\ ~writer.thrown
    /\ wrote \in Seq(Inputs)
    /\ wrote # <<>> => Fixed(writer)

LEMMA TraitsTraited == trait \in HeadTraits => Traited
BY StreamAssumption DEF Traited

LEMMA WritersKept ==
  ASSUME trait' = trait, writer' \in Writers
  PROVE  (writer \in Writers)' /\ (Fixed(writer') => Fixed(writer)')
BY DEF Writers, Fixed, HeadLen, Outside, PackLen

LEMMA HeaderInit == StreamInit => HeaderInv
<1> SUFFICES ASSUME StreamInit PROVE HeaderInv
  OBVIOUS
<1>1. Traited
  BY TraitsTraited DEF StreamInit
<1>2. HeadLen \in Nat
  BY <1>1, Header
<1>3. PICK host \in Hosts, max \in Lengths, quiet \in BOOLEAN :
        writer = [host |-> host, m_maxStreamLen |-> max, m_cursor |-> HeadLen,
                  m_bNoWrite |-> quiet, thrown |-> FALSE,
                  m_data |-> IF quiet THEN <<>> ELSE [i \in 1..HeadLen |-> 0]]
  BY DEF StreamInit
<1>4. host \in ByteOrders /\ max \in 0..MaxInteger
  BY StreamAssumption
<1> DEFINE zeros == [i \in 1..HeadLen |-> 0]
<1>5. zeros \in Seq(Octet) /\ Len(zeros) = HeadLen
  <2>1. 0 \in Octet
    BY StreamAssumption DEF Octet
  <2> HIDE DEF Octet
  <2> QED
    BY <1>2, <2>1
<1> HIDE DEF zeros
<1>6. writer = [host |-> host, m_maxStreamLen |-> max, m_cursor |-> HeadLen,
                m_bNoWrite |-> quiet, thrown |-> FALSE,
                m_data |-> IF quiet THEN <<>> ELSE zeros]
  BY <1>3 DEF zeros
<1>7. (IF quiet THEN <<>> ELSE zeros) \in Seq(Octet)
  BY <1>5
<1>8. writer \in [host : ByteOrders, m_maxStreamLen : 0..MaxInteger, m_cursor : Nat,
                  m_bNoWrite : BOOLEAN, thrown : BOOLEAN, m_data : Seq(Octet)]
  BY <1>2, <1>4, <1>6, <1>7
<1>9. writer \in Writers /\ ~writer.thrown
  BY <1>2, <1>5, <1>6, <1>8 DEF Writers
<1> QED
  BY <1>9 DEF StreamInit, HeaderInv

LEMMA WriteKeepsHeader ==
  ASSUME HeaderInv, NEW v \in Inputs, Write(v)
  PROVE  HeaderInv'
<1> DEFINE pieces == Pieces(writer.host, v)
           w == Written(writer, pieces)[Len(pieces)]
<1>1. Traited /\ writer \in Writers /\ ~writer.thrown /\ trait' = trait /\ wrote \in Seq(Inputs)
  BY TraitsTraited DEF HeaderInv, Write
<1>2. pieces \in Seq(Seq(Octet)) /\ pieces # <<>>
  <2>1. writer.host \in ByteOrders
    BY <1>1 DEF Writers
  <2> QED
    BY <1>1, <2>1, InputsGiven, PiecesWhole
<1>3. /\ writer' = [w EXCEPT !.thrown = FALSE]
      /\ wrote' = IF w.thrown THEN wrote ELSE Append(wrote, v)
  BY DEF Write
<1>4. /\ w \in Writers /\ (Fixed(writer) \/ ~w.thrown => Fixed(w))
  BY <1>1, <1>2, WrittenGrows
<1> HIDE DEF w
<1>5. writer' \in Writers /\ ~writer'.thrown /\ (Fixed(w) => Fixed(writer'))
  <2> DEFINE r == [w EXCEPT !.thrown = FALSE]
  <2>1. /\ r.host = w.host /\ r.m_maxStreamLen = w.m_maxStreamLen
        /\ r.m_bNoWrite = w.m_bNoWrite /\ r.m_cursor = w.m_cursor /\ r.m_data = w.m_data
        /\ ~r.thrown
    BY <1>4 DEF Writers
  <2>2. r \in Writers
    BY <1>4 DEF Writers
  <2>3. writer' = r
    BY <1>3
  <2> HIDE DEF r
  <2> QED
    BY <2>1, <2>2, <2>3 DEF Fixed
<1>6. (writer \in Writers)' /\ (Fixed(writer') => Fixed(writer)')
  BY <1>1, <1>5, WritersKept
<1>7. wrote' \in Seq(Inputs) /\ (wrote' # <<>> => wrote # <<>> \/ ~w.thrown)
  BY <1>1, <1>3
<1>8. wrote' # <<>> => Fixed(writer)'
  BY <1>4, <1>5, <1>6, <1>7 DEF HeaderInv
<1> QED
  BY <1>1, <1>5, <1>6, <1>7, <1>8 DEF HeaderInv

LEMMA HeaderStep == HeaderInv /\ [StreamNext]_streamVars => HeaderInv'
<1> SUFFICES ASSUME HeaderInv, [StreamNext]_streamVars PROVE HeaderInv'
  OBVIOUS
<1>1. CASE \E v \in Inputs : Write(v)
  BY <1>1, WriteKeepsHeader
<1>2. CASE trait' = trait /\ writer' = writer /\ wrote' = wrote
  <2>1. writer' \in Writers
    BY <1>2 DEF HeaderInv
  <2>2. (writer \in Writers)' /\ (Fixed(writer') => Fixed(writer)')
    BY <1>2, <2>1, WritersKept
  <2> QED
    BY <1>2, <2>2 DEF HeaderInv
<1>3. CASE StartReading
  BY <1>2, <1>3 DEF StartReading
<1>4. CASE Read
  BY <1>2, <1>4 DEF Read
<1>5. CASE UNCHANGED streamVars
  BY <1>2, <1>5 DEF streamVars
<1> QED
  BY <1>1, <1>3, <1>4, <1>5 DEF StreamNext

\* The stored length read back says the length of the packet.
LEMMA HeaderSays ==
  ASSUME HeaderInv
  PROVE  HeaderTrue
<1> SUFFICES ASSUME wrote # <<>>, ~writer.m_bNoWrite
             PROVE  /\ writer.m_cursor = Len(writer.m_data)
                    /\ writer.m_cursor <= writer.m_maxStreamLen
                    /\ \A host \in Hosts, n \in HeadLen..writer.m_cursor :
                         IntegrityOf(host, writer.m_data, n, MaxInteger) =
                           IF n = writer.m_cursor THEN <<"IRT_SUCCESS", n>>
                           ELSE <<"IRT_SHORTAGE", writer.m_cursor - n>>
  BY DEF HeaderTrue
<1> DEFINE c == writer.m_cursor
           d == writer.m_data
           pre == trait.PreOffset
<1>1. Traited /\ writer \in Writers /\ Fixed(writer)
  BY TraitsTraited DEF HeaderInv
<1>2. /\ c \in Nat /\ d \in Seq(Octet) /\ Len(d) = c /\ HeadLen <= c
      /\ writer.m_maxStreamLen \in 0..MaxInteger
  BY <1>1 DEF Writers
<1>3. /\ HeadLen \in Nat /\ pre \in Nat /\ IntegerSize \in Nat
      /\ pre + IntegerSize <= HeadLen /\ 1 <= IntegerSize
  BY <1>1, Header
<1>4. c <= writer.m_maxStreamLen /\ MaxInteger \in Nat /\ c \in HeadLen..MaxInteger
  BY <1>1, <1>2, <1>3, MaxIntegerIs DEF Fixed
<1>5. /\ PackLen(c) \in 0..MaxInteger /\ Outside(PackLen(c)) \in [1..IntegerSize -> Octet]
      /\ Outside(PackLen(c)) \in Seq(Octet) /\ Len(Outside(PackLen(c))) = IntegerSize
  <2>1. "LittleEndian" \in ByteOrders
    BY DEF ByteOrders
  <2> QED
    BY <1>1, <1>4, <2>1, PackLenFits, AnyHost
<1>6. \A k \in 1..IntegerSize : d[pre + k] = Outside(PackLen(c))[k]
  BY <1>1 DEF Fixed
<1> HIDE DEF d, c, pre
<1>7. SubSeq(d, pre + 1, pre + IntegerSize) = Outside(PackLen(c))
  <2> DEFINE s == SubSeq(d, pre + 1, pre + IntegerSize)
             o == Outside(PackLen(c))
  <2>1. s \in Seq(Octet) /\ Len(s) = IntegerSize /\ \A k \in 1..IntegerSize : s[k] = d[pre + k]
    BY <1>2, <1>3
  <2>2. \A k \in 1..IntegerSize : d[pre + k] = o[k]
    BY <1>6
  <2>3. o \in Seq(Octet) /\ Len(o) = IntegerSize
    BY <1>5
  <2> HIDE DEF s, o
  <2>4. s = o
    BY <2>1, <2>2, <2>3
  <2> QED
    BY <2>4 DEF s, o
<1>8. ASSUME NEW host \in Hosts, NEW n \in HeadLen..c
      PROVE  IntegrityOf(host, d, n, MaxInteger) =
               IF n = c THEN <<"IRT_SUCCESS", n>> ELSE <<"IRT_SHORTAGE", c - n>>
  <2>1. host \in ByteOrders
    BY StreamAssumption
  <2>2. StreamToInteger(host, SubSeq(d, pre + 1, pre + IntegerSize)) = PackLen(c)
    BY <1>1, <1>5, <1>7, <2>1, IntegerBack
  <2>3. n \in Nat /\ ~(n < HeadLen) /\ n <= c
    BY <1>2, <1>3
  <2> DEFINE stored == StreamToInteger(host, SubSeq(d, trait.PreOffset + 1,
                                                    trait.PreOffset + IntegerSize))
  <2>4. CASE trait.PackLenIsContainHead
    <3>1. PackLen(c) = c
      BY <2>4 DEF PackLen
    <3>2. stored = c
      BY <2>2, <3>1 DEF pre
    <3> HIDE DEF stored
    <3>3. IntegrityOf(host, d, n, MaxInteger) =
            IF n < HeadLen THEN <<"IRT_SHORTAGE", HeadLen - n>>
            ELSE IF stored > MaxInteger THEN <<"IRT_CORRUPTION", n>>
            ELSE IF stored <= n THEN <<"IRT_SUCCESS", stored>>
            ELSE <<"IRT_SHORTAGE", stored - n>>
      BY <2>4 DEF IntegrityOf, stored
    <3>4. ~(c > MaxInteger) /\ (c <= n <=> n = c)
      BY <1>2, <1>4, <2>3
    <3> QED
      BY <2>3, <3>2, <3>3, <3>4
  <2>5. CASE ~trait.PackLenIsContainHead
    <3>1. PackLen(c) = c - HeadLen /\ PackLen(c) + HeadLen = c
      BY <1>2, <1>3, <2>5 DEF PackLen
    <3>2. Cut(PackLen(c) + HeadLen) = c
      <4>1. c <= MaxInteger
        BY <1>2, <1>4
      <4> QED
        BY <1>2, <3>1, <4>1, CutIs
    <3>3. ~(c < PackLen(c)) /\ ~(c > MaxInteger)
      BY <1>2, <1>3, <1>4, <3>1
    <3>4. stored = PackLen(c)
      BY <2>2 DEF pre
    <3> HIDE DEF stored
    <3>5. IntegrityOf(host, d, n, MaxInteger) =
            IF n < HeadLen THEN <<"IRT_SHORTAGE", HeadLen - n>>
            ELSE IF Cut(stored + HeadLen) < stored THEN <<"IRT_CORRUPTION", n>>
            ELSE IF Cut(stored + HeadLen) > MaxInteger THEN <<"IRT_CORRUPTION", n>>
            ELSE IF Cut(stored + HeadLen) <= n THEN <<"IRT_SUCCESS", Cut(stored + HeadLen)>>
            ELSE <<"IRT_SHORTAGE", Cut(stored + HeadLen) - n>>
      BY <2>5 DEF IntegrityOf, stored
    <3>6. c <= n <=> n = c
      BY <1>2, <2>3
    <3> QED
      BY <2>3, <3>2, <3>3, <3>4, <3>5, <3>6
  <2> QED
    BY <2>4, <2>5
<1> QED
  BY <1>2, <1>4, <1>8 DEF c, d

\* At every moment the header says how long the packet is: CheckBuffIntegrity,
\* given the packet or the beginning of it, asks for exactly the rest.
THEOREM HeaderSaysLength == StreamSpec => []HeaderTrue
<1>1. StreamInit => HeaderInv
  BY HeaderInit
<1>2. HeaderInv /\ [StreamNext]_streamVars => HeaderInv'
  BY HeaderStep
<1>3. HeaderInv => HeaderTrue
  BY HeaderSays
<1> QED
  BY <1>1, <1>2, <1>3, PTL DEF StreamSpec

-----------------------------------------------------------------------------
(* What a written value leaves in the packet *)

IntegerAt(d, p, n) == \A k \in 1..IntegerSize : d[p + k] = Outside(n)[k]

\* v is in d behind p.
StoredAt(d, p, v) ==
    /\ v.type = "integer" => IntegerAt(d, p, v.value)
    /\ v.type = "byte" => d[p + 1] = v.value
    /\ v.type = "string" =>
         /\ IntegerAt(d, p, Len(v.value))
         /\ \A k \in 1..Len(v.value) : d[(p + IntegerSize) + k] = v.value[k]
    /\ v.type = "container" =>
         /\ Len(v.value) <= MaxInteger /\ IntegerAt(d, p, Len(v.value))
         /\ \A i \in 1..Len(v.value) : IntegerAt(d, p + i * IntegerSize, v.value[i])

Extent(v) ==
    IF v.type = "integer" THEN IntegerSize
    ELSE IF v.type = "byte" THEN 1
    ELSE IF v.type = "string" THEN IntegerSize + Len(v.value)
    ELSE (Len(v.value) + 1) * IntegerSize

\* The pieces of a << that did not throw lie one behind the other.
Placed(ends, pieces, w, r) ==
    /\ ends \in [0..Len(pieces) -> Nat]
    /\ ends[0] = w.m_cursor /\ ends[Len(pieces)] = r.m_cursor
    /\ \A i \in 1..Len(pieces) :
         /\ ends[i] = ends[i - 1] + Len(pieces[i])
         /\ ~w.m_bNoWrite =>
              \A k \in 1..Len(pieces[i]) : r.m_data[ends[i - 1] + k] = pieces[i][k]

LEMMA WrittenPlaced ==
  ASSUME Traited, NEW w \in Writers, NEW pieces \in Seq(Seq(Octet)),
         ~Written(w, pieces)[Len(pieces)].thrown
  PROVE  \E ends : Placed(ends, pieces, w, Written(w, pieces)[Len(pieces)])
<1> DEFINE m == Len(pieces)
           after == Written(w, pieces)
           ends == [i \in 0..m |-> after[i].m_cursor]
           T == {i \in 0..m : ~after[i].thrown =>
                   /\ after[i].m_bNoWrite = w.m_bNoWrite
                   /\ \A j \in 1..i :
                        /\ ends[j] = ends[j - 1] + Len(pieces[j]) /\ ends[j] <= ends[i]
                        /\ HeadLen <= ends[j - 1]
                        /\ ~w.m_bNoWrite =>
                             \A k \in 1..Len(pieces[j]) :
                                after[i].m_data[ends[j - 1] + k] = pieces[j][k]}
<1>1. m \in Nat /\ \A i \in 1..m : pieces[i] \in Seq(Octet) /\ Len(pieces[i]) \in Nat
  OBVIOUS
<1>2. /\ after \in [0..m -> Writers] /\ after[0] = w
      /\ \A i \in 1..m : after[i] = Put(after[i - 1], pieces[i])
  BY WrittenIs
<1>3. ~after[m].thrown
  OBVIOUS
<1> HIDE DEF after, m
<1>4. /\ ends \in [0..m -> Nat]
      /\ \A i \in 0..m : ends[i] = after[i].m_cursor /\ HeadLen <= ends[i] /\ ends[i] \in Nat
  <2>1. \A i \in 0..m : after[i].m_cursor \in Nat /\ HeadLen <= after[i].m_cursor
    BY <1>2 DEF Writers
  <2> QED
    BY <2>1
<1>5. HeadLen \in Nat
  BY Header
<1> HIDE DEF ends
<1>6. 0 \in T
  BY <1>1, <1>2
<1>7. ASSUME NEW i \in 1..m, i - 1 \in T PROVE i \in T
  <2> DEFINE u == after[i - 1]
             v == after[i]
  <2>1. i - 1 \in 0..m /\ i \in 0..m /\ pieces[i] \in Seq(Octet)
    BY <1>1
  <2>2. u \in Writers /\ v \in Writers /\ v = Put(u, pieces[i])
    BY <1>2, <2>1
  <2> HIDE DEF u, v
  <2>3. SUFFICES ASSUME ~v.thrown
                 PROVE  /\ v.m_bNoWrite = w.m_bNoWrite
                        /\ \A j \in 1..i :
                             /\ ends[j] = ends[j - 1] + Len(pieces[j]) /\ ends[j] <= ends[i]
                             /\ HeadLen <= ends[j - 1]
                             /\ ~w.m_bNoWrite =>
                                  \A k \in 1..Len(pieces[j]) :
                                     v.m_data[ends[j - 1] + k] = pieces[j][k]
    BY <2>1 DEF v
  <2>4. ~u.thrown /\ Fits(u, Len(pieces[i]))
    BY <2>1, <2>2, <2>3, PutRefused
  <2>5. /\ SameStream(u, v) /\ v.m_cursor = u.m_cursor + Len(pieces[i])
        /\ ~u.m_bNoWrite => \A k \in 1..Len(pieces[i]) : v.m_data[u.m_cursor + k] = pieces[i][k]
    BY <2>1, <2>2, <2>4, PutDone
  <2>6. /\ u.m_bNoWrite = w.m_bNoWrite
        /\ \A j \in 1..(i - 1) :
             /\ ends[j] = ends[j - 1] + Len(pieces[j]) /\ ends[j] <= ends[i - 1]
             /\ HeadLen <= ends[j - 1]
             /\ ~w.m_bNoWrite =>
                  \A k \in 1..Len(pieces[j]) : u.m_data[ends[j - 1] + k] = pieces[j][k]
    BY <1>7, <2>4 DEF u
  <2>7. ends[i - 1] = u.m_cursor /\ ends[i] = v.m_cursor
    BY <1>4, <2>1 DEF u, v
  <2>8. v.m_bNoWrite = w.m_bNoWrite
    BY <2>5, <2>6 DEF SameStream
  <2>9. ASSUME NEW j \in 1..i
        PROVE  /\ ends[j] = ends[j - 1] + Len(pieces[j]) /\ ends[j] <= ends[i]
               /\ HeadLen <= ends[j - 1]
               /\ ~w.m_bNoWrite =>
                    \A k \in 1..Len(pieces[j]) : v.m_data[ends[j - 1] + k] = pieces[j][k]
    <3>1. ends[i - 1] \in Nat /\ ends[i] \in Nat /\ HeadLen <= ends[i - 1]
          /\ Len(pieces[i]) \in Nat
      BY <1>1, <1>4, <2>1
    <3>2. CASE j = i
      BY <2>5, <2>6, <2>7, <3>1, <3>2
    <3>3. CASE j # i
      <4>1. j \in 1..(i - 1) /\ j \in 0..m /\ j - 1 \in 0..m /\ j \in 1..m
        BY <1>1, <3>3
      <4>2. /\ ends[j] = ends[j - 1] + Len(pieces[j]) /\ ends[j] <= ends[i - 1]
            /\ HeadLen <= ends[j - 1]
            /\ ends[j] \in Nat /\ ends[j - 1] \in Nat /\ Len(pieces[j]) \in Nat
        BY <1>1, <1>4, <2>6, <4>1
      <4>3. ends[j] <= ends[i]
        BY <2>5, <2>7, <3>1, <4>2
      <4>4. ASSUME ~w.m_bNoWrite, NEW k \in 1..Len(pieces[j])
            PROVE  v.m_data[ends[j - 1] + k] = pieces[j][k]
        <5>1. ends[j - 1] + k \in (HeadLen + 1)..u.m_cursor
          <6> DEFINE x == ends[j - 1]
                     l == Len(pieces[j])
                     c == ends[i - 1]
          <6>1. x \in Nat /\ l \in Nat /\ c \in Nat /\ HeadLen <= x /\ x + l <= c
            BY <3>1, <4>2
          <6>2. k \in 1..l
            OBVIOUS
          <6> HIDE DEF x, l, c
          <6>3. x + k \in (HeadLen + 1)..c
            BY <1>5, <6>1, <6>2
          <6> QED
            BY <2>7, <6>3 DEF x, c
        <5>2. v.m_data[ends[j - 1] + k] = u.m_data[ends[j - 1] + k]
          BY <2>5, <2>6, <4>4, <5>1 DEF SameStream
        <5> QED
          BY <2>6, <4>1, <4>4, <5>2
      <4> QED
        BY <4>2, <4>3, <4>4
    <3> QED
      BY <3>2, <3>3
  <2> QED
    BY <2>8, <2>9
<1>8. \A i \in 0..m : i \in T
  <2> HIDE DEF T
  <2> QED
    BY <1>1, <1>6, <1>7, UpTo
<1>9. m \in 0..m /\ 0 \in 0..m
  BY <1>1
<1>10. Placed(ends, pieces, w, after[m])
  <2>1. /\ after[m].m_bNoWrite = w.m_bNoWrite
        /\ \A j \in 1..m :
             /\ ends[j] = ends[j - 1] + Len(pieces[j])
             /\ ~w.m_bNoWrite =>
                  \A k \in 1..Len(pieces[j]) : after[m].m_data[ends[j - 1] + k] = pieces[j][k]
    BY <1>3, <1>8, <1>9
  <2> QED
    BY <1>2, <1>4, <1>9, <2>1 DEF Placed, m
<1> QED
  BY <1>10 DEF after, m

\* r has v where w ended.
Holds(w, r, v) ==
    /\ r.m_cursor = w.m_cursor + Extent(v) /\ Extent(v) \in Nat \ {0}
    /\ ~w.m_bNoWrite => StoredAt(r.m_data, w.m_cursor, v)

LEMMA IntegerHeld ==
  ASSUME Traited, NEW w \in Writers, NEW v, v.type = "integer", v.value \in 0..MaxInteger,
         NEW r, NEW ends, Placed(ends, Pieces(w.host, v), w, r)
  PROVE  Holds(w, r, v)
<1> DEFINE pieces == Pieces(w.host, v)
<1>1. w.host \in ByteOrders /\ IntegerSize \in Nat \ {0}
  BY StreamAssumption DEF Writers
<1>2. pieces = <<Outside(v.value)>> /\ Len(pieces) = 1 /\ Len(Outside(v.value)) = IntegerSize
  BY <1>1, IntegerPieces, AnyHost
<1>3. pieces[1] = Outside(v.value)
  BY <1>2
<1> HIDE DEF pieces
<1>4. /\ ends[0] = w.m_cursor /\ ends[1] = r.m_cursor /\ ends[1] = ends[0] + Len(pieces[1])
      /\ ~w.m_bNoWrite => \A k \in 1..Len(pieces[1]) : r.m_data[ends[0] + k] = pieces[1][k]
  <2>1. Placed(ends, pieces, w, r)
    BY DEF pieces
  <2>2. 1 \in 1..Len(pieces) /\ 1 - 1 = 0
    BY <1>2
  <2> QED
    BY <1>2, <2>1, <2>2 DEF Placed
<1>5. Extent(v) = IntegerSize
  BY DEF Extent
<1>6. ~w.m_bNoWrite => IntegerAt(r.m_data, w.m_cursor, v.value)
  BY <1>2, <1>3, <1>4 DEF IntegerAt
<1> QED
  BY <1>1, <1>2, <1>3, <1>4, <1>5, <1>6 DEF Holds, StoredAt

LEMMA ByteHeld ==
  ASSUME Traited, NEW w \in Writers, NEW v, v.type = "byte", v.value \in Octet,
         NEW r, NEW ends, Placed(ends, Pieces(w.host, v), w, r)
  PROVE  Holds(w, r, v)
<1> DEFINE pieces == Pieces(w.host, v)
<1>1. pieces = <<<<v.value>>>> /\ Len(pieces) = 1
  BY BytePieces
<1>2. pieces[1] = <<v.value>> /\ Len(pieces[1]) = 1 /\ pieces[1][1] = v.value
  BY <1>1
<1>0. Len(pieces) = 1
  BY <1>1
<1> HIDE DEF pieces
<1>3. /\ ends[0] = w.m_cursor /\ ends[1] = r.m_cursor /\ ends[1] = ends[0] + Len(pieces[1])
      /\ ~w.m_bNoWrite => \A k \in 1..Len(pieces[1]) : r.m_data[ends[0] + k] = pieces[1][k]
  <2>1. Placed(ends, pieces, w, r)
    BY DEF pieces
  <2>2. 1 \in 1..Len(pieces) /\ 1 - 1 = 0
    BY <1>0
  <2>3. ends[Len(pieces)] = ends[1]
    BY <1>0
  <2> QED
    BY <2>1, <2>2, <2>3 DEF Placed
<1>4. Extent(v) = 1
  BY DEF Extent
<1>5. ~w.m_bNoWrite => r.m_data[w.m_cursor + 1] = v.value
  BY <1>2, <1>3
<1> QED
  BY <1>2, <1>3, <1>4, <1>5 DEF Holds, StoredAt

LEMMA StringHeld ==
  ASSUME Traited, NEW w \in Writers, NEW v, StringValue(v), Len(v.value) <= MaxInteger,
         NEW r, NEW ends, Placed(ends, Pieces(w.host, v), w, r)
  PROVE  Holds(w, r, v)
<1> DEFINE pieces == Pieces(w.host, v)
           n == Len(v.value)
<1>1. w.host \in ByteOrders /\ w.m_cursor \in Nat /\ IntegerSize \in Nat \ {0}
  BY StreamAssumption DEF Writers
<1>2. n \in Nat /\ v.type = "string" /\ n \in 0..MaxInteger
  BY MaxIntegerIs DEF StringValue
<1>3. pieces = <<Outside(n), v.value>> /\ Len(pieces) = 2
  BY <1>1, StringPieces
<1>4. Len(Outside(n)) = IntegerSize
  BY <1>1, <1>2, AnyHost
<1>5. pieces[1] = Outside(n) /\ pieces[2] = v.value
  BY <1>3
<1>0. Len(pieces) = 2
  BY <1>3
<1> HIDE DEF pieces
<1>6. /\ ends[0] = w.m_cursor /\ ends[2] = r.m_cursor
      /\ ends[1] = ends[0] + Len(pieces[1]) /\ ends[2] = ends[1] + Len(pieces[2])
      /\ ~w.m_bNoWrite =>
           /\ \A k \in 1..Len(pieces[1]) : r.m_data[ends[0] + k] = pieces[1][k]
           /\ \A k \in 1..Len(pieces[2]) : r.m_data[ends[1] + k] = pieces[2][k]
  <2>1. Placed(ends, pieces, w, r)
    BY DEF pieces
  <2>2. 1 \in 1..Len(pieces) /\ 1 - 1 = 0 /\ 2 \in 1..Len(pieces) /\ 2 - 1 = 1
    BY <1>0
  <2>3. ends[Len(pieces)] = ends[2]
    BY <1>0
  <2> QED
    BY <2>1, <2>2, <2>3 DEF Placed
<1>7. Extent(v) = IntegerSize + n
  BY <1>2 DEF Extent
<1> HIDE DEF n
<1>8. ends[1] = w.m_cursor + IntegerSize /\ r.m_cursor = w.m_cursor + (IntegerSize + n)
  <2>1. Len(pieces[1]) = IntegerSize /\ Len(pieces[2]) = n
    BY <1>4, <1>5 DEF n
  <2>2. /\ ends[0] = w.m_cursor /\ ends[2] = r.m_cursor
        /\ ends[1] = ends[0] + IntegerSize /\ ends[2] = ends[1] + n
    BY <1>6, <2>1
  <2> QED
    BY <1>1, <1>2, <2>2
<1>9. ASSUME ~w.m_bNoWrite
      PROVE  /\ IntegerAt(r.m_data, w.m_cursor, n)
             /\ \A k \in 1..n : r.m_data[(w.m_cursor + IntegerSize) + k] = v.value[k]
  <2>1. IntegerAt(r.m_data, w.m_cursor, n)
    BY <1>4, <1>5, <1>6, <1>9 DEF IntegerAt
  <2>2. \A k \in 1..n : r.m_data[ends[1] + k] = v.value[k]
    BY <1>5, <1>6, <1>9 DEF n
  <2> QED
    BY <1>8, <2>1, <2>2
<1>10. Extent(v) \in Nat \ {0}
  BY <1>1, <1>2, <1>7
<1>11. ~w.m_bNoWrite => StoredAt(r.m_data, w.m_cursor, v)
  BY <1>2, <1>9 DEF StoredAt, n
<1> QED
  BY <1>7, <1>8, <1>10, <1>11 DEF Holds

LEMMA NextTimes ==
  ASSUME NEW i \in Nat, NEW s \in Nat
  PROVE  (i + 1) * s = i * s + s /\ i * s \in Nat
OBVIOUS

LEMMA AtLeastAsMany ==
  ASSUME NEW i \in Nat, NEW s \in Nat \ {0}
  PROVE  i <= i * s
OBVIOUS

\* A container that the Integer cannot count does not fit into a stream either.
LEMMA ContainerHeld ==
  ASSUME Traited, NEW w \in Writers, NEW v, ContainerValue(v),
         NEW r \in Writers, Fixed(r),
         NEW ends, Placed(ends, Pieces(w.host, v), w, r)
  PROVE  Holds(w, r, v)
<1> DEFINE pieces == Pieces(w.host, v)
           n == Len(v.value)
           s == IntegerSize
           T == {i \in 0..(n + 1) : ends[i] = w.m_cursor + i * s}
<1>1. w.host \in ByteOrders /\ w.m_cursor \in Nat /\ s \in Nat \ {0}
  BY StreamAssumption DEF Writers
<1>2. v.type = "container" /\ n \in Nat
  BY DEF ContainerValue
<1>3. /\ pieces \in Seq(Seq(Octet)) /\ Len(pieces) = n + 1 /\ Cut(n) \in 0..MaxInteger
      /\ pieces[1] = Outside(Cut(n))
      /\ \A i \in 1..n : v.value[i] \in 0..MaxInteger /\ pieces[i + 1] = Outside(v.value[i])
  BY <1>1, ContainerPieces
<1>4. Len(pieces[1]) = s /\ \A i \in 1..n : Len(pieces[i + 1]) = s
  BY <1>1, <1>3, AnyHost
<1>5. Placed(ends, pieces, w, r)
  OBVIOUS
<1>6. Extent(v) = (n + 1) * s
  BY <1>2 DEF Extent
<1> HIDE DEF pieces, n, s
<1>7. \A i \in 1..(n + 1) : Len(pieces[i]) = s
  <2> SUFFICES ASSUME NEW i \in 1..(n + 1) PROVE Len(pieces[i]) = s
    OBVIOUS
  <2>1. CASE i = 1
    BY <1>4, <2>1
  <2>2. CASE i # 1
    <3>1. i - 1 \in 1..n /\ (i - 1) + 1 = i
      BY <1>2, <2>2
    <3> QED
      BY <1>4, <3>1
  <2> QED
    BY <2>1, <2>2
<1>8. /\ ends \in [0..(n + 1) -> Nat] /\ ends[0] = w.m_cursor /\ ends[n + 1] = r.m_cursor
      /\ \A i \in 1..(n + 1) :
           /\ ends[i] = ends[i - 1] + s
           /\ ~w.m_bNoWrite => \A k \in 1..s : r.m_data[ends[i - 1] + k] = pieces[i][k]
  BY <1>3, <1>5, <1>7 DEF Placed
<1>9. 0 \in T
  BY <1>1, <1>2, <1>8
<1>10. ASSUME NEW i \in 1..(n + 1), i - 1 \in T PROVE i \in T
  <2>1. ends[i - 1] = w.m_cursor + (i - 1) * s /\ ends[i] = ends[i - 1] + s
    BY <1>8, <1>10
  <2>2. i - 1 \in Nat /\ (i - 1) + 1 = i
    BY <1>2
  <2>3. i * s = (i - 1) * s + s /\ (i - 1) * s \in Nat
    BY <1>1, <2>2, NextTimes
  <2> QED
    BY <1>1, <2>1, <2>3
<1>11. \A i \in 0..(n + 1) : ends[i] = w.m_cursor + i * s
  <2>1. \A i \in 0..(n + 1) : i \in T
    <3> HIDE DEF T
    <3> QED
      BY <1>2, <1>9, <1>10, UpTo
  <2> QED
    BY <2>1
<1>12. r.m_cursor = w.m_cursor + (n + 1) * s
  BY <1>2, <1>8, <1>11
<1>13. (n + 1) * s \in Nat /\ n + 1 <= (n + 1) * s
  <2>1. n + 1 \in Nat
    BY <1>2
  <2> QED
    BY <1>1, <2>1, NextTimes, AtLeastAsMany
<1>14. n <= MaxInteger
  <2>1. r.m_cursor \in Nat /\ r.m_cursor <= r.m_maxStreamLen /\ r.m_maxStreamLen \in 0..MaxInteger
    BY DEF Writers, Fixed
  <2> QED
    BY <1>1, <1>2, <1>12, <1>13, <2>1, MaxIntegerIs
<1>15. Cut(n) = n
  BY <1>2, <1>14, CutIs
<1>16. Extent(v) \in Nat \ {0}
  BY <1>2, <1>6, <1>13
<1>17. ASSUME ~w.m_bNoWrite
       PROVE  /\ IntegerAt(r.m_data, w.m_cursor, n)
              /\ \A i \in 1..n : IntegerAt(r.m_data, w.m_cursor + i * s, v.value[i])
  <2>1. IntegerAt(r.m_data, w.m_cursor, n)
    <3>1. 1 \in 1..(n + 1) /\ 1 - 1 = 0
      BY <1>2
    <3>2. \A k \in 1..s : r.m_data[ends[0] + k] = pieces[1][k]
      BY <1>8, <1>17, <3>1
    <3> QED
      BY <1>3, <1>8, <1>15, <3>2 DEF IntegerAt, s
  <2>2. ASSUME NEW i \in 1..n
        PROVE  IntegerAt(r.m_data, w.m_cursor + i * s, v.value[i])
    <3>1. i + 1 \in 1..(n + 1) /\ (i + 1) - 1 = i /\ i \in 0..(n + 1)
      BY <1>2
    <3>2. \A k \in 1..s : r.m_data[ends[i] + k] = pieces[i + 1][k]
      BY <1>8, <1>17, <3>1
    <3>3. ends[i] = w.m_cursor + i * s
      BY <1>11, <3>1
    <3> QED
      BY <1>3, <3>2, <3>3 DEF IntegerAt, s
  <2> QED
    BY <2>1, <2>2
<1>18. ~w.m_bNoWrite => StoredAt(r.m_data, w.m_cursor, v)
  BY <1>2, <1>14, <1>17 DEF StoredAt, n, s
<1> QED
  BY <1>6, <1>12, <1>16, <1>18 DEF Holds

LEMMA ValueHeld ==
  ASSUME Traited, NEW w \in Writers, ~w.thrown, NEW v, Given(v), Sayable(v),
         ~Written(w, Pieces(w.host, v))[Len(Pieces(w.host, v))].thrown
  PROVE  Holds(w, Written(w, Pieces(w.host, v))[Len(Pieces(w.host, v))], v)
<1> DEFINE pieces == Pieces(w.host, v)
           r == Written(w, pieces)[Len(pieces)]
<1>1. pieces \in Seq(Seq(Octet)) /\ pieces # <<>>
  <2>1. w.host \in ByteOrders
    BY DEF Writers
  <2> QED
    BY <2>1, PiecesWhole
<1>2. ~r.thrown
  OBVIOUS
<1>3. r \in Writers /\ Fixed(r)
  BY <1>1, <1>2, WrittenGrows
<1>4. PICK ends : Placed(ends, pieces, w, r)
  BY <1>1, <1>2, WrittenPlaced
<1> HIDE DEF r
<1>5. CASE v.type = "integer" /\ v.value \in 0..MaxInteger
  BY <1>4, <1>5, IntegerHeld DEF r
<1>6. CASE v.type = "byte" /\ v.value \in Octet
  BY <1>4, <1>6, ByteHeld DEF r
<1>7. CASE StringValue(v)
  <2>1. Len(v.value) <= MaxInteger
    BY <1>7 DEF StringValue, Sayable
  <2> QED
    BY <1>4, <1>7, <2>1, StringHeld DEF r
<1>8. CASE ContainerValue(v)
  BY <1>3, <1>4, <1>8, ContainerHeld DEF r
<1> QED
  BY <1>5, <1>6, <1>7, <1>8 DEF Given

-----------------------------------------------------------------------------
(* A value is read *)

\* r reads the packet that writer has written.
Reads(r) ==
    /\ r \in [host : ByteOrders, m_maxDataLen : Nat, m_cursor : Nat]
    /\ writer.m_data \in Seq(Octet) /\ r.m_maxDataLen = Len(writer.m_data)

LEMMA MovedReads ==
  ASSUME NEW r, Reads(r), NEW c \in Nat
  PROVE  LET q == [r EXCEPT !.m_cursor = c] IN
         /\ Reads(q) /\ q.m_cursor = c /\ q.m_maxDataLen = r.m_maxDataLen
BY DEF Reads

LEMMA PieceIs ==
  ASSUME NEW S, NEW s \in Seq(S), NEW p \in Nat, NEW n \in Nat, p + n <= Len(s),
         NEW t \in Seq(S), Len(t) = n, \A k \in 1..n : s[p + k] = t[k]
  PROVE  SubSeq(s, p + 1, p + n) = t
<1> DEFINE u == SubSeq(s, p + 1, p + n)
<1>1. u \in Seq(S) /\ Len(u) = n /\ \A k \in 1..n : u[k] = s[p + k]
  OBVIOUS
<1> HIDE DEF u
<1>2. \A k \in 1..n : u[k] = t[k]
  BY <1>1
<1>3. u = t
  BY <1>1, <1>2
<1> QED
  BY <1>3 DEF u

LEMMA IntegerFound ==
  ASSUME Traited, NEW r, Reads(r), NEW n \in 0..MaxInteger,
         r.m_cursor + IntegerSize <= r.m_maxDataLen,
         IntegerAt(writer.m_data, r.m_cursor, n)
  PROVE  ReadIntegerData(r) = Found(n, r.m_cursor + IntegerSize)
<1> DEFINE p == r.m_cursor
           d == writer.m_data
<1>1. /\ p \in Nat /\ r.host \in ByteOrders /\ d \in Seq(Octet) /\ r.m_maxDataLen = Len(d)
      /\ Len(d) \in Nat /\ IntegerSize \in Nat \ {0}
  BY StreamAssumption DEF Reads
<1>2. Outside(n) \in Seq(Octet) /\ Len(Outside(n)) = IntegerSize
  BY <1>1, AnyHost
<1>3. p + IntegerSize <= Len(d) /\ \A k \in 1..IntegerSize : d[p + k] = Outside(n)[k]
  BY <1>1 DEF IntegerAt
<1> HIDE DEF d, p
<1>4. SubSeq(d, p + 1, p + IntegerSize) = Outside(n)
  BY <1>1, <1>2, <1>3, PieceIs
<1>5. CanMove(r, IntegerSize)
  BY <1>1, <1>3 DEF CanMove, p
<1>6. StreamToInteger(r.host, Bytes(r, IntegerSize)) = n
  BY <1>1, <1>4, IntegerBack DEF Bytes, d, p
<1> QED
  BY <1>5, <1>6 DEF ReadIntegerData, p

LEMMA ByteFound ==
  ASSUME NEW r, Reads(r), NEW b \in Octet,
         r.m_cursor + 1 <= r.m_maxDataLen, writer.m_data[r.m_cursor + 1] = b
  PROVE  ReadSimpleData(r) = Found(b, r.m_cursor + 1)
<1> DEFINE p == r.m_cursor
           d == writer.m_data
<1>1. p \in Nat /\ d \in Seq(Octet) /\ r.m_maxDataLen = Len(d) /\ Len(d) \in Nat
  BY DEF Reads
<1>2. p + 1 <= Len(d) /\ d[p + 1] = b
  BY <1>1
<1> HIDE DEF d, p
<1>3. SubSeq(d, p + 1, p + 1)[1] = b
  BY <1>1, <1>2
<1>4. CanMove(r, 1)
  BY <1>1, <1>2 DEF CanMove, p
<1>5. Bytes(r, 1)[1] = b
  BY <1>3 DEF Bytes, d, p
<1> QED
  BY <1>4, <1>5 DEF ReadSimpleData, p

LEMMA StringFound ==
  ASSUME Traited, NEW r, Reads(r), NEW s \in Seq(Octet), Len(s) <= MaxInteger,
         r.m_cursor + (IntegerSize + Len(s)) <= r.m_maxDataLen,
         IntegerAt(writer.m_data, r.m_cursor, Len(s)),
         \A k \in 1..Len(s) : writer.m_data[(r.m_cursor + IntegerSize) + k] = s[k]
  PROVE  \/ ReadString(r) = Found(s, r.m_cursor + (IntegerSize + Len(s)))
         \/ /\ s = <<>> /\ r.m_cursor + (IntegerSize + Len(s)) = r.m_maxDataLen
            /\ ReadString(r) = Thrown
<1> DEFINE n == Len(s)
           c == r.m_cursor + IntegerSize
           q == [r EXCEPT !.m_cursor = c]
           d == writer.m_data
<1>1. /\ r.m_cursor \in Nat /\ d \in Seq(Octet) /\ r.m_maxDataLen = Len(d)
      /\ Len(d) \in Nat /\ IntegerSize \in Nat \ {0} /\ n \in Nat
      /\ n = 0 => s = <<>>
  BY StreamAssumption DEF Reads
<1>2. n \in 0..MaxInteger /\ r.m_cursor + IntegerSize <= r.m_maxDataLen
  BY <1>1, MaxIntegerIs
<1>3. ReadIntegerData(r) = Found(n, c)
  BY <1>2, IntegerFound
<1>4. c \in Nat /\ c + n = r.m_cursor + (IntegerSize + n) /\ c + n <= Len(d)
  BY <1>1
<1> HIDE DEF n
<1>5. \A k \in 1..n : d[c + k] = s[k]
  BY DEF n
<1> HIDE DEF c
<1>6. Reads(q) /\ q.m_cursor = c /\ q.m_maxDataLen = Len(d)
  BY <1>1, <1>4, MovedReads
<1> HIDE DEF d
<1>7. SubSeq(d, c + 1, c + n) = s
  BY <1>1, <1>4, <1>5, PieceIs DEF n
<1>8. Found(n, c).ok /\ Found(n, c).value = n /\ Found(n, c).cursor = c
  BY DEF Found
<1> HIDE DEF q
<1>9. ReadString(r) = IF CanMove(q, n) THEN Found(Bytes(q, n), q.m_cursor + n) ELSE Thrown
  BY <1>3, <1>8 DEF ReadString, q
<1>10. Bytes(q, n) = s
  BY <1>6, <1>7 DEF Bytes, d
<1>11. CASE c < Len(d)
  <2>1. CanMove(q, n)
    BY <1>4, <1>6, <1>11 DEF CanMove
  <2> QED
    BY <1>4, <1>6, <1>9, <1>10, <2>1 DEF n
<1>12. CASE ~(c < Len(d))
  <2>1. n = 0 /\ c + n = Len(d)
    BY <1>1, <1>4, <1>12
  <2>2. ~CanMove(q, n)
    BY <1>6, <1>12 DEF CanMove
  <2> QED
    BY <1>1, <1>4, <1>9, <2>1, <2>2 DEF n
<1> QED
  BY <1>11, <1>12

LEMMA TimesGrow ==
  ASSUME NEW i \in Nat, NEW j \in Nat, i <= j, NEW s \in Nat
  PROVE  i * s <= j * s /\ i * s \in Nat /\ j * s \in Nat
<1>1. j * s = i * s + (j - i) * s /\ (j - i) * s >= 0 /\ i * s \in Nat /\ j * s \in Nat
  OBVIOUS
<1> QED
  BY <1>1

LEMMA OneLonger ==
  ASSUME NEW S, NEW s \in Seq(S), NEW i \in 1..Len(s)
  PROVE  Append(SubSeq(s, 1, i - 1), s[i]) = SubSeq(s, 1, i)
OBVIOUS

LEMMA WholeSequence ==
  ASSUME NEW S, NEW s \in Seq(S)
  PROVE  SubSeq(s, 1, 0) = <<>> /\ SubSeq(s, 1, Len(s)) = s
OBVIOUS

LEMMA ElementsFound ==
  ASSUME Traited, NEW r, Reads(r), NEW value \in Seq(0..MaxInteger), NEW start \in Nat,
         start + Len(value) * IntegerSize <= r.m_maxDataLen,
         \A i \in 1..Len(value) :
            IntegerAt(writer.m_data, start + (i - 1) * IntegerSize, value[i])
  PROVE  Elements(r, Len(value), start)[Len(value)] =
           Found(value, start + Len(value) * IntegerSize)
<1> DEFINE n == Len(value)
           s == IntegerSize
           D == 0..n
           f == [i \in D |-> Found(SubSeq(value, 1, i), start + i * s)]
           Eq(g) == g = [i \in D |-> IF i = 0 THEN Found(<<>>, start) ELSE OneMore(r, g[i - 1])]
           after == CHOOSE g : Eq(g)
           T == {i \in D : after[i] = f[i]}
<1>1. /\ n \in Nat /\ s \in Nat /\ \A i \in 1..n : value[i] \in 0..MaxInteger
      /\ SubSeq(value, 1, 0) = <<>> /\ SubSeq(value, 1, n) = value /\ r.m_maxDataLen \in Nat
  BY SequenceFacts, WholeSequence, StreamAssumption DEF Reads
<1>2. \A i \in 1..n : IntegerAt(writer.m_data, start + (i - 1) * s, value[i])
  OBVIOUS
<1>3. start + n * s <= r.m_maxDataLen
  OBVIOUS
<1>4. Elements(r, n, start) = after
  BY DEF Elements
<1> HIDE DEF n, s
<1>5. ASSUME NEW i \in 1..n PROVE i - 1 \in D /\ f[i] = OneMore(r, f[i - 1])
  <2> DEFINE c == start + (i - 1) * s
             q == [r EXCEPT !.m_cursor = c]
             head == SubSeq(value, 1, i - 1)
  <2>1. i - 1 \in Nat /\ (i - 1) + 1 = i /\ i - 1 \in D /\ i \in D /\ i \in Nat /\ i <= n
    BY <1>1
  <2>2. /\ i * s = (i - 1) * s + s /\ (i - 1) * s \in Nat
        /\ i * s <= n * s /\ i * s \in Nat /\ n * s \in Nat
    BY <1>1, <2>1, NextTimes, TimesGrow
  <2>3. c \in Nat /\ c + s = start + i * s /\ c + s <= r.m_maxDataLen
    <3> DEFINE a == (i - 1) * s
               b == i * s
               e == n * s
    <3>1. b = a + s /\ a \in Nat /\ b <= e /\ b \in Nat /\ e \in Nat
      BY <2>2
    <3>2. c = start + a /\ start + e <= r.m_maxDataLen
      BY <1>3
    <3> HIDE DEF a, b, e, c
    <3>3. c \in Nat /\ c + s = start + b /\ c + s <= r.m_maxDataLen
      BY <1>1, <3>1, <3>2
    <3> QED
      BY <3>3 DEF b
  <2>4. IntegerAt(writer.m_data, c, value[i]) /\ value[i] \in 0..MaxInteger
    BY <1>1, <1>2
  <2> HIDE DEF c
  <2>5. Reads(q) /\ q.m_cursor = c /\ q.m_maxDataLen = r.m_maxDataLen
    BY <2>3, MovedReads
  <2> HIDE DEF q
  <2>6. ReadIntegerData(q) = Found(value[i], c + s)
    BY <2>3, <2>4, <2>5, IntegerFound DEF s
  <2>7. f[i - 1] = Found(head, c) /\ f[i] = Found(SubSeq(value, 1, i), start + i * s)
    BY <2>1 DEF c
  <2>8. OneMore(r, Found(head, c)) = Found(Append(head, value[i]), c + s)
    <3>1. /\ Found(head, c).ok /\ Found(head, c).value = head /\ Found(head, c).cursor = c
          /\ Found(value[i], c + s).ok /\ Found(value[i], c + s).value = value[i]
          /\ Found(value[i], c + s).cursor = c + s
      BY DEF Found
    <3> HIDE DEF head
    <3> QED
      BY <2>6, <3>1 DEF OneMore, q
  <2>9. Append(head, value[i]) = SubSeq(value, 1, i)
    BY OneLonger DEF n
  <2> HIDE DEF f, head
  <2> QED
    BY <2>1, <2>3, <2>7, <2>8, <2>9
<1>6. 0 \in D /\ n \in D /\ f[0] = Found(<<>>, start) /\ f[n] = Found(value, start + n * s)
  <2>1. 0 * s = 0 /\ start + 0 = start
    BY <1>1
  <2>2. 0 \in D /\ n \in D
    BY <1>1
  <2> QED
    BY <1>1, <2>1, <2>2
<1>7. \A i \in D : i # 0 => i \in 1..n
  BY <1>1
<1>8. Eq(f)
  <2> DEFINE g == [i \in D |-> IF i = 0 THEN Found(<<>>, start) ELSE OneMore(r, f[i - 1])]
  <2>1. \A i \in D : f[i] = g[i]
    <3> HIDE DEF f
    <3> QED
      BY <1>5, <1>6, <1>7
  <2>2. f = [i \in D |-> f[i]] /\ g = [i \in D |-> g[i]]
    OBVIOUS
  <2> HIDE DEF f, g, D
  <2>3. f = g
    BY <2>1, <2>2
  <2> QED
    BY <2>3 DEF g
<1> HIDE DEF f
<1>9. Eq(after)
  BY <1>8
<1> HIDE DEF after
<1>10. 0 \in T
  BY <1>6, <1>9
<1>11. ASSUME NEW i \in 1..n, i - 1 \in T PROVE i \in T
  <2>1. after[i - 1] = f[i - 1] /\ i \in D /\ i # 0
    BY <1>1, <1>11
  <2>2. after[i] = OneMore(r, after[i - 1])
    BY <1>9, <2>1
  <2> QED
    BY <1>5, <2>1, <2>2
<1>12. \A i \in D : i \in T
  <2> HIDE DEF T
  <2> QED
    BY <1>1, <1>10, <1>11, UpTo
<1>13. after[n] = f[n]
  BY <1>6, <1>12
<1> QED
  BY <1>4, <1>6, <1>13 DEF n, s

LEMMA ContainerFound ==
  ASSUME Traited, NEW r, Reads(r), NEW value \in Seq(0..MaxInteger), Len(value) <= MaxInteger,
         r.m_cursor + (Len(value) + 1) * IntegerSize <= r.m_maxDataLen,
         IntegerAt(writer.m_data, r.m_cursor, Len(value)),
         \A i \in 1..Len(value) :
            IntegerAt(writer.m_data, r.m_cursor + i * IntegerSize, value[i])
  PROVE  ReadContainer(r) = Found(value, r.m_cursor + (Len(value) + 1) * IntegerSize)
<1> DEFINE n == Len(value)
           s == IntegerSize
           p == r.m_cursor
           start == p + s
<1>1. /\ p \in Nat /\ r.m_maxDataLen \in Nat /\ s \in Nat \ {0} /\ n \in Nat
      /\ n \in 0..MaxInteger
  BY StreamAssumption, MaxIntegerIs DEF Reads
<1>2. (n + 1) * s = n * s + s /\ n * s \in Nat
  BY <1>1, NextTimes
<1>3. /\ p + (n + 1) * s <= r.m_maxDataLen
      /\ \A i \in 1..n : IntegerAt(writer.m_data, p + i * s, value[i])
      /\ IntegerAt(writer.m_data, p, n)
  OBVIOUS
<1> HIDE DEF n, s, p
<1>4. start \in Nat /\ p + (n + 1) * s = start + n * s
      /\ start + n * s <= r.m_maxDataLen /\ p + s <= r.m_maxDataLen
  <2> DEFINE e == n * s
  <2>1. e \in Nat /\ p + (e + s) <= r.m_maxDataLen
    BY <1>2, <1>3
  <2>2. p + (n + 1) * s = p + (e + s)
    BY <1>2
  <2> HIDE DEF e
  <2>3. start \in Nat /\ p + (e + s) = start + e /\ p + s <= r.m_maxDataLen
    BY <1>1, <2>1
  <2> QED
    BY <2>1, <2>2, <2>3 DEF e
<1>5. ReadIntegerData(r) = Found(n, start)
  BY <1>1, <1>3, <1>4, IntegerFound DEF p, s
<1>6. \A i \in 1..n : IntegerAt(writer.m_data, start + (i - 1) * s, value[i])
  <2> SUFFICES ASSUME NEW i \in 1..n
               PROVE  IntegerAt(writer.m_data, start + (i - 1) * s, value[i])
    OBVIOUS
  <2>1. i - 1 \in Nat /\ (i - 1) + 1 = i
    BY <1>1
  <2>2. i * s = (i - 1) * s + s /\ (i - 1) * s \in Nat
    BY <1>1, <2>1, NextTimes
  <2>3. start + (i - 1) * s = p + i * s
    <3> DEFINE a == (i - 1) * s
    <3>1. a \in Nat /\ i * s = a + s
      BY <2>2
    <3> HIDE DEF a
    <3>2. start + a = p + i * s
      BY <1>1, <3>1
    <3> QED
      BY <3>2 DEF a
  <2> QED
    BY <1>3, <2>3
<1> HIDE DEF start
<1>7. Elements(r, n, start)[n] = Found(value, start + n * s)
  BY <1>4, <1>6, ElementsFound DEF n, s
<1>8. Found(n, start).ok /\ Found(n, start).value = n /\ Found(n, start).cursor = start
  BY DEF Found
<1>9. ReadContainer(r) = Elements(r, n, start)[n]
  BY <1>5, <1>8 DEF ReadContainer
<1>10. ReadContainer(r) = Found(value, p + (n + 1) * s)
  BY <1>4, <1>7, <1>9
<1> QED
  BY <1>10 DEF n, s, p

\* What was stored is found; only an empty string at the very end throws.
LEMMA ValueFound ==
  ASSUME Traited, NEW r, Reads(r), NEW v, Given(v), Sayable(v),
         StoredAt(writer.m_data, r.m_cursor, v), r.m_cursor + Extent(v) <= r.m_maxDataLen
  PROVE  \/ ReadAs(v.type, r) = Found(v.value, r.m_cursor + Extent(v))
         \/ /\ v.type = "string" /\ v.value = <<>>
            /\ r.m_cursor + Extent(v) = r.m_maxDataLen /\ ReadAs(v.type, r) = Thrown
<1>1. CASE v.type = "integer" /\ v.value \in 0..MaxInteger
  <2>1. Extent(v) = IntegerSize /\ ReadAs(v.type, r) = ReadIntegerData(r)
    BY <1>1 DEF Extent, ReadAs
  <2>2. IntegerAt(writer.m_data, r.m_cursor, v.value)
    BY <1>1 DEF StoredAt
  <2> QED
    BY <1>1, <2>1, <2>2, IntegerFound
<1>2. CASE v.type = "byte" /\ v.value \in Octet
  <2>1. Extent(v) = 1 /\ ReadAs(v.type, r) = ReadSimpleData(r)
    BY <1>2 DEF Extent, ReadAs
  <2>2. writer.m_data[r.m_cursor + 1] = v.value
    BY <1>2 DEF StoredAt
  <2> QED
    BY <1>2, <2>1, <2>2, ByteFound
<1>3. CASE StringValue(v)
  <2>1. v.type = "string" /\ v.value \in Seq(Octet) /\ Len(v.value) <= MaxInteger
    BY <1>3 DEF StringValue, Sayable
  <2>2. Extent(v) = IntegerSize + Len(v.value) /\ ReadAs(v.type, r) = ReadString(r)
    BY <2>1 DEF Extent, ReadAs
  <2>3. /\ IntegerAt(writer.m_data, r.m_cursor, Len(v.value))
        /\ \A k \in 1..Len(v.value) :
             writer.m_data[(r.m_cursor + IntegerSize) + k] = v.value[k]
    BY <2>1 DEF StoredAt
  <2> QED
    BY <2>1, <2>2, <2>3, StringFound
<1>4. CASE ContainerValue(v)
  <2>1. v.type = "container" /\ v.value \in Seq(0..MaxInteger)
    BY <1>4 DEF ContainerValue
  <2>2. /\ Extent(v) = (Len(v.value) + 1) * IntegerSize
        /\ ReadAs(v.type, r) = ReadContainer(r)
    BY <2>1 DEF Extent, ReadAs
  <2>3. /\ Len(v.value) <= MaxInteger /\ IntegerAt(writer.m_data, r.m_cursor, Len(v.value))
        /\ \A i \in 1..Len(v.value) :
             IntegerAt(writer.m_data, r.m_cursor + i * IntegerSize, v.value[i])
    BY <2>1 DEF StoredAt
  <2> QED
    BY <2>1, <2>2, <2>3, ContainerFound
<1> QED
  BY <1>1, <1>2, <1>3, <1>4 DEF Given

-----------------------------------------------------------------------------
(* What is read is what was written *)

\* The values lie in the packet one behind the other, value i behind at[i].
LayoutIn(w, ws, at) ==
    /\ at \in [1..(Len(ws) + 1) -> Nat]
    /\ at[1] = HeadLen /\ at[Len(ws) + 1] = w.m_cursor
    /\ \A i \in 1..Len(ws) :
         /\ HeadLen <= at[i] /\ at[i + 1] = at[i] + Extent(ws[i]) /\ at[i + 1] <= w.m_cursor
         /\ Extent(ws[i]) \in Nat \ {0}
         /\ StoredAt(w.m_data, at[i], ws[i])

LEMMA StoredKept ==
  ASSUME Traited, NEW d, NEW e, NEW v, Given(v), NEW p \in Nat, HeadLen <= p, NEW c \in Nat,
         p + Extent(v) <= c, \A k \in (HeadLen + 1)..c : e[k] = d[k],
         StoredAt(d, p, v)
  PROVE  StoredAt(e, p, v)
<1>1. HeadLen \in Nat /\ IntegerSize \in Nat \ {0}
  BY Header, StreamAssumption
<1>2. ASSUME NEW x \in Nat, p <= x, x + IntegerSize <= c, NEW n, IntegerAt(d, x, n)
      PROVE  IntegerAt(e, x, n)
  <2>1. \A k \in 1..IntegerSize : x + k \in (HeadLen + 1)..c
    BY <1>1, <1>2
  <2> QED
    BY <1>2, <2>1 DEF IntegerAt
<1>3. CASE v.type = "integer" /\ v.value \in 0..MaxInteger
  <2>1. p + IntegerSize <= c /\ IntegerAt(d, p, v.value)
    BY <1>3 DEF Extent, StoredAt
  <2> QED
    BY <1>2, <1>3, <2>1 DEF StoredAt
<1>4. CASE v.type = "byte" /\ v.value \in Octet
  <2>1. p + 1 <= c /\ d[p + 1] = v.value
    BY <1>4 DEF Extent, StoredAt
  <2>2. p + 1 \in (HeadLen + 1)..c
    BY <1>1, <2>1
  <2> QED
    BY <1>4, <2>1, <2>2 DEF StoredAt
<1>5. CASE StringValue(v)
  <2> DEFINE n == Len(v.value)
  <2>1. v.type = "string" /\ n \in Nat
    BY <1>5 DEF StringValue
  <2>2. /\ p + (IntegerSize + n) <= c /\ IntegerAt(d, p, n)
        /\ \A k \in 1..n : d[(p + IntegerSize) + k] = v.value[k]
    BY <2>1 DEF Extent, StoredAt
  <2> HIDE DEF n
  <2>3. p + IntegerSize <= c /\ \A k \in 1..n : (p + IntegerSize) + k \in (HeadLen + 1)..c
    BY <1>1, <2>1, <2>2
  <2>4. IntegerAt(e, p, n) /\ \A k \in 1..n : e[(p + IntegerSize) + k] = v.value[k]
    BY <1>2, <2>2, <2>3
  <2> QED
    BY <2>1, <2>4 DEF StoredAt, n
<1>6. CASE ContainerValue(v)
  <2> DEFINE n == Len(v.value)
             s == IntegerSize
  <2>1. v.type = "container" /\ n \in Nat
    BY <1>6 DEF ContainerValue
  <2>2. /\ p + (n + 1) * s <= c /\ n <= MaxInteger /\ IntegerAt(d, p, n)
        /\ \A i \in 1..n : IntegerAt(d, p + i * s, v.value[i])
    BY <2>1 DEF Extent, StoredAt
  <2> HIDE DEF n, s
  <2>3. s \in Nat
    BY <1>1 DEF s
  <2>4. ASSUME NEW i \in 0..n
        PROVE  p + i * s \in Nat /\ p <= p + i * s /\ (p + i * s) + s <= c
    <3>1. i + 1 \in Nat /\ n + 1 \in Nat /\ i + 1 <= n + 1 /\ i \in Nat
      BY <2>1
    <3>2. (i + 1) * s <= (n + 1) * s /\ (i + 1) * s \in Nat /\ (n + 1) * s \in Nat
      BY <2>3, <3>1, TimesGrow
    <3>3. (i + 1) * s = i * s + s /\ i * s \in Nat
      BY <2>3, <3>1, NextTimes
    <3> DEFINE a == i * s
               b == (i + 1) * s
               f == (n + 1) * s
    <3>4. b <= f /\ b = a + s /\ a \in Nat /\ f \in Nat /\ p + f <= c
      BY <2>2, <3>2, <3>3
    <3> HIDE DEF a, b, f
    <3>5. p + a \in Nat /\ p <= p + a /\ (p + a) + s <= c
      BY <2>3, <3>4
    <3> QED
      BY <3>5 DEF a
  <2>5. IntegerAt(e, p, n)
    <3>1. p + 0 * s = p /\ 0 \in 0..n
      BY <2>1, <2>3
    <3>2. p + s <= c
      BY <2>4, <3>1
    <3> QED
      BY <1>2, <2>2, <3>2 DEF s
  <2>6. \A i \in 1..n : IntegerAt(e, p + i * s, v.value[i])
    <3> SUFFICES ASSUME NEW i \in 1..n PROVE IntegerAt(e, p + i * s, v.value[i])
      OBVIOUS
    <3>1. p + i * s \in Nat /\ p <= p + i * s /\ (p + i * s) + s <= c
      BY <2>1, <2>4
    <3>2. IntegerAt(d, p + i * s, v.value[i])
      BY <2>2
    <3> QED
      BY <1>2, <3>1, <3>2 DEF s
  <2> QED
    BY <2>1, <2>2, <2>5, <2>6 DEF StoredAt, n, s
<1> QED
  BY <1>3, <1>4, <1>5, <1>6 DEF Given

LEMMA LayoutKept ==
  ASSUME Traited, NEW w \in Writers, NEW r \in Writers, ~w.m_bNoWrite, SameStream(w, r),
         NEW ws \in Seq(Inputs), NEW at, LayoutIn(w, ws, at)
  PROVE  \A i \in 1..Len(ws) : StoredAt(r.m_data, at[i], ws[i])
<1> SUFFICES ASSUME NEW i \in 1..Len(ws) PROVE StoredAt(r.m_data, at[i], ws[i])
  OBVIOUS
<1>1. Len(ws) \in Nat /\ ws[i] \in Inputs
  BY SequenceFacts
<1>2. at[i] \in Nat
  BY <1>1 DEF LayoutIn
<1>3. /\ HeadLen <= at[i] /\ at[i] + Extent(ws[i]) <= w.m_cursor
      /\ StoredAt(w.m_data, at[i], ws[i])
  BY DEF LayoutIn
<1>4. w.m_cursor \in Nat /\ \A k \in (HeadLen + 1)..w.m_cursor : r.m_data[k] = w.m_data[k]
  BY DEF Writers, SameStream
<1>5. Given(ws[i])
  BY <1>1, InputsGiven
<1> DEFINE v == ws[i]
           p == at[i]
           c == w.m_cursor
           d == w.m_data
           e == r.m_data
<1> HIDE DEF v, p, c, d, e
<1>6. /\ Given(v) /\ p \in Nat /\ HeadLen <= p /\ c \in Nat /\ p + Extent(v) <= c
      /\ StoredAt(d, p, v) /\ \A k \in (HeadLen + 1)..c : e[k] = d[k]
  BY <1>2, <1>3, <1>4, <1>5 DEF v, p, c, d, e
<1>7. StoredAt(e, p, v)
  BY <1>6, StoredKept
<1> QED
  BY <1>7 DEF v, p, e

LEMMA LayoutStays ==
  ASSUME Traited, NEW w \in Writers, NEW r \in Writers, ~w.m_bNoWrite, SameStream(w, r),
         r.m_cursor = w.m_cursor, NEW ws \in Seq(Inputs), NEW at, LayoutIn(w, ws, at)
  PROVE  LayoutIn(r, ws, at)
<1>1. \A i \in 1..Len(ws) : StoredAt(r.m_data, at[i], ws[i])
  BY LayoutKept
<1> QED
  BY <1>1 DEF LayoutIn

LEMMA LayoutGrows ==
  ASSUME Traited, NEW w \in Writers, NEW r \in Writers, ~w.m_bNoWrite, SameStream(w, r),
         NEW ws \in Seq(Inputs), NEW at, LayoutIn(w, ws, at),
         NEW v \in Inputs, Holds(w, r, v)
  PROVE  \E at2 : LayoutIn(r, Append(ws, v), at2)
<1> DEFINE n == Len(ws)
           c == w.m_cursor
           vs == Append(ws, v)
           at2 == [i \in 1..(n + 2) |-> IF i = n + 2 THEN r.m_cursor ELSE at[i]]
<1>1. /\ n \in Nat /\ Len(vs) = n + 1 /\ vs[n + 1] = v
      /\ \A i \in 1..n : vs[i] = ws[i]
  OBVIOUS
<1>2. \A i \in 1..n : StoredAt(r.m_data, at[i], ws[i])
  BY LayoutKept
<1>3. /\ c \in Nat /\ r.m_cursor \in Nat /\ HeadLen \in Nat /\ HeadLen <= c
  BY Header DEF Writers
<1>4. /\ r.m_cursor = c + Extent(v) /\ Extent(v) \in Nat \ {0} /\ StoredAt(r.m_data, c, v)
  BY DEF Holds
<1>5. /\ at \in [1..(n + 1) -> Nat] /\ at[1] = HeadLen /\ at[n + 1] = c
      /\ \A i \in 1..n :
           /\ HeadLen <= at[i] /\ at[i + 1] = at[i] + Extent(ws[i]) /\ at[i + 1] <= c
           /\ Extent(ws[i]) \in Nat \ {0}
  BY DEF LayoutIn
<1> HIDE DEF n, vs, c
<1>6. /\ at2 \in [1..(n + 2) -> Nat]
      /\ at2[n + 2] = r.m_cursor /\ \A i \in 1..(n + 1) : at2[i] = at[i]
  <2>1. \A i \in 1..(n + 2) : i # n + 2 => i \in 1..(n + 1)
    BY <1>1
  <2>2. \A i \in 1..(n + 1) : i \in 1..(n + 2) /\ i # n + 2
    BY <1>1
  <2>3. n + 2 \in 1..(n + 2)
    BY <1>1
  <2> QED
    BY <1>3, <1>5, <2>1, <2>2, <2>3
<1> HIDE DEF at2
<1>7. ASSUME NEW i \in 1..(n + 1)
      PROVE  /\ HeadLen <= at2[i] /\ at2[i + 1] = at2[i] + Extent(vs[i])
             /\ at2[i + 1] <= r.m_cursor /\ Extent(vs[i]) \in Nat \ {0}
             /\ StoredAt(r.m_data, at2[i], vs[i])
  <2>1. CASE i = n + 1
    <3>1. vs[i] = v /\ at2[i] = c /\ at2[i + 1] = r.m_cursor
      <4>1. i + 1 = n + 2
        BY <1>1, <2>1
      <4> QED
        BY <1>1, <1>5, <1>6, <2>1, <4>1
    <3> QED
      BY <1>3, <1>4, <3>1
  <2>2. CASE i # n + 1
    <3>1. i \in 1..n /\ i \in 1..(n + 1) /\ i + 1 \in 1..(n + 1)
      BY <1>1, <2>2
    <3>2. vs[i] = ws[i] /\ at2[i] = at[i] /\ at2[i + 1] = at[i + 1]
      BY <1>1, <1>6, <3>1
    <3>3. at[i + 1] \in Nat /\ at[i + 1] <= c
      BY <1>5, <3>1
    <3>4. at2[i + 1] <= r.m_cursor
      BY <1>3, <1>4, <3>2, <3>3
    <3> QED
      BY <1>2, <1>5, <3>1, <3>2, <3>4
  <2> QED
    BY <2>1, <2>2
<1>8. at2[1] = HeadLen
  <2>1. 1 \in 1..(n + 1)
    BY <1>1
  <2> QED
    BY <1>5, <1>6, <2>1
<1>9. LayoutIn(r, vs, at2)
  <2>1. Len(vs) + 1 = n + 2
    BY <1>1
  <2> QED
    BY <1>1, <1>6, <1>7, <1>8, <2>1 DEF LayoutIn
<1> QED
  BY <1>9 DEF vs

\* No << threw in the middle, and no string was too long.
Whole == ~torn /\ \A i \in DOMAIN wrote : Sayable(wrote[i])

\* The reader stands behind the values that it has read.
Reading(at) ==
    /\ Reads(reader[1])
    /\ got \in Seq(Inputs) /\ Len(got) <= Len(wrote)
    /\ reader[1].m_cursor = at[Len(got) + 1]
    /\ \A i \in 1..Len(got) : got[i] = wrote[i]
    /\ threw # <<>> => EmptyAtTheEnd(threw[1])

BackInv ==
    /\ HeaderInv
    /\ reader = <<>> => got = <<>> /\ threw = <<>>
    /\ reader # <<>> => ~writer.m_bNoWrite
    /\ Whole /\ ~writer.m_bNoWrite =>
         \E at : LayoutIn(writer, wrote, at) /\ (reader # <<>> => Reading(at))

LEMMA LayoutPrime ==
  ASSUME trait' = trait, NEW at, LayoutIn(writer', wrote', at)
  PROVE  LayoutIn(writer, wrote, at)'
BY DEF LayoutIn, HeadLen, StoredAt, IntegerAt, Outside, Extent

LEMMA BackInit == StreamInit => BackInv
<1> SUFFICES ASSUME StreamInit PROVE BackInv
  OBVIOUS
<1>1. HeaderInv
  BY HeaderInit
<1>2. wrote = <<>> /\ reader = <<>> /\ got = <<>> /\ threw = <<>> /\ writer.m_cursor = HeadLen
  BY DEF StreamInit
<1>3. HeadLen \in Nat
  BY <1>1, TraitsTraited, Header DEF HeaderInv
<1> DEFINE at == [i \in 1..1 |-> HeadLen]
<1>4. LayoutIn(writer, wrote, at)
  <2>1. Len(wrote) = 0
    BY <1>2
  <2>2. at \in [1..1 -> Nat] /\ at[1] = HeadLen
    BY <1>3
  <2> HIDE DEF at
  <2> QED
    BY <1>2, <2>1, <2>2 DEF LayoutIn
<1> HIDE DEF at
<1> QED
  BY <1>1, <1>2, <1>4 DEF BackInv

LEMMA WriteKeepsBack ==
  ASSUME BackInv, NEW v \in Inputs, Write(v)
  PROVE  BackInv'
<1> DEFINE pieces == Pieces(writer.host, v)
           w == Written(writer, pieces)[Len(pieces)]
<1>1. Traited /\ writer \in Writers /\ ~writer.thrown /\ trait' = trait /\ wrote \in Seq(Inputs)
  BY TraitsTraited DEF BackInv, HeaderInv, Write
<1>2. HeaderInv'
  BY WriteKeepsHeader DEF BackInv
<1>3. pieces \in Seq(Seq(Octet)) /\ pieces # <<>> /\ Given(v)
  <2>1. writer.host \in ByteOrders
    BY <1>1 DEF Writers
  <2> QED
    BY <1>1, <2>1, InputsGiven, PiecesWhole
<1>4. /\ writer' = [w EXCEPT !.thrown = FALSE]
      /\ wrote' = IF w.thrown THEN wrote ELSE Append(wrote, v)
      /\ torn' = (w.thrown /\ w.m_cursor # writer.m_cursor)
      /\ reader = <<>> /\ ~torn /\ reader' = reader /\ got' = got /\ threw' = threw
  BY DEF Write
<1>5. w \in Writers /\ SameStream(writer, w)
  BY <1>1, <1>3, WrittenGrows
<1>6. ~w.thrown /\ Sayable(v) => Holds(writer, w, v)
  BY <1>1, <1>3, ValueHeld
<1> HIDE DEF w
<1>7. writer'.m_cursor = w.m_cursor /\ writer'.m_data = w.m_data
      /\ writer'.m_bNoWrite = writer.m_bNoWrite
  BY <1>4, <1>5 DEF Writers, SameStream
<1>8. ASSUME Whole', ~writer'.m_bNoWrite
      PROVE  (\E at : LayoutIn(writer, wrote, at))'
  <2>1. ~torn' /\ \A i \in DOMAIN wrote' : Sayable(wrote'[i])
    BY <1>8 DEF Whole, Sayable
  <2>2. ASSUME NEW at, LayoutIn(w, wrote', at)
        PROVE  (\E a : LayoutIn(writer, wrote, a))'
    <3>1. LayoutIn(writer', wrote', at)
      BY <1>7, <2>2 DEF LayoutIn
    <3>2. LayoutIn(writer, wrote, at)'
      BY <1>1, <3>1, LayoutPrime
    <3> QED
      BY <3>2
  <2>3. ASSUME \A i \in DOMAIN wrote : Sayable(wrote[i])
        PROVE  \E at : LayoutIn(writer, wrote, at)
    <3>1. Whole
      BY <1>4, <2>3 DEF Whole
    <3> QED
      BY <1>7, <1>8, <3>1 DEF BackInv
  <2>4. CASE w.thrown
    <3>1. wrote' = wrote /\ w.m_cursor = writer.m_cursor
      BY <1>4, <2>1, <2>4
    <3>2. PICK at : LayoutIn(writer, wrote, at)
      BY <2>1, <2>3, <3>1
    <3>3. LayoutIn(w, wrote', at)
      BY <1>1, <1>5, <1>7, <1>8, <3>1, <3>2, LayoutStays
    <3> QED
      BY <2>2, <3>3
  <2>5. CASE ~w.thrown
    <3>1. wrote' = Append(wrote, v)
      BY <1>4, <2>5
    <3>2. Sayable(v) /\ \A i \in DOMAIN wrote : Sayable(wrote[i])
      <4>1. /\ DOMAIN wrote' = 1..(Len(wrote) + 1) /\ wrote'[Len(wrote) + 1] = v
            /\ DOMAIN wrote = 1..Len(wrote) /\ Len(wrote) \in Nat
            /\ \A i \in 1..Len(wrote) : wrote'[i] = wrote[i]
        BY <1>1, <3>1
      <4>2. \A i \in 1..Len(wrote) : i \in DOMAIN wrote'
        BY <4>1
      <4>3. Len(wrote) + 1 \in DOMAIN wrote'
        BY <4>1
      <4> QED
        BY <2>1, <4>1, <4>2, <4>3
    <3>3. PICK at : LayoutIn(writer, wrote, at)
      BY <2>3, <3>2
    <3>4. Holds(writer, w, v)
      BY <1>6, <2>5, <3>2
    <3>5. \E at2 : LayoutIn(w, Append(wrote, v), at2)
      BY <1>1, <1>5, <1>7, <1>8, <3>3, <3>4, LayoutGrows
    <3> QED
      BY <2>2, <3>1, <3>5
  <2> QED
    BY <2>4, <2>5
<1>9. (reader = <<>> /\ got = <<>> /\ threw = <<>>)'
  BY <1>4 DEF BackInv
<1> QED
  BY <1>2, <1>8, <1>9 DEF BackInv

LEMMA StartKeepsBack ==
  ASSUME BackInv, StartReading
  PROVE  BackInv'
<1>1. /\ trait' = trait /\ writer' = writer /\ wrote' = wrote /\ torn' = torn
      /\ got' = got /\ threw' = threw /\ got = <<>> /\ threw = <<>> /\ ~writer.m_bNoWrite
  BY DEF BackInv, StartReading
<1>2. PICK host \in Hosts :
        reader' = <<[host |-> host, m_maxDataLen |-> Len(writer.m_data),
                     m_cursor |-> HeadLen]>>
  BY DEF StartReading
<1>3. Traited /\ writer \in Writers /\ wrote \in Seq(Inputs)
  BY TraitsTraited DEF BackInv, HeaderInv
<1>4. HeadLen \in Nat /\ writer.m_data \in Seq(Octet) /\ host \in ByteOrders
  BY <1>3, Header, StreamAssumption DEF Writers
<1>5. HeaderInv'
  <2>1. [StreamNext]_streamVars
    BY DEF StreamNext
  <2> QED
    BY <2>1, HeaderStep DEF BackInv
<1>6. reader' # <<>> /\ Reads(reader[1])' /\ reader[1].m_cursor' = HeadLen
  <2>1. Len(writer.m_data) \in Nat
    BY <1>4
  <2>2. reader'[1] = [host |-> host, m_maxDataLen |-> Len(writer.m_data), m_cursor |-> HeadLen]
    BY <1>2
  <2> QED
    BY <1>1, <1>2, <1>4, <2>1, <2>2 DEF Reads
<1>7. ASSUME Whole'
      PROVE  (\E at : LayoutIn(writer, wrote, at) /\ Reading(at))'
  <2>1. Whole
    BY <1>1, <1>7 DEF Whole, Sayable
  <2>2. PICK at : LayoutIn(writer, wrote, at)
    BY <1>1, <2>1 DEF BackInv
  <2>3. LayoutIn(writer, wrote, at)'
    BY <1>1, <2>2, LayoutPrime
  <2>4. /\ got' \in Seq(Inputs) /\ Len(got') = 0 /\ Len(wrote') \in Nat
    BY <1>1, <1>3
  <2>5. at[1] = HeadLen
    BY <2>2 DEF LayoutIn
  <2>6. Reading(at)'
    BY <1>1, <1>6, <2>4, <2>5 DEF Reading
  <2> QED
    BY <2>3, <2>6
<1> QED
  BY <1>1, <1>5, <1>6, <1>7 DEF BackInv

LEMMA ReadKeepsBack ==
  ASSUME BackInv, Read
  PROVE  BackInv'
<1> DEFINE j == Len(got) + 1
           v == wrote[j]
           r == reader[1]
           found == ReadAs(v.type, r)
<1>1. /\ trait' = trait /\ writer' = writer /\ wrote' = wrote /\ torn' = torn
      /\ reader # <<>> /\ threw = <<>> /\ Len(got) < Len(wrote) /\ ~writer.m_bNoWrite
  BY DEF BackInv, Read
<1>2. \/ /\ found.ok /\ got' = Append(got, [type |-> v.type, value |-> found.value])
         /\ reader' = <<[r EXCEPT !.m_cursor = found.cursor]>> /\ threw' = threw
      \/ /\ ~found.ok /\ threw' = <<j>> /\ got' = got /\ reader' = reader
  BY DEF Read
<1>3. Traited /\ writer \in Writers /\ wrote \in Seq(Inputs)
  BY TraitsTraited DEF BackInv, HeaderInv
<1>4. HeaderInv'
  <2>1. [StreamNext]_streamVars
    BY DEF StreamNext
  <2> QED
    BY <2>1, HeaderStep DEF BackInv
<1>5. reader' # <<>>
  <2>1. \A x : <<x>> # <<>>
    OBVIOUS
  <2>2. reader' = reader \/ \E x : reader' = <<x>>
    BY <1>2, Zenon
  <2> QED
    BY <1>1, <2>1, <2>2
<1>6. ASSUME Whole'
      PROVE  (\E at : LayoutIn(writer, wrote, at) /\ Reading(at))'
  <2>1. Whole
    BY <1>1, <1>6 DEF Whole, Sayable
  <2>2. PICK at : LayoutIn(writer, wrote, at) /\ Reading(at)
    BY <1>1, <2>1 DEF BackInv
  <2>3. LayoutIn(writer, wrote, at)'
    BY <1>1, <2>2, LayoutPrime
  <2>4. /\ Len(got) \in Nat /\ Len(wrote) \in Nat /\ j \in 1..Len(wrote)
        /\ got \in Seq(Inputs) /\ v \in Inputs /\ DOMAIN wrote = 1..Len(wrote)
    <3>1. got \in Seq(Inputs)
      BY <2>2 DEF Reading
    <3>2. Len(got) \in Nat /\ Len(wrote) \in Nat
      BY <1>3, <3>1
    <3>3. j \in 1..Len(wrote)
      BY <1>1, <3>2
    <3> HIDE DEF j
    <3> QED
      BY <1>3, <3>1, <3>2, <3>3, SequenceFacts
  <2>5. Reads(r) /\ r.m_cursor = at[j] /\ \A i \in 1..Len(got) : got[i] = wrote[i]
    BY <2>2 DEF Reading
  <2> HIDE DEF j
  <2>6. /\ at[j] \in Nat /\ at[j + 1] \in Nat /\ at[j + 1] = at[j] + Extent(v)
        /\ at[j + 1] <= writer.m_cursor /\ StoredAt(writer.m_data, at[j], v)
    <3>1. j \in 1..(Len(wrote) + 1) /\ j + 1 \in 1..(Len(wrote) + 1)
      BY <2>4
    <3> QED
      BY <2>2, <2>4, <3>1 DEF LayoutIn
  <2>7. r.m_maxDataLen = writer.m_cursor
    BY <1>1, <1>3, <2>5 DEF Reads, Writers
  <2>8. Given(v) /\ Sayable(v) /\ v = [type |-> v.type, value |-> v.value]
    <3>1. Sayable(v)
      BY <2>1, <2>4 DEF Whole
    <3> QED
      BY <2>4, <3>1, InputsGiven, StreamAssumption
  <2> HIDE DEF v, r
  <2>9. \/ found = Found(v.value, at[j + 1])
        \/ /\ v.type = "string" /\ v.value = <<>> /\ at[j + 1] = writer.m_cursor
           /\ found = Thrown
    BY <1>3, <2>5, <2>6, <2>7, <2>8, ValueFound
  <2> HIDE DEF found
  <2>10. CASE found = Found(v.value, at[j + 1])
    <3>1. found.ok /\ found.value = v.value /\ found.cursor = at[j + 1]
      BY <2>10 DEF Found
    <3>2. /\ got' = Append(got, v) /\ threw' = <<>>
          /\ reader' = <<[r EXCEPT !.m_cursor = at[j + 1]]>>
      BY <1>1, <1>2, <2>8, <3>1
    <3>3. /\ got' \in Seq(Inputs) /\ Len(got') = Len(got) + 1 /\ got'[Len(got) + 1] = v
          /\ \A i \in 1..Len(got) : got'[i] = got[i]
      BY <2>4, <3>2
    <3>4. Len(got') = j /\ Len(got') <= Len(wrote')
      BY <1>1, <2>4, <3>3 DEF j
    <3>5. \A i \in 1..Len(got') : got'[i] = wrote'[i]
      <4> SUFFICES ASSUME NEW i \in 1..Len(got') PROVE got'[i] = wrote'[i]
        OBVIOUS
      <4>1. CASE i = Len(got) + 1
        BY <1>1, <3>3, <4>1 DEF v, j
      <4>2. CASE i # Len(got) + 1
        <5>1. i \in 1..Len(got)
          BY <2>4, <3>3, <4>2
        <5> QED
          BY <1>1, <2>5, <3>3, <5>1
      <4> QED
        BY <4>1, <4>2
    <3>6. reader'[1] = [r EXCEPT !.m_cursor = at[j + 1]]
      BY <3>2
    <3>7. Reads(reader'[1]) /\ reader'[1].m_cursor = at[j + 1]
      BY <2>5, <2>6, <3>6, MovedReads
    <3>8. Reads(reader[1])'
      BY <1>1, <3>7 DEF Reads
    <3>9. Reading(at)'
      BY <3>2, <3>3, <3>4, <3>5, <3>7, <3>8 DEF Reading
    <3> QED
      BY <2>3, <3>9
  <2>11. CASE found = Thrown /\ v.type = "string" /\ v.value = <<>> /\ at[j + 1] = writer.m_cursor
    <3>1. threw' = <<j>> /\ got' = got /\ reader' = reader
      BY <1>2, <2>11 DEF Thrown
    <3>2. j = Len(wrote)
      <4>1. ASSUME j # Len(wrote) PROVE FALSE
        <5>1. j + 1 \in 1..Len(wrote)
          <6> DEFINE n == Len(wrote)
          <6>1. n \in Nat /\ j \in 1..n /\ j # n
            BY <2>4, <4>1
          <6> HIDE DEF n
          <6>2. j + 1 \in 1..n
            BY <6>1
          <6> QED
            BY <6>2 DEF n
        <5> DEFINE k == j + 1
        <5> HIDE DEF k
        <5>2. /\ at[k + 1] = at[k] + Extent(wrote[k]) /\ at[k + 1] <= writer.m_cursor
              /\ Extent(wrote[k]) \in Nat \ {0} /\ at[k] = writer.m_cursor
          BY <2>2, <2>11, <5>1 DEF LayoutIn, k
        <5>3. writer.m_cursor \in Nat
          BY <1>3 DEF Writers
        <5> QED
          BY <5>2, <5>3
      <4> QED
        BY <4>1
    <3>3. threw'[1] = j /\ EmptyAtTheEnd(threw[1])'
      <4>1. threw'[1] = j
        BY <3>1
      <4>2. wrote'[j].type = "string" /\ wrote'[j].value = <<>> /\ j = Len(wrote')
        BY <1>1, <2>11, <3>2 DEF v
      <4> QED
        BY <4>1, <4>2 DEF EmptyAtTheEnd
    <3>4. Reads(reader[1])'
      BY <1>1, <2>5, <3>1 DEF Reads, r
    <3>5. reader[1]'.m_cursor = at[Len(got') + 1]
      BY <2>5, <3>1 DEF r, j
    <3>6. Reading(at)'
      BY <1>1, <2>4, <2>5, <3>1, <3>3, <3>4, <3>5 DEF Reading
    <3> QED
      BY <2>3, <3>6
  <2> QED
    BY <2>9, <2>10, <2>11
<1> QED
  BY <1>1, <1>4, <1>5, <1>6 DEF BackInv

LEMMA BackStep == BackInv /\ [StreamNext]_streamVars => BackInv'
<1> SUFFICES ASSUME BackInv, [StreamNext]_streamVars PROVE BackInv'
  OBVIOUS
<1>1. CASE \E v \in Inputs : Write(v)
  BY <1>1, WriteKeepsBack
<1>2. CASE StartReading
  BY <1>2, StartKeepsBack
<1>3. CASE Read
  BY <1>3, ReadKeepsBack
<1>4. CASE UNCHANGED streamVars
  <2>1. /\ trait' = trait /\ writer' = writer /\ wrote' = wrote /\ torn' = torn
        /\ reader' = reader /\ got' = got /\ threw' = threw
    BY <1>4 DEF streamVars
  <2>2. HeaderInv'
    BY HeaderStep DEF BackInv
  <2>3. ASSUME NEW at, LayoutIn(writer, wrote, at) PROVE LayoutIn(writer, wrote, at)'
    BY <2>1, <2>3, LayoutPrime
  <2>4. ASSUME NEW at, Reading(at) PROVE Reading(at)'
    BY <2>1, <2>4 DEF Reading, Reads, EmptyAtTheEnd
  <2>5. Whole' => Whole
    BY <2>1 DEF Whole, Sayable
  <2>6. ASSUME Whole', ~writer'.m_bNoWrite
        PROVE  (\E at : LayoutIn(writer, wrote, at) /\ (reader # <<>> => Reading(at)))'
    <3>1. PICK at : LayoutIn(writer, wrote, at) /\ (reader # <<>> => Reading(at))
      BY <2>1, <2>5, <2>6 DEF BackInv
    <3>2. LayoutIn(writer, wrote, at)' /\ (reader' # <<>> => Reading(at)')
      BY <2>1, <2>3, <2>4, <3>1
    <3> QED
      BY <3>2
  <2> QED
    BY <2>1, <2>2, <2>6 DEF BackInv
<1> QED
  BY <1>1, <1>2, <1>3, <1>4 DEF StreamNext

LEMMA BackSays == BackInv => ReadsBack
<1> SUFFICES ASSUME BackInv, Whole
             PROVE  IsPrefix(got, wrote) /\ (threw # <<>> => EmptyAtTheEnd(threw[1]))
  BY DEF ReadsBack, Whole
<1>1. wrote \in Seq(Inputs) /\ Len(wrote) \in Nat
  BY DEF BackInv, HeaderInv
<1>2. CASE reader = <<>>
  <2>1. got = <<>> /\ threw = <<>>
    BY <1>2 DEF BackInv
  <2>2. Len(got) = 0 /\ SubSeq(got, 1, 0) = <<>> /\ SubSeq(wrote, 1, 0) = <<>>
    BY <1>1, <2>1
  <2> QED
    BY <1>1, <2>1, <2>2 DEF IsPrefix
<1>3. CASE reader # <<>>
  <2>1. PICK at : Reading(at)
    BY <1>3 DEF BackInv
  <2>2. /\ got \in Seq(Inputs) /\ Len(got) <= Len(wrote)
        /\ \A i \in 1..Len(got) : got[i] = wrote[i]
        /\ threw # <<>> => EmptyAtTheEnd(threw[1])
    BY <2>1 DEF Reading
  <2>3. SubSeq(got, 1, Len(got)) = got
    BY <2>2, WholeSequence
  <2>4. SubSeq(wrote, 1, Len(got)) = got
    <3>1. Len(got) \in Nat /\ 0 + Len(got) <= Len(wrote)
          /\ \A k \in 1..Len(got) : wrote[0 + k] = got[k]
      BY <2>2
    <3>2. SubSeq(wrote, 0 + 1, 0 + Len(got)) = got
      BY <1>1, <2>2, <3>1, PieceIs
    <3> QED
      BY <3>1, <3>2
  <2> QED
    BY <2>2, <2>3, <2>4 DEF IsPrefix
<1> QED
  BY <1>2, <1>3

\* What >> reads on one machine is what << wrote on another, value by value, and
\* every value can be read but an empty string that ends the packet.
THEOREM ReadsBackWhatWasWritten == StreamSpec => []ReadsBack
<1>1. StreamInit => BackInv
  BY BackInit
<1>2. BackInv /\ [StreamNext]_streamVars => BackInv'
  BY BackStep
<1>3. BackInv => ReadsBack
  BY BackSays
<1> QED
  BY <1>1, <1>2, <1>3, PTL DEF StreamSpec

=============================================================================
