------------------------------ MODULE Semaphore ------------------------------
(***************************************************************************)
(* CSem of thread4z (depends/thread4z/thread.cpp) on POSIX semaphores: one *)
(* name, several CSem that Create or Open it, wait with and without a      *)
(* timeout and post.  An anonymous semaphore is one CSem without a name,   *)
(* with the same Wait and Post.                                            *)
(*                                                                         *)
(* Time is counted in milliseconds and a second has Second of them; the    *)
(* timespec keeps seconds and the rest apart.                              *)
(***************************************************************************)
EXTENDS Naturals, Sequences

CONSTANTS Sems,        \* the CSem objects
          Second,      \* milliseconds in a second: 1000 in the code
          Timeouts,    \* arguments of Wait: 0 waits for ever
          InitCounts,  \* arguments of Create, after the negative ones became 0
          MaxNow,      \* bound: the clock
          MaxObjects,  \* bound: semaphores the kernel makes
          MaxCount     \* bound: signals in one of them

ASSUME SemAssumption ==
    /\ Second \in Nat \ {0} /\ Timeouts \subseteq Nat
    /\ InitCounts \subseteq 0..MaxCount
    /\ MaxNow \in Nat /\ MaxObjects \in Nat /\ MaxCount \in Nat

VARIABLES
    now,      \* clock_gettime, in milliseconds
    name,     \* the semaphore behind the name, 0 if there is none
    counts,   \* the counts of all semaphores made
    named,    \* the CSem whose m_name is set
    m_psid,   \* the semaphore of each CSem, 0 when sem_open failed or was not called
    waiting,  \* the Wait each CSem is in: none or one
    answer    \* history: the last Wait of each CSem that failed: none or one

semVars == <<now, name, counts, named, m_psid, waiting, answer>>

SemInit ==
    /\ now = 0 /\ name = 0 /\ counts = <<>> /\ named = {}
    /\ m_psid = [s \in Sems |-> 0]
    /\ waiting = [s \in Sems |-> <<>>] /\ answer = [s \in Sems |-> <<>>]

ClockTicks ==
    /\ now < MaxNow /\ now' = now + 1
    /\ UNCHANGED <<name, counts, named, m_psid, waiting, answer>>

\* sem_open with O_CREAT: an existing semaphore keeps its count.
SemOpenCreates(s, count) ==
    \/ /\ name # 0
       /\ m_psid' = [m_psid EXCEPT ![s] = name] /\ UNCHANGED <<name, counts>>
    \/ /\ name = 0 /\ Len(counts) < MaxObjects
       /\ name' = Len(counts) + 1 /\ counts' = Append(counts, count)
       /\ m_psid' = [m_psid EXCEPT ![s] = name']

\* m_name is copied before sem_open, and stays when that fails.
SemCreate(s) ==
    /\ m_psid[s] = 0
    /\ named' = named \cup {s}
    /\ \/ \E count \in InitCounts : SemOpenCreates(s, count)
       \/ UNCHANGED <<name, counts, m_psid>>
    /\ UNCHANGED <<now, waiting, answer>>

\* Without O_CREAT the O_EXCL has no effect.
SemOpen(s) ==
    /\ m_psid[s] = 0
    /\ named' = named \cup {s}
    /\ m_psid' = [m_psid EXCEPT ![s] = name]
    /\ UNCHANGED <<now, name, counts, waiting, answer>>

\* The destructor unlinks the name also when sem_open had failed, and whoever
\* else has it open.
SemDestroy(s) ==
    /\ s \in named /\ waiting[s] = <<>>
    /\ named' = named \ {s}
    /\ m_psid' = [m_psid EXCEPT ![s] = 0]
    /\ name' = 0
    /\ UNCHANGED <<now, counts, waiting, answer>>

\* Faulty variant: the whole seconds of the timeout are forgotten.
TimespecOfRest(timeout) == [tv_sec |-> now \div Second,
                            tv_rest |-> (now % Second) + (timeout % Second)]

\* The timespec that Wait makes: the sum of the rests is not carried.
Timespec(timeout) == [tv_sec |-> (now \div Second) + (timeout \div Second),
                      tv_rest |-> (now % Second) + (timeout % Second)]

SemWait(s, timeout) ==
    /\ m_psid[s] # 0 /\ waiting[s] = <<>>
    /\ waiting' = [waiting EXCEPT ![s] =
                     <<[since |-> now, timeout |-> timeout, until |-> Timespec(timeout)]>>]
    /\ UNCHANGED <<now, name, counts, named, m_psid, answer>>

SemTakes(s) ==
    /\ waiting[s] # <<>> /\ counts[m_psid[s]] > 0
    /\ counts' = [counts EXCEPT ![m_psid[s]] = @ - 1]
    /\ waiting' = [waiting EXCEPT ![s] = <<>>]
    /\ answer' = [answer EXCEPT ![s] = <<>>]
    /\ UNCHANGED <<now, name, named, m_psid>>

\* sem_timedwait fails at the time given, or at once when the rest is a second
\* or more; it does not look at the time while there is a signal.
Invalid(ts) == ts.tv_rest >= Second
Expired(ts) == now >= ts.tv_sec * Second + ts.tv_rest

\* Wait returns false, and the caller cannot tell why.
WaitFails(s, why) ==
    LET w == waiting[s][1]
    IN  /\ waiting' = [waiting EXCEPT ![s] = <<>>]
        /\ answer' = [answer EXCEPT ![s] =
                        <<[waited |-> now - w.since, timeout |-> w.timeout,
                           why |-> why]>>]
        /\ UNCHANGED <<now, name, counts, named, m_psid>>

SemTimesOut(s) ==
    /\ waiting[s] # <<>> /\ counts[m_psid[s]] = 0
    /\ waiting[s][1].timeout > 0
    /\ \/ Invalid(waiting[s][1].until) /\ WaitFails(s, "invalid")
       \/ Expired(waiting[s][1].until) /\ WaitFails(s, "expired")

\* A signal handler has run: sem_wait and sem_timedwait give up alike, and Wait
\* does not try again.
SemInterrupted(s) == waiting[s] # <<>> /\ WaitFails(s, "interrupted")

SemPost(s) ==
    /\ m_psid[s] # 0 /\ waiting[s] = <<>> /\ counts[m_psid[s]] < MaxCount
    /\ counts' = [counts EXCEPT ![m_psid[s]] = @ + 1]
    /\ UNCHANGED <<now, name, named, m_psid, waiting, answer>>

SemNext ==
    \/ ClockTicks
    \/ \E s \in Sems :
        \/ SemCreate(s) \/ SemOpen(s) \/ SemDestroy(s)
        \/ \E timeout \in Timeouts : SemWait(s, timeout)
        \/ SemTakes(s) \/ SemTimesOut(s) \/ SemInterrupted(s) \/ SemPost(s)

SemSpec == SemInit /\ [][SemNext]_semVars

-----------------------------------------------------------------------------
(* Properties *)

\* A Wait that fails has waited its timeout, and had one, except in two cases:
\* a signal handler interrupted it, at any time and with or without a timeout
\* (thread.cpp:255, 263, 270, 278), or the milliseconds of now and of the timeout
\* add up to a second, which Wait does not carry (262, 277), and it fails before
\* its time.  That case needs a timeout, too.
WaitsItsTime ==
    \A s \in Sems : answer[s] # <<>> =>
        \/ answer[s][1].why = "interrupted"
        \/ /\ answer[s][1].timeout > 0
           /\ answer[s][1].why = "expired" => answer[s][1].waited >= answer[s][1].timeout

=============================================================================
