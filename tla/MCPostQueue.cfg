\* Two posting threads and the loop, two messages each; a socketpair of two
\* bytes, so that it is full while messages wait; recv() takes one byte, so
\* that the drain takes several rounds.
SPECIFICATION Spec
CONSTANTS
    Threads = {t1, t2}
    Loop = loop
    MaxPosts = 2
    PairCap = 2
    RecvLen = 1
INVARIANTS
    NoLostWakeup
    Accounted
    Deferred
PROPERTIES
    ImplementsChannel
