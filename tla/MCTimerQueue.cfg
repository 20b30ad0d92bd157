\* One thread and the loop, three timers, so that two can be in a batch while a
\* third is created.  The sequence part of an ID has two values: the third timer
\* can get the ID of the first, or differ from it by its expiry.
SPECIFICATION Spec
CONSTANTS
    Threads = {t1}
    Loop = loop
    Delays = {0, 2}
    SeqMod = 2
    MaxTimers = 3
    MaxTime = 3
INVARIANTS
    TimersAccounted
    NeverEarly
    InOrder
    LostOnlyAfterWrap
    PassedByCreation
PROPERTIES
    EventuallyFires
