\* udp: two datagrams.  que: a capacity that divides the wrap and one that does
\* not.  pool: blocks for three objects and the two spare nodes.  sem: timeouts
\* below and above a second of three ticks.  stream: integers of two bytes with
\* four values each, packets of three values, too long and too short streams.
SPECIFICATION PartsSpec
CONSTANTS
    MaxDatagrams = 2
    Capacities = {3, 4}
    Wrap = 16
    Values = 5
    MaxPush = 3
    MaxNodes = 5
    MaxDepth = 2
    Sems = {s1, s2}
    Second = 3
    Timeouts = {0, 4}
    InitCounts = {0}
    MaxNow = 5
    MaxObjects = 2
    MaxCount = 1
    Base = 4
    IntegerSize = 2
    HeadTraits <- Traits
    Hosts = {"LittleEndian", "BigEndian"}
    Lengths = {1, 10, 15}
    Inputs <- WrittenValues
    MaxValues = 3
INVARIANTS QueFifo PoolLinked WaitsItsTime ReadsBack HeaderTrue
PROPERTIES UdpAnswered
CHECK_DEADLOCK FALSE
