\* As MCTcpSocket, with calls on any open socket from timers, posts and every
\* callback.
SPECIFICATION Spec
CONSTANTS
    Accepted = {a1}
    Connected = {c1}
    NoSock = NoSock
    MaxFd = 2
    CrossCalls = TRUE
INVARIANTS DescriptorsOwned NothingForDeleted
CHECK_DEADLOCK FALSE
