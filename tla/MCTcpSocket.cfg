CONSTANTS
    Accepted = {a1}
    Connected = {c1}
    NoSock = NoSock
    MaxFd = 2
    CrossCalls = FALSE
SPECIFICATION Spec
INVARIANTS EpollSetRight
PROPERTIES Answered ImplementsSocketLife
