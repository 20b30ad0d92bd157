\* epoll: three connections for two processes, so that the round robin wraps.
\* Completion port: two connections, so that one waits while the other is in
\* OnAccept, a message and a datagram between them.
SPECIFICATION BothSpec
CONSTANTS
    Links = {l1, l2, l3}
    NProcess = 2
    MaxPeers = 2
    MaxPosts = 1
    MaxRecvs = 1
INVARIANTS OneLoopPerSocket ListenerGone EachComesBack DeletableOnClose
PROPERTIES BacklogServed HandedOver TakenUnlessDeaf
CHECK_DEADLOCK FALSE
