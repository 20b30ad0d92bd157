----------------------------- MODULE SocketLife -----------------------------
(***************************************************************************)
(* What a connection promises its user, whatever the network does (the     *)
(* callbacks of network/SocketInterface.h): a connect is answered once,    *)
(* OnRecv and OnSend come only while the socket is open, a close is        *)
(* followed by exactly one OnClose, and after that there is silence.       *)
(***************************************************************************)
CONSTANTS Socks, NoSock

VARIABLES
    life,     \* of each socket: "new", "accepted", "connecting", "open",
              \* "failed", "stuck", "closing", "closed"
    speaking  \* the socket whose callback is running, or NoSock

lifeVars == <<life, speaking>>

Init == life = [s \in Socks |-> "new"] /\ speaking = NoSock

Moves(s, from, to) == life[s] \in from /\ life' = [life EXCEPT ![s] = to]
Speaks(s) == speaking = NoSock /\ speaking' = s

\* DoConnect, again after a connect that failed; when it returns false at once
\* the socket is of no more use.
DoConnect(s) ==
    /\ \E to \in {"connecting", "stuck"} : Moves(s, {"new", "failed"}, to)
    /\ UNCHANGED speaking

OnConnect(s) ==
    /\ \E to \in {"open", "failed"} : Moves(s, {"connecting"}, to)
    /\ Speaks(s)

OnAccept(s) == Moves(s, {"new"}, "accepted") /\ Speaks(s)

Initialize(s) == Moves(s, {"accepted"}, "open") /\ UNCHANGED speaking

\* OnRecv and OnSend.
OnData(s) == life[s] = "open" /\ Speaks(s) /\ UNCHANGED life

\* By the user or by the library; nobody is told yet.
Close(s) == Moves(s, {"open"}, "closing") /\ UNCHANGED speaking

OnClose(s) == Moves(s, {"closing"}, "closed") /\ Speaks(s)

Return == speaking # NoSock /\ speaking' = NoSock /\ UNCHANGED life

Next ==
    \/ \E s \in Socks : \/ DoConnect(s) \/ OnConnect(s) \/ OnAccept(s) \/ Initialize(s)
                        \/ OnData(s) \/ Close(s) \/ OnClose(s)
    \/ Return

\* No socket stays closed and untold: from "closing" it can only go to "closed".
EveryCloseTold == \A s \in Socks : []<>(life[s] # "closing")

Spec == Init /\ [][Next]_lifeVars /\ EveryCloseTold
=============================================================================
