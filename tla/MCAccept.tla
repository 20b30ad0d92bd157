------------------------------ MODULE MCAccept ------------------------------
(***************************************************************************)
(* TLC instance for accepted connections on both platforms: AcceptHandoff  *)
(* on epoll, IocpLoop on a completion port.  The two share nothing: a      *)
(* behaviour is one of the first or one of the second.                     *)
(***************************************************************************)
EXTENDS AcceptHandoff, IocpLoop

VARIABLE platform

bothVars == <<platform, vars, iocpVars>>

BothInit == platform \in {"epoll", "iocp"} /\ Init /\ IocpInit

OnEpoll(A) == platform = "epoll" /\ A /\ UNCHANGED <<platform, iocpVars>>
OnIocp(A) == platform = "iocp" /\ A /\ UNCHANGED <<platform, vars>>

BothNext == OnEpoll(Next) \/ OnIocp(IocpNext)

BothSpec ==
    /\ BothInit /\ [][BothNext]_bothVars
    /\ WF_bothVars(OnEpoll(Schedule))
    /\ \A p \in Procs : WF_bothVars(OnEpoll(Process(p)))
    /\ WF_bothVars(OnIocp(RunOnce))
    /\ WF_bothVars(OnIocp(AcceptSucceeds))

=============================================================================
