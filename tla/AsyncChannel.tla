---------------------------- MODULE AsyncChannel ----------------------------
(***************************************************************************)
(* What CIOServer promises to those who call Post, or close a socket or an *)
(* acceptor: one channel into the thread that runs RunOnce, unbounded,     *)
(* first in first out, that loses and duplicates nothing.  A message is    *)
(* <<p, n>>, the n-th message of poster p.                                 *)
(***************************************************************************)
EXTENDS Integers, Sequences

CONSTANTS Posters,   \* whoever calls CIOServer::PostMsg
          MaxPosts   \* bound: messages per poster

VARIABLES sent,      \* sent[p]: messages poster p has posted so far
          posted,    \* every message posted, in the order it was accepted
          delivered  \* every message handed to its callback, in order

vars == <<sent, posted, delivered>>

Init ==
    /\ sent = [p \in Posters |-> 0]
    /\ posted = <<>>
    /\ delivered = <<>>

Post(p) ==
    /\ sent[p] < MaxPosts
    /\ sent' = [sent EXCEPT ![p] = @ + 1]
    /\ posted' = Append(posted, <<p, sent[p] + 1>>)
    /\ UNCHANGED delivered

Deliver ==
    /\ Len(delivered) < Len(posted)
    /\ delivered' = Append(delivered, posted[Len(delivered) + 1])
    /\ UNCHANGED <<sent, posted>>

Next == Deliver \/ \E p \in Posters : Post(p)

\* Delivery is eventual; nobody is obliged to post.
Spec == Init /\ [][Next]_vars /\ WF_vars(Deliver)

=============================================================================
