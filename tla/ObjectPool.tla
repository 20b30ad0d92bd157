----------------------------- MODULE ObjectPool -----------------------------
(***************************************************************************)
(* The object pools of utility/objectpool.h.  CObjectPool keeps its free   *)
(* nodes in a list threaded through their first eight bytes, with counters *)
(* beside it; CObjectPool2 keeps them in a std::list.  Constructors and    *)
(* destructors are user code that runs inside CreateObject and DealObject: *)
(* they may use the same pool, and a constructor may throw.                *)
(***************************************************************************)
EXTENDS Naturals, Sequences, FiniteSets, SequencesExt

CONSTANTS MaxNodes,  \* bound: blocks of memory
          MaxDepth   \* bound: constructors and destructors nested in each other

ASSUME PoolAssumption == MaxNodes \in Nat /\ MaxNodes >= 3 /\ MaxDepth \in Nat

Node == 1..MaxNodes
NULL == 0

VARIABLES
    kind,                \* "CObjectPool" or "CObjectPool2"
    next,                \* the first eight bytes of each node
    m_pHead, m_pTail,
    m_nUseSize, m_nFreSize, m_nTotSize,
    m_objs,              \* the std::list of CObjectPool2
    use,                 \* what a node holds: "new" before it is allocated, "free",
                         \* "constructing", "object", "destroying", "lost"
    stack                \* the nodes whose constructor or destructor is running

linked == <<next, m_pHead, m_pTail, m_nFreSize, m_nTotSize>>
poolVars == <<kind, linked, m_nUseSize, m_objs, use, stack>>

\* CObjectPool starts with two nodes, so that head and tail always differ.
PoolInit ==
    /\ kind \in {"CObjectPool", "CObjectPool2"}
    /\ next = [n \in Node |-> IF n = 1 THEN 2 ELSE NULL]
    /\ m_pHead = 1 /\ m_pTail = 2
    /\ m_nUseSize = 0 /\ m_nFreSize = 0 /\ m_nTotSize = 0
    /\ m_objs = <<>>
    /\ use = [n \in Node |-> IF kind = "CObjectPool" /\ n <= 2 THEN "free" ELSE "new"]
    /\ stack = <<>>

\* operator new: some block that is not in use.
Fresh == CHOOSE n \in Node : use[n] = "new"
CanAllocate == \E n \in Node : use[n] = "new"

\* AddToPool(p).
Linked(p) == [next EXCEPT ![p] = NULL, ![m_pTail] = p]

\* CObjectPool::CreateObject up to the constructor: the head is handed out.
TakeHead ==
    /\ kind = "CObjectPool"
    /\ \/ /\ m_nFreSize = 0 /\ CanAllocate
          /\ next' = Linked(Fresh) /\ m_pTail' = Fresh
          /\ m_nTotSize' = m_nTotSize + 1
          /\ use' = [use EXCEPT ![Fresh] = "free", ![m_pHead] = "constructing"]
          /\ UNCHANGED m_nFreSize
       \/ /\ m_nFreSize > 0
          /\ m_nFreSize' = m_nFreSize - 1
          /\ use' = [use EXCEPT ![m_pHead] = "constructing"]
          /\ UNCHANGED <<next, m_pTail, m_nTotSize>>
    /\ m_pHead' = next'[m_pHead]
    /\ m_nUseSize' = m_nUseSize + 1
    /\ stack' = Append(stack, m_pHead)
    /\ UNCHANGED <<kind, m_objs>>

\* CObjectPool2::CreateObject up to the constructor.
TakeFront ==
    /\ kind = "CObjectPool2"
    /\ m_objs # <<>> \/ CanAllocate
    /\ LET p == IF m_objs # <<>> THEN Head(m_objs) ELSE Fresh IN
        /\ use' = [use EXCEPT ![p] = "constructing"]
        /\ stack' = Append(stack, p)
    /\ m_objs' = IF m_objs # <<>> THEN Tail(m_objs) ELSE m_objs
    /\ UNCHANGED <<kind, linked, m_nUseSize>>

CreateObject == Len(stack) < MaxDepth /\ (TakeHead \/ TakeFront)

\* The constructor returns.
Constructed ==
    /\ stack # <<>> /\ use[Last(stack)] = "constructing"
    /\ use' = [use EXCEPT ![Last(stack)] = "object"]
    /\ stack' = Front(stack)
    /\ UNCHANGED <<kind, linked, m_nUseSize, m_objs>>

\* Or it throws: the node was taken and nothing gives it back.
ConstructorThrows ==
    /\ stack # <<>> /\ use[Last(stack)] = "constructing"
    /\ use' = [use EXCEPT ![Last(stack)] = "lost"]
    /\ stack' = Front(stack)
    /\ UNCHANGED <<kind, linked, m_nUseSize, m_objs>>

\* Faulty variant: the node is linked before the destructor of T has run.
DealObjectFirst(p) ==
    /\ use[p] = "object" /\ Len(stack) < MaxDepth /\ kind = "CObjectPool"
    /\ next' = Linked(p) /\ m_pTail' = p /\ m_nFreSize' = m_nFreSize + 1
    /\ use' = [use EXCEPT ![p] = "destroying"]
    /\ stack' = Append(stack, p)
    /\ UNCHANGED <<kind, m_pHead, m_nTotSize, m_nUseSize, m_objs>>

\* DealObject up to the end of the destructor.
DealObject(p) ==
    /\ use[p] = "object" /\ Len(stack) < MaxDepth
    /\ use' = [use EXCEPT ![p] = "destroying"]
    /\ stack' = Append(stack, p)
    /\ UNCHANGED <<kind, linked, m_nUseSize, m_objs>>

\* The rest of DealObject: the node goes to the end of the list.
Destroyed ==
    /\ stack # <<>> /\ use[Last(stack)] = "destroying"
    /\ LET p == Last(stack) IN
        /\ use' = [use EXCEPT ![p] = "free"]
        /\ \/ /\ kind = "CObjectPool"
              /\ next' = Linked(p) /\ m_pTail' = p
              /\ m_nFreSize' = m_nFreSize + 1 /\ m_nUseSize' = m_nUseSize - 1
              /\ UNCHANGED <<m_pHead, m_nTotSize, m_objs>>
           \/ /\ kind = "CObjectPool2"
              /\ m_objs' = Append(m_objs, p)
              /\ UNCHANGED <<linked, m_nUseSize>>
    /\ stack' = Front(stack)
    /\ UNCHANGED kind

PoolNext ==
    \/ CreateObject \/ Constructed \/ ConstructorThrows
    \/ \E p \in Node : DealObject(p)
    \/ Destroyed

PoolSpec == PoolInit /\ [][PoolNext]_poolVars

-----------------------------------------------------------------------------
(* Properties *)

\* The k-th node of the list that starts at m_pHead.
Chain[k \in 0..(m_nFreSize + 1)] == IF k = 0 THEN m_pHead ELSE next[Chain[k - 1]]

With(states) == {n \in Node : use[n] \in states}

\* Memory in use is never in the free list, and no free memory is lost from it:
\* from m_pHead the links lead through every free node once and end in m_pTail,
\* two nodes more than m_nFreSize, whatever constructors and destructors do to
\* the pool meanwhile; m_nUseSize counts the objects and, for ever, the nodes
\* whose constructor threw (objectpool.h:108, 130, 204).
PoolLinked ==
    LET free == IF kind = "CObjectPool" THEN [k \in 1..(m_nFreSize + 2) |-> Chain[k - 1]]
                ELSE m_objs IN
    /\ ToSet(free) = With({"free"}) /\ Len(free) = Cardinality(With({"free"}))
    /\ kind = "CObjectPool" =>
        /\ Last(free) = m_pTail /\ next[m_pTail] = NULL
        /\ m_nUseSize = Cardinality(With({"constructing", "object", "destroying", "lost"}))
        /\ m_nTotSize = m_nUseSize + m_nFreSize

=============================================================================
