------------------------------ MODULE MCParts ------------------------------
(***************************************************************************)
(* TLC instance for the parts that the system is built from.  They share   *)
(* nothing: a behaviour is one of a single part, the subject.              *)
(***************************************************************************)
EXTENDS UdpSocket, CircularQue, ObjectPool, Semaphore, Streams

VARIABLE subject

partsVars == <<subject, udpVars, queVars, poolVars, semVars, streamVars>>

Traits ==
    {[PreOffset |-> 0, PostOffset |-> 0, PackLenIsContainHead |-> TRUE,
      EndianType |-> "LittleEndian"],
     [PreOffset |-> 1, PostOffset |-> 2, PackLenIsContainHead |-> FALSE,
      EndianType |-> "BigEndian"]}

WrittenValues ==
    {[type |-> "integer", value |-> 6], [type |-> "byte", value |-> 3],
     [type |-> "string", value |-> <<>>], [type |-> "string", value |-> <<1, 2>>],
     [type |-> "string", value |-> [i \in 1..17 |-> 1]],
     [type |-> "container", value |-> <<9, 1>>]}

\* The other parts stay in one initial state of theirs.
PartsInit ==
    /\ subject \in {"udp", "que", "pool", "sem", "stream"}
    /\ UdpInit /\ QueInit /\ PoolInit /\ SemInit /\ StreamInit
    /\ subject # "que" => m_maxlen = 3
    /\ subject # "pool" => kind = "CObjectPool"
    /\ subject # "stream" =>
        /\ trait.PreOffset = 0
        /\ writer.host = "LittleEndian" /\ writer.m_maxStreamLen = 1 /\ writer.m_bNoWrite

UdpPart == UdpNext /\ UNCHANGED <<queVars, poolVars, semVars, streamVars>>
QuePart == QueNext /\ UNCHANGED <<udpVars, poolVars, semVars, streamVars>>
PoolPart == PoolNext /\ UNCHANGED <<udpVars, queVars, semVars, streamVars>>
SemPart == SemNext /\ UNCHANGED <<udpVars, queVars, poolVars, streamVars>>
StreamPart == StreamNext /\ UNCHANGED <<udpVars, queVars, poolVars, semVars>>

PartsNext ==
    /\ UNCHANGED subject
    /\ \/ subject = "udp" /\ UdpPart
       \/ subject = "que" /\ QuePart
       \/ subject = "pool" /\ PoolPart
       \/ subject = "sem" /\ SemPart
       \/ subject = "stream" /\ StreamPart

PartsSpec == PartsInit /\ [][PartsNext]_partsVars /\ UdpFairness

=============================================================================
