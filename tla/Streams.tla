------------------------------- MODULE Streams -------------------------------
(***************************************************************************)
(* WriteStream and ReadStream of protocol4z (depends/protocol4z/           *)
(* protocol4z.h): a packet is written value by value with its length kept  *)
(* in the header, and read back value by value on another machine.         *)
(*                                                                         *)
(* A byte has Base values.  The Integer of the header, of string lengths   *)
(* and of container sizes has IntegerSize bytes.  Values are integers of   *)
(* IntegerSize bytes, single bytes, strings of bytes, and containers of    *)
(* integers (a map is one of keys and values in turn).                     *)
(***************************************************************************)
EXTENDS Naturals, Sequences, SequencesExt

CONSTANTS Base,         \* 256 in the code
          IntegerSize,  \* sizeof(Integer)
          HeadTraits,   \* the StreamHeadTrait of the packet: one of these
          Hosts,        \* byte orders of machines
          Lengths,      \* arguments maxStreamLen
          Inputs,       \* the values that are written
          MaxValues     \* bound: values in a packet

VARIABLES
    trait,   \* PreOffset, PostOffset, PackLenIsContainHead, EndianType
    writer,  \* the WriteStream: host, m_maxStreamLen, m_cursor, m_bNoWrite, m_data
    wrote,   \* history: the values for which << returned
    torn,    \* history: a << threw after it had written a part
    reader,  \* the ReadStream: none or one, with host, m_maxDataLen, m_cursor
    got,     \* history: the values read
    threw    \* history: the >> that threw: none or the index of its value

streamVars == <<trait, writer, wrote, torn, reader, got, threw>>

\* How many values i bytes have.
Power[i \in 0..IntegerSize] == IF i = 0 THEN 1 ELSE Base * Power[i - 1]

MaxInteger == Power[IntegerSize] - 1
HeadLen == trait.PreOffset + IntegerSize + trait.PostOffset

ByteOrders == {"LittleEndian", "BigEndian"}

\* What << is given: every value is one of its type, a string or a container of
\* any length.  maxStreamLen is an Integer.
ASSUME StreamAssumption ==
    /\ Base \in Nat /\ Base > 1 /\ IntegerSize \in Nat \ {0}
    /\ HeadTraits \subseteq [PreOffset : Nat, PostOffset : Nat,
                             PackLenIsContainHead : BOOLEAN, EndianType : ByteOrders]
    /\ Hosts \subseteq ByteOrders
    /\ Lengths \subseteq 0..MaxInteger
    /\ Inputs \subseteq [type : {"integer"}, value : 0..MaxInteger]
                    \cup [type : {"byte"}, value : 0..(Base - 1)]
                    \cup [type : {"string"}, value : Seq(0..(Base - 1))]
                    \cup [type : {"container"}, value : Seq(0..MaxInteger)]

-----------------------------------------------------------------------------
(* Integers and bytes *)

\* n without its lowest i bytes.
Shifted(n) == LET q[i \in 0..IntegerSize] == IF i = 0 THEN n ELSE q[i - 1] \div Base IN q

LittleBytes(n) == [i \in 1..IntegerSize |-> Shifted(n)[i - 1] % Base]

\* The number whose highest i bytes are those of bytes.
Summed(bytes) ==
    LET sum[i \in 0..IntegerSize] ==
            IF i = 0 THEN 0 ELSE sum[i - 1] * Base + bytes[IntegerSize - i + 1]
    IN sum

\* An integer in the memory of a machine.
Memory(host, n) == IF host = "LittleEndian" THEN LittleBytes(n) ELSE Reverse(LittleBytes(n))
FromMemory(host, bytes) ==
    Summed(IF host = "LittleEndian" THEN bytes ELSE Reverse(bytes))[IntegerSize]

Swapped(host, bytes) == IF trait.EndianType # host THEN Reverse(bytes) ELSE bytes

\* Faulty variant: the bytes go out in the order of the machine.
IntegerToMemory(host, n) == Memory(host, n)

IntegerToStream(host, n) == Swapped(host, Memory(host, n))
StreamToInteger(host, bytes) == FromMemory(host, Swapped(host, bytes))

-----------------------------------------------------------------------------
(* WriteStream *)

\* The Integer arithmetic of FixPackLen.
PackLen(cursor) == IF trait.PackLenIsContainHead THEN cursor ELSE cursor - HeadLen

FixPackLen(w) ==
    [w EXCEPT !.m_data =
       IF w.m_bNoWrite THEN @
       ELSE [i \in DOMAIN @ |->
               IF i \in (trait.PreOffset + 1)..(trait.PreOffset + IntegerSize)
               THEN IntegerToStream(w.host, PackLen(w.m_cursor))[i - trait.PreOffset]
               ELSE @[i]]]

Fits(w, unit) == w.m_maxStreamLen >= HeadLen /\ w.m_cursor + unit <= w.m_maxStreamLen

\* AppendOriginalData, WriteIntegerData, WriteSimpleData: one piece, or an exception.
Put(w, bytes) ==
    IF w.thrown \/ ~Fits(w, Len(bytes)) THEN [w EXCEPT !.thrown = TRUE]
    ELSE FixPackLen([w EXCEPT !.m_cursor = @ + Len(bytes),
                              !.m_data = IF w.m_bNoWrite THEN @ ELSE @ \o bytes])

\* A length or size is cut to the width of the Integer.
Cut(n) == n % (MaxInteger + 1)

\* What << writes, piece by piece.
Pieces(host, v) ==
    CASE v.type = "integer" -> <<IntegerToStream(host, v.value)>>
      [] v.type = "byte" -> <<<<v.value>>>>
      [] v.type = "string" ->
            <<IntegerToStream(host, Cut(Len(v.value))), SubSeq(v.value, 1, Cut(Len(v.value)))>>
      [] v.type = "container" ->
            <<IntegerToStream(host, Cut(Len(v.value)))>>
            \o [i \in DOMAIN v.value |-> IntegerToStream(host, v.value[i])]

\* The stream after so many pieces.
Written(stream, pieces) ==
    LET after[i \in 0..Len(pieces)] == IF i = 0 THEN stream ELSE Put(after[i - 1], pieces[i])
    IN after

\* The head is there from the constructor on, with 0 in it until something is
\* written.  The data of m_bNoWrite is empty; attached memory holds the same
\* bytes as memory of its own.
StreamInit ==
    /\ trait \in HeadTraits
    /\ \E host \in Hosts, max \in Lengths, quiet \in BOOLEAN :
        writer = [host |-> host, m_maxStreamLen |-> max, m_cursor |-> HeadLen,
                  m_bNoWrite |-> quiet, thrown |-> FALSE,
                  m_data |-> IF quiet THEN <<>> ELSE [i \in 1..HeadLen |-> 0]]
    /\ wrote = <<>> /\ torn = FALSE
    /\ reader = <<>> /\ got = <<>> /\ threw = <<>>

\* The exception leaves the pieces before it in the packet.
Write(v) ==
    /\ reader = <<>> /\ Len(wrote) < MaxValues /\ ~torn
    /\ LET pieces == Pieces(writer.host, v)
           w == Written(writer, pieces)[Len(pieces)] IN
        /\ writer' = [w EXCEPT !.thrown = FALSE]
        /\ wrote' = IF w.thrown THEN wrote ELSE Append(wrote, v)
        /\ torn' = (w.thrown /\ w.m_cursor # writer.m_cursor)
    /\ UNCHANGED <<trait, reader, got, threw>>

-----------------------------------------------------------------------------
(* ReadStream *)

\* The constructor: attachDataLen, an Integer, is the length of the packet.  The
\* cap at MaxPackLen is left out: in both traits that is the largest Integer
\* (protocol4z.h:119, 132), so no attachDataLen is above it.
StartReading ==
    /\ reader = <<>> /\ wrote # <<>> /\ ~writer.m_bNoWrite
    /\ \E host \in Hosts :
        reader' = <<[host |-> host, m_maxDataLen |-> Len(writer.m_data), m_cursor |-> HeadLen]>>
    /\ UNCHANGED <<trait, writer, wrote, torn, got, threw>>

\* Faulty variant: a unit that ends with the packet is refused too.
CanMoveBefore(r, unit) == r.m_cursor + unit < r.m_maxDataLen

\* CheckMoveCursor refuses the end of the packet even when nothing is asked for.
CanMove(r, unit) == r.m_cursor < r.m_maxDataLen /\ r.m_cursor + unit <= r.m_maxDataLen

Bytes(r, unit) == SubSeq(writer.m_data, r.m_cursor + 1, r.m_cursor + unit)

\* What >> finds: the value and the cursor behind it, or that it throws.
Thrown == [ok |-> FALSE]
Found(value, cursor) == [ok |-> TRUE, value |-> value, cursor |-> cursor]

ReadSimpleData(r) ==
    IF CanMove(r, 1) THEN Found(Bytes(r, 1)[1], r.m_cursor + 1) ELSE Thrown

ReadIntegerData(r) ==
    IF CanMove(r, IntegerSize)
    THEN Found(StreamToInteger(r.host, Bytes(r, IntegerSize)), r.m_cursor + IntegerSize)
    ELSE Thrown

ReadString(r) ==
    LET length == ReadIntegerData(r) IN
    IF ~length.ok THEN Thrown
    ELSE LET q == [r EXCEPT !.m_cursor = length.cursor] IN
         IF CanMove(q, length.value)
         THEN Found(Bytes(q, length.value), q.m_cursor + length.value)
         ELSE Thrown

\* One element more, if all were found so far.
OneMore(r, found) ==
    LET element == ReadIntegerData([r EXCEPT !.m_cursor = found.cursor]) IN
    IF found.ok /\ element.ok
    THEN Found(Append(found.value, element.value), element.cursor) ELSE Thrown

\* One element after the other, as many as the size says.
Elements(r, size, start) ==
    LET after[i \in 0..size] == IF i = 0 THEN Found(<<>>, start) ELSE OneMore(r, after[i - 1])
    IN after

ReadContainer(r) ==
    LET size == ReadIntegerData(r) IN
    IF size.ok THEN Elements(r, size.value, size.cursor)[size.value] ELSE Thrown

ReadAs(type, r) ==
    CASE type = "integer" -> ReadIntegerData(r)
      [] type = "byte" -> ReadSimpleData(r)
      [] type = "string" -> ReadString(r)
      [] type = "container" -> ReadContainer(r)

\* The reader asks for the types in the order they were written.
Read ==
    /\ reader # <<>> /\ threw = <<>> /\ Len(got) < Len(wrote)
    /\ LET type == wrote[Len(got) + 1].type
           found == ReadAs(type, reader[1]) IN
        \/ /\ found.ok
           /\ got' = Append(got, [type |-> type, value |-> found.value])
           /\ reader' = <<[reader[1] EXCEPT !.m_cursor = found.cursor]>>
           /\ UNCHANGED threw
        \/ /\ ~found.ok
           /\ threw' = <<Len(got) + 1>>
           /\ UNCHANGED <<got, reader>>
    /\ UNCHANGED <<trait, writer, wrote, torn>>

StreamNext == (\E v \in Inputs : Write(v)) \/ StartReading \/ Read

StreamSpec == StreamInit /\ [][StreamNext]_streamVars

-----------------------------------------------------------------------------
(* CheckBuffIntegrity on what a stream has written *)

IntegrityOf(host, buff, curBuffLen, maxBuffLen) ==
    LET stored == StreamToInteger(host, SubSeq(buff, trait.PreOffset + 1,
                                               trait.PreOffset + IntegerSize))
        packLen == IF trait.PackLenIsContainHead THEN stored ELSE Cut(stored + HeadLen) IN
    IF curBuffLen < HeadLen THEN <<"IRT_SHORTAGE", HeadLen - curBuffLen>>
    ELSE IF ~trait.PackLenIsContainHead /\ packLen < stored THEN <<"IRT_CORRUPTION", curBuffLen>>
    ELSE IF packLen > maxBuffLen THEN <<"IRT_CORRUPTION", curBuffLen>>
    ELSE IF packLen <= curBuffLen THEN <<"IRT_SUCCESS", packLen>>
    ELSE <<"IRT_SHORTAGE", packLen - curBuffLen>>

-----------------------------------------------------------------------------
(* Properties *)

\* A string that is longer than the Integer can say is cut without a word.
Sayable(v) == v.type = "string" => Len(v.value) <= MaxInteger

EmptyAtTheEnd(i) == i = Len(wrote) /\ wrote[i].type = "string" /\ wrote[i].value = <<>>

\* What was written is what is read, on machines of any byte order, and every
\* value can be read; but not after a << that threw in the middle, not a string
\* that is too long for its length, and not an empty string that ends the packet
\* (protocol4z.h:328, 699, 888).
ReadsBack ==
    ~torn /\ (\A i \in DOMAIN wrote : Sayable(wrote[i])) =>
        /\ IsPrefix(got, wrote)
        /\ threw # <<>> => EmptyAtTheEnd(threw[1])

\* The header says at every moment how long the packet is: cut at any place, the
\* receiver is told to wait for the rest of exactly this packet
\* (protocol4z.h:611, 621, 641, 710).
HeaderTrue ==
    wrote # <<>> /\ ~writer.m_bNoWrite =>
        /\ writer.m_cursor = Len(writer.m_data) /\ writer.m_cursor <= writer.m_maxStreamLen
        /\ \A host \in Hosts, n \in HeadLen..writer.m_cursor :
             IntegrityOf(host, writer.m_data, n, MaxInteger) =
               IF n = writer.m_cursor THEN <<"IRT_SUCCESS", n>>
               ELSE <<"IRT_SHORTAGE", writer.m_cursor - n>>

=============================================================================
