----------------------------- MODULE EchoProofs -----------------------------
(***************************************************************************)
(* Proofs about EchoPair: the session of the echo server with the stress   *)
(* client and with any other peer, for any streams, header length, buffer  *)
(* length, packet length and number of packets.                            *)
(***************************************************************************)
EXTENDS EchoPair, WellFoundedInduction, TLAPS

-----------------------------------------------------------------------------
(* Induction and flattened sequences *)

LEMMA LeastOf ==
  ASSUME NEW T, T \subseteq Nat, T # {}
  PROVE  \E x \in T : \A y \in T : x <= y
<1> DEFINE R == {ss \in Nat \X Nat : ss[1] < ss[2]}
<1>1. IsWellFoundedOn(R, Nat)
  BY NatLessThanWellFounded DEF OpToRel
<1>2. \E x \in T : \A y \in T : ~(<<y, x>> \in R)
  <2> HIDE DEF R
  <2> QED
    BY <1>1, WFMin
<1>3. \A x, y \in Nat : y < x => <<y, x>> \in R
  OBVIOUS
<1> HIDE DEF R
<1>4. PICK x \in T : \A y \in T : ~(<<y, x>> \in R)
  BY <1>2
<1>5. \A y \in T : ~(y < x)
  BY <1>3, <1>4
<1> QED
  BY <1>5

\* Induction, for a set of numbers.
LEMMA InductiveSet ==
  ASSUME NEW T, 0 \in T, \A n \in Nat : n \in T => n + 1 \in T
  PROVE  \A n \in Nat : n \in T
<1> DEFINE U == {n \in Nat : n \notin T}
<1>1. ASSUME U # {} PROVE FALSE
  <2>1. U \subseteq Nat
    OBVIOUS
  <2> HIDE DEF U
  <2>2. PICK x \in U : \A y \in U : x <= y
    BY <1>1, <2>1, LeastOf
  <2> USE DEF U
  <2>3. x \in Nat /\ x \notin T /\ x # 0
    BY <2>2
  <2>4. x - 1 \in Nat /\ x - 1 \notin U /\ (x - 1) + 1 = x
    <3>1. x - 1 \in Nat /\ (x - 1) + 1 = x /\ ~(x <= x - 1)
      BY <2>3
    <3> QED
      BY <2>2, <3>1
  <2>5. x - 1 \in T
    BY <2>4
  <2> QED
    BY <2>3, <2>4, <2>5
<1> QED
  BY <1>1

\* A byte is known by two numbers.
Byte == Nat \X Nat

LEMMA Joined ==
  ASSUME NEW a \in Seq(Byte), NEW b \in Seq(Byte)
  PROVE  /\ a \o b \in Seq(Byte) /\ Len(a \o b) = Len(a) + Len(b)
         /\ \A i \in 1..Len(a) : (a \o b)[i] = a[i]
         /\ \A i \in 1..Len(b) : (a \o b)[Len(a) + i] = b[i]
         /\ Len(a) \in Nat /\ Len(b) \in Nat
OBVIOUS

LEMMA Associates ==
  ASSUME NEW a \in Seq(Byte), NEW b \in Seq(Byte), NEW c \in Seq(Byte)
  PROVE  (a \o b) \o c = a \o (b \o c)
OBVIOUS

\* f flattens the first m pieces of s, one after the other.
FlattensTo(f, s, m) ==
    /\ f \in [1..m -> Seq(Byte)]
    /\ f[1] = s[1]
    /\ \A i \in 1..(m - 1) : f[i + 1] = f[i] \o s[i + 1]

Flattens(f, s) == FlattensTo(f, s, Len(s))

LEMMA FlattensIsEquation ==
  ASSUME NEW s \in Seq(Seq(Byte)), s # <<>>, NEW f, Flattens(f, s)
  PROVE  f = [i \in 1..Len(s) |-> IF i = 1 THEN s[i] ELSE f[i - 1] \o s[i]]
<1>1. Len(s) \in Nat /\ Len(s) >= 1
  OBVIOUS
<1>2. \A i \in 1..Len(s) : i # 1 => i - 1 \in 1..(Len(s) - 1) /\ (i - 1) + 1 = i
  BY <1>1
<1>3. \A i \in 1..Len(s) : i # 1 => f[i] = f[i - 1] \o s[i]
  <2> SUFFICES ASSUME NEW i \in 1..Len(s), i # 1 PROVE f[i] = f[i - 1] \o s[i]
    OBVIOUS
  <2>1. f[(i - 1) + 1] = f[i - 1] \o s[(i - 1) + 1]
    BY <1>2 DEF Flattens, FlattensTo
  <2> QED
    BY <1>2, <2>1
<1> QED
  BY <1>3 DEF Flattens, FlattensTo

LEMMA EquationIsFlattens ==
  ASSUME NEW s \in Seq(Seq(Byte)), s # <<>>, NEW f,
         f = [i \in 1..Len(s) |-> IF i = 1 THEN s[i] ELSE f[i - 1] \o s[i]]
  PROVE  /\ f[1] = s[1]
         /\ \A i \in 1..(Len(s) - 1) : f[i + 1] = f[i] \o s[i + 1]
<1>1. Len(s) \in Nat /\ Len(s) >= 1
  OBVIOUS
<1>2. \A i \in 1..Len(s) : f[i] = IF i = 1 THEN s[i] ELSE f[i - 1] \o s[i]
  OBVIOUS
<1>3. 1 \in 1..Len(s)
  BY <1>1
<1>4. \A i \in 1..(Len(s) - 1) : i + 1 \in 1..Len(s) /\ i + 1 # 1 /\ (i + 1) - 1 = i
  BY <1>1
<1> QED
  BY <1>2, <1>3, <1>4

\* Every sequence of sequences is flattened by a function.
LEMMA FlattensExists ==
  ASSUME NEW s \in Seq(Seq(Byte)), s # <<>>
  PROVE  \E f : Flattens(f, s)
<1> DEFINE P(m) == \E f : FlattensTo(f, s, m)
           T == {n \in Nat : n < Len(s) => P(n + 1)}
<1>1. Len(s) \in Nat /\ Len(s) >= 1 /\ \A i \in 1..Len(s) : s[i] \in Seq(Byte)
  OBVIOUS
<1>2. P(1)
  <2> DEFINE g == [i \in 1..1 |-> s[1]]
  <2>1. FlattensTo(g, s, 1)
    BY <1>1 DEF FlattensTo
  <2> HIDE DEF g
  <2> QED
    BY <2>1
<1>3. ASSUME NEW n \in Nat, P(n + 1), n + 1 < Len(s) PROVE P((n + 1) + 1)
  <2>2. PICK f : FlattensTo(f, s, n + 1)
    BY <1>3
  <2> DEFINE M == n + 2
             g == [i \in 1..M |-> IF i = M THEN f[n + 1] \o s[M] ELSE f[i]]
  <2>3. M \in 1..Len(s) /\ s[M] \in Seq(Byte) /\ n + 1 \in 1..(n + 1) /\ f[n + 1] \in Seq(Byte)
    BY <1>1, <1>3, <2>2 DEF FlattensTo
  <2>4. f[n + 1] \o s[M] \in Seq(Byte)
    BY <2>3, Joined
  <2>5. \A i \in 1..M : i # M => i \in 1..(n + 1)
    OBVIOUS
  <2>6. g \in [1..M -> Seq(Byte)]
    BY <2>2, <2>4, <2>5 DEF FlattensTo
  <2>7. g[1] = s[1]
    BY <2>2 DEF FlattensTo
  <2>8. \A i \in 1..(M - 1) : g[i + 1] = g[i] \o s[i + 1]
    <3> SUFFICES ASSUME NEW i \in 1..(M - 1) PROVE g[i + 1] = g[i] \o s[i + 1]
      OBVIOUS
    <3>1. i \in 1..M /\ i + 1 \in 1..M /\ i # M
      OBVIOUS
    <3>4. g[i] = f[i]
      BY <3>1
    <3>2. CASE i = n + 1
      <4>1. i + 1 = M
        BY <3>2
      <4>2. g[i + 1] = f[n + 1] \o s[M]
        BY <3>1, <4>1
      <4> HIDE DEF g, M
      <4> QED
        BY <3>2, <3>4, <4>1, <4>2
    <3>3. CASE i # n + 1
      <4>1. i \in 1..((n + 1) - 1) /\ i + 1 # M
        BY <3>3
      <4>2. f[i + 1] = f[i] \o s[i + 1]
        BY <2>2, <4>1 DEF FlattensTo
      <4>3. g[i + 1] = f[i + 1]
        BY <3>1, <4>1
      <4> HIDE DEF g, M
      <4> QED
        BY <3>4, <4>2, <4>3
    <3> QED
      BY <3>2, <3>3
  <2>9. M = (n + 1) + 1
    OBVIOUS
  <2> HIDE DEF g, M
  <2>10. FlattensTo(g, s, M)
    BY <2>6, <2>7, <2>8 DEF FlattensTo
  <2> QED
    BY <2>9, <2>10
<1>4. \A n \in Nat : n \in T
  <2> HIDE DEF P
  <2>1. 0 \in T
    BY <1>2
  <2>2. ASSUME NEW n \in Nat, n \in T PROVE n + 1 \in T
    <3>1. n + 1 < Len(s) => P((n + 1) + 1)
      BY <1>1, <1>3, <2>2
    <3>2. n + 1 \in Nat
      OBVIOUS
    <3> QED
      BY <3>1, <3>2
  <2> HIDE DEF T
  <2> QED
    BY <2>1, <2>2, InductiveSet
<1>5. P(Len(s))
  <2> HIDE DEF P
  <2>1. Len(s) - 1 \in Nat /\ (Len(s) - 1) + 1 = Len(s) /\ Len(s) - 1 < Len(s)
    BY <1>1
  <2>2. Len(s) - 1 \in T
    BY <1>4, <2>1
  <2>3. P((Len(s) - 1) + 1)
    BY <2>1, <2>2
  <2> QED
    BY <2>1, <2>3
<1> QED
  BY <1>5 DEF Flattens

\* Two functions that do so agree, so FlattenSeq is the last value of any.
LEMMA FlattenedBy ==
  ASSUME NEW s \in Seq(Seq(Byte)), s # <<>>, NEW f, Flattens(f, s)
  PROVE  FlattenSeq(s) = f[Len(s)] /\ FlattenSeq(s) \in Seq(Byte)
<1> DEFINE Eq(g) == g = [i \in 1..Len(s) |-> IF i = 1 THEN s[i] ELSE g[i - 1] \o s[i]]
           h == CHOOSE g : Eq(g)
           T == {n \in Nat : n < Len(s) => h[n + 1] = f[n + 1]}
<1>1. Len(s) \in Nat /\ Len(s) >= 1 /\ Len(s) # 0
  OBVIOUS
<1>2. FlattenSeq(s) = h[Len(s)]
  BY <1>1 DEF FlattenSeq
<1>3. Eq(h)
  <2>1. Eq(f)
    BY FlattensIsEquation
  <2> QED
    BY <2>1
<1> HIDE DEF h
<1>4. h[1] = s[1] /\ \A i \in 1..(Len(s) - 1) : h[i + 1] = h[i] \o s[i + 1]
  BY <1>3, EquationIsFlattens
<1>5. 0 \in T
  <2>1. h[0 + 1] = f[0 + 1]
    BY <1>4 DEF Flattens, FlattensTo
  <2> QED
    BY <2>1
<1>6. ASSUME NEW n \in Nat, n \in T PROVE n + 1 \in T
  <2>1. ASSUME n + 1 < Len(s) PROVE h[(n + 1) + 1] = f[(n + 1) + 1]
    <3>1. n + 1 \in 1..(Len(s) - 1) /\ n < Len(s)
      BY <1>1, <2>1
    <3>2. h[n + 1] = f[n + 1]
      BY <1>6, <3>1
    <3> QED
      BY <1>4, <3>1, <3>2 DEF Flattens, FlattensTo
  <2>2. n + 1 \in Nat
    OBVIOUS
  <2> QED
    BY <2>1, <2>2
<1>7. \A n \in Nat : n \in T
  <2> HIDE DEF T
  <2> QED
    BY <1>5, <1>6, InductiveSet
<1>8. Len(s) - 1 \in Nat /\ (Len(s) - 1) + 1 = Len(s) /\ Len(s) - 1 < Len(s)
  BY <1>1
<1>9. Len(s) - 1 \in T
  BY <1>7, <1>8
<1>10. h[Len(s)] = f[Len(s)]
  BY <1>8, <1>9
<1>11. f[Len(s)] \in Seq(Byte)
  BY <1>1 DEF Flattens, FlattensTo
<1> QED
  BY <1>2, <1>10, <1>11

LEMMA FlattenEmpty == FlattenSeq(<<>>) = <<>>
BY DEF FlattenSeq

LEMMA FlattenTyped ==
  ASSUME NEW s \in Seq(Seq(Byte))
  PROVE  FlattenSeq(s) \in Seq(Byte)
<1>1. CASE s = <<>>
  <2>1. FlattenSeq(s) = <<>>
    BY <1>1, FlattenEmpty
  <2>2. <<>> \in Seq(Byte)
    OBVIOUS
  <2> QED
    BY <2>1, <2>2
<1>2. CASE s # <<>>
  BY <1>2, FlattensExists, FlattenedBy
<1> QED
  BY <1>1, <1>2

LEMMA Appended ==
  ASSUME NEW s \in Seq(Seq(Byte)), NEW x \in Seq(Byte)
  PROVE  /\ Append(s, x) \in Seq(Seq(Byte)) /\ Append(s, x) # <<>>
         /\ Len(s) \in Nat /\ Len(Append(s, x)) = Len(s) + 1
         /\ \A i \in 1..Len(s) : Append(s, x)[i] = s[i]
         /\ Append(s, x)[Len(s) + 1] = x
<1>1. Append(s, x) \in Seq(Seq(Byte)) /\ Len(Append(s, x)) = Len(s) + 1 /\ Len(s) \in Nat
  OBVIOUS
<1>2. Append(s, x) # <<>>
  <2> DEFINE t == Append(s, x)
  <2>1. Len(t) # 0
    BY <1>1
  <2>2. Len(<<>>) = 0
    OBVIOUS
  <2> HIDE DEF t
  <2>3. t # <<>>
    BY <2>1, <2>2
  <2> QED
    BY <2>3 DEF t
<1> QED
  BY <1>1, <1>2

LEMMA FlattenAppend ==
  ASSUME NEW s \in Seq(Seq(Byte)), NEW x \in Seq(Byte)
  PROVE  FlattenSeq(Append(s, x)) = FlattenSeq(s) \o x
<1> DEFINE t == Append(s, x)
           N == Len(s)
<1>1. /\ t \in Seq(Seq(Byte)) /\ t # <<>> /\ N \in Nat /\ Len(t) = N + 1
      /\ \A i \in 1..N : t[i] = s[i]
      /\ t[N + 1] = x
  BY Appended
<1>2. CASE s = <<>>
  <2> DEFINE g == [i \in 1..1 |-> x]
  <2>1. N = 0
    BY <1>2
  <2>2. FlattensTo(g, t, 1)
    BY <1>1, <2>1 DEF FlattensTo
  <2>3. g[1] = x
    OBVIOUS
  <2> HIDE DEF g, t
  <2>6. Len(t) = 1 /\ Flattens(g, t)
    BY <1>1, <2>1, <2>2 DEF Flattens
  <2>4. FlattenSeq(t) = x
    BY <1>1, <2>3, <2>6, FlattenedBy
  <2>5. <<>> \o x = x
    OBVIOUS
  <2> QED
    BY <1>2, <2>4, <2>5, FlattenEmpty DEF t
<1>3. CASE s # <<>>
  <2>1. PICK f : Flattens(f, s)
    BY <1>3, FlattensExists
  <2> DEFINE g == [i \in 1..(N + 1) |-> IF i = N + 1 THEN f[N] \o x ELSE f[i]]
  <2>2. FlattenSeq(s) = f[N]
    BY <1>3, <2>1, FlattenedBy
  <2>3. N >= 1 /\ f \in [1..N -> Seq(Byte)] /\ f[N] \in Seq(Byte)
    BY <1>1, <1>3, <2>1 DEF Flattens, FlattensTo
  <2>4. f[N] \o x \in Seq(Byte)
    BY <2>3, Joined
  <2>5. \A i \in 1..(N + 1) : i # N + 1 => i \in 1..N
    BY <1>1
  <2>6. /\ g \in [1..(N + 1) -> Seq(Byte)] /\ g[N + 1] = f[N] \o x
        /\ \A i \in 1..N : g[i] = f[i]
    BY <1>1, <2>3, <2>4, <2>5
  <2> HIDE DEF g, t
  <2>7. g[1] = t[1]
    <3>1. 1 \in 1..N
      BY <1>1, <2>3
    <3>2. f[1] = s[1]
      BY <2>1 DEF Flattens, FlattensTo
    <3> HIDE DEF N
    <3> QED
      BY <1>1, <2>6, <3>1, <3>2
  <2>8. \A i \in 1..N : g[i + 1] = g[i] \o t[i + 1]
    <3> SUFFICES ASSUME NEW i \in 1..N PROVE g[i + 1] = g[i] \o t[i + 1]
      OBVIOUS
    <3>1. CASE i = N
      <4> HIDE DEF N
      <4> QED
        BY <1>1, <2>6, <3>1
    <3>2. CASE i # N
      <4>1. i \in 1..(N - 1) /\ i + 1 \in 1..N
        BY <1>1, <3>2
      <4>2. f[i + 1] = f[i] \o s[i + 1]
        BY <2>1, <4>1 DEF Flattens, FlattensTo
      <4> HIDE DEF N
      <4> QED
        BY <1>1, <2>6, <4>1, <4>2
    <3> QED
      BY <3>1, <3>2
  <2>9. Flattens(g, t)
    <3>1. Len(t) = N + 1 /\ Len(t) - 1 = N
      BY <1>1
    <3> HIDE DEF N
    <3> QED
      BY <2>6, <2>7, <2>8, <3>1 DEF Flattens, FlattensTo
  <2>10. FlattenSeq(t) = g[Len(t)]
    BY <1>1, <2>9, FlattenedBy
  <2> HIDE DEF N
  <2> QED
    BY <1>1, <2>2, <2>6, <2>10 DEF t
<1> QED
  BY <1>2, <1>3

LEMMA TailOf ==
  ASSUME NEW s \in Seq(Seq(Byte)), s # <<>>
  PROVE  /\ Head(s) \in Seq(Byte) /\ Head(s) = s[1]
         /\ Tail(s) \in Seq(Seq(Byte)) /\ Len(Tail(s)) = Len(s) - 1
         /\ Len(s) \in Nat /\ Len(s) >= 1
         /\ \A i \in 1..(Len(s) - 1) : Tail(s)[i] = s[i + 1]
OBVIOUS

LEMMA FlattenHead ==
  ASSUME NEW s \in Seq(Seq(Byte)), s # <<>>
  PROVE  FlattenSeq(s) = Head(s) \o FlattenSeq(Tail(s))
<1> DEFINE t == Tail(s)
           h == Head(s)
           N == Len(t)
<1>1. /\ h \in Seq(Byte) /\ h = s[1] /\ t \in Seq(Seq(Byte))
      /\ Len(s) = N + 1 /\ N \in Nat
      /\ \A i \in 1..N : t[i] = s[i + 1]
  <2>1. Len(t) = Len(s) - 1 /\ Len(s) \in Nat /\ Len(s) >= 1
    BY TailOf
  <2>2. N + 1 = Len(s) /\ N = Len(s) - 1 /\ N \in Nat
    BY <2>1
  <2> QED
    BY <2>2, TailOf
<1> HIDE DEF t, h
<1>2. CASE N = 0
  <2> DEFINE g == [i \in 1..1 |-> h]
  <2>1. g \in [1..1 -> Seq(Byte)] /\ g[1] = h
    BY <1>1
  <2> HIDE DEF g
  <2>2. Flattens(g, s)
    BY <1>1, <1>2, <2>1 DEF Flattens, FlattensTo
  <2>3. FlattenSeq(s) = h
    BY <1>1, <1>2, <2>1, <2>2, FlattenedBy
  <2>4. t = <<>>
    BY <1>1, <1>2
  <2>5. FlattenSeq(t) = <<>>
    BY <2>4, FlattenEmpty
  <2>6. h \o <<>> = h
    BY <1>1
  <2> QED
    BY <2>3, <2>5, <2>6 DEF h, t
<1>3. CASE N # 0
  <2>0. t # <<>>
    BY <1>3
  <2>1. PICK f : Flattens(f, t)
    BY <1>1, <2>0, FlattensExists
  <2> DEFINE g == [i \in 1..(N + 1) |-> IF i = 1 THEN h ELSE h \o f[i - 1]]
  <2>2. FlattenSeq(t) = f[N]
    BY <1>1, <2>0, <2>1, FlattenedBy
  <2>3. N >= 1 /\ f \in [1..N -> Seq(Byte)] /\ 1 \in 1..N /\ N \in 1..N
    BY <1>1, <1>3, <2>1 DEF Flattens, FlattensTo
  <2> HIDE DEF N
  <2>4. \A i \in 1..N : h \o f[i] \in Seq(Byte)
    BY <1>1, <2>3, Joined
  <2>5. /\ \A i \in 1..(N + 1) : i # 1 => i - 1 \in 1..N
        /\ \A i \in 1..N : i + 1 \in 1..(N + 1) /\ i + 1 # 1 /\ (i + 1) - 1 = i
        /\ 1 \in 1..(N + 1)
    BY <1>1
  <2>6. /\ g \in [1..(N + 1) -> Seq(Byte)] /\ g[1] = h
        /\ \A i \in 1..N : g[i + 1] = h \o f[i]
    BY <1>1, <2>3, <2>4, <2>5
  <2> HIDE DEF g
  <2>8. \A i \in 1..N : g[i + 1] = g[i] \o s[i + 1]
    <3> SUFFICES ASSUME NEW i \in 1..N PROVE g[i + 1] = g[i] \o s[i + 1]
      OBVIOUS
    <3>1. CASE i = 1
      <4>1. f[1] = t[1] /\ t[1] = s[1 + 1]
        BY <1>1, <2>1, <2>3 DEF Flattens, FlattensTo
      <4>2. g[1 + 1] = h \o f[1]
        BY <2>3, <2>6
      <4> QED
        BY <2>6, <3>1, <4>1, <4>2
    <3>2. CASE i # 1
      <4> DEFINE j == i - 1
      <4>1. j \in 1..(N - 1) /\ j \in 1..N /\ j + 1 = i /\ j + 1 \in 1..N
        BY <1>1, <3>2
      <4>2. f[j + 1] = f[j] \o t[j + 1]
        BY <2>1, <4>1 DEF Flattens, FlattensTo, N
      <4>3. t[j + 1] = s[i + 1] /\ t[j + 1] \in Seq(Byte) /\ f[j] \in Seq(Byte)
        <5>1. t[j + 1] \in Seq(Byte)
          BY <1>1, <4>1 DEF N
        <5> HIDE DEF j
        <5> QED
          BY <1>1, <2>3, <4>1, <5>1
      <4>4. g[i + 1] = h \o f[i] /\ g[j + 1] = h \o f[j]
        BY <2>6, <4>1
      <4> HIDE DEF j
      <4>5. (h \o f[j]) \o t[j + 1] = h \o (f[j] \o t[j + 1])
        BY <1>1, <4>3, Associates
      <4> QED
        BY <4>1, <4>2, <4>3, <4>4, <4>5
    <3> QED
      BY <3>1, <3>2
  <2>9. Flattens(g, s)
    <3>1. Len(s) - 1 = N
      BY <1>1
    <3> QED
      BY <1>1, <2>6, <2>8, <3>1 DEF Flattens, FlattensTo
  <2>10. FlattenSeq(s) = g[N + 1]
    BY <1>1, <2>9, FlattenedBy
  <2> QED
    BY <2>2, <2>3, <2>6, <2>10 DEF h, t
<1> QED
  BY <1>2, <1>3

-----------------------------------------------------------------------------
(* Pieces of a sequence of bytes *)

LEMMA Piece ==
  ASSUME NEW a \in Seq(Byte), NEW m \in Nat, NEW n \in Nat, m <= n, n <= Len(a)
  PROVE  /\ SubSeq(a, m + 1, n) \in Seq(Byte)
         /\ Len(SubSeq(a, m + 1, n)) = n - m
         /\ \A i \in 1..(n - m) : SubSeq(a, m + 1, n)[i] = a[m + i]
OBVIOUS

LEMMA SameBytes ==
  ASSUME NEW a \in Seq(Byte), NEW b \in Seq(Byte), Len(a) = Len(b),
         \A i \in 1..Len(a) : a[i] = b[i]
  PROVE  a = b
OBVIOUS

LEMMA PiecesJoin ==
  ASSUME NEW a \in Seq(Byte), NEW k \in Nat, NEW m \in Nat, NEW n \in Nat,
         k <= m, m <= n, n <= Len(a)
  PROVE  SubSeq(a, k + 1, m) \o SubSeq(a, m + 1, n) = SubSeq(a, k + 1, n)
<1> DEFINE x == SubSeq(a, k + 1, m)
           y == SubSeq(a, m + 1, n)
           z == SubSeq(a, k + 1, n)
<1>1. x \in Seq(Byte) /\ Len(x) = m - k /\ \A i \in 1..(m - k) : x[i] = a[k + i]
  <2>1. m <= Len(a)
    OBVIOUS
  <2> QED
    BY <2>1, Piece
<1>2. y \in Seq(Byte) /\ Len(y) = n - m /\ \A i \in 1..(n - m) : y[i] = a[m + i]
  BY Piece
<1>3. z \in Seq(Byte) /\ Len(z) = n - k /\ \A i \in 1..(n - k) : z[i] = a[k + i]
  <2>1. k <= n
    OBVIOUS
  <2> QED
    BY <2>1, Piece
<1> HIDE DEF x, y, z
<1>4. /\ x \o y \in Seq(Byte) /\ Len(x \o y) = n - k
      /\ \A i \in 1..(m - k) : (x \o y)[i] = x[i]
      /\ \A i \in 1..(n - m) : (x \o y)[(m - k) + i] = y[i]
  <2>1. /\ x \o y \in Seq(Byte) /\ Len(x \o y) = Len(x) + Len(y)
        /\ \A i \in 1..Len(x) : (x \o y)[i] = x[i]
        /\ \A i \in 1..Len(y) : (x \o y)[Len(x) + i] = y[i]
    BY <1>1, <1>2, Joined
  <2> QED
    BY <1>1, <1>2, <2>1
<1>5. ASSUME NEW i \in 1..(n - k) PROVE (x \o y)[i] = z[i]
  <2>1. CASE i <= m - k
    BY <1>1, <1>3, <1>4, <2>1
  <2>2. CASE ~(i <= m - k)
    <3> DEFINE j == i - (m - k)
    <3>1. j \in 1..(n - m) /\ (m - k) + j = i /\ m + j = k + i
      BY <2>2
    <3>2. y[j] = a[m + j] /\ (x \o y)[(m - k) + j] = y[j]
      BY <1>2, <1>4, <3>1
    <3> HIDE DEF j
    <3> QED
      BY <1>3, <3>1, <3>2
  <2> QED
    BY <2>1, <2>2
<1>6. x \o y = z
  BY <1>3, <1>4, <1>5, SameBytes
<1> QED
  BY <1>6 DEF x, y, z

LEMMA FirstPiece ==
  ASSUME NEW a \in Seq(Byte), NEW b \in Seq(Byte)
  PROVE  SubSeq(a \o b, 1, Len(a)) = a
<1> DEFINE c == a \o b
           d == SubSeq(c, 1, Len(a))
<1>1. c \in Seq(Byte) /\ Len(a) \in Nat /\ Len(a) <= Len(c) /\ \A i \in 1..Len(a) : c[i] = a[i]
  BY Joined
<1> HIDE DEF c
<1>2. SubSeq(c, 0 + 1, Len(a)) = d
  OBVIOUS
<1>3. d \in Seq(Byte) /\ Len(d) = Len(a) - 0 /\ \A i \in 1..(Len(a) - 0) : d[i] = c[0 + i]
  <2>1. 0 \in Nat /\ 0 <= Len(a)
    BY <1>1
  <2> HIDE DEF d
  <2> QED
    BY <1>1, <1>2, <2>1, Piece
<1> HIDE DEF d
<1>4. Len(d) = Len(a) /\ \A i \in 1..Len(a) : d[i] = a[i]
  BY <1>1, <1>3
<1>5. d = a
  BY <1>3, <1>4, SameBytes
<1> QED
  BY <1>5 DEF c, d

-----------------------------------------------------------------------------
(* The stream of the peer *)

PacketsOk ==
    /\ packets \in Seq([len : Nat, kind : Kinds])
    /\ \A n \in 1..Len(packets) : packets[n].len <= HeadLen => packets[n].kind = "malformed"

\* The stream up to the end of the k-th packet.
Upto(k) == FlattenSeq([n \in 1..k |-> Bytes(n)])

LEMMA PacketBytes ==
  ASSUME PacketsOk, NEW n \in 1..Len(packets)
  PROVE  /\ packets[n].len \in Nat /\ packets[n].kind \in Kinds
         /\ Size(n) \in Nat /\ Size(n) >= HeadLen /\ Size(n) >= 1
         /\ ~Corrupt(packets[n].len) /\ packets[n].len >= HeadLen => Size(n) = packets[n].len
         /\ Bytes(n) \in Seq(Byte) /\ Len(Bytes(n)) = Size(n)
         /\ \A i \in 1..Size(n) : Bytes(n)[i] = <<n, i>>
<1>1. packets[n] \in [len : Nat, kind : Kinds] /\ n \in Nat
  <2> DEFINE R == [len : Nat, kind : Kinds]
  <2>1. packets \in Seq(R)
    BY DEF PacketsOk
  <2> HIDE DEF R
  <2>2. packets[n] \in R /\ n \in Nat
    BY <2>1
  <2> QED
    BY <2>2 DEF R
<1>2. packets[n].len \in Nat /\ packets[n].kind \in Kinds
  BY <1>1
<1>3. HeadLen \in Nat /\ HeadLen >= 1
  BY PacketsAssumption
<1>4. /\ Size(n) \in Nat /\ Size(n) >= HeadLen /\ Size(n) >= 1
      /\ ~Corrupt(packets[n].len) /\ packets[n].len >= HeadLen => Size(n) = packets[n].len
  BY <1>2, <1>3 DEF Size
<1>5. \A i \in 1..Size(n) : <<n, i>> \in Byte
  BY <1>1, <1>4 DEF Byte
<1>6. /\ Bytes(n) \in Seq(Byte) /\ Len(Bytes(n)) = Size(n)
      /\ \A i \in 1..Size(n) : Bytes(n)[i] = <<n, i>>
  BY <1>4, <1>5 DEF Bytes
<1> QED
  BY <1>2, <1>4, <1>6

LEMMA PiecesTyped ==
  ASSUME PacketsOk, NEW k \in 0..Len(packets)
  PROVE  [n \in 1..k |-> Bytes(n)] \in Seq(Seq(Byte))
<1>1. Len(packets) \in Nat
  BY DEF PacketsOk
<1>2. \A n \in 1..k : n \in 1..Len(packets)
  BY <1>1
<1>3. \A n \in 1..k : Bytes(n) \in Seq(Byte)
  BY <1>2, PacketBytes
<1> QED
  BY <1>1, <1>3

LEMMA UptoIs ==
  ASSUME PacketsOk
  PROVE  /\ Upto(0) = <<>> /\ Stream = Upto(Len(packets))
         /\ \A k \in 0..Len(packets) : Upto(k) \in Seq(Byte)
         /\ \A k \in 0..(Len(packets) - 1) : Upto(k + 1) = Upto(k) \o Bytes(k + 1)
<1>0. Len(packets) \in Nat
  BY DEF PacketsOk
<1>1. Upto(0) = <<>>
  <2>1. [n \in 1..0 |-> Bytes(n)] = <<>>
    OBVIOUS
  <2> QED
    BY <2>1, FlattenEmpty DEF Upto
<1>2. Stream = Upto(Len(packets))
  BY DEF Stream, Upto
<1>3. ASSUME NEW k \in 0..Len(packets) PROVE Upto(k) \in Seq(Byte)
  BY PiecesTyped, FlattenTyped DEF Upto
<1>4. ASSUME NEW k \in 0..(Len(packets) - 1) PROVE Upto(k + 1) = Upto(k) \o Bytes(k + 1)
  <2> DEFINE s == [n \in 1..k |-> Bytes(n)]
             x == Bytes(k + 1)
             t == [n \in 1..(k + 1) |-> Bytes(n)]
  <2>1. k \in 0..Len(packets) /\ k + 1 \in 0..Len(packets) /\ k + 1 \in 1..Len(packets) /\ k \in Nat
    BY <1>0
  <2>2. s \in Seq(Seq(Byte)) /\ t \in Seq(Seq(Byte)) /\ Len(s) = k /\ Len(t) = k + 1
    BY <2>1, PiecesTyped
  <2>3. x \in Seq(Byte)
    BY <2>1, PacketBytes
  <2>4. \A n \in 1..k : s[n] = t[n]
    BY <2>1
  <2>5. t[k + 1] = x
    BY <2>1
  <2> HIDE DEF s, t, x
  <2>6. /\ Append(s, x) \in Seq(Seq(Byte)) /\ Len(Append(s, x)) = Len(s) + 1
        /\ \A i \in 1..Len(s) : Append(s, x)[i] = s[i]
        /\ Append(s, x)[Len(s) + 1] = x
    BY <2>2, <2>3, Appended
  <2>7. \A i \in 1..(k + 1) : Append(s, x)[i] = t[i]
    <3>1. \A i \in 1..(k + 1) : i \in 1..k \/ i = k + 1
      BY <2>1
    <3> QED
      BY <2>2, <2>4, <2>5, <2>6, <3>1
  <2>8. Append(s, x) = t
    <3> DEFINE u == Append(s, x)
    <3>1. u \in Seq(Seq(Byte)) /\ Len(u) = Len(t) /\ \A i \in 1..Len(t) : u[i] = t[i]
      BY <2>2, <2>6, <2>7
    <3> HIDE DEF u
    <3>2. u = t
      BY <2>2, <3>1
    <3> QED
      BY <3>2 DEF u
  <2>9. FlattenSeq(t) = FlattenSeq(s) \o x
    BY <2>2, <2>3, <2>8, FlattenAppend
  <2> QED
    BY <2>9 DEF s, t, x, Upto
<1> QED
  BY <1>1, <1>2, <1>3, <1>4

Extends(b, a) == Len(a) <= Len(b) /\ \A i \in 1..Len(a) : b[i] = a[i]

LEMMA ExtendsJoined ==
  ASSUME NEW a \in Seq(Byte), NEW b \in Seq(Byte), NEW c \in Seq(Byte), Extends(c, a \o b)
  PROVE  Extends(c, a)
<1>1. /\ a \o b \in Seq(Byte) /\ Len(a \o b) = Len(a) + Len(b)
      /\ \A i \in 1..Len(a) : (a \o b)[i] = a[i]
      /\ Len(a) \in Nat /\ Len(b) \in Nat
  BY Joined
<1>2. \A i \in 1..Len(a) : i \in 1..(Len(a) + Len(b))
  BY <1>1
<1>3. Len(c) \in Nat
  OBVIOUS
<1> DEFINE d == a \o b
<1> HIDE DEF d
<1>4. Len(d) <= Len(c) /\ \A i \in 1..Len(d) : c[i] = d[i]
  BY DEF Extends, d
<1> QED
  BY <1>1, <1>2, <1>3, <1>4 DEF Extends, d

LEMMA UptoIsPrefix ==
  ASSUME PacketsOk, NEW k \in 0..Len(packets)
  PROVE  Extends(Stream, Upto(k))
<1> DEFINE N == Len(packets)
           T == {n \in Nat : n <= N => Extends(Stream, Upto(N - n))}
<1>0. N \in Nat
  BY DEF PacketsOk
<1>1. /\ Stream = Upto(N) /\ \A j \in 0..N : Upto(j) \in Seq(Byte)
      /\ \A j \in 0..(N - 1) : Upto(j + 1) = Upto(j) \o Bytes(j + 1)
  BY UptoIs
<1> HIDE DEF N
<1>2. 0 \in T
  <2>1. N - 0 = N /\ N \in 0..N
    BY <1>0
  <2>2. Extends(Stream, Upto(N - 0))
    BY <1>1, <2>1 DEF Extends
  <2> QED
    BY <2>2
<1>3. ASSUME NEW n \in Nat, n \in T PROVE n + 1 \in T
  <2>1. ASSUME n + 1 <= N PROVE Extends(Stream, Upto(N - (n + 1)))
    <3> DEFINE j == N - (n + 1)
    <3>1. j \in 0..(N - 1) /\ j \in 0..N /\ j + 1 \in 1..N /\ j + 1 = N - n /\ n <= N /\ N \in 0..N
      BY <1>0, <2>1
    <3>2. Extends(Stream, Upto(j + 1))
      BY <1>3, <3>1
    <3> HIDE DEF j
    <3>3. Bytes(j + 1) \in Seq(Byte) /\ Upto(j) \in Seq(Byte) /\ Stream \in Seq(Byte)
      BY <1>1, <3>1, PacketBytes DEF N
    <3>4. Extends(Stream, Upto(j) \o Bytes(j + 1))
      BY <1>1, <3>1, <3>2
    <3>5. Extends(Stream, Upto(j))
      BY <3>3, <3>4, ExtendsJoined
    <3> QED
      BY <3>5 DEF j
  <2>2. n + 1 \in Nat
    OBVIOUS
  <2> QED
    BY <2>1, <2>2
<1>4. \A n \in Nat : n \in T
  <2> HIDE DEF T
  <2> QED
    BY <1>2, <1>3, InductiveSet
<1>5. N - k \in Nat /\ N - k <= N /\ N - (N - k) = k
  BY <1>0 DEF N
<1>6. N - k \in T
  BY <1>4, <1>5
<1> QED
  BY <1>5, <1>6

\* The bytes behind the k-th packet are the first ones of the next packet.
LEMMA InStream ==
  ASSUME PacketsOk, NEW k \in 0..(Len(packets) - 1), NEW m \in 0..Size(k + 1)
  PROVE  /\ Len(Upto(k)) \in Nat /\ Len(Stream) \in Nat /\ Stream \in Seq(Byte)
         /\ Len(Upto(k)) + m <= Len(Stream)
         /\ SubSeq(Stream, Len(Upto(k)) + 1, Len(Upto(k)) + m) = SubSeq(Bytes(k + 1), 1, m)
         /\ Len(Upto(k + 1)) = Len(Upto(k)) + Size(k + 1)
<1> DEFINE a == Upto(k)
           b == Bytes(k + 1)
           S == Size(k + 1)
           L == Len(a)
<1>0. Len(packets) \in Nat
  BY DEF PacketsOk
<1>1. k \in 0..Len(packets) /\ k + 1 \in 0..Len(packets) /\ k + 1 \in 1..Len(packets)
      /\ Len(packets) \in 0..Len(packets)
  BY <1>0
<1>2. a \in Seq(Byte) /\ Upto(k + 1) = a \o b /\ Stream \in Seq(Byte) /\ L \in Nat
  BY <1>1, UptoIs
<1>3. b \in Seq(Byte) /\ Len(b) = S /\ S \in Nat
  BY <1>1, PacketBytes
<1>4. Extends(Stream, Upto(k + 1))
  BY <1>1, UptoIsPrefix
<1> HIDE DEF a, b, S
<1>5. /\ Len(a \o b) = L + S /\ \A i \in 1..S : (a \o b)[L + i] = b[i]
  BY <1>2, <1>3, Joined
<1>6. L + S <= Len(Stream) /\ \A i \in 1..S : Stream[L + i] = b[i]
  <2>1. \A i \in 1..S : L + i \in 1..(L + S)
    BY <1>2, <1>3
  <2> DEFINE c == Upto(k + 1)
  <2>2. Len(c) = L + S /\ \A i \in 1..S : c[L + i] = b[i]
    BY <1>2, <1>5
  <2>3. Len(c) <= Len(Stream) /\ \A i \in 1..Len(c) : Stream[i] = c[i]
    BY <1>4 DEF Extends
  <2> HIDE DEF c, L
  <2> QED
    BY <2>1, <2>2, <2>3
<1>7. Len(Stream) \in Nat /\ m \in Nat /\ m <= S
  BY <1>2, <1>3 DEF S
<1>8. L + m \in Nat /\ L <= L + m /\ L + m <= Len(Stream) /\ (L + m) - L = m
  BY <1>2, <1>3, <1>6, <1>7
<1> HIDE DEF L
<1> DEFINE x == SubSeq(Stream, L + 1, L + m)
           y == SubSeq(b, 1, m)
<1>9. x \in Seq(Byte) /\ Len(x) = m /\ \A i \in 1..m : x[i] = Stream[L + i]
  <2> DEFINE n == L + m
  <2>1. n \in Nat /\ L \in Nat /\ L <= n /\ n <= Len(Stream) /\ n - L = m /\ x = SubSeq(Stream, L + 1, n)
    BY <1>2, <1>8 DEF L
  <2> HIDE DEF n, x
  <2>2. /\ SubSeq(Stream, L + 1, n) \in Seq(Byte) /\ Len(SubSeq(Stream, L + 1, n)) = n - L
        /\ \A i \in 1..(n - L) : SubSeq(Stream, L + 1, n)[i] = Stream[L + i]
    BY <1>2, <2>1, Piece
  <2> QED
    BY <2>1, <2>2
<1>10. y \in Seq(Byte) /\ Len(y) = m /\ \A i \in 1..m : y[i] = b[i]
  BY <1>3, <1>7
<1> HIDE DEF x, y
<1>11. \A i \in 1..m : x[i] = y[i]
  <2>1. \A i \in 1..m : i \in 1..S
    BY <1>3, <1>7
  <2> QED
    BY <1>6, <1>9, <1>10, <2>1
<1>12. x = y
  BY <1>9, <1>10, <1>11, SameBytes
<1>13. Len(Upto(k + 1)) = L + S
  BY <1>2, <1>5
<1> QED
  BY <1>2, <1>7, <1>8, <1>12, <1>13 DEF x, y, L, a, b, S

-----------------------------------------------------------------------------
(* Cutting packets out of the stream *)

\* What CheckBuffIntegrity asked for when it had seen cur bytes of packet k + 1.
Asks(k, cur, need) ==
    \/ cur < HeadLen /\ need = HeadLen - cur
    \/ /\ cur >= HeadLen /\ k < Len(packets)
       /\ ~Corrupt(packets[k + 1].len)
       /\ cur < packets[k + 1].len /\ need = packets[k + 1].len - cur

\* What it says of buff, the first m bytes of packet k + 1.
Verdict(k, m, buff, check) ==
    /\ k < Len(packets) /\ buff \in Seq(Byte) /\ Len(buff) = m
    /\ buff[1][1] = k + 1
    /\ m <= Size(k + 1)
    /\ \/ check.ret = "SHORTAGE" /\ Asks(k, m, check.len)
       \/ check.ret = "CORRUPTION"
       \/ check.ret = "SUCCESS" /\ packets[k + 1].kind = "malformed"
       \/ /\ check.ret = "SUCCESS" /\ packets[k + 1].kind # "malformed"
          /\ buff = Bytes(k + 1) /\ ~Corrupt(packets[k + 1].len)
          /\ packets[k + 1].len = m /\ m > HeadLen

\* So it is for the bytes in hand and n more of those it asked for.
LEMMA Framed ==
  ASSUME PacketsOk, NEW k \in 0..Len(packets), NEW cur \in Nat, NEW need,
         Asks(k, cur, need), NEW n \in 1..need,
         Len(Upto(k)) + cur + n <= Len(Stream),
         NEW buff, buff = SubSeq(Stream, Len(Upto(k)) + 1, Len(Upto(k)) + cur + n)
  PROVE  Verdict(k, cur + n, buff, CheckBuffIntegrity(buff))
<1> DEFINE N == Len(packets)
           L == Len(Upto(k))
           m == cur + n
           len == packets[k + 1].len
<1>0. N \in Nat /\ HeadLen \in Nat /\ HeadLen >= 1 /\ need \in Nat /\ n \in Nat /\ n >= 1
  <2>1. N \in Nat /\ HeadLen \in Nat /\ HeadLen >= 1
    BY PacketsAssumption DEF PacketsOk
  <2>2. ASSUME k < N PROVE len \in Nat
    <3>1. k + 1 \in 1..N
      BY <2>1, <2>2
    <3> QED
      BY <3>1, PacketBytes
  <2> HIDE DEF len
  <2>3. need \in Nat
    BY <2>1, <2>2 DEF Asks, len
  <2> QED
    BY <2>1, <2>3
<1>1. k # N
  <2> SUFFICES ASSUME k = N PROVE FALSE
    OBVIOUS
  <2>1. Stream = Upto(k) /\ Upto(k) \in Seq(Byte)
    BY UptoIs
  <2>2. L \in Nat /\ L = Len(Stream)
    BY <2>1
  <2> HIDE DEF L
  <2>3. L + cur + n <= Len(Stream)
    BY DEF L
  <2> QED
    BY <1>0, <2>2, <2>3
<1>2. k \in 0..(N - 1) /\ k + 1 \in 1..N /\ k < N /\ k \in Nat
  BY <1>0, <1>1
<1>3. /\ len \in Nat /\ packets[k + 1].kind \in Kinds
      /\ Size(k + 1) \in Nat /\ Size(k + 1) >= HeadLen
      /\ ~Corrupt(len) /\ len >= HeadLen => Size(k + 1) = len
      /\ Bytes(k + 1) \in Seq(Byte) /\ Len(Bytes(k + 1)) = Size(k + 1)
      /\ \A i \in 1..Size(k + 1) : Bytes(k + 1)[i] = <<k + 1, i>>
  BY <1>2, PacketBytes
<1>4. len <= HeadLen => packets[k + 1].kind = "malformed"
  BY <1>2 DEF PacketsOk
<1> HIDE DEF N
<1>5. m \in Nat /\ m >= 1 /\ m <= Size(k + 1)
  <2> HIDE DEF len
  <2>1. CASE cur < HeadLen /\ need = HeadLen - cur
    BY <1>0, <1>3, <2>1
  <2>2. CASE /\ cur >= HeadLen /\ k < Len(packets)
             /\ ~Corrupt(packets[k + 1].len)
             /\ cur < packets[k + 1].len /\ need = packets[k + 1].len - cur
    <3>1. ~Corrupt(len) /\ cur < len /\ need = len - cur /\ cur >= HeadLen
      BY <2>2 DEF len
    <3>2. Size(k + 1) = len
      BY <1>0, <1>3, <3>1
    <3> QED
      BY <1>0, <1>3, <3>1, <3>2
  <2> QED
    BY <2>1, <2>2 DEF Asks
<1>6. buff = SubSeq(Bytes(k + 1), 1, m)
  <2>1. L + cur + n = L + m
    <3>1. L \in Nat
      BY <1>2, <1>5, InStream DEF N
    <3> HIDE DEF L
    <3> QED
      BY <1>0, <3>1
  <2>2. m \in 0..Size(k + 1)
    BY <1>3, <1>5
  <2> HIDE DEF m
  <2>3. SubSeq(Stream, L + 1, L + m) = SubSeq(Bytes(k + 1), 1, m)
    BY <1>2, <2>2, InStream DEF N
  <2> QED
    BY <2>1, <2>3
<1> HIDE DEF m
<1>7. buff \in Seq(Byte) /\ Len(buff) = m /\ \A i \in 1..m : buff[i] = Bytes(k + 1)[i]
  <2> DEFINE b == Bytes(k + 1)
             S == Size(k + 1)
  <2>1. b \in Seq(Byte) /\ Len(b) = S /\ S \in Nat /\ m \in Nat /\ m <= S /\ buff = SubSeq(b, 1, m)
    BY <1>3, <1>5, <1>6
  <2> HIDE DEF b, S
  <2>2. SubSeq(b, 1, m) \in Seq(Byte) /\ Len(SubSeq(b, 1, m)) = m
        /\ \A i \in 1..m : SubSeq(b, 1, m)[i] = b[i]
    BY <2>1
  <2> QED
    BY <2>1, <2>2 DEF b
<1>8. buff[1][1] = k + 1
  <2>1. 1 \in 1..m /\ 1 \in 1..Size(k + 1)
    BY <1>3, <1>5
  <2>2. buff[1] = <<k + 1, 1>>
    BY <1>3, <1>7, <2>1
  <2> QED
    BY <2>2
<1> DEFINE check == CheckBuffIntegrity(buff)
<1>9. check = IF m < HeadLen THEN [ret |-> "SHORTAGE", len |-> HeadLen - m]
              ELSE IF Corrupt(len) THEN [ret |-> "CORRUPTION", len |-> m]
              ELSE IF len <= m THEN [ret |-> "SUCCESS", len |-> len]
              ELSE [ret |-> "SHORTAGE", len |-> len - m]
  BY <1>7, <1>8 DEF CheckBuffIntegrity
<1> HIDE DEF check
<1>10. CASE m < HeadLen
  <2>1. check.ret = "SHORTAGE" /\ check.len = HeadLen - m
    BY <1>9, <1>10
  <2>2. Asks(k, m, check.len)
    BY <1>10, <2>1 DEF Asks
  <2> QED
    BY <1>2, <1>5, <1>7, <1>8, <2>1, <2>2 DEF check, m, N, Verdict
<1>11. CASE ~(m < HeadLen) /\ Corrupt(len)
  <2>1. check.ret = "CORRUPTION"
    BY <1>9, <1>11
  <2> QED
    BY <1>2, <1>5, <1>7, <1>8, <2>1 DEF check, m, N, Verdict
<1>12. CASE ~(m < HeadLen) /\ ~Corrupt(len) /\ len <= m
  <2>1. check.ret = "SUCCESS"
    BY <1>9, <1>12
  <2>2. CASE packets[k + 1].kind = "malformed"
    BY <1>2, <1>5, <1>7, <1>8, <2>1, <2>2 DEF check, m, N, Verdict
  <2>3. CASE packets[k + 1].kind # "malformed"
    <3>1. ~(len <= HeadLen)
      BY <1>4, <2>3
    <3> HIDE DEF len
    <3>2. len > HeadLen /\ Size(k + 1) = len /\ m = len
      <4>1. len > HeadLen
        BY <1>0, <1>3, <3>1
      <4>2. Size(k + 1) = len
        BY <1>0, <1>3, <1>12, <4>1 DEF len
      <4> QED
        BY <1>3, <1>5, <1>12, <4>1, <4>2
    <3>3. buff = Bytes(k + 1)
      <4>1. Len(buff) = Len(Bytes(k + 1))
        BY <1>3, <1>7, <3>2
      <4> QED
        BY <1>3, <1>7, <4>1, SameBytes
    <3>4. ~Corrupt(packets[k + 1].len) /\ packets[k + 1].len = m /\ m > HeadLen
      BY <1>12, <3>2 DEF len
    <3> QED
      BY <1>2, <1>5, <1>7, <1>8, <2>1, <2>3, <3>3, <3>4 DEF check, m, N, Verdict
  <2> QED
    BY <2>2, <2>3
<1>13. CASE ~(m < HeadLen) /\ ~Corrupt(len) /\ ~(len <= m)
  <2>1. check.ret = "SHORTAGE" /\ check.len = len - m
    BY <1>9, <1>13
  <2>2. Asks(k, m, check.len)
    <3>1. m >= HeadLen /\ m < len
      BY <1>0, <1>3, <1>5, <1>13
    <3> QED
      BY <1>2, <1>13, <2>1, <3>1 DEF Asks, N
  <2> QED
    BY <1>2, <1>5, <1>7, <1>8, <2>1, <2>2 DEF check, m, N, Verdict
<1> QED
  BY <1>10, <1>11, <1>12, <1>13

-----------------------------------------------------------------------------
(* The session receives *)

\* A packet that MessageEntry is given.
Whole(n) ==
    packets[n].kind # "malformed" /\ ~Corrupt(packets[n].len) /\ packets[n].len > HeadLen

\* All that was taken are the packets parsed and the m_curRecvLen bytes in hand.
RecvInv ==
    /\ PacketsOk
    /\ written \in Nat /\ taken \in Nat /\ m_curRecvLen \in Nat /\ open \in BOOLEAN
    /\ taken <= written /\ written <= Len(Stream)
    /\ parsed \in Seq(Seq(Byte)) /\ Len(parsed) <= Len(packets)
    /\ PacketsFramed
    /\ \A i \in 1..Len(parsed) : Whole(i)
    /\ taken = Len(Upto(Len(parsed))) + m_curRecvLen
    /\ open => Asks(Len(parsed), m_curRecvLen, asked)

LEMMA OnRecvIs ==
  ASSUME RecvInv, open, NEW n \in 1..asked, taken + n <= written, OnRecv(n)
  PROVE  LET k == Len(parsed)
             cur == m_curRecvLen IN
         /\ k \in Nat /\ k + 1 \in 1..Len(packets)
         /\ taken' = taken + n /\ cur + n <= Size(k + 1)
         /\ \/ /\ m_curRecvLen' = cur + n /\ Asks(k, cur + n, asked')
               /\ UNCHANGED <<sendVars, parsed, open>>
            \/ /\ m_curRecvLen' = cur + n /\ open' = FALSE
               /\ UNCHANGED <<sendVars, parsed>>
            \/ /\ Whole(k + 1) /\ cur + n = Size(k + 1)
               /\ m_curRecvLen' = 0 /\ asked' = HeadLen
               /\ parsed' = Append(parsed, Bytes(k + 1))
               /\ \/ packets[k + 1].kind = "echo" /\ Send(Bytes(k + 1))
                  \/ /\ packets[k + 1].kind # "echo"
                     /\ UNCHANGED <<m_sending, asking, m_sendque>>
               /\ UNCHANGED <<m_curSendLen, open>>
<1> DEFINE k == Len(parsed)
           cur == m_curRecvLen
           buff == Recving(n)
           check == CheckBuffIntegrity(buff)
           L == Len(Upto(k))
<1>1. /\ PacketsOk /\ k \in Nat /\ k <= Len(packets) /\ Len(packets) \in Nat /\ cur \in Nat
      /\ taken = L + cur /\ Asks(k, cur, asked) /\ written <= Len(Stream)
      /\ written \in Nat /\ taken \in Nat
  BY DEF RecvInv, PacketsOk
<1>2. k \in 0..Len(packets) /\ L \in Nat /\ Len(Stream) \in Nat
  <2>1. k \in 0..Len(packets) /\ Len(packets) \in 0..Len(packets)
    BY <1>1
  <2>2. Upto(k) \in Seq(Byte) /\ Stream \in Seq(Byte)
    BY <1>1, <2>1, UptoIs
  <2> QED
    BY <2>1, <2>2
<1>3. n \in Nat
  OBVIOUS
<1>4. L + cur + n = taken + n /\ taken - cur = L /\ L + cur + n <= Len(Stream)
  <2> HIDE DEF L
  <2> QED
    BY <1>1, <1>2, <1>3
<1>5. buff = SubSeq(Stream, L + 1, L + cur + n)
  <2> HIDE DEF L
  <2> QED
    BY <1>1, <1>2, <1>3, <1>4 DEF Recving
<1> HIDE DEF k, cur, buff
<1>6. /\ k < Len(packets) /\ buff \in Seq(Byte) /\ Len(buff) = cur + n
      /\ buff[1][1] = k + 1
      /\ cur + n <= Size(k + 1)
      /\ \/ check.ret = "SHORTAGE" /\ Asks(k, cur + n, check.len)
         \/ check.ret = "CORRUPTION"
         \/ check.ret = "SUCCESS" /\ packets[k + 1].kind = "malformed"
         \/ /\ check.ret = "SUCCESS" /\ packets[k + 1].kind # "malformed"
            /\ buff = Bytes(k + 1) /\ ~Corrupt(packets[k + 1].len)
            /\ packets[k + 1].len = cur + n /\ cur + n > HeadLen
  <2> HIDE DEF check, L
  <2>1. Len(Upto(k)) + cur + n <= Len(Stream)
    BY <1>4 DEF L
  <2>2. Asks(k, cur, asked) /\ cur \in Nat /\ PacketsOk /\ k \in 0..Len(packets) /\ n \in 1..asked
    BY <1>1, <1>2
  <2>4. buff = SubSeq(Stream, Len(Upto(k)) + 1, Len(Upto(k)) + cur + n)
    BY <1>5 DEF L
  <2>3. Verdict(k, cur + n, buff, CheckBuffIntegrity(buff))
    BY <2>1, <2>2, <2>4, Framed
  <2> QED
    BY <2>3 DEF check, Verdict
<1>7. k \in Nat /\ k + 1 \in 1..Len(packets)
  BY <1>1, <1>6 DEF k
<1>8. /\ taken' = taken + n
      /\ \/ /\ check.ret = "SHORTAGE"
            /\ m_curRecvLen' = Len(buff) /\ asked' = check.len
            /\ UNCHANGED <<sendVars, parsed, open>>
         \/ /\ \/ check.ret = "CORRUPTION"
               \/ check.ret = "SUCCESS" /\ packets[k + 1].kind = "malformed"
            /\ m_curRecvLen' = Len(buff) /\ asked' = 0
            /\ open' = FALSE
            /\ UNCHANGED <<sendVars, parsed>>
         \/ /\ check.ret = "SUCCESS" /\ packets[k + 1].kind /= "malformed"
            /\ m_curRecvLen' = 0 /\ asked' = HeadLen
            /\ parsed' = Append(parsed, buff)
            /\ IF packets[k + 1].kind = "echo" THEN Send(buff)
               ELSE UNCHANGED <<m_sending, asking, m_sendque>>
            /\ UNCHANGED <<m_curSendLen, open>>
  BY <1>6 DEF OnRecv, buff
<1> HIDE DEF check
<1>9. CASE check.ret = "SHORTAGE"
  BY <1>6, <1>7, <1>8, <1>9 DEF k, cur
<1>10. CASE \/ check.ret = "CORRUPTION"
            \/ check.ret = "SUCCESS" /\ packets[k + 1].kind = "malformed"
  BY <1>6, <1>7, <1>8, <1>10 DEF k, cur
<1>11. CASE check.ret = "SUCCESS" /\ packets[k + 1].kind # "malformed"
  <2>1. /\ buff = Bytes(k + 1) /\ ~Corrupt(packets[k + 1].len)
        /\ packets[k + 1].len = cur + n /\ cur + n > HeadLen
    BY <1>6, <1>11
  <2>2. Whole(k + 1)
    BY <1>11, <2>1 DEF Whole
  <2>3. cur + n = Size(k + 1)
    <3>1. ~Corrupt(packets[k + 1].len) /\ packets[k + 1].len >= HeadLen => Size(k + 1) = packets[k + 1].len
      BY <1>1, <1>7, PacketBytes
    <3>2. packets[k + 1].len >= HeadLen
      BY <2>1, PacketsAssumption, <1>1, <1>3 DEF cur
    <3> QED
      BY <2>1, <3>1, <3>2
  <2>4. /\ m_curRecvLen' = 0 /\ asked' = HeadLen /\ parsed' = Append(parsed, Bytes(k + 1))
        /\ IF packets[k + 1].kind = "echo" THEN Send(Bytes(k + 1))
           ELSE UNCHANGED <<m_sending, asking, m_sendque>>
        /\ UNCHANGED <<m_curSendLen, open>>
    BY <1>8, <1>11, <2>1
  <2> QED
    BY <1>6, <1>7, <1>8, <2>2, <2>3, <2>4 DEF k, cur
<1> QED
  BY <1>6, <1>9, <1>10, <1>11

\* What follows from packets does not change with the rest.
LEMMA SamePackets ==
  ASSUME packets' = packets
  PROVE  /\ Stream' = Stream /\ PacketsOk' = PacketsOk
         /\ \A k : Upto(k)' = Upto(k)
         /\ \A n : Bytes(n)' = Bytes(n)
         /\ \A n : Size(n)' = Size(n)
         /\ \A n : Whole(n)' = Whole(n)
         /\ \A k, cur, need : Asks(k, cur, need)' = Asks(k, cur, need)
<1>1. \A n : Size(n)' = Size(n)
  BY DEF Size
<1>2. \A n : Bytes(n)' = Bytes(n)
  BY <1>1 DEF Bytes
<1>3. \A k : Upto(k)' = Upto(k)
  BY <1>2 DEF Upto
<1>4. Stream' = Stream
  BY <1>2 DEF Stream
<1>5. PacketsOk' = PacketsOk
  BY DEF PacketsOk
<1>6. \A n : Whole(n)' = Whole(n)
  BY DEF Whole
<1>7. \A k, cur, need : Asks(k, cur, need)' = Asks(k, cur, need)
  BY DEF Asks
<1> QED
  BY <1>1, <1>2, <1>3, <1>4, <1>5, <1>6, <1>7

LEMMA RecvInit ==
  ASSUME PacketsOk, written = 0, taken = 0, m_curRecvLen = 0, asked = HeadLen,
         open = TRUE, parsed = <<>>
  PROVE  RecvInv
<1>1. Upto(0) = <<>> /\ Stream \in Seq(Byte)
  <2>1. Len(packets) \in 0..Len(packets)
    BY DEF PacketsOk
  <2> QED
    BY <2>1, UptoIs
<1>2. Len(parsed) = 0 /\ Len(Upto(Len(parsed))) = 0 /\ parsed \in Seq(Seq(Byte))
  BY <1>1
<1>3. Len(Stream) \in Nat /\ Len(packets) \in Nat
  BY <1>1 DEF PacketsOk
<1>4. HeadLen \in Nat /\ HeadLen >= 1
  BY PacketsAssumption
<1>5. Asks(0, 0, HeadLen)
  BY <1>4 DEF Asks
<1>6. PacketsFramed /\ \A i \in 1..Len(parsed) : Whole(i)
  BY <1>2 DEF PacketsFramed
<1> QED
  BY <1>2, <1>3, <1>5, <1>6 DEF RecvInv

\* The peer writes, or the connection breaks.
LEMMA RecvKept ==
  ASSUME RecvInv, UNCHANGED <<packets, taken, m_curRecvLen, asked, parsed>>,
         written' \in Nat, written <= written', written' <= Len(Stream),
         open' \in BOOLEAN, open' => open
  PROVE  RecvInv'
<1>1. /\ Stream' = Stream /\ PacketsOk' = PacketsOk
      /\ \A k : Upto(k)' = Upto(k)
      /\ \A n : Bytes(n)' = Bytes(n)
      /\ \A n : Whole(n)' = Whole(n)
  BY SamePackets
<1>2. PacketsFramed'
  BY <1>1 DEF RecvInv, PacketsFramed
<1>3. Upto(Len(parsed))' = Upto(Len(parsed))
  BY DEF Upto, Bytes, Size
<1>4. Asks(Len(parsed), m_curRecvLen, asked)' = Asks(Len(parsed), m_curRecvLen, asked)
  BY DEF Asks
<1>5. written \in Nat /\ taken \in Nat /\ taken <= written'
  BY DEF RecvInv
<1>6. \A i \in 1..Len(parsed) : Whole(i)'
  BY <1>1 DEF RecvInv
<1> QED
  BY <1>1, <1>2, <1>3, <1>4, <1>5, <1>6 DEF RecvInv

LEMMA ReceivesKeep ==
  ASSUME RecvInv, SocketReceives
  PROVE  RecvInv'
<1> DEFINE k == Len(parsed)
           cur == m_curRecvLen
<1>1. PICK n \in 1..asked : taken + n <= written /\ OnRecv(n)
  BY DEF SocketReceives
<1>2. open /\ packets' = packets /\ written' = written
  BY DEF SocketReceives
<1>3. /\ k \in Nat /\ k + 1 \in 1..Len(packets)
      /\ taken' = taken + n /\ cur + n <= Size(k + 1)
      /\ \/ /\ m_curRecvLen' = cur + n /\ Asks(k, cur + n, asked')
            /\ UNCHANGED <<sendVars, parsed, open>>
         \/ /\ m_curRecvLen' = cur + n /\ open' = FALSE
            /\ UNCHANGED <<sendVars, parsed>>
         \/ /\ Whole(k + 1) /\ cur + n = Size(k + 1)
            /\ m_curRecvLen' = 0 /\ asked' = HeadLen
            /\ parsed' = Append(parsed, Bytes(k + 1))
            /\ \/ packets[k + 1].kind = "echo" /\ Send(Bytes(k + 1))
               \/ /\ packets[k + 1].kind # "echo"
                  /\ UNCHANGED <<m_sending, asking, m_sendque>>
            /\ UNCHANGED <<m_curSendLen, open>>
  BY <1>1, <1>2, OnRecvIs
<1>4. /\ Stream' = Stream /\ PacketsOk'
      /\ \A j : Upto(j)' = Upto(j)
      /\ \A j : Bytes(j)' = Bytes(j)
      /\ \A j : Whole(j)' = Whole(j)
      /\ \A j, c, need : Asks(j, c, need)' = Asks(j, c, need)
  BY <1>2, SamePackets DEF RecvInv
<1>5. /\ PacketsOk /\ cur \in Nat /\ taken \in Nat /\ written \in Nat /\ written <= Len(Stream)
      /\ parsed \in Seq(Seq(Byte)) /\ k <= Len(packets) /\ Len(packets) \in Nat
      /\ taken = Len(Upto(k)) + cur
      /\ \A i \in 1..k : parsed[i] = Bytes(i) /\ Whole(i)
  BY DEF RecvInv, PacketsFramed, PacketsOk
<1>6. n \in Nat /\ taken' \in Nat /\ taken' <= written'
  BY <1>1, <1>2, <1>3, <1>5
<1>7. k \in 0..(Len(packets) - 1) /\ Len(Upto(k)) \in Nat /\ Len(Upto(k + 1)) = Len(Upto(k)) + Size(k + 1)
  <2>1. k \in 0..(Len(packets) - 1)
    BY <1>3, <1>5
  <2>2. 0 \in 0..Size(k + 1)
    BY <1>3, <1>5, PacketBytes
  <2> HIDE DEF k
  <2> QED
    BY <1>5, <2>1, <2>2, InStream
<1>8. CASE /\ parsed' = parsed /\ m_curRecvLen' = cur + n
           /\ open' = FALSE \/ (open' = open /\ Asks(k, cur + n, asked'))
  <2>1. Len(parsed') = k
    BY <1>8
  <2>2. open' \in BOOLEAN /\ (open' => Asks(k, cur + n, asked'))
    BY <1>8 DEF RecvInv
  <2>3. cur + n \in Nat /\ taken' = Len(Upto(k)) + (cur + n)
    <3> DEFINE L == Len(Upto(k))
    <3>1. L \in Nat /\ taken = L + cur
      BY <1>5, <1>7
    <3> HIDE DEF L
    <3>2. taken' = taken + n /\ cur \in Nat /\ n \in Nat
      BY <1>3, <1>5, <1>6
    <3> HIDE DEF cur
    <3>3. cur + n \in Nat /\ taken' = L + (cur + n)
      BY <3>1, <3>2
    <3> QED
      BY <3>3 DEF L, cur
  <2>4. open' => Asks(k, m_curRecvLen', asked')
    BY <1>8, <2>2
  <2>6. (open => Asks(Len(parsed), m_curRecvLen, asked))'
    BY <1>2, <1>8, <2>4 DEF Asks
  <2>7. Upto(Len(parsed))' = Upto(k)
    BY <1>2, <1>8 DEF Upto, Bytes, Size
  <2>8. PacketsFramed' /\ \A i \in 1..Len(parsed') : Whole(i)'
    BY <1>4, <1>5, <1>8 DEF PacketsFramed
  <2> HIDE DEF k, cur
  <2> QED
    BY <1>2, <1>4, <1>5, <1>6, <1>8, <2>1, <2>2, <2>3, <2>6, <2>7, <2>8 DEF RecvInv
<1>9. CASE /\ Whole(k + 1) /\ cur + n = Size(k + 1)
           /\ m_curRecvLen' = 0 /\ asked' = HeadLen
           /\ parsed' = Append(parsed, Bytes(k + 1)) /\ open' = open
  <2>0. Bytes(k + 1) \in Seq(Byte)
    BY <1>3, <1>5, PacketBytes
  <2>1. /\ parsed' \in Seq(Seq(Byte)) /\ Len(parsed') = k + 1
        /\ \A i \in 1..k : parsed'[i] = parsed[i]
        /\ parsed'[k + 1] = Bytes(k + 1)
    BY <1>5, <1>9, <2>0, Appended
  <2>2. \A i \in 1..(k + 1) : i \in 1..k \/ i = k + 1
    BY <1>3
  <2> HIDE DEF k
  <2>3. PacketsFramed' /\ \A i \in 1..Len(parsed') : Whole(i)'
    BY <1>4, <1>5, <1>9, <2>1, <2>2 DEF PacketsFramed
  <2>4. Upto(Len(parsed))' = Upto(k + 1)
    BY <1>2, <2>1 DEF Upto, Bytes, Size
  <2>5. taken' = Len(Upto(k + 1)) + 0
    <3> DEFINE L == Len(Upto(k))
    <3>1. L \in Nat /\ taken = L + cur /\ Len(Upto(k + 1)) = L + Size(k + 1)
      BY <1>5, <1>7
    <3>2. taken' = taken + n /\ cur \in Nat /\ n \in Nat /\ cur + n = Size(k + 1)
      BY <1>3, <1>5, <1>6, <1>9
    <3> HIDE DEF L, cur
    <3> QED
      BY <3>1, <3>2
  <2>6. (open => Asks(Len(parsed), m_curRecvLen, asked))'
    BY <1>9, PacketsAssumption DEF Asks
  <2>7. open' \in BOOLEAN /\ Len(parsed') <= Len(packets')
    BY <1>2, <1>3, <1>9, <2>1 DEF RecvInv
  <2> QED
    BY <1>2, <1>4, <1>5, <1>6, <1>9, <2>1, <2>3, <2>4, <2>5, <2>6, <2>7 DEF RecvInv
<1> QED
  BY <1>3, <1>8, <1>9

-----------------------------------------------------------------------------
(* The session answers *)

\* A packet that is answered.
Echoed(n) == packets[n].kind = "echo" /\ ~Corrupt(packets[n].len)

SameAnswers ==
    \A i, j \in 1..Len(packets) : Echoed(i) /\ Echoed(j) => packets[i].len = packets[j].len

Sending == [len : Nat, orgdata : Seq(Byte)]

\* One DoSend is pending while m_sending is taken, for the rest of it; all that
\* waits is of the length that m_sending keeps.
SendInv ==
    /\ m_sending \in Sending
    /\ Len(m_sending.orgdata) = BufLen /\ m_sending.len <= BufLen
    /\ m_curSendLen \in Nat /\ asking = m_sending.len - m_curSendLen
    /\ \/ m_sending.len = 0 /\ m_curSendLen = 0 /\ m_sendque = <<>>
       \/ /\ m_curSendLen < m_sending.len
          /\ \E i \in 1..Len(packets) : Echoed(i) /\ packets[i].len = m_sending.len
    /\ m_sendque \in Seq(Seq(Byte))
    /\ \A i \in 1..Len(m_sendque) : Len(m_sendque[i]) = m_sending.len
    /\ out \in Seq(Byte)
    /\ AnswersExact

LEMMA SendingFields ==
  ASSUME NEW m \in Sending
  PROVE  m.len \in Nat /\ m.orgdata \in Seq(Byte)
BY DEF Sending

LEMMA EmptyJoins ==
  ASSUME NEW a \in Seq(Byte)
  PROVE  /\ a \o <<>> = a /\ <<>> \o a = a /\ <<>> \in Seq(Byte)
         /\ \A n \in Nat : SubSeq(a, n + 1, n) = <<>>
<1>1. a \o <<>> = a /\ <<>> \o a = a /\ <<>> \in Seq(Byte)
  OBVIOUS
<1>2. ASSUME NEW n \in Nat PROVE SubSeq(a, n + 1, n) = <<>>
  OBVIOUS
<1> QED
  BY <1>1, <1>2

LEMMA AnswerOf ==
  ASSUME PacketsOk, NEW n \in 1..Len(packets)
  PROVE  /\ Answer(Bytes(n)) = IF packets[n].kind = "echo" THEN Bytes(n) ELSE <<>>
         /\ Answer(Bytes(n)) \in Seq(Byte)
<1>1. Size(n) \in Nat /\ Size(n) >= 1 /\ Bytes(n) \in Seq(Byte) /\ \A i \in 1..Size(n) : Bytes(n)[i] = <<n, i>>
  BY PacketBytes
<1>2. 1 \in 1..Size(n)
  BY <1>1
<1>3. Bytes(n)[1][1] = n
  BY <1>1, <1>2
<1>4. <<>> \in Seq(Byte)
  OBVIOUS
<1> QED
  BY <1>1, <1>3, <1>4 DEF Answer

LEMMA AnswersAppend ==
  ASSUME RecvInv
  PROVE  /\ Answers(parsed) \in Seq(Byte)
         /\ Len(parsed) + 1 \in 1..Len(packets) =>
              Answers(Append(parsed, Bytes(Len(parsed) + 1)))
                = Answers(parsed) \o Answer(Bytes(Len(parsed) + 1))
<1> DEFINE k == Len(parsed)
           s == [i \in 1..k |-> Answer(parsed[i])]
<1>1. /\ PacketsOk /\ parsed \in Seq(Seq(Byte)) /\ k \in Nat /\ k <= Len(packets)
      /\ Len(packets) \in Nat /\ \A i \in 1..k : parsed[i] = Bytes(i)
      /\ DOMAIN parsed = 1..k
  BY DEF RecvInv, PacketsFramed, PacketsOk
<1>2. \A i \in 1..k : i \in 1..Len(packets)
  BY <1>1
<1>3. \A i \in 1..k : Answer(parsed[i]) \in Seq(Byte)
  BY <1>1, <1>2, AnswerOf
<1>4. s \in Seq(Seq(Byte)) /\ Len(s) = k
  BY <1>1, <1>3
<1>5. Answers(parsed) = FlattenSeq(s)
  BY <1>1 DEF Answers
<1>6. Answers(parsed) \in Seq(Byte)
  BY <1>4, <1>5, FlattenTyped
<1>7. ASSUME k + 1 \in 1..Len(packets)
      PROVE  Answers(Append(parsed, Bytes(k + 1))) = Answers(parsed) \o Answer(Bytes(k + 1))
  <2> DEFINE b == Bytes(k + 1)
             ps == Append(parsed, b)
             t == [i \in 1..(k + 1) |-> Answer(ps[i])]
             x == Answer(b)
  <2>1. b \in Seq(Byte) /\ x \in Seq(Byte)
    BY <1>1, <1>7, PacketBytes, AnswerOf
  <2>2. ps \in Seq(Seq(Byte)) /\ Len(ps) = k + 1 /\ ps[k + 1] = b /\ \A i \in 1..k : ps[i] = parsed[i]
    BY <1>1, <2>1, Appended
  <2> HIDE DEF ps, b, x, s
  <2>3. DOMAIN ps = 1..(k + 1)
    BY <2>2
  <2>4. \A i \in 1..(k + 1) : i \in 1..k \/ i = k + 1
    BY <1>1
  <2>5. /\ \A i \in 1..k : t[i] = Answer(parsed[i]) /\ t[i] = s[i]
        /\ t[k + 1] = x
    <3>1. k + 1 \in 1..(k + 1) /\ \A i \in 1..k : i \in 1..(k + 1)
      BY <1>1
    <3> QED
      BY <2>2, <3>1 DEF s, x
  <2>6. t \in Seq(Seq(Byte)) /\ Len(t) = k + 1
    <3>1. \A i \in 1..(k + 1) : t[i] \in Seq(Byte)
      BY <1>3, <2>1, <2>4, <2>5
    <3>2. \A i \in 1..(k + 1) : Answer(ps[i]) \in Seq(Byte)
      BY <3>1
    <3>3. k + 1 \in Nat
      BY <1>1
    <3> QED
      BY <3>2, <3>3
  <2>7. Answers(ps) = FlattenSeq(t)
    BY <2>3 DEF Answers
  <2> HIDE DEF t
  <2>8. /\ Append(s, x) \in Seq(Seq(Byte)) /\ Len(Append(s, x)) = k + 1
        /\ \A i \in 1..k : Append(s, x)[i] = s[i]
        /\ Append(s, x)[k + 1] = x
    BY <1>4, <2>1, Appended
  <2>9. Append(s, x) = t
    <3> DEFINE u == Append(s, x)
    <3>1. u \in Seq(Seq(Byte)) /\ Len(u) = Len(t) /\ \A i \in 1..Len(t) : u[i] = t[i]
      BY <2>4, <2>5, <2>6, <2>8
    <3> HIDE DEF u
    <3>2. u = t
      BY <2>6, <3>1
    <3> QED
      BY <3>2 DEF u
  <2>10. FlattenSeq(t) = FlattenSeq(s) \o x
    BY <1>4, <2>1, <2>9, FlattenAppend
  <2> QED
    BY <1>5, <2>7, <2>10 DEF ps, x, b
<1> QED
  BY <1>6, <1>7

\* memcpy: the packet, and behind it what was there.
LEMMA Copied ==
  ASSUME NEW buf \in Seq(Byte), Len(buf) = BufLen, NEW p \in Seq(Byte), Len(p) <= BufLen
  PROVE  /\ CopyInto(buf, p) \in Seq(Byte) /\ Len(CopyInto(buf, p)) = BufLen
         /\ SubSeq(CopyInto(buf, p), 1, Len(p)) = p
<1> DEFINE n == Len(p)
           r == SubSeq(buf, n + 1, BufLen)
<1>1. n \in Nat /\ BufLen \in Nat /\ n <= BufLen
  BY PacketsAssumption
<1>2. r \in Seq(Byte) /\ Len(r) = BufLen - n
  <2> HIDE DEF n
  <2> QED
    BY <1>1, Piece
<1> HIDE DEF r
<1>3. /\ p \o r \in Seq(Byte) /\ Len(p \o r) = n + Len(r)
      /\ SubSeq(p \o r, 1, n) = p
  BY <1>2, Joined, FirstPiece
<1>4. Len(p \o r) = BufLen
  <2> DEFINE d == Len(p \o r)
  <2>1. d = n + (BufLen - n)
    BY <1>2, <1>3
  <2> HIDE DEF n, d
  <2>2. d = BufLen
    BY <1>1, <2>1
  <2> QED
    BY <2>2 DEF d
<1> QED
  BY <1>3, <1>4 DEF CopyInto, r

LEMMA JoinMiddle ==
  ASSUME NEW a \in Seq(Byte), NEW b \in Seq(Byte), NEW c \in Seq(Byte), NEW d \in Seq(Byte)
  PROVE  ((a \o b) \o c) \o d = (a \o (b \o c)) \o d
<1>1. (a \o b) \o c = a \o (b \o c)
  BY Associates
<1> QED
  BY <1>1

\* The bytes of m_sending that are still to be sent.
Unsent == SubSeq(m_sending.orgdata, m_curSendLen + 1, m_sending.len)

LEMMA UnsentTyped ==
  ASSUME SendInv
  PROVE  /\ Unsent \in Seq(Byte) /\ FlattenSeq(m_sendque) \in Seq(Byte) /\ out \in Seq(Byte)
         /\ (out \o Unsent) \o FlattenSeq(m_sendque) = Answers(parsed)
<1>1. /\ m_sending.len \in Nat /\ m_sending.orgdata \in Seq(Byte)
      /\ Len(m_sending.orgdata) = BufLen /\ m_sending.len <= BufLen
      /\ m_curSendLen \in Nat /\ m_curSendLen <= m_sending.len
  BY SendingFields DEF SendInv
<1>2. Unsent \in Seq(Byte)
  BY <1>1, Piece DEF Unsent
<1>3. FlattenSeq(m_sendque) \in Seq(Byte)
  BY FlattenTyped DEF SendInv
<1> QED
  BY <1>2, <1>3 DEF SendInv, AnswersExact, Unsent

LEMMA SendsKeep ==
  ASSUME SendInv, PacketsOk, SameAnswers, SocketSends
  PROVE  SendInv'
<1> DEFINE len == m_sending.len
           org == m_sending.orgdata
           cur == m_curSendLen
           Q == FlattenSeq(m_sendque)
<1>1. PICK n \in 1..asking : OnSend(n)
  BY DEF SocketSends
<1>2. packets' = packets /\ parsed' = parsed
  BY DEF SocketSends, recvVars
<1>3. Answers(parsed)' = Answers(parsed)
  BY <1>2 DEF Answers, Answer
<1>4. /\ len \in Nat /\ org \in Seq(Byte) /\ Len(org) = BufLen /\ len <= BufLen
      /\ cur \in Nat /\ asking = len - cur /\ m_sending = [len |-> len, orgdata |-> org]
      /\ m_sendque \in Seq(Seq(Byte)) /\ \A i \in 1..Len(m_sendque) : Len(m_sendque[i]) = len
  BY SendingFields DEF SendInv, Sending
<1>5. n \in Nat /\ n >= 1 /\ cur + n \in Nat /\ cur + n <= len /\ len # 0 /\ cur < len
  <2> HIDE DEF len, cur
  <2> QED
    BY <1>4
<1>6. \E i \in 1..Len(packets) : Echoed(i) /\ packets[i].len = len
  BY <1>5 DEF SendInv
<1>7. Unsent \in Seq(Byte) /\ Q \in Seq(Byte) /\ out \in Seq(Byte) /\ (out \o Unsent) \o Q = Answers(parsed)
  BY UnsentTyped
<1> DEFINE sent == cur + n
           p1 == SubSeq(org, cur + 1, sent)
           p2 == SubSeq(org, sent + 1, len)
<1>8. p1 \in Seq(Byte) /\ p2 \in Seq(Byte) /\ p1 \o p2 = Unsent
  <2>1. cur <= sent /\ sent <= len /\ sent \in Nat /\ sent <= Len(org) /\ len <= Len(org)
    <3> HIDE DEF len, cur, org
    <3> QED
      BY <1>4, <1>5
  <2> HIDE DEF sent, cur, len, org
  <2>2. p1 \in Seq(Byte) /\ p2 \in Seq(Byte)
    BY <1>4, <2>1, Piece
  <2>3. p1 \o p2 = SubSeq(org, cur + 1, len)
    BY <1>4, <2>1, PiecesJoin
  <2> QED
    BY <2>2, <2>3 DEF Unsent, cur, len, org
<1>9. /\ out' = out \o p1
      /\ m_curSendLen' = IF sent = len THEN 0 ELSE sent
      /\ \/ /\ sent < len
            /\ asking' = len - sent
            /\ UNCHANGED <<m_sending, m_sendque>>
         \/ /\ sent = len /\ m_sendque = <<>>
            /\ m_sending' = [m_sending EXCEPT !.len = 0]
            /\ asking' = 0
            /\ UNCHANGED m_sendque
         \/ /\ sent = len /\ m_sendque /= <<>>
            /\ m_sending' = [m_sending EXCEPT !.orgdata = CopyInto(@, Head(m_sendque))]
            /\ asking' = len
            /\ m_sendque' = Tail(m_sendque)
  BY <1>1 DEF OnSend
<1>10. out' \in Seq(Byte)
  BY <1>7, <1>8, <1>9, Joined
<1>11. (\E i \in 1..Len(packets) : Echoed(i) /\ packets[i].len = len)'
          <=> \E i \in 1..Len(packets) : Echoed(i) /\ packets[i].len = len'
  BY <1>2 DEF Echoed
<1> HIDE DEF p1, p2, sent, Q
<1>12. CASE sent < len /\ asking' = len - sent /\ UNCHANGED <<m_sending, m_sendque>>
  <2>1. m_curSendLen' = sent /\ sent \in Nat /\ m_sending' = m_sending /\ m_sendque' = m_sendque
    BY <1>5, <1>9, <1>12 DEF sent
  <2>2. AnswersExact'
    <3>1. ((out \o p1) \o p2) \o Q = (out \o (p1 \o p2)) \o Q
      <4>1. out \in Seq(Byte) /\ p1 \in Seq(Byte) /\ p2 \in Seq(Byte) /\ Q \in Seq(Byte)
        BY <1>7, <1>8
      <4> QED
        BY <4>1, JoinMiddle
    <3>2. Unsent' = p2 /\ FlattenSeq(m_sendque)' = Q
      BY <2>1 DEF Unsent, p2, Q
    <3>3. (out' \o Unsent') \o FlattenSeq(m_sendque)' = Answers(parsed)'
      BY <1>3, <1>7, <1>8, <1>9, <3>1, <3>2
    <3> QED
      BY <3>3 DEF AnswersExact, Unsent
  <2> QED
    BY <1>2, <1>4, <1>6, <1>10, <1>11, <1>12, <2>1, <2>2 DEF SendInv, Echoed
<1>13. CASE /\ sent = len /\ m_sendque = <<>> /\ m_sending' = [m_sending EXCEPT !.len = 0]
            /\ asking' = 0 /\ UNCHANGED m_sendque
  <2>1. m_curSendLen' = 0 /\ m_sendque' = <<>>
    BY <1>9, <1>13
  <2>2. m_sending' = [len |-> 0, orgdata |-> org]
    <3> HIDE DEF org, len
    <3> QED
      BY <1>4, <1>13
  <2>3. /\ m_sending' \in Sending /\ m_sending'.len = 0 /\ Len(m_sending'.orgdata) = BufLen
        /\ m_sending'.orgdata = org /\ 0 <= BufLen
    BY <1>4, <2>2, PacketsAssumption DEF Sending
  <2>4. AnswersExact'
    <3>1. p2 = <<>> /\ Q = <<>>
      <4>1. Q = <<>>
        BY <1>13, FlattenEmpty DEF Q
      <4>2. SubSeq(org, len + 1, len) = <<>>
        BY <1>4, EmptyJoins
      <4> QED
        BY <1>13, <4>1, <4>2 DEF p2
    <3>2. p1 = Unsent
      BY <1>8, <3>1, EmptyJoins
    <3>3. Unsent' = <<>> /\ FlattenSeq(m_sendque)' = <<>>
      <4>1. SubSeq(org, 0 + 1, 0) = <<>>
        BY <1>4, EmptyJoins
      <4>2. FlattenSeq(m_sendque)' = <<>>
        BY <2>1, FlattenEmpty
      <4> QED
        BY <2>1, <2>3, <4>1, <4>2 DEF Unsent
    <3>4. (out \o Unsent) \o <<>> = out \o Unsent /\ out \o Unsent \in Seq(Byte)
      <4>1. out \o Unsent \in Seq(Byte)
        BY <1>7, Joined
      <4> HIDE DEF Q
      <4> QED
        BY <4>1, EmptyJoins
    <3>5. (out' \o Unsent') \o FlattenSeq(m_sendque)' = Answers(parsed)'
      <4>1. out' = out \o Unsent
        BY <1>9, <3>2
      <4>2. (out' \o <<>>) \o <<>> = out'
        BY <1>10, EmptyJoins
      <4> QED
        BY <1>3, <1>7, <3>1, <3>3, <3>4, <4>1, <4>2
    <3> QED
      BY <3>5 DEF AnswersExact, Unsent
  <2>5. \A i \in 1..Len(m_sendque') : Len(m_sendque'[i]) = m_sending'.len
    BY <2>1
  <2> QED
    BY <1>4, <1>10, <1>13, <2>1, <2>3, <2>4, <2>5 DEF SendInv
<1>14. CASE /\ sent = len /\ m_sendque # <<>>
            /\ m_sending' = [m_sending EXCEPT !.orgdata = CopyInto(@, Head(m_sendque))]
            /\ asking' = len /\ m_sendque' = Tail(m_sendque)
  <2> DEFINE h == Head(m_sendque)
             o == CopyInto(org, h)
             R == FlattenSeq(Tail(m_sendque))
  <2>1. m_curSendLen' = 0
    BY <1>9, <1>14
  <2>2. /\ h \in Seq(Byte) /\ h = m_sendque[1] /\ Tail(m_sendque) \in Seq(Seq(Byte))
        /\ Len(Tail(m_sendque)) = Len(m_sendque) - 1
        /\ Len(m_sendque) \in Nat /\ Len(m_sendque) >= 1
        /\ \A i \in 1..(Len(m_sendque) - 1) : Tail(m_sendque)[i] = m_sendque[i + 1]
    BY <1>4, <1>14, TailOf
  <2>3. Len(h) = len
    <3>1. 1 \in 1..Len(m_sendque)
      BY <2>2
    <3> HIDE DEF h, len
    <3> QED
      BY <1>4, <2>2, <3>1
  <2>4. o \in Seq(Byte) /\ Len(o) = BufLen /\ SubSeq(o, 1, len) = h
    <3>1. Len(h) <= BufLen
      BY <1>4, <2>3
    <3> HIDE DEF h, org
    <3> QED
      BY <1>4, <2>2, <2>3, <3>1, Copied
  <2>5. m_sending' = [len |-> len, orgdata |-> o]
    <3> HIDE DEF org, len, h
    <3> QED
      BY <1>4, <1>14 DEF org, h
  <2>6. Q = h \o R /\ R \in Seq(Byte)
    BY <1>4, <1>14, <2>2, FlattenHead, FlattenTyped DEF Q
  <2> HIDE DEF o, h
  <2>7. m_sending' \in Sending /\ m_sending'.len = len /\ m_sending'.orgdata = o
    BY <1>4, <2>4, <2>5 DEF Sending
  <2>8. AnswersExact'
    <3>1. p2 = <<>>
      <4>1. SubSeq(org, len + 1, len) = <<>>
        BY <1>4, EmptyJoins
      <4> QED
        BY <1>14, <4>1 DEF p2
    <3>2. p1 = Unsent
      BY <1>8, <3>1, EmptyJoins
    <3>3. Unsent' = h /\ FlattenSeq(m_sendque)' = R
      BY <1>14, <2>1, <2>4, <2>7 DEF Unsent
    <3> HIDE DEF R
    <3>4. ((out \o Unsent) \o h) \o R = (out \o Unsent) \o (h \o R)
      <4>1. out \in Seq(Byte) /\ Unsent \in Seq(Byte) /\ h \in Seq(Byte) /\ R \in Seq(Byte)
        BY <1>7, <2>2, <2>6 DEF h
      <4> DEFINE w == out \o Unsent
      <4>2. w \in Seq(Byte)
        BY <4>1, Joined
      <4> HIDE DEF w
      <4>3. (w \o h) \o R = w \o (h \o R)
        BY <4>1, <4>2, Associates
      <4> QED
        BY <4>3 DEF w
    <3>5. (out' \o Unsent') \o FlattenSeq(m_sendque)' = Answers(parsed)'
      BY <1>3, <1>7, <1>9, <2>6, <3>2, <3>3, <3>4
    <3> QED
      BY <3>5 DEF AnswersExact, Unsent
  <2>9. \A i \in 1..Len(m_sendque') : Len(m_sendque'[i]) = m_sending'.len
    <3> SUFFICES ASSUME NEW i \in 1..Len(m_sendque') PROVE Len(m_sendque'[i]) = len
      BY <2>7
    <3>1. i \in 1..(Len(m_sendque) - 1) /\ i + 1 \in 1..Len(m_sendque)
      BY <1>14, <2>2
    <3> HIDE DEF len
    <3> QED
      BY <1>4, <1>14, <2>2, <3>1
  <2>10. asking' = len - 0 /\ 0 < len
    <3> HIDE DEF len
    <3> QED
      BY <1>4, <1>5, <1>14
  <2>11. (\E i \in 1..Len(packets) : Echoed(i) /\ packets[i].len = m_sending.len)'
    BY <1>2, <1>6, <2>7 DEF Echoed
  <2> QED
    BY <1>4, <1>10, <1>14, <2>1, <2>2, <2>4, <2>7, <2>8, <2>9, <2>10, <2>11 DEF SendInv
<1> QED
  BY <1>9, <1>12, <1>13, <1>14

\* Steps that leave sending alone.
LEMMA SendKept ==
  ASSUME SendInv, UNCHANGED <<packets, sendVars, out>>, Answers(parsed)' = Answers(parsed)
  PROVE  SendInv'
<1>1. /\ m_sending' = m_sending /\ m_curSendLen' = m_curSendLen /\ asking' = asking
      /\ m_sendque' = m_sendque
  BY DEF sendVars
<1>2. AnswersExact'
  BY <1>1 DEF SendInv, AnswersExact
<1> QED
  BY <1>1, <1>2 DEF SendInv, Echoed

LEMMA SendKeeps ==
  ASSUME RecvInv, SendInv, SameAnswers, NEW k \in 1..Len(packets), Echoed(k), Whole(k),
         Send(Bytes(k)), packets' = packets, out' = out, m_curSendLen' = m_curSendLen,
         Answers(parsed)' = Answers(parsed) \o Bytes(k)
  PROVE  SendInv'
<1> DEFINE len == m_sending.len
           org == m_sending.orgdata
           cur == m_curSendLen
           Q == FlattenSeq(m_sendque)
           b == Bytes(k)
<1>1. /\ len \in Nat /\ org \in Seq(Byte) /\ Len(org) = BufLen /\ len <= BufLen
      /\ cur \in Nat /\ asking = len - cur /\ m_sending = [len |-> len, orgdata |-> org]
      /\ m_sendque \in Seq(Seq(Byte)) /\ \A i \in 1..Len(m_sendque) : Len(m_sendque[i]) = len
  BY SendingFields DEF SendInv, Sending
<1>2. Unsent \in Seq(Byte) /\ Q \in Seq(Byte) /\ out \in Seq(Byte) /\ (out \o Unsent) \o Q = Answers(parsed)
  BY UnsentTyped
<1>3. /\ b \in Seq(Byte) /\ Len(b) = packets[k].len /\ packets[k].len \in Nat
      /\ Len(b) <= BufLen /\ Len(b) > 0
  <2>1. /\ packets[k].len \in Nat /\ b \in Seq(Byte) /\ Len(b) = Size(k)
        /\ ~Corrupt(packets[k].len) /\ packets[k].len >= HeadLen => Size(k) = packets[k].len
    BY PacketBytes DEF RecvInv
  <2>2. HeadLen \in Nat /\ HeadLen >= 1 /\ BufLen \in Nat
    BY PacketsAssumption
  <2>3. ~Corrupt(packets[k].len) /\ packets[k].len > HeadLen
    BY DEF Whole
  <2> HIDE DEF b
  <2>4. packets[k].len <= BufLen
    BY <2>1, <2>2, <2>3 DEF Corrupt
  <2>5. packets[k].len >= HeadLen /\ packets[k].len > 0
    BY <2>1, <2>2, <2>3
  <2> QED
    BY <2>1, <2>3, <2>4, <2>5
<1>4. CASE len # 0
  <2>1. m_sendque' = Append(m_sendque, b) /\ m_sending' = m_sending /\ asking' = asking
    BY <1>4 DEF Send
  <2>2. PICK j \in 1..Len(packets) : Echoed(j) /\ packets[j].len = len
    BY <1>4 DEF SendInv
  <2>3. Len(b) = len
    BY <1>3, <2>2 DEF SameAnswers
  <2> HIDE DEF b
  <2>4. /\ m_sendque' \in Seq(Seq(Byte)) /\ Len(m_sendque') = Len(m_sendque) + 1
        /\ Len(m_sendque) \in Nat
        /\ \A i \in 1..Len(m_sendque) : m_sendque'[i] = m_sendque[i]
        /\ m_sendque'[Len(m_sendque) + 1] = b
    BY <1>1, <1>3, <2>1, Appended
  <2>5. \A i \in 1..Len(m_sendque') : Len(m_sendque'[i]) = m_sending'.len
    <3>1. \A i \in 1..Len(m_sendque') : i \in 1..Len(m_sendque) \/ i = Len(m_sendque) + 1
      BY <2>4
    <3> HIDE DEF len
    <3> QED
      BY <1>1, <2>1, <2>3, <2>4, <3>1 DEF len
  <2>6. FlattenSeq(m_sendque)' = Q \o b
    BY <1>1, <1>3, <2>1, FlattenAppend
  <2>7. Unsent' = Unsent
    BY <2>1 DEF Unsent
  <2>8. AnswersExact'
    <3> DEFINE w == out \o Unsent
    <3>1. w \in Seq(Byte)
      BY <1>2, Joined
    <3> HIDE DEF w, Q
    <3>2. (w \o Q) \o b = w \o (Q \o b)
      BY <1>2, <1>3, <3>1, Associates
    <3>3. (out' \o Unsent') \o FlattenSeq(m_sendque)' = Answers(parsed)'
      BY <1>2, <2>6, <2>7, <3>2 DEF w, b
    <3> QED
      BY <3>3 DEF AnswersExact, Unsent
  <2>9. (\E i \in 1..Len(packets) : Echoed(i) /\ packets[i].len = m_sending.len)'
    BY <2>1, <2>2 DEF Echoed
  <2>10. cur < len
    BY <1>4 DEF SendInv
  <2> QED
    BY <1>1, <1>2, <2>1, <2>4, <2>5, <2>8, <2>9, <2>10 DEF SendInv
<1>5. CASE len = 0
  <2> DEFINE o == CopyInto(org, b)
  <2>1. m_sending' = [len |-> Len(b), orgdata |-> o] /\ asking' = Len(b) /\ m_sendque' = m_sendque
    BY <1>5 DEF Send
  <2>2. m_curSendLen' = 0 /\ m_sendque = <<>>
    BY <1>5 DEF SendInv
  <2>3. o \in Seq(Byte) /\ Len(o) = BufLen /\ SubSeq(o, 1, Len(b)) = b
    <3> HIDE DEF org, b
    <3> QED
      BY <1>1, <1>3, Copied
  <2> HIDE DEF o
  <2>4. m_sending' \in Sending /\ m_sending'.len = Len(b) /\ m_sending'.orgdata = o
    BY <1>3, <2>1, <2>3 DEF Sending
  <2> HIDE DEF b
  <2>5. Unsent' = b /\ FlattenSeq(m_sendque)' = <<>>
    BY <2>1, <2>2, <2>3, <2>4, FlattenEmpty DEF Unsent
  <2>6. Unsent = <<>> /\ Q = <<>>
    <3>1. Q = <<>>
      BY <2>2, FlattenEmpty
    <3>2. SubSeq(org, 0 + 1, 0) = <<>>
      BY <1>1, EmptyJoins
    <3>3. m_curSendLen = 0
      BY <2>2
    <3> QED
      BY <1>5, <3>1, <3>2, <3>3 DEF Unsent
  <2>7. AnswersExact'
    <3>1. out = Answers(parsed)
      <4>1. (out \o <<>>) \o <<>> = out
        BY <1>2, EmptyJoins
      <4> HIDE DEF Q
      <4> QED
        BY <1>2, <2>6, <4>1
    <3>2. out \o b \in Seq(Byte)
      BY <1>2, <1>3, Joined
    <3>3. (out \o b) \o <<>> = out \o b
      BY <3>2, EmptyJoins
    <3>4. (out' \o Unsent') \o FlattenSeq(m_sendque)' = Answers(parsed)'
      BY <2>5, <3>1, <3>3 DEF b
    <3> QED
      BY <3>4 DEF AnswersExact, Unsent
  <2>8. \A i \in 1..Len(m_sendque') : Len(m_sendque'[i]) = m_sending'.len
    BY <2>1, <2>2
  <2>9. (\E i \in 1..Len(packets) : Echoed(i) /\ packets[i].len = m_sending.len)'
    BY <1>3, <2>4 DEF Echoed
  <2>10. asking' = Len(b) - 0 /\ 0 < Len(b)
    BY <1>3, <2>1
  <2>11. m_sendque' \in Seq(Seq(Byte)) /\ out' \in Seq(Byte)
    BY <1>1, <1>2, <2>1
  <2> HIDE DEF org, len, cur, Q
  <2> QED
    BY <1>3, <2>2, <2>3, <2>4, <2>7, <2>8, <2>9, <2>10, <2>11 DEF SendInv
<1> QED
  BY <1>4, <1>5

LEMMA AnswersKeep ==
  ASSUME RecvInv, SendInv, SameAnswers, SocketReceives
  PROVE  SendInv'
<1> DEFINE k == Len(parsed)
           cur == m_curRecvLen
           b == Bytes(k + 1)
<1>1. PICK n \in 1..asked : taken + n <= written /\ OnRecv(n)
  BY DEF SocketReceives
<1>2. open /\ packets' = packets /\ out' = out
  BY DEF SocketReceives
<1>3. /\ k \in Nat /\ k + 1 \in 1..Len(packets)
      /\ \/ UNCHANGED <<sendVars, parsed>>
         \/ /\ Whole(k + 1)
            /\ parsed' = Append(parsed, b)
            /\ \/ packets[k + 1].kind = "echo" /\ Send(b)
               \/ /\ packets[k + 1].kind # "echo"
                  /\ UNCHANGED <<m_sending, asking, m_sendque>>
            /\ m_curSendLen' = m_curSendLen
  <2>1. LET kk == Len(parsed)
            c == m_curRecvLen IN
         /\ kk \in Nat /\ kk + 1 \in 1..Len(packets)
         /\ taken' = taken + n /\ c + n <= Size(kk + 1)
         /\ \/ /\ m_curRecvLen' = c + n /\ Asks(kk, c + n, asked')
               /\ UNCHANGED <<sendVars, parsed, open>>
            \/ /\ m_curRecvLen' = c + n /\ open' = FALSE
               /\ UNCHANGED <<sendVars, parsed>>
            \/ /\ Whole(kk + 1) /\ c + n = Size(kk + 1)
               /\ m_curRecvLen' = 0 /\ asked' = HeadLen
               /\ parsed' = Append(parsed, Bytes(kk + 1))
               /\ \/ packets[kk + 1].kind = "echo" /\ Send(Bytes(kk + 1))
                  \/ /\ packets[kk + 1].kind # "echo"
                     /\ UNCHANGED <<m_sending, asking, m_sendque>>
               /\ UNCHANGED <<m_curSendLen, open>>
    BY <1>1, <1>2, OnRecvIs
  <2> QED
    BY <2>1
<1>5. CASE UNCHANGED <<sendVars, parsed>>
  <2>1. Answers(parsed)' = Answers(parsed)
    BY <1>2, <1>5 DEF Answers, Answer
  <2> QED
    BY <1>2, <1>5, <2>1, SendKept
<1>6. ASSUME parsed' = Append(parsed, b)
      PROVE  Answers(parsed)' = Answers(parsed) \o Answer(b) /\ Answers(parsed) \in Seq(Byte)
  <2>1. Answers(Append(parsed, b)) = Answers(parsed) \o Answer(b) /\ Answers(parsed) \in Seq(Byte)
    BY <1>3, AnswersAppend
  <2>2. Answers(parsed)' = Answers(Append(parsed, b))
    BY <1>2, <1>6 DEF Answers, Answer
  <2> QED
    BY <2>1, <2>2
<1>7. Answer(b) = IF packets[k + 1].kind = "echo" THEN b ELSE <<>>
  BY <1>3, AnswerOf DEF RecvInv
<1>8. CASE /\ Whole(k + 1) /\ parsed' = Append(parsed, b)
           /\ packets[k + 1].kind = "echo" /\ Send(b) /\ m_curSendLen' = m_curSendLen
  <2>1. Echoed(k + 1)
    BY <1>8 DEF Echoed, Whole
  <2>2. Answers(parsed)' = Answers(parsed) \o b
    BY <1>6, <1>7, <1>8
  <2> HIDE DEF k
  <2> QED
    BY <1>2, <1>3, <1>8, <2>1, <2>2, SendKeeps
<1>9. CASE /\ parsed' = Append(parsed, b)
           /\ packets[k + 1].kind # "echo"
           /\ UNCHANGED <<m_sending, asking, m_sendque>> /\ m_curSendLen' = m_curSendLen
  <2>1. Answers(parsed)' = Answers(parsed) \o <<>> /\ Answers(parsed) \in Seq(Byte)
    BY <1>6, <1>7, <1>9
  <2>2. Answers(parsed)' = Answers(parsed)
    BY <2>1, EmptyJoins
  <2>3. UNCHANGED <<packets, sendVars, out>>
    BY <1>2, <1>9 DEF sendVars
  <2> QED
    BY <2>2, <2>3, SendKept
<1> QED
  BY <1>3, <1>5, <1>8, <1>9

-----------------------------------------------------------------------------
(* The client *)

Links == {"none", "connecting", "stuck", "refused", "up", "closed"}

ClientRec ==
    [link : Links, m_establish : BOOLEAN, m_curRecvLen : Nat, asked : Nat,
     m_sending : Nat, m_curSendLen : Nat, asking : Nat, m_sendque : Seq(Nat),
     made : Nat, handed : Nat, read : Nat]

\* What client c has written, w bytes in all, are the packets it made, without those
\* that wait and the rest of m_sending; one DoSend or its OnSend is pending for it.
Writing(c, w) ==
    /\ c.made <= MaxPackets
    /\ \/ /\ c.m_sending = 0 /\ c.m_sendque = <<>>
          /\ c.m_curSendLen = 0 /\ c.handed = 0 /\ c.asking = 0
          /\ w = c.made * PacketLen
       \/ /\ c.m_sending > 0 /\ c.m_sending <= c.made
          /\ Len(c.m_sendque) = c.made - c.m_sending
          /\ \A i \in 1..Len(c.m_sendque) : c.m_sendque[i] = c.m_sending + i
          /\ c.m_curSendLen < PacketLen /\ c.m_curSendLen + c.handed <= PacketLen
          /\ \/ c.handed = 0 /\ c.asking = PacketLen - c.m_curSendLen
             \/ c.handed > 0 /\ c.asking = 0
          /\ w = (c.m_sending - 1) * PacketLen + c.m_curSendLen + c.handed

\* The client's packets are those of Stream.
AllAlike == packets = [n \in 1..MaxPackets |-> [len |-> PacketLen, kind |-> "echo"]]

\* What client c has read are the echoes and the m_curRecvLen bytes in hand.
Reading(c, es) ==
    /\ es \in Seq(Seq(Byte)) /\ Len(es) <= MaxPackets
    /\ \A i \in 1..Len(es) : es[i] = Bytes(i)
    /\ c.read = Len(Upto(Len(es))) + c.m_curRecvLen /\ c.read <= Len(out)
    /\ c.link = "up" => Asks(Len(es), c.m_curRecvLen, c.asked)

\* Of timers and packets without an echo there is one at most.
OneAtATime(c, t, e) ==
    /\ t \in Nat /\ t + c.made <= e + 1
    /\ c.link \notin {"up", "closed"} => t = 0 /\ c.made = 0 /\ e = 0 /\ ~c.m_establish

ClientInv ==
    /\ peer \in {"client", "any"}
    /\ client \in ClientRec
    /\ peer = "any" => client = NewClient /\ timers = 0 /\ echoes = <<>>
    /\ peer = "client" =>
        /\ AllAlike
        /\ Writing(client, written)
        /\ Reading(client, echoes)
        /\ OneAtATime(client, timers, Len(echoes))

PairInv ==
    /\ RecvInv
    /\ ClientInv
    /\ SameAnswers => SendInv
    /\ peer = "any" => packets \in Streams

LEMMA ClientConstants ==
  PacketLen \in Nat /\ PacketLen > HeadLen /\ PacketLen >= 1 /\ HeadLen \in Nat /\ MaxPackets \in Nat
BY ClientAssumption, PacketsAssumption

LEMMA AlikeFacts ==
  ASSUME AllAlike
  PROVE  /\ PacketsOk /\ SameAnswers /\ Len(packets) = MaxPackets
         /\ \A n \in 1..MaxPackets : packets[n].kind = "echo" /\ Size(n) = PacketLen
<1> DEFINE p == [len |-> PacketLen, kind |-> "echo"]
           R == [len : Nat, kind : Kinds]
<1>1. p \in R /\ p.len = PacketLen /\ p.kind = "echo" /\ p.len > HeadLen /\ p.len \in Nat
      /\ HeadLen \in Nat
  BY ClientConstants DEF Kinds
<1>2. packets = [n \in 1..MaxPackets |-> p] /\ MaxPackets \in Nat
  BY ClientConstants DEF AllAlike
<1> HIDE DEF p, R
<1>3. packets \in Seq(R) /\ Len(packets) = MaxPackets /\ \A n \in 1..MaxPackets : packets[n] = p
  BY <1>1, <1>2
<1>4. \A n \in 1..MaxPackets : ~(packets[n].len <= HeadLen)
  BY <1>1, <1>3
<1>5. PacketsOk
  BY <1>3, <1>4 DEF PacketsOk, R
<1>6. SameAnswers
  BY <1>3 DEF SameAnswers
<1>7. \A n \in 1..MaxPackets : Size(n) = PacketLen
  <2>1. ~Corrupt(p.len) /\ ~(p.len < HeadLen)
    BY <1>1, ClientAssumption
  <2> QED
    BY <1>1, <1>3, <2>1 DEF Size
<1> QED
  BY <1>1, <1>3, <1>5, <1>6, <1>7

LEMMA NextMultiple ==
  ASSUME NEW n \in Nat
  PROVE  n * PacketLen \in Nat /\ (n + 1) * PacketLen = n * PacketLen + PacketLen
<1>1. PacketLen \in Nat
  BY ClientConstants
<1> QED
  BY <1>1

LEMMA MultiplesGrow ==
  ASSUME NEW m \in Nat, NEW n \in Nat, m < n
  PROVE  m * PacketLen + PacketLen <= n * PacketLen
<1>1. PacketLen \in Nat
  BY ClientConstants
<1>2. (m + 1) * PacketLen <= n * PacketLen
  BY <1>1
<1> QED
  BY <1>2, NextMultiple

LEMMA AlikeLength ==
  ASSUME AllAlike
  PROVE  \A k \in 0..MaxPackets : Len(Upto(k)) = k * PacketLen
<1> DEFINE T == {n \in Nat : n <= MaxPackets => Len(Upto(n)) = n * PacketLen}
<1>1. /\ PacketsOk /\ Len(packets) = MaxPackets /\ MaxPackets \in Nat /\ PacketLen \in Nat
      /\ \A n \in 1..MaxPackets : Size(n) = PacketLen
  BY AlikeFacts, ClientConstants
<1>2. 0 \in T
  <2>1. Len(Upto(0)) = 0
    BY <1>1, UptoIs
  <2>2. 0 * PacketLen = 0
    BY <1>1
  <2> QED
    BY <2>1, <2>2
<1>3. ASSUME NEW n \in Nat, n \in T PROVE n + 1 \in T
  <2>1. ASSUME n + 1 <= MaxPackets PROVE Len(Upto(n + 1)) = (n + 1) * PacketLen
    <3>1. n \in 0..(Len(packets) - 1) /\ n + 1 \in 1..MaxPackets /\ n <= MaxPackets
      BY <1>1, <2>1
    <3>2. Size(n + 1) = PacketLen /\ 0 \in 0..Size(n + 1)
      BY <1>1, <3>1
    <3>3. Len(Upto(n + 1)) = Len(Upto(n)) + Size(n + 1)
      BY <1>1, <3>1, <3>2, InStream
    <3>4. Len(Upto(n)) = n * PacketLen
      BY <1>3, <3>1
    <3> QED
      BY <3>2, <3>3, <3>4, NextMultiple
  <2>2. n + 1 \in Nat
    OBVIOUS
  <2> QED
    BY <2>1, <2>2
<1>4. \A n \in Nat : n \in T
  <2> HIDE DEF T
  <2> QED
    BY <1>2, <1>3, InductiveSet
<1>5. \A k \in 0..MaxPackets : k \in Nat /\ k <= MaxPackets
  BY <1>1
<1> QED
  BY <1>4, <1>5

\* What the session has sent is the beginning of the stream.
LEMMA OutInStream ==
  ASSUME RecvInv, SendInv, AllAlike
  PROVE  /\ Extends(Stream, out) /\ out \in Seq(Byte) /\ Stream \in Seq(Byte)
         /\ Len(out) <= Len(Upto(Len(parsed)))
<1> DEFINE k == Len(parsed)
           s == [i \in 1..k |-> Answer(parsed[i])]
           u == Upto(k)
<1>1. /\ PacketsOk /\ k \in Nat /\ k <= Len(packets) /\ Len(packets) \in Nat
      /\ \A i \in 1..k : parsed[i] = Bytes(i)
      /\ DOMAIN parsed = 1..k /\ k \in 0..Len(packets) /\ Len(packets) \in 0..Len(packets)
  BY DEF RecvInv, PacketsFramed, PacketsOk
<1>2. \A i \in 1..k : Answer(parsed[i]) = Bytes(i)
  <2>1. \A i \in 1..k : i \in 1..Len(packets) /\ packets[i].kind = "echo"
    BY <1>1, AlikeFacts
  <2> QED
    BY <1>1, <2>1, AnswerOf
<1>3. Answers(parsed) = u
  BY <1>1, <1>2 DEF Answers, Upto
<1>4. u \in Seq(Byte) /\ Stream \in Seq(Byte) /\ Extends(Stream, u)
  BY <1>1, UptoIs, UptoIsPrefix
<1>5. Unsent \in Seq(Byte) /\ FlattenSeq(m_sendque) \in Seq(Byte) /\ out \in Seq(Byte)
      /\ (out \o Unsent) \o FlattenSeq(m_sendque) = u
  BY <1>3, UnsentTyped
<1> DEFINE r == Unsent \o FlattenSeq(m_sendque)
<1>6. r \in Seq(Byte) /\ u = out \o r
  BY <1>5, Joined, Associates
<1> HIDE DEF r, u, k
<1>7. Extends(Stream, out)
  BY <1>4, <1>5, <1>6, ExtendsJoined
<1>8. Len(u) = Len(out) + Len(r) /\ Len(out) \in Nat /\ Len(r) \in Nat
  BY <1>5, <1>6, Joined
<1>9. Len(out) <= Len(u)
  BY <1>8
<1> QED
  BY <1>4, <1>5, <1>7, <1>9 DEF u, k

LEMMA SamePiece ==
  ASSUME NEW a \in Seq(Byte), NEW b \in Seq(Byte), Extends(b, a),
         NEW m \in Nat, NEW n \in Nat, m <= n, n <= Len(a)
  PROVE  SubSeq(a, m + 1, n) = SubSeq(b, m + 1, n)
<1>1. Len(a) <= Len(b) /\ (\A i \in 1..Len(a) : b[i] = a[i]) /\ Len(a) \in Nat /\ Len(b) \in Nat
  BY DEF Extends
<1>2. n <= Len(b)
  BY <1>1
<1> DEFINE x == SubSeq(a, m + 1, n)
           y == SubSeq(b, m + 1, n)
<1>3. x \in Seq(Byte) /\ Len(x) = n - m /\ \A i \in 1..(n - m) : x[i] = a[m + i]
  BY Piece
<1>4. y \in Seq(Byte) /\ Len(y) = n - m /\ \A i \in 1..(n - m) : y[i] = b[m + i]
  BY <1>2, Piece
<1> HIDE DEF x, y
<1>5. \A i \in 1..(n - m) : m + i \in 1..Len(a)
  BY <1>1
<1>6. \A i \in 1..(n - m) : x[i] = y[i]
  BY <1>1, <1>3, <1>4, <1>5
<1>7. x = y
  BY <1>3, <1>4, <1>6, SameBytes
<1> QED
  BY <1>7 DEF x, y

LEMMA ClientFields ==
  ASSUME NEW c \in ClientRec
  PROVE  /\ c.link \in Links /\ c.m_establish \in BOOLEAN /\ c.m_curRecvLen \in Nat
         /\ c.asked \in Nat /\ c.m_sending \in Nat /\ c.m_curSendLen \in Nat
         /\ c.asking \in Nat /\ c.m_sendque \in Seq(Nat) /\ c.made \in Nat
         /\ c.handed \in Nat /\ c.read \in Nat
BY DEF ClientRec

\* SendOnce makes one packet more, at most, and changes nothing but sending.
LEMMA SendOnceKeeps ==
  ASSUME NEW c \in ClientRec, NEW w, Writing(c, w)
  PROVE  /\ SendOnce(c) \in ClientRec /\ Writing(SendOnce(c), w)
         /\ SendOnce(c).made = IF c.made = MaxPackets THEN c.made ELSE c.made + 1
         /\ SendOnce(c).link = c.link /\ SendOnce(c).m_establish = c.m_establish
         /\ SendOnce(c).read = c.read /\ SendOnce(c).m_curRecvLen = c.m_curRecvLen
         /\ SendOnce(c).asked = c.asked
<1> DEFINE d == SendOnce(c)
<1>1. /\ c.m_sending \in Nat /\ c.m_sendque \in Seq(Nat) /\ c.made \in Nat
      /\ MaxPackets \in Nat /\ PacketLen \in Nat /\ PacketLen >= 1
  BY ClientFields, ClientConstants
<1>2. CASE c.made = MaxPackets
  BY <1>2 DEF SendOnce
<1>3. CASE c.made # MaxPackets /\ c.m_sending # 0
  <2> DEFINE q == Append(c.m_sendque, c.made + 1)
  <2>1. q \in Seq(Nat) /\ c.made + 1 \in Nat
    BY <1>1
  <2>2. d = [c EXCEPT !.made = c.made + 1, !.m_sendque = q]
    BY <1>3 DEF SendOnce
  <2>7. c.made < MaxPackets
    BY <1>1, <1>3 DEF Writing
  <2>3. /\ c.m_sending > 0 /\ c.m_sending <= c.made
        /\ Len(c.m_sendque) = c.made - c.m_sending
        /\ \A i \in 1..Len(c.m_sendque) : c.m_sendque[i] = c.m_sending + i
    BY <1>3 DEF Writing
  <2>4. /\ Len(q) = (c.made + 1) - c.m_sending
        /\ \A i \in 1..Len(q) : q[i] = c.m_sending + i
    <3>1. /\ Len(q) = Len(c.m_sendque) + 1 /\ Len(c.m_sendque) \in Nat
          /\ q[Len(c.m_sendque) + 1] = c.made + 1
          /\ \A i \in 1..Len(c.m_sendque) : q[i] = c.m_sendque[i]
      BY <1>1
    <3>2. \A i \in 1..Len(q) : i \in 1..Len(c.m_sendque) \/ i = Len(c.m_sendque) + 1
      BY <3>1
    <3> HIDE DEF q
    <3>3. c.m_sending + (Len(c.m_sendque) + 1) = c.made + 1
      BY <1>1, <2>3
    <3>4. Len(q) = (c.made + 1) - c.m_sending
      BY <1>1, <2>3, <3>1
    <3> QED
      BY <2>3, <3>1, <3>2, <3>3, <3>4
  <2> HIDE DEF q
  <2>5. d \in ClientRec
    BY <2>1, <2>2 DEF ClientRec
  <2>6. /\ d.made = c.made + 1 /\ d.m_sendque = q /\ d.m_sending = c.m_sending
        /\ d.m_curSendLen = c.m_curSendLen /\ d.handed = c.handed /\ d.asking = c.asking
        /\ d.link = c.link /\ d.m_establish = c.m_establish
        /\ d.read = c.read /\ d.m_curRecvLen = c.m_curRecvLen /\ d.asked = c.asked
    BY <2>2 DEF ClientRec
  <2> HIDE DEF d
  <2>8. Writing(d, w)
    <3>1. c.made + 1 <= MaxPackets /\ c.m_sending <= c.made + 1
      BY <1>1, <2>3, <2>7
    <3> QED
      BY <1>3, <2>3, <2>4, <2>6, <3>1 DEF Writing
  <2> QED
    BY <1>3, <2>5, <2>6, <2>8 DEF d
<1>4. CASE c.made # MaxPackets /\ c.m_sending = 0
  <2> DEFINE m == c.made + 1
  <2>1. m \in Nat /\ m > 0 /\ m - 1 = c.made
    BY <1>1
  <2>2. d = [c EXCEPT !.made = m, !.m_sending = m, !.asking = PacketLen]
    BY <1>4 DEF SendOnce
  <2>3. /\ c.m_sendque = <<>> /\ c.m_curSendLen = 0 /\ c.handed = 0
        /\ w = c.made * PacketLen /\ m <= MaxPackets
    BY <1>1, <1>4 DEF Writing
  <2> HIDE DEF m
  <2>5. d \in ClientRec
    BY <1>1, <2>1, <2>2 DEF ClientRec
  <2>6. /\ d.made = m /\ d.m_sendque = <<>> /\ d.m_sending = m
        /\ d.m_curSendLen = 0 /\ d.handed = 0 /\ d.asking = PacketLen
        /\ d.link = c.link /\ d.m_establish = c.m_establish
        /\ d.read = c.read /\ d.m_curRecvLen = c.m_curRecvLen /\ d.asked = c.asked
    BY <2>2, <2>3 DEF ClientRec
  <2> HIDE DEF d
  <2>8. Writing(d, w)
    <3> DEFINE x == c.made * PacketLen
    <3>1. x \in Nat /\ w = x
      BY <1>1, <2>3, NextMultiple
    <3>2. (d.m_sending - 1) * PacketLen = x
      BY <2>1, <2>6
    <3> HIDE DEF x
    <3>3. w = (d.m_sending - 1) * PacketLen + d.m_curSendLen + d.handed
      <4> DEFINE y == (d.m_sending - 1) * PacketLen
      <4>1. y = x
        BY <3>2
      <4> HIDE DEF y
      <4>2. w = y + d.m_curSendLen + d.handed
        BY <2>6, <3>1, <4>1
      <4> QED
        BY <4>2 DEF y
    <3>4. Len(d.m_sendque) = 0 /\ \A i \in 1..Len(d.m_sendque) : FALSE
      BY <2>6
    <3>5. d.made <= MaxPackets /\ d.m_sending > 0 /\ d.m_sending <= d.made /\ d.made - d.m_sending = 0
      BY <2>1, <2>3, <2>6
    <3>6. /\ d.m_curSendLen < PacketLen /\ d.m_curSendLen + d.handed <= PacketLen
          /\ d.handed = 0 /\ d.asking = PacketLen - d.m_curSendLen
      BY <1>1, <2>6
    <3>7. Len(d.m_sendque) = d.made - d.m_sending
          /\ \A i \in 1..Len(d.m_sendque) : d.m_sendque[i] = d.m_sending + i
      BY <3>4, <3>5
    <3> QED
      BY <3>3, <3>5, <3>6, <3>7 DEF Writing
  <2> QED
    BY <1>4, <2>5, <2>6, <2>8 DEF d, m
<1> QED
  BY <1>2, <1>3, <1>4

\* Nothing is written that was not made.
LEMMA WrittenMade ==
  ASSUME NEW c \in ClientRec, NEW w, Writing(c, w)
  PROVE  /\ w \in Nat /\ w <= c.made * PacketLen /\ c.made * PacketLen \in Nat
         /\ w + c.asking <= c.made * PacketLen
<1>1. /\ c.m_sending \in Nat /\ c.made \in Nat /\ c.m_curSendLen \in Nat /\ c.handed \in Nat
      /\ c.asking \in Nat
      /\ PacketLen \in Nat /\ PacketLen >= 1
  BY ClientFields, ClientConstants
<1>2. c.made * PacketLen \in Nat
  BY <1>1, NextMultiple
<1>3. CASE c.m_sending = 0
  <2>1. w = c.made * PacketLen /\ c.asking = 0
    BY <1>1, <1>3 DEF Writing
  <2> QED
    BY <1>2, <2>1
<1>4. CASE c.m_sending # 0
  <2> DEFINE p == c.m_sending - 1
             x == p * PacketLen
             y == c.made * PacketLen
  <2>1. p \in Nat /\ p < c.made /\ x \in Nat /\ y \in Nat /\ x + PacketLen <= y
    <3>1. p \in Nat /\ p < c.made
      BY <1>1, <1>4 DEF Writing
    <3> HIDE DEF p
    <3> QED
      BY <1>1, <3>1, NextMultiple, MultiplesGrow
  <2>2. /\ w = x + c.m_curSendLen + c.handed
        /\ c.m_curSendLen + c.handed <= PacketLen
        /\ \/ c.handed = 0 /\ c.asking = PacketLen - c.m_curSendLen
           \/ c.handed > 0 /\ c.asking = 0
    BY <1>1, <1>4 DEF Writing
  <2> HIDE DEF x, y, p
  <2>3. w \in Nat /\ w + c.asking <= y /\ w <= y
    BY <1>1, <2>1, <2>2
  <2> QED
    BY <1>2, <2>3 DEF y
<1> QED
  BY <1>3, <1>4

\* What the client has read was sent, taken, written and made before.
LEMMA ReadMade ==
  ASSUME RecvInv, SendInv, AllAlike, NEW c \in ClientRec, NEW es,
         Writing(c, written), Reading(c, es)
  PROVE  Len(es) \in Nat /\ Len(es) <= c.made /\ (c.made = 0 => c.m_curRecvLen = 0 /\ Len(es) = 0)
<1> DEFINE e == Len(es)
           L == Len(Upto(e))
           x == e * PacketLen
           y == c.made * PacketLen
<1>1. e \in Nat /\ c.made \in Nat /\ c.m_curRecvLen \in Nat /\ PacketLen \in Nat /\ PacketLen >= 1
  BY ClientFields, ClientConstants DEF Reading
<1>2. L = x /\ x \in Nat /\ y \in Nat
  <2>1. e \in 0..MaxPackets
    BY <1>1, ClientConstants DEF Reading
  <2> HIDE DEF e
  <2> QED
    BY <1>1, <2>1, AlikeLength, NextMultiple
<1>3. written \in Nat /\ written <= y
  BY WrittenMade
<1>4. taken <= written /\ taken = Len(Upto(Len(parsed))) + m_curRecvLen /\ m_curRecvLen \in Nat
      /\ taken \in Nat
  BY DEF RecvInv
<1>5. Len(out) <= Len(Upto(Len(parsed))) /\ Len(out) \in Nat
  BY OutInStream
<1>6. Len(Upto(Len(parsed))) \in Nat
  <2>1. PacketsOk /\ Len(parsed) \in 0..Len(packets)
    BY DEF RecvInv, PacketsOk
  <2> QED
    BY <2>1, UptoIs
<1>7. L + c.m_curRecvLen <= Len(out)
  BY DEF Reading
<1>8. x + c.m_curRecvLen <= y
  <2> DEFINE o == Len(out)
             u == Len(Upto(Len(parsed)))
  <2>1. x + c.m_curRecvLen <= o /\ o <= u /\ u + m_curRecvLen <= y
    BY <1>2, <1>3, <1>4, <1>5, <1>7
  <2>2. o \in Nat /\ u \in Nat
    BY <1>5, <1>6
  <2> HIDE DEF o, u, x, y, L
  <2> QED
    BY <1>1, <1>2, <1>4, <2>1, <2>2
<1>9. e <= c.made
  <2>1. ASSUME c.made < e PROVE FALSE
    <3>1. y + PacketLen <= x
      <4> HIDE DEF e
      <4> QED
        BY <1>1, <2>1, MultiplesGrow
    <3> HIDE DEF x, y
    <3> QED
      BY <1>1, <1>2, <1>8, <3>1
  <2> HIDE DEF e
  <2> QED
    BY <1>1, <2>1
<1>10. c.made = 0 => c.m_curRecvLen = 0 /\ e = 0
  <2>1. c.made = 0 => y = 0
    BY <1>1
  <2> HIDE DEF x, y, e
  <2> QED
    BY <1>1, <1>2, <1>8, <1>9, <2>1
<1> QED
  BY <1>1, <1>9, <1>10

LEMMA AsksNat ==
  ASSUME PacketsOk, NEW k \in Nat, NEW cur \in Nat, NEW need, Asks(k, cur, need)
  PROVE  need \in Nat
<1>1. HeadLen \in Nat /\ Len(packets) \in Nat
  BY PacketsAssumption DEF PacketsOk
<1>2. CASE need = HeadLen - cur /\ cur < HeadLen
  BY <1>1, <1>2
<1>3. CASE k < Len(packets) /\ cur < packets[k + 1].len /\ need = packets[k + 1].len - cur
  <2>1. k + 1 \in 1..Len(packets)
    BY <1>1, <1>3
  <2>2. packets[k + 1].len \in Nat
    BY <2>1, PacketBytes
  <2> QED
    BY <1>3, <2>2
<1> QED
  BY <1>2, <1>3 DEF Asks

-----------------------------------------------------------------------------
(* A step of the client that leaves the session alone *)

LEMMA SessionStill ==
  ASSUME PairInv, peer = "client", UNCHANGED <<vars, peer>>, client' \in ClientRec,
         Writing(client', written), Reading(client', echoes'),
         OneAtATime(client', timers', Len(echoes'))
  PROVE  PairInv'
<1>1. /\ packets' = packets /\ written' = written /\ open' = open /\ out' = out
      /\ parsed' = parsed /\ peer' = peer
      /\ UNCHANGED <<packets, taken, m_curRecvLen, asked, parsed>>
      /\ UNCHANGED <<packets, sendVars, out>>
  BY DEF vars, recvVars
<1>2. written \in Nat /\ written <= Len(Stream) /\ open \in BOOLEAN /\ RecvInv
  BY DEF PairInv, RecvInv
<1>3. RecvInv'
  BY <1>1, <1>2, RecvKept
<1>4. SameAnswers' => SendInv'
  <2>1. SameAnswers' = SameAnswers
    BY <1>1 DEF SameAnswers, Echoed
  <2>2. Answers(parsed)' = Answers(parsed)
    BY <1>1 DEF Answers, Answer
  <2> QED
    BY <1>1, <2>1, <2>2, SendKept DEF PairInv
<1>5. AllAlike' /\ peer' = "client"
  BY <1>1 DEF PairInv, ClientInv, AllAlike
<1>6. Writing(client, written)'
  BY <1>1 DEF Writing
<1>7. Reading(client, echoes)'
  BY <1>1 DEF Reading, Upto, Bytes, Size, Asks
<1>8. OneAtATime(client, timers, Len(echoes))'
  BY DEF OneAtATime
<1>9. ClientInv'
  BY <1>5, <1>6, <1>7, <1>8 DEF ClientInv
<1> QED
  BY <1>3, <1>4, <1>5, <1>9 DEF PairInv

\* What PairInv says while there is a client.
LEMMA WithClient ==
  ASSUME PairInv, peer = "client"
  PROVE  /\ RecvInv /\ SendInv /\ AllAlike /\ client \in ClientRec
         /\ Writing(client, written) /\ Reading(client, echoes)
         /\ OneAtATime(client, timers, Len(echoes))
         /\ Len(echoes) \in Nat /\ Len(echoes) <= client.made
         /\ client.made = 0 => client.m_curRecvLen = 0 /\ Len(echoes) = 0
         /\ timers \in Nat /\ timers + client.made <= Len(echoes) + 1
<1>1. /\ RecvInv /\ AllAlike /\ client \in ClientRec
      /\ Writing(client, written) /\ Reading(client, echoes)
      /\ OneAtATime(client, timers, Len(echoes))
  BY DEF PairInv, ClientInv
<1>2. SendInv
  BY <1>1, AlikeFacts DEF PairInv
<1> QED
  BY <1>1, <1>2, ReadMade DEF OneAtATime

LEMMA MakeClientKeeps ==
  ASSUME PairInv, peer = "client", MakeClient
  PROVE  PairInv'
<1>1. PICK link \in {"connecting", "stuck"} : client' = [client EXCEPT !.link = link]
  BY DEF MakeClient
<1>2. UNCHANGED <<vars, peer, timers, echoes>> /\ client.link = "none"
  BY DEF MakeClient
<1>3. /\ client \in ClientRec /\ Writing(client, written) /\ Reading(client, echoes)
      /\ OneAtATime(client, timers, Len(echoes))
  BY WithClient
<1>4. client' \in ClientRec
  BY <1>1, <1>3 DEF ClientRec, Links
<1>5. /\ client'.link \in {"connecting", "stuck"} /\ client'.m_establish = client.m_establish
      /\ client'.m_curRecvLen = client.m_curRecvLen /\ client'.asked = client.asked
      /\ client'.m_sending = client.m_sending /\ client'.m_curSendLen = client.m_curSendLen
      /\ client'.asking = client.asking /\ client'.m_sendque = client.m_sendque
      /\ client'.made = client.made /\ client'.handed = client.handed
      /\ client'.read = client.read
  BY <1>1, <1>3 DEF ClientRec
<1>6. Writing(client', written)
  BY <1>3, <1>5 DEF Writing
<1>7. Reading(client', echoes)
  BY <1>3, <1>5 DEF Reading
<1>8. OneAtATime(client', timers, Len(echoes))
  BY <1>2, <1>3, <1>5 DEF OneAtATime
<1> QED
  BY <1>2, <1>4, <1>6, <1>7, <1>8, SessionStill

LEMMA OnConnectKeeps ==
  ASSUME PairInv, peer = "client", OnConnect
  PROVE  PairInv'
<1>2. UNCHANGED <<vars, peer, echoes>> /\ client.link = "connecting"
  BY DEF OnConnect
<1>3. /\ client \in ClientRec /\ Writing(client, written) /\ Reading(client, echoes)
      /\ OneAtATime(client, timers, Len(echoes)) /\ timers = 0 /\ client.made = 0
      /\ Len(echoes) = 0 /\ client.m_curRecvLen = 0
  BY <1>2, WithClient DEF OneAtATime
<1>4. HeadLen \in Nat /\ HeadLen >= 1
  BY PacketsAssumption
<1>5. CASE /\ client' = [client EXCEPT !.link = "up", !.m_establish = TRUE, !.asked = HeadLen]
           /\ timers' = timers + 1
  <2>1. client' \in ClientRec
    BY <1>3, <1>4, <1>5 DEF ClientRec, Links
  <2>2. /\ client'.link = "up" /\ client'.asked = HeadLen
        /\ client'.m_curRecvLen = client.m_curRecvLen
        /\ client'.m_sending = client.m_sending /\ client'.m_curSendLen = client.m_curSendLen
        /\ client'.asking = client.asking /\ client'.m_sendque = client.m_sendque
        /\ client'.made = client.made /\ client'.handed = client.handed
        /\ client'.read = client.read
    BY <1>3, <1>5 DEF ClientRec
  <2>3. Writing(client', written)
    BY <1>3, <2>2 DEF Writing
  <2>4. Asks(Len(echoes), client'.m_curRecvLen, client'.asked)
    BY <1>3, <1>4, <2>2 DEF Asks
  <2>5. Reading(client', echoes)
    BY <1>3, <2>2, <2>4 DEF Reading
  <2>6. OneAtATime(client', timers', Len(echoes))
    BY <1>3, <1>5, <2>2 DEF OneAtATime
  <2> QED
    BY <1>2, <2>1, <2>3, <2>5, <2>6, SessionStill
<1>6. CASE client' = [client EXCEPT !.link = "refused"] /\ timers' = timers
  <2>1. client' \in ClientRec
    BY <1>3, <1>6 DEF ClientRec, Links
  <2>2. /\ client'.link = "refused" /\ client'.m_establish = client.m_establish
        /\ client'.m_curRecvLen = client.m_curRecvLen
        /\ client'.m_sending = client.m_sending /\ client'.m_curSendLen = client.m_curSendLen
        /\ client'.asking = client.asking /\ client'.m_sendque = client.m_sendque
        /\ client'.made = client.made /\ client'.handed = client.handed
        /\ client'.read = client.read
    BY <1>3, <1>6 DEF ClientRec
  <2>3. Writing(client', written)
    BY <1>3, <2>2 DEF Writing
  <2>5. Reading(client', echoes)
    BY <1>3, <2>2 DEF Reading
  <2>6. OneAtATime(client', timers', Len(echoes))
    BY <1>2, <1>3, <1>6, <2>2 DEF OneAtATime
  <2> QED
    BY <1>2, <2>1, <2>3, <2>5, <2>6, SessionStill
<1> QED
  BY <1>5, <1>6 DEF OnConnect

LEMMA OnTimerKeeps ==
  ASSUME PairInv, peer = "client", OnTimer
  PROVE  PairInv'
<1>2. UNCHANGED <<vars, peer, echoes>> /\ timers > 0 /\ timers' = timers - 1
  BY DEF OnTimer
<1>3. /\ client \in ClientRec /\ Writing(client, written) /\ Reading(client, echoes)
      /\ OneAtATime(client, timers, Len(echoes))
      /\ timers \in Nat /\ timers + client.made <= Len(echoes) + 1 /\ Len(echoes) \in Nat
      /\ client.made \in Nat
  BY WithClient, ClientFields
<1>4. CASE client.m_establish /\ client' = SendOnce(client)
  <2>1. /\ client' \in ClientRec /\ Writing(client', written)
        /\ client'.made = IF client.made = MaxPackets THEN client.made ELSE client.made + 1
        /\ client'.link = client.link /\ client'.m_establish = client.m_establish
        /\ client'.read = client.read /\ client'.m_curRecvLen = client.m_curRecvLen
        /\ client'.asked = client.asked
    BY <1>3, <1>4, SendOnceKeeps
  <2>2. Reading(client', echoes)
    BY <1>3, <2>1 DEF Reading
  <2>3. timers' \in Nat /\ timers' + client'.made <= Len(echoes) + 1
    <3>1. client'.made <= client.made + 1 /\ client'.made \in Nat
      BY <1>3, <2>1
    <3> QED
      BY <1>2, <1>3, <3>1
  <2>4. client'.link \in {"up", "closed"}
    BY <1>3, <1>4, <2>1 DEF OneAtATime
  <2>5. OneAtATime(client', timers', Len(echoes))
    BY <2>3, <2>4 DEF OneAtATime
  <2> QED
    BY <1>2, <2>1, <2>2, <2>5, SessionStill
<1>5. CASE client' = client
  <2>1. timers' \in Nat /\ timers' + client.made <= Len(echoes) + 1
    BY <1>2, <1>3
  <2>2. client.link \in {"up", "closed"}
    BY <1>2, <1>3 DEF OneAtATime
  <2>3. OneAtATime(client', timers', Len(echoes))
    BY <1>5, <2>1, <2>2 DEF OneAtATime
  <2> QED
    BY <1>2, <1>3, <1>5, <2>3, SessionStill
<1> QED
  BY <1>4, <1>5 DEF OnTimer

LEMMA ClosesKeep ==
  ASSUME PairInv, peer = "client", LinkCloses \/ OnClose
  PROVE  PairInv'
<1>2. UNCHANGED <<vars, peer, timers, echoes>>
  BY DEF LinkCloses, OnClose
<1>3. /\ client \in ClientRec /\ Writing(client, written) /\ Reading(client, echoes)
      /\ OneAtATime(client, timers, Len(echoes))
  BY WithClient
<1>4. /\ client.link \in {"up", "closed"}
      /\ \/ client' = [client EXCEPT !.link = "closed"]
         \/ client' = [client EXCEPT !.m_establish = FALSE] /\ client.link = "closed"
  BY DEF LinkCloses, OnClose
<1>5. client' \in ClientRec
  BY <1>3, <1>4 DEF ClientRec, Links
<1>6. /\ client'.link = "closed"
      /\ client'.m_curRecvLen = client.m_curRecvLen /\ client'.asked = client.asked
      /\ client'.m_sending = client.m_sending /\ client'.m_curSendLen = client.m_curSendLen
      /\ client'.asking = client.asking /\ client'.m_sendque = client.m_sendque
      /\ client'.made = client.made /\ client'.handed = client.handed
      /\ client'.read = client.read
  BY <1>3, <1>4 DEF ClientRec
<1>7. Writing(client', written)
  BY <1>3, <1>6 DEF Writing
<1>8. Reading(client', echoes)
  BY <1>3, <1>6 DEF Reading
<1>9. OneAtATime(client', timers, Len(echoes))
  BY <1>3, <1>6 DEF OneAtATime
<1> QED
  BY <1>2, <1>5, <1>7, <1>8, <1>9, SessionStill

LEMMA WritesKeep ==
  ASSUME PairInv, peer = "client", Writes
  PROVE  PairInv'
<1> DEFINE c == client
<1>1. PICK n \in 1..client.asking : /\ written' = written + n
                                    /\ client' = [client EXCEPT !.asking = 0, !.handed = n]
  BY DEF Writes
<1>2. UNCHANGED <<packets, recvVars, sendVars, open, out, peer, timers, echoes>>
  BY DEF Writes
<1>3. /\ client \in ClientRec /\ Writing(client, written) /\ Reading(client, echoes)
      /\ OneAtATime(client, timers, Len(echoes)) /\ AllAlike /\ RecvInv /\ SendInv
  BY WithClient
<1>4. /\ c.m_sending \in Nat /\ c.made \in Nat /\ c.m_curSendLen \in Nat /\ c.handed \in Nat
      /\ c.asking \in Nat /\ PacketLen \in Nat /\ n \in Nat /\ n > 0 /\ n <= c.asking
  BY <1>3, ClientFields, ClientConstants
<1>5. client' \in ClientRec
  BY <1>1, <1>3, <1>4 DEF ClientRec
<1>6. /\ client'.link = c.link /\ client'.m_establish = c.m_establish
      /\ client'.m_curRecvLen = c.m_curRecvLen /\ client'.asked = c.asked
      /\ client'.m_sending = c.m_sending /\ client'.m_curSendLen = c.m_curSendLen
      /\ client'.asking = 0 /\ client'.m_sendque = c.m_sendque
      /\ client'.made = c.made /\ client'.handed = n
      /\ client'.read = c.read
  BY <1>1, <1>3 DEF ClientRec
<1>7. /\ c.m_sending > 0 /\ c.handed = 0 /\ c.asking = PacketLen - c.m_curSendLen
  BY <1>3, <1>4 DEF Writing
<1>8. Writing(client', written')
  <2> DEFINE x == (c.m_sending - 1) * PacketLen
  <2>1. x \in Nat
    <3>1. c.m_sending - 1 \in Nat
      BY <1>4, <1>7
    <3> QED
      BY <1>4, <3>1, NextMultiple
  <2>2. written = x + c.m_curSendLen + c.handed
    BY <1>4, <1>7, <1>3 DEF Writing
  <2>3. (client'.m_sending - 1) * PacketLen = x
    BY <1>6
  <2> HIDE DEF x
  <2>4. written + n = x + c.m_curSendLen + n
    BY <1>4, <1>7, <2>1, <2>2
  <2>5. written' = (client'.m_sending - 1) * PacketLen + client'.m_curSendLen + client'.handed
    BY <1>1, <1>6, <2>3, <2>4
  <2>6. c.m_curSendLen + n <= PacketLen
    BY <1>4, <1>7
  <2>7. /\ c.m_sending <= c.made /\ c.made <= MaxPackets
        /\ Len(c.m_sendque) = c.made - c.m_sending
        /\ \A i \in 1..Len(c.m_sendque) : c.m_sendque[i] = c.m_sending + i
        /\ c.m_curSendLen < PacketLen
    BY <1>3, <1>4, <1>7 DEF Writing
  <2> QED
    BY <1>4, <1>6, <1>7, <2>5, <2>6, <2>7 DEF Writing
<1>9. written' \in Nat /\ written <= written' /\ written' <= Len(Stream)
  <2>1. written \in Nat /\ written' \in Nat /\ written <= written'
    BY <1>1, <1>3, <1>4 DEF RecvInv
  <2>2. written' <= client'.made * PacketLen /\ client'.made \in Nat
    BY <1>5, <1>8, WrittenMade, ClientFields
  <2>3. client'.made <= MaxPackets /\ MaxPackets \in Nat
    BY <1>8, ClientConstants DEF Writing
  <2>4. Len(Stream) = MaxPackets * PacketLen
    <3>1. Len(packets) = MaxPackets /\ PacketsOk /\ MaxPackets \in 0..MaxPackets
      BY <1>3, <2>3, AlikeFacts
    <3>2. Stream = Upto(MaxPackets)
      BY <3>1, UptoIs
    <3> QED
      BY <1>3, <3>1, <3>2, AlikeLength
  <2>5. client'.made * PacketLen <= MaxPackets * PacketLen
    <3> DEFINE m == client'.made
    <3>1. m \in Nat /\ m <= MaxPackets
      BY <2>2, <2>3
    <3> HIDE DEF m
    <3>2. m * PacketLen \in Nat /\ MaxPackets * PacketLen \in Nat
      BY <2>3, <3>1, NextMultiple
    <3>3. CASE m < MaxPackets
      <4>1. m * PacketLen + PacketLen <= MaxPackets * PacketLen
        BY <2>3, <3>1, <3>3, MultiplesGrow
      <4> DEFINE u == m * PacketLen
                 v == MaxPackets * PacketLen
      <4>2. u \in Nat /\ v \in Nat /\ u + PacketLen <= v
        BY <3>2, <4>1
      <4> HIDE DEF u, v
      <4>3. u <= v
        BY <1>4, <4>2
      <4> QED
        BY <4>3 DEF u, v, m
    <3>4. CASE m = MaxPackets
      BY <3>2, <3>4 DEF m
    <3> QED
      BY <2>3, <3>1, <3>3, <3>4
  <2>6. client'.made * PacketLen \in Nat /\ MaxPackets * PacketLen \in Nat
    BY <2>2, <2>3, NextMultiple
  <2> DEFINE u == client'.made * PacketLen
             v == MaxPackets * PacketLen
  <2>7. written' <= u /\ u <= v /\ u \in Nat /\ v \in Nat /\ Len(Stream) = v
    BY <2>2, <2>4, <2>5, <2>6
  <2> HIDE DEF u, v
  <2> QED
    BY <2>1, <2>7
<1>10. RecvInv'
  <2>1. UNCHANGED <<packets, taken, m_curRecvLen, asked, parsed>> /\ open' = open
    BY <1>2 DEF recvVars
  <2>2. open' \in BOOLEAN
    BY <1>3, <2>1 DEF RecvInv
  <2> QED
    BY <1>3, <1>9, <2>1, <2>2, RecvKept
<1>11. SendInv'
  <2>1. Answers(parsed)' = Answers(parsed)
    BY <1>2 DEF Answers, Answer, recvVars
  <2> QED
    BY <1>2, <1>3, <2>1, SendKept
<1>12. AllAlike' /\ peer' = "client" /\ echoes' = echoes /\ timers' = timers
  BY <1>2, <1>3 DEF AllAlike
<1>13. Reading(client, echoes)'
  BY <1>2, <1>3, <1>6 DEF Reading, Upto, Bytes, Size, Asks
<1>14. OneAtATime(client, timers, Len(echoes))'
  BY <1>2, <1>3, <1>6 DEF OneAtATime
<1>15. Writing(client, written)'
  BY <1>8 DEF Writing
<1>16. ClientInv'
  BY <1>5, <1>12, <1>13, <1>14, <1>15 DEF ClientInv
<1> QED
  BY <1>10, <1>11, <1>12, <1>16 DEF PairInv

LEMMA Rewritten ==
  ASSUME NEW c \in ClientRec, NEW a \in Nat, NEW b \in Nat, NEW e \in Nat, NEW h \in Nat,
         NEW q \in Seq(Nat)
  PROVE  [c EXCEPT !.m_curSendLen = a, !.handed = h, !.asking = b,
                   !.m_sending = e, !.m_sendque = q] \in ClientRec
<1> DEFINE S == Seq(Nat)
<1>1. q \in S /\ c \in [link : Links, m_establish : BOOLEAN, m_curRecvLen : Nat, asked : Nat,
                        m_sending : Nat, m_curSendLen : Nat, asking : Nat, m_sendque : S,
                        made : Nat, handed : Nat, read : Nat]
  BY DEF ClientRec
<1> HIDE DEF S
<1>2. [c EXCEPT !.m_curSendLen = a, !.handed = h, !.asking = b,
                !.m_sending = e, !.m_sendque = q]
        \in [link : Links, m_establish : BOOLEAN, m_curRecvLen : Nat, asked : Nat,
             m_sending : Nat, m_curSendLen : Nat, asking : Nat, m_sendque : S,
             made : Nat, handed : Nat, read : Nat]
  BY <1>1
<1> QED
  BY <1>2 DEF ClientRec, S

LEMMA QueueTail ==
  ASSUME NEW s \in Seq(Nat), s # <<>>
  PROVE  /\ Len(s) \in Nat /\ Len(s) >= 1 /\ Head(s) = s[1] /\ Head(s) \in Nat
         /\ Tail(s) \in Seq(Nat) /\ Len(Tail(s)) = Len(s) - 1
         /\ \A i \in 1..(Len(s) - 1) : Tail(s)[i] = s[i + 1]
<1>1. Len(s) \in Nat /\ Len(s) >= 1 /\ Head(s) = s[1]
  OBVIOUS
<1>2. Head(s) \in Nat
  BY <1>1
<1>3. Tail(s) \in Seq(Nat) /\ Len(Tail(s)) = Len(s) - 1
  BY <1>1
<1>4. \A i \in 1..(Len(s) - 1) : Tail(s)[i] = s[i + 1]
  BY <1>1
<1> QED
  BY <1>1, <1>2, <1>3, <1>4

\* The next packet, or the rest of this one.
LEMMA NextIsWriting ==
  ASSUME NEW c \in ClientRec, NEW w, Writing(c, w), c.handed > 0,
         NEW d, d = IF c.m_curSendLen + c.handed < PacketLen
                    THEN [c EXCEPT !.m_curSendLen = c.m_curSendLen + c.handed, !.handed = 0,
                                   !.asking = PacketLen - (c.m_curSendLen + c.handed)]
                    ELSE IF c.m_sendque = <<>>
                    THEN [c EXCEPT !.m_curSendLen = 0, !.handed = 0, !.m_sending = 0]
                    ELSE [c EXCEPT !.m_curSendLen = 0, !.handed = 0, !.asking = PacketLen,
                                   !.m_sending = Head(c.m_sendque), !.m_sendque = Tail(@)]
  PROVE  /\ d \in ClientRec /\ Writing(d, w)
         /\ d.link = c.link /\ d.m_establish = c.m_establish /\ d.made = c.made
         /\ d.m_curRecvLen = c.m_curRecvLen /\ d.asked = c.asked /\ d.read = c.read
<1> DEFINE p == c.m_sending - 1
           x == p * PacketLen
           sent == c.m_curSendLen + c.handed
           rest == PacketLen - sent
<1>1. /\ c.m_sending \in Nat /\ c.made \in Nat /\ c.m_curSendLen \in Nat /\ c.handed \in Nat
      /\ c.asking \in Nat /\ PacketLen \in Nat /\ PacketLen >= 1 /\ c.m_sendque \in Seq(Nat)
  BY ClientFields, ClientConstants
<1>2. /\ c.m_sending > 0 /\ c.m_sending <= c.made /\ c.made <= MaxPackets
      /\ Len(c.m_sendque) = c.made - c.m_sending
      /\ \A i \in 1..Len(c.m_sendque) : c.m_sendque[i] = c.m_sending + i
      /\ sent <= PacketLen /\ c.asking = 0
      /\ w = (c.m_sending - 1) * PacketLen + c.m_curSendLen + c.handed
  BY <1>1 DEF Writing
<1>3. p \in Nat /\ p + 1 = c.m_sending /\ sent \in Nat /\ rest \in Nat /\ w = x + c.m_curSendLen + c.handed
  <2>1. p \in Nat /\ p + 1 = c.m_sending
    BY <1>1, <1>2
  <2>2. sent \in Nat /\ rest \in Nat
    BY <1>1, <1>2
  <2>3. w = x + c.m_curSendLen + c.handed
    BY <1>2
  <2> QED
    BY <2>1, <2>2, <2>3
<1>4. x \in Nat /\ c.m_sending * PacketLen = x + PacketLen
  BY <1>3, NextMultiple
<1> HIDE DEF x, p
<1>5. w = x + sent
  <2>1. x + c.m_curSendLen + c.handed = x + sent
    BY <1>1, <1>4
  <2> QED
    BY <1>3, <2>1
<1>6. CASE sent < PacketLen
  <2>1. d = [c EXCEPT !.m_curSendLen = sent, !.handed = 0, !.asking = rest]
    BY <1>6
  <2>2. rest = PacketLen - sent
    OBVIOUS
  <2> HIDE DEF sent, rest, p
  <2>3. d \in ClientRec
    <3> DEFINE f == [c EXCEPT !.m_curSendLen = sent, !.handed = 0, !.asking = rest,
                              !.m_sending = c.m_sending, !.m_sendque = c.m_sendque]
    <3>1. f \in ClientRec
      BY <1>1, <1>3, Rewritten
    <3>2. d = f
      BY <2>1 DEF ClientRec
    <3> QED
      BY <3>1, <3>2
  <2>4. /\ d.link = c.link /\ d.m_establish = c.m_establish /\ d.made = c.made
        /\ d.m_curRecvLen = c.m_curRecvLen /\ d.asked = c.asked /\ d.read = c.read
        /\ d.m_sending = c.m_sending /\ d.m_sendque = c.m_sendque
        /\ d.m_curSendLen = sent /\ d.handed = 0 /\ d.asking = rest
    BY <2>1 DEF ClientRec
  <2>5. (d.m_sending - 1) * PacketLen = x
    BY <2>4 DEF x, p
  <2>6. w = (d.m_sending - 1) * PacketLen + d.m_curSendLen + d.handed
    <3>1. x + sent + 0 = w
      BY <1>3, <1>4, <1>5
    <3> QED
      BY <2>4, <2>5, <3>1
  <2>7. sent + 0 <= PacketLen /\ rest = PacketLen - sent
    BY <1>1, <1>2, <1>3, <2>2
  <2>8. Writing(d, w)
    BY <1>2, <1>6, <2>4, <2>6, <2>7 DEF Writing
  <2> QED
    BY <2>3, <2>4, <2>8
<1>7. ASSUME ~(sent < PacketLen) PROVE w = c.m_sending * PacketLen
  <2> HIDE DEF sent
  <2>1. w = x + PacketLen
    BY <1>1, <1>2, <1>3, <1>5, <1>7
  <2> QED
    BY <1>4, <2>1
<1>8. CASE ~(sent < PacketLen) /\ c.m_sendque = <<>>
  <2>1. d = [c EXCEPT !.m_curSendLen = 0, !.handed = 0, !.m_sending = 0]
    BY <1>8
  <2>2. d \in ClientRec
    <3> DEFINE f == [c EXCEPT !.m_curSendLen = 0, !.handed = 0, !.asking = c.asking,
                              !.m_sending = 0, !.m_sendque = c.m_sendque]
    <3>1. f \in ClientRec
      BY <1>1, Rewritten
    <3>2. d = f
      BY <2>1 DEF ClientRec
    <3> QED
      BY <3>1, <3>2
  <2>3. /\ d.link = c.link /\ d.m_establish = c.m_establish /\ d.made = c.made
        /\ d.m_curRecvLen = c.m_curRecvLen /\ d.asked = c.asked /\ d.read = c.read
        /\ d.m_sending = 0 /\ d.m_sendque = <<>>
        /\ d.m_curSendLen = 0 /\ d.handed = 0 /\ d.asking = 0
    BY <1>2, <1>8, <2>1 DEF ClientRec
  <2>4. c.made = c.m_sending
    <3>1. Len(c.m_sendque) = 0
      BY <1>8
    <3> QED
      BY <1>1, <1>2, <3>1
  <2>5. w = d.made * PacketLen
    BY <1>7, <1>8, <2>3, <2>4
  <2>6. Writing(d, w)
    <3>1. d.made <= MaxPackets
      BY <1>2, <2>3
    <3> QED
      BY <2>3, <2>5, <3>1 DEF Writing
  <2> QED
    BY <2>2, <2>3, <2>6
<1>9. CASE ~(sent < PacketLen) /\ c.m_sendque # <<>>
  <2> DEFINE h == Head(c.m_sendque)
             q == Tail(c.m_sendque)
             m == Len(c.m_sendque)
  <2>1. d = [c EXCEPT !.m_curSendLen = 0, !.handed = 0, !.asking = PacketLen,
                      !.m_sending = h, !.m_sendque = q]
    BY <1>9
  <2>2. m \in Nat /\ m >= 1 /\ q \in Seq(Nat) /\ Len(q) = m - 1 /\ h = c.m_sendque[1]
        /\ h \in Nat /\ \A i \in 1..(m - 1) : q[i] = c.m_sendque[i + 1]
    <3>1. c.m_sendque \in Seq(Nat) /\ c.m_sendque # <<>>
      BY <1>1, <1>9
    <3> QED
      BY <3>1, QueueTail
  <2>3. m = c.made - c.m_sending /\ \A i \in 1..m : c.m_sendque[i] = c.m_sending + i
    BY <1>2
  <2> HIDE DEF h, q, m
  <2>4. h = c.m_sending + 1 /\ h > 0 /\ h <= c.made
    <3>1. 1 \in 1..m
      BY <2>2
    <3>2. h = c.m_sending + 1
      BY <2>2, <2>3, <3>1
    <3> QED
      BY <1>1, <2>2, <2>3, <3>2
  <2>5. Len(q) = c.made - h
    BY <1>1, <2>2, <2>3, <2>4
  <2>6. \A i \in 1..Len(q) : q[i] = h + i
    <3>1. \A i \in 1..Len(q) : i \in Nat /\ i \in 1..(m - 1) /\ i + 1 \in 1..m
      BY <2>2
    <3>2. \A i \in 1..Len(q) : q[i] = c.m_sending + (i + 1)
      BY <2>2, <2>3, <3>1
    <3>3. \A i \in Nat : c.m_sending + (i + 1) = h + i
      <4> DEFINE s == c.m_sending
      <4>1. h = s + 1 /\ s \in Nat
        BY <1>1, <2>4
      <4> HIDE DEF s
      <4>2. \A i \in Nat : s + (i + 1) = h + i
        BY <4>1
      <4> QED
        BY <4>2 DEF s
    <3> QED
      BY <3>1, <3>2, <3>3
  <2>7. d \in ClientRec
    <3> DEFINE f == [c EXCEPT !.m_curSendLen = 0, !.handed = 0, !.asking = PacketLen,
                              !.m_sending = h, !.m_sendque = q]
    <3>1. f \in ClientRec
      <4>1. PacketLen \in Nat /\ h \in Nat /\ q \in Seq(Nat) /\ 0 \in Nat
        BY <1>1, <2>2
      <4> QED
        BY <4>1, Rewritten
    <3> QED
      BY <2>1, <3>1
  <2>8. /\ d.link = c.link /\ d.m_establish = c.m_establish /\ d.made = c.made
        /\ d.m_curRecvLen = c.m_curRecvLen /\ d.asked = c.asked /\ d.read = c.read
        /\ d.m_sending = h /\ d.m_sendque = q
        /\ d.m_curSendLen = 0 /\ d.handed = 0 /\ d.asking = PacketLen
    BY <2>1 DEF ClientRec
  <2>9. w = (d.m_sending - 1) * PacketLen + d.m_curSendLen + d.handed
    <3>1. d.m_sending - 1 = c.m_sending
      <4>1. h - 1 = c.m_sending
        BY <1>1, <2>4
      <4> QED
        BY <2>8, <4>1
    <3>2. (d.m_sending - 1) * PacketLen = w
      BY <1>7, <1>9, <3>1
    <3>3. w + 0 + 0 = w
      <4>1. w \in Nat
        BY <1>3, <1>4, <1>5
      <4> QED
        BY <4>1
    <3> QED
      BY <2>8, <3>2, <3>3
  <2>10. 0 < PacketLen /\ 0 + 0 <= PacketLen /\ PacketLen = PacketLen - 0
    BY <1>1
  <2>11. Writing(d, w)
    BY <1>2, <2>4, <2>5, <2>6, <2>8, <2>9, <2>10 DEF Writing
  <2> QED
    BY <2>7, <2>8, <2>11
<1> QED
  BY <1>6, <1>8, <1>9

LEMMA OnSendOfClientKeeps ==
  ASSUME PairInv, peer = "client", OnSendOfClient
  PROVE  PairInv'
<1>2. UNCHANGED <<vars, peer, timers, echoes>> /\ client.handed > 0
  BY DEF OnSendOfClient
<1>3. /\ client \in ClientRec /\ Writing(client, written) /\ Reading(client, echoes)
      /\ OneAtATime(client, timers, Len(echoes))
  BY WithClient
<1> DEFINE d == IF client.m_curSendLen + client.handed < PacketLen
                THEN [client EXCEPT !.m_curSendLen = client.m_curSendLen + client.handed,
                                    !.handed = 0,
                                    !.asking = PacketLen - (client.m_curSendLen + client.handed)]
                ELSE IF client.m_sendque = <<>>
                THEN [client EXCEPT !.m_curSendLen = 0, !.handed = 0, !.m_sending = 0]
                ELSE [client EXCEPT !.m_curSendLen = 0, !.handed = 0, !.asking = PacketLen,
                                    !.m_sending = Head(client.m_sendque), !.m_sendque = Tail(@)]
<1>4. client' = d
  BY DEF OnSendOfClient
<1>5. /\ d \in ClientRec /\ Writing(d, written)
      /\ d.link = client.link /\ d.m_establish = client.m_establish /\ d.made = client.made
      /\ d.m_curRecvLen = client.m_curRecvLen /\ d.asked = client.asked /\ d.read = client.read
  BY <1>2, <1>3, NextIsWriting
<1> HIDE DEF d
<1>6. Reading(client', echoes)
  BY <1>3, <1>4, <1>5 DEF Reading
<1>7. OneAtATime(client', timers, Len(echoes))
  BY <1>3, <1>4, <1>5 DEF OneAtATime
<1>8. client' \in ClientRec /\ Writing(client', written)
  BY <1>4, <1>5
<1> QED
  BY <1>2, <1>6, <1>7, <1>8, SessionStill

\* What OnRecv of the client finds in its buffer.
LEMMA EchoFramed ==
  ASSUME RecvInv, SendInv, AllAlike, NEW c \in ClientRec, NEW es, Reading(c, es), c.link = "up",
         NEW n \in 1..c.asked, c.read + n <= Len(out),
         NEW buff, buff = SubSeq(out, c.read - c.m_curRecvLen + 1, c.read + n)
  PROVE  /\ Verdict(Len(es), c.m_curRecvLen + n, buff, CheckBuffIntegrity(buff))
         /\ n \in Nat /\ Len(es) \in Nat
<1> DEFINE e == Len(es)
           L == Len(Upto(e))
           cur == c.m_curRecvLen
<1>1. e \in Nat /\ e <= MaxPackets /\ c.read = L + cur /\ Asks(e, cur, c.asked)
      /\ cur \in Nat /\ c.asked \in Nat /\ c.read \in Nat
  BY ClientFields DEF Reading
<1>2. PacketsOk /\ Len(packets) = MaxPackets /\ MaxPackets \in Nat
  BY AlikeFacts, ClientConstants
<1>3. e \in 0..Len(packets) /\ L \in Nat
  <2>1. e \in 0..Len(packets)
    BY <1>1, <1>2
  <2> HIDE DEF e
  <2>2. Upto(e) \in Seq(Byte)
    BY <1>2, <2>1, UptoIs
  <2> QED
    BY <2>1, <2>2
<1>4. Extends(Stream, out) /\ out \in Seq(Byte) /\ Stream \in Seq(Byte)
  BY OutInStream
<1>5. Len(out) <= Len(Stream) /\ Len(out) \in Nat /\ Len(Stream) \in Nat
  BY <1>4 DEF Extends
<1>6. n \in Nat /\ n >= 1
  BY <1>1
<1> DEFINE m == L + cur + n
<1>7. m \in Nat /\ L <= m /\ m <= Len(out) /\ m <= Len(Stream) /\ c.read - cur = L /\ c.read + n = m
  <2> DEFINE o == Len(out)
             s == Len(Stream)
  <2>1. o \in Nat /\ s \in Nat /\ o <= s /\ c.read + n <= o /\ c.read = L + cur
    BY <1>1, <1>5
  <2> HIDE DEF o, s, L, cur
  <2>2. m \in Nat /\ L <= m /\ m <= o /\ m <= s /\ c.read - cur = L /\ c.read + n = m
    BY <1>1, <1>3, <1>6, <2>1
  <2> QED
    BY <2>2 DEF o, s
<1>8. buff = SubSeq(out, L + 1, m)
  BY <1>7
<1>9. buff = SubSeq(Stream, L + 1, m)
  <2> HIDE DEF m, L
  <2> QED
    BY <1>3, <1>4, <1>7, <1>8, SamePiece
<1>10. Verdict(e, cur + n, buff, CheckBuffIntegrity(buff))
  <2>1. L + cur + n <= Len(Stream) /\ buff = SubSeq(Stream, L + 1, L + cur + n)
    BY <1>7, <1>9
  <2> DEFINE need == c.asked
  <2>2. Asks(e, cur, need) /\ n \in 1..need /\ cur \in Nat /\ e \in 0..Len(packets)
    BY <1>1, <1>3
  <2>3. /\ Len(Upto(e)) + cur + n <= Len(Stream)
        /\ buff = SubSeq(Stream, Len(Upto(e)) + 1, Len(Upto(e)) + cur + n)
    BY <2>1
  <2> HIDE DEF e, cur, need
  <2> QED
    BY <1>2, <2>2, <2>3, Framed
<1> QED
  BY <1>1, <1>6, <1>10

\* What it does with it: no packet of the client's overtakes its echo.
LEMMA ReadsKeep ==
  ASSUME PairInv, peer = "client", Reads
  PROVE  /\ PairInv' /\ client'.link = client.link
         /\ \/ client'.made = client.made /\ Len(echoes') = Len(echoes)
            \/ /\ Len(echoes') = Len(echoes) + 1 /\ Len(echoes') <= client.made
               /\ \/ client'.made = client.made
                  \/ client.made < MaxPackets /\ client'.made = client.made + 1
<1> DEFINE c == client
           es == echoes
           e == Len(echoes)
           cur == client.m_curRecvLen
<1>1. PICK n \in 1..client.asked : client.read + n <= Len(out) /\ OnRecvOfClient(n)
  BY DEF Reads
<1>2. UNCHANGED <<vars, peer>> /\ client.link = "up"
  BY DEF Reads
<1>3. /\ client \in ClientRec /\ Writing(client, written) /\ Reading(client, echoes)
      /\ OneAtATime(client, timers, Len(echoes)) /\ AllAlike /\ RecvInv /\ SendInv
      /\ timers \in Nat /\ timers + client.made <= Len(echoes) + 1 /\ Len(echoes) \in Nat
  BY WithClient
<1> DEFINE buff == SubSeq(out, c.read - c.m_curRecvLen + 1, c.read + n)
           check == CheckBuffIntegrity(buff)
           m == cur + n
           r == c.read + n
<1>4. Verdict(e, m, buff, check) /\ n \in Nat
  BY <1>1, <1>2, <1>3, EchoFramed
<1>5. cur \in Nat /\ c.read \in Nat /\ m \in Nat /\ r \in Nat /\ c.made \in Nat /\ HeadLen \in Nat
      /\ HeadLen >= 1 /\ MaxPackets \in Nat
  BY <1>3, <1>4, ClientFields, ClientConstants, PacketsAssumption
<1>6. PacketsOk /\ Len(packets) = MaxPackets
      /\ \A i \in 1..MaxPackets : packets[i].kind = "echo" /\ Size(i) = PacketLen
  BY <1>3, AlikeFacts
<1>7. c.read = Len(Upto(e)) + cur /\ es \in Seq(Seq(Byte)) /\ \A i \in 1..e : es[i] = Bytes(i)
  BY <1>3 DEF Reading
<1>8. e < MaxPackets /\ e + 1 \in 1..MaxPackets /\ buff \in Seq(Byte) /\ Len(buff) = m /\ m <= Size(e + 1)
  <2>1. e < Len(packets) /\ buff \in Seq(Byte) /\ Len(buff) = m /\ m <= Size(e + 1)
    BY <1>4 DEF Verdict
  <2> HIDE DEF m, buff
  <2>2. e < MaxPackets /\ e + 1 \in 1..MaxPackets
    BY <1>3, <1>5, <1>6, <2>1
  <2> QED
    BY <2>1, <2>2
<1>9. r <= Len(out)
  BY <1>1
<1> DEFINE next == [client EXCEPT !.read = client.read + n, !.m_curRecvLen = 0, !.asked = HeadLen]
<1>10. \/ /\ check.ret = "SHORTAGE"
          /\ client' = [client EXCEPT !.read = r, !.m_curRecvLen = m, !.asked = check.len]
          /\ UNCHANGED <<timers, echoes>>
       \/ /\ check.ret = "SUCCESS"
          /\ echoes' = Append(echoes, buff)
          /\ \/ g_ping_pong /\ client' = SendOnce(next) /\ UNCHANGED timers
             \/ ~g_ping_pong /\ client' = next /\ timers' = timers + 1
  <2>1. \/ /\ check.ret = "SHORTAGE"
           /\ client' = [client EXCEPT !.read = r, !.m_curRecvLen = Len(buff), !.asked = check.len]
           /\ UNCHANGED <<timers, echoes>>
        \/ /\ check.ret = "SUCCESS"
           /\ echoes' = Append(echoes, buff)
           /\ \/ g_ping_pong /\ client' = SendOnce(next) /\ UNCHANGED timers
              \/ ~g_ping_pong /\ client' = next /\ timers' = timers + 1
    BY <1>1 DEF OnRecvOfClient
  <2> HIDE DEF check, buff, next
  <2> QED
    BY <1>8, <2>1
<1>11. CASE /\ check.ret = "SHORTAGE"
            /\ client' = [client EXCEPT !.read = r, !.m_curRecvLen = m, !.asked = check.len]
            /\ UNCHANGED <<timers, echoes>>
  <2> DEFINE need == check.len
  <2> HIDE DEF check, buff
  <2>1. Asks(e, m, need)
    BY <1>4, <1>11 DEF Verdict
  <2>2. need \in Nat
    <3> HIDE DEF e, m, need
    <3> QED
      BY <1>3, <1>5, <1>6, <2>1, AsksNat DEF e
  <2>3. client' = [client EXCEPT !.read = r, !.m_curRecvLen = m, !.asked = need]
    BY <1>11
  <2>4. r = Len(Upto(e)) + m
    <3>1. Len(Upto(e)) \in Nat
      <4>1. e \in 0..Len(packets)
        BY <1>3, <1>6, <1>8
      <4> HIDE DEF e
      <4>2. Upto(e) \in Seq(Byte)
        BY <1>6, <4>1, UptoIs
      <4> QED
        BY <4>2
    <3> QED
      BY <1>4, <1>5, <1>7, <3>1
  <2> HIDE DEF r, m, need
  <2>5. client' \in ClientRec
    BY <1>3, <1>5, <2>2, <2>3 DEF ClientRec
  <2>6. /\ client'.link = client.link /\ client'.m_establish = client.m_establish
        /\ client'.m_curRecvLen = m /\ client'.asked = need
        /\ client'.m_sending = client.m_sending /\ client'.m_curSendLen = client.m_curSendLen
        /\ client'.asking = client.asking /\ client'.m_sendque = client.m_sendque
        /\ client'.made = client.made /\ client'.handed = client.handed
        /\ client'.read = r
    BY <1>3, <2>3 DEF ClientRec
  <2>7. Writing(client', written)
    BY <1>3, <2>6 DEF Writing
  <2>8. Reading(client', echoes)
    BY <1>3, <1>9, <2>1, <2>4, <2>6 DEF Reading
  <2>9. OneAtATime(client', timers, Len(echoes))
    BY <1>3, <2>6 DEF OneAtATime
  <2>10. PairInv'
    BY <1>2, <1>11, <2>5, <2>7, <2>8, <2>9, SessionStill
  <2> QED
    BY <1>11, <2>6, <2>10
<1>12. CASE /\ check.ret = "SUCCESS"
            /\ echoes' = Append(echoes, buff)
            /\ \/ g_ping_pong /\ client' = SendOnce(next) /\ UNCHANGED timers
               \/ ~g_ping_pong /\ client' = next /\ timers' = timers + 1
  <2> HIDE DEF check
  <2>1. packets[e + 1].kind # "malformed"
    BY <1>6, <1>8
  <2>2. buff = Bytes(e + 1) /\ ~Corrupt(packets[e + 1].len) /\ packets[e + 1].len = m /\ m > HeadLen
    BY <1>4, <1>12, <2>1 DEF Verdict
  <2>3. Size(e + 1) = m
    <3>1. Len(Bytes(e + 1)) = Size(e + 1)
      BY <1>6, <1>8, PacketBytes
    <3> HIDE DEF buff
    <3> QED
      BY <1>8, <2>2, <3>1
  <2>4. Len(echoes') = e + 1 /\ echoes' \in Seq(Seq(Byte)) /\ \A i \in 1..(e + 1) : echoes'[i] = Bytes(i)
    <3>1. buff \in Seq(Byte) /\ buff = Bytes(e + 1) /\ echoes' = Append(echoes, buff)
      BY <1>8, <1>12, <2>2
    <3> DEFINE S == Seq(Byte)
    <3> HIDE DEF buff, S
    <3>2. /\ echoes \in Seq(S) /\ buff \in S
      BY <1>7, <3>1 DEF S
    <3>3. /\ Len(echoes') = e + 1 /\ echoes' \in Seq(S) /\ echoes'[e + 1] = buff
          /\ \A i \in 1..e : echoes'[i] = echoes[i]
      BY <3>1, <3>2
    <3>4. \A i \in 1..(e + 1) : i \in 1..e \/ i = e + 1
      BY <1>3
    <3>5. \A i \in 1..(e + 1) : echoes'[i] = Bytes(i)
      BY <1>7, <3>1, <3>3, <3>4
    <3> QED
      BY <3>3, <3>5 DEF S
  <2>5. r = Len(Upto(e + 1)) + 0 /\ Len(Upto(e + 1)) \in Nat
    <3>1. e \in 0..(Len(packets) - 1) /\ 0 \in 0..Size(e + 1)
      BY <1>3, <1>5, <1>6, <1>8, <2>3
    <3>2. Len(Upto(e)) \in Nat /\ Len(Upto(e + 1)) = Len(Upto(e)) + Size(e + 1)
      <4> HIDE DEF e
      <4> QED
        BY <1>6, <3>1, InStream
    <3>3. r = Len(Upto(e)) + m
      BY <1>4, <1>5, <1>7, <3>2
    <3> HIDE DEF r, m
    <3> QED
      BY <1>5, <2>3, <3>2, <3>3
  <2>6. next = [client EXCEPT !.read = r, !.m_curRecvLen = 0, !.asked = HeadLen]
    OBVIOUS
  <2>18. next.read = client.read + n /\ next.read = r
    BY <1>3 DEF ClientRec
  <2> HIDE DEF r, m, next, buff
  <2>7. next \in ClientRec
    BY <1>3, <1>5, <2>6 DEF ClientRec
  <2>8. /\ next.link = client.link /\ next.m_establish = client.m_establish
        /\ next.m_curRecvLen = 0 /\ next.asked = HeadLen
        /\ next.m_sending = client.m_sending /\ next.m_curSendLen = client.m_curSendLen
        /\ next.asking = client.asking /\ next.m_sendque = client.m_sendque
        /\ next.made = client.made /\ next.handed = client.handed
        /\ next.read = r
    BY <1>3, <2>6 DEF ClientRec
  <2>9. Writing(next, written)
    BY <1>3, <2>8 DEF Writing
  <2>10. Asks(e + 1, 0, HeadLen)
    BY <1>5 DEF Asks
  <2>11. e + 1 <= MaxPackets
    BY <1>3, <1>5, <1>8
  <2>12. \A d : d.link = next.link /\ d.read = next.read /\ d.m_curRecvLen = next.m_curRecvLen
                  /\ d.asked = next.asked => Reading(d, echoes')
    BY <1>9, <2>4, <2>5, <2>8, <2>10, <2>11 DEF Reading
  <2>15. Len(echoes') <= client.made
    <3>1. Reading(next, echoes')
      BY <2>12
    <3>2. Len(echoes') <= next.made
      BY <1>3, <2>7, <2>9, <3>1, ReadMade
    <3> QED
      BY <2>8, <3>2
  <2>13. CASE client' = SendOnce(next) /\ UNCHANGED timers
    <3>1. /\ client' \in ClientRec /\ Writing(client', written)
          /\ client'.made = IF next.made = MaxPackets THEN next.made ELSE next.made + 1
          /\ client'.link = next.link /\ client'.m_establish = next.m_establish
          /\ client'.read = next.read /\ client'.m_curRecvLen = next.m_curRecvLen
          /\ client'.asked = next.asked
      BY <2>7, <2>9, <2>13, SendOnceKeeps
    <3>2. Reading(client', echoes')
      BY <2>12, <3>1
    <3>3. client'.made \in Nat /\ client'.made <= c.made + 1
      BY <1>5, <2>8, <3>1
    <3>4. timers' \in Nat /\ timers' + client'.made <= Len(echoes') + 1
      BY <1>3, <1>5, <2>4, <2>13, <3>3
    <3>5. OneAtATime(client', timers', Len(echoes'))
      BY <1>2, <2>8, <3>1, <3>4 DEF OneAtATime
    <3>6. PairInv'
      BY <1>2, <3>1, <3>2, <3>5, SessionStill
    <3>7. client.made <= MaxPackets
      BY <1>3 DEF Writing
    <3>8. client'.made = client.made \/ (client.made < MaxPackets /\ client'.made = client.made + 1)
      BY <1>5, <2>8, <3>1, <3>7
    <3> QED
      BY <2>4, <2>8, <2>15, <3>1, <3>6, <3>8
  <2>14. CASE client' = next /\ timers' = timers + 1
    <3>2. Reading(client', echoes')
      BY <2>12, <2>14
    <3>4. timers' \in Nat /\ timers' + client'.made <= Len(echoes') + 1
      BY <1>3, <1>5, <2>4, <2>8, <2>14
    <3>5. OneAtATime(client', timers', Len(echoes'))
      BY <1>2, <2>8, <2>14, <3>4 DEF OneAtATime
    <3>6. PairInv'
      BY <1>2, <2>7, <2>9, <2>14, <3>2, <3>5, SessionStill
    <3> QED
      BY <2>4, <2>8, <2>14, <2>15, <3>6
  <2> QED
    BY <1>12, <2>13, <2>14
<1> QED
  BY <1>10, <1>11, <1>12

-----------------------------------------------------------------------------
(* The steps of the session, and all together *)

LEMMA SendInit ==
  ASSUME PacketsOk, parsed = <<>>, out = <<>>, m_sendque = <<>>, m_curSendLen = 0, asking = 0,
         m_sending = [len |-> 0, orgdata |-> [i \in 1..BufLen |-> <<0, 0>>]]
  PROVE  SendInv
<1> DEFINE org == [i \in 1..BufLen |-> <<0, 0>>]
<1>1. BufLen \in Nat
  BY PacketsAssumption
<1>2. <<0, 0>> \in Byte
  BY DEF Byte
<1>3. org \in Seq(Byte) /\ Len(org) = BufLen
  BY <1>1, <1>2
<1> HIDE DEF org
<1>4. m_sending.len = 0 /\ m_sending.orgdata = org
  BY DEF org
<1>5. m_sending \in Sending
  BY <1>3 DEF Sending, org
<1>6. Answers(parsed) = <<>>
  <2>1. [i \in DOMAIN parsed |-> Answer(parsed[i])] = <<>>
    OBVIOUS
  <2> QED
    BY <2>1, FlattenEmpty DEF Answers
<1>7. SubSeq(org, 0 + 1, 0) = <<>> /\ <<>> \in Seq(Byte)
  BY <1>3, EmptyJoins
<1>8. AnswersExact
  <2>1. SubSeq(m_sending.orgdata, m_curSendLen + 1, m_sending.len) = <<>>
    BY <1>4, <1>7
  <2>2. FlattenSeq(m_sendque) = <<>>
    BY FlattenEmpty
  <2>3. <<>> \o <<>> = <<>>
    BY <1>7, EmptyJoins
  <2> QED
    BY <1>6, <2>1, <2>2, <2>3 DEF AnswersExact
<1>9. m_sendque \in Seq(Seq(Byte)) /\ out \in Seq(Byte) /\ \A i \in 1..Len(m_sendque) : FALSE
  OBVIOUS
<1> QED
  BY <1>1, <1>3, <1>4, <1>5, <1>8, <1>9 DEF SendInv

LEMMA StreamsOk ==
  ASSUME packets \in Streams
  PROVE  PacketsOk
BY PacketsAssumption DEF PacketsOk

LEMMA PairInitial ==
  ASSUME PairInit
  PROVE  PairInv
<1>1. /\ peer \in {"client", "any"} /\ client = NewClient /\ timers = 0 /\ echoes = <<>>
      /\ peer = "any" => packets \in Streams
      /\ peer = "client" => AllAlike
      /\ written = 0 /\ taken = 0 /\ m_curRecvLen = 0 /\ asked = HeadLen
      /\ m_sending = [len |-> 0, orgdata |-> [i \in 1..BufLen |-> <<0, 0>>]]
      /\ m_curSendLen = 0 /\ asking = 0 /\ m_sendque = <<>>
      /\ open = TRUE /\ parsed = <<>> /\ out = <<>>
  BY DEF PairInit, Init, AllAlike
<1>2. PacketsOk
  BY <1>1, StreamsOk, AlikeFacts
<1>3. RecvInv
  BY <1>1, <1>2, RecvInit
<1>4. SendInv
  BY <1>1, <1>2, SendInit
<1>5. client \in ClientRec
  BY <1>1 DEF NewClient, ClientRec, Links
<1>6. Writing(client, written)
  <2>1. 0 * PacketLen = 0 /\ 0 <= MaxPackets
    BY ClientConstants
  <2> QED
    BY <1>1, <2>1 DEF NewClient, Writing
<1>7. Reading(client, echoes)
  <2>1. Upto(0) = <<>>
    <3>1. PacketsOk /\ 0 \in 0..Len(packets)
      BY <1>2 DEF PacketsOk
    <3> QED
      BY <3>1, UptoIs
  <2>2. echoes \in Seq(Seq(Byte)) /\ Len(echoes) = 0 /\ Len(out) = 0
    BY <1>1
  <2>3. Len(Upto(Len(echoes))) = 0
    BY <2>1, <2>2
  <2>4. 0 <= MaxPackets
    BY ClientConstants
  <2> QED
    BY <1>1, <2>2, <2>3, <2>4 DEF NewClient, Reading
<1>8. OneAtATime(client, timers, Len(echoes))
  BY <1>1 DEF NewClient, OneAtATime
<1> QED
  BY <1>1, <1>3, <1>4, <1>5, <1>6, <1>7, <1>8 DEF PairInv, ClientInv

\* The session's steps are none of the client's: it only finds more to read.
LEMMA ClientStill ==
  ASSUME ClientInv, UNCHANGED <<packets, clientVars>>, peer = "client" => written' = written,
         peer = "client" => Len(out) \in Nat /\ Len(out') \in Nat /\ Len(out) <= Len(out'),
         peer = "client" => PacketsOk
  PROVE  ClientInv'
<1>1. UNCHANGED <<packets, peer, client, timers, echoes>>
  BY DEF clientVars
<1>2. CASE peer = "any"
  BY <1>1, <1>2 DEF ClientInv
<1>3. CASE peer = "client"
  <2>1. /\ client \in ClientRec /\ AllAlike /\ Writing(client, written)
        /\ Reading(client, echoes) /\ OneAtATime(client, timers, Len(echoes))
    BY <1>3 DEF ClientInv
  <2>2. /\ client' \in ClientRec /\ AllAlike' /\ Writing(client, written)'
        /\ OneAtATime(client, timers, Len(echoes))'
    BY <1>1, <1>3, <2>1 DEF AllAlike, Writing, OneAtATime
  <2>3. client'.read <= Len(out')
    <3>1. client.read \in Nat /\ client.read <= Len(out)
      BY <2>1, ClientFields DEF Reading
    <3>2. client.read <= Len(out')
      BY <1>3, <3>1
    <3> QED
      BY <1>1, <3>2
  <2>4. Reading(client, echoes)'
    BY <1>1, <2>1, <2>3 DEF Reading, Upto, Bytes, Size, Asks
  <2> QED
    BY <1>1, <1>3, <2>2, <2>4 DEF ClientInv
<1> QED
  BY <1>2, <1>3 DEF ClientInv

LEMMA OutGrows ==
  ASSUME SendInv, SocketSends
  PROVE  Len(out) \in Nat /\ Len(out') \in Nat /\ Len(out) <= Len(out')
<1> DEFINE len == m_sending.len
           org == m_sending.orgdata
           cur == m_curSendLen
<1>1. PICK n \in 1..asking : OnSend(n)
  BY DEF SocketSends
<1>2. /\ len \in Nat /\ org \in Seq(Byte) /\ Len(org) = BufLen /\ len <= BufLen
      /\ cur \in Nat /\ asking = len - cur /\ out \in Seq(Byte) /\ BufLen \in Nat
  BY SendingFields, PacketsAssumption DEF SendInv
<1> DEFINE x == SubSeq(org, cur + 1, cur + n)
<1>3. out' = out \o x
  BY <1>1 DEF OnSend
<1> HIDE DEF len, org, cur
<1>4. cur + n \in Nat /\ cur <= cur + n /\ cur + n <= Len(org)
  BY <1>2
<1>5. x \in Seq(Byte)
  <2> DEFINE e == cur + n
  <2>1. e \in Nat /\ cur <= e /\ e <= Len(org)
    BY <1>4
  <2> HIDE DEF e
  <2>2. SubSeq(org, cur + 1, e) \in Seq(Byte)
    BY <1>2, <2>1, Piece
  <2> QED
    BY <2>2 DEF e
<1> HIDE DEF x
<1>6. Len(out \o x) = Len(out) + Len(x) /\ Len(out) \in Nat /\ Len(x) \in Nat
  BY <1>2, <1>5, Joined
<1> QED
  BY <1>3, <1>6

LEMMA SameAnswersKept ==
  ASSUME packets' = packets
  PROVE  SameAnswers' = SameAnswers
BY DEF SameAnswers, Echoed

LEMMA PairStep ==
  ASSUME PairInv, [PairNext]_pairVars
  PROVE  PairInv'
<1>1. RecvInv /\ ClientInv /\ (SameAnswers => SendInv) /\ PacketsOk
  BY DEF PairInv, RecvInv
<1>2. CASE UNCHANGED pairVars \/ (PeerCloses /\ UNCHANGED clientVars)
           \/ (peer = "any" /\ PeerWrites /\ UNCHANGED clientVars)
  <2>1. UNCHANGED <<packets, taken, m_curRecvLen, asked, parsed, out>> /\ UNCHANGED sendVars
        /\ UNCHANGED clientVars
    BY <1>2 DEF pairVars, vars, PeerCloses, PeerWrites, recvVars
  <2>2. written \in Nat /\ written <= Len(Stream) /\ open \in BOOLEAN /\ Len(Stream) \in Nat
    <3>1. Len(packets) \in 0..Len(packets)
      BY <1>1 DEF PacketsOk
    <3>2. Stream \in Seq(Byte)
      BY <1>1, <3>1, UptoIs
    <3> QED
      BY <1>1, <3>2 DEF RecvInv
  <2>3. /\ written' \in Nat /\ written <= written' /\ written' <= Len(Stream)
        /\ peer = "client" => written' = written
    <3>1. CASE written' = written
      BY <2>2, <3>1
    <3>2. CASE peer = "any" /\ written' \in (written + 1)..Len(Stream)
      BY <2>2, <3>2
    <3> QED
      BY <1>2, <3>1, <3>2 DEF pairVars, vars, PeerCloses, PeerWrites
  <2>4. open' \in BOOLEAN /\ (open' => open)
    <3>1. open' = open \/ open' = FALSE
      BY <1>2 DEF pairVars, vars, PeerCloses, PeerWrites
    <3>2. open' = open => open' \in BOOLEAN /\ (open' => open)
      BY <2>2
    <3>3. open' = FALSE => open' \in BOOLEAN /\ (open' => open)
      OBVIOUS
    <3> QED
      BY <3>1, <3>2, <3>3
  <2>5. RecvInv'
    BY <1>1, <2>1, <2>3, <2>4, RecvKept
  <2>6. Answers(parsed)' = Answers(parsed)
    BY <2>1 DEF Answers, Answer
  <2>7. SameAnswers' => SendInv'
    BY <1>1, <2>1, <2>6, SendKept, SameAnswersKept
  <2>8. peer = "client" => Len(out) \in Nat /\ Len(out') \in Nat /\ Len(out) <= Len(out')
    <3>1. peer = "client" => out \in Seq(Byte)
      BY <1>1, AlikeFacts DEF ClientInv, SendInv
    <3> QED
      BY <2>1, <3>1
  <2>9. ClientInv'
    BY <1>1, <2>1, <2>3, <2>8, ClientStill
  <2> QED
    BY <2>1, <2>5, <2>7, <2>9 DEF PairInv, clientVars
<1>3. CASE SocketSends /\ UNCHANGED clientVars
  <2>1. UNCHANGED <<packets, taken, m_curRecvLen, asked, parsed, written, open>>
    BY <1>3 DEF SocketSends, recvVars
  <2>2. RecvInv'
    BY <1>1, <2>1, RecvKept DEF RecvInv
  <2>3. SameAnswers' => SendInv'
    BY <1>1, <1>3, <2>1, SendsKeep, SameAnswersKept
  <2>4. peer = "client" => Len(out) \in Nat /\ Len(out') \in Nat /\ Len(out) <= Len(out')
    BY <1>1, <1>3, AlikeFacts, OutGrows DEF ClientInv
  <2>5. ClientInv'
    BY <1>1, <1>3, <2>1, <2>4, ClientStill
  <2> QED
    BY <1>3, <2>1, <2>2, <2>3, <2>5 DEF PairInv, clientVars
<1>4. CASE SocketReceives /\ UNCHANGED clientVars
  <2>1. UNCHANGED <<packets, written, out>>
    BY <1>4 DEF SocketReceives
  <2>2. RecvInv'
    BY <1>1, <1>4, ReceivesKeep
  <2>3. SameAnswers' => SendInv'
    BY <1>1, <1>4, <2>1, AnswersKeep, SameAnswersKept
  <2>4. peer = "client" => Len(out) \in Nat /\ Len(out') \in Nat /\ Len(out) <= Len(out')
    <3>1. peer = "client" => out \in Seq(Byte)
      BY <1>1, AlikeFacts DEF ClientInv, SendInv
    <3> QED
      BY <2>1, <3>1
  <2>5. ClientInv'
    BY <1>1, <1>4, <2>1, <2>4, ClientStill
  <2> QED
    BY <1>4, <2>1, <2>2, <2>3, <2>5 DEF PairInv, clientVars
<1>5. CASE Client
  BY <1>5, MakeClientKeeps, OnConnectKeeps, OnTimerKeeps, ClosesKeep, WritesKeep,
     OnSendOfClientKeeps, ReadsKeep DEF Client
<1> QED
  BY <1>2, <1>3, <1>4, <1>5 DEF PairNext

\* PairInv is inductive.
LEMMA PairAlways == PairSpec => []PairInv
<1>1. PairInit => PairInv
  BY PairInitial
<1>2. PairInv /\ [PairNext]_pairVars => PairInv'
  BY PairStep
<1> QED
  BY <1>1, <1>2, PTL DEF PairSpec

-----------------------------------------------------------------------------
(* The theorems *)

\* However recv() cuts the stream of any peer, CheckBuffIntegrity hands MessageEntry
\* the packets whole and in order (Client.cpp, CClient::OnRecv).
THEOREM FramesPackets == PairSpec => []PacketsFramed
<1>1. PairInv => PacketsFramed
  BY DEF PairInv, RecvInv
<1> QED
  BY <1>1, PairAlways, PTL

\* Every packet of a stream that is echoed is as long as the others: OnSend does not
\* set the length of the next packet.
EqualAnswers ==
    \A ps \in Streams : \A i, j \in 1..Len(ps) :
        /\ ps[i].kind = "echo" /\ ~Corrupt(ps[i].len)
        /\ ps[j].kind = "echo" /\ ~Corrupt(ps[j].len)
        => ps[i].len = ps[j].len

\* Under EqualAnswers what the session has sent, has in m_sending and in m_sendque are
\* together the answers to what it parsed, through any cuts of send() (Client.cpp,
\* CClient::Send and OnSend).
THEOREM AnswersAreExact == EqualAnswers => (PairSpec => []AnswersExact)
<1> SUFFICES ASSUME EqualAnswers PROVE PairSpec => []AnswersExact
  OBVIOUS
<1>1. ASSUME PairInv PROVE AnswersExact
  <2>1. CASE peer = "any"
    <3>1. packets \in Streams
      BY <1>1, <2>1 DEF PairInv
    <3>2. SameAnswers
      BY <3>1 DEF EqualAnswers, SameAnswers, Echoed
    <3> QED
      BY <1>1, <3>2 DEF PairInv, SendInv
  <2>2. CASE peer = "client"
    BY <1>1, <2>2, WithClient DEF SendInv
  <2> QED
    BY <1>1, <2>1, <2>2 DEF PairInv, ClientInv
<1> QED
  BY <1>1, PairAlways, PTL

\* The client's OnSend and SendOnce write packet behind packet, and what its
\* MessageEntry is given are its own packets, in order (main.cpp of zsummer_client).
THEOREM EchoesAreTrue == PairSpec => []EchoesTrue
<1>1. ASSUME PairInv PROVE EchoesTrue
  <2>1. ASSUME peer = "client"
        PROVE  /\ client.m_sending # 0 =>
                    written = (client.m_sending - 1) * PacketLen
                               + client.m_curSendLen + client.handed
               /\ \A i \in 1..Len(echoes) : echoes[i] = Bytes(i)
    <3>1. Writing(client, written) /\ Reading(client, echoes) /\ client \in ClientRec
      BY <1>1, <2>1, WithClient
    <3>2. client.m_sending \in Nat
      BY <3>1, ClientFields
    <3> QED
      BY <3>1, <3>2 DEF Writing, Reading
  <2> QED
    BY <2>1 DEF EchoesTrue
<1> QED
  BY <1>1, PairAlways, PTL


\* The connection of PingPong.
Alive == peer = "client" /\ open /\ client.link \notin {"refused", "stuck"}

\* A step of client and session is one of ping-pong, or changes nothing that PingPong
\* speaks of.
LEMMA RoundStep ==
  ASSUME PairInv, PairInv', [PairNext]_pairVars
  PROVE  [Rounds!Next]_(Rounds!vars)
<1> DEFINE made == client.made
           e == Len(echoes)
<1>1. client \in ClientRec /\ peer \in {"client", "any"} /\ open' \in BOOLEAN
  BY DEF PairInv, ClientInv, RecvInv
<1>2. ASSUME client'.made = client.made, Len(echoes') = Len(echoes), Alive' => Alive
      PROVE  [Rounds!Next]_(Rounds!vars)
  <2>1. CASE Alive /\ ~Alive'
    BY <1>2, <2>1, Zenon DEF Rounds!vars, Rounds!Next, Rounds!Break, Alive
  <2>2. CASE Alive <=> Alive'
    BY <1>2, <2>2, Zenon DEF Rounds!vars, Alive
  <2> QED
    BY <1>2, <2>1, <2>2
<1>3. CASE UNCHANGED clientVars
  <2>1. client' = client /\ echoes' = echoes /\ peer' = peer
    BY <1>3 DEF clientVars
  <2>2. \/ open' = open \/ open' = FALSE \/ open
    BY DEF PairNext, pairVars, vars, PeerWrites, PeerCloses, SocketSends, SocketReceives, Client,
           MakeClient, OnConnect, OnTimer, OnClose, Writes, OnSendOfClient, Reads, LinkCloses
  <2>3. Alive' => Alive
    BY <2>1, <2>2, Zenon DEF Alive
  <2> QED
    BY <1>2, <2>1, <2>3
<1>4. CASE Client
  <2>0. peer = "client" /\ UNCHANGED <<peer, open>>
    BY <1>4 DEF Client, MakeClient, OnConnect, OnTimer, OnClose, Writes, OnSendOfClient, Reads,
                LinkCloses, vars
  <2>1. /\ Writing(client, written) /\ client.made \in Nat /\ client.made <= MaxPackets
        /\ MaxPackets \in Nat /\ Len(echoes) \in Nat /\ Len(echoes) <= client.made
        /\ timers \in Nat /\ timers + client.made <= Len(echoes) + 1
    BY <1>1, <2>0, WithClient, ClientFields, ClientConstants DEF Writing
  <2>2. ASSUME client'.link = client.link \/ client.link \notin {"refused", "stuck"}
        PROVE  Alive' => Alive
    BY <2>0, <2>2, Zenon DEF Alive
  <2>3. CASE MakeClient \/ OnConnect \/ Writes \/ LinkCloses \/ OnClose
    <3>1. client'.made = client.made /\ echoes' = echoes
      BY <1>1, <2>3 DEF MakeClient, OnConnect, Writes, LinkCloses, OnClose, ClientRec
    <3>2. client.link \notin {"refused", "stuck"}
      BY <2>3 DEF MakeClient, OnConnect, Writes, LinkCloses, OnClose
    <3> QED
      BY <1>2, <2>2, <3>1, <3>2
  <2>4. CASE OnSendOfClient
    <3>1. client'.made = client.made /\ echoes' = echoes
      BY <1>1, <2>4 DEF OnSendOfClient, ClientRec
    <3>2. client.link \notin {"refused", "stuck"}
      BY <2>4 DEF OnSendOfClient
    <3> QED
      BY <1>2, <2>2, <3>1, <3>2
  <2>5. CASE OnTimer
    <3>1. echoes' = echoes /\ timers > 0
      BY <2>5 DEF OnTimer
    <3>2. CASE client' = client
      BY <1>2, <2>2, <3>1, <3>2
    <3>3. CASE client' = SendOnce(client)
      <4>1. /\ client'.made = IF client.made = MaxPackets THEN client.made ELSE client.made + 1
            /\ client'.link = client.link
        BY <1>1, <2>1, <3>3, SendOnceKeeps
      <4>2. CASE client.made = MaxPackets
        BY <1>2, <2>2, <3>1, <4>1, <4>2
      <4>3. CASE client.made # MaxPackets
        <5>1. /\ client.made < MaxPackets /\ Len(echoes) = client.made
              /\ client'.made = client.made + 1 /\ Len(echoes') = Len(echoes)
          BY <2>1, <3>1, <4>1, <4>3
        <5>2. Alive' = Alive
          BY <2>0, <4>1 DEF Alive
        <5> QED
          BY <5>1, <5>2 DEF Rounds!Next, Rounds!Ping, Alive
      <4> QED
        BY <4>2, <4>3
    <3> QED
      BY <2>5, <3>2, <3>3 DEF OnTimer
  <2>6. CASE Reads
    <3>1. /\ client'.link = client.link
          /\ \/ client'.made = client.made /\ Len(echoes') = Len(echoes)
             \/ /\ Len(echoes') = Len(echoes) + 1 /\ Len(echoes') <= client.made
                /\ \/ client'.made = client.made
                   \/ client.made < MaxPackets /\ client'.made = client.made + 1
      BY <2>0, <2>6, ReadsKeep
    <3>2. Alive' = Alive
      BY <2>0, <3>1 DEF Alive
    <3>3. CASE client'.made = client.made /\ Len(echoes') = Len(echoes)
      BY <1>2, <3>2, <3>3
    <3>4. CASE /\ Len(echoes') = Len(echoes) + 1 /\ Len(echoes') <= client.made
               /\ client'.made = client.made
      <4>1. Len(echoes) < client.made
        BY <2>1, <3>4
      <4> QED
        BY <3>2, <3>4, <4>1 DEF Rounds!Next, Rounds!Pong, Alive
    <3>5. CASE /\ Len(echoes') = Len(echoes) + 1 /\ Len(echoes') <= client.made
               /\ client.made < MaxPackets /\ client'.made = client.made + 1
      <4>1. /\ Len(echoes) < client.made /\ Len(echoes) + 1 = client.made
        <5> DEFINE m == client.made
                   n == Len(echoes)
        <5>1. m \in Nat /\ n \in Nat /\ n + 1 <= m /\ timers \in Nat /\ timers + m <= n + 1
          BY <2>1, <3>5
        <5> HIDE DEF m, n
        <5>2. n < m /\ n + 1 = m
          BY <5>1
        <5> QED
          BY <5>2 DEF m, n
      <4> QED
        BY <3>2, <3>5, <4>1 DEF Rounds!Next, Rounds!PongPing, Alive
    <3> QED
      BY <3>1, <3>3, <3>4, <3>5
  <2> QED
    BY <1>4, <2>3, <2>4, <2>5, <2>6 DEF Client
<1> QED
  BY <1>3, <1>4 DEF PairNext, pairVars

\* Client and session implement PingPong, but for its Progress: no packet is made
\* before the echo of the one before was parsed (main.cpp:99, 132, 157).
THEOREM PlaysPingPong == PairSpec => Rounds!Init /\ [][Rounds!Next]_(Rounds!vars)
<1>1. PairInit => Rounds!Init
  <2> SUFFICES ASSUME PairInit PROVE Rounds!Init
    OBVIOUS
  <2>1. client.made = 0 /\ Len(echoes) = 0
    BY DEF PairInit, NewClient
  <2>2. Alive \in BOOLEAN
    BY Zenon DEF Alive
  <2> QED
    BY <2>1, <2>2 DEF Rounds!Init, Alive
<1>2. PairInv /\ PairInv' /\ [PairNext]_pairVars => [Rounds!Next]_(Rounds!vars)
  BY RoundStep
<1> QED
  BY <1>1, <1>2, PairAlways, PTL DEF PairSpec

=============================================================================
