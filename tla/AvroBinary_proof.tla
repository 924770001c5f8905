-------------------------- MODULE AvroBinary_proof --------------------------
(* Whatever value of whatever schema is encoded, reading the encoding gives *)
(* the value back and leaves the bytes that follow; an encoding that is cut *)
(* short cannot be read.  The definitions recur over numbers, lists of      *)
(* encodings and bytes, and the provers take no operator parameter, so      *)
(* induction and the existence of recursive functions are stated here of    *)
(* sets and functions.  Then come varints, parts one after the other,       *)
(* arrays and records, the schemas level by level, and the other way: what  *)
(* is read from any bytes is a value of the schema.  Last are the schemas   *)
(* in use, with the values they have.                                       *)
EXTENDS Codec, SequenceTheorems, WellFoundedInduction, TLAPS

-----------------------------------------------------------------------------
(* Induction and recursion.                                                  *)

\* Induction over the natural numbers, stated of a set: the smallest number
\* outside T would have a predecessor in T.
LEMMA Induction ==
    ASSUME NEW T \in SUBSET Nat, 0 \in T, \A n \in T : n + 1 \in T
    PROVE  \A n \in Nat : n \in T
<1>1. SUFFICES ASSUME Nat \ T # {} PROVE FALSE
  OBVIOUS
<1>2. IsWellFoundedOn(OpToRel(<, Nat), Nat)
  BY NatLessThanWellFounded, Zenon
<1>3. PICK x \in Nat \ T : \A y \in Nat \ T : ~(<<y, x>> \in OpToRel(<, Nat))
  BY <1>1, <1>2, WFMin, Nat \ T \subseteq Nat, Zenon
<1>4. \A y \in Nat \ T : ~(y < x)
  BY <1>3 DEF OpToRel
<1>5. x # 0 /\ x - 1 \in Nat
  OBVIOUS
<1>6. x - 1 \in T
  BY <1>4, <1>5
<1>7. (x - 1) + 1 \in T
  BY <1>6
<1> QED
  BY <1>5, <1>7

\* What applying G again and again gives is a function on the natural numbers.
LEMMA Iterates ==
    ASSUME NEW S, NEW a \in S, NEW G \in [S -> S]
    PROVE  \E F \in [Nat -> S] : F[0] = a /\ \A n \in Nat : F[n + 1] = G[F[n]]
<1> DEFINE Begins(h, n) == h \in [0..n -> S] /\ h[0] = a
           Steps(h, n) == \A i \in 0..(n - 1) : h[i + 1] = G[h[i]]
           Upto(n) == {h \in [0..n -> S] : Begins(h, n) /\ Steps(h, n)}
<1>1. \A n \in Nat : Upto(n) # {}
  <2> DEFINE T == {n \in Nat : Upto(n) # {}}
  <2>1. 0 \in T
    <3>1. [i \in 0..0 |-> a] \in Upto(0)
      OBVIOUS
    <3> QED
      BY <3>1
  <2>2. ASSUME NEW n \in T PROVE n + 1 \in T
    <3>1. PICK h : h \in Upto(n)
      BY <2>2
    <3> DEFINE k == [i \in 0..(n + 1) |-> IF i = n + 1 THEN G[h[n]] ELSE h[i]]
    <3>2. k \in [0..(n + 1) -> S] /\ k[0] = a
      BY <3>1
    <3>3. Steps(k, n + 1)
      BY <3>1
    <3>4. k \in Upto(n + 1)
      BY <3>2, <3>3
    <3> QED
      BY <3>4
  <2>3. T \in SUBSET Nat
    OBVIOUS
  <2> HIDE DEF T
  <2>4. \A n \in Nat : n \in T
    BY <2>1, <2>2, <2>3, Induction
  <2> QED
    BY <2>4 DEF T
<1>2. ASSUME NEW n \in Nat, NEW m \in Nat, NEW h \in Upto(n), NEW k \in Upto(m)
      PROVE  \A i \in Nat : i <= n /\ i <= m => h[i] = k[i]
  <2> DEFINE T == {i \in Nat : i <= n /\ i <= m => h[i] = k[i]}
  <2>1. 0 \in T
    BY <1>2
  <2>2. ASSUME NEW i \in T PROVE i + 1 \in T
    BY <1>2, <2>2
  <2>3. T \in SUBSET Nat
    OBVIOUS
  <2> HIDE DEF T
  <2>4. \A i \in Nat : i \in T
    BY <2>1, <2>2, <2>3, Induction
  <2> QED
    BY <2>4 DEF T
<1> DEFINE H == [n \in Nat |-> CHOOSE h : h \in Upto(n)]
           F == [n \in Nat |-> H[n][n]]
<1> HIDE DEF Upto
<1>3. \A n \in Nat : H[n] \in Upto(n)
  BY <1>1
<1> HIDE DEF H
<1>4. \A n \in Nat : H[n][n] \in S /\ H[0][0] = a
  BY <1>3 DEF Upto
<1>5. ASSUME NEW n \in Nat PROVE H[n + 1][n + 1] = G[H[n][n]]
  <2>1. H[n + 1][n] = H[n][n]
    BY <1>2, <1>3, n + 1 \in Nat, n <= n + 1
  <2>2. H[n + 1][n + 1] = G[H[n + 1][n]]
    BY <1>3, n + 1 \in Nat, n \in 0..((n + 1) - 1) DEF Upto
  <2> QED
    BY <2>1, <2>2
<1>6. F \in [Nat -> S] /\ F[0] = a /\ \A n \in Nat : F[n + 1] = G[F[n]]
  BY <1>4, <1>5
<1> QED
  BY <1>6

\* What step makes of a function at x depends only on its values where the
\* measure m is smaller.
Recursive(D, S, m, step) ==
    /\ S # {}
    /\ \A x \in D : m[x] \in Nat
    /\ step \in [[D -> S] -> [D -> S]]
    /\ \A g, h \in [D -> S] : \A x \in D :
          (\A y \in D : m[y] < m[x] => g[y] = h[y]) => step[g][x] = step[h][x]

\* Such a recursion has a solution: iterated from anywhere, step settles the
\* value at x once it was applied more often than the measure of x.
LEMMA Recursion ==
    ASSUME NEW D, NEW S, NEW m, NEW step, Recursive(D, S, m, step)
    PROVE  \E f \in [D -> S] : f = step[f]
<1>1. PICK W : W = [D -> S]
  OBVIOUS
<1>2. W # {}
  <2>1. PICK s : s \in S
    BY DEF Recursive
  <2>2. [x \in D |-> s] \in W
    BY <1>1, <2>1
  <2> QED
    BY <2>2
<1>3. /\ \A x \in D : m[x] \in Nat
      /\ step \in [W -> W]
      /\ \A g, h \in W : \A x \in D :
          (\A y \in D : m[y] < m[x] => g[y] = h[y]) => step[g][x] = step[h][x]
  BY <1>1 DEF Recursive
<1>4. PICK F \in [Nat -> W] : \A n \in Nat : F[n + 1] = step[F[n]]
  <2>1. PICK a : a \in W
    BY <1>2
  <2>2. step \in [W -> W]
    BY <1>3
  <2>3. \E F \in [Nat -> W] : F[0] = a /\ \A n \in Nat : F[n + 1] = step[F[n]]
    BY ONLY <2>1, <2>2, Iterates
  <2> QED
    BY <2>3
<1>5. \A n \in Nat : \A x \in D : m[x] < n => F[n + 1][x] = F[n][x]
  <2> DEFINE T == {n \in Nat : \A x \in D : m[x] < n => F[n + 1][x] = F[n][x]}
  <2>1. 0 \in T
    BY <1>3
  <2>2. ASSUME NEW n \in T PROVE n + 1 \in T
    <3> SUFFICES ASSUME NEW x \in D, m[x] < n + 1
                 PROVE  F[(n + 1) + 1][x] = F[n + 1][x]
      OBVIOUS
    <3>1. F[(n + 1) + 1] = step[F[n + 1]] /\ F[n + 1] = step[F[n]]
      BY <1>4
    <3>2. \A y \in D : m[y] < m[x] => F[n + 1][y] = F[n][y]
      BY <1>3, <2>2
    <3>3. F[n] \in W /\ F[n + 1] \in W
      BY <2>2
    <3>4. step[F[n + 1]][x] = step[F[n]][x]
      BY <1>3, <3>2, <3>3
    <3> QED
      BY <3>1, <3>4
  <2>3. T \in SUBSET Nat
    OBVIOUS
  <2> HIDE DEF T
  <2>4. \A n \in Nat : n \in T
    BY <2>1, <2>2, <2>3, Induction
  <2> QED
    BY <2>4 DEF T
<1>6. \A n \in Nat : \A x \in D : m[x] < n => F[n][x] = F[m[x] + 1][x]
  <2> DEFINE T == {n \in Nat : \A x \in D : m[x] < n => F[n][x] = F[m[x] + 1][x]}
  <2>1. 0 \in T
    BY <1>3
  <2>2. ASSUME NEW n \in T PROVE n + 1 \in T
    <3> SUFFICES ASSUME NEW x \in D, m[x] < n + 1
                 PROVE  F[n + 1][x] = F[m[x] + 1][x]
      OBVIOUS
    <3>0. m[x] \in Nat /\ n \in Nat
      BY <1>3
    <3>1. CASE m[x] = n
      BY <3>1
    <3>2. CASE m[x] < n
      BY <3>0, <3>2, <1>5, <2>2
    <3>3. \A k, l \in Nat : k < l + 1 => k = l \/ k < l
      OBVIOUS
    <3>4. m[x] = n \/ m[x] < n
      BY <3>0, <3>3, Zenon
    <3> QED
      BY <3>1, <3>2, <3>4, Zenon
  <2>3. T \in SUBSET Nat
    OBVIOUS
  <2> HIDE DEF T
  <2>4. \A n \in Nat : n \in T
    BY <2>1, <2>2, <2>3, Induction
  <2> QED
    BY <2>4 DEF T
<1> DEFINE f == [x \in D |-> F[m[x] + 1][x]]
<1>7. f \in W
  BY <1>1, <1>3
<1>8. ASSUME NEW x \in D PROVE f[x] = step[f][x]
  <2>1. f[x] = step[F[m[x]]][x]
    BY <1>3, <1>4
  <2>2. \A y \in D : m[y] < m[x] => F[m[x]][y] = f[y]
    BY <1>3, <1>6
  <2>3. F[m[x]] \in W
    BY <1>3
  <2> HIDE DEF f
  <2> QED
    BY <2>1, <2>2, <2>3, <1>3, <1>7
<1> HIDE DEF f
<1>9. step[f] \in W
  BY <1>3, <1>7
<1>10. f = step[f]
  BY <1>1, <1>7, <1>8, <1>9
<1> QED
  BY <1>1, <1>7, <1>10

-----------------------------------------------------------------------------
(* Integers.                                                                 *)

\* Varint is the function its recursive definition describes.
LEMMA VarintIs ==
    /\ Varint \in [Nat -> Bytes]
    /\ \A u \in Nat : /\ u < 128 => Varint[u] = <<u>>
                      /\ u >= 128 => Varint[u] = <<(u % 128) + 128>> \o Varint[u \div 128]
<1> DEFINE W == [Nat -> Bytes]
           m == [u \in Nat |-> u]
           step == [g \in W |-> [u \in Nat |->
                      IF u < 128 THEN <<u>> ELSE <<(u % 128) + 128>> \o g[u \div 128]]]
<1>1. ASSUME NEW g \in W, NEW u \in Nat
      PROVE  (IF u < 128 THEN <<u>> ELSE <<(u % 128) + 128>> \o g[u \div 128]) \in Bytes
  <2>1. CASE u < 128
    BY <2>1 DEF Bytes, Byte
  <2>2. CASE ~(u < 128)
    <3>1. u \div 128 \in Nat /\ (u % 128) + 128 \in Byte
      BY DEF Byte
    <3>2. g[u \div 128] \in Bytes /\ <<(u % 128) + 128>> \in Bytes
      BY <3>1 DEF Bytes
    <3> QED
      BY <2>2, <3>2, ConcatProperties DEF Bytes
  <2> QED
    BY <2>1, <2>2
<1>2. step \in [W -> W]
  BY <1>1
<1>3. \A g, h \in W : \A u \in Nat :
         (\A y \in Nat : m[y] < m[u] => g[y] = h[y]) => step[g][u] = step[h][u]
  <2> SUFFICES ASSUME NEW g \in W, NEW h \in W, NEW u \in Nat,
                      \A y \in Nat : m[y] < m[u] => g[y] = h[y]
               PROVE  step[g][u] = step[h][u]
    OBVIOUS
  <2>1. u >= 128 => u \div 128 \in Nat /\ u \div 128 < u
    OBVIOUS
  <2>2. u >= 128 => g[u \div 128] = h[u \div 128]
    BY <2>1
  <2> QED
    BY <2>2
<1>4. \A u \in Nat : m[u] \in Nat
  OBVIOUS
<1>5. Bytes # {}
  BY <<>> \in Bytes DEF Bytes
<1>7. Recursive(Nat, Bytes, m, step)
  BY <1>2, <1>3, <1>4, <1>5 DEF Recursive
<1> HIDE DEF m, step
<1>8. PICK f \in [Nat -> Bytes] : f = step[f]
  BY <1>7, Recursion
<1>9. f = [u \in Nat |-> IF u < 128 THEN <<u>> ELSE <<(u % 128) + 128>> \o f[u \div 128]]
  BY <1>8 DEF step
<1>10. Varint = [u \in Nat |-> IF u < 128 THEN <<u>> ELSE <<(u % 128) + 128>> \o Varint[u \div 128]]
  BY <1>9, ZenonT(30) DEF Varint
<1>11. \A u \in Nat : /\ u < 128 => Varint[u] = <<u>>
                      /\ u >= 128 => Varint[u] = <<(u % 128) + 128>> \o Varint[u \div 128]
  <2> DEFINE G == [u \in Nat |-> IF u < 128 THEN <<u>> ELSE <<(u % 128) + 128>> \o Varint[u \div 128]]
  <2>1. \A u \in Nat : /\ u < 128 => G[u] = <<u>>
                       /\ u >= 128 => G[u] = <<(u % 128) + 128>> \o Varint[u \div 128]
    OBVIOUS
  <2>2. Varint = G
    BY <1>10, Zenon
  <2> QED
    BY <2>1, <2>2, ZenonT(30)
<1>12. ASSUME NEW u \in Nat, u >= 128 => Varint[u \div 128] \in Bytes
       PROVE  Varint[u] \in Bytes
  <2>1. CASE u < 128
    <3>1. Varint[u] = <<u>>
      BY <2>1, <1>11
    <3>2. <<u>> \in Bytes
      BY <2>1 DEF Bytes, Byte
    <3> QED
      BY <3>1, <3>2
  <2>2. CASE u >= 128
    <3>1. (u % 128) + 128 \in Byte
      BY DEF Byte
    <3>2. Varint[u \div 128] \in Bytes /\ <<(u % 128) + 128>> \in Bytes
      BY <3>1, <2>2, <1>12 DEF Bytes
    <3>3. <<(u % 128) + 128>> \o Varint[u \div 128] \in Bytes
      BY <3>2, ConcatProperties DEF Bytes
    <3>4. Varint[u] = <<(u % 128) + 128>> \o Varint[u \div 128]
      BY <2>2, <1>11
    <3> QED
      BY <3>3, <3>4
  <2> QED
    BY <2>1, <2>2
<1> DEFINE T == {n \in Nat : \A u \in Nat : u < n => Varint[u] \in Bytes}
<1>13. 0 \in T
  OBVIOUS
<1>14. ASSUME NEW n \in T PROVE n + 1 \in T
  <2> SUFFICES ASSUME NEW u \in Nat, u < n + 1 PROVE Varint[u] \in Bytes
    OBVIOUS
  <2>1. u >= 128 => u \div 128 \in Nat /\ u \div 128 < n
    OBVIOUS
  <2> QED
    BY <2>1, <1>12
<1>15. T \in SUBSET Nat
  OBVIOUS
<1> HIDE DEF T
<1>16. \A n \in Nat : n \in T
  BY <1>13, <1>14, <1>15, Induction
<1>17. \A u \in Nat : Varint[u] \in Bytes
  <2> TAKE u \in Nat
  <2>1. u + 1 \in T /\ u < u + 1
    BY <1>16
  <2> QED
    BY <2>1 DEF T
<1> QED
  BY <1>10, <1>11, <1>17

\* Concat is the function its recursive definition describes.
LEMMA ConcatIs ==
    /\ Concat[<<>>] = <<>>
    /\ \A parts \in Seq(Bytes) : parts # <<>> => Concat[parts] = Head(parts) \o Concat[Tail(parts)]
<1> DEFINE D == Seq(Bytes)
           m == [parts \in D |-> Len(parts)]
           step == [g \in [D -> Bytes] |-> [parts \in D |->
                      IF parts = <<>> THEN <<>> ELSE Head(parts) \o g[Tail(parts)]]]
<1>1. ASSUME NEW parts \in D, parts # <<>>
      PROVE  Tail(parts) \in D /\ Head(parts) \in Bytes /\ m[Tail(parts)] < m[parts]
  <2>1. Tail(parts) \in D /\ Head(parts) \in Bytes /\ Len(Tail(parts)) = Len(parts) - 1
    BY <1>1, HeadTailProperties, Zenon
  <2>2. Len(parts) \in Nat
    BY LenProperties
  <2> QED
    BY <2>1, <2>2
<1>2. ASSUME NEW g \in [D -> Bytes], NEW parts \in D
      PROVE  (IF parts = <<>> THEN <<>> ELSE Head(parts) \o g[Tail(parts)]) \in Bytes
  <2>1. CASE parts = <<>>
    BY <2>1 DEF Bytes
  <2>2. CASE parts # <<>>
    <3>1. Head(parts) \in Bytes /\ g[Tail(parts)] \in Bytes
      BY <2>2, <1>1
    <3> QED
      BY <2>2, <3>1, ConcatProperties DEF Bytes
  <2> QED
    BY <2>1, <2>2
<1>3. step \in [[D -> Bytes] -> [D -> Bytes]]
  BY <1>2
<1>4. \A g, h \in [D -> Bytes] : \A parts \in D :
         (\A y \in D : m[y] < m[parts] => g[y] = h[y]) => step[g][parts] = step[h][parts]
  <2> SUFFICES ASSUME NEW g \in [D -> Bytes], NEW h \in [D -> Bytes], NEW parts \in D,
                      \A y \in D : m[y] < m[parts] => g[y] = h[y]
               PROVE  step[g][parts] = step[h][parts]
    OBVIOUS
  <2>1. parts # <<>> => g[Tail(parts)] = h[Tail(parts)]
    BY <1>1
  <2> QED
    BY <2>1
<1>5. \A parts \in D : m[parts] \in Nat
  BY LenProperties
<1>6. Recursive(D, Bytes, m, step)
  <2>1. Bytes # {}
    BY <<>> \in Bytes DEF Bytes
  <2> HIDE DEF m, step
  <2> QED
    BY <2>1, <1>3, <1>4, <1>5 DEF Recursive
<1> HIDE DEF m, step
<1>7. PICK f \in [D -> Bytes] : f = step[f]
  BY <1>6, Recursion
<1>8. f = [parts \in D |-> IF parts = <<>> THEN <<>> ELSE Head(parts) \o f[Tail(parts)]]
  BY <1>7 DEF step
<1>9. Concat = [parts \in D |-> IF parts = <<>> THEN <<>> ELSE Head(parts) \o Concat[Tail(parts)]]
  BY <1>8, Zenon DEF Concat
<1> DEFINE G == [parts \in D |-> IF parts = <<>> THEN <<>> ELSE Head(parts) \o Concat[Tail(parts)]]
<1>10. /\ G[<<>>] = <<>>
       /\ \A parts \in D : parts # <<>> => G[parts] = Head(parts) \o Concat[Tail(parts)]
  <2>1. <<>> \in D
    BY EmptySeq
  <2> QED
    BY <2>1
<1>11. Concat = G
  BY <1>9, Zenon
<1> QED
  BY <1>10, <1>11, Zenon

\* What reading a varint may give.
Reads == {Failed} \cup [ok: {TRUE}, value: Nat, rest: Bytes]

\* A varint that was read is an outcome.
LEMMA GotIsRead == \A u \in Nat, b \in Bytes : Got(u, b) \in Reads
BY DEF Got, Reads

\* So is one with a byte ahead of it.
LEMMA WithByteIsRead == ASSUME NEW x \in 128..255, NEW r \in Reads PROVE WithByte(x, r) \in Reads
<1>1. CASE r = Failed
  BY <1>1 DEF WithByte, Failed, Reads
<1>2. CASE r \in [ok: {TRUE}, value: Nat, rest: Bytes]
  <2>1. r.ok /\ r.value \in Nat /\ r.rest \in Bytes
    BY <1>2
  <2>2. x - 128 + 128 * r.value \in Nat
    BY <2>1
  <2> QED
    BY <2>1, <2>2, GotIsRead DEF WithByte
<1> QED
  BY <1>1, <1>2 DEF Reads

\* The first of some bytes, and the others.
LEMMA HeadOfBytes ==
    ASSUME NEW b \in Bytes, b # <<>>
    PROVE  /\ Head(b) \in 0..255
           /\ Tail(b) \in Bytes
           /\ Len(b) \in Nat /\ Len(Tail(b)) = Len(b) - 1 /\ Len(Tail(b)) < Len(b)
<1>1. Tail(b) \in Bytes /\ Head(b) \in Byte /\ Len(Tail(b)) = Len(b) - 1
  BY HeadTailProperties, Zenon DEF Bytes
<1>2. Len(b) \in Nat
  BY LenProperties DEF Bytes
<1>3. Head(b) \in 0..255
  BY <1>1, Zenon DEF Byte
<1> QED
  BY <1>1, <1>2, <1>3

\* ReadVarint is the function its recursive definition describes.
LEMMA ReadVarintIs ==
    /\ ReadVarint[<<>>] = Failed
    /\ \A b \in Bytes : b # <<>> =>
         /\ Head(b) < 128 => ReadVarint[b] = Got(Head(b), Tail(b))
         /\ Head(b) >= 128 => ReadVarint[b] = WithByte(Head(b), ReadVarint[Tail(b)])
<1>1. \A b \in Bytes : b # <<>> =>
         Tail(b) \in Bytes /\ Head(b) \in 0..255 /\ Len(Tail(b)) < Len(b)
  BY HeadOfBytes
<1> DEFINE F(g, b) == IF b = <<>> THEN Failed
                      ELSE IF Head(b) < 128 THEN Got(Head(b), Tail(b))
                      ELSE WithByte(Head(b), g[Tail(b)])
<1>2. ASSUME NEW g \in [Bytes -> Reads], NEW b \in Bytes
      PROVE  F(g, b) \in Reads
  <2>1. CASE b = <<>>
    BY <2>1 DEF Reads
  <2>2. CASE b # <<>> /\ Head(b) < 128
    <3>1. Head(b) \in 0..255 /\ Tail(b) \in Bytes
      BY <2>2, <1>1, Zenon
    <3>2. Head(b) \in Nat
      BY <3>1
    <3> QED
      BY <2>2, <3>1, <3>2, GotIsRead
  <2>3. CASE b # <<>> /\ ~(Head(b) < 128)
    <3>1. Head(b) \in 0..255 /\ Tail(b) \in Bytes
      BY <2>3, <1>1, Zenon
    <3>2. Head(b) \in 128..255
      <4>1. \A x \in 0..255 : ~(x < 128) => x \in 128..255
        OBVIOUS
      <4> QED
        BY <2>3, <3>1, <4>1, Zenon
    <3>3. g[Tail(b)] \in Reads
      BY <3>1
    <3> QED
      BY <2>3, <3>2, <3>3, WithByteIsRead
  <2> QED
    BY <2>1, <2>2, <2>3
<1> DEFINE m == [b \in Bytes |-> Len(b)]
           step == [g \in [Bytes -> Reads] |-> [b \in Bytes |-> F(g, b)]]
<1>3. step \in [[Bytes -> Reads] -> [Bytes -> Reads]]
  <2> HIDE DEF F
  <2> QED
    BY <1>2
<1>4. \A g, h \in [Bytes -> Reads] : \A b \in Bytes :
         (\A y \in Bytes : m[y] < m[b] => g[y] = h[y]) => step[g][b] = step[h][b]
  <2> SUFFICES ASSUME NEW g \in [Bytes -> Reads], NEW h \in [Bytes -> Reads], NEW b \in Bytes,
                      \A y \in Bytes : m[y] < m[b] => g[y] = h[y]
               PROVE  step[g][b] = step[h][b]
    OBVIOUS
  <2>1. b # <<>> => g[Tail(b)] = h[Tail(b)]
    BY <1>1
  <2>2. F(g, b) = F(h, b)
    BY <2>1
  <2> HIDE DEF F
  <2> QED
    BY <2>2
<1>5. \A b \in Bytes : m[b] \in Nat
  BY LenProperties DEF Bytes
<1>6. Recursive(Bytes, Reads, m, step)
  <2>1. Reads # {}
    BY DEF Reads
  <2> HIDE DEF m, step
  <2> QED
    BY <2>1, <1>3, <1>4, <1>5 DEF Recursive
<1> HIDE DEF m, step
<1>7. PICK f \in [Bytes -> Reads] : f = step[f]
  BY <1>6, Recursion
<1>8. f = [b \in Bytes |-> F(f, b)]
  BY <1>7 DEF step
<1> DEFINE G == [b \in Bytes |-> F(ReadVarint, b)]
<1>9. ReadVarint = G
  BY <1>8, Zenon DEF ReadVarint
<1>10. \A b \in Bytes : G[b] = F(ReadVarint, b)
  OBVIOUS
<1>11. <<>> \in Bytes /\ \A b \in Bytes : b # <<>> => Head(b) \in Int
  <2>1. <<>> \in Bytes
    BY EmptySeq DEF Bytes
  <2>2. ASSUME NEW b \in Bytes, b # <<>> PROVE Head(b) \in Int
    <3>1. Head(b) \in 0..255
      BY <1>1, <2>2, Zenon
    <3> QED
      BY <3>1
  <2> QED
    BY <2>1, <2>2
<1> HIDE DEF G
<1>12. \A b \in Bytes : ReadVarint[b] = F(ReadVarint, b)
  BY <1>9, <1>10, Zenon
<1> QED
  BY <1>11, <1>12

\* Bytes after bytes are bytes.
LEMMA ConcatOfBytes ==
    ASSUME NEW s \in Bytes, NEW t \in Bytes
    PROVE  /\ s \o t \in Bytes
           /\ Len(s) \in Nat /\ Len(t) \in Nat /\ Len(s \o t) = Len(s) + Len(t)
           /\ \A u \in Bytes : (s \o t) \o u = s \o (t \o u)
BY ConcatProperties, LenProperties, ConcatAssociative, SMTT(30) DEF Bytes

\* Bytes can be put together in any order.
LEMMA Associative == \A s, t, u \in Bytes : (s \o t) \o u = s \o (t \o u)
BY ConcatAssociative DEF Bytes

\* A byte ahead of others is their head.
LEMMA Prepended ==
    ASSUME NEW x \in Byte, NEW s \in Bytes
    PROVE  /\ <<x>> \o s \in Bytes /\ <<x>> \o s # <<>>
           /\ Head(<<x>> \o s) = x /\ Tail(<<x>> \o s) = s
           /\ Len(<<x>> \o s) = Len(s) + 1
<1>1. <<x>> \in Bytes /\ Len(<<x>>) = 1
  BY DEF Bytes
<1>2. /\ <<x>> \o s \in Bytes /\ Len(<<x>> \o s) = Len(s) + 1 /\ Len(s) \in Nat
  BY <1>1, ConcatOfBytes
<1>3. \A i \in 1..(1 + Len(s)) : (<<x>> \o s)[i] = IF i <= 1 THEN x ELSE s[i - 1]
  BY <1>1, ConcatProperties DEF Bytes
<1>4. <<x>> \o s # <<>>
  BY <1>2, EmptySeq
<1>5. Head(<<x>> \o s) = x
  BY <1>2, <1>3, <1>4, HeadTailOfSubSeq DEF Bytes
<1>6. Tail(<<x>> \o s) = s
  <2>1. /\ Tail(<<x>> \o s) \in Bytes /\ Len(Tail(<<x>> \o s)) = Len(s)
        /\ \A i \in 1..Len(s) : Tail(<<x>> \o s)[i] = (<<x>> \o s)[i + 1]
    BY <1>2, <1>4, HeadTailProperties DEF Bytes
  <2>2. \A i \in 1..Len(s) : Tail(<<x>> \o s)[i] = s[i]
    BY <1>2, <1>3, <2>1
  <2> QED
    BY <2>1, <2>2, SeqEqual DEF Bytes
<1> QED
  BY <1>2, <1>4, <1>5, <1>6

\* The first k of some bytes.
LEMMA PrefixOfBytes ==
    ASSUME NEW s \in Bytes, NEW k \in 0..Len(s)
    PROVE  /\ SubSeq(s, 1, k) \in Bytes /\ Len(SubSeq(s, 1, k)) = k
           /\ \A i \in 1..k : SubSeq(s, 1, k)[i] = s[i]
<1>1. Len(s) \in Nat /\ \A i \in 1..k : s[i] \in Byte
  BY LenProperties, ElementOfSeq DEF Bytes
<1>2. /\ SubSeq(s, 1, k) \in Bytes /\ Len(SubSeq(s, 1, k)) = IF 1 <= k THEN k - 1 + 1 ELSE 0
      /\ \A i \in 1..(k - 1 + 1) : SubSeq(s, 1, k)[i] = s[1 + i - 1]
  BY <1>1, SubSeqProperties DEF Bytes
<1> QED
  BY <1>1, <1>2

\* The first k bytes end in the first part or in the second.
LEMMA PrefixOfConcat ==
    ASSUME NEW s \in Bytes, NEW t \in Bytes, NEW k \in 0..(Len(s) + Len(t))
    PROVE  /\ k <= Len(s) => SubSeq(s \o t, 1, k) = SubSeq(s, 1, k)
           /\ k >= Len(s) => /\ k - Len(s) \in 0..Len(t)
                             /\ SubSeq(s \o t, 1, k) = s \o SubSeq(t, 1, k - Len(s))
<1>1. Len(s) \in Nat /\ Len(t) \in Nat /\ s \o t \in Bytes /\ Len(s \o t) = Len(s) + Len(t)
  BY ConcatOfBytes
<1>2. \A i \in 1..Len(s) + Len(t) : (s \o t)[i] = IF i <= Len(s) THEN s[i] ELSE t[i - Len(s)]
  BY ConcatProperties DEF Bytes
<1>3. /\ SubSeq(s \o t, 1, k) \in Bytes /\ Len(SubSeq(s \o t, 1, k)) = k
      /\ \A i \in 1..k : SubSeq(s \o t, 1, k)[i] = (s \o t)[i]
  BY <1>1, PrefixOfBytes
<1>4. ASSUME k <= Len(s) PROVE SubSeq(s \o t, 1, k) = SubSeq(s, 1, k)
  <2>1. /\ SubSeq(s, 1, k) \in Bytes /\ Len(SubSeq(s, 1, k)) = k
        /\ \A i \in 1..k : SubSeq(s, 1, k)[i] = s[i]
    BY <1>1, <1>4, PrefixOfBytes
  <2>2. \A i \in 1..k : SubSeq(s \o t, 1, k)[i] = SubSeq(s, 1, k)[i]
    BY <1>1, <1>2, <1>3, <1>4, <2>1
  <2> QED
    BY <1>3, <2>1, <2>2, SeqEqual DEF Bytes
<1>5. ASSUME k >= Len(s)
      PROVE  k - Len(s) \in 0..Len(t) /\ SubSeq(s \o t, 1, k) = s \o SubSeq(t, 1, k - Len(s))
  <2>1. k - Len(s) \in 0..Len(t)
    BY <1>1, <1>5
  <2> DEFINE p == SubSeq(t, 1, k - Len(s))
  <2>2. p \in Bytes /\ Len(p) = k - Len(s) /\ \A i \in 1..(k - Len(s)) : p[i] = t[i]
    BY <2>1, PrefixOfBytes
  <2> HIDE DEF p
  <2>3. /\ s \o p \in Bytes /\ Len(s \o p) = k
        /\ \A i \in 1..Len(s) + Len(p) : (s \o p)[i] = IF i <= Len(s) THEN s[i] ELSE p[i - Len(s)]
    BY <1>1, <2>1, <2>2, ConcatProperties DEF Bytes
  <2>4. ASSUME NEW i \in 1..k PROVE SubSeq(s \o t, 1, k)[i] = (s \o p)[i]
    BY <1>1, <1>2, <1>3, <2>1, <2>2, <2>3
  <2>5. SubSeq(s \o t, 1, k) = s \o p
    BY <1>3, <2>3, <2>4, SeqEqual DEF Bytes
  <2> QED
    BY <2>1, <2>5 DEF p
<1> QED
  BY <1>4, <1>5

\* That e is an encoding of v for a reader: whatever follows e, it gets v and
\* leaves what follows, and when e is cut short it fails.
Codes(reader, e, v) ==
    /\ e \in Bytes
    /\ \A rest \in Bytes : reader[e \o rest] = Got(v, rest)
    /\ \A k \in 0..(Len(e) - 1) : ~reader[SubSeq(e, 1, k)].ok

\* No bytes are left of what is cut before its first.
LEMMA EmptyPrefix == \A s : SubSeq(s, 1, 0) = <<>>
BY SubSeqEmpty

\* A varint is read if what follows its first byte is.
LEMMA VarintStep ==
    ASSUME NEW u \in Nat, u >= 128 => Codes(ReadVarint, Varint[u \div 128], u \div 128)
    PROVE  Codes(ReadVarint, Varint[u], u)
<1>1. CASE u < 128
  <2>1. Varint[u] = <<u>>
    BY <1>1, VarintIs, Zenon
  <2>0. u \in Byte
    BY <1>1 DEF Byte
  <2>2. <<u>> \in Bytes /\ Len(<<u>>) = 1
    BY <2>0 DEF Bytes
  <2>3. ASSUME NEW rest \in Bytes PROVE ReadVarint[<<u>> \o rest] = Got(u, rest)
    BY <1>1, <2>0, Prepended, ReadVarintIs, ZenonT(30)
  <2>4. ReadVarint[SubSeq(<<u>>, 1, 0)] = Failed
    BY EmptyPrefix, ReadVarintIs
  <2>5. \A k \in 0..(Len(<<u>>) - 1) : k = 0
    BY <2>2
  <2> QED
    BY <2>1, <2>2, <2>3, <2>4, <2>5 DEF Codes, Failed
<1>2. CASE u >= 128
  <2> DEFINE x == (u % 128) + 128
             w == u \div 128
             e == Varint[w]
  <2>1. x \in Byte /\ x >= 128 /\ w \in Nat /\ x - 128 + 128 * w = u
    BY DEF Byte
  <2>2. Varint[u] = <<x>> \o e
    BY <1>2, VarintIs, Zenon
  <2>3. /\ e \in Bytes
        /\ \A rest \in Bytes : ReadVarint[e \o rest] = Got(w, rest)
        /\ \A k \in 0..(Len(e) - 1) : ~ReadVarint[SubSeq(e, 1, k)].ok
    BY <1>2 DEF Codes
  <2> HIDE DEF x, w, e
  <2>4. <<x>> \in Bytes /\ Len(<<x>>) = 1 /\ <<x>> \o e \in Bytes
    BY <2>1, <2>3, Prepended DEF Bytes
  <2>5. ASSUME NEW rest \in Bytes PROVE ReadVarint[(<<x>> \o e) \o rest] = Got(u, rest)
    <3>1. e \o rest \in Bytes
      BY <2>3, ConcatOfBytes
    <3>2. (<<x>> \o e) \o rest = <<x>> \o (e \o rest)
      BY <2>3, <2>4, Associative, ZenonT(30)
    <3>3. ReadVarint[<<x>> \o (e \o rest)] = WithByte(x, ReadVarint[e \o rest])
      BY <2>1, <3>1, Prepended, ReadVarintIs, ZenonT(30)
    <3>4. WithByte(x, Got(w, rest)) = Got(x - 128 + 128 * w, rest)
      BY DEF WithByte, Got
    <3> QED
      BY <2>1, <2>3, <3>2, <3>3, <3>4
  <2>6. ASSUME NEW k \in 0..(Len(<<x>> \o e) - 1) PROVE ~ReadVarint[SubSeq(<<x>> \o e, 1, k)].ok
    <3>1. CASE k = 0
      <4>1. SubSeq(<<x>> \o e, 1, k) = <<>>
        BY <3>1, EmptyPrefix, Zenon
      <4>2. ReadVarint[SubSeq(<<x>> \o e, 1, k)] = Failed
        BY <4>1, ReadVarintIs, Zenon
      <4> QED
        BY <4>2 DEF Failed
    <3>2. CASE k >= 1
      <4>1. Len(e) \in Nat /\ Len(<<x>> \o e) = 1 + Len(e)
        BY <2>3, <2>4, ConcatOfBytes
      <4>2. SubSeq(<<x>> \o e, 1, k) = <<x>> \o SubSeq(e, 1, k - 1) /\ k - 1 \in 0..(Len(e) - 1)
        BY <2>3, <2>4, <3>2, <4>1, PrefixOfConcat
      <4>3. SubSeq(e, 1, k - 1) \in Bytes
        BY <2>3, <4>1, <4>2, PrefixOfBytes
      <4>4. ReadVarint[<<x>> \o SubSeq(e, 1, k - 1)] = WithByte(x, ReadVarint[SubSeq(e, 1, k - 1)])
        BY <2>1, <4>3, Prepended, ReadVarintIs, ZenonT(30)
      <4>5. ~ReadVarint[SubSeq(e, 1, k - 1)].ok
        BY <2>3, <4>2
      <4>6. WithByte(x, ReadVarint[SubSeq(e, 1, k - 1)]) = Failed
        BY <4>5 DEF WithByte
      <4>7. ReadVarint[SubSeq(<<x>> \o e, 1, k)] = Failed
        BY <4>2, <4>4, <4>6, Zenon
      <4> QED
        BY <4>7 DEF Failed
    <3>3. k \in Nat
      BY <2>4, ConcatOfBytes
    <3> QED
      BY <3>1, <3>2, <3>3
  <2> QED
    BY <2>2, <2>4, <2>5, <2>6 DEF Codes
<1> QED
  BY <1>1, <1>2

\* What is written as a varint is read as the same number.
LEMMA VarintCodes == \A u \in Nat : Codes(ReadVarint, Varint[u], u)
<1> DEFINE T == {n \in Nat : \A u \in Nat : u < n => Codes(ReadVarint, Varint[u], u)}
<1>1. 0 \in T
  OBVIOUS
<1>2. ASSUME NEW n \in T PROVE n + 1 \in T
  <2> SUFFICES ASSUME NEW u \in Nat, u < n + 1 PROVE Codes(ReadVarint, Varint[u], u)
    OBVIOUS
  <2>1. u >= 128 => u \div 128 \in Nat /\ u \div 128 < n
    OBVIOUS
  <2> QED
    BY <2>1, VarintStep
<1>3. T \in SUBSET Nat
  OBVIOUS
<1> HIDE DEF T
<1>4. \A n \in Nat : n \in T
  BY <1>1, <1>2, <1>3, Induction
<1>5. ASSUME NEW u \in Nat PROVE Codes(ReadVarint, Varint[u], u)
  <2>1. u + 1 \in T /\ u < u + 1
    BY <1>4
  <2> QED
    BY <2>1 DEF T
<1> QED
  BY <1>5

\* Zigzag maps the integers to natural numbers, and back.
LEMMA UnzigzagInverts == \A k \in Int : Zigzag(k) \in Nat /\ Unzigzag(Zigzag(k)) = k
BY DEF Zigzag, Unzigzag

\* ReadLong as a function.
LongReader == [b \in Bytes |-> ReadLong(b)]

\* What is written as a long is read as the same integer.
LEMMA LongCodes == \A k \in Int : Codes(LongReader, EncodeLong(k), k)
<1> SUFFICES ASSUME NEW k \in Int PROVE Codes(LongReader, EncodeLong(k), k)
  OBVIOUS
<1> DEFINE e == EncodeLong(k)
<1>1. /\ e \in Bytes
      /\ \A rest \in Bytes : ReadVarint[e \o rest] = Got(Zigzag(k), rest)
      /\ \A n \in 0..(Len(e) - 1) : ~ReadVarint[SubSeq(e, 1, n)].ok
  BY UnzigzagInverts, VarintCodes DEF Codes, EncodeLong
<1> HIDE DEF e
<1>2. ASSUME NEW rest \in Bytes PROVE LongReader[e \o rest] = Got(k, rest)
  <2>1. e \o rest \in Bytes
    BY <1>1, ConcatOfBytes
  <2>2. LongReader[e \o rest] = Unzigzagged(Got(Zigzag(k), rest))
    BY <1>1, <2>1 DEF LongReader, ReadLong
  <2> QED
    BY <2>2, UnzigzagInverts DEF Unzigzagged, Got
<1>3. ASSUME NEW n \in 0..(Len(e) - 1) PROVE ~LongReader[SubSeq(e, 1, n)].ok
  <2>1. SubSeq(e, 1, n) \in Bytes
    BY <1>1, ConcatOfBytes, PrefixOfBytes
  <2>2. ~ReadVarint[SubSeq(e, 1, n)].ok
    BY <1>1
  <2> QED
    BY <2>1, <2>2 DEF LongReader, ReadLong, Unzigzagged, Failed
<1> QED
  BY <1>1, <1>2, <1>3 DEF Codes, e
-----------------------------------------------------------------------------
(* Parts one after the other.                                                *)

\* What ReadAll keeps of the readers it has been through.
UpTo(readers, b, h) ==
    h = [i \in 0..Len(readers) |->
            IF i = 0 THEN Got(<<>>, b) ELSE ReadNext(readers[i], h[i - 1])]

\* ReadAll goes through the readers one by one.
LEMMA ReadAllIs ==
    ASSUME NEW readers, Len(readers) \in Nat, NEW b
    PROVE  \E h : /\ h[0] = Got(<<>>, b)
                  /\ \A i \in 1..Len(readers) : h[i] = ReadNext(readers[i], h[i - 1])
                  /\ ReadAll(readers, b) = h[Len(readers)]
<1> DEFINE F(h, k) == [i \in 0..k |->
                          IF i = 0 THEN Got(<<>>, b) ELSE ReadNext(readers[i], h[i - 1])]
           T == {k \in Nat : \E h : h = F(h, k)}
<1>1. 0 \in T
  <2> DEFINE h == [i \in 0..0 |-> Got(<<>>, b)]
  <2>1. h = F(h, 0)
    OBVIOUS
  <2> QED
    BY <2>1
<1>2. ASSUME NEW k \in T PROVE k + 1 \in T
  <2>1. PICK h : h = F(h, k)
    BY <1>2
  <2> DEFINE g == [i \in 0..(k + 1) |->
                     IF i = k + 1 THEN ReadNext(readers[i], h[k]) ELSE h[i]]
  <2>2. k \in Nat
    OBVIOUS
  <2>3. \A i \in 0..k : h[i] = IF i = 0 THEN Got(<<>>, b) ELSE ReadNext(readers[i], h[i - 1])
    BY <2>1
  <2>4. \A i \in 0..k : g[i] = h[i]
    BY <2>2
  <2>5. g[k + 1] = ReadNext(readers[k + 1], h[k])
    BY <2>2
  <2>6. g = [i \in 0..(k + 1) |-> g[i]]
    OBVIOUS
  <2> HIDE DEF g
  <2>7. \A i \in 0..(k + 1) :
           g[i] = IF i = 0 THEN Got(<<>>, b) ELSE ReadNext(readers[i], g[i - 1])
    BY <2>2, <2>3, <2>4, <2>5
  <2>8. g = F(g, k + 1)
    BY <2>6, <2>7
  <2> QED
    BY <2>2, <2>8
<1>3. T \in SUBSET Nat
  OBVIOUS
<1> HIDE DEF T
<1>4. Len(readers) \in T
  BY <1>1, <1>2, <1>3, Induction
<1>5. PICK g : UpTo(readers, b, g)
  BY <1>4 DEF T, UpTo
<1> DEFINE h == CHOOSE f : UpTo(readers, b, f)
<1>6. UpTo(readers, b, h)
  BY <1>5, Zenon
<1>7. ReadAll(readers, b) = h[Len(readers)]
  BY Zenon DEF ReadAll, UpTo
<1> HIDE DEF h
<1>8. /\ h[0] = Got(<<>>, b)
      /\ \A i \in 1..Len(readers) : h[i] = ReadNext(readers[i], h[i - 1])
  BY <1>6 DEF UpTo
<1> QED
  BY <1>7, <1>8

\* A function on 1..n is a sequence.
LEMMA IsSequence ==
    ASSUME NEW n \in Nat, NEW s, s = [i \in 1..n |-> s[i]]
    PROVE  s \in Seq({s[i] : i \in 1..n}) /\ Len(s) = n /\ DOMAIN s = 1..n
OBVIOUS

\* The encodings that follow the first i of them.
After(es, i) == Concat[SubSeq(es, i + 1, Len(es))]

\* What follows the first i encodings is the next and what follows it.
LEMMA AfterIs ==
    ASSUME NEW es \in Seq(Bytes)
    PROVE  /\ Len(es) \in Nat
           /\ After(es, 0) = Concat[es] /\ After(es, Len(es)) = <<>>
           /\ \A i \in 0..(Len(es) - 1) : After(es, i) = es[i + 1] \o After(es, i + 1)
           /\ \A i \in 0..Len(es) : After(es, i) \in Bytes
<1>1. Len(es) \in Nat
  BY LenProperties
<1>2. After(es, 0) = Concat[es]
  <2>1. SubSeq(es, 1, Len(es)) = es
    BY SubSeqFull
  <2>2. 0 + 1 = 1
    OBVIOUS
  <2> QED
    BY <2>1, <2>2, Zenon DEF After
<1>3. After(es, Len(es)) = <<>>
  <2>1. SubSeq(es, Len(es) + 1, Len(es)) = <<>>
    BY <1>1, SubSeqEmpty
  <2> QED
    BY <2>1, ConcatIs, Zenon DEF After
<1>4. ASSUME NEW i \in 0..(Len(es) - 1)
      PROVE  After(es, i) = es[i + 1] \o After(es, i + 1)
  <2> DEFINE r == SubSeq(es, i + 1, Len(es))
  <2>1. i + 1 \in 1..Len(es) /\ Len(es) \in (i + 1)..Len(es)
    BY <1>1
  <2>2. Head(r) = es[i + 1] /\ Tail(r) = SubSeq(es, (i + 1) + 1, Len(es))
    BY <2>1, HeadTailOfSubSeq
  <2>3. \A j \in (i + 1)..Len(es) : es[j] \in Bytes
    BY <1>1, LenProperties
  <2>4. r \in Seq(Bytes) /\ Len(r) # 0
    BY <1>1, <2>1, <2>3, SubSeqProperties
  <2>5. r # <<>>
    BY <2>4, EmptySeq
  <2> HIDE DEF r
  <2>6. Concat[r] = Head(r) \o Concat[Tail(r)]
    BY <2>4, <2>5, ConcatIs, Zenon
  <2> QED
    BY <2>2, <2>6, Zenon DEF After, r
<1>5. ASSUME NEW i \in 0..Len(es) PROVE After(es, i) \in Bytes
  <2> DEFINE T == {k \in Nat : k <= Len(es) => After(es, Len(es) - k) \in Bytes}
  <2>1. 0 \in T
    <3>1. Len(es) - 0 = Len(es)
      BY <1>1
    <3>2. <<>> \in Bytes
      BY EmptySeq DEF Bytes
    <3> QED
      BY <1>3, <3>1, <3>2
  <2>2. ASSUME NEW k \in T PROVE k + 1 \in T
    <3> SUFFICES ASSUME k + 1 <= Len(es) PROVE After(es, Len(es) - (k + 1)) \in Bytes
      OBVIOUS
    <3> DEFINE j == Len(es) - (k + 1)
    <3>1. j \in 0..(Len(es) - 1) /\ j + 1 = Len(es) - k /\ k <= Len(es)
      BY <1>1
    <3>2. After(es, j + 1) \in Bytes
      BY <3>1
    <3>3. es[j + 1] \in Bytes
      BY <1>1, <3>1, ElementOfSeq
    <3> HIDE DEF j
    <3>4. After(es, j) = es[j + 1] \o After(es, j + 1)
      BY <3>1, <1>4
    <3> QED
      BY <3>2, <3>3, <3>4, ConcatOfBytes DEF j
  <2>3. T \in SUBSET Nat
    OBVIOUS
  <2> HIDE DEF T
  <2>4. Len(es) - i \in T
    BY <1>1, <2>1, <2>2, <2>3, Induction
  <2>5. Len(es) - (Len(es) - i) = i /\ Len(es) - i <= Len(es)
    BY <1>1
  <2> QED
    BY <2>4, <2>5 DEF T
<1> QED
  BY <1>1, <1>2, <1>3, <1>4, <1>5

\* The parts, as the readers will find them.
PartsCode(readers, es, vs) ==
    /\ es \in Seq(Bytes)
    /\ Len(readers) = Len(es)
    /\ Len(vs) = Len(es) /\ vs = [i \in 1..Len(es) |-> vs[i]]
    /\ \A i \in 1..Len(es) : Codes(readers[i], es[i], vs[i])

\* The parts of an outcome.
LEMMA GotIs == \A v, b : Got(v, b).ok /\ Got(v, b).value = v /\ Got(v, b).rest = b
BY DEF Got

\* One more value that was read.
LEMMA NextGot ==
    ASSUME NEW reader, NEW values, NEW b, NEW v, NEW c, reader[b] = Got(v, c)
    PROVE  ReadNext(reader, Got(values, b)) = Got(Append(values, v), c)
<1>1. ReadNext(reader, Got(values, b)) = Extended(values, Got(v, c))
  BY GotIs, Zenon DEF ReadNext
<1> QED
  BY <1>1, GotIs, Zenon DEF Extended

\* Readers of parts get the parts, each what the one before left.
LEMMA PartsRead ==
    ASSUME NEW readers, NEW es, NEW vs, PartsCode(readers, es, vs), NEW rest \in Bytes
    PROVE  ReadAll(readers, Concat[es] \o rest) = Got(vs, rest)
<1> DEFINE n == Len(es)
<1>1. /\ es \in Seq(Bytes) /\ n \in Nat /\ Len(readers) = n
      /\ \A i \in 1..n : Codes(readers[i], es[i], vs[i])
  BY AfterIs DEF PartsCode
<1>2. vs \in Seq({vs[i] : i \in 1..n}) /\ Len(vs) = n
  BY <1>1, IsSequence DEF PartsCode
<1> HIDE DEF n
<1> DEFINE b == Concat[es] \o rest
           Seen(i) == SubSeq(vs, 1, i)
<1>3. PICK h : /\ h[0] = Got(<<>>, b)
               /\ \A i \in 1..n : h[i] = ReadNext(readers[i], h[i - 1])
               /\ ReadAll(readers, b) = h[n]
  BY <1>1, ReadAllIs
<1> DEFINE T == {i \in Nat : i <= n => h[i] = Got(Seen(i), After(es, i) \o rest)}
<1>4. 0 \in T
  <2>1. Seen(0) = <<>>
    BY EmptyPrefix, Zenon
  <2>2. After(es, 0) = Concat[es]
    BY <1>1, AfterIs
  <2> QED
    BY <1>3, <2>1, <2>2
<1>5. ASSUME NEW i \in T PROVE i + 1 \in T
  <2> SUFFICES ASSUME i + 1 <= n
               PROVE  h[i + 1] = Got(Seen(i + 1), After(es, i + 1) \o rest)
    OBVIOUS
  <2>1. /\ i \in Nat /\ i \in 0..(n - 1) /\ i + 1 \in 1..n /\ (i + 1) - 1 = i /\ i + 1 \in 0..n
        /\ h[i] = Got(Seen(i), After(es, i) \o rest)
    BY <1>1
  <2>2. After(es, i) = es[i + 1] \o After(es, i + 1) /\ After(es, i + 1) \in Bytes
    BY <1>1, <2>1, AfterIs DEF n
  <2>3. /\ es[i + 1] \in Bytes
        /\ \A r \in Bytes : readers[i + 1][es[i + 1] \o r] = Got(vs[i + 1], r)
    BY <1>1, <2>1 DEF Codes
  <2>4. After(es, i) \o rest = es[i + 1] \o (After(es, i + 1) \o rest)
    <3>1. (es[i + 1] \o After(es, i + 1)) \o rest = es[i + 1] \o (After(es, i + 1) \o rest)
      BY <2>2, <2>3, Associative, Zenon
    <3> QED
      BY <2>2, <3>1, Zenon
  <2>5. After(es, i + 1) \o rest \in Bytes
    BY <2>2, ConcatOfBytes
  <2>6. readers[i + 1][After(es, i) \o rest] = Got(vs[i + 1], After(es, i + 1) \o rest)
    BY <2>3, <2>4, <2>5
  <2>7. h[i + 1] = ReadNext(readers[i + 1], Got(Seen(i), After(es, i) \o rest))
    BY <1>3, <2>1
  <2>8. h[i + 1] = Got(Append(Seen(i), vs[i + 1]), After(es, i + 1) \o rest)
    <3>1. ReadNext(readers[i + 1], Got(Seen(i), After(es, i) \o rest))
            = Got(Append(Seen(i), vs[i + 1]), After(es, i + 1) \o rest)
      BY ONLY <2>6, NextGot
    <3> QED
      BY <2>7, <3>1, Zenon
  <2>9. Append(Seen(i), vs[i + 1]) = Seen(i + 1)
    <3> DEFINE V == {vs[j] : j \in 1..n}
    <3>1. SubSeq(vs, 1, i + 1) = SubSeq(vs, 1, (i + 1) - 1) \o <<vs[i + 1]>>
      BY <1>2, <2>1, SubSeqRecursiveSecond
    <3>2. vs[i + 1] \in V /\ \A j \in 1..i : vs[j] \in V
      BY <2>1, <1>1
    <3> HIDE DEF V
    <3>3. SubSeq(vs, 1, i) \in Seq(V)
      BY <3>2, <2>1, SubSeqProperties
    <3>4. Append(SubSeq(vs, 1, i), vs[i + 1]) = SubSeq(vs, 1, i) \o <<vs[i + 1]>>
      BY <3>2, <3>3, AppendIsConcat
    <3> QED
      BY <2>1, <3>1, <3>4
  <2> QED
    BY <2>8, <2>9
<1>6. T \in SUBSET Nat
  OBVIOUS
<1> HIDE DEF T
<1>7. n \in T
  BY <1>1, <1>4, <1>5, <1>6, Induction
<1>8. h[n] = Got(Seen(n), After(es, n) \o rest)
  BY <1>1, <1>7 DEF T
<1>9. Seen(n) = vs /\ After(es, n) = <<>> /\ <<>> \o rest = rest
  <2>1. SubSeq(vs, 1, Len(vs)) = vs
    BY <1>2, SubSeqFull
  <2>2. After(es, n) = <<>>
    BY <1>1, AfterIs DEF n
  <2>3. <<>> \o rest = rest
    BY ConcatEmptySeq DEF Bytes
  <2> QED
    BY <1>2, <2>1, <2>2, <2>3
<1> QED
  BY <1>3, <1>8, <1>9

\* The reader of the part that is cut short fails, and so do all.
LEMMA PartsCutShort ==
    ASSUME NEW readers, NEW es, NEW vs, PartsCode(readers, es, vs),
           NEW k \in 0..(Len(Concat[es]) - 1)
    PROVE  ~ReadAll(readers, SubSeq(Concat[es], 1, k)).ok
<1> DEFINE n == Len(es)
           Left(i) == After(es, i)
<1>1. /\ es \in Seq(Bytes) /\ n \in Nat /\ Len(readers) = n
      /\ \A i \in 1..n : Codes(readers[i], es[i], vs[i])
      /\ \A i \in 0..n : Left(i) \in Bytes
      /\ Left(0) = Concat[es] /\ Left(n) = <<>>
      /\ \A i \in 0..(n - 1) : Left(i) = es[i + 1] \o Left(i + 1)
  BY AfterIs DEF PartsCode
<1> HIDE DEF n, Left
<1> DEFINE b == SubSeq(Concat[es], 1, k)
<1>2. PICK h : /\ h[0] = Got(<<>>, b)
               /\ \A i \in 1..n : h[i] = ReadNext(readers[i], h[i - 1])
               /\ ReadAll(readers, b) = h[n]
  BY <1>1, ReadAllIs
<1> DEFINE Short(i) == \E j \in 0..(Len(Left(i)) - 1) : h[i].rest = SubSeq(Left(i), 1, j)
           T == {i \in Nat : i <= n => ~h[i].ok \/ Short(i)}
<1>3. 0 \in T
  <2>1. h[0].rest = SubSeq(Left(0), 1, k) /\ k \in 0..(Len(Left(0)) - 1)
    BY <1>1, <1>2 DEF Got
  <2> QED
    BY <2>1
<1>4. ASSUME NEW i \in T PROVE i + 1 \in T
  <2> SUFFICES ASSUME i + 1 <= n PROVE ~h[i + 1].ok \/ Short(i + 1)
    OBVIOUS
  <2>1. /\ i \in 0..(n - 1) /\ i + 1 \in 1..n /\ (i + 1) - 1 = i /\ i + 1 \in 0..n
        /\ ~h[i].ok \/ Short(i)
    BY <1>1
  <2>2. h[i + 1] = ReadNext(readers[i + 1], h[i])
    BY <1>2, <2>1
  <2>3. CASE ~h[i].ok
    BY <2>2, <2>3 DEF ReadNext, Failed
  <2>4. CASE h[i].ok /\ Short(i)
    <3> DEFINE e == es[i + 1]
               r == Left(i + 1)
    <3>1. /\ e \in Bytes
          /\ \A c \in Bytes : readers[i + 1][e \o c] = Got(vs[i + 1], c)
          /\ \A c \in 0..(Len(e) - 1) : ~readers[i + 1][SubSeq(e, 1, c)].ok
      BY <1>1, <2>1 DEF Codes
    <3>2. r \in Bytes /\ Left(i) = e \o r
      BY <1>1, <2>1
    <3> HIDE DEF e, r
    <3>3. PICK j \in 0..(Len(e \o r) - 1) : h[i].rest = SubSeq(e \o r, 1, j)
      BY <2>4, <3>2
    <3>4. Len(e) \in Nat /\ Len(r) \in Nat /\ Len(e \o r) = Len(e) + Len(r)
      BY <3>1, <3>2, ConcatOfBytes
    <3>5. h[i + 1] = Extended(h[i].value, readers[i + 1][SubSeq(e \o r, 1, j)])
      BY <2>2, <2>4, <3>3 DEF ReadNext
    <3>6. CASE j < Len(e)
      <4>1. SubSeq(e \o r, 1, j) = SubSeq(e, 1, j)
        BY <3>1, <3>2, <3>4, <3>6, PrefixOfConcat
      <4>2. ~readers[i + 1][SubSeq(e, 1, j)].ok
        BY <3>1, <3>4, <3>6
      <4>3. h[i + 1] = Failed
        BY <3>5, <4>1, <4>2 DEF Extended
      <4> QED
        BY <4>3 DEF Failed
    <3>7. CASE j >= Len(e)
      <4>1. SubSeq(e \o r, 1, j) = e \o SubSeq(r, 1, j - Len(e)) /\ j - Len(e) \in 0..(Len(r) - 1)
        BY <3>1, <3>2, <3>4, <3>7, PrefixOfConcat, SMTT(30)
      <4>2. SubSeq(r, 1, j - Len(e)) \in Bytes
        BY <3>2, <3>4, <4>1, PrefixOfBytes
      <4>3. h[i + 1] = Extended(h[i].value, Got(vs[i + 1], SubSeq(r, 1, j - Len(e))))
        BY <3>1, <3>5, <4>1, <4>2
      <4>4. h[i + 1].rest = SubSeq(r, 1, j - Len(e))
        BY <4>3 DEF Extended, Got
      <4> QED
        BY <4>1, <4>4 DEF r
    <3> QED
      BY <3>4, <3>6, <3>7
  <2> QED
    BY <2>1, <2>3, <2>4
<1>5. T \in SUBSET Nat
  OBVIOUS
<1> HIDE DEF T
<1>6. n \in T
  BY <1>1, <1>3, <1>4, <1>5, Induction
<1>7. Len(<<>>) = 0
  OBVIOUS
<1>8. ~h[n].ok
  BY <1>1, <1>6, <1>7 DEF T
<1> QED
  BY <1>2, <1>8

\* A reader of as many parts as there are readers.
PartsReader(readers) == [b \in Bytes |-> ReadAll(readers, b)]

\* Parts one after the other are an encoding of all of them.
LEMMA PartsCoded ==
    ASSUME NEW readers, NEW es, NEW vs, PartsCode(readers, es, vs)
    PROVE  Codes(PartsReader(readers), Concat[es], vs)
<1>1. Concat[es] \in Bytes
  <2>1. es \in Seq(Bytes)
    BY DEF PartsCode
  <2>2. Len(es) \in Nat /\ After(es, 0) = Concat[es] /\ \A i \in 0..Len(es) : After(es, i) \in Bytes
    BY <2>1, AfterIs
  <2>3. After(es, 0) \in Bytes
    BY <2>2
  <2> QED
    BY <2>2, <2>3
<1>2. ASSUME NEW rest \in Bytes PROVE PartsReader(readers)[Concat[es] \o rest] = Got(vs, rest)
  <2>1. Concat[es] \o rest \in Bytes
    BY <1>1, ConcatOfBytes
  <2> QED
    BY <2>1, PartsRead DEF PartsReader
<1>3. ASSUME NEW k \in 0..(Len(Concat[es]) - 1)
      PROVE  ~PartsReader(readers)[SubSeq(Concat[es], 1, k)].ok
  <2>1. SubSeq(Concat[es], 1, k) \in Bytes
    BY <1>1, ConcatOfBytes, PrefixOfBytes
  <2> QED
    BY <2>1, PartsCutShort DEF PartsReader
<1> QED
  BY <1>1, <1>2, <1>3 DEF Codes

-----------------------------------------------------------------------------
(* Arrays.                                                                   *)

\* LongCodes, in terms of ReadLong.
LEMMA LongIs ==
    ASSUME NEW k \in Int
    PROVE  /\ EncodeLong(k) \in Bytes /\ Len(EncodeLong(k)) \in Nat \ {0}
           /\ \A rest \in Bytes : ReadLong(EncodeLong(k) \o rest) = Got(k, rest)
           /\ \A n \in 0..(Len(EncodeLong(k)) - 1) : ~ReadLong(SubSeq(EncodeLong(k), 1, n)).ok
           /\ ~ReadLong(<<>>).ok
<1> DEFINE e == EncodeLong(k)
<1>1. /\ e \in Bytes
      /\ \A rest \in Bytes : LongReader[e \o rest] = Got(k, rest)
      /\ \A n \in 0..(Len(e) - 1) : ~LongReader[SubSeq(e, 1, n)].ok
  BY LongCodes DEF Codes
<1> HIDE DEF e
<1>2. ASSUME NEW rest \in Bytes PROVE ReadLong(e \o rest) = Got(k, rest)
  BY <1>1, <1>2, ConcatOfBytes DEF LongReader
<1>3. Len(e) \in Nat
  BY <1>1, ConcatOfBytes
<1>4. ASSUME NEW n \in 0..(Len(e) - 1) PROVE ~ReadLong(SubSeq(e, 1, n)).ok
  <2>1. SubSeq(e, 1, n) \in Bytes
    BY <1>1, <1>3, PrefixOfBytes
  <2> QED
    BY <1>1, <2>1 DEF LongReader
<1>5. ~ReadLong(<<>>).ok
  <2>1. ReadVarint[<<>>] = Failed
    BY ReadVarintIs
  <2>2. ReadLong(<<>>) = Unzigzagged(Failed)
    BY <2>1, Zenon DEF ReadLong
  <2> QED
    BY <2>2 DEF Unzigzagged, Failed
<1>6. Len(e) # 0
  <2>1. SUFFICES ASSUME Len(e) = 0 PROVE FALSE
    OBVIOUS
  <2>2. e = <<>> /\ <<>> \in Bytes
    BY <1>1, <2>1, EmptySeq DEF Bytes
  <2>3. e \o <<>> = <<>>
    BY <2>2, ConcatEmptySeq DEF Bytes
  <2>4. ReadLong(<<>>) = Got(k, <<>>)
    BY <1>2, <2>2, <2>3
  <2> QED
    BY <1>5, <2>4, GotIs
<1> QED
  BY <1>1, <1>2, <1>3, <1>4, <1>5, <1>6 DEF e

\* The zero that closes an array is one byte.
LEMMA EncodedZero == EncodeLong(0) = <<0>>
<1>1. Zigzag(0) = 0
  BY DEF Zigzag
<1>2. Varint[0] = <<0>>
  <2>1. 0 \in Nat /\ 0 < 128
    OBVIOUS
  <2> QED
    BY <2>1, VarintIs, Zenon
<1> QED
  BY <1>1, <1>2, Zenon DEF EncodeLong

\* What ReadArray keeps between two blocks, and after the last one.
Going(values, b) == [read |-> Got(values, b), more |-> TRUE]
Done(values, b) == [read |-> Got(values, b), more |-> FALSE]

\* What ReadArray begins with.
Start(b) == Going(<<>>, b)

\* What ReadArray keeps of the blocks it has been through.
Blocks(item, b, h) ==
    /\ h[0] = Start(b)
    /\ \A i \in 1..Len(b) : h[i] = NextBlock(item, h[i - 1])
    /\ ReadArray(item, b) = Ended(h[Len(b)])

\* ReadArray goes through the blocks one by one.
LEMMA ReadArrayIs ==
    ASSUME NEW item, NEW b, Len(b) \in Nat
    PROVE  \E h : Blocks(item, b, h)
<1> DEFINE F(h, k) == [i \in 0..k |->
                          IF i = 0 THEN Start(b) ELSE NextBlock(item, h[i - 1])]
           T == {k \in Nat : \E h : h = F(h, k)}
<1>1. 0 \in T
  <2> DEFINE h == [i \in 0..0 |-> Start(b)]
  <2>1. h = F(h, 0)
    OBVIOUS
  <2> QED
    BY <2>1
<1>2. ASSUME NEW k \in T PROVE k + 1 \in T
  <2>1. PICK h : h = F(h, k)
    BY <1>2
  <2> DEFINE g == [i \in 0..(k + 1) |-> IF i = k + 1 THEN NextBlock(item, h[k]) ELSE h[i]]
  <2>2. k \in Nat
    OBVIOUS
  <2>3. \A i \in 0..k : h[i] = IF i = 0 THEN Start(b) ELSE NextBlock(item, h[i - 1])
    BY <2>1
  <2>4. \A i \in 0..k : g[i] = h[i]
    BY <2>2
  <2>5. g[k + 1] = NextBlock(item, h[k])
    BY <2>2
  <2>6. g = [i \in 0..(k + 1) |-> g[i]]
    OBVIOUS
  <2> HIDE DEF g
  <2>7. \A i \in 0..(k + 1) : g[i] = IF i = 0 THEN Start(b) ELSE NextBlock(item, g[i - 1])
    BY <2>2, <2>3, <2>4, <2>5
  <2>8. g = F(g, k + 1)
    BY <2>6, <2>7
  <2> HIDE DEF F
  <2> QED
    BY <2>2, <2>8
<1>3. T \in SUBSET Nat
  OBVIOUS
<1> HIDE DEF T
<1>4. Len(b) \in T
  BY <1>1, <1>2, <1>3, Induction
<1>5. \E g : g = F(g, Len(b))
  BY <1>4 DEF T
<1> DEFINE h == CHOOSE g : g = F(g, Len(b))
<1>6. h = F(h, Len(b))
  BY <1>5, Zenon
<1>7. ReadArray(item, b) = Ended(h[Len(b)])
  BY Zenon DEF ReadArray, Start, Going
<1> HIDE DEF h
<1>8. /\ h[0] = Start(b)
      /\ \A i \in 1..Len(b) : h[i] = NextBlock(item, h[i - 1])
  BY <1>6
<1> QED
  BY <1>7, <1>8 DEF Blocks

\* Once there is no more to read, what was read stays.
LEMMA BlocksEnd ==
    ASSUME NEW item, NEW b, Len(b) \in Nat, NEW h, Blocks(item, b, h),
           NEW j \in 0..Len(b), ~h[j].more
    PROVE  ReadArray(item, b) = h[j].read
<1> DEFINE T == {k \in Nat : j + k <= Len(b) => h[j + k] = h[j]}
<1>1. 0 \in T
  OBVIOUS
<1>2. ASSUME NEW k \in T PROVE k + 1 \in T
  <2> SUFFICES ASSUME j + (k + 1) <= Len(b) PROVE h[j + (k + 1)] = h[j]
    OBVIOUS
  <2>1. j + (k + 1) \in 1..Len(b) /\ (j + (k + 1)) - 1 = j + k /\ h[j + k] = h[j]
    OBVIOUS
  <2>2. h[j + (k + 1)] = NextBlock(item, h[j])
    BY <2>1 DEF Blocks
  <2> QED
    BY <2>2 DEF NextBlock
<1>3. T \in SUBSET Nat
  OBVIOUS
<1> HIDE DEF T
<1>4. Len(b) - j \in T
  BY <1>1, <1>2, <1>3, Induction
<1>5. j + (Len(b) - j) = Len(b)
  OBVIOUS
<1>6. h[Len(b)] = h[j]
  BY <1>4, <1>5 DEF T
<1> QED
  BY <1>6, Zenon DEF Blocks, Ended

\* One step of ReadArray, from the values so far and the bytes ahead.
LEMMA NextBlockIs ==
    ASSUME NEW item, NEW values, NEW b
    PROVE  NextBlock(item, Going(values, b)) = WithBlock(values, Block(item, ReadLong(b)))
<1> DEFINE s == Going(values, b)
<1>1. s.more /\ s.read = Got(values, b)
  BY DEF Going
<1> HIDE DEF s
<1>2. s.read.value = values /\ s.read.rest = b
  BY <1>1, GotIs
<1>3. NextBlock(item, s) = WithBlock(s.read.value, Block(item, ReadLong(s.read.rest)))
  BY <1>1, Zenon DEF NextBlock
<1>4. NextBlock(item, s) = WithBlock(values, Block(item, ReadLong(b)))
  BY <1>2, <1>3, Zenon
<1> QED
  BY <1>4 DEF s

\* A block that cannot be read ends the array with failure.
LEMMA WithBlockFailed ==
    ASSUME NEW values, NEW r, ~r.ok
    PROVE  ~WithBlock(values, r).more /\ ~WithBlock(values, r).read.ok
BY DEF WithBlock, Failed

\* A block that can be read extends the array, an empty one ends it.
LEMMA WithBlockGot ==
    ASSUME NEW values, NEW more, NEW c
    PROVE  /\ more # <<>> => WithBlock(values, Got(more, c)) = Going(values \o more, c)
           /\ more = <<>> => WithBlock(values, Got(more, c)) = Done(values \o more, c)
<1>1. WithBlock(values, Got(more, c)) = [read |-> Got(values \o more, c), more |-> more # <<>>]
  BY GotIs, Zenon DEF WithBlock
<1> QED
  BY <1>1 DEF Going, Done

\* An array that has ended.
LEMMA DoneIs == \A values, b : ~Done(values, b).more /\ Done(values, b).read = Got(values, b)
BY DEF Done

\* An array that has not.
LEMMA GoingIs == \A values, b : Going(values, b).more
BY DEF Going

\* Without a count there is no block.
LEMMA BlockFailed ==
    ASSUME NEW item, NEW r, ~r.ok
    PROVE  ~Block(item, r).ok
BY DEF Block, Failed

\* A block is as many items as its count.
LEMMA BlockIs ==
    ASSUME NEW item, NEW n \in Nat, NEW b \in Bytes
    PROVE  Block(item, Got(n, b)) = PartsReader([i \in 1..n |-> item])[b]
<1>1. Got(n, b).value >= 0
  BY GotIs
<1>2. Block(item, Got(n, b)) = ReadAll([i \in 1..n |-> item], b)
  BY <1>1, GotIs, Zenon DEF Block
<1> QED
  BY <1>2 DEF PartsReader

\* The zero that closes an array ends it.
LEMMA LastBlock ==
    ASSUME NEW item, NEW values, NEW rest \in Bytes
    PROVE  NextBlock(item, Going(values, <<0>> \o rest)) = Done(values \o <<>>, rest)
<1> DEFINE none == [i \in 1..0 |-> item]
<1>1. ReadLong(<<0>> \o rest) = Got(0, rest)
  <2>1. ReadLong(EncodeLong(0) \o rest) = Got(0, rest)
    BY LongIs
  <2> QED
    BY <2>1, EncodedZero, Zenon
<1>2. PartsReader(none)[rest] = Got(<<>>, rest)
  <2>1. PartsCode(none, <<>>, <<>>)
    <3>1. <<>> \in Seq(Bytes) /\ Len(<<>>) = 0
      BY EmptySeq
    <3>2. Len(none) = 0 /\ <<>> = [i \in 1..0 |-> <<>>[i]]
      OBVIOUS
    <3> QED
      BY <3>1, <3>2 DEF PartsCode
  <2>2. PartsReader(none)[Concat[<<>>] \o rest] = Got(<<>>, rest)
    BY <2>1, PartsCoded DEF Codes
  <2>3. Concat[<<>>] \o rest = rest
    BY ConcatIs, ConcatEmptySeq DEF Bytes
  <2> QED
    BY <2>2, <2>3
<1>3. Block(item, Got(0, rest)) = Got(<<>>, rest)
  BY <1>2, BlockIs
<1>4. NextBlock(item, Going(values, <<0>> \o rest)) = WithBlock(values, Got(<<>>, rest))
  BY <1>1, <1>3, NextBlockIs
<1>5. WithBlock(values, Got(<<>>, rest)) = Done(values \o <<>>, rest)
  BY WithBlockGot
<1> QED
  BY <1>4, <1>5, Zenon

\* ReadArray as a function.
ArrayReader(item) == [b \in Bytes |-> ReadArray(item, b)]

\* The items of an array, as item will find them.
ItemsCode(item, es, vs) ==
    /\ es \in Seq(Bytes)
    /\ Len(vs) = Len(es) /\ vs = [i \in 1..Len(es) |-> vs[i]]
    /\ \A i \in 1..Len(es) : Codes(item, es[i], vs[i])

\* An array with items is their block, which is its count and them, and a zero.
LEMMA EncodedArray ==
    ASSUME NEW es \in Seq(Bytes)
    PROVE  /\ es = <<>> => EncodeArray(es) = <<0>>
           /\ es # <<>> => EncodeArray(es) = EncodeLong(Len(es)) \o (Concat[es] \o <<0>>)
           /\ Len(es) \in Nat /\ (es # <<>> => Len(es) # 0)
           /\ Concat[es] \in Bytes /\ EncodeLong(Len(es)) \in Bytes /\ <<0>> \in Bytes
           /\ EncodeArray(es) \in Bytes
<1>1. Len(es) \in Nat /\ (es # <<>> => Len(es) # 0)
  BY EmptySeq
<1>2. Concat[es] \in Bytes
  <2>1. After(es, 0) = Concat[es] /\ \A i \in 0..Len(es) : After(es, i) \in Bytes
    BY AfterIs
  <2>2. 0 \in 0..Len(es)
    BY <1>1
  <2> QED
    BY <2>1, <2>2
<1>3. EncodeLong(Len(es)) \in Bytes
  BY <1>1, LongIs
<1>4. <<0>> \in Bytes
  BY DEF Bytes, Byte
<1>5. es = <<>> => EncodeArray(es) = <<0>>
  BY <1>4, ConcatEmptySeq DEF EncodeArray, Bytes
<1>6. es # <<>> => EncodeArray(es) = EncodeLong(Len(es)) \o (Concat[es] \o <<0>>)
  BY <1>2, <1>3, <1>4, Associative DEF EncodeArray
<1>7. EncodeArray(es) \in Bytes
  <2>1. EncodeLong(Len(es)) \o (Concat[es] \o <<0>>) \in Bytes
    BY <1>2, <1>3, <1>4, ConcatOfBytes
  <2> QED
    BY <1>4, <1>5, <1>6, <2>1
<1> QED
  BY <1>1, <1>2, <1>3, <1>4, <1>5, <1>6, <1>7

\* The block of all the items of an array, and its being cut short.
LEMMA ItemsBlock ==
    ASSUME NEW item, NEW es, NEW vs, ItemsCode(item, es, vs)
    PROVE  /\ \A b \in Bytes : ReadLong(EncodeLong(Len(es)) \o b) = Got(Len(es), b)
           /\ \A b \in Bytes : Block(item, Got(Len(es), Concat[es] \o b)) = Got(vs, b)
           /\ \A k \in 0..(Len(Concat[es]) - 1) :
                 ~Block(item, Got(Len(es), SubSeq(Concat[es], 1, k))).ok
<1> DEFINE n == Len(es)
           readers == [i \in 1..n |-> item]
<1>1. n \in Nat /\ es \in Seq(Bytes) /\ Concat[es] \in Bytes
  BY EncodedArray DEF ItemsCode
<1>2. PartsCode(readers, es, vs)
  BY <1>1 DEF ItemsCode, PartsCode
<1> HIDE DEF n, readers
<1>3. /\ \A b \in Bytes : PartsReader(readers)[Concat[es] \o b] = Got(vs, b)
      /\ \A k \in 0..(Len(Concat[es]) - 1) : ~PartsReader(readers)[SubSeq(Concat[es], 1, k)].ok
  BY <1>2, PartsCoded DEF Codes
<1>4. \A b \in Bytes : Block(item, Got(n, b)) = PartsReader(readers)[b]
  BY <1>1, BlockIs DEF readers
<1>5. ASSUME NEW b \in Bytes PROVE Block(item, Got(n, Concat[es] \o b)) = Got(vs, b)
  <2>1. Concat[es] \o b \in Bytes
    BY <1>1, ConcatOfBytes
  <2> QED
    BY <1>3, <1>4, <2>1
<1>6. ASSUME NEW k \in 0..(Len(Concat[es]) - 1)
      PROVE  ~Block(item, Got(n, SubSeq(Concat[es], 1, k))).ok
  <2>1. SubSeq(Concat[es], 1, k) \in Bytes
    BY <1>1, ConcatOfBytes, PrefixOfBytes
  <2> QED
    BY <1>3, <1>4, <2>1
<1>7. \A b \in Bytes : ReadLong(EncodeLong(n) \o b) = Got(n, b)
  BY <1>1, LongIs
<1> QED
  BY <1>5, <1>6, <1>7 DEF n

\* An array is read as its items.
LEMMA ArrayRead ==
    ASSUME NEW item, NEW es, NEW vs, ItemsCode(item, es, vs), NEW rest \in Bytes
    PROVE  ReadArray(item, EncodeArray(es) \o rest) = Got(vs, rest)
<1> DEFINE b == EncodeArray(es) \o rest
<1>1. es \in Seq(Bytes) /\ Len(vs) = Len(es)
  BY DEF ItemsCode
<1>2. /\ Len(es) \in Nat /\ (es # <<>> => Len(es) # 0)
      /\ Concat[es] \in Bytes /\ EncodeLong(Len(es)) \in Bytes /\ <<0>> \in Bytes
      /\ EncodeArray(es) \in Bytes
  BY <1>1, EncodedArray
<1>3. vs \in Seq({vs[i] : i \in 1..Len(es)})
  BY <1>2, IsSequence DEF ItemsCode
<1>4. b \in Bytes /\ Len(b) \in Nat
  BY <1>2, ConcatOfBytes
<1> HIDE DEF b
<1>5. PICK h : Blocks(item, b, h)
  BY <1>4, ReadArrayIs
<1>6. h[0] = Start(b) /\ \A i \in 1..Len(b) : h[i] = NextBlock(item, h[i - 1])
  BY <1>5 DEF Blocks
<1>7. CASE es = <<>>
  <2>1. b = <<0>> \o rest
    BY <1>1, <1>7, EncodedArray DEF b
  <2>2. Len(b) >= 1
    BY <2>1, <1>2, ConcatOfBytes
  <2>3. h[1] = NextBlock(item, Start(<<0>> \o rest))
    BY <1>4, <1>6, <2>1, <2>2
  <2>4. h[1] = Done(<<>> \o <<>>, rest)
    BY <2>3, LastBlock DEF Start
  <2>5. ~h[1].more /\ h[1].read = Got(<<>> \o <<>>, rest)
    BY <2>4, DoneIs, Zenon
  <2>6. ReadArray(item, b) = h[1].read
    BY <1>4, <1>5, <2>2, <2>5, BlocksEnd
  <2>7. vs = <<>>
    <3>1. Len(vs) = 0
      BY <1>1, <1>7, EmptySeq
    <3> QED
      BY <1>3, <3>1, EmptySeq
  <2>8. <<>> \o <<>> = <<>>
    BY ConcatEmptySeq, EmptySeq
  <2> QED
    BY <2>5, <2>6, <2>7, <2>8 DEF b
<1>8. CASE es # <<>>
  <2> DEFINE c == EncodeLong(Len(es))
             tail == <<0>> \o rest
  <2>1. tail \in Bytes /\ c \in Bytes
    BY <1>2, ConcatOfBytes
  <2>2. b = c \o (Concat[es] \o tail)
    <3>1. b = (c \o (Concat[es] \o <<0>>)) \o rest
      BY <1>1, <1>8, EncodedArray DEF b
    <3>2. Concat[es] \o <<0>> \in Bytes
      BY <1>2, ConcatOfBytes
    <3>3. (c \o (Concat[es] \o <<0>>)) \o rest = c \o ((Concat[es] \o <<0>>) \o rest)
      BY <2>1, <3>2, Associative, ZenonT(30)
    <3>4. (Concat[es] \o <<0>>) \o rest = Concat[es] \o tail
      BY <1>2, Associative, ZenonT(30)
    <3> QED
      BY <3>1, <3>3, <3>4, Zenon
  <2>3. Len(b) >= 2
    <3>1. Len(c) >= 1 /\ Len(c) \in Nat
      BY <1>2, LongIs
    <3>0. Len(<<0>>) = 1 /\ Len(tail) = Len(<<0>>) + Len(rest) /\ Len(rest) \in Nat
      BY <1>2, ConcatOfBytes
    <3> HIDE DEF c, tail
    <3>2. Len(Concat[es]) \in Nat /\ Concat[es] \o tail \in Bytes
      BY <1>2, <2>1, ConcatOfBytes
    <3>3. Len(Concat[es] \o tail) = Len(Concat[es]) + Len(tail)
      BY <2>1, <1>2, ConcatOfBytes
    <3>4. Len(b) = Len(c) + Len(Concat[es] \o tail)
      BY <2>1, <2>2, <3>2, ConcatOfBytes
    <3> QED
      <4>1. Len(tail) >= 1 /\ Len(tail) \in Nat
        BY <3>0
      <4>2. Len(Concat[es]) \in Nat
        BY <1>2, ConcatOfBytes
      <4> QED
        BY <3>1, <3>3, <3>4, <4>1, <4>2
  <2>4. Block(item, ReadLong(b)) = Got(vs, tail)
    <3>1. Concat[es] \o tail \in Bytes
      BY <2>1, <1>2, ConcatOfBytes
    <3>2. ReadLong(b) = Got(Len(es), Concat[es] \o tail)
      BY <2>2, <3>1, ItemsBlock, Zenon
    <3>3. Block(item, Got(Len(es), Concat[es] \o tail)) = Got(vs, tail)
      BY <2>1, ItemsBlock, Zenon
    <3> QED
      BY <3>2, <3>3, Zenon
  <2> HIDE DEF c
  <2>5. h[1] = NextBlock(item, Start(b)) /\ h[2] = NextBlock(item, h[1])
    BY <1>4, <1>6, <2>3
  <2>6. h[1] = WithBlock(<<>>, Got(vs, tail))
    BY <2>4, <2>5, NextBlockIs DEF Start
  <2>7. vs # <<>> /\ <<>> \o vs = vs /\ vs \o <<>> = vs
    <3>1. vs # <<>>
      BY <1>1, <1>2, <1>8
    <3> QED
      BY <3>1, <1>3, ConcatEmptySeq
  <2>8. h[1] = Going(vs, <<0>> \o rest)
    <3>1. \A d : WithBlock(<<>>, Got(vs, d)) = Going(<<>> \o vs, d)
      BY <2>7, WithBlockGot, ZenonT(30)
    <3> QED
      BY <2>6, <2>7, <3>1, Zenon
  <2>9. h[2] = Done(vs, rest)
    BY <2>5, <2>7, <2>8, LastBlock
  <2>10. ~h[2].more /\ h[2].read = Got(vs, rest)
    BY <2>9, DoneIs, Zenon
  <2>11. ReadArray(item, b) = h[2].read
    BY <1>4, <1>5, <2>3, <2>10, BlocksEnd
  <2> QED
    BY <2>10, <2>11 DEF b
<1> QED
  BY <1>7, <1>8

\* An array cut short, within its count, its items or before its zero, fails.
LEMMA ArrayCutShort ==
    ASSUME NEW item, NEW es, NEW vs, ItemsCode(item, es, vs),
           NEW k \in 0..(Len(EncodeArray(es)) - 1)
    PROVE  ~ReadArray(item, SubSeq(EncodeArray(es), 1, k)).ok
<1> DEFINE b == SubSeq(EncodeArray(es), 1, k)
<1>1. es \in Seq(Bytes) /\ Len(vs) = Len(es)
  BY DEF ItemsCode
<1>2. /\ Len(es) \in Nat /\ (es # <<>> => Len(es) # 0)
      /\ Concat[es] \in Bytes /\ EncodeLong(Len(es)) \in Bytes /\ <<0>> \in Bytes
      /\ EncodeArray(es) \in Bytes
  BY <1>1, EncodedArray
<1>3. b \in Bytes /\ Len(b) = k /\ k \in Nat
  <2>1. k \in 0..Len(EncodeArray(es)) /\ k \in Nat
    BY <1>2, ConcatOfBytes
  <2> QED
    BY <1>2, <2>1, PrefixOfBytes
<1>4. PICK h : Blocks(item, b, h)
  BY <1>3, ReadArrayIs
<1>5. /\ h[0] = Start(b) /\ \A i \in 1..k : h[i] = NextBlock(item, h[i - 1])
      /\ ReadArray(item, b) = Ended(h[k])
  BY <1>3, <1>4 DEF Blocks
<1>6. h[k].more => ~ReadArray(item, b).ok
  BY <1>5 DEF Ended, Failed
<1>7. ASSUME NEW j \in 0..k, ~h[j].more PROVE ReadArray(item, b) = h[j].read
  <2>1. j \in 0..Len(b) /\ Len(b) \in Nat
    BY <1>3
  <2> HIDE DEF b
  <2> QED
    BY <1>4, <1>7, <2>1, BlocksEnd
<1>8. CASE k = 0
  BY <1>5, <1>6, <1>8, GoingIs DEF Start
<1>9. CASE k # 0
  <2> DEFINE c == EncodeLong(Len(es))
             d == Concat[es]
  <2>1. es # <<>>
    <3>1. SUFFICES ASSUME es = <<>> PROVE FALSE
      OBVIOUS
    <3>2. EncodeArray(es) = <<0>>
      BY <1>1, <3>1, EncodedArray
    <3> QED
      BY <3>2, <1>9
  <2>2. EncodeArray(es) = c \o (d \o <<0>>) /\ d \o <<0>> \in Bytes /\ c \in Bytes /\ d \in Bytes
    BY <1>1, <1>2, <2>1, EncodedArray, ConcatOfBytes
  <2>3. /\ Len(c) \in Nat \ {0} /\ Len(d) \in Nat /\ Len(d \o <<0>>) = Len(d) + 1
        /\ Len(c \o (d \o <<0>>)) = Len(c) + (Len(d) + 1)
    <3>1. Len(c) \in Nat \ {0}
      BY <1>2, LongIs
    <3>2. Len(<<0>>) = 1
      OBVIOUS
    <3> HIDE DEF c, d
    <3>3. Len(d) \in Nat /\ Len(d \o <<0>>) = Len(d) + 1
      BY <1>2, <2>2, <3>2, ConcatOfBytes
    <3>4. Len(c \o (d \o <<0>>)) = Len(c) + (Len(d) + 1)
      BY <2>2, <3>3, ConcatOfBytes
    <3> QED
      BY <3>1, <3>3, <3>4
  <2>4. /\ \A r \in Bytes : ReadLong(c \o r) = Got(Len(es), r)
        /\ \A n \in 0..(Len(c) - 1) : ~ReadLong(SubSeq(c, 1, n)).ok
        /\ ~ReadLong(<<>>).ok
    <3>1. Len(es) \in Int
      BY <1>2
    <3> QED
      BY ONLY <3>1, LongIs
  <2>5. /\ \A r \in Bytes : Block(item, Got(Len(es), d \o r)) = Got(vs, r)
        /\ \A n \in 0..(Len(d) - 1) : ~Block(item, Got(Len(es), SubSeq(d, 1, n))).ok
    BY ItemsBlock
  <2> HIDE DEF c, d
  <2>6. k \in 0..(Len(c) + Len(d)) /\ k \in 0..(Len(c) + Len(d \o <<0>>)) /\ k \in 1..k
        /\ b = SubSeq(c \o (d \o <<0>>), 1, k)
    BY <1>3, <1>9, <2>2, <2>3
  <2>7. h[1] = WithBlock(<<>>, Block(item, ReadLong(b)))
    <3>1. h[1] = NextBlock(item, Start(b))
      BY <1>3, <1>5, <1>9
    <3> QED
      BY <3>1, NextBlockIs DEF Start
  <2>8. ASSUME ~Block(item, ReadLong(b)).ok PROVE ~ReadArray(item, b).ok
    <3>1. ~h[1].more /\ ~h[1].read.ok
      BY <2>7, <2>8, WithBlockFailed
    <3> QED
      BY <1>3, <1>7, <1>9, <3>1
  <2>9. CASE k < Len(c)
    <3>1. b = SubSeq(c, 1, k)
      BY <2>2, <2>3, <2>6, <2>9, PrefixOfConcat
    <3>2. ~ReadLong(b).ok
      <4>1. k \in 0..(Len(c) - 1)
        BY <2>3, <2>6, <2>9
      <4>2. ~ReadLong(SubSeq(c, 1, k)).ok
        BY <2>4, <4>1
      <4> QED
        BY <3>1, <4>2, Zenon
    <3> QED
      BY <2>8, <3>2, BlockFailed
  <2>10. CASE k >= Len(c)
    <3> DEFINE l == k - Len(c)
    <3>1. l \in 0..Len(d) /\ b = c \o SubSeq(d \o <<0>>, 1, l)
      BY <2>2, <2>3, <2>6, <2>10, PrefixOfConcat
    <3> HIDE DEF l
    <3>2. SubSeq(d \o <<0>>, 1, l) = SubSeq(d, 1, l) /\ SubSeq(d, 1, l) \in Bytes
      <4>1. l <= Len(d) /\ l \in 0..(Len(d) + Len(<<0>>))
        BY <2>3, <3>1
      <4> QED
        BY <1>2, <2>2, <3>1, <4>1, PrefixOfConcat, PrefixOfBytes
    <3>3. ReadLong(b) = Got(Len(es), SubSeq(d, 1, l))
      BY <2>4, <3>1, <3>2
    <3>4. CASE l < Len(d)
      <4>1. l \in 0..(Len(d) - 1)
        BY <2>3, <3>1, <3>4
      <4>2. ~Block(item, Got(Len(es), SubSeq(d, 1, l))).ok
        BY <2>5, <4>1
      <4> QED
        BY <2>8, <3>3, <4>2
    <3>5. CASE l = Len(d)
      <4>1. SubSeq(d, 1, l) = d
        BY <2>2, <3>5, SubSeqFull DEF Bytes
      <4>2. <<>> \in Bytes /\ d \o <<>> = d
        BY <2>2, EmptySeq, ConcatEmptySeq DEF Bytes
      <4>3. Block(item, Got(Len(es), d)) = Got(vs, <<>>)
        BY <2>5, <4>2
      <4>4. Block(item, ReadLong(b)) = Got(vs, <<>>)
        BY <3>3, <4>1, <4>3
      <4>5. h[1] = WithBlock(<<>>, Got(vs, <<>>))
        BY <2>7, <4>4, Zenon
      <4>6. vs # <<>>
        BY <1>1, <1>2, <2>1
      <4>7. h[1] = Going(<<>> \o vs, <<>>)
        BY <4>5, <4>6, WithBlockGot
      <4>8. CASE k = 1
        BY <1>6, <4>7, <4>8, GoingIs
      <4>9. CASE k # 1
        <5>1. 2 \in 1..k /\ 2 \in 0..k /\ 2 - 1 = 1
          BY <1>3, <1>9, <4>9
        <5>2. h[2] = NextBlock(item, h[1])
          BY <1>5, <5>1
        <5>4. h[2] = WithBlock(<<>> \o vs, Block(item, ReadLong(<<>>)))
          BY <5>2, <4>7, NextBlockIs
        <5>5. ~h[2].more /\ ~h[2].read.ok
          BY <2>4, <5>4, BlockFailed, WithBlockFailed
        <5> QED
          BY <1>7, <5>1, <5>5
      <4> QED
        BY <4>8, <4>9
    <3> QED
      BY <2>3, <3>1, <3>4, <3>5
  <2> QED
    BY <1>3, <2>3, <2>9, <2>10
<1> QED
  BY <1>8, <1>9

\* Both together.
LEMMA ArrayCoded ==
    ASSUME NEW item, NEW es, NEW vs, ItemsCode(item, es, vs)
    PROVE  Codes(ArrayReader(item), EncodeArray(es), vs)
<1>1. EncodeArray(es) \in Bytes
  BY EncodedArray DEF ItemsCode
<1>2. ASSUME NEW rest \in Bytes PROVE ArrayReader(item)[EncodeArray(es) \o rest] = Got(vs, rest)
  <2>1. EncodeArray(es) \o rest \in Bytes
    BY <1>1, ConcatOfBytes
  <2> QED
    BY <2>1, ArrayRead DEF ArrayReader
<1>3. ASSUME NEW k \in 0..(Len(EncodeArray(es)) - 1)
      PROVE  ~ArrayReader(item)[SubSeq(EncodeArray(es), 1, k)].ok
  <2>1. SubSeq(EncodeArray(es), 1, k) \in Bytes
    BY <1>1, ConcatOfBytes, PrefixOfBytes
  <2> QED
    BY <2>1, ArrayCutShort DEF ArrayReader
<1> QED
  BY <1>1, <1>2, <1>3 DEF Codes

-----------------------------------------------------------------------------
(* Values of every schema.                                                   *)

\* A sequence, whatever its items are.
IsSeq(s) == Len(s) \in Nat /\ s = [i \in 1..Len(s) |-> s[i]]

\* The values of a schema without parts, as Encode takes them.
IsScalar(S, v) ==
    \/ S.type = "null" /\ v = "null"
    \/ S.type \in {"int", "long", "enum"} /\ v \in Int
    \/ S.type = "boolean" /\ v \in BOOLEAN
    \/ S.type \in {"string", "bytes"} /\ v \in Bytes

\* The names of the fields of a record.
FieldNames(S) == {S.fields[i][1] : i \in DOMAIN S.fields}

\* An array, or a record with every field of its schema once.
IsShape(S, v) ==
    \/ S.type = "array" /\ IsSeq(v)
    \/ /\ S.type = "record" /\ IsSeq(S.fields)
       /\ \A i, j \in DOMAIN S.fields : S.fields[i][1] = S.fields[j][1] => i = j
       /\ v = [f \in FieldNames(S) |-> v[f]]

\* The values of a schema, when IsPart says what those of its parts are.
IsWith(IsPart(_, _), S, v) ==
    \/ IsScalar(S, v)
    \/ IsShape(S, v) /\ \A i \in DOMAIN Parts(S, v) : IsPart(Parts(S, v)[i].schema, Parts(S, v)[i].value)

\* The values of the schemas of Encode_1, Encode_2, Encode_3 and Encode.
Is_1(S, v) == IsWith(IsScalar, S, v)
Is_2(S, v) == IsWith(Is_1, S, v)
Is_3(S, v) == IsWith(Is_2, S, v)
IsValue(S, v) == IsWith(Is_3, S, v)

\* The readers of the schemas without parts.
ScalarReader(S) == [b \in Bytes |-> ReadScalar(S, b)]

\* A number as a scalar.
LEMMA NumberCoded ==
    ASSUME NEW S, NEW v \in Int, S.type \in {"int", "long", "enum"}
    PROVE  Codes(ScalarReader(S), EncodeScalar(S, v), v)
<1>1. ScalarReader(S) = LongReader
  BY DEF ScalarReader, LongReader, ReadScalar
<1>2. EncodeScalar(S, v) = EncodeLong(v)
  BY DEF EncodeScalar
<1> QED
  BY <1>1, <1>2, LongCodes

\* A null takes no bytes.
LEMMA NullCoded ==
    ASSUME NEW S, S.type = "null"
    PROVE  Codes(ScalarReader(S), EncodeScalar(S, "null"), "null")
<1>1. EncodeScalar(S, "null") = <<>>
  BY DEF EncodeScalar
<1>2. \A b : ReadScalar(S, b) = Got("null", b)
  BY DEF ReadScalar
<1>3. <<>> \in Bytes /\ Len(<<>>) = 0 /\ \A b \in Bytes : <<>> \o b = b
  BY EmptySeq, ConcatEmptySeq DEF Bytes
<1>4. \A k \in 0..(Len(<<>>) - 1) : FALSE
  BY <1>3
<1>5. \A rest \in Bytes : ScalarReader(S)[<<>> \o rest] = Got("null", rest)
  BY <1>2, <1>3 DEF ScalarReader
<1> QED
  BY <1>1, <1>3, <1>4, <1>5 DEF Codes

\* A boolean is a byte.
LEMMA BooleanCoded ==
    ASSUME NEW S, NEW v \in BOOLEAN, S.type = "boolean"
    PROVE  Codes(ScalarReader(S), EncodeScalar(S, v), v)
<1> DEFINE x == IF v THEN 1 ELSE 0
<1>1. EncodeScalar(S, v) = <<x>>
  BY DEF EncodeScalar
<1>2. \A b : ReadScalar(S, b) = IF b = <<>> THEN Failed ELSE Got(Head(b) # 0, Tail(b))
  BY DEF ReadScalar
<1>3. x \in Byte /\ (x # 0) = v
  BY DEF Byte
<1> HIDE DEF x
<1>4. <<x>> \in Bytes /\ Len(<<x>>) = 1 /\ <<>> \in Bytes
  BY <1>3, EmptySeq DEF Bytes
<1>5. ASSUME NEW rest \in Bytes PROVE ScalarReader(S)[<<x>> \o rest] = Got(v, rest)
  <2>1. /\ <<x>> \o rest \in Bytes /\ <<x>> \o rest # <<>>
        /\ Head(<<x>> \o rest) = x /\ Tail(<<x>> \o rest) = rest
    BY <1>3, Prepended
  <2>2. ReadScalar(S, <<x>> \o rest) = Got(v, rest)
    BY <1>2, <1>3, <2>1, Zenon
  <2> QED
    BY <2>1, <2>2 DEF ScalarReader
<1>6. ASSUME NEW k \in 0..(Len(<<x>>) - 1) PROVE ~ScalarReader(S)[SubSeq(<<x>>, 1, k)].ok
  <2>1. k = 0
    BY <1>4
  <2>2. SubSeq(<<x>>, 1, k) = <<>>
    BY <2>1, EmptyPrefix, Zenon
  <2>3. ScalarReader(S)[<<>>] = Failed
    BY <1>2, <1>4 DEF ScalarReader
  <2>4. ScalarReader(S)[SubSeq(<<x>>, 1, k)] = Failed
    BY <2>2, <2>3, Zenon
  <2> QED
    BY <2>4 DEF Failed
<1> QED
  BY <1>1, <1>4, <1>5, <1>6 DEF Codes

\* A string is its length and its bytes.
LEMMA TextCoded ==
    ASSUME NEW S, NEW v \in Bytes, S.type \in {"string", "bytes"}
    PROVE  Codes(ScalarReader(S), EncodeScalar(S, v), v)
<1> DEFINE c == EncodeLong(Len(v))
<1>1. EncodeScalar(S, v) = c \o v
  BY DEF EncodeScalar
<1>2. \A b : ReadScalar(S, b) = Taken(ReadLong(b))
  BY DEF ReadScalar
<1>3. Len(v) \in Nat /\ Len(v) \in Int
  BY LenProperties DEF Bytes
<1>4. /\ c \in Bytes /\ Len(c) \in Nat
      /\ \A r \in Bytes : ReadLong(c \o r) = Got(Len(v), r)
      /\ \A n \in 0..(Len(c) - 1) : ~ReadLong(SubSeq(c, 1, n)).ok
  BY ONLY <1>3, LongIs
<1> HIDE DEF c
<1>5. c \o v \in Bytes /\ Len(c \o v) = Len(c) + Len(v)
  BY <1>4, ConcatOfBytes
<1>6. ASSUME NEW rest \in Bytes PROVE ScalarReader(S)[(c \o v) \o rest] = Got(v, rest)
  <2>1. (c \o v) \o rest \in Bytes /\ v \o rest \in Bytes /\ Len(v \o rest) = Len(v) + Len(rest)
        /\ Len(rest) \in Nat
    BY <1>5, ConcatOfBytes
  <2>2. (c \o v) \o rest = c \o (v \o rest)
    BY <1>4, Associative
  <2>3. ReadLong((c \o v) \o rest) = Got(Len(v), v \o rest)
    BY <1>4, <2>1, <2>2
  <2>4. Len(v) \in 0..Len(v \o rest)
    BY <1>3, <2>1
  <2>5. Taken(Got(Len(v), v \o rest))
          = Got(SubSeq(v \o rest, 1, Len(v)), SubSeq(v \o rest, Len(v) + 1, Len(v \o rest)))
    BY <2>4, GotIs, ZenonT(30) DEF Taken
  <2>6. SubSeq(v \o rest, 1, Len(v)) = v
    <3>1. SubSeq(v \o rest, 1, Len(v)) = SubSeq(v, 1, Len(v))
      BY <1>3, <2>1, PrefixOfConcat
    <3> QED
      BY <3>1, SubSeqFull DEF Bytes
  <2>7. SubSeq(v \o rest, Len(v) + 1, Len(v \o rest)) = rest
    <3> DEFINE t == SubSeq(v \o rest, Len(v) + 1, Len(v \o rest))
    <3>1. \A i \in (Len(v) + 1)..Len(v \o rest) : (v \o rest)[i] \in Byte
      BY <1>3, <2>1, ElementOfSeq DEF Bytes
    <3>2. /\ t \in Bytes /\ Len(t) = Len(rest)
          /\ \A i \in 1..Len(rest) : t[i] = (v \o rest)[Len(v) + i]
      BY <1>3, <2>1, <3>1, SubSeqProperties DEF Bytes
    <3>3. \A i \in 1..Len(rest) : (v \o rest)[Len(v) + i] = rest[i]
      BY <1>3, <2>1, ConcatProperties DEF Bytes
    <3> HIDE DEF t
    <3>4. t = rest
      BY <3>2, <3>3, SeqEqual DEF Bytes
    <3> QED
      BY <3>4 DEF t
  <2>8. ReadScalar(S, (c \o v) \o rest) = Got(v, rest)
    BY <1>2, <2>3, <2>5, <2>6, <2>7, Zenon
  <2> QED
    BY <2>1, <2>8 DEF ScalarReader
<1>7. ASSUME NEW k \in 0..(Len(c \o v) - 1)
      PROVE  ~ScalarReader(S)[SubSeq(c \o v, 1, k)].ok
  <2> DEFINE b == SubSeq(c \o v, 1, k)
  <2>1. k \in 0..Len(c \o v) /\ k \in 0..(Len(c) + Len(v)) /\ k < Len(c) + Len(v)
    BY <1>3, <1>4, <1>5
  <2>2. b \in Bytes
    BY <1>5, <2>1, PrefixOfBytes
  <2>3. ASSUME Taken(ReadLong(b)) = Failed PROVE ~ScalarReader(S)[b].ok
    BY <1>2, <2>2, <2>3 DEF ScalarReader, Failed
  <2>4. CASE k < Len(c)
    <3>1. b = SubSeq(c, 1, k) /\ k \in 0..(Len(c) - 1)
      BY <1>4, <2>1, <2>4, PrefixOfConcat
    <3>2. ~ReadLong(b).ok
      BY <1>4, <3>1
    <3> QED
      BY <2>3, <3>2 DEF Taken
  <2>5. CASE k >= Len(c)
    <3> DEFINE l == k - Len(c)
    <3>1. b = c \o SubSeq(v, 1, l) /\ l \in 0..Len(v) /\ l < Len(v)
      BY <1>3, <1>4, <2>1, <2>5, PrefixOfConcat
    <3> HIDE DEF l, b
    <3>2. SubSeq(v, 1, l) \in Bytes /\ Len(SubSeq(v, 1, l)) = l
      BY <1>3, <3>1, PrefixOfBytes
    <3>3. ReadLong(b) = Got(Len(v), SubSeq(v, 1, l))
      BY <1>4, <3>1, <3>2
    <3>4. ~(Len(v) \in 0..Len(SubSeq(v, 1, l)))
      BY <1>3, <3>1, <3>2
    <3>5. Taken(Got(Len(v), SubSeq(v, 1, l))) = Failed
      BY <3>4, GotIs, ZenonT(30) DEF Taken
    <3>6. ~ScalarReader(S)[b].ok
      BY <2>3, <3>3, <3>5 DEF b
    <3> QED
      BY <3>6 DEF b
  <2> QED
    BY <1>4, <2>1, <2>4, <2>5
<1> QED
  BY <1>1, <1>5, <1>6, <1>7 DEF Codes

\* Each of these.
LEMMA ScalarCoded ==
    ASSUME NEW S, NEW v, IsScalar(S, v)
    PROVE  Codes(ScalarReader(S), EncodeScalar(S, v), v)
<1>1. CASE S.type = "null" /\ v = "null"
  BY <1>1, NullCoded
<1>2. CASE S.type \in {"int", "long", "enum"} /\ v \in Int
  BY <1>2, NumberCoded
<1>3. CASE S.type = "boolean" /\ v \in BOOLEAN
  BY <1>3, BooleanCoded
<1>4. CASE S.type \in {"string", "bytes"} /\ v \in Bytes
  BY <1>4, TextCoded
<1> QED
  BY <1>1, <1>2, <1>3, <1>4 DEF IsScalar

\* What ReadCompound makes of the readers of the parts.
CompoundReader(S, readers) == [b \in Bytes |-> ReadCompound(S, readers, b)]

\* The reader of part i: the items of an array have one reader.
ReaderOf(S, readers, i) == IF S.type = "array" THEN readers[1] ELSE readers[i]

\* A record is its fields in the order of the schema, and each value is
\* found under its name.
LEMMA RecordCoded ==
    ASSUME NEW S, S.type = "record", NEW v, IsShape(S, v), NEW readers, NEW es,
           readers = [i \in DOMAIN S.fields |-> readers[i]],
           es = [i \in DOMAIN S.fields |-> es[i]],
           \A i \in DOMAIN S.fields : Codes(readers[i], es[i], v[S.fields[i][1]])
    PROVE  Codes(CompoundReader(S, readers), Concat[es], v)
<1> DEFINE n == Len(S.fields)
           vs == [i \in 1..n |-> v[S.fields[i][1]]]
<1>1. /\ n \in Nat /\ DOMAIN S.fields = 1..n
      /\ \A i, j \in 1..n : S.fields[i][1] = S.fields[j][1] => i = j
      /\ v = [f \in FieldNames(S) |-> v[f]]
  BY IsSequence DEF IsShape, IsSeq
<1>2. es \in Seq(Bytes) /\ Len(es) = n
  <2>1. \A i \in 1..n : es[i] \in Bytes
    BY <1>1 DEF Codes
  <2> HIDE DEF n
  <2> QED
    BY <1>1, <2>1
<1>3. Len(readers) = n
  <2> HIDE DEF n
  <2> QED
    BY <1>1
<1>4. PartsCode(readers, es, vs)
  <2>1. Len(vs) = n /\ vs = [i \in 1..n |-> vs[i]] /\ \A i \in 1..n : vs[i] = v[S.fields[i][1]]
    BY <1>1
  <2> HIDE DEF vs, n
  <2> QED
    BY <1>1, <1>2, <1>3, <2>1 DEF PartsCode
<1>5. RecordOf(S, vs) = v
  <2>1. ASSUME NEW f \in FieldNames(S)
        PROVE  vs[CHOOSE i \in DOMAIN S.fields : S.fields[i][1] = f] = v[f]
    <3>1. \E i \in 1..n : S.fields[i][1] = f
      BY <1>1 DEF FieldNames
    <3> DEFINE j == CHOOSE i \in DOMAIN S.fields : S.fields[i][1] = f
    <3>2. j \in 1..n /\ S.fields[j][1] = f
      BY <1>1, <3>1
    <3> HIDE DEF j
    <3>3. vs[j] = v[f]
      BY <3>2
    <3> QED
      BY <3>3 DEF j
  <2> HIDE DEF vs, n
  <2>2. RecordOf(S, vs) = [f \in FieldNames(S) |-> vs[CHOOSE i \in DOMAIN S.fields : S.fields[i][1] = f]]
    BY DEF RecordOf, FieldNames
  <2>3. [f \in FieldNames(S) |-> vs[CHOOSE i \in DOMAIN S.fields : S.fields[i][1] = f]]
          = [f \in FieldNames(S) |-> v[f]]
    BY <2>1
  <2> QED
    BY <1>1, <2>2, <2>3, Zenon
<1> HIDE DEF vs, n
<1>6. /\ Concat[es] \in Bytes
      /\ \A rest \in Bytes : PartsReader(readers)[Concat[es] \o rest] = Got(vs, rest)
      /\ \A k \in 0..(Len(Concat[es]) - 1) : ~PartsReader(readers)[SubSeq(Concat[es], 1, k)].ok
  BY <1>4, PartsCoded DEF Codes
<1>7. \A b \in Bytes : CompoundReader(S, readers)[b] = AsRecord(S, PartsReader(readers)[b])
  BY DEF CompoundReader, PartsReader, ReadCompound
<1>8. ASSUME NEW rest \in Bytes
      PROVE  CompoundReader(S, readers)[Concat[es] \o rest] = Got(v, rest)
  <2>1. Concat[es] \o rest \in Bytes
    BY <1>6, ConcatOfBytes
  <2>2. CompoundReader(S, readers)[Concat[es] \o rest] = AsRecord(S, Got(vs, rest))
    BY <1>6, <1>7, <2>1
  <2>3. AsRecord(S, Got(vs, rest)) = Got(RecordOf(S, vs), rest)
    BY GotIs, Zenon DEF AsRecord
  <2> QED
    BY <1>5, <2>2, <2>3, Zenon
<1>9. ASSUME NEW k \in 0..(Len(Concat[es]) - 1)
      PROVE  ~CompoundReader(S, readers)[SubSeq(Concat[es], 1, k)].ok
  <2>1. SubSeq(Concat[es], 1, k) \in Bytes
    BY <1>6, ConcatOfBytes, PrefixOfBytes
  <2>2. ~PartsReader(readers)[SubSeq(Concat[es], 1, k)].ok
    BY <1>6
  <2>3. CompoundReader(S, readers)[SubSeq(Concat[es], 1, k)] = Failed
    BY <1>7, <2>1, <2>2 DEF AsRecord
  <2> QED
    BY <2>3 DEF Failed
<1> QED
  BY <1>6, <1>8, <1>9 DEF Codes

\* A value is encoded if its parts are.
LEMMA CompoundCoded ==
    ASSUME NEW S, NEW v, IsShape(S, v), NEW readers, NEW es,
           readers = [i \in DOMAIN PartSchemas(S) |-> readers[i]],
           es = [i \in DOMAIN Parts(S, v) |-> es[i]],
           \A i \in DOMAIN Parts(S, v) :
              Codes(ReaderOf(S, readers, i), es[i], Parts(S, v)[i].value)
    PROVE  Codes(CompoundReader(S, readers), Join(S, es), v)
<1>1. CASE S.type = "array"
  <2>1. /\ CompoundReader(S, readers) = ArrayReader(readers[1])
        /\ Join(S, es) = EncodeArray(es)
        /\ \A i : ReaderOf(S, readers, i) = readers[1]
    BY <1>1 DEF CompoundReader, ArrayReader, ReadCompound, Join, ReaderOf
  <2>2. IsSeq(v)
    BY <1>1 DEF IsShape
  <2> DEFINE n == Len(v)
  <2>3. n \in Nat /\ DOMAIN v = 1..n
    BY <2>2, IsSequence DEF IsSeq
  <2>4. DOMAIN Parts(S, v) = 1..n /\ \A i \in 1..n : Parts(S, v)[i].value = v[i]
    BY <1>1, <2>3 DEF Parts
  <2>5. \A i \in 1..n : Codes(readers[1], es[i], v[i])
    BY <2>1, <2>4
  <2>6. es \in Seq(Bytes) /\ Len(es) = n
    <3>1. \A i \in 1..n : es[i] \in Bytes
      BY <2>5 DEF Codes
    <3>2. es = [i \in 1..n |-> es[i]]
      BY <2>4
    <3> HIDE DEF n
    <3> QED
      BY <2>3, <3>1, <3>2
  <2>7. v = [i \in 1..Len(es) |-> v[i]] /\ Len(v) = Len(es)
    BY <2>2, <2>6 DEF IsSeq
  <2>8. ItemsCode(readers[1], es, v)
    BY <2>5, <2>6, <2>7 DEF ItemsCode
  <2> QED
    BY <2>1, <2>8, ArrayCoded
<1>2. CASE S.type = "record"
  <2>1. Join(S, es) = Concat[es]
    BY <1>2 DEF Join
  <2>2. /\ DOMAIN Parts(S, v) = DOMAIN S.fields /\ DOMAIN PartSchemas(S) = DOMAIN S.fields
        /\ \A i \in DOMAIN S.fields :
              ReaderOf(S, readers, i) = readers[i] /\ Parts(S, v)[i].value = v[S.fields[i][1]]
    BY <1>2 DEF Parts, PartSchemas, ReaderOf
  <2>3. /\ readers = [i \in DOMAIN S.fields |-> readers[i]]
        /\ es = [i \in DOMAIN S.fields |-> es[i]]
        /\ \A i \in DOMAIN S.fields : Codes(readers[i], es[i], v[S.fields[i][1]])
    BY <2>2
  <2>4. Codes(CompoundReader(S, readers), Concat[es], v)
    BY <1>2, <2>3, RecordCoded
  <2> QED
    BY <2>1, <2>4
<1> QED
  BY <1>1, <1>2 DEF IsShape

\* A scalar has no parts.
LEMMA ScalarsNotCompound == \A S, v : IsScalar(S, v) => S.type \notin Compound
BY DEF IsScalar, Compound

\* Arrays and records have parts.
LEMMA ShapesCompound == \A S, v : IsShape(S, v) => S.type \in Compound
BY DEF IsShape, Compound

\* Each part is read with its own schema.
LEMMA PartSchemasAre ==
    ASSUME NEW S, NEW v, IsShape(S, v), NEW i \in DOMAIN Parts(S, v)
    PROVE  /\ S.type = "array" => 1 \in DOMAIN PartSchemas(S) /\ PartSchemas(S)[1] = Parts(S, v)[i].schema
           /\ S.type # "array" => i \in DOMAIN PartSchemas(S) /\ PartSchemas(S)[i] = Parts(S, v)[i].schema
BY DEF IsShape, Parts, PartSchemas

\* What Encode_1 writes, Decode_1 reads.
LEMMA Coded_1 ==
    ASSUME NEW S, NEW v, Is_1(S, v)
    PROVE  Codes([b \in Bytes |-> Decode_1(S, b)], Encode_1(S, v), v)
<1>1. CASE IsScalar(S, v)
  <2>1. S.type \notin Compound
    BY <1>1, ScalarsNotCompound
  <2>2. /\ [b \in Bytes |-> Decode_1(S, b)] = ScalarReader(S)
        /\ Encode_1(S, v) = EncodeScalar(S, v)
    BY <2>1 DEF Decode_1, ReadWith, Encode_1, EncodeWith, ScalarReader
  <2> QED
    BY <1>1, <2>2, ScalarCoded
<1>2. CASE /\ IsShape(S, v)
           /\ \A i \in DOMAIN Parts(S, v) : IsScalar(Parts(S, v)[i].schema, Parts(S, v)[i].value)
  <2> DEFINE readers == [i \in DOMAIN PartSchemas(S) |->
                            [c \in Bytes |-> ReadScalar(PartSchemas(S)[i], c)]]
             es == [i \in DOMAIN Parts(S, v) |->
                       EncodeScalar(Parts(S, v)[i].schema, Parts(S, v)[i].value)]
  <2>1. S.type \in Compound
    BY <1>2, ShapesCompound
  <2>2. /\ [b \in Bytes |-> Decode_1(S, b)] = CompoundReader(S, readers)
        /\ Encode_1(S, v) = Join(S, es)
    BY <2>1 DEF Decode_1, ReadWith, Encode_1, EncodeWith, CompoundReader
  <2>3. ASSUME NEW i \in DOMAIN Parts(S, v)
        PROVE  Codes(ReaderOf(S, readers, i), es[i], Parts(S, v)[i].value)
    <3> DEFINE S1 == Parts(S, v)[i].schema
               v1 == Parts(S, v)[i].value
    <3>1. ReaderOf(S, readers, i) = [c \in Bytes |-> ReadScalar(S1, c)]
      BY <1>2, PartSchemasAre DEF ReaderOf
    <3>2. es[i] = EncodeScalar(S1, v1)
      OBVIOUS
    <3>3. Codes(ScalarReader(S1), EncodeScalar(S1, v1), v1)
      BY <1>2, ScalarCoded
    <3> QED
      BY <3>1, <3>2, <3>3 DEF ScalarReader
  <2>4. /\ readers = [i \in DOMAIN PartSchemas(S) |-> readers[i]]
        /\ es = [i \in DOMAIN Parts(S, v) |-> es[i]]
    OBVIOUS
  <2> HIDE DEF readers, es
  <2>5. Codes(CompoundReader(S, readers), Join(S, es), v)
    BY <1>2, <2>3, <2>4, CompoundCoded
  <2> QED
    BY <2>2, <2>5
<1> QED
  BY <1>1, <1>2 DEF Is_1, IsWith

\* The same with parts that have parts.
LEMMA Coded_2 ==
    ASSUME NEW S, NEW v, Is_2(S, v)
    PROVE  Codes([b \in Bytes |-> Decode_2(S, b)], Encode_2(S, v), v)
<1>1. CASE IsScalar(S, v)
  <2>1. S.type \notin Compound
    BY <1>1, ScalarsNotCompound
  <2>2. /\ [b \in Bytes |-> Decode_2(S, b)] = ScalarReader(S)
        /\ Encode_2(S, v) = EncodeScalar(S, v)
    BY <2>1 DEF Decode_2, ReadWith, Encode_2, EncodeWith, ScalarReader
  <2> QED
    BY <1>1, <2>2, ScalarCoded
<1>2. CASE /\ IsShape(S, v)
           /\ \A i \in DOMAIN Parts(S, v) : Is_1(Parts(S, v)[i].schema, Parts(S, v)[i].value)
  <2> DEFINE readers == [i \in DOMAIN PartSchemas(S) |->
                            [c \in Bytes |-> Decode_1(PartSchemas(S)[i], c)]]
             es == [i \in DOMAIN Parts(S, v) |->
                       Encode_1(Parts(S, v)[i].schema, Parts(S, v)[i].value)]
  <2>1. S.type \in Compound
    BY <1>2, ShapesCompound
  <2>2. /\ [b \in Bytes |-> Decode_2(S, b)] = CompoundReader(S, readers)
        /\ Encode_2(S, v) = Join(S, es)
    BY <2>1 DEF Decode_2, ReadWith, Encode_2, EncodeWith, CompoundReader
  <2>3. ASSUME NEW i \in DOMAIN Parts(S, v)
        PROVE  Codes(ReaderOf(S, readers, i), es[i], Parts(S, v)[i].value)
    <3> DEFINE S1 == Parts(S, v)[i].schema
               v1 == Parts(S, v)[i].value
    <3>1. ReaderOf(S, readers, i) = [c \in Bytes |-> Decode_1(S1, c)]
      BY <1>2, PartSchemasAre DEF ReaderOf
    <3>2. es[i] = Encode_1(S1, v1)
      OBVIOUS
    <3>3. Codes([c \in Bytes |-> Decode_1(S1, c)], Encode_1(S1, v1), v1)
      BY <1>2, Coded_1
    <3> QED
      BY <3>1, <3>2, <3>3
  <2>4. /\ readers = [i \in DOMAIN PartSchemas(S) |-> readers[i]]
        /\ es = [i \in DOMAIN Parts(S, v) |-> es[i]]
    OBVIOUS
  <2> HIDE DEF readers, es
  <2>5. Codes(CompoundReader(S, readers), Join(S, es), v)
    BY <1>2, <2>3, <2>4, CompoundCoded
  <2> QED
    BY <2>2, <2>5
<1> QED
  BY <1>1, <1>2 DEF Is_2, IsWith

\* And with parts that have those.
LEMMA Coded_3 ==
    ASSUME NEW S, NEW v, Is_3(S, v)
    PROVE  Codes([b \in Bytes |-> Decode_3(S, b)], Encode_3(S, v), v)
<1>1. CASE IsScalar(S, v)
  <2>1. S.type \notin Compound
    BY <1>1, ScalarsNotCompound
  <2>2. /\ [b \in Bytes |-> Decode_3(S, b)] = ScalarReader(S)
        /\ Encode_3(S, v) = EncodeScalar(S, v)
    BY <2>1 DEF Decode_3, ReadWith, Encode_3, EncodeWith, ScalarReader
  <2> QED
    BY <1>1, <2>2, ScalarCoded
<1>2. CASE /\ IsShape(S, v)
           /\ \A i \in DOMAIN Parts(S, v) : Is_2(Parts(S, v)[i].schema, Parts(S, v)[i].value)
  <2> DEFINE readers == [i \in DOMAIN PartSchemas(S) |->
                            [c \in Bytes |-> Decode_2(PartSchemas(S)[i], c)]]
             es == [i \in DOMAIN Parts(S, v) |->
                       Encode_2(Parts(S, v)[i].schema, Parts(S, v)[i].value)]
  <2>1. S.type \in Compound
    BY <1>2, ShapesCompound
  <2>2. /\ [b \in Bytes |-> Decode_3(S, b)] = CompoundReader(S, readers)
        /\ Encode_3(S, v) = Join(S, es)
    BY <2>1 DEF Decode_3, ReadWith, Encode_3, EncodeWith, CompoundReader
  <2>3. ASSUME NEW i \in DOMAIN Parts(S, v)
        PROVE  Codes(ReaderOf(S, readers, i), es[i], Parts(S, v)[i].value)
    <3> DEFINE S1 == Parts(S, v)[i].schema
               v1 == Parts(S, v)[i].value
    <3>1. ReaderOf(S, readers, i) = [c \in Bytes |-> Decode_2(S1, c)]
      BY <1>2, PartSchemasAre DEF ReaderOf
    <3>2. es[i] = Encode_2(S1, v1)
      OBVIOUS
    <3>3. Codes([c \in Bytes |-> Decode_2(S1, c)], Encode_2(S1, v1), v1)
      BY <1>2, Coded_2
    <3> QED
      BY <3>1, <3>2, <3>3
  <2>4. /\ readers = [i \in DOMAIN PartSchemas(S) |-> readers[i]]
        /\ es = [i \in DOMAIN Parts(S, v) |-> es[i]]
    OBVIOUS
  <2> HIDE DEF readers, es
  <2>5. Codes(CompoundReader(S, readers), Join(S, es), v)
    BY <1>2, <2>3, <2>4, CompoundCoded
  <2> QED
    BY <2>2, <2>5
<1> QED
  BY <1>1, <1>2 DEF Is_3, IsWith

\* Of every value of every schema of up to four arrays and records one in another,
\* avro_value_read gets back what avro_value_write put in and leaves what
\* follows it in the buffer, and when the encoding is cut short it fails.
THEOREM EncodingIsRead ==
    ASSUME NEW S, NEW v, IsValue(S, v)
    PROVE  Codes([b \in Bytes |-> Decode(S, b)], Encode(S, v), v)
<1>1. CASE IsScalar(S, v)
  <2>1. S.type \notin Compound
    BY <1>1, ScalarsNotCompound
  <2>2. /\ [b \in Bytes |-> Decode(S, b)] = ScalarReader(S)
        /\ Encode(S, v) = EncodeScalar(S, v)
    BY <2>1 DEF Decode, ReadWith, Encode, EncodeWith, ScalarReader
  <2> QED
    BY <1>1, <2>2, ScalarCoded
<1>2. CASE /\ IsShape(S, v)
           /\ \A i \in DOMAIN Parts(S, v) : Is_3(Parts(S, v)[i].schema, Parts(S, v)[i].value)
  <2> DEFINE readers == [i \in DOMAIN PartSchemas(S) |->
                            [c \in Bytes |-> Decode_3(PartSchemas(S)[i], c)]]
             es == [i \in DOMAIN Parts(S, v) |->
                       Encode_3(Parts(S, v)[i].schema, Parts(S, v)[i].value)]
  <2>1. S.type \in Compound
    BY <1>2, ShapesCompound
  <2>2. /\ [b \in Bytes |-> Decode(S, b)] = CompoundReader(S, readers)
        /\ Encode(S, v) = Join(S, es)
    BY <2>1 DEF Decode, ReadWith, Encode, EncodeWith, CompoundReader
  <2>3. ASSUME NEW i \in DOMAIN Parts(S, v)
        PROVE  Codes(ReaderOf(S, readers, i), es[i], Parts(S, v)[i].value)
    <3> DEFINE S1 == Parts(S, v)[i].schema
               v1 == Parts(S, v)[i].value
    <3>1. ReaderOf(S, readers, i) = [c \in Bytes |-> Decode_3(S1, c)]
      BY <1>2, PartSchemasAre DEF ReaderOf
    <3>2. es[i] = Encode_3(S1, v1)
      OBVIOUS
    <3>3. Codes([c \in Bytes |-> Decode_3(S1, c)], Encode_3(S1, v1), v1)
      BY <1>2, Coded_3
    <3> QED
      BY <3>1, <3>2, <3>3
  <2>4. /\ readers = [i \in DOMAIN PartSchemas(S) |-> readers[i]]
        /\ es = [i \in DOMAIN Parts(S, v) |-> es[i]]
    OBVIOUS
  <2> HIDE DEF readers, es
  <2>5. Codes(CompoundReader(S, readers), Join(S, es), v)
    BY <1>2, <2>3, <2>4, CompoundCoded
  <2> QED
    BY <2>2, <2>5
<1> QED
  BY <1>1, <1>2 DEF IsValue, IsWith

-----------------------------------------------------------------------------
(* What is read from any bytes.                                              *)

\* Whatever a reader reads is in V, and what it leaves are bytes.
Gives(reader, V) ==
    \A c \in Bytes : reader[c].ok => reader[c].value \in V /\ reader[c].rest \in Bytes

\* A failed read has no value.
LEMMA FailedIs == ~Failed.ok
BY DEF Failed

\* A varint that is read is a natural number.
LEMMA VarintGives == Gives(ReadVarint, Nat)
<1> DEFINE T == {n \in Nat : \A b \in Bytes : Len(b) = n => ReadVarint[b] \in Reads}
<1>1. ASSUME NEW b \in Bytes PROVE Len(b) \in Nat /\ (Len(b) = 0 => b = <<>>)
  BY LenProperties, EmptySeq DEF Bytes
<1>2. Failed \in Reads
  BY DEF Reads
<1>3. 0 \in T
  BY <1>1, <1>2, ReadVarintIs
<1>4. ASSUME NEW n \in T PROVE n + 1 \in T
  <2>0. n \in Nat /\ \A b \in Bytes : Len(b) = n => ReadVarint[b] \in Reads
    OBVIOUS
  <2> SUFFICES ASSUME NEW b \in Bytes, Len(b) = n + 1 PROVE ReadVarint[b] \in Reads
    BY <2>0
  <2> HIDE DEF T
  <2>1. b # <<>>
    BY <2>0, EmptySeq
  <2>2. PICK x, t : x = Head(b) /\ t = Tail(b)
    OBVIOUS
  <2>3. t \in Bytes /\ x \in 0..255 /\ Len(t) = Len(b) - 1
    BY <2>1, <2>2, HeadOfBytes, Zenon
  <2>4. Len(t) = n
    BY <2>0, <2>3
  <2>5. ReadVarint[t] \in Reads
    BY <2>0, <2>3, <2>4
  <2>6. /\ x < 128 => ReadVarint[b] = Got(x, t)
        /\ x >= 128 => ReadVarint[b] = WithByte(x, ReadVarint[t])
    BY <2>1, <2>2, ReadVarintIs, Zenon
  <2>7. CASE x < 128
    BY <2>3, <2>6, <2>7, GotIsRead
  <2>8. CASE x >= 128
    <3>1. x \in 128..255
      BY <2>3, <2>8
    <3> QED
      BY <2>5, <2>6, <2>8, <3>1, WithByteIsRead
  <2> QED
    BY <2>3, <2>7, <2>8
<1>5. T \in SUBSET Nat
  OBVIOUS
<1> HIDE DEF T
<1>6. \A n \in Nat : n \in T
  BY <1>3, <1>4, <1>5, Induction
<1>7. ASSUME NEW c \in Bytes, ReadVarint[c].ok
      PROVE  ReadVarint[c].value \in Nat /\ ReadVarint[c].rest \in Bytes
  <2>1. ReadVarint[c] \in Reads
    BY <1>1, <1>6 DEF T
  <2>2. ReadVarint[c] # Failed
    BY <1>7, FailedIs
  <2> QED
    BY <2>1, <2>2 DEF Reads
<1> QED
  BY <1>7 DEF Gives

\* A number that is read is an integer.
LEMMA LongGives ==
    ASSUME NEW b \in Bytes, ReadLong(b).ok
    PROVE  ReadLong(b).value \in Int /\ ReadLong(b).rest \in Bytes
<1> DEFINE r == ReadVarint[b]
<1>1. ReadLong(b) = Unzigzagged(r)
  BY DEF ReadLong
<1> HIDE DEF r
<1>2. r.ok
  BY <1>1, FailedIs DEF Unzigzagged
<1>3. r.value \in Nat /\ r.rest \in Bytes
  BY <1>2, VarintGives DEF Gives, r
<1>4. ReadLong(b) = Got(Unzigzag(r.value), r.rest)
  BY <1>1, <1>2 DEF Unzigzagged
<1>5. Unzigzag(r.value) \in Int
  BY <1>3 DEF Unzigzag
<1> QED
  BY <1>3, <1>4, <1>5, GotIs

\* So are the bytes of a string.
LEMMA TextGives ==
    ASSUME NEW b \in Bytes, Taken(ReadLong(b)).ok
    PROVE  Taken(ReadLong(b)).value \in Bytes /\ Taken(ReadLong(b)).rest \in Bytes
<1> DEFINE n == ReadLong(b)
<1>1. n.ok /\ n.value \in 0..Len(n.rest)
  BY FailedIs DEF Taken
<1>2. n.rest \in Bytes
  BY <1>1, LongGives
<1> HIDE DEF n
<1>3. Taken(n) = Got(SubSeq(n.rest, 1, n.value), SubSeq(n.rest, n.value + 1, Len(n.rest)))
  BY <1>1 DEF Taken
<1>4. Len(n.rest) \in Nat
  BY <1>2, LenProperties DEF Bytes
<1>5. /\ SubSeq(n.rest, 1, n.value) \in Bytes
      /\ SubSeq(n.rest, n.value + 1, Len(n.rest)) \in Bytes
  BY <1>1, <1>2, <1>4 DEF Bytes
<1>6. Taken(n).value \in Bytes /\ Taken(n).rest \in Bytes
  BY <1>3, <1>5, GotIs
<1> QED
  BY <1>6 DEF n

\* The schemas without parts.
IsScalarSchema(S) ==
    S.type \in {"null", "int", "long", "enum", "boolean", "string", "bytes"}

\* What is read of such a schema is a value of it.
LEMMA ScalarGives ==
    ASSUME NEW S, IsScalarSchema(S), NEW b \in Bytes, ReadScalar(S, b).ok
    PROVE  IsScalar(S, ReadScalar(S, b).value) /\ ReadScalar(S, b).rest \in Bytes
<1>1. CASE S.type = "null"
  <2>1. ReadScalar(S, b) = Got("null", b)
    BY <1>1 DEF ReadScalar
  <2> QED
    BY <1>1, <2>1, GotIs DEF IsScalar
<1>2. CASE S.type \in {"int", "long", "enum"}
  <2>1. ReadScalar(S, b) = ReadLong(b)
    BY <1>2 DEF ReadScalar
  <2> QED
    BY <1>2, <2>1, LongGives DEF IsScalar
<1>3. CASE S.type = "boolean"
  <2>1. ReadScalar(S, b) = IF b = <<>> THEN Failed ELSE Got(Head(b) # 0, Tail(b))
    BY <1>3 DEF ReadScalar
  <2>2. b # <<>>
    BY <2>1, FailedIs
  <2>3. Tail(b) \in Bytes
    BY <2>2, HeadOfBytes
  <2>4. PICK v, c : v = (Head(b) # 0) /\ c = Tail(b)
    OBVIOUS
  <2>5. v \in BOOLEAN
    BY <2>4
  <2>6. ReadScalar(S, b) = Got(v, c)
    BY <2>1, <2>2, <2>4, Zenon
  <2>7. ReadScalar(S, b).value = v /\ ReadScalar(S, b).rest = c
    BY <2>6, GotIs
  <2> QED
    BY <1>3, <2>3, <2>4, <2>5, <2>7 DEF IsScalar
<1>4. CASE S.type \in {"string", "bytes"}
  <2>1. ReadScalar(S, b) = Taken(ReadLong(b))
    BY <1>4 DEF ReadScalar
  <2> QED
    BY <1>4, <2>1, TextGives DEF IsScalar
<1> QED
  BY <1>1, <1>2, <1>3, <1>4 DEF IsScalarSchema

\* Readers, each with the set of what it reads.
AllGive(readers, V) == \A i \in 1..Len(readers) : Gives(readers[i], V[i])

\* The first n values are of the sets V.
OfEach(s, V, n) ==
    s \in Seq(UNION {V[i] : i \in 1..n}) /\ Len(s) = n /\ \A i \in 1..n : s[i] \in V[i]

\* Readers one after the other give a value of each.
LEMMA AllGives ==
    ASSUME NEW readers, Len(readers) \in Nat, NEW V, AllGive(readers, V),
           NEW b \in Bytes, ReadAll(readers, b).ok
    PROVE  /\ ReadAll(readers, b).rest \in Bytes
           /\ OfEach(ReadAll(readers, b).value, V, Len(readers))
<1> DEFINE n == Len(readers)
           W == UNION {V[i] : i \in 1..n}
<1>1. PICK h : /\ h[0] = Got(<<>>, b)
               /\ \A i \in 1..n : h[i] = ReadNext(readers[i], h[i - 1])
               /\ ReadAll(readers, b) = h[n]
  BY ReadAllIs
<1> DEFINE Readable(k) ==
      h[k].ok => /\ h[k].rest \in Bytes /\ h[k].value \in Seq(W) /\ Len(h[k].value) = k
                 /\ \A i \in 1..k : h[k].value[i] \in V[i]
           T == {k \in Nat : k <= n => Readable(k)}
<1>2. n \in Nat
  OBVIOUS
<1>3. \A i \in 1..n : V[i] \subseteq W
  OBVIOUS
<1> HIDE DEF n, W
<1>4. 0 \in T
  <2>1. h[0].value = <<>> /\ h[0].rest = b
    BY <1>1, GotIs
  <2>2. <<>> \in Seq(W) /\ Len(<<>>) = 0
    BY EmptySeq
  <2>3. Readable(0)
    BY <2>1, <2>2
  <2> QED
    BY <2>3
<1>5. ASSUME NEW k \in T PROVE k + 1 \in T
  <2>0. k \in Nat
    OBVIOUS
  <2> SUFFICES ASSUME k + 1 <= n, h[k + 1].ok PROVE Readable(k + 1)
    BY <2>0
  <2>1. k + 1 \in 1..n /\ (k + 1) - 1 = k /\ Readable(k)
    BY <1>2, <2>0
  <2>2. PICK s, r : s = h[k] /\ r = readers[k + 1][s.rest]
    OBVIOUS
  <2>3. h[k + 1] = ReadNext(readers[k + 1], s)
    BY <1>1, <2>1, <2>2
  <2>4. s.ok
    BY <2>3, FailedIs DEF ReadNext
  <2>5. /\ s.rest \in Bytes /\ s.value \in Seq(W) /\ Len(s.value) = k
        /\ \A i \in 1..k : s.value[i] \in V[i]
    BY <2>1, <2>2, <2>4
  <2>6. h[k + 1] = Extended(s.value, r)
    BY <2>2, <2>3, <2>4 DEF ReadNext
  <2>7. r.ok
    BY <2>6, FailedIs DEF Extended
  <2>8. r.value \in V[k + 1] /\ r.rest \in Bytes
    BY <2>1, <2>2, <2>5, <2>7 DEF Gives, AllGive, n
  <2>9. h[k + 1] = Got(Append(s.value, r.value), r.rest)
    BY <2>6, <2>7 DEF Extended
  <2>10. h[k + 1].value = Append(s.value, r.value) /\ h[k + 1].rest = r.rest
    <3>1. PICK y, c : y = Append(s.value, r.value) /\ c = r.rest
      OBVIOUS
    <3>2. h[k + 1] = Got(y, c)
      BY <2>9, <3>1, Zenon
    <3>3. h[k + 1].value = y /\ h[k + 1].rest = c
      BY <3>2, GotIs
    <3> QED
      BY <3>1, <3>3, Zenon
  <2>11. r.value \in W
    BY <1>3, <2>1, <2>8
  <2> HIDE DEF T, Readable
  <2>12. PICK v, x : v = s.value /\ x = r.value
    OBVIOUS
  <2>13. /\ Append(v, x) \in Seq(W) /\ Len(Append(v, x)) = k + 1
         /\ \A i \in 1..k : Append(v, x)[i] = v[i]
         /\ Append(v, x)[k + 1] = x
    BY <2>0, <2>5, <2>11, <2>12, AppendProperties
  <2>14. \A i \in 1..(k + 1) : Append(v, x)[i] \in V[i]
    BY <2>0, <2>5, <2>8, <2>12, <2>13
  <2> QED
    BY <2>8, <2>10, <2>12, <2>13, <2>14 DEF Readable
<1>6. T \in SUBSET Nat
  OBVIOUS
<1> HIDE DEF T
<1>7. n \in T
  BY <1>2, <1>4, <1>5, <1>6, Induction
<1>8. Readable(n)
  BY <1>2, <1>7 DEF T
<1> QED
  BY <1>1, <1>8 DEF n, W, OfEach

\* As many items as a block counts.
LEMMA ItemsGive ==
    ASSUME NEW item, NEW V, Gives(item, V), NEW n \in Nat, NEW b \in Bytes,
           ReadAll([i \in 1..n |-> item], b).ok
    PROVE  /\ ReadAll([i \in 1..n |-> item], b).value \in Seq(V)
           /\ ReadAll([i \in 1..n |-> item], b).rest \in Bytes
<1>1. PICK readers, Vs : readers = [i \in 1..n |-> item] /\ Vs = [i \in 1..n |-> V]
  OBVIOUS
<1>2. Len(readers) = n /\ \A i \in 1..n : readers[i] = item /\ Vs[i] = V
  BY <1>1
<1>3. Len(readers) \in Nat /\ AllGive(readers, Vs)
  BY <1>2 DEF AllGive
<1>4. PICK r : r = ReadAll(readers, b)
  OBVIOUS
<1>5. r.rest \in Bytes /\ OfEach(r.value, Vs, Len(readers))
  <2>1. ReadAll(readers, b).ok
    BY <1>1
  <2> QED
    BY <1>3, <1>4, <2>1, AllGives, Zenon
<1>6. PICK s : s = r.value
  OBVIOUS
<1>7. /\ s \in Seq(UNION {Vs[i] : i \in 1..n}) /\ Len(s) = n
      /\ \A i \in 1..n : s[i] \in V
  BY <1>2, <1>5, <1>6 DEF OfEach
<1>8. s = [i \in 1..n |-> s[i]]
  BY <1>7
<1>9. s \in Seq(V)
  BY <1>7, <1>8
<1> QED
  BY <1>1, <1>4, <1>5, <1>6, <1>9

\* A block, of whatever count.
LEMMA BlockGives ==
    ASSUME NEW item, NEW V, Gives(item, V), NEW b \in Bytes, Block(item, ReadLong(b)).ok
    PROVE  /\ Block(item, ReadLong(b)).value \in Seq(V)
           /\ Block(item, ReadLong(b)).rest \in Bytes
<1>1. PICK n : n = ReadLong(b)
  OBVIOUS
<1>2. n.ok
  BY <1>1, FailedIs DEF Block
<1>3. n.value \in Int /\ n.rest \in Bytes
  BY <1>1, <1>2, LongGives
<1>4. CASE n.value >= 0
  <2>1. Block(item, n) = ReadAll([i \in 1..n.value |-> item], n.rest)
    BY <1>2, <1>4 DEF Block
  <2>2. n.value \in Nat
    BY <1>3, <1>4
  <2> QED
    BY <1>1, <1>3, <2>1, <2>2, ItemsGive
<1>5. CASE ~(n.value >= 0)
  <2>1. PICK m : m = ReadLong(n.rest)
    OBVIOUS
  <2>2. Block(item, n) = IF m.ok THEN ReadAll([i \in 1..-n.value |-> item], m.rest) ELSE Failed
    BY <1>2, <1>5, <2>1 DEF Block
  <2>3. m.ok
    BY <1>1, <2>2, FailedIs
  <2>4. m.rest \in Bytes
    BY <1>3, <2>1, <2>3, LongGives
  <2>5. PICK k : k = -n.value
    OBVIOUS
  <2>6. k \in Nat
    BY <1>3, <1>5, <2>5
  <2>7. Block(item, n) = ReadAll([i \in 1..k |-> item], m.rest)
    BY <2>2, <2>3, <2>5
  <2> QED
    BY <1>1, <2>4, <2>6, <2>7, ItemsGive
<1> QED
  BY <1>4, <1>5

\* An array is a sequence of what its items give.
LEMMA ArrayGives ==
    ASSUME NEW item, NEW V, Gives(item, V), NEW b \in Bytes, ReadArray(item, b).ok
    PROVE  ReadArray(item, b).value \in Seq(V) /\ ReadArray(item, b).rest \in Bytes
<1>1. Len(b) \in Nat
  BY LenProperties DEF Bytes
<1>2. PICK h : Blocks(item, b, h)
  BY <1>1, ReadArrayIs
<1> DEFINE Soon(s) == s.read.ok => s.read.value \in Seq(V) /\ s.read.rest \in Bytes
           Live(s) == s.more => s.read.ok
           T == {k \in Nat : k <= Len(b) => Soon(h[k]) /\ Live(h[k])}
<1>3. 0 \in T
  <2>1. h[0].read = Got(<<>>, b)
    BY <1>2 DEF Blocks, Start, Going
  <2>2. h[0].read.ok /\ h[0].read.value = <<>> /\ h[0].read.rest = b
    BY <2>1, GotIs
  <2>3. <<>> \in Seq(V)
    BY EmptySeq
  <2> QED
    BY <2>2, <2>3
<1>4. ASSUME NEW k \in T PROVE k + 1 \in T
  <2>0. k \in Nat
    OBVIOUS
  <2> SUFFICES ASSUME k + 1 <= Len(b) PROVE Soon(h[k + 1]) /\ Live(h[k + 1])
    BY <2>0
  <2>1. k + 1 \in 1..Len(b) /\ (k + 1) - 1 = k /\ Soon(h[k]) /\ Live(h[k])
    BY <1>1, <2>0
  <2>2. PICK s, t : s = h[k] /\ t = h[k + 1]
    OBVIOUS
  <2>3. t = NextBlock(item, s)
    BY <1>2, <2>1, <2>2 DEF Blocks
  <2>4. CASE ~s.more
    BY <2>1, <2>2, <2>3, <2>4 DEF NextBlock
  <2>5. CASE s.more
    <3>1. PICK v, c : v = s.read.value /\ c = s.read.rest
      OBVIOUS
    <3>2. v \in Seq(V) /\ c \in Bytes
      BY <2>1, <2>2, <2>5, <3>1
    <3>3. PICK r : r = Block(item, ReadLong(c))
      OBVIOUS
    <3>4. t = WithBlock(v, r)
      BY <2>3, <2>5, <3>1, <3>3 DEF NextBlock
    <3>5. CASE ~r.ok
      <4>1. ~t.read.ok /\ ~t.more
        BY <3>4, <3>5, WithBlockFailed
      <4> QED
        BY <2>2, <4>1
    <3>6. CASE r.ok
      <4>1. r.value \in Seq(V) /\ r.rest \in Bytes
        BY <3>2, <3>3, <3>6, BlockGives
      <4>2. t.read = Got(v \o r.value, r.rest)
        BY <3>4, <3>6 DEF WithBlock
      <4>3. PICK y, d : y = v \o r.value /\ d = r.rest
        OBVIOUS
      <4>4. t.read = Got(y, d)
        BY <4>2, <4>3, Zenon
      <4>5. t.read.ok /\ t.read.value = y /\ t.read.rest = d
        BY <4>4, GotIs
      <4>6. y \in Seq(V)
        BY <3>2, <4>1, <4>3, ConcatProperties
      <4> QED
        BY <2>2, <4>1, <4>3, <4>5, <4>6
    <3> QED
      BY <3>5, <3>6
  <2> QED
    BY <2>4, <2>5
<1>5. T \in SUBSET Nat
  OBVIOUS
<1> HIDE DEF T
<1>6. Len(b) \in T
  BY <1>1, <1>3, <1>4, <1>5, Induction
<1>7. Soon(h[Len(b)])
  BY <1>1, <1>6 DEF T
<1>8. ReadArray(item, b) = Ended(h[Len(b)])
  BY <1>2 DEF Blocks
<1>9. ReadArray(item, b) = h[Len(b)].read
  BY <1>8, FailedIs DEF Ended
<1> QED
  BY <1>7, <1>9

\* What a reader may read.
Outcomes(reader) == {reader[c].value : c \in {d \in Bytes : reader[d].ok}}

\* The schemas with parts, a record's with every name once.
IsCompoundSchema(S) ==
    \/ S.type = "array"
    \/ /\ S.type = "record" /\ IsSeq(S.fields)
       /\ \A i, j \in DOMAIN S.fields : S.fields[i][1] = S.fields[j][1] => i = j

\* The readers of the parts and what they read.
PartsGive(S, readers, V) ==
    /\ readers = [i \in DOMAIN PartSchemas(S) |-> readers[i]]
    /\ \A i \in DOMAIN PartSchemas(S) : Gives(readers[i], V[i])

\* Where the schema of part i of a value is.
PartOf(S, i) == IF S.type = "array" THEN 1 ELSE i

\* A record that is read has its fields, each with what was read for it.
LEMMA RecordGives ==
    ASSUME NEW S, S.type = "record", IsCompoundSchema(S), NEW readers, NEW V,
           PartsGive(S, readers, V), NEW b \in Bytes, ReadCompound(S, readers, b).ok
    PROVE  /\ ReadCompound(S, readers, b).rest \in Bytes
           /\ IsShape(S, ReadCompound(S, readers, b).value)
           /\ \A i \in DOMAIN S.fields :
                 ReadCompound(S, readers, b).value[S.fields[i][1]] \in V[i]
<1>1. /\ IsSeq(S.fields) /\ Len(S.fields) \in Nat
      /\ \A i, j \in DOMAIN S.fields : S.fields[i][1] = S.fields[j][1] => i = j
  BY DEF IsCompoundSchema, IsSeq
<1>2. PICK n : n = Len(S.fields)
  OBVIOUS
<1>3. n \in Nat /\ DOMAIN S.fields = 1..n
  BY <1>1, <1>2, IsSequence DEF IsSeq
<1>4. DOMAIN PartSchemas(S) = 1..n
  BY <1>3 DEF PartSchemas
<1>5. readers = [i \in 1..n |-> readers[i]] /\ \A i \in 1..n : Gives(readers[i], V[i])
  BY <1>4 DEF PartsGive
<1>6. Len(readers) = n /\ AllGive(readers, V)
  BY <1>3, <1>5 DEF AllGive
<1>7. PICK r : r = ReadAll(readers, b)
  OBVIOUS
<1>8. ReadCompound(S, readers, b) = AsRecord(S, r)
  BY <1>7 DEF ReadCompound
<1>9. r.ok
  BY <1>8, FailedIs DEF AsRecord
<1>10. r.rest \in Bytes /\ OfEach(r.value, V, n)
  BY <1>3, <1>6, <1>7, <1>9, AllGives
<1>11. PICK vs, v : vs = r.value /\ v = RecordOf(S, vs)
  OBVIOUS
<1>12. ReadCompound(S, readers, b) = Got(v, r.rest)
  BY <1>8, <1>9, <1>11 DEF AsRecord
<1>13. ReadCompound(S, readers, b).value = v /\ ReadCompound(S, readers, b).rest = r.rest
  BY <1>12, GotIs
<1>14. v = [f \in FieldNames(S) |-> vs[CHOOSE i \in DOMAIN S.fields : S.fields[i][1] = f]]
  BY <1>11 DEF RecordOf, FieldNames
<1>15. ASSUME NEW i \in DOMAIN S.fields PROVE v[S.fields[i][1]] \in V[i]
  <2>1. PICK f : f = S.fields[i][1]
    OBVIOUS
  <2>2. PICK j : j = CHOOSE k \in DOMAIN S.fields : S.fields[k][1] = f
    OBVIOUS
  <2>3. j \in DOMAIN S.fields /\ S.fields[j][1] = f
    BY <2>1, <2>2
  <2>4. j = i
    BY <1>1, <2>1, <2>3
  <2>5. f \in FieldNames(S)
    BY <2>1 DEF FieldNames
  <2>6. v[f] = vs[i]
    BY <1>14, <2>2, <2>4, <2>5
  <2>7. vs[i] \in V[i]
    BY <1>3, <1>10, <1>11 DEF OfEach
  <2> QED
    BY <2>1, <2>6, <2>7
<1>16. v = [f \in FieldNames(S) |-> v[f]]
  BY <1>14
<1>17. IsShape(S, v)
  BY <1>1, <1>16 DEF IsShape
<1> QED
  BY <1>10, <1>13, <1>15, <1>17

\* So of every value with parts: each is what the reader of its schema read.
LEMMA CompoundGives ==
    ASSUME NEW S, IsCompoundSchema(S), NEW readers, NEW V, PartsGive(S, readers, V),
           NEW b \in Bytes, ReadCompound(S, readers, b).ok, NEW v,
           v = ReadCompound(S, readers, b).value
    PROVE  /\ ReadCompound(S, readers, b).rest \in Bytes
           /\ IsShape(S, v)
           /\ \A i \in DOMAIN Parts(S, v) :
                 /\ Parts(S, v)[i].value \in V[PartOf(S, i)]
                 /\ PartOf(S, i) \in DOMAIN PartSchemas(S)
                 /\ Parts(S, v)[i].schema = PartSchemas(S)[PartOf(S, i)]
<1>1. CASE S.type = "array"
  <2>1. PartSchemas(S) = <<S.items>>
    BY <1>1 DEF PartSchemas
  <2>2. DOMAIN PartSchemas(S) = {1} /\ PartSchemas(S)[1] = S.items
    BY <2>1
  <2>3. Gives(readers[1], V[1])
    BY <2>2 DEF PartsGive
  <2>4. ReadCompound(S, readers, b) = ReadArray(readers[1], b)
    BY <1>1 DEF ReadCompound
  <2>5. v \in Seq(V[1]) /\ ReadCompound(S, readers, b).rest \in Bytes
    BY <2>3, <2>4, ArrayGives
  <2>6. IsSeq(v) /\ \A i \in DOMAIN v : v[i] \in V[1]
    BY <2>5 DEF IsSeq
  <2>7. IsShape(S, v)
    BY <1>1, <2>6 DEF IsShape
  <2>8. Parts(S, v) = [i \in DOMAIN v |-> [schema |-> S.items, value |-> v[i]]]
    BY <1>1 DEF Parts
  <2>9. ASSUME NEW i \in DOMAIN Parts(S, v)
        PROVE  Parts(S, v)[i].value \in V[1] /\ Parts(S, v)[i].schema = S.items
    BY <2>6, <2>8
  <2> QED
    BY <1>1, <2>2, <2>5, <2>7, <2>9 DEF PartOf
<1>2. CASE S.type = "record"
  <2>1. /\ ReadCompound(S, readers, b).rest \in Bytes /\ IsShape(S, v)
        /\ \A i \in DOMAIN S.fields : v[S.fields[i][1]] \in V[i]
    BY <1>2, RecordGives
  <2>2. /\ Parts(S, v) = [i \in DOMAIN S.fields |->
                            [schema |-> S.fields[i][2], value |-> v[S.fields[i][1]]]]
        /\ PartSchemas(S) = [i \in DOMAIN S.fields |-> S.fields[i][2]]
    BY <1>2 DEF Parts, PartSchemas
  <2>3. ASSUME NEW i \in DOMAIN Parts(S, v)
        PROVE  /\ Parts(S, v)[i].value \in V[i] /\ i \in DOMAIN PartSchemas(S)
               /\ Parts(S, v)[i].schema = PartSchemas(S)[i]
    BY <2>1, <2>2
  <2> QED
    BY <1>2, <2>1, <2>3 DEF PartOf
<1> QED
  BY <1>1, <1>2 DEF IsCompoundSchema

\* The schemas of Decode_1, Decode_2, Decode_3 and Decode.
IsSchemaWith(IsPart(_), S) ==
    \/ IsScalarSchema(S)
    \/ IsCompoundSchema(S) /\ \A i \in DOMAIN PartSchemas(S) : IsPart(PartSchemas(S)[i])

IsSchema_1(S) == IsSchemaWith(IsScalarSchema, S)
IsSchema_2(S) == IsSchemaWith(IsSchema_1, S)
IsSchema_3(S) == IsSchemaWith(IsSchema_2, S)
IsSchema(S) == IsSchemaWith(IsSchema_3, S)

\* What Decode_1 reads is a value of its schema.
LEMMA Gives_1 ==
    ASSUME NEW S, IsSchema_1(S), NEW b \in Bytes, Decode_1(S, b).ok
    PROVE  Is_1(S, Decode_1(S, b).value) /\ Decode_1(S, b).rest \in Bytes
<1>1. CASE IsScalarSchema(S)
  <2>1. S.type \notin Compound
    BY <1>1 DEF IsScalarSchema, Compound
  <2>2. Decode_1(S, b) = ReadScalar(S, b)
    BY <2>1 DEF Decode_1, ReadWith
  <2> QED
    BY <1>1, <2>2, ScalarGives DEF Is_1, IsWith
<1>2. CASE IsCompoundSchema(S) /\ \A i \in DOMAIN PartSchemas(S) : IsScalarSchema(PartSchemas(S)[i])
  <2> DEFINE reader(i) == [c \in Bytes |-> ReadScalar(PartSchemas(S)[i], c)]
             readers == [i \in DOMAIN PartSchemas(S) |-> reader(i)]
             V == [i \in DOMAIN PartSchemas(S) |-> Outcomes(reader(i))]
             r == ReadCompound(S, readers, b)
  <2>1. Decode_1(S, b) = r
    BY <1>2 DEF Decode_1, ReadWith, IsCompoundSchema, Compound
  <2>2. ASSUME NEW i \in DOMAIN PartSchemas(S)
        PROVE  Gives(reader(i), V[i]) /\ \A w \in V[i] : IsScalar(PartSchemas(S)[i], w)
    <3>1. PICK S1 : S1 = PartSchemas(S)[i]
      OBVIOUS
    <3>2. IsScalarSchema(S1)
      BY <1>2, <3>1
    <3>3. \A c \in Bytes : ReadScalar(S1, c).ok =>
             IsScalar(S1, ReadScalar(S1, c).value) /\ ReadScalar(S1, c).rest \in Bytes
      BY <3>2, ScalarGives
    <3>4. \A c \in Bytes : reader(i)[c] = ReadScalar(S1, c)
      BY <3>1
    <3>5. V[i] = Outcomes(reader(i))
      OBVIOUS
    <3> HIDE DEF reader, V
    <3>6. Gives(reader(i), V[i])
      BY <3>3, <3>4, <3>5 DEF Gives, Outcomes
    <3>7. \A w \in V[i] : IsScalar(S1, w)
      BY <3>3, <3>4, <3>5 DEF Outcomes
    <3> QED
      BY <3>1, <3>6, <3>7
  <2>3. /\ readers = [i \in DOMAIN PartSchemas(S) |-> readers[i]]
        /\ \A i \in DOMAIN PartSchemas(S) : readers[i] = reader(i)
    OBVIOUS
  <2> HIDE DEF readers, reader, V
  <2>4. PartsGive(S, readers, V)
    BY <2>2, <2>3 DEF PartsGive
  <2>5. r.ok
    BY <2>1
  <2>6. PICK v : v = r.value
    OBVIOUS
  <2>7. /\ r.rest \in Bytes /\ IsShape(S, v)
        /\ \A i \in DOMAIN Parts(S, v) :
              /\ Parts(S, v)[i].value \in V[PartOf(S, i)]
              /\ PartOf(S, i) \in DOMAIN PartSchemas(S)
              /\ Parts(S, v)[i].schema = PartSchemas(S)[PartOf(S, i)]
    BY <1>2, <2>4, <2>5, <2>6, CompoundGives
  <2> HIDE DEF r
  <2>8. \A i \in DOMAIN Parts(S, v) : IsScalar(Parts(S, v)[i].schema, Parts(S, v)[i].value)
    BY <2>2, <2>7
  <2>9. Is_1(S, v)
    BY <2>7, <2>8 DEF Is_1, IsWith
  <2> QED
    BY <2>1, <2>6, <2>7, <2>9
<1> QED
  BY <1>1, <1>2 DEF IsSchema_1, IsSchemaWith

\* The same with parts that have parts.
LEMMA Gives_2 ==
    ASSUME NEW S, IsSchema_2(S), NEW b \in Bytes, Decode_2(S, b).ok
    PROVE  Is_2(S, Decode_2(S, b).value) /\ Decode_2(S, b).rest \in Bytes
<1>1. CASE IsScalarSchema(S)
  <2>1. S.type \notin Compound
    BY <1>1 DEF IsScalarSchema, Compound
  <2>2. Decode_2(S, b) = ReadScalar(S, b)
    BY <2>1 DEF Decode_2, ReadWith
  <2> QED
    BY <1>1, <2>2, ScalarGives DEF Is_2, IsWith
<1>2. CASE IsCompoundSchema(S) /\ \A i \in DOMAIN PartSchemas(S) : IsSchema_1(PartSchemas(S)[i])
  <2> DEFINE reader(i) == [c \in Bytes |-> Decode_1(PartSchemas(S)[i], c)]
             readers == [i \in DOMAIN PartSchemas(S) |-> reader(i)]
             V == [i \in DOMAIN PartSchemas(S) |-> Outcomes(reader(i))]
             r == ReadCompound(S, readers, b)
  <2>1. Decode_2(S, b) = r
    BY <1>2 DEF Decode_2, ReadWith, IsCompoundSchema, Compound
  <2>2. ASSUME NEW i \in DOMAIN PartSchemas(S)
        PROVE  Gives(reader(i), V[i]) /\ \A w \in V[i] : Is_1(PartSchemas(S)[i], w)
    <3>1. PICK S1 : S1 = PartSchemas(S)[i]
      OBVIOUS
    <3>2. IsSchema_1(S1)
      BY <1>2, <3>1
    <3>3. \A c \in Bytes : Decode_1(S1, c).ok =>
             Is_1(S1, Decode_1(S1, c).value) /\ Decode_1(S1, c).rest \in Bytes
      BY <3>2, Gives_1
    <3>4. \A c \in Bytes : reader(i)[c] = Decode_1(S1, c)
      BY <3>1
    <3>5. V[i] = Outcomes(reader(i))
      OBVIOUS
    <3> HIDE DEF reader, V
    <3>6. Gives(reader(i), V[i])
      BY <3>3, <3>4, <3>5 DEF Gives, Outcomes
    <3>7. \A w \in V[i] : Is_1(S1, w)
      BY <3>3, <3>4, <3>5 DEF Outcomes
    <3> QED
      BY <3>1, <3>6, <3>7
  <2>3. /\ readers = [i \in DOMAIN PartSchemas(S) |-> readers[i]]
        /\ \A i \in DOMAIN PartSchemas(S) : readers[i] = reader(i)
    OBVIOUS
  <2> HIDE DEF readers, reader, V
  <2>4. PartsGive(S, readers, V)
    BY <2>2, <2>3 DEF PartsGive
  <2>5. r.ok
    BY <2>1
  <2>6. PICK v : v = r.value
    OBVIOUS
  <2>7. /\ r.rest \in Bytes /\ IsShape(S, v)
        /\ \A i \in DOMAIN Parts(S, v) :
              /\ Parts(S, v)[i].value \in V[PartOf(S, i)]
              /\ PartOf(S, i) \in DOMAIN PartSchemas(S)
              /\ Parts(S, v)[i].schema = PartSchemas(S)[PartOf(S, i)]
    BY <1>2, <2>4, <2>5, <2>6, CompoundGives
  <2> HIDE DEF r
  <2>8. \A i \in DOMAIN Parts(S, v) : Is_1(Parts(S, v)[i].schema, Parts(S, v)[i].value)
    BY <2>2, <2>7
  <2>9. Is_2(S, v)
    BY <2>7, <2>8 DEF Is_2, IsWith
  <2> QED
    BY <2>1, <2>6, <2>7, <2>9
<1> QED
  BY <1>1, <1>2 DEF IsSchema_2, IsSchemaWith

\* And one more level.
LEMMA Gives_3 ==
    ASSUME NEW S, IsSchema_3(S), NEW b \in Bytes, Decode_3(S, b).ok
    PROVE  Is_3(S, Decode_3(S, b).value) /\ Decode_3(S, b).rest \in Bytes
<1>1. CASE IsScalarSchema(S)
  <2>1. S.type \notin Compound
    BY <1>1 DEF IsScalarSchema, Compound
  <2>2. Decode_3(S, b) = ReadScalar(S, b)
    BY <2>1 DEF Decode_3, ReadWith
  <2> QED
    BY <1>1, <2>2, ScalarGives DEF Is_3, IsWith
<1>2. CASE IsCompoundSchema(S) /\ \A i \in DOMAIN PartSchemas(S) : IsSchema_2(PartSchemas(S)[i])
  <2> DEFINE reader(i) == [c \in Bytes |-> Decode_2(PartSchemas(S)[i], c)]
             readers == [i \in DOMAIN PartSchemas(S) |-> reader(i)]
             V == [i \in DOMAIN PartSchemas(S) |-> Outcomes(reader(i))]
             r == ReadCompound(S, readers, b)
  <2>1. Decode_3(S, b) = r
    BY <1>2 DEF Decode_3, ReadWith, IsCompoundSchema, Compound
  <2>2. ASSUME NEW i \in DOMAIN PartSchemas(S)
        PROVE  Gives(reader(i), V[i]) /\ \A w \in V[i] : Is_2(PartSchemas(S)[i], w)
    <3>1. PICK S1 : S1 = PartSchemas(S)[i]
      OBVIOUS
    <3>2. IsSchema_2(S1)
      BY <1>2, <3>1
    <3>3. \A c \in Bytes : Decode_2(S1, c).ok =>
             Is_2(S1, Decode_2(S1, c).value) /\ Decode_2(S1, c).rest \in Bytes
      BY <3>2, Gives_2
    <3>4. \A c \in Bytes : reader(i)[c] = Decode_2(S1, c)
      BY <3>1
    <3>5. V[i] = Outcomes(reader(i))
      OBVIOUS
    <3> HIDE DEF reader, V
    <3>6. Gives(reader(i), V[i])
      BY <3>3, <3>4, <3>5 DEF Gives, Outcomes
    <3>7. \A w \in V[i] : Is_2(S1, w)
      BY <3>3, <3>4, <3>5 DEF Outcomes
    <3> QED
      BY <3>1, <3>6, <3>7
  <2>3. /\ readers = [i \in DOMAIN PartSchemas(S) |-> readers[i]]
        /\ \A i \in DOMAIN PartSchemas(S) : readers[i] = reader(i)
    OBVIOUS
  <2> HIDE DEF readers, reader, V
  <2>4. PartsGive(S, readers, V)
    BY <2>2, <2>3 DEF PartsGive
  <2>5. r.ok
    BY <2>1
  <2>6. PICK v : v = r.value
    OBVIOUS
  <2>7. /\ r.rest \in Bytes /\ IsShape(S, v)
        /\ \A i \in DOMAIN Parts(S, v) :
              /\ Parts(S, v)[i].value \in V[PartOf(S, i)]
              /\ PartOf(S, i) \in DOMAIN PartSchemas(S)
              /\ Parts(S, v)[i].schema = PartSchemas(S)[PartOf(S, i)]
    BY <1>2, <2>4, <2>5, <2>6, CompoundGives
  <2> HIDE DEF r
  <2>8. \A i \in DOMAIN Parts(S, v) : Is_2(Parts(S, v)[i].schema, Parts(S, v)[i].value)
    BY <2>2, <2>7
  <2>9. Is_3(S, v)
    BY <2>7, <2>8 DEF Is_3, IsWith
  <2> QED
    BY <2>1, <2>6, <2>7, <2>9
<1> QED
  BY <1>1, <1>2 DEF IsSchema_3, IsSchemaWith

\* Whatever bytes avro_value_read is given, what it reads, if it can, is a value
\* of its schema: of its types at every level, a record with every field.
THEOREM DecodingIsValue ==
    ASSUME NEW S, IsSchema(S), NEW b \in Bytes, Decode(S, b).ok
    PROVE  IsValue(S, Decode(S, b).value) /\ Decode(S, b).rest \in Bytes
<1>1. CASE IsScalarSchema(S)
  <2>1. S.type \notin Compound
    BY <1>1 DEF IsScalarSchema, Compound
  <2>2. Decode(S, b) = ReadScalar(S, b)
    BY <2>1 DEF Decode, ReadWith
  <2> QED
    BY <1>1, <2>2, ScalarGives DEF IsValue, IsWith
<1>2. CASE IsCompoundSchema(S) /\ \A i \in DOMAIN PartSchemas(S) : IsSchema_3(PartSchemas(S)[i])
  <2> DEFINE reader(i) == [c \in Bytes |-> Decode_3(PartSchemas(S)[i], c)]
             readers == [i \in DOMAIN PartSchemas(S) |-> reader(i)]
             V == [i \in DOMAIN PartSchemas(S) |-> Outcomes(reader(i))]
             r == ReadCompound(S, readers, b)
  <2>1. Decode(S, b) = r
    BY <1>2 DEF Decode, ReadWith, IsCompoundSchema, Compound
  <2>2. ASSUME NEW i \in DOMAIN PartSchemas(S)
        PROVE  Gives(reader(i), V[i]) /\ \A w \in V[i] : Is_3(PartSchemas(S)[i], w)
    <3>1. PICK S1 : S1 = PartSchemas(S)[i]
      OBVIOUS
    <3>2. IsSchema_3(S1)
      BY <1>2, <3>1
    <3>3. \A c \in Bytes : Decode_3(S1, c).ok =>
             Is_3(S1, Decode_3(S1, c).value) /\ Decode_3(S1, c).rest \in Bytes
      BY <3>2, Gives_3
    <3>4. \A c \in Bytes : reader(i)[c] = Decode_3(S1, c)
      BY <3>1
    <3>5. V[i] = Outcomes(reader(i))
      OBVIOUS
    <3> HIDE DEF reader, V
    <3>6. Gives(reader(i), V[i])
      BY <3>3, <3>4, <3>5 DEF Gives, Outcomes
    <3>7. \A w \in V[i] : Is_3(S1, w)
      BY <3>3, <3>4, <3>5 DEF Outcomes
    <3> QED
      BY <3>1, <3>6, <3>7
  <2>3. /\ readers = [i \in DOMAIN PartSchemas(S) |-> readers[i]]
        /\ \A i \in DOMAIN PartSchemas(S) : readers[i] = reader(i)
    OBVIOUS
  <2> HIDE DEF readers, reader, V
  <2>4. PartsGive(S, readers, V)
    BY <2>2, <2>3 DEF PartsGive
  <2>5. r.ok
    BY <2>1
  <2>6. PICK v : v = r.value
    OBVIOUS
  <2>7. /\ r.rest \in Bytes /\ IsShape(S, v)
        /\ \A i \in DOMAIN Parts(S, v) :
              /\ Parts(S, v)[i].value \in V[PartOf(S, i)]
              /\ PartOf(S, i) \in DOMAIN PartSchemas(S)
              /\ Parts(S, v)[i].schema = PartSchemas(S)[PartOf(S, i)]
    BY <1>2, <2>4, <2>5, <2>6, CompoundGives
  <2> HIDE DEF r
  <2>8. \A i \in DOMAIN Parts(S, v) : Is_3(Parts(S, v)[i].schema, Parts(S, v)[i].value)
    BY <2>2, <2>7
  <2>9. IsValue(S, v)
    BY <2>7, <2>8 DEF IsValue, IsWith
  <2> QED
    BY <2>1, <2>6, <2>7, <2>9
<1> QED
  BY <1>1, <1>2 DEF IsSchema, IsSchemaWith

-----------------------------------------------------------------------------
(* The values that the builders set are values of the schemas in use.        *)

\* A record with the fields F, each a name and a schema.
IsRecord(F, v) ==
    /\ IsSeq(F)
    /\ \A i, j \in 1..Len(F) : F[i][1] = F[j][1] => i = j
    /\ v = [f \in {F[i][1] : i \in 1..Len(F)} |-> v[f]]

\* The parts of a record are its fields.
LEMMA RecordParts ==
    ASSUME NEW F, NEW v, IsRecord(F, v)
    PROVE  /\ IsShape(AvroRecord(F), v)
           /\ DOMAIN Parts(AvroRecord(F), v) = 1..Len(F)
           /\ \A i \in 1..Len(F) :
                /\ Parts(AvroRecord(F), v)[i].schema = F[i][2]
                /\ Parts(AvroRecord(F), v)[i].value = v[F[i][1]]
<1>1. AvroRecord(F).type = "record" /\ AvroRecord(F).fields = F
  BY DEF AvroRecord
<1>2. DOMAIN F = 1..Len(F)
  BY DEF IsRecord, IsSeq
<1>3. DOMAIN AvroRecord(F).fields = 1..Len(F)
  BY <1>1, <1>2
<1>4. IsShape(AvroRecord(F), v)
  BY <1>1, <1>3 DEF IsShape, FieldNames, IsRecord
<1> QED
  BY <1>1, <1>3, <1>4 DEF Parts

\* The parts of an array are its items.
LEMMA ArrayParts ==
    ASSUME NEW S, NEW v, IsSeq(v)
    PROVE  /\ IsShape(AvroArray(S), v)
           /\ DOMAIN Parts(AvroArray(S), v) = 1..Len(v)
           /\ \A i \in 1..Len(v) :
                /\ Parts(AvroArray(S), v)[i].schema = S
                /\ Parts(AvroArray(S), v)[i].value = v[i]
<1>1. AvroArray(S).type = "array" /\ AvroArray(S).items = S
  BY DEF AvroArray
<1>2. DOMAIN v = 1..Len(v)
  BY DEF IsSeq
<1> QED
  BY <1>1, <1>2 DEF IsShape, Parts

\* A record of one field.
LEMMA OneField ==
    ASSUME NEW f1, NEW S1, NEW v, v = [f \in {f1} |-> v[f]]
    PROVE  /\ IsRecord(<< <<f1, S1>> >>, v)
           /\ \A i \in 1..Len(<< <<f1, S1>> >>) : << <<f1, S1>> >>[i] = <<f1, S1>>
<1> DEFINE F == << <<f1, S1>> >>
<1>1. IsSeq(F) /\ Len(F) = 1 /\ F[1] = <<f1, S1>>
  BY DEF IsSeq
<1> HIDE DEF F
<1>2. \A i \in 1..Len(F) : F[i] = <<f1, S1>> /\ i = 1
  BY <1>1
<1>3. {F[i][1] : i \in 1..Len(F)} = {f1}
  BY <1>1
<1> QED
  BY <1>1, <1>2, <1>3 DEF IsRecord, F

\* A record of two fields.
LEMMA TwoFields ==
    ASSUME NEW f1, NEW S1, NEW f2, NEW S2, f1 # f2, NEW v, v = [f \in {f1, f2} |-> v[f]]
    PROVE  /\ IsRecord(<< <<f1, S1>>, <<f2, S2>> >>, v)
           /\ \A i \in 1..Len(<< <<f1, S1>>, <<f2, S2>> >>) :
                << <<f1, S1>>, <<f2, S2>> >>[i] \in {<<f1, S1>>, <<f2, S2>>}
<1> DEFINE F == << <<f1, S1>>, <<f2, S2>> >>
<1>1. IsSeq(F) /\ Len(F) = 2 /\ F[1] = <<f1, S1>> /\ F[2] = <<f2, S2>>
  BY DEF IsSeq
<1> HIDE DEF F
<1>2. \A i \in 1..Len(F) : i = 1 \/ i = 2
  BY <1>1
<1>3. {F[i][1] : i \in 1..Len(F)} = {f1, f2}
  BY <1>1, <1>2
<1> QED
  BY <1>1, <1>2, <1>3 DEF IsRecord, F

\* A record of three fields.
LEMMA ThreeFields ==
    ASSUME NEW f1, NEW S1, NEW f2, NEW S2, NEW f3, NEW S3, f1 # f2, f1 # f3, f2 # f3,
           NEW v, v = [f \in {f1, f2, f3} |-> v[f]]
    PROVE  /\ IsRecord(<< <<f1, S1>>, <<f2, S2>>, <<f3, S3>> >>, v)
           /\ \A i \in 1..Len(<< <<f1, S1>>, <<f2, S2>>, <<f3, S3>> >>) :
                << <<f1, S1>>, <<f2, S2>>, <<f3, S3>> >>[i]
                  \in {<<f1, S1>>, <<f2, S2>>, <<f3, S3>>}
<1> DEFINE F == << <<f1, S1>>, <<f2, S2>>, <<f3, S3>> >>
<1>1. /\ IsSeq(F) /\ Len(F) = 3
      /\ F[1] = <<f1, S1>> /\ F[2] = <<f2, S2>> /\ F[3] = <<f3, S3>>
  BY DEF IsSeq
<1> HIDE DEF F
<1>2. \A i \in 1..Len(F) : i = 1 \/ i = 2 \/ i = 3
  BY <1>1
<1>3. {F[i][1] : i \in 1..Len(F)} = {f1, f2, f3}
  BY <1>1, <1>2
<1> QED
  BY <1>1, <1>2, <1>3 DEF IsRecord, F

\* The null of the schemas.
LEMMA NullIs == IsScalar(AvroNull, "null")
BY DEF IsScalar, AvroNull

\* Integers and enumerators are integers.
LEMMA NumberIs ==
    \A k \in Int : IsScalar(AvroInt, k) /\ IsScalar(AvroLong, k) /\ \A s : IsScalar(AvroEnum(s), k)
BY DEF IsScalar, AvroInt, AvroLong, AvroEnum

\* A boolean is a value of its schema.
LEMMA BooleanIs == \A b \in BOOLEAN : IsScalar(AvroBoolean, b)
BY DEF IsScalar, AvroBoolean

\* Strings and byte vectors are bytes.
LEMMA TextIs == \A s \in Bytes : IsScalar(AvroString, s) /\ IsScalar(AvroBytes, s)
BY DEF IsScalar, AvroString, AvroBytes

\* The name of a process, a record in other records.
LEMMA ProcessNameIs == \A v \in [jobid: Int, vpid: Int] : Is_1(ProcessName, v)
<1> SUFFICES ASSUME NEW v \in [jobid: Int, vpid: Int] PROVE Is_1(ProcessName, v)
  OBVIOUS
<1> DEFINE F == << <<"jobid", AvroInt>>, <<"vpid", AvroInt>> >>
<1>1. v = [f \in {"jobid", "vpid"} |-> v[f]]
  OBVIOUS
<1>2. IsRecord(F, v) /\ \A i \in 1..Len(F) : F[i] \in {<<"jobid", AvroInt>>, <<"vpid", AvroInt>>}
  BY <1>1, TwoFields
<1> HIDE DEF F
<1>3. \A i \in 1..Len(F) : IsScalar(F[i][2], v[F[i][1]])
  BY <1>2, NumberIs
<1>4. Is_1(AvroRecord(F), v)
  BY <1>2, <1>3, RecordParts DEF Is_1, IsWith
<1> QED
  BY <1>4 DEF F, ProcessName

\* A value without parts is one at every depth.
LEMMA ScalarsAre == \A S, v : IsScalar(S, v) => Is_1(S, v) /\ Is_2(S, v) /\ Is_3(S, v)
BY DEF Is_1, Is_2, Is_3, IsWith

\* A record is a value when its fields are.
LEMMA RecordIsValue ==
    ASSUME NEW F, NEW v, IsRecord(F, v)
    PROVE  /\ (\A i \in 1..Len(F) : Is_3(F[i][2], v[F[i][1]])) => IsValue(AvroRecord(F), v)
           /\ (\A i \in 1..Len(F) : Is_1(F[i][2], v[F[i][1]])) => Is_2(AvroRecord(F), v)
BY RecordParts DEF IsValue, Is_2, IsWith

\* An array is a value when its items are.
LEMMA ArrayIs ==
    ASSUME NEW S, NEW v, IsSeq(v)
    PROVE  /\ (\A i \in 1..Len(v) : Is_2(S, v[i])) => Is_3(AvroArray(S), v)
           /\ (\A i \in 1..Len(v) : IsScalar(S, v[i])) => Is_1(AvroArray(S), v)
BY ArrayParts DEF Is_3, Is_1, IsWith

\* The messages without contents.
LEMMA NullMessageIs ==
    /\ IsValue(RegisterRequest, [register_request |-> "null"])
    /\ IsValue(RegisterResponse, [register_response |-> "null"])
    /\ IsValue(HeartBeatRequest, [heartbeat_request |-> "null"])
    /\ IsValue(FinishResponse, [finish_response |-> "null"])
<1>1. ASSUME NEW f, NEW v, v = [x \in {f} |-> "null"]
      PROVE  IsValue(AvroRecord(<< <<f, AvroNull>> >>), v)
  <2> DEFINE F == << <<f, AvroNull>> >>
  <2>1. v = [x \in {f} |-> v[x]] /\ v[f] = "null"
    BY <1>1
  <2>2. IsRecord(F, v) /\ \A i \in 1..Len(F) : F[i] = <<f, AvroNull>>
    BY <2>1, OneField
  <2> HIDE DEF F
  <2>3. \A i \in 1..Len(F) : Is_3(F[i][2], v[F[i][1]])
    BY <2>1, <2>2, NullIs, ScalarsAre
  <2>4. IsValue(AvroRecord(F), v)
    BY <2>2, <2>3, RecordIsValue
  <2> QED
    BY <2>4 DEF F
<1>2. /\ [register_request |-> "null"] = [x \in {"register_request"} |-> "null"]
      /\ [register_response |-> "null"] = [x \in {"register_response"} |-> "null"]
      /\ [heartbeat_request |-> "null"] = [x \in {"heartbeat_request"} |-> "null"]
      /\ [finish_response |-> "null"] = [x \in {"finish_response"} |-> "null"]
  OBVIOUS
<1> QED
  BY <1>1, <1>2 DEF RegisterRequest, RegisterResponse, HeartBeatRequest, FinishResponse

\* The number of resources.
LEMMA AllocateRequestIs == \A v \in [resource_count: Int] : IsValue(AllocateRequest, v)
<1> SUFFICES ASSUME NEW v \in [resource_count: Int] PROVE IsValue(AllocateRequest, v)
  OBVIOUS
<1> DEFINE F == << <<"resource_count", AvroInt>> >>
<1>1. v = [x \in {"resource_count"} |-> v[x]]
  OBVIOUS
<1>2. IsRecord(F, v) /\ \A i \in 1..Len(F) : F[i] = <<"resource_count", AvroInt>>
  BY <1>1, OneField
<1> HIDE DEF F
<1>3. \A i \in 1..Len(F) : Is_3(F[i][2], v[F[i][1]])
  BY <1>2, NumberIs, ScalarsAre
<1>4. IsValue(AvroRecord(F), v)
  BY <1>2, <1>3, RecordIsValue
<1> QED
  BY <1>4 DEF F, AllocateRequest

\* Success and diagnostics.
LEMMA FinishRequestIs ==
    \A v \in [succeed: BOOLEAN, diagnostics: Bytes] : IsValue(FinishRequest, v)
<1> SUFFICES ASSUME NEW v \in [succeed: BOOLEAN, diagnostics: Bytes] PROVE IsValue(FinishRequest, v)
  OBVIOUS
<1> DEFINE F == << <<"succeed", AvroBoolean>>, <<"diagnostics", AvroString>> >>
<1>1. v = [x \in {"succeed", "diagnostics"} |-> v[x]]
  OBVIOUS
<1>2. /\ IsRecord(F, v)
      /\ \A i \in 1..Len(F) : F[i] \in {<<"succeed", AvroBoolean>>, <<"diagnostics", AvroString>>}
  BY <1>1, TwoFields
<1> HIDE DEF F
<1>3. \A i \in 1..Len(F) : Is_3(F[i][2], v[F[i][1]])
  BY <1>2, BooleanIs, TextIs, ScalarsAre
<1>4. IsValue(AvroRecord(F), v)
  BY <1>2, <1>3, RecordIsValue
<1> QED
  BY <1>4 DEF F, FinishRequest

\* A request with its type.
LEMMA HamsterHnpRequestIs ==
    \A v \in [request: Bytes, msg_type: Int] : IsValue(HamsterHnpRequest, v)
<1> SUFFICES ASSUME NEW v \in [request: Bytes, msg_type: Int] PROVE IsValue(HamsterHnpRequest, v)
  OBVIOUS
<1> DEFINE F == << <<"request", AvroBytes>>, <<"msg_type", AvroEnum(MsgTypeSymbols)>> >>
<1>1. v = [x \in {"request", "msg_type"} |-> v[x]]
  OBVIOUS
<1>2. /\ IsRecord(F, v)
      /\ \A i \in 1..Len(F) :
           F[i] \in {<<"request", AvroBytes>>, <<"msg_type", AvroEnum(MsgTypeSymbols)>>}
  BY <1>1, TwoFields
<1> HIDE DEF F
<1>3. \A i \in 1..Len(F) : Is_3(F[i][2], v[F[i][1]])
  BY <1>2, NumberIs, TextIs, ScalarsAre
<1>4. IsValue(AvroRecord(F), v)
  BY <1>2, <1>3, RecordIsValue
<1> QED
  BY <1>4 DEF F, HamsterHnpRequest

\* The example.
LEMMA PersonIs ==
    \A v \in [name: Bytes, weight: Int, height: Int] : IsValue(Person, v)
<1> SUFFICES ASSUME NEW v \in [name: Bytes, weight: Int, height: Int] PROVE IsValue(Person, v)
  OBVIOUS
<1> DEFINE F == << <<"height", AvroLong>>, <<"weight", AvroLong>>, <<"name", AvroString>> >>
<1>1. v = [x \in {"height", "weight", "name"} |-> v[x]]
  OBVIOUS
<1>2. /\ IsRecord(F, v)
      /\ \A i \in 1..Len(F) :
           F[i] \in {<<"height", AvroLong>>, <<"weight", AvroLong>>, <<"name", AvroString>>}
  BY <1>1, ThreeFields
<1> HIDE DEF F
<1>3. \A i \in 1..Len(F) : Is_3(F[i][2], v[F[i][1]])
  BY <1>2, NumberIs, TextIs, ScalarsAre
<1>4. IsValue(AvroRecord(F), v)
  BY <1>2, <1>3, RecordIsValue
<1> QED
  BY <1>4 DEF F, Person

\* A record of one array.
LEMMA ArrayMessageIs ==
    ASSUME NEW f, NEW S, NEW v, v = [x \in {f} |-> v[x]], IsSeq(v[f]),
           \A i \in 1..Len(v[f]) : Is_2(S, v[f][i])
    PROVE  IsValue(AvroRecord(<< <<f, AvroArray(S)>> >>), v)
<1> DEFINE F == << <<f, AvroArray(S)>> >>
<1>1. IsRecord(F, v) /\ \A i \in 1..Len(F) : F[i] = <<f, AvroArray(S)>>
  BY OneField
<1> HIDE DEF F
<1>2. Is_3(AvroArray(S), v[f])
  BY ArrayIs
<1>3. \A i \in 1..Len(F) : Is_3(F[i][2], v[F[i][1]])
  BY <1>1, <1>2
<1>4. IsValue(AvroRecord(F), v)
  BY <1>1, <1>3, RecordIsValue
<1> QED
  BY <1>4 DEF F

\* An item of an allocation.
LEMMA NodeResourceIs ==
    \A v \in [host_name: Bytes, slot: Int] :
       Is_2(AvroRecord(<< <<"host_name", AvroString>>, <<"slot", AvroInt>> >>), v)
<1> DEFINE F == << <<"host_name", AvroString>>, <<"slot", AvroInt>> >>
<1> SUFFICES ASSUME NEW v \in [host_name: Bytes, slot: Int] PROVE Is_2(AvroRecord(F), v)
  OBVIOUS
<1>1. v = [x \in {"host_name", "slot"} |-> v[x]]
  OBVIOUS
<1>2. /\ IsRecord(F, v)
      /\ \A i \in 1..Len(F) : F[i] \in {<<"host_name", AvroString>>, <<"slot", AvroInt>>}
  BY <1>1, TwoFields
<1> HIDE DEF F
<1>3. \A i \in 1..Len(F) : Is_1(F[i][2], v[F[i][1]])
  BY <1>2, TextIs, NumberIs, ScalarsAre
<1> QED
  BY <1>2, <1>3, RecordIsValue

\* An item of a launch response.
LEMMA LaunchResultIs ==
    \A v \in [is_successful: BOOLEAN, name: [jobid: Int, vpid: Int]] :
       Is_2(AvroRecord(<< <<"is_successful", AvroBoolean>>, <<"name", ProcessName>> >>), v)
<1> DEFINE F == << <<"is_successful", AvroBoolean>>, <<"name", ProcessName>> >>
<1> SUFFICES ASSUME NEW v \in [is_successful: BOOLEAN, name: [jobid: Int, vpid: Int]]
             PROVE  Is_2(AvroRecord(F), v)
  OBVIOUS
<1>1. v = [x \in {"is_successful", "name"} |-> v[x]]
  OBVIOUS
<1>2. /\ IsRecord(F, v)
      /\ \A i \in 1..Len(F) : F[i] \in {<<"is_successful", AvroBoolean>>, <<"name", ProcessName>>}
  BY <1>1, TwoFields
<1> HIDE DEF F
<1>3. \A i \in 1..Len(F) : Is_1(F[i][2], v[F[i][1]])
  BY <1>2, BooleanIs, ProcessNameIs, ScalarsAre
<1> QED
  BY <1>2, <1>3, RecordIsValue

\* An item of a heartbeat response.
LEMMA ProcessStatusIs ==
    \A v \in [name: [jobid: Int, vpid: Int], state: Int, exit_value: Int] :
       Is_2(AvroRecord(<< <<"name", ProcessName>>, <<"state", AvroEnum(ProcessStateSymbols)>>,
                          <<"exit_value", AvroInt>> >>), v)
<1> DEFINE F == << <<"name", ProcessName>>, <<"state", AvroEnum(ProcessStateSymbols)>>,
                   <<"exit_value", AvroInt>> >>
<1> SUFFICES ASSUME NEW v \in [name: [jobid: Int, vpid: Int], state: Int, exit_value: Int]
             PROVE  Is_2(AvroRecord(F), v)
  OBVIOUS
<1>1. v = [x \in {"name", "state", "exit_value"} |-> v[x]]
  OBVIOUS
<1>2. /\ IsRecord(F, v)
      /\ \A i \in 1..Len(F) :
           F[i] \in {<<"name", ProcessName>>, <<"state", AvroEnum(ProcessStateSymbols)>>,
                     <<"exit_value", AvroInt>>}
  BY <1>1, ThreeFields
<1> HIDE DEF F
<1>3. \A i \in 1..Len(F) : Is_1(F[i][2], v[F[i][1]])
  BY <1>2, NumberIs, ProcessNameIs, ScalarsAre
<1> QED
  BY <1>2, <1>3, RecordIsValue

\* An item of a launch request, with an array of its own.
LEMMA LaunchContextIs ==
    \A v \in [en_vars: Seq(Bytes), args: Bytes, host_name: Bytes, name: [jobid: Int, vpid: Int]] :
       Is_2(AvroRecord(<< <<"en_vars", AvroArray(AvroString)>>, <<"args", AvroString>>,
                          <<"host_name", AvroString>>, <<"name", ProcessName>> >>), v)
<1> DEFINE F == << <<"en_vars", AvroArray(AvroString)>>, <<"args", AvroString>>,
                   <<"host_name", AvroString>>, <<"name", ProcessName>> >>
<1> SUFFICES ASSUME NEW v \in [en_vars: Seq(Bytes), args: Bytes, host_name: Bytes,
                               name: [jobid: Int, vpid: Int]]
             PROVE  Is_2(AvroRecord(F), v)
  OBVIOUS
<1>1. v = [x \in {"en_vars", "args", "host_name", "name"} |-> v[x]]
  OBVIOUS
<1>2. /\ IsRecord(F, v)
      /\ \A i \in 1..Len(F) :
           F[i] \in {<<"en_vars", AvroArray(AvroString)>>, <<"args", AvroString>>,
                     <<"host_name", AvroString>>, <<"name", ProcessName>>}
  <2>1. /\ IsSeq(F) /\ Len(F) = 4
        /\ F[1] = <<"en_vars", AvroArray(AvroString)>> /\ F[2] = <<"args", AvroString>>
        /\ F[3] = <<"host_name", AvroString>> /\ F[4] = <<"name", ProcessName>>
    BY DEF IsSeq
  <2> HIDE DEF F
  <2>2. \A i \in 1..Len(F) : i = 1 \/ i = 2 \/ i = 3 \/ i = 4
    BY <2>1
  <2>3. {F[i][1] : i \in 1..Len(F)} = {"en_vars", "args", "host_name", "name"}
    BY <2>1, <2>2
  <2>4. \A i, j \in 1..Len(F) : F[i][1] = F[j][1] => i = j
    <3>1. /\ F[1][1] = "en_vars" /\ F[2][1] = "args" /\ F[3][1] = "host_name" /\ F[4][1] = "name"
      BY <2>1
    <3> QED
      BY ONLY <2>2, <3>1
  <2>5. IsRecord(F, v)
    BY <1>1, <2>1, <2>3, <2>4 DEF IsRecord
  <2> QED
    BY <2>1, <2>2, <2>5
<1> HIDE DEF F
<1>3. Is_1(AvroArray(AvroString), v.en_vars)
  <2>1. IsSeq(v.en_vars) /\ \A i \in 1..Len(v.en_vars) : v.en_vars[i] \in Bytes
    BY LenProperties, ElementOfSeq DEF IsSeq
  <2> QED
    BY <2>1, ArrayIs, TextIs
<1>4. \A i \in 1..Len(F) : Is_1(F[i][2], v[F[i][1]])
  BY <1>2, <1>3, TextIs, ProcessNameIs, ScalarsAre
<1> QED
  BY <1>2, <1>4, RecordIsValue

\* An item of an earlier launch request, with a string where the array is.
LEMMA EarlierContextIs ==
    \A v \in [en_vars: Bytes, args: Bytes, host_name: Bytes, name: [jobid: Int, vpid: Int]] :
       Is_2(AvroRecord(<< <<"en_vars", AvroString>>, <<"args", AvroString>>,
                          <<"host_name", AvroString>>, <<"name", ProcessName>> >>), v)
<1> DEFINE F == << <<"en_vars", AvroString>>, <<"args", AvroString>>,
                   <<"host_name", AvroString>>, <<"name", ProcessName>> >>
<1> SUFFICES ASSUME NEW v \in [en_vars: Bytes, args: Bytes, host_name: Bytes,
                               name: [jobid: Int, vpid: Int]]
             PROVE  Is_2(AvroRecord(F), v)
  OBVIOUS
<1>1. v = [x \in {"en_vars", "args", "host_name", "name"} |-> v[x]]
  OBVIOUS
<1>2. /\ IsRecord(F, v)
      /\ \A i \in 1..Len(F) :
           F[i] \in {<<"en_vars", AvroString>>, <<"args", AvroString>>,
                     <<"host_name", AvroString>>, <<"name", ProcessName>>}
  <2>1. /\ IsSeq(F) /\ Len(F) = 4
        /\ F[1] = <<"en_vars", AvroString>> /\ F[2] = <<"args", AvroString>>
        /\ F[3] = <<"host_name", AvroString>> /\ F[4] = <<"name", ProcessName>>
    BY DEF IsSeq
  <2> HIDE DEF F
  <2>2. \A i \in 1..Len(F) : i = 1 \/ i = 2 \/ i = 3 \/ i = 4
    BY <2>1
  <2>3. {F[i][1] : i \in 1..Len(F)} = {"en_vars", "args", "host_name", "name"}
    BY <2>1, <2>2
  <2>4. \A i, j \in 1..Len(F) : F[i][1] = F[j][1] => i = j
    <3>1. /\ F[1][1] = "en_vars" /\ F[2][1] = "args" /\ F[3][1] = "host_name" /\ F[4][1] = "name"
      BY <2>1
    <3> QED
      BY ONLY <2>2, <3>1
  <2>5. IsRecord(F, v)
    BY <1>1, <2>1, <2>3, <2>4 DEF IsRecord
  <2> QED
    BY <2>1, <2>2, <2>5
<1> HIDE DEF F
<1>3. \A i \in 1..Len(F) : Is_1(F[i][2], v[F[i][1]])
  BY <1>2, TextIs, ProcessNameIs, ScalarsAre
<1> QED
  BY <1>2, <1>3, RecordIsValue

-----------------------------------------------------------------------------
(* The schemas in use, and what their values are.                            *)

\* S is a schema of so many levels, and its values are in V.
Has_0(S, V) == IsScalarSchema(S) /\ \A v : IsScalar(S, v) => v \in V
Has_1(S, V) == IsSchema_1(S) /\ \A v : Is_1(S, v) => v \in V
Has_2(S, V) == IsSchema_2(S) /\ \A v : Is_2(S, v) => v \in V
Has_3(S, V) == IsSchema_3(S) /\ \A v : Is_3(S, v) => v \in V
HasValues(S, V) == IsSchema(S) /\ \A v : IsValue(S, v) => v \in V

\* A schema without parts has no more values at the other levels.
LEMMA ScalarHas ==
    ASSUME NEW S, NEW V, Has_0(S, V)
    PROVE  Has_1(S, V) /\ Has_2(S, V) /\ Has_3(S, V)
<1>1. IsSchema_1(S) /\ IsSchema_2(S) /\ IsSchema_3(S)
  BY DEF Has_0, IsSchema_1, IsSchema_2, IsSchema_3, IsSchemaWith
<1>2. \A v : ~IsShape(S, v)
  BY DEF Has_0, IsScalarSchema, IsShape
<1>3. ASSUME NEW v, Is_1(S, v) \/ Is_2(S, v) \/ Is_3(S, v) PROVE v \in V
  <2>1. IsScalar(S, v)
    BY <1>2, <1>3 DEF Is_1, Is_2, Is_3, IsWith
  <2> QED
    BY <2>1 DEF Has_0
<1> QED
  BY <1>1, <1>3 DEF Has_1, Has_2, Has_3

\* The schemas without parts that are in use.
LEMMA ScalarsHave ==
    /\ Has_0(AvroNull, {"null"}) /\ Has_0(AvroInt, Int) /\ Has_0(AvroLong, Int)
    /\ \A s : Has_0(AvroEnum(s), Int)
    /\ Has_0(AvroBoolean, BOOLEAN) /\ Has_0(AvroString, Bytes) /\ Has_0(AvroBytes, Bytes)
BY DEF Has_0, IsScalarSchema, IsScalar, AvroNull, AvroInt, AvroLong, AvroEnum, AvroBoolean,
       AvroString, AvroBytes

\* The n fields F of a record, no two with one name.
Fields(F, n) ==
    /\ IsSeq(F) /\ Len(F) = n
    /\ \A i, j \in 1..n : F[i][1] = F[j][1] => i = j

\* Their names.
NamesIn(F, n) == {F[i][1] : i \in 1..n}

\* A record is its fields, each with a value in its set.
LEMMA RecordHas ==
    ASSUME NEW F, NEW n, Fields(F, n), NEW W
    PROVE  /\ (\A i \in 1..n : Has_0(F[i][2], W[i])) =>
                 /\ IsSchema_1(AvroRecord(F))
                 /\ \A v : Is_1(AvroRecord(F), v) =>
                      v = [f \in NamesIn(F, n) |-> v[f]] /\ \A i \in 1..n : v[F[i][1]] \in W[i]
           /\ (\A i \in 1..n : Has_1(F[i][2], W[i])) =>
                 /\ IsSchema_2(AvroRecord(F))
                 /\ \A v : Is_2(AvroRecord(F), v) =>
                      v = [f \in NamesIn(F, n) |-> v[f]] /\ \A i \in 1..n : v[F[i][1]] \in W[i]
           /\ (\A i \in 1..n : Has_3(F[i][2], W[i])) =>
                 /\ IsSchema(AvroRecord(F))
                 /\ \A v : IsValue(AvroRecord(F), v) =>
                      v = [f \in NamesIn(F, n) |-> v[f]] /\ \A i \in 1..n : v[F[i][1]] \in W[i]
<1>1. PICK S : S = AvroRecord(F)
  OBVIOUS
<1>2. S.type = "record" /\ S.fields = F
  BY <1>1 DEF AvroRecord
<1>3. n \in Nat /\ DOMAIN F = 1..n
  BY DEF Fields, IsSeq
<1>4. IsCompoundSchema(S)
  BY <1>2, <1>3 DEF IsCompoundSchema, Fields
<1>5. DOMAIN PartSchemas(S) = 1..n /\ \A i \in 1..n : PartSchemas(S)[i] = F[i][2]
  BY <1>2, <1>3 DEF PartSchemas
<1>6. \A v : ~IsScalar(S, v)
  BY <1>2 DEF IsScalar
<1>7. ASSUME NEW v, IsShape(S, v)
      PROVE  /\ v = [f \in NamesIn(F, n) |-> v[f]]
             /\ DOMAIN Parts(S, v) = 1..n
             /\ \A i \in 1..n : /\ Parts(S, v)[i].schema = F[i][2]
                              /\ Parts(S, v)[i].value = v[F[i][1]]
  <2>1. v = [f \in FieldNames(S) |-> v[f]]
    BY <1>2, <1>7 DEF IsShape
  <2>2. FieldNames(S) = NamesIn(F, n)
    BY <1>2, <1>3 DEF FieldNames, NamesIn
  <2> QED
    BY <1>2, <1>3, <2>1, <2>2 DEF Parts
<1>8. ASSUME \A i \in 1..n : Has_0(F[i][2], W[i])
      PROVE  /\ IsSchema_1(S)
             /\ \A v : Is_1(S, v) =>
                  v = [f \in NamesIn(F, n) |-> v[f]] /\ \A i \in 1..n : v[F[i][1]] \in W[i]
  <2>1. IsSchema_1(S)
    BY <1>4, <1>5, <1>8 DEF Has_0, IsSchema_1, IsSchemaWith
  <2>2. ASSUME NEW v, Is_1(S, v)
        PROVE  v = [f \in NamesIn(F, n) |-> v[f]] /\ \A i \in 1..n : v[F[i][1]] \in W[i]
    <3>1. /\ IsShape(S, v)
          /\ \A i \in DOMAIN Parts(S, v) : IsScalar(Parts(S, v)[i].schema, Parts(S, v)[i].value)
      BY <1>6, <2>2 DEF Is_1, IsWith
    <3>2. \A i \in 1..n : IsScalar(F[i][2], v[F[i][1]])
      BY <1>7, <3>1
    <3> QED
      BY <1>7, <1>8, <3>1, <3>2 DEF Has_0
  <2> QED
    BY <2>1, <2>2
<1>9. ASSUME \A i \in 1..n : Has_1(F[i][2], W[i])
      PROVE  /\ IsSchema_2(S)
             /\ \A v : Is_2(S, v) =>
                  v = [f \in NamesIn(F, n) |-> v[f]] /\ \A i \in 1..n : v[F[i][1]] \in W[i]
  <2>1. IsSchema_2(S)
    BY <1>4, <1>5, <1>9 DEF Has_1, IsSchema_2, IsSchemaWith
  <2>2. ASSUME NEW v, Is_2(S, v)
        PROVE  v = [f \in NamesIn(F, n) |-> v[f]] /\ \A i \in 1..n : v[F[i][1]] \in W[i]
    <3>1. /\ IsShape(S, v)
          /\ \A i \in DOMAIN Parts(S, v) : Is_1(Parts(S, v)[i].schema, Parts(S, v)[i].value)
      BY <1>6, <2>2 DEF Is_2, IsWith
    <3>2. \A i \in 1..n : Is_1(F[i][2], v[F[i][1]])
      BY <1>7, <3>1
    <3> QED
      BY <1>7, <1>9, <3>1, <3>2 DEF Has_1
  <2> QED
    BY <2>1, <2>2
<1>10. ASSUME \A i \in 1..n : Has_3(F[i][2], W[i])
      PROVE  /\ IsSchema(S)
             /\ \A v : IsValue(S, v) =>
                  v = [f \in NamesIn(F, n) |-> v[f]] /\ \A i \in 1..n : v[F[i][1]] \in W[i]
  <2>1. IsSchema(S)
    BY <1>4, <1>5, <1>10 DEF Has_3, IsSchema, IsSchemaWith
  <2>2. ASSUME NEW v, IsValue(S, v)
        PROVE  v = [f \in NamesIn(F, n) |-> v[f]] /\ \A i \in 1..n : v[F[i][1]] \in W[i]
    <3>1. /\ IsShape(S, v)
          /\ \A i \in DOMAIN Parts(S, v) : Is_3(Parts(S, v)[i].schema, Parts(S, v)[i].value)
      BY <1>6, <2>2 DEF IsValue, IsWith
    <3>2. \A i \in 1..n : Is_3(F[i][2], v[F[i][1]])
      BY <1>7, <3>1
    <3> QED
      BY <1>7, <1>10, <3>1, <3>2 DEF Has_3
  <2> QED
    BY <2>1, <2>2
<1> QED
  BY <1>1, <1>8, <1>9, <1>10

\* An array is a sequence of values of its items.
LEMMA ArrayHas ==
    ASSUME NEW I, NEW V
    PROVE  /\ Has_0(I, V) => Has_1(AvroArray(I), Seq(V))
           /\ Has_2(I, V) => Has_3(AvroArray(I), Seq(V))
<1>1. PICK S : S = AvroArray(I)
  OBVIOUS
<1>2. S.type = "array" /\ S.items = I
  BY <1>1 DEF AvroArray
<1>3. IsCompoundSchema(S)
  BY <1>2 DEF IsCompoundSchema
<1>4. PartSchemas(S) = <<I>>
  BY <1>2 DEF PartSchemas
<1>5. DOMAIN PartSchemas(S) = {1} /\ PartSchemas(S)[1] = I
  BY <1>4
<1>6. \A v : ~IsScalar(S, v)
  BY <1>2 DEF IsScalar
<1>7. ASSUME NEW v, IsShape(S, v)
      PROVE  /\ v = [i \in 1..Len(v) |-> v[i]] /\ Len(v) \in Nat
             /\ DOMAIN Parts(S, v) = 1..Len(v)
             /\ \A i \in 1..Len(v) : /\ Parts(S, v)[i].schema = I
                                   /\ Parts(S, v)[i].value = v[i]
  <2>1. v = [i \in 1..Len(v) |-> v[i]] /\ Len(v) \in Nat
    BY <1>2, <1>7 DEF IsShape, IsSeq
  <2>2. DOMAIN v = 1..Len(v)
    BY <2>1
  <2> QED
    BY <1>2, <2>1, <2>2 DEF Parts
<1>8. ASSUME NEW v, v = [i \in 1..Len(v) |-> v[i]], Len(v) \in Nat, \A i \in 1..Len(v) : v[i] \in V
      PROVE  v \in Seq(V)
  <2>1. PICK n \in Nat : n = Len(v)
    BY <1>8
  <2>2. v = [i \in 1..n |-> v[i]] /\ \A i \in 1..n : v[i] \in V
    BY <1>8, <2>1
  <2>3. v \in [1..n -> V]
    BY <2>2
  <2> QED
    BY <2>3
<1>9. ASSUME Has_0(I, V) PROVE Has_1(S, Seq(V))
  <2>1. IsSchema_1(S)
    BY <1>3, <1>5, <1>9 DEF Has_0, IsSchema_1, IsSchemaWith
  <2>2. ASSUME NEW v, Is_1(S, v) PROVE v \in Seq(V)
    <3>1. /\ IsShape(S, v)
          /\ \A i \in DOMAIN Parts(S, v) : IsScalar(Parts(S, v)[i].schema, Parts(S, v)[i].value)
      BY <1>6, <2>2 DEF Is_1, IsWith
    <3>2. \A i \in 1..Len(v) : IsScalar(I, v[i])
      BY <1>7, <3>1
    <3>3. \A i \in 1..Len(v) : v[i] \in V
      BY <1>9, <3>2 DEF Has_0
    <3> QED
      BY <1>7, <1>8, <3>1, <3>3
  <2> QED
    BY <2>1, <2>2 DEF Has_1
<1>10. ASSUME Has_2(I, V) PROVE Has_3(S, Seq(V))
  <2>1. IsSchema_3(S)
    BY <1>3, <1>5, <1>10 DEF Has_2, IsSchema_3, IsSchemaWith
  <2>2. ASSUME NEW v, Is_3(S, v) PROVE v \in Seq(V)
    <3>1. /\ IsShape(S, v)
          /\ \A i \in DOMAIN Parts(S, v) : Is_2(Parts(S, v)[i].schema, Parts(S, v)[i].value)
      BY <1>6, <2>2 DEF Is_3, IsWith
    <3>2. \A i \in 1..Len(v) : Is_2(I, v[i])
      BY <1>7, <3>1
    <3>3. \A i \in 1..Len(v) : v[i] \in V
      BY <1>10, <3>2 DEF Has_2
    <3> QED
      BY <1>7, <1>8, <3>1, <3>3
  <2> QED
    BY <2>1, <2>2 DEF Has_3
<1> QED
  BY <1>1, <1>9, <1>10

\* The name of a process.
LEMMA ProcessNameHas == Has_1(ProcessName, [jobid: Int, vpid: Int])
<1>1. PICK F : F = << <<"jobid", AvroInt>>, <<"vpid", AvroInt>> >>
  OBVIOUS
<1>2. IsSeq(F) /\ Len(F) = 2
  BY <1>1 DEF IsSeq
<1>3. F[1] = <<"jobid", AvroInt>> /\ F[2] = <<"vpid", AvroInt>>
  BY <1>1
<1>4. \A i \in 1..2 : i = 1 \/ i = 2
  OBVIOUS
<1>5. F[1][1] = "jobid" /\ F[1][2] = AvroInt /\ F[2][1] = "vpid" /\ F[2][2] = AvroInt
  BY <1>3
<1>6. Fields(F, 2)
  <2>1. \A i, j \in 1..2 : F[i][1] = F[j][1] => i = j
    BY ONLY <1>4, <1>5
  <2> QED
    BY <1>2, <2>1 DEF Fields
<1>7. NamesIn(F, 2) = {"jobid", "vpid"}
  BY <1>4, <1>5 DEF NamesIn
<1>8. PICK W : W = <<Int, Int>>
  OBVIOUS
<1>9. W[1] = Int /\ W[2] = Int
  BY <1>8
<1>10. Has_0(AvroInt, Int) /\ Has_0(AvroInt, Int)
  BY ScalarsHave
<1>11. \A i \in 1..2 : Has_0(F[i][2], W[i])
  BY <1>4, <1>5, <1>9, <1>10
<1>12. /\ IsSchema_1(AvroRecord(F))
       /\ \A v : Is_1(AvroRecord(F), v) =>
            v = [f \in NamesIn(F, 2) |-> v[f]] /\ \A i \in 1..2 : v[F[i][1]] \in W[i]
  BY <1>6, <1>11, RecordHas
<1>13. ASSUME NEW v, Is_1(AvroRecord(F), v) PROVE v \in [jobid: Int, vpid: Int]
  <2>1. v = [f \in NamesIn(F, 2) |-> v[f]] /\ \A i \in 1..2 : v[F[i][1]] \in W[i]
    BY <1>12, <1>13
  <2>2. 1 \in 1..2 /\ 2 \in 1..2
    OBVIOUS
  <2>3. v["jobid"] \in Int /\ v["vpid"] \in Int
    BY <1>5, <1>9, <2>1, <2>2
  <2> QED
    BY <1>7, <2>1, <2>3
<1>14. ProcessName = AvroRecord(F)
  BY <1>1 DEF ProcessName
<1> QED
  BY <1>12, <1>13, <1>14 DEF Has_1

\* The items of the arrays.
NodeResource == AvroRecord(<< <<"host_name", AvroString>>, <<"slot", AvroInt>> >>)
LaunchResult == AvroRecord(<< <<"is_successful", AvroBoolean>>, <<"name", ProcessName>> >>)
ProcessStatus ==
    AvroRecord(<< <<"name", ProcessName>>, <<"state", AvroEnum(ProcessStateSymbols)>>,
                  <<"exit_value", AvroInt>> >>)
LaunchContext ==
    AvroRecord(<< <<"en_vars", AvroArray(AvroString)>>, <<"args", AvroString>>,
                  <<"host_name", AvroString>>, <<"name", ProcessName>> >>)
EarlierContext ==
    AvroRecord(<< <<"en_vars", AvroString>>, <<"args", AvroString>>,
                  <<"host_name", AvroString>>, <<"name", ProcessName>> >>)

\* And what their values are.
ProcessNames == [jobid: Int, vpid: Int]
Nodes == [host_name: Bytes, slot: Int]
Results == [is_successful: BOOLEAN, name: ProcessNames]
Statuses == [name: ProcessNames, state: Int, exit_value: Int]
ContextRecords == [en_vars: Seq(Bytes), args: Bytes, host_name: Bytes, name: ProcessNames]
EarlierContextRecords == [en_vars: Bytes, args: Bytes, host_name: Bytes, name: ProcessNames]

\* A node of an allocation.
LEMMA NodeHas == Has_2(NodeResource, Nodes)
<1>1. PICK F : F = << <<"host_name", AvroString>>, <<"slot", AvroInt>> >>
  OBVIOUS
<1>2. IsSeq(F) /\ Len(F) = 2
  BY <1>1 DEF IsSeq
<1>3. F[1] = <<"host_name", AvroString>> /\ F[2] = <<"slot", AvroInt>>
  BY <1>1
<1>4. \A i \in 1..2 : i = 1 \/ i = 2
  OBVIOUS
<1>5. F[1][1] = "host_name" /\ F[1][2] = AvroString /\ F[2][1] = "slot" /\ F[2][2] = AvroInt
  BY <1>3
<1>6. Fields(F, 2)
  <2>1. \A i, j \in 1..2 : F[i][1] = F[j][1] => i = j
    BY ONLY <1>4, <1>5
  <2> QED
    BY <1>2, <2>1 DEF Fields
<1>7. NamesIn(F, 2) = {"host_name", "slot"}
  BY <1>4, <1>5 DEF NamesIn
<1>8. PICK W : W = <<Bytes, Int>>
  OBVIOUS
<1>9. W[1] = Bytes /\ W[2] = Int
  BY <1>8
<1>10. Has_1(AvroString, Bytes) /\ Has_1(AvroInt, Int)
  BY ScalarsHave, ScalarHas, ProcessNameHas
<1>11. \A i \in 1..2 : Has_1(F[i][2], W[i])
  BY <1>4, <1>5, <1>9, <1>10
<1>12. /\ IsSchema_2(AvroRecord(F))
       /\ \A v : Is_2(AvroRecord(F), v) =>
            v = [f \in NamesIn(F, 2) |-> v[f]] /\ \A i \in 1..2 : v[F[i][1]] \in W[i]
  BY <1>6, <1>11, RecordHas
<1>13. ASSUME NEW v, Is_2(AvroRecord(F), v) PROVE v \in Nodes
  <2>1. v = [f \in NamesIn(F, 2) |-> v[f]] /\ \A i \in 1..2 : v[F[i][1]] \in W[i]
    BY <1>12, <1>13
  <2>2. 1 \in 1..2 /\ 2 \in 1..2
    OBVIOUS
  <2>3. v["host_name"] \in Bytes /\ v["slot"] \in Int
    BY <1>5, <1>9, <2>1, <2>2
  <2> QED
    BY <1>7, <2>1, <2>3 DEF Nodes
<1>14. NodeResource = AvroRecord(F)
  BY <1>1 DEF NodeResource
<1> QED
  BY <1>12, <1>13, <1>14 DEF Has_2

\* A result of a launch.
LEMMA ResultHas == Has_2(LaunchResult, Results)
<1>1. PICK F : F = << <<"is_successful", AvroBoolean>>, <<"name", ProcessName>> >>
  OBVIOUS
<1>2. IsSeq(F) /\ Len(F) = 2
  BY <1>1 DEF IsSeq
<1>3. F[1] = <<"is_successful", AvroBoolean>> /\ F[2] = <<"name", ProcessName>>
  BY <1>1
<1>4. \A i \in 1..2 : i = 1 \/ i = 2
  OBVIOUS
<1>5. F[1][1] = "is_successful" /\ F[1][2] = AvroBoolean /\ F[2][1] = "name" /\ F[2][2] = ProcessName
  BY <1>3
<1>6. Fields(F, 2)
  <2>1. \A i, j \in 1..2 : F[i][1] = F[j][1] => i = j
    BY ONLY <1>4, <1>5
  <2> QED
    BY <1>2, <2>1 DEF Fields
<1>7. NamesIn(F, 2) = {"is_successful", "name"}
  BY <1>4, <1>5 DEF NamesIn
<1>8. PICK W : W = <<BOOLEAN, ProcessNames>>
  OBVIOUS
<1>9. W[1] = BOOLEAN /\ W[2] = ProcessNames
  BY <1>8
<1>10. Has_1(AvroBoolean, BOOLEAN) /\ Has_1(ProcessName, ProcessNames)
  BY ScalarsHave, ScalarHas, ProcessNameHas DEF ProcessNames
<1>11. \A i \in 1..2 : Has_1(F[i][2], W[i])
  BY <1>4, <1>5, <1>9, <1>10
<1>12. /\ IsSchema_2(AvroRecord(F))
       /\ \A v : Is_2(AvroRecord(F), v) =>
            v = [f \in NamesIn(F, 2) |-> v[f]] /\ \A i \in 1..2 : v[F[i][1]] \in W[i]
  BY <1>6, <1>11, RecordHas
<1>13. ASSUME NEW v, Is_2(AvroRecord(F), v) PROVE v \in Results
  <2>1. v = [f \in NamesIn(F, 2) |-> v[f]] /\ \A i \in 1..2 : v[F[i][1]] \in W[i]
    BY <1>12, <1>13
  <2>2. 1 \in 1..2 /\ 2 \in 1..2
    OBVIOUS
  <2>3. v["is_successful"] \in BOOLEAN /\ v["name"] \in ProcessNames
    BY <1>5, <1>9, <2>1, <2>2
  <2> QED
    BY <1>7, <2>1, <2>3 DEF Results
<1>14. LaunchResult = AvroRecord(F)
  BY <1>1 DEF LaunchResult
<1> QED
  BY <1>12, <1>13, <1>14 DEF Has_2

\* The status of a process.
LEMMA StatusHas == Has_2(ProcessStatus, Statuses)
<1>1. PICK F : F = << <<"name", ProcessName>>, <<"state", AvroEnum(ProcessStateSymbols)>>, <<"exit_value", AvroInt>> >>
  OBVIOUS
<1>2. IsSeq(F) /\ Len(F) = 3
  BY <1>1 DEF IsSeq
<1>3. F[1] = <<"name", ProcessName>> /\ F[2] = <<"state", AvroEnum(ProcessStateSymbols)>> /\ F[3] = <<"exit_value", AvroInt>>
  BY <1>1
<1>4. \A i \in 1..3 : i = 1 \/ i = 2 \/ i = 3
  OBVIOUS
<1>5. F[1][1] = "name" /\ F[1][2] = ProcessName /\ F[2][1] = "state" /\ F[2][2] = AvroEnum(ProcessStateSymbols) /\ F[3][1] = "exit_value" /\ F[3][2] = AvroInt
  BY <1>3
<1>6. Fields(F, 3)
  <2>1. \A i, j \in 1..3 : F[i][1] = F[j][1] => i = j
    BY ONLY <1>4, <1>5
  <2> QED
    BY <1>2, <2>1 DEF Fields
<1>7. NamesIn(F, 3) = {"name", "state", "exit_value"}
  BY <1>4, <1>5 DEF NamesIn
<1>8. PICK W : W = <<ProcessNames, Int, Int>>
  OBVIOUS
<1>9. W[1] = ProcessNames /\ W[2] = Int /\ W[3] = Int
  BY <1>8
<1>10. Has_1(ProcessName, ProcessNames) /\ Has_1(AvroEnum(ProcessStateSymbols), Int) /\ Has_1(AvroInt, Int)
  BY ScalarsHave, ScalarHas, ProcessNameHas DEF ProcessNames
<1>11. \A i \in 1..3 : Has_1(F[i][2], W[i])
  BY <1>4, <1>5, <1>9, <1>10
<1>12. /\ IsSchema_2(AvroRecord(F))
       /\ \A v : Is_2(AvroRecord(F), v) =>
            v = [f \in NamesIn(F, 3) |-> v[f]] /\ \A i \in 1..3 : v[F[i][1]] \in W[i]
  BY <1>6, <1>11, RecordHas
<1>13. ASSUME NEW v, Is_2(AvroRecord(F), v) PROVE v \in Statuses
  <2>1. v = [f \in NamesIn(F, 3) |-> v[f]] /\ \A i \in 1..3 : v[F[i][1]] \in W[i]
    BY <1>12, <1>13
  <2>2. 1 \in 1..3 /\ 2 \in 1..3 /\ 3 \in 1..3
    OBVIOUS
  <2>3. v["name"] \in ProcessNames /\ v["state"] \in Int /\ v["exit_value"] \in Int
    BY <1>5, <1>9, <2>1, <2>2
  <2> QED
    BY <1>7, <2>1, <2>3 DEF Statuses
<1>14. ProcessStatus = AvroRecord(F)
  BY <1>1 DEF ProcessStatus
<1> QED
  BY <1>12, <1>13, <1>14 DEF Has_2

\* The context of a launch, with an array of its own.
LEMMA ContextHas == Has_2(LaunchContext, ContextRecords)
<1>1. PICK F : F = << <<"en_vars", AvroArray(AvroString)>>, <<"args", AvroString>>, <<"host_name", AvroString>>, <<"name", ProcessName>> >>
  OBVIOUS
<1>2. IsSeq(F) /\ Len(F) = 4
  BY <1>1 DEF IsSeq
<1>3. F[1] = <<"en_vars", AvroArray(AvroString)>> /\ F[2] = <<"args", AvroString>> /\ F[3] = <<"host_name", AvroString>> /\ F[4] = <<"name", ProcessName>>
  BY <1>1
<1>4. \A i \in 1..4 : i = 1 \/ i = 2 \/ i = 3 \/ i = 4
  OBVIOUS
<1>5. F[1][1] = "en_vars" /\ F[1][2] = AvroArray(AvroString) /\ F[2][1] = "args" /\ F[2][2] = AvroString /\ F[3][1] = "host_name" /\ F[3][2] = AvroString /\ F[4][1] = "name" /\ F[4][2] = ProcessName
  BY <1>3
<1>6. Fields(F, 4)
  <2>1. \A i, j \in 1..4 : F[i][1] = F[j][1] => i = j
    BY ONLY <1>4, <1>5
  <2> QED
    BY <1>2, <2>1 DEF Fields
<1>7. NamesIn(F, 4) = {"en_vars", "args", "host_name", "name"}
  BY <1>4, <1>5 DEF NamesIn
<1>8. PICK W : W = <<Seq(Bytes), Bytes, Bytes, ProcessNames>>
  OBVIOUS
<1>9. W[1] = Seq(Bytes) /\ W[2] = Bytes /\ W[3] = Bytes /\ W[4] = ProcessNames
  BY <1>8
<1>10. Has_1(AvroArray(AvroString), Seq(Bytes)) /\ Has_1(AvroString, Bytes) /\ Has_1(AvroString, Bytes) /\ Has_1(ProcessName, ProcessNames)
  BY ScalarsHave, ScalarHas, ProcessNameHas, ArrayHas DEF ProcessNames
<1>11. \A i \in 1..4 : Has_1(F[i][2], W[i])
  BY <1>4, <1>5, <1>9, <1>10
<1>12. /\ IsSchema_2(AvroRecord(F))
       /\ \A v : Is_2(AvroRecord(F), v) =>
            v = [f \in NamesIn(F, 4) |-> v[f]] /\ \A i \in 1..4 : v[F[i][1]] \in W[i]
  BY <1>6, <1>11, RecordHas
<1>13. ASSUME NEW v, Is_2(AvroRecord(F), v) PROVE v \in ContextRecords
  <2>1. v = [f \in NamesIn(F, 4) |-> v[f]] /\ \A i \in 1..4 : v[F[i][1]] \in W[i]
    BY <1>12, <1>13
  <2>2. 1 \in 1..4 /\ 2 \in 1..4 /\ 3 \in 1..4 /\ 4 \in 1..4
    OBVIOUS
  <2>3. v["en_vars"] \in Seq(Bytes) /\ v["args"] \in Bytes /\ v["host_name"] \in Bytes /\ v["name"] \in ProcessNames
    BY <1>5, <1>9, <2>1, <2>2
  <2> QED
    BY <1>7, <2>1, <2>3 DEF ContextRecords
<1>14. LaunchContext = AvroRecord(F)
  BY <1>1 DEF LaunchContext
<1> QED
  BY <1>12, <1>13, <1>14 DEF Has_2

\* The context of a launch in the earlier schema.
LEMMA EarlierContextHas == Has_2(EarlierContext, EarlierContextRecords)
<1>1. PICK F : F = << <<"en_vars", AvroString>>, <<"args", AvroString>>, <<"host_name", AvroString>>, <<"name", ProcessName>> >>
  OBVIOUS
<1>2. IsSeq(F) /\ Len(F) = 4
  BY <1>1 DEF IsSeq
<1>3. F[1] = <<"en_vars", AvroString>> /\ F[2] = <<"args", AvroString>> /\ F[3] = <<"host_name", AvroString>> /\ F[4] = <<"name", ProcessName>>
  BY <1>1
<1>4. \A i \in 1..4 : i = 1 \/ i = 2 \/ i = 3 \/ i = 4
  OBVIOUS
<1>5. F[1][1] = "en_vars" /\ F[1][2] = AvroString /\ F[2][1] = "args" /\ F[2][2] = AvroString /\ F[3][1] = "host_name" /\ F[3][2] = AvroString /\ F[4][1] = "name" /\ F[4][2] = ProcessName
  BY <1>3
<1>6. Fields(F, 4)
  <2>1. \A i, j \in 1..4 : F[i][1] = F[j][1] => i = j
    BY ONLY <1>4, <1>5
  <2> QED
    BY <1>2, <2>1 DEF Fields
<1>7. NamesIn(F, 4) = {"en_vars", "args", "host_name", "name"}
  BY <1>4, <1>5 DEF NamesIn
<1>8. PICK W : W = <<Bytes, Bytes, Bytes, ProcessNames>>
  OBVIOUS
<1>9. W[1] = Bytes /\ W[2] = Bytes /\ W[3] = Bytes /\ W[4] = ProcessNames
  BY <1>8
<1>10. Has_1(AvroString, Bytes) /\ Has_1(AvroString, Bytes) /\ Has_1(AvroString, Bytes) /\ Has_1(ProcessName, ProcessNames)
  BY ScalarsHave, ScalarHas, ProcessNameHas DEF ProcessNames
<1>11. \A i \in 1..4 : Has_1(F[i][2], W[i])
  BY <1>4, <1>5, <1>9, <1>10
<1>12. /\ IsSchema_2(AvroRecord(F))
       /\ \A v : Is_2(AvroRecord(F), v) =>
            v = [f \in NamesIn(F, 4) |-> v[f]] /\ \A i \in 1..4 : v[F[i][1]] \in W[i]
  BY <1>6, <1>11, RecordHas
<1>13. ASSUME NEW v, Is_2(AvroRecord(F), v) PROVE v \in EarlierContextRecords
  <2>1. v = [f \in NamesIn(F, 4) |-> v[f]] /\ \A i \in 1..4 : v[F[i][1]] \in W[i]
    BY <1>12, <1>13
  <2>2. 1 \in 1..4 /\ 2 \in 1..4 /\ 3 \in 1..4 /\ 4 \in 1..4
    OBVIOUS
  <2>3. v["en_vars"] \in Bytes /\ v["args"] \in Bytes /\ v["host_name"] \in Bytes /\ v["name"] \in ProcessNames
    BY <1>5, <1>9, <2>1, <2>2
  <2> QED
    BY <1>7, <2>1, <2>3 DEF EarlierContextRecords
<1>14. EarlierContext = AvroRecord(F)
  BY <1>1 DEF EarlierContext
<1> QED
  BY <1>12, <1>13, <1>14 DEF Has_2

\* The nodes of an allocation.
LEMMA AllocateResponseHas == HasValues(AllocateResponse, [node_resources: Seq(Nodes)])
<1>1. PICK F : F = << <<"node_resources", AvroArray(NodeResource)>> >>
  OBVIOUS
<1>2. IsSeq(F) /\ Len(F) = 1
  BY <1>1 DEF IsSeq
<1>3. F[1] = <<"node_resources", AvroArray(NodeResource)>>
  BY <1>1
<1>4. \A i \in 1..1 : i = 1
  OBVIOUS
<1>5. F[1][1] = "node_resources" /\ F[1][2] = AvroArray(NodeResource)
  BY <1>3
<1>6. Fields(F, 1)
  <2>1. \A i, j \in 1..1 : F[i][1] = F[j][1] => i = j
    BY ONLY <1>4, <1>5
  <2> QED
    BY <1>2, <2>1 DEF Fields
<1>7. NamesIn(F, 1) = {"node_resources"}
  BY <1>4, <1>5 DEF NamesIn
<1>8. PICK W : W = <<Seq(Nodes)>>
  OBVIOUS
<1>9. W[1] = Seq(Nodes)
  BY <1>8
<1>10. Has_3(AvroArray(NodeResource), Seq(Nodes))
  BY NodeHas, ArrayHas
<1>11. \A i \in 1..1 : Has_3(F[i][2], W[i])
  BY <1>4, <1>5, <1>9, <1>10
<1>12. /\ IsSchema(AvroRecord(F))
       /\ \A v : IsValue(AvroRecord(F), v) =>
            v = [f \in NamesIn(F, 1) |-> v[f]] /\ \A i \in 1..1 : v[F[i][1]] \in W[i]
  BY <1>6, <1>11, RecordHas
<1>13. ASSUME NEW v, IsValue(AvroRecord(F), v) PROVE v \in [node_resources: Seq(Nodes)]
  <2>1. v = [f \in NamesIn(F, 1) |-> v[f]] /\ \A i \in 1..1 : v[F[i][1]] \in W[i]
    BY <1>12, <1>13
  <2>2. 1 \in 1..1
    OBVIOUS
  <2>3. v["node_resources"] \in Seq(Nodes)
    BY <1>5, <1>9, <2>1, <2>2
  <2> QED
    BY <1>7, <2>1, <2>3
<1>14. AllocateResponse = AvroRecord(F)
  BY <1>1 DEF AllocateResponse, NodeResource
<1> QED
  BY <1>12, <1>13, <1>14 DEF HasValues

\* The results of a launch.
LEMMA LaunchResponseHas == HasValues(LaunchResponse, [results: Seq(Results)])
<1>1. PICK F : F = << <<"results", AvroArray(LaunchResult)>> >>
  OBVIOUS
<1>2. IsSeq(F) /\ Len(F) = 1
  BY <1>1 DEF IsSeq
<1>3. F[1] = <<"results", AvroArray(LaunchResult)>>
  BY <1>1
<1>4. \A i \in 1..1 : i = 1
  OBVIOUS
<1>5. F[1][1] = "results" /\ F[1][2] = AvroArray(LaunchResult)
  BY <1>3
<1>6. Fields(F, 1)
  <2>1. \A i, j \in 1..1 : F[i][1] = F[j][1] => i = j
    BY ONLY <1>4, <1>5
  <2> QED
    BY <1>2, <2>1 DEF Fields
<1>7. NamesIn(F, 1) = {"results"}
  BY <1>4, <1>5 DEF NamesIn
<1>8. PICK W : W = <<Seq(Results)>>
  OBVIOUS
<1>9. W[1] = Seq(Results)
  BY <1>8
<1>10. Has_3(AvroArray(LaunchResult), Seq(Results))
  BY ResultHas, ArrayHas
<1>11. \A i \in 1..1 : Has_3(F[i][2], W[i])
  BY <1>4, <1>5, <1>9, <1>10
<1>12. /\ IsSchema(AvroRecord(F))
       /\ \A v : IsValue(AvroRecord(F), v) =>
            v = [f \in NamesIn(F, 1) |-> v[f]] /\ \A i \in 1..1 : v[F[i][1]] \in W[i]
  BY <1>6, <1>11, RecordHas
<1>13. ASSUME NEW v, IsValue(AvroRecord(F), v) PROVE v \in [results: Seq(Results)]
  <2>1. v = [f \in NamesIn(F, 1) |-> v[f]] /\ \A i \in 1..1 : v[F[i][1]] \in W[i]
    BY <1>12, <1>13
  <2>2. 1 \in 1..1
    OBVIOUS
  <2>3. v["results"] \in Seq(Results)
    BY <1>5, <1>9, <2>1, <2>2
  <2> QED
    BY <1>7, <2>1, <2>3
<1>14. LaunchResponse = AvroRecord(F)
  BY <1>1 DEF LaunchResponse, LaunchResult
<1> QED
  BY <1>12, <1>13, <1>14 DEF HasValues

\* The statuses of the processes.
LEMMA HeartBeatResponseHas == HasValues(HeartBeatResponse, [completed_processes: Seq(Statuses)])
<1>1. PICK F : F = << <<"completed_processes", AvroArray(ProcessStatus)>> >>
  OBVIOUS
<1>2. IsSeq(F) /\ Len(F) = 1
  BY <1>1 DEF IsSeq
<1>3. F[1] = <<"completed_processes", AvroArray(ProcessStatus)>>
  BY <1>1
<1>4. \A i \in 1..1 : i = 1
  OBVIOUS
<1>5. F[1][1] = "completed_processes" /\ F[1][2] = AvroArray(ProcessStatus)
  BY <1>3
<1>6. Fields(F, 1)
  <2>1. \A i, j \in 1..1 : F[i][1] = F[j][1] => i = j
    BY ONLY <1>4, <1>5
  <2> QED
    BY <1>2, <2>1 DEF Fields
<1>7. NamesIn(F, 1) = {"completed_processes"}
  BY <1>4, <1>5 DEF NamesIn
<1>8. PICK W : W = <<Seq(Statuses)>>
  OBVIOUS
<1>9. W[1] = Seq(Statuses)
  BY <1>8
<1>10. Has_3(AvroArray(ProcessStatus), Seq(Statuses))
  BY StatusHas, ArrayHas
<1>11. \A i \in 1..1 : Has_3(F[i][2], W[i])
  BY <1>4, <1>5, <1>9, <1>10
<1>12. /\ IsSchema(AvroRecord(F))
       /\ \A v : IsValue(AvroRecord(F), v) =>
            v = [f \in NamesIn(F, 1) |-> v[f]] /\ \A i \in 1..1 : v[F[i][1]] \in W[i]
  BY <1>6, <1>11, RecordHas
<1>13. ASSUME NEW v, IsValue(AvroRecord(F), v) PROVE v \in [completed_processes: Seq(Statuses)]
  <2>1. v = [f \in NamesIn(F, 1) |-> v[f]] /\ \A i \in 1..1 : v[F[i][1]] \in W[i]
    BY <1>12, <1>13
  <2>2. 1 \in 1..1
    OBVIOUS
  <2>3. v["completed_processes"] \in Seq(Statuses)
    BY <1>5, <1>9, <2>1, <2>2
  <2> QED
    BY <1>7, <2>1, <2>3
<1>14. HeartBeatResponse = AvroRecord(F)
  BY <1>1 DEF HeartBeatResponse, ProcessStatus
<1> QED
  BY <1>12, <1>13, <1>14 DEF HasValues

\* The contexts of a launch.
LEMMA LaunchRequestHas == HasValues(LaunchRequest, [launchContexts: Seq(ContextRecords)])
<1>1. PICK F : F = << <<"launchContexts", AvroArray(LaunchContext)>> >>
  OBVIOUS
<1>2. IsSeq(F) /\ Len(F) = 1
  BY <1>1 DEF IsSeq
<1>3. F[1] = <<"launchContexts", AvroArray(LaunchContext)>>
  BY <1>1
<1>4. \A i \in 1..1 : i = 1
  OBVIOUS
<1>5. F[1][1] = "launchContexts" /\ F[1][2] = AvroArray(LaunchContext)
  BY <1>3
<1>6. Fields(F, 1)
  <2>1. \A i, j \in 1..1 : F[i][1] = F[j][1] => i = j
    BY ONLY <1>4, <1>5
  <2> QED
    BY <1>2, <2>1 DEF Fields
<1>7. NamesIn(F, 1) = {"launchContexts"}
  BY <1>4, <1>5 DEF NamesIn
<1>8. PICK W : W = <<Seq(ContextRecords)>>
  OBVIOUS
<1>9. W[1] = Seq(ContextRecords)
  BY <1>8
<1>10. Has_3(AvroArray(LaunchContext), Seq(ContextRecords))
  BY ContextHas, ArrayHas
<1>11. \A i \in 1..1 : Has_3(F[i][2], W[i])
  BY <1>4, <1>5, <1>9, <1>10
<1>12. /\ IsSchema(AvroRecord(F))
       /\ \A v : IsValue(AvroRecord(F), v) =>
            v = [f \in NamesIn(F, 1) |-> v[f]] /\ \A i \in 1..1 : v[F[i][1]] \in W[i]
  BY <1>6, <1>11, RecordHas
<1>13. ASSUME NEW v, IsValue(AvroRecord(F), v) PROVE v \in [launchContexts: Seq(ContextRecords)]
  <2>1. v = [f \in NamesIn(F, 1) |-> v[f]] /\ \A i \in 1..1 : v[F[i][1]] \in W[i]
    BY <1>12, <1>13
  <2>2. 1 \in 1..1
    OBVIOUS
  <2>3. v["launchContexts"] \in Seq(ContextRecords)
    BY <1>5, <1>9, <2>1, <2>2
  <2> QED
    BY <1>7, <2>1, <2>3
<1>14. LaunchRequest = AvroRecord(F)
  BY <1>1 DEF LaunchRequest, LaunchContext
<1> QED
  BY <1>12, <1>13, <1>14 DEF HasValues

\* The contexts of a launch in the earlier schema.
LEMMA EarlierRequestHas == HasValues(EarlierLaunchRequest, [launchContexts: Seq(EarlierContextRecords)])
<1>1. PICK F : F = << <<"launchContexts", AvroArray(EarlierContext)>> >>
  OBVIOUS
<1>2. IsSeq(F) /\ Len(F) = 1
  BY <1>1 DEF IsSeq
<1>3. F[1] = <<"launchContexts", AvroArray(EarlierContext)>>
  BY <1>1
<1>4. \A i \in 1..1 : i = 1
  OBVIOUS
<1>5. F[1][1] = "launchContexts" /\ F[1][2] = AvroArray(EarlierContext)
  BY <1>3
<1>6. Fields(F, 1)
  <2>1. \A i, j \in 1..1 : F[i][1] = F[j][1] => i = j
    BY ONLY <1>4, <1>5
  <2> QED
    BY <1>2, <2>1 DEF Fields
<1>7. NamesIn(F, 1) = {"launchContexts"}
  BY <1>4, <1>5 DEF NamesIn
<1>8. PICK W : W = <<Seq(EarlierContextRecords)>>
  OBVIOUS
<1>9. W[1] = Seq(EarlierContextRecords)
  BY <1>8
<1>10. Has_3(AvroArray(EarlierContext), Seq(EarlierContextRecords))
  BY EarlierContextHas, ArrayHas
<1>11. \A i \in 1..1 : Has_3(F[i][2], W[i])
  BY <1>4, <1>5, <1>9, <1>10
<1>12. /\ IsSchema(AvroRecord(F))
       /\ \A v : IsValue(AvroRecord(F), v) =>
            v = [f \in NamesIn(F, 1) |-> v[f]] /\ \A i \in 1..1 : v[F[i][1]] \in W[i]
  BY <1>6, <1>11, RecordHas
<1>13. ASSUME NEW v, IsValue(AvroRecord(F), v) PROVE v \in [launchContexts: Seq(EarlierContextRecords)]
  <2>1. v = [f \in NamesIn(F, 1) |-> v[f]] /\ \A i \in 1..1 : v[F[i][1]] \in W[i]
    BY <1>12, <1>13
  <2>2. 1 \in 1..1
    OBVIOUS
  <2>3. v["launchContexts"] \in Seq(EarlierContextRecords)
    BY <1>5, <1>9, <2>1, <2>2
  <2> QED
    BY <1>7, <2>1, <2>3
<1>14. EarlierLaunchRequest = AvroRecord(F)
  BY <1>1 DEF EarlierLaunchRequest, EarlierContext
<1> QED
  BY <1>12, <1>13, <1>14 DEF HasValues

\* The number of resources.
LEMMA AllocateRequestHas == HasValues(AllocateRequest, [resource_count: Int])
<1>1. PICK F : F = << <<"resource_count", AvroInt>> >>
  OBVIOUS
<1>2. IsSeq(F) /\ Len(F) = 1
  BY <1>1 DEF IsSeq
<1>3. F[1] = <<"resource_count", AvroInt>>
  BY <1>1
<1>4. \A i \in 1..1 : i = 1
  OBVIOUS
<1>5. F[1][1] = "resource_count" /\ F[1][2] = AvroInt
  BY <1>3
<1>6. Fields(F, 1)
  <2>1. \A i, j \in 1..1 : F[i][1] = F[j][1] => i = j
    BY ONLY <1>4, <1>5
  <2> QED
    BY <1>2, <2>1 DEF Fields
<1>7. NamesIn(F, 1) = {"resource_count"}
  BY <1>4, <1>5 DEF NamesIn
<1>8. PICK W : W = <<Int>>
  OBVIOUS
<1>9. W[1] = Int
  BY <1>8
<1>10. Has_3(AvroInt, Int)
  BY ScalarsHave, ScalarHas
<1>11. \A i \in 1..1 : Has_3(F[i][2], W[i])
  BY <1>4, <1>5, <1>9, <1>10
<1>12. /\ IsSchema(AvroRecord(F))
       /\ \A v : IsValue(AvroRecord(F), v) =>
            v = [f \in NamesIn(F, 1) |-> v[f]] /\ \A i \in 1..1 : v[F[i][1]] \in W[i]
  BY <1>6, <1>11, RecordHas
<1>13. ASSUME NEW v, IsValue(AvroRecord(F), v) PROVE v \in [resource_count: Int]
  <2>1. v = [f \in NamesIn(F, 1) |-> v[f]] /\ \A i \in 1..1 : v[F[i][1]] \in W[i]
    BY <1>12, <1>13
  <2>2. 1 \in 1..1
    OBVIOUS
  <2>3. v["resource_count"] \in Int
    BY <1>5, <1>9, <2>1, <2>2
  <2> QED
    BY <1>7, <2>1, <2>3
<1>14. AllocateRequest = AvroRecord(F)
  BY <1>1 DEF AllocateRequest
<1> QED
  BY <1>12, <1>13, <1>14 DEF HasValues

\* Success and diagnostics.
LEMMA FinishRequestHas == HasValues(FinishRequest, [succeed: BOOLEAN, diagnostics: Bytes])
<1>1. PICK F : F = << <<"succeed", AvroBoolean>>, <<"diagnostics", AvroString>> >>
  OBVIOUS
<1>2. IsSeq(F) /\ Len(F) = 2
  BY <1>1 DEF IsSeq
<1>3. F[1] = <<"succeed", AvroBoolean>> /\ F[2] = <<"diagnostics", AvroString>>
  BY <1>1
<1>4. \A i \in 1..2 : i = 1 \/ i = 2
  OBVIOUS
<1>5. F[1][1] = "succeed" /\ F[1][2] = AvroBoolean /\ F[2][1] = "diagnostics" /\ F[2][2] = AvroString
  BY <1>3
<1>6. Fields(F, 2)
  <2>1. \A i, j \in 1..2 : F[i][1] = F[j][1] => i = j
    BY ONLY <1>4, <1>5
  <2> QED
    BY <1>2, <2>1 DEF Fields
<1>7. NamesIn(F, 2) = {"succeed", "diagnostics"}
  BY <1>4, <1>5 DEF NamesIn
<1>8. PICK W : W = <<BOOLEAN, Bytes>>
  OBVIOUS
<1>9. W[1] = BOOLEAN /\ W[2] = Bytes
  BY <1>8
<1>10. Has_3(AvroBoolean, BOOLEAN) /\ Has_3(AvroString, Bytes)
  BY ScalarsHave, ScalarHas
<1>11. \A i \in 1..2 : Has_3(F[i][2], W[i])
  BY <1>4, <1>5, <1>9, <1>10
<1>12. /\ IsSchema(AvroRecord(F))
       /\ \A v : IsValue(AvroRecord(F), v) =>
            v = [f \in NamesIn(F, 2) |-> v[f]] /\ \A i \in 1..2 : v[F[i][1]] \in W[i]
  BY <1>6, <1>11, RecordHas
<1>13. ASSUME NEW v, IsValue(AvroRecord(F), v) PROVE v \in [succeed: BOOLEAN, diagnostics: Bytes]
  <2>1. v = [f \in NamesIn(F, 2) |-> v[f]] /\ \A i \in 1..2 : v[F[i][1]] \in W[i]
    BY <1>12, <1>13
  <2>2. 1 \in 1..2 /\ 2 \in 1..2
    OBVIOUS
  <2>3. v["succeed"] \in BOOLEAN /\ v["diagnostics"] \in Bytes
    BY <1>5, <1>9, <2>1, <2>2
  <2> QED
    BY <1>7, <2>1, <2>3
<1>14. FinishRequest = AvroRecord(F)
  BY <1>1 DEF FinishRequest
<1> QED
  BY <1>12, <1>13, <1>14 DEF HasValues

\* A request with its type.
LEMMA HamsterHnpRequestHas == HasValues(HamsterHnpRequest, [request: Bytes, msg_type: Int])
<1>1. PICK F : F = << <<"request", AvroBytes>>, <<"msg_type", AvroEnum(MsgTypeSymbols)>> >>
  OBVIOUS
<1>2. IsSeq(F) /\ Len(F) = 2
  BY <1>1 DEF IsSeq
<1>3. F[1] = <<"request", AvroBytes>> /\ F[2] = <<"msg_type", AvroEnum(MsgTypeSymbols)>>
  BY <1>1
<1>4. \A i \in 1..2 : i = 1 \/ i = 2
  OBVIOUS
<1>5. F[1][1] = "request" /\ F[1][2] = AvroBytes /\ F[2][1] = "msg_type" /\ F[2][2] = AvroEnum(MsgTypeSymbols)
  BY <1>3
<1>6. Fields(F, 2)
  <2>1. \A i, j \in 1..2 : F[i][1] = F[j][1] => i = j
    BY ONLY <1>4, <1>5
  <2> QED
    BY <1>2, <2>1 DEF Fields
<1>7. NamesIn(F, 2) = {"request", "msg_type"}
  BY <1>4, <1>5 DEF NamesIn
<1>8. PICK W : W = <<Bytes, Int>>
  OBVIOUS
<1>9. W[1] = Bytes /\ W[2] = Int
  BY <1>8
<1>10. Has_3(AvroBytes, Bytes) /\ Has_3(AvroEnum(MsgTypeSymbols), Int)
  BY ScalarsHave, ScalarHas
<1>11. \A i \in 1..2 : Has_3(F[i][2], W[i])
  BY <1>4, <1>5, <1>9, <1>10
<1>12. /\ IsSchema(AvroRecord(F))
       /\ \A v : IsValue(AvroRecord(F), v) =>
            v = [f \in NamesIn(F, 2) |-> v[f]] /\ \A i \in 1..2 : v[F[i][1]] \in W[i]
  BY <1>6, <1>11, RecordHas
<1>13. ASSUME NEW v, IsValue(AvroRecord(F), v) PROVE v \in [request: Bytes, msg_type: Int]
  <2>1. v = [f \in NamesIn(F, 2) |-> v[f]] /\ \A i \in 1..2 : v[F[i][1]] \in W[i]
    BY <1>12, <1>13
  <2>2. 1 \in 1..2 /\ 2 \in 1..2
    OBVIOUS
  <2>3. v["request"] \in Bytes /\ v["msg_type"] \in Int
    BY <1>5, <1>9, <2>1, <2>2
  <2> QED
    BY <1>7, <2>1, <2>3
<1>14. HamsterHnpRequest = AvroRecord(F)
  BY <1>1 DEF HamsterHnpRequest
<1> QED
  BY <1>12, <1>13, <1>14 DEF HasValues

\* The example.
LEMMA PersonHas == HasValues(Person, [height: Int, weight: Int, name: Bytes])
<1>1. PICK F : F = << <<"height", AvroLong>>, <<"weight", AvroLong>>, <<"name", AvroString>> >>
  OBVIOUS
<1>2. IsSeq(F) /\ Len(F) = 3
  BY <1>1 DEF IsSeq
<1>3. F[1] = <<"height", AvroLong>> /\ F[2] = <<"weight", AvroLong>> /\ F[3] = <<"name", AvroString>>
  BY <1>1
<1>4. \A i \in 1..3 : i = 1 \/ i = 2 \/ i = 3
  OBVIOUS
<1>5. F[1][1] = "height" /\ F[1][2] = AvroLong /\ F[2][1] = "weight" /\ F[2][2] = AvroLong /\ F[3][1] = "name" /\ F[3][2] = AvroString
  BY <1>3
<1>6. Fields(F, 3)
  <2>1. \A i, j \in 1..3 : F[i][1] = F[j][1] => i = j
    BY ONLY <1>4, <1>5
  <2> QED
    BY <1>2, <2>1 DEF Fields
<1>7. NamesIn(F, 3) = {"height", "weight", "name"}
  BY <1>4, <1>5 DEF NamesIn
<1>8. PICK W : W = <<Int, Int, Bytes>>
  OBVIOUS
<1>9. W[1] = Int /\ W[2] = Int /\ W[3] = Bytes
  BY <1>8
<1>10. Has_3(AvroLong, Int) /\ Has_3(AvroLong, Int) /\ Has_3(AvroString, Bytes)
  BY ScalarsHave, ScalarHas
<1>11. \A i \in 1..3 : Has_3(F[i][2], W[i])
  BY <1>4, <1>5, <1>9, <1>10
<1>12. /\ IsSchema(AvroRecord(F))
       /\ \A v : IsValue(AvroRecord(F), v) =>
            v = [f \in NamesIn(F, 3) |-> v[f]] /\ \A i \in 1..3 : v[F[i][1]] \in W[i]
  BY <1>6, <1>11, RecordHas
<1>13. ASSUME NEW v, IsValue(AvroRecord(F), v) PROVE v \in [height: Int, weight: Int, name: Bytes]
  <2>1. v = [f \in NamesIn(F, 3) |-> v[f]] /\ \A i \in 1..3 : v[F[i][1]] \in W[i]
    BY <1>12, <1>13
  <2>2. 1 \in 1..3 /\ 2 \in 1..3 /\ 3 \in 1..3
    OBVIOUS
  <2>3. v["height"] \in Int /\ v["weight"] \in Int /\ v["name"] \in Bytes
    BY <1>5, <1>9, <2>1, <2>2
  <2> QED
    BY <1>7, <2>1, <2>3
<1>14. Person = AvroRecord(F)
  BY <1>1 DEF Person
<1> QED
  BY <1>12, <1>13, <1>14 DEF HasValues

-----------------------------------------------------------------------------
(* The messages of the schemas in use, written to a buffer.                  *)

\* The arrays of the messages are values of their schemas.
LEMMA AllocateResponseIs == \A t \in Seq(Nodes) : IsValue(AllocateResponse, [node_resources |-> t])
<1> SUFFICES ASSUME NEW t \in Seq(Nodes) PROVE IsValue(AllocateResponse, [node_resources |-> t])
  OBVIOUS
<1>1. PICK v : v = [node_resources |-> t]
  OBVIOUS
<1>2. v = [x \in {"node_resources"} |-> v[x]] /\ v["node_resources"] = t
  BY <1>1
<1>3. IsSeq(t) /\ \A i \in 1..Len(t) : t[i] \in Nodes
  BY LenProperties, ElementOfSeq DEF IsSeq
<1>4. \A x \in Nodes : Is_2(NodeResource, x)
  BY NodeResourceIs DEF NodeResource, Nodes
<1>5. PICK C : C = NodeResource
  OBVIOUS
<1>6. IsValue(AvroRecord(<< <<"node_resources", AvroArray(C)>> >>), v)
  BY <1>2, <1>3, <1>4, <1>5, ArrayMessageIs
<1> QED
  BY <1>1, <1>5, <1>6 DEF AllocateResponse, NodeResource

\* The results of a launch.
LEMMA LaunchResponseIs == \A t \in Seq(Results) : IsValue(LaunchResponse, [results |-> t])
<1> SUFFICES ASSUME NEW t \in Seq(Results) PROVE IsValue(LaunchResponse, [results |-> t])
  OBVIOUS
<1>1. PICK v : v = [results |-> t]
  OBVIOUS
<1>2. v = [x \in {"results"} |-> v[x]] /\ v["results"] = t
  BY <1>1
<1>3. IsSeq(t) /\ \A i \in 1..Len(t) : t[i] \in Results
  BY LenProperties, ElementOfSeq DEF IsSeq
<1>4. \A x \in Results : Is_2(LaunchResult, x)
  BY LaunchResultIs DEF LaunchResult, Results, ProcessNames
<1>5. PICK C : C = LaunchResult
  OBVIOUS
<1>6. IsValue(AvroRecord(<< <<"results", AvroArray(C)>> >>), v)
  BY <1>2, <1>3, <1>4, <1>5, ArrayMessageIs
<1> QED
  BY <1>1, <1>5, <1>6 DEF LaunchResponse, LaunchResult

\* The processes of a heartbeat.
LEMMA HeartBeatResponseIs == \A t \in Seq(Statuses) : IsValue(HeartBeatResponse, [completed_processes |-> t])
<1> SUFFICES ASSUME NEW t \in Seq(Statuses) PROVE IsValue(HeartBeatResponse, [completed_processes |-> t])
  OBVIOUS
<1>1. PICK v : v = [completed_processes |-> t]
  OBVIOUS
<1>2. v = [x \in {"completed_processes"} |-> v[x]] /\ v["completed_processes"] = t
  BY <1>1
<1>3. IsSeq(t) /\ \A i \in 1..Len(t) : t[i] \in Statuses
  BY LenProperties, ElementOfSeq DEF IsSeq
<1>4. \A x \in Statuses : Is_2(ProcessStatus, x)
  BY ProcessStatusIs DEF ProcessStatus, Statuses, ProcessNames
<1>5. PICK C : C = ProcessStatus
  OBVIOUS
<1>6. IsValue(AvroRecord(<< <<"completed_processes", AvroArray(C)>> >>), v)
  BY <1>2, <1>3, <1>4, <1>5, ArrayMessageIs
<1> QED
  BY <1>1, <1>5, <1>6 DEF HeartBeatResponse, ProcessStatus

\* The contexts of a launch.
LEMMA LaunchRequestIs == \A t \in Seq(ContextRecords) : IsValue(LaunchRequest, [launchContexts |-> t])
<1> SUFFICES ASSUME NEW t \in Seq(ContextRecords) PROVE IsValue(LaunchRequest, [launchContexts |-> t])
  OBVIOUS
<1>1. PICK v : v = [launchContexts |-> t]
  OBVIOUS
<1>2. v = [x \in {"launchContexts"} |-> v[x]] /\ v["launchContexts"] = t
  BY <1>1
<1>3. IsSeq(t) /\ \A i \in 1..Len(t) : t[i] \in ContextRecords
  BY LenProperties, ElementOfSeq DEF IsSeq
<1>4. \A x \in ContextRecords : Is_2(LaunchContext, x)
  BY LaunchContextIs DEF LaunchContext, ContextRecords, ProcessNames
<1>5. PICK C : C = LaunchContext
  OBVIOUS
<1>6. IsValue(AvroRecord(<< <<"launchContexts", AvroArray(C)>> >>), v)
  BY <1>2, <1>3, <1>4, <1>5, ArrayMessageIs
<1> QED
  BY <1>1, <1>5, <1>6 DEF LaunchRequest, LaunchContext

\* And with the earlier schema.
LEMMA EarlierRequestIs == \A t \in Seq(EarlierContextRecords) : IsValue(EarlierLaunchRequest, [launchContexts |-> t])
<1> SUFFICES ASSUME NEW t \in Seq(EarlierContextRecords) PROVE IsValue(EarlierLaunchRequest, [launchContexts |-> t])
  OBVIOUS
<1>1. PICK v : v = [launchContexts |-> t]
  OBVIOUS
<1>2. v = [x \in {"launchContexts"} |-> v[x]] /\ v["launchContexts"] = t
  BY <1>1
<1>3. IsSeq(t) /\ \A i \in 1..Len(t) : t[i] \in EarlierContextRecords
  BY LenProperties, ElementOfSeq DEF IsSeq
<1>4. \A x \in EarlierContextRecords : Is_2(EarlierContext, x)
  BY EarlierContextIs DEF EarlierContext, EarlierContextRecords, ProcessNames
<1>5. PICK C : C = EarlierContext
  OBVIOUS
<1>6. IsValue(AvroRecord(<< <<"launchContexts", AvroArray(C)>> >>), v)
  BY <1>2, <1>3, <1>4, <1>5, ArrayMessageIs
<1> QED
  BY <1>1, <1>5, <1>6 DEF EarlierLaunchRequest, EarlierContext

\* A message that fitted the buffer is read as the value it was written from,
\* and no shorter piece of it can be read.
LEMMA WrittenIsRead ==
    ASSUME NEW S, NEW v, IsValue(S, v), Write(S, v).ok
    PROVE  LET b == Write(S, v).bytes
           IN  /\ b \in Bytes /\ Len(b) \in 0..BUFFER_SIZE
               /\ b = Encode(S, v)
               /\ Read(S, b) = Got(v, <<>>)
               /\ \A k \in 0..(Len(b) - 1) : ~Read(S, SubSeq(b, 1, k)).ok
<1> DEFINE b == Encode(S, v)
           reader == [c \in Bytes |-> Decode(S, c)]
<1>1. /\ b \in Bytes
      /\ \A rest \in Bytes : reader[b \o rest] = Got(v, rest)
      /\ \A k \in 0..(Len(b) - 1) : ~reader[SubSeq(b, 1, k)].ok
  BY EncodingIsRead DEF Codes
<1>2. Write(S, v).bytes = b /\ Len(b) <= BUFFER_SIZE
  BY DEF Write
<1> HIDE DEF b
<1>3. Len(b) \in Nat /\ <<>> \in Bytes /\ b \o <<>> = b
  BY <1>1, EmptySeq, LenProperties, ConcatEmptySeq DEF Bytes
<1>4. Read(S, b) = Got(v, <<>>)
  BY <1>1, <1>3 DEF Read
<1>5. ASSUME NEW k \in 0..(Len(b) - 1) PROVE ~Read(S, SubSeq(b, 1, k)).ok
  <2>1. SubSeq(b, 1, k) \in Bytes
    BY <1>1, <1>3, PrefixOfBytes
  <2> QED
    BY <1>1, <2>1 DEF Read
<1>6. Len(b) \in 0..BUFFER_SIZE
  BY <1>2, <1>3, BufferSizeAssumption
<1> QED
  BY <1>1, <1>2, <1>4, <1>5, <1>6 DEF b

\* The array of a message is as long as the array it is built from.
LEMMA ImageIs ==
    ASSUME NEW X, NEW s \in Seq(X), NEW t, t = [i \in DOMAIN s |-> t[i]]
    PROVE  /\ DOMAIN s = 1..Len(s) /\ Len(s) \in Nat
           /\ \A i \in 1..Len(s) : s[i] \in X
           /\ IsSeq(t) /\ Len(t) = Len(s) /\ DOMAIN t = DOMAIN s
<1>1. DOMAIN s = 1..Len(s) /\ Len(s) \in Nat /\ \A i \in 1..Len(s) : s[i] \in X
  BY LenProperties, ElementOfSeq
<1>2. Len(t) = Len(s) /\ DOMAIN t = 1..Len(s)
  BY <1>1, IsSequence
<1> QED
  BY <1>1, <1>2 DEF IsSeq

\* An enumerator goes on the wire as its value and comes back as itself.
LEMMA OrdinalIs ==
    ASSUME NEW enum, IsSeq(enum), NEW x, \E i \in 1..Len(enum) : enum[i] = x
    PROVE  Ordinal(enum, x) \in 0..(Len(enum) - 1) /\ NameOf(enum, Ordinal(enum, x)) = x
<1> DEFINE i == CHOOSE j \in DOMAIN enum : enum[j] = x
<1>1. DOMAIN enum = 1..Len(enum) /\ Len(enum) \in Nat
  BY DEF IsSeq
<1>2. i \in 1..Len(enum) /\ enum[i] = x
  BY <1>1
<1>3. Ordinal(enum, x) = i - 1
  BY DEF Ordinal
<1> HIDE DEF i
<1> QED
  BY <1>1, <1>2, <1>3 DEF NameOf

\* The enumerators of both enums of the C headers.
MsgTypeNames == {"ALLOCATE", "LAUNCH", "REGISTER", "FINISH", "HEARTBEAT"}
ProcessStateNames == {"RUNNING", "COMPLETED"}

\* Each comes back from its value.
LEMMA EnumeratorsAre ==
    /\ \A x \in MsgTypeNames : /\ Ordinal(msg_type_enum_t, x) \in Int
                           /\ NameOf(msg_type_enum_t, Ordinal(msg_type_enum_t, x)) = x
    /\ \A x \in ProcessStateNames : /\ Ordinal(process_state_enum_t, x) \in Int
                                /\ NameOf(process_state_enum_t, Ordinal(process_state_enum_t, x)) = x
<1> DEFINE m == msg_type_enum_t
           p == process_state_enum_t
<1>1. /\ IsSeq(m) /\ Len(m) = 5 /\ m[1] = "ALLOCATE" /\ m[2] = "LAUNCH" /\ m[3] = "REGISTER"
      /\ m[4] = "FINISH" /\ m[5] = "HEARTBEAT"
  BY DEF msg_type_enum_t, IsSeq
<1>2. IsSeq(p) /\ Len(p) = 2 /\ p[1] = "RUNNING" /\ p[2] = "COMPLETED"
  BY DEF process_state_enum_t, IsSeq
<1> HIDE DEF m, p
<1>3. \A x \in MsgTypeNames : \E i \in 1..Len(m) : m[i] = x
  BY <1>1 DEF MsgTypeNames
<1>4. \A x \in ProcessStateNames : \E i \in 1..Len(p) : p[i] = x
  BY <1>2 DEF ProcessStateNames
<1>5. ASSUME NEW x \in MsgTypeNames PROVE Ordinal(m, x) \in Int /\ NameOf(m, Ordinal(m, x)) = x
  <2>1. Ordinal(m, x) \in 0..(Len(m) - 1) /\ NameOf(m, Ordinal(m, x)) = x
    BY <1>1, <1>3, OrdinalIs, ZenonT(30)
  <2> QED
    BY <2>1
<1>6. ASSUME NEW x \in ProcessStateNames PROVE Ordinal(p, x) \in Int /\ NameOf(p, Ordinal(p, x)) = x
  <2>1. Ordinal(p, x) \in 0..(Len(p) - 1) /\ NameOf(p, Ordinal(p, x)) = x
    BY <1>2, <1>4, OrdinalIs
  <2> QED
    BY <2>1
<1> QED
  BY <1>5, <1>6 DEF m, p
=============================================================================
